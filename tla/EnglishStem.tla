----------------------------- MODULE EnglishStem -----------------------------
(***************************************************************************)
(* The English stemmer that stemmer2 falls back on,                        *)
(* stemmer2/sb/src_c/stem_UTF_8_english.c, on the run-time library of      *)
(* Snowball.  As in RussianStem, one environment serves all words.         *)
(***************************************************************************)
EXTENDS Snowball

CONSTANTS Texts    \* sequences of words, strings of the characters of Bytes
VARIABLES z,       \* the environment
          word,    \* the word that was stemmed last
          rest     \* those that are still to come

vars == <<z, word, rest>>

Lower == "abcdefghijklmnopqrstuvwxyz"
LowerSet == {SubSeq(Lower, k, k) : k \in 1..26}

\* A character in UTF-8: the apostrophe, the letters, one character of two bytes and one of
\* three.
Bytes == [c \in LowerSet \cup {"'", "Y", "%", "$"} |->
            CASE c = "'" -> <<39>>
              [] c = "Y" -> <<89>>
              [] c = "%" -> <<195, 169>>
              [] c = "$" -> <<226, 130, 172>>
              [] OTHER   -> <<96 + CHOOSE k \in 1..26 : SubSeq(Lower, k, k) = c>>]
RECURSIVE Concat(_)
Concat(q) == IF q = <<>> THEN <<>> ELSE Head(q) \o Concat(Tail(q))
EN(s) == Concat([k \in 1..Len(s) |-> Bytes[SubSeq(s, k, k)]])

-----------------------------------------------------------------------------
(* The tables.                                                             *)

Among(s, sub, res) == [s |-> EN(s), sub |-> sub, res |-> res]

a_0 == <<Among("arsen", -1, -1), Among("commun", -1, -1), Among("gener", -1, -1)>>
a_1 == <<Among("'", -1, 1), Among("'s'", 0, 1), Among("'s", -1, 1)>>
a_2 == <<Among("ied", -1, 2), Among("s", -1, 3), Among("ies", 1, 2), Among("sses", 1, 1),
         Among("ss", 1, -1), Among("us", 1, -1)>>
a_3 == <<Among("", -1, 3), Among("bb", 0, 2), Among("dd", 0, 2), Among("ff", 0, 2),
         Among("gg", 0, 2), Among("bl", 0, 1), Among("mm", 0, 2), Among("nn", 0, 2),
         Among("pp", 0, 2), Among("rr", 0, 2), Among("at", 0, 1), Among("tt", 0, 2),
         Among("iz", 0, 1)>>
a_4 == <<Among("ed", -1, 2), Among("eed", 0, 1), Among("ing", -1, 2), Among("edly", -1, 2),
         Among("eedly", 3, 1), Among("ingly", -1, 2)>>
a_5 == <<Among("anci", -1, 3), Among("enci", -1, 2), Among("ogi", -1, 13), Among("li", -1, 16),
         Among("bli", 3, 12), Among("abli", 4, 4), Among("alli", 3, 8), Among("fulli", 3, 14),
         Among("lessli", 3, 15), Among("ousli", 3, 10), Among("entli", 3, 5),
         Among("aliti", -1, 8), Among("biliti", -1, 12), Among("iviti", -1, 11),
         Among("tional", -1, 1), Among("ational", 14, 7), Among("alism", -1, 8),
         Among("ation", -1, 7), Among("ization", 17, 6), Among("izer", -1, 6),
         Among("ator", -1, 7), Among("iveness", -1, 11), Among("fulness", -1, 9),
         Among("ousness", -1, 10)>>
a_6 == <<Among("icate", -1, 4), Among("ative", -1, 6), Among("alize", -1, 3),
         Among("iciti", -1, 4), Among("ical", -1, 4), Among("tional", -1, 1),
         Among("ational", 5, 2), Among("ful", -1, 5), Among("ness", -1, 5)>>
a_7 == <<Among("ic", -1, 1), Among("ance", -1, 1), Among("ence", -1, 1), Among("able", -1, 1),
         Among("ible", -1, 1), Among("ate", -1, 1), Among("ive", -1, 1), Among("ize", -1, 1),
         Among("iti", -1, 1), Among("al", -1, 1), Among("ism", -1, 1), Among("ion", -1, 2),
         Among("er", -1, 1), Among("ous", -1, 1), Among("ant", -1, 1), Among("ent", -1, 1),
         Among("ment", 15, 1), Among("ement", 16, 1)>>
a_8 == <<Among("e", -1, 1), Among("l", -1, 2)>>
a_9 == <<Among("succeed", -1, -1), Among("proceed", -1, -1), Among("exceed", -1, -1),
         Among("canning", -1, -1), Among("inning", -1, -1), Among("earring", -1, -1),
         Among("herring", -1, -1), Among("outing", -1, -1)>>
a_10 == <<Among("andes", -1, -1), Among("atlas", -1, -1), Among("bias", -1, -1),
          Among("cosmos", -1, -1), Among("dying", -1, 3), Among("early", -1, 9),
          Among("gently", -1, 7), Among("howe", -1, -1), Among("idly", -1, 6),
          Among("lying", -1, 4), Among("news", -1, -1), Among("only", -1, 10),
          Among("singly", -1, 11), Among("skies", -1, 2), Among("skis", -1, 1),
          Among("sky", -1, -1), Among("tying", -1, 5), Among("ugly", -1, 8)>>

g_v == [s |-> <<17, 65, 16, 1>>, min |-> 97, max |-> 121]
g_v_WXY == [s |-> <<1, 17, 65, 208, 1>>, min |-> 89, max |-> 121]
g_valid_LI == [s |-> <<55, 141, 2>>, min |-> 99, max |-> 116]

\* The replacements of Step_2, Step_3 and exception1, by the results of their tables.
Repl2 == <<"tion", "ence", "ance", "able", "ent", "ize", "ate", "al", "ful", "ous", "ive", "ble",
           "og", "ful", "less", "">>
Repl3 == <<"tion", "ate", "al", "ic", "", "">>
ReplE == <<"ski", "sky", "die", "lie", "tie", "idl", "gentl", "ugli", "earli", "onli", "singl">>

-----------------------------------------------------------------------------
(* The routines.                                                           *)

\* The look at one byte before a table is searched: is it a letter of the mask?
InMask(b, mask) == b \div 32 = 3 /\ (mask \div 2 ^ (b % 32)) % 2 = 1

\* [ substring ] when more than n bytes are left and the last one passes.
Look(y, n, ok(_), v) == IF y.c - n <= y.lb \/ ~ok(y.p[y.c]) THEN No([y EXCEPT !.ket = y.c])
                        ELSE Ending(y, v)

\* A y that is found becomes Y.
ToY(y) == [SliceFrom([y EXCEPT !.ket = y.c], EN("Y")) EXCEPT !.B = <<1>>]

\* The cursor one character further, or a failure.
Hop(y) == SkipUtf8(y.p, y.c, 0, y.l, 1)
FindY(y) == EqS([y EXCEPT !.bra = y.c], EN("y"))
VowelY(v) == IF v.ret # 0 THEN No(v.z) ELSE FindY(v.z)

\* An English y is a consonant at the start and after a vowel: it is written Y.
RECURSIVE MarkY(_)
FoundY(y, e) == CASE e.ret = 1 -> MarkY([ToY(e.z) EXCEPT !.c = y.c])
                  [] e.ret = 0 /\ Hop(y) >= 0 -> MarkY([e.z EXCEPT !.c = Hop(y)])
                  [] OTHER -> e.z
MarkY(y) == FoundY(y, VowelY(Grouping(y, g_v, TRUE)))

\* The mark of an earlier word stays.
BugUnset(y) == y

\* unset Y_found.
Unset(y) == [y EXCEPT !.B = <<0>>]

NoQuote(y, a) == [IF a.ret = 0 THEN a.z ELSE SliceDel([a.z EXCEPT !.ket = a.z.c]) EXCEPT !.c = y.c]
FirstY(y, e) == [IF e.ret = 0 THEN e.z ELSE ToY(e.z) EXCEPT !.c = y.c]
Marked(y) == MarkY(FirstY(y, FindY(y)))
prelude(y) ==
  [Marked(NoQuote(y, EqS([Unset(y) EXCEPT !.bra = y.c], EN("'")))) EXCEPT !.c = y.c]

\* p1 is I[1], p2 is I[2].  A few words have a p1 of their own.
SetMark(r, k) == IF r.ret = 0 THEN r ELSE Yes([r.z EXCEPT !.I[k] = r.z.c])
Vowel(y) == GoPast(y, g_v, FALSE)
NoVowel(y) == GoPast(y, g_v, TRUE)
Prefix(y) == IF y.c + 4 >= y.l \/ ~InMask(y.p[y.c + 5], 2375680) THEN No(y) ELSE FindAmong(y, a_0)
Region1(y, x) == IF x.ret # 0 THEN Yes(x.z) ELSE Then(Vowel(y), NoVowel)
Region2(r) == SetMark(Then(Then(r, Vowel), NoVowel), 2)
Regions(y) == Region2(SetMark(Region1(y, Prefix(y)), 1)).z
mark_regions(y) == [Regions([y EXCEPT !.I = <<y.l, y.l>>]) EXCEPT !.c = y.c]

R1(y) == y.I[1] <= y.c
R2(y) == y.I[2] <= y.c

\* One character back that is in g (in), or is not.
Passed(r) == [r EXCEPT !.ret = IF @ = 0 THEN 1 ELSE 0]
One(y, g, in) == Passed(GroupingB(y, g, in))
VowelB(y) == One(y, g_v, TRUE)
NoVowelB(y) == One(y, g_v, FALSE)

\* The end of a short syllable is before the cursor.
AtLimit(r) == r.ret = 1 /\ r.z.c <= r.z.lb
shortv(y) == \/ Then(Then(One(y, g_v_WXY, FALSE), VowelB), NoVowelB).ret = 1
             \/ AtLimit(Then(NoVowelB(y), VowelB))

\* The genitive and the plural.
Genitive(y, g) == IF g.ret = 0 THEN [g.z EXCEPT !.c = y.c] ELSE SliceDel(g.z)
Ies(y, h) == IF h >= 0 THEN SliceFrom([y EXCEPT !.c = h], EN("i")) ELSE SliceFrom(y, EN("ie"))
Gone(r) == IF r.ret = 0 THEN r.z ELSE SliceDel(r.z)
LastS(y, n) == IF n < 0 THEN y ELSE Gone(GoPastB([y EXCEPT !.c = n], g_v, FALSE))
Plural(f) == CASE f.ret = 1 -> SliceFrom(f.z, EN("ss"))
               [] f.ret = 2 -> Ies(f.z, SkipUtf8(f.z.p, f.z.c, f.z.lb, f.z.l, -2))
               [] f.ret = 3 -> LastS(f.z, SkipUtf8(f.z.p, f.z.c, f.z.lb, 0, -1))
               [] OTHER     -> f.z
Plurals(y) == Plural(Look(y, 0, LAMBDA b : b \in {100, 115}, a_2))
Step_1a(y) == Plurals(Genitive(y, Look(y, 0, LAMBDA b : b \in {39, 115}, a_1)))

\* An e behind the cursor; the cursor stays.
PutE(y) == [InsertS(y, y.c, y.c, EN("e")) EXCEPT !.c = y.c]

\* What is left after -ed and -ing is mended: by kind an e is added, the second of a double
\* letter goes, or an e is added to a short word.
SecondLetter(y, n) == IF n < 0 THEN [y EXCEPT !.ket = y.c]
                      ELSE SliceDel([y EXCEPT !.ket = y.c, !.c = n, !.bra = n])
Mend(y, kind) ==
  CASE kind = 1 -> PutE(y)
    [] kind = 2 -> SecondLetter(y, SkipUtf8(y.p, y.c, y.lb, 0, -1))
    [] kind = 3 -> IF y.c # y.I[1] \/ ~shortv(y) THEN y ELSE PutE(y)

Kind(y) == IF y.c - 1 <= y.lb \/ ~InMask(y.p[y.c], 68514004) THEN 3 ELSE FindAmongB(y, a_3).ret
Mended(y) == Mend(y, Kind(y))
Participle(f) == CASE f.ret = 0 -> f.z
                   [] f.ret = 1 -> IF R1(f.z) THEN SliceFrom(f.z, EN("ee")) ELSE f.z
                   [] f.ret = 2 -> IF GoPastB(f.z, g_v, FALSE).ret = 0 THEN f.z
                                   ELSE Mended(SliceDel(f.z))
Step_1b(y) == Participle(Look(y, 1, LAMBDA b : InMask(b, 33554576), a_4))

\* y after a consonant that is not the first letter.
Inside(r) == IF r.ret = 0 \/ r.z.c <= r.z.lb THEN r.z ELSE SliceFrom(r.z, EN("i"))
EndY(y) == OrElse(EndString(y, EN("y")), LAMBDA x : EndString(x, EN("Y")))
Step_1c(y) == Inside(Then(EndY(y), NoVowelB))

Second_(f) == IF f.ret = 0 \/ ~R1(f.z) THEN f.z
              ELSE CASE f.ret = 13 -> Then(EqSB(f.z, EN("l")), LAMBDA x : Yes(SliceFrom(x, EN(Repl2[13])))).z
                     [] f.ret = 16 -> Gone(One(f.z, g_valid_LI, TRUE))
                     [] OTHER      -> SliceFrom(f.z, EN(Repl2[f.ret]))
Step_2(y) == Second_(Look(y, 1, LAMBDA b : InMask(b, 815616), a_5))

Third_(f) == IF f.ret = 0 \/ ~R1(f.z) \/ (f.ret = 6 /\ ~R2(f.z)) THEN f.z
             ELSE SliceFrom(f.z, EN(Repl3[f.ret]))
Step_3(y) == Third_(Look(y, 2, LAMBDA b : InMask(b, 528928), a_6))

SorT(y) == OrElse(EqSB(y, EN("s")), LAMBDA x : EqSB(x, EN("t")))
Fourth_(f) == IF f.ret = 0 \/ ~R2(f.z) THEN f.z
              ELSE IF f.ret = 1 THEN SliceDel(f.z) ELSE Gone(SorT(f.z))
Step_4(y) == Fourth_(Look(y, 1, LAMBDA b : InMask(b, 1864232), a_7))

Fifth_(f) == CASE f.ret = 0 -> f.z
               [] f.ret = 1 -> IF R2(f.z) \/ (R1(f.z) /\ ~shortv(f.z)) THEN SliceDel(f.z) ELSE f.z
               [] f.ret = 2 -> IF ~R2(f.z) THEN f.z ELSE Gone(EqSB(f.z, EN("l")))
Step_5(y) == Fifth_(Look(y, 0, LAMBDA b : b \in {101, 108}, a_8))

\* The whole of what is left is one of a few words.
WholeWord(f) == IF f.ret = 0 \/ f.z.c > f.z.lb THEN No(f.z) ELSE Yes(f.z)
exception2(y) == WholeWord(Look(y, 5, LAMBDA b : b \in {100, 103}, a_9))

\* A word with a stem of its own.
OwnStem(k, ret) == IF k.c < k.l THEN No(k)
                   ELSE Yes(IF ret = -1 THEN k ELSE SliceFrom(k, EN(ReplE[ret])))
Exception(f) == IF f.ret = 0 THEN f ELSE OwnStem([f.z EXCEPT !.ket = f.z.c], f.ret)
exception1(y) ==
  IF y.c + 2 >= y.l \/ ~InMask(y.p[y.c + 3], 42750482) THEN No([y EXCEPT !.bra = y.c])
  ELSE Exception(FindAmong([y EXCEPT !.bra = y.c], a_10))

\* goto, then 'Y' <- 'y', as often as it goes.
RECURSIVE PlainY(_)
CapitalY(y, e) == CASE e.ret = 1 ->
                         PlainY(SliceFrom([e.z EXCEPT !.ket = e.z.c, !.c = y.c], EN("y")))
                    [] e.ret = 0 /\ Hop(y) >= 0 -> PlainY([e.z EXCEPT !.c = Hop(y)])
                    [] OTHER -> e.z
PlainY(y) == CapitalY(y, EqS([y EXCEPT !.bra = y.c], EN("Y")))

postlude(y) == IF y.B = <<0>> THEN y ELSE PlainY(y)

\* The steps of a word that is no exception, from its end.
Steps(y) == Do(Do(Do(Do(Do(Do(y, Step_1b), Step_1c), Step_2), Step_3), Step_4), Step_5)
AfterPlural(y, x) == IF x.ret = 1 THEN Again(y, x.z) ELSE Steps(Again(y, x.z))
Backwards(y) == AfterPlural(y, exception2(y))
Stemmed(y) == Backwards(Do([y EXCEPT !.lb = y.c, !.c = y.l], Step_1a))
Finished(y) == [postlude([y EXCEPT !.c = y.lb]) EXCEPT !.c = y.lb]

\* exception1, or hop 3, or the rest.
Regular(x) == IF SkipUtf8(x.p, x.c, 0, x.l, 3) < 0 THEN x
              ELSE Finished(Stemmed(mark_regions(prelude(x))))
Excepted(y, x) == IF x.ret = 1 THEN x.z ELSE Regular([x.z EXCEPT !.c = y.c])

\* english_UTF_8_stem().
english_UTF_8_stem(y) == Excepted(y, exception1(y))

\* sb_stemmer_stem() of this stemmer.
StemOf(y, s) == Terminated(english_UTF_8_stem(SetCurrent(y, EN(s))))

Fresh == CreateEnv(2, 1)

-----------------------------------------------------------------------------
Init == z = Fresh /\ word = "" /\ rest \in Texts

Stem == /\ rest # <<>>
        /\ z' = StemOf(z, Head(rest))
        /\ word' = Head(rest)
        /\ rest' = Tail(rest)

Next == Stem

Spec == Init /\ [][Next]_vars

-----------------------------------------------------------------------------
(* What the stemmer is to do, said on letters.                             *)

Vowels == {"a", "e", "i", "o", "u", "y"}
Doubles == {"bb", "dd", "ff", "gg", "mm", "nn", "pp", "rr", "tt"}
ValidLI == {"c", "d", "e", "g", "h", "k", "m", "n", "r", "t"}

\* Words with a stem of their own, and words that stop after the plural is gone.
Special == {<<"skis", "ski">>, <<"skies", "sky">>, <<"dying", "die">>, <<"lying", "lie">>,
            <<"tying", "tie">>, <<"idly", "idl">>, <<"gently", "gentl">>, <<"ugly", "ugli">>,
            <<"early", "earli">>, <<"only", "onli">>, <<"singly", "singl">>}
             \cup {<<w, w>> : w \in {"sky", "news", "howe", "atlas", "cosmos", "bias", "andes"}}
Invariants == {"inning", "outing", "canning", "herring", "earring", "proceed", "exceed", "succeed"}

\* Endings and what comes in their place.
Second == {<<"tional", "tion">>, <<"enci", "ence">>, <<"anci", "ance">>, <<"abli", "able">>,
           <<"entli", "ent">>, <<"izer", "ize">>, <<"ization", "ize">>, <<"ational", "ate">>,
           <<"ation", "ate">>, <<"ator", "ate">>, <<"alism", "al">>, <<"aliti", "al">>,
           <<"alli", "al">>, <<"fulness", "ful">>, <<"ousli", "ous">>, <<"ousness", "ous">>,
           <<"iveness", "ive">>, <<"iviti", "ive">>, <<"biliti", "ble">>, <<"bli", "ble">>,
           <<"ogi", "og">>, <<"fulli", "ful">>, <<"lessli", "less">>, <<"li", "">>}
Third == {<<"tional", "tion">>, <<"ational", "ate">>, <<"alize", "al">>, <<"icate", "ic">>,
          <<"iciti", "ic">>, <<"ical", "ic">>, <<"ful", "">>, <<"ness", "">>, <<"ative", "">>}
Fourth == {"al", "ance", "ence", "er", "ic", "able", "ible", "ant", "ement", "ment", "ent",
           "ism", "ate", "iti", "ous", "ive", "ize", "ion"}

Keys(M) == {m[1] : m \in M}
Of(M, k) == (CHOOSE m \in M : m[1] = k)[2]
Has(w, V) == \E k \in 1..Len(w) : Letter(w, k) \in V

\* Is the k-th y a consonant?  At the start, and after a vowel that is not such a y itself.
RECURSIVE Consonant(_, _)
Consonant(w, k) == Letter(w, k) = "y" /\ (k = 1 \/ (Letter(w, k - 1) \in Vowels
                                                     /\ ~Consonant(w, k - 1)))
RECURSIVE Joined(_)
Joined(q) == IF q = <<>> THEN "" ELSE Head(q) \o Joined(Tail(q))
YMarked(w) == Joined([k \in 1..Len(w) |-> IF Consonant(w, k) THEN "Y" ELSE Letter(w, k)])

\* Every Y is small again, when one was marked: a Y that came with the word is so, too.
YPlain(w) == Joined([k \in 1..Len(w) |-> IF Letter(w, k) = "Y" THEN "y" ELSE Letter(w, k)])

\* Does the word end in a short syllable?
Short(w) == \/ /\ Len(w) >= 3
               /\ Letter(w, Len(w)) \notin Vowels \cup {"w", "x", "Y"}
               /\ Letter(w, Len(w) - 1) \in Vowels /\ Letter(w, Len(w) - 2) \notin Vowels
            \/ Len(w) = 2 /\ Letter(w, 1) \in Vowels /\ Letter(w, 2) \notin Vowels

\* Plurals.
First_a(v) ==
  LET w == Without(v, {"'", "'s", "'s'"})
      e == LongestEnd(w, {"sses", "ied", "ies", "s", "us", "ss"})
      b == But(w, e)
  IN  CASE e = "sses"           -> b \o "ss"
        [] e \in {"ied", "ies"} -> b \o IF Len(b) >= 2 THEN "i" ELSE "ie"
        [] e = "s" -> IF Len(b) > 0 /\ Has(SubSeq(b, 1, Len(b) - 1), Vowels) THEN b ELSE w
        [] OTHER -> w

\* Past and present participles; R1 starts behind p1 letters.
First_b(w, p1) ==
  LET e == LongestEnd(w, {"eed", "eedly", "ed", "edly", "ing", "ingly"})
      b == But(w, e)
  IN  CASE e = "" -> w
        [] e \in {"eed", "eedly"} -> IF Len(b) >= p1 THEN b \o "ee" ELSE w
        [] OTHER -> IF ~Has(b, Vowels) THEN w
                    ELSE IF LongestEnd(b, {"at", "bl", "iz"}) # "" THEN b \o "e"
                    ELSE IF LongestEnd(b, Doubles) # "" THEN SubSeq(b, 1, Len(b) - 1)
                    ELSE IF Len(b) = p1 /\ Short(b) THEN b \o "e" ELSE b

First_c(w) == IF LongestEnd(w, {"y", "Y"}) # "" /\ Len(w) > 2 /\ Letter(w, Len(w) - 1) \notin Vowels
              THEN SubSeq(w, 1, Len(w) - 1) \o "i" ELSE w

\* The longest key of M goes for its other half when it is in its region and allowed there.
Exchange(w, M, p, ok(_, _)) ==
  LET e == LongestEnd(w, Keys(M))
      b == But(w, e)
  IN  IF e # "" /\ Len(b) >= p /\ ok(b, e) THEN b \o Of(M, e) ELSE w

After(b, e, k, L) == e = k => Len(b) > 0 /\ Letter(b, Len(b)) \in L

Fifth(w, p1, p2) ==
  LET b == SubSeq(w, 1, Len(w) - 1)
  IN  IF \/ EndsWith(w, "e") /\ (Len(b) >= p2 \/ (Len(b) >= p1 /\ ~Short(b)))
         \/ EndsWith(w, "ll") /\ Len(b) >= p2 THEN b ELSE w

RefStem(v) ==
  LET u   == IF Letter(v, 1) = "'" THEN SubSeq(v, 2, Len(v)) ELSE v
      w   == YMarked(u)
      pre == {x \in {"gener", "commun", "arsen"} : Len(x) <= Len(w) /\ SubSeq(w, 1, Len(x)) = x}
      p1  == IF pre # {} THEN Len(CHOOSE x \in pre : TRUE)
             ELSE UpTo(w, UpTo(w, 0, Vowels, TRUE), Vowels, FALSE)
      p2  == UpTo(w, UpTo(w, p1, Vowels, TRUE), Vowels, FALSE)
      two(b, e) == After(b, e, "ogi", {"l"}) /\ After(b, e, "li", ValidLI)
      three(b, e) == e = "ative" => Len(b) >= p2
      four(b, e) == After(b, e, "ion", {"s", "t"})
      s1a == First_a(w)
      s2  == Exchange(First_c(First_b(s1a, p1)), Second, p1, two)
      s4  == Exchange(Exchange(s2, Third, p1, three), {<<e, "">> : e \in Fourth}, p2, four)
  IN  IF v \in Keys(Special) THEN Of(Special, v)
      ELSE IF Len(v) < 3 THEN v
      ELSE LET s5 == IF s1a \in Invariants THEN s1a ELSE Fifth(s4, p1, p2)
           IN  IF w = u THEN s5 ELSE YPlain(s5)

-----------------------------------------------------------------------------
(* Properties.                                                             *)

\* The cursors lie in the word, no slice was a faulty one, and the byte that is written
\* behind the word is inside of the buffer, also where the word got longer.
EnvSound == /\ z.lb = 0 /\ 0 <= z.c /\ z.c <= z.l
            /\ ~z.err
            /\ Len(z.p) = z.l + 1 /\ Len(z.p) <= z.cap
            /\ z.p[z.l + 1] = 0

\* What the tables, the masks of last letters before them, the regions and the marks for a
\* consonant y make of a word is what the rules say.
FollowsRules == WordOf(z) = EN(RefStem(word))
=============================================================================
