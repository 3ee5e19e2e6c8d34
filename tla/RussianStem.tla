----------------------------- MODULE RussianStem -----------------------------
(***************************************************************************)
(* The Russian stemmer that stemmer2 falls back on,                        *)
(* stemmer2/sb/src_c/stem_UTF_8_russian.c, on the run-time library of      *)
(* Snowball.  One environment serves every word of a text: the state here  *)
(* is that environment, and a step stems one word with it.                 *)
(*                                                                         *)
(* The source is in UTF-8.  A letter is written here as one ASCII letter,  *)
(* in the order of the alphabet: Letters[k] is the k-th after a (U+0430).  *)
(***************************************************************************)
EXTENDS Snowball

CONSTANTS Texts    \* sequences of words, which are strings of Letters and Marks
VARIABLES z,       \* the environment
          word,    \* the word that was stemmed last
          rest     \* those that are still to come

vars == <<z, word, rest>>

Letters == "abvgdejziyklmnoprstufhcqwxQYZEUA"

\* Characters of other scripts, of one, three and four bytes.
Marks == [c \in {"-", "$", "#"} |-> CASE c = "-" -> <<45>>
                                      [] c = "$" -> <<226, 130, 172>>
                                      [] c = "#" -> <<240, 159, 152, 128>>]

Chars(s) == [k \in 1..Len(s) |-> SubSeq(s, k, k)]
LetterNo == [c \in {SubSeq(Letters, k, k) : k \in 1..Len(Letters)} |->
               CHOOSE k \in 0..31 : SubSeq(Letters, k + 1, k + 1) = c]

\* A character and a word in UTF-8.
Utf8(c) == IF c \in DOMAIN Marks THEN Marks[c]
           ELSE IF LetterNo[c] < 16 THEN <<208, 176 + LetterNo[c]>> ELSE <<209, 112 + LetterNo[c]>>
RECURSIVE Concat(_)
Concat(q) == IF q = <<>> THEN <<>> ELSE Head(q) \o Concat(Tail(q))
RU(s) == Concat([k \in 1..Len(s) |-> Utf8(SubSeq(s, k, k))])

-----------------------------------------------------------------------------
(* The tables: an ending, the place of the longest other one that is its   *)
(* own ending, and what it leads to.  Counted from 0.                      *)

Among(s, sub, res) == [s |-> RU(s), sub |-> sub, res |-> res]

a_0 == <<Among("vwisZ", -1, 1), Among("YvwisZ", 0, 2), Among("ivwisZ", 0, 2),
         Among("v", -1, 1), Among("Yv", 3, 2), Among("iv", 3, 2), Among("vwi", -1, 1),
         Among("Yvwi", 6, 2), Among("ivwi", 6, 2)>>
a_1 == <<Among("emu", -1, 1), Among("omu", -1, 1), Among("Yh", -1, 1), Among("ih", -1, 1),
         Among("uU", -1, 1), Among("UU", -1, 1), Among("eU", -1, 1), Among("oU", -1, 1),
         Among("AA", -1, 1), Among("aA", -1, 1), Among("Ye", -1, 1), Among("ee", -1, 1),
         Among("ie", -1, 1), Among("oe", -1, 1), Among("Ymi", -1, 1), Among("imi", -1, 1),
         Among("Yy", -1, 1), Among("ey", -1, 1), Among("iy", -1, 1), Among("oy", -1, 1),
         Among("Ym", -1, 1), Among("em", -1, 1), Among("im", -1, 1), Among("om", -1, 1),
         Among("ego", -1, 1), Among("ogo", -1, 1)>>
a_2 == <<Among("vw", -1, 1), Among("Yvw", 0, 2), Among("ivw", 0, 2), Among("x", -1, 1),
         Among("Ux", 3, 1), Among("uUx", 4, 2), Among("em", -1, 1), Among("nn", -1, 1)>>
a_3 == <<Among("sZ", -1, 1), Among("sA", -1, 1)>>
a_4 == <<Among("Yt", -1, 2), Among("Ut", -1, 1), Among("uUt", 1, 2), Among("At", -1, 2),
         Among("et", -1, 1), Among("uet", 4, 2), Among("it", -1, 2), Among("nY", -1, 1),
         Among("enY", 7, 2), Among("tZ", -1, 1), Among("YtZ", 9, 2), Among("itZ", 9, 2),
         Among("ewZ", -1, 1), Among("iwZ", -1, 2), Among("U", -1, 2), Among("uU", 14, 2),
         Among("la", -1, 1), Among("Yla", 16, 2), Among("ila", 16, 2), Among("na", -1, 1),
         Among("ena", 19, 2), Among("ete", -1, 1), Among("ite", -1, 2), Among("yte", -1, 1),
         Among("uyte", 23, 2), Among("eyte", 23, 2), Among("li", -1, 1), Among("Yli", 26, 2),
         Among("ili", 26, 2), Among("y", -1, 1), Among("uy", 29, 2), Among("ey", 29, 2),
         Among("l", -1, 1), Among("Yl", 32, 2), Among("il", 32, 2), Among("Ym", -1, 2),
         Among("em", -1, 1), Among("im", -1, 2), Among("n", -1, 1), Among("en", 38, 2),
         Among("lo", -1, 1), Among("Ylo", 40, 2), Among("ilo", 40, 2), Among("no", -1, 1),
         Among("eno", 43, 2), Among("nno", 43, 1)>>
a_5 == <<Among("u", -1, 1), Among("Ah", -1, 1), Among("iAh", 1, 1), Among("ah", -1, 1),
         Among("Y", -1, 1), Among("Z", -1, 1), Among("U", -1, 1), Among("ZU", 6, 1),
         Among("iU", 6, 1), Among("A", -1, 1), Among("ZA", 9, 1), Among("iA", 9, 1),
         Among("a", -1, 1), Among("ev", -1, 1), Among("ov", -1, 1), Among("e", -1, 1),
         Among("Ze", 15, 1), Among("ie", 15, 1), Among("i", -1, 1), Among("ei", 18, 1),
         Among("ii", 18, 1), Among("Ami", 18, 1), Among("iAmi", 21, 1), Among("ami", 18, 1),
         Among("y", -1, 1), Among("ey", 24, 1), Among("iey", 25, 1), Among("iy", 24, 1),
         Among("oy", 24, 1), Among("Am", -1, 1), Among("iAm", 29, 1), Among("am", -1, 1),
         Among("em", -1, 1), Among("iem", 32, 1), Among("om", -1, 1), Among("o", -1, 1)>>
a_6 == <<Among("ost", -1, 1), Among("ostZ", -1, 1)>>
a_7 == <<Among("eyw", -1, 1), Among("Z", -1, 3), Among("eywe", -1, 1), Among("n", -1, 2)>>

g_v == [s |-> <<33, 65, 8, 232>>, min |-> 1072, max |-> 1103]

-----------------------------------------------------------------------------
(* The routines.                                                           *)

\* pV is I[1], p2 is I[2]: the cursors of the commands that come through.
SetMark(r, k) == IF r.ret = 0 THEN r ELSE Yes([r.z EXCEPT !.I[k] = r.z.c])
Vowel(y) == GoPast(y, g_v, FALSE)
NoVowel(y) == GoPast(y, g_v, TRUE)
MarkPV(y) == SetMark(Vowel([y EXCEPT !.I = <<y.l, y.l>>]), 1)
MarkP2(r) == SetMark(Then(Then(Then(r, NoVowel), Vowel), NoVowel), 2)
mark_regions(y) == [MarkP2(MarkPV(y)).z EXCEPT !.c = y.c]

R2(y) == y.I[2] <= y.c

Delete(y) == Yes(SliceDel(y))
AorYa(y) == OrElse(EqSB(y, RU("a")), LAMBDA x : EqSB(x, RU("A")))

\* An ending goes: one of the first kind only after a or ya.
Allowed(f) == CASE f.ret = 0 -> f
                [] f.ret = 1 -> Then(AorYa(f.z), Delete)
                [] f.ret = 2 -> Delete(f.z)
AfterVowel(y, v) == Allowed(Ending(y, v))

\* An ending goes.
Plain(y, v) == Then(Ending(y, v), Delete)

perfective_gerund(y) == AfterVowel(y, a_0)
adjective(y) == Plain(y, a_1)
verb(y) == AfterVowel(y, a_4)
noun(y) == Plain(y, a_5)

\* try: the cursor is put back when it fails.
Try(y, r) == Yes(IF r.ret = 1 THEN r.z ELSE [r.z EXCEPT !.c = y.c])
adjectival(y) == Then(adjective(y), LAMBDA x : Try(x, AfterVowel(x, a_2)))

\* The last byte of the word is looked at before the table.
reflexive(y) == IF y.c - 3 <= y.lb \/ y.p[y.c] \notin {140, 143} THEN No([y EXCEPT !.ket = y.c])
                ELSE Plain(y, a_3)

InR2(r) == IF r.ret = 0 \/ ~R2(r.z) THEN No(r.z) ELSE r
derivational(y) ==
  IF y.c - 5 <= y.lb \/ y.p[y.c] \notin {130, 140} THEN No([y EXCEPT !.ket = y.c])
  ELSE Then(InR2(Ending(y, a_6)), Delete)

\* Of two n before the cursor the second goes.
Undouble(y) == Then(Then(EndString(y, RU("n")), LAMBDA x : EqSB(x, RU("n"))), Delete)

Tidy(f) == CASE f.ret = 0 -> f
             [] f.ret = 1 -> Undouble(SliceDel(f.z))
             [] f.ret = 2 -> Then(EqSB(f.z, RU("n")), Delete)
             [] f.ret = 3 -> Delete(f.z)
tidy_up(y) == Tidy(Ending(y, a_7))

\* The first of perfective_gerund, or reflexive and one of adjectival, verb, noun.
Again0(y, r) == [r EXCEPT !.z = IF r.ret = 1 THEN r.z ELSE Again(y, r.z)]
Ends(x) == OrElse(OrElse(Again0(x, adjectival(x)), LAMBDA u : Again0(u, verb(u))), noun)
Inflection(y) == OrElse(Again0(y, perfective_gerund(y)),
                        LAMBDA x : Ends(Again0(x, reflexive(x)).z)).z

\* try ( [ 'i' ] delete ).
DropI(y) == Then(EndString(y, RU("i")), Delete).z

Derivational(y) == derivational(y).z
TidyUp(y) == tidy_up(y).z

\* The three commands between pV and the end.
Behind(y) == Do(Do(DropI(Do(y, Inflection)), Derivational), TidyUp)

\* setlimit: all of it between pV and the end.
Limited(y, m) == IF m.l < m.I[1] THEN [m EXCEPT !.lb = y.c, !.c = m.l]
                 ELSE [Behind([m EXCEPT !.lb = m.I[1], !.c = m.l]) EXCEPT !.lb = y.c, !.c = y.c]

\* russian_UTF_8_stem().
russian_UTF_8_stem(y) == Limited(y, mark_regions(y))

\* sb_stemmer_stem() of this stemmer.
StemOf(y, s) == Terminated(russian_UTF_8_stem(SetCurrent(y, RU(s))))

Fresh == CreateEnv(2, 0)

-----------------------------------------------------------------------------
Init == z = Fresh /\ word = "" /\ rest \in Texts

Stem == /\ rest # <<>>
        /\ z' = StemOf(z, Head(rest))
        /\ word' = Head(rest)
        /\ rest' = Tail(rest)

Next == Stem

Spec == Init /\ [][Next]_vars

-----------------------------------------------------------------------------
(* What the stemmer is to do, said on letters: which endings go, in which  *)
(* part of the word and in which order.  No bytes, no cursors, no tables.  *)

Vowels == {"a", "e", "i", "o", "u", "Y", "E", "U", "A"}

\* Endings that need a or ya before them, and those that do not.
Gerund1 == {"v", "vwi", "vwisZ"}
Gerund2 == {v \o e : v \in {"i", "Y"}, e \in Gerund1}
Adjective == {v \o e : v \in {"e", "i", "Y", "o"}, e \in {"e", "y", "m"}}
               \cup {v \o "mi" : v \in {"i", "Y"}} \cup {v \o "h" : v \in {"i", "Y"}}
               \cup {v \o e : v \in {"e", "o"}, e \in {"go", "mu", "U"}}
               \cup {"uU", "UU", "aA", "AA"}
Participle1 == {"em", "nn", "vw", "Ux", "x"}
Participle2 == {"ivw", "Yvw", "uUx"}
Reflexive == {"sA", "sZ"}
Verb1 == {"la", "na", "ete", "yte", "li", "y", "l", "em", "n", "lo", "no", "et", "Ut", "nY",
          "tZ", "ewZ", "nno"}
Verb2 == {v \o e : v \in {"i", "Y"}, e \in {"la", "li", "l", "m", "lo", "t", "tZ"}}
           \cup {"e" \o e : e \in {"na", "yte", "y", "n", "no", "nY"}}
           \cup {"uyte", "ite", "uy", "At", "uet", "uUt", "iwZ", "uU", "U"}
Noun == {"a", "ev", "ov", "ie", "Ze", "e", "ei", "ii", "i", "iey", "ey", "oy", "iy", "y", "om",
         "o", "u", "Y", "Z", "iU", "ZU", "U", "iA", "ZA", "A"}
          \cup {v \o e : v \in {"A", "iA", "a"}, e \in {"mi", "m", "h"}} \cup {"em", "iem"}

\* The word without its longest ending, which has to be allowed; the word itself else.
IfAllowed(w, e, b, E2) == IF e \in E2 \/ EndsWith(b, "a") \/ EndsWith(b, "A") THEN b ELSE w
WithoutEnd(w, e, E2) == IfAllowed(w, e, But(w, e), E2)
WithoutOf(w, E1, E2) == WithoutEnd(w, LongestEnd(w, E1 \cup E2), E2)

\* The first ending that goes, of what is behind the first vowel.
AnyOf(w, a, v) == CASE a # w -> WithoutOf(a, Participle1, Participle2)
                    [] a = w /\ v # w -> v
                    [] OTHER -> Without(w, Noun)
NotGerund(w) == AnyOf(w, Without(w, Adjective), WithoutOf(w, Verb1, Verb2))
First(w, gone) == IF gone # w THEN gone ELSE NotGerund(Without(w, Reflexive))

\* -ost goes from n letters on; of -nn one n stays, and a soft sign goes.
NoOst(w, b, n) == IF Len(b) >= n THEN b ELSE w
Tidied(w, s) == IF EndsWith(s, "nn") THEN But(s, "n")
                ELSE IF s = w THEN Without(s, {"Z"}) ELSE s
Last(w) == Tidied(w, Without(w, {"eyw", "eywe"}))
Second(w, n) == Last(NoOst(w, Without(w, {"ost", "ostZ"}), n))
RefEnd(w, n) == Second(Without(First(w, WithoutOf(w, Gerund1, Gerund2)), {"i"}), n)

\* The stem: pV letters reach to the first vowel, R2 starts behind p2 letters.
RefStem(w) ==
  LET pV == UpTo(w, 0, Vowels, TRUE)
      p2 == UpTo(w, UpTo(w, UpTo(w, pV, Vowels, FALSE), Vowels, TRUE), Vowels, FALSE)
  IN  SubSeq(w, 1, pV) \o RefEnd(SubSeq(w, pV + 1, Len(w)), p2 - pV)

-----------------------------------------------------------------------------
(* Properties.                                                             *)

\* The cursors lie in the word, no slice was a faulty one, the byte that sb_stemmer_stem()
\* writes behind the word is inside of the buffer and no growth of it was forgotten.
EnvSound == /\ 0 <= z.lb /\ z.lb <= z.c /\ z.c <= z.l
            /\ ~z.err
            /\ Len(z.p) = z.l + 1 /\ Len(z.p) <= z.cap
            /\ z.p[z.l + 1] = 0

\* What find_among_b(), the tables, the regions and the limits make of a word is what the
\* rules say: its longest endings go, none that reaches before the first vowel.
FollowsRules == WordOf(z) = RU(RefStem(word))
=============================================================================
