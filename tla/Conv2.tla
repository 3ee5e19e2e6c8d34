-------------------------------- MODULE Conv2 --------------------------------
(***************************************************************************)
(* conv2/main.c: the repair of a file in UTF-8 that was read as cp1251 and *)
(* saved again.  Every token that the scanner calls Russian is turned back *)
(* piece by piece, the pieces being what is between question marks; a      *)
(* question mark is a byte that cp1251 does not have, and a suggestion of  *)
(* Hunspell may fill it.                                                   *)
(*                                                                         *)
(* A character is its code; cp1251 has the Cyrillic letters and a few      *)
(* others, enough for the letters of the texts.  A code above 10FFFF       *)
(* stands for a byte that is no UTF-8.                                     *)
(***************************************************************************)
EXTENDS Toklex

CONSTANTS Texts,    \* what was in the file before it was damaged, or the undamaged file
          Dict,     \* the words that Hunspell knows
          MaxSug    \* suggestions for a word, at most

VARIABLES orig,     \* one of Texts
          damaged,  \* whether the file was read as cp1251
          rest,     \* what is not scanned yet
          out       \* what is printed

vars == <<orig, damaged, rest, out>>

RECURSIVE Flatten(_)
Flatten(q) == IF q = <<>> THEN <<>> ELSE Head(q) \o Flatten(Tail(q))
Range(w) == {w[k] : k \in DOMAIN w}

Question == 63
NoUtf8 == 1114112

-----------------------------------------------------------------------------
(* Encodings, as glib converts them.                                       *)

High == {<<135, 8225>>, <<136, 8364>>, <<168, 1025>>, <<171, 171>>, <<184, 1105>>, <<187, 187>>}

\* The character of a byte of cp1251, and the byte of a character; -1 when there is none.
FromByte(b) == CASE b < 128 -> b
                 [] b >= 192 -> b + 848
                 [] OTHER -> IF \E h \in High : h[1] = b THEN (CHOOSE h \in High : h[1] = b)[2]
                             ELSE -1
ToByte(c) == CASE c < 128 -> c
               [] c \in 1040..1103 -> c - 848
               [] OTHER -> IF \E h \in High : h[2] = c THEN (CHOOSE h \in High : h[2] = c)[1]
                           ELSE -1

\* UTF-8 of a character: here one or two bytes.
Utf8(c) == IF c < 128 THEN <<c>> ELSE <<192 + c \div 64, 128 + (c % 64)>>

\* g_convert_with_fallback() to cp1251: "?" for a character that it does not have.
ToCp1251(w) == [k \in DOMAIN w |-> IF ToByte(w[k]) = -1 THEN Question ELSE ToByte(w[k])]

FromCp1251(b) == [k \in DOMAIN b |-> FromByte(b[k])]

\* How many bytes a character of UTF-8 that starts with b has, 0 for no start.
Width(b) == CASE b < 128 -> 1
              [] b \in 194..223 -> 2
              [] b \in 224..239 -> 3
              [] b \in 240..244 -> 4
              [] OTHER -> 0

RECURSIVE Decode(_)
\* Bytes read as UTF-8, -1 where they are none.  A character that is cut off at the end is
\* dropped without an error, because the caller asks for the number of bytes read.  Of three
\* and four bytes: a character that cp1251 does not have.
Decode(b) ==
  IF b = <<>> THEN <<>>
  ELSE LET n    == Width(b[1])
           have == IF n <= Len(b) THEN n ELSE Len(b)
           c    == CASE n = 1 -> b[1]
                     [] n = 2 -> (b[1] - 192) * 64 + b[2] - 128
                     [] OTHER -> 65533
       IN  IF n = 0 \/ \E k \in 2..have : b[k] \notin 128..191 THEN <<-1>>
           ELSE IF have < n THEN <<>> ELSE <<c>> \o Decode(SubSeq(b, n + 1, Len(b)))

\* The three conversions of a piece; <<-1>> for an error.
Convert(w) == LET d == Decode(ToCp1251(w))
              IN  IF NoUtf8 \in Range(w) \/ -1 \in Range(d) THEN <<-1>> ELSE FromCp1251(ToCp1251(d))

-----------------------------------------------------------------------------
(* Words.                                                                  *)

\* Hunspell_spell(): an empty word is right.
Spell(w) == w = <<>> \/ w \in Dict

\* The lists that Hunspell_suggest() may give.
Suggestions == UNION {[1..n -> Dict] : n \in 0..MaxSug}

\* check(): the first suggestion that differs from the word only at question marks, and has
\* one of four letters there.
Fits(w, s) == /\ Len(s) = Len(w)
              /\ \A k \in DOMAIN w : IF w[k] = Question THEN s[k] \in {1080, 1048, 1096, 1064}
                                     ELSE s[k] = w[k]

Check(w, sug) ==
  LET F == {k \in DOMAIN sug : Fits(w, sug[k])}
  IN  IF w = <<Question>> THEN <<1080>>
      ELSE IF Spell(w) \/ Question \notin Range(w) \/ F = {} THEN w
      ELSE sug[CHOOSE k \in F : \A m \in F : k <= m]

\* The first character from n on that is no question mark, or that is one.
Skip(w, n, q) == CHOOSE k \in n..Len(w) + 1 :
                   /\ k <= Len(w) => (w[k] # Question) = ~q
                   /\ \A m \in n..k - 1 : (w[m] # Question) = q

RECURSIVE Strtok(_, _)
\* The pieces that strtok(word, "?") gives, from n on.
Strtok(w, n) == LET a == Skip(w, n, FALSE)
                    b == Skip(w, a, TRUE)
                IN  IF a > Len(w) THEN <<>> ELSE <<SubSeq(w, a, b - 1)>> \o Strtok(w, b)

\* The word as it is in memory when strtok() has given its first piece: that is what is
\* printed when a piece cannot be converted.
Cut(w) == SubSeq(w, 1, Skip(w, Skip(w, 1, FALSE), TRUE) - 1)

\* A question mark behind every piece, also the last one.
BugGlue(P, flag) == Flatten([k \in DOMAIN P |-> P[k] \o <<Question>>])

\* The converted pieces with the question marks between them, and one behind them when the
\* word had one there.
Glue(P, flag) == Flatten([k \in DOMAIN P |->
                               P[k] \o IF k = Len(P) /\ ~flag THEN <<>> ELSE <<Question>>])

\* try_convert() up to check().
TryConvert(w) ==
  LET P == Strtok(w, 1)
      C == [k \in DOMAIN P |-> Convert(P[k])]
  IN  IF Spell(w) THEN [check |-> FALSE, w |-> w]
      ELSE IF <<-1>> \in Range(C) THEN [check |-> FALSE, w |-> Cut(w)]
      ELSE [check |-> TRUE, w |-> Glue(C, w[Len(w)] = Question)]

-----------------------------------------------------------------------------
\* What is in a file in UTF-8 that was read as cp1251: two characters for a letter, and a
\* question mark for a byte that cp1251 does not have.
Damage(t) == Flatten([k \in DOMAIN t |->
               [m \in DOMAIN Utf8(t[k]) |-> IF FromByte(Utf8(t[k])[m]) = -1 THEN Question
                                            ELSE FromByte(Utf8(t[k])[m])]])

Init == /\ orig \in Texts
        /\ damaged \in IF NoUtf8 \in Range(orig) THEN {FALSE} ELSE BOOLEAN
        /\ rest = IF damaged THEN Damage(orig) ELSE orig
        /\ out = <<>>

\* do_all(): one token.
Token == /\ rest # <<>>
         /\ \E t \in {NextToken(Conv2Rules, rest)} :
              /\ LET w == SubSeq(rest, 1, t.len)
                 IN  \E r \in {IF t.type = "RUS" THEN TryConvert(w)
                               ELSE [check |-> FALSE, w |-> w]} :
                       IF r.check THEN \E sug \in Suggestions : out' = out \o Check(r.w, sug)
                       ELSE out' = out \o r.w
              /\ rest' = SubSeq(rest, t.len + 1, Len(rest))
         /\ UNCHANGED <<orig, damaged>>

Next == Token

Spec == Init /\ [][Next]_vars

-----------------------------------------------------------------------------
(* Properties.                                                             *)

Done == rest = <<>>
Lost(c) == c # Question /\ Question \in Range(Damage(<<c>>))

\* A text whose bytes cp1251 all has comes back as it was, whatever the dictionary says and
\* whatever else is in the file.
Restores == Done /\ damaged /\ (\A k \in DOMAIN orig : orig[k] # Question /\ ~Lost(orig[k]))
              => out = orig

\* Where letters were lost the text keeps its length, every other character comes back, and
\* in the place of a lost one is a question mark or a letter that check() puts there.
KeepsPlaces == Done /\ damaged /\ Question \notin Range(orig)
                 => /\ Len(out) = Len(orig)
                    /\ \A k \in DOMAIN orig :
                         IF Lost(orig[k]) THEN out[k] \in {Question, 1080, 1048, 1096, 1064}
                         ELSE out[k] = orig[k]

\* A Russian letter that is a known word of its own, or has another one beside it.
Russian(c) == c \in 1040..1103
Beside(t, k) == {t[m] : m \in {k - 1, k + 1} \cap DOMAIN t}
InWord(t, k) == \/ Spell(<<t[k]>>) /\ \A c \in Beside(t, k) : ClassOf(c) # "other"
                \/ \E c \in Beside(t, k) : Russian(c)

\* A file that was not damaged is left alone when there is no question mark in it and no word
\* of one unknown letter: words that are not known are no UTF-8 when they are read as cp1251.
NoBareLetters(t) == \A k \in DOMAIN t : t[k] # Question /\ (Russian(t[k]) => InWord(t, k))
LeavesWords == Done /\ ~damaged /\ NoBareLetters(orig) => out = orig

\* No character of a damaged text is lost in the repair, not the question marks either that
\* were in it from the beginning.
KeepsLength == Done /\ damaged => Len(out) = Len(orig)
=============================================================================
