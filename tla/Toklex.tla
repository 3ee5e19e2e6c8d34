------------------------------- MODULE Toklex -------------------------------
(***************************************************************************)
(* The scanners that flex makes of conv2/tokenizer.l and                   *)
(* stemmer2/tokenizer.l.  A text is a sequence of characters, by their     *)
(* codes.  A rule takes characters of some classes, one or more, or is a   *)
(* fixed string; the rule of the longest match wins, the first of those    *)
(* that are equal.  What no rule takes is copied to the output.            *)
(***************************************************************************)
EXTENDS Integers, Sequences
LOCAL INSTANCE FiniteSetsExt

\* The classes that the rules tell apart.  [[:punct:]] and the list in conv2/tokenizer.l
\* differ in the question mark alone.
ClassOf(c) == CASE c \in 65..90 \cup 97..122 -> "alpha"
                [] c \in 48..57   -> "digit"
                [] c = 63         -> "question"
                [] c \in {9, 32}  -> "blank"
                [] c = 13         -> "cr"
                [] c = 10         -> "lf"
                [] c \in 33..47 \cup 58..62 \cup {64} \cup 91..96 \cup 123..126 -> "punct"
                [] OTHER          -> "other"

Plus(type, classes) == [type |-> type, classes |-> classes, lit |-> <<>>]
Lit(type, lit) == [type |-> type, classes |-> {}, lit |-> lit]

\* conv2/tokenizer.l: a question mark is part of a word.
Conv2Rules == <<Plus("ALPHA", {"alpha"}), Plus("DIGIT", {"digit"}), Lit("PUNCT", <<187>>),
                Lit("PUNCT", <<171>>), Plus("PUNCT", {"punct"}), Plus("BLANK", {"blank"}),
                Lit("BLANK", <<13, 10>>), Lit("BLANK", <<10>>),
                Plus("RUS", {"other", "question"})>>

\* stemmer2/tokenizer.l: Latin letters may be part of a Russian word.
Stemmer2Rules == <<Plus("ALPHA", {"alpha"}), Plus("DIGIT", {"digit"}),
                   Plus("PUNCT", {"punct", "question"}), Plus("BLANK", {"blank"}),
                   Lit("BLANK", <<13, 10>>), Lit("BLANK", <<10>>),
                   Plus("RUS", {"other", "alpha"})>>

\* How many of the first characters of s a rule takes.
Match(r, s) ==
  IF r.lit # <<>> THEN IF Len(s) >= Len(r.lit) /\ SubSeq(s, 1, Len(r.lit)) = r.lit THEN Len(r.lit)
                       ELSE 0
  ELSE CHOOSE n \in 0..Len(s) : /\ \A k \in 1..n : ClassOf(s[k]) \in r.classes
                                /\ n < Len(s) => ClassOf(s[n + 1]) \notin r.classes

\* toklex(): the next token of a text that is not empty; "ECHO" for what no rule takes.
NextToken(rules, s) ==
  LET best == Max({Match(rules[k], s) : k \in DOMAIN rules})
      k    == CHOOSE k \in DOMAIN rules : /\ Match(rules[k], s) = best
                                          /\ \A m \in 1..k - 1 : Match(rules[m], s) < best
  IN  IF best = 0 THEN [type |-> "ECHO", len |-> 1] ELSE [type |-> rules[k].type, len |-> best]
=============================================================================
