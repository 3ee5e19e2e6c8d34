------------------------------ MODULE Stemmer2 ------------------------------
(***************************************************************************)
(* stemmer2: main.cpp, stem.cpp and tok.cpp.  The text goes through the    *)
(* scanner token by token; Latin and Russian words are printed with their  *)
(* stems, all else as it is.  Hunspell is asked first, and a Snowball      *)
(* stemmer when it has nothing.                                            *)
(*                                                                         *)
(* A token and a Snowball stem are pointers: into the buffer of the        *)
(* scanner, which the next token overwrites, and into the environment of   *)
(* the stemmer, which its next word overwrites.  RussianStem and           *)
(* EnglishStem say what the stems are; here a stem is the word it is of.   *)
(***************************************************************************)
EXTENDS Toklex

CONSTANTS Texts,      \* sequences of characters
          MaxStems    \* stems that Hunspell may give for a word, at most

VARIABLES text,       \* one of Texts
          rest,       \* what is not scanned yet
          pc,         \* "next", "stem" or "print"
          type,       \* Token::type
          yytext,     \* what Token::word points to
          sb,         \* for either stemmer the word in its environment
          res,        \* the StemmerOut: who made the stems, how many, of which word
          out         \* what is printed

vars == <<text, rest, pc, type, yytext, sb, res, out>>

Langs == {"en", "ru"}
Lang(t) == IF t = "ALPHA" THEN "en" ELSE "ru"
NoStems == [by |-> "none", size |-> 0, of |-> <<>>]

Init == /\ text \in Texts
        /\ rest = text
        /\ pc = "next"
        /\ type = "" /\ yytext = <<>>
        /\ sb = [l \in Langs |-> <<>>]
        /\ res = NoStems
        /\ out = <<>>

Item(w, lang, r) == [word |-> w, lang |-> lang, by |-> r.by, size |-> r.size, of |-> r.of]

\* Tokenizer::next(): what no rule takes is printed by the scanner itself.
Next_ == /\ pc = "next"
         /\ rest # <<>>
         /\ \E t \in {NextToken(Stemmer2Rules, rest)} :
              /\ rest' = SubSeq(rest, t.len + 1, Len(rest))
              /\ IF t.type = "ECHO"
                 THEN /\ out' = Append(out, Item(SubSeq(rest, 1, 1), "", NoStems))
                      /\ UNCHANGED <<pc, type, yytext>>
                 ELSE /\ type' = t.type
                      /\ yytext' = SubSeq(rest, 1, t.len)
                      /\ pc' = IF t.type \in {"ALPHA", "RUS"} THEN "stem" ELSE "print"
                      /\ UNCHANGED out
         /\ res' = NoStems
         /\ UNCHANGED <<text, sb>>

\* The Snowball stemmer is not called again for a word like the last one, by its length.
BugDoStem(n) ==
  IF n > 0 THEN res' = [by |-> "HUNSPELL", size |-> n, of |-> yytext] /\ UNCHANGED sb
  ELSE /\ sb' = [sb EXCEPT ![Lang(type)] = IF Len(@) = Len(yytext) THEN @ ELSE yytext]
       /\ res' = [by |-> "SNOWBALL", size |-> 1, of |-> sb'[Lang(type)]]

\* PImpl::do_stem(): n stems of Hunspell, or the one of Snowball.
DoStem(n) ==
  IF n > 0 THEN res' = [by |-> "HUNSPELL", size |-> n, of |-> yytext] /\ UNCHANGED sb
  ELSE /\ sb' = [sb EXCEPT ![Lang(type)] = yytext]
       /\ res' = [by |-> "SNOWBALL", size |-> 1, of |-> sb'[Lang(type)]]

\* Stemmer::stem().
Stem == /\ pc = "stem"
        /\ \E n \in 0..MaxStems : DoStem(n)
        /\ pc' = "print"
        /\ UNCHANGED <<text, rest, type, yytext, out>>

\* do_all(): the token, and in brackets its stems.  A Snowball stem is read now.
Print_ == /\ pc = "print"
          /\ LET r == IF res.by = "SNOWBALL" THEN [res EXCEPT !.of = sb[Lang(type)]] ELSE res
             IN  out' = Append(out, Item(yytext, IF res.size > 0 THEN Lang(type) ELSE "", r))
          /\ pc' = "next"
          /\ UNCHANGED <<text, rest, type, yytext, sb, res>>

Next == Next_ \/ Stem \/ Print_

Spec == Init /\ [][Next]_vars

-----------------------------------------------------------------------------
(* Properties.                                                             *)

RECURSIVE WordsOf(_)
WordsOf(q) == IF q = <<>> THEN <<>> ELSE Head(q).word \o WordsOf(Tail(q))

\* The stems apart, what is printed is the text, in its order and without gaps: also a lone
\* carriage return, which no rule of the scanner takes.
TextKept == WordsOf(out) \o (IF pc = "next" THEN <<>> ELSE yytext) \o rest = text

Has(w, class) == \E k \in DOMAIN w : ClassOf(w[k]) = class

\* A word is stemmed in the language of its letters, as a whole: English when all are Latin,
\* Russian when one is not; nothing else is stemmed, and no two stemmed words touch.
RightStemmer ==
  /\ \A k \in DOMAIN out :
       out[k].lang = IF Has(out[k].word, "other") THEN "ru"
                     ELSE IF Has(out[k].word, "alpha") THEN "en" ELSE ""
  /\ \A k \in 1..Len(out) - 1 : out[k].lang = "" \/ out[k + 1].lang = ""

\* The stems that are printed with a word are stems of that word.
OwnStems == \A k \in DOMAIN out : out[k].size > 0 => out[k].of = out[k].word
=============================================================================
