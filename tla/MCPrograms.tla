----------------------------- MODULE MCPrograms -----------------------------
(***************************************************************************)
(* The programs of the repository, and the parts of testbed that run in    *)
(* one thread, for TLC: the worker ring, the Markov generator (with enough *)
(* hash functions and with too few), its configuration, conv2, stemmer2,   *)
(* the two Snowball stemmers, the web page and the window.  They share     *)
(* nothing: part says which of them a behaviour is about, and all others   *)
(* stay as they are.                                                       *)
(***************************************************************************)
EXTENDS WorkerRing

VARIABLES part,
          mphase, mtext, prefix, table, ideal, job, served, requests,           \* Markov
          lines, cur, data, conf,                                                \* GenConfig
          orig, damaged, crest, cout,                                            \* Conv2
          stext, srest, pc, type, yytext, sb, res, sout,                         \* Stemmer2
          z, word, words,                                                        \* the stemmers
          wtext, web, left, toChild, child, block, made, toWeb, got, failed,     \* WebFront
          run, len, proc, printed, taken, wait, output, shown, errors, cut       \* DesktopFront

mk == <<mphase, mtext, prefix, table, ideal, job, served, requests>>
gc == <<lines, cur, data, conf>>
cv == <<orig, damaged, crest, cout>>
st == <<stext, srest, pc, type, yytext, sb, res, sout>>
sn == <<z, word, words>>
wf == <<wtext, web, left, toChild, child, block, made, toWeb, got, failed>>
df == <<run, len, proc, printed, taken, wait, output, shown, errors, cut>>
all == <<part, vars, mk, gc, cv, st, sn, wf, df>>

-----------------------------------------------------------------------------
(* Instances.                                                              *)

\* All texts over A of up to n characters.
TextsOver(A, n) == UNION {[1..k -> A] : k \in 0..n}

Mk == INSTANCE Markov WITH Words <- {97, 98}, Threads <- {"t1", "t2"}, MaxFiles <- 2, MaxText <- 4,
        NHash <- 2, MaxMult <- 3, SeedBits <- 4, Seeds <- {0, 3, 6, 9, 13}, MaxRequests <- 2,
        WordsPerPage <- 4, LinksTotal <- 3, ExtServers <- 2, InternLinks <- 1, ExternLinks <- 2,
        ServerFirst <- TRUE, phase <- mphase, text <- mtext

\* One hash function: some texts cannot be hashed.
Mc == INSTANCE Markov WITH Words <- {97, 98}, Threads <- {"t1"}, MaxFiles <- 2, MaxText <- 4,
        NHash <- 2, MaxMult <- 2, SeedBits <- 4, Seeds <- {0, 3, 6, 9, 13}, MaxRequests <- 1,
        WordsPerPage <- 4, LinksTotal <- 3, ExtServers <- 2, InternLinks <- 1, ExternLinks <- 2,
        ServerFirst <- TRUE, phase <- mphase, text <- mtext

Gc == INSTANCE GenConfig WITH MaxLines <- 4, Ints <- {0, 2}, Percents <- {100}, Names <- {}

\* In hexadecimal: 438 is i, 418 is I, whose second byte 98 cp1251 does not have, 447 is ch,
\* 448 is sh.
Cv == INSTANCE Conv2 WITH rest <- crest, out <- cout, MaxSug <- 2,
        Texts <- TextsOver({1080, 1048, 1095, 113, 32}, 4) \cup TextsOver({1080, 1048, 13, 10, 187, 46}, 3)
                   \cup {<<1080, 1114112>>, <<1114112, 32, 1080>>},
        Dict <- {<<1080>>, <<1095, 1080>>, <<1095, 1096, 1095>>, <<1095, 1080, 1095, 1095>>}

\* Two Latin letters, a digit, a Russian letter, a question mark, blank, CR and LF.
St == INSTANCE Stemmer2 WITH text <- stext, rest <- srest, out <- sout, MaxStems <- 2,
        Texts <- TextsOver({113, 1080, 32}, 5) \cup TextsOver({113, 81, 49, 1080, 63, 32, 13, 10}, 3)

Ru == INSTANCE RussianStem WITH rest <- words, Texts <- {}
En == INSTANCE EnglishStem WITH rest <- words, Texts <- {}

\* Every stem with every ending, after a word that leaves much in the environment, and
\* before one.
RuBodies == {"", "a", "tA", "nnn", "beregA", "kamenn", "$ao#"}
RuEnds == {""} \cup Ru!Gerund1 \cup Ru!Gerund2 \cup Ru!Adjective \cup Ru!Verb1 \cup Ru!Verb2
            \cup Ru!Noun \cup {p \o "aA" : p \in Ru!Participle1 \cup Ru!Participle2}
            \cup {"neywe", "neyw", "ennosti", "ostZ", "iesA", "uUxiesA", "letsA", "-", "nni"}
RuPivots == {"razdelAvwisZ", "m"}
RuTexts == {<<p, b \o e>> : p \in RuPivots, b \in RuBodies, e \in RuEnds}
             \cup {<<b \o e, p>> : p \in RuPivots, b \in {"a", "beregA"}, e \in RuEnds}

\* Bodies with the endings of the tables, all words of a few letters, and the words with
\* rules of their own.
EnLetters == {"a", "b", "y", "s", "'", ""}
EnBodies == {"", "hop", "hopp", "yay", "commun", "abal", "cr%$", "retoYt", "succe"}
EnEnds == {"", "sses", "ied", "ies", "us", "ss", "eed", "eedly", "ed", "edly", "ing", "ingly",
           "ated", "bling", "ized", "e", "ll", "y", "lies", "'s'", "ly"}
            \cup En!Keys(En!Second) \cup En!Keys(En!Third) \cup En!Fourth \cup En!Invariants
EnWords == {a \o b \o c \o d : a, b, c, d \in EnLetters} \cup {b \o e : b \in EnBodies, e \in EnEnds}
             \cup En!Keys(En!Special) \cup En!Invariants
EnTexts == {<<p, w>> : p \in {"yesterday", "skis"}, w \in EnWords \ {""}}

\* Texts that the buffers and pipes can hold.
Wf == INSTANCE WebFront WITH text <- wtext, MaxText <- 7, Expand <- 2, Pipe <- 6, Block <- 3, OutBuf <- 3

Df == INSTANCE DesktopFront WITH MaxRuns <- 2, MaxChars <- 3, MaxErrors <- 1

ASSUME InstancesSane == Mk!Sane /\ Mc!Sane /\ Gc!Sane /\ Wf!Sane

-----------------------------------------------------------------------------
Parts == {"ring", "markov", "markov1", "config", "conv2", "stemmer2", "russian", "english",
          "web", "desktop"}

\* What the parts start with, when they have a choice and it is not their turn.
AllInit == /\ part \in Parts
           /\ part # "conv2" => (orig = <<>> /\ damaged = FALSE)
           /\ part # "stemmer2" => stext = <<>>
           /\ words \in CASE part = "russian" -> RuTexts
                          [] part = "english" -> EnTexts
                          [] OTHER -> {<<>>}
           /\ part # "web" => wtext = 0
           /\ Init
           /\ IF part = "markov1" THEN Mc!Init ELSE Mk!Init
           /\ Gc!Init
           /\ Cv!Init
           /\ St!Init
           /\ z = IF part = "english" THEN En!Fresh ELSE Ru!Fresh
           /\ word = ""
           /\ Wf!Init
           /\ Df!Init

AllNext == /\ UNCHANGED part
           /\ IF part = "ring" THEN Next ELSE UNCHANGED vars
           /\ CASE part = "markov" -> Mk!Next
                [] part = "markov1" -> Mc!Next
                [] OTHER -> UNCHANGED mk
           /\ IF part = "config" THEN Gc!Next ELSE UNCHANGED gc
           /\ IF part = "conv2" THEN Cv!Next ELSE UNCHANGED cv
           /\ IF part = "stemmer2" THEN St!Next ELSE UNCHANGED st
           /\ CASE part = "russian" -> Ru!Next
                [] part = "english" -> En!Next
                [] OTHER -> UNCHANGED sn
           /\ IF part = "web" THEN Wf!Next ELSE UNCHANGED wf
           /\ IF part = "desktop" THEN Df!Next ELSE UNCHANGED df

AllSpec == AllInit /\ [][AllNext]_all

-----------------------------------------------------------------------------
(* Properties.                                                             *)

\* The tables that init_file() builds are those of the texts, lookup_ideal() finds every
\* state of them without a comparison, and no text is served whose states cannot be hashed.
TablesExact == /\ part = "markov" => Mk!TypeOK /\ Mk!TableMatchesText /\ Mk!LookupExact
               /\ part = "markov1" => /\ Mc!TypeOK /\ Mc!TableMatchesText /\ Mc!LookupExact
                                      /\ Mc!OnlyHashedTextsServed

\* generate() never looks for a prefix that has no state, every page follows its text, and a
\* numbered URL gets the same page from every worker at any time.
PagesRepeatable == part = "markov" => /\ Mk!NeverStuck /\ Mk!PageFollowsText
                                      /\ Mk!SameUrlSamePage

\* load_config() takes the last value of a key in the section of the generator; links and
\* threads are sane whatever the file says.
ConfigSound == Gc!TypeOK /\ Gc!LastValueWins /\ Gc!SaneLinksAndThreads

\* conv2 gives back every damaged text whose letters cp1251 has, never moves a character,
\* and leaves an undamaged one alone.
Repairs == part = "conv2" => Cv!Restores /\ Cv!KeepsPlaces /\ Cv!LeavesWords

\* stemmer2 prints the text without gaps, every word with stems of its own, from the stemmer
\* of its language.
OwnStems == part = "stemmer2" => St!TextKept /\ St!RightStemmer /\ St!OwnStems

\* After every word the cursors and the end of the buffer are where they have to be, and the
\* stem is the one of the rules for letters: nothing of an earlier word gets into it.
StemsFollowRules == /\ part = "russian" => Ru!EnvSound /\ Ru!FollowsRules
                    /\ part = "english" => En!EnvSound /\ En!FollowsRules

\* Between a front end and the program it runs nothing gets lost, and nothing of an earlier
\* text is shown.
FrontEndsExact == Wf!TypeOK /\ Wf!ResultWhole /\ Df!OwnResult /\ Df!LettersKept
=============================================================================
