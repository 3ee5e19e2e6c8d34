------------------------------- MODULE Markov -------------------------------
(***************************************************************************)
(* The page generator of the testbed.  init_markov() reads every text into *)
(* a table from prefixes (two words) to the words that follow them, and    *)
(* builds a perfect hash of each bucket of that table (testbed/markov.c).  *)
(* From then on the table is only read: the worker threads run gencb() and *)
(* generate() (testbed/main.c), one request at a time per thread, with a   *)
(* random seed of their own.                                               *)
(*                                                                         *)
(* A word is the code of its only character, so that the hash functions    *)
(* are those of the code.  Seeds have SeedBits bits instead of 32, and     *)
(* RAND_MAX is scaled with them.                                           *)
(***************************************************************************)
EXTENDS Integers, Sequences, FiniteSetsExt, SequencesExt

CONSTANTS Words,         \* the words of the texts
          Threads,       \* the worker threads
          MaxFiles,      \* bound: texts in the folder
          MaxText,       \* bound: words in all the texts together
          NHash,         \* NHASH: buckets of the state table
          MaxMult,       \* hash functions 1..MaxMult-1 are tried on a bucket
          SeedBits,      \* bits of an unsigned seed
          Seeds,         \* numbers in URLs, and values of time(0)
          MaxRequests,   \* bound: requests
          WordsPerPage, LinksTotal, ExtServers,   \* the configuration:
          InternLinks, ExternLinks,               \* thresholds for a link
          ServerFirst    \* the build evaluates printf arguments left to right

NONWORD == 10
Sane == /\ Words \subseteq 33..255
        /\ NHash \in Nat \ {0} /\ MaxMult \in Nat \ {0, 1}
        /\ Seeds \subseteq 0..(2^SeedBits - 1)
        /\ {WordsPerPage, LinksTotal, ExtServers} \subseteq Nat \ {0}

VARIABLES phase,    \* "folder", "file", "serve", "exit" (by exit()) or "crash"
          text,     \* history: the words of every text
          prefix,   \* prefix of init_file()
          table,    \* text_state: per text, from prefixes to suffix lists
          ideal,    \* ideal_state: per text, the perfect hashes
          job,      \* the call of generate() of every thread
          served,   \* history: numbered URLs and the pages they got
          requests  \* requests so far

vars == <<phase, text, prefix, table, ideal, job, served, requests>>

WordPairs == (Words \cup {NONWORD}) \X (Words \cup {NONWORD})
Start == <<NONWORD, NONWORD>>

\* The next prefix.
Shift(p, w) == <<p[2], w>>

-----------------------------------------------------------------------------
(***************************************************************************)
(* Building the tables.                                                    *)
(***************************************************************************)

\* hash_(): the family of hash functions of a bucket.
SubHash(p, nhash, mult) ==
  LET h1 == mult * p[1] + 1
      h2 == mult * (mult * h1 + p[2]) + 1
  IN  h2 % nhash

\* hash(): the bucket of a prefix, reduced modulo NHASH on the way.
Hash(p) ==
  LET Mix(h, c) == (33 * h + c) % NHash
  IN  Mix(Mix(Mix(Mix(5381 % NHash, p[1]), 1), p[2]), 1)

Bucket(states, h) == {p \in states : Hash(p) = h}

\* A multiplier is good for a bucket if no two of its states collide.
Perfect(states, size, mult) ==
  \A p, q \in states : p # q => SubHash(p, size, mult) # SubHash(q, size, mult)

Good(states) ==
  {m \in 1..(MaxMult - 1) : Perfect(states, 10 * Cardinality(states), m)}

\* A search that takes the first multiplier whether it collides or not.
BugIdealHashing(states) ==
  LET size == 10 * Cardinality(states)
  IN  [size |-> size, mult |-> 1,
       sub |-> [h \in {SubHash(p, size, 1) : p \in states} |->
                  CHOOSE p \in states : SubHash(p, size, 1) = h]]

\* ideal_hashing_(): the table is ten times as large as the bucket, and the
\* first multiplier without a collision is taken.  sub is defined where the
\* code's array is not NULL.
IdealHashing(states) ==
  LET size == 10 * Cardinality(states)
      mult == Min(Good(states))
  IN  [size |-> size, mult |-> mult,
       sub |-> [h \in {SubHash(p, size, mult) : p \in states} |->
                  CHOOSE p \in states : SubHash(p, size, mult) = h]]

\* add(): lookup() with create, addsuffix() in front, and the next prefix.
Add(tab, p, w) == [tab |-> IF p \in DOMAIN tab THEN [tab EXCEPT ![p] = <<w>> \o @]
                                               ELSE tab @@ (p :> <<w>>),
                   prefix |-> Shift(p, w)]

\* A thread that runs no request, and a URL that is not "/<number>.html".
Resting == [url |-> -2]
Other == -1

Init == /\ phase = "folder"
        /\ text = <<>>
        /\ prefix = Start
        /\ table = <<>>
        /\ ideal = <<>>
        /\ job = [t \in Threads |-> Resting]
        /\ served = {}
        /\ requests = 0

\* init_file() opens the next text of the folder.
OpenFile == /\ phase = "folder"
            /\ Len(text) < MaxFiles
            /\ phase' = "file"
            /\ text' = Append(text, <<>>)
            /\ table' = Append(table, <<>>)
            /\ prefix' = Start
            /\ UNCHANGED <<ideal, job, served, requests>>

\* The folder or a text of it cannot be opened.
OpenFails == /\ phase = "folder"
             /\ phase' = "exit"
             /\ UNCHANGED <<text, prefix, table, ideal, job, served, requests>>

\* The step of add() on the text that is being read.
AddToTable(w) == LET num == Len(table)
                     r == Add(table[num], prefix, w)
                 IN  /\ table' = [table EXCEPT ![num] = r.tab]
                     /\ prefix' = r.prefix

\* build_markov() reads a word.
ReadWord(w) == /\ phase = "file"
               /\ Len(FlattenSeq(text)) < MaxText
               /\ text' = [text EXCEPT ![Len(text)] = Append(@, w)]
               /\ AddToTable(w)
               /\ UNCHANGED <<phase, ideal, job, served, requests>>

\* At the end of the file init_file() adds NONWORD and calls ideal_hashing() on
\* every bucket; it ends the process when no multiplier is good for one of them.
CloseFile == /\ phase = "file"
             /\ AddToTable(NONWORD)
             /\ LET states == DOMAIN table'[Len(table)]
                    used == {Hash(p) : p \in states}
                IN  IF \A h \in used : Good(Bucket(states, h)) # {}
                    THEN /\ ideal' = Append(ideal, [h \in used |-> IdealHashing(Bucket(states, h))])
                         /\ phase' = "folder"
                    ELSE /\ phase' = "exit"
                         /\ UNCHANGED ideal
             /\ UNCHANGED <<text, job, served, requests>>

\* init_markov() has seen the whole folder; main() starts the workers.
StartServing == /\ phase = "folder"
                /\ phase' = "serve"
                /\ UNCHANGED <<text, prefix, table, ideal, job, served, requests>>

-----------------------------------------------------------------------------
(***************************************************************************)
(* Generating pages.                                                       *)
(***************************************************************************)

\* my_rand_r(): the new seed, and the number it stands for.
Rand(seed) == ((1103515245 % 2^SeedBits) * seed + 12345) % 2^SeedBits

RandMax == 2^(SeedBits - 1) - 1
Ret(seed) == seed % (RandMax + 1)

\* gencb(): "/<seed>.html" starts from that seed, any other URI from time(0).
\* Without a text the remainder by num_states ends the process.
Request(t, url, seed) ==
  /\ phase = "serve"
  /\ job[t] = Resting
  /\ requests < MaxRequests
  /\ requests' = requests + 1
  /\ LET s1 == Rand(seed)
         s2 == Rand(s1)
     IN  IF Len(table) = 0
         THEN /\ phase' = "crash"
              /\ UNCHANGED job
         ELSE /\ job' = [job EXCEPT ![t] = [url |-> url,
                                            left |-> Ret(s1) % WordsPerPage,
                                            file |-> (Ret(s2) % Len(table)) + 1,
                                            seed |-> s2, prefix |-> Start, page |-> <<>>]]
              /\ UNCHANGED phase
  /\ UNCHANGED <<text, prefix, table, ideal, served>>

\* lookup_ideal(): no state is compared with the prefix that is looked for.
LookupIdeal(f, p) == LET i == ideal[f][Hash(p)]
                     IN  i.sub[SubHash(p, i.size, i.mult)]

\* The loop over the suffixes of a state: the k-th one replaces the choice with
\* probability 1/k.
Choose(sufs, seed) ==
  LET after[k \in 0..Len(sufs)] ==
        IF k = 0 THEN [seed |-> seed, word |-> NONWORD]
        ELSE LET s == Rand(after[k - 1].seed)
             IN  [seed |-> s,
                  word |-> IF Ret(s) % k = 0 THEN sufs[k] ELSE after[k - 1].word]
  IN  after[Len(sufs)]

\* The links of generate(): what is written for a word, and the seed after it.
\* The draws for a new paragraph and for a line break only move the seed.
Write(word, seed) ==
  LET s1 == Rand(seed)
      s2 == Rand(s1)
      s3 == Rand(s2)
      s4 == Rand(s3)
      s5 == Rand(s4)
  IN  IF Ret(s1) < InternLinks
      THEN [seed |-> Rand(s4), item |-> <<word, "intern", Ret(s4) % LinksTotal>>]
      ELSE IF Ret(s2) < ExternLinks
      THEN LET server == IF ServerFirst THEN s4 ELSE s5
               link == IF ServerFirst THEN s5 ELSE s4
           IN  [seed |-> Rand(s5),
                item |-> <<word, "extern", Ret(server) % ExtServers, Ret(link) % LinksTotal>>]
      ELSE [seed |-> Rand(s3), item |-> <<word, "plain">>]

\* A seed that all the threads share, as rand() would.
BugAdvance(t, next) ==
  job' = [u \in Threads |-> IF u = t THEN next
                            ELSE IF job[u] = Resting THEN Resting
                            ELSE [job[u] EXCEPT !.seed = next.seed]]

\* The thread moves on; its seed is on its own stack.
Advance(t, next) == job' = [job EXCEPT ![t] = next]

\* The step of a thread at the end of its page: evhttp_send_reply().
Reply(t, j) == /\ job' = [job EXCEPT ![t] = Resting]
               /\ served' = IF j.url = Other THEN served
                            ELSE served \cup {[url |-> j.url, page |-> j.page]}

\* One turn of the loop of generate().
Generate(t) ==
  /\ phase = "serve"
  /\ job[t] # Resting
  /\ LET j == job[t] IN
       \/ /\ j.left = 0
          /\ Reply(t, j)
       \/ /\ j.left > 0
          /\ LET c == Choose(table[j.file][LookupIdeal(j.file, j.prefix)], j.seed)
                 out == Write(c.word, c.seed)
             IN  IF c.word = NONWORD
                 THEN Reply(t, j)
                 ELSE /\ Advance(t, [j EXCEPT !.left = @ - 1,
                                              !.seed = out.seed,
                                              !.prefix = Shift(@, c.word),
                                              !.page = Append(@, out.item)])
                      /\ UNCHANGED served
  /\ UNCHANGED <<phase, text, prefix, table, ideal, requests>>

Next == \/ OpenFile
        \/ OpenFails
        \/ \E w \in Words : ReadWord(w)
        \/ CloseFile
        \/ StartServing
        \/ \E t \in Threads, seed \in Seeds :
             Request(t, seed, seed) \/ Request(t, Other, seed)
        \/ \E t \in Threads : Generate(t)

Spec == Init /\ [][Next]_vars

-----------------------------------------------------------------------------
(***************************************************************************)
(* Properties.                                                             *)
(***************************************************************************)

\* A text with the words that init_file() imagines around it.
Padded(f) == Start \o text[f] \o <<NONWORD>>

\* Reference: the words that follow p in a text, in the order of the text.
Followers(f, p) ==
  LET x == Padded(f)
      here == SelectSeq([j \in 1..(Len(x) - 2) |-> j],
                        LAMBDA j : <<x[j], x[j + 1]>> = p)
  IN  [k \in 1..Len(here) |-> x[here[k] + 2]]

Loaded == DOMAIN ideal

\* The table of a text holds exactly the prefixes of the text, each with every
\* occurrence of a word that follows it, so that a word is as likely on a page
\* as it is in the text.
TableMatchesText ==
  \A f \in Loaded :
    /\ DOMAIN table[f] = {p \in WordPairs : Followers(f, p) # <<>>}
    /\ \A p \in DOMAIN table[f] : table[f][p] = Reverse(Followers(f, p))

\* lookup_ideal() finds the state of the prefix it is asked for, for every state
\* of the table, although it compares nothing and the first hash functions of a
\* bucket may have been given up because of collisions.
LookupExact == \A f \in Loaded : \A p \in DOMAIN table[f] : LookupIdeal(f, p) = p

\* generate() never looks up a prefix that is not in the table: there would be a
\* NULL bucket or a NULL or foreign state.
NeverStuck ==
  \A t \in Threads :
    (job[t] # Resting /\ job[t].left > 0) => job[t].prefix \in DOMAIN table[job[t].file]

\* Any three consecutive words of a page are consecutive in its text; the first
\* words of a page are those of the text.
PageFollowsText ==
  \A t \in Threads :
    job[t] # Resting =>
      LET words == Start \o [i \in 1..Len(job[t].page) |-> job[t].page[i][1]]
          x == Padded(job[t].file)
      IN  \A i \in 1..(Len(words) - 2) :
            \E k \in 1..(Len(x) - 2) : SubSeq(x, k, k + 2) = SubSeq(words, i, i + 2)

\* A URL with a number always gets the same page, whichever worker serves it and
\* whatever the other workers do at the same time.
SameUrlSamePage == \A a, b \in served : a.url = b.url => a.page = b.page

\* A server never runs with a text whose table it could not hash.
OnlyHashedTextsServed == phase = "serve" => DOMAIN ideal = DOMAIN table

TypeOK == /\ phase \in {"folder", "file", "serve", "exit", "crash"}
          /\ text \in Seq(Seq(Words))
          /\ prefix \in WordPairs
          /\ Len(table) = Len(text)
          /\ \A f \in 1..Len(table) : \A p \in DOMAIN table[f] :
               p \in WordPairs /\ table[f][p] \in Seq(Words \cup {NONWORD})
          /\ Len(ideal) <= Len(table)
          /\ \A t \in Threads :
               job[t] # Resting => /\ job[t].left \in 0..(WordsPerPage - 1)
                                   /\ job[t].file \in Loaded
                                   /\ job[t].seed \in 0..(2^SeedBits - 1)
                                   /\ job[t].prefix \in WordPairs
=============================================================================
