------------------------------ MODULE GenConfig ------------------------------
(***************************************************************************)
(* Reading gen.ini.  config_load() (common/my_config.cpp) goes through the *)
(* lines of the file and fills a map from sections and keys to values;     *)
(* load_config() (testbed/gen_config.cpp) then takes what it knows from    *)
(* the section "generator" and leaves the rest at its defaults.            *)
(*                                                                         *)
(* A line is a section header, a comment, a key with a value, or a key     *)
(* alone.  A value is the number that atoi() or atof() makes of it (times  *)
(* 100 for a probability); as a string it is never empty, because strtok() *)
(* leaves the line feed in it.  The value of a line "key=" is that line    *)
(* feed alone, and 0 as a number.                                          *)
(***************************************************************************)
EXTENDS Integers, Sequences, TLAPS

CONSTANTS MaxLines,   \* bound: lines of the file
          Ints,       \* integers in the file
          Percents,   \* probabilities in the file, in hundredths
          Names       \* host name parts in the file

IntKeys == {"daemon_port", "words_per_page", "links_total", "extern_links_servers",
            "worker_threads"}
ProbKeys == {"intern_links_probability", "extern_links_probability"}
StrKeys == {"extern_links_prefix", "extern_links_suffix"}
Keys == IntKeys \cup ProbKeys \cup StrKeys

Sane == MaxLines \in Nat /\ 0 \in Ints /\ Ints \subseteq Int /\ Percents \subseteq Int

\* The line feed alone.
Blank == "blank"

Values(k) == IF k \in IntKeys THEN Ints ELSE IF k \in ProbKeys THEN Percents
             ELSE Names \cup {Blank}

\* Headers, and lines that give no value.  closed: the header ends in "]" right after the
\* name.
Bare == [kind : {"section"}, name : {"generator", "other"}, closed : BOOLEAN]
         \cup [kind : {"comment", "key"}]
Pair(k, v) == [kind |-> "pair", key |-> k, val |-> v]

VARIABLES lines,   \* history: the lines read so far
          cur,     \* the current section, "none" before the first header
          data,    \* the map: pairs of a section and a key to values
          conf     \* struct GenConfig, or Unset before load_config() ends

vars == <<lines, cur, data, conf>>

Unset == [loaded |-> FALSE]

Init == lines = <<>> /\ cur = "none" /\ data = <<>> /\ conf = Unset

\* A header that is not closed by "]" after its name: sscanf() reads the name up
\* to the next blank, and its last character is cut off whatever it is.
SectionName(l) == IF l.closed THEN l.name ELSE "cut"

\* A map that keeps the first value of a key.
BugStore(d, s, l) == [x \in DOMAIN d \cup {<<s, l.key>>} |->
                        IF x \in DOMAIN d THEN d[x] ELSE l.val]

\* (*cur)[k] = v
Store(d, s, l) == [x \in DOMAIN d \cup {<<s, l.key>>} |->
                     IF x = <<s, l.key>> THEN l.val ELSE d[x]]

\* One line of config_load(): pairs before the first section are dropped, and
\* so is a key without a value.
ReadLine(l) ==
  /\ conf = Unset
  /\ Len(lines) < MaxLines
  /\ lines' = Append(lines, l)
  /\ cur' = IF l.kind = "section" THEN SectionName(l) ELSE cur
  /\ data' = IF l.kind = "pair" /\ cur # "none" THEN Store(data, cur, l) ELSE data
  /\ UNCHANGED conf

-----------------------------------------------------------------------------
Defaults == [daemon_port |-> 8083, words_per_page |-> 1000, links_total |-> 100000,
             extern_links_servers |-> 1, worker_threads |-> 1,
             intern_links_probability |-> 0, extern_links_probability |-> 0,
             extern_links_prefix |-> "serv", extern_links_suffix |-> ".testbed.local"]

Has(k) == <<"generator", k>> \in DOMAIN data

\* config_try_set_int(), config_try_set_double() and config_try_set_str(), the
\* string starting out empty.
TrySet(k, default) == IF Has(k) THEN data[<<"generator", k>>] ELSE default
Empty == "empty"

\* The first check of load_config(); after it the second one, which is meant for
\* the other probability, has nothing left to correct.
ValidProbability(p) == IF p <= 0 \/ p >= 100 THEN 10 ELSE p

\* The prefix and the suffix of the external hosts are taken from the file only
\* if there is a prefix and no suffix.
TakeServers(prefix, suffix) == prefix # Empty /\ suffix = Empty

LoadConfig ==
  /\ conf = Unset
  /\ LET prefix == TrySet("extern_links_prefix", Empty)
         suffix == TrySet("extern_links_suffix", Empty)
         int(k) == TrySet(k, Defaults[k])
     IN  conf' = [loaded |-> TRUE,
                  daemon_port |-> int("daemon_port"),
                  words_per_page |-> int("words_per_page"),
                  links_total |-> int("links_total"),
                  extern_links_servers |-> int("extern_links_servers"),
                  worker_threads |-> int("worker_threads"),
                  intern |-> ValidProbability(int("intern_links_probability")),
                  extern |-> int("extern_links_probability"),
                  prefix |-> IF TakeServers(prefix, suffix) THEN prefix
                             ELSE Defaults.extern_links_prefix,
                  suffix |-> IF TakeServers(prefix, suffix) THEN suffix
                             ELSE Defaults.extern_links_suffix]
  /\ UNCHANGED <<lines, cur, data>>

\* main(): the number of workers.
NThreads == IF conf.worker_threads <= 0 THEN 1 ELSE conf.worker_threads

Next == \/ \E l \in Bare : ReadLine(l)
        \/ \E k \in Keys : \E v \in Values(k) : ReadLine(Pair(k, v))
        \/ LoadConfig

Spec == Init /\ [][Next]_vars

-----------------------------------------------------------------------------
(***************************************************************************)
(* Properties.                                                             *)
(***************************************************************************)

LastOf(S) == CHOOSE i \in S : \A j \in S : j <= i

\* The section that line i of a file belongs to.
Heads(file, i) == {j \in 1..(i - 1) : file[j].kind = "section"}
SectionOf(file, i) == IF Heads(file, i) = {} THEN "none" ELSE SectionName(file[LastOf(Heads(file, i))])

\* Lines that give key k of the generator a value.
Settings(file, k) == {i \in 1..Len(file) : /\ file[i].kind = "pair" /\ file[i].key = k
                                           /\ SectionOf(file, i) = "generator"}

\* Reference: the last of them, or the default.
Configured(file, k) == IF Settings(file, k) = {} THEN Defaults[k]
                       ELSE file[LastOf(Settings(file, k))].val

\* What the generator works with is, for every integer and for the external links, the last value that the
\* file gives it inside a section "generator", wherever the other sections and
\* comments are, and the default without one.
LastValueWins ==
  conf # Unset => /\ \A k \in IntKeys : conf[k] = Configured(lines, k)
                  /\ conf.extern = Configured(lines, "extern_links_probability")

\* Whatever the file says, an internal link is neither impossible nor certain,
\* and there is a worker.
SaneLinksAndThreads == conf # Unset => conf.intern \in 1..99 /\ NThreads >= 1

\* gen.ini names the external hosts by a prefix and a suffix; a file that gives
\* both has its hosts on the pages.
ServersAsConfigured ==
  (conf # Unset /\ \A k \in StrKeys : Settings(lines, k) # {}) =>
    /\ conf.prefix = Configured(lines, "extern_links_prefix")
    /\ conf.suffix = Configured(lines, "extern_links_suffix")

TypeOK == /\ Len(lines) <= MaxLines
          /\ \A i \in DOMAIN lines : IF lines[i].kind = "pair" THEN lines[i].val \in Values(lines[i].key)
                                      ELSE lines[i] \in Bare
          /\ cur \in {"none", "generator", "other", "cut"}
          /\ \A x \in DOMAIN data : x[1] # "none" /\ data[x] \in Values(x[2])

-----------------------------------------------------------------------------
(***************************************************************************)
(* The proof that the map, filled line by line, gives what the whole file  *)
(* says, for files of any length.                                          *)
(***************************************************************************)
Lines == Bare \cup UNION {{Pair(k, v) : v \in Values(k)} : k \in Keys}

\* S has no element, or a last one.
Ends(S) == S = {} \/ \E i \in S : \A j \in S : j <= i

\* cur is the section of the next line, and the map holds the last settings so far.
Reading == /\ lines \in Seq(Lines) /\ Len(lines) <= MaxLines
           /\ \A i \in 1..(Len(lines) + 1) : Ends(Heads(lines, i))
           /\ cur = SectionOf(lines, Len(lines) + 1)
           /\ \A k \in Keys : Ends(Settings(lines, k))
           /\ \A k \in Keys : IF Settings(lines, k) = {} THEN ~Has(k)
                              ELSE Has(k) /\ data[<<"generator", k>>] = lines[LastOf(Settings(lines, k))].val

ConfigInv == TypeOK /\ Reading /\ LastValueWins /\ SaneLinksAndThreads

LEMMA LastIs ==
  ASSUME NEW S, S \subseteq Nat, NEW i \in S, \A j \in S : j <= i
  PROVE  LastOf(S) = i
<1>1. LastOf(S) \in S /\ \A j \in S : j <= LastOf(S)
  BY DEF LastOf
<1>2. LastOf(S) <= i /\ i <= LastOf(S) /\ LastOf(S) \in Nat /\ i \in Nat
  BY <1>1
<1> QED
  BY <1>2

LEMMA LineIs ==
  ASSUME NEW l \in Lines
  PROVE  IF l.kind = "pair" THEN l.key \in Keys /\ l.val \in Values(l.key)
         ELSE /\ l \in Bare
              /\ l.kind = "section" => SectionName(l) \in {"generator", "other", "cut"}
<1>1. CASE l \in Bare
  BY <1>1 DEF Bare, SectionName
<1>2. CASE l \notin Bare
  <2>1. PICK k \in Keys : \E v \in Values(k) : l = Pair(k, v)
    BY <1>2 DEF Lines
  <2>2. PICK v \in Values(k) : l = Pair(k, v)
    BY <2>1
  <2> QED
    BY <2>2 DEF Pair
<1> QED
  BY <1>1, <1>2

LEMMA ConfigInit ==
  ASSUME Sane, Init
  PROVE  ConfigInv
<1>1. lines = <<>> /\ Len(lines) = 0 /\ cur = "none" /\ data = <<>> /\ DOMAIN data = {} /\ conf = Unset
      /\ DOMAIN lines = {}
  BY DEF Init
<1>2. TypeOK
  BY <1>1 DEF TypeOK, Sane
<1>3. Heads(lines, 1) = {} /\ \A k \in Keys : Settings(lines, k) = {}
  BY <1>1 DEF Heads, Settings
<1>4. \A i \in 1..(0 + 1) : i = 1
  OBVIOUS
<1>5. Reading
  <2>1. lines \in Seq(Lines) /\ Len(lines) <= MaxLines
    BY <1>1 DEF Sane
  <2>2. \A i \in 1..(Len(lines) + 1) : Ends(Heads(lines, i))
    BY <1>1, <1>3, <1>4 DEF Ends
  <2>3. cur = SectionOf(lines, Len(lines) + 1)
    BY <1>1, <1>3 DEF SectionOf
  <2>4. \A k \in Keys : Ends(Settings(lines, k)) /\ ~Has(k)
    BY <1>1, <1>3 DEF Ends, Has
  <2> QED
    BY <1>3, <2>1, <2>2, <2>3, <2>4 DEF Reading
<1> QED
  BY <1>1, <1>2, <1>5 DEF ConfigInv, LastValueWins, SaneLinksAndThreads

\* One more line, of any kind, in any section.
LEMMA ReadLineKeeps ==
  ASSUME Sane, ConfigInv, NEW l \in Lines, ReadLine(l)
  PROVE  ConfigInv'
<1> USE DEF ConfigInv
<1>1. PICK n : n = Len(lines)
  OBVIOUS
<1>2. /\ n \in Nat /\ n < MaxLines /\ lines \in Seq(Lines) /\ DOMAIN lines = 1..n
      /\ lines' \in Seq(Lines) /\ Len(lines') = n + 1 /\ DOMAIN lines' = 1..(n + 1)
      /\ lines'[n + 1] = l
      /\ \A j \in 1..n : lines'[j] = lines[j]
  BY <1>1 DEF ReadLine, Reading
<1>3. /\ (n + 1) - 1 = n /\ (n + 2) - 1 = n + 1 /\ (n + 1) + 1 = n + 2
      /\ \A j \in 1..(n + 1) : j \in 1..n \/ j = n + 1
      /\ \A j \in 1..n : j \in 1..(n + 1) /\ j \in Nat /\ j <= n + 1
      /\ n + 1 \in 1..(n + 1) /\ n + 1 \notin 1..n /\ n + 1 \in Nat
      /\ \A j \in 1..(n + 2) : j \in 1..(n + 1) \/ j = n + 2
  BY <1>2
<1>4. ASSUME NEW i \in 1..(n + 1)
      PROVE  Heads(lines', i) = Heads(lines, i) /\ Heads(lines, i) \subseteq 1..n /\ Heads(lines, i) \subseteq Nat
  <2>1. \A j \in 1..(i - 1) : j \in 1..n /\ j \in Nat
    BY <1>2
  <2> QED
    BY <1>2, <2>1 DEF Heads
<1>5. Heads(lines', n + 2) = (IF l.kind = "section" THEN Heads(lines, n + 1) \cup {n + 1} ELSE Heads(lines, n + 1))
  BY <1>2, <1>3 DEF Heads
<1>6. ASSUME NEW i \in 1..(n + 1)
      PROVE  SectionOf(lines', i) = SectionOf(lines, i)
  <2>1. CASE Heads(lines, i) = {}
    BY <1>4, <2>1 DEF SectionOf
  <2>2. CASE Heads(lines, i) # {}
    <3>1. PICK j \in Heads(lines, i) : \A m \in Heads(lines, i) : m <= j
      BY <1>1, <2>2 DEF Reading, Ends
    <3>2. LastOf(Heads(lines, i)) = j
      BY <1>4, <3>1, LastIs
    <3>3. lines'[j] = lines[j]
      BY <1>2, <1>4, <3>1
    <3>4. SectionName(lines'[LastOf(Heads(lines, i))]) = SectionName(lines[LastOf(Heads(lines, i))])
      BY <3>2, <3>3
    <3>5. SectionOf(lines', i) = SectionName(lines'[LastOf(Heads(lines, i))])
      BY <1>4, <2>2 DEF SectionOf
    <3> QED
      BY <2>2, <3>4, <3>5 DEF SectionOf
  <2> QED
    BY <2>1, <2>2
<1>7. Ends(Heads(lines', n + 2))
  <2>1. CASE l.kind = "section"
    <3>1. n + 1 \in Heads(lines', n + 2) /\ \A j \in Heads(lines', n + 2) : j <= n + 1
      BY <1>2, <1>3, <1>4, <1>5, <2>1
    <3> QED
      BY <3>1 DEF Ends
  <2>2. CASE l.kind # "section"
    BY <1>1, <1>3, <1>5, <2>2 DEF Reading
  <2> QED
    BY <2>1, <2>2
<1>8. cur' = SectionOf(lines', n + 2)
  <2>1. CASE l.kind = "section"
    <3>1. PICK H : H = Heads(lines', n + 2)
      OBVIOUS
    <3>2. n + 1 \in H /\ H \subseteq Nat /\ \A j \in H : j <= n + 1
      BY <1>2, <1>3, <1>4, <1>5, <2>1, <3>1
    <3>3. LastOf(H) = n + 1
      BY <3>2, LastIs
    <3>4. SectionOf(lines', n + 2) = SectionName(lines'[LastOf(H)])
      BY <3>1, <3>2 DEF SectionOf
    <3> QED
      BY <1>2, <2>1, <3>3, <3>4 DEF ReadLine
  <2>2. CASE l.kind # "section"
    <3>1. Heads(lines', n + 2) = Heads(lines', n + 1)
      BY <1>3, <1>4, <1>5, <2>2
    <3>2. SectionOf(lines', n + 2) = SectionOf(lines', n + 1)
      BY <3>1 DEF SectionOf
    <3>3. cur = SectionOf(lines, n + 1)
      BY <1>1 DEF Reading
    <3> QED
      BY <1>3, <1>6, <2>2, <3>2, <3>3 DEF ReadLine
  <2> QED
    BY <2>1, <2>2
<1>9. ASSUME NEW k \in Keys
      PROVE  /\ Settings(lines', k) = (IF l.kind = "pair" /\ l.key = k /\ cur = "generator"
                                THEN Settings(lines, k) \cup {n + 1} ELSE Settings(lines, k))
             /\ Settings(lines, k) \subseteq 1..n /\ Settings(lines, k) \subseteq Nat
  <2>1. SectionOf(lines', n + 1) = cur
    BY <1>1, <1>3, <1>6 DEF Reading
  <2>2. Settings(lines', k) = {i \in 1..(n + 1) : lines'[i].kind = "pair" /\ lines'[i].key = k /\ SectionOf(lines', i) = "generator"}
    BY <1>2 DEF Settings
  <2>3. Settings(lines, k) = {i \in 1..n : lines[i].kind = "pair" /\ lines[i].key = k /\ SectionOf(lines, i) = "generator"}
    BY <1>1 DEF Settings
  <2>4. \A i \in 1..n : i \in Settings(lines', k) <=> i \in Settings(lines, k)
    BY <1>2, <1>3, <1>6, <2>2, <2>3
  <2>5. n + 1 \in Settings(lines', k) <=> l.kind = "pair" /\ l.key = k /\ cur = "generator"
    BY <1>2, <1>3, <2>1, <2>2
  <2>6. \A i \in Settings(lines', k) : i \in 1..n \/ i = n + 1
    BY <1>3, <2>2
  <2>7. Settings(lines, k) \subseteq 1..n /\ Settings(lines, k) \subseteq Nat
    BY <1>3, <2>3
  <2> QED
    BY <1>3, <2>4, <2>5, <2>6, <2>7
<1>10. ASSUME NEW k \in Keys
       PROVE  /\ Ends(Settings(lines', k))
              /\ IF Settings(lines', k) = {} THEN ~Has(k)'
                 ELSE Has(k)' /\ data'[<<"generator", k>>] = lines'[LastOf(Settings(lines', k))].val
  <2>1. CASE l.kind = "pair" /\ l.key = k /\ cur = "generator"
    <3>1. PICK S : S = Settings(lines', k)
      OBVIOUS
    <3>2. n + 1 \in S /\ S \subseteq Nat /\ \A j \in S : j <= n + 1
      BY <1>2, <1>3, <1>9, <2>1, <3>1
    <3>3. LastOf(S) = n + 1
      BY <3>2, LastIs
    <3>4. data' = Store(data, "generator", l)
      BY <2>1 DEF ReadLine
    <3>5. <<"generator", k>> \in DOMAIN data' /\ data'[<<"generator", k>>] = l.val
      BY <2>1, <3>4 DEF Store
    <3> QED
      BY <1>2, <3>1, <3>2, <3>3, <3>5 DEF Ends, Has
  <2>2. CASE ~(l.kind = "pair" /\ l.key = k /\ cur = "generator")
    <3>1. Settings(lines', k) = Settings(lines, k)
      BY <1>9, <2>2
    <3>2. /\ <<"generator", k>> \in DOMAIN data' <=> <<"generator", k>> \in DOMAIN data
          /\ <<"generator", k>> \in DOMAIN data => data'[<<"generator", k>>] = data[<<"generator", k>>]
      <4>1. CASE l.kind = "pair" /\ cur # "none"
        <5>1. <<"generator", k>> # <<cur, l.key>>
          BY <2>2, <4>1
        <5>2. data' = Store(data, cur, l)
          BY <4>1 DEF ReadLine
        <5> QED
          BY <5>1, <5>2 DEF Store
      <4>2. CASE ~(l.kind = "pair" /\ cur # "none")
        BY <4>2 DEF ReadLine
      <4> QED
        BY <4>1, <4>2
    <3>3. CASE Settings(lines, k) = {}
      BY <3>1, <3>2, <3>3 DEF Ends, Has, Reading
    <3>4. CASE Settings(lines, k) # {}
      <4>1. PICK i \in Settings(lines, k) : \A j \in Settings(lines, k) : j <= i
        BY <3>4 DEF Reading, Ends
      <4>2. LastOf(Settings(lines, k)) = i
        BY <1>9, <4>1, LastIs
      <4>3. lines'[i] = lines[i]
        BY <1>2, <1>9, <4>1
      <4>4. Has(k) /\ data[<<"generator", k>>] = lines[i].val
        BY <3>4, <4>2 DEF Reading
      <4> QED
        BY <3>1, <3>2, <3>4, <4>1, <4>2, <4>3, <4>4 DEF Ends, Has
    <3> QED
      BY <3>3, <3>4
  <2> QED
    BY <2>1, <2>2
<1>11. Reading'
  <2>1. n + 1 <= MaxLines
    BY <1>2 DEF Sane
  <2>2. \A i \in 1..(n + 2) : Ends(Heads(lines', i))
    <3>1. \A i \in 1..(n + 1) : Ends(Heads(lines', i))
      BY <1>1, <1>4 DEF Reading
    <3> QED
      BY <1>3, <1>7, <3>1
  <2>3. \A i \in 1..(Len(lines') + 1) : Ends(Heads(lines', i))
    BY <1>2, <1>3, <2>2
  <2>4. cur' = SectionOf(lines', Len(lines') + 1)
    BY <1>2, <1>3, <1>8
  <2> QED
    BY <1>2, <1>10, <2>1, <2>3, <2>4 DEF Reading
<1>12. TypeOK'
  <2>1. \A i \in 1..(n + 1) : IF lines'[i].kind = "pair" THEN lines'[i].val \in Values(lines'[i].key)
                              ELSE lines'[i] \in Bare
    BY <1>2, LineIs
  <2>2. cur' \in {"none", "generator", "other", "cut"}
    BY LineIs DEF ReadLine, TypeOK
  <2>3. ASSUME NEW x \in DOMAIN data'
        PROVE  x[1] # "none" /\ data'[x] \in Values(x[2])
    <3>1. CASE l.kind = "pair" /\ cur # "none"
      <4>1. data' = Store(data, cur, l)
        BY <3>1 DEF ReadLine
      <4>2. CASE x = <<cur, l.key>>
        <5>1. data'[x] = l.val
          BY <4>1, <4>2 DEF Store
        <5>2. l.val \in Values(l.key)
          BY <3>1, LineIs
        <5>3. x[1] = cur /\ x[2] = l.key
          BY <4>2
        <5> QED
          BY <3>1, <5>1, <5>2, <5>3
      <4>3. CASE x # <<cur, l.key>>
        <5>1. x \in DOMAIN data /\ data'[x] = data[x]
          BY <2>3, <4>1, <4>3 DEF Store
        <5> QED
          BY <5>1 DEF TypeOK
      <4> QED
        BY <4>2, <4>3
    <3>2. CASE ~(l.kind = "pair" /\ cur # "none")
      BY <2>3, <3>2 DEF ReadLine, TypeOK
    <3> QED
      BY <3>1, <3>2
  <2>4. n + 1 <= MaxLines
    BY <1>2 DEF Sane
  <2> QED
    BY <1>2, <2>1, <2>2, <2>3, <2>4 DEF TypeOK
<1>13. LastValueWins' /\ SaneLinksAndThreads'
  BY DEF ReadLine, LastValueWins, SaneLinksAndThreads
<1> QED
  BY <1>11, <1>12, <1>13

\* load_config() takes what the map holds.
LEMMA LoadConfigKeeps ==
  ASSUME Sane, ConfigInv, LoadConfig
  PROVE  ConfigInv'
<1> USE DEF ConfigInv
<1>1. lines' = lines /\ cur' = cur /\ data' = data /\ conf = Unset
  BY DEF LoadConfig
<1>2. \A k \in Keys : Settings(lines', k) = Settings(lines, k) /\ Configured(lines', k) = Configured(lines, k)
  BY <1>1
<1>3. Reading' /\ TypeOK'
  BY <1>1 DEF Reading, TypeOK, Has
<1>4. \A k \in Keys : TrySet(k, Defaults[k]) = Configured(lines, k)
  BY DEF Reading, TrySet, Configured
<1>5. PICK p : p = TrySet("intern_links_probability", Defaults["intern_links_probability"])
  OBVIOUS
<1>6. /\ conf'.daemon_port = TrySet("daemon_port", Defaults["daemon_port"])
      /\ conf'.words_per_page = TrySet("words_per_page", Defaults["words_per_page"])
      /\ conf'.links_total = TrySet("links_total", Defaults["links_total"])
      /\ conf'.extern_links_servers = TrySet("extern_links_servers", Defaults["extern_links_servers"])
      /\ conf'.worker_threads = TrySet("worker_threads", Defaults["worker_threads"])
      /\ conf'.extern = TrySet("extern_links_probability", Defaults["extern_links_probability"])
      /\ conf'.intern = ValidProbability(p)
  BY <1>5 DEF LoadConfig
<1>7. LastValueWins'
  <2>1. \A k \in IntKeys : conf'[k] = Configured(lines, k)
    BY <1>4, <1>6 DEF IntKeys, Keys
  <2>2. conf'.extern = Configured(lines, "extern_links_probability")
    BY <1>4, <1>6 DEF ProbKeys, Keys
  <2>3. IntKeys \subseteq Keys /\ "extern_links_probability" \in Keys
    BY DEF Keys, ProbKeys
  <2> QED
    BY <1>2, <2>1, <2>2, <2>3 DEF LastValueWins
<1>8. \A k \in Keys : Has(k) => data[<<"generator", k>>] \in Values(k)
  <2> SUFFICES ASSUME NEW k \in Keys, Has(k)
               PROVE  data[<<"generator", k>>] \in Values(k)
    OBVIOUS
  <2>1. PICK x \in DOMAIN data : x = <<"generator", k>>
    BY DEF Has
  <2>2. data[x] \in Values(x[2]) /\ x[2] = k
    BY <2>1 DEF TypeOK
  <2> QED
    BY <2>1, <2>2
<1>9. SaneLinksAndThreads'
  <2>1. p \in Int
    <3>1. Defaults["intern_links_probability"] = 0
      BY DEF Defaults
    <3>2. "intern_links_probability" \in Keys /\ Values("intern_links_probability") \subseteq Int
      BY DEF Keys, ProbKeys, IntKeys, Values, Sane
    <3> QED
      BY <1>5, <1>8, <3>1, <3>2 DEF TrySet
  <2>2. conf'.intern \in 1..99
    BY <1>6, <2>1 DEF ValidProbability
  <2>3. conf'.worker_threads \in Int
    <3>1. Defaults["worker_threads"] = 1
      BY DEF Defaults
    <3>2. "worker_threads" \in Keys /\ Values("worker_threads") \subseteq Int
      BY DEF Keys, IntKeys, Values, Sane
    <3> QED
      BY <1>6, <1>8, <3>1, <3>2 DEF TrySet
  <2> QED
    BY <2>2, <2>3 DEF SaneLinksAndThreads, NThreads
<1> QED
  BY <1>3, <1>7, <1>9

LEMMA ConfigStep ==
  ASSUME Sane, ConfigInv, [Next]_vars
  PROVE  ConfigInv'
<1>1. CASE \E l \in Bare : ReadLine(l)
  BY <1>1, ReadLineKeeps DEF Lines
<1>2. CASE \E k \in Keys : \E v \in Values(k) : ReadLine(Pair(k, v))
  <2>1. PICK k \in Keys : \E v \in Values(k) : ReadLine(Pair(k, v))
    BY <1>2
  <2>2. PICK v \in Values(k) : ReadLine(Pair(k, v))
    BY <2>1
  <2>3. Pair(k, v) \in Lines
    BY DEF Lines
  <2> QED
    BY <2>2, <2>3, ReadLineKeeps
<1>3. CASE LoadConfig
  BY <1>3, LoadConfigKeeps
<1>4. CASE UNCHANGED vars
  <2>1. Reading' /\ TypeOK'
    BY <1>4 DEF vars, ConfigInv, Reading, TypeOK, Has
  <2>2. LastValueWins' /\ SaneLinksAndThreads'
    BY <1>4 DEF vars, ConfigInv, LastValueWins, SaneLinksAndThreads, NThreads
  <2> QED
    BY <2>1, <2>2 DEF ConfigInv
<1> QED
  BY <1>1, <1>2, <1>3, <1>4 DEF Next

LEMMA ConfigAlways ==
  ASSUME Sane
  PROVE  Spec => []ConfigInv
<1>1. Init => ConfigInv
  BY ConfigInit
<1>2. ConfigInv /\ [Next]_vars => ConfigInv'
  BY ConfigStep
<1> QED
  BY <1>1, <1>2, PTL DEF Spec

\* For every file: what load_config() hands to the generator is, for each integer and for
\* the external links, the last value under a header [generator], and the default without one.
THEOREM FileObeyed ==
  ASSUME Sane
  PROVE  Spec => []LastValueWins
<1>1. ConfigInv => LastValueWins
  BY DEF ConfigInv
<1> QED
  BY <1>1, ConfigAlways, PTL

\* For every file: the probability of an internal link is between 1 and 99 in a hundred,
\* and main() starts a worker.
THEOREM AlwaysUsable ==
  ASSUME Sane
  PROVE  Spec => [](TypeOK /\ SaneLinksAndThreads)
<1>1. ConfigInv => TypeOK /\ SaneLinksAndThreads
  BY DEF ConfigInv
<1> QED
  BY <1>1, ConfigAlways, PTL
=============================================================================
