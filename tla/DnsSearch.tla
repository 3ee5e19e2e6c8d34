------------------------------- MODULE DnsSearch -------------------------------
(***************************************************************************)
(* Search domains and configuration of the resolver                        *)
(* (contrib/libevent/evdns.c): the list of domains that searches share and *)
(* that is replaced while they run, resolv.conf, and the name servers of a *)
(* Windows host.  A name is known by the number of its dots.               *)
(***************************************************************************)
EXTENDS Integers, Sequences, FiniteSets

CONSTANTS Users,        \* calls of evdns_resolve_ipv4()
          Domains,      \* search domains
          Addresses,    \* addresses of name servers
          Local,        \* "127.0.0.1", one of the addresses
          HostDomain,   \* the domain of gethostname(), or None
          NStates,      \* bound: search states that exist at a time
          MaxDomains,   \* bound: length of a list
          MaxConfigs,   \* bound: changes of the configuration
          MaxLines,     \* bound: lines of a file
          None

\* What the constants have to be.
Sane == /\ Local \in Addresses
        /\ {NStates, MaxDomains, MaxConfigs, MaxLines} \subseteq Nat

VARIABLES heap,     \* struct search_state of each slot
          global,   \* global_search_state
          search,   \* the requests with a search
          servers,  \* addresses of the name servers
          status,   \* what the last configuration call returned
          configs   \* configuration calls that are left

vars == <<heap, global, search, servers, status, configs>>

Slots == 1..NStates
NoState == [refs |-> 0, ndots |-> 1, doms |-> <<>>, moved |-> FALSE]  \* moved: history, ndots was set during a search
NoSearch == [st |-> "none", dots |-> 0, idx |-> 0, state |-> None, tried |-> <<>>, plan |-> <<>>,
             fixed |-> TRUE]
Raw == "raw"                       \* the name without a domain

Init == /\ heap = [s \in Slots |-> NoState] /\ global = None
        /\ search = [u \in Users |-> NoSearch]
        /\ servers = {} /\ status = 0 /\ configs = MaxConfigs

-----------------------------------------------------------------------------
(***************************************************************************)
(* The functions on c, the heap, the global state and the servers.         *)
(***************************************************************************)
Conf == [heap |-> heap, global |-> global, servers |-> servers]
Free(c) == {s \in Slots : c.heap[s].refs = 0}

\* search_state_decref(): the last reference frees the state and its domains.
Decref(h, s) == IF s = None THEN h
                ELSE [h EXCEPT ![s] = IF @.refs = 1 THEN NoState ELSE [@ EXCEPT !.refs = @ - 1]]

\* search_state_new().
New(c) == LET s == CHOOSE x \in Free(c) : \A y \in Free(c) : x <= y
          IN  [c EXCEPT !.heap[s].refs = 1, !.global = s]

\* search_postfix_clear(), evdns_search_clear().
Clear(c) == New([c EXCEPT !.heap = Decref(@, c.global)])

Ensure(c) == IF c.global = None THEN New(c) ELSE c

\* search_postfix_add(): in front.
PostfixAdd(c, d) == LET x == Ensure(c)
                    IN  IF Len(x.heap[x.global].doms) < MaxDomains
                        THEN [x EXCEPT !.heap[x.global].doms = <<d>> \o @] ELSE x

\* evdns_search_ndots_set().
SetNdots(c, n) == LET x == Ensure(c) 
                  IN  [x EXCEPT !.heap[x.global] = [@ EXCEPT !.ndots = n, !.moved = @ \/ x.heap[x.global].refs > 1]]

\* search_set_from_hostname().
FromHostname(c) == IF HostDomain = None THEN Clear(c) ELSE PostfixAdd(Clear(c), HostDomain)

\* A line "search" of resolv.conf, with search_reverse().
SearchLine(c, ds) ==
  LET f[k \in 0..Len(ds)] == IF k = 0 THEN Clear(c) ELSE PostfixAdd(f[k - 1], ds[k])
      x == f[Len(ds)]
      l == x.heap[x.global].doms
  IN  [x EXCEPT !.heap[x.global].doms = [i \in DOMAIN l |-> l[Len(l) + 1 - i]]]

\* resolv_conf_parse_line(), evdns_set_option().
ParseLine(c, line, flags) ==
  CASE line.word = "nameserver" /\ "nameservers" \in flags -> [c EXCEPT !.servers = @ \cup {line.arg}]
    [] line.word = "domain" /\ "search" \in flags -> PostfixAdd(Clear(c), line.arg)
    [] line.word = "search" /\ "search" \in flags -> SearchLine(c, line.arg)
    [] line.word = "ndots" /\ "search" \in flags -> SetNdots(c, line.arg)
    [] OTHER -> c

\* evdns_resolv_set_defaults().
SetDefaults(c, flags) ==
  LET x == IF "search" \in flags THEN FromHostname(c) ELSE c
  IN  IF "nameservers" \in flags THEN [x EXCEPT !.servers = @ \cup {Local}] ELSE x

\* The end of evdns_resolv_conf_parse().
Completed(c, flags) ==
  LET x == IF c.servers = {} /\ "nameservers" \in flags THEN [c EXCEPT !.servers = {Local}] ELSE c
  IN  IF "search" \in flags /\ (x.global = None \/ x.heap[x.global].doms = <<>>) THEN FromHostname(x) ELSE x

ParseLines(c, lines, flags) ==
  LET f[k \in 0..Len(lines)] == IF k = 0 THEN c ELSE ParseLine(f[k - 1], lines[k], flags)
  IN  Completed(f[Len(lines)], flags)

Reconfigure(c, result) ==
  /\ configs > 0 /\ configs' = configs - 1
  /\ heap' = c.heap /\ global' = c.global /\ servers' = c.servers /\ status' = result
  /\ UNCHANGED search

-----------------------------------------------------------------------------
Line(w, x) == [word |-> w, arg |-> x]
Lines == {Line("nameserver", n) : n \in Addresses} \cup {Line("domain", d) : d \in Domains}
         \cup {Line("search", q) : q \in {<<>>} \cup (Domains \X Domains)} \cup {Line("ndots", 2), Line("junk", 0)}

SearchAdd(d) == Free(Conf) # {} /\ Reconfigure(PostfixAdd(Conf, d), 0)
SearchClear == Free(Conf) # {} /\ Reconfigure(Clear(Conf), 0)
NdotsSet(n) == Free(Conf) # {} /\ Reconfigure(SetNdots(Conf, n), 0)

\* evdns_resolv_conf_parse(): the file is missing, empty, too large or can be read.
ConfMissing(flags) == Free(Conf) # {} /\ Reconfigure(SetDefaults(Conf, flags), 1)
ConfEmpty(flags) == /\ Free(Conf) # {}
                    /\ Reconfigure(SetDefaults(Conf, flags), IF "nameservers" \in flags THEN 6 ELSE 0)
ConfTooLarge == Reconfigure(Conf, 3)
ConfParse(lines, flags) ==
  /\ Cardinality(Free(Conf)) > 1
  /\ LET f[k \in 0..Len(lines)] == IF k = 0 THEN Conf ELSE ParseLine(f[k - 1], lines[k], flags)
     IN  Reconfigure(ParseLines(Conf, lines, flags),
                     IF f[Len(lines)].servers = {} /\ "nameservers" \in flags THEN 6 ELSE 0)

\* evdns_config_windows_nameservers(): the list of the network parameters, whose strings
\* may be empty, and after an error the lists of the registry.
AddList(c, list) ==
  LET f[k \in 0..Len(list)] ==
        IF k = 0 THEN [c |-> c, st |-> 0]
        ELSE LET x == f[k - 1]
             IN  CASE x.st # 0 \/ list[k] = None -> x
                   [] x.st = 0 /\ list[k] \in x.c.servers -> [x EXCEPT !.st = 3]
                   [] OTHER -> [x EXCEPT !.c.servers = @ \cup {list[k]}]
  IN  f[Len(list)]
WindowsServers(params, registry) ==
  LET x == AddList(Conf, params)
      y == AddList(x.c, registry)
  IN  IF params # <<>> /\ x.st = 0 THEN Reconfigure(x.c, 0)
      ELSE Reconfigure(y.c, IF registry # <<>> /\ y.st = 0 THEN 0 ELSE -1)

\* search_request_new().
First(s, dots) == IF dots >= s.ndots THEN -1 ELSE 0
Named(s, idx) == IF idx = -1 THEN Raw ELSE s.doms[idx + 1]
Plan(s, dots) == IF dots >= s.ndots THEN <<Raw>> \o s.doms ELSE Append(s.doms, Raw)
Resolve(u, dots) ==
  /\ search[u].st = "none"
  /\ IF global # None /\ heap[global].doms # <<>>
     THEN LET s == heap[global]
          IN  /\ search' = [search EXCEPT ![u] = [st |-> "active", dots |-> dots, idx |-> First(s, dots),
                                                  state |-> global, tried |-> <<Named(s, First(s, dots))>>,
                                                  plan |-> Plan(s, dots), fixed |-> TRUE]]
              /\ heap' = [heap EXCEPT ![global].refs = @ + 1]
     ELSE /\ search' = [search EXCEPT ![u] = [NoSearch EXCEPT !.st = "active", !.tried = <<Raw>>, !.plan = <<Raw>>]]
          /\ UNCHANGED heap
  /\ UNCHANGED <<global, servers, status, configs>>

\* search_try_next(): the next domain, then the name as it is if that was not the first.
TryNext(q, s) ==
  CASE q.state = None -> [q EXCEPT !.st = "done"]
    [] q.state # None /\ q.idx + 1 < Len(s.doms) -> [q EXCEPT !.idx = @ + 1, !.tried = Append(@, s.doms[q.idx + 2])]
    [] OTHER -> [q EXCEPT !.fixed = ~s.moved, !.state = None,
                          !.st = IF q.dots < s.ndots THEN @ ELSE "done",
                          !.tried = IF q.dots < s.ndots THEN Append(@, Raw) ELSE @]

\* The request fails; search_request_finished() gives its reference back.
Fail(u) ==
  LET q == search[u]
      n == TryNext(q, IF q.state = None THEN NoState ELSE heap[q.state])
  IN /\ q.st = "active"
     /\ search' = [search EXCEPT ![u] = IF n.st = "done" THEN [n EXCEPT !.state = None] ELSE n]
     /\ heap' = IF n.st = "active" /\ n.state # None THEN heap ELSE Decref(heap, q.state)
     /\ UNCHANGED <<global, servers, status, configs>>

\* The request is answered.
Answer(u) == /\ search[u].st = "active"
             /\ search' = [search EXCEPT ![u] = [@ EXCEPT !.st = "answered", !.state = None]]
             /\ heap' = Decref(heap, search[u].state)
             /\ UNCHANGED <<global, servers, status, configs>>

Flags == {{"search", "nameservers"}, {"search"}, {"nameservers"}}
Pairs == UNION {[1..k -> Lines] : k \in 0..MaxLines}
WinLists == UNION {[1..k -> Addresses \cup {None}] : k \in 0..2}

Next == \/ \E d \in Domains : SearchAdd(d)
        \/ SearchClear \/ \E n \in 1..2 : NdotsSet(n)
        \/ \E flags \in Flags : \/ ConfMissing(flags) \/ ConfEmpty(flags)
                                \/ \E lines \in Pairs : ConfParse(lines, flags)
        \/ ConfTooLarge
        \/ \E p, r \in WinLists : WindowsServers(p, r)
        \/ \E u \in Users : Fail(u) \/ Answer(u) \/ \E dots \in 0..1 : Resolve(u, dots)

Spec == Init /\ [][Next]_vars

-----------------------------------------------------------------------------
(***************************************************************************)
(* The references of a search state are the global one and one of each     *)
(* search that still uses it: it is freed with the last of them, however   *)
(* the configuration changes meanwhile.                                    *)
(***************************************************************************)
RefsExact == \A s \in Slots :
               heap[s].refs = Cardinality({u \in Users : search[u].st = "active" /\ search[u].state = s})
                              + IF global = s THEN 1 ELSE 0

(***************************************************************************)
(* A search that fails has tried the names of the list it began with, in   *)
(* order: the name as it is first if it has ndots dots, otherwise last;    *)
(* clearing or parsing a file in between does not change it, and domains   *)
(* that are added only make it longer.  The name as it is may be left out  *)
(* when ndots is set during the search.                                    *)
(***************************************************************************)
SearchComplete ==
  \A u \in Users : search[u].st = "done" =>
    LET q == search[u]
        Tried(x) == \E k \in DOMAIN q.tried : q.tried[k] = x
    IN  /\ \A i \in DOMAIN q.plan : q.plan[i] # Raw \/ q.fixed => Tried(q.plan[i])
        /\ q.tried[1] = q.plan[1]

(***************************************************************************)
(* After a file is parsed the domains are those of its last domain or      *)
(* search line, in the order of the line, and with none they are as        *)
(* before, or the domain of the host name; there is a name server.         *)
(***************************************************************************)
LastOf(lines) == {k \in DOMAIN lines : /\ lines[k].word \in {"domain", "search"}
                                       /\ \A j \in DOMAIN lines : j > k => lines[j].word \notin {"domain", "search"}}
Said(lines) == LET l == lines[CHOOSE k \in LastOf(lines) : TRUE]
               IN  IF l.word = "domain" THEN <<l.arg>> ELSE l.arg
Before == IF global = None THEN <<>> ELSE heap[global].doms
HostList == IF HostDomain = None THEN <<>> ELSE <<HostDomain>>
ConfApplied ==
  Cardinality(Free(Conf)) > 1 =>
    \A flags \in Flags : \A lines \in Pairs :
      LET c == ParseLines(Conf, lines, flags)
          l == IF LastOf(lines) = {} THEN Before ELSE Said(lines)
      IN  /\ "search" \in flags => c.heap[c.global].doms = IF l = <<>> THEN HostList ELSE l
          /\ "nameservers" \in flags => c.servers # {}

(***************************************************************************)
(* evdns_search_clear(): the list of domains is cleared, and the number of *)
(* dots stays as evdns_search_ndots_set() has set it.                      *)
(***************************************************************************)
ClearKeepsNdots == [][SearchClear /\ global # None => heap'[global'].ndots = heap[global].ndots]_vars

(***************************************************************************)
(* evdns_config_windows_nameservers() is successful when there is a name   *)
(* server.                                                                 *)
(***************************************************************************)
WindowsFound == [][\A p, r \in WinLists : WindowsServers(p, r) /\ status' = 0 => servers' # {}]_vars
=============================================================================
