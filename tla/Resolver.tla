------------------------------- MODULE Resolver -------------------------------
(***************************************************************************)
(* The asynchronous resolver (contrib/libevent/evdns.c): the queues of     *)
(* requests in flight and waiting, the name servers that come and go, and  *)
(* the replies, which the network loses, repeats and reorders.  The        *)
(* variable g holds the globals of the code, and an operator on it is one  *)
(* of its functions.                                                       *)
(***************************************************************************)
EXTENDS Integers, Sequences, FiniteSets

CONSTANTS Servers, Users,   \* addresses of name servers; calls of evdns_resolve_*()
          Names,            \* function on Users: how many further names a search has
          MaxInflight,      \* global_max_requests_inflight
          MaxRetransmits,   \* global_max_retransmits
          MaxReissues,      \* global_max_reissues
          MaxNsTimeouts,    \* global_max_nameserver_timeout
          NIds,             \* the transaction ids are 0..NIds - 1
          NSlots,           \* bound: requests that exist at a time
          MaxNet,           \* bound: packets that may still be answered, the last ones sent
          MaxFaults,        \* bound: changes of a link, closing and opening of servers
          Faults,           \* the values a link may take besides "ok"
          Closes,           \* whether servers are cleared and the resolver is shut down
          None

\* What the constants have to be.
Sane == /\ Names \in [Users -> Nat] /\ Users \cap Servers = {}
        /\ None \notin Users \cup Servers
        /\ {MaxInflight, NIds, NSlots, MaxNet} \subseteq Nat \ {0}
        /\ {MaxRetransmits, MaxReissues, MaxNsTimeouts, MaxFaults} \subseteq Nat
        /\ Faults \subseteq {"again", "error"} /\ Closes \in BOOLEAN

VARIABLES g,        \* the globals of evdns.c, its requests and its servers
          link,     \* what send() on the socket of a server does
          faults    \* faults that are left

vars == <<g, link, faults>>

Kinds == {"answer", "refused", "servfail", "notexist", "empty"}
Slots == 1..NSlots
NoId == NIds                       \* 0xffff

\* Members of struct request; the owner is who gets the callback, a server for a probe,
\* and rest counts the names of a search that have not been tried.
NoRequest == [live |-> FALSE, id |-> 0, ns |-> None, tx |-> 0, reissues |-> 0, me |-> FALSE,
              timer |-> FALSE, owner |-> None, rest |-> 0, gen |-> 0]
NewServer == [up |-> TRUE, timedout |-> 0, timer |-> FALSE, choked |-> FALSE, waiting |-> FALSE]

-----------------------------------------------------------------------------
(***************************************************************************)
(* Name servers.                                                           *)
(***************************************************************************)

Rotated(q, k) == SubSeq(q, k + 1, Len(q)) \o SubSeq(q, 1, k)

\* nameserver_pick(); x.order is the circular list from server_head on.
Pick(x) ==
  LET good == {i \in DOMAIN x.order : x.srv[x.order[i]].up}
      k == CHOOSE i \in good : \A j \in good : i <= j
  IN  CASE x.order = <<>> -> [ns |-> None, order |-> <<>>]
        [] x.order # <<>> /\ x.good = 0 -> [ns |-> Rotated(x.order, 1)[1], order |-> Rotated(x.order, 1)]
        [] x.order # <<>> /\ x.good # 0 -> [ns |-> x.order[k], order |-> Rotated(x.order, k)]

PickFor(x, r) == LET p == Pick(x) IN [x EXCEPT !.order = p.order, !.req[r].ns = p.ns]

\* nameserver_failed(): requests that have not gone out move to another server.
Failed(x, s) ==
  LET y == [x EXCEPT !.good = @ - 1, !.srv[s].up = FALSE, !.srv[s].timer = TRUE]
      move[n \in 0..Len(y.inflight)] ==
        IF n = 0 THEN y
        ELSE LET r == y.inflight[n]
             IN  IF y.req[r].tx = 0 /\ y.req[r].ns = s THEN PickFor(move[n - 1], r) ELSE move[n - 1]
  IN  IF ~x.srv[s].up THEN x ELSE IF y.good = 0 THEN y ELSE move[Len(y.inflight)]

\* nameserver_up().
Up(x, s) == IF x.srv[s].up THEN x
            ELSE [x EXCEPT !.srv[s] = [@ EXCEPT !.up = TRUE, !.timer = FALSE, !.timedout = 0],
                           !.good = @ + 1]

\* nameserver_probe_failed(); the intervals grow, which does not matter here.
ProbeFailed(x, s) == [x EXCEPT !.srv[s].timer = ~x.srv[s].up]

-----------------------------------------------------------------------------
(***************************************************************************)
(* Sending.                                                                *)
(***************************************************************************)

\* A packet that was sent: its id, what it asks for, and where it went.
Packet(q) == [id |-> q.id, owner |-> q.owner, rest |-> q.rest, ns |-> q.ns]

Sent(x, r) == LET n == Append(SelectSeq(x.net, LAMBDA p : p # Packet(x.req[r])), Packet(x.req[r]))
              IN  [x EXCEPT !.net = IF Len(n) > MaxNet THEN Tail(n) ELSE n]

TimerSet(x, r) == [x EXCEPT !.req[r] = [@ EXCEPT !.timer = TRUE, !.tx = @ + 1, !.me = FALSE]]

\* A request that is not marked for another attempt when its socket blocks.
BugTransmit(x, r) ==
  LET s == x.req[r].ns
  IN  CASE s = None -> [x EXCEPT !.crash = "null server"]
        [] s # None /\ x.srv[s].choked -> x
        [] s # None /\ ~x.srv[s].choked /\ link[s] = "again" ->
             [x EXCEPT !.srv[s] = [@ EXCEPT !.choked = TRUE, !.waiting = TRUE]]
        [] s # None /\ ~x.srv[s].choked /\ link[s] = "error" -> TimerSet(Failed(x, s), r)
        [] s # None /\ ~x.srv[s].choked /\ link[s] = "ok" ->
             TimerSet(Sent(x, r), r)

\* evdns_request_transmit(), with evdns_request_transmit_to() and
\* nameserver_write_waiting(): EAGAIN chokes the server, an error fails it.
Transmit(x, r) ==
  LET s == x.req[r].ns
      y == [x EXCEPT !.req[r].me = TRUE]
  IN  CASE s = None -> [x EXCEPT !.crash = "null server"]
        [] s # None /\ x.srv[s].choked -> y
        [] s # None /\ ~x.srv[s].choked /\ link[s] = "again" ->
             [y EXCEPT !.srv[s] = [@ EXCEPT !.choked = TRUE, !.waiting = TRUE]]
        [] s # None /\ ~x.srv[s].choked /\ link[s] = "error" -> TimerSet(Failed(y, s), r)
        [] s # None /\ ~x.srv[s].choked /\ link[s] = "ok" ->
             TimerSet(Sent(y, r), r)

\* evdns_transmit().
TransmitAll(x) ==
  LET f[n \in 0..Len(x.inflight)] ==
        IF n = 0 THEN x
        ELSE IF f[n - 1].req[x.inflight[n]].me THEN Transmit(f[n - 1], x.inflight[n]) ELSE f[n - 1]
  IN  f[Len(x.inflight)]

Marked(x) == \E i \in DOMAIN x.inflight : x.req[x.inflight[i]].me

\* transaction_id_pick(): the first id of the generator that no request has; the search
\* ends where it began when it is the first request that has the id.
PickId(x) ==
  LET used == {x.req[x.inflight[i]].id : i \in DOMAIN x.inflight}
      Fits(i) == i \notin used \/ i = x.req[x.inflight[1]].id
      d == CHOOSE n \in 0..(NIds - 1) : /\ Fits((x.seed + n) % NIds)
                                        /\ \A m \in 0..(n - 1) : ~Fits((x.seed + m) % NIds)
  IN  (x.seed + d) % NIds

SetId(x, r) == LET i == PickId(x) IN [x EXCEPT !.req[r].id = i, !.seed = (i + 1) % NIds]

-----------------------------------------------------------------------------
(***************************************************************************)
(* Requests.                                                               *)
(***************************************************************************)

Free(x) == {r \in Slots : ~x.req[r].live}
Slot(x) == CHOOSE r \in Free(x) : \A s \in Free(x) : r <= s

\* request_new(), in the slot r: a request that can go out now has an id and a server.
New(x, r, owner, rest) ==
  LET y == [x EXCEPT !.req[r] = [NoRequest EXCEPT !.live = TRUE, !.id = NoId, !.owner = owner,
                                                  !.rest = rest, !.gen = x.gen]]
  IN  IF x.ninflight < MaxInflight THEN PickFor(SetId(y, r), r) ELSE y

\* request_submit(), evdns_request_insert().
Submit(x, r) ==
  IF x.req[r].ns # None
  THEN Transmit([x EXCEPT !.inflight = Append(@, r), !.ninflight = @ + 1], r)
  ELSE [x EXCEPT !.waiting = Append(@, r), !.nwaiting = @ + 1]

Ask(x, owner, rest) == LET r == Slot(x) IN Submit(New(x, r, owner, rest), r)

\* evdns_requests_pump_waiting_queue().
Promote(x) ==
  LET r == Head(x.waiting)
      y == [x EXCEPT !.waiting = Tail(@), !.nwaiting = @ - 1, !.ninflight = @ + 1]
      z == SetId(PickFor(y, r), r)
      t == Transmit([z EXCEPT !.inflight = Append(@, r)], r)
  IN  IF t.crash # None THEN t ELSE TransmitAll(t)

Pump(x) ==
  LET f[n \in 0..NSlots] ==
        IF n = 0 THEN x
        ELSE LET y == f[n - 1]
             IN  CASE y.crash # None \/ y.ninflight >= MaxInflight \/ y.nwaiting = 0 -> y
                   [] OTHER -> IF y.waiting = <<>> THEN [y EXCEPT !.crash = "assert waiting"]
                               ELSE Promote(y)
  IN  f[NSlots]

\* request_finished().
Finish(x, r) ==
  IF x.crash # None THEN x
  ELSE Pump([x EXCEPT !.inflight = SelectSeq(@, LAMBDA y : y # r),
                      !.waiting = SelectSeq(@, LAMBDA y : y # r),
                      !.ninflight = @ - 1,
                      !.req[r] = NoRequest])

\* reply_callback(): the callback of the user, or nameserver_probe_callback(), whose
\* argument is the server as it was when the probe was sent.
Callback(x, r, result) ==
  LET o == x.req[r].owner
  IN  CASE o \in Users -> [x EXCEPT !.answers[o] = @ + 1]
        [] o \in Servers /\ x.req[r].gen # x.gen -> [x EXCEPT !.crash = "freed server"]
        [] o \in Servers /\ x.req[r].gen = x.gen ->
             IF result \in {"answer", "notexist"} THEN Up(x, o) ELSE ProbeFailed(x, o)

\* search_try_next(): another name in another request.
TryNext(x, r) == Finish(Ask(x, x.req[r].owner, x.req[r].rest - 1), r)

\* No slot is left: request_new() has no memory, and the caller is told of the failure.
GiveUp(x, r, result) == IF x.req[r].rest > 0 /\ Free(x) # {} THEN TryNext(x, r)
                        ELSE Finish(Callback(x, r, result), r)

\* request_reissue() asks another server, if there is one.
Reissue(x, r) ==
  LET s == x.req[r].ns
      y == PickFor(Failed(x, s), r)
  IN  IF y.req[r].ns = s THEN GiveUp(y, r, "refused")
      ELSE [y EXCEPT !.req[r] = [@ EXCEPT !.reissues = @ + 1, !.tx = 0, !.me = TRUE]]

\* reply_handle().
Handle(x, r, kind) ==
  LET s == x.req[r].ns
  IN  CASE kind = "answer" ->
             LET y == Callback(x, r, kind) IN Finish(IF y.crash # None THEN y ELSE Up(y, s), r)
        [] kind = "refused" -> IF x.req[r].reissues < MaxReissues THEN Reissue(x, r)
                               ELSE GiveUp(x, r, kind)
        [] kind = "servfail" -> GiveUp(x, r, kind)
        [] kind \in {"notexist", "empty"} -> GiveUp(Up(x, s), r, kind)

-----------------------------------------------------------------------------
Init == /\ g = [req |-> [r \in Slots |-> NoRequest], inflight |-> <<>>, waiting |-> <<>>,
                ninflight |-> 0, nwaiting |-> 0,
                order |-> CHOOSE q \in [1..Cardinality(Servers) -> Servers] :
                            \A s \in Servers : \E i \in DOMAIN q : q[i] = s,
                srv |-> [s \in Servers |-> NewServer], good |-> Cardinality(Servers), gen |-> 0,
                net |-> <<>>, answers |-> [u \in Users |-> 0], asked |-> {}, seed |-> 0,
                state |-> "open", crash |-> None]
        /\ link = [s \in Servers |-> "ok"]
        /\ faults = MaxFaults

Running == g.crash = None /\ g.state # "shut"

Step(x) == Running /\ g' = x /\ UNCHANGED <<link, faults>>

\* evdns_resolve_ipv4() and the others, search_request_new().
Resolve(u) == /\ u \notin g.asked /\ Free(g) # {}
              /\ Step(Ask([g EXCEPT !.asked = @ \cup {u}], u, Names[u]))

\* The network loses, repeats and reorders what is on its way.
OnTheWay == {g.net[i] : i \in DOMAIN g.net}

\* reply_parse() finds the request by its id; an error code is believed before the
\* name is looked at.
Matching(id) == {i \in DOMAIN g.inflight : g.req[g.inflight[i]].id = id}
SameName(r, p) == g.req[r].owner = p.owner /\ g.req[r].rest = p.rest
Reply(p, kind) ==
  /\ \E i \in DOMAIN g.order : g.order[i] = p.ns
  /\ LET x == [g EXCEPT !.srv[p.ns].timedout = 0]
         m == Matching(p.id)
         r == g.inflight[CHOOSE i \in m : \A j \in m : i <= j]
     IN  IF m = {} \/ (kind \in {"answer", "empty"} /\ ~SameName(r, p)) THEN Step(x)
         ELSE Step(Handle(x, r, kind))

\* evdns_request_timeout_callback().
Timeout(r) ==
  LET s == g.req[r].ns
      n == g.srv[s].timedout + 1
      x == [g EXCEPT !.req[r].timer = FALSE, !.srv[s].timedout = IF n > MaxNsTimeouts THEN 0 ELSE n]
      y == IF n > MaxNsTimeouts THEN Failed(x, s) ELSE x
  IN /\ g.req[r].timer
     /\ Step(IF y.req[r].tx >= MaxRetransmits THEN Finish(Callback(y, r, "timeout"), r)
             ELSE Transmit(y, r))

\* nameserver_ready_callback() for writing.
Writable(s) ==
  LET x == [g EXCEPT !.srv[s].choked = FALSE]
  IN /\ g.srv[s].waiting /\ link[s] # "again"
     /\ Step(IF Marked(x) THEN TransmitAll(x) ELSE [x EXCEPT !.srv[s].waiting = FALSE])

\* recv() fails in nameserver_read().
ReadError(s) == /\ link[s] = "error" /\ g.srv[s].up /\ \E i \in DOMAIN g.order : g.order[i] = s
                /\ Step(Failed(g, s))

\* nameserver_prod_callback(), nameserver_send_probe().
Probe(s) ==
  LET r == Slot(g)
      x == SetId(New([g EXCEPT !.srv[s].timer = FALSE], r, s, 0), r)
  IN /\ g.srv[s].timer /\ Free(g) # {}
     /\ Step(Submit([x EXCEPT !.req[r].ns = s], r))

Fault == faults > 0 /\ faults' = faults - 1 /\ Running

LinkChange(s) == /\ Fault
                 /\ \E v \in Faults \cup {"ok"} : v # link[s] /\ link' = [link EXCEPT ![s] = v]
                 /\ UNCHANGED g

\* A socket that could not be written to has room again.
Unblock(s) == Running /\ link[s] = "again" /\ link' = [link EXCEPT ![s] = "ok"] /\ UNCHANGED <<g, faults>>

\* trans_id_function() goes on: default_transaction_id_fn() reads a clock.
Clock(i) == Fault /\ i # g.seed /\ g' = [g EXCEPT !.seed = i] /\ UNCHANGED link

\* evdns_clear_nameservers_and_suspend(): each request in flight becomes the first of
\* those that wait.
Suspended(x) ==
  LET n == Len(x.inflight)
      In(r) == \E i \in DOMAIN x.inflight : x.inflight[i] = r
  IN  [x EXCEPT !.order = <<>>, !.good = 0, !.gen = @ + 1, !.net = <<>>,
                !.srv = [s \in Servers |-> NewServer],
                !.waiting = [i \in 1..n |-> x.inflight[n + 1 - i]] \o @,
                !.nwaiting = @ + n, !.inflight = <<>>, !.ninflight = 0,
                !.req = [r \in Slots |->
                           IF In(r) THEN [@[r] EXCEPT !.tx = 0, !.reissues = 0, !.ns = None, !.id = 0,
                                                      !.timer = FALSE, !.me = FALSE]
                           ELSE @[r]],
                !.state = "suspended"]
Suspend == /\ Fault /\ Closes /\ g.order # <<>>
           /\ g' = Suspended(g)
           /\ UNCHANGED link

\* _evdns_nameserver_add_impl(): behind server_head.
NameserverAdd(s) ==
  /\ Running /\ Closes /\ \A i \in DOMAIN g.order : g.order[i] # s
  /\ g' = [g EXCEPT !.order = IF @ = <<>> THEN <<s>> ELSE <<@[1], s>> \o Tail(@),
                    !.srv[s] = NewServer, !.good = @ + 1]
  /\ UNCHANGED <<link, faults>>

\* evdns_resume().
Resume == /\ g.state = "suspended"
          /\ Step([Pump(g) EXCEPT !.state = "open"])

\* evdns_shutdown(): first one list, then the other, then the counters and the servers.
ShutStep(x, q, fail) ==
  IF x.crash # None \/ q = <<>> THEN x
  ELSE Finish(IF fail THEN Callback(x, q[1], "shutdown") ELSE x, q[1])
Shut(x, fail) ==
  LET f[n \in 0..NSlots] == IF n = 0 THEN x ELSE ShutStep(f[n - 1], f[n - 1].inflight, fail)
      h[n \in 0..NSlots] == IF n = 0 THEN f[NSlots] ELSE ShutStep(h[n - 1], h[n - 1].waiting, fail)
  IN  [h[NSlots] EXCEPT !.state = "shut", !.order = <<>>, !.good = 0, !.ninflight = 0, !.nwaiting = 0]
Shutdown(fail) == /\ Fault /\ Closes
                  /\ g' = Shut(g, fail)
                  /\ UNCHANGED link

Next == \/ \E u \in Users : Resolve(u)
        \/ \E p \in OnTheWay : \E kind \in Kinds : Reply(p, kind)
        \/ \E r \in Slots : Timeout(r)
        \/ \E s \in Servers : Writable(s) \/ ReadError(s) \/ Probe(s) \/ LinkChange(s) \/ Unblock(s) \/ NameserverAdd(s)
        \/ \E i \in 0..(NIds - 1) : Clock(i)
        \/ Suspend \/ Resume
        \/ \E fail \in BOOLEAN : Shutdown(fail)

Spec == Init /\ [][Next]_vars

-----------------------------------------------------------------------------
(***************************************************************************)
(* The counters of evdns.c agree with its lists: the pump and              *)
(* nameserver_pick() rely on them, and assert them.                        *)
(***************************************************************************)
CountersAgree == Running =>
                   /\ g.ninflight = Len(g.inflight) /\ g.nwaiting = Len(g.waiting)
                   /\ g.good = Cardinality({i \in DOMAIN g.order : g.srv[g.order[i]].up})

(***************************************************************************)
(* A resolve that was asked for and not answered is carried by exactly one *)
(* request, through reissues, searches and suspensions; one that was       *)
(* answered was answered once, and no request is left of it.               *)
(***************************************************************************)
Carriers(u) == {r \in Slots : g.req[r].live /\ g.req[r].owner = u}
OneCarrier == Running => \A u \in g.asked : /\ g.answers[u] \in {0, 1}
                                            /\ Cardinality(Carriers(u)) = 1 - g.answers[u]

(***************************************************************************)
(* No request in flight is forgotten: its timer runs, or it is marked to   *)
(* be sent and some socket is watched for writing.                         *)
(***************************************************************************)
NoneForgotten == Running => \A i \in DOMAIN g.inflight :
                              LET q == g.req[g.inflight[i]]
                              IN  q.timer \/ (q.me /\ \E s \in Servers : g.srv[s].waiting)

(***************************************************************************)
(* A name server that is down is probed: its timer runs, or a probe is on  *)
(* its way.                                                                *)
(***************************************************************************)
DownIsProbed == Running => \A i \in DOMAIN g.order :
                             LET s == g.order[i]
                             IN  g.srv[s].up \/ g.srv[s].timer \/ \E r \in Slots : g.req[r].live /\ g.req[r].owner = s

(***************************************************************************)
(* Requests wait only when as many as allowed are in flight, or while the  *)
(* resolver is suspended.                                                  *)
(***************************************************************************)
WaitOnlyWhenFull == Running /\ g.state = "open" /\ g.waiting # <<>> /\ g.gen = 0 => g.ninflight >= MaxInflight

(***************************************************************************)
(* transaction_id_pick(): "a strong transaction id which isn't already in  *)
(* flight".                                                                *)
(***************************************************************************)
UniqueIds == \A i, j \in DOMAIN g.inflight : i # j => g.req[g.inflight[i]].id # g.req[g.inflight[j]].id

(***************************************************************************)
(* reply_handle(): the request of a reply SERVERFAILED is left to time     *)
(* out.                                                                    *)
(***************************************************************************)
ServfailWaits == [][\A p \in OnTheWay : Reply(p, "servfail") => g'.answers = g.answers]_vars

(***************************************************************************)
(* reply_parse(): replies for another name are ignored.                    *)
(***************************************************************************)
RepliesForName == [][\A p \in OnTheWay : \A kind \in Kinds : Reply(p, kind) =>
                       \A u \in Users \ {p.owner} : g'.answers[u] = g.answers[u]]_vars

(***************************************************************************)
(* reply_handle(): a name server comes up by a good reply of its own.      *)
(***************************************************************************)
UpByOwnReply == [][\A s \in Servers : ~g.srv[s].up /\ g'.srv[s].up /\ g'.gen = g.gen
                                        => \E p \in OnTheWay : p.ns = s /\ \E kind \in Kinds : Reply(p, kind)]_vars

(***************************************************************************)
(* evdns_shutdown() runs to its end, and leaves no request.                *)
(***************************************************************************)
ShutdownEnds == g.state = "shut" => g.crash = None /\ \A r \in Slots : ~g.req[r].live

(***************************************************************************)
(* The callback of a probe is never called for a server that was cleared.  *)
(***************************************************************************)
NoFreedServer == g.crash # "freed server"

-----------------------------------------------------------------------------
(***************************************************************************)
(* Fairness: timers end, a socket that blocks becomes writable, and it is  *)
(* reported.  The first two are weak fairness with the condition under     *)
(* which the action can be taken written out.                              *)
(***************************************************************************)
TimerEnds(r) == []<>~(Running /\ g.req[r].timer) \/ []<><<Timeout(r)>>_vars
WritableSeen(s) == []<>~(Running /\ g.srv[s].waiting /\ link[s] # "again") \/ []<><<Writable(s)>>_vars
LiveSpec == /\ Spec
            /\ \A r \in Slots : TimerEnds(r)
            /\ \A s \in Servers : WritableSeen(s) /\ WF_vars(Unblock(s))

(***************************************************************************)
(* Every resolve ends with a callback, even when no server answers.        *)
(***************************************************************************)
EveryoneAnswered == \A u \in Users : u \in g.asked ~> g.answers[u] = 1
=============================================================================
