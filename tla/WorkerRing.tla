----------------------------- MODULE WorkerRing -----------------------------
(***************************************************************************)
(* The configuration interface of a server with workers, as one thread     *)
(* calls it: evhttp_add_worker() links a worker into the ring of next      *)
(* pointers, and evhttp_set_cb(), evhttp_del_cb(), evhttp_set_gencb(),     *)
(* evhttp_set_timeout() and evhttp_free() apply themselves to the server   *)
(* and then walk the ring with                                             *)
(*                                                                         *)
(*   cur = http->next;                                                     *)
(*   do { apply to cur; cur = cur->next; } while (cur->next != http->next);*)
(*   apply to cur;                                                         *)
(*                                                                         *)
(* Each turn of the walk is a step.  Object 0 is the server, the workers   *)
(* are 1, 2, ... in the order in which they were added; 0 as a pointer is  *)
(* NULL.  A use of freed memory ends the behaviour with ub set.            *)
(***************************************************************************)
EXTENDS Integers, Sequences, SequenceTheorems, WellFoundedInduction, TLAPS

CONSTANTS MaxWorkers,  \* bound: workers added
          MaxCbs,      \* bound: URIs registered on the server at a time
          Uris,        \* URIs without their query part
          Cbs,         \* callback functions
          Timeouts,    \* timeouts in seconds
          None         \* no callback

ASSUME MaxWorkersAssumption == MaxWorkers \in Nat
ASSUME NoneAssumption == None \notin Cbs

Objects == 0..MaxWorkers

VARIABLES nworkers,   \* workers created so far
          next,       \* next pointer of every object
          callbacks,  \* callbacks of every object, in list order
          gencb,      \* generic callback of every object
          timeout,    \* timeout of every object, -1 when not set
          configured, \* a configuration call was made
          call,       \* the call that walks the ring, or Idle
          at,         \* cur of the walk
          phase,      \* of the walk: "body" of the loop, or "last" after it
          freed,      \* objects given to free()
          ub          \* "none" or "use after free"

vars == <<nworkers, next, callbacks, gencb, timeout, configured, call, at, phase, freed, ub>>

Idle == [op |-> "idle"]

Init == /\ nworkers = 0
        /\ next = [o \in Objects |-> 0]
        /\ callbacks = [o \in Objects |-> <<>>]
        /\ gencb = [o \in Objects |-> None]
        /\ timeout = [o \in Objects |-> -1]
        /\ configured = FALSE
        /\ call = Idle
        /\ at = 0
        /\ phase = "none"
        /\ freed = {}
        /\ ub = "none"

Ready == call = Idle /\ 0 \notin freed /\ ub = "none"

-----------------------------------------------------------------------------
\* A worker that is linked in front of the first one.
BugAddInFront ==
  /\ Ready /\ ~configured /\ nworkers < MaxWorkers
  /\ nworkers' = nworkers + 1
  /\ next' = IF next[0] = 0
             THEN [next EXCEPT ![0] = 1, ![1] = 1]
             ELSE [next EXCEPT ![0] = nworkers + 1, ![nworkers + 1] = next[0]]
  /\ UNCHANGED <<callbacks, gencb, timeout, configured, call, at, phase, freed, ub>>

\* evhttp_add_worker(): the loop that looks for the end of the ring finds the
\* one object whose next is the first worker.  The header asks for all workers
\* to be added before the server is configured.
AddWorker ==
  /\ Ready /\ ~configured /\ nworkers < MaxWorkers
  /\ LET worker == nworkers + 1
         last == CHOOSE o \in 1..nworkers : next[o] = next[0]
     IN  /\ nworkers' = worker
         /\ next' = IF next[0] = 0
                    THEN [next EXCEPT ![0] = worker, ![worker] = worker]
                    ELSE [next EXCEPT ![last] = worker, ![worker] = next[0]]
  /\ UNCHANGED <<callbacks, gencb, timeout, configured, call, at, phase, freed, ub>>

-----------------------------------------------------------------------------
(***************************************************************************)
(* What the calls do to one object.                                        *)
(***************************************************************************)

\* Position of the first entry for u, 0 when there is none.
Find(list, u) ==
  IF \E i \in 1..Len(list) : list[i].uri = u
  THEN CHOOSE i \in 1..Len(list) :
         list[i].uri = u /\ \A j \in 1..(i - 1) : list[j].uri # u
  ELSE 0

\* TAILQ_REMOVE() of the entry at position i; without one the call returned.
DeleteAt(list, i) ==
  IF i = 0 THEN list ELSE SubSeq(list, 1, i - 1) \o SubSeq(list, i + 1, Len(list))

\* The new callback list of object o.
NewCallbacks(c, o) ==
  CASE c.op = "set_cb"  -> Append(callbacks[o], [uri |-> c.uri, cb |-> c.cb])
    [] c.op = "del_cb"  -> DeleteAt(callbacks[o], Find(callbacks[o], c.uri))
    [] c.op = "free"    -> <<>>
    [] OTHER            -> callbacks[o]

\* A call applied to one object.
Apply(c, o) ==
  /\ callbacks' = [callbacks EXCEPT ![o] = NewCallbacks(c, o)]
  /\ gencb' = IF c.op = "set_gencb" THEN [gencb EXCEPT ![o] = c.cb] ELSE gencb
  /\ timeout' = IF c.op = "set_timeout" THEN [timeout EXCEPT ![o] = c.secs] ELSE timeout

-----------------------------------------------------------------------------
(***************************************************************************)
(* The calls.                                                              *)
(***************************************************************************)

\* A call begins with the server itself; the walk starts if it has workers.
\* evhttp_free() frees the server at the very end.
Begin(c) ==
  /\ Ready
  /\ Apply(c, 0)
  /\ call' = IF next[0] = 0 THEN Idle ELSE c
  /\ at' = next[0]
  /\ phase' = IF next[0] = 0 THEN "none" ELSE "body"
  /\ freed' = IF c.op = "free" /\ next[0] = 0 THEN {0} ELSE freed
  /\ configured' = TRUE
  /\ UNCHANGED <<nworkers, next, ub>>

SetCb(u, f) == /\ Len(callbacks[0]) < MaxCbs
               /\ Begin([op |-> "set_cb", uri |-> u, cb |-> f])

\* evhttp_del_cb() returns -1 before it looks at a worker when the server does
\* not know the URI.
DelCb(u) == /\ Find(callbacks[0], u) # 0
            /\ Begin([op |-> "del_cb", uri |-> u])

SetGencb(f) == Begin([op |-> "set_gencb", cb |-> f])

SetTimeout(t) == Begin([op |-> "set_timeout", secs |-> t])

Free == Begin([op |-> "free"])

\* The object of the walk is finished with the call.
Visit == /\ Apply(call, at)
         /\ UNCHANGED <<nworkers, next, configured>>

\* A loop whose test looks at cur instead of cur->next and that has no
\* statement after it for the last worker.
BugWalkBody ==
  /\ phase = "body" /\ ub = "none"
  /\ Visit
  /\ freed' = IF call.op = "free" THEN freed \cup {at} ELSE freed
  /\ LET done == next[next[at]] = next[0] IN
       /\ at' = IF done THEN 0 ELSE next[at]
       /\ call' = IF done THEN Idle ELSE call
       /\ phase' = IF done THEN "none" ELSE "body"
  /\ UNCHANGED ub

\* A loop that reads the pointer to the next worker after the call, as the other
\* loops do, although evhttp_free() has freed the worker by then.
BugNextAfterFree ==
  /\ phase = "body" /\ ub = "none"
  /\ Visit
  /\ freed' = IF call.op = "free" THEN freed \cup {at} ELSE freed
  /\ at' = next[at]
  /\ ub' = IF at \in freed' THEN "use after free" ELSE "none"
  /\ phase' = IF next[at'] # next[0] THEN "body" ELSE "last"
  /\ UNCHANGED call

\* The body of the do-while loop and its test, which reads cur->next of the
\* object that the walk has moved to.  evhttp_free() has freed the old one.
WalkBody ==
  /\ phase = "body" /\ ub = "none"
  /\ Visit
  /\ freed' = IF call.op = "free" THEN freed \cup {at} ELSE freed
  /\ at' = next[at]
  /\ ub' = IF at' \in freed' THEN "use after free" ELSE "none"
  /\ phase' = IF next[at'] # next[0] THEN "body" ELSE "last"
  /\ UNCHANGED call

\* The statement after the loop, and for evhttp_free() the end of the server.
WalkLast ==
  /\ phase = "last" /\ ub = "none"
  /\ Visit
  /\ freed' = IF call.op = "free" THEN freed \cup {at, 0} ELSE freed
  /\ call' = Idle
  /\ at' = 0
  /\ phase' = "none"
  /\ UNCHANGED ub

Next == \/ AddWorker
        \/ \E u \in Uris, f \in Cbs : SetCb(u, f)
        \/ \E u \in Uris : DelCb(u)
        \/ \E f \in Cbs : SetGencb(f)
        \/ \E t \in Timeouts : SetTimeout(t)
        \/ Free
        \/ WalkBody
        \/ WalkLast

Spec == Init /\ [][Next]_vars

-----------------------------------------------------------------------------
(***************************************************************************)
(* Properties.                                                             *)
(***************************************************************************)

Calls == {Idle}
         \cup [op : {"set_cb"}, uri : Uris, cb : Cbs]
         \cup [op : {"del_cb"}, uri : Uris]
         \cup [op : {"set_gencb"}, cb : Cbs]
         \cup [op : {"set_timeout"}, secs : Timeouts]
         \cup [op : {"free"}]

TypeOK == /\ nworkers \in 0..MaxWorkers
          /\ next \in [Objects -> Objects]
          /\ callbacks \in [Objects -> Seq([uri : Uris, cb : Cbs])]
          /\ gencb \in [Objects -> Cbs \cup {None}]
          /\ timeout \in [Objects -> Timeouts \cup {-1}]
          /\ configured \in BOOLEAN
          /\ call \in Calls
          /\ at \in Objects
          /\ phase \in {"none", "body", "last"}
          /\ freed \in SUBSET Objects
          /\ ub \in {"none", "use after free"}

\* The next pointers form one cycle through all the workers in the order in
\* which they were added: accept_socket() gives every worker its turn.
RingInOrder ==
  /\ nworkers = 0 <=> next[0] = 0
  /\ nworkers > 0 => /\ next[0] = 1
                     /\ next[nworkers] = 1
                     /\ \A w \in 1..(nworkers - 1) : next[w] = w + 1

\* evhttp_dispatch_callback() and evhttp_handle_request(): what object o calls
\* for a request for u, None for the 404 page.
Answer(o, u) == LET i == Find(callbacks[o], u)
                IN  IF i # 0 THEN callbacks[o][i].cb ELSE gencb[o]

\* Between two calls it does not matter to a client which worker its connection
\* went to: every worker answers every URI as the server itself would.
WorkersAgree ==
  Ready => \A w \in 1..nworkers : /\ timeout[w] = timeout[0]
                                  /\ \A u \in Uris : Answer(w, u) = Answer(0, u)

\* Every entry of a list repeated n times.
Stutter(list, n) == [i \in 1..(n * Len(list)) |-> list[(i - 1) \div n + 1]]

\* Between two calls a worker's callback list is the server's, entry by entry;
\* a worker that is alone in the ring has every entry twice, because the walk
\* visits it in the loop and again after it.
CallbacksMirrored ==
  Ready => \A w \in 1..nworkers :
             callbacks[w] = Stutter(callbacks[0], IF nworkers = 1 THEN 2 ELSE 1)

\* evhttp_free() frees the server and every worker and looks at none of them
\* afterwards.
FreeClean == /\ ub = "none"
             /\ 0 \in freed => freed = 0..nworkers

\* That holds for every ring but the one with a single worker.
FreeCleanInLargerRings == nworkers # 1 => FreeClean

-----------------------------------------------------------------------------
(***************************************************************************)
(* Proofs: the ring of workers and the walk over it, for any number of     *)
(* workers.                                                                *)
(***************************************************************************)

\* Where a walk can be, and what an evhttp_free() on its way has freed: the
\* workers before cur, in ring order.
WalkInv ==
  /\ phase = "none" <=> call = Idle
  /\ phase # "none" => at \in 1..nworkers /\ 0 \notin freed
  /\ phase = "body" => nworkers = 1 \/ at < nworkers
  /\ phase = "last" => at = nworkers
  /\ nworkers # 1 => ub = "none"
  /\ nworkers = 1 /\ phase = "last" /\ call.op = "free" => ub # "none"
  /\ ub = "none" => /\ phase # "none" /\ call.op = "free" => freed = 1..(at - 1)
                    /\ phase # "none" /\ call.op # "free" => freed = {}
                    /\ phase = "none" => freed = {} \/ freed = 0..nworkers

RingInv ==
  /\ nworkers \in 0..MaxWorkers
  /\ next \in [Objects -> Objects]
  /\ phase \in {"none", "body", "last"}
  /\ RingInOrder
  /\ WalkInv

\* A server without workers is in the invariant.
LEMMA InitRing == Init => RingInv
BY MaxWorkersAssumption DEF Init, RingInv, WalkInv, RingInOrder, Objects

\* The object that evhttp_add_worker() finds is the last of the ring.
LEMMA LastOfRing ==
  ASSUME nworkers \in Nat \ {0}, RingInOrder
  PROVE  (CHOOSE o \in 1..nworkers : next[o] = next[0]) = nworkers
<1>1. \A o \in 1..nworkers : next[o] = next[0] <=> o = nworkers
  BY DEF RingInOrder
<1> QED
  BY <1>1

\* evhttp_add_worker() keeps the ring closed and in order.
LEMMA AddStep == RingInv /\ AddWorker => RingInv'
<1> SUFFICES ASSUME RingInv, AddWorker PROVE RingInv'
  OBVIOUS
<1>1. /\ nworkers \in Nat /\ nworkers + 1 \in 1..MaxWorkers /\ nworkers' = nworkers + 1
      /\ phase = "none" /\ call = Idle /\ freed = {} /\ ub = "none"
  BY MaxWorkersAssumption DEF RingInv, WalkInv, AddWorker, Ready
<1>2. CASE nworkers = 0
  <2>1. next' = [next EXCEPT ![0] = 1, ![1] = 1]
    BY <1>1, <1>2 DEF AddWorker, RingInv, RingInOrder
  <2> QED
    BY <1>1, <1>2, <2>1, MaxWorkersAssumption
    DEF RingInv, RingInOrder, WalkInv, AddWorker, Objects
<1>3. CASE nworkers # 0
  <2>1. next' = [next EXCEPT ![nworkers] = nworkers + 1, ![nworkers + 1] = next[0]]
    BY <1>1, <1>3, LastOfRing DEF AddWorker, RingInv, RingInOrder
  <2>2. next' \in [Objects -> Objects]
    <3>1. 0 \in Objects /\ nworkers \in Objects /\ nworkers + 1 \in Objects /\ next[0] \in Objects
      BY <1>1, MaxWorkersAssumption DEF RingInv, Objects
    <3> QED
      BY <2>1, <3>1 DEF RingInv
  <2>4. /\ next'[0] = 1 /\ next'[nworkers] = nworkers + 1 /\ next'[nworkers + 1] = 1
        /\ \A w \in 1..(nworkers - 1) : next'[w] = next[w] /\ next[w] = w + 1
    BY <1>1, <1>3, <2>1, MaxWorkersAssumption DEF RingInv, RingInOrder, Objects
  <2>5. RingInOrder'
    BY <1>1, <1>3, <2>4 DEF RingInOrder
  <2>3. WalkInv'
    BY <1>1 DEF AddWorker, WalkInv
  <2> QED
    BY <1>1, <2>2, <2>5, <2>3, MaxWorkersAssumption DEF RingInv, AddWorker
<1> QED
  BY <1>2, <1>3

\* A configuration call starts its walk at the first worker.
LEMMA BeginStep ==
  ASSUME NEW c, RingInv, Begin(c), c # Idle
  PROVE  RingInv'
<1>1. /\ phase = "none" /\ freed = {} /\ ub = "none"
      /\ nworkers \in Nat /\ nworkers' = nworkers /\ next' = next /\ ub' = ub
  BY DEF RingInv, WalkInv, Begin, Ready
<1>2. RingInOrder'
  BY <1>1 DEF RingInv, RingInOrder
<1>3. CASE nworkers = 0
  <2>1. next[0] = 0
    BY <1>3 DEF RingInv, RingInOrder
  <2>2. phase' = "none" /\ call' = Idle /\ (freed' = {} \/ freed' = {0})
    BY <1>1, <2>1 DEF Begin
  <2>3. WalkInv'
    BY <1>1, <1>3, <2>2 DEF WalkInv
  <2> QED
    BY <1>1, <1>2, <2>2, <2>3 DEF RingInv
<1>4. CASE nworkers # 0
  <2>1. next[0] = 1
    BY <1>1, <1>4 DEF RingInv, RingInOrder
  <2>2. phase' = "body" /\ call' = c /\ at' = 1 /\ freed' = {}
    BY <1>1, <2>1 DEF Begin
  <2>3. WalkInv'
    BY <1>1, <1>4, <2>2 DEF WalkInv
  <2> QED
    BY <1>1, <1>2, <2>2, <2>3 DEF RingInv
<1> QED
  BY <1>3, <1>4

\* A turn of the loop frees at most the worker that it leaves.
LEMMA BodyStep == RingInv /\ WalkBody => RingInv'
<1> SUFFICES ASSUME RingInv, WalkBody PROVE RingInv'
  OBVIOUS
<1>a. /\ phase = "body" /\ ub = "none"
      /\ nworkers' = nworkers /\ next' = next /\ call' = call /\ at' = next[at]
      /\ freed' = IF call.op = "free" THEN freed \cup {at} ELSE freed
  BY DEF WalkBody, Visit
<1>b. ub' = IF at' \in freed' THEN "use after free" ELSE "none"
  BY DEF WalkBody
<1>c. phase' = IF next[at'] # next[0] THEN "body" ELSE "last"
  BY DEF WalkBody
<1>d. call # Idle /\ at \in 1..nworkers /\ 0 \notin freed /\ nworkers \in Nat
  BY <1>a, MaxWorkersAssumption DEF RingInv, WalkInv
<1>1. freed = IF call.op = "free" THEN 1..(at - 1) ELSE {}
  BY <1>a DEF RingInv, WalkInv
<1>2. RingInOrder'
  BY <1>a DEF RingInv, RingInOrder
<1>3. CASE nworkers = 1
  <2>1. at = 1 /\ next[1] = 1 /\ next[0] = 1
    BY <1>d, <1>3 DEF RingInv, RingInOrder
  <2>2. at' = 1 /\ phase' = "last"
    BY <1>a, <1>c, <2>1
  <2>3. call.op = "free" => ub' # "none"
    BY <1>a, <1>b, <2>1, <2>2
  <2>4. call.op # "free" => freed' = {} /\ ub' = "none"
    BY <1>a, <1>b, <1>1
  <2>5. 0 \notin freed'
    BY <1>a, <1>d
  <2>6. WalkInv'
    BY <1>a, <1>d, <1>3, <2>2, <2>3, <2>4, <2>5 DEF WalkInv
  <2> QED
    BY <1>a, <1>2, <2>2, <2>6 DEF RingInv
<1>4. CASE nworkers # 1
  <2>1. at < nworkers /\ next[0] = 1 /\ next[at] = at + 1
    BY <1>a, <1>d, <1>4 DEF RingInv, WalkInv, RingInOrder
  <2>2. at' = at + 1 /\ at' \in 1..nworkers
    BY <1>a, <1>d, <2>1
  <2>3. next[at'] = 1 <=> at' = nworkers
    BY <1>d, <2>1, <2>2 DEF RingInv, RingInOrder
  <2>4. phase' = IF at' = nworkers THEN "last" ELSE "body"
    BY <1>c, <2>1, <2>3
  <2>5. freed' = IF call.op = "free" THEN 1..(at' - 1) ELSE {}
    <3>1. (1..(at - 1)) \cup {at} = 1..(at' - 1)
      BY <1>d, <2>2
    <3> QED
      BY <1>a, <1>1, <3>1
  <2>6. at' \notin freed' /\ 0 \notin freed'
    BY <1>d, <2>2, <2>5
  <2>7. ub' = "none"
    BY <1>b, <2>6
  <2>8. at' # nworkers => at' < nworkers
    BY <1>d, <2>2
  <2>9. WalkInv'
    BY <1>a, <1>d, <1>4, <2>2, <2>4, <2>5, <2>6, <2>7, <2>8 DEF WalkInv
  <2> QED
    BY <1>a, <1>2, <2>4, <2>9 DEF RingInv
<1> QED
  BY <1>3, <1>4

\* The statement after the loop is for the last worker of the ring.
LEMMA LastStep == RingInv /\ WalkLast => RingInv'
<1> SUFFICES ASSUME RingInv, WalkLast PROVE RingInv'
  OBVIOUS
<1>1. /\ phase = "last" /\ at = nworkers /\ at \in 1..nworkers /\ ub = "none"
      /\ nworkers \in Nat /\ nworkers' = nworkers /\ next' = next /\ ub' = ub
      /\ freed' = (IF call.op = "free" THEN freed \cup {at, 0} ELSE freed)
      /\ call' = Idle /\ phase' = "none"
  BY DEF RingInv, WalkInv, WalkLast, Visit
<1>2. RingInOrder'
  BY <1>1 DEF RingInv, RingInOrder
<1>3. freed' = IF call.op = "free" THEN 0..nworkers ELSE {}
  <2>1. freed = IF call.op = "free" THEN 1..(nworkers - 1) ELSE {}
    BY <1>1 DEF RingInv, WalkInv
  <2>2. (1..(nworkers - 1)) \cup {nworkers, 0} = 0..nworkers
    BY <1>1
  <2> QED
    BY <1>1, <2>1, <2>2
<1>4. WalkInv'
  BY <1>1, <1>3 DEF WalkInv, RingInv
<1> QED
  BY <1>1, <1>2, <1>4 DEF RingInv

\* Every step keeps the invariant of the ring.
LEMMA RingStep == RingInv /\ [Next]_vars => RingInv'
<1> SUFFICES ASSUME RingInv, [Next]_vars PROVE RingInv'
  OBVIOUS
<1>1. CASE AddWorker
  BY <1>1, AddStep
<1>2. ASSUME NEW u \in Uris, NEW f \in Cbs, SetCb(u, f) PROVE RingInv'
  BY <1>2, BeginStep DEF SetCb, Idle
<1>3. ASSUME NEW u \in Uris, DelCb(u) PROVE RingInv'
  BY <1>3, BeginStep DEF DelCb, Idle
<1>4. ASSUME NEW f \in Cbs, SetGencb(f) PROVE RingInv'
  BY <1>4, BeginStep DEF SetGencb, Idle
<1>5. ASSUME NEW t \in Timeouts, SetTimeout(t) PROVE RingInv'
  BY <1>5, BeginStep DEF SetTimeout, Idle
<1>6. CASE Free
  BY <1>6, BeginStep DEF Free, Idle
<1>7. CASE WalkBody
  BY <1>7, BodyStep
<1>8. CASE WalkLast
  BY <1>8, LastStep
<1>9. CASE UNCHANGED vars
  BY <1>9 DEF vars, RingInv, RingInOrder, WalkInv
<1> QED
  BY <1>1, <1>2, <1>3, <1>4, <1>5, <1>6, <1>7, <1>8, <1>9 DEF Next

\* The invariant of the ring holds in every state.
LEMMA RingAlways == Spec => []RingInv
BY InitRing, RingStep, PTL DEF Spec

\* However many workers are added, the ring is one cycle through all of them in
\* the order of their creation.
THEOREM RingOrder == Spec => []RingInOrder
<1>1. RingInv => RingInOrder
  BY DEF RingInv
<1> QED
  BY <1>1, RingAlways, PTL

\* evhttp_free() of a server with any number of workers but one frees each
\* object and touches none afterwards.
THEOREM FreeSafe == Spec => []FreeCleanInLargerRings
<1>1. RingInv => FreeCleanInLargerRings
  BY DEF RingInv, WalkInv, FreeCleanInLargerRings, FreeClean
<1> QED
  BY <1>1, RingAlways, PTL

-----------------------------------------------------------------------------
(***************************************************************************)
(* Callback lists.                                                         *)
(***************************************************************************)
Entries == [uri : Uris, cb : Cbs]

\* What a call makes of a callback list.
NewList(c, list) ==
  CASE c.op = "set_cb"  -> Append(list, [uri |-> c.uri, cb |-> c.cb])
    [] c.op = "del_cb"  -> DeleteAt(list, Find(list, c.uri))
    [] c.op = "free"    -> <<>>
    [] OTHER            -> list

\* Every entry twice: the list of a worker that is alone in the ring.
Twice(list) == Stutter(list, 2)

\* A set of numbers that is not empty has a least one.
LEMMA SmallestNat ==
  ASSUME NEW S, S \subseteq Nat, S # {}
  PROVE  \E m \in S : \A k \in S : m <= k
<1> DEFINE R == OpToRel(<, Nat)
<1>1. IsWellFoundedOn(R, Nat)
  BY NatLessThanWellFounded
<1>2. \A x, y \in Nat : y < x => <<y, x>> \in R
  BY DEF OpToRel
<1> HIDE DEF R
<1>3. PICK m \in S : \A k \in S : ~(<<k, m>> \in R)
  BY <1>1, WFMin
<1>4. ASSUME NEW k \in S PROVE m <= k
  <2>1. m \in Nat /\ k \in Nat /\ ~(k < m)
    BY <1>2, <1>3
  <2> QED
    BY <2>1
<1> QED
  BY <1>4

\* The first entry for a URI is the one that Find() returns.
LEMMA FindFirst ==
  ASSUME NEW list \in Seq(Entries), NEW u, NEW i \in 1..Len(list), list[i].uri = u,
         \A j \in 1..(i - 1) : list[j].uri # u
  PROVE  Find(list, u) = i
<1> DEFINE P(k) == list[k].uri = u /\ \A j \in 1..(k - 1) : list[j].uri # u
<1>1. P(i)
  OBVIOUS
<1>2. Len(list) \in Nat
  OBVIOUS
<1>3. ASSUME NEW k \in 1..Len(list), P(k) PROVE k = i
  <2>1. CASE k < i
    BY <1>3, <2>1, <1>2
  <2>2. CASE i < k
    BY <1>3, <2>2, <1>2
  <2> QED
    BY <2>1, <2>2, <1>2
<1>4. (CHOOSE k \in 1..Len(list) : P(k)) = i
  <2> HIDE DEF P
  <2> QED
    BY <1>1, <1>3
<1> QED
  BY <1>4 DEF Find

\* Find() returns an entry for the URI before which there is none, or 0 when the
\* list has no entry for it.
LEMMA FindIs ==
  ASSUME NEW list \in Seq(Entries), NEW u
  PROVE  \/ Find(list, u) = 0 /\ \A j \in 1..Len(list) : list[j].uri # u
         \/ /\ Find(list, u) \in 1..Len(list)
            /\ list[Find(list, u)].uri = u
            /\ \A j \in 1..(Find(list, u) - 1) : list[j].uri # u
<1>1. CASE \A j \in 1..Len(list) : list[j].uri # u
  BY <1>1 DEF Find
<1>2. CASE \E j \in 1..Len(list) : list[j].uri = u
  <2> DEFINE S == {j \in 1..Len(list) : list[j].uri = u}
  <2>1. S \subseteq Nat /\ S # {}
    BY <1>2
  <2>2. PICK i \in S : \A j \in S : i <= j
    BY <2>1, SmallestNat
  <2>3. i \in 1..Len(list) /\ list[i].uri = u /\ \A j \in 1..(i - 1) : list[j].uri # u
    BY <2>2
  <2>4. Find(list, u) = i
    BY <2>3, FindFirst
  <2> QED
    BY <2>3, <2>4
<1> QED
  BY <1>1, <1>2

\* Deleting an entry moves the ones behind it one place forward.
LEMMA DeleteIs ==
  ASSUME NEW list \in Seq(Entries), NEW i \in 1..Len(list)
  PROVE  /\ DeleteAt(list, i) \in Seq(Entries)
         /\ Len(DeleteAt(list, i)) = Len(list) - 1
         /\ \A j \in 1..(Len(list) - 1) :
              DeleteAt(list, i)[j] = IF j < i THEN list[j] ELSE list[j + 1]
<1> DEFINE a == SubSeq(list, 1, i - 1)
           b == SubSeq(list, i + 1, Len(list))
<1>1. Len(list) \in Nat /\ i \in Nat /\ i # 0
  OBVIOUS
<1>2. DeleteAt(list, i) = a \o b
  BY <1>1 DEF DeleteAt
<1>3. a \in Seq(Entries) /\ Len(a) = i - 1 /\ \A j \in 1..(i - 1) : a[j] = list[j]
  BY <1>1, SubSeqProperties
<1>4. b \in Seq(Entries) /\ Len(b) = Len(list) - i /\ \A j \in 1..(Len(list) - i) : b[j] = list[i + j]
  <2>1. i + 1 \in Int /\ Len(list) \in Int /\ \A k \in (i + 1)..Len(list) : list[k] \in Entries
    BY <1>1
  <2>2. /\ b \in Seq(Entries)
        /\ Len(b) = IF i + 1 <= Len(list) THEN Len(list) - (i + 1) + 1 ELSE 0
        /\ \A j \in 1..(Len(list) - (i + 1) + 1) : b[j] = list[(i + 1) + j - 1]
    BY <2>1, SubSeqProperties
  <2>3. \A j \in Nat : (i + 1) + j - 1 = i + j
    BY <1>1
  <2>4. Len(b) = Len(list) - i /\ Len(list) - (i + 1) + 1 = Len(list) - i
    BY <1>1, <2>2
  <2>5. \A j \in 1..(Len(list) - i) : b[j] = list[i + j]
    <3> HIDE DEF b
    <3> QED
      BY <2>2, <2>3, <2>4
  <2> QED
    BY <2>2, <2>4, <2>5
<1> HIDE DEF a, b
<1>5. a \o b \in Seq(Entries) /\ Len(a \o b) = Len(list) - 1
  <2>1. a \o b \in Seq(Entries) /\ Len(a \o b) = Len(a) + Len(b)
    BY <1>3, <1>4, ConcatProperties
  <2>2. (i - 1) + (Len(list) - i) = Len(list) - 1
    BY <1>1
  <2> QED
    BY <1>3, <1>4, <2>1, <2>2
<1>6. ASSUME NEW j \in 1..(Len(list) - 1)
      PROVE  (a \o b)[j] = IF j < i THEN list[j] ELSE list[j + 1]
  <2>1. CASE j < i
    BY <2>1, <1>1, <1>3, <1>4
  <2>2. CASE ~(j < i)
    <3>1. (a \o b)[j] = b[j - Len(a)]
      BY <2>2, <1>1, <1>3, <1>4
    <3>2. j - Len(a) \in 1..(Len(list) - i) /\ i + (j - Len(a)) = j + 1
      BY <2>2, <1>1, <1>3
    <3> QED
      BY <2>2, <3>1, <3>2, <1>4
  <2> QED
    BY <2>1, <2>2
<1> QED
  BY <1>2, <1>5, <1>6

\* The two places of an entry in the doubled list.
LEMMA TwiceIs ==
  ASSUME NEW list \in Seq(Entries)
  PROVE  /\ Twice(list) \in Seq(Entries)
         /\ Len(Twice(list)) = 2 * Len(list)
         /\ \A m \in 1..Len(list) : Twice(list)[2 * m - 1] = list[m] /\ Twice(list)[2 * m] = list[m]
<1> DEFINE n == Len(list)
<1>1. n \in Nat /\ \A k \in 1..n : list[k] \in Entries
  OBVIOUS
<1> HIDE DEF n
<1>2. Twice(list) = [k \in 1..(2 * n) |-> list[(k - 1) \div 2 + 1]]
  BY DEF Twice, Stutter, n
<1>3. \A k \in 1..(2 * n) : (k - 1) \div 2 + 1 \in 1..n
  BY <1>1
<1>4. Twice(list) \in Seq(Entries) /\ Len(Twice(list)) = 2 * n
  <2>1. Twice(list) \in [1..(2 * n) -> Entries]
    BY <1>1, <1>2, <1>3
  <2>2. 2 * n \in Nat
    BY <1>1
  <2> QED
    BY <2>1, <2>2
<1>5. ASSUME NEW m \in 1..n PROVE Twice(list)[2 * m - 1] = list[m] /\ Twice(list)[2 * m] = list[m]
  <2>1. /\ 2 * m - 1 \in 1..(2 * n) /\ 2 * m \in 1..(2 * n)
        /\ (2 * m - 1 - 1) \div 2 + 1 = m /\ (2 * m - 1) \div 2 + 1 = m
    BY <1>1
  <2> QED
    BY <1>2, <2>1
<1> QED
  BY <1>4, <1>5 DEF n

\* A list with every entry at both places is the doubled list.
LEMMA TwiceEqual ==
  ASSUME NEW list \in Seq(Entries), NEW q \in Seq(Entries), Len(q) = 2 * Len(list),
         \A m \in 1..Len(list) : q[2 * m - 1] = list[m] /\ q[2 * m] = list[m]
  PROVE  q = Twice(list)
<1>1. Len(list) \in Nat
  OBVIOUS
<1>2. ASSUME NEW k \in 1..Len(q) PROVE q[k] = Twice(list)[k]
  <2>1. PICK m \in 1..Len(list) : k = 2 * m - 1 \/ k = 2 * m
    <3>1. (k + 1) \div 2 \in 1..Len(list)
      BY <1>1
    <3>2. k = 2 * ((k + 1) \div 2) - 1 \/ k = 2 * ((k + 1) \div 2)
      BY <1>1
    <3> QED
      BY <3>1, <3>2
  <2>2. Twice(list)[2 * m - 1] = list[m] /\ Twice(list)[2 * m] = list[m]
    BY TwiceIs
  <2>3. q[2 * m - 1] = list[m] /\ q[2 * m] = list[m]
    OBVIOUS
  <2> QED
    BY <2>1, <2>2, <2>3
<1> QED
  BY <1>2, TwiceIs, SeqEqual

\* An empty list has nothing to double.
LEMMA TwiceEmpty == Twice(<<>>) = <<>>
<1>1. <<>> \in Seq(Entries) /\ 2 * Len(<<>>) = 0
  OBVIOUS
<1>2. Twice(<<>>) \in Seq(Entries) /\ Len(Twice(<<>>)) = 0
  BY <1>1, TwiceIs
<1> QED
  BY <1>2, EmptySeq

\* Find() in the doubled list.
LEMMA FindTwice ==
  ASSUME NEW list \in Seq(Entries), NEW u
  PROVE  Find(Twice(list), u) = IF Find(list, u) = 0 THEN 0 ELSE 2 * Find(list, u) - 1
<1> DEFINE t == Twice(list)
           i == Find(list, u)
<1>1. t \in Seq(Entries) /\ Len(t) = 2 * Len(list) /\ Len(list) \in Nat
  BY TwiceIs
<1>2. \A m \in 1..Len(list) : t[2 * m - 1] = list[m] /\ t[2 * m] = list[m]
  BY TwiceIs
<1>3. \A k \in 1..Len(t) : \E m \in 1..Len(list) : (k = 2 * m - 1 \/ k = 2 * m) /\ t[k] = list[m]
  <2> SUFFICES ASSUME NEW k \in 1..Len(t)
               PROVE  \E m \in 1..Len(list) : (k = 2 * m - 1 \/ k = 2 * m) /\ t[k] = list[m]
    OBVIOUS
  <2> DEFINE m == (k + 1) \div 2
  <2>1. m \in 1..Len(list) /\ (k = 2 * m - 1 \/ k = 2 * m)
    BY <1>1
  <2> HIDE DEF m, t
  <2> QED
    BY <2>1, <1>2
<1> HIDE DEF t, i
<1>4. \/ i = 0 /\ \A j \in 1..Len(list) : list[j].uri # u
      \/ i \in 1..Len(list) /\ list[i].uri = u /\ \A j \in 1..(i - 1) : list[j].uri # u
  BY FindIs DEF i
<1>5. \/ Find(t, u) = 0 /\ \A j \in 1..Len(t) : t[j].uri # u
      \/ Find(t, u) \in 1..Len(t) /\ t[Find(t, u)].uri = u
  BY <1>1, FindIs
<1>6. CASE i = 0
  <2>1. \A j \in 1..Len(list) : list[j].uri # u
    BY <1>4, <1>6
  <2>2. \A k \in 1..Len(t) : t[k].uri # u
    BY <2>1, <1>3
  <2>3. Find(t, u) = 0
    BY <2>2, <1>5
  <2> QED
    BY <1>6, <2>3 DEF t, i
<1>7. CASE i # 0
  <2>1. i \in 1..Len(list) /\ list[i].uri = u /\ \A j \in 1..(i - 1) : list[j].uri # u
    BY <1>4, <1>7
  <2>2. 2 * i - 1 \in 1..Len(t) /\ t[2 * i - 1].uri = u
    BY <2>1, <1>1, <1>2
  <2>3. ASSUME NEW k \in 1..(2 * i - 1 - 1) PROVE t[k].uri # u
    <3>1. k \in 1..Len(t)
      BY <2>1, <1>1
    <3>2. PICK m \in 1..Len(list) : (k = 2 * m - 1 \/ k = 2 * m) /\ t[k] = list[m]
      BY <3>1, <1>3
    <3>3. m \in 1..(i - 1)
      BY <3>2, <2>1, <1>1
    <3> QED
      BY <3>2, <3>3, <2>1
  <2>4. Find(t, u) = 2 * i - 1
    BY <1>1, <2>2, <2>3, FindFirst
  <2> QED
    BY <1>7, <2>4 DEF t, i
<1> QED
  BY <1>6, <1>7

\* Deleting the entry for a URI twice from the doubled list deletes both of its
\* copies.
LEMMA DeleteTwice ==
  ASSUME NEW list \in Seq(Entries), NEW u, Find(list, u) # 0
  PROVE  LET once == DeleteAt(Twice(list), Find(Twice(list), u))
         IN  DeleteAt(once, Find(once, u)) = Twice(DeleteAt(list, Find(list, u)))
<1> DEFINE n == Len(list)
           i == Find(list, u)
           t == Twice(list)
           once == DeleteAt(t, 2 * i - 1)
           both == DeleteAt(once, 2 * i - 1)
           short == DeleteAt(list, i)
<1>1. n \in Nat /\ i \in 1..n /\ list[i].uri = u /\ \A j \in 1..(i - 1) : list[j].uri # u
  BY FindIs
<1>2. Find(t, u) = 2 * i - 1
  BY FindTwice
<1>3. t \in Seq(Entries) /\ Len(t) = 2 * n
      /\ \A m \in 1..n : t[2 * m - 1] = list[m] /\ t[2 * m] = list[m]
  BY TwiceIs
<1>t. ASSUME NEW k \in 1..(2 * n), k < 2 * i - 1 PROVE t[k].uri # u
  <2> DEFINE m == (k + 1) \div 2
  <2>1. m \in 1..(i - 1) /\ m \in 1..n /\ (k = 2 * m - 1 \/ k = 2 * m)
    BY <1>1, <1>t
  <2> HIDE DEF m, t, n, i
  <2>2. t[k] = list[m]
    BY <2>1, <1>3
  <2> QED
    BY <2>1, <2>2, <1>1
<1> HIDE DEF n, i, t
<1>4. 2 * i - 1 \in 1..Len(t)
  BY <1>1, <1>3
<1>5. once \in Seq(Entries) /\ Len(once) = 2 * n - 1
      /\ \A j \in 1..(2 * n - 1) : once[j] = IF j < 2 * i - 1 THEN t[j] ELSE t[j + 1]
  BY <1>3, <1>4, DeleteIs
<1> HIDE DEF once
<1>6. Find(once, u) = 2 * i - 1
  <2>1. 2 * i - 1 \in 1..Len(once)
    BY <1>1, <1>5
  <2>2. once[2 * i - 1] = t[2 * i]
    <3>1. once[2 * i - 1] = t[(2 * i - 1) + 1] /\ (2 * i - 1) + 1 = 2 * i
      BY <1>1, <1>5, <2>1
    <3> QED
      BY <3>1
  <2>3. once[2 * i - 1].uri = u
    BY <2>2, <1>1, <1>3
  <2>4. \A j \in 1..(2 * i - 1 - 1) : once[j].uri # u
    BY <1>1, <1>5, <1>t
  <2> QED
    BY <1>5, <2>1, <2>3, <2>4, FindFirst
<1>7. both \in Seq(Entries) /\ Len(both) = 2 * n - 2
      /\ \A j \in 1..(2 * n - 2) : both[j] = IF j < 2 * i - 1 THEN once[j] ELSE once[j + 1]
  <2>1. 2 * i - 1 \in 1..Len(once)
    BY <1>1, <1>5
  <2>2. both \in Seq(Entries) /\ Len(both) = Len(once) - 1
        /\ \A j \in 1..(Len(once) - 1) : both[j] = IF j < 2 * i - 1 THEN once[j] ELSE once[j + 1]
    BY <1>5, <2>1, DeleteIs
  <2>3. Len(once) - 1 = 2 * n - 2
    BY <1>1, <1>5
  <2> HIDE DEF both
  <2> QED
    BY <2>2, <2>3
<1>8. short \in Seq(Entries) /\ Len(short) = n - 1
      /\ \A j \in 1..(n - 1) : short[j] = IF j < i THEN list[j] ELSE list[j + 1]
  BY <1>1, DeleteIs DEF n
<1> HIDE DEF both, short
<1>9. \A j \in 1..(2 * n - 2) : both[j] = IF j < 2 * i - 1 THEN t[j] ELSE t[j + 2]
  <2> SUFFICES ASSUME NEW j \in 1..(2 * n - 2)
               PROVE  both[j] = IF j < 2 * i - 1 THEN t[j] ELSE t[j + 2]
    OBVIOUS
  <2>1. CASE j < 2 * i - 1
    BY <2>1, <1>1, <1>5, <1>7
  <2>2. CASE ~(j < 2 * i - 1)
    <3>1. both[j] = once[j + 1]
      BY <2>2, <1>7
    <3>2. j + 1 \in 1..(2 * n - 1) /\ ~(j + 1 < 2 * i - 1) /\ (j + 1) + 1 = j + 2
      BY <2>2, <1>1
    <3> QED
      BY <2>2, <3>1, <3>2, <1>5
  <2> QED
    BY <2>1, <2>2
<1>10. ASSUME NEW m \in 1..(n - 1) PROVE both[2 * m - 1] = short[m] /\ both[2 * m] = short[m]
  <2>1. 2 * m - 1 \in 1..(2 * n - 2) /\ 2 * m \in 1..(2 * n - 2) /\ m \in 1..n /\ m + 1 \in 1..n
    BY <1>1
  <2>2. CASE m < i
    <3>1. 2 * m - 1 < 2 * i - 1 /\ 2 * m < 2 * i - 1
      BY <2>2, <1>1
    <3> QED
      BY <2>1, <2>2, <3>1, <1>3, <1>8, <1>9
  <2>3. CASE ~(m < i)
    <3>1. /\ ~(2 * m - 1 < 2 * i - 1) /\ ~(2 * m < 2 * i - 1)
          /\ (2 * m - 1) + 2 = 2 * (m + 1) - 1 /\ 2 * m + 2 = 2 * (m + 1)
      BY <2>3, <1>1
    <3>2. both[2 * m - 1] = t[2 * (m + 1) - 1] /\ both[2 * m] = t[2 * (m + 1)]
      BY <2>1, <3>1, <1>9
    <3>3. short[m] = list[m + 1]
      BY <2>3, <1>8
    <3> QED
      BY <2>1, <3>2, <3>3, <1>3
  <2> QED
    BY <2>2, <2>3
<1>11. Len(both) = 2 * Len(short)
  BY <1>1, <1>7, <1>8
<1>12. both = Twice(short)
  BY <1>7, <1>8, <1>10, <1>11, TwiceEqual
<1> QED
  BY <1>2, <1>6, <1>12 DEF both, short, once, t, i

\* Adding an entry twice to the doubled list doubles the longer list.
LEMMA AppendTwice ==
  ASSUME NEW list \in Seq(Entries), NEW e \in Entries
  PROVE  Append(Append(Twice(list), e), e) = Twice(Append(list, e))
<1> DEFINE t == Twice(list)
           n == Len(list)
           long == Append(list, e)
           q == Append(Append(t, e), e)
<1>1. t \in Seq(Entries) /\ Len(t) = 2 * n /\ n \in Nat
      /\ \A m \in 1..n : t[2 * m - 1] = list[m] /\ t[2 * m] = list[m]
  BY TwiceIs
<1>2. long \in Seq(Entries) /\ Len(long) = n + 1 /\ long[n + 1] = e
      /\ \A m \in 1..n : long[m] = list[m]
  OBVIOUS
<1> HIDE DEF t, n
<1>3. q \in Seq(Entries) /\ Len(q) = 2 * n + 2 /\ q[2 * n + 1] = e /\ q[2 * n + 2] = e
      /\ \A k \in 1..(2 * n) : q[k] = t[k]
  <2> DEFINE r == Append(t, e)
  <2>1. r \in Seq(Entries) /\ Len(r) = 2 * n + 1 /\ r[2 * n + 1] = e
        /\ \A k \in 1..(2 * n) : r[k] = t[k]
    BY <1>1, AppendProperties
  <2> HIDE DEF r
  <2>2. Append(r, e) \in Seq(Entries) /\ Len(Append(r, e)) = (2 * n + 1) + 1
        /\ Append(r, e)[(2 * n + 1) + 1] = e
        /\ \A k \in 1..(2 * n + 1) : Append(r, e)[k] = r[k]
    BY <2>1, AppendProperties
  <2>3. (2 * n + 1) + 1 = 2 * n + 2 /\ 2 * n + 1 \in 1..(2 * n + 1)
        /\ \A k \in 1..(2 * n) : k \in 1..(2 * n + 1)
    BY <1>1
  <2>4. q = Append(r, e)
    BY DEF r
  <2> HIDE DEF q
  <2> QED
    BY <2>1, <2>2, <2>3, <2>4
<1> HIDE DEF long, q
<1>4. ASSUME NEW m \in 1..Len(long) PROVE q[2 * m - 1] = long[m] /\ q[2 * m] = long[m]
  <2>1. CASE m = n + 1
    <3>1. 2 * m - 1 = 2 * n + 1 /\ 2 * m = 2 * n + 2
      BY <2>1, <1>1
    <3> QED
      BY <2>1, <3>1, <1>2, <1>3
  <2>2. CASE m # n + 1
    <3>1. m \in 1..n /\ 2 * m - 1 \in 1..(2 * n) /\ 2 * m \in 1..(2 * n)
      BY <2>2, <1>1, <1>2
    <3> QED
      BY <3>1, <1>1, <1>2, <1>3
  <2> QED
    BY <2>1, <2>2
<1>5. Len(q) = 2 * Len(long)
  BY <1>1, <1>2, <1>3
<1>6. q = Twice(long)
  BY <1>2, <1>3, <1>4, <1>5, TwiceEqual
<1> QED
  BY <1>6 DEF q, long, t

\* A call that some action makes, with its arguments.
ProperCall(c) ==
  /\ c.op \in {"set_cb", "del_cb", "set_gencb", "set_timeout", "free"}
  /\ c.op = "set_cb" => c.uri \in Uris /\ c.cb \in Cbs
  /\ c.op = "set_gencb" => c.cb \in Cbs
  /\ c.op = "set_timeout" => c.secs \in Timeouts

\* A call makes a callback list of a callback list.
LEMMA NewListType ==
  ASSUME NEW c, ProperCall(c), NEW list \in Seq(Entries)
  PROVE  NewList(c, list) \in Seq(Entries)
<1>1. CASE c.op = "set_cb"
  <2>1. [uri |-> c.uri, cb |-> c.cb] \in Entries
    BY <1>1 DEF ProperCall, Entries
  <2> QED
    BY <1>1, <2>1 DEF NewList
<1>2. CASE c.op = "del_cb"
  <2>1. DeleteAt(list, Find(list, c.uri)) \in Seq(Entries)
    <3>1. CASE Find(list, c.uri) = 0
      BY <3>1 DEF DeleteAt
    <3>2. CASE Find(list, c.uri) # 0
      BY <3>2, FindIs, DeleteIs
    <3> QED
      BY <3>1, <3>2
  <2> QED
    BY <1>2, <2>1 DEF NewList
<1>3. CASE c.op \notin {"set_cb", "del_cb"}
  BY <1>3 DEF NewList
<1> QED
  BY <1>1, <1>2, <1>3

\* A call that is applied twice to the doubled list of a lone worker has the same
\* effect as once on the list of the server.
LEMMA NewListTwice ==
  ASSUME NEW c, ProperCall(c), NEW list \in Seq(Entries),
         c.op = "del_cb" => Find(list, c.uri) # 0
  PROVE  NewList(c, NewList(c, Twice(list))) = Twice(NewList(c, list))
<1>1. CASE c.op = "set_cb"
  <2>1. [uri |-> c.uri, cb |-> c.cb] \in Entries
    BY <1>1 DEF ProperCall, Entries
  <2> QED
    BY <1>1, <2>1, AppendTwice DEF NewList
<1>2. CASE c.op = "del_cb"
  BY <1>2, DeleteTwice DEF NewList
<1>3. CASE c.op = "free"
  BY <1>3, TwiceEmpty DEF NewList
<1>4. CASE c.op \notin {"set_cb", "del_cb", "free"}
  BY <1>4 DEF NewList
<1> QED
  BY <1>1, <1>2, <1>3, <1>4

-----------------------------------------------------------------------------
(***************************************************************************)
(* The configuration of the workers while a call walks the ring.           *)
(***************************************************************************)
DataOK == /\ callbacks \in [Objects -> Seq(Entries)]
          /\ gencb \in [Objects -> Cbs \cup {None}]
          /\ timeout \in [Objects -> Timeouts \cup {-1}]
          /\ configured \in BOOLEAN

\* Workers are added before the first call.
Fresh == ~configured => /\ phase = "none"
                        /\ \A o \in Objects : /\ callbacks[o] = <<>> /\ gencb[o] = None
                                              /\ timeout[o] = -1

\* What the server's list is for a worker that the call has finished with.
Mirror(list) == IF nworkers = 1 THEN Twice(list) ELSE list

\* Between two calls all workers have the configuration of the server.
Settled == \A w \in 1..nworkers : /\ callbacks[w] = Mirror(callbacks[0])
                                  /\ gencb[w] = gencb[0]
                                  /\ timeout[w] = timeout[0]

\* During a call the server has its new configuration, the workers before cur have
\* it too, and cur and those behind it will have it after their visit; a lone worker
\* is visited twice.
Walking ==
  /\ ProperCall(call)
  /\ call.op = "set_gencb" => gencb[0] = call.cb
  /\ call.op = "set_timeout" => timeout[0] = call.secs
  /\ \A w \in 1..nworkers :
       /\ w < at \/ call.op # "set_gencb" => gencb[w] = gencb[0]
       /\ w < at \/ call.op # "set_timeout" => timeout[w] = timeout[0]
       /\ w < at => callbacks[w] = callbacks[0]
       /\ w >= at /\ nworkers # 1 => NewList(call, callbacks[w]) = callbacks[0]
  /\ nworkers = 1 /\ phase = "body"
       => NewList(call, NewList(call, callbacks[1])) = Twice(callbacks[0])
  /\ nworkers = 1 /\ phase = "last" => NewList(call, callbacks[1]) = Twice(callbacks[0])

SyncInv == /\ DataOK
           /\ Fresh
           /\ phase = "none" /\ 0 \notin freed => Settled
           /\ phase # "none" => Walking

\* The server starts with nothing configured.
LEMMA InitSync == Init => SyncInv
<1> SUFFICES ASSUME Init PROVE SyncInv
  OBVIOUS
<1>1. callbacks \in [Objects -> Seq(Entries)]
  <2>1. <<>> \in Seq(Entries)
    BY EmptySeq
  <2> QED
    BY <2>1 DEF Init
<1>2. gencb \in [Objects -> Cbs \cup {None}]
  BY DEF Init
<1>3. timeout \in [Objects -> Timeouts \cup {-1}]
  BY DEF Init
<1>4. nworkers = 0 /\ phase = "none" /\ configured = FALSE
      /\ \A o \in Objects : callbacks[o] = <<>> /\ gencb[o] = None /\ timeout[o] = -1
  BY DEF Init
<1>5. DataOK
  BY <1>1, <1>2, <1>3, <1>4 DEF DataOK
<1>6. Fresh
  BY <1>4 DEF Fresh
<1>7. Settled
  BY <1>4 DEF Settled
<1> QED
  BY <1>4, <1>5, <1>6, <1>7 DEF SyncInv

\* A new worker has nothing configured, like the others.
LEMMA AddSync == RingInv /\ SyncInv /\ AddWorker => SyncInv'
<1> SUFFICES ASSUME RingInv, SyncInv, AddWorker PROVE SyncInv'
  OBVIOUS
<1>1. /\ phase = "none" /\ ~configured /\ nworkers' = nworkers + 1 /\ nworkers + 1 \in 1..MaxWorkers
      /\ UNCHANGED <<callbacks, gencb, timeout, configured, call, at, phase, freed>>
  BY MaxWorkersAssumption DEF AddWorker, RingInv, WalkInv, Ready
<1>2. \A o \in 0..nworkers' : o \in Objects
  BY <1>1, MaxWorkersAssumption DEF Objects, RingInv
<1>3. \A o \in 0..nworkers' : callbacks[o] = <<>> /\ gencb[o] = None /\ timeout[o] = -1
  BY <1>1, <1>2 DEF SyncInv, Fresh
<1>4. Settled'
  BY <1>1, <1>3, TwiceEmpty DEF Settled, Mirror
<1> QED
  BY <1>1, <1>4 DEF SyncInv, DataOK, Fresh

\* A call changes the configuration of one object.
LEMMA ApplyIs ==
  ASSUME DataOK, NEW c, ProperCall(c), NEW o \in Objects, Apply(c, o)
  PROVE  /\ callbacks' \in [Objects -> Seq(Entries)]
         /\ gencb' \in [Objects -> Cbs \cup {None}]
         /\ timeout' \in [Objects -> Timeouts \cup {-1}]
         /\ callbacks'[o] = NewList(c, callbacks[o])
         /\ gencb'[o] = IF c.op = "set_gencb" THEN c.cb ELSE gencb[o]
         /\ timeout'[o] = IF c.op = "set_timeout" THEN c.secs ELSE timeout[o]
         /\ \A p \in Objects : p # o => /\ callbacks'[p] = callbacks[p]
                                        /\ gencb'[p] = gencb[p]
                                        /\ timeout'[p] = timeout[p]
<1>1. NewCallbacks(c, o) = NewList(c, callbacks[o])
  BY DEF NewCallbacks, NewList
<1>2. callbacks' = [callbacks EXCEPT ![o] = NewList(c, callbacks[o])]
  BY <1>1 DEF Apply
<1>3. NewList(c, callbacks[o]) \in Seq(Entries)
  BY NewListType DEF DataOK
<1>4. /\ callbacks' \in [Objects -> Seq(Entries)]
      /\ callbacks'[o] = NewList(c, callbacks[o])
      /\ \A p \in Objects : p # o => callbacks'[p] = callbacks[p]
  BY <1>2, <1>3 DEF DataOK
<1>5. /\ gencb' \in [Objects -> Cbs \cup {None}]
      /\ gencb'[o] = IF c.op = "set_gencb" THEN c.cb ELSE gencb[o]
      /\ \A p \in Objects : p # o => gencb'[p] = gencb[p]
  BY DEF Apply, ProperCall, DataOK
<1>6. /\ timeout' \in [Objects -> Timeouts \cup {-1}]
      /\ timeout'[o] = IF c.op = "set_timeout" THEN c.secs ELSE timeout[o]
      /\ \A p \in Objects : p # o => timeout'[p] = timeout[p]
  BY DEF Apply, ProperCall, DataOK
<1> QED
  BY <1>4, <1>5, <1>6

\* A call starts from a settled configuration.
LEMMA BeginSync ==
  ASSUME RingInv, SyncInv, NEW c, ProperCall(c), Begin(c),
         c.op = "del_cb" => Find(callbacks[0], c.uri) # 0
  PROVE  SyncInv'
<1>1. /\ phase = "none" /\ Settled /\ DataOK /\ nworkers \in Nat /\ nworkers <= MaxWorkers
      /\ nworkers' = nworkers /\ configured' = TRUE
  BY MaxWorkersAssumption DEF Begin, Ready, SyncInv, RingInv, WalkInv
<1>2. 0 \in Objects /\ \A w \in 1..nworkers : w \in Objects /\ w # 0
  BY <1>1, MaxWorkersAssumption DEF Objects
<1>3. Apply(c, 0)
  BY DEF Begin
<1>4. /\ callbacks' \in [Objects -> Seq(Entries)]
      /\ gencb' \in [Objects -> Cbs \cup {None}]
      /\ timeout' \in [Objects -> Timeouts \cup {-1}]
  BY <1>1, <1>2, <1>3, ApplyIs
<1>5. /\ callbacks'[0] = NewList(c, callbacks[0])
      /\ gencb'[0] = IF c.op = "set_gencb" THEN c.cb ELSE gencb[0]
      /\ timeout'[0] = IF c.op = "set_timeout" THEN c.secs ELSE timeout[0]
  BY <1>1, <1>2, <1>3, ApplyIs
<1>6. \A w \in 1..nworkers : /\ callbacks'[w] = callbacks[w] /\ gencb'[w] = gencb[w]
                             /\ timeout'[w] = timeout[w]
  BY <1>1, <1>2, <1>3, ApplyIs
<1>7. DataOK' /\ Fresh'
  BY <1>1, <1>4 DEF DataOK, Fresh
<1>8. CASE nworkers = 0
  <2>1. phase' = "none"
    BY <1>8 DEF Begin, RingInv, RingInOrder
  <2>2. Settled'
    BY <1>1, <1>8 DEF Settled
  <2> QED
    BY <1>7, <2>1, <2>2 DEF SyncInv
<1>9. CASE nworkers # 0
  <2>1. phase' = "body" /\ at' = 1 /\ call' = c
    BY <1>1, <1>9 DEF Begin, RingInv, RingInOrder
  <2>2. /\ ProperCall(call')
        /\ call'.op = "set_gencb" => gencb'[0] = call'.cb
        /\ call'.op = "set_timeout" => timeout'[0] = call'.secs
    BY <1>5, <2>1
  <2>3. ASSUME NEW w \in 1..nworkers
        PROVE  /\ call'.op # "set_gencb" => gencb'[w] = gencb'[0]
               /\ call'.op # "set_timeout" => timeout'[w] = timeout'[0]
               /\ ~(w < at')
    BY <1>1, <1>5, <1>6, <2>1 DEF Settled
  <2>4. ASSUME NEW w \in 1..nworkers, nworkers # 1
        PROVE  NewList(call', callbacks'[w]) = callbacks'[0]
    BY <1>1, <1>5, <1>6, <2>1, <2>4 DEF Settled, Mirror
  <2>5. nworkers = 1 => NewList(call', NewList(call', callbacks'[1])) = Twice(callbacks'[0])
    <3> SUFFICES ASSUME nworkers = 1
                 PROVE NewList(c, NewList(c, callbacks'[1])) = Twice(callbacks'[0])
      BY <2>1
    <3>1. callbacks'[1] = Twice(callbacks[0])
      BY <1>1, <1>6 DEF Settled, Mirror
    <3>2. callbacks[0] \in Seq(Entries)
      BY <1>1, <1>2 DEF DataOK
    <3> QED
      BY <1>5, <3>1, <3>2, NewListTwice
  <2>6. Walking'
    BY <1>1, <2>1, <2>2, <2>3, <2>4, <2>5 DEF Walking
  <2> QED
    BY <1>7, <2>1, <2>6 DEF SyncInv
<1> QED
  BY <1>8, <1>9

\* What one visit of the walk does.
LEMMA VisitIs ==
  ASSUME RingInv, SyncInv, phase # "none", Visit
  PROVE  /\ Walking /\ DataOK' /\ Fresh' /\ nworkers' = nworkers /\ nworkers \in Nat
         /\ at \in 1..nworkers
         /\ callbacks'[at] = NewList(call, callbacks[at])
         /\ gencb'[at] = gencb'[0] /\ timeout'[at] = timeout'[0]
         /\ callbacks'[0] = callbacks[0] /\ gencb'[0] = gencb[0] /\ timeout'[0] = timeout[0]
         /\ \A w \in 1..nworkers : w # at => /\ callbacks'[w] = callbacks[w]
                                             /\ gencb'[w] = gencb[w]
                                             /\ timeout'[w] = timeout[w]
<1>1. /\ Walking /\ DataOK /\ configured /\ nworkers \in Nat /\ nworkers <= MaxWorkers
      /\ nworkers' = nworkers /\ configured' = configured /\ at \in 1..nworkers
  BY MaxWorkersAssumption DEF SyncInv, RingInv, WalkInv, Visit, Fresh
<1>2. 0 \in Objects /\ at # 0 /\ \A w \in 1..nworkers : w \in Objects
  BY <1>1, MaxWorkersAssumption DEF Objects
<1>3. PICK o \in Objects : o = at
  BY <1>1, <1>2
<1>4. Apply(call, o) /\ ProperCall(call)
  BY <1>1, <1>3 DEF Visit, Walking
<1>5. /\ callbacks' \in [Objects -> Seq(Entries)]
      /\ gencb' \in [Objects -> Cbs \cup {None}]
      /\ timeout' \in [Objects -> Timeouts \cup {-1}]
      /\ callbacks'[o] = NewList(call, callbacks[o])
      /\ gencb'[o] = IF call.op = "set_gencb" THEN call.cb ELSE gencb[o]
      /\ timeout'[o] = IF call.op = "set_timeout" THEN call.secs ELSE timeout[o]
      /\ \A p \in Objects : p # o => /\ callbacks'[p] = callbacks[p]
                                     /\ gencb'[p] = gencb[p]
                                     /\ timeout'[p] = timeout[p]
  BY <1>1, <1>4, ApplyIs
<1>6. DataOK' /\ Fresh'
  BY <1>1, <1>5 DEF DataOK, Fresh
<1>7. gencb'[o] = gencb[0] /\ timeout'[o] = timeout[0]
  BY <1>1, <1>3, <1>5 DEF Walking
<1> QED
  BY <1>1, <1>2, <1>3, <1>5, <1>6, <1>7

\* A turn of the loop finishes the worker that it leaves.
LEMMA BodySync == RingInv /\ SyncInv /\ WalkBody => SyncInv'
<1> SUFFICES ASSUME RingInv, SyncInv, WalkBody PROVE SyncInv'
  OBVIOUS
<1>1. phase = "body" /\ Visit /\ call' = call /\ at' = next[at]
  BY DEF WalkBody
<1>2. /\ Walking /\ DataOK' /\ Fresh' /\ nworkers' = nworkers /\ nworkers \in Nat
      /\ at \in 1..nworkers
      /\ callbacks'[at] = NewList(call, callbacks[at])
      /\ gencb'[at] = gencb'[0] /\ timeout'[at] = timeout'[0]
      /\ callbacks'[0] = callbacks[0] /\ gencb'[0] = gencb[0] /\ timeout'[0] = timeout[0]
      /\ \A w \in 1..nworkers : w # at => /\ callbacks'[w] = callbacks[w]
                                          /\ gencb'[w] = gencb[w]
                                          /\ timeout'[w] = timeout[w]
  BY <1>1, VisitIs
<1>3. RingInv' /\ phase' # "none"
  BY BodyStep DEF WalkBody
<1>4. /\ ProperCall(call')
      /\ call'.op = "set_gencb" => gencb'[0] = call'.cb
      /\ call'.op = "set_timeout" => timeout'[0] = call'.secs
  BY <1>1, <1>2 DEF Walking
<1>5. CASE nworkers = 1
  <2>1. at = 1 /\ at' = 1 /\ phase' = "last"
    <3>1. at = 1 /\ next[1] = 1 /\ next[0] = 1
      BY <1>2, <1>5 DEF RingInv, RingInOrder
    <3>2. at' = 1
      BY <1>1, <3>1
    <3>3. phase' = IF next[at'] # next[0] THEN "body" ELSE "last"
      BY DEF WalkBody
    <3> QED
      BY <3>1, <3>2, <3>3
  <2>2. NewList(call, callbacks'[1]) = Twice(callbacks'[0])
    BY <1>1, <1>2, <1>5, <2>1 DEF Walking
  <2>3. \A w \in 1..nworkers : gencb'[w] = gencb'[0] /\ timeout'[w] = timeout'[0] /\ ~(w < at')
    BY <1>2, <1>5, <2>1
  <2>4. Walking'
    <3>1. \A w \in 1..nworkers' : /\ gencb'[w] = gencb'[0] /\ timeout'[w] = timeout'[0]
                                  /\ ~(w < at')
      BY <1>2, <2>3
    <3>2. nworkers' = 1 /\ phase' # "body" /\ call' = call
      BY <1>1, <1>2, <1>5, <2>1
    <3> QED
      BY <1>4, <2>2, <3>1, <3>2 DEF Walking
  <2> QED
    BY <1>2, <1>3, <2>4 DEF SyncInv
<1>6. CASE nworkers # 1
  <2>1. at' = at + 1
    BY <1>1, <1>2, <1>6 DEF RingInv, WalkInv, RingInOrder
  <2>2. callbacks'[at] = callbacks'[0]
    BY <1>2, <1>6 DEF Walking
  <2>3. ASSUME NEW w \in 1..nworkers
        PROVE  /\ w < at' \/ call.op # "set_gencb" => gencb'[w] = gencb'[0]
               /\ w < at' \/ call.op # "set_timeout" => timeout'[w] = timeout'[0]
               /\ w < at' => callbacks'[w] = callbacks'[0]
               /\ w >= at' => NewList(call, callbacks'[w]) = callbacks'[0]
    <3>1. CASE w = at
      <4>1. ~(w >= at')
        BY <1>2, <2>1, <3>1
      <4> QED
        BY <1>2, <2>2, <3>1, <4>1
    <3>2. CASE w # at
      <4>1. (w < at' <=> w < at) /\ (w >= at' => w >= at)
        BY <1>2, <2>1, <3>2
      <4> QED
        BY <1>2, <1>6, <3>2, <4>1 DEF Walking
    <3> QED
      BY <3>1, <3>2
  <2>4. Walking'
    BY <1>1, <1>2, <1>4, <1>6, <2>3 DEF Walking
  <2> QED
    BY <1>2, <1>3, <2>4 DEF SyncInv
<1> QED
  BY <1>5, <1>6

\* The statement after the loop finishes the last worker.
LEMMA LastSync == RingInv /\ SyncInv /\ WalkLast => SyncInv'
<1> SUFFICES ASSUME RingInv, SyncInv, WalkLast PROVE SyncInv'
  OBVIOUS
<1>1. phase = "last" /\ Visit /\ phase' = "none" /\ at = nworkers
  BY DEF WalkLast, RingInv, WalkInv
<1>2. /\ Walking /\ DataOK' /\ Fresh' /\ nworkers' = nworkers /\ nworkers \in Nat
      /\ at \in 1..nworkers
      /\ callbacks'[at] = NewList(call, callbacks[at])
      /\ gencb'[at] = gencb'[0] /\ timeout'[at] = timeout'[0]
      /\ callbacks'[0] = callbacks[0] /\ gencb'[0] = gencb[0] /\ timeout'[0] = timeout[0]
      /\ \A w \in 1..nworkers : w # at => /\ callbacks'[w] = callbacks[w]
                                          /\ gencb'[w] = gencb[w]
                                          /\ timeout'[w] = timeout[w]
  BY <1>1, VisitIs
<1>3. callbacks'[at] = IF nworkers = 1 THEN Twice(callbacks'[0]) ELSE callbacks'[0]
  BY <1>1, <1>2 DEF Walking
<1>4. ASSUME NEW w \in 1..nworkers
      PROVE  /\ callbacks'[w] = IF nworkers = 1 THEN Twice(callbacks'[0]) ELSE callbacks'[0]
             /\ gencb'[w] = gencb'[0] /\ timeout'[w] = timeout'[0]
  <2>1. CASE w = at
    BY <1>2, <1>3, <2>1
  <2>2. CASE w # at
    <3>1. w < at /\ nworkers # 1
      BY <1>1, <1>2, <2>2
    <3> QED
      BY <1>2, <2>2, <3>1 DEF Walking
  <2> QED
    BY <2>1, <2>2
<1>5. Settled'
  BY <1>2, <1>4 DEF Settled, Mirror
<1> QED
  BY <1>1, <1>2, <1>5 DEF SyncInv

\* Every step keeps the workers in step with the server.
LEMMA SyncStep == RingInv /\ SyncInv /\ [Next]_vars => SyncInv'
<1> SUFFICES ASSUME RingInv, SyncInv, [Next]_vars PROVE SyncInv'
  OBVIOUS
<1>1. CASE AddWorker
  BY <1>1, AddSync
<1>2. ASSUME NEW u \in Uris, NEW f \in Cbs, SetCb(u, f) PROVE SyncInv'
  BY <1>2, BeginSync DEF SetCb, ProperCall
<1>3. ASSUME NEW u \in Uris, DelCb(u) PROVE SyncInv'
  BY <1>3, BeginSync DEF DelCb, ProperCall
<1>4. ASSUME NEW f \in Cbs, SetGencb(f) PROVE SyncInv'
  BY <1>4, BeginSync DEF SetGencb, ProperCall
<1>5. ASSUME NEW t \in Timeouts, SetTimeout(t) PROVE SyncInv'
  BY <1>5, BeginSync DEF SetTimeout, ProperCall
<1>6. CASE Free
  BY <1>6, BeginSync DEF Free, ProperCall
<1>7. CASE WalkBody
  BY <1>7, BodySync
<1>8. CASE WalkLast
  BY <1>8, LastSync
<1>9. CASE UNCHANGED vars
  BY <1>9 DEF vars, SyncInv, DataOK, Fresh, Settled, Mirror, Walking
<1> QED
  BY <1>1, <1>2, <1>3, <1>4, <1>5, <1>6, <1>7, <1>8, <1>9 DEF Next

\* The workers stay in step with the server in every state.
LEMMA SyncAlways == Spec => [](RingInv /\ SyncInv)
<1>1. RingInv /\ SyncInv /\ [Next]_vars => (RingInv /\ SyncInv)'
  BY RingStep, SyncStep
<1> QED
  BY <1>1, InitRing, InitSync, PTL DEF Spec

\* A worker whose list mirrors the server's answers as the server does.
LEMMA MirrorAnswers ==
  ASSUME SyncInv, Ready, phase = "none", NEW w \in 1..nworkers, nworkers \in Nat,
         nworkers <= MaxWorkers, NEW u
  PROVE  Answer(w, u) = Answer(0, u)
<1>1. /\ callbacks[w] = Mirror(callbacks[0]) /\ gencb[w] = gencb[0]
      /\ callbacks[0] \in Seq(Entries)
  BY MaxWorkersAssumption DEF SyncInv, Ready, Settled, DataOK, Objects
<1>2. CASE nworkers # 1
  BY <1>1, <1>2 DEF Mirror, Answer
<1>3. CASE nworkers = 1
  <2> DEFINE list == callbacks[0]
             i == Find(list, u)
  <2>1. callbacks[w] = Twice(list)
    BY <1>1, <1>3 DEF Mirror
  <2>2. Find(Twice(list), u) = IF i = 0 THEN 0 ELSE 2 * i - 1
    BY <1>1, FindTwice
  <2>3. i = 0 \/ i \in 1..Len(list)
    BY <1>1, FindIs
  <2>4. i # 0 => Twice(list)[2 * i - 1] = list[i] /\ 2 * i - 1 # 0
    BY <1>1, <2>3, TwiceIs
  <2>5. Answer(w, u) = IF i # 0 THEN list[i].cb ELSE gencb[0]
    <3> HIDE DEF i, list
    <3> QED
      BY <1>1, <2>1, <2>2, <2>4 DEF Answer
  <2> QED
    BY <2>5 DEF Answer
<1> QED
  BY <1>2, <1>3

\* Whichever calls were made on a server with any number of workers, between two
\* calls every worker answers every URI as the server does and has its timeout.
THEOREM WorkersAnswerAlike == Spec => []WorkersAgree
<1>1. RingInv /\ SyncInv => WorkersAgree
  <2> SUFFICES ASSUME RingInv, SyncInv, Ready PROVE WorkersAgree
    BY DEF WorkersAgree
  <2>1. phase = "none" /\ nworkers \in Nat /\ nworkers <= MaxWorkers /\ Settled
    BY MaxWorkersAssumption DEF RingInv, WalkInv, Ready, SyncInv
  <2>2. \A w \in 1..nworkers, u \in Uris : Answer(w, u) = Answer(0, u)
    BY <2>1, MirrorAnswers
  <2> QED
    BY <2>1, <2>2 DEF WorkersAgree, Settled
<1> QED
  BY <1>1, SyncAlways, PTL

\* The callback list of a worker is the server's, and every entry of it twice when
\* the worker is alone: the do-while loops visit a lone worker two times.
THEOREM ListsMirrored == Spec => []CallbacksMirrored
<1>1. RingInv /\ SyncInv => CallbacksMirrored
  <2> SUFFICES ASSUME RingInv, SyncInv, Ready, NEW w \in 1..nworkers
               PROVE  callbacks[w] = Stutter(callbacks[0], IF nworkers = 1 THEN 2 ELSE 1)
    BY DEF CallbacksMirrored
  <2>1. callbacks[w] = Mirror(callbacks[0]) /\ callbacks[0] \in Seq(Entries)
    BY MaxWorkersAssumption DEF RingInv, WalkInv, Ready, SyncInv, Settled, DataOK, Objects
  <2>2. CASE nworkers = 1
    BY <2>1, <2>2 DEF Mirror, Twice
  <2>3. CASE nworkers # 1
    <3> DEFINE list == callbacks[0]
    <3>1. list \in Seq(Entries) /\ Len(list) \in Nat /\ list = [i \in 1..Len(list) |-> list[i]]
      BY <2>1
    <3> HIDE DEF list
    <3>2. 1 * Len(list) = Len(list)
      <4>1. \A n \in Nat : 1 * n = n
        OBVIOUS
      <4> QED
        BY <3>1, <4>1
    <3>3. \A i \in 1..Len(list) : list[(i - 1) \div 1 + 1] = list[i]
      <4>1. \A i \in Nat : (i - 1) \div 1 + 1 = i
        OBVIOUS
      <4> QED
        BY <4>1
    <3>4. Stutter(list, 1) = [i \in 1..Len(list) |-> list[i]]
      BY <3>2, <3>3 DEF Stutter
    <3> QED
      BY <2>1, <2>3, <3>1, <3>4 DEF Mirror, list
  <2> QED
    BY <2>2, <2>3
<1> QED
  BY <1>1, SyncAlways, PTL
=============================================================================
