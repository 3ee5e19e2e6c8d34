------------------------------ MODULE RpcPool -------------------------------
(***************************************************************************)
(* The client side of contrib/libevent/evrpc.c: a pool of outgoing HTTP    *)
(* connections over which remote procedure calls are made.  A call waits   *)
(* in the pool until a connection has nothing to do, then in the queue of  *)
(* that connection; its callback may make the next call.                   *)
(*                                                                         *)
(* A connection is what HttpClient shows it to be: a queue whose first     *)
(* request is answered or fails, is taken off the queue and then called    *)
(* back; evhttp_make_request() leaves the request in the queue even when   *)
(* it returns -1, and nothing happens to it after that.                    *)
(***************************************************************************)
EXTENDS Integers, Sequences, FiniteSets, SequenceTheorems, FiniteSetTheorems, WellFoundedInduction,
        TLAPS

CONSTANTS Calls,      \* the calls: numbers, made in their order
          Conns,      \* the connections that are added to the pool, likewise
          Timeout,    \* pool->timeout is greater than 0
          HookFails,  \* an output hook of the pool may return -1
          FailsNow,   \* evhttp_make_request() may return -1
          FreesPool   \* the program frees the pool while calls are under way

\* What the constants have to be.
Sane == /\ IsFiniteSet(Calls) /\ Calls = 1..Cardinality(Calls)
        /\ IsFiniteSet(Conns) /\ Conns = 1..Cardinality(Conns)
        /\ {Timeout, HookFails, FailsNow, FreesPool} \subseteq BOOLEAN

VARIABLES conns,     \* pool->connections: how many of them
          waiting,   \* pool->requests
          queue,     \* the requests of each connection, named for their call
          dead,      \* connections whose evhttp_make_request() returned -1
          timer,     \* calls whose ev_timeout is pending
          stack,     \* functions that run, the innermost first
          made,      \* calls made so far
          started,   \* history: calls in the order in which they were sent
          results,   \* history: calls of the callbacks, with their status
          live,      \* calls whose context is not freed
          pool,      \* the pool is not freed
          wrong      \* a context or a pool was used after it was freed

vars == <<conns, waiting, queue, dead, timer, stack, made, started, results, live, pool, wrong>>

-----------------------------------------------------------------------------
\* evrpc_pool_new().
Init == /\ conns = 0 /\ waiting = <<>> /\ queue = [c \in Conns |-> <<>>] /\ dead = {}
        /\ timer = {} /\ stack = <<>> /\ made = 0 /\ started = <<>> /\ results = <<>>
        /\ live = {} /\ pool = TRUE /\ wrong = FALSE

\* evrpc_pool_find_connection(): the first one without requests.
Idle == {c \in 1..conns : queue[c] = <<>>}
FindConnection == CHOOSE c \in Idle : \A d \in Idle : c <= d

Running == stack # <<>>
Top == stack[1]

\* The callback of call i runs, and then what is left on the stack.
CallBack(i, status, rest) == /\ results' = Append(results, [call |-> i, status |-> status])
                             /\ stack' = <<[f |-> "cb", call |-> i]>> \o rest

\* The timer runs on when the request was answered.
BugReplyTimer(i) == timer' = timer

\* event_del(&ctx->ev_timeout).
ReplyTimer(i) == timer' = timer \ {i}

\* evrpc_schedule_request(): the request goes to the connection, or the call ends
\* before it has begun.
ScheduleRequest(c, i, rest) ==
  \/ /\ queue' = [queue EXCEPT ![c] = Append(@, i)]
     /\ timer' = IF Timeout THEN timer \cup {i} ELSE timer
     /\ started' = Append(started, i)
     /\ stack' = rest
     /\ UNCHANGED <<results, live, dead>>
  \/ /\ HookFails
     /\ CallBack(i, "unstarted", rest)
     /\ live' = live \ {i}
     /\ UNCHANGED <<queue, timer, started, dead>>
  \/ /\ FailsNow
     /\ queue' = [queue EXCEPT ![c] = Append(@, i)]
     /\ dead' = dead \cup {c}
     /\ timer' = IF Timeout THEN timer \cup {i} ELSE timer
     /\ CallBack(i, "unstarted", rest)
     /\ live' = live \ {i}
     /\ UNCHANGED started

\* evrpc_pool_schedule().
Schedule ==
  /\ Running /\ Top.f = "schedule"
  /\ \/ /\ waiting = <<>> \/ Idle = {}
        /\ stack' = Tail(stack)
        /\ UNCHANGED <<waiting, queue, dead, timer, started, results, live>>
     \/ /\ waiting # <<>> /\ Idle # {}
        /\ waiting' = Tail(waiting)
        /\ ScheduleRequest(FindConnection, Head(waiting), Tail(stack))
  /\ UNCHANGED <<conns, made, pool, wrong>>

\* The program runs, or a callback of it does.
InProgram == Running => Top.f = "cb"

\* evrpc_make_request(), with the assertion that there is a connection.
MakeRequest == /\ InProgram
               /\ pool /\ conns > 0
               /\ made + 1 \in Calls
               /\ made' = made + 1
               /\ live' = live \cup {made + 1}
               /\ waiting' = Append(waiting, made + 1)
               /\ stack' = <<[f |-> "schedule", call |-> 0]>> \o stack
               /\ UNCHANGED <<conns, queue, dead, timer, started, results, pool, wrong>>

\* evrpc_pool_add_connection(): the new connection takes a call that waits.
AddConnection ==
  /\ InProgram /\ pool /\ conns + 1 \in Conns
  /\ conns' = conns + 1
  /\ \/ waiting = <<>> /\ UNCHANGED <<waiting, queue, dead, timer, started, results, live, stack>>
     \/ /\ waiting # <<>>
        /\ waiting' = Tail(waiting)
        /\ ScheduleRequest(conns + 1, Head(waiting), stack)
  /\ UNCHANGED <<made, pool, wrong>>

\* The callback returns.
Return == /\ Running /\ Top.f = "cb"
          /\ stack' = Tail(stack)
          /\ UNCHANGED <<conns, waiting, queue, dead, timer, made, started, results, live, pool,
                         wrong>>

\* evrpc_reply_done(): the callback, the end of the context, and another call for
\* the connection.
ReplyDone(i, status) == /\ ReplyTimer(i)
                        /\ CallBack(i, status, <<[f |-> "schedule", call |-> 0]>>)
                        /\ live' = live \ {i}

\* The first request of a connection is answered, well or with what a hook or
\* reply_unmarshal() refuses, or it fails.
Answer(c) == /\ ~Running /\ c \notin dead /\ queue[c] # <<>>
             /\ queue' = [queue EXCEPT ![c] = Tail(@)]
             /\ \E status \in {"none", "hookaborted", "badpayload", "timeout"} :
                  ReplyDone(Head(queue[c]), status)
             /\ UNCHANGED <<conns, waiting, dead, made, started, pool, wrong>>

\* evrpc_request_timeout(): evhttp_connection_fail() ends the first request of the
\* connection.
TimedOut(i) ==
  /\ ~Running /\ i \in timer
  /\ \/ /\ i \in live
        /\ LET c == CHOOSE d \in Conns : \E k \in 1..Len(queue[d]) : queue[d][k] = i
           IN  /\ queue' = [queue EXCEPT ![c] = Tail(@)]
               /\ ReplyDone(Head(queue[c]), "timeout")
        /\ UNCHANGED wrong
     \/ /\ i \notin live
        /\ timer' = timer \ {i}
        /\ wrong' = TRUE
        /\ UNCHANGED <<queue, results, stack, live>>
  /\ UNCHANGED <<conns, waiting, dead, made, started, pool>>

\* evrpc_pool_free(): calls that wait and the requests of the connections are freed;
\* the contexts and the timers of the latter are not.
PoolFree == /\ FreesPool /\ ~Running /\ pool
            /\ pool' = FALSE
            /\ waiting' = <<>>
            /\ queue' = [c \in Conns |-> <<>>]
            /\ live' = {}
            /\ UNCHANGED <<conns, dead, timer, stack, made, started, results, wrong>>

-----------------------------------------------------------------------------
Next == \/ Schedule \/ MakeRequest \/ Return \/ AddConnection \/ PoolFree
        \/ \E c \in Conns : Answer(c)
        \/ \E i \in Calls : TimedOut(i)

Spec == Init /\ [][Next]_vars

\* Functions go on, and a timer expires.
FairSpec == /\ Spec
            /\ WF_vars(Schedule \/ Return)
            /\ \A i \in Calls : WF_vars(TimedOut(i))

-----------------------------------------------------------------------------
\* Type invariant of the pool; only its connections have requests.
TypeOK == /\ conns \in 0..Cardinality(Conns)
          /\ waiting \in Seq(Calls) /\ queue \in [Conns -> Seq(Calls)]
          /\ \A c \in Conns : queue[c] # <<>> => c <= conns
          /\ timer \subseteq Calls /\ live \subseteq Calls /\ dead \subseteq 1..conns
          /\ made \in 0..Cardinality(Calls)

Count(s, i) == Cardinality({k \in 1..Len(s) : s[k] = i})
Results(i) == Cardinality({k \in 1..Len(results) : results[k].call = i})

\* Every call is in one place: it waits in the pool, is on one connection, or has
\* been called back, once; also when callbacks make calls while others end.
OnePlace == \A i \in 1..made :
  Count(waiting, i) + Results(i)
    + Cardinality({c \in Conns : Count(queue[c], i) > 0}) = 1

\* Whatever fails, no call is called back twice, and none that was called back is
\* still to be sent.
NeverTwice == \A i \in 1..made : Results(i) + Count(waiting, i) <= 1

\* Calls are sent in the order in which they were made, and a connection of the pool
\* has one at a time.
SentInOrder == /\ \A k \in 1..Len(started) : \A j \in 1..(k - 1) : started[j] < started[k]
               /\ \A c \in Conns : Len(queue[c]) <= 1

\* A timer runs for the calls that are on a connection and for no other: when it
\* expires, its context is there and the request that it ends is its own.
TimersExact == Timeout => timer = {i \in Calls : \E c \in Conns : Count(queue[c], i) > 0}

\* No call waits while a connection has nothing to do.
NoIdleConnection == ~Running /\ waiting # <<>> => Idle = {}

\* No context and no pool is used after it was freed.
NoFreedContext == ~wrong

\* Every call is called back in the end.
CalledBack == \A i \in Calls : made >= i ~> Results(i) = 1

-----------------------------------------------------------------------------
(***************************************************************************)
(* Proofs, for any number of calls and connections.                        *)
(***************************************************************************)

\* Calls that are no longer waiting: the ones made first.
Sent == made - Len(waiting)

Numbers == /\ conns \in Nat /\ 1..conns \subseteq Conns
           /\ made \in Nat /\ 1..made \subseteq Calls
           /\ waiting \in Seq(Nat) /\ Len(waiting) <= made
           /\ \A k \in 1..Len(waiting) : waiting[k] = Sent + k
           /\ stack \in Seq([f : {"schedule", "cb"}, call : Nat])

\* A connection has one request at most, and a request one connection.
Queues == /\ queue \in [Conns -> Seq(Nat)]
          /\ \A c \in Conns : queue[c] = <<>> \/ (c \in 1..conns /\ \E i \in 1..Sent : queue[c] = <<i>>)
          /\ \A c, d \in Conns : queue[c] # <<>> /\ queue[c] = queue[d] => c = d

Statuses == {"none", "hookaborted", "badpayload", "timeout", "unstarted"}

\* A call is called back once, and its context is freed then.
Ended == /\ results \in Seq([call : Nat, status : Statuses])
         /\ \A k \in 1..Len(results) : results[k].call \in 1..Sent /\ results[k].call \notin live
         /\ \A j, k \in 1..Len(results) : results[j].call = results[k].call => j = k

\* The context of a call that waits, or is on a connection that works, is there.
Living == /\ live \subseteq 1..made /\ \A k \in 1..Len(waiting) : waiting[k] \in live
          /\ dead \subseteq 1..conns
          /\ \A c \in Conns \ dead : \A i \in Nat : queue[c] = <<i>> => i \in live
          /\ timer \subseteq 1..Sent
          /\ \A i \in timer \cap live : \E c \in Conns : queue[c] = <<i>>

Started == /\ started \in Seq(Nat)
           /\ \A k \in 1..Len(started) : started[k] \in 1..Sent
           /\ \A k \in 1..Len(started) : \A j \in 1..(k - 1) : started[j] < started[k]

PoolInv == Numbers /\ Queues /\ Ended /\ Living /\ Started

\* A set of numbers that is not empty has a smallest one.
LEMMA Smallest ==
  ASSUME NEW S, S \subseteq Nat, S # {}
  PROVE  \E m \in S : \A k \in S : m <= k
<1> DEFINE R == OpToRel(<, Nat)
<1>1. IsWellFoundedOn(R, Nat)
  BY NatLessThanWellFounded
<1>2. \A x, y \in Nat : y < x => <<y, x>> \in R
  BY DEF OpToRel
<1> HIDE DEF R
<1>3. PICK m \in S : \A k \in S : ~(<<k, m>> \in R)
  BY <1>1, WFMin
<1>4. ASSUME NEW k \in S PROVE m <= k
  <2>1. m \in Nat /\ k \in Nat /\ ~(k < m)
    BY <1>2, <1>3
  <2> QED
    BY <2>1
<1> QED
  BY <1>4

\* evrpc_pool_find_connection() returns a connection of the pool without requests.
LEMMA FindIs ==
  ASSUME conns \in Nat, Idle # {}
  PROVE  FindConnection \in 1..conns /\ queue[FindConnection] = <<>> /\ FindConnection \in Idle
<1>1. Idle \subseteq Nat /\ \A c \in Idle : c \in 1..conns /\ queue[c] = <<>>
  BY DEF Idle
<1> HIDE DEF Idle
<1>2. \E c \in Idle : \A d \in Idle : c <= d
  BY <1>1, Smallest
<1>3. FindConnection \in Idle
  BY <1>2 DEF FindConnection
<1> QED
  BY <1>1, <1>3

\* What the constants are.
LEMMA SaneIs ==
  ASSUME Sane
  PROVE  /\ \E n \in Nat : n = Cardinality(Calls) /\ Calls = 1..n
         /\ \E n \in Nat : n = Cardinality(Conns) /\ Conns = 1..n
BY FS_CardinalityType DEF Sane

\* The pool is empty at first.
LEMMA PoolInit == Sane /\ Init => PoolInv
BY SaneIs DEF Init, PoolInv, Numbers, Queues, Ended, Living, Started, Sent

\* A call leaves the pool: it is the first that waits, and the next one to be sent.
LEMMA TakenIs ==
  ASSUME Numbers, waiting # <<>>, waiting' = Tail(waiting), made' = made
  PROVE  /\ Sent' = Sent + 1 /\ Head(waiting) = Sent + 1 /\ Sent \in Nat /\ Sent' \in Nat
         /\ waiting' \in Seq(Nat) /\ Len(waiting') = Len(waiting) - 1 /\ Len(waiting') \in Nat
         /\ \A k \in 1..Len(waiting') : waiting'[k] = Sent' + k /\ waiting'[k] = waiting[k + 1]
<1>1. waiting \in Seq(Nat) /\ made \in Nat /\ Len(waiting) \in Nat /\ Len(waiting) <= made
  BY DEF Numbers
<1>2. /\ waiting' \in Seq(Nat) /\ Len(waiting') = Len(waiting) - 1 /\ Len(waiting) > 0
      /\ \A k \in 1..Len(waiting') : waiting'[k] = waiting[k + 1]
      /\ Head(waiting) = waiting[1]
  BY <1>1
<1>3. Sent' = Sent + 1 /\ Sent \in Nat /\ Sent' \in Nat
  BY <1>1, <1>2 DEF Sent
<1>4. Head(waiting) = Sent + 1
  <2>1. 1 \in 1..Len(waiting)
    BY <1>1, <1>2
  <2> QED
    BY <1>2, <2>1 DEF Numbers
<1>5. ASSUME NEW k \in 1..Len(waiting') PROVE waiting'[k] = Sent' + k
  <2>1. k + 1 \in 1..Len(waiting)
    BY <1>1, <1>2
  <2>2. waiting[k + 1] = Sent + (k + 1)
    BY <2>1 DEF Numbers
  <2> QED
    BY <1>2, <1>3, <2>2
<1> QED
  BY <1>1, <1>2, <1>3, <1>4, <1>5

Frames == Seq([f : {"schedule", "cb"}, call : Nat])

\* A call that has a context is called back for the first time.
LEMMA EndOne ==
  ASSUME Ended, NEW i \in Nat, i \in live, i \in 1..Sent', 1..Sent \subseteq 1..Sent',
         NEW status \in Statuses, results' = Append(results, [call |-> i, status |-> status]),
         live' = live \ {i}
  PROVE  Ended'
<1>1. /\ results \in Seq([call : Nat, status : Statuses]) /\ Len(results) \in Nat
      /\ \A k \in 1..Len(results) : results[k].call \in 1..Sent /\ results[k].call \notin live
      /\ \A j, k \in 1..Len(results) : results[j].call = results[k].call => j = k
  BY DEF Ended
<1>2. [call |-> i, status |-> status] \in [call : Nat, status : Statuses]
  OBVIOUS
<1>3. /\ results' \in Seq([call : Nat, status : Statuses]) /\ Len(results') = Len(results) + 1
      /\ \A k \in 1..Len(results) : results'[k] = results[k]
      /\ results'[Len(results) + 1].call = i
  BY <1>1, <1>2
<1>4. \A k \in 1..Len(results') : k \in 1..Len(results) \/ k = Len(results) + 1
  BY <1>1, <1>3
<1>5. \A k \in 1..Len(results') : results'[k].call \in 1..Sent' /\ results'[k].call \notin live'
  BY <1>1, <1>3, <1>4
<1>6. ASSUME NEW j \in 1..Len(results'), NEW k \in 1..Len(results'),
             results'[j].call = results'[k].call
      PROVE  j = k
  BY <1>1, <1>3, <1>4, <1>6
<1> QED
  BY <1>3, <1>5, <1>6 DEF Ended

\* evrpc_schedule_request() gives the call to a connection that has none, or ends it.
LEMMA ScheduleKeeps ==
  ASSUME PoolInv, waiting # <<>>, waiting' = Tail(waiting), made' = made,
         conns' \in Nat, conns <= conns', 1..conns' \subseteq Conns,
         NEW c \in 1..conns', queue[c] = <<>>, NEW rest \in Frames,
         ScheduleRequest(c, Head(waiting), rest)
  PROVE  PoolInv'
<1>1. PICK i \in Nat : i = Head(waiting)
  BY TakenIs DEF PoolInv
<1>2. /\ i = Sent + 1 /\ Sent' = i /\ Sent \in Nat /\ i \in live /\ i \in 1..made
      /\ Len(waiting) \in Nat /\ Len(waiting') = Len(waiting) - 1 /\ made \in Nat
      /\ Len(waiting) <= made
  <2>1. /\ Sent' = Sent + 1 /\ Head(waiting) = Sent + 1 /\ Sent \in Nat
        /\ Len(waiting') = Len(waiting) - 1
    BY TakenIs DEF PoolInv
  <2>2. waiting \in Seq(Nat) /\ made \in Nat /\ Len(waiting) <= made /\ Len(waiting) \in Nat
    BY DEF PoolInv, Numbers
  <2>3. 1 \in 1..Len(waiting) /\ waiting[1] = Head(waiting)
    BY <2>2
  <2>4. i \in live
    BY <1>1, <2>3 DEF PoolInv, Living
  <2> QED
    BY <1>1, <2>1, <2>2, <2>4 DEF PoolInv, Living
<1>3. c \in Conns /\ c \in Nat
  OBVIOUS
<1>4. /\ queue' = queue \/ queue' = [queue EXCEPT ![c] = <<i>>]
      /\ timer' = timer \/ (timer' = timer \cup {i} /\ queue' = [queue EXCEPT ![c] = <<i>>])
      /\ started' = started \/ started' = Append(started, i)
      /\ \/ results' = results /\ stack' = rest /\ live' = live /\ dead' = dead
         \/ /\ results' = Append(results, [call |-> i, status |-> "unstarted"])
            /\ stack' = <<[f |-> "cb", call |-> i]>> \o rest
            /\ live' = live \ {i}
            /\ \/ dead' = dead /\ queue' = queue
               \/ dead' = dead \cup {c}
  <2>1. Append(queue[c], i) = <<i>>
    OBVIOUS
  <2>2. [queue EXCEPT ![c] = Append(@, i)] = [queue EXCEPT ![c] = <<i>>]
    BY <2>1
  <2> QED
    BY <1>1, <2>2 DEF ScheduleRequest, CallBack
<1>10. 1..conns \subseteq 1..conns' /\ 1..Sent \subseteq 1..Sent' /\ i \in 1..Sent' /\ i \notin 1..Sent
  BY <1>2 DEF PoolInv, Numbers
<1>11. /\ dead' = dead \/ dead' = dead \cup {c}
       /\ timer' = timer \/ timer' = timer \cup {i}
  BY <1>4
<1>5. Numbers'
  <2>1. \A k \in 1..Len(waiting') : waiting'[k] = Sent' + k
    BY TakenIs DEF PoolInv
  <2>2. waiting' \in Seq(Nat)
    BY TakenIs DEF PoolInv
  <2>3. stack' \in Frames
    <3>1. [f |-> "cb", call |-> i] \in [f : {"schedule", "cb"}, call : Nat]
      OBVIOUS
    <3>2. <<[f |-> "cb", call |-> i]>> \o rest \in Frames
      BY <3>1 DEF Frames
    <3> QED
      BY <1>4, <3>2
  <2>4. Len(waiting') <= made
    BY <1>2
  <2> QED
    BY <1>2, <2>1, <2>2, <2>3, <2>4 DEF PoolInv, Numbers, Frames
<1>6. Queues'
  <2>1. /\ queue \in [Conns -> Seq(Nat)]
        /\ \A d \in Conns : queue[d] = <<>> \/ (d \in 1..conns /\ \E j \in 1..Sent : queue[d] = <<j>>)
        /\ \A d, e \in Conns : queue[d] # <<>> /\ queue[d] = queue[e] => d = e
        /\ conns \in Nat
    BY DEF PoolInv, Queues, Numbers
  <2>2. ASSUME NEW d \in Conns, queue[d] # <<>>
        PROVE  /\ d \in 1..conns' /\ \E j \in 1..Sent' : queue[d] = <<j>>
               /\ queue[d] # <<i>>
    <3>1. PICK j \in 1..Sent : queue[d] = <<j>>
      BY <2>1, <2>2
    <3>2. j \in 1..Sent' /\ j # i
      BY <1>2
    <3>3. <<j>> # <<i>>
      BY <3>2
    <3> QED
      BY <3>1, <3>2, <3>3, <2>1, <2>2, <1>10
  <2>3. CASE queue' = queue
    <3> QED
      BY <2>1, <2>2, <2>3 DEF Queues
  <2>4. CASE queue' = [queue EXCEPT ![c] = <<i>>]
    <3>1. /\ queue' \in [Conns -> Seq(Nat)]
          /\ \A d \in Conns : queue'[d] = IF d = c THEN <<i>> ELSE queue[d]
      BY <1>3, <2>1, <2>4
    <3>2. i \in 1..Sent'
      BY <1>2
    <3>3. \A d \in Conns : queue'[d] = <<>> \/ (d \in 1..conns' /\ \E j \in 1..Sent' : queue'[d] = <<j>>)
      BY <2>2, <3>1, <3>2
    <3>4. ASSUME NEW d \in Conns, NEW e \in Conns, queue'[d] # <<>>, queue'[d] = queue'[e]
          PROVE  d = e
      <4>1. CASE d = c
        BY <3>1, <3>4, <2>2, <4>1
      <4>2. CASE e = c
        BY <3>1, <3>4, <2>2, <4>2
      <4>3. CASE d # c /\ e # c
        BY <3>1, <3>4, <2>1, <4>3
      <4> QED
        BY <4>1, <4>2, <4>3
    <3> QED
      BY <3>1, <3>3, <3>4 DEF Queues
  <2> QED
    BY <1>4, <2>3, <2>4
<1>7. Ended'
  <2>1. /\ results \in Seq([call : Nat, status : Statuses])
        /\ \A k \in 1..Len(results) : results[k].call \in 1..Sent /\ results[k].call \notin live
        /\ \A j, k \in 1..Len(results) : results[j].call = results[k].call => j = k
    BY DEF PoolInv, Ended
  <2>2. 1..Sent \subseteq 1..Sent' /\ i \in 1..Sent' /\ i \in live
    BY <1>2
  <2>3. CASE results' = results /\ live' = live
    BY <2>1, <2>2, <2>3 DEF Ended
  <2>4. CASE /\ results' = Append(results, [call |-> i, status |-> "unstarted"])
             /\ live' = live \ {i}
    <3>1. "unstarted" \in Statuses
      BY DEF Statuses
    <3>2. Ended
      BY DEF PoolInv
    <3> QED
      BY <2>2, <2>4, <3>1, <3>2, EndOne
  <2> QED
    BY <1>4, <2>3, <2>4
<1>8. Living'
  <2>1. /\ live \subseteq 1..made /\ \A k \in 1..Len(waiting) : waiting[k] \in live
        /\ dead \subseteq 1..conns
        /\ \A d \in Conns \ dead : \A j \in Nat : queue[d] = <<j>> => j \in live
        /\ timer \subseteq 1..Sent
        /\ \A j \in timer \cap live : \E d \in Conns : queue[d] = <<j>>
        /\ queue \in [Conns -> Seq(Nat)] /\ conns \in Nat
    BY DEF PoolInv, Living, Queues, Numbers
  <2>2. live' \subseteq live /\ live \ {i} \subseteq live'
    BY <1>4
  <2>3. ASSUME NEW k \in 1..Len(waiting') PROVE waiting'[k] \in live'
    <3>1. waiting'[k] = waiting[k + 1] /\ waiting'[k] = Sent' + k
      BY TakenIs DEF PoolInv
    <3>2. k + 1 \in 1..Len(waiting) /\ Sent' + k # i
      BY <1>2
    <3> QED
      BY <2>1, <2>2, <3>1, <3>2
  <2>4. dead \subseteq dead' /\ dead' \subseteq dead \cup {c} /\ dead' \subseteq 1..conns'
    BY <1>10, <1>11, <2>1
  <2>5. timer' \subseteq timer \cup {i} /\ timer' \subseteq 1..Sent'
    BY <1>10, <1>11, <2>1
  <2>6. \A d \in Conns : queue'[d] = IF d = c /\ queue' # queue THEN <<i>> ELSE queue[d]
    BY <1>3, <1>4, <2>1
  <2>7. ASSUME NEW d \in Conns, NEW j \in Nat, queue[d] = <<j>> PROVE j # i /\ d # c
    <3>1. queue[d] # <<>>
      BY <2>7
    <3>2. PICK n \in 1..Sent : queue[d] = <<n>>
      BY <3>1 DEF PoolInv, Queues
    <3>3. n = j
      BY <2>7, <3>2
    <3> QED
      BY <1>10, <2>7, <3>1, <3>3
  <2>8. ASSUME NEW d \in Conns \ dead', NEW j \in Nat, queue'[d] = <<j>> PROVE j \in live'
    <3>1. CASE queue[d] = <<j>>
      BY <2>1, <2>2, <2>4, <2>7, <3>1
    <3>2. CASE queue[d] # <<j>>
      <4>1. d = c /\ queue' # queue /\ <<i>> = <<j>>
        BY <2>6, <2>8, <3>2
      <4>2. i = j
        BY <4>1
      <4>3. live' = live
        BY <1>4, <4>1, <2>8
      <4> QED
        BY <1>2, <4>2, <4>3
    <3> QED
      BY <3>1, <3>2
  <2>9. ASSUME NEW j \in timer' \cap live' PROVE \E d \in Conns : queue'[d] = <<j>>
    <3>1. CASE j \in timer
      <4>1. j \in live
        BY <2>2
      <4>2. PICK d \in Conns : queue[d] = <<j>>
        BY <2>1, <3>1, <4>1
      <4>3. j \in Nat
        BY <2>1, <3>1
      <4> QED
        BY <2>6, <2>7, <4>2, <4>3
    <3>2. CASE j \notin timer
      <4>1. j = i /\ queue' = [queue EXCEPT ![c] = <<i>>]
        BY <1>4, <2>9, <3>2
      <4>2. queue'[c] = <<i>>
        BY <1>3, <2>1, <4>1
      <4> QED
        BY <1>3, <4>1, <4>2
    <3> QED
      BY <3>1, <3>2
  <2>10. live' \subseteq 1..made'
    BY <2>1, <2>2
  <2> QED
    BY <2>3, <2>4, <2>5, <2>8, <2>9, <2>10 DEF Living
<1>9. Started'
  <2>1. /\ started \in Seq(Nat) /\ Len(started) \in Nat
        /\ \A k \in 1..Len(started) : started[k] \in 1..Sent
        /\ \A k \in 1..Len(started) : \A j \in 1..(k - 1) : started[j] < started[k]
    BY DEF PoolInv, Started
  <2>2. CASE started' = started
    BY <1>10, <2>1, <2>2 DEF Started
  <2>3. CASE started' = Append(started, i)
    <3>1. /\ started' \in Seq(Nat) /\ Len(started') = Len(started) + 1
          /\ \A k \in 1..Len(started) : started'[k] = started[k]
          /\ started'[Len(started) + 1] = i
      BY <2>1, <2>3
    <3>4. \A k \in 1..Len(started') : k \in 1..Len(started) \/ k = Len(started) + 1
      BY <2>1, <3>1
    <3>2. \A k \in 1..Len(started') : started'[k] \in 1..Sent'
      BY <1>10, <2>1, <3>1, <3>4
    <3>3. ASSUME NEW k \in 1..Len(started'), NEW j \in 1..(k - 1)
          PROVE  started'[j] < started'[k]
      <4>1. j \in 1..Len(started) /\ started'[j] = started[j] /\ started[j] \in 1..Sent
        BY <2>1, <3>1
      <4>2. CASE k = Len(started) + 1
        BY <1>2, <3>1, <4>1, <4>2
      <4>3. CASE k # Len(started) + 1
        <5>1. k \in 1..Len(started)
          BY <2>1, <3>1, <4>3
        <5> QED
          BY <2>1, <3>1, <4>1, <5>1
      <4> QED
        BY <4>2, <4>3
    <3> QED
      BY <3>1, <3>2, <3>3 DEF Started
  <2> QED
    BY <1>4, <2>2, <2>3
<1> QED
  BY <1>5, <1>6, <1>7, <1>8, <1>9 DEF PoolInv

\* evrpc_reply_done() ends the call of a connection, which has a context.
LEMMA EndKeeps ==
  ASSUME PoolInv, NEW c \in Conns, NEW i \in Nat, queue[c] = <<i>>, i \in live,
         NEW status \in Statuses, queue' = [queue EXCEPT ![c] = Tail(@)], ReplyDone(i, status),
         UNCHANGED <<conns, waiting, dead, made, started>>
  PROVE  PoolInv'
<1>1. /\ Sent' = Sent /\ Sent \in Nat
      /\ queue \in [Conns -> Seq(Nat)]
  BY DEF PoolInv, Numbers, Queues, Sent
<1>2. Tail(queue[c]) = <<>>
  OBVIOUS
<1>3. /\ queue' \in [Conns -> Seq(Nat)]
      /\ \A d \in Conns : queue'[d] = IF d = c THEN <<>> ELSE queue[d]
  BY <1>1, <1>2
<1>4. /\ timer' = timer \ {i} /\ live' = live \ {i}
      /\ results' = Append(results, [call |-> i, status |-> status])
      /\ stack' = <<[f |-> "cb", call |-> i]>> \o <<[f |-> "schedule", call |-> 0]>>
  BY DEF ReplyDone, ReplyTimer, CallBack
<1>5. i \in 1..Sent
  <2>1. queue[c] # <<>>
    OBVIOUS
  <2>2. PICK n \in 1..Sent : queue[c] = <<n>>
    BY <2>1 DEF PoolInv, Queues
  <2> QED
    BY <2>2
<1>6. ASSUME NEW d \in Conns, queue[d] = <<i>> PROVE d = c
  <2>1. queue[d] # <<>> /\ queue[d] = queue[c]
    BY <1>6
  <2> QED
    BY <2>1 DEF PoolInv, Queues
<1>7. Numbers'
  <2>1. stack' \in Frames
    <3>1. /\ [f |-> "cb", call |-> i] \in [f : {"schedule", "cb"}, call : Nat]
          /\ [f |-> "schedule", call |-> 0] \in [f : {"schedule", "cb"}, call : Nat]
      OBVIOUS
    <3>2. /\ <<[f |-> "cb", call |-> i]>> \in Frames
          /\ <<[f |-> "schedule", call |-> 0]>> \in Frames
      BY <3>1 DEF Frames
    <3> QED
      BY <1>4, <3>2 DEF Frames
  <2> QED
    BY <1>1, <2>1 DEF PoolInv, Numbers, Frames
<1>8. Queues'
  BY <1>1, <1>3 DEF PoolInv, Queues
<1>9. Ended'
  <2>1. Ended
    BY DEF PoolInv
  <2> QED
    BY <1>1, <1>4, <1>5, <2>1, EndOne
<1>10. Living'
  <2>1. /\ live \subseteq 1..made /\ \A k \in 1..Len(waiting) : waiting[k] \in live
        /\ dead \subseteq 1..conns
        /\ \A d \in Conns \ dead : \A j \in Nat : queue[d] = <<j>> => j \in live
        /\ timer \subseteq 1..Sent
        /\ \A j \in timer \cap live : \E d \in Conns : queue[d] = <<j>>
    BY DEF PoolInv, Living
  <2>2. ASSUME NEW k \in 1..Len(waiting') PROVE waiting'[k] \in live'
    <3>1. waiting[k] = Sent + k /\ Len(waiting) \in Nat
      BY DEF PoolInv, Numbers
    <3>2. k \in Nat /\ k > 0 /\ Sent + k # i
      BY <1>1, <1>5, <3>1
    <3> QED
      BY <1>4, <2>1, <3>1, <3>2
  <2>3. ASSUME NEW d \in Conns \ dead', NEW j \in Nat, queue'[d] = <<j>> PROVE j \in live'
    <3>1. d # c /\ queue[d] = <<j>>
      BY <1>3, <2>3
    <3>2. j # i
      BY <1>6, <3>1
    <3> QED
      BY <1>4, <2>1, <2>3, <3>1, <3>2
  <2>4. ASSUME NEW j \in timer' \cap live' PROVE \E d \in Conns : queue'[d] = <<j>>
    <3>1. j \in timer \cap live /\ j # i
      BY <1>4
    <3>2. PICK d \in Conns : queue[d] = <<j>>
      BY <2>1, <3>1
    <3>3. d # c
      BY <3>1, <3>2
    <3> QED
      BY <1>3, <3>2, <3>3
  <2> QED
    BY <1>1, <1>4, <2>1, <2>2, <2>3, <2>4 DEF Living
<1>11. Started'
  BY <1>1 DEF PoolInv, Started
<1> QED
  BY <1>7, <1>8, <1>9, <1>10, <1>11 DEF PoolInv

\* What a step changes besides the stack.
LEMMA StackKeeps ==
  ASSUME PoolInv, stack' \in Frames,
         UNCHANGED <<conns, waiting, queue, dead, timer, made, started, results, live>>
  PROVE  PoolInv'
<1>1. Sent' = Sent
  BY DEF Sent
<1>2. Numbers'
  BY <1>1 DEF PoolInv, Numbers, Frames
<1>3. Queues' /\ Ended' /\ Started'
  BY <1>1 DEF PoolInv, Queues, Ended, Started
<1>4. Living'
  BY <1>1 DEF PoolInv, Living
<1> QED
  BY <1>2, <1>3, <1>4 DEF PoolInv

\* evrpc_make_request() puts the call behind those that wait.
LEMMA MakeKeeps == PoolInv /\ MakeRequest => PoolInv'
<1> SUFFICES ASSUME PoolInv, MakeRequest PROVE PoolInv'
  OBVIOUS
<1>1. /\ waiting \in Seq(Nat) /\ made \in Nat /\ Len(waiting) \in Nat /\ Len(waiting) <= made
      /\ stack \in Frames /\ 1..made \subseteq Calls
      /\ \A k \in 1..Len(waiting) : waiting[k] = Sent + k
  BY DEF PoolInv, Numbers, Frames
<1>2. /\ waiting' = Append(waiting, made + 1) /\ made' = made + 1 /\ made + 1 \in Calls
      /\ live' = live \cup {made + 1}
      /\ stack' = <<[f |-> "schedule", call |-> 0]>> \o stack
      /\ UNCHANGED <<conns, queue, dead, timer, started, results>>
  BY DEF MakeRequest
<1>3. /\ waiting' \in Seq(Nat) /\ Len(waiting') = Len(waiting) + 1
      /\ \A k \in 1..Len(waiting) : waiting'[k] = waiting[k]
      /\ waiting'[Len(waiting) + 1] = made + 1
  BY <1>1, <1>2
<1>4. Sent' = Sent /\ Sent \in Nat /\ Sent + (Len(waiting) + 1) = made + 1
  BY <1>1, <1>2, <1>3 DEF Sent
<1>5. \A k \in 1..Len(waiting') : k \in 1..Len(waiting) \/ k = Len(waiting) + 1
  BY <1>1, <1>3
<1>6. 1..made' \subseteq Calls /\ 1..made \subseteq 1..made' /\ made + 1 \in 1..made' /\ made' \in Nat
  <2>1. made' = made + 1 /\ made + 1 \in Nat
    BY <1>1, <1>2
  <2>2. \A k \in 1..made' : k \in 1..made \/ k = made + 1
    BY <1>1, <2>1
  <2>3. 1..made' \subseteq Calls
    BY <1>1, <1>2, <2>2
  <2>4. 1..made \subseteq 1..made' /\ made + 1 \in 1..made'
    BY <1>1, <2>1
  <2> QED
    BY <2>1, <2>3, <2>4
<1>7. stack' \in Frames
  <2>1. [f |-> "schedule", call |-> 0] \in [f : {"schedule", "cb"}, call : Nat]
    OBVIOUS
  <2>2. <<[f |-> "schedule", call |-> 0]>> \in Frames
    BY <2>1 DEF Frames
  <2> QED
    BY <1>1, <1>2, <2>2 DEF Frames
<1>8. Numbers'
  <2>1. \A k \in 1..Len(waiting') : waiting'[k] = Sent' + k
    BY <1>1, <1>3, <1>4, <1>5
  <2>2. Len(waiting') <= made'
    BY <1>1, <1>2, <1>3
  <2>3. conns' \in Nat /\ 1..conns' \subseteq Conns
    BY <1>2 DEF PoolInv, Numbers
  <2> QED
    BY <1>3, <1>6, <1>7, <2>1, <2>2, <2>3 DEF Numbers, Frames
<1>9. Queues' /\ Started'
  BY <1>2, <1>4 DEF PoolInv, Queues, Started
<1>10. made + 1 \notin 1..Sent
  BY <1>1, <1>4
<1>11. Ended'
  BY <1>2, <1>4, <1>10 DEF PoolInv, Ended
<1>12. Living'
  <2>1. /\ live \subseteq 1..made /\ \A k \in 1..Len(waiting) : waiting[k] \in live
        /\ dead \subseteq 1..conns
        /\ \A d \in Conns \ dead : \A j \in Nat : queue[d] = <<j>> => j \in live
        /\ timer \subseteq 1..Sent
        /\ \A j \in timer \cap live : \E d \in Conns : queue[d] = <<j>>
    BY DEF PoolInv, Living
  <2>2. \A k \in 1..Len(waiting') : waiting'[k] \in live'
    BY <1>2, <1>3, <1>5, <2>1
  <2>3. timer' \cap live' \subseteq timer \cap live
    BY <1>2, <1>10, <2>1
  <2>4. live' \subseteq 1..made'
    BY <1>2, <1>6, <2>1
  <2>5. /\ \A d \in Conns \ dead' : \A j \in Nat : queue'[d] = <<j>> => j \in live'
        /\ \A j \in timer' \cap live' : \E d \in Conns : queue'[d] = <<j>>
    BY <1>2, <2>1, <2>3
  <2> QED
    BY <1>2, <1>4, <2>1, <2>2, <2>4, <2>5 DEF Living
<1> QED
  BY <1>8, <1>9, <1>11, <1>12 DEF PoolInv

\* evrpc_pool_free() leaves nothing that waits or is on a connection.
LEMMA FreeKeeps == PoolInv /\ PoolFree => PoolInv'
<1> SUFFICES ASSUME PoolInv, PoolFree PROVE PoolInv'
  OBVIOUS
<1>1. /\ waiting' = <<>> /\ queue' = [c \in Conns |-> <<>>] /\ live' = {}
      /\ UNCHANGED <<conns, dead, timer, stack, made, started, results>>
  BY DEF PoolFree
<1>2. made \in Nat /\ Len(waiting) \in Nat
  BY DEF PoolInv, Numbers
<1>3. Sent' = made /\ 1..Sent \subseteq 1..Sent'
  BY <1>1, <1>2 DEF Sent
<1>4. Numbers'
  BY <1>1, <1>2 DEF PoolInv, Numbers
<1>5. Queues'
  BY <1>1 DEF Queues
<1>6. Ended' /\ Started'
  BY <1>1, <1>3 DEF PoolInv, Ended, Started
<1>7. Living'
  BY <1>1, <1>3 DEF PoolInv, Living
<1> QED
  BY <1>4, <1>5, <1>6, <1>7 DEF PoolInv

\* The connection that a request is on.
LEMMA OnConnection ==
  ASSUME PoolInv, NEW c \in Conns, queue[c] # <<>>
  PROVE  \E i \in Nat : queue[c] = <<i>> /\ Head(queue[c]) = i
<1>1. PICK i \in 1..Sent : queue[c] = <<i>>
  BY DEF PoolInv, Queues
<1>2. Sent \in Int /\ i \in Nat
  BY DEF PoolInv, Numbers, Sent
<1>3. Head(<<i>>) = i
  OBVIOUS
<1> QED
  BY <1>1, <1>2, <1>3

\* The request that a timer ends is the one it was started for.
LEMMA TimedIs ==
  ASSUME PoolInv, NEW i \in timer \cap live,
         NEW c, c = CHOOSE d \in Conns : \E k \in 1..Len(queue[d]) : queue[d][k] = i
  PROVE  c \in Conns /\ i \in Nat /\ queue[c] = <<i>> /\ Head(queue[c]) = i
<1>1. PICK d \in Conns : queue[d] = <<i>>
  BY DEF PoolInv, Living
<1>2. \E k \in 1..Len(queue[d]) : queue[d][k] = i
  BY <1>1
<1>3. c \in Conns /\ \E k \in 1..Len(queue[c]) : queue[c][k] = i
  BY <1>2
<1>4. PICK k \in 1..Len(queue[c]) : queue[c][k] = i
  BY <1>3
<1>5. queue[c] # <<>>
  <2>1. 1..Len(<<>>) = {}
    OBVIOUS
  <2> QED
    BY <1>4, <2>1
<1>6. PICK n \in Nat : queue[c] = <<n>> /\ Head(queue[c]) = n
  BY <1>3, <1>5, OnConnection
<1>7. n = i
  BY <1>4, <1>6
<1> QED
  BY <1>3, <1>6, <1>7

\* Every step of the pool, its connections and its timers.
LEMMA PoolStep == Sane /\ PoolInv /\ [Next]_vars => PoolInv'
<1> SUFFICES ASSUME Sane, PoolInv, [Next]_vars PROVE PoolInv'
  OBVIOUS
<1>1. /\ conns \in Nat /\ 1..conns \subseteq Conns /\ stack \in Frames
      /\ queue \in [Conns -> Seq(Nat)]
  BY DEF PoolInv, Numbers, Queues, Frames
<1>2. CASE UNCHANGED vars
  BY <1>1, <1>2, StackKeeps DEF vars
<1>3. CASE Schedule
  <2>1. Running /\ Tail(stack) \in Frames
    <3>1. stack # <<>>
      BY <1>3 DEF Schedule, Running
    <3> QED
      BY <1>1, <3>1 DEF Frames, Running
  <2>2. CASE /\ stack' = Tail(stack)
             /\ UNCHANGED <<waiting, queue, dead, timer, started, results, live>>
    BY <1>3, <2>1, <2>2, StackKeeps DEF Schedule
  <2>3. CASE /\ waiting # <<>> /\ Idle # {} /\ waiting' = Tail(waiting)
             /\ ScheduleRequest(FindConnection, Head(waiting), Tail(stack))
    <3>1. PICK c : c = FindConnection
      OBVIOUS
    <3>2. c \in 1..conns /\ queue[c] = <<>>
      BY <1>1, <2>3, <3>1, FindIs
    <3>3. conns' = conns /\ made' = made /\ conns' \in Nat /\ conns <= conns'
      BY <1>1, <1>3 DEF Schedule
    <3>4. ScheduleRequest(c, Head(waiting), Tail(stack))
      BY <2>3, <3>1
    <3> QED
      BY <1>1, <2>1, <2>3, <3>2, <3>3, <3>4, ScheduleKeeps
  <2> QED
    BY <1>3, <2>2, <2>3 DEF Schedule
<1>4. CASE MakeRequest
  BY <1>4, MakeKeeps
<1>5. CASE Return
  <2>1. stack # <<>>
    BY <1>5 DEF Return, Running
  <2>2. Tail(stack) \in Frames
    BY <1>1, <2>1 DEF Frames
  <2> QED
    BY <1>5, <2>2, StackKeeps DEF Return
<1>6. CASE AddConnection
  <2>1. /\ conns' = conns + 1 /\ made' = made /\ conns + 1 \in Conns
        /\ conns' \in Nat /\ conns <= conns'
    BY <1>1, <1>6 DEF AddConnection
  <2>2. 1..conns' \subseteq Conns /\ 1..conns \subseteq 1..conns'
    <3>1. \A k \in 1..conns' : k \in 1..conns \/ k = conns + 1
      BY <1>1, <2>1
    <3>2. 1..conns \subseteq 1..conns'
      BY <1>1, <2>1
    <3> QED
      BY <1>1, <2>1, <3>1, <3>2
  <2>3. CASE waiting = <<>> /\ UNCHANGED <<waiting, queue, dead, timer, started, results, live, stack>>
    <3>1. Sent' = Sent
      BY <2>1, <2>3 DEF Sent
    <3>2. Numbers'
      BY <2>1, <2>2, <2>3, <3>1 DEF PoolInv, Numbers
    <3>3. Queues'
      BY <2>2, <2>3, <3>1 DEF PoolInv, Queues
    <3>4. Ended' /\ Started'
      BY <2>3, <3>1 DEF PoolInv, Ended, Started
    <3>5. Living'
      BY <2>1, <2>2, <2>3, <3>1 DEF PoolInv, Living
    <3> QED
      BY <3>2, <3>3, <3>4, <3>5 DEF PoolInv
  <2>4. CASE /\ waiting # <<>> /\ waiting' = Tail(waiting)
             /\ ScheduleRequest(conns + 1, Head(waiting), stack)
    <3>1. PICK c : c = conns + 1
      OBVIOUS
    <3>2. c \in 1..conns' /\ c \notin 1..conns /\ c \in Conns
      BY <1>1, <2>1, <3>1
    <3>3. queue[c] = <<>>
      BY <3>2 DEF PoolInv, Queues
    <3>4. ScheduleRequest(c, Head(waiting), stack)
      BY <2>4, <3>1
    <3> QED
      BY <1>1, <2>1, <2>2, <2>4, <3>2, <3>3, <3>4, ScheduleKeeps
  <2> QED
    BY <1>6, <2>3, <2>4 DEF AddConnection
<1>7. CASE PoolFree
  BY <1>7, FreeKeeps
<1>8. ASSUME NEW c \in Conns, Answer(c) PROVE PoolInv'
  <2>1. /\ c \notin dead /\ queue[c] # <<>> /\ queue' = [queue EXCEPT ![c] = Tail(@)]
        /\ \E status \in {"none", "hookaborted", "badpayload", "timeout"} :
             ReplyDone(Head(queue[c]), status)
        /\ UNCHANGED <<conns, waiting, dead, made, started>>
    BY <1>8 DEF Answer
  <2>2. PICK i \in Nat : queue[c] = <<i>> /\ Head(queue[c]) = i
    BY <2>1, OnConnection
  <2>3. i \in live
    BY <2>1, <2>2 DEF PoolInv, Living
  <2>4. PICK status \in Statuses : ReplyDone(i, status)
    BY <2>1, <2>2 DEF Statuses
  <2> QED
    BY <2>1, <2>2, <2>3, <2>4, EndKeeps
<1>9. ASSUME NEW i \in Calls, TimedOut(i) PROVE PoolInv'
  <2>1. i \in timer /\ UNCHANGED <<conns, waiting, dead, made, started>>
    BY <1>9 DEF TimedOut
  <2>2. CASE i \in live
    <3>1. PICK c : c = CHOOSE d \in Conns : \E k \in 1..Len(queue[d]) : queue[d][k] = i
      OBVIOUS
    <3>2. c \in Conns /\ i \in Nat /\ queue[c] = <<i>> /\ Head(queue[c]) = i
      BY <2>1, <2>2, <3>1, TimedIs
    <3>3. queue' = [queue EXCEPT ![c] = Tail(@)] /\ ReplyDone(Head(queue[c]), "timeout")
      BY <1>9, <2>2, <3>1 DEF TimedOut
    <3>4. "timeout" \in Statuses
      BY DEF Statuses
    <3> QED
      BY <2>1, <2>2, <3>2, <3>3, <3>4, EndKeeps
  <2>3. CASE i \notin live
    <3>1. timer' = timer \ {i} /\ UNCHANGED <<queue, results, stack, live>>
      BY <1>9, <2>3 DEF TimedOut
    <3>2. Sent' = Sent
      BY <2>1 DEF Sent
    <3>3. Numbers' /\ Queues' /\ Ended' /\ Started'
      BY <2>1, <3>1, <3>2 DEF PoolInv, Numbers, Queues, Ended, Started
    <3>4. Living'
      BY <2>1, <3>1, <3>2 DEF PoolInv, Living
    <3> QED
      BY <3>3, <3>4 DEF PoolInv
  <2> QED
    BY <2>2, <2>3
<1> QED
  BY <1>2, <1>3, <1>4, <1>5, <1>6, <1>7, <1>8, <1>9 DEF Next

\* The invariant holds of every behaviour, whatever fails.
LEMMA PoolAlways == ASSUME Sane PROVE Spec => []PoolInv
<1>1. Init => PoolInv
  BY PoolInit
<1>2. PoolInv /\ [Next]_vars => PoolInv'
  BY PoolStep
<1> QED
  BY <1>1, <1>2, PTL DEF Spec

\* Counts of a set that has one element, or none.
LEMMA OneOrNone ==
  ASSUME NEW S, \A x, y \in S : x = y
  PROVE  /\ Cardinality(S) = IF S = {} THEN 0 ELSE 1
         /\ Cardinality(S) \in {0, 1}
<1>1. CASE S = {}
  BY <1>1, FS_EmptySet
<1>2. CASE S # {}
  <2>1. PICK x : S = {x}
    BY <1>2
  <2> QED
    BY <1>2, <2>1, FS_Singleton
<1> QED
  BY <1>1, <1>2

\* How often a call waits, and how often it has been called back.
LEMMA CountsAre ==
  ASSUME PoolInv, NEW i \in Nat
  PROVE  /\ Count(waiting, i) = IF i \in (Sent + 1)..made THEN 1 ELSE 0
         /\ Results(i) = IF \E k \in 1..Len(results) : results[k].call = i THEN 1 ELSE 0
         /\ (\E k \in 1..Len(results) : results[k].call = i) => i \in 1..Sent
<1>1. /\ made \in Nat /\ Len(waiting) \in Nat /\ Len(waiting) <= made
      /\ \A k \in 1..Len(waiting) : waiting[k] = Sent + k
      /\ Sent = made - Len(waiting)
  BY DEF PoolInv, Numbers, Sent
<1>2. Sent \in Nat
  BY <1>1
<1>3. Count(waiting, i) = IF i \in (Sent + 1)..made THEN 1 ELSE 0
  <2> DEFINE W == {k \in 1..Len(waiting) : waiting[k] = i}
  <2>1. W = IF i \in (Sent + 1)..made THEN {i - Sent} ELSE {}
    BY <1>1, <1>2
  <2>2. CASE i \in (Sent + 1)..made
    BY <2>1, <2>2, FS_Singleton DEF Count
  <2>3. CASE i \notin (Sent + 1)..made
    BY <2>1, <2>3, FS_EmptySet DEF Count
  <2> QED
    BY <2>2, <2>3
<1>4. Results(i) = IF \E k \in 1..Len(results) : results[k].call = i THEN 1 ELSE 0
  <2> DEFINE R == {k \in 1..Len(results) : results[k].call = i}
  <2>1. \A j, k \in R : j = k
    BY DEF PoolInv, Ended
  <2>2. R = {} <=> ~\E k \in 1..Len(results) : results[k].call = i
    OBVIOUS
  <2>3. Results(i) = Cardinality(R)
    BY DEF Results
  <2> HIDE DEF R
  <2>4. Cardinality(R) = IF R = {} THEN 0 ELSE 1
    BY <2>1, OneOrNone
  <2> QED
    BY <2>2, <2>3, <2>4
<1>5. (\E k \in 1..Len(results) : results[k].call = i) => i \in 1..Sent
  BY DEF PoolInv, Ended
<1> QED
  BY <1>3, <1>4, <1>5

\* Type correctness of the pool: for any number of calls and connections, whatever fails and
\* whenever the pool is freed, what evrpc_schedule_request(), the replies and the timers put
\* into the lists are calls that were made, and only connections of the pool have requests.
THEOREM PoolTyped == ASSUME Sane PROVE Spec => []TypeOK
<1>1. PoolInv => TypeOK
  <2> SUFFICES ASSUME PoolInv PROVE TypeOK
    OBVIOUS
  <2>1. PICK n \in Nat : n = Cardinality(Calls) /\ Calls = 1..n
    BY SaneIs
  <2>2. PICK m \in Nat : m = Cardinality(Conns) /\ Conns = 1..m
    BY SaneIs
  <2>3. /\ conns \in Nat /\ 1..conns \subseteq Conns /\ made \in Nat /\ 1..made \subseteq Calls
        /\ waiting \in Seq(Nat) /\ Len(waiting) \in Nat /\ Len(waiting) <= made
        /\ \A k \in 1..Len(waiting) : waiting[k] = Sent + k
        /\ Sent = made - Len(waiting)
    BY DEF PoolInv, Numbers, Sent
  <2>4. conns \in 0..Cardinality(Conns)
    <3>1. CASE conns = 0
      BY <2>2, <3>1
    <3>2. CASE conns # 0
      <4>1. conns \in 1..conns
        BY <2>3, <3>2
      <4>2. conns \in 1..m
        BY <2>2, <2>3, <4>1
      <4> QED
        BY <2>2, <2>3, <4>2
    <3> QED
      BY <3>1, <3>2
  <2>5. made \in 0..Cardinality(Calls)
    <3>1. CASE made = 0
      BY <2>1, <3>1
    <3>2. CASE made # 0
      <4>1. made \in 1..made
        BY <2>3, <3>2
      <4>2. made \in 1..n
        BY <2>1, <2>3, <4>1
      <4> QED
        BY <2>1, <2>3, <4>2
    <3> QED
      BY <3>1, <3>2
  <2>6. 1..Sent \subseteq Calls
    <3>1. 1..Sent \subseteq 1..made
      BY <2>3
    <3> QED
      BY <2>3, <3>1
  <2>7. waiting \in Seq(Calls)
    <3>1. \A k \in 1..Len(waiting) : waiting[k] \in 1..made
      BY <2>3
    <3>2. \A k \in 1..Len(waiting) : waiting[k] \in Calls
      BY <2>3, <3>1
    <3> QED
      BY <2>3, <3>2
  <2>8. /\ queue \in [Conns -> Seq(Calls)]
        /\ \A c \in Conns : queue[c] # <<>> => c <= conns
    <3>1. ASSUME NEW c \in Conns
          PROVE  queue[c] \in Seq(Calls) /\ (queue[c] # <<>> => c <= conns)
      <4>1. CASE queue[c] = <<>>
        BY <4>1
      <4>2. CASE queue[c] # <<>>
        <5>1. PICK i \in 1..Sent : queue[c] = <<i>>
          BY <4>2 DEF PoolInv, Queues
        <5>2. i \in Calls
          BY <2>6
        <5>3. c \in 1..conns
          BY <4>2 DEF PoolInv, Queues
        <5> QED
          BY <2>3, <5>1, <5>2, <5>3
      <4> QED
        BY <4>1, <4>2
    <3>2. queue \in [Conns -> Seq(Nat)]
      BY DEF PoolInv, Queues
    <3> QED
      BY <3>1, <3>2
  <2>9. timer \subseteq Calls /\ live \subseteq Calls /\ dead \subseteq 1..conns
    BY <2>3, <2>6 DEF PoolInv, Living
  <2> QED
    BY <2>4, <2>5, <2>7, <2>8, <2>9 DEF TypeOK
<1> QED
  BY <1>1, PoolAlways, PTL

\* Calls reach the connections in the order in which evrpc_make_request() made them, and a
\* connection of the pool never has two: also when callbacks make calls, hooks refuse them,
\* requests cannot be made, and connections are added while calls wait.
THEOREM InOrder == ASSUME Sane PROVE Spec => []SentInOrder
<1>1. PoolInv => SentInOrder
  <2> SUFFICES ASSUME PoolInv PROVE SentInOrder
    OBVIOUS
  <2>1. ASSUME NEW c \in Conns PROVE Len(queue[c]) <= 1
    <3>1. CASE queue[c] = <<>>
      BY <3>1
    <3>2. CASE queue[c] # <<>>
      <4>1. PICK i \in Nat : queue[c] = <<i>>
        BY <3>2, OnConnection
      <4> QED
        BY <4>1
    <3> QED
      BY <3>1, <3>2
  <2> QED
    BY <2>1 DEF PoolInv, Started, SentInOrder
<1> QED
  BY <1>1, PoolAlways, PTL

\* The callback of a call runs once at most, and never while evrpc_pool_schedule() can still
\* send the call: whatever fails, whichever timer expires, and also when the pool is freed.
THEOREM CalledOnce == ASSUME Sane PROVE Spec => []NeverTwice
<1>1. PoolInv => NeverTwice
  <2> SUFFICES ASSUME PoolInv, NEW i \in 1..made PROVE Results(i) + Count(waiting, i) <= 1
    BY DEF NeverTwice
  <2>1. made \in Nat /\ Sent \in Int
    BY DEF PoolInv, Numbers, Sent
  <2>2. i \in Nat
    BY <2>1
  <2>3. PICK R : R <=> \E k \in 1..Len(results) : results[k].call = i
    OBVIOUS
  <2>4. /\ Count(waiting, i) = IF i \in (Sent + 1)..made THEN 1 ELSE 0
        /\ Results(i) = IF R THEN 1 ELSE 0
        /\ R => i \in 1..Sent
    BY <2>2, <2>3, CountsAre
  <2> QED
    BY <2>1, <2>2, <2>4
<1> QED
  BY <1>1, PoolAlways, PTL

-----------------------------------------------------------------------------
(***************************************************************************)
(* Where no hook refuses a call, every request can be made and the pool is *)
(* not freed: every call is somewhere, with its timer.                     *)
(***************************************************************************)
Faultless == ~HookFails /\ ~FailsNow /\ ~FreesPool

Held(i) == \E c \in Conns : queue[c] = <<i>>
Back(i) == \E k \in 1..Len(results) : results[k].call = i

\* A call that was sent is on a connection or has been called back; its timer runs as long as
\* it is on the connection.
Kept == /\ dead = {}
        /\ \A i \in 1..Sent : Held(i) \/ Back(i)
        /\ Timeout => timer = {i \in 1..Sent : Held(i)}

\* While a call waits and a connection has nothing to do, evrpc_pool_schedule() is about to
\* run, and to leave no such pair: there is but one call, or but one connection.
Sched == waiting # <<>> /\ Idle # {} =>
           /\ \E k \in 1..Len(stack) : stack[k].f = "schedule"
           /\ \/ Len(waiting) = 1 /\ stack[1].f = "schedule"
              \/ \E c \in Conns : Idle = {c}

GoodInv == PoolInv /\ Kept /\ Sched

\* A call is sent: it is on its connection, with its timer.
LEMMA SentKept ==
  ASSUME Sane, Faultless, PoolInv, Kept, waiting # <<>>, waiting' = Tail(waiting), made' = made,
         NEW c \in Conns, queue[c] = <<>>, NEW rest,
         ScheduleRequest(c, Head(waiting), rest)
  PROVE  /\ Kept' /\ stack' = rest
         /\ \A d \in Conns : queue'[d] = <<>> <=> queue[d] = <<>> /\ d # c
<1>1. PICK i \in Nat : i = Head(waiting)
  BY TakenIs DEF PoolInv
<1>2. i = Sent + 1 /\ Sent' = i /\ Sent \in Nat
  BY <1>1, TakenIs DEF PoolInv
<1>3. /\ queue' = [queue EXCEPT ![c] = Append(@, i)]
      /\ timer' = IF Timeout THEN timer \cup {i} ELSE timer
      /\ stack' = rest
      /\ UNCHANGED <<results, live, dead>>
  BY <1>1 DEF ScheduleRequest, Faultless
<1>4. queue \in [Conns -> Seq(Nat)] /\ Append(queue[c], i) = <<i>>
  BY DEF PoolInv, Queues
<1>5. \A d \in Conns : queue'[d] = IF d = c THEN <<i>> ELSE queue[d]
  BY <1>3, <1>4
<1>6. \A j \in 1..Sent' : j \in 1..Sent \/ j = i
  BY <1>2
<1>7. 1..Sent \subseteq 1..Sent' /\ i \in 1..Sent' /\ i \notin 1..Sent
  BY <1>2
<1>8. \A j \in 1..Sent : Held(j)' <=> Held(j)
  <2>1. ASSUME NEW j \in 1..Sent PROVE Held(j)' <=> Held(j)
    <3>1. <<i>> # <<j>> /\ <<j>> # <<>>
      BY <1>7
    <3> QED
      BY <1>5, <3>1 DEF Held
  <2> QED
    BY <2>1
<1>9. Held(i)'
  BY <1>5 DEF Held
<1>10. \A j : Back(j)' <=> Back(j)
  BY <1>3 DEF Back
<1>11. /\ dead = {} /\ \A j \in 1..Sent : Held(j) \/ Back(j)
       /\ Timeout => timer = {j \in 1..Sent : Held(j)}
  BY DEF Kept
<1>12. dead' = {} /\ \A j \in 1..Sent' : Held(j)' \/ Back(j)'
  BY <1>3, <1>6, <1>8, <1>9, <1>10, <1>11
<1>13. ASSUME Timeout PROVE timer' = {j \in 1..Sent' : Held(j)'}
  <2>1. timer' = timer \cup {i} /\ timer = {j \in 1..Sent : Held(j)}
    BY <1>3, <1>11, <1>13
  <2> QED
    BY <1>6, <1>7, <1>8, <1>9, <2>1
<1>14. Kept'
  BY <1>12, <1>13 DEF Kept
<1>15. \A d \in Conns : queue'[d] = <<>> <=> queue[d] = <<>> /\ d # c
  BY <1>5
<1> QED
  BY <1>3, <1>14, <1>15

\* A call ends: its timer is stopped, and its connection has nothing to do.
LEMMA EndKept ==
  ASSUME PoolInv, Kept, NEW c \in Conns, NEW i \in Nat, queue[c] = <<i>>,
         NEW status \in Statuses, queue' = [queue EXCEPT ![c] = Tail(@)], ReplyDone(i, status),
         UNCHANGED <<waiting, dead, made>>
  PROVE  /\ Kept'
         /\ \A d \in Conns : queue'[d] = <<>> <=> queue[d] = <<>> \/ d = c
<1>1. Sent' = Sent /\ queue \in [Conns -> Seq(Nat)]
  BY DEF PoolInv, Queues, Sent
<1>2. Tail(queue[c]) = <<>>
  OBVIOUS
<1>3. \A d \in Conns : queue'[d] = IF d = c THEN <<>> ELSE queue[d]
  BY <1>1, <1>2
<1>4. timer' = timer \ {i} /\ results' = Append(results, [call |-> i, status |-> status])
  BY DEF ReplyDone, ReplyTimer, CallBack
<1>5. \A j \in Nat : Held(j)' <=> Held(j) /\ j # i
  <2>1. ASSUME NEW j \in Nat, Held(j)' PROVE Held(j) /\ j # i
    <3>1. PICK d \in Conns : queue'[d] = <<j>>
      BY <2>1 DEF Held
    <3>2. d # c /\ queue[d] = <<j>>
      BY <1>3, <3>1
    <3>3. j # i
      <4>1. queue[d] # <<>>
        BY <3>2
      <4> QED
        BY <3>2, <4>1 DEF PoolInv, Queues
    <3> QED
      BY <3>2, <3>3 DEF Held
  <2>2. ASSUME NEW j \in Nat, Held(j), j # i PROVE Held(j)'
    <3>1. PICK d \in Conns : queue[d] = <<j>>
      BY <2>2 DEF Held
    <3>2. d # c
      BY <2>2, <3>1
    <3> QED
      BY <1>3, <3>1, <3>2 DEF Held
  <2> QED
    BY <2>1, <2>2
<1>6. \A j \in Nat : Back(j) \/ j = i => Back(j)'
  <2>1. /\ results \in Seq([call : Nat, status : Statuses]) /\ Len(results) \in Nat
        /\ [call |-> i, status |-> status] \in [call : Nat, status : Statuses]
    BY DEF PoolInv, Ended
  <2>2. /\ Len(results') = Len(results) + 1 /\ results'[Len(results) + 1].call = i
        /\ \A k \in 1..Len(results) : results'[k] = results[k]
    BY <1>4, <2>1
  <2>3. Len(results) + 1 \in 1..Len(results') /\ 1..Len(results) \subseteq 1..Len(results')
    BY <2>1, <2>2
  <2> QED
    BY <2>2, <2>3 DEF Back
<1>7. 1..Sent \subseteq Nat
  BY DEF PoolInv, Numbers, Sent
<1>8. /\ dead = {} /\ \A j \in 1..Sent : Held(j) \/ Back(j)
      /\ Timeout => timer = {j \in 1..Sent : Held(j)}
  BY DEF Kept
<1>9. dead' = {} /\ \A j \in 1..Sent' : Held(j)' \/ Back(j)'
  BY <1>1, <1>5, <1>6, <1>7, <1>8
<1>10. ASSUME Timeout PROVE timer' = {j \in 1..Sent' : Held(j)'}
  BY <1>1, <1>4, <1>5, <1>7, <1>8, <1>10
<1>11. Kept'
  BY <1>9, <1>10 DEF Kept
<1>12. \A d \in Conns : queue'[d] = <<>> <=> queue[d] = <<>> \/ d = c
  BY <1>3
<1> QED
  BY <1>11, <1>12

\* A reply frees a connection and runs evrpc_pool_schedule() after the callback.
LEMMA EndSched ==
  ASSUME PoolInv, Sched, ~Running, NEW c \in Conns, queue[c] # <<>>, NEW i, NEW status,
         ReplyDone(i, status), UNCHANGED <<conns, waiting>>,
         \A d \in Conns : queue'[d] = <<>> <=> queue[d] = <<>> \/ d = c
  PROVE  Sched'
<1>1. stack' = <<[f |-> "cb", call |-> i]>> \o <<[f |-> "schedule", call |-> 0]>>
  BY DEF ReplyDone, CallBack
<1>2. \E k \in 1..Len(stack') : stack'[k].f = "schedule"
  <2>1. PICK a : a = [f |-> "cb", call |-> i]
    OBVIOUS
  <2>2. PICK b : b = [f |-> "schedule", call |-> 0]
    OBVIOUS
  <2>3. Len(<<a>> \o <<b>>) = 2 /\ (<<a>> \o <<b>>)[2] = b
    OBVIOUS
  <2>4. 2 \in 1..Len(stack') /\ stack'[2].f = "schedule"
    BY <1>1, <2>1, <2>2, <2>3
  <2> QED
    BY <2>4
<1>3. ASSUME waiting # <<>> PROVE Idle' = {c}
  <2>1. stack = <<>>
    BY DEF Running
  <2>2. Idle = {}
    <3>1. ~\E k \in 1..Len(stack) : stack[k].f = "schedule"
      BY <2>1
    <3> QED
      BY <1>3, <3>1 DEF Sched
  <2>3. c \in 1..conns /\ 1..conns \subseteq Conns
    BY DEF PoolInv, Queues, Numbers
  <2>4. \A d \in 1..conns : queue[d] # <<>>
    BY <2>2 DEF Idle
  <2> QED
    BY <2>3, <2>4 DEF Idle
<1> QED
  BY <1>2, <1>3 DEF Sched

\* Every step of a pool in which nothing fails.
LEMMA GoodStep == Sane /\ Faultless /\ GoodInv /\ [Next]_vars => GoodInv'
<1> SUFFICES ASSUME Sane, Faultless, GoodInv, [Next]_vars PROVE GoodInv'
  OBVIOUS
<1>1. PoolInv /\ Kept /\ Sched
  BY DEF GoodInv
<1>2. PoolInv'
  BY <1>1, PoolStep
<1>3. /\ conns \in Nat /\ 1..conns \subseteq Conns /\ waiting \in Seq(Nat) /\ Len(waiting) \in Nat
      /\ stack \in Frames /\ Len(stack) \in Nat /\ made \in Nat
  BY <1>1 DEF PoolInv, Numbers, Frames
<1>4. CASE UNCHANGED vars
  <2>1. /\ Sent' = Sent /\ Idle' = Idle /\ waiting' = waiting /\ stack' = stack /\ dead' = dead
        /\ timer' = timer /\ queue' = queue /\ results' = results
    BY <1>4 DEF vars, Sent, Idle
  <2>2. Kept'
    BY <1>1, <2>1 DEF Kept, Held, Back
  <2>3. Sched'
    BY <1>1, <2>1 DEF Sched
  <2> QED
    BY <1>2, <2>2, <2>3 DEF GoodInv
<1>5. ASSUME queue' = queue, results' = results, dead' = dead, timer' = timer, Sent' = Sent
      PROVE  Kept'
  BY <1>1, <1>5 DEF Kept, Held, Back
<1>6. CASE Schedule
  <2>1. Running /\ Top.f = "schedule" /\ UNCHANGED <<conns, made>>
    BY <1>6 DEF Schedule
  <2>2. CASE /\ waiting = <<>> \/ Idle = {}
             /\ UNCHANGED <<waiting, queue, dead, timer, started, results, live>>
    <3>1. Sent' = Sent /\ Idle' = Idle
      BY <2>1, <2>2 DEF Sent, Idle
    <3>2. Kept'
      BY <1>5, <2>2, <3>1
    <3>3. Sched'
      BY <2>2, <3>1 DEF Sched
    <3> QED
      BY <1>2, <3>2, <3>3 DEF GoodInv
  <2>3. CASE /\ waiting # <<>> /\ Idle # {} /\ waiting' = Tail(waiting)
             /\ ScheduleRequest(FindConnection, Head(waiting), Tail(stack))
    <3>1. PICK c : c = FindConnection
      OBVIOUS
    <3>2. c \in 1..conns /\ queue[c] = <<>> /\ c \in Idle /\ c \in Conns
      BY <1>3, <2>3, <3>1, FindIs
    <3>3. ScheduleRequest(c, Head(waiting), Tail(stack))
      BY <2>3, <3>1
    <3>4. /\ Kept'
          /\ \A d \in Conns : queue'[d] = <<>> <=> queue[d] = <<>> /\ d # c
      BY <1>1, <2>1, <2>3, <3>2, <3>3, SentKept
    <3>5. Idle' = Idle \ {c}
      BY <1>3, <2>1, <3>4 DEF Idle
    <3>6. CASE Len(waiting) = 1
      <4>1. waiting' = <<>>
        BY <1>3, <2>3, <3>6
      <4> QED
        BY <1>2, <3>4, <4>1 DEF GoodInv, Sched
    <3>7. CASE \E d \in Conns : Idle = {d}
      <4>1. Idle' = {}
        BY <3>2, <3>5, <3>7
      <4> QED
        BY <1>2, <3>4, <4>1 DEF GoodInv, Sched
    <3> QED
      BY <1>1, <2>3, <3>6, <3>7 DEF Sched
  <2> QED
    BY <1>6, <2>2, <2>3 DEF Schedule
<1>7. CASE MakeRequest
  <2>1. /\ waiting' = Append(waiting, made + 1) /\ made' = made + 1
        /\ stack' = <<[f |-> "schedule", call |-> 0]>> \o stack
        /\ UNCHANGED <<conns, queue, dead, timer, results>>
        /\ InProgram
    BY <1>7 DEF MakeRequest
  <2>2. Sent' = Sent /\ Idle' = Idle /\ Len(waiting') = Len(waiting) + 1
    <3>1. Len(waiting') = Len(waiting) + 1
      BY <1>3, <2>1
    <3> QED
      BY <1>3, <2>1, <3>1 DEF Sent, Idle
  <2>3. Kept'
    BY <1>5, <2>1, <2>2
  <2>4. stack'[1].f = "schedule" /\ 1 \in 1..Len(stack')
    <3>1. [f |-> "schedule", call |-> 0] \in [f : {"schedule", "cb"}, call : Nat]
      OBVIOUS
    <3>2. <<[f |-> "schedule", call |-> 0]>> \in Frames
      BY <3>1 DEF Frames
    <3>3. stack'[1] = [f |-> "schedule", call |-> 0] /\ Len(stack') = Len(stack) + 1
      BY <1>3, <2>1, <3>2 DEF Frames
    <3> QED
      BY <1>3, <3>3
  <2>5. CASE waiting = <<>>
    <3>1. Len(waiting') = 1
      BY <2>2, <2>5
    <3> QED
      BY <1>2, <2>3, <2>4, <3>1 DEF GoodInv, Sched
  <2>6. CASE waiting # <<>>
    <3>1. ASSUME Idle # {} PROVE \E c \in Conns : Idle = {c}
      <4>1. PICK k \in 1..Len(stack) : stack[k].f = "schedule"
        BY <1>1, <2>6, <3>1 DEF Sched
      <4>2. stack # <<>>
        BY <1>3, <4>1
      <4>3. stack[1].f = "cb"
        BY <2>1, <4>2 DEF InProgram, Running, Top
      <4> QED
        BY <1>1, <2>6, <3>1, <4>3 DEF Sched
    <3>2. Sched'
      BY <2>2, <2>4, <3>1 DEF Sched
    <3> QED
      BY <1>2, <2>3, <3>2 DEF GoodInv
  <2> QED
    BY <2>5, <2>6
<1>8. CASE Return
  <2>1. /\ stack # <<>> /\ stack[1].f = "cb" /\ stack' = Tail(stack)
        /\ UNCHANGED <<conns, waiting, queue, dead, timer, made, results>>
    BY <1>8 DEF Return, Running, Top
  <2>2. Sent' = Sent /\ Idle' = Idle
    BY <2>1 DEF Sent, Idle
  <2>3. Kept'
    BY <1>5, <2>1, <2>2
  <2>4. ASSUME NEW k \in 1..Len(stack), stack[k].f = "schedule"
        PROVE  \E j \in 1..Len(stack') : stack'[j].f = "schedule"
    <3>1. k # 1
      BY <2>1, <2>4
    <3>2. Len(stack') = Len(stack) - 1 /\ k - 1 \in 1..Len(stack')
      BY <1>3, <2>1, <3>1 DEF Frames
    <3>3. stack'[k - 1] = stack[k]
      BY <1>3, <2>1, <3>2 DEF Frames
    <3> QED
      BY <2>4, <3>2, <3>3
  <2>5. Sched'
    BY <1>1, <2>1, <2>2, <2>4 DEF Sched
  <2> QED
    BY <1>2, <2>3, <2>5 DEF GoodInv
<1>9. CASE AddConnection
  <2>1. /\ conns' = conns + 1 /\ made' = made /\ conns + 1 \in Conns /\ InProgram
    BY <1>9 DEF AddConnection
  <2>2. CASE waiting = <<>> /\ UNCHANGED <<waiting, queue, dead, timer, started, results, live, stack>>
    <3>1. Sent' = Sent
      BY <2>1, <2>2 DEF Sent
    <3>2. Kept'
      BY <1>5, <2>2, <3>1
    <3>3. Sched'
      BY <2>2 DEF Sched
    <3> QED
      BY <1>2, <3>2, <3>3 DEF GoodInv
  <2>3. CASE /\ waiting # <<>> /\ waiting' = Tail(waiting)
             /\ ScheduleRequest(conns + 1, Head(waiting), stack)
    <3>1. PICK c : c = conns + 1
      OBVIOUS
    <3>2. c \notin 1..conns /\ c \in Conns /\ 1..conns' = 1..conns \cup {c}
      BY <1>3, <2>1, <3>1
    <3>3. queue[c] = <<>>
      BY <1>1, <3>2 DEF PoolInv, Queues
    <3>4. ScheduleRequest(c, Head(waiting), stack)
      BY <2>3, <3>1
    <3>5. /\ Kept' /\ stack' = stack
          /\ \A d \in Conns : queue'[d] = <<>> <=> queue[d] = <<>> /\ d # c
      BY <1>1, <2>1, <2>3, <3>2, <3>3, <3>4, SentKept
    <3>6. Idle' = Idle
      BY <1>3, <3>2, <3>5 DEF Idle
    <3>7. ASSUME Idle # {}
          PROVE  /\ \E k \in 1..Len(stack) : stack[k].f = "schedule"
                 /\ \E d \in Conns : Idle = {d}
      <4>1. PICK k \in 1..Len(stack) : stack[k].f = "schedule"
        BY <1>1, <2>3, <3>7 DEF Sched
      <4>2. stack # <<>>
        BY <1>3, <4>1
      <4>3. stack[1].f = "cb"
        BY <2>1, <4>2 DEF InProgram, Running, Top
      <4> QED
        BY <1>1, <2>3, <3>7, <4>1, <4>3 DEF Sched
    <3>8. Sched'
      BY <3>5, <3>6, <3>7 DEF Sched
    <3> QED
      BY <1>2, <3>5, <3>8 DEF GoodInv
  <2> QED
    BY <1>9, <2>2, <2>3 DEF AddConnection
<1>10. CASE PoolFree
  BY <1>10 DEF PoolFree, Faultless
<1>11. ASSUME NEW c \in Conns, Answer(c) PROVE GoodInv'
  <2>1. /\ ~Running /\ queue[c] # <<>> /\ queue' = [queue EXCEPT ![c] = Tail(@)]
        /\ \E status \in {"none", "hookaborted", "badpayload", "timeout"} :
             ReplyDone(Head(queue[c]), status)
        /\ UNCHANGED <<conns, waiting, dead, made>>
    BY <1>11 DEF Answer
  <2>2. PICK i \in Nat : queue[c] = <<i>> /\ Head(queue[c]) = i
    BY <1>1, <2>1, OnConnection
  <2>3. PICK status \in Statuses : ReplyDone(i, status)
    BY <2>1, <2>2 DEF Statuses
  <2>4. Kept' /\ \A d \in Conns : queue'[d] = <<>> <=> queue[d] = <<>> \/ d = c
    BY <1>1, <2>1, <2>2, <2>3, EndKept
  <2>5. Sched'
    BY <1>1, <2>1, <2>3, <2>4, EndSched
  <2> QED
    BY <1>2, <2>4, <2>5 DEF GoodInv
<1>12. ASSUME NEW i \in Calls, TimedOut(i) PROVE GoodInv'
  <2>1. ~Running /\ i \in timer /\ UNCHANGED <<conns, waiting, dead, made>>
    BY <1>12 DEF TimedOut
  <2>2. CASE i \in live
    <3>1. PICK c : c = CHOOSE d \in Conns : \E k \in 1..Len(queue[d]) : queue[d][k] = i
      OBVIOUS
    <3>2. c \in Conns /\ i \in Nat /\ queue[c] = <<i>> /\ Head(queue[c]) = i
      BY <1>1, <2>1, <2>2, <3>1, TimedIs
    <3>3. queue' = [queue EXCEPT ![c] = Tail(@)] /\ ReplyDone(i, "timeout")
      BY <1>12, <2>2, <3>1, <3>2 DEF TimedOut
    <3>4. "timeout" \in Statuses /\ queue[c] # <<>>
      BY <3>2 DEF Statuses
    <3>5. Kept' /\ \A d \in Conns : queue'[d] = <<>> <=> queue[d] = <<>> \/ d = c
      BY <1>1, <2>1, <3>2, <3>3, <3>4, EndKept
    <3>6. Sched'
      BY <1>1, <2>1, <3>2, <3>3, <3>4, <3>5, EndSched
    <3> QED
      BY <1>2, <3>5, <3>6 DEF GoodInv
  <2>3. CASE i \notin live
    <3>1. timer' = timer \ {i} /\ UNCHANGED <<queue, results, stack, live>>
      BY <1>12, <2>3 DEF TimedOut
    <3>2. Sent' = Sent /\ Idle' = Idle
      BY <2>1, <3>1 DEF Sent, Idle
    <3>3. i \in 1..Sent /\ 1..Sent \subseteq Nat
      BY <1>1, <2>1 DEF PoolInv, Living, Numbers, Sent
    <3>4. ~Held(i)
      <4>1. ASSUME NEW c \in Conns, queue[c] = <<i>> PROVE FALSE
        BY <1>1, <2>3, <3>3, <4>1 DEF PoolInv, Living, Kept
      <4> QED
        BY <4>1 DEF Held
    <3>5. ~Timeout
      BY <1>1, <2>1, <3>4 DEF Kept
    <3>6. Kept'
      BY <1>1, <2>1, <3>1, <3>2, <3>5 DEF Kept, Held, Back
    <3>7. Sched'
      BY <1>1, <2>1, <3>1, <3>2 DEF Sched
    <3> QED
      BY <1>2, <3>6, <3>7 DEF GoodInv
  <2> QED
    BY <2>2, <2>3
<1> QED
  BY <1>4, <1>6, <1>7, <1>8, <1>9, <1>10, <1>11, <1>12 DEF Next

LEMMA GoodAlways == ASSUME Sane, Faultless PROVE Spec => []GoodInv
<1>1. Init => GoodInv
  <2> SUFFICES ASSUME Init PROVE GoodInv
    OBVIOUS
  <2>1. PoolInv
    BY PoolInit
  <2>5. made = 0 /\ Len(waiting) = 0
    BY DEF Init
  <2>2. Sent = 0
    BY <2>5 DEF Sent
  <2>3. 1..Sent = {}
    BY <2>2
  <2>4. Kept /\ Sched
    BY <2>3 DEF Init, Kept, Sched
  <2> QED
    BY <2>1, <2>4 DEF GoodInv
<1>2. GoodInv /\ [Next]_vars => GoodInv'
  BY GoodStep
<1> QED
  BY <1>1, <1>2, PTL DEF Spec

\* A call is counted in the queue of the connection that holds it.
LEMMA CountHeld ==
  ASSUME PoolInv, NEW c \in Conns, NEW i \in Nat
  PROVE  Count(queue[c], i) > 0 <=> queue[c] = <<i>>
<1> DEFINE S == {k \in 1..Len(queue[c]) : queue[c][k] = i}
<1>1. CASE queue[c] = <<>>
  <2>1. Len(queue[c]) = 0
    BY <1>1
  <2>2. S = {}
    BY <2>1
  <2>3. Count(queue[c], i) = 0
    BY <2>2, FS_EmptySet DEF Count
  <2> QED
    BY <1>1, <2>3
<1>2. CASE queue[c] # <<>>
  <2>1. PICK n \in Nat : queue[c] = <<n>>
    BY <1>2, OnConnection
  <2>2. Len(queue[c]) = 1 /\ queue[c][1] = n
    BY <2>1
  <2>3. S = IF n = i THEN {1} ELSE {}
    BY <2>2
  <2>4. CASE n = i
    <3>1. Count(queue[c], i) = 1
      BY <2>3, <2>4, FS_Singleton DEF Count
    <3> QED
      BY <2>1, <2>4, <3>1
  <2>5. CASE n # i
    <3>1. Count(queue[c], i) = 0
      BY <2>3, <2>5, FS_EmptySet DEF Count
    <3>2. <<n>> # <<i>>
      BY <2>5
    <3> QED
      BY <2>1, <3>1, <3>2
  <2> QED
    BY <2>4, <2>5
<1> QED
  BY <1>1, <1>2

\* Where no hook refuses a call and every request can be made, no call is lost and none is
\* doubled: it waits in the pool, is on one connection, or its callback ran, once.
THEOREM InOnePlace == ASSUME Sane, Faultless PROVE Spec => []OnePlace
<1>1. GoodInv => OnePlace
  <2> SUFFICES ASSUME GoodInv, NEW i \in 1..made
               PROVE  Count(waiting, i) + Results(i)
                        + Cardinality({c \in Conns : Count(queue[c], i) > 0}) = 1
    BY DEF OnePlace
  <2>1. PoolInv /\ Kept
    BY DEF GoodInv
  <2>2. made \in Nat /\ Sent \in Int /\ i \in Nat
    BY <2>1 DEF PoolInv, Numbers, Sent
  <2>3. /\ Count(waiting, i) = IF i \in (Sent + 1)..made THEN 1 ELSE 0
        /\ Results(i) = IF Back(i) THEN 1 ELSE 0
        /\ Back(i) => i \in 1..Sent
    BY <2>1, <2>2, CountsAre DEF Back
  <2> DEFINE S == {c \in Conns : Count(queue[c], i) > 0}
  <2>4. S = {c \in Conns : queue[c] = <<i>>}
    BY <2>1, <2>2, CountHeld
  <2>5. \A c, d \in S : c = d
    <3>1. ASSUME NEW c \in Conns, NEW d \in Conns, queue[c] = <<i>>, queue[d] = <<i>> PROVE c = d
      <4>1. queue[c] # <<>>
        BY <3>1
      <4> QED
        BY <2>1, <3>1, <4>1 DEF PoolInv, Queues
    <3> QED
      BY <2>4, <3>1
  <2>6. S # {} <=> Held(i)
    BY <2>4 DEF Held
  <2> HIDE DEF S
  <2>7. Cardinality(S) = IF Held(i) THEN 1 ELSE 0
    BY <2>5, <2>6, OneOrNone
  <2>8. Held(i) => i \in 1..Sent /\ ~Back(i)
    <3>1. ASSUME Held(i) PROVE i \in 1..Sent /\ ~Back(i)
      <4>1. PICK c \in Conns : queue[c] = <<i>>
        BY <3>1 DEF Held
      <4>2. queue[c] # <<>>
        BY <4>1
      <4>3. PICK n \in 1..Sent : queue[c] = <<n>>
        BY <2>1, <4>2 DEF PoolInv, Queues
      <4>4. n = i
        BY <4>1, <4>3
      <4>5. i \in live
        BY <2>1, <2>2, <4>1 DEF Kept, PoolInv, Living
      <4>6. ~Back(i)
        BY <2>1, <4>5 DEF Back, PoolInv, Ended
      <4> QED
        BY <4>4, <4>6
    <3> QED
      BY <3>1
  <2>9. i \in 1..Sent => Held(i) \/ Back(i)
    BY <2>1 DEF Kept
  <2>10. i \in 1..Sent <=> i \notin (Sent + 1)..made
    BY <2>2
  <2>11. CASE i \in 1..Sent
    <3>1. Count(waiting, i) = 0
      BY <2>3, <2>10, <2>11
    <3>2. CASE Held(i)
      BY <2>3, <2>7, <2>8, <3>1, <3>2 DEF S
    <3>3. CASE ~Held(i)
      BY <2>3, <2>7, <2>9, <2>11, <3>1, <3>3 DEF S
    <3> QED
      BY <3>2, <3>3
  <2>12. CASE i \notin 1..Sent
    <3>1. Count(waiting, i) = 1 /\ Results(i) = 0 /\ Cardinality(S) = 0
      BY <2>3, <2>7, <2>8, <2>10, <2>12
    <3> QED
      BY <3>1 DEF S
  <2> QED
    BY <2>11, <2>12
<1> QED
  BY <1>1, GoodAlways, PTL

\* A timer runs for exactly the calls that are on a connection: event_del() in
\* evrpc_reply_done() leaves none behind, and evrpc_request_timeout() ends its own request.
THEOREM OwnTimers == ASSUME Sane, Faultless PROVE Spec => []TimersExact
<1>1. GoodInv => TimersExact
  <2> SUFFICES ASSUME GoodInv, Timeout
               PROVE  timer = {i \in Calls : \E c \in Conns : Count(queue[c], i) > 0}
    BY DEF TimersExact
  <2>1. PoolInv /\ timer = {i \in 1..Sent : Held(i)}
    BY DEF GoodInv, Kept
  <2>2. /\ made \in Nat /\ Len(waiting) \in Nat /\ 1..made \subseteq Calls
        /\ Sent = made - Len(waiting)
    BY <2>1 DEF PoolInv, Numbers, Sent
  <2>3. 1..Sent \subseteq Calls
    <3>1. 1..Sent \subseteq 1..made
      BY <2>2
    <3> QED
      BY <2>2, <3>1
  <2>4. Calls \subseteq Nat
    BY SaneIs
  <2>5. \A i \in Calls : (\E c \in Conns : Count(queue[c], i) > 0) <=> Held(i)
    BY <2>1, <2>4, CountHeld DEF Held
  <2>6. ASSUME NEW i \in Calls, Held(i) PROVE i \in 1..Sent
    <3>1. PICK c \in Conns : queue[c] = <<i>>
      BY <2>6 DEF Held
    <3>2. queue[c] # <<>>
      BY <3>1
    <3>3. PICK n \in 1..Sent : queue[c] = <<n>>
      BY <2>1, <3>2 DEF PoolInv, Queues
    <3> QED
      BY <3>1, <3>3
  <2> QED
    BY <2>1, <2>3, <2>5, <2>6
<1> QED
  BY <1>1, GoodAlways, PTL

\* When no function of the pool runs, no call waits while a connection has nothing to do:
\* evrpc_pool_schedule() takes one call only, and one is always enough.
THEOREM ConnectionsBusy == ASSUME Sane, Faultless PROVE Spec => []NoIdleConnection
<1>1. GoodInv => NoIdleConnection
  <2> SUFFICES ASSUME GoodInv, ~Running, waiting # <<>> PROVE Idle = {}
    BY DEF NoIdleConnection
  <2>1. stack = <<>>
    BY DEF Running
  <2>2. ~\E k \in 1..Len(stack) : stack[k].f = "schedule"
    BY <2>1
  <2> QED
    BY <2>2 DEF GoodInv, Sched
<1> QED
  BY <1>1, GoodAlways, PTL

\* Nothing is used after it was freed: a timer that expires finds its context.
THEOREM ContextsThere == ASSUME Sane, Faultless PROVE Spec => []NoFreedContext
<1> DEFINE Unhurt == ~wrong /\ (~Timeout => timer = {})
<1>1. Init => Unhurt
  BY DEF Init
<1>2. GoodInv /\ Unhurt /\ [Next]_vars => Unhurt'
  <2> SUFFICES ASSUME GoodInv, Unhurt, [Next]_vars PROVE Unhurt'
    OBVIOUS
  <2>1. ASSUME NEW c, NEW i, NEW rest, ScheduleRequest(c, i, rest) PROVE ~Timeout => timer' = {}
    BY <2>1 DEF ScheduleRequest
  <2>2. CASE Schedule
    <3>1. wrong' = wrong
      BY <2>2 DEF Schedule
    <3>2. timer' = timer \/ ScheduleRequest(FindConnection, Head(waiting), Tail(stack))
      BY <2>2 DEF Schedule
    <3> QED
      BY <2>1, <3>1, <3>2
  <2>3. CASE AddConnection
    <3>1. wrong' = wrong
      BY <2>3 DEF AddConnection
    <3>2. timer' = timer \/ ScheduleRequest(conns + 1, Head(waiting), stack)
      BY <2>3 DEF AddConnection
    <3> QED
      BY <2>1, <3>1, <3>2
  <2>4. CASE MakeRequest \/ Return \/ PoolFree \/ UNCHANGED vars
    BY <2>4 DEF MakeRequest, Return, PoolFree, vars
  <2>5. ASSUME NEW c \in Conns, Answer(c) PROVE Unhurt'
    BY <2>5 DEF Answer, ReplyDone, ReplyTimer
  <2>6. ASSUME NEW i \in Calls, TimedOut(i) PROVE Unhurt'
    <3>1. i \in timer /\ Timeout
      BY <2>6 DEF TimedOut
    <3>2. PoolInv /\ Kept /\ i \in 1..Sent /\ Held(i)
      BY <3>1 DEF GoodInv, Kept
    <3>3. PICK c \in Conns : queue[c] = <<i>>
      BY <3>2 DEF Held
    <3>4. i \in Nat
      BY <3>2 DEF PoolInv, Numbers, Sent
    <3>5. i \in live
      BY <3>2, <3>3, <3>4 DEF PoolInv, Living, Kept
    <3>6. wrong' = wrong
      BY <2>6, <3>5 DEF TimedOut
    <3> QED
      BY <3>1, <3>6
  <2> QED
    BY <2>2, <2>3, <2>4, <2>5, <2>6 DEF Next
<1>3. Unhurt => NoFreedContext
  BY DEF NoFreedContext
<1> HIDE DEF Unhurt
<1> QED
  BY <1>1, <1>2, <1>3, GoodAlways, PTL DEF Spec
=============================================================================
