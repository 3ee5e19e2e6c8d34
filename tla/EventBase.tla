------------------------------ MODULE EventBase ------------------------------
(***************************************************************************)
(* An event base and its loop (contrib/libevent/event.c).  The variable    *)
(* base holds the lists of struct event_base and the fields of the events; *)
(* an operator on it is a function of the code.  pc is where the thread is *)
(* inside event_base_loop(): at "out" and "cb" it runs the code of the     *)
(* program, which may call any function of the interface.                  *)
(***************************************************************************)
EXTENDS Integers, Sequences, FiniteSets, SequencesExt

CONSTANTS Events,      \* the events of the program
          Io,          \* those with EV_READ, EV_WRITE or EV_SIGNAL
          Signals,     \* those of Io with EV_SIGNAL, called several times
          Persist,     \* those with EV_PERSIST
          Exit,        \* the event of event_base_loopexit()
          Pushed,      \* those the program gives to event_active()
          NPri,        \* base->nactivequeues
          Pri,         \* ev_pri, a function on Events
          Delays,      \* the timeouts that event_add() is given
          MaxTime,     \* bound: the clock stops here
          MaxLag,      \* bound: the time that the callbacks of one turn take
          MaxCalls,    \* bound: calls of the interface
          MaxLoops,    \* bound: calls of event_base_loop()
          Monotonic,   \* use_monotonic
          None         \* no event, no time

\* What the constants have to be.
Sane == /\ Signals \subseteq Persist /\ Persist \subseteq Io /\ Io \subseteq Events
        /\ Exit \in Events \ Io /\ Pushed \subseteq Events \ {Exit} /\ None \notin Events
        /\ None \notin Int
        /\ NPri \in Nat \ {0} /\ Pri \in [Events -> 0..(NPri - 1)]
        /\ {MaxTime, MaxLag, MaxCalls, MaxLoops} \cup Delays \subseteq Nat /\ Monotonic \in BOOLEAN

VARIABLES base,      \* the lists of the base and the fields of the events
          pc,        \* where the loop is
          flag,      \* its argument: "wait", "once" or "nonblock"
          until,     \* when the dispatch gives up; None: never
          queue,     \* the active queue that is processed
          cur,       \* the event whose callback runs
          left,      \* the local variable ncalls of event_process_active()
          gotterm, brk,            \* base->event_gotterm, base->event_break
          clock,     \* the time
          cache,     \* base->tv_cache; None: cleared
          event_tv,  \* base->event_tv
          budget,    \* calls of the interface that are left
          loops,     \* calls of event_base_loop() that are left
          armed,     \* history: events that may still be called
          since,     \* history: when a timeout was asked for, and for how long
          faults     \* history: what went wrong

vars == <<base, pc, flag, until, queue, cur, left, gotterm, brk, clock, cache, event_tv,
          budget, loops, armed, since, faults>>

-----------------------------------------------------------------------------
(***************************************************************************)
(* Functions on the base.                                                  *)
(***************************************************************************)

\* The events of a list, by their flags.
Flagged(q) == {e \in Events : q \in base.flags[e]}

H == INSTANCE MinHeap WITH heap <- base.timeheap, key <- base.timeout, in <- Flagged("timeout"),
                           MaxKey <- MaxTime

\* TAILQ_REMOVE() of the entry e.
Without(s, e) == LET k == CHOOSE i \in DOMAIN s : s[i] = e
                 IN  [i \in 1..(Len(s) - 1) |-> IF i < k THEN s[i] ELSE s[i + 1]]

EmptyBase == [flags |-> [e \in Events |-> {}],
              eventqueue |-> <<>>,
              activequeues |-> [i \in 0..(NPri - 1) |-> <<>>],
              timeheap |-> H!EmptyHeap,
              timeout |-> [e \in Events |-> 0],
              res |-> [e \in Events |-> {}],
              ncalls |-> [e \in Events |-> 0],
              pncalls |-> [e \in Events |-> FALSE],
              count |-> 0, count_active |-> 0]

\* event_queue_remove().
QueueRemove(b, e, q) ==
  LET c == [b EXCEPT !.count = @ - 1, !.flags[e] = @ \ {q}]
  IN  CASE q = "inserted" -> [c EXCEPT !.eventqueue = Without(@, e)]
        [] q = "active" -> [c EXCEPT !.count_active = @ - 1,
                                     !.activequeues[Pri[e]] = Without(@, e)]
        [] q = "timeout" -> [c EXCEPT !.timeheap = H!Erase(@, e, b.timeout)]

\* event_queue_insert().
QueueInsert(b, e, q) ==
  LET c == [b EXCEPT !.count = @ + 1, !.flags[e] = @ \cup {q}]
  IN  CASE q = "inserted" -> [c EXCEPT !.eventqueue = Append(@, e)]
        [] q = "active" -> [c EXCEPT !.count_active = @ + 1,
                                     !.activequeues[Pri[e]] = Append(@, e)]
        [] q = "timeout" -> [c EXCEPT !.timeheap = H!Push(@, e, b.timeout)]

RemoveIf(b, e, q) == IF q \in b.flags[e] THEN QueueRemove(b, e, q) ELSE b

\* An event_del() that leaves an active event in its queue.
BugDel(b, e) == RemoveIf(RemoveIf(b, e, "timeout"), e, "inserted")

\* The lists in event_del().
Del(b, e) == RemoveIf(RemoveIf(RemoveIf(b, e, "timeout"), e, "active"), e, "inserted")

\* event_active().
Active(b, e, r, n) ==
  IF "active" \in b.flags[e] THEN [b EXCEPT !.res[e] = @ \cup r]
  ELSE QueueInsert([b EXCEPT !.res[e] = r, !.ncalls[e] = n, !.pncalls[e] = FALSE], e, "active")

\* event_add() with the timeout at (None: without), and whether the back end takes it.
NeedsInsert(b, e) == e \in Io /\ b.flags[e] \cap {"inserted", "active"} = {}
Reschedules(b, e) == "active" \in b.flags[e] /\ "timeout" \in b.res[e]
Add(b, e, at) ==
  LET c == IF NeedsInsert(b, e) THEN QueueInsert(b, e, "inserted") ELSE b
      d == RemoveIf(c, e, "timeout")
      f == IF Reschedules(d, e) THEN QueueRemove(d, e, "active") ELSE d
  IN  IF at = None THEN c ELSE QueueInsert([f EXCEPT !.timeout[e] = at], e, "timeout")

\* gettime().
Now == IF cache # None THEN cache ELSE clock

\* event_del() and event_add() write through ev_pncalls.
Aborts(e) == base.ncalls[e] > 0 /\ base.pncalls[e]
Abort(e, really) ==
  /\ left' = IF really /\ Aborts(e) /\ pc = "cb" THEN 0 ELSE left
  /\ faults' = IF really /\ Aborts(e) /\ cur # e THEN faults \cup {"stray"} ELSE faults

-----------------------------------------------------------------------------
Init == /\ base = EmptyBase
        /\ pc = "out"
        /\ flag = "wait"
        /\ until = None
        /\ queue = 0
        /\ cur = None
        /\ left = 0
        /\ gotterm = FALSE /\ brk = FALSE
        /\ clock = 1
        /\ cache = None
        /\ event_tv = 1
        /\ budget = MaxCalls
        /\ loops = MaxLoops
        /\ armed = {}
        /\ since = [e \in Events |-> None]
        /\ faults = {}

-----------------------------------------------------------------------------
(***************************************************************************)
(* Calls of the program, outside the loop or in a callback.                *)
(***************************************************************************)

loopState == <<pc, flag, until, queue, cur, clock, cache, event_tv, loops>>

Program == /\ pc \in {"out", "cb"}
           /\ budget > 0
           /\ budget' = budget - 1

\* The time from which a timeout counts: inside the loop the last poll, outside now.
Asked == IF pc = "cb" THEN cache ELSE clock

EventAdd(e, tv) ==
  /\ Program
  /\ e # Exit
  /\ base' = Add(base, e, IF tv = None THEN None ELSE Now + tv)
  /\ Abort(e, tv # None /\ Reschedules(base, e))
  /\ since' = IF tv = None THEN since
              ELSE [since EXCEPT ![e] = [from |-> Asked, tv |-> tv, cb |-> pc = "cb"]]
  /\ armed' = IF tv # None \/ e \in Io THEN armed \cup {e} ELSE armed
  /\ UNCHANGED <<loopState, gotterm, brk>>

\* The back end refuses the event, or there is no memory: nothing is changed.
EventAddFails(e) == /\ Program
                    /\ NeedsInsert(base, e)
                    /\ UNCHANGED <<base, left, faults, since, armed, loopState, gotterm, brk>>

EventDel(e) == /\ Program
               /\ e # Exit
               /\ base' = Del(base, e)
               /\ Abort(e, TRUE)
               /\ since' = [since EXCEPT ![e] = None]
               /\ armed' = armed \ {e}
               /\ UNCHANGED <<loopState, gotterm, brk>>

EventActive(e) == /\ Program
                  /\ e \in Pushed
                  /\ base' = Active(base, e, {"io"}, 1)
                  /\ armed' = armed \cup {e}
                  /\ UNCHANGED <<left, faults, since, loopState, gotterm, brk>>

\* event_base_loopexit() is event_base_once() with event_loopexit_cb().
LoopExit(tv) == /\ Program
                /\ base.flags[Exit] = {} /\ cur # Exit
                /\ base' = Add(base, Exit, Now + tv)
                /\ since' = [since EXCEPT ![Exit] = [from |-> Asked, tv |-> tv, cb |-> pc = "cb"]]
                /\ armed' = armed \cup {Exit}
                /\ UNCHANGED <<left, faults, loopState, gotterm, brk>>

LoopBreak == /\ Program
             /\ brk' = TRUE
             /\ UNCHANGED <<base, left, faults, since, armed, loopState, gotterm>>

-----------------------------------------------------------------------------
(***************************************************************************)
(* event_base_loop().                                                      *)
(***************************************************************************)

history == <<budget, armed, since>>

EventBaseLoop(f) == /\ pc = "out" /\ loops > 0
                    /\ pc' = "top"
                    /\ flag' = f
                    /\ cache' = None
                    /\ loops' = loops - 1
                    /\ UNCHANGED <<base, until, queue, cur, left, gotterm, brk, clock, event_tv,
                                   faults, history>>

\* The loop is asked to end.
Terminate == /\ pc = "top" /\ (gotterm \/ brk)
             /\ gotterm' = FALSE
             /\ brk' = IF gotterm THEN brk ELSE FALSE
             /\ cache' = None
             /\ pc' = "out"
             /\ UNCHANGED <<base, flag, until, queue, cur, left, clock, event_tv, loops, faults,
                            history>>

\* timeout_correct(): what the timeouts become.
Correct == IF Monotonic \/ Now >= event_tv THEN base
           ELSE [base EXCEPT !.timeout = [e \in Events |->
                   IF "timeout" \in base.flags[e] THEN @[e] - (event_tv - Now) ELSE @[e]]]

\* A timeout_next() that waits for I/O only.
BugTimeoutNext(b) == None

\* timeout_next(): when the first timer of the base b is due; None: there is none.
TimeoutNext(b) == IF b.timeheap.p = <<>> THEN None
                  ELSE b.timeout[H!Top(b.timeheap)] + (clock - Now)

\* The test for no events, and the rest up to the call of dispatch.
Prepare ==
  /\ pc = "top" /\ ~gotterm /\ ~brk
  /\ base' = Correct
  /\ IF base.count = 0
     THEN /\ pc' = "out"
          /\ event_tv' = IF ~Monotonic /\ Now >= event_tv THEN Now ELSE event_tv
          /\ UNCHANGED <<until, cache>>
     ELSE /\ pc' = "dispatch"
          /\ until' = IF base.count_active > 0 \/ flag = "nonblock" THEN clock
                      ELSE TimeoutNext(base')
          /\ event_tv' = Now
          /\ cache' = None
  /\ UNCHANGED <<flag, queue, cur, left, gotterm, brk, clock, loops, faults, history>>

\* The events that become active when those of ready are reported.
Fresh(b, ready) == {e \in ready : "active" \notin b.flags[e]}

\* The orders in which they may join the queues of their priorities.
Orders(b, ready) ==
  {f \in [0..(NPri - 1) -> UNION {SetToSeqs({e \in Fresh(b, ready) : Pri[e] = i}) : i \in 0..(NPri - 1)}] :
     \A i \in 0..(NPri - 1) : f[i] \in SetToSeqs({e \in Fresh(b, ready) : Pri[e] = i})}

\* evsel->dispatch() activates the events that are ready, in an order of its own, a
\* signal as often as it was caught; it returns when there are some, when the time is
\* up, or early when it is interrupted.
Activate(b, ready, n, joining) ==
  [b EXCEPT !.flags = [e \in Events |-> @[e] \cup (IF e \in ready THEN {"active"} ELSE {})],
            !.res = [e \in Events |-> IF e \notin ready THEN @[e]
                       ELSE IF "active" \in b.flags[e] THEN @[e] \cup {"io"} ELSE {"io"}],
            !.ncalls = [e \in Events |-> IF e \notin Fresh(b, ready) THEN @[e]
                                         ELSE IF e \in Signals THEN n ELSE 1],
            !.pncalls = [e \in Events |-> IF e \in Fresh(b, ready) THEN FALSE ELSE @[e]],
            !.count = @ + Cardinality(Fresh(b, ready)),
            !.count_active = @ + Cardinality(Fresh(b, ready)),
            !.activequeues = [i \in 0..(NPri - 1) |-> @[i] \o joining[i]]]

Dispatch == /\ pc = "dispatch"
            /\ \E ready \in SUBSET {e \in Io : "inserted" \in base.flags[e]}, n \in 1..2 :
                 /\ n = 2 => ready \cap Signals # {}
                 /\ ready = {} => until # None /\ clock >= until
                 /\ \E joining \in Orders(base, ready) : base' = Activate(base, ready, n, joining)
            /\ cache' = clock
            /\ until' = None
            /\ pc' = "timeouts"
            /\ UNCHANGED <<flag, queue, cur, left, gotterm, brk, clock, event_tv, loops, faults,
                           history>>

DispatchInterrupted == /\ pc = "dispatch"
                       /\ cache' = clock
                       /\ until' = None
                       /\ pc' = "timeouts"
                       /\ UNCHANGED <<base, flag, queue, cur, left, gotterm, brk, clock, event_tv,
                                      loops, faults, history>>

\* It fails, and so does the loop.
DispatchFails == /\ pc = "dispatch"
                 /\ until' = None
                 /\ pc' = "out"
                 /\ UNCHANGED <<base, flag, queue, cur, left, gotterm, brk, clock, cache, event_tv,
                                loops, faults, history>>

Due == base.timeheap.p # <<>> /\ base.timeout[H!Top(base.timeheap)] <= Now

\* A turn of the loop of timeout_process().
TimeoutProcess ==
  /\ pc = "timeouts" /\ Due
  /\ LET e == H!Top(base.timeheap)
     IN  /\ base' = Active(Del(base, e), e, {"timeout"}, 1)
         /\ faults' = (IF Aborts(e) THEN {"stray"} ELSE {}) \cup faults \cup
              (IF since[e] # None /\ clock < since[e].from + since[e].tv
               THEN {IF since[e].cb THEN "early" ELSE "earlyout"} ELSE {})
         /\ since' = [since EXCEPT ![e] = None]
  /\ UNCHANGED <<pc, flag, until, queue, cur, left, gotterm, brk, clock, cache, event_tv,
                 loops, budget, armed>>

\* The queue that event_process_active() chooses.
FirstActive == CHOOSE i \in 0..(NPri - 1) : /\ base.activequeues[i] # <<>>
                                            /\ \A j \in 0..(i - 1) : base.activequeues[j] = <<>>

\* The end of timeout_process(), and what event_base_loop() does next.
Process ==
  /\ pc = "timeouts" /\ ~Due
  /\ \/ /\ base.count_active > 0
        /\ queue' = FirstActive
        /\ pc' = "next"
        /\ UNCHANGED cache
     \/ /\ base.count_active = 0
        /\ IF flag = "nonblock" THEN pc' = "out" /\ cache' = None
                                ELSE pc' = "top" /\ UNCHANGED cache
        /\ UNCHANGED queue
  /\ UNCHANGED <<base, flag, until, cur, left, gotterm, brk, clock, event_tv, loops, faults,
                 history>>

\* The next event of the queue.
NextEvent ==
  /\ pc = "next" /\ base.activequeues[queue] # <<>>
  /\ LET e == Head(base.activequeues[queue])
         b == IF e \in Persist THEN QueueRemove(base, e, "active") ELSE Del(base, e)
     IN  /\ cur' = e
         /\ left' = base.ncalls[e]
         /\ base' = [b EXCEPT !.pncalls[e] = TRUE]
  /\ pc' = "call"
  /\ UNCHANGED <<flag, until, queue, gotterm, brk, clock, cache, event_tv, loops, faults, history>>

\* Where event_base_loop() goes on after event_process_active().
Processed == IF base.count_active = 0 /\ flag = "once"
             THEN pc' = "out" /\ cache' = None
             ELSE pc' = "top" /\ UNCHANGED cache

QueueDone == /\ pc = "next" /\ base.activequeues[queue] = <<>>
             /\ Processed
             /\ UNCHANGED <<base, flag, until, queue, cur, left, gotterm, brk, clock, event_tv,
                            loops, faults, history>>

\* A call of the callback begins; the one of Exit is event_loopexit_cb().
Call == /\ pc = "call" /\ left > 0
        /\ left' = left - 1
        /\ base' = [base EXCEPT !.ncalls[cur] = left - 1]
        /\ gotterm' = (gotterm \/ cur = Exit)
        /\ pc' = "cb"
        /\ faults' = IF cur \in armed THEN faults ELSE faults \cup {"deleted"}
        /\ armed' = IF cur \in Persist \/ left > 1 \/ base.flags[cur] # {} THEN armed
                    ELSE armed \ {cur}
        /\ UNCHANGED <<flag, until, queue, cur, brk, clock, cache, event_tv, loops, budget, since>>

CallsDone == /\ pc = "call" /\ left = 0
             /\ cur' = None
             /\ pc' = "next"
             /\ UNCHANGED <<base, flag, until, queue, left, gotterm, brk, clock, cache, event_tv,
                            loops, faults, history>>

\* The callback returns.
Return == /\ pc = "cb"
          /\ IF brk THEN Processed /\ cur' = None
                    ELSE pc' = "call" /\ UNCHANGED <<cache, cur>>
          /\ UNCHANGED <<base, flag, until, queue, left, gotterm, brk, clock, event_tv, loops,
                         faults, history>>

\* event_base_free(), outside the loop, deletes the events that are left one by one:
\* first those of eventqueue, then the timers, then the active ones.
EventBaseFree ==
  /\ pc = "out"
  /\ pc' = "freeing"
  /\ UNCHANGED <<base, flag, until, queue, cur, left, gotterm, brk, clock, cache, event_tv, loops,
                 faults, history>>

NoneActive == \A i \in 0..(NPri - 1) : base.activequeues[i] = <<>>

Freed(e) == /\ base' = Del(base, e)
            /\ faults' = IF Aborts(e) THEN faults \cup {"stray"} ELSE faults
            /\ UNCHANGED <<pc, flag, until, queue, cur, left, gotterm, brk, clock, cache, event_tv,
                           loops, history>>

FreeInserted == /\ pc = "freeing" /\ base.eventqueue # <<>>
                /\ Freed(Head(base.eventqueue))

FreeTimer == /\ pc = "freeing" /\ base.eventqueue = <<>> /\ base.timeheap.p # <<>>
             /\ Freed(H!Top(base.timeheap))

FreeActive == /\ pc = "freeing" /\ base.eventqueue = <<>> /\ base.timeheap.p = <<>> /\ ~NoneActive
              /\ Freed(Head(base.activequeues[FirstActive]))

FreeDone == /\ pc = "freeing" /\ base.eventqueue = <<>> /\ base.timeheap.p = <<>> /\ NoneActive
            /\ pc' = "freed"
            /\ UNCHANGED <<base, flag, until, queue, cur, left, gotterm, brk, clock, cache, event_tv,
                           loops, faults, history>>

\* Time passes in the program and in the kernel.
Tick == /\ clock < MaxTime /\ pc \in {"out", "cb", "dispatch"}
        /\ pc = "cb" => clock - cache < MaxLag
        /\ clock' = clock + 1
        /\ UNCHANGED <<base, pc, flag, until, queue, cur, left, gotterm, brk, cache, event_tv,
                       loops, faults, history>>

\* The time of day is set back while the loop runs; the kernel goes on waiting for
\* the same interval.
ClockBack == /\ ~Monotonic /\ clock > 1 /\ budget > 0 /\ pc \in {"cb", "dispatch"}
             /\ clock' = clock - 1
             /\ budget' = budget - 1
             /\ until' = IF until = None THEN None ELSE until - 1
             /\ UNCHANGED <<base, pc, flag, queue, cur, left, gotterm, brk, cache, event_tv,
                            loops, armed, since, faults>>

-----------------------------------------------------------------------------
Calls == \/ \E e \in Events, tv \in Delays \cup {None} : EventAdd(e, tv)
         \/ \E e \in Events : EventAddFails(e) \/ EventDel(e) \/ EventActive(e)
         \/ \E tv \in Delays : LoopExit(tv)
         \/ LoopBreak

Loop == \/ Terminate \/ Prepare \/ Dispatch \/ TimeoutProcess \/ Process
        \/ NextEvent \/ QueueDone \/ Call \/ CallsDone \/ Return

Free == FreeInserted \/ FreeTimer \/ FreeActive \/ FreeDone

Next == \/ Calls \/ Loop \/ DispatchInterrupted \/ DispatchFails
        \/ \E f \in {"wait", "once", "nonblock"} : EventBaseLoop(f)
        \/ EventBaseFree \/ Free \/ Tick \/ ClockBack

\* The thread runs, callbacks return, and time goes on although the dispatch may be
\* interrupted again and again.
Fairness == WF_vars(Loop) /\ SF_vars(Tick)

Spec == Init /\ [][Next]_vars
FairSpec == Spec /\ Fairness

-----------------------------------------------------------------------------
(***************************************************************************)
(* Properties.                                                             *)
(***************************************************************************)

\* The type of the state of the loop.
TypeOK == /\ pc \in {"out", "top", "dispatch", "timeouts", "next", "call", "cb", "freeing", "freed"}
          /\ cur \in Events \cup {None}
          /\ (cur # None) = (pc \in {"call", "cb"})
          /\ left \in 0..2 /\ queue \in 0..(NPri - 1)
          /\ faults \subseteq {"stray", "deleted", "early", "earlyout"}

\* An event is once in each list that its ev_flags name and in no other, event_count
\* and event_count_active are the numbers of those memberships, and the timeouts form
\* a heap in which every event knows its place, after any calls from any callbacks.
Once(s, e) == Cardinality({i \in DOMAIN s : s[i] = e})
ListsAgree ==
  /\ \A e \in Events :
       /\ Once(base.eventqueue, e) = (IF e \in Flagged("inserted") THEN 1 ELSE 0)
       /\ \A i \in 0..(NPri - 1) : Once(base.activequeues[i], e) =
                                    (IF e \in Flagged("active") /\ Pri[e] = i THEN 1 ELSE 0)
  /\ base.count_active = Cardinality(Flagged("active"))
  /\ base.count = Cardinality(Flagged("inserted")) + Cardinality(Flagged("timeout"))
                  + base.count_active
  /\ H!HeapOrdered /\ H!HeapIndexed

\* Once event_del() has returned, no callback of the event runs until it is added or
\* activated again, even when its several calls for a signal had begun ("Allows
\* deletes to work" in event_process_active()).
NoCallAfterDel == "deleted" \notin faults

\* A timer that a callback asked for never fires before its time.
NeverEarly == "early" \notin faults

\* The asserts of event_base_free(): no list keeps an event, and no counter counts one.
FreedEmpty == pc = "freed" => /\ base.eventqueue = <<>> /\ base.timeheap.p = <<>> /\ NoneActive
                              /\ base.count = 0 /\ base.count_active = 0

\* The loop never sleeps longer than the longest timeout, although the time of day,
\* in which the timeouts are kept, has been set back.
SleepBounded == pc = "dispatch" /\ until # None /\ base.count_active = 0 =>
                  \A d \in Delays : (\A x \in Delays : x <= d) => until - clock <= d

\* A timer that was added outside the loop never fires before its time.
NeverEarlyOutside == "earlyout" \notin faults

\* The write through ev_pncalls only ends calls of the event itself.
AbortsOwnCalls == "stray" \notin faults

\* event_base_loopexit() ends the loop, whatever the callbacks do.
ExitDue == gotterm /\ pc \notin {"out", "freeing", "freed"}
ExitSettled == pc = "out"
LoopExitWorks == ExitDue ~> ExitSettled

\* An active event of the highest priority is called, or deleted, or the loop is left.
CallDue(e) == Pri[e] = 0 /\ "active" \in base.flags[e]
CallSettled(e) == "active" \notin base.flags[e] \/ pc \in {"out", "freeing"}
ActiveIsCalled == \A e \in Events : CallDue(e) ~> CallSettled(e)

\* A pending timer fires, or is deleted or moved, or the loop ends.  As timeout_next()
\* counts from the time before the callbacks, it may be late by what they took.
TimerDue(e) == "timeout" \in base.flags[e] /\ base.timeout[e] + MaxLag <= MaxTime
TimerSettled(e) == "timeout" \notin base.flags[e] \/ pc \in {"out", "freeing", "freed"}
TimerFires == \A e \in Events : TimerDue(e) ~> TimerSettled(e)
=============================================================================
