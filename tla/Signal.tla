-------------------------------- MODULE Signal --------------------------------
(***************************************************************************)
(* Signals as events (contrib/libevent/signal.c).  The handler counts a    *)
(* signal in the base it finds in evsignal_base and writes a byte to its   *)
(* socket pair; the loop of that base later scans the counters.  One       *)
(* thread runs the program and the loops; the handler interrupts it        *)
(* between any two of its steps.                                           *)
(***************************************************************************)
EXTENDS Integers, Sequences, SequenceTheorems, TLAPS

CONSTANTS Bases, SigEvents, Sigs,
          BaseOf, SigOf,   \* functions on SigEvents: ev_base, EVENT_SIGNAL(ev)
          Persist,         \* the events with EV_PERSIST
          Pair,            \* what the socket pair holds, in bytes
          Faults,          \* the failures that evsignal_add() may meet
          MaxSignals,      \* bound: signals that are delivered
          MaxCalls,        \* bound: calls of event_add(), event_del(), event_base_free()
          None

\* What sh_old can point to; "freed" is memory that was freed.
Handlers == {"dfl", "ours", "freed", "garbage"}

\* What the constants have to be.
Sane == /\ BaseOf \in [SigEvents -> Bases] /\ SigOf \in [SigEvents -> Sigs]
        /\ Persist \subseteq SigEvents /\ None \notin Bases \cup SigEvents \cup Handlers
        /\ Pair \in Nat \ {0} /\ Sigs \subseteq Nat \ {0}
        /\ \E s \in Sigs : \A t \in Sigs : t <= s     \* NSIG
        /\ MaxSignals \in Nat /\ MaxCalls \in Nat
        /\ Faults \subseteq {"sh_old", "sigaction", "ev_signal"}

VARIABLES sig,             \* base->sig of every base
          disp,            \* the handler of each signal in the kernel
          evsignal_base,
          pc,              \* where the thread is
          cur,             \* the base whose loop runs
          told,            \* the back end reported ev_signal, the byte in the pair
          scan,            \* the locals of evsignal_process(): i, ncalls, next_ev
          signals, calls,  \* deliveries and calls that are left
          owed,            \* history: events whose signal came after their last activation
          faults           \* history: what went wrong

vars == <<sig, disp, evsignal_base, pc, cur, told, scan, signals, calls, owed, faults>>

NoScan == [i |-> 0, ncalls |-> 0, old |-> 0, todo |-> <<>>]

\* evsignal_init().  old is sh_old: None is a NULL pointer.
NewSig == [alive |-> TRUE, added |-> FALSE, caught |-> FALSE, pair |-> 0,
           count |-> [s \in Sigs |-> 0], events |-> [s \in Sigs |-> <<>>],
           old |-> [s \in Sigs |-> None]]

Init == /\ sig = [b \in Bases |-> NewSig]
        /\ disp = [s \in Sigs |-> "dfl"]
        /\ evsignal_base = None
        /\ pc = "prog" /\ cur = None /\ told = FALSE /\ scan = NoScan
        /\ signals = MaxSignals /\ calls = MaxCalls
        /\ owed = {} /\ faults = {}

Listening(b, s) == sig[b].events[s] # <<>>

\* The event is an element of the list.
In(e, q) == \E j \in DOMAIN q : q[j] = e

\* TAILQ_REMOVE() of an event that is in the list.
Without(q, e) == LET k == CHOOSE j \in DOMAIN q : q[j] = e
                 IN  [j \in 1..(Len(q) - 1) |-> IF j < k THEN q[j] ELSE q[j + 1]]

-----------------------------------------------------------------------------
(***************************************************************************)
(* The handler, at any step of the thread.                                 *)
(***************************************************************************)

\* evsignal_handler() counts the signal; the send() does not block, and a byte that
\* does not fit is dropped.
Caught(g, s) == [g EXCEPT !.count[s] = @ + 1, !.caught = TRUE,
                          !.pair = IF @ < Pair THEN @ + 1 ELSE @]

\* A signal with the handler of the library.  In the wait of the back end it ends the
\* system call with EINTR, after which the back end calls evsignal_process().
Deliver(s) ==
  /\ signals > 0 /\ signals' = signals - 1
  /\ disp[s] = "ours"
  /\ IF evsignal_base = None THEN UNCHANGED sig
     ELSE sig' = [sig EXCEPT ![evsignal_base] = Caught(@, s)]
  /\ faults' = IF evsignal_base # None /\ ~sig[evsignal_base].alive
               THEN faults \cup {"dead base"} ELSE faults
  /\ owed' = owed \cup {e \in SigEvents : SigOf[e] = s /\ In(e, sig[BaseOf[e]].events[s])}
  /\ pc' = IF pc = "wait" THEN "process" ELSE pc
  /\ UNCHANGED <<disp, evsignal_base, cur, told, scan, calls>>

-----------------------------------------------------------------------------
(***************************************************************************)
(* Calls of the program, outside the loop or in a callback.                *)
(***************************************************************************)

Call == pc \in {"prog", "cb"} /\ calls > 0 /\ calls' = calls - 1

\* _evsignal_restore_handler() installs what sh_old points to.
Restored(d, g, s) == [d EXCEPT ![s] = IF g.old[s] \in {"dfl", "ours"} THEN g.old[s] ELSE "garbage"]

Add(e) ==
  LET b == BaseOf[e]  s == SigOf[e]  g == sig[b]
      Queued(h) == [h EXCEPT !.events[s] = Append(@, e)]
      set == [g EXCEPT !.old[s] = disp[s]]
  IN /\ Call /\ g.alive
     /\ ~In(e, g.events[s])
     /\ \/ /\ g.events[s] # <<>>
           /\ sig' = [sig EXCEPT ![b] = Queued(g)]
           /\ UNCHANGED <<disp, evsignal_base>>
        \/ /\ g.events[s] = <<>>
           /\ sig' = [sig EXCEPT ![b] = Queued([set EXCEPT !.added = TRUE])]
           /\ disp' = [disp EXCEPT ![s] = "ours"]
           /\ evsignal_base' = b
        \/ /\ g.events[s] = <<>> /\ "sh_old" \in Faults       \* no memory for the old handler
           /\ sig' = [sig EXCEPT ![b].old[s] = None]
           /\ UNCHANGED <<disp, evsignal_base>>
        \/ /\ g.events[s] = <<>> /\ "sigaction" \in Faults
           /\ sig' = [sig EXCEPT ![b].old[s] = "freed"]
           /\ UNCHANGED <<disp, evsignal_base>>
        \/ /\ g.events[s] = <<>> /\ "ev_signal" \in Faults /\ ~g.added
           /\ sig' = [sig EXCEPT ![b] = set]                 \* event_add(ev_signal) fails
           /\ disp' = [disp EXCEPT ![s] = "ours"]
           /\ evsignal_base' = b
     /\ UNCHANGED <<pc, cur, told, scan, signals, owed, faults>>

\* The lists in evsignal_del(); the last event takes the saved handler with it.
Deleted(e) ==
  LET b == BaseOf[e]  s == SigOf[e]  rest == Without(sig[b].events[s], e)
  IN  [sig EXCEPT ![b].events[s] = rest, ![b].old[s] = IF rest = <<>> THEN None ELSE @]

\* A deletion that does not look whether other events are left for the signal.
BugEvsignalDel(e) == /\ sig' = Deleted(e)
                     /\ disp' = Restored(disp, sig[BaseOf[e]], SigOf[e])

\* evsignal_del(), from event_del().
EvsignalDel(e) == /\ sig' = Deleted(e)
                  /\ disp' = IF sig'[BaseOf[e]].old[SigOf[e]] = None
                             THEN Restored(disp, sig[BaseOf[e]], SigOf[e]) ELSE disp

Del(e) == /\ Call
          /\ In(e, sig[BaseOf[e]].events[SigOf[e]])
          /\ EvsignalDel(e)
          /\ owed' = owed \ {e}
          /\ UNCHANGED <<evsignal_base, pc, cur, told, scan, signals, faults>>

\* event_base_free(): every event is deleted, then evsignal_dealloc() restores what
\* sh_old still holds.
Free(b) ==
  LET g == sig[b]
      left == {s \in Sigs : g.old[s] # None}
  IN /\ pc = "prog" /\ calls > 0 /\ calls' = calls - 1
     /\ g.alive
     /\ sig' = [sig EXCEPT ![b] = [NewSig EXCEPT !.alive = FALSE]]
     /\ disp' = [s \in Sigs |-> IF s \in left THEN Restored(disp, g, s)[s] ELSE disp[s]]
     /\ faults' = IF \E s \in left : g.old[s] = "freed" THEN faults \cup {"freed handler"} ELSE faults
     /\ owed' = {e \in owed : BaseOf[e] # b}
     /\ UNCHANGED <<evsignal_base, pc, cur, told, scan, signals>>

-----------------------------------------------------------------------------
(***************************************************************************)
(* The loop: wait in the back end, scan the counters, run the callbacks.   *)
(***************************************************************************)

thread == <<disp, evsignal_base, cur, signals, calls, faults>>

\* event_base_loop().
Loop(b) == /\ pc = "prog" /\ sig[b].alive
           /\ cur' = b /\ pc' = "enter"
           /\ evsignal_base' = IF sig[b].added THEN b ELSE evsignal_base
           /\ UNCHANGED <<sig, disp, told, scan, signals, calls, owed, faults>>

\* The system call begins; with a byte to read it does not sleep.
Wait == /\ pc = "enter"
        /\ pc' = IF sig[cur].added /\ sig[cur].pair > 0 THEN "ready" ELSE "wait"
        /\ UNCHANGED <<thread, told, sig, scan, owed>>

\* It returns: an event, a timeout or the byte; the back end looks at evsignal_caught.
Wake == /\ pc \in {"wait", "ready"}
        /\ pc' = IF sig[cur].caught THEN "process" ELSE "cb"
        /\ told' = (sig[cur].added /\ sig[cur].pair > 0)
        /\ UNCHANGED <<thread, sig, scan, owed>>

Process == /\ pc = "process"
           /\ sig' = [sig EXCEPT ![cur].caught = FALSE]
           /\ pc' = "scan" /\ scan' = [NoScan EXCEPT !.i = 1]
           /\ UNCHANGED <<thread, told, owed>>

LastSig == CHOOSE s \in Sigs : \A t \in Sigs : t <= s

\* The counter of one signal is read ...
Read == /\ pc = "scan" /\ scan.i <= LastSig
        /\ LET n == IF scan.i \in Sigs THEN sig[cur].count[scan.i] ELSE 0
           IN  /\ scan' = IF n = 0 THEN [scan EXCEPT !.i = @ + 1]
                          ELSE [scan EXCEPT !.ncalls = n]
               /\ pc' = IF n = 0 THEN "scan" ELSE "load"
        /\ UNCHANGED <<thread, told, sig, owed>>

\* ... and reduced by what was read, in two steps: evsigcaught[i] -= ncalls is no atomic
\* operation, and a signal between the two is not counted.
Load == /\ pc = "load" /\ pc' = "store"
        /\ scan' = [scan EXCEPT !.old = sig[cur].count[scan.i]]
        /\ UNCHANGED <<thread, told, sig, owed>>

Store == /\ pc = "store" /\ pc' = "active"
         /\ sig' = [sig EXCEPT ![cur].count[scan.i] = scan.old - scan.ncalls]
         /\ scan' = [scan EXCEPT !.todo = sig[cur].events[scan.i]]
         /\ UNCHANGED <<thread, told, owed>>

\* event_active() for each event that listens; one without EV_PERSIST is deleted first.
Activate == /\ pc = "active"
            /\ IF scan.todo = <<>>
               THEN /\ pc' = "scan" /\ scan' = [NoScan EXCEPT !.i = scan.i + 1]
                    /\ UNCHANGED <<sig, disp, owed>>
               ELSE /\ scan' = [scan EXCEPT !.todo = Tail(@)]
                    /\ owed' = owed \ {Head(scan.todo)}
                    /\ IF Head(scan.todo) \in Persist THEN UNCHANGED <<sig, disp>>
                       ELSE EvsignalDel(Head(scan.todo))
                    /\ UNCHANGED pc
            /\ UNCHANGED <<evsignal_base, cur, told, signals, calls, faults>>

\* The scan ends; the callbacks of the active events follow.
Scanned == /\ pc = "scan" /\ scan.i > LastSig
           /\ pc' = "cb" /\ scan' = NoScan
           /\ UNCHANGED <<thread, told, sig, owed>>

\* evsignal_cb() reads one byte; then the next turn of the loop, or its end.
Turn == /\ pc = "cb"
        /\ pc' \in {"enter", "prog"}
        /\ sig' = IF told THEN [sig EXCEPT ![cur].pair = @ - 1] ELSE sig
        /\ told' = FALSE
        /\ UNCHANGED <<thread, scan, owed>>

Next == \/ \E s \in Sigs : Deliver(s)
        \/ \E e \in SigEvents : Add(e) \/ Del(e)
        \/ \E b \in Bases : Free(b) \/ Loop(b)
        \/ Wait \/ Wake \/ Process \/ Read \/ Load \/ Store \/ Activate \/ Scanned \/ Turn

Spec == Init /\ [][Next]_vars

-----------------------------------------------------------------------------
Records == [alive : BOOLEAN, added : BOOLEAN, caught : BOOLEAN, pair : 0..Pair,
            count : [Sigs -> 0..MaxSignals], events : [Sigs -> Seq(SigEvents)],
            old : [Sigs -> Handlers \cup {None}]]

TypeOK == /\ sig \in [Bases -> Records]
          /\ disp \in [Sigs -> {"dfl", "ours", "garbage"}]
          /\ evsignal_base \in Bases \cup {None} /\ cur \in Bases \cup {None}
          /\ pc \in {"prog", "enter", "wait", "ready", "process", "scan", "load", "store", "active", "cb"}

(***************************************************************************)
(* evsignal_handler() and evsignal_process(): an event whose signal came   *)
(* is still counted, or the scan that is under way will activate it, even  *)
(* when the signal came between the two halves of the subtraction.         *)
(***************************************************************************)
NotForgotten ==
  \A e \in owed :
    \/ sig[BaseOf[e]].count[SigOf[e]] > 0
    \/ /\ cur = BaseOf[e] /\ scan.i = SigOf[e]
       /\ pc = "active" /\ In(e, scan.todo)

(***************************************************************************)
(* The thread never sleeps in the back end over a counted signal: a byte   *)
(* is in the pair, although evsignal_cb() reads one byte in a turn and a   *)
(* full pair takes none.                                                   *)
(***************************************************************************)
NoSleepOverSignal ==
  pc = "wait" => owed = {}

(***************************************************************************)
(* evsignal_del() and evsignal_dealloc(): without events for it, a signal  *)
(* has the handler it had before the library, and with events it has       *)
(* evsignal_handler(), which finds a live base.                            *)
(***************************************************************************)
HandlersRestored ==
  \A s \in Sigs : /\ disp[s] = "ours" <=> \E b \in Bases : Listening(b, s)
                  /\ disp[s] # "garbage"

(***************************************************************************)
(* evsignal_handler() never counts in a base that was freed, and           *)
(* _evsignal_restore_handler() never reads a handler that was freed.       *)
(***************************************************************************)
NoDanglingUse == faults = {}

\* What signal.c promises.
SignalsSound == TypeOK /\ NotForgotten /\ NoSleepOverSignal /\ HandlersRestored /\ NoDanglingUse

-----------------------------------------------------------------------------
(***************************************************************************)
(* Fairness: a loop that was entered goes on, and its back end is woken by *)
(* the byte; nothing else needs to happen.                                 *)
(***************************************************************************)
Runs == \/ Wait \/ Process \/ Read \/ Load \/ Store \/ Activate \/ Scanned
        \/ Turn /\ pc' = "enter"
        \/ pc = "ready" /\ Wake
        \/ \E b \in Bases : Loop(b)

LiveSpec == Spec /\ WF_vars(Runs)

(***************************************************************************)
(* A signal that was delivered while an event listens to it leads to the   *)
(* activation of the event, or to its deletion by the program.             *)
(***************************************************************************)
SignalsReachEvents == \A e \in SigEvents : e \in owed ~> e \notin owed

-----------------------------------------------------------------------------
(***************************************************************************)
(* The proof of SignalsSound: one base, a pair that holds two bytes, and   *)
(* no failure but that of malloc().  "Findings" in the README has what     *)
(* goes wrong otherwise.                                                   *)
(***************************************************************************)
OneBase(b) == Bases = {b} /\ Faults \subseteq {"sh_old"} /\ Pair > 1

\* TypeOK, and the types of the rest.
Typed == /\ TypeOK
         /\ told \in BOOLEAN /\ signals \in 0..MaxSignals /\ calls \in Nat /\ owed \subseteq SigEvents
         /\ scan \in [i : Nat, ncalls : Nat, old : Nat, todo : Seq(SigEvents)]

\* No counter is above what was delivered, and none is reduced by more than it holds.
Counters(b) == /\ \A s \in Sigs : sig[b].count[s] <= MaxSignals - signals
               /\ pc \in {"load", "store", "active"} => scan.i \in Sigs
               /\ pc = "load" => scan.ncalls <= sig[b].count[scan.i]
               /\ pc = "store" => scan.ncalls <= scan.old /\ scan.old <= MaxSignals - signals
               /\ pc # "prog" => cur = b /\ sig[b].alive

Apart(q) == \A j, k \in DOMAIN q : q[j] = q[k] => j = k

\* An event is in one list, once; the scan has only such events before it.
Lists(b) == /\ \A s \in Sigs : Apart(sig[b].events[s])
            /\ \A s \in Sigs, e \in SigEvents : In(e, sig[b].events[s]) => SigOf[e] = s
            /\ \A e \in owed : In(e, sig[b].events[SigOf[e]])
            /\ pc = "active" => /\ Apart(scan.todo)
                                /\ \A e \in SigEvents : In(e, scan.todo) => In(e, sig[b].events[scan.i])

\* The handler is installed, and the old one saved, for just the signals with events.
Installed(b) == /\ \A s \in Sigs : IF Listening(b, s)
                                   THEN /\ disp[s] = "ours" /\ sig[b].old[s] = "dfl"
                                        /\ sig[b].added /\ sig[b].alive /\ evsignal_base = b
                                   ELSE disp[s] = "dfl" /\ sig[b].old[s] = None
                /\ faults = {}

\* The scan that is due or under way has not passed the event.
Ahead(e) == \/ pc = "process"
            \/ pc \in {"scan", "load", "store"} /\ SigOf[e] >= scan.i
            \/ pc = "active" /\ (SigOf[e] > scan.i \/ In(e, scan.todo))

\* A byte beyond the one that is about to be read waits for the next turn.
Woken(b) == sig[b].caught /\ sig[b].pair > (IF told THEN 1 ELSE 0)

Wakeups(b) == /\ told => /\ sig[b].pair > 0
                         /\ pc \in {"process", "scan", "load", "store", "active", "cb"}
              /\ \A e \in owed : Ahead(e) \/ Woken(b)
              /\ pc = "wait" => owed = {}

SigInv(b) == Typed /\ Counters(b) /\ Lists(b) /\ Installed(b) /\ Wakeups(b) /\ NotForgotten

-----------------------------------------------------------------------------
\* Append() adds the event to the list and keeps the others.
LEMMA Appended ==
  ASSUME NEW q \in Seq(SigEvents), NEW e \in SigEvents
  PROVE  /\ Append(q, e) \in Seq(SigEvents) /\ Append(q, e) # <<>>
         /\ \A x : In(x, Append(q, e)) <=> In(x, q) \/ x = e
         /\ Apart(q) /\ ~In(e, q) => Apart(Append(q, e))
<1>1. /\ Append(q, e) \in Seq(SigEvents) /\ Len(Append(q, e)) = Len(q) + 1 /\ Len(q) \in Nat
      /\ \A j \in 1..Len(q) : Append(q, e)[j] = q[j]
      /\ Append(q, e)[Len(q) + 1] = e
  OBVIOUS
<1>2. /\ DOMAIN q = 1..Len(q) /\ DOMAIN Append(q, e) = 1..(Len(q) + 1)
      /\ \A j \in 1..(Len(q) + 1) : j \in 1..Len(q) \/ j = Len(q) + 1
      /\ \A j \in 1..Len(q) : j \in 1..(Len(q) + 1) /\ j # Len(q) + 1
      /\ Len(q) + 1 \in 1..(Len(q) + 1)
  BY <1>1
<1>3. Append(q, e) # <<>>
  BY <1>1
<1>4. ASSUME NEW x
      PROVE  In(x, Append(q, e)) <=> In(x, q) \/ x = e
  <2>1. CASE In(x, q)
    <3>1. PICK j \in 1..Len(q) : q[j] = x
      BY <1>2, <2>1 DEF In
    <3> QED
      BY <1>1, <1>2, <2>1, <3>1 DEF In
  <2>2. CASE x = e
    BY <1>1, <1>2, <2>2 DEF In
  <2>3. CASE ~In(x, q) /\ x # e
    BY <1>1, <1>2, <2>3 DEF In
  <2> QED
    BY <2>1, <2>2, <2>3
<1>5. ASSUME Apart(q), ~In(e, q)
      PROVE  Apart(Append(q, e))
  BY <1>1, <1>2, <1>5 DEF Apart, In
<1> QED
  BY <1>1, <1>3, <1>4, <1>5

\* TAILQ_REMOVE() takes the event out of the list and keeps the others.
LEMMA Removed ==
  ASSUME NEW q \in Seq(SigEvents), NEW e \in SigEvents, In(e, q), Apart(q)
  PROVE  /\ Without(q, e) \in Seq(SigEvents) /\ Apart(Without(q, e))
         /\ \A x : In(x, Without(q, e)) <=> In(x, q) /\ x # e
<1>1. PICK k : k = CHOOSE j \in DOMAIN q : q[j] = e
  OBVIOUS
<1>2. k \in DOMAIN q /\ q[k] = e
  BY <1>1 DEF In
<1>3. PICK n : n = Len(q)
  OBVIOUS
<1>4. /\ n \in Nat /\ DOMAIN q = 1..n /\ k \in 1..n /\ \A j \in 1..n : q[j] \in SigEvents
  BY <1>2, <1>3
<1>5. Without(q, e) = [j \in 1..(n - 1) |-> IF j < k THEN q[j] ELSE q[j + 1]]
  BY <1>1, <1>3 DEF Without
<1>6. \A j \in 1..(n - 1) : j \in 1..n /\ j + 1 \in 1..n
  BY <1>4
<1>7. n - 1 \in Nat
  BY <1>4
<1>8. Without(q, e) \in Seq(SigEvents)
  <2>1. Without(q, e) \in [1..(n - 1) -> SigEvents]
    BY <1>4, <1>5, <1>6
  <2> QED
    BY <1>7, <2>1
<1>9. /\ DOMAIN Without(q, e) = 1..(n - 1)
      /\ \A j \in 1..(n - 1) : Without(q, e)[j] = IF j < k THEN q[j] ELSE q[j + 1]
  BY <1>5
<1>10. Apart(Without(q, e))
  <2> SUFFICES ASSUME NEW i \in 1..(n - 1), NEW j \in 1..(n - 1), Without(q, e)[i] = Without(q, e)[j]
               PROVE  i = j
    BY <1>9 DEF Apart
  <2>1. (IF i < k THEN q[i] ELSE q[i + 1]) = (IF j < k THEN q[j] ELSE q[j + 1])
    BY <1>9
  <2>2. \A a, c \in 1..n : q[a] = q[c] => a = c
    BY <1>4 DEF Apart
  <2>3. i \in 1..n /\ i + 1 \in 1..n /\ j \in 1..n /\ j + 1 \in 1..n
    BY <1>6
  <2> QED
    BY <1>4, <2>1, <2>2, <2>3
<1>11. ASSUME NEW x, In(x, Without(q, e))
       PROVE  In(x, q) /\ x # e
  <2>1. PICK j \in 1..(n - 1) : Without(q, e)[j] = x
    BY <1>9, <1>11 DEF In
  <2>2. PICK a \in 1..n : a # k /\ q[a] = x
    <3>1. CASE j < k
      BY <1>4, <1>6, <1>9, <2>1, <3>1
    <3>2. CASE ~(j < k)
      <4>1. j + 1 \in 1..n /\ j + 1 # k
        BY <1>4, <1>6, <3>2
      <4>2. q[j + 1] = x
        BY <1>9, <2>1, <3>2
      <4> QED
        BY <4>1, <4>2
    <3> QED
      BY <3>1, <3>2
  <2> QED
    BY <1>2, <1>4, <2>2 DEF In, Apart
<1>12. ASSUME NEW x, In(x, q), x # e
       PROVE  In(x, Without(q, e))
  <2>1. PICK a \in 1..n : q[a] = x
    BY <1>4, <1>12 DEF In
  <2>2. a # k
    BY <1>2, <1>12, <2>1
  <2>3. CASE a < k
    <3>1. a \in 1..(n - 1)
      BY <1>4, <2>3
    <3>2. Without(q, e)[a] = x
      BY <1>9, <2>1, <2>3, <3>1
    <3> QED
      BY <1>9, <3>1, <3>2 DEF In
  <2>4. CASE a > k
    <3>1. a - 1 \in 1..(n - 1) /\ ~(a - 1 < k) /\ (a - 1) + 1 = a
      BY <1>4, <2>4
    <3>2. Without(q, e)[a - 1] = x
      BY <1>9, <2>1, <3>1
    <3> QED
      BY <1>9, <3>1, <3>2 DEF In
  <2> QED
    BY <1>4, <2>2, <2>3, <2>4
<1> QED
  BY <1>8, <1>10, <1>11, <1>12

\* The list of evsignal_process() loses its first event.
LEMMA Behead ==
  ASSUME NEW q \in Seq(SigEvents), q # <<>>, Apart(q)
  PROVE  /\ Head(q) \in SigEvents /\ Tail(q) \in Seq(SigEvents) /\ Apart(Tail(q)) /\ In(Head(q), q)
         /\ \A x : In(x, q) <=> x = Head(q) \/ In(x, Tail(q))
         /\ ~In(Head(q), Tail(q))
<1>1. PICK n : n = Len(q)
  OBVIOUS
<1>2. /\ n \in Nat /\ n # 0 /\ DOMAIN q = 1..n /\ 1 \in 1..n
      /\ Tail(q) \in Seq(SigEvents) /\ Len(Tail(q)) = n - 1 /\ DOMAIN Tail(q) = 1..(n - 1)
      /\ \A j \in 1..(n - 1) : Tail(q)[j] = q[j + 1]
      /\ Head(q) = q[1] /\ q[1] \in SigEvents
  BY <1>1
<1>3. \A j \in 1..(n - 1) : j + 1 \in 1..n /\ j + 1 # 1
  BY <1>2
<1>4. \A j \in 1..n : j = 1 \/ (j - 1 \in 1..(n - 1) /\ (j - 1) + 1 = j)
  BY <1>2
<1>5. \A j, k \in 1..n : q[j] = q[k] => j = k
  BY <1>2 DEF Apart
<1>6. Apart(Tail(q))
  <2> SUFFICES ASSUME NEW i \in 1..(n - 1), NEW j \in 1..(n - 1), Tail(q)[i] = Tail(q)[j]
               PROVE  i = j
    BY <1>2 DEF Apart
  <2>1. q[i + 1] = q[j + 1] /\ i + 1 \in 1..n /\ j + 1 \in 1..n
    BY <1>2, <1>3
  <2>2. i + 1 = j + 1
    BY <1>5, <2>1
  <2> QED
    BY <1>2, <2>2
<1>7. ~In(Head(q), Tail(q))
  <2> SUFFICES ASSUME NEW j \in 1..(n - 1), Tail(q)[j] = Head(q)
               PROVE  FALSE
    BY <1>2 DEF In
  <2>1. q[j + 1] = q[1] /\ j + 1 \in 1..n /\ j + 1 # 1
    BY <1>2, <1>3
  <2> QED
    BY <1>2, <1>5, <2>1
<1>8. ASSUME NEW x, In(x, q)
      PROVE  x = Head(q) \/ In(x, Tail(q))
  <2>1. PICK j \in 1..n : q[j] = x
    BY <1>2, <1>8 DEF In
  <2>2. CASE j = 1
    BY <1>2, <2>1, <2>2
  <2>3. CASE j # 1
    <3>1. j - 1 \in 1..(n - 1) /\ Tail(q)[j - 1] = x
      BY <1>2, <1>4, <2>1, <2>3
    <3> QED
      BY <1>2, <3>1 DEF In
  <2> QED
    BY <2>2, <2>3
<1>9. ASSUME NEW x, In(x, Tail(q))
      PROVE  In(x, q)
  <2>1. PICK j \in 1..(n - 1) : Tail(q)[j] = x
    BY <1>2, <1>9 DEF In
  <2>2. j + 1 \in 1..n /\ q[j + 1] = x
    BY <1>2, <1>3, <2>1
  <2> QED
    BY <1>2, <2>2 DEF In
<1>10. In(Head(q), q)
  BY <1>2 DEF In
<1> QED
  BY <1>2, <1>6, <1>7, <1>8, <1>9, <1>10

-----------------------------------------------------------------------------
LEMMA SigInit ==
  ASSUME Sane, NEW b, OneBase(b), Init
  PROVE  SigInv(b)
<1>1. NewSig \in Records
  <2>1. <<>> \in Seq(SigEvents) /\ 0 \in 0..Pair /\ 0 \in 0..MaxSignals
    BY DEF Sane
  <2> QED
    BY <2>1 DEF NewSig, Records, Handlers
<1>2. Typed
  <2>1. sig \in [Bases -> Records]
    BY <1>1 DEF Init
  <2>2. scan \in [i : Nat, ncalls : Nat, old : Nat, todo : Seq(SigEvents)]
    BY DEF Init, NoScan
  <2>3. disp \in [Sigs -> {"dfl", "ours", "garbage"}]
    BY DEF Init
  <2>4. signals \in 0..MaxSignals /\ calls \in Nat
    BY DEF Init, Sane
  <2> QED
    BY <2>1, <2>2, <2>3, <2>4 DEF Typed, TypeOK, Init
<1>3. /\ sig[b] = NewSig /\ owed = {} /\ pc = "prog" /\ ~told /\ faults = {} /\ signals = MaxSignals
      /\ \A s \in Sigs : /\ NewSig.count[s] = 0 /\ NewSig.events[s] = <<>> /\ NewSig.old[s] = None
                         /\ disp[s] = "dfl"
  BY DEF Init, NewSig, OneBase
<1>4. Counters(b)
  BY <1>3 DEF Counters, Sane
<1>5. Lists(b)
  <2>1. Apart(<<>>) /\ \A e : ~In(e, <<>>)
    BY DEF Apart, In
  <2> QED
    BY <1>3, <2>1 DEF Lists
<1>6. Installed(b) /\ Wakeups(b) /\ NotForgotten
  BY <1>3 DEF Installed, Wakeups, NotForgotten, Listening
<1> QED
  BY <1>2, <1>4, <1>5, <1>6 DEF SigInv

\* evsignal_handler(): it runs only while an event listens, so it finds the live base.
LEMMA DeliverKeeps ==
  ASSUME Sane, NEW b, OneBase(b), SigInv(b), NEW s \in Sigs, Deliver(s)
  PROVE  SigInv(b)'
<1> USE DEF SigInv
<1>1. Listening(b, s) /\ sig[b].alive /\ sig[b].added /\ evsignal_base = b
  BY DEF Installed, Deliver
<1>2. sig[b] \in Records /\ b \in Bases /\ b # None
  BY DEF Typed, TypeOK, OneBase, Sane
<1>3. sig' = [sig EXCEPT ![b] = Caught(sig[b], s)] /\ faults' = faults
  BY <1>1, <1>2 DEF Deliver
<1>4. sig'[b] = Caught(sig[b], s)
  BY <1>2, <1>3 DEF Typed, TypeOK
<1>5. /\ sig'[b].alive = sig[b].alive /\ sig'[b].added = sig[b].added
      /\ sig'[b].events = sig[b].events /\ sig'[b].old = sig[b].old
      /\ sig'[b].caught
      /\ sig'[b].pair = (IF sig[b].pair < Pair THEN sig[b].pair + 1 ELSE sig[b].pair)
      /\ sig'[b].count = [sig[b].count EXCEPT ![s] = @ + 1]
  BY <1>2, <1>4 DEF Caught, Records
<1>6. /\ sig[b].count \in [Sigs -> 0..MaxSignals] /\ sig[b].pair \in 0..Pair
      /\ signals \in 0..MaxSignals /\ signals > 0 /\ signals' = signals - 1 /\ MaxSignals \in Nat /\ Pair \in Nat
  BY <1>2 DEF Typed, Records, Deliver, Sane
<1>7. \A t \in Sigs : /\ sig'[b].count[t] = (IF t = s THEN sig[b].count[t] + 1 ELSE sig[b].count[t])
                      /\ sig[b].count[t] \in 0..MaxSignals /\ sig[b].count[t] <= MaxSignals - signals
  BY <1>5, <1>6 DEF Counters
<1>8. \A t \in Sigs : sig'[b].count[t] \in 0..MaxSignals /\ sig'[b].count[t] <= MaxSignals - signals'
  BY <1>6, <1>7
<1>9. Typed'
  <2>1. sig'[b].count \in [Sigs -> 0..MaxSignals]
    BY <1>5, <1>6, <1>8
  <2>2. sig'[b].pair \in 0..Pair
    BY <1>5, <1>6
  <2>3. sig'[b] \in Records
    BY <1>2, <1>4, <1>5, <2>1, <2>2 DEF Records, Caught
  <2>4. sig' \in [Bases -> Records]
    BY <1>3, <1>4, <2>3 DEF Typed, TypeOK
  <2>5. signals' \in 0..MaxSignals
    BY <1>6
  <2>6. owed' \subseteq SigEvents /\ pc' \in {pc, "process"}
    BY DEF Deliver, Typed
  <2> QED
    BY <2>4, <2>5, <2>6 DEF Typed, TypeOK, Deliver
<1>10. scan' = scan /\ told' = told /\ cur' = cur /\ disp' = disp /\ evsignal_base' = evsignal_base
  BY DEF Deliver
<1>11. pc' = pc \/ (pc = "wait" /\ pc' = "process")
  BY DEF Deliver
<1>12. Counters(b)'
  <2>1. pc' = "load" => scan'.ncalls <= sig'[b].count[scan'.i]
    <3> SUFFICES ASSUME pc = "load"
                 PROVE  scan.ncalls <= sig'[b].count[scan.i]
      BY <1>10, <1>11
    <3>1. scan.i \in Sigs /\ scan.ncalls <= sig[b].count[scan.i] /\ scan.ncalls \in Nat
      BY DEF Counters, Typed
    <3> QED
      BY <1>6, <1>7, <3>1
  <2>2. pc' = "store" => scan'.ncalls <= scan'.old /\ scan'.old <= MaxSignals - signals'
    <3> SUFFICES ASSUME pc = "store"
                 PROVE  scan.ncalls <= scan.old /\ scan.old <= MaxSignals - signals'
      BY <1>10, <1>11
    <3>1. scan.ncalls <= scan.old /\ scan.old <= MaxSignals - signals /\ scan.old \in Nat
      BY DEF Counters, Typed
    <3> QED
      BY <1>6, <3>1
  <2> QED
    BY <1>5, <1>8, <1>10, <1>11, <2>1, <2>2 DEF Counters
<1>13. \A e \in owed' : In(e, sig[b].events[SigOf[e]])
  <2>1. \A e \in SigEvents : BaseOf[e] = b
    BY DEF Sane, OneBase
  <2> QED
    BY <2>1 DEF Deliver, Lists
<1>14. Lists(b)'
  BY <1>5, <1>10, <1>11, <1>13 DEF Lists
<1>15. Installed(b)'
  BY <1>3, <1>5, <1>10 DEF Installed, Listening
<1>16. Woken(b)'
  <2>1. told => sig[b].pair > 0
    BY DEF Wakeups
  <2>2. Pair > 1
    BY DEF OneBase
  <2> QED
    BY <1>5, <1>6, <1>10, <2>1, <2>2 DEF Woken
<1>17. Wakeups(b)'
  <2>1. told' => sig'[b].pair > 0
    BY <1>5, <1>6, <1>10 DEF Wakeups
  <2>2. pc' # "wait"
    BY DEF Deliver
  <2> QED
    BY <1>10, <1>11, <1>16, <2>1, <2>2 DEF Wakeups
<1>18. NotForgotten'
  <2> SUFFICES ASSUME NEW e \in owed'
               PROVE  \/ sig'[b].count[SigOf[e]] > 0
                      \/ cur = b /\ scan.i = SigOf[e] /\ pc' = "active" /\ In(e, scan.todo)
    BY <1>9, <1>10 DEF NotForgotten, Sane, OneBase, Typed
  <2>1. e \in SigEvents /\ BaseOf[e] = b /\ SigOf[e] \in Sigs
    BY <1>9 DEF Typed, Sane, OneBase
  <2>2. CASE SigOf[e] = s
    BY <1>6, <1>7, <2>2
  <2>3. CASE SigOf[e] # s
    <3>1. e \in owed
      BY <2>3 DEF Deliver
    <3>2. sig'[b].count[SigOf[e]] = sig[b].count[SigOf[e]]
      BY <1>7, <2>1, <2>3
    <3> QED
      BY <1>11, <2>1, <3>1, <3>2 DEF NotForgotten
  <2> QED
    BY <2>2, <2>3
<1> QED
  BY <1>9, <1>12, <1>14, <1>15, <1>17, <1>18

\* evsignal_del(): the event leaves its list; the last one puts the old handler back.
LEMMA EvsignalDeleted ==
  ASSUME Sane, NEW b, OneBase(b), SigInv(b), NEW e \in SigEvents, In(e, sig[b].events[SigOf[e]]),
         EvsignalDel(e), UNCHANGED <<evsignal_base, faults>>
  PROVE  /\ sig' \in [Bases -> Records] /\ disp' \in [Sigs -> {"dfl", "ours", "garbage"}]
         /\ sig'[b].alive = sig[b].alive /\ sig'[b].added = sig[b].added
         /\ sig'[b].caught = sig[b].caught /\ sig'[b].pair = sig[b].pair
         /\ sig'[b].count = sig[b].count
         /\ \A t \in Sigs : Apart(sig'[b].events[t])
         /\ \A t \in Sigs, x \in SigEvents : In(x, sig'[b].events[t]) <=> In(x, sig[b].events[t]) /\ x # e
         /\ Installed(b)'
<1> USE DEF SigInv
<1>1. PICK s : s = SigOf[e]
  OBVIOUS
<1>2. PICK rest : rest = Without(sig[b].events[s], e)
  OBVIOUS
<1>3. /\ BaseOf[e] = b /\ b \in Bases /\ s \in Sigs /\ sig[b] \in Records /\ sig \in [Bases -> Records]
      /\ sig[b].events \in [Sigs -> Seq(SigEvents)] /\ sig[b].old \in [Sigs -> Handlers \cup {None}]
      /\ disp \in [Sigs -> {"dfl", "ours", "garbage"}]
  BY <1>1 DEF Typed, TypeOK, OneBase, Sane, Records
<1>4. /\ rest \in Seq(SigEvents) /\ Apart(rest)
      /\ \A x : In(x, rest) <=> In(x, sig[b].events[s]) /\ x # e
  <2>1. sig[b].events[s] \in Seq(SigEvents) /\ In(e, sig[b].events[s]) /\ Apart(sig[b].events[s])
    BY <1>1, <1>3 DEF Lists
  <2> QED
    BY <1>2, <2>1, Removed
<1>5. Listening(b, s) /\ disp[s] = "ours" /\ sig[b].old[s] = "dfl" /\ evsignal_base = b
  <2>1. sig[b].events[s] # <<>>
    BY <1>1 DEF In
  <2> QED
    BY <1>3, <2>1 DEF Installed, Listening
<1>6. sig' = [sig EXCEPT ![b].events[s] = rest, ![b].old[s] = IF rest = <<>> THEN None ELSE @]
  BY <1>1, <1>2, <1>3 DEF EvsignalDel, Deleted
<1>7. /\ sig'[b] = [sig[b] EXCEPT !.events[s] = rest, !.old[s] = IF rest = <<>> THEN None ELSE @]
      /\ sig' = [sig EXCEPT ![b] = sig'[b]]
  BY <1>3, <1>6
<1>8. /\ sig'[b].alive = sig[b].alive /\ sig'[b].added = sig[b].added
      /\ sig'[b].caught = sig[b].caught /\ sig'[b].pair = sig[b].pair
      /\ sig'[b].count = sig[b].count
      /\ sig'[b].events = [sig[b].events EXCEPT ![s] = rest]
      /\ sig'[b].old = [sig[b].old EXCEPT ![s] = IF rest = <<>> THEN None ELSE @]
  BY <1>3, <1>7 DEF Records
<1>9. sig' \in [Bases -> Records]
  <2>1. sig'[b].events \in [Sigs -> Seq(SigEvents)]
    BY <1>3, <1>4, <1>8
  <2>2. sig'[b].old \in [Sigs -> Handlers \cup {None}]
    BY <1>3, <1>8
  <2>3. sig'[b] \in Records
    BY <1>3, <1>7, <1>8, <2>1, <2>2 DEF Records
  <2> QED
    BY <1>3, <1>7, <2>3
<1>10. \A t \in Sigs : /\ sig'[b].events[t] = (IF t = s THEN rest ELSE sig[b].events[t])
                       /\ sig'[b].old[t] = (IF t = s /\ rest = <<>> THEN None ELSE sig[b].old[t])
  BY <1>3, <1>8
<1>11. \A t \in Sigs : Apart(sig'[b].events[t])
  BY <1>4, <1>10 DEF Lists
<1>12. \A t \in Sigs, x \in SigEvents : In(x, sig'[b].events[t]) <=> In(x, sig[b].events[t]) /\ x # e
  <2> SUFFICES ASSUME NEW t \in Sigs, NEW x \in SigEvents
               PROVE  In(x, sig'[b].events[t]) <=> In(x, sig[b].events[t]) /\ x # e
    OBVIOUS
  <2>1. CASE t = s
    BY <1>4, <1>10, <2>1
  <2>2. CASE t # s
    <3>1. In(x, sig[b].events[t]) => x # e
      BY <1>1, <2>2 DEF Lists
    <3> QED
      BY <1>10, <2>2, <3>1
  <2> QED
    BY <2>1, <2>2
<1>13. disp' = IF rest = <<>> THEN [disp EXCEPT ![s] = "dfl"] ELSE disp
  <2>1. "dfl" # None
    BY DEF Sane, Handlers
  <2>2. (sig'[b].old[s] = None) <=> rest = <<>>
    BY <1>3, <1>5, <1>10, <2>1
  <2> QED
    BY <1>1, <1>3, <1>5, <2>2 DEF EvsignalDel, Restored
<1>14. Installed(b)'
  <2>1. \A t \in Sigs : disp'[t] = IF t = s /\ rest = <<>> THEN "dfl" ELSE disp[t]
    BY <1>3, <1>13
  <2> QED
    BY <1>5, <1>8, <1>10, <2>1 DEF Installed, Listening
<1> QED
  BY <1>3, <1>8, <1>9, <1>11, <1>12, <1>13, <1>14

\* event_del() of a signal event, by the program.
LEMMA DelKeeps ==
  ASSUME Sane, NEW b, OneBase(b), SigInv(b), NEW e \in SigEvents, Del(e)
  PROVE  SigInv(b)'
<1> USE DEF SigInv
<1>1. BaseOf[e] = b
  BY DEF Sane, OneBase
<1>2. /\ sig' \in [Bases -> Records] /\ disp' \in [Sigs -> {"dfl", "ours", "garbage"}]
      /\ sig'[b].alive = sig[b].alive /\ sig'[b].caught = sig[b].caught
      /\ sig'[b].pair = sig[b].pair /\ sig'[b].count = sig[b].count
      /\ \A t \in Sigs : Apart(sig'[b].events[t])
      /\ \A t \in Sigs, x \in SigEvents : In(x, sig'[b].events[t]) <=> In(x, sig[b].events[t]) /\ x # e
      /\ Installed(b)'
  BY <1>1, EvsignalDeleted DEF Del
<1>3. /\ pc \in {"prog", "cb"} /\ calls' = calls - 1 /\ calls > 0 /\ owed' = owed \ {e}
      /\ pc' = pc /\ cur' = cur /\ told' = told /\ scan' = scan /\ signals' = signals
      /\ evsignal_base' = evsignal_base
  BY DEF Del, Call
<1>4. Typed'
  <2>1. calls' \in Nat
    BY <1>3 DEF Typed
  <2> QED
    BY <1>2, <1>3, <2>1 DEF Typed, TypeOK
<1>5. Counters(b)'
  BY <1>2, <1>3 DEF Counters
<1>6. \A x \in owed' : x \in owed /\ x \in SigEvents /\ SigOf[x] \in Sigs /\ BaseOf[x] = b
  BY <1>3 DEF Typed, Sane, OneBase
<1>7. Lists(b)'
  <2>1. \A x \in owed' : In(x, sig'[b].events[SigOf[x]])
    BY <1>2, <1>3, <1>6 DEF Lists
  <2> QED
    BY <1>2, <1>3, <2>1 DEF Lists
<1>8. Wakeups(b)'
  <2>1. Woken(b) => Woken(b)'
    BY <1>2, <1>3 DEF Woken
  <2> QED
    BY <1>2, <1>3, <1>6, <2>1 DEF Wakeups, Ahead
<1>9. NotForgotten'
  BY <1>2, <1>3, <1>6 DEF NotForgotten
<1> QED
  BY <1>2, <1>4, <1>5, <1>7, <1>8, <1>9

\* evsignal_add(): the first event of a signal saves the old handler and installs the
\* library's; without memory for the old handler nothing changes.
LEMMA AddKeeps ==
  ASSUME Sane, NEW b, OneBase(b), SigInv(b), NEW e \in SigEvents, Add(e)
  PROVE  SigInv(b)'
<1> USE DEF SigInv
<1>1. PICK s : s = SigOf[e]
  OBVIOUS
<1>2. PICK q : q = sig[b].events[s]
  OBVIOUS
<1>3. /\ BaseOf[e] = b /\ b \in Bases /\ s \in Sigs /\ sig[b] \in Records /\ sig \in [Bases -> Records]
      /\ sig[b].events \in [Sigs -> Seq(SigEvents)] /\ sig[b].old \in [Sigs -> Handlers \cup {None}]
      /\ disp \in [Sigs -> {"dfl", "ours", "garbage"}]
  BY <1>1 DEF Typed, TypeOK, OneBase, Sane, Records
<1>4. /\ pc \in {"prog", "cb"} /\ calls' = calls - 1 /\ calls > 0 /\ owed' = owed
      /\ pc' = pc /\ cur' = cur /\ told' = told /\ scan' = scan /\ signals' = signals /\ faults' = faults
      /\ sig[b].alive /\ ~In(e, q)
  BY <1>1, <1>2, <1>3 DEF Add, Call
<1>5. /\ Append(q, e) \in Seq(SigEvents) /\ Append(q, e) # <<>> /\ Apart(Append(q, e))
      /\ \A x : In(x, Append(q, e)) <=> In(x, q) \/ x = e
  <2>1. q \in Seq(SigEvents) /\ Apart(q)
    BY <1>2, <1>3 DEF Lists
  <2> QED
    BY <1>4, <2>1, Appended
\* What the three outcomes have in common.
<1>6. /\ sig' \in [Bases -> Records] /\ disp' \in [Sigs -> {"dfl", "ours", "garbage"}]
      /\ evsignal_base' \in Bases \cup {None}
      /\ sig'[b].alive = sig[b].alive /\ sig'[b].caught = sig[b].caught
      /\ sig'[b].pair = sig[b].pair /\ sig'[b].count = sig[b].count
      /\ \A t \in Sigs : \/ sig'[b].events[t] = sig[b].events[t]
                         \/ t = s /\ sig'[b].events[t] = Append(q, e)
      /\ Installed(b)'
  <2>1. CASE /\ q # <<>>
             /\ sig' = [sig EXCEPT ![b] = [sig[b] EXCEPT !.events[s] = Append(@, e)]]
             /\ UNCHANGED <<disp, evsignal_base>>
    <3>1. sig'[b] = [sig[b] EXCEPT !.events[s] = Append(@, e)]
      BY <1>3, <2>1
    <3>2. /\ sig'[b].alive = sig[b].alive /\ sig'[b].added = sig[b].added
          /\ sig'[b].caught = sig[b].caught /\ sig'[b].pair = sig[b].pair
          /\ sig'[b].count = sig[b].count /\ sig'[b].old = sig[b].old
          /\ sig'[b].events = [sig[b].events EXCEPT ![s] = Append(q, e)]
      BY <1>2, <1>3, <3>1 DEF Records
    <3>3. sig'[b].events \in [Sigs -> Seq(SigEvents)]
      BY <1>3, <1>5, <3>2
    <3>4. sig'[b] \in Records
      BY <1>3, <3>1, <3>2, <3>3 DEF Records
    <3>5. sig' \in [Bases -> Records]
      BY <1>3, <2>1, <3>1, <3>4
    <3>6. \A t \in Sigs : sig'[b].events[t] = IF t = s THEN Append(q, e) ELSE sig[b].events[t]
      BY <1>3, <3>2
    <3>7. Installed(b)'
      BY <1>2, <1>4, <1>5, <2>1, <3>2, <3>6 DEF Installed, Listening
    <3> QED
      BY <1>3, <2>1, <3>2, <3>5, <3>6, <3>7 DEF Typed, TypeOK
  <2>2. CASE /\ q = <<>>
             /\ sig' = [sig EXCEPT ![b] = [[[sig[b] EXCEPT !.old[s] = disp[s]] EXCEPT !.added = TRUE]
                                             EXCEPT !.events[s] = Append(@, e)]]
             /\ disp' = [disp EXCEPT ![s] = "ours"]
             /\ evsignal_base' = b
    <3>1. disp[s] = "dfl"
      BY <1>2, <1>3, <2>2 DEF Installed, Listening
    <3>2. sig'[b] = [[[sig[b] EXCEPT !.old[s] = disp[s]] EXCEPT !.added = TRUE]
                       EXCEPT !.events[s] = Append(@, e)]
      BY <1>3, <2>2
    <3>3. /\ sig'[b].alive = sig[b].alive /\ sig'[b].added
          /\ sig'[b].caught = sig[b].caught /\ sig'[b].pair = sig[b].pair
          /\ sig'[b].count = sig[b].count
          /\ sig'[b].old = [sig[b].old EXCEPT ![s] = "dfl"]
          /\ sig'[b].events = [sig[b].events EXCEPT ![s] = Append(q, e)]
      BY <1>2, <1>3, <3>1, <3>2 DEF Records
    <3>4. sig'[b].events \in [Sigs -> Seq(SigEvents)] /\ sig'[b].old \in [Sigs -> Handlers \cup {None}]
      <4>1. "dfl" \in Handlers \cup {None}
        BY DEF Handlers
      <4> QED
        BY <1>3, <1>5, <3>3, <4>1
    <3>5. sig'[b] \in Records
      BY <1>3, <3>2, <3>3, <3>4 DEF Records
    <3>6. sig' \in [Bases -> Records] /\ disp' \in [Sigs -> {"dfl", "ours", "garbage"}]
      BY <1>3, <2>2, <3>2, <3>5
    <3>7. \A t \in Sigs : /\ sig'[b].events[t] = (IF t = s THEN Append(q, e) ELSE sig[b].events[t])
                          /\ sig'[b].old[t] = (IF t = s THEN "dfl" ELSE sig[b].old[t])
                          /\ disp'[t] = (IF t = s THEN "ours" ELSE disp[t])
      <4>1. disp' = [disp EXCEPT ![s] = "ours"]
        BY <2>2
      <4>2. \A t \in Sigs : sig'[b].events[t] = (IF t = s THEN Append(q, e) ELSE sig[b].events[t])
        BY <1>3, <3>3
      <4>3. \A t \in Sigs : sig'[b].old[t] = (IF t = s THEN "dfl" ELSE sig[b].old[t])
        BY <1>3, <3>3
      <4> QED
        BY <1>3, <4>1, <4>2, <4>3
    <3>8. Installed(b)'
      BY <1>4, <1>5, <2>2, <3>3, <3>7 DEF Installed, Listening
    <3> QED
      BY <1>3, <2>2, <3>3, <3>6, <3>7, <3>8
  <2>3. CASE /\ q = <<>>
             /\ sig' = [sig EXCEPT ![b].old[s] = None]
             /\ UNCHANGED <<disp, evsignal_base>>
    <3>1. sig[b].old[s] = None
      BY <1>2, <1>3, <2>3 DEF Installed, Listening
    <3>2. sig'[b] = [sig[b] EXCEPT !.old[s] = None]
      BY <1>3, <2>3
    <3>3. /\ sig'[b].alive = sig[b].alive /\ sig'[b].added = sig[b].added
          /\ sig'[b].caught = sig[b].caught /\ sig'[b].pair = sig[b].pair
          /\ sig'[b].count = sig[b].count /\ sig'[b].events = sig[b].events
          /\ sig'[b].old = [sig[b].old EXCEPT ![s] = None]
      BY <1>3, <3>2 DEF Records
    <3>4. sig'[b].old \in [Sigs -> Handlers \cup {None}] /\ \A t \in Sigs : sig'[b].old[t] = sig[b].old[t]
      BY <1>3, <3>1, <3>3
    <3>5. sig'[b] \in Records
      BY <1>3, <3>2, <3>3, <3>4 DEF Records
    <3>6. sig' \in [Bases -> Records]
      BY <1>3, <2>3, <3>2, <3>5
    <3>7. Installed(b)'
      BY <1>4, <2>3, <3>3, <3>4 DEF Installed, Listening
    <3> QED
      BY <1>3, <2>3, <3>3, <3>6, <3>7 DEF Typed, TypeOK
  <2>4. "sigaction" \notin Faults /\ "ev_signal" \notin Faults
    BY DEF OneBase
  <2> QED
    BY <1>1, <1>2, <1>3, <2>1, <2>2, <2>3, <2>4 DEF Add
<1>7. Typed'
  <2>1. calls' \in Nat
    BY <1>4 DEF Typed
  <2> QED
    BY <1>4, <1>6, <2>1 DEF Typed, TypeOK
<1>8. Counters(b)'
  BY <1>4, <1>6 DEF Counters
<1>9. \A x \in owed' : x \in owed /\ x \in SigEvents /\ SigOf[x] \in Sigs /\ BaseOf[x] = b
  BY <1>4 DEF Typed, Sane, OneBase
<1>10. \A t \in Sigs, x \in SigEvents : In(x, sig'[b].events[t]) => In(x, sig[b].events[t]) \/ (x = e /\ t = s)
  BY <1>2, <1>5, <1>6
<1>11. \A t \in Sigs, x \in SigEvents : In(x, sig[b].events[t]) => In(x, sig'[b].events[t])
  BY <1>2, <1>5, <1>6
<1>12. Lists(b)'
  <2>1. \A t \in Sigs : Apart(sig'[b].events[t])
    BY <1>5, <1>6 DEF Lists
  <2>2. \A t \in Sigs, x \in SigEvents : In(x, sig'[b].events[t]) => SigOf[x] = t
    BY <1>1, <1>10 DEF Lists
  <2>3. \A x \in owed' : In(x, sig'[b].events[SigOf[x]])
    BY <1>9, <1>11 DEF Lists
  <2> QED
    BY <1>4, <2>1, <2>2, <2>3 DEF Lists
<1>13. Wakeups(b)'
  <2>1. Woken(b) => Woken(b)'
    BY <1>4, <1>6 DEF Woken
  <2> QED
    BY <1>4, <1>6, <1>9, <2>1 DEF Wakeups, Ahead
<1>14. NotForgotten'
  BY <1>4, <1>6, <1>9 DEF NotForgotten
<1> QED
  BY <1>6, <1>7, <1>8, <1>12, <1>13, <1>14

\* evsignal_dealloc(): what was saved is restored, and nothing listens any more.
LEMMA FreeKeeps ==
  ASSUME Sane, NEW b, OneBase(b), SigInv(b), Free(b)
  PROVE  SigInv(b)'
<1> USE DEF SigInv
<1>1. PICK n : n = [NewSig EXCEPT !.alive = FALSE]
  OBVIOUS
<1>2. /\ n \in Records /\ n.caught = FALSE /\ n.pair = 0 /\ n.alive = FALSE
      /\ \A t \in Sigs : n.count[t] = 0 /\ n.events[t] = <<>> /\ n.old[t] = None
  <2>1. <<>> \in Seq(SigEvents) /\ 0 \in 0..Pair /\ 0 \in 0..MaxSignals
    BY DEF Sane
  <2> QED
    BY <1>1, <2>1 DEF NewSig, Records, Handlers
<1>3. /\ b \in Bases /\ sig \in [Bases -> Records] /\ sig' = [sig EXCEPT ![b] = n]
  BY <1>1 DEF OneBase, Typed, TypeOK, Free
<1>4. sig' \in [Bases -> Records] /\ sig'[b] = n
  BY <1>2, <1>3
<1>5. /\ pc = "prog" /\ pc' = pc /\ calls' = calls - 1 /\ calls > 0 /\ signals' = signals
      /\ evsignal_base' = evsignal_base /\ cur' = cur /\ told' = told /\ scan' = scan
  BY DEF Free
<1>6. owed' = {}
  BY DEF Free, Typed, Sane, OneBase
<1>7. ~told
  BY <1>5 DEF Wakeups
<1>8. /\ \A t \in Sigs : disp'[t] = "dfl"
      /\ disp' \in [Sigs -> {"dfl", "ours", "garbage"}]
  <2>1. \A t \in Sigs : /\ sig[b].old[t] # None => sig[b].old[t] = "dfl"
                        /\ sig[b].old[t] = None => disp[t] = "dfl"
    BY DEF Installed, Sane, Handlers
  <2>2. disp \in [Sigs -> {"dfl", "ours", "garbage"}]
    BY DEF Typed, TypeOK
  <2>3. \A t \in Sigs : disp'[t] = "dfl"
    BY <2>1, <2>2 DEF Free, Restored
  <2>4. disp' = [t \in Sigs |-> disp'[t]]
    BY DEF Free
  <2> QED
    BY <2>3, <2>4
<1>9. faults' = {}
  <2>1. \A t \in Sigs : sig[b].old[t] # "freed"
    BY DEF Installed, Sane, Handlers
  <2> QED
    BY <2>1 DEF Free, Installed
<1>10. Typed'
  <2>1. calls' \in Nat
    BY <1>5 DEF Typed
  <2> QED
    BY <1>4, <1>5, <1>6, <1>8, <2>1 DEF Typed, TypeOK
<1>11. Counters(b)'
  <2>1. signals \in 0..MaxSignals /\ MaxSignals \in Nat
    BY DEF Typed, Sane
  <2>2. \A t \in Sigs : sig'[b].count[t] <= MaxSignals - signals
    BY <1>2, <1>4, <2>1
  <2> QED
    BY <1>5, <2>2 DEF Counters
<1>12. Lists(b)'
  <2>1. Apart(<<>>) /\ \A x : ~In(x, <<>>)
    BY DEF Apart, In
  <2> QED
    BY <1>2, <1>4, <1>5, <1>6, <2>1 DEF Lists
<1>13. Installed(b)'
  BY <1>2, <1>4, <1>8, <1>9 DEF Installed, Listening
<1>14. Wakeups(b)' /\ NotForgotten'
  BY <1>5, <1>6, <1>7 DEF Wakeups, NotForgotten
<1> QED
  BY <1>10, <1>11, <1>12, <1>13, <1>14

\* evsignal_process() activates the next event of the list, and deletes it without
\* EV_PERSIST.
LEMMA ActivateKeeps ==
  ASSUME Sane, NEW b, OneBase(b), SigInv(b), Activate
  PROVE  SigInv(b)'
<1> USE DEF SigInv
<1>1. /\ pc = "active" /\ cur = b /\ scan.i \in Sigs /\ sig[b].alive /\ cur' = cur /\ told' = told
      /\ signals' = signals /\ calls' = calls /\ faults' = faults /\ evsignal_base' = evsignal_base
  BY DEF Activate, Counters
<1>2. scan.i \in Nat /\ scan.todo \in Seq(SigEvents) /\ Apart(scan.todo)
  BY <1>1 DEF Typed, Lists
<1>3. CASE scan.todo = <<>>
  <2>1. /\ pc' = "scan" /\ scan' = [NoScan EXCEPT !.i = scan.i + 1]
        /\ sig' = sig /\ disp' = disp /\ owed' = owed
    BY <1>3 DEF Activate
  <2>2. scan' \in [i : Nat, ncalls : Nat, old : Nat, todo : Seq(SigEvents)] /\ scan'.i = scan.i + 1
    <3>1. PICK i : i = scan.i + 1
      OBVIOUS
    <3>2. i \in Nat /\ <<>> \in Seq(SigEvents) /\ scan' = [NoScan EXCEPT !.i = i]
      BY <1>2, <2>1, <3>1
    <3> QED
      BY <3>1, <3>2 DEF NoScan
  <2>3. \A e \in owed : ~In(e, scan.todo) /\ SigOf[e] \in Nat
    <3>1. \A e : ~In(e, scan.todo)
      BY <1>3 DEF In
    <3>2. \A e \in owed : SigOf[e] \in Nat
      BY DEF Typed, Sane
    <3> QED
      BY <3>1, <3>2
  <2>4. Typed' /\ Counters(b)' /\ Lists(b)' /\ Installed(b)'
    BY <1>1, <2>1, <2>2 DEF Typed, TypeOK, Counters, Lists, Installed, Listening
  <2>5. Wakeups(b)'
    <3>1. \A e \in owed : Ahead(e) => Ahead(e)'
      BY <1>1, <1>2, <2>1, <2>2, <2>3 DEF Ahead
    <3>2. Woken(b) => Woken(b)'
      BY <1>1, <2>1 DEF Woken
    <3> QED
      BY <1>1, <2>1, <3>1, <3>2 DEF Wakeups
  <2>6. NotForgotten'
    BY <1>1, <2>1, <2>3 DEF NotForgotten
  <2> QED
    BY <2>4, <2>5, <2>6
<1>4. CASE scan.todo # <<>>
  <2>1. PICK e : e = Head(scan.todo)
    OBVIOUS
  <2>2. PICK rest : rest = Tail(scan.todo)
    OBVIOUS
  <2>3. /\ e \in SigEvents /\ rest \in Seq(SigEvents) /\ Apart(rest) /\ In(e, scan.todo) /\ ~In(e, rest)
        /\ \A x : In(x, scan.todo) <=> x = e \/ In(x, rest)
    BY <1>2, <1>4, <2>1, <2>2, Behead
  <2>4. /\ pc' = pc /\ scan' = [scan EXCEPT !.todo = rest] /\ owed' = owed \ {e}
        /\ (sig' = sig /\ disp' = disp) \/ EvsignalDel(e)
    BY <1>4, <2>1, <2>2 DEF Activate
  <2>5. /\ scan' \in [i : Nat, ncalls : Nat, old : Nat, todo : Seq(SigEvents)]
        /\ scan'.i = scan.i /\ scan'.todo = rest
    <3>1. scan \in [i : Nat, ncalls : Nat, old : Nat, todo : Seq(SigEvents)]
      BY DEF Typed
    <3> QED
      BY <2>3, <2>4, <3>1
  <2>6. In(e, sig[b].events[scan.i]) /\ SigOf[e] = scan.i
    BY <1>1, <2>3 DEF Lists
  <2>7. /\ sig' \in [Bases -> Records] /\ disp' \in [Sigs -> {"dfl", "ours", "garbage"}]
        /\ sig'[b].alive = sig[b].alive /\ sig'[b].caught = sig[b].caught
        /\ sig'[b].pair = sig[b].pair /\ sig'[b].count = sig[b].count
        /\ \A t \in Sigs : Apart(sig'[b].events[t])
        /\ \A t \in Sigs, x \in SigEvents : In(x, sig'[b].events[t]) => In(x, sig[b].events[t])
        /\ \A t \in Sigs, x \in SigEvents : In(x, sig[b].events[t]) /\ x # e => In(x, sig'[b].events[t])
        /\ Installed(b)'
    <3>1. CASE sig' = sig /\ disp' = disp
      BY <1>1, <3>1 DEF Typed, TypeOK, Lists, Installed, Listening
    <3>2. CASE EvsignalDel(e)
      <4>1. In(e, sig[b].events[SigOf[e]]) /\ UNCHANGED <<evsignal_base, faults>>
        BY <1>1, <2>6
      <4> QED
        BY <2>3, <3>2, <4>1, EvsignalDeleted
    <3> QED
      BY <2>4, <3>1, <3>2
  <2>8. \A x \in owed' : x \in owed /\ x \in SigEvents /\ SigOf[x] \in Sigs /\ BaseOf[x] = b /\ x # e
    BY <2>4 DEF Typed, Sane, OneBase
  <2>9. Typed'
    BY <1>1, <2>4, <2>5, <2>7, <2>8 DEF Typed, TypeOK
  <2>10. Counters(b)'
    BY <1>1, <2>4, <2>5, <2>7 DEF Counters
  <2>11. Lists(b)'
    <3>1. \A t \in Sigs, x \in SigEvents : In(x, sig'[b].events[t]) => SigOf[x] = t
      BY <2>7 DEF Lists
    <3>2. \A x \in owed' : In(x, sig'[b].events[SigOf[x]])
      BY <2>7, <2>8 DEF Lists
    <3>3. \A x \in SigEvents : In(x, rest) => In(x, sig'[b].events[scan.i])
      BY <1>1, <2>3, <2>7 DEF Lists
    <3> QED
      BY <1>1, <2>3, <2>4, <2>5, <2>7, <3>1, <3>2, <3>3 DEF Lists
  <2>12. Wakeups(b)'
    <3>1. \A x \in owed' : Ahead(x) => Ahead(x)'
      BY <1>1, <2>3, <2>4, <2>5, <2>8 DEF Ahead
    <3>2. Woken(b) => Woken(b)'
      BY <1>1, <2>7 DEF Woken
    <3> QED
      BY <1>1, <2>4, <2>7, <2>8, <3>1, <3>2 DEF Wakeups
  <2>13. NotForgotten'
    BY <1>1, <2>3, <2>4, <2>5, <2>7, <2>8 DEF NotForgotten
  <2> QED
    BY <2>7, <2>9, <2>10, <2>11, <2>12, <2>13
<1> QED
  BY <1>3, <1>4

\* The loop goes to wait in the back end, which reports ev_signal or EINTR.
LEMMA LoopKeeps ==
  ASSUME Sane, NEW b, OneBase(b), SigInv(b), Loop(b) \/ Wait \/ Wake \/ Turn
  PROVE  SigInv(b)'
<1> USE DEF SigInv
<1>1. /\ b \in Bases /\ sig \in [Bases -> Records] /\ sig[b] \in Records /\ sig[b].pair \in 0..Pair /\ Pair \in Nat
      /\ \A e \in owed : e \in SigEvents /\ SigOf[e] \in Sigs /\ BaseOf[e] = b
  BY DEF OneBase, Typed, TypeOK, Records, Sane
<1>2. CASE Loop(b)
  <2>1. /\ pc = "prog" /\ pc' = "enter" /\ cur' = b /\ sig' = sig /\ disp' = disp /\ told' = told
        /\ scan' = scan /\ signals' = signals /\ calls' = calls /\ owed' = owed /\ faults' = faults
        /\ evsignal_base' \in {b, evsignal_base} /\ sig[b].alive
    BY <1>2 DEF Loop
  <2>2. Typed' /\ Counters(b)' /\ Lists(b)' /\ Installed(b)'
    BY <1>1, <2>1 DEF Typed, TypeOK, Counters, Lists, Installed, Listening
  <2>3. Wakeups(b)'
    BY <2>1 DEF Wakeups, Ahead, Woken
  <2>4. NotForgotten'
    BY <1>1, <2>1 DEF NotForgotten
  <2> QED
    BY <2>2, <2>3, <2>4
<1>3. CASE Wait
  <2>1. /\ pc = "enter" /\ pc' \in {"ready", "wait"} /\ cur' = cur /\ sig' = sig /\ disp' = disp /\ told' = told
        /\ scan' = scan /\ signals' = signals /\ calls' = calls /\ owed' = owed /\ faults' = faults
        /\ evsignal_base' = evsignal_base /\ cur = b
        /\ pc' = "wait" => ~(sig[b].added /\ sig[b].pair > 0)
    BY <1>3 DEF Wait, thread, Counters
  <2>2. Typed' /\ Counters(b)' /\ Lists(b)' /\ Installed(b)'
    BY <1>1, <2>1 DEF Typed, TypeOK, Counters, Lists, Installed, Listening
  <2>3. ASSUME NEW e \in owed
        PROVE  sig[b].added /\ Woken(b) /\ sig[b].pair > 0
    <3>1. In(e, sig[b].events[SigOf[e]])
      BY DEF Lists
    <3>2. sig[b].events[SigOf[e]] # <<>>
      BY <3>1 DEF In
    <3>3. sig[b].added
      BY <1>1, <3>2 DEF Installed, Listening
    <3>4. Woken(b) /\ ~told
      BY <2>1 DEF Wakeups, Ahead
    <3> QED
      BY <3>3, <3>4 DEF Woken
  <2>4. Wakeups(b)'
    <3>1. \A e \in owed : Woken(b)'
      BY <2>1, <2>3 DEF Woken
    <3> QED
      BY <2>1, <2>3, <3>1 DEF Wakeups
  <2>5. NotForgotten'
    BY <1>1, <2>1 DEF NotForgotten
  <2> QED
    BY <2>2, <2>4, <2>5
<1>4. CASE Wake
  <2>1. /\ pc \in {"wait", "ready"} /\ cur' = cur /\ sig' = sig /\ disp' = disp
        /\ scan' = scan /\ signals' = signals /\ calls' = calls /\ owed' = owed /\ faults' = faults
        /\ evsignal_base' = evsignal_base /\ cur = b
        /\ pc' = IF sig[b].caught THEN "process" ELSE "cb"
        /\ told' = (sig[b].added /\ sig[b].pair > 0)
    BY <1>4 DEF Wake, thread, Counters
  <2>2. told' \in BOOLEAN
    BY <2>1
  <2>3. Typed' /\ Counters(b)' /\ Lists(b)' /\ Installed(b)'
    BY <1>1, <2>1, <2>2 DEF Typed, TypeOK, Counters, Lists, Installed, Listening
  <2>4. \A e \in owed : pc' = "process"
    BY <2>1 DEF Wakeups, Ahead, Woken
  <2>5. Wakeups(b)'
    BY <2>1, <2>4 DEF Wakeups, Ahead
  <2>6. NotForgotten'
    BY <1>1, <2>1 DEF NotForgotten
  <2> QED
    BY <2>3, <2>5, <2>6
<1>5. CASE Turn
  <2>1. /\ pc = "cb" /\ pc' \in {"enter", "prog"} /\ cur' = cur /\ disp' = disp /\ told' = FALSE
        /\ scan' = scan /\ signals' = signals /\ calls' = calls /\ owed' = owed /\ faults' = faults
        /\ evsignal_base' = evsignal_base /\ cur = b
        /\ sig' = IF told THEN [sig EXCEPT ![b].pair = @ - 1] ELSE sig
    BY <1>5 DEF Turn, thread, Counters
  <2>2. /\ sig'[b].alive = sig[b].alive /\ sig'[b].added = sig[b].added
        /\ sig'[b].caught = sig[b].caught /\ sig'[b].count = sig[b].count
        /\ sig'[b].events = sig[b].events /\ sig'[b].old = sig[b].old
        /\ sig'[b].pair = (IF told THEN sig[b].pair - 1 ELSE sig[b].pair)
        /\ sig' \in [Bases -> Records]
    <3>1. CASE told
      <4>1. /\ sig'[b] = [sig[b] EXCEPT !.pair = @ - 1] /\ sig' = [sig EXCEPT ![b] = sig'[b]]
        BY <1>1, <2>1, <3>1
      <4>2. sig[b].pair - 1 \in 0..Pair
        BY <1>1, <3>1 DEF Wakeups
      <4>3. sig'[b] \in Records
        BY <1>1, <4>1, <4>2 DEF Records
      <4>4. sig' \in [Bases -> Records]
        BY <1>1, <4>1, <4>3
      <4> QED
        BY <1>1, <3>1, <4>1, <4>4 DEF Records
    <3>2. CASE ~told
      BY <1>1, <2>1, <3>2
    <3> QED
      BY <3>1, <3>2
  <2>3. Typed' /\ Counters(b)' /\ Lists(b)' /\ Installed(b)'
    <3>1. Typed'
      BY <2>1, <2>2 DEF Typed, TypeOK
    <3>2. Counters(b)'
      BY <2>1, <2>2 DEF Counters
    <3>3. Lists(b)'
      BY <2>1, <2>2 DEF Lists
    <3>4. Installed(b)'
      BY <2>1, <2>2 DEF Installed, Listening
    <3> QED
      BY <3>1, <3>2, <3>3, <3>4
  <2>4. Woken(b) => Woken(b)'
    BY <1>1, <2>1, <2>2 DEF Woken
  <2>5. Wakeups(b)'
    <3>1. \A e \in owed : Woken(b)
      BY <2>1 DEF Wakeups, Ahead
    <3> QED
      BY <2>1, <2>4, <3>1 DEF Wakeups
  <2>6. NotForgotten'
    BY <1>1, <2>1, <2>2 DEF NotForgotten
  <2> QED
    BY <2>3, <2>5, <2>6
<1> QED
  BY <1>2, <1>3, <1>4, <1>5

LEMMA LastSigIs ==
  ASSUME Sane
  PROVE  LastSig \in Nat /\ \A t \in Sigs : t <= LastSig
BY DEF Sane, LastSig

\* evsignal_process(): a signal is passed only when its counter is 0 or its events have
\* been taken up, also when the handler runs between the halves of the subtraction.
LEMMA ScanKeeps ==
  ASSUME Sane, NEW b, OneBase(b), SigInv(b), Process \/ Read \/ Load \/ Store \/ Scanned
  PROVE  SigInv(b)'
<1> USE DEF SigInv
<1>1. /\ b \in Bases /\ sig \in [Bases -> Records] /\ sig[b] \in Records
      /\ sig[b].count \in [Sigs -> 0..MaxSignals] /\ MaxSignals \in Nat
      /\ scan \in [i : Nat, ncalls : Nat, old : Nat, todo : Seq(SigEvents)] /\ <<>> \in Seq(SigEvents)
      /\ \A e \in owed : e \in SigEvents /\ SigOf[e] \in Sigs /\ BaseOf[e] = b
      /\ \A s \in Sigs : s \in Nat /\ s >= 1
  <2>1. b \in Bases /\ sig \in [Bases -> Records] /\ sig[b] \in Records
    BY DEF OneBase, Typed, TypeOK
  <2>2. sig[b].count \in [Sigs -> 0..MaxSignals]
    BY <2>1 DEF Records
  <2>3. scan \in [i : Nat, ncalls : Nat, old : Nat, todo : Seq(SigEvents)] /\ <<>> \in Seq(SigEvents)
    BY DEF Typed
  <2>4. \A e \in owed : e \in SigEvents /\ SigOf[e] \in Sigs /\ BaseOf[e] = b
    BY DEF OneBase, Typed, Sane
  <2>5. MaxSignals \in Nat /\ \A s \in Sigs : s \in Nat /\ s >= 1
    BY DEF Sane
  <2> QED
    BY <2>1, <2>2, <2>3, <2>4, <2>5
<1>2. CASE Process
  <2>1. /\ pc = "process" /\ pc' = "scan" /\ cur' = cur /\ disp' = disp /\ told' = told
        /\ signals' = signals /\ calls' = calls /\ owed' = owed /\ faults' = faults
        /\ evsignal_base' = evsignal_base /\ cur = b
        /\ sig' = [sig EXCEPT ![b].caught = FALSE] /\ scan' = [NoScan EXCEPT !.i = 1]
    BY <1>2 DEF Process, thread, Counters
  <2>2. /\ sig'[b] = [sig[b] EXCEPT !.caught = FALSE] /\ sig' = [sig EXCEPT ![b] = sig'[b]]
    BY <1>1, <2>1
  <2>3. sig'[b] \in Records
    BY <1>1, <2>2 DEF Records
  <2>4. /\ sig'[b].alive = sig[b].alive /\ sig'[b].added = sig[b].added
        /\ sig'[b].pair = sig[b].pair /\ sig'[b].count = sig[b].count
        /\ sig'[b].events = sig[b].events /\ sig'[b].old = sig[b].old
        /\ sig' \in [Bases -> Records]
    BY <1>1, <2>2, <2>3 DEF Records
  <2>5. /\ scan' \in [i : Nat, ncalls : Nat, old : Nat, todo : Seq(SigEvents)] /\ scan'.i = 1
    BY <1>1, <2>1 DEF NoScan
  <2>6. Typed'
    BY <2>1, <2>4, <2>5 DEF Typed, TypeOK
  <2>7. Counters(b)' /\ Lists(b)'
    BY <2>1, <2>4 DEF Counters, Lists
  <2>8. Installed(b)'
    BY <2>1, <2>4 DEF Installed, Listening
  <2>9. Wakeups(b)'
    <3>1. \A e \in owed : Ahead(e)'
      BY <1>1, <2>1, <2>5 DEF Ahead
    <3> QED
      BY <2>1, <2>4, <3>1 DEF Wakeups
  <2>10. NotForgotten'
    BY <1>1, <2>1, <2>4 DEF NotForgotten
  <2> QED
    BY <2>6, <2>7, <2>8, <2>9, <2>10
<1>3. CASE Read
  <2>1. PICK n : n = IF scan.i \in Sigs THEN sig[b].count[scan.i] ELSE 0
    OBVIOUS
  <2>2. /\ pc = "scan" /\ cur' = cur /\ disp' = disp /\ told' = told /\ sig' = sig
        /\ signals' = signals /\ calls' = calls /\ owed' = owed /\ faults' = faults
        /\ evsignal_base' = evsignal_base /\ cur = b
        /\ scan' = IF n = 0 THEN [scan EXCEPT !.i = @ + 1] ELSE [scan EXCEPT !.ncalls = n]
        /\ pc' = IF n = 0 THEN "scan" ELSE "load"
    BY <1>3, <2>1 DEF Read, thread, Counters
  <2>3. n \in Nat
    BY <1>1, <2>1
  <2>4. /\ scan' \in [i : Nat, ncalls : Nat, old : Nat, todo : Seq(SigEvents)]
        /\ n = 0 => scan'.i = scan.i + 1
        /\ n # 0 => scan'.i = scan.i /\ scan'.ncalls = n
    BY <1>1, <2>2, <2>3
  <2>5. Typed'
    BY <2>2, <2>4 DEF Typed, TypeOK
  <2>6. Counters(b)'
    <3>1. n # 0 => scan.i \in Sigs /\ n = sig[b].count[scan.i]
      BY <2>1
    <3>2. n # 0 => n <= sig[b].count[scan.i]
      BY <2>3, <3>1
    <3> QED
      BY <2>2, <2>4, <3>1, <3>2 DEF Counters
  <2>7. Lists(b)' /\ Installed(b)'
    BY <2>2 DEF Lists, Installed, Listening
  <2>8. Wakeups(b)'
    <3>1. \A e \in owed : Ahead(e) => Ahead(e)'
      <4> SUFFICES ASSUME NEW e \in owed, Ahead(e)
                   PROVE  Ahead(e)'
        OBVIOUS
      <4>1. SigOf[e] >= scan.i /\ SigOf[e] \in Nat /\ scan.i \in Nat
        BY <1>1, <2>2 DEF Ahead
      <4>2. sig[b].count[SigOf[e]] > 0
        BY <1>1, <2>2 DEF NotForgotten
      <4>3. n = 0 => SigOf[e] # scan.i
        BY <1>1, <2>1, <4>2
      <4>4. SigOf[e] >= scan'.i
        BY <2>4, <4>1, <4>3
      <4> QED
        BY <2>2, <4>4 DEF Ahead
    <3>2. Woken(b) => Woken(b)'
      BY <2>2 DEF Woken
    <3> QED
      BY <2>2, <3>1, <3>2 DEF Wakeups
  <2>9. NotForgotten'
    BY <1>1, <2>2 DEF NotForgotten
  <2> QED
    BY <2>5, <2>6, <2>7, <2>8, <2>9
<1>4. CASE Load
  <2>1. PICK n : n = sig[b].count[scan.i]
    OBVIOUS
  <2>2. /\ pc = "load" /\ pc' = "store" /\ cur' = cur /\ disp' = disp /\ told' = told /\ sig' = sig
        /\ signals' = signals /\ calls' = calls /\ owed' = owed /\ faults' = faults
        /\ evsignal_base' = evsignal_base /\ cur = b /\ scan.i \in Sigs /\ scan.ncalls <= n
        /\ n <= MaxSignals - signals /\ scan' = [scan EXCEPT !.old = n]
    BY <1>4, <2>1 DEF Load, thread, Counters
  <2>3. n \in Nat
    BY <1>1, <2>1, <2>2
  <2>4. /\ scan' \in [i : Nat, ncalls : Nat, old : Nat, todo : Seq(SigEvents)]
        /\ scan'.i = scan.i /\ scan'.ncalls = scan.ncalls /\ scan'.old = n
    BY <1>1, <2>2, <2>3
  <2>5. Typed'
    BY <2>2, <2>4 DEF Typed, TypeOK
  <2>6. Counters(b)' /\ Lists(b)' /\ Installed(b)'
    BY <2>2, <2>4 DEF Counters, Lists, Installed, Listening
  <2>7. Wakeups(b)' /\ NotForgotten'
    BY <1>1, <2>2, <2>4 DEF Wakeups, Ahead, Woken, NotForgotten
  <2> QED
    BY <2>5, <2>6, <2>7
<1>5. CASE Store
  <2>1. PICK n : n = scan.old - scan.ncalls
    OBVIOUS
  <2>2. /\ pc = "store" /\ pc' = "active" /\ cur' = cur /\ disp' = disp /\ told' = told
        /\ signals' = signals /\ calls' = calls /\ owed' = owed /\ faults' = faults
        /\ evsignal_base' = evsignal_base /\ cur = b /\ scan.i \in Sigs /\ scan.ncalls <= scan.old
        /\ scan.old <= MaxSignals - signals /\ scan' = [scan EXCEPT !.todo = sig[b].events[scan.i]]
        /\ sig' = [sig EXCEPT ![b].count[scan.i] = n]
    BY <1>5, <2>1 DEF Store, thread, Counters
  <2>3. n \in 0..MaxSignals /\ n <= MaxSignals - signals
    <3>1. signals \in 0..MaxSignals /\ scan.old \in Nat /\ scan.ncalls \in Nat
      BY <1>1 DEF Typed
    <3> QED
      BY <1>1, <2>1, <2>2, <3>1
  <2>4. /\ sig'[b] = [sig[b] EXCEPT !.count[scan.i] = n] /\ sig' = [sig EXCEPT ![b] = sig'[b]]
    BY <1>1, <2>2
  <2>5. /\ sig'[b].alive = sig[b].alive /\ sig'[b].added = sig[b].added
        /\ sig'[b].pair = sig[b].pair /\ sig'[b].caught = sig[b].caught
        /\ sig'[b].events = sig[b].events /\ sig'[b].old = sig[b].old
        /\ sig'[b].count = [sig[b].count EXCEPT ![scan.i] = n]
    BY <1>1, <2>4 DEF Records
  <2>6. sig'[b].count \in [Sigs -> 0..MaxSignals]
    BY <1>1, <2>2, <2>3, <2>5
  <2>7. sig'[b] \in Records
    BY <1>1, <2>4, <2>5, <2>6 DEF Records
  <2>8. sig' \in [Bases -> Records]
    BY <1>1, <2>4, <2>7
  <2>9. \A t \in Sigs : sig'[b].count[t] = IF t = scan.i THEN n ELSE sig[b].count[t]
    BY <1>1, <2>5
  <2>10. /\ scan' \in [i : Nat, ncalls : Nat, old : Nat, todo : Seq(SigEvents)]
         /\ scan'.i = scan.i /\ scan'.todo = sig[b].events[scan.i]
    <3>1. sig[b].events[scan.i] \in Seq(SigEvents)
      BY <1>1, <2>2 DEF Records
    <3> QED
      BY <1>1, <2>2, <3>1
  <2>11. Typed'
    BY <2>2, <2>8, <2>10 DEF Typed, TypeOK
  <2>12. Counters(b)'
    BY <2>2, <2>3, <2>5, <2>9, <2>10 DEF Counters
  <2>13. Lists(b)'
    BY <2>2, <2>5, <2>10 DEF Lists
  <2>14. Installed(b)'
    BY <2>2, <2>5 DEF Installed, Listening
  <2>15. \A e \in owed : SigOf[e] = scan.i => In(e, scan'.todo)
    BY <2>10 DEF Lists
  <2>16. Wakeups(b)'
    <3>1. \A e \in owed : Ahead(e) => Ahead(e)'
      <4> SUFFICES ASSUME NEW e \in owed, Ahead(e)
                   PROVE  Ahead(e)'
        OBVIOUS
      <4>1. SigOf[e] >= scan.i /\ SigOf[e] \in Nat /\ scan.i \in Nat
        BY <1>1, <2>2 DEF Ahead
      <4>2. SigOf[e] > scan.i \/ SigOf[e] = scan.i
        BY <4>1
      <4> QED
        BY <2>2, <2>10, <2>15, <4>2 DEF Ahead
    <3>2. Woken(b) => Woken(b)'
      BY <2>2, <2>5 DEF Woken
    <3> QED
      BY <2>2, <2>5, <3>1, <3>2 DEF Wakeups
  <2>17. NotForgotten'
    BY <1>1, <2>2, <2>9, <2>10, <2>15 DEF NotForgotten
  <2> QED
    BY <2>11, <2>12, <2>13, <2>14, <2>16, <2>17
<1>6. CASE Scanned
  <2>1. /\ pc = "scan" /\ pc' = "cb" /\ cur' = cur /\ disp' = disp /\ told' = told /\ sig' = sig
        /\ signals' = signals /\ calls' = calls /\ owed' = owed /\ faults' = faults
        /\ evsignal_base' = evsignal_base /\ cur = b /\ scan.i > LastSig /\ scan' = NoScan
    BY <1>6 DEF Scanned, thread, Counters
  <2>2. NoScan \in [i : Nat, ncalls : Nat, old : Nat, todo : Seq(SigEvents)]
    BY <1>1 DEF NoScan
  <2>3. Typed'
    BY <2>1, <2>2 DEF Typed, TypeOK
  <2>4. Counters(b)' /\ Lists(b)' /\ Installed(b)'
    BY <2>1 DEF Counters, Lists, Installed, Listening
  <2>5. \A e \in owed : Woken(b)
    <3> SUFFICES ASSUME NEW e \in owed, Ahead(e)
                 PROVE  FALSE
      BY DEF Wakeups
    <3>1. SigOf[e] >= scan.i /\ SigOf[e] \in Nat /\ scan.i \in Nat /\ SigOf[e] \in Sigs
      BY <1>1, <2>1 DEF Ahead
    <3> QED
      BY <2>1, <3>1, LastSigIs
  <2>6. Wakeups(b)'
    BY <2>1, <2>5 DEF Wakeups, Woken
  <2>7. NotForgotten'
    BY <1>1, <2>1 DEF NotForgotten
  <2> QED
    BY <2>3, <2>4, <2>6, <2>7
<1> QED
  BY <1>2, <1>3, <1>4, <1>5, <1>6

LEMMA SigStep ==
  ASSUME Sane, NEW b, OneBase(b), SigInv(b), [Next]_vars
  PROVE  SigInv(b)'
<1>1. CASE \E s \in Sigs : Deliver(s)
  BY <1>1, DeliverKeeps
<1>2. CASE \E e \in SigEvents : Add(e) \/ Del(e)
  BY <1>2, AddKeeps, DelKeeps
<1>3. CASE \E a \in Bases : Free(a) \/ Loop(a)
  BY <1>3, FreeKeeps, LoopKeeps DEF OneBase
<1>4. CASE Wait \/ Wake \/ Turn
  BY <1>4, LoopKeeps
<1>5. CASE Process \/ Read \/ Load \/ Store \/ Scanned
  BY <1>5, ScanKeeps
<1>6. CASE Activate
  BY <1>6, ActivateKeeps
<1>7. CASE UNCHANGED vars
  <2>1. Typed' /\ Counters(b)' /\ Lists(b)'
    BY <1>7 DEF vars, SigInv, Typed, TypeOK, Counters, Lists
  <2>2. Installed(b)' /\ Wakeups(b)' /\ NotForgotten'
    BY <1>7 DEF vars, SigInv, Installed, Listening, Wakeups, Ahead, Woken, NotForgotten
  <2> QED
    BY <2>1, <2>2 DEF SigInv
<1> QED
  BY <1>1, <1>2, <1>3, <1>4, <1>5, <1>6, <1>7 DEF Next

LEMMA SigAlways ==
  ASSUME Sane, NEW b, OneBase(b)
  PROVE  Spec => []SigInv(b)
<1>1. Init => SigInv(b)
  BY SigInit
<1>2. SigInv(b) /\ [Next]_vars => SigInv(b)'
  BY SigStep
<1> QED
  BY <1>1, <1>2, PTL DEF Spec

\* signal.c keeps all of what it promises, whatever the signals, the events and the calls,
\* wherever the handler interrupts the thread: no signal of an event is forgotten, the loop
\* does not sleep over one, handlers are put back, and no freed memory is used.
THEOREM SignalsExact ==
  ASSUME Sane, NEW b, OneBase(b)
  PROVE  Spec => []SignalsSound
<1>1. SigInv(b) => SignalsSound
  <2> SUFFICES ASSUME SigInv(b)
               PROVE  SignalsSound
    OBVIOUS
  <2>1. TypeOK /\ NotForgotten /\ NoSleepOverSignal /\ NoDanglingUse
    BY DEF SigInv, Typed, Wakeups, Installed, NoSleepOverSignal, NoDanglingUse
  <2>2. HandlersRestored
    BY DEF SigInv, Installed, HandlersRestored, OneBase
  <2> QED
    BY <2>1, <2>2 DEF SignalsSound
<1>2. Spec => []SigInv(b)
  BY SigAlways
<1> QED
  BY <1>1, <1>2, PTL
=============================================================================
