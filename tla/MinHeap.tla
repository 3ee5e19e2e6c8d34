------------------------------- MODULE MinHeap -------------------------------
(***************************************************************************)
(* The heap of timeouts (contrib/libevent/min_heap.h).  A heap is          *)
(* [p |-> sequence of events, idx |-> event -> min_heap_idx]; key gives    *)
(* each event its ev_timeout.  Indices count from 0, as in the code.       *)
(***************************************************************************)
EXTENDS Integers, Sequences, FiniteSets

CONSTANTS Events,   \* the events
          MaxKey    \* bound: timeouts are 1..MaxKey

VARIABLES heap,     \* base->timeheap
          key,      \* ev_timeout
          in        \* history: the events that should be in the heap

\* min_heap_ctor() and min_heap_elem_init().
EmptyHeap == [p |-> <<>>, idx |-> [e \in Events |-> -1]]

Parent(i) == (i - 1) \div 2
At(h, i) == h.p[i + 1]
Top(h) == At(h, 0)

\* Event x is put at index i: s->p[i] = x and x->min_heap_idx = i.
Place(h, i, x) == [p |-> IF i = Len(h.p) THEN Append(h.p, x) ELSE [h.p EXCEPT ![i + 1] = x],
                   idx |-> [h.idx EXCEPT ![x] = i]]

\* Where the hole ends that min_heap_shift_up_() moves, and the heap on its way.
ShiftUp(h, hole, e, k) ==
  LET rise[i \in 0..hole] ==
        IF i > 0 /\ k[At(h, Parent(i))] > k[e]
        THEN LET r == rise[Parent(i)] IN [r EXCEPT !.moved = @ \cup {i}]
        ELSE [end |-> i, moved |-> {}]
      r == rise[hole]
      wide == IF hole = Len(h.p) THEN Place(h, hole, e) ELSE h
      Who(i) == IF i = r.end THEN e ELSE At(h, Parent(i))
      set == r.moved \cup {r.end}
  IN  [p |-> [j \in 1..Len(wide.p) |-> IF j - 1 \in set THEN Who(j - 1) ELSE wide.p[j]],
       idx |-> [x \in DOMAIN h.idx |->
                  IF \E i \in set : Who(i) = x THEN CHOOSE i \in set : Who(i) = x
                  ELSE h.idx[x]]]

\* The smaller child of i in a heap of n events, of which there is at least one.
MinChild(h, n, i, k) ==
  LET right == 2 * (i + 1)
  IN  IF right = n \/ k[At(h, right)] > k[At(h, right - 1)] THEN right - 1 ELSE right

\* Its last call.
ShiftUpAfterDown(h, hole, e, k) == ShiftUp(h, hole, e, k)

\* min_heap_shift_down_() in a heap whose first n events count.
ShiftDown(h, n, hole, e, k) ==
  LET sink[i \in 0..n] ==
        IF 2 * (i + 1) <= n /\ k[e] > k[At(h, MinChild(h, n, i, k))]
        THEN LET r == sink[MinChild(h, n, i, k)] IN [r EXCEPT !.moved = @ \cup {i}]
        ELSE [end |-> i, moved |-> {}]
      r == sink[hole]
      Who(i) == At(h, MinChild(h, n, i, k))
      down == [p |-> [j \in 1..Len(h.p) |-> IF j - 1 \in r.moved THEN Who(j - 1) ELSE h.p[j]],
               idx |-> [x \in DOMAIN h.idx |->
                          IF \E i \in r.moved : Who(i) = x THEN CHOOSE i \in r.moved : Who(i) = x
                          ELSE h.idx[x]]]
  IN  ShiftUpAfterDown(down, r.end, e, k)

Push(h, e, k) == ShiftUp(h, Len(h.p), e, k)

\* An erase that forgets the index of the event.
BugErase(h, e, k) ==
  LET n == Len(h.p) - 1
      g == ShiftDown(h, n, h.idx[e], At(h, n), k)
  IN  [p |-> SubSeq(g.p, 1, n), idx |-> g.idx]

\* min_heap_erase() of an event that is in the heap.
Erase(h, e, k) ==
  LET n == Len(h.p) - 1
      g == ShiftDown(h, n, h.idx[e], At(h, n), k)
  IN  [p |-> SubSeq(g.p, 1, n), idx |-> [g.idx EXCEPT ![e] = -1]]

\* min_heap_pop() of a heap that is not empty.
Popped(h, k) == LET n == Len(h.p) - 1
                    g == ShiftDown(h, n, 0, At(h, n), k)
                IN  [p |-> SubSeq(g.p, 1, n), idx |-> [g.idx EXCEPT ![Top(h)] = -1]]

-----------------------------------------------------------------------------
Init == heap = EmptyHeap /\ key = [e \in Events |-> 1] /\ in = {}

PushEvent(e, k) == /\ e \notin in
                   /\ key' = [key EXCEPT ![e] = k]
                   /\ heap' = Push(heap, e, key')
                   /\ in' = in \cup {e}

EraseEvent(e) == /\ e \in in
                 /\ heap' = Erase(heap, e, key)
                 /\ key' = [key EXCEPT ![e] = 1]
                 /\ in' = in \ {e}

Pop == /\ in # {}
       /\ heap' = Popped(heap, key)
       /\ key' = [key EXCEPT ![Top(heap)] = 1]
       /\ in' = in \ {Top(heap)}

Next == \/ \E e \in Events, k \in 1..MaxKey : PushEvent(e, k)
        \/ \E e \in Events : EraseEvent(e)
        \/ Pop

-----------------------------------------------------------------------------
\* After any erasures in the middle, a parent is never later than its children:
\* event_base_loop() may look at the first entry only.
HeapOrdered == \A i \in 1..(Len(heap.p) - 1) : key[At(heap, Parent(i))] <= key[At(heap, i)]

\* min_heap_idx of each event is its place, so that min_heap_erase() takes out the
\* event it was asked for, and the heap holds exactly the events put in, once.
HeapIndexed == /\ Len(heap.p) = Cardinality(in)
               /\ \A e \in Events : IF e \in in THEN /\ heap.idx[e] \in 0..(Len(heap.p) - 1)
                                                     /\ At(heap, heap.idx[e]) = e
                                    ELSE heap.idx[e] = -1
=============================================================================
