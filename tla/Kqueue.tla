------------------------------- MODULE Kqueue -------------------------------
(***************************************************************************)
(* The back end for kqueue(2) (contrib/libevent/kqueue.c): changes are     *)
(* collected and given to the kernel by the next dispatch.                 *)
(***************************************************************************)
EXTENDS Backend

CONSTANT MaxChanges   \* bound: the changes between two dispatches

\* What the constants have to be.
SaneSizes == MaxChanges \in Nat

VARIABLE kqop   \* struct kqop, EVLIST_X_KQINKERNEL and the filters in the kernel

vars == <<inserted, ready, reported, kqop>>

\* kq_init().
EmptyOp == [changes |-> <<>>, inkernel |-> {}, kernel |-> [x \in Fds \X Dirs |-> None]]

\* The changes for some directions of an event, reading first; kq_insert().
Changes(add, e, dirs) ==
  LET For(d) == IF d \in dirs THEN <<[add |-> add, at |-> <<e.fd, d>>, ev |-> e]>> ELSE <<>>
  IN  For("r") \o For("w")

\* kq_add().
AddTo(k, e) == [k EXCEPT !.changes = @ \o Changes(TRUE, e, e.what), !.inkernel = @ \cup {e}]

\* A kq_del() that leaves an event that the kernel has not seen yet.
BugDelFrom(k, e) ==
  IF e \notin k.inkernel \/ \E i \in DOMAIN k.changes : k.changes[i].ev = e THEN k
  ELSE [k EXCEPT !.changes = @ \o Changes(FALSE, e, e.what), !.inkernel = @ \ {e}]

\* kq_del().
DelFrom(k, e) == IF e \notin k.inkernel THEN k
                 ELSE [k EXCEPT !.changes = @ \o Changes(FALSE, e, e.what), !.inkernel = @ \ {e}]

\* The kernel applies the changes in order; a delete of what is not there is an error
\* that kq_dispatch() ignores.
Applied(k) == LET f[n \in 0..Len(k.changes)] ==
                    IF n = 0 THEN k.kernel
                    ELSE LET c == k.changes[n]
                         IN  [f[n - 1] EXCEPT ![c.at] = IF c.add THEN c.ev ELSE None]
              IN  f[Len(k.changes)]

-----------------------------------------------------------------------------
Init == BackendInit /\ kqop = EmptyOp

\* Without memory kq_insert() fails; an event for both directions may be left half added.
Add(e) == /\ Len(kqop.changes) + 2 <= MaxChanges
          /\ \E ok \in Outcomes :
               IF ok THEN InsertEvent(e) /\ kqop' = AddTo(kqop, e)
               ELSE /\ RefuseEvent(e)
                    /\ \E half \in {{}, e.what \ {"w"}} :
                         kqop' = [kqop EXCEPT !.changes = @ \o Changes(TRUE, e, half),
                                              !.inkernel = IF half = {} THEN @ ELSE @ \cup {e}]

Del(e) == /\ Len(kqop.changes) + 2 <= MaxChanges
          /\ DeleteEvent(e) /\ kqop' = DelFrom(kqop, e)

\* kq_dispatch(): a filter with EV_ONESHOT is gone when it has been reported, and the
\* event is taken not to be in the kernel.
KqDispatch(r) ==
  LET kernel == Applied(kqop)
      hit == {x \in Fds \X Dirs : kernel[x] # None /\ Concerns(r, x[1], x[2])}
      once == {x \in hit : ~kernel[x].persist}
      k == [changes |-> <<>>,
            kernel |-> [x \in Fds \X Dirs |-> IF x \in once THEN None ELSE kernel[x]],
            inkernel |-> kqop.inkernel \ {kernel[x] : x \in once}]
  IN  /\ reported' = {<<kernel[x], x[2]>> : x \in hit}
      /\ ready' = r
      /\ inserted' = inserted \ Once(reported')
      /\ kqop' = FoldSet(LAMBDA e, s : DelFrom(s, e), k, Once(reported'))

\* event_reinit(): after fork() the child builds its own queue.
Reinit == /\ kqop' = FoldSet(LAMBDA e, s : AddTo(s, e), EmptyOp, inserted)
          /\ ready' = Quiet /\ reported' = {}
          /\ UNCHANGED inserted

Next == \/ \E e \in Events : Add(e) \/ Del(e)
        \/ \E r \in [Fds -> Conditions] : KqDispatch(r)
        \/ Reinit

Spec == Init /\ [][Next]_vars

\* When the collected changes are applied, the kernel has a filter exactly for the
\* directions of the events that are inserted, and it belongs to the event.
FiltersAgree ==
  \A x \in Fds \X Dirs :
    LET owner == {e \in inserted : e.fd = x[1] /\ x[2] \in e.what}
    IN  IF owner = {} THEN Applied(kqop)[x] = None ELSE Applied(kqop)[x] \in owner

\* The kernel keeps no filter of an event that event_del() has taken out.
CancelledByDel == \A x \in Fds \X Dirs : Applied(kqop)[x] \in inserted \cup {None}
=============================================================================
