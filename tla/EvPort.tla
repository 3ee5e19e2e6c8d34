------------------------------- MODULE EvPort -------------------------------
(***************************************************************************)
(* The back end for Solaris event ports (contrib/libevent/evport.c): the   *)
(* port forgets a descriptor when it reports it, and ed_pending remembers  *)
(* which have to be associated again before the next call.                 *)
(***************************************************************************)
EXTENDS Backend, SequencesExt

CONSTANT EventsPerGetn   \* EVENTS_PER_GETN

\* What the constants have to be.
SaneSizes == EventsPerGetn \in Nat \ {0}

VARIABLE op   \* struct evport_data and the associations of the port

vars == <<inserted, ready, reported, op>>

\* evport_init(); -1 is no descriptor.
EmptyOp == [revt |-> [fd \in Fds |-> None], wevt |-> [fd \in Fds |-> None],
            pending |-> [i \in 1..EventsPerGetn |-> -1], port |-> [fd \in Fds |-> {}]]

\* FDI_TO_SYSEVENTS.
SysEvents(s, fd) == (IF s.revt[fd] # None THEN {"r"} ELSE {})
                    \cup (IF s.wevt[fd] # None THEN {"w"} ELSE {})

\* reassociate().
Reassociate(s, fd) == IF SysEvents(s, fd) = {} THEN s
                      ELSE [s EXCEPT !.port[fd] = SysEvents(s, fd)]

SetSlots(s, e, x) == [s EXCEPT !.revt[e.fd] = IF "r" \in e.what THEN x ELSE @,
                               !.wevt[e.fd] = IF "w" \in e.what THEN x ELSE @]

\* evport_add().
AddTo(s, e) == Reassociate(SetSlots(s, e, e), e.fd)

\* evport_del(): a descriptor that is pending is taken not to be associated.
DelFrom(s, e) ==
  LET at == {i \in 1..EventsPerGetn : s.pending[i] = e.fd}
      t == SetSlots(s, e, None)
      last == SysEvents(t, e.fd) = {}
  IN  IF at = {} THEN (IF last THEN [t EXCEPT !.port[e.fd] = {}] ELSE Reassociate(t, e.fd))
      ELSE IF last THEN [t EXCEPT !.pending[Min(at)] = -1] ELSE t

\* The first loop of evport_dispatch().
Reassociated(s) ==
  LET due == {i \in 1..EventsPerGetn : s.pending[i] # -1 /\ SysEvents(s, s.pending[i]) # {}}
      t == FoldSet(LAMBDA i, u : Reassociate(u, s.pending[i]), s, due)
  IN  [t EXCEPT !.pending = [i \in 1..EventsPerGetn |-> IF i \in due THEN -1 ELSE @[i]]]

-----------------------------------------------------------------------------
Init == BackendInit /\ op = EmptyOp

\* A port_associate() that fails leaves the event in its slot.
Add(e) == \E ok \in Outcomes : IF ok THEN InsertEvent(e) /\ op' = AddTo(op, e)
                                     ELSE RefuseEvent(e) /\ op' = SetSlots(op, e, e)

Del(e) == DeleteEvent(e) /\ op' = DelFrom(op, e)

\* What port_getn() returns for a descriptor, and the events that evport_dispatch()
\* activates for it; it passes all that was returned to each of them.
Res(r, s, fd) == r[fd] \cap s.port[fd]
Found(r, s, fd) == {x \in {<<s.revt[fd], "r">>, <<s.wevt[fd], "w">>} :
                      x[1] # None /\ x[2] \in Res(r, s, fd)}

\* A dispatch that returns the descriptors got, in some order.
EvPortDispatch(r) ==
  LET s == Reassociated(op)
      got == {fd \in Fds : Res(r, s, fd) # {}}
  IN  \E list \in SetToSeqs(got) :
        LET t == [s EXCEPT !.port = [fd \in Fds |-> IF fd \in got THEN {} ELSE @[fd]],
                           !.pending = [i \in 1..EventsPerGetn |->
                                          IF i <= Len(list) THEN list[i] ELSE @[i]]]
        IN  /\ reported' = UNION {Found(r, s, fd) : fd \in Fds}
            /\ ready' = r
            /\ inserted' = inserted \ Once(reported')
            /\ op' = FoldSet(LAMBDA e, u : DelFrom(u, e), t, Once(reported'))

\* event_reinit(): after fork() the child creates its own port.
Reinit == /\ op' = FoldSet(LAMBDA e, s : AddTo(s, e), EmptyOp, inserted)
          /\ ready' = Quiet /\ reported' = {}
          /\ UNCHANGED inserted

Next == \/ \E e \in Events : Add(e) \/ Del(e)
        \/ \E r \in [Fds -> Conditions] : EvPortDispatch(r)
        \/ Reinit

Spec == Init /\ [][Next]_vars

\* Every direction that has an event is associated with the port, or its descriptor is
\* pending and will be before the next wait.
NeverForgotten == \A fd \in Fds : \A d \in SysEvents(op, fd) :
                    d \in op.port[fd] \/ \E i \in 1..EventsPerGetn : op.pending[i] = fd

\* An evport_add() that fails leaves no event behind.
FailedAddLeavesNothing == \A fd \in Fds : {op.revt[fd], op.wevt[fd]} \subseteq inserted \cup {None}
=============================================================================
