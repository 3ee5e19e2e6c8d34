------------------------------ MODULE DevPoll ------------------------------
(***************************************************************************)
(* The back end for /dev/poll (contrib/libevent/devpoll.c): changes are    *)
(* collected in an array, written when it is full and before a dispatch.   *)
(***************************************************************************)
EXTENDS Backend

CONSTANTS NFiles,    \* nfiles of devpoll_init(), the first size of the array fds
          NEvents    \* nevents, the room for changes

\* What the constants have to be.
SaneSizes == NFiles \in Nat \ {0} /\ NEvents \in Nat \ {0}

VARIABLE op   \* struct devpollop and the set that the driver monitors

vars == <<inserted, ready, reported, op>>

\* devpoll_init().
EmptyOp == [evread |-> [fd \in Fds |-> None], evwrite |-> [fd \in Fds |-> None],
            nfds |-> NFiles, changes |-> <<>>, kernel |-> [fd \in Fds |-> {}]]

\* The driver takes POLLREMOVE, here "remove", and ors everything else.
Written(s) == LET f[n \in 0..Len(s.changes)] ==
                    IF n = 0 THEN s.kernel
                    ELSE LET c == s.changes[n]
                         IN  [f[n - 1] EXCEPT ![c.fd] = IF c.events = {"remove"} THEN {}
                                                        ELSE @ \cup c.events]
              IN  f[Len(s.changes)]

\* devpoll_commit().
Commit(s) == [s EXCEPT !.kernel = Written(s), !.changes = <<>>]

\* devpoll_queue().
Queue(s, fd, events) ==
  LET t == IF Len(s.changes) >= NEvents THEN Commit(s) ELSE s
  IN  [t EXCEPT !.changes = Append(@, [fd |-> fd, events |-> events])]

\* devpoll_recalc(): doubled until fd is inside.
Recalc(s, fd) ==
  LET sizes == {s.nfds * 2^k : k \in 0..fd}
  IN  IF fd < s.nfds THEN s
      ELSE [s EXCEPT !.nfds = CHOOSE m \in sizes : m > fd /\ \A l \in sizes : l > fd => m <= l]

\* devpoll_add().
AddTo(s, e) ==
  [Queue(Recalc(s, e.fd), e.fd, e.what) EXCEPT
     !.evread[e.fd] = IF "r" \in e.what THEN e ELSE @,
     !.evwrite[e.fd] = IF "w" \in e.what THEN e ELSE @]

\* The direction that devpoll_del() has to submit again.
Kept(s, e) == CASE e.what = {"r"} /\ s.evwrite[e.fd] # None -> {"w"}
                [] e.what = {"w"} /\ s.evread[e.fd] # None -> {"r"}
                [] OTHER -> {}

\* devpoll_del().
DelFrom(s, e) ==
  LET removed == Queue(s, e.fd, {"remove"})
      t == IF Kept(s, e) = {} THEN removed ELSE Queue(removed, e.fd, Kept(s, e))
  IN  [t EXCEPT !.evread[e.fd] = IF "r" \in Kept(s, e) THEN @ ELSE None,
                !.evwrite[e.fd] = IF "w" \in Kept(s, e) THEN @ ELSE None]

-----------------------------------------------------------------------------
Init == BackendInit /\ op = EmptyOp

\* A pwrite() of a full array that fails leaves the changes where they were.
Add(e) == \E ok \in Outcomes : IF ok THEN InsertEvent(e) /\ op' = AddTo(op, e)
                                     ELSE RefuseEvent(e) /\ op' = Recalc(op, e.fd)

Del(e) == DeleteEvent(e) /\ op' = DelFrom(op, e)

\* What devpoll_dispatch() finds for a descriptor.
What(r, s, fd) == IF s.kernel[fd] = {} THEN {}
                  ELSE IF "hup" \in r[fd] THEN Dirs ELSE r[fd] \cap s.kernel[fd]
Found(r, s, fd) == {x \in {<<s.evread[fd], "r">>, <<s.evwrite[fd], "w">>} :
                      x[1] # None /\ x[2] \in What(r, s, fd)}

\* The events without EV_PERSIST are deleted before they are activated.
DevPollDispatch(r) ==
  LET s == Commit(op)
  IN  /\ reported' = UNION {Found(r, s, fd) : fd \in Fds}
      /\ ready' = r
      /\ inserted' = inserted \ Once(reported')
      /\ op' = FoldSet(LAMBDA e, t : DelFrom(t, e), s, Once(reported'))

\* event_reinit(): after fork() the child opens /dev/poll again.
Reinit == /\ op' = FoldSet(LAMBDA e, s : AddTo(s, e), EmptyOp, inserted)
          /\ ready' = Quiet /\ reported' = {}
          /\ UNCHANGED inserted

Next == \/ \E e \in Events : Add(e) \/ Del(e)
        \/ \E r \in [Fds -> Conditions] : DevPollDispatch(r)
        \/ Reinit

Spec == Init /\ [][Next]_vars

\* The assertion of devpoll_dispatch(), that a descriptor the driver reports is inside
\* the array, and that the array of changes is never overrun.
InsideArrays == /\ \A fd \in Fds : Written(op)[fd] # {} => fd < op.nfds
                /\ Len(op.changes) <= NEvents
=============================================================================
