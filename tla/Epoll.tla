------------------------------- MODULE Epoll -------------------------------
(***************************************************************************)
(* The back end for epoll(2) (contrib/libevent/epoll.c).                   *)
(***************************************************************************)
EXTENDS Backend

CONSTANT NFiles   \* nfiles of epoll_init(), the first size of the array

\* What the constants have to be.
SaneSizes == NFiles \in Nat \ {0}

VARIABLE op   \* struct epollop and the interest list of the kernel

vars == <<inserted, ready, reported, op>>

\* epoll_init().  gen counts the places where realloc() has put the array; an entry
\* of the kernel has the mask and, in data.ptr, the place of the slot.
EmptyOp == [evread |-> [fd \in Fds |-> None], evwrite |-> [fd \in Fds |-> None],
            nfds |-> NFiles, gen |-> 0,
            kernel |-> [fd \in Fds |-> [events |-> {}, gen |-> 0]]]

\* The loop of epoll_recalc().
Doubled(n, max) == LET sizes == {n * 2^k : k \in 0..max}
                   IN  CHOOSE m \in sizes : m >= max /\ \A l \in sizes : l >= max => m <= l

\* epoll_recalc(): the array moves when it grows.
Recalc(s, fd) == IF fd < s.nfds \/ Doubled(s.nfds, fd) = s.nfds THEN s
                 ELSE [s EXCEPT !.nfds = Doubled(s.nfds, fd), !.gen = @ + 1]

\* The directions that have an event.
Watched(s, fd) == {d \in Dirs : (IF d = "r" THEN s.evread ELSE s.evwrite)[fd] # None}

Ctl(s, fd, mask) == [s EXCEPT !.kernel[fd] = [events |-> mask, gen |-> s.gen]]

SetSlots(s, e, x, dirs) ==
  [s EXCEPT !.evread[e.fd] = IF "r" \in dirs THEN x ELSE @,
            !.evwrite[e.fd] = IF "w" \in dirs THEN x ELSE @]

\* epoll_add() that succeeds.
AddTo(s, e) == LET g == Recalc(s, e.fd)
               IN  SetSlots(Ctl(g, e.fd, Watched(g, e.fd) \cup e.what), e, e, e.what)

\* epoll_del(): an event for one direction leaves the slot of the other.
DelFrom(s, e) ==
  LET other == Dirs \ e.what
      kept == IF e.what # Dirs /\ other \subseteq Watched(s, e.fd) THEN other ELSE {}
  IN  Ctl(SetSlots(s, e, None, Dirs \ kept), e.fd, kept)

-----------------------------------------------------------------------------
Init == BackendInit /\ op = EmptyOp

Add(e) == \E ok \in Outcomes :
            IF ok THEN InsertEvent(e) /\ op' = AddTo(op, e)
                  ELSE RefuseEvent(e) /\ op' = Recalc(op, e.fd)

Del(e) == DeleteEvent(e) /\ op' = DelFrom(op, e)

\* What the kernel returns for a descriptor.
Revents(r, fd) == {d \in op.kernel[fd].events : d \in r[fd]}
                  \cup (IF op.kernel[fd].events # {} THEN r[fd] \cap {"hup"} ELSE {})

\* The events that epoll_dispatch() finds in the slot; a slot in memory that was given
\* back may have lost them.
Found(r, fd) == {<<op.evread[fd], "r">> : x \in {y \in Revents(r, fd) : y # "w"}}
                \cup {<<op.evwrite[fd], "w">> : x \in {y \in Revents(r, fd) : y # "r"}}
Stale == {fd \in Fds : op.kernel[fd].events # {} /\ op.kernel[fd].gen # op.gen}

EpollDispatch(r) ==
  \E lost \in SUBSET Stale :
    /\ reported' = UNION {{x \in Found(r, fd) : x[1] # None} : fd \in Fds \ lost}
    /\ ready' = r
    /\ inserted' = inserted \ Once(reported')
    /\ op' = FoldSet(LAMBDA e, s : DelFrom(s, e), op, Once(reported'))

\* event_reinit(): after fork() the child builds its own epoll descriptor.
Reinit == /\ op' = FoldSet(LAMBDA e, s : AddTo(s, e), EmptyOp, inserted)
          /\ ready' = Quiet /\ reported' = {}
          /\ UNCHANGED inserted

Next == \/ \E e \in Events : Add(e) \/ Del(e)
        \/ \E r \in [Fds -> Conditions] : EpollDispatch(r)
        \/ Reinit

Spec == Init /\ [][Next]_vars

\* The kernel watches a direction of a descriptor exactly when there is an event for it.
KernelAgrees == \A fd \in Fds : op.kernel[fd].events = UNION {e.what : e \in {f \in inserted : f.fd = fd}}

\* The slot of every event is inside the array ("Extent the file descriptor array as
\* necessary" in epoll_add()).
SlotsExist == \A e \in inserted : e.fd < op.nfds

\* The kernel's pointers lead to the slots that libevent uses.
PointersFresh == Stale = {}
=============================================================================
