------------------------------- MODULE Select -------------------------------
(***************************************************************************)
(* The back end for select(2) (contrib/libevent/select.c).                 *)
(***************************************************************************)
EXTENDS Backend

CONSTANTS NFdBits,    \* NFDBITS, the descriptors in a word of an fd_set
          InitWords   \* the words of select_init()

\* What the constants have to be.
SaneSizes == NFdBits \in Nat \ {0} /\ InitWords \in Nat \ {0}

VARIABLE sop   \* struct selectop

vars == <<inserted, ready, reported, sop>>

\* select_init().
EmptyOp == [event_fds |-> 0, words |-> InitWords, readset |-> {}, writeset |-> {},
            r_by_fd |-> [fd \in Fds |-> None], w_by_fd |-> [fd \in Fds |-> None]]

\* The words for descriptor fd, howmany(fd + 1, NFDBITS), and the loop that doubles.
Needed(fd) == (fd + 1 + NFdBits - 1) \div NFdBits
Doubled(n, m) == LET sizes == {n * 2^k : k \in 0..m}
                 IN  CHOOSE s \in sizes : s >= m /\ \A t \in sizes : t >= m => s <= t

\* The first part of select_add(), with select_resize().
Grown(s, fd) == IF s.event_fds >= fd THEN s
                ELSE [s EXCEPT !.words = Doubled(@, Needed(fd)), !.event_fds = fd]

\* select_add().
AddTo(s, e) ==
  [Grown(s, e.fd) EXCEPT
     !.readset = IF "r" \in e.what THEN @ \cup {e.fd} ELSE @,
     !.r_by_fd[e.fd] = IF "r" \in e.what THEN e ELSE @,
     !.writeset = IF "w" \in e.what THEN @ \cup {e.fd} ELSE @,
     !.w_by_fd[e.fd] = IF "w" \in e.what THEN e ELSE @]

\* select_del() of each event of the set E; an event above event_fds is left alone.
Cleared(s, E, d) == {e.fd : e \in {f \in E : f.fd <= s.event_fds /\ d \in f.what}}
DelFrom(s, E) ==
  [s EXCEPT !.readset = @ \ Cleared(s, E, "r"),
            !.r_by_fd = [fd \in Fds |-> IF fd \in Cleared(s, E, "r") THEN None ELSE s.r_by_fd[fd]],
            !.writeset = @ \ Cleared(s, E, "w"),
            !.w_by_fd = [fd \in Fds |-> IF fd \in Cleared(s, E, "w") THEN None ELSE s.w_by_fd[fd]]]

-----------------------------------------------------------------------------
Init == BackendInit /\ sop = EmptyOp

\* A select_resize() without memory leaves event_fds and event_fdsz as they were.
Add(e) == \E ok \in Outcomes :
            IF ok THEN InsertEvent(e) /\ sop' = AddTo(sop, e)
            ELSE Grown(sop, e.fd).words # sop.words /\ RefuseEvent(e) /\ UNCHANGED sop

Del(e) == DeleteEvent(e) /\ sop' = DelFrom(sop, {e})

\* The directions of fd in the sets that select() returns; only the descriptors up to
\* event_fds are looked at.
Res(r, fd) == IF fd > sop.event_fds THEN {}
              ELSE {d \in Dirs : /\ fd \in (IF d = "r" THEN sop.readset ELSE sop.writeset)
                                 /\ Concerns(r, fd, d)}
Found(r, fd) == LET r_ev == IF "r" \in Res(r, fd) THEN sop.r_by_fd[fd] ELSE None
                    w_ev == IF "w" \in Res(r, fd) THEN sop.w_by_fd[fd] ELSE None
                IN  {x \in ({r_ev, w_ev} \ {None}) \X Res(r, fd) : x[2] \in x[1].what}

SelectDispatch(r) ==
  /\ reported' = UNION {Found(r, fd) : fd \in Fds}
  /\ ready' = r
  /\ inserted' = inserted \ Once(reported')
  /\ sop' = DelFrom(sop, Once(reported'))

Next == \/ \E e \in Events : Add(e) \/ Del(e)
        \/ \E r \in [Fds -> Conditions] : SelectDispatch(r)

Spec == Init /\ [][Next]_vars

\* Every descriptor that is set has its bit in the sets and its place in the arrays.
SetsLargeEnough == \A fd \in sop.readset \cup sop.writeset : fd < sop.words * NFdBits

\* The assertions of check_selectop(), and that the dispatch looks at every descriptor
\* that is set.
CheckSelectop ==
  \A fd \in Fds :
    /\ fd \in sop.readset \cup sop.writeset => fd <= sop.event_fds
    /\ IF fd \in sop.readset THEN /\ sop.r_by_fd[fd] # None
                                  /\ "r" \in sop.r_by_fd[fd].what /\ sop.r_by_fd[fd].fd = fd
       ELSE sop.r_by_fd[fd] = None
    /\ IF fd \in sop.writeset THEN /\ sop.w_by_fd[fd] # None
                                   /\ "w" \in sop.w_by_fd[fd].what /\ sop.w_by_fd[fd].fd = fd
       ELSE sop.w_by_fd[fd] = None
=============================================================================
