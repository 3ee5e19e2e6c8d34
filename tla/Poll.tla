-------------------------------- MODULE Poll --------------------------------
(***************************************************************************)
(* The back end for poll(2) (contrib/libevent/poll.c).  Index i of the     *)
(* code is i + 1 here.                                                     *)
(***************************************************************************)
EXTENDS Backend

VARIABLE pop   \* struct pollop

vars == <<inserted, ready, reported, pop>>

\* poll_init(): the entries of event_set with their r_back and w_back, and the index
\* of every descriptor, 0 for none.
EmptyOp == [set |-> <<>>, idx |-> [fd \in Fds |-> 0]]

\* The entry that poll_add() finds or makes.
Entry(p, fd) == IF p.idx[fd] > 0 THEN p
                ELSE [set |-> Append(p.set, [fd |-> fd, events |-> {}, r |-> None, w |-> None]),
                      idx |-> [p.idx EXCEPT ![fd] = Len(p.set) + 1]]

\* poll_add().
AddTo(p, e) ==
  LET q == Entry(p, e.fd)
  IN  [q EXCEPT !.set[q.idx[e.fd]] =
         [@ EXCEPT !.events = @ \cup e.what,
                   !.r = IF "r" \in e.what THEN e ELSE @,
                   !.w = IF "w" \in e.what THEN e ELSE @]]

\* A removal that forgets the new place of the entry it moves.
BugShrink(p, fd) ==
  LET i == p.idx[fd]
      n == Len(p.set)
  IN  [set |-> SubSeq([p.set EXCEPT ![i] = p.set[n]], 1, n - 1),
       idx |-> [p.idx EXCEPT ![fd] = 0]]

\* The last entry is moved into the place of the one that nobody cares about.
Shrink(p, fd) ==
  LET i == p.idx[fd]
      n == Len(p.set)
  IN  [set |-> SubSeq([p.set EXCEPT ![i] = p.set[n]], 1, n - 1),
       idx |-> [x \in Fds |-> CASE x = fd -> 0 [] x # fd /\ x = p.set[n].fd -> i
                                [] OTHER -> p.idx[x]]]

\* poll_del().
DelFrom(p, e) ==
  LET i == p.idx[e.fd]
      q == [p EXCEPT !.set[i] = [@ EXCEPT !.events = @ \ e.what,
                                          !.r = IF "r" \in e.what THEN None ELSE @,
                                          !.w = IF "w" \in e.what THEN None ELSE @]]
  IN  IF q.set[i].events # {} THEN q ELSE Shrink(q, e.fd)

-----------------------------------------------------------------------------
Init == BackendInit /\ pop = EmptyOp

\* A poll_add() without memory returns before it has changed an entry.
Add(e) == \E ok \in Outcomes : IF ok THEN InsertEvent(e) /\ pop' = AddTo(pop, e)
                                     ELSE RefuseEvent(e) /\ UNCHANGED pop

Del(e) == DeleteEvent(e) /\ pop' = DelFrom(pop, e)

\* revents of an entry, and what poll_dispatch() makes of it.
What(r, x) == LET rev == (r[x.fd] \cap x.events) \cup (r[x.fd] \cap {"hup"})
              IN  IF "hup" \in rev THEN Dirs ELSE rev
Found(r, x) == {<<ev, d>> \in ({x.r, x.w} \ {None}) \X What(r, x) :
                   /\ d \in ev.what
                   /\ \/ ev = x.r /\ "r" \in What(r, x)
                      \/ ev = x.w /\ "w" \in What(r, x)}

PollDispatch(r) ==
  /\ reported' = UNION {Found(r, pop.set[i]) : i \in DOMAIN pop.set}
  /\ ready' = r
  /\ inserted' = inserted \ Once(reported')
  /\ pop' = FoldSet(LAMBDA e, p : DelFrom(p, e), pop, Once(reported'))

Next == \/ \E e \in Events : Add(e) \/ Del(e)
        \/ \E r \in [Fds -> Conditions] : PollDispatch(r)

Spec == Init /\ [][Next]_vars

\* The assertions of poll_check_ok(), and that no descriptor has two entries.
PollCheckOk ==
  /\ \A fd \in Fds : pop.idx[fd] > 0 =>
       LET x == pop.set[pop.idx[fd]]
       IN  /\ pop.idx[fd] <= Len(pop.set)
           /\ x.fd = fd
           /\ "r" \in x.events => x.r # None /\ "r" \in x.r.what /\ x.r.fd = fd
           /\ "w" \in x.events => x.w # None /\ "w" \in x.w.what /\ x.w.fd = fd
  /\ \A i \in DOMAIN pop.set : pop.idx[pop.set[i].fd] = i
=============================================================================
