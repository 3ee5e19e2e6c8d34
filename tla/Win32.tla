------------------------------- MODULE Win32 -------------------------------
(***************************************************************************)
(* The back end for Windows (contrib/libevent/WIN32-Code/win32.c): arrays  *)
(* of sockets and, for each socket, an entry with its places in them.      *)
(***************************************************************************)
EXTENDS Backend

CONSTANT NEvent   \* NEVENT, the first size of the sets

\* What the constants have to be.
SaneSizes == NEvent \in Nat \ {0}

VARIABLE op   \* struct win32op

vars == <<inserted, ready, reported, op>>

NoEntry == [pos |-> [d \in Dirs |-> 0], ev |-> [d \in Dirs |-> None]]

\* win32_init(); the tree of entries is a function, places count from 1.
EmptyOp == [set |-> [d \in Dirs |-> <<>>], size |-> NEvent, entry |-> [s \in Fds |-> NoEntry]]

\* do_fd_set(), with realloc_fd_sets().
FdSet(o, s, d) ==
  IF o.entry[s].pos[d] > 0 THEN o
  ELSE [o EXCEPT !.size = IF Len(o.set[d]) = @ THEN @ * 2 ELSE @,
                 !.set[d] = Append(@, s),
                 !.entry[s].pos[d] = Len(o.set[d]) + 1]

\* do_fd_clear(): the last socket takes the place of the one that goes.
FdClear(o, s, d) ==
  LET i == o.entry[s].pos[d]
      n == Len(o.set[d])
      last == o.set[d][n]
  IN  IF i = 0 THEN o
      ELSE [o EXCEPT !.set[d] = SubSeq([@ EXCEPT ![i] = last], 1, n - 1),
                     !.entry = [x \in Fds |-> CASE x = s -> [@[x] EXCEPT !.pos[d] = 0]
                                                [] x # s /\ x = last -> [@[x] EXCEPT !.pos[d] = i]
                                                [] OTHER -> @[x]]]

\* win32_insert().
AddTo(o, e) == FoldSet(LAMBDA d, p : [FdSet(p, e.fd, d) EXCEPT !.entry[e.fd].ev[d] = e],
                       o, e.what)

\* win32_del(); an entry without events is freed.
DelFrom(o, e) == FoldSet(LAMBDA d, p : [FdClear(p, e.fd, d) EXCEPT !.entry[e.fd].ev[d] = None],
                         o, {d \in Dirs : o.entry[e.fd].ev[d] = e})

-----------------------------------------------------------------------------
Init == BackendInit /\ op = EmptyOp

Add(e) == InsertEvent(e) /\ op' = AddTo(op, e)

Del(e) == DeleteEvent(e) /\ op' = DelFrom(op, e)

\* The sockets that select() leaves in the copy of a set.
Out(r, d) == {s \in {op.set[d][i] : i \in DOMAIN op.set[d]} : d \in r[s]}

Win32Dispatch(r) ==
  /\ reported' = UNION {{<<op.entry[s].ev[d], d>> : s \in {t \in Out(r, d) :
                           op.entry[t].ev[d] # None}} : d \in Dirs}
  /\ ready' = r
  /\ inserted' = inserted \ Once(reported')
  /\ op' = FoldSet(LAMBDA e, o : DelFrom(o, e), op, Once(reported'))

Next == \/ \E e \in Events : Add(e) \/ Del(e)
        \/ \E r \in [Fds -> Conditions] : Win32Dispatch(r)

Spec == Init /\ [][Next]_vars

\* Every entry knows the place of its socket in a set, a set holds only sockets that
\* have an event, each once, and no set is larger than its memory.
PlacesAgree ==
  /\ \A s \in Fds, d \in Dirs :
       LET i == op.entry[s].pos[d]
       IN  /\ (i > 0) = (op.entry[s].ev[d] # None)
           /\ i > 0 => i <= Len(op.set[d]) /\ op.set[d][i] = s
  /\ \A d \in Dirs : /\ Len(op.set[d]) <= op.size
                     /\ \A i \in DOMAIN op.set[d] : op.entry[op.set[d][i]].pos[d] = i
=============================================================================
