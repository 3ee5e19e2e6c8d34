------------------------------ MODULE Dispatch ------------------------------
(***************************************************************************)
(* What the worker pool promises to the users of evhttp, without threads,  *)
(* locks, pipes or event loops: a connection that the server accepts is    *)
(* handed to one worker, the workers take turns in the order in which they *)
(* were added, and every worker takes its connections in the order in      *)
(* which they were handed to it.  A connection is never handed twice.      *)
(* A server without workers serves its connections itself (server 0).      *)
(* WorkerPool implements this specification.                               *)
(***************************************************************************)
EXTENDS Integers, Sequences

CONSTANTS Conns,      \* the connections that clients open
          NThreads    \* how many workers the program asks for

VARIABLES waiting,    \* connections that no server owns yet
          pool,       \* how many workers the ring holds
          turn,       \* the worker whose turn it is, 0 without workers
          chan,       \* per worker: connections handed over, not yet taken
          held,       \* per server: the connections it serves
          gone        \* connections that are finished or were dropped

vars == <<waiting, pool, turn, chan, held, gone>>

Init == /\ waiting = Conns
        /\ pool = 0
        /\ turn = 0
        /\ chan = [w \in 1..NThreads |-> <<>>]
        /\ held = [s \in 0..NThreads |-> {}]
        /\ gone = {}

\* A worker joins at the end of the ring, before any connection is accepted.
Enroll == /\ waiting = Conns
          /\ pool < NThreads
          /\ pool' = pool + 1
          /\ turn' = IF turn = 0 THEN 1 ELSE turn
          /\ UNCHANGED <<waiting, chan, held, gone>>

\* A connection goes to the worker whose turn it is.
Hand(c) == /\ c \in waiting
           /\ turn # 0
           /\ waiting' = waiting \ {c}
           /\ chan' = [chan EXCEPT ![turn] = Append(@, c)]
           /\ turn' = IF turn = pool THEN 1 ELSE turn + 1
           /\ UNCHANGED <<pool, held, gone>>

\* Without workers the server keeps the connection.
Keep(c) == /\ c \in waiting
           /\ turn = 0
           /\ waiting' = waiting \ {c}
           /\ held' = [held EXCEPT ![0] = @ \cup {c}]
           /\ UNCHANGED <<pool, turn, chan, gone>>

\* An accepted socket that cannot be set up is dropped.
Drop(c) == /\ c \in waiting
           /\ waiting' = waiting \ {c}
           /\ gone' = gone \cup {c}
           /\ UNCHANGED <<pool, turn, chan, held>>

\* A worker takes the oldest connection that was handed to it,
Take(w) == /\ chan[w] # <<>>
           /\ chan' = [chan EXCEPT ![w] = Tail(@)]
           /\ held' = [held EXCEPT ![w] = @ \cup {Head(chan[w])}]
           /\ UNCHANGED <<waiting, pool, turn, gone>>

\* or fails to set it up.
Refuse(w) == /\ chan[w] # <<>>
             /\ chan' = [chan EXCEPT ![w] = Tail(@)]
             /\ gone' = gone \cup {Head(chan[w])}
             /\ UNCHANGED <<waiting, pool, turn, held>>

\* A server is done with one of its connections.
Finish(s, c) == /\ c \in held[s]
                /\ held' = [held EXCEPT ![s] = @ \ {c}]
                /\ gone' = gone \cup {c}
                /\ UNCHANGED <<waiting, pool, turn, chan>>

Next == \/ Enroll
        \/ \E c \in Conns : Hand(c) \/ Keep(c) \/ Drop(c)
        \/ \E w \in 1..NThreads : Take(w) \/ Refuse(w)
        \/ \E s \in 0..NThreads, c \in Conns : Finish(s, c)

Spec == Init /\ [][Next]_vars
=============================================================================
