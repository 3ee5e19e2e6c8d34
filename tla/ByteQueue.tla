------------------------------ MODULE ByteQueue ------------------------------
(***************************************************************************)
(* What an evbuffer promises: a queue of bytes, and a listener who knows   *)
(* its length.                                                             *)
(***************************************************************************)
EXTENDS Integers, Sequences

CONSTANTS Bufs, Bytes

VARIABLES q,      \* the bytes in each buffer
          heard   \* the length that the callback of each buffer was last told

QInit == q = [b \in Bufs |-> <<>>] /\ heard = [b \in Bufs |-> 0]

\* Bytes come in at the end, leave at the front, or move to another buffer.
Put(b) == /\ Len(q[b]) <= Len(q'[b]) /\ SubSeq(q'[b], 1, Len(q[b])) = q[b]
          /\ \A c \in Bufs \ {b} : q'[c] = q[c]
Take(b) == \E n \in 0..Len(q[b]) : q' = [q EXCEPT ![b] = SubSeq(@, n + 1, Len(@))]
Move(a, b) == a # b /\ q' = [q EXCEPT ![b] = @ \o q[a], ![a] = <<>>]

QNext == /\ \/ \E b \in Bufs : Put(b) \/ Take(b)
            \/ \E a, b \in Bufs : Move(a, b)
         /\ heard' = [b \in Bufs |-> Len(q'[b])]

QueueSpec == QInit /\ [][QNext]_<<q, heard>>
=============================================================================
