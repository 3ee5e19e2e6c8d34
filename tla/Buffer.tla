-------------------------------- MODULE Buffer --------------------------------
(***************************************************************************)
(* Buffers (contrib/libevent/buffer.c).  The data starts misalign bytes    *)
(* into the allocated memory, and moves to its front when the space behind *)
(* it is short.  Memory that holds no data is Junk.                        *)
(***************************************************************************)
EXTENDS Integers, Sequences

CONSTANTS Bufs, Bytes, CR, LF,
          MinSize,     \* the size of the first allocation, 256 in the code
          PrintfSpace, \* what evbuffer_add_vprintf() asks for first, 64
          MaxRead,     \* EVBUFFER_MAX_READ
          MaxTotal,    \* bound: realloc() fails beyond this size
          Inputs,      \* the data that the program adds, formats or receives
          Junk

\* What the constants have to be.
Sane == /\ {CR, LF} \subseteq Bytes /\ Junk \notin Bytes /\ Inputs \subseteq Seq(Bytes)
        /\ {MinSize, PrintfSpace, MaxRead, MaxTotal} \subseteq Nat \ {0}

VARIABLES buf,    \* the buffers: mem, misalign, off
          told    \* what the callback of each buffer was last told

vars == <<buf, told>>

\* evbuffer_new().
NewBuffer == [mem |-> <<>>, misalign |-> 0, off |-> 0]

Init == buf = [b \in Bufs |-> NewBuffer] /\ told = [b \in Bufs |-> 0]

Total(r) == Len(r.mem)
Data(r) == SubSeq(r.mem, r.misalign + 1, r.misalign + r.off)

JunkSeq(n) == [i \in 1..n |-> Junk]

\* Memory of n bytes that holds data behind skip bytes of nothing.
Holding(data, skip, n) == JunkSeq(skip) \o data \o JunkSeq(n - skip - Len(data))

\* The callback, if the length changed.
Tell(now) == told' = [b \in Bufs |-> IF now[b].off # buf[b].off THEN now[b].off ELSE told[b]]

\* An evbuffer_align() that does not move the data.
BugAlign(r) == [r EXCEPT !.misalign = 0]

\* evbuffer_align(): memmove() to the front.
Align(r) == [mem |-> Holding(Data(r), 0, Total(r)), misalign |-> 0, off |-> r.off]

\* The size after doubling; what eight doublings do not reach is beyond MaxTotal.
Doublings(from) == {from * f : f \in {1, 2, 4, 8, 16, 32, 64, 128, 256}}
RoomFor(need, from) ==
  IF from * 256 < need THEN MaxTotal + 1
  ELSE CHOOSE n \in Doublings(from) : n >= need /\ \A m \in Doublings(from) : m >= need => n <= m

\* evbuffer_expand() when memory is there; the outcome without memory is Align(r).
Expand(r, n) ==
  LET need == r.misalign + r.off + n
  IN  IF Total(r) >= need THEN r
      ELSE IF r.misalign >= n THEN Align(r)
      ELSE LET size == RoomFor(need, IF Total(r) < MinSize THEN MinSize ELSE Total(r))
           IN  [Align(r) EXCEPT !.mem = @ \o JunkSeq(size - Total(r))]

\* Both outcomes of evbuffer_expand().
Allocates(r, n) == Total(Expand(r, n)) > Total(r)
Fails(r, n) == Allocates(r, n)
Succeeds(r, n) == Total(Expand(r, n)) <= MaxTotal

\* memcpy() behind the data.
Write(r, data) == [r EXCEPT !.mem = [i \in DOMAIN @ |->
                                       IF i - r.misalign - r.off \in DOMAIN data
                                       THEN data[i - r.misalign - r.off] ELSE @[i]],
                            !.off = @ + Len(data)]

\* evbuffer_drain().
Drain(r, n) == IF n >= r.off THEN [mem |-> JunkSeq(Total(r)), misalign |-> 0, off |-> 0]
               ELSE [mem |-> Holding(SubSeq(Data(r), n + 1, r.off), r.misalign + n, Total(r)),
                     misalign |-> r.misalign + n, off |-> r.off - n]

Set(b, r) == buf' = [buf EXCEPT ![b] = r] /\ Tell(buf')

-----------------------------------------------------------------------------
\* evbuffer_add().
Add(b, data) ==
  \/ Succeeds(buf[b], Len(data)) /\ Set(b, Write(Expand(buf[b], Len(data)), data))
  \/ Fails(buf[b], Len(data)) /\ Set(b, Align(buf[b]))

\* evbuffer_add_vprintf(): the text and its NUL have to fit.
AddPrintf(b, data) ==
  LET first == IF Succeeds(buf[b], PrintfSpace) THEN Expand(buf[b], PrintfSpace) ELSE Align(buf[b])
      space == Total(first) - first.misalign - first.off
  IN  \/ Len(data) < space /\ Set(b, Write(first, data))
      \/ /\ Len(data) >= space /\ Succeeds(first, Len(data) + 1)
         /\ Set(b, Write(Expand(first, Len(data) + 1), data))
      \/ Len(data) >= space /\ Fails(first, Len(data) + 1) /\ Set(b, Align(first))

\* evbuffer_add_buffer(): an empty buffer is swapped with the other.
AddBuffer(out, in) ==
  /\ out # in
  /\ \/ /\ buf[out].off = 0
        /\ buf' = [buf EXCEPT ![out] = buf[in], ![in] = buf[out]]
        /\ Tell(buf')
     \/ /\ buf[out].off # 0 /\ Succeeds(buf[out], buf[in].off)
        /\ buf' = [buf EXCEPT ![out] = Write(Expand(@, buf[in].off), Data(buf[in])),
                              ![in] = Drain(@, buf[in].off)]
        /\ Tell(buf')
     \/ buf[out].off # 0 /\ Fails(buf[out], buf[in].off) /\ Set(out, Align(buf[out]))

\* evbuffer_remove(), evbuffer_drain(), evbuffer_write(): n bytes leave at the front.
Remove(b, n) == Set(b, Drain(buf[b], n))

\* evbuffer_readline(): where the line ends, and how many bytes end it.
Ends(data) == {i \in DOMAIN data : data[i] \in {CR, LF}}
LineEnd(data) == CHOOSE i \in Ends(data) : \A j \in Ends(data) : i <= j
EolLen(data) == LET i == LineEnd(data)
                IN  IF i + 1 \in Ends(data) /\ data[i + 1] # data[i] THEN 2 ELSE 1
ReadLine(b) ==
  /\ Ends(Data(buf[b])) # {}
  /\ \/ Set(b, Drain(buf[b], LineEnd(Data(buf[b])) - 1 + EolLen(Data(buf[b]))))
     \/ Set(b, Drain(buf[b], LineEnd(Data(buf[b])) - 1))     \* no memory for the line

\* evbuffer_read(): how much is asked for, when avail bytes are reported as readable.
HowMuch(r, howmuch, avail) ==
  LET most == IF Total(r) * 4 > MaxRead THEN Total(r) * 4 ELSE MaxRead
      n == IF avail = 0 THEN MaxRead
           ELSE IF avail > MaxRead /\ avail > howmuch THEN (IF avail > most THEN most ELSE avail)
           ELSE avail
  IN  IF howmuch < 0 \/ howmuch > n THEN n ELSE howmuch

\* The bytes of the peer may be more or fewer than what FIONREAD said.
Read(b, howmuch, avail, data) ==
  LET n == HowMuch(buf[b], howmuch, avail)
      got == SubSeq(data, 1, IF n < Len(data) THEN n ELSE Len(data))
  IN  \/ Succeeds(buf[b], n) /\ Set(b, Write(Expand(buf[b], n), got))
      \/ Fails(buf[b], n) /\ Set(b, Align(buf[b]))

\* A search that goes on behind the bytes it has compared.
BugFind(data, what) ==
  LET f[s \in 1..(Len(data) + 1)] ==
        LET P == {i \in s..Len(data) : data[i] = what[1]}
            p == CHOOSE i \in P : \A j \in P : i <= j
        IN  CASE P = {} -> 0
              [] P # {} /\ p + Len(what) - 1 > Len(data) -> 0
              [] P # {} /\ p + Len(what) - 1 <= Len(data) ->
                   IF SubSeq(data, p, p + Len(what) - 1) = what THEN p ELSE f[p + Len(what)]
  IN  f[1]

\* evbuffer_find(): from one first byte to the next; 0 for NULL.
Find(data, what) ==
  LET f[s \in 1..(Len(data) + 1)] ==
        LET P == {i \in s..Len(data) : data[i] = what[1]}
            p == CHOOSE i \in P : \A j \in P : i <= j
        IN  CASE P = {} -> 0
              [] P # {} /\ p + Len(what) - 1 > Len(data) -> 0
              [] P # {} /\ p + Len(what) - 1 <= Len(data) ->
                   IF SubSeq(data, p, p + Len(what) - 1) = what THEN p ELSE f[p + 1]
  IN  f[1]

Next == \E b \in Bufs :
          \/ \E data \in Inputs : Add(b, data) \/ AddPrintf(b, data)
          \/ \E c \in Bufs : AddBuffer(b, c)
          \/ \E n \in 0..(buf[b].off + 1) : Remove(b, n)
          \/ ReadLine(b)
          \/ \E data \in Inputs : \E howmuch \in {-1, 1} : \E avail \in {0, 1, MaxTotal} :
               Read(b, howmuch, avail, data)

Spec == Init /\ [][Next]_vars

-----------------------------------------------------------------------------
\* The buffers as queues of bytes.
Q == INSTANCE ByteQueue WITH q <- [b \in Bufs |-> Data(buf[b])], heard <- told

(***************************************************************************)
(* buffer.c implements queues of bytes: no growth, move to the front,      *)
(* swap or failed allocation changes, reorders or loses data, and the      *)
(* callback always knows the length.                                       *)
(***************************************************************************)
QueueSpec == Q!QueueSpec

(***************************************************************************)
(* The data lies inside the allocated memory (the assertion of             *)
(* evbuffer_add_vprintf(), totallen >= used), and no byte of it is Junk.   *)
(***************************************************************************)
InsideMemory == \A b \in Bufs : /\ buf[b].misalign + buf[b].off <= Total(buf[b])
                                /\ \A i \in 1..buf[b].off : buf[b].mem[buf[b].misalign + i] \in Bytes

(***************************************************************************)
(* evbuffer_find() returns the first place where the bytes occur.          *)
(***************************************************************************)
Occurs(data, what) == {i \in 1..(Len(data) - Len(what) + 1) : SubSeq(data, i, i + Len(what) - 1) = what}
FindIsFirst ==
  \A b \in Bufs : \A what \in Inputs \ {<<>>} :
    LET d == Data(buf[b])  p == Find(d, what)
    IN  IF Occurs(d, what) = {} THEN p = 0
        ELSE p \in Occurs(d, what) /\ \A i \in Occurs(d, what) : p <= i
=============================================================================
