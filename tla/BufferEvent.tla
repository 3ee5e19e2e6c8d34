----------------------------- MODULE BufferEvent -----------------------------
(***************************************************************************)
(* Buffered events (contrib/libevent/evbuffer.c).  Buffers are their       *)
(* lengths: that they keep the bytes in order is shown in Buffer.  The     *)
(* user callbacks are the last thing that an event does, so what the       *)
(* program does in them is an action of its own.                           *)
(***************************************************************************)
EXTENDS Integers, TLAPS

CONSTANTS Marks,      \* the watermarks the program sets; 0: none
          MaxIn,      \* bound: bytes that the peer sends
          MaxOut,     \* bound: bytes that the program writes
          MaxCalls    \* bound: calls of enable, disable, settimeout, setwatermark, setfd

\* What the constants have to be.
Sane == 0 \in Marks /\ Marks \subseteq Nat /\ {MaxIn, MaxOut, MaxCalls} \subseteq Nat

VARIABLES bev,     \* struct bufferevent, with the lengths of input and output
          net,     \* bytes from the peer, whether it has closed, bytes to the peer
          calls,   \* calls that are left
          quiet    \* history: directions the program was told to take up again itself

vars == <<bev, net, calls, quiet>>

Dirs == {"r", "w"}

\* bufferevent_new().  An event is pending with a timeout, without one, or not.
NewBufferEvent == [alive |-> TRUE, enabled |-> {"w"}, ev |-> [d \in Dirs |-> "no"],
                   tmo |-> [d \in Dirs |-> 0], rlow |-> 0, rhigh |-> 0,
                   input |-> 0, output |-> 0, pressure |-> FALSE, wrote |-> 0]

Init == /\ bev = NewBufferEvent
        /\ net = [in |-> 0, come |-> 0, eof |-> FALSE, out |-> 0]
        /\ calls = MaxCalls
        /\ quiet = {}

\* bufferevent_add(): event_add() without a timeout keeps the one that is pending.
Added(b, d) == [b EXCEPT !.ev[d] = IF b.tmo[d] # 0 \/ @ = "timed" THEN "timed" ELSE "plain"]
Deleted(b, d) == [b EXCEPT !.ev[d] = "no"]

\* A callback that waits for the high mark to be passed the other way.
BugPressureCb(b, now) ==
  IF b.rhigh = 0 \/ now < b.rhigh - 1
  THEN LET c == [b EXCEPT !.pressure = FALSE]
       IN  IF "r" \in c.enabled THEN Added(c, "r") ELSE c
  ELSE b

\* bufferevent_read_pressure_cb().
PressureCb(b, now) ==
  IF b.rhigh = 0 \/ now < b.rhigh
  THEN LET c == [b EXCEPT !.pressure = FALSE]
       IN  IF "r" \in c.enabled THEN Added(c, "r") ELSE c
  ELSE b

\* The input buffer gets a new length; its callback hears of it.
SetInput(b, n) == LET c == [b EXCEPT !.input = n]
                  IN  IF c.pressure /\ n # b.input THEN PressureCb(c, n) ELSE c

StopReading(b) == [Deleted(b, "r") EXCEPT !.pressure = TRUE]

-----------------------------------------------------------------------------
(***************************************************************************)
(* bufferevent_readcb() and bufferevent_writecb(): the event that fires is *)
(* no longer pending.                                                      *)
(***************************************************************************)

Fires(d) == bev.alive /\ bev.ev[d] # "no"

\* errorcb with EVBUFFER_TIMEOUT, EVBUFFER_ERROR or EVBUFFER_EOF.
Fail(d) == /\ bev' = Deleted(bev, d) /\ quiet' = quiet \cup {d}
           /\ UNCHANGED <<net, calls>>

\* howmuch; more than can come when nothing limits it.
Room == IF bev.rhigh = 0 THEN MaxIn + 1 ELSE bev.rhigh - bev.input

Timeout(d) == Fires(d) /\ bev.ev[d] = "timed" /\ Fail(d)
Error(d) == Fires(d) /\ (d = "w" => bev.output > 0) /\ (d = "r" => Room > 0) /\ Fail(d)

ReadFull == /\ Fires("r") /\ Room <= 0 /\ (net.in > 0 \/ net.eof)
            /\ bev' = StopReading(bev)
            /\ UNCHANGED <<net, calls, quiet>>

\* What follows a successful read.
AfterRead(b) == IF b.rlow # 0 /\ b.input < b.rlow THEN b
                ELSE IF b.rhigh # 0 /\ b.input >= b.rhigh THEN StopReading(b) ELSE b

ReadSome == /\ Fires("r") /\ Room > 0 /\ net.in > 0
            /\ \E n \in 1..net.in :
                 /\ n <= Room
                 /\ bev' = AfterRead(Added(SetInput(Deleted(bev, "r"), bev.input + n), "r"))
                 /\ net' = [net EXCEPT !.in = @ - n]
            /\ UNCHANGED <<calls, quiet>>

ReadEof == Fires("r") /\ Room > 0 /\ net.in = 0 /\ net.eof /\ Fail("r")

\* EAGAIN or EINTR: the event is added again.
Again(d) == /\ Fires(d) /\ (d = "w" => bev.output > 0) /\ (d = "r" => Room > 0)
            /\ bev' = Added(Deleted(bev, d), d)
            /\ UNCHANGED <<net, calls, quiet>>

AfterWrite(b) == IF b.output # 0 THEN Added(b, "w") ELSE b

WriteSome == /\ Fires("w")
             /\ \E n \in 0..bev.output :
                  /\ n = 0 <=> bev.output = 0
                  /\ bev' = AfterWrite([Deleted(bev, "w") EXCEPT !.output = @ - n])
                  /\ net' = [net EXCEPT !.out = @ + n]
             /\ UNCHANGED <<calls, quiet>>

-----------------------------------------------------------------------------
(***************************************************************************)
(* The interface.                                                          *)
(***************************************************************************)

\* bufferevent_write(), bufferevent_write_buffer().
Written(b, n) == LET c == [b EXCEPT !.output = @ + n, !.wrote = @ + n]
                 IN  IF n > 0 /\ "w" \in c.enabled THEN Added(c, "w") ELSE c

Write(n) == /\ bev.alive /\ bev.wrote + n <= MaxOut
            /\ bev' = Written(bev, n)
            /\ quiet' = IF "w" \in bev.enabled THEN quiet \ {"w"} ELSE quiet
            /\ UNCHANGED <<net, calls>>

\* bufferevent_read(), or evbuffer_drain() on the input.
Read(n) == /\ bev.alive /\ n \in 1..bev.input
           /\ bev' = SetInput(bev, bev.input - n)
           /\ quiet' = IF bev'.ev["r"] # "no" THEN quiet \ {"r"} ELSE quiet
           /\ UNCHANGED <<net, calls>>

Call == bev.alive /\ calls > 0 /\ calls' = calls - 1 /\ UNCHANGED net

Enable(d) == /\ Call
             /\ bev' = [Added(bev, d) EXCEPT !.enabled = @ \cup {d}]
             /\ quiet' = quiet \ {d}
Disable(d) == /\ Call
              /\ bev' = [Deleted(bev, d) EXCEPT !.enabled = @ \ {d}]
              /\ UNCHANGED quiet

SetTimeout(r, w) ==
  LET b == [bev EXCEPT !.tmo = [d \in Dirs |-> IF d = "r" THEN r ELSE w]]
      c == IF b.ev["r"] # "no" THEN Added(b, "r") ELSE b
  IN /\ Call
     /\ bev' = IF c.ev["w"] # "no" THEN Added(c, "w") ELSE c
     /\ UNCHANGED quiet

\* bufferevent_setwatermark(); the marks for writing decide only about the user callback.
\* It calls the pressure callback, whatever has changed.
SetWatermark(d, low, high) ==
  LET b == IF d = "r" THEN [bev EXCEPT !.rlow = low, !.rhigh = high]
           ELSE bev
  IN /\ Call
     /\ bev' = PressureCb(b, b.input)
     /\ quiet' = IF bev'.ev["r"] # "no" THEN quiet \ {"r"} ELSE quiet

\* bufferevent_setfd(): "might have to manually trigger event registration".
SetFd == /\ Call
         /\ bev' = Deleted(Deleted(bev, "r"), "w")
         /\ quiet' = Dirs

Free == /\ Call
        /\ bev' = [Deleted(Deleted(bev, "r"), "w") EXCEPT !.alive = FALSE]
        /\ UNCHANGED quiet

\* The peer sends a byte, or closes.
Peer == /\ ~net.eof
        /\ \/ net.come < MaxIn /\ net' = [net EXCEPT !.in = @ + 1, !.come = @ + 1]
           \/ net' = [net EXCEPT !.eof = TRUE]
        /\ UNCHANGED <<bev, calls, quiet>>

Next == \/ \E d \in Dirs : Timeout(d) \/ Error(d) \/ Again(d) \/ Enable(d) \/ Disable(d)
        \/ ReadFull \/ ReadSome \/ ReadEof \/ WriteSome
        \/ \E n \in 1..2 : Write(n) \/ Read(n)
        \/ \E r, w \in {0, 1} : SetTimeout(r, w)
        \/ \E d \in Dirs : \E low, high \in Marks : (high = 0 \/ low <= high) /\ SetWatermark(d, low, high)
        \/ SetFd \/ Free \/ Peer

Spec == Init /\ [][Next]_vars

-----------------------------------------------------------------------------
TypeOK == /\ bev.enabled \subseteq Dirs /\ bev.ev \in [Dirs -> {"no", "plain", "timed"}]
          /\ bev.tmo \in [Dirs -> {0, 1}] /\ {bev.rlow, bev.rhigh} \subseteq Marks
          /\ bev.input \in 0..MaxIn /\ bev.output \in 0..MaxOut
          /\ bev.wrote = bev.output + net.out

(***************************************************************************)
(* bufferevent_read_pressure_cb(): reading that is enabled never stalls.   *)
(* Below the high mark the read event is pending, unless the program was   *)
(* told of an error or a timeout and has not taken reading up again.       *)
(***************************************************************************)
NoReadStall ==
  bev.alive /\ "r" \in bev.enabled \ quiet /\ (bev.rhigh = 0 \/ bev.input < bev.rhigh)
    => bev.ev["r"] # "no"

(***************************************************************************)
(* bufferevent_write(): with writing enabled, output that waits has a      *)
(* pending event.                                                          *)
(***************************************************************************)
NoWriteStall == bev.alive /\ "w" \in bev.enabled \ quiet /\ bev.output > 0 => bev.ev["w"] # "no"

(***************************************************************************)
(* An event of a disabled direction is never pending, so that no callback  *)
(* comes after bufferevent_disable().                                      *)
(***************************************************************************)
DisabledIsSilent == \A d \in Dirs : d \notin bev.enabled => bev.ev[d] = "no"

(***************************************************************************)
(* The watermark callback waits only at or above the high mark, so that    *)
(* the next drain below it finds the callback.                             *)
(***************************************************************************)
PressureAboveMark == bev.pressure => bev.rhigh # 0 /\ bev.input >= bev.rhigh

(***************************************************************************)
(* Whatever the program calls, in whatever order, and the peer does: the   *)
(* directions that are enabled go on, those that are not are silent, and   *)
(* the watermark callback is there when it is needed and only then.        *)
(***************************************************************************)
BevSound == NoReadStall /\ NoWriteStall /\ DisabledIsSilent /\ PressureAboveMark

(***************************************************************************)
(* bufferevent_readcb(): a read never takes the input beyond the mark.     *)
(***************************************************************************)
HighMarkHeld == [][bev'.input > bev.input /\ bev.rhigh # 0 => bev'.input <= bev.rhigh]_vars

(***************************************************************************)
(* bufferevent_settimeout(): an event has a timeout only when one is set.  *)
(***************************************************************************)
TimeoutsAsSet == \A d \in Dirs : bev.ev[d] = "timed" => bev.tmo[d] # 0

-----------------------------------------------------------------------------
(***************************************************************************)
(* Fairness: a socket that is watched for writing becomes writable and     *)
(* takes bytes, and one with data is reported.                             *)
(***************************************************************************)
LiveSpec == Spec /\ WF_vars(WriteSome) /\ WF_vars(ReadSome) /\ WF_vars(\E n \in 1..2 : Read(n))

(***************************************************************************)
(* What was written leaves, unless the program disables writing, closes or *)
(* is told of an error.                                                    *)
(***************************************************************************)
OutputSettled == bev.output = 0 \/ "w" \in quiet \/ "w" \notin bev.enabled \/ ~bev.alive
OutputLeaves == bev.output > 0 ~> OutputSettled

(***************************************************************************)
(* What the peer sent comes in, when the program takes what is there.      *)
(***************************************************************************)
InputSettled == net.in = 0 \/ "r" \in quiet \/ "r" \notin bev.enabled \/ ~bev.alive
InputComes == net.in > 0 ~> InputSettled
-----------------------------------------------------------------------------
(***************************************************************************)
(* Proofs, for any marks and any number of bytes and calls.                *)
(***************************************************************************)

BevType == [alive : BOOLEAN, enabled : SUBSET Dirs, ev : [Dirs -> {"no", "plain", "timed"}],
            tmo : [Dirs -> {0, 1}], rlow : Marks, rhigh : Marks, input : Nat, output : Nat,
            pressure : BOOLEAN, wrote : Nat]

\* The bytes are accounted for: those of the peer are in the socket, in the input or
\* were drained, those of the program are in the output or have left.
Typed == /\ bev \in BevType
         /\ net \in [in : Nat, come : Nat, eof : BOOLEAN, out : Nat]
         /\ calls \in Nat /\ quiet \subseteq Dirs
         /\ bev.input + net.in <= net.come /\ net.come <= MaxIn
         /\ bev.wrote = bev.output + net.out /\ bev.wrote <= MaxOut

\* Reading that is enabled has its event or its watermark callback.
ReadKept == bev.alive /\ "r" \in bev.enabled \ quiet => bev.ev["r"] # "no" \/ bev.pressure

BevInv == Typed /\ ReadKept /\ NoWriteStall /\ DisabledIsSilent /\ PressureAboveMark

\* bufferevent_add() makes one event pending and touches nothing else.
LEMMA AddedIs ==
  ASSUME NEW b \in BevType, NEW d \in Dirs
  PROVE  /\ Added(b, d) \in BevType /\ Added(b, d).ev[d] # "no"
         /\ \A e \in Dirs \ {d} : Added(b, d).ev[e] = b.ev[e]
         /\ Added(b, d).alive = b.alive /\ Added(b, d).enabled = b.enabled
         /\ Added(b, d).rlow = b.rlow /\ Added(b, d).rhigh = b.rhigh
         /\ Added(b, d).input = b.input /\ Added(b, d).output = b.output
         /\ Added(b, d).pressure = b.pressure /\ Added(b, d).wrote = b.wrote
BY DEF Added, BevType, Dirs

\* event_del() makes one event not pending and touches nothing else.
LEMMA DeletedIs ==
  ASSUME NEW b \in BevType, NEW d \in Dirs
  PROVE  /\ Deleted(b, d) \in BevType /\ Deleted(b, d).ev[d] = "no"
         /\ \A e \in Dirs \ {d} : Deleted(b, d).ev[e] = b.ev[e]
         /\ Deleted(b, d).alive = b.alive /\ Deleted(b, d).enabled = b.enabled
         /\ Deleted(b, d).rlow = b.rlow /\ Deleted(b, d).rhigh = b.rhigh
         /\ Deleted(b, d).input = b.input /\ Deleted(b, d).output = b.output
         /\ Deleted(b, d).pressure = b.pressure /\ Deleted(b, d).wrote = b.wrote
BY DEF Deleted, BevType, Dirs

\* The watermark callback below the mark takes itself away and has reading go on;
\* at or above it, it does nothing.
LEMMA PressureIs ==
  ASSUME NEW b \in BevType, NEW now \in Nat, Marks \subseteq Nat
  PROVE  /\ PressureCb(b, now) \in BevType
         /\ PressureCb(b, now).alive = b.alive /\ PressureCb(b, now).enabled = b.enabled
         /\ PressureCb(b, now).rlow = b.rlow /\ PressureCb(b, now).rhigh = b.rhigh
         /\ PressureCb(b, now).input = b.input /\ PressureCb(b, now).output = b.output
         /\ PressureCb(b, now).wrote = b.wrote
         /\ PressureCb(b, now).ev["w"] = b.ev["w"]
         /\ b.rhigh = 0 \/ now < b.rhigh
              => /\ ~PressureCb(b, now).pressure
                 /\ PressureCb(b, now).ev["r"]
                      = IF "r" \in b.enabled THEN Added(b, "r").ev["r"] ELSE b.ev["r"]
         /\ ~(b.rhigh = 0 \/ now < b.rhigh) => PressureCb(b, now) = b
<1> DEFINE c == [b EXCEPT !.pressure = FALSE]
<1>1. /\ c \in BevType /\ c.alive = b.alive /\ c.enabled = b.enabled /\ c.rlow = b.rlow
      /\ c.rhigh = b.rhigh /\ c.input = b.input /\ c.output = b.output /\ c.wrote = b.wrote
      /\ c.ev = b.ev /\ c.tmo = b.tmo /\ ~c.pressure
  BY DEF BevType
<1>2. Added(c, "r").ev["r"] = Added(b, "r").ev["r"]
  BY <1>1 DEF Added, BevType, Dirs
<1>3. "r" \in Dirs /\ "w" \in Dirs /\ "r" # "w"
  BY DEF Dirs
<1>4. PressureCb(b, now) = IF b.rhigh = 0 \/ now < b.rhigh
                           THEN IF "r" \in c.enabled THEN Added(c, "r") ELSE c
                           ELSE b
  BY DEF PressureCb
<1> HIDE DEF c
<1>5. CASE b.rhigh = 0 \/ now < b.rhigh
  <2>1. CASE "r" \in b.enabled
    <3>1. PressureCb(b, now) = Added(c, "r")
      BY <1>1, <1>4, <1>5, <2>1
    <3> QED
      BY <1>1, <1>2, <1>3, <3>1, <1>5, <2>1, AddedIs
  <2>2. CASE "r" \notin b.enabled
    <3>1. PressureCb(b, now) = c
      BY <1>1, <1>4, <1>5, <2>2
    <3> QED
      BY <1>1, <1>5, <2>2, <3>1
  <2> QED
    BY <2>1, <2>2
<1>6. CASE ~(b.rhigh = 0 \/ now < b.rhigh)
  BY <1>4, <1>6
<1> QED
  BY <1>5, <1>6

\* A new length of the input buffer.
LEMMA InputIs ==
  ASSUME NEW b \in BevType, NEW n \in Nat, Marks \subseteq Nat
  PROVE  /\ SetInput(b, n) \in BevType /\ SetInput(b, n).input = n
         /\ SetInput(b, n).alive = b.alive /\ SetInput(b, n).enabled = b.enabled
         /\ SetInput(b, n).rlow = b.rlow /\ SetInput(b, n).rhigh = b.rhigh
         /\ SetInput(b, n).output = b.output /\ SetInput(b, n).wrote = b.wrote
         /\ SetInput(b, n).ev["w"] = b.ev["w"]
         /\ \/ /\ SetInput(b, n).ev["r"] = b.ev["r"]
               /\ SetInput(b, n).pressure = b.pressure
               /\ ~b.pressure \/ n = b.input \/ (b.rhigh # 0 /\ n >= b.rhigh)
            \/ /\ ~SetInput(b, n).pressure /\ b.pressure
               /\ "r" \in b.enabled => SetInput(b, n).ev["r"] # "no"
               /\ "r" \notin b.enabled => SetInput(b, n).ev["r"] = b.ev["r"]
<1> DEFINE c == [b EXCEPT !.input = n]
<1>1. /\ c \in BevType /\ c.alive = b.alive /\ c.enabled = b.enabled /\ c.rlow = b.rlow
      /\ c.rhigh = b.rhigh /\ c.input = n /\ c.output = b.output /\ c.wrote = b.wrote
      /\ c.ev = b.ev /\ c.tmo = b.tmo /\ c.pressure = b.pressure /\ c.rhigh \in Nat
  BY DEF BevType
<1>2. SetInput(b, n) = IF c.pressure /\ n # b.input THEN PressureCb(c, n) ELSE c
  BY DEF SetInput
<1>3. "r" \in Dirs
  BY DEF Dirs
<1> HIDE DEF c
<1>4. CASE c.pressure /\ n # b.input
  <2>1. SetInput(b, n) = PressureCb(c, n)
    BY <1>2, <1>4
  <2> DEFINE p == PressureCb(c, n)
  <2>2. /\ p \in BevType /\ p.alive = c.alive /\ p.enabled = c.enabled /\ p.rlow = c.rlow
        /\ p.rhigh = c.rhigh /\ p.input = c.input /\ p.output = c.output
        /\ p.wrote = c.wrote /\ p.ev["w"] = c.ev["w"]
        /\ c.rhigh = 0 \/ n < c.rhigh
             => /\ ~p.pressure
                /\ p.ev["r"] = IF "r" \in c.enabled THEN Added(c, "r").ev["r"] ELSE c.ev["r"]
        /\ ~(c.rhigh = 0 \/ n < c.rhigh) => p = c
    BY <1>1, PressureIs
  <2>3. Added(c, "r").ev["r"] # "no"
    BY <1>1, <1>3, AddedIs
  <2> HIDE DEF p
  <2>4. SetInput(b, n) = p
    BY <2>1 DEF p
  <2>5. CASE c.rhigh = 0 \/ n < c.rhigh
    BY <1>1, <1>4, <2>2, <2>3, <2>4, <2>5
  <2>6. CASE ~(c.rhigh = 0 \/ n < c.rhigh)
    <3>1. b.rhigh # 0 /\ n >= b.rhigh
      BY <1>1, <2>6
    <3>2. SetInput(b, n) = c
      BY <2>2, <2>4, <2>6
    <3> QED
      BY <1>1, <3>1, <3>2
  <2> QED
    BY <2>5, <2>6
<1>5. CASE ~(c.pressure /\ n # b.input)
  BY <1>1, <1>2, <1>5
<1> QED
  BY <1>4, <1>5

\* The invariant holds after bufferevent_new().
LEMMA BevInit == Sane /\ Init => BevInv
BY DEF Sane, Init, BevInv, Typed, ReadKept, NoWriteStall, DisabledIsSilent,
       PressureAboveMark, NewBufferEvent, BevType, Dirs

\* Timeouts, errors and the end of the input.
LEMMA FailKeeps == ASSUME NEW d \in Dirs, BevInv, Fail(d) PROVE BevInv'
<1>1. bev \in BevType /\ bev' = Deleted(bev, d)
  BY DEF BevInv, Typed, Fail
<1> QED
  BY <1>1, DeletedIs DEF BevInv, Typed, ReadKept, NoWriteStall, DisabledIsSilent,
                         PressureAboveMark, Fail, Dirs

\* bufferevent_readcb() takes data.
LEMMA ReadSomeKeeps == ASSUME Sane, BevInv, ReadSome PROVE BevInv'
<1> PICK n \in 1..net.in :
      /\ n <= Room
      /\ bev' = AfterRead(Added(SetInput(Deleted(bev, "r"), bev.input + n), "r"))
      /\ net' = [net EXCEPT !.in = @ - n]
  BY DEF ReadSome
<1> DEFINE b == Deleted(bev, "r")
           c == SetInput(b, bev.input + n)
           e == Added(c, "r")
<1>1. "r" \in Dirs /\ "w" \in Dirs /\ "r" # "w" /\ Marks \subseteq Nat
  BY DEF Dirs, Sane
<1>2. bev \in BevType /\ bev.input \in Nat /\ bev.rhigh \in Nat /\ net.in \in Nat /\ n \in Nat
  BY <1>1 DEF BevInv, Typed, BevType
<1>3. ~bev.pressure /\ "r" \in bev.enabled /\ (bev.rhigh = 0 \/ bev.input + n <= bev.rhigh)
  BY <1>1, <1>2 DEF BevInv, PressureAboveMark, DisabledIsSilent, ReadSome, Fires, Room
<1>4. /\ b \in BevType /\ b.alive = bev.alive /\ b.enabled = bev.enabled
      /\ b.rlow = bev.rlow /\ b.rhigh = bev.rhigh /\ b.input = bev.input
      /\ b.output = bev.output /\ b.wrote = bev.wrote /\ ~b.pressure /\ b.ev["w"] = bev.ev["w"]
  BY <1>1, <1>2, <1>3, DeletedIs
<1> HIDE DEF b
<1>5. /\ c \in BevType /\ c.alive = bev.alive /\ c.enabled = bev.enabled
      /\ c.rlow = bev.rlow /\ c.rhigh = bev.rhigh /\ c.input = bev.input + n
      /\ c.output = bev.output /\ c.wrote = bev.wrote /\ ~c.pressure /\ c.ev["w"] = bev.ev["w"]
  <2>1. bev.input + n \in Nat
    BY <1>2
  <2> QED
    BY <1>1, <1>4, <2>1, InputIs
<1> HIDE DEF c
<1>6. /\ e \in BevType /\ e.alive = bev.alive /\ e.enabled = bev.enabled
      /\ e.rlow = bev.rlow /\ e.rhigh = bev.rhigh /\ e.input = bev.input + n
      /\ e.output = bev.output /\ e.wrote = bev.wrote /\ ~e.pressure /\ e.ev["w"] = bev.ev["w"]
      /\ e.ev["r"] # "no"
  BY <1>1, <1>5, AddedIs
<1>7. bev' = AfterRead(e)
  BY DEF b, c
<1> HIDE DEF e
<1>8. /\ net' \in [in : Nat, come : Nat, eof : BOOLEAN, out : Nat]
      /\ net'.in = net.in - n /\ net'.come = net.come /\ net'.out = net.out
  BY DEF BevInv, Typed
<1>9. UNCHANGED <<calls, quiet>>
  BY DEF ReadSome
<1>10. CASE bev' = e
  BY <1>1, <1>2, <1>3, <1>6, <1>8, <1>9, <1>10
     DEF BevInv, Typed, ReadKept, NoWriteStall, DisabledIsSilent, PressureAboveMark, Dirs
<1>11. CASE bev' = StopReading(e) /\ e.rhigh # 0 /\ e.input >= e.rhigh
  <2> DEFINE g == Deleted(e, "r")
  <2>1. /\ g \in BevType /\ g.alive = e.alive /\ g.enabled = e.enabled
        /\ g.rlow = e.rlow /\ g.rhigh = e.rhigh /\ g.input = e.input
        /\ g.output = e.output /\ g.wrote = e.wrote /\ g.ev["w"] = e.ev["w"]
        /\ g.ev["r"] = "no"
    BY <1>1, <1>6, DeletedIs
  <2>2. bev' = [g EXCEPT !.pressure = TRUE]
    BY <1>11 DEF StopReading
  <2> HIDE DEF g
  <2>3. /\ bev' \in BevType /\ bev'.alive = e.alive /\ bev'.enabled = e.enabled
        /\ bev'.rlow = e.rlow /\ bev'.rhigh = e.rhigh /\ bev'.input = e.input
        /\ bev'.output = e.output /\ bev'.wrote = e.wrote /\ bev'.ev["w"] = e.ev["w"]
        /\ bev'.ev["r"] = "no" /\ bev'.pressure
    BY <2>1, <2>2 DEF BevType
  <2> QED
    BY <1>1, <1>2, <1>3, <1>6, <1>8, <1>9, <1>11, <2>3
       DEF BevInv, Typed, ReadKept, NoWriteStall, DisabledIsSilent, PressureAboveMark, Dirs
<1> QED
  BY <1>7, <1>10, <1>11 DEF AfterRead

\* A callback that finds the input full, writes, or is called for nothing.
LEMMA CallbackKeeps ==
  ASSUME Sane, BevInv, ReadFull \/ WriteSome \/ (\E d \in Dirs : Again(d))
  PROVE  BevInv'
<1> USE DEF BevInv, ReadKept, NoWriteStall, DisabledIsSilent, PressureAboveMark
<1>1. "r" \in Dirs /\ "w" \in Dirs /\ "r" # "w" /\ Marks \subseteq Nat
  BY DEF Dirs, Sane
<1>2. bev \in BevType /\ bev.input \in Nat /\ bev.rhigh \in Nat /\ bev.output \in Nat
  BY <1>1 DEF Typed, BevType
<1>3. CASE ReadFull
  <2> DEFINE g == Deleted(bev, "r")
  <2>1. bev' = [g EXCEPT !.pressure = TRUE]
    BY <1>3 DEF ReadFull, StopReading
  <2>2. /\ g \in BevType /\ g.alive = bev.alive /\ g.enabled = bev.enabled
        /\ g.rlow = bev.rlow /\ g.rhigh = bev.rhigh /\ g.input = bev.input
        /\ g.output = bev.output /\ g.wrote = bev.wrote /\ g.ev["w"] = bev.ev["w"]
        /\ g.ev["r"] = "no"
    BY <1>1, <1>2, DeletedIs
  <2> HIDE DEF g
  <2>3. /\ bev' \in BevType /\ bev'.alive = bev.alive /\ bev'.enabled = bev.enabled
        /\ bev'.rlow = bev.rlow /\ bev'.rhigh = bev.rhigh /\ bev'.input = bev.input
        /\ bev'.output = bev.output /\ bev'.wrote = bev.wrote /\ bev'.ev["w"] = bev.ev["w"]
        /\ bev'.ev["r"] = "no" /\ bev'.pressure
    BY <2>1, <2>2 DEF BevType
  <2>4. bev.rhigh # 0 /\ bev.input >= bev.rhigh
    BY <1>2, <1>3 DEF ReadFull, Room, Sane
  <2> QED
    BY <1>1, <1>3, <2>3, <2>4 DEF ReadFull, Typed, Dirs
<1>4. ASSUME NEW d \in Dirs, Again(d)
      PROVE  BevInv'
  <2> DEFINE g == Deleted(bev, d)
  <2>1. bev' = Added(g, d) /\ UNCHANGED <<net, calls, quiet>> /\ bev.ev[d] # "no"
    BY <1>4 DEF Again, Fires
  <2>2. /\ g \in BevType /\ g.alive = bev.alive /\ g.enabled = bev.enabled
        /\ g.rlow = bev.rlow /\ g.rhigh = bev.rhigh /\ g.input = bev.input
        /\ g.output = bev.output /\ g.wrote = bev.wrote /\ g.pressure = bev.pressure
        /\ \A e \in Dirs \ {d} : g.ev[e] = bev.ev[e]
    BY <1>2, DeletedIs
  <2> HIDE DEF g
  <2>3. /\ bev' \in BevType /\ bev'.alive = bev.alive /\ bev'.enabled = bev.enabled
        /\ bev'.rlow = bev.rlow /\ bev'.rhigh = bev.rhigh /\ bev'.input = bev.input
        /\ bev'.output = bev.output /\ bev'.wrote = bev.wrote
        /\ bev'.pressure = bev.pressure /\ bev'.ev[d] # "no"
        /\ \A e \in Dirs \ {d} : bev'.ev[e] = bev.ev[e]
    BY <2>1, <2>2, AddedIs
  <2>4. Typed'
    BY <2>1, <2>3 DEF Typed
  <2>5. d \in bev.enabled
    BY <2>1
  <2>6. CASE d = "r"
    BY <1>1, <2>1, <2>3, <2>4, <2>5, <2>6 DEF Dirs
  <2>7. CASE d = "w"
    BY <1>1, <2>1, <2>3, <2>4, <2>5, <2>7 DEF Dirs
  <2> QED
    BY <2>6, <2>7 DEF Dirs
<1>5. CASE WriteSome
  <2> DEFINE g == Deleted(bev, "w")
             rest(n) == [g EXCEPT !.output = @ - n]
  <2>0. PICK n \in 0..bev.output :
          /\ n = 0 <=> bev.output = 0
          /\ bev' = AfterWrite(rest(n))
          /\ net' = [net EXCEPT !.out = @ + n]
    BY <1>5, Zenon DEF WriteSome
  <2> DEFINE h == rest(n)
  <2>1. /\ g \in BevType /\ g.alive = bev.alive /\ g.enabled = bev.enabled
        /\ g.rlow = bev.rlow /\ g.rhigh = bev.rhigh /\ g.input = bev.input
        /\ g.output = bev.output /\ g.wrote = bev.wrote /\ g.ev["r"] = bev.ev["r"]
        /\ g.ev["w"] = "no" /\ g.pressure = bev.pressure
    BY <1>1, <1>2, DeletedIs
  <2>2. bev' = AfterWrite(h)
    BY <2>0
  <2> HIDE DEF g
  <2>3. bev.output - n \in Nat /\ n \in Nat
    BY <1>2
  <2>4. /\ h \in BevType /\ h.alive = bev.alive /\ h.enabled = bev.enabled
        /\ h.rlow = bev.rlow /\ h.rhigh = bev.rhigh /\ h.input = bev.input
        /\ h.output = bev.output - n /\ h.wrote = bev.wrote /\ h.ev["r"] = bev.ev["r"]
        /\ h.ev["w"] = "no" /\ h.pressure = bev.pressure
    BY <2>1, <2>3 DEF BevType
  <2> HIDE DEF h
  <2>5. /\ net' \in [in : Nat, come : Nat, eof : BOOLEAN, out : Nat]
        /\ net'.in = net.in /\ net'.come = net.come /\ net'.out = net.out + n
    BY <2>0, <2>3 DEF Typed
  <2> HIDE DEF rest
  <2>6. UNCHANGED <<calls, quiet>> /\ bev.ev["w"] # "no"
    BY <1>5 DEF WriteSome, Fires
  <2>7. CASE h.output # 0
    <3>1. bev' = Added(h, "w")
      BY <2>2, <2>7 DEF AfterWrite
    <3>2. /\ bev' \in BevType /\ bev'.alive = bev.alive /\ bev'.enabled = bev.enabled
          /\ bev'.rlow = bev.rlow /\ bev'.rhigh = bev.rhigh /\ bev'.input = bev.input
          /\ bev'.output = bev.output - n /\ bev'.wrote = bev.wrote
          /\ bev'.ev["r"] = bev.ev["r"] /\ bev'.ev["w"] # "no" /\ bev'.pressure = bev.pressure
      <4> DEFINE a == Added(h, "w")
      <4>1. /\ a \in BevType /\ a.alive = h.alive /\ a.enabled = h.enabled
            /\ a.rlow = h.rlow /\ a.rhigh = h.rhigh /\ a.input = h.input
            /\ a.output = h.output /\ a.wrote = h.wrote
            /\ a.ev["r"] = h.ev["r"] /\ a.ev["w"] # "no" /\ a.pressure = h.pressure
        BY <1>1, <2>4, AddedIs
      <4> HIDE DEF a
      <4>2. bev' = a
        BY <3>1 DEF a
      <4> QED
        BY <2>4, <4>1, <4>2
    <3>3. Typed'
      BY <1>2, <2>3, <2>5, <2>6, <3>2 DEF Typed, BevType
    <3> QED
      BY <1>1, <2>6, <3>2, <3>3 DEF Dirs
  <2>8. CASE h.output = 0
    <3>1. bev' = h
      BY <2>2, <2>8 DEF AfterWrite
    <3>2. Typed'
      BY <1>2, <2>3, <2>4, <2>5, <2>6, <3>1 DEF Typed, BevType
    <3> QED
      BY <1>1, <2>4, <2>6, <2>8, <3>1, <3>2 DEF Dirs
  <2> QED
    BY <2>7, <2>8
<1> QED
  BY <1>3, <1>4, <1>5

\* bufferevent_write() and bufferevent_read().
LEMMA DataKeeps ==
  ASSUME Sane, BevInv, NEW n \in 1..2, Write(n) \/ Read(n)
  PROVE  BevInv'
<1>1. "r" \in Dirs /\ "w" \in Dirs /\ "r" # "w" /\ Marks \subseteq Nat
  BY DEF Dirs, Sane
<1>2. /\ bev \in BevType /\ bev.input \in Nat /\ bev.output \in Nat /\ bev.wrote \in Nat
      /\ bev.rhigh \in Nat
  BY <1>1 DEF BevInv, Typed, BevType
<1>3. CASE Write(n)
  <2> DEFINE c == [bev EXCEPT !.output = @ + n, !.wrote = @ + n]
  <2>1. bev' = IF "w" \in c.enabled THEN Added(c, "w") ELSE c
    BY <1>3 DEF Write, Written
  <2>a. bev.output + n \in Nat /\ bev.wrote + n \in Nat
    BY <1>2
  <2>2. /\ c \in BevType /\ c.alive = bev.alive /\ c.enabled = bev.enabled
        /\ c.rlow = bev.rlow /\ c.rhigh = bev.rhigh /\ c.input = bev.input
        /\ c.output = bev.output + n /\ c.wrote = bev.wrote + n /\ c.ev = bev.ev
        /\ c.pressure = bev.pressure
    BY <1>2, <2>a DEF BevType
  <2> HIDE DEF c
  <2>3. /\ bev.wrote + n <= MaxOut /\ UNCHANGED <<net, calls>> /\ quiet' \subseteq quiet
        /\ quiet' = IF "w" \in bev.enabled THEN quiet \ {"w"} ELSE quiet
    BY <1>3 DEF Write
  <2>4. CASE "w" \in bev.enabled
    <3> DEFINE a == Added(c, "w")
    <3>1. /\ a \in BevType /\ a.alive = c.alive /\ a.enabled = c.enabled
          /\ a.rlow = c.rlow /\ a.rhigh = c.rhigh /\ a.input = c.input
          /\ a.output = c.output /\ a.wrote = c.wrote
          /\ a.ev["r"] = c.ev["r"] /\ a.ev["w"] # "no" /\ a.pressure = c.pressure
      BY <1>1, <2>2, AddedIs
    <3> HIDE DEF a
    <3>2. bev' = a
      BY <2>1, <2>2, <2>4 DEF a
    <3>3. Typed'
      BY <1>2, <2>2, <2>3, <3>1, <3>2 DEF BevInv, Typed
    <3> QED
      BY <1>1, <2>2, <2>3, <2>4, <3>1, <3>2, <3>3
         DEF BevInv, ReadKept, NoWriteStall, DisabledIsSilent, PressureAboveMark, Dirs
  <2>5. CASE "w" \notin bev.enabled
    <3>1. bev' = c
      BY <2>1, <2>2, <2>5
    <3>2. Typed'
      BY <1>2, <2>2, <2>3, <3>1 DEF BevInv, Typed
    <3> QED
      BY <1>1, <2>2, <2>3, <2>5, <3>1, <3>2
         DEF BevInv, ReadKept, NoWriteStall, DisabledIsSilent, PressureAboveMark, Dirs
  <2> QED
    BY <2>4, <2>5
<1>4. CASE Read(n)
  <2>0. PICK m \in Nat : m = bev.input - n /\ m < bev.input
    <3>1. n \in 1..bev.input
      BY <1>4 DEF Read
    <3>2. bev.input - n \in Nat /\ bev.input - n < bev.input
      BY <1>2, <3>1
    <3> QED
      BY <3>2
  <2> DEFINE c == SetInput(bev, m)
  <2>1. /\ bev' = c /\ UNCHANGED <<net, calls>>
        /\ quiet' = IF bev'.ev["r"] # "no" THEN quiet \ {"r"} ELSE quiet
    BY <1>4, <2>0 DEF Read
  <2>2. /\ c \in BevType /\ c.input = m /\ c.alive = bev.alive
        /\ c.enabled = bev.enabled /\ c.rlow = bev.rlow /\ c.rhigh = bev.rhigh
        /\ c.output = bev.output /\ c.wrote = bev.wrote /\ c.ev["w"] = bev.ev["w"]
        /\ \/ /\ c.ev["r"] = bev.ev["r"] /\ c.pressure = bev.pressure
              /\ ~bev.pressure \/ m = bev.input \/ (bev.rhigh # 0 /\ m >= bev.rhigh)
           \/ /\ ~c.pressure /\ bev.pressure
              /\ "r" \in bev.enabled => c.ev["r"] # "no"
              /\ "r" \notin bev.enabled => c.ev["r"] = bev.ev["r"]
    BY <1>1, <1>2, InputIs, Zenon
  <2> HIDE DEF c
  <2>3. Typed'
    <3>1. c.input <= bev.input
      BY <1>2, <2>0, <2>2
    <3> QED
      BY <1>2, <2>1, <2>2, <3>1 DEF BevInv, Typed
  <2>4. PressureAboveMark'
    <3>1. m # bev.input
      BY <1>2, <2>0
    <3>2. c.pressure => bev.rhigh # 0 /\ m >= bev.rhigh
      BY <2>2, <3>1, Zenon
    <3> QED
      BY <2>1, <2>2, <3>2 DEF PressureAboveMark
  <2> QED
    BY <1>1, <2>1, <2>2, <2>3, <2>4
       DEF BevInv, ReadKept, NoWriteStall, DisabledIsSilent, Dirs
<1> QED
  BY <1>3, <1>4

\* The calls that enable and disable, set timeouts, marks and the descriptor, and
\* free.
LEMMA CallKeeps ==
  ASSUME Sane, BevInv,
         \/ \E d \in Dirs : Enable(d) \/ Disable(d)
         \/ \E r, w \in {0, 1} : SetTimeout(r, w)
         \/ \E d \in Dirs : \E low, high \in Marks : SetWatermark(d, low, high)
         \/ SetFd \/ Free
  PROVE  BevInv'
<1>1. "r" \in Dirs /\ "w" \in Dirs /\ "r" # "w" /\ Marks \subseteq Nat
  BY DEF Dirs, Sane
<1>2. /\ bev \in BevType /\ bev.input \in Nat /\ bev.output \in Nat /\ bev.wrote \in Nat
      /\ bev.rhigh \in Nat /\ calls \in Nat
  BY <1>1 DEF BevInv, Typed, BevType
<1>3. Call => UNCHANGED net /\ calls' \in Nat
  BY <1>2 DEF Call
<1>4. ASSUME Call, bev' \in BevType, quiet' \subseteq Dirs, bev'.input = bev.input,
             bev'.output = bev.output, bev'.wrote = bev.wrote
      PROVE  Typed'
  BY <1>2, <1>3, <1>4 DEF BevInv, Typed
<1>5. ASSUME NEW d \in Dirs, Enable(d)
      PROVE  BevInv'
  <2> DEFINE a == Added(bev, d)
  <2>1. /\ a \in BevType /\ a.alive = bev.alive /\ a.enabled = bev.enabled
        /\ a.rlow = bev.rlow /\ a.rhigh = bev.rhigh /\ a.input = bev.input
        /\ a.output = bev.output /\ a.wrote = bev.wrote /\ a.pressure = bev.pressure
        /\ a.ev[d] # "no" /\ \A e \in Dirs \ {d} : a.ev[e] = bev.ev[e]
    BY <1>2, AddedIs
  <2>2. bev' = [a EXCEPT !.enabled = @ \cup {d}] /\ quiet' = quiet \ {d} /\ Call
    BY <1>5 DEF Enable
  <2> HIDE DEF a
  <2>3. /\ bev' \in BevType /\ bev'.alive = bev.alive /\ bev'.enabled = bev.enabled \cup {d}
        /\ bev'.rlow = bev.rlow /\ bev'.rhigh = bev.rhigh /\ bev'.input = bev.input
        /\ bev'.output = bev.output /\ bev'.wrote = bev.wrote
        /\ bev'.pressure = bev.pressure
        /\ bev'.ev[d] # "no" /\ \A e \in Dirs \ {d} : bev'.ev[e] = bev.ev[e]
    BY <2>1, <2>2 DEF BevType
  <2>4. quiet' \subseteq Dirs
    BY <2>2 DEF BevInv, Typed
  <2>5. Typed'
    BY <1>4, <2>2, <2>3, <2>4
  <2>6. CASE d = "r"
    BY <1>1, <2>2, <2>3, <2>5, <2>6
       DEF BevInv, ReadKept, NoWriteStall, DisabledIsSilent, PressureAboveMark, Dirs
  <2>7. CASE d = "w"
    BY <1>1, <2>2, <2>3, <2>5, <2>7
       DEF BevInv, ReadKept, NoWriteStall, DisabledIsSilent, PressureAboveMark, Dirs
  <2> QED
    BY <2>6, <2>7 DEF Dirs
<1>6. ASSUME NEW d \in Dirs, Disable(d)
      PROVE  BevInv'
  <2> DEFINE a == Deleted(bev, d)
  <2>1. /\ a \in BevType /\ a.alive = bev.alive /\ a.enabled = bev.enabled
        /\ a.rlow = bev.rlow /\ a.rhigh = bev.rhigh /\ a.input = bev.input
        /\ a.output = bev.output /\ a.wrote = bev.wrote /\ a.pressure = bev.pressure
        /\ a.ev[d] = "no" /\ \A e \in Dirs \ {d} : a.ev[e] = bev.ev[e]
    BY <1>2, DeletedIs
  <2>2. bev' = [a EXCEPT !.enabled = @ \ {d}] /\ quiet' = quiet /\ Call
    BY <1>6 DEF Disable
  <2> HIDE DEF a
  <2>3. /\ bev' \in BevType /\ bev'.alive = bev.alive /\ bev'.enabled = bev.enabled \ {d}
        /\ bev'.rlow = bev.rlow /\ bev'.rhigh = bev.rhigh /\ bev'.input = bev.input
        /\ bev'.output = bev.output /\ bev'.wrote = bev.wrote
        /\ bev'.pressure = bev.pressure
        /\ bev'.ev[d] = "no" /\ \A e \in Dirs \ {d} : bev'.ev[e] = bev.ev[e]
    BY <2>1, <2>2 DEF BevType
  <2>4. quiet' \subseteq Dirs
    BY <2>2 DEF BevInv, Typed
  <2>5. Typed'
    BY <1>4, <2>2, <2>3, <2>4
  <2>6. CASE d = "r"
    BY <1>1, <2>2, <2>3, <2>5, <2>6
       DEF BevInv, ReadKept, NoWriteStall, DisabledIsSilent, PressureAboveMark, Dirs
  <2>7. CASE d = "w"
    BY <1>1, <2>2, <2>3, <2>5, <2>7
       DEF BevInv, ReadKept, NoWriteStall, DisabledIsSilent, PressureAboveMark, Dirs
  <2> QED
    BY <2>6, <2>7 DEF Dirs
<1>7. ASSUME SetFd \/ Free
      PROVE  BevInv'
  <2> DEFINE a == Deleted(bev, "r")
             b == Deleted(a, "w")
  <2>1. /\ a \in BevType /\ a.alive = bev.alive /\ a.enabled = bev.enabled
        /\ a.rlow = bev.rlow /\ a.rhigh = bev.rhigh /\ a.input = bev.input
        /\ a.output = bev.output /\ a.wrote = bev.wrote /\ a.pressure = bev.pressure
        /\ a.ev["r"] = "no"
    BY <1>1, <1>2, DeletedIs
  <2> HIDE DEF a
  <2>2. /\ b \in BevType /\ b.alive = bev.alive /\ b.enabled = bev.enabled
        /\ b.rlow = bev.rlow /\ b.rhigh = bev.rhigh /\ b.input = bev.input
        /\ b.output = bev.output /\ b.wrote = bev.wrote /\ b.pressure = bev.pressure
        /\ b.ev["r"] = "no" /\ b.ev["w"] = "no"
    BY <1>1, <2>1, DeletedIs
  <2> HIDE DEF b
  <2>3. \/ bev' = b /\ quiet' = Dirs /\ Call
        \/ bev' = [b EXCEPT !.alive = FALSE] /\ quiet' = quiet /\ Call
    BY <1>7 DEF SetFd, Free, a, b
  <2>4. CASE bev' = b /\ quiet' = Dirs /\ Call
    <3>1. Typed'
      BY <1>4, <2>2, <2>4
    <3> QED
      BY <2>2, <2>4, <3>1 DEF BevInv, ReadKept, NoWriteStall, DisabledIsSilent,
                              PressureAboveMark, Dirs
  <2>5. CASE bev' = [b EXCEPT !.alive = FALSE] /\ quiet' = quiet /\ Call
    <3>1. /\ bev' \in BevType /\ ~bev'.alive /\ bev'.enabled = bev.enabled
          /\ bev'.rlow = bev.rlow /\ bev'.rhigh = bev.rhigh /\ bev'.input = bev.input
          /\ bev'.output = bev.output /\ bev'.wrote = bev.wrote
          /\ bev'.pressure = bev.pressure /\ bev'.ev["r"] = "no" /\ bev'.ev["w"] = "no"
      BY <2>2, <2>5 DEF BevType
    <3>2. Typed'
      <4>1. quiet' \subseteq Dirs
        BY <2>5 DEF BevInv, Typed
      <4> QED
        BY <1>4, <2>5, <3>1, <4>1
    <3> QED
      BY <3>1, <3>2 DEF BevInv, ReadKept, NoWriteStall, DisabledIsSilent,
                        PressureAboveMark, Dirs
  <2> QED
    BY <2>3, <2>4, <2>5
<1>8. ASSUME NEW r \in {0, 1}, NEW w \in {0, 1}, SetTimeout(r, w)
      PROVE  BevInv'
  <2> DEFINE b == [bev EXCEPT !.tmo = [d \in Dirs |-> IF d = "r" THEN r ELSE w]]
             c == IF b.ev["r"] # "no" THEN Added(b, "r") ELSE b
             e == IF c.ev["w"] # "no" THEN Added(c, "w") ELSE c
  <2>1. /\ b \in BevType /\ b.alive = bev.alive /\ b.enabled = bev.enabled
        /\ b.rlow = bev.rlow /\ b.rhigh = bev.rhigh /\ b.input = bev.input
        /\ b.output = bev.output /\ b.wrote = bev.wrote /\ b.pressure = bev.pressure
        /\ b.ev = bev.ev
    BY <1>2 DEF BevType
  <2>2. bev' = e /\ quiet' = quiet /\ Call
    BY <1>8 DEF SetTimeout
  <2> HIDE DEF b
  <2>3. /\ c \in BevType /\ c.alive = bev.alive /\ c.enabled = bev.enabled
        /\ c.rlow = bev.rlow /\ c.rhigh = bev.rhigh /\ c.input = bev.input
        /\ c.output = bev.output /\ c.wrote = bev.wrote /\ c.pressure = bev.pressure
        /\ c.ev["r"] = "no" <=> bev.ev["r"] = "no"
        /\ c.ev["w"] = bev.ev["w"]
    <3> DEFINE a == Added(b, "r")
    <3>0. /\ a \in BevType /\ a.alive = b.alive /\ a.enabled = b.enabled
          /\ a.rlow = b.rlow /\ a.rhigh = b.rhigh /\ a.input = b.input
          /\ a.output = b.output /\ a.wrote = b.wrote /\ a.pressure = b.pressure
          /\ a.ev["r"] # "no" /\ a.ev["w"] = b.ev["w"]
      BY <1>1, <2>1, AddedIs
    <3> HIDE DEF a
    <3>1. CASE b.ev["r"] # "no"
      <4>1. c = a
        BY <3>1 DEF a
      <4> QED
        BY <2>1, <3>0, <3>1, <4>1
    <3>2. CASE b.ev["r"] = "no"
      BY <2>1, <3>2
    <3> QED
      BY <3>1, <3>2
  <2> HIDE DEF c
  <2>4. /\ e \in BevType /\ e.alive = bev.alive /\ e.enabled = bev.enabled
        /\ e.rlow = bev.rlow /\ e.rhigh = bev.rhigh /\ e.input = bev.input
        /\ e.output = bev.output /\ e.wrote = bev.wrote /\ e.pressure = bev.pressure
        /\ e.ev["r"] = "no" <=> bev.ev["r"] = "no"
        /\ e.ev["w"] = "no" <=> bev.ev["w"] = "no"
    <3> DEFINE a == Added(c, "w")
    <3>0. /\ a \in BevType /\ a.alive = c.alive /\ a.enabled = c.enabled
          /\ a.rlow = c.rlow /\ a.rhigh = c.rhigh /\ a.input = c.input
          /\ a.output = c.output /\ a.wrote = c.wrote /\ a.pressure = c.pressure
          /\ a.ev["w"] # "no" /\ a.ev["r"] = c.ev["r"]
      BY <1>1, <2>3, AddedIs
    <3> HIDE DEF a
    <3>1. CASE c.ev["w"] # "no"
      <4>1. e = a
        BY <3>1 DEF a
      <4> QED
        BY <2>3, <3>0, <3>1, <4>1
    <3>2. CASE c.ev["w"] = "no"
      BY <2>3, <3>2
    <3> QED
      BY <3>1, <3>2
  <2> HIDE DEF e
  <2>5. Typed'
    <3>1. quiet' \subseteq Dirs
      BY <2>2 DEF BevInv, Typed
    <3> QED
      BY <1>4, <2>2, <2>4, <3>1
  <2> QED
    BY <2>2, <2>4, <2>5 DEF BevInv, ReadKept, NoWriteStall, DisabledIsSilent,
                            PressureAboveMark, Dirs
<1>9. ASSUME NEW d \in Dirs, NEW low \in Marks, NEW high \in Marks, SetWatermark(d, low, high)
      PROVE  BevInv'
  <2> DEFINE b == IF d = "r" THEN [bev EXCEPT !.rlow = low, !.rhigh = high] ELSE bev
             p == PressureCb(b, b.input)
  <2>1. /\ b \in BevType /\ b.alive = bev.alive /\ b.enabled = bev.enabled
        /\ b.input = bev.input /\ b.output = bev.output /\ b.wrote = bev.wrote
        /\ b.pressure = bev.pressure /\ b.ev = bev.ev /\ b.rhigh \in Nat
    BY <1>1, <1>2 DEF BevType
  <2>2. /\ bev' = p /\ Call
        /\ quiet' = IF bev'.ev["r"] # "no" THEN quiet \ {"r"} ELSE quiet
    BY <1>9 DEF SetWatermark
  <2> HIDE DEF b
  <2>3. b.input \in Nat
    BY <1>2, <2>1
  <2>4. /\ p \in BevType /\ p.alive = b.alive /\ p.enabled = b.enabled /\ p.rhigh = b.rhigh
        /\ p.input = b.input /\ p.output = b.output /\ p.wrote = b.wrote
        /\ p.ev["w"] = b.ev["w"]
        /\ b.rhigh = 0 \/ b.input < b.rhigh
             => /\ ~p.pressure
                /\ p.ev["r"] = IF "r" \in b.enabled THEN Added(b, "r").ev["r"] ELSE b.ev["r"]
        /\ ~(b.rhigh = 0 \/ b.input < b.rhigh) => p = b
    BY <1>1, <2>1, <2>3, PressureIs
  <2>5. Added(b, "r").ev["r"] # "no"
    BY <1>1, <2>1, AddedIs
  <2> HIDE DEF p
  <2>6. Typed'
    <3>1. quiet' \subseteq Dirs
      BY <2>2 DEF BevInv, Typed
    <3> QED
      BY <1>4, <2>1, <2>2, <2>4, <3>1
  <2>7. CASE b.rhigh = 0 \/ b.input < b.rhigh
    BY <1>1, <2>1, <2>2, <2>4, <2>5, <2>6, <2>7
       DEF BevInv, ReadKept, NoWriteStall, DisabledIsSilent, PressureAboveMark, Dirs
  <2>8. CASE ~(b.rhigh = 0 \/ b.input < b.rhigh)
    <3>1. bev' = b /\ b.rhigh # 0 /\ b.input >= b.rhigh
      BY <2>1, <2>2, <2>3, <2>4, <2>8
    <3> QED
      BY <1>1, <2>1, <2>2, <2>6, <3>1
         DEF BevInv, ReadKept, NoWriteStall, DisabledIsSilent, PressureAboveMark, Dirs
  <2> QED
    BY <2>7, <2>8
<1> QED
  BY <1>5, <1>6, <1>7, <1>8, <1>9

\* Every step keeps the invariant.
LEMMA BevStep == Sane /\ BevInv /\ [Next]_vars => BevInv'
<1> SUFFICES ASSUME Sane, BevInv, [Next]_vars
             PROVE  BevInv'
  OBVIOUS
<1>1. CASE \E d \in Dirs : Timeout(d) \/ Error(d)
  BY <1>1, FailKeeps DEF Timeout, Error
<1>2. CASE ReadEof
  BY <1>2, FailKeeps DEF ReadEof, Dirs
<1>3. CASE (\E d \in Dirs : Again(d)) \/ ReadFull \/ WriteSome
  BY <1>3, CallbackKeeps
<1>4. CASE ReadSome
  BY <1>4, ReadSomeKeeps
<1>5. CASE \E n \in 1..2 : Write(n) \/ Read(n)
  BY <1>5, DataKeeps
<1>6. CASE \/ \E d \in Dirs : Enable(d) \/ Disable(d)
           \/ \E r, w \in {0, 1} : SetTimeout(r, w)
           \/ \E d \in Dirs : \E low, high \in Marks : SetWatermark(d, low, high)
           \/ SetFd \/ Free
  BY <1>6, CallKeeps
<1>7. CASE Peer
  <2>1. /\ net' \in [in : Nat, come : Nat, eof : BOOLEAN, out : Nat] /\ net'.out = net.out
        /\ bev.input + net'.in <= net'.come /\ net'.come <= MaxIn
    <3>1. /\ net \in [in : Nat, come : Nat, eof : BOOLEAN, out : Nat] /\ bev.input \in Nat
          /\ bev.input + net.in <= net.come /\ net.come <= MaxIn /\ MaxIn \in Nat
      BY DEF BevInv, Typed, BevType, Sane
    <3>2. CASE net.come < MaxIn /\ net' = [net EXCEPT !.in = @ + 1, !.come = @ + 1]
      <4>1. net.in \in Nat /\ net.come \in Nat
        BY <3>1
      <4>2. net.in + 1 \in Nat /\ net.come + 1 \in Nat
        BY <4>1
      <4>3. /\ net' \in [in : Nat, come : Nat, eof : BOOLEAN, out : Nat]
            /\ net'.out = net.out /\ net'.in = net.in + 1 /\ net'.come = net.come + 1
        BY <3>1, <3>2, <4>2
      <4> QED
        BY <3>1, <3>2, <4>1, <4>3
    <3>3. CASE net' = [net EXCEPT !.eof = TRUE]
      BY <3>1, <3>3
    <3> QED
      BY <1>7, <3>2, <3>3 DEF Peer
  <2>2. UNCHANGED <<bev, calls, quiet>>
    BY <1>7 DEF Peer
  <2> QED
    BY <2>1, <2>2 DEF BevInv, Typed, ReadKept, NoWriteStall, DisabledIsSilent,
                      PressureAboveMark
<1>8. CASE UNCHANGED vars
  BY <1>8 DEF vars, BevInv, Typed, ReadKept, NoWriteStall, DisabledIsSilent, PressureAboveMark
<1> QED
  BY <1>1, <1>2, <1>3, <1>4, <1>5, <1>6, <1>7, <1>8 DEF Next

\* The inductive invariant of buffered events.
LEMMA BevAlways == ASSUME Sane PROVE Spec => []BevInv
<1>1. Init => BevInv
  BY BevInit
<1>2. BevInv /\ [Next]_vars => BevInv'
  BY BevStep
<1> QED
  BY <1>1, <1>2, PTL DEF Spec

\* The fields of a buffered event have their types, and the bytes that the program
\* has written are in the output buffer or have left, none of them twice.
THEOREM BevTyped == ASSUME Sane PROVE Spec => []TypeOK
<1>1. BevInv => TypeOK
  <2> SUFFICES ASSUME BevInv PROVE TypeOK
    OBVIOUS
  <2>1. /\ bev.enabled \subseteq Dirs /\ bev.ev \in [Dirs -> {"no", "plain", "timed"}]
        /\ bev.tmo \in [Dirs -> {0, 1}] /\ bev.rlow \in Marks /\ bev.rhigh \in Marks
        /\ bev.input \in Nat /\ bev.output \in Nat /\ bev.wrote \in Nat
        /\ net.in \in Nat /\ net.out \in Nat /\ net.come \in Nat
        /\ bev.input + net.in <= net.come /\ net.come <= MaxIn
        /\ bev.wrote = bev.output + net.out /\ bev.wrote <= MaxOut
    BY DEF BevInv, Typed, BevType
  <2>2. bev.input \in 0..MaxIn /\ bev.output \in 0..MaxOut
    BY <2>1 DEF Sane
  <2> QED
    BY <2>1, <2>2 DEF TypeOK
<1> QED
  BY <1>1, BevAlways, PTL

\* Reading that is enabled never stalls: bufferevent_readcb(), the watermark
\* callback and every call leave the event pending or the callback in place.
THEOREM ReadingGoesOn == ASSUME Sane PROVE Spec => []NoReadStall
<1>1. BevInv => NoReadStall
  <2> SUFFICES ASSUME BevInv PROVE NoReadStall
    OBVIOUS
  <2>1. bev.input \in Nat /\ bev.rhigh \in Nat
    BY DEF BevInv, Typed, BevType, Sane
  <2> QED
    BY <2>1 DEF BevInv, ReadKept, PressureAboveMark, NoReadStall
<1> QED
  BY <1>1, BevAlways, PTL

\* Output that waits has a pending event while writing is enabled.
THEOREM WritingGoesOn == ASSUME Sane PROVE Spec => []NoWriteStall
<1>1. BevInv => NoWriteStall
  BY DEF BevInv
<1> QED
  BY <1>1, BevAlways, PTL

\* After bufferevent_disable() no callback of that direction comes, whatever
\* timeouts and marks are set, until it is enabled again.
THEOREM SilentWhenDisabled == ASSUME Sane PROVE Spec => []DisabledIsSilent
<1>1. BevInv => DisabledIsSilent
  BY DEF BevInv
<1> QED
  BY <1>1, BevAlways, PTL

\* The watermark callback is in place only at or above the high mark.
THEOREM PressureOnlyAboveMark == ASSUME Sane PROVE Spec => []PressureAboveMark
<1>1. BevInv => PressureAboveMark
  BY DEF BevInv
<1> QED
  BY <1>1, BevAlways, PTL

\* All of it at once: for any marks and any number of bytes and calls, no order of calls, reads,
\* writes, timeouts and errors makes a direction stall or speak when it should not.
THEOREM BufferedEventsSound == ASSUME Sane PROVE Spec => []BevSound
<1>1. NoReadStall /\ NoWriteStall /\ DisabledIsSilent /\ PressureAboveMark => BevSound
  BY DEF BevSound
<1> QED
  BY <1>1, ReadingGoesOn, WritingGoesOn, SilentWhenDisabled, PressureOnlyAboveMark, PTL

\* The input grows only where bufferevent_readcb() takes data.
LEMMA InputStep ==
  ASSUME Sane, BevInv, Next, ~ReadSome
  PROVE  bev'.input <= bev.input
<1>1. /\ "r" \in Dirs /\ "w" \in Dirs /\ Marks \subseteq Nat
      /\ bev \in BevType /\ bev.input \in Nat
  BY DEF Dirs, Sane, BevInv, Typed, BevType
<1>2. \A b \in BevType : \A d \in Dirs : /\ Added(b, d) \in BevType /\ Added(b, d).input = b.input
                                         /\ Deleted(b, d) \in BevType
                                         /\ Deleted(b, d).input = b.input
  BY AddedIs, DeletedIs
<1>3. CASE \E d \in Dirs : Timeout(d) \/ Error(d) \/ Again(d) \/ Enable(d) \/ Disable(d)
  <2> PICK d \in Dirs : Timeout(d) \/ Error(d) \/ Again(d) \/ Enable(d) \/ Disable(d)
    BY <1>3
  <2> DEFINE a == Added(bev, d)
             g == Deleted(bev, d)
  <2>1. a \in BevType /\ a.input = bev.input /\ g \in BevType /\ g.input = bev.input
    BY <1>1, <1>2
  <2>2. \/ bev' = g \/ bev' = Added(g, d)
        \/ bev' = [a EXCEPT !.enabled = @ \cup {d}] \/ bev' = [g EXCEPT !.enabled = @ \ {d}]
    BY DEF Timeout, Error, Fail, Again, Enable, Disable
  <2> HIDE DEF a, g
  <2>3. bev'.input = bev.input
    BY <1>2, <2>1, <2>2 DEF BevType
  <2> QED
    BY <1>1, <2>3
<1>4. CASE ReadFull \/ ReadEof \/ SetFd \/ Free
  <2> DEFINE g == Deleted(bev, "r")
             h == Deleted(g, "w")
  <2>1. g \in BevType /\ g.input = bev.input
    BY <1>1, <1>2
  <2> HIDE DEF g
  <2>2. h \in BevType /\ h.input = bev.input
    BY <1>1, <1>2, <2>1
  <2>3. \/ bev' = g \/ bev' = [g EXCEPT !.pressure = TRUE]
        \/ bev' = h \/ bev' = [h EXCEPT !.alive = FALSE]
    BY <1>4 DEF ReadFull, StopReading, ReadEof, Fail, SetFd, Free, g, h
  <2> HIDE DEF h
  <2>4. bev'.input = bev.input
    BY <2>1, <2>2, <2>3 DEF BevType
  <2> QED
    BY <1>1, <2>4
<1>5. CASE WriteSome
  <2> DEFINE g == Deleted(bev, "w")
             rest(n) == [g EXCEPT !.output = @ - n]
  <2>1. g \in BevType /\ g.input = bev.input
    BY <1>1, <1>2
  <2>2. PICK n \in 0..bev.output : bev' = AfterWrite(rest(n))
    BY <1>5, Zenon DEF WriteSome
  <2> HIDE DEF g
  <2>3. bev.output \in Nat /\ g.output = bev.output
    BY <1>1, DeletedIs DEF BevType, g
  <2>4. bev.output - n \in Nat
    BY <2>3
  <2>5. rest(n) \in BevType /\ rest(n).input = bev.input
    BY <2>1, <2>3, <2>4 DEF BevType
  <2> HIDE DEF rest
  <2>6. Added(rest(n), "w").input = bev.input
    BY <1>1, <1>2, <2>5
  <2>7. bev'.input = bev.input
    BY <2>2, <2>5, <2>6 DEF AfterWrite
  <2> QED
    BY <1>1, <2>7
<1>6. CASE \E n \in 1..2 : Write(n)
  <2> PICK n \in 1..2 : Write(n)
    BY <1>6
  <2> DEFINE c == [bev EXCEPT !.output = @ + n, !.wrote = @ + n]
  <2>1. bev' = IF "w" \in c.enabled THEN Added(c, "w") ELSE c
    BY DEF Write, Written
  <2>2. bev.output + n \in Nat /\ bev.wrote + n \in Nat
    <3>1. bev.output \in Nat /\ bev.wrote \in Nat
      BY <1>1 DEF BevType
    <3> QED
      BY <3>1
  <2>3. c \in BevType /\ c.input = bev.input
    BY <1>1, <2>2 DEF BevType
  <2> HIDE DEF c
  <2>4. Added(c, "w").input = bev.input
    BY <1>1, <1>2, <2>3
  <2>5. bev'.input = bev.input
    BY <2>1, <2>3, <2>4
  <2> QED
    BY <1>1, <2>5
<1>7. CASE \E n \in 1..2 : Read(n)
  <2> PICK n \in 1..2 : Read(n)
    BY <1>7
  <2>1. n \in 1..bev.input /\ bev' = SetInput(bev, bev.input - n)
    BY DEF Read
  <2>2. bev.input - n \in Nat /\ bev.input - n <= bev.input
    BY <1>1, <2>1
  <2>3. bev'.input = bev.input - n
    BY <1>1, <2>1, <2>2, InputIs
  <2> QED
    BY <2>2, <2>3
<1>8. CASE \E r, w \in {0, 1} : SetTimeout(r, w)
  <2> PICK r \in {0, 1}, w \in {0, 1} : SetTimeout(r, w)
    BY <1>8
  <2> DEFINE b == [bev EXCEPT !.tmo = [d \in Dirs |-> IF d = "r" THEN r ELSE w]]
             c == IF b.ev["r"] # "no" THEN Added(b, "r") ELSE b
             e == IF c.ev["w"] # "no" THEN Added(c, "w") ELSE c
  <2>1. b \in BevType /\ b.input = bev.input
    BY <1>1 DEF BevType
  <2>2. bev' = e
    BY DEF SetTimeout
  <2> HIDE DEF b
  <2>3. Added(b, "r") \in BevType /\ Added(b, "r").input = bev.input
    BY <1>1, <1>2, <2>1
  <2>4. c \in BevType /\ c.input = bev.input
    BY <2>1, <2>3
  <2> HIDE DEF c
  <2>5. Added(c, "w").input = bev.input
    BY <1>1, <1>2, <2>4
  <2>6. e.input = bev.input
    BY <2>4, <2>5
  <2> QED
    BY <1>1, <2>2, <2>6
<1>9. CASE \E d \in Dirs : \E low, high \in Marks : SetWatermark(d, low, high)
  <2> PICK d \in Dirs, low \in Marks, high \in Marks : SetWatermark(d, low, high)
    BY <1>9
  <2> DEFINE b == IF d = "r" THEN [bev EXCEPT !.rlow = low, !.rhigh = high] ELSE bev
  <2>1. b \in BevType /\ b.input = bev.input
    BY <1>1 DEF BevType
  <2>2. bev' = PressureCb(b, b.input)
    BY DEF SetWatermark
  <2> HIDE DEF b
  <2>3. bev'.input = bev.input
    BY <1>1, <2>1, <2>2, PressureIs
  <2> QED
    BY <1>1, <2>3
<1>10. CASE Peer
  BY <1>1, <1>10 DEF Peer
<1> QED
  BY <1>3, <1>4, <1>5, <1>6, <1>7, <1>8, <1>9, <1>10 DEF Next

\* A read never takes the input beyond the high mark, whatever the marks were when
\* the data came.
THEOREM MarkNeverPassed == ASSUME Sane PROVE Spec => HighMarkHeld
<1> DEFINE Held == bev'.input > bev.input /\ bev.rhigh # 0 => bev'.input <= bev.rhigh
<1>1. BevInv /\ [Next]_vars => [Held]_vars
  <2> SUFFICES ASSUME BevInv, Next
               PROVE  Held
    OBVIOUS
  <2>1. /\ "r" \in Dirs /\ Marks \subseteq Nat
        /\ bev \in BevType /\ bev.input \in Nat /\ bev.rhigh \in Nat /\ net.in \in Nat
    BY DEF Dirs, Sane, BevInv, Typed, BevType
  <2>2. bev' \in BevType /\ bev'.input \in Nat
    BY BevStep DEF BevInv, Typed, BevType
  <2>3. CASE ~ReadSome
    <3>1. bev'.input <= bev.input
      BY <2>3, InputStep
    <3> QED
      BY <2>1, <2>2, <3>1
  <2>4. CASE ReadSome
    <3> DEFINE full(n) == SetInput(Deleted(bev, "r"), bev.input + n)
    <3>1. PICK n \in 1..net.in : n <= Room /\ bev' = AfterRead(Added(full(n), "r"))
      BY <2>4, Zenon DEF ReadSome
    <3>2. bev.input + n \in Nat
      BY <2>1
    <3>3. Deleted(bev, "r") \in BevType
      BY <2>1, DeletedIs
    <3>4. full(n) \in BevType /\ full(n).input = bev.input + n
      BY <2>1, <3>2, <3>3, InputIs
    <3> HIDE DEF full
    <3>5. Added(full(n), "r") \in BevType /\ Added(full(n), "r").input = bev.input + n
      BY <2>1, <3>4, AddedIs
    <3>6. /\ Deleted(Added(full(n), "r"), "r") \in BevType
          /\ Deleted(Added(full(n), "r"), "r").input = bev.input + n
      BY <2>1, <3>5, DeletedIs
    <3>7. bev'.input = bev.input + n
      BY <3>1, <3>5, <3>6 DEF AfterRead, StopReading, BevType
    <3>8. bev.rhigh # 0 => n <= bev.rhigh - bev.input
      BY <3>1 DEF Room
    <3> QED
      BY <2>1, <3>7, <3>8
  <2> QED
    BY <2>3, <2>4
<1>2. [][Held]_vars => HighMarkHeld
  BY PTL DEF HighMarkHeld
<1> QED
  BY <1>1, <1>2, BevAlways, PTL DEF Spec
=============================================================================
