----------------------------- MODULE MCLibevent -----------------------------
(***************************************************************************)
(* The parts of libevent below HTTP and DNS, for TLC: the heap of timeouts *)
(* and the event base (with a clock that never goes back, and with one     *)
(* that does), buffers, buffered events and tagged messages.               *)
(* part says which of them a behaviour is about.                           *)
(***************************************************************************)
EXTENDS BufferEvent, Sequences

CONSTANTS None, Junk   \* model values

VARIABLES part,
          heap, key, in,                                                           \* MinHeap
          base, pc, flag, until, queue, cur, left, gotterm, brk, clock, cache,
          event_tv, budget, loops, armed, since, faults,                           \* EventBase
          buf, told,                                                               \* Buffer
          sent, tbuf, cut, got, phase                                              \* EventTagging

hp == <<heap, key, in>>
eb == <<base, pc, flag, until, queue, cur, left, gotterm, brk, clock, cache, event_tv, budget,
        loops, armed, since, faults>>
bf == <<buf, told>>
tg == <<sent, tbuf, cut, got, phase>>
all == <<part, hp, eb, bf, vars, tg>>

-----------------------------------------------------------------------------
(* Instances.                                                              *)

\* Six events: the last one of a heap may belong above the place of an erased one.
Hp == INSTANCE MinHeap WITH Events <- {"e1", "e2", "e3", "e4", "e5", "e6"}, MaxKey <- 2

\* An event for a descriptor, one for a signal with the lower priority, and the timer of
\* event_base_loopexit().
Eb == INSTANCE EventBase WITH Events <- {"io", "sig", "ex"}, Io <- {"io", "sig"},
        Signals <- {"sig"}, Persist <- {"sig"}, Exit <- "ex", Pushed <- {"io"}, NPri <- 2,
        Pri <- [io |-> 0, sig |-> 1, ex |-> 0], Delays <- {1}, MaxTime <- 3, MaxLag <- 2,
        MaxCalls <- 3, MaxLoops <- 1, Monotonic <- TRUE

\* The time of day, which somebody sets back.
Ec == INSTANCE EventBase WITH Events <- {"io", "sig", "ex"}, Io <- {"io", "sig"},
        Signals <- {"sig"}, Persist <- {"sig"}, Exit <- "ex", Pushed <- {"io"}, NPri <- 2,
        Pri <- [io |-> 0, sig |-> 1, ex |-> 0], Delays <- {1, 2}, MaxTime <- 3, MaxLag <- 2,
        MaxCalls <- 2, MaxLoops <- 1, Monotonic <- FALSE

\* 13 and 10 are the two line ends.
Bf == INSTANCE Buffer WITH Bufs <- {"in", "out"}, Bytes <- {10, 13}, CR <- 13, LF <- 10,
        MinSize <- 2, PrintfSpace <- 1, MaxRead <- 2, MaxTotal <- 6,
        Inputs <- {<<>>, <<10>>, <<13, 10>>, <<10, 10, 13>>}

Tg == INSTANCE EventTagging WITH buf <- tbuf, Tops <- {4, 31}, TagTops <- {31}, MaxItems <- 2

ASSUME InstancesSane == Eb!Sane /\ Ec!Sane /\ Bf!Sane /\ Sane /\ Tg!Sane

-----------------------------------------------------------------------------
Parts == {"heap", "base", "clock", "buffer", "bufferevent", "tagging"}

AllInit == /\ part \in Parts
           /\ Hp!Init
           /\ IF part = "clock" THEN Ec!Init ELSE Eb!Init
           /\ Bf!Init
           /\ Init
           /\ Tg!Init

AllNext == /\ UNCHANGED part
           /\ IF part = "heap" THEN Hp!Next ELSE UNCHANGED hp
           /\ CASE part = "base" -> Eb!Next
                [] part = "clock" -> Ec!Next
                [] OTHER -> UNCHANGED eb
           /\ IF part = "buffer" THEN Bf!Next ELSE UNCHANGED bf
           /\ IF part = "bufferevent" THEN Next ELSE UNCHANGED vars
           /\ IF part = "tagging" THEN Tg!Next ELSE UNCHANGED tg

AllSpec == AllInit /\ [][AllNext]_all

-----------------------------------------------------------------------------
(* Properties.                                                             *)

\* min_heap_push(), min_heap_erase() and min_heap_pop() in any order leave a heap in which
\* every event knows its place; the lists, counters and flags of event.c agree with each
\* other after any calls from any callbacks, and event_base_free() leaves none of them.
ListsExact == /\ part = "heap" => Hp!HeapOrdered /\ Hp!HeapIndexed
              /\ part = "base" => Eb!TypeOK /\ Eb!ListsAgree /\ Eb!FreedEmpty

\* No callback after event_del(), no timer before its time, and no sleep longer than the
\* longest timeout although the clock was set back.
CallsRight == /\ part = "base" => Eb!NoCallAfterDel /\ Eb!NeverEarly
              /\ part = "clock" => Ec!SleepBounded

\* The data of a buffer is inside its memory and evbuffer_find() is exact; a tagged message
\* is read as it was written, and only when it has arrived.
StreamsSound == /\ part = "buffer" => Bf!InsideMemory /\ Bf!FindIsFirst
                /\ part = "tagging" => Tg!ReadsBack /\ Tg!FailsWhenCut /\ Tg!PeekAgrees

\* buffer.c implements queues of bytes, and a buffered event never reads beyond its mark.
BuffersAreQueues == Bf!QueueSpec /\ HighMarkHeld
=============================================================================
