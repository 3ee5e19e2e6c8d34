----------------------------- MODULE MCProgress -----------------------------
(***************************************************************************)
(* What must happen in the end, for TLC: the event loop, signals, buffered *)
(* events, the resolver, HTTP on both sides, the RPC pool and the web page *)
(* under the fairness that each module states.  part says which of them a  *)
(* behaviour is about; the others do nothing, and nothing is asked of them.*)
(***************************************************************************)
EXTENDS Integers, Sequences

CONSTANT None   \* a model value

VARIABLES part,
          base, pc, flag, until, queue, cur, left, gotterm, brk, clock, cache,
          event_tv, budget, loops, armed, since, faults,                           \* EventBase
          sig, disp, evsignal_base, spc, scur, stold, scan, signals, scalls, owed,
          sfaults,                                                                 \* Signal
          bev, net, calls, quiet,                                                  \* BufferEvent
          g, link, rfaults,                                                        \* Resolver
          hpc, state, hev, inbuf, hreq, reply, hleft, end, hnet, peer, asked, togo,
          hcalls, replies,                                                         \* HttpConn
          preq, phase, open, freed, outbuf, pev, cb, gone, sent, decoder,          \* HttpReply
          con, cpc, cmade, told, called,                                           \* HttpClient
          conns, waiting, rqueue, dead, timer, stack, rmade, started, results,
          live, pool, wrong,                                                       \* RpcPool
          text, web, wleft, toChild, child, block, made, toWeb, got, failed        \* WebFront

eb == <<base, pc, flag, until, queue, cur, left, gotterm, brk, clock, cache, event_tv, budget,
        loops, armed, since, faults>>
sg == <<sig, disp, evsignal_base, spc, scur, stold, scan, signals, scalls, owed, sfaults>>
bv == <<bev, net, calls, quiet>>
rs == <<g, link, rfaults>>
hs == <<hpc, state, hev, inbuf, hreq, reply, hleft, end, hnet, peer, asked, togo, hcalls, replies>>
hr == <<preq, phase, open, freed, outbuf, pev, cb, gone, sent, decoder>>
hc == <<con, cpc, cmade, told, called>>
rp == <<conns, waiting, rqueue, dead, timer, stack, rmade, started, results, live, pool, wrong>>
wf == <<text, web, wleft, toChild, child, block, made, toWeb, got, failed>>
all == <<part, eb, sg, bv, rs, hs, hr, hc, rp, wf>>

-----------------------------------------------------------------------------
(* Instances.                                                              *)

Eb == INSTANCE EventBase WITH Events <- {"io", "sig", "ex"}, Io <- {"io", "sig"},
        Signals <- {"sig"}, Persist <- {"sig"}, Exit <- "ex", Pushed <- {"io"}, NPri <- 2,
        Pri <- [io |-> 0, sig |-> 1, ex |-> 0], Delays <- {1}, MaxTime <- 3, MaxLag <- 1,
        MaxCalls <- 2, MaxLoops <- 1, Monotonic <- TRUE

\* With all failures of evsignal_add().
Sg == INSTANCE Signal WITH pc <- spc, cur <- scur, told <- stold, calls <- scalls, faults <- sfaults,
        Bases <- {"b1"}, SigEvents <- {"e1", "e2", "e3"}, Sigs <- {1, 2},
        BaseOf <- [e1 |-> "b1", e2 |-> "b1", e3 |-> "b1"], SigOf <- [e1 |-> 1, e2 |-> 1, e3 |-> 2],
        Persist <- {"e1", "e3"}, Pair <- 2, Faults <- {"sh_old", "sigaction", "ev_signal"},
        MaxSignals <- 2, MaxCalls <- 3

Bv == INSTANCE BufferEvent WITH Marks <- {0, 1, 2}, MaxIn <- 2, MaxOut <- 2, MaxCalls <- 2

Rs == INSTANCE Resolver WITH faults <- rfaults, Servers <- {"s1"}, Users <- {"u1", "u2"},
        Names <- [u1 |-> 1, u2 |-> 0], MaxInflight <- 3, MaxRetransmits <- 1, MaxReissues <- 1,
        MaxNsTimeouts <- 0, NIds <- 4, NSlots <- 3, MaxNet <- 1, MaxFaults <- 1,
        Faults <- {"again", "error"}, Closes <- FALSE

\* A client that may do anything, and one that waits for each reply, without a timeout.
Get == [line |-> "get", minor |-> 1, proxy |-> FALSE, conn |-> "none", header |-> "ok",
        body |-> "none", len |-> 0, torn |-> "none", cut |-> "text"]
Post == [Get EXCEPT !.line = "post", !.body = "length", !.len = 2]
Requests == {Get, [Get EXCEPT !.torn = "first"], Post, [Post EXCEPT !.body = "chunked", !.len = 1]}
Hs == INSTANCE HttpConn WITH pc <- hpc, ev <- hev, req <- hreq, left <- hleft, net <- hnet,
        calls <- hcalls, Requests <- (Requests \ {Post}) \cup {[Get EXCEPT !.torn = "end", !.cut = "crlf"]},
        MaxReqs <- 2, MaxWrites <- 2, Timeout <- -1, Pipelining <- TRUE
Hw == INSTANCE HttpConn WITH pc <- hpc, ev <- hev, req <- hreq, left <- hleft, net <- hnet,
        calls <- hcalls, MaxReqs <- 2, MaxWrites <- 2, Timeout <- 0, Pipelining <- FALSE

Hr == INSTANCE HttpReply WITH req <- preq, ev <- pev, client <- decoder,
        Requests <- [minor : {0, 1}, conn : {"none", "close", "keep"}],
        Sizes <- {1}, MaxReqs <- 2, MaxPieces <- 2, Leaves <- TRUE

Resp(code, keep, body) == [line |-> "ok", code |-> code, conn |-> keep, body |-> body]
Hc == INSTANCE HttpClient WITH pc <- cpc, made <- cmade,
        Asked <- <<[head |-> FALSE, close |-> FALSE], [head |-> FALSE, close |-> FALSE]>>,
        Responses <- {Resp("other", "none", "length"), Resp("other", "close", "length"),
                      Resp("other", "none", "chunked"), Resp("nobody", "none", "length"),
                      Resp("other", "none", "eof"), Resp("other", "none", "badlength")},
        RetryMax <- 1, MaxCnt <- 1, Timeout <- -1, FailsNow <- FALSE, Breaks <- TRUE, FreeIn <- {}

Rp == INSTANCE RpcPool WITH queue <- rqueue, made <- rmade, Calls <- 1..3, Conns <- {1, 2},
        Timeout <- TRUE, HookFails <- FALSE, FailsNow <- FALSE, FreesPool <- FALSE

Wf == INSTANCE WebFront WITH left <- wleft, MaxText <- 7, Expand <- 2, Pipe <- 6, Block <- 3, OutBuf <- 3

ASSUME InstancesSane == /\ Eb!Sane /\ Sg!Sane /\ Bv!Sane /\ Rs!Sane /\ Hr!Sane /\ Hc!Sane /\ Rp!Sane
                        /\ Wf!Sane

-----------------------------------------------------------------------------
Parts == {"base", "signal", "bufferevent", "resolver", "server", "waits", "reply", "client", "pool", "web"}

AllInit == /\ part \in Parts
           /\ part # "web" => text = 0
           /\ Eb!Init
           /\ Sg!Init
           /\ Bv!Init
           /\ Rs!Init
           /\ IF part = "waits" THEN Hw!Init ELSE Hs!Init
           /\ Hr!Init
           /\ Hc!Init
           /\ Rp!Init
           /\ Wf!Init

AllNext == /\ UNCHANGED part
           /\ IF part = "base" THEN Eb!Next ELSE UNCHANGED eb
           /\ IF part = "signal" THEN Sg!Next ELSE UNCHANGED sg
           /\ IF part = "bufferevent" THEN Bv!Next ELSE UNCHANGED bv
           /\ IF part = "resolver" THEN Rs!Next ELSE UNCHANGED rs
           /\ CASE part = "server" -> Hs!Next
                [] part = "waits" -> Hw!Next
                [] OTHER -> UNCHANGED hs
           /\ IF part = "reply" THEN Hr!Next ELSE UNCHANGED hr
           /\ IF part = "client" THEN Hc!Next ELSE UNCHANGED hc
           /\ IF part = "pool" THEN Rp!Next ELSE UNCHANGED rp
           /\ IF part = "web" THEN Wf!Next ELSE UNCHANGED wf

-----------------------------------------------------------------------------
(* Fairness, as the modules state it: a part that a behaviour is not about *)
(* asks for nothing.                                                       *)

Fairness ==
  /\ WF_eb(part = "base" /\ Eb!Loop) /\ SF_eb(part = "base" /\ Eb!Tick)
  /\ WF_sg(part = "signal" /\ Sg!Runs)
  /\ WF_bv(part = "bufferevent" /\ Bv!WriteSome) /\ WF_bv(part = "bufferevent" /\ Bv!ReadSome)
  /\ WF_bv(part = "bufferevent" /\ \E n \in 1..2 : Bv!Read(n))
  /\ \A r \in 1..3 : Rs!TimerEnds(r)
  /\ Rs!WritableSeen("s1") /\ WF_rs(part = "resolver" /\ Rs!Unblock("s1"))
  /\ WF_hs(part = "server" /\ Hs!Callback) /\ WF_hs(part = "server" /\ Hs!EventFails)
  /\ WF_hs(part = "waits" /\ Hw!Callback) /\ WF_hs(part = "waits" /\ Hw!EventFails)
  /\ WF_hr(part = "reply" /\ (Hr!SendReplyStart \/ Hr!SendReplyEnd))
  /\ WF_hr(part = "reply" /\ (Hr!WritePart \/ Hr!WriteRest \/ (gone /\ Hr!WriteFails)))
  /\ WF_hc(part = "client" /\ Hc!Loop)
  /\ WF_rp(part = "pool" /\ (Rp!Schedule \/ Rp!Return))
  /\ \A i \in 1..3 : WF_rp(part = "pool" /\ Rp!TimedOut(i))
  /\ WF_wf(part = "web" /\ Wf!Web) /\ WF_wf(part = "web" /\ Wf!Child)

FairSpec == AllInit /\ [][AllNext]_all /\ Fairness

-----------------------------------------------------------------------------
(* Properties.  As a behaviour is about one part, the k-th thing to wait   *)
(* for of each part is in one formula.                                     *)

Ev == <<"io", "ex", "sig">>
SigEv == <<"e1", "e2", "e3">>
User == <<"u1", "u2">>

LoopOwes(k) == \/ /\ part = "base"
                  /\ \/ k = 1 /\ Eb!ExitDue
                     \/ k \in 2..3 /\ Eb!CallDue(Ev[k - 1])
                     \/ k \in 4..6 /\ Eb!TimerDue(Ev[k - 3])
               \/ part = "signal" /\ k \in 1..3 /\ SigEv[k] \in owed
LoopSettled(k) == \/ /\ part = "base"
                     /\ \/ k = 1 /\ Eb!ExitSettled
                        \/ k \in 2..3 /\ Eb!CallSettled(Ev[k - 1])
                        \/ k \in 4..6 /\ Eb!TimerSettled(Ev[k - 3])
                  \/ part = "signal" /\ k \in 1..3 /\ SigEv[k] \notin owed

\* What the event loop was told of, it does: event_base_loopexit() ends it, an active event
\* of the highest priority and a timer are called, and a delivered signal, which is counted
\* in a handler and read through a socket pair, reaches the events that listen to it.
LoopProgress == \A k \in 1..6 : LoopOwes(k) ~> LoopSettled(k)

Waits(k) == \/ part = "bufferevent" /\ ((k = 1 /\ bev.output > 0) \/ (k = 2 /\ net.in > 0))
            \/ part = "resolver" /\ k \in 1..2 /\ User[k] \in g.asked
            \/ part = "server" /\ k = 1
            \/ part = "waits" /\ k \in 1..2 /\ Hw!RequestSent(k)
            \/ part = "reply" /\ k = 1 /\ preq # Hr!NoRequest
            \/ part = "client" /\ k \in 1..cmade
            \/ part = "pool" /\ k \in 1..rmade
            \/ part = "web" /\ k = 1
Served(k) == \/ part = "bufferevent" /\ ((k = 1 /\ Bv!OutputSettled) \/ (k = 2 /\ Bv!InputSettled))
             \/ part = "resolver" /\ k \in 1..2 /\ g.answers[User[k]] = 1
             \/ part = "server" /\ state = "freed"
             \/ part = "waits" /\ Hw!RequestSettled(k)
             \/ part = "reply" /\ preq = Hr!NoRequest
             \/ part = "client" /\ (Len(called) >= k \/ con.state = "freed")
             \/ part = "pool" /\ Rp!Results(k) = 1
             \/ part = "web" /\ web \in {"page", "error"}

\* Nobody waits for ever: an enabled buffered event does not stall at its water marks, a
\* resolve gets its callback although no server answers, a connection of the server is freed
\* whatever its client does, a client that waits gets its reply, a reply in pieces ends, the
\* requests of the HTTP client and of the RPC pool are called back, and the web page comes
\* although two full pipes lie between two processes.
EveryoneServed == \A k \in 1..3 : Waits(k) ~> Served(k)
=============================================================================
