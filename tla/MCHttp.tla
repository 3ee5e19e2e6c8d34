------------------------------- MODULE MCHttp -------------------------------
(***************************************************************************)
(* HTTP and RPC for TLC: a connection of the server, replies in pieces,    *)
(* a connection of the client, the texts of http.c, the RPC pool and the   *)
(* RPC server.  part says which of them a behaviour is about.              *)
(***************************************************************************)
EXTENDS HttpConn

VARIABLES part,
          hreq, phase, open, freed, outbuf, hev, cb, gone, sent, decoder,         \* HttpReply
          con, cpc, cmade, told, called,                                          \* HttpClient
          last,                                                                   \* HttpText
          conns, waiting, queue, dead, timer, stack, pmade, started, results,
          live, pool, pwrong,                                                     \* RpcPool
          base, rpcs, callbacks, rmade, input, output, rstate, used, rreplies,
          rfreed, rwrong, aborted                                                 \* RpcServer

hr == <<hreq, phase, open, freed, outbuf, hev, cb, gone, sent, decoder>>
hc == <<con, cpc, cmade, told, called>>
rp == <<conns, waiting, queue, dead, timer, stack, pmade, started, results, live, pool, pwrong>>
rs == <<base, rpcs, callbacks, rmade, input, output, rstate, used, rreplies, rfreed, rwrong, aborted>>
all == <<part, vars, hr, hc, last, rp, rs>>

-----------------------------------------------------------------------------
(* Requests of clients that differ in one way from a plain one.            *)

Get == [line |-> "get", minor |-> 1, proxy |-> FALSE, conn |-> "none", header |-> "ok",
        body |-> "none", len |-> 0, torn |-> "none", cut |-> "text"]
Post == [Get EXCEPT !.line = "post", !.body = "length", !.len = 2]

\* Every version and header that decides whether the connection is kept.
Gets == {[Get EXCEPT !.minor = m, !.conn = c] : m \in {0, 1}, c \in {"none", "close", "keep"}}
          \cup {[Get EXCEPT !.minor = m, !.proxy = TRUE, !.conn = c] :
                  m \in {0, 1}, c \in {"none", "pkeep"}}

\* Every way to announce a body, and to get it wrong.
Posts == {Post, [Post EXCEPT !.len = 0], [Post EXCEPT !.body = "chunked"],
          [Post EXCEPT !.body = "badchunk"], [Post EXCEPT !.body = "badlength"],
          [Post EXCEPT !.body = "none", !.len = 1],
          [Post EXCEPT !.body = "none", !.conn = "keep"]}

\* Lines that arrive in two pieces, and such that are cut between CR and LF.
Chunked == [Post EXCEPT !.body = "chunked", !.len = 1]
Torn == {[Get EXCEPT !.torn = t] : t \in {"first", "end"}}
          \cup {[Chunked EXCEPT !.torn = t] : t \in {"size", "end"}}
Split == {[Get EXCEPT !.torn = "first", !.cut = "crlf"], [Chunked EXCEPT !.torn = "size", !.cut = "crlf"],
          [Post EXCEPT !.torn = "end", !.cut = "crlf"]}
Broken == {[Get EXCEPT !.line = "bad"], [Get EXCEPT !.header = "bad"]}

\* A server whose timeout is not set: the defaults of http-internal.h apply.
DefaultTimeout == -1

IntactRequests == Gets \cup Posts \cup Torn \cup Broken
AllRequests == IntactRequests \cup Split

-----------------------------------------------------------------------------
(* Instances.                                                              *)

\* A client of HTTP/1.0 with keep-alive is not among them.
Hr == INSTANCE HttpReply WITH req <- hreq, ev <- hev, client <- decoder,
        Requests <- {[minor |-> 0, conn |-> "none"], [minor |-> 0, conn |-> "close"]} \cup
                    {[minor |-> 1, conn |-> c] : c \in {"none", "close", "keep"}},
        Sizes <- {1, 2}, MaxReqs <- 2, MaxPieces <- 2, Leaves <- TRUE

\* Requests of a program, one of which asks for a close, and what a server may send.
Ask1 == [head |-> FALSE, close |-> FALSE]
Three == <<Ask1, [Ask1 EXCEPT !.close = TRUE], Ask1>>
Resp(code, keep, body) == [line |-> "ok", code |-> code, conn |-> keep, body |-> body]
BadLine == [Resp("other", "none", "length") EXCEPT !.line = "bad"]
Answers == {Resp("other", "none", "length"), Resp("nobody", "none", "length"), Resp("other", "none", "eof"), BadLine}
AllAnswers == Answers \cup {Resp("other", "close", "length"), Resp("other", "none", "chunked"),
                            Resp("other", "none", "badlength"), Resp("other", "none", "badsize")}

Hc == INSTANCE HttpClient WITH pc <- cpc, made <- cmade, Asked <- Three, Responses <- Answers,
        RetryMax <- 1, MaxCnt <- 1, Timeout <- -1, FailsNow <- TRUE, Breaks <- TRUE,
        FreeIn <- {"loop", "callback"}

\* connect() never fails at once.
Hs == INSTANCE HttpClient WITH pc <- cpc, made <- cmade, Asked <- <<Ask1, Ask1>>,
        Responses <- AllAnswers, RetryMax <- 1, MaxCnt <- 1, Timeout <- -1, FailsNow <- FALSE, Breaks <- TRUE, FreeIn <- {}

\* No two line ends in a row in the values of headers.
Ht == INSTANCE HttpText WITH UriBytes <- {10, 32, 37, 38, 43, 50, 61, 63, 66, 97},
        HtmlBytes <- {38, 60, 62, 34, 39, 97}, ValueBytes <- {10, 32, 97}, OneEnd <- TRUE,
        MaxUri <- 3, MaxValue <- 3, MaxQuery <- 2, Ports <- {0, 1, 80, 255, 256, 65535, 65536, 65616}

Rp == INSTANCE RpcPool WITH made <- pmade, wrong <- pwrong, Calls <- 1..4, Conns <- {1, 2},
        Timeout <- TRUE, HookFails <- FALSE, FailsNow <- FALSE, FreesPool <- FALSE

\* Hooks refuse calls, requests cannot be made and the pool is freed.
Rf == INSTANCE RpcPool WITH made <- pmade, wrong <- pwrong, Calls <- 1..3, Conns <- {1, 2},
        Timeout <- TRUE, HookFails <- TRUE, FailsNow <- TRUE, FreesPool <- TRUE

Rs == INSTANCE RpcServer WITH made <- rmade, state <- rstate, replies <- rreplies, freed <- rfreed,
        wrong <- rwrong, Names <- {"a", "b"}, Requests <- {"r1", "r2"}, MaxRpcs <- 3,
        Hooks <- {"h1", "h2"}, Ongoing <- FALSE, FreesBase <- FALSE

ASSUME InstancesSane == Hr!Sane /\ Hc!Sane /\ Hs!Sane /\ Rp!Sane /\ Rf!Sane /\ Rs!Sane

-----------------------------------------------------------------------------
Parts == {"server", "reply", "client", "connects", "text", "pool", "faults", "rpc"}

AllInit == /\ part \in Parts
           /\ Init
           /\ Hr!Init
           /\ IF part = "connects" THEN Hs!Init ELSE Hc!Init
           /\ Ht!Init
           /\ IF part = "faults" THEN Rf!Init ELSE Rp!Init
           /\ Rs!Init

AllNext == /\ UNCHANGED part
           /\ IF part = "server" THEN Next ELSE UNCHANGED vars
           /\ IF part = "reply" THEN Hr!Next ELSE UNCHANGED hr
           /\ CASE part = "client" -> Hc!Next
                [] part = "connects" -> Hs!Next
                [] OTHER -> UNCHANGED hc
           /\ IF part = "text" THEN Ht!Next ELSE UNCHANGED last
           /\ CASE part = "pool" -> Rp!Next
                [] part = "faults" -> Rf!Next
                [] OTHER -> UNCHANGED rp
           /\ IF part = "rpc" THEN Rs!Next ELSE UNCHANGED rs

AllSpec == AllInit /\ [][AllNext]_all

-----------------------------------------------------------------------------
(* Properties.                                                             *)

\* A reply in pieces is what the client reads, and the program that sends it is told before
\* its request is gone.  Requests of a client are called back once, in their order and with
\* their own response, across reconnects and failures; none that was accepted is forgotten,
\* the close detection runs on idle connections only, and no assertion of http.c fails.
ClientExact == /\ part = "reply" => Hr!TypeOK /\ Hr!StreamExact /\ Hr!ToldOfClose
               /\ part = "client" => /\ Hc!TypeOK /\ Hc!CalledInOrder /\ Hc!OwnReply /\ Hc!CloseEvIdle
                                     /\ Hc!AssertsHold /\ Hc!WholeNotFailed
               /\ part = "connects" => /\ Hs!QueueServed /\ Hs!CalledInOrder /\ Hs!OwnReply
                                       /\ Hs!AssertsHold /\ Hs!WholeNotFailed

\* What was encoded is decoded to what it was; a text has no markup left; the port is the one
\* of the URL; the receiver reads the headers that were added.
TextExact == part = "text" => /\ Ht!UriRoundTrip /\ Ht!QueryRoundTrip /\ Ht!EscapeSafe
                              /\ Ht!PortKept /\ Ht!HeadersKept

\* Every RPC is in one place and is called back once, in order and with its own timer, and no
\* connection is idle while one waits; the server replies once and only for live procedures.
RpcExact == /\ part = "pool" => /\ Rp!TypeOK /\ Rp!OnePlace /\ Rp!SentInOrder /\ Rp!TimersExact
                                /\ Rp!NoIdleConnection /\ Rp!NoFreedContext
            /\ part = "faults" => Rf!TypeOK /\ Rf!NeverTwice /\ Rf!SentInOrder
            /\ part = "rpc" => /\ Rs!SameProcedures /\ Rs!OneReply /\ Rs!NoAbort /\ Rs!NoFreedRpc

\* What a hook has refused does not reach the program, and a reply that it has refused is not
\* sent.
HooksObeyed == Rs!HooksObeyed
=============================================================================
