----------------------------- MODULE HttpClient -----------------------------
(***************************************************************************)
(* One outgoing connection of contrib/libevent/http.c: requests queue on   *)
(* it, it connects (and retries), writes the first of them, reads the      *)
(* response and calls the request's callback, which may make another       *)
(* request or free the connection.                                         *)
(*                                                                         *)
(* con holds the fields of struct evhttp_connection and, with net, peer    *)
(* and due, the other end of its socket.  What the server sends are tokens *)
(* as in HttpConn: a line, or a byte of a body, with the number of the     *)
(* request that it answers.  The i-th request has the number i.            *)
(***************************************************************************)
EXTENDS Integers, Sequences

CONSTANTS Asked,       \* the requests in the order of their evhttp_make_request()
          Responses,   \* what the server may answer
          RetryMax,    \* evcon->retry_max
          MaxCnt,      \* bound: failed attempts to connect in a row
          Timeout,     \* evcon->timeout: -1 for the default, 0 for none
          FailsNow,    \* bind_socket() or socket_connect() may fail at once
          Breaks,      \* the server closes, resets or stops in the middle
          FreeIn       \* where the user frees the connection

\* What the constants have to be.
Sane == /\ RetryMax \in Int /\ MaxCnt \in Nat /\ Timeout \in Nat \cup {-1}
        /\ FailsNow \in BOOLEAN /\ Breaks \in BOOLEAN
        /\ FreeIn \subseteq {"loop", "callback", "cleanup"}

VARIABLES con,     \* the connection
          pc,      \* where the thread is
          made,    \* requests made so far
          told,    \* history: requests for which evhttp_make_request() returned -1
          called   \* history: calls of the requests' callbacks

vars == <<con, pc, made, told, called>>

\* A request may be HEAD and may have a header Connection: close.  A response: its
\* status line, its status (1xx, one without a body, or any other), its Connection
\* header and how its body ends.
RequestType == [head : BOOLEAN, close : BOOLEAN]
ResponseType == [line : {"ok", "bad"}, code : {"info", "nobody", "other"},
                 conn : {"none", "close"},
                 body : {"length", "chunked", "eof", "badlength", "badsize"}]

Body(r, head) == IF r.code # "other" \/ head THEN <<>>
                 ELSE CASE r.body = "length" -> <<"byte">>
                        [] r.body = "chunked" -> <<"size", "byte", "last", "end">>
                        [] r.body = "eof" -> <<"byte">>
                        [] r.body = "badsize" -> <<"badsize">>
                        [] OTHER -> <<>>
Tokens(r, i) == LET kinds == <<"first", "headers">> \o Body(r, Asked[i].head)
                IN  [k \in 1..Len(kinds) |-> [kind |-> kinds[k], id |-> i, resp |-> r]]

\* All that belongs to a response, up to the end of its body.
Whole(toks) == toks # <<>> /\ toks = Tokens(toks[1].resp, toks[1].id)

\* The fields of a request that reading its response changes; toks is what was used up.
NewReply == [toks |-> <<>>, conn |-> "none", chunked |-> FALSE, ntoread |-> 0]

-----------------------------------------------------------------------------
(***************************************************************************)
(* The functions that change a connection.  One that may connect yields    *)
(* the set of its outcomes.                                                *)
(***************************************************************************)

\* evhttp_connection_new(), and evhttp_connection_set_timeout() and _set_retries()
\* before the first request.
New == [state |-> "DISCONNECTED", fd |-> FALSE, ev |-> "none", closeEv |-> FALSE, cnt |-> 0,
        queue |-> <<>>, inbuf |-> <<>>, cur |-> NewReply,
        net |-> <<>>, peer |-> "none", due |-> <<>>]

\* evhttp_connected().
Connected(c) == c.state \notin {"DISCONNECTED", "CONNECTING"}

\* A reset that leaves what was read.
BugReset(c) == [c EXCEPT !.ev = "none", !.fd = FALSE, !.state = "DISCONNECTED",
                         !.net = <<>>, !.peer = "none", !.due = <<>>]

\* evhttp_connection_reset(): the event, the socket and both buffers.
Reset(c) == [c EXCEPT !.ev = "none", !.fd = FALSE, !.state = "DISCONNECTED", !.inbuf = <<>>,
                      !.net = <<>>, !.peer = "none", !.due = <<>>]

\* evhttp_connection_connect(), with bind_socket() and socket_connect().
Connect(c) ==
  IF c.state = "CONNECTING" THEN {c}
  ELSE {[Reset(c) EXCEPT !.fd = TRUE, !.ev = "connect", !.state = "CONNECTING"]}
         \cup (IF FailsNow THEN {Reset(c)} ELSE {})

\* evhttp_request_dispatch(), with evhttp_connection_stop_detectclose(),
\* evhttp_make_header() and evhttp_write_buffer(); an assertion ends the program.
Dispatch(c) == IF c.queue = <<>> THEN c
               ELSE IF c.state # "IDLE" THEN [c EXCEPT !.state = "abort"]
               ELSE [c EXCEPT !.closeEv = FALSE, !.state = "WRITING", !.ev = "write",
                              !.cur = NewReply]

\* evhttp_connection_start_detectclose().
StartDetectClose(c) == [c EXCEPT !.closeEv = TRUE]

\* evhttp_make_request().
MakeRequest(c, i) == LET q == [c EXCEPT !.queue = Append(@, i)]
                     IN  IF ~Connected(q) THEN Connect(q)
                         ELSE IF Head(q.queue) = i THEN {Dispatch(q)} ELSE {q}

\* evhttp_is_connection_close() of the response and of the request.
NeedClose(c) == c.cur.conn = "close" \/ Asked[Head(c.queue)].close

\* evhttp_connection_done(), up to the callback.
Done(c) ==
  LET idle == [c EXCEPT !.state = "IDLE", !.queue = Tail(@)]
      next == IF NeedClose(c) THEN Reset(idle) ELSE idle
  IN  IF next.queue # <<>> THEN IF Connected(next) THEN {Dispatch(next)} ELSE Connect(next)
      ELSE IF NeedClose(c) THEN {next} ELSE {StartDetectClose(next)}

\* evhttp_connection_fail(), up to the callback.
Fail(c) == LET reset == Reset([c EXCEPT !.queue = Tail(@)])
           IN  IF reset.queue # <<>> THEN Connect(reset) ELSE {reset}

\* The wait before the next attempt, MIN(3600, 2 << cnt) in an int of 32 bits (as the
\* processor shifts); for 0 evhttp_add_event() sets no timer.
Shifted(cnt) == LET k == (cnt % 32) + 1
                IN  IF k = 32 THEN 0 ELSE IF k = 31 THEN -(2^30) - 2^30 ELSE 2^k
RetryWait(cnt) == IF Shifted(cnt) < 3600 THEN Shifted(cnt) ELSE 3600

-----------------------------------------------------------------------------
Init == con = New /\ pc = "loop" /\ made = 0 /\ told = {} /\ called = <<>>

\* The event loop runs the callback of an event that it has removed.
Fired(kind) == pc = "loop" /\ con.ev = kind
Taken == [con EXCEPT !.ev = "none"]

Report(c, kind) == called' = Append(called, [id |-> Head(c.queue), kind |-> kind,
                                             toks |-> c.cur.toks])

\* A step that ends in evhttp_connection_done() or evhttp_connection_fail().
EndDone(c) == con' \in Done(c) /\ Report(c, "reply") /\ pc' = "callback" /\ UNCHANGED <<made, told>>
EndFail(c) == con' \in Fail(c) /\ Report(c, "failed") /\ pc' = "callback" /\ UNCHANGED <<made, told>>

\* The user makes the next request.
Request == /\ made < Len(Asked)
           /\ made' = made + 1
           /\ con' \in MakeRequest(con, made + 1)
           /\ told' = IF con'.state = "DISCONNECTED" THEN told \cup {made + 1} ELSE told
           /\ UNCHANGED <<pc, called>>

\* evhttp_connection_free(): the requests go with it and are not called back.
Free == /\ con' = [New EXCEPT !.state = "freed"]
        /\ UNCHANGED <<pc, made, told, called>>

Users == /\ pc = "loop" /\ con.state # "freed"
         /\ Request \/ ("loop" \in FreeIn /\ Free)

\* A callback of a request: it may make requests, free the connection, or return.
\* Only the loop of evhttp_connectioncb() uses the connection after it.
Callback == /\ pc \in {"callback", "cbcleanup"}
            /\ \/ con.state # "freed" /\ Request
               \/ pc = "callback" /\ "callback" \in FreeIn /\ con.state # "freed" /\ Free
               \/ pc = "cbcleanup" /\ "cleanup" \in FreeIn /\ con.state # "freed" /\ Free
               \/ /\ pc' = IF pc = "callback" THEN "loop"
                          ELSE IF con.state = "freed" THEN "dangling" ELSE "cleanup"
                  /\ UNCHANGED <<con, made, told, called>>

\* evhttp_connectioncb() when the socket is connected.
ConnectOk == /\ Fired("connect")
             /\ con' = Dispatch([Taken EXCEPT !.cnt = 0, !.state = "IDLE", !.peer = "open"])
             /\ UNCHANGED <<pc, made, told, called>>

\* Its label cleanup, after a timeout or an error: another attempt later, or the
\* end of all requests.
ConnectFails ==
  /\ Fired("connect")
  /\ \/ /\ RetryMax < 0 \/ con.cnt < RetryMax
        /\ con.cnt < MaxCnt
        /\ con' = [Taken EXCEPT !.cnt = @ + 1,
                                !.ev = IF RetryWait(con.cnt) = 0 THEN "none" ELSE "retry"]
        /\ UNCHANGED pc
     \/ /\ ~(RetryMax < 0 \/ con.cnt < RetryMax)
        /\ con' = Reset(Taken)
        /\ pc' = "cleanup"
  /\ UNCHANGED <<made, told, called>>

\* A turn of its loop.
Cleanup == /\ pc = "cleanup"
           /\ \/ con.queue = <<>> /\ pc' = "loop" /\ UNCHANGED <<con, called>>
              \/ /\ con.queue # <<>>
                 /\ called' = Append(called, [id |-> Head(con.queue), kind |-> "failed",
                                              toks |-> <<>>])
                 /\ con' = [con EXCEPT !.queue = Tail(@)]
                 /\ pc' = "cbcleanup"
           /\ UNCHANGED <<made, told>>

\* evhttp_connection_retry().
Retry == /\ Fired("retry")
         /\ con' \in Connect([Taken EXCEPT !.state = "DISCONNECTED"])
         /\ UNCHANGED <<pc, made, told, called>>

\* evhttp_write() writes the rest; evhttp_write_connectioncb() and
\* evhttp_start_read().  A server that closed does not see the request.
Write == /\ Fired("write") /\ con.peer # "rst"
         /\ con' = [Taken EXCEPT !.state = "READING_FIRSTLINE", !.ev = "read",
                                 !.due = IF con.peer = "open" THEN <<Head(con.queue)>> ELSE <<>>]
         /\ UNCHANGED <<pc, made, told, called>>

\* The callback of the event is called with EV_TIMEOUT, or its system call fails.
EventFails == /\ Fired("write") \/ Fired("read")
              /\ Timeout # 0 \/ con.peer = "rst"
              /\ EndFail(Taken)

\* evhttp_detect_close_cb(), for data as well as for the end.
DetectClose == /\ pc = "loop" /\ con.closeEv
               /\ con.peer \in {"fin", "rst"} \/ con.net # <<>>
               /\ con' = Reset([con EXCEPT !.closeEv = FALSE])
               /\ UNCHANGED <<pc, made, told, called>>

-----------------------------------------------------------------------------
(***************************************************************************)
(* evhttp_read() of a response.                                            *)
(***************************************************************************)

ReadData == /\ Fired("read") /\ con.peer # "rst"
            /\ \E n \in 1..Len(con.net) :
                 con' = [Taken EXCEPT !.inbuf = @ \o SubSeq(con.net, 1, n),
                                      !.net = SubSeq(con.net, n + 1, Len(con.net))]
            /\ pc' = con.state
            /\ UNCHANGED <<made, told, called>>

\* read() returns 0: whatever was read is the response.
ReadEof == /\ Fired("read") /\ con.peer = "fin" /\ con.net = <<>>
           /\ EndDone(Taken)

Wait == /\ con' = [con EXCEPT !.ev = "read"]
        /\ pc' = "loop"
        /\ UNCHANGED <<made, told, called>>

\* The first token is used up, r is the reply so far, s the new state.
First == Head(con.inbuf)
Ate(c, r) == [c EXCEPT !.inbuf = Tail(@), !.cur = [r EXCEPT !.toks = Append(@, First)]]
Step(r, s) == /\ con' = [Ate(con, r) EXCEPT !.state = s]
              /\ pc' = s
              /\ UNCHANGED <<made, told, called>>

\* evhttp_read_firstline() and evhttp_parse_response_line(); a bad line is consumed.
ReadFirstline ==
  /\ pc = "READING_FIRSTLINE"
  /\ \/ con.inbuf = <<>> /\ Wait
     \/ /\ con.inbuf # <<>>
        /\ \/ First.kind = "first" /\ First.resp.line = "ok" /\ Step(con.cur, "READING_HEADERS")
           \/ /\ First.kind # "first" \/ First.resp.line = "bad"
              /\ EndFail([con EXCEPT !.inbuf = Tail(@)])

\* evhttp_read_header() with evhttp_get_body(): what the status and the headers say
\* of the body.  A length without Connection: close is needed for a body that is
\* not chunked only if there is a Connection header.
ReadHeader ==
  /\ pc = "READING_HEADERS"
  /\ \/ con.inbuf = <<>> /\ Wait
     \/ /\ con.inbuf # <<>>
        /\ LET r == First.resp
               q == [con.cur EXCEPT !.conn = r.conn]
           IN  \/ r.code # "other" /\ EndDone(Ate(con, q))
               \/ r.code = "other" /\ r.body = "badlength" /\ EndFail(Ate(con, q))
               \/ /\ r.code = "other" /\ r.body \in {"chunked", "badsize"}
                  /\ Step([q EXCEPT !.chunked = TRUE, !.ntoread = -1], "READING_BODY")
               \/ /\ r.code = "other" /\ r.body \in {"length", "eof"}
                  /\ Step([q EXCEPT !.ntoread = IF r.body = "length" THEN 1 ELSE -1],
                          "READING_BODY")

\* evhttp_read_body() and evhttp_handle_chunked_read().
ReadBody ==
  /\ pc = "READING_BODY"
  /\ \/ con.inbuf = <<>> /\ Wait
     \/ /\ con.inbuf # <<>>
        /\ LET q == con.cur
           IN  \/ ~q.chunked /\ q.ntoread = -1 /\ Step(q, "READING_BODY")
               \/ ~q.chunked /\ q.ntoread = 1 /\ EndDone(Ate(con, [q EXCEPT !.ntoread = 0]))
               \/ /\ q.chunked /\ q.ntoread = -1 /\ First.kind = "size"
                  /\ Step([q EXCEPT !.ntoread = 1], "READING_BODY")
               \/ /\ q.chunked /\ q.ntoread = 1
                  /\ Step([q EXCEPT !.ntoread = -1], "READING_BODY")
               \/ q.chunked /\ q.ntoread = -1 /\ First.kind = "last" /\ Step(q, "READING_TRAILER")
               \/ /\ q.chunked /\ q.ntoread = -1 /\ First.kind \notin {"size", "last"}
                  /\ EndFail([con EXCEPT !.inbuf = Tail(@)])

\* evhttp_read_trailer().
ReadTrailer == /\ pc = "READING_TRAILER"
               /\ \/ con.inbuf = <<>> /\ Wait
                  \/ con.inbuf # <<>> /\ EndDone(Ate(con, con.cur))

-----------------------------------------------------------------------------
(***************************************************************************)
(* The server at the other end of the socket.                              *)
(***************************************************************************)

Server(c) == con' = c /\ UNCHANGED <<pc, made, told, called>>

\* It answers; after a response that says so, or that ends with the connection, it
\* closes.  An interim response is followed by another one.
Answer == /\ con.peer = "open" /\ con.due # <<>>
          /\ \E r \in Responses :
               LET toks == Tokens(r, Head(con.due))
                   last == r.conn = "close" \/ r.body = "eof"
               IN  Server([con EXCEPT !.net = @ \o toks,
                                      !.due = IF r.code = "info" THEN @ ELSE Tail(@),
                                      !.peer = IF last THEN "fin" ELSE @])

\* It stops in the middle of a response, or closes or resets the connection at any time.
Break == /\ Breaks /\ con.peer = "open"
         /\ \/ \E r \in Responses : \E n \in 1..3 :
                 /\ con.due # <<>> /\ n < Len(Tokens(r, Head(con.due)))
                 /\ Server([con EXCEPT !.net = @ \o SubSeq(Tokens(r, Head(con.due)), 1, n),
                                       !.due = <<>>, !.peer = "fin"])
            \/ Server([con EXCEPT !.peer = "fin", !.due = <<>>])
            \/ Server([con EXCEPT !.peer = "rst", !.due = <<>>, !.net = <<>>])

-----------------------------------------------------------------------------
Loop == \/ ConnectOk \/ ConnectFails \/ Cleanup \/ Retry \/ Write \/ EventFails \/ DetectClose
        \/ ReadData \/ ReadEof \/ ReadFirstline \/ ReadHeader \/ ReadBody \/ ReadTrailer
        \/ Callback

Next == Users \/ Loop \/ Answer \/ Break

Spec == Init /\ [][Next]_vars

\* The event loop runs, and a timer that nothing stops expires: some callback of the
\* event that waits is called in the end.
FairSpec == Spec /\ WF_vars(Loop)

-----------------------------------------------------------------------------
States == {"DISCONNECTED", "CONNECTING", "IDLE", "WRITING", "READING_FIRSTLINE",
           "READING_HEADERS", "READING_BODY", "READING_TRAILER", "abort", "freed"}

\* Type invariant of the connection and of the thread.
TypeOK == /\ con.state \in States /\ con.fd \in BOOLEAN /\ con.closeEv \in BOOLEAN
          /\ con.ev \in {"none", "connect", "retry", "write", "read"}
          /\ con.cnt \in 0..MaxCnt
          /\ con.queue \in Seq(1..Len(Asked))
          /\ con.peer \in {"none", "open", "fin", "rst"}
          /\ pc \in States \cup {"loop", "callback", "cleanup", "cbcleanup", "dangling"}
          /\ made \in 0..Len(Asked) /\ told \subseteq 1..made

\* Requests are called back once each, in the order in which they were made, and
\* those that are not are in the queue of the connection, as long as it exists:
\* across reconnects, failures and requests made in callbacks.
CalledInOrder ==
  LET ids == [k \in 1..Len(called) |-> called[k].id]
  IN  IF con.state = "freed" THEN \A k \in 1..Len(ids) : ids[k] = k
      ELSE ids \o con.queue = [k \in 1..made |-> k]

\* What a callback is given as the response was sent for its request, never for one
\* before it: nothing of an old response survives in a buffer or on a socket.
OwnReply == \A k \in 1..Len(called) : \A j \in 1..Len(called[k].toks) :
              called[k].toks[j].id = called[k].id

\* A connection with a request that evhttp_make_request() has accepted always waits
\* for something in the event loop: no request is forgotten.
QueueServed == pc = "loop" /\ (\E k \in 1..Len(con.queue) : con.queue[k] \notin told)
               => con.ev # "none"

\* The close detection runs only on an idle connection with an open socket, so that
\* it never takes bytes of a response or watches a descriptor that was closed.
CloseEvIdle == con.closeEv => con.state = "IDLE" /\ con.fd /\ con.ev = "none"

\* No assertion of http.c fails and evhttp_read() is never called in a state in
\* which it ends the program.
AssertsHold == con.state # "abort" /\ pc \notin {"IDLE", "WRITING", "CONNECTING", "DISCONNECTED"}

\* A request whose whole answer was read does not fail.
WholeNotFailed == \A k \in 1..Len(called) : LET c == called[k] IN
  c.kind = "failed" => ~(Whole(c.toks) /\ c.toks[1].resp.body \in {"length", "chunked"})

\* A response that is delivered is there to its end.
DeliveredWhole == \A k \in 1..Len(called) : called[k].kind = "reply" => Whole(called[k].toks)

\* A persistent connection that has no request is watched for its end.
IdleWatched == pc = "loop" /\ con.state = "IDLE" /\ con.queue = <<>> => con.closeEv

\* The connection is not used after a callback has freed it.
NoDangling == pc # "dangling"

\* Every request is called back, or freed with its connection.
Answered == \A i \in 1..Len(Asked) :
  made >= i ~> Len(called) >= i \/ con.state = "freed"
=============================================================================
