------------------------------ MODULE HttpConn ------------------------------
(***************************************************************************)
(* The life of one incoming connection in the event loop of its server,    *)
(* from evhttp_get_request() to evhttp_connection_free(): reading requests *)
(* piece by piece, calling the server's callback, writing the reply, and   *)
(* then either another request or the end (contrib/libevent/http.c).       *)
(*                                                                         *)
(* What a client sends is a sequence of tokens: a token is a line of the   *)
(* head of a request or of a chunked body, or a byte of a body, with the   *)
(* number of its request.  A line that is sent in two pieces is two        *)
(* tokens: its first "half" and the rest, or the line with its CR and then *)
(* the "lf".  pc is where the thread is inside the callback of the         *)
(* connection's event; at "loop" it is in event_base_loop().               *)
(***************************************************************************)
EXTENDS Integers, Sequences

CONSTANTS Requests,    \* the requests that a client may send
          MaxReqs,     \* bound: requests on the connection
          MaxWrites,   \* bound: calls of write() that a reply takes
          Timeout,     \* evcon->timeout: -1 for the default, 0 for none
          Pipelining   \* the client does not wait for replies

ASSUME MaxReqsAssumption == MaxReqs \in Nat
ASSUME MaxWritesAssumption == MaxWrites \in Nat \ {0}
ASSUME TimeoutAssumption == Timeout \in Nat \cup {-1}
ASSUME PipeliningAssumption == Pipelining \in BOOLEAN

VARIABLES pc,       \* where the thread is
          state,    \* evcon->state, or "freed"
          ev,       \* what evcon->ev waits for: "none", "read" or "write"
          inbuf,    \* evcon->input_buffer
          req,      \* the request at the head of evcon->requests
          reply,    \* what evcon->output_buffer holds
          left,     \* calls of write() until it is empty
          end,      \* why the connection was freed
          net,      \* tokens in the socket's receive queue
          peer,     \* the client's side: "open", "fin" or "rst"
          asked,    \* the client's requests so far
          togo,     \* tokens of the last one that are not yet sent
          calls,    \* history: calls of the server's callback
          replies   \* history: replies that were written to the end

client == <<net, peer, asked, togo>>
vars == <<pc, state, ev, inbuf, req, reply, left, end, client, calls, replies>>

-----------------------------------------------------------------------------
(***************************************************************************)
(* Requests and replies.                                                   *)
(***************************************************************************)

\* A request: its line, its version HTTP/1.minor, an absolute URI (proxy) or a
\* path, the header that speaks of the connection ("pkeep" is Proxy-Connection:
\* keep-alive), whether a header line is broken, how a body is announced, and which
\* kind of line is sent in two pieces, cut inside its text or between CR and LF.
RequestType == [line : {"get", "post", "bad"}, minor : {0, 1}, proxy : BOOLEAN,
                conn : {"none", "close", "keep", "pkeep"}, header : {"ok", "bad"},
                body : {"none", "length", "chunked", "badlength", "badchunk"}, len : 0..2,
                torn : {"none", "first", "headers", "end", "size", "last"},
                cut : {"text", "crlf"}]

ASSUME RequestsAssumption == Requests \subseteq RequestType

\* What a client sends for its i-th request r.  An empty line, "end", comes after
\* the headers, after a chunk and after the trailer.  No byte of a body is taken
\* for a chunk size.
Bytes(n) == [j \in 1..n |-> "byte"]
InLine(r, kind) == IF r.torn # kind THEN <<kind>>
                   ELSE IF r.cut = "text" THEN <<"half", kind>> ELSE <<kind, "lf">>
Chunk(r) == IF r.len = 0 THEN <<>> ELSE InLine(r, "size") \o Bytes(r.len) \o InLine(r, "end")
Body(r) == IF r.line # "post" \/ r.body = "badlength" THEN <<>>
           ELSE IF r.body = "badchunk" THEN <<"badsize">>
           ELSE IF r.body = "chunked" THEN Chunk(r) \o InLine(r, "last") \o InLine(r, "end")
           ELSE Bytes(r.len)
Pieces(r) == IF r.line = "bad" THEN <<"badline">>
             ELSE InLine(r, "first") \o (IF r.header = "bad" THEN <<"badheader">>
                                        ELSE InLine(r, "headers") \o InLine(r, "end") \o Body(r))
Tokens(r, i) == [j \in 1..Len(Pieces(r)) |-> [kind |-> Pieces(r)[j], id |-> i]]

\* evhttp_request_new(): id is the number of the request whose first line was
\* parsed, eaten the number of its tokens that were used up.
NewRequest == [id |-> 0, uri |-> FALSE, post |-> FALSE, major |-> 0, minor |-> 0,
               proxy |-> FALSE, conn |-> "none", body |-> "none", len |-> 0,
               chunked |-> FALSE, ntoread |-> 0, eaten |-> 0]
NoRequest == [id |-> -1]
NoReply == [id |-> -1]

\* evhttp_is_connection_close() and evhttp_is_connection_keepalive().
IsClose(proxy, conn) == IF proxy THEN conn # "pkeep" ELSE conn = "close"
IsKeepalive(conn) == conn = "keep"

\* evhttp_send_page() gives a reply its version unless the request has one, and
\* takes 1.0 for none.
Version(q, page) == IF page /\ (q.major = 0 \/ q.minor = 0)
                    THEN [q EXCEPT !.major = 1, !.minor = 1] ELSE q

\* evhttp_make_header_response(): the Connection header of the reply, and whether
\* it has a Content-Length.
MakeHeader(q, code, page) ==
  LET told == IF page THEN "close"
              ELSE IF q.minor = 0 /\ IsKeepalive(q.conn) THEN "keep" ELSE "none"
  IN  [id |-> q.id, code |-> code, minor |-> q.minor,
       length |-> q.major = 1 /\ (q.minor = 1 \/ IsKeepalive(q.conn)),
       conn |-> IF IsClose(q.proxy, q.conn)
                THEN IF q.proxy THEN "none" ELSE "close"
                ELSE told]

\* A server that does not look at its own reply.
BugOwnReply(q, r) == (q.minor = 0 /\ ~IsKeepalive(q.conn)) \/ IsClose(q.proxy, q.conn)

\* The test of evhttp_send_done().
NeedClose(q, r) == \/ q.minor = 0 /\ ~IsKeepalive(q.conn)
                   \/ IsClose(q.proxy, q.conn)
                   \/ IsClose(q.proxy, r.conn)

-----------------------------------------------------------------------------
\* evhttp_get_request() on a new socket.
Init == /\ pc = "loop"
        /\ state = "READING_FIRSTLINE"
        /\ ev = "read"
        /\ inbuf = <<>>
        /\ req = NewRequest
        /\ reply = NoReply
        /\ left = 0
        /\ end = "none"
        /\ net = <<>>
        /\ peer = "open"
        /\ asked = <<>>
        /\ togo = <<>>
        /\ calls = <<>>
        /\ replies = <<>>

\* evhttp_connection_free(): the requests, the event, the buffers, the socket.
Free(why) == /\ state' = "freed"
             /\ ev' = "none"
             /\ inbuf' = <<>>
             /\ req' = NoRequest
             /\ reply' = NoReply
             /\ left' = 0
             /\ end' = why
             /\ pc' = "loop"

\* The thread goes on at another place of the callback.
Goto(label) == pc' = label /\ UNCHANGED <<ev, reply, left, end, client, calls, replies>>

\* A callback that returns without adding its event again.
BugWaitForMore == /\ ev' = "none"
                  /\ pc' = "loop"
                  /\ UNCHANGED <<reply, left, end, client, calls, replies>>

\* evhttp_add_event() for the same callback: more has to come.
WaitForMore == /\ ev' = "read"
               /\ pc' = "loop"
               /\ UNCHANGED <<reply, left, end, client, calls, replies>>

\* evbuffer_readline(): the first line of the input buffer, if all of its text is
\* there.  A CR ends a line; the LF goes with it if it has come, and is an empty
\* line of its own if it comes later.
Halves == IF inbuf # <<>> /\ Head(inbuf).kind = "half" THEN 1 ELSE 0
HasLine == Len(inbuf) > Halves
Line == inbuf[Halves + 1]
LineLen == IF Len(inbuf) > Halves + 1 /\ inbuf[Halves + 2].kind = "lf"
           THEN Halves + 2 ELSE Halves + 1
Empty == {"end", "lf"}

\* The line is used up; q is the new request.
Eat(q) == /\ inbuf' = SubSeq(inbuf, LineLen + 1, Len(inbuf))
          /\ req' = [q EXCEPT !.eaten = @ + LineLen]

-----------------------------------------------------------------------------
(***************************************************************************)
(* evhttp_read() and the functions it calls.  An event is removed before   *)
(* its callback runs.  A read that would block only adds the event again.  *)
(***************************************************************************)

\* A callback that is called with EV_TIMEOUT, or whose system call fails.
EventFails == /\ pc = "loop" /\ ev # "none"
              /\ \/ Timeout # 0 /\ Free("timeout")
                 \/ peer = "rst" /\ Free("error")
              /\ UNCHANGED <<client, calls, replies>>

\* read() returns 0.
ReadEof == /\ pc = "loop" /\ ev = "read"
           /\ peer = "fin" /\ net = <<>>
           /\ ev' = "none"
           /\ pc' = "done"
           /\ UNCHANGED <<state, inbuf, req, reply, left, end, client, calls, replies>>

\* read() returns what is there, or a part of it.
ReadData == /\ pc = "loop" /\ ev = "read"
            /\ peer # "rst"
            /\ \E n \in 1..Len(net) : /\ inbuf' = inbuf \o SubSeq(net, 1, n)
                                      /\ net' = SubSeq(net, n + 1, Len(net))
            /\ ev' = "none"
            /\ pc' = CASE state = "READING_FIRSTLINE" -> "firstline"
                       [] state = "READING_HEADERS" -> "header"
                       [] state = "READING_BODY" -> "body"
                       [] state = "READING_TRAILER" -> "trailer"
                       [] OTHER -> "exit"
            /\ UNCHANGED <<state, req, reply, left, end, peer, asked, togo, calls, replies>>

\* evhttp_parse_request_line() of a good line.
ParseRequestLine(t) ==
  LET r == asked[t.id]
  IN  [req EXCEPT !.id = t.id, !.uri = TRUE, !.post = (r.line = "post"), !.major = 1,
                  !.minor = r.minor, !.proxy = r.proxy]

\* evhttp_read_firstline().
ReadFirstline ==
  /\ pc = "firstline"
  /\ \/ ~HasLine /\ WaitForMore /\ UNCHANGED <<state, inbuf, req>>
     \/ /\ HasLine /\ Line.kind = "first"
        /\ Eat(ParseRequestLine(Line))
        /\ state' = "READING_HEADERS"
        /\ Goto("header")
     \/ /\ HasLine /\ Line.kind # "first"
        /\ Eat([req EXCEPT !.id = Line.id])
        /\ UNCHANGED state
        /\ Goto("fail")

\* The headers that evhttp_parse_headers() puts into req->input_headers.
ParseHeaders(t) == LET r == asked[t.id]
                   IN  [req EXCEPT !.conn = r.conn, !.body = r.body, !.len = r.len]

\* evhttp_get_body() and evhttp_get_body_length(), after the last line.
GetBody ==
  \/ /\ ~req.post
     /\ Eat(req)
     /\ UNCHANGED state
     /\ Goto("done")
  \/ /\ req.post
     /\ state' = "READING_BODY"
     /\ \/ /\ req.body \in {"chunked", "badchunk"}
           /\ Eat([req EXCEPT !.chunked = TRUE, !.ntoread = -1])
           /\ Goto("body")
        \/ /\ req.body = "length"
           /\ Eat([req EXCEPT !.ntoread = req.len])
           /\ Goto("body")
        \/ /\ req.body = "none" /\ req.conn # "keep"
           /\ Eat([req EXCEPT !.ntoread = -1])
           /\ Goto("body")
        \/ /\ req.body = "badlength" \/ (req.body = "none" /\ req.conn = "keep")
           /\ Eat(req)
           /\ Goto("fail")

\* A line of evhttp_read_header().
ReadHeader ==
  /\ pc = "header"
  /\ \/ ~HasLine /\ WaitForMore /\ UNCHANGED <<state, inbuf, req>>
     \/ /\ HasLine /\ Line.kind = "headers"
        /\ Eat(ParseHeaders(Line))
        /\ UNCHANGED state
        /\ Goto("header")
     \/ HasLine /\ Line.kind \in Empty /\ GetBody
     \/ /\ HasLine /\ Line.kind \notin Empty \cup {"headers"}
        /\ Eat(req)
        /\ UNCHANGED state
        /\ Goto("fail")

\* The body gets all that has come, the next request too.
BugTake(n, ntoread) == /\ inbuf' = <<>>
                       /\ req' = [req EXCEPT !.eaten = @ + Len(inbuf), !.ntoread = ntoread]

\* The first n tokens of the input buffer join req->input_buffer.
Take(n, ntoread) == /\ inbuf' = SubSeq(inbuf, n + 1, Len(inbuf))
                    /\ req' = [req EXCEPT !.eaten = @ + n, !.ntoread = ntoread]

\* evhttp_read_body() for a body that is not chunked.
ReadPlainBody ==
  /\ pc = "body" /\ ~req.chunked
  /\ UNCHANGED state
  /\ \/ req.ntoread < 0 /\ Take(Len(inbuf), -1) /\ WaitForMore
     \/ /\ req.ntoread >= 0 /\ Len(inbuf) >= req.ntoread
        /\ Take(req.ntoread, 0)
        /\ Goto("done")
     \/ /\ req.ntoread >= 0 /\ Len(inbuf) < req.ntoread
        /\ WaitForMore
        /\ UNCHANGED <<inbuf, req>>

\* A turn of the loop of evhttp_handle_chunked_read().
ReadChunk ==
  /\ pc = "body" /\ req.chunked
  /\ \/ /\ HasLine /\ req.ntoread < 0
        /\ LET t == Line
           IN  \/ /\ t.kind = "size"
                  /\ Eat([req EXCEPT !.ntoread = req.len])
                  /\ UNCHANGED state
                  /\ Goto("body")
               \/ /\ t.kind = "last"
                  /\ Eat([req EXCEPT !.ntoread = 0])
                  /\ state' = "READING_TRAILER"
                  /\ Goto("trailer")
               \/ /\ t.kind \in Empty
                  /\ Eat(req)
                  /\ UNCHANGED state
                  /\ Goto("body")
               \/ /\ t.kind \notin Empty \cup {"size", "last"}
                  /\ Eat(req)
                  /\ UNCHANGED state
                  /\ Goto("fail")
     \/ /\ req.ntoread >= 0 /\ Len(inbuf) >= req.ntoread /\ inbuf # <<>>
        /\ Take(req.ntoread, -1)
        /\ UNCHANGED state
        /\ Goto("body")
     \/ /\ inbuf = <<>> \/ (req.ntoread < 0 /\ ~HasLine) \/ Len(inbuf) < req.ntoread
        /\ WaitForMore
        /\ UNCHANGED <<state, inbuf, req>>

\* evhttp_read_trailer().
ReadTrailer ==
  /\ pc = "trailer"
  /\ UNCHANGED state
  /\ \/ ~HasLine /\ WaitForMore /\ UNCHANGED <<inbuf, req>>
     \/ HasLine /\ Eat(req) /\ Goto(IF Line.kind \in Empty THEN "done" ELSE "fail")

-----------------------------------------------------------------------------
(***************************************************************************)
(* The callback and the reply.                                             *)
(***************************************************************************)

\* evhttp_send() of a reply.
Send(q, code, page) ==
  /\ req' = Version(q, page)
  /\ reply' = MakeHeader(req', code, page)
  /\ left' \in 1..MaxWrites
  /\ ev' = "write"
  /\ pc' = "loop"
  /\ calls' = Append(calls, [id |-> q.id, code |-> code, eaten |-> q.eaten])
  /\ UNCHANGED <<inbuf, end, client, replies>>

\* evhttp_connection_done() calls evhttp_handle_request(): a callback of the URI
\* or the generic one replies, or there is none.
ConnectionDone == /\ pc = "done"
                  /\ state' = "WRITING"
                  /\ \/ req.uri /\ Send(req, 200, FALSE)
                     \/ req.uri /\ Send(req, 404, TRUE)
                     \/ ~req.uri /\ Send(req, 400, TRUE)

\* An evhttp_connection_fail() that returns without a reply.
BugConnectionFail == /\ pc = "fail"
                     /\ pc' = "loop"
                     /\ UNCHANGED <<state, ev, inbuf, req, reply, left, end, client, calls,
                                    replies>>

\* evhttp_connection_fail() with EVCON_HTTP_INVALID_HEADER takes the URI away and
\* calls evhttp_handle_request(), which sends an error.
ConnectionFail == /\ pc = "fail"
                  /\ UNCHANGED state
                  /\ Send([req EXCEPT !.uri = FALSE], 400, TRUE)

\* evhttp_write() has not written everything.
WritePart == /\ pc = "loop" /\ ev = "write"
             /\ peer # "rst"
             /\ left > 1
             /\ left' = left - 1
             /\ UNCHANGED <<pc, state, ev, inbuf, req, reply, end, client, calls, replies>>

\* It has, and calls evcon->cb.
WriteRest == /\ pc = "loop" /\ ev = "write"
             /\ peer # "rst"
             /\ left = 1
             /\ left' = 0
             /\ ev' = "none"
             /\ pc' = "sent"
             /\ replies' = Append(replies, reply)
             /\ UNCHANGED <<state, inbuf, req, reply, end, client, calls>>

\* evhttp_send_done(): the end, or a new request and evhttp_start_read(), for
\* which there may be no memory.
SendDone == /\ pc = "sent"
            /\ \/ /\ NeedClose(req, reply)
                  /\ Free("served")
               \/ /\ ~NeedClose(req, reply)
                  /\ Free("memory")
               \/ /\ ~NeedClose(req, reply)
                  /\ req' = NewRequest
                  /\ reply' = NoReply
                  /\ ev' = "read"
                  /\ state' = "READING_FIRSTLINE"
                  /\ pc' = "loop"
                  /\ UNCHANGED <<inbuf, left, end>>
            /\ UNCHANGED <<client, calls, replies>>

-----------------------------------------------------------------------------
(***************************************************************************)
(* The client.                                                             *)
(***************************************************************************)

server == <<pc, state, ev, inbuf, req, reply, left, end, calls, replies>>

Ask(r) == /\ peer = "open" /\ togo = <<>>
          /\ Len(asked) < MaxReqs
          /\ Pipelining \/ Len(replies) = Len(asked)
          /\ asked' = Append(asked, r)
          /\ togo' = Tokens(r, Len(asked) + 1)
          /\ UNCHANGED <<net, peer, server>>

Transmit == /\ peer = "open" /\ togo # <<>>
            /\ net' = Append(net, Head(togo))
            /\ togo' = Tail(togo)
            /\ UNCHANGED <<peer, asked, server>>

\* It closes its side, or resets the connection, in the middle of anything.
Hangup == /\ peer = "open"
          /\ peer' \in {"fin", "rst"}
          /\ UNCHANGED <<net, asked, togo, server>>

-----------------------------------------------------------------------------
Callback == \/ ReadEof \/ ReadData
            \/ ReadFirstline \/ ReadHeader \/ ReadPlainBody \/ ReadChunk \/ ReadTrailer
            \/ ConnectionDone \/ ConnectionFail
            \/ WritePart \/ WriteRest \/ SendDone

Next == \/ Callback
        \/ EventFails
        \/ \E r \in Requests : Ask(r)
        \/ Transmit
        \/ Hangup

\* The event loop calls back for every ready socket and every expired timer.
Fairness == WF_vars(Callback) /\ WF_vars(EventFails)

Spec == Init /\ [][Next]_vars
FairSpec == Spec /\ Fairness

-----------------------------------------------------------------------------
(***************************************************************************)
(* Properties.                                                             *)
(***************************************************************************)

Reading == {"READING_FIRSTLINE", "READING_HEADERS", "READING_BODY", "READING_TRAILER"}
TokenType == [kind : {"first", "badline", "headers", "badheader", "end", "byte", "size",
                      "last", "badsize", "half", "lf"}, id : 1..MaxReqs]

TypeOK == /\ pc \in {"loop", "firstline", "header", "body", "trailer", "done", "fail",
                     "sent", "exit"}
          /\ state \in Reading \cup {"WRITING", "freed"}
          /\ ev \in {"none", "read", "write"}
          /\ inbuf \in Seq(TokenType) /\ net \in Seq(TokenType) /\ togo \in Seq(TokenType)
          /\ left \in 0..MaxWrites
          /\ end \in {"none", "timeout", "error", "served", "memory"}
          /\ peer \in {"open", "fin", "rst"}
          /\ asked \in Seq(Requests)
          /\ req # NoRequest => req.minor \in {0, 1} /\ req.ntoread \in -1..2

\* Whenever the thread is back in the event loop, the connection waits for
\* something or is gone: no path of any callback leaves a connection without an
\* event, which nothing would ever read, write, time out or free.  What waits for
\* input is in a state in which evhttp_read() accepts it, instead of ending the
\* process with "illegal connection state".
Watched == /\ pc = "loop" => (ev = "none" <=> state = "freed")
           /\ pc # "loop" => ev = "none" /\ state # "freed"
           /\ ev = "read" => state \in Reading
           /\ pc # "exit"

\* A request whose end the client announces.
Framed(r) == ~(r.line = "post" /\ r.body = "none")

\* A callback that replies was given its request exactly to its last token, not
\* less and nothing of the next one.
WholeCall(c) == c.code # 400 /\ Framed(asked[c.id]) => c.eaten = Len(Tokens(asked[c.id], c.id))

\* No line of the client was cut between CR and LF.
Intact == \A i \in 1..Len(asked) : asked[i].torn = "none" \/ asked[i].cut = "text"

\* A callback is given whole requests, in whatever pieces they come and however
\* many of them, unless the client closes its side first or a CR comes without
\* its LF.
RequestsWhole == Intact /\ peer # "fin" => \A k \in 1..Len(calls) : WholeCall(calls[k])

\* The comment on evhttp_get_request() says so of clients that close their side.
CallbackAfterWholeRequest == Intact => \A k \in 1..Len(calls) : WholeCall(calls[k])

\* The comment on evbuffer_readline() says so of lines that end with CR and LF,
\* wherever they are cut.
LinesReadOnce == peer # "fin" => \A k \in 1..Len(calls) : WholeCall(calls[k])

\* A request that the server cannot accept.
Unacceptable(r) ==
  \/ r.line = "bad" \/ r.header = "bad"
  \/ r.line = "post" /\ r.body \in {"badlength", "badchunk"}
  \/ r.line = "post" /\ r.body = "none" /\ r.conn = "keep"

\* The k-th call is for the k-th request, and the k-th reply is that call's: none
\* is skipped, repeated or overtaken, however the requests were cut into pieces.
\* Error 400 is for a request that deserves it, for a client that has gone or
\* for a CR without its LF, and nothing comes after it.
RepliesInOrder ==
  /\ Len(replies) <= Len(calls)
  /\ \A k \in 1..Len(replies) : replies[k].id = calls[k].id /\ replies[k].code = calls[k].code
  /\ \A k \in 1..Len(calls) :
       IF calls[k].code # 400 THEN calls[k].id = k
       ELSE /\ k = Len(calls)
            /\ peer = "fin" \/ ~Intact \/ (calls[k].id = k /\ Unacceptable(asked[k]))

\* The server serves a connection exactly, whatever pieces its requests come in.
ServedExactly == TypeOK /\ RequestsWhole /\ RepliesInOrder

\* Server and client agree on what comes after a reply.  A connection is kept only
\* after a reply that tells its length and does not announce a close; and after
\* the last reply to a request by path the client was told so, or its version
\* implies it.
CloseAgreed ==
  replies # <<>> =>
    LET r == replies[Len(replies)] IN
      /\ state \in Reading /\ pc # "sent" /\ calls # <<>> /\ req.id = 0
           => r.length /\ r.conn # "close"
      /\ end = "served" =>
           \/ r.conn = "close"
           \/ r.id # 0 /\ asked[r.id].proxy
           \/ r.minor = 0 /\ r.conn # "keep"

\* A connection does not live for ever: whatever its client does or omits, it is
\* freed in the end.
EndsEventually == <>(state = "freed")

\* A client that waits for each reply and does not hang up gets one for every
\* request that it sent to its end, when no timeout is set; only a lack of memory
\* between two requests, or a connection that was closed before, comes first.
RequestSent(i) == Len(asked) = i /\ togo = <<>> /\ Framed(asked[i])
RequestSettled(i) == Len(replies) >= i \/ peer # "open" \/ end \in {"served", "memory"}
EveryRequestAnswered == \A i \in 1..MaxReqs : RequestSent(i) ~> RequestSettled(i)
=============================================================================
