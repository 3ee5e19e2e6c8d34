----------------------------- MODULE HttpReply ------------------------------
(***************************************************************************)
(* Replies that a program sends piece by piece, from timers or from other  *)
(* callbacks, after its callback for the request has returned:             *)
(* evhttp_send_reply_start(), _chunk() and _end() (contrib/libevent/http.c)*)
(* together with evhttp_write(), evhttp_send_done() and the close callback *)
(* of the connection.  At the other end a client decodes what arrives.     *)
(*                                                                         *)
(* The output buffer holds tokens: the head of a reply, the line with the  *)
(* size of a chunk, a byte, an empty line.                                 *)
(***************************************************************************)
EXTENDS Integers, Sequences

CONSTANTS Requests,   \* what the client may ask for
          Sizes,      \* the sizes of the pieces
          MaxReqs,    \* bound: requests on the connection
          MaxPieces,  \* bound: pieces of a reply
          Leaves      \* the client may go away, and a write may time out

\* What the constants have to be.
Sane == /\ MaxReqs \in Nat /\ MaxPieces \in Nat /\ Sizes \subseteq Nat
        /\ Leaves \in BOOLEAN

VARIABLES req,      \* the request at the head of the connection
          phase,    \* what the program has done for it: "none", "start", "end"
          open,     \* the program has not been told that the connection is closed
          freed,    \* the connection and its request are freed
          outbuf,   \* evcon->output_buffer
          ev,       \* evcon->ev waits for the socket to be writable
          cb,       \* evcon->cb is evhttp_send_done
          gone,     \* the client has reset the connection
          sent,     \* history: the pieces that were sent, a sequence for each reply
          client    \* the client's decoder

program == <<phase, open>>
vars == <<req, phase, open, freed, outbuf, ev, cb, gone, sent, client>>

\* A request: HTTP/1.minor and its Connection header.
RequestType == [minor : {0, 1}, conn : {"none", "close", "keep"}]

Heading(chunked, length) == [k |-> "head", chunked |-> chunked, length |-> length, n |-> 0]
Size(n) == [k |-> "size", n |-> n]
Byte(i) == [k |-> "byte", n |-> i]
Crlf == [k |-> "crlf", n |-> 0]

IsKeepalive(r) == r.conn = "keep"
NeedClose(r) == (r.minor = 0 /\ ~IsKeepalive(r)) \/ r.conn = "close"

\* evhttp_make_header_response(): the length of req->output_buffer, which is empty
\* when a reply is started, unless there is a Transfer-Encoding.
HasLength(r, chunked) == (r.minor = 1 \/ IsKeepalive(r)) /\ ~chunked

\* The client: bodies it has read to the end, and the one it is reading.
NewClient == [mode |-> "head", left |-> 0, body |-> <<>>, bodies |-> <<>>, lost |-> FALSE]
Complete(c) == [c EXCEPT !.mode = "head", !.body = <<>>, !.bodies = Append(@, c.body)]

\* It reads a token.
ClientTake(c, t) ==
  CASE c.mode = "head" /\ t.k = "head" ->
         IF t.chunked THEN [c EXCEPT !.mode = "size"]
         ELSE IF t.length THEN Complete(c) ELSE [c EXCEPT !.mode = "eof"]
    [] c.mode = "size" /\ t.k = "size" ->
         [c EXCEPT !.mode = IF t.n = 0 THEN "last" ELSE "data", !.left = t.n]
    [] c.mode = "data" /\ t.k = "byte" ->
         [c EXCEPT !.body = Append(@, t.n), !.left = @ - 1,
                   !.mode = IF c.left = 1 THEN "crlf" ELSE "data"]
    [] c.mode = "crlf" /\ t.k = "crlf" -> [c EXCEPT !.mode = "size"]
    [] c.mode = "last" /\ t.k = "crlf" -> Complete(c)
    [] c.mode = "eof" -> [c EXCEPT !.body = Append(@, t.n)]
    [] OTHER -> [c EXCEPT !.lost = TRUE]

ClientEof(c) == IF c.mode = "eof" THEN Complete(c) ELSE c

-----------------------------------------------------------------------------
NoRequest == [minor |-> -1, conn |-> "none"]

Init == /\ req = NoRequest /\ phase = "none" /\ open = TRUE /\ freed = FALSE
        /\ outbuf = <<>> /\ ev = FALSE /\ cb = FALSE /\ gone = FALSE
        /\ sent = <<>> /\ client = NewClient

\* evhttp_connection_done() calls the program's callback, which only remembers the
\* request and sets the close callback.
Arrive(r) == /\ ~freed /\ ~gone /\ req = NoRequest
             /\ Len(sent) < MaxReqs
             /\ req' = r
             /\ phase' = "none"
             /\ sent' = Append(sent, <<>>)
             /\ UNCHANGED <<open, freed, outbuf, ev, cb, gone, client>>

\* evhttp_connection_free(): the close callback comes first.
Free == /\ freed' = TRUE
        /\ open' = FALSE
        /\ req' = NoRequest
        /\ outbuf' = <<>> /\ ev' = FALSE /\ cb' = FALSE

\* evhttp_send_done(): the next request, or the end of the connection.  Without a
\* write event it is called from evhttp_send_reply_end().
SendDone == \/ /\ NeedClose(req)
               /\ Free
               /\ client' = ClientEof(client)
            \/ /\ ~NeedClose(req)
               /\ req' = NoRequest
               /\ ev' = FALSE
               /\ cb' = FALSE
               /\ UNCHANGED <<open, freed, outbuf, client>>

\* The program goes on with a request until it is told of the close.
Uses == open /\ req # NoRequest

\* evhttp_write_buffer().
WriteBuffer(toks, done) == /\ outbuf' = outbuf \o toks
                           /\ ev' = TRUE
                           /\ cb' = done

\* evhttp_send_reply_start(): chunks for HTTP/1.1.
SendReplyStart ==
  /\ Uses /\ phase = "none"
  /\ LET chunked == req.minor = 1
     IN  WriteBuffer(<<Heading(chunked, HasLength(req, chunked))>>, FALSE)
  /\ phase' = "start"
  /\ UNCHANGED <<req, open, freed, gone, sent, client>>

\* What evhttp_send_reply_chunk() adds for n bytes.
Chunk(n) == IF req.minor = 1 THEN <<Size(n)>> \o [i \in 1..n |-> Byte(i)] \o <<Crlf>>
            ELSE [i \in 1..n |-> Byte(i)]

SendReplyChunk(n) ==
  /\ Uses /\ phase = "start"
  /\ Len(sent[Len(sent)]) < MaxPieces
  /\ WriteBuffer(Chunk(n), FALSE)
  /\ sent' = [sent EXCEPT ![Len(sent)] = Append(@, n)]
  /\ UNCHANGED <<req, phase, open, freed, gone, client>>

\* evhttp_send_reply_end().
SendReplyEnd ==
  /\ Uses /\ phase = "start"
  /\ phase' = "end"
  /\ \/ /\ req.minor = 1
        /\ WriteBuffer(<<Size(0), Crlf>>, TRUE)
        /\ UNCHANGED <<req, open, freed, client>>
     \/ req.minor = 0 /\ ~ev /\ SendDone
     \/ /\ req.minor = 0 /\ ev
        /\ cb' = TRUE
        /\ UNCHANGED <<req, open, freed, outbuf, ev, client>>
  /\ UNCHANGED <<gone, sent>>

\* evhttp_write() writes a part of the buffer, a token at a time.
WritePart == /\ ev /\ ~gone /\ Len(outbuf) > 1
             /\ client' = ClientTake(client, Head(outbuf))
             /\ outbuf' = Tail(outbuf)
             /\ UNCHANGED <<req, program, freed, ev, cb, gone, sent>>

\* It writes the rest, and calls evcon->cb if there is one.
WriteRest == /\ ev /\ ~gone /\ Len(outbuf) = 1
             /\ LET c == ClientTake(client, Head(outbuf))
                IN  \/ /\ ~cb
                       /\ client' = c /\ outbuf' = <<>> /\ ev' = FALSE
                       /\ UNCHANGED <<req, open, freed, cb>>
                    \/ /\ cb /\ NeedClose(req)
                       /\ Free
                       /\ client' = ClientEof(c)
                    \/ /\ cb /\ ~NeedClose(req)
                       /\ req' = NoRequest
                       /\ client' = c /\ outbuf' = <<>> /\ ev' = FALSE /\ cb' = FALSE
                       /\ UNCHANGED <<open, freed>>
             /\ UNCHANGED <<phase, gone, sent>>

\* evhttp_write() times out or fails: evhttp_connection_fail() frees the connection.
WriteFails == /\ Leaves /\ ev
              /\ Free
              /\ UNCHANGED <<phase, gone, sent, client>>

\* The client goes away.
Leave == /\ Leaves /\ ~gone
         /\ gone' = TRUE
         /\ UNCHANGED <<req, program, freed, outbuf, ev, cb, sent, client>>

-----------------------------------------------------------------------------
Next == \/ \E r \in Requests : Arrive(r)
        \/ SendReplyStart
        \/ \E n \in Sizes : SendReplyChunk(n)
        \/ SendReplyEnd
        \/ WritePart \/ WriteRest \/ WriteFails \/ Leave

Spec == Init /\ [][Next]_vars

\* The program goes on with a reply, and the event loop calls the callback of the
\* socket, when it is writable or when the time is over.
FairSpec == /\ Spec
            /\ WF_vars(SendReplyStart \/ SendReplyEnd)
            /\ WF_vars(WritePart \/ WriteRest \/ (gone /\ WriteFails))

-----------------------------------------------------------------------------
\* Type invariant of the connection, the program and the client.
TypeOK == /\ req \in RequestType \cup {NoRequest}
          /\ phase \in {"none", "start", "end"}
          /\ open \in BOOLEAN /\ freed \in BOOLEAN /\ gone \in BOOLEAN
          /\ ev \in BOOLEAN /\ cb \in BOOLEAN
          /\ ev <=> outbuf # <<>>
          /\ client.left >= 0

\* The bytes of a reply: 1..n for each piece of n bytes.
Bytes(pieces) == LET f[k \in 0..Len(pieces)] ==
                       IF k = 0 THEN <<>> ELSE f[k - 1] \o [i \in 1..pieces[k] |-> i]
                 IN  f[Len(pieces)]

\* What a client has read to the end are the pieces that were sent for its request,
\* to the last one, and nothing that it gets is out of place.
StreamExact == /\ ~client.lost
               /\ Len(client.bodies) <= Len(sent)
               /\ \A i \in 1..Len(client.bodies) :
                    /\ client.bodies[i] = Bytes(sent[i])
                    /\ i = Len(sent) => phase = "end"

\* Whatever ends a connection, the program that streams a reply has been told before
\* the request is gone: what it holds is never freed memory.
ToldOfClose == /\ freed => ~open
               /\ phase = "start" /\ open => req # NoRequest

\* A reply that was started is ended and handed over, or its connection is freed; the
\* connection never hangs between two requests.
RepliesEnd == req # NoRequest ~> req = NoRequest
=============================================================================
