--------------------------- MODULE HttpConnProofs ---------------------------
(***************************************************************************)
(* Proofs about HttpConn.                                                  *)
(***************************************************************************)
EXTENDS HttpConn, SequenceTheorems, WellFoundedInduction, NaturalsInduction, TLAPS

\* Where the thread is inside a callback agrees with evcon->state, from which
\* evhttp_read() goes on when more data comes.
Places == /\ pc = "firstline" => state = "READING_FIRSTLINE"
          /\ pc = "header" => state = "READING_HEADERS"
          /\ pc = "body" => state = "READING_BODY"
          /\ pc = "trailer" => state = "READING_TRAILER"

WatchInv == Watched /\ Places

\* The invariant holds when evhttp_get_request() has set the connection up.
LEMMA WatchInit == Init => WatchInv
BY DEF Init, WatchInv, Watched, Places, Reading

\* Every step of a callback, of the event loop and of the client keeps it.
LEMMA WatchNext == WatchInv /\ [Next]_vars => WatchInv'
<1> SUFFICES ASSUME WatchInv, [Next]_vars
             PROVE  WatchInv'
  OBVIOUS
<1> USE DEF WatchInv, Watched, Places, Reading
<1>1. CASE ReadEof
  BY <1>1 DEF ReadEof
<1>2. CASE ReadData
  BY <1>2 DEF ReadData
<1>3. CASE ReadFirstline
  BY <1>3 DEF ReadFirstline, WaitForMore, Goto
<1>4. CASE ReadHeader
  BY <1>4 DEF ReadHeader, GetBody, WaitForMore, Goto
<1>5. CASE ReadPlainBody
  BY <1>5 DEF ReadPlainBody, WaitForMore, Goto
<1>6. CASE ReadChunk
  BY <1>6 DEF ReadChunk, WaitForMore, Goto
<1>7. CASE ReadTrailer
  BY <1>7 DEF ReadTrailer, WaitForMore, Goto
<1>8. CASE ConnectionDone
  BY <1>8 DEF ConnectionDone, Send
<1>9. CASE ConnectionFail
  BY <1>9 DEF ConnectionFail, Send
<1>10. CASE WritePart
  BY <1>10 DEF WritePart
<1>11. CASE WriteRest
  BY <1>11 DEF WriteRest
<1>12. CASE SendDone
  BY <1>12 DEF SendDone, Free
<1>13. CASE EventFails
  BY <1>13 DEF EventFails, Free
<1>14. CASE (\E r \in Requests : Ask(r)) \/ Transmit \/ Hangup
  BY <1>14 DEF Ask, Transmit, Hangup, server
<1>15. CASE UNCHANGED vars
  BY <1>15 DEF vars
<1>16. QED
  BY <1>1, <1>2, <1>3, <1>4, <1>5, <1>6, <1>7, <1>8, <1>9, <1>10, <1>11, <1>12, <1>13,
     <1>14, <1>15 DEF Next, Callback

\* No path of any callback leaves a connection without an event, whatever requests
\* its client sends, however many, in whatever pieces, and with or without a
\* timeout; and evhttp_read() never meets an illegal connection state.
THEOREM AlwaysWatched == Spec => []Watched
<1>1. WatchInv => Watched
  BY DEF WatchInv
<1>2. QED
  BY <1>1, WatchInit, WatchNext, PTL DEF Spec

-----------------------------------------------------------------------------
(***************************************************************************)
(* Types.                                                                  *)
(***************************************************************************)

KindSet == {"first", "badline", "headers", "badheader", "end", "byte", "size", "last",
            "badsize", "half", "lf"}
Token(n) == [kind : KindSet, id : 1..n]

RequestState == [id : Nat, uri : BOOLEAN, post : BOOLEAN, major : {0, 1}, minor : {0, 1},
                 proxy : BOOLEAN, conn : {"none", "close", "keep", "pkeep"},
                 body : {"none", "length", "chunked", "badlength", "badchunk"}, len : 0..2,
                 chunked : BOOLEAN, ntoread : -1..2, eaten : Nat]

\* Every token is of a request that was asked, and the connection has a request
\* until it is freed.
Typed == /\ state \in Reading \cup {"WRITING", "freed"}
         /\ peer \in {"open", "fin", "rst"}
         /\ left \in 0..MaxWrites
         /\ end \in {"none", "timeout", "error", "served", "memory"}
         /\ asked \in Seq(Requests) /\ Len(asked) <= MaxReqs
         /\ inbuf \in Seq(Token(Len(asked)))
         /\ net \in Seq(Token(Len(asked)))
         /\ togo \in Seq(Token(Len(asked)))
         /\ state = "freed" => req = NoRequest /\ inbuf = <<>>
         /\ state # "freed" => req \in RequestState

\* What a client sends for a request is made of the kinds of tokens that its lines are
\* made of.
LEMMA PiecesIn ==
  ASSUME NEW r \in RequestType, NEW K, {"byte", "badsize", "badline", "badheader"} \subseteq K,
         \A x \in {"first", "headers", "end", "size", "last"} : InLine(r, x) \in Seq(K)
  PROVE  /\ Pieces(r) \in Seq(K) /\ Body(r) \in Seq(K) /\ Chunk(r) \in Seq(K)
         /\ Bytes(r.len) \in Seq(K)
<1>1. Bytes(r.len) \in Seq(K)
  <2>1. r.len \in Nat /\ "byte" \in K
    BY DEF RequestType
  <2>2. \A n \in Nat : [j \in 1..n |-> "byte"] \in Seq(K)
    BY <2>1
  <2> QED
    BY <2>1, <2>2 DEF Bytes
<1>2. /\ InLine(r, "first") \in Seq(K) /\ InLine(r, "headers") \in Seq(K)
      /\ InLine(r, "end") \in Seq(K) /\ InLine(r, "size") \in Seq(K)
      /\ InLine(r, "last") \in Seq(K)
  OBVIOUS
<1>3. /\ <<>> \in Seq(K) /\ <<"badsize">> \in Seq(K) /\ <<"badline">> \in Seq(K)
      /\ <<"badheader">> \in Seq(K)
  OBVIOUS
<1>4. Chunk(r) \in Seq(K)
  BY <1>1, <1>2, <1>3 DEF Chunk
<1>5. Body(r) \in Seq(K)
  BY <1>1, <1>2, <1>3, <1>4 DEF Body
<1>6. InLine(r, "headers") \o InLine(r, "end") \o Body(r) \in Seq(K)
  BY <1>2, <1>5
<1>7. Pieces(r) \in Seq(K)
  BY <1>2, <1>3, <1>6 DEF Pieces
<1> QED
  BY <1>1, <1>4, <1>5, <1>7

LEMMA PiecesKinds ==
  ASSUME NEW r \in RequestType
  PROVE  /\ Pieces(r) \in Seq(KindSet) /\ Body(r) \in Seq(KindSet) /\ Chunk(r) \in Seq(KindSet)
         /\ Bytes(r.len) \in Seq(KindSet)
<1>1. {"byte", "badsize", "badline", "badheader", "half", "lf"} \subseteq KindSet
  BY DEF KindSet
<1>2. {"first", "headers", "end", "size", "last"} \subseteq KindSet
  BY DEF KindSet
<1>3. \A x \in {"first", "headers", "end", "size", "last"} : InLine(r, x) \in Seq(KindSet)
  BY <1>1, <1>2 DEF InLine
<1> QED
  BY <1>1, <1>3, PiecesIn

\* What a request is sent as belongs to it.
LEMMA TokensType ==
  ASSUME NEW r \in RequestType, NEW i \in Nat \ {0}
  PROVE  Tokens(r, i) \in Seq(Token(i))
<1>1. Pieces(r) \in Seq(KindSet)
  BY PiecesKinds
<1>2. PICK p \in Seq(KindSet) : p = Pieces(r)
  BY <1>1
<1>3. Tokens(r, i) = [j \in 1..Len(p) |-> [kind |-> p[j], id |-> i]]
  BY <1>2 DEF Tokens
<1>4. \A j \in 1..Len(p) : [kind |-> p[j], id |-> i] \in Token(i)
  BY DEF Token
<1> HIDE DEF Token
<1> QED
  BY <1>3, <1>4

\* Tokens stay tokens when more requests are asked.
LEMMA TokensKept ==
  ASSUME NEW m \in Nat, NEW n \in Nat, m <= n, NEW s \in Seq(Token(m))
  PROVE  s \in Seq(Token(n))
<1>1. Token(m) \subseteq Token(n)
  BY DEF Token
<1> QED
  BY <1>1

\* evbuffer_readline() finds a line inside the buffer.
LEMMA LineIs ==
  ASSUME NEW T, inbuf \in Seq(T), HasLine
  PROVE  /\ Halves \in {0, 1} /\ Line \in T /\ Line = inbuf[Halves + 1]
         /\ LineLen \in 1..Len(inbuf) /\ LineLen \in {Halves + 1, Halves + 2}
         /\ SubSeq(inbuf, LineLen + 1, Len(inbuf)) \in Seq(T)
<1>1. Halves \in {0, 1} /\ Len(inbuf) \in Nat /\ Len(inbuf) > Halves
  BY DEF Halves, HasLine
<1>2. LineLen \in {Halves + 1, Halves + 2} /\ LineLen \in 1..Len(inbuf)
  BY <1>1 DEF LineLen
<1>3. Line \in T
  BY <1>1 DEF Line
<1>4. SubSeq(inbuf, LineLen + 1, Len(inbuf)) \in Seq(T)
  <2>1. LineLen + 1 \in 1..(Len(inbuf) + 1)
    BY <1>1, <1>2
  <2> QED
    BY <1>1, <2>1, SubSeqProperties
<1> QED
  BY <1>1, <1>2, <1>3, <1>4 DEF Line

\* A line is used up.
LEMMA EatTyped ==
  ASSUME NEW n \in Nat, inbuf \in Seq(Token(n)), HasLine, NEW q \in RequestState, Eat(q)
  PROVE  /\ inbuf' \in Seq(Token(n)) /\ req' \in RequestState
         /\ req' = [q EXCEPT !.eaten = q.eaten + LineLen]
<1>1. LineLen \in Nat /\ SubSeq(inbuf, LineLen + 1, Len(inbuf)) \in Seq(Token(n))
  BY LineIs
<1>2. inbuf' \in Seq(Token(n))
  BY <1>1 DEF Eat
<1>3. req' = [q EXCEPT !.eaten = q.eaten + LineLen]
  BY DEF Eat
<1>4. PICK l \in Nat : l = LineLen
  BY <1>1
<1>5. req' \in RequestState
  BY <1>3, <1>4 DEF RequestState
<1> QED
  BY <1>2, <1>3, <1>5

\* The connection is typed when it is set up.
LEMMA TypedInit == Init => Typed
BY MaxReqsAssumption, MaxWritesAssumption
DEF Init, Typed, Reading, NewRequest, RequestState, Token, NoRequest

\* Reading and parsing.
LEMMA TypedRead ==
  ASSUME WatchInv, Typed,
         ReadFirstline \/ ReadHeader \/ ReadPlainBody \/ ReadChunk \/ ReadTrailer
  PROVE  Typed'
<1> DEFINE n == Len(asked)
<1>1. /\ n \in Nat /\ inbuf \in Seq(Token(n)) /\ req \in RequestState /\ state # "freed"
      /\ asked \in Seq(Requests) /\ req.len \in 0..2 /\ req.ntoread \in -1..2
      /\ req.eaten \in Nat
  BY DEF Typed, WatchInv, Watched, ReadFirstline, ReadHeader, ReadPlainBody, ReadChunk,
         ReadTrailer, RequestState
<1>2. UNCHANGED <<peer, left, end, asked, net, togo>>
  BY DEF ReadFirstline, ReadHeader, GetBody, ReadPlainBody, ReadChunk, ReadTrailer, WaitForMore,
         Goto, client
<1>3. ASSUME inbuf' \in Seq(Token(n)), req' \in RequestState,
             state' \in Reading \cup {"WRITING"}
      PROVE  Typed'
  BY <1>2, <1>3 DEF Typed, Reading
<1>4. state \in Reading \cup {"WRITING"}
  BY <1>1 DEF Typed
<1>5. ASSUME HasLine
      PROVE  Line \in Token(n) /\ Line.id \in 1..n /\ asked[Line.id] \in RequestType
  <2>1. Line \in Token(n)
    BY <1>1, <1>5, LineIs
  <2>2. Line.id \in 1..n
    BY <2>1 DEF Token
  <2> QED
    BY <1>1, <2>1, <2>2, RequestsAssumption
<1>6. ASSUME NEW q \in RequestState, HasLine, Eat(q)
      PROVE  inbuf' \in Seq(Token(n)) /\ req' \in RequestState
  BY <1>1, <1>6, EatTyped
<1>7. ASSUME NEW k \in 0..Len(inbuf), NEW m \in -1..2, Take(k, m)
      PROVE  inbuf' \in Seq(Token(n)) /\ req' \in RequestState
  <2>1. inbuf' \in Seq(Token(n))
    <3>1. k + 1 \in 1..(Len(inbuf) + 1) /\ Len(inbuf) \in Nat
      BY <1>1
    <3> QED
      BY <1>1, <1>7, <3>1, SubSeqProperties DEF Take
  <2>2. req.eaten + k \in Nat
    BY <1>1
  <2> QED
    BY <1>1, <1>7, <2>1, <2>2 DEF Take, RequestState
<1> HIDE DEF n
<1>8. CASE ReadFirstline
  <2>1. CASE UNCHANGED <<state, inbuf, req>>
    BY <1>1, <1>3, <1>4, <2>1
  <2>2. CASE HasLine /\ Eat(ParseRequestLine(Line)) /\ state' = "READING_HEADERS"
    <3> DEFINE r == asked[Line.id]
    <3>1. r \in RequestType /\ Line.id \in Nat
      BY <1>5, <2>2 DEF n
    <3>2. r.minor \in {0, 1} /\ r.proxy \in BOOLEAN
      BY <3>1 DEF RequestType
    <3>3. ParseRequestLine(Line) \in RequestState
      BY <1>1, <3>1, <3>2 DEF ParseRequestLine, RequestState
    <3> QED
      BY <1>3, <1>6, <2>2, <3>3 DEF Reading
  <2>3. CASE HasLine /\ Eat([req EXCEPT !.id = Line.id]) /\ UNCHANGED state
    <3>1. Line.id \in Nat
      BY <1>5, <2>3 DEF n
    <3>2. [req EXCEPT !.id = Line.id] \in RequestState
      BY <1>1, <3>1 DEF RequestState
    <3> QED
      BY <1>3, <1>4, <1>6, <2>3, <3>2
  <2> QED
    BY <1>8, <2>1, <2>2, <2>3 DEF ReadFirstline
<1>9. CASE ReadHeader
  <2>1. CASE UNCHANGED <<state, inbuf, req>>
    BY <1>1, <1>3, <1>4, <2>1
  <2>2. CASE HasLine /\ Eat(ParseHeaders(Line)) /\ UNCHANGED state
    <3> DEFINE r == asked[Line.id]
    <3>1. r \in RequestType
      BY <1>5, <2>2 DEF n
    <3>2. /\ r.conn \in {"none", "close", "keep", "pkeep"} /\ r.len \in 0..2
          /\ r.body \in {"none", "length", "chunked", "badlength", "badchunk"}
      BY <3>1 DEF RequestType
    <3>3. ParseHeaders(Line) \in RequestState
      BY <1>1, <3>2 DEF ParseHeaders, RequestState
    <3> QED
      BY <1>3, <1>4, <1>6, <2>2, <3>3
  <2>3. CASE HasLine /\ Eat(req) /\ (UNCHANGED state \/ state' = "READING_BODY")
    BY <1>1, <1>3, <1>4, <1>6, <2>3 DEF Reading
  <2>4. CASE /\ HasLine /\ state' = "READING_BODY"
             /\ \/ Eat([req EXCEPT !.chunked = TRUE, !.ntoread = -1])
                \/ Eat([req EXCEPT !.ntoread = req.len])
                \/ Eat([req EXCEPT !.ntoread = -1])
    <3>a. -1 \in -1..2 /\ req.len \in -1..2
      BY <1>1
    <3>b. [req EXCEPT !.chunked = TRUE, !.ntoread = -1] \in RequestState
      BY <1>1, <3>a DEF RequestState
    <3>c. [req EXCEPT !.ntoread = req.len] \in RequestState
      BY <1>1, <3>a DEF RequestState
    <3>d. [req EXCEPT !.ntoread = -1] \in RequestState
      BY <1>1, <3>a DEF RequestState
    <3>1. /\ [req EXCEPT !.chunked = TRUE, !.ntoread = -1] \in RequestState
          /\ [req EXCEPT !.ntoread = req.len] \in RequestState
          /\ [req EXCEPT !.ntoread = -1] \in RequestState
      BY <3>b, <3>c, <3>d
    <3> QED
      BY <1>3, <1>6, <2>4, <3>1 DEF Reading
  <2> QED
    BY <1>9, <2>1, <2>2, <2>3, <2>4 DEF ReadHeader, GetBody
<1>10. CASE ReadPlainBody
  <2>1. CASE UNCHANGED <<inbuf, req>>
    BY <1>1, <1>3, <1>4, <1>10, <2>1 DEF ReadPlainBody
  <2>2. CASE Take(Len(inbuf), -1)
    <3>1. Len(inbuf) \in 0..Len(inbuf) /\ -1 \in -1..2
      BY <1>1
    <3> QED
      BY <1>3, <1>4, <1>7, <1>10, <2>2, <3>1 DEF ReadPlainBody
  <2>3. CASE req.ntoread >= 0 /\ Len(inbuf) >= req.ntoread /\ Take(req.ntoread, 0)
    <3>1. req.ntoread \in 0..Len(inbuf) /\ 0 \in -1..2
      BY <1>1, <2>3
    <3> QED
      BY <1>3, <1>4, <1>7, <1>10, <2>3, <3>1 DEF ReadPlainBody
  <2> QED
    BY <1>10, <2>1, <2>2, <2>3 DEF ReadPlainBody
<1>11. CASE ReadChunk
  <2>1. CASE UNCHANGED <<state, inbuf, req>>
    BY <1>1, <1>3, <1>4, <2>1
  <2>2. CASE HasLine /\ Eat([req EXCEPT !.ntoread = req.len]) /\ UNCHANGED state
    <3>a. req.len \in -1..2
      BY <1>1
    <3>1. [req EXCEPT !.ntoread = req.len] \in RequestState
      BY <1>1, <3>a DEF RequestState
    <3> QED
      BY <1>3, <1>4, <1>6, <2>2, <3>1
  <2>3. CASE HasLine /\ Eat([req EXCEPT !.ntoread = 0]) /\ state' = "READING_TRAILER"
    <3>1. [req EXCEPT !.ntoread = 0] \in RequestState
      BY <1>1 DEF RequestState
    <3> QED
      BY <1>3, <1>6, <2>3, <3>1 DEF Reading
  <2>4. CASE HasLine /\ Eat(req) /\ UNCHANGED state
    BY <1>1, <1>3, <1>4, <1>6, <2>4
  <2>5. CASE /\ req.ntoread >= 0 /\ Len(inbuf) >= req.ntoread /\ Take(req.ntoread, -1)
             /\ UNCHANGED state
    <3>1. req.ntoread \in 0..Len(inbuf) /\ -1 \in -1..2
      BY <1>1, <2>5
    <3> QED
      BY <1>3, <1>4, <1>7, <2>5, <3>1
  <2> QED
    BY <1>11, <2>1, <2>2, <2>3, <2>4, <2>5 DEF ReadChunk
<1>12. CASE ReadTrailer
  <2>1. CASE UNCHANGED <<inbuf, req>>
    BY <1>1, <1>3, <1>4, <1>12, <2>1 DEF ReadTrailer
  <2>2. CASE HasLine /\ Eat(req)
    BY <1>1, <1>3, <1>4, <1>6, <1>12, <2>2 DEF ReadTrailer
  <2> QED
    BY <1>12, <2>1, <2>2 DEF ReadTrailer
<1> QED
  BY <1>8, <1>9, <1>10, <1>11, <1>12

\* evhttp_send_page() keeps a request a request.
LEMMA VersionTyped ==
  ASSUME NEW q \in RequestState, NEW page
  PROVE  Version(q, page) \in RequestState
BY DEF Version, RequestState

\* Every step keeps the types.
LEMMA TypedStep == WatchInv /\ Typed /\ [Next]_vars => Typed'
<1> SUFFICES ASSUME WatchInv, Typed, [Next]_vars PROVE Typed'
  OBVIOUS
<1>a. Len(asked) \in Nat
  BY DEF Typed
<1>1. CASE ReadEof
  BY <1>1 DEF ReadEof, client, Typed
<1>2. CASE ReadData
  <2>1. PICK k \in 1..Len(net) : /\ inbuf' = inbuf \o SubSeq(net, 1, k)
                                 /\ net' = SubSeq(net, k + 1, Len(net))
    BY <1>2 DEF ReadData
  <2>2. /\ SubSeq(net, 1, k) \in Seq(Token(Len(asked)))
        /\ SubSeq(net, k + 1, Len(net)) \in Seq(Token(Len(asked)))
    BY <2>1, SubSeqProperties DEF Typed
  <2>3. inbuf' \in Seq(Token(Len(asked))) /\ net' \in Seq(Token(Len(asked)))
    BY <2>1, <2>2 DEF Typed
  <2>4. state # "freed"
    BY <1>2 DEF ReadData, WatchInv, Watched, Reading
  <2> QED
    BY <1>2, <2>3, <2>4 DEF ReadData, Typed
<1>3. CASE ReadFirstline \/ ReadHeader \/ ReadPlainBody \/ ReadChunk \/ ReadTrailer
  BY <1>3, TypedRead
<1>4. CASE ConnectionDone \/ ConnectionFail
  <2>1. state # "freed" /\ req \in RequestState
    BY <1>4 DEF ConnectionDone, ConnectionFail, WatchInv, Watched, Typed
  <2>2. [req EXCEPT !.uri = FALSE] \in RequestState
    BY <2>1 DEF RequestState
  <2>3. req' \in RequestState /\ left' \in 0..MaxWrites
    <3>1. left' \in 1..MaxWrites
      BY <1>4 DEF ConnectionDone, ConnectionFail, Send
    <3>2. \E page \in BOOLEAN : \/ req' = Version(req, page)
                                \/ req' = Version([req EXCEPT !.uri = FALSE], page)
      BY <1>4 DEF ConnectionDone, ConnectionFail, Send
    <3> QED
      BY <2>1, <2>2, <3>1, <3>2, VersionTyped, MaxWritesAssumption
  <2>4. UNCHANGED <<inbuf, end, net, peer, asked, togo>> /\ (state' = state \/ state' = "WRITING")
    BY <1>4 DEF ConnectionDone, ConnectionFail, Send, client
  <2> QED
    BY <2>1, <2>3, <2>4 DEF Typed
<1>5. CASE WritePart
  BY <1>5, MaxWritesAssumption DEF WritePart, client, Typed
<1>6. CASE WriteRest
  BY <1>6, MaxWritesAssumption DEF WriteRest, client, Typed
<1>7. CASE SendDone
  <2>1. state # "freed"
    BY <1>7 DEF SendDone, WatchInv, Watched
  <2>2. NewRequest \in RequestState
    BY DEF NewRequest, RequestState
  <2>3. UNCHANGED client
    BY <1>7 DEF SendDone
  <2>4. CASE \E why \in {"served", "memory"} : Free(why)
    BY <2>3, <2>4, MaxWritesAssumption DEF Free, Typed, client
  <2>5. CASE req' = NewRequest /\ state' = "READING_FIRSTLINE" /\ UNCHANGED <<inbuf, left, end>>
    BY <2>2, <2>3, <2>5 DEF Typed, client, Reading
  <2> QED
    BY <1>7, <2>4, <2>5 DEF SendDone
<1>8. CASE EventFails
  <2>1. UNCHANGED client /\ (Free("timeout") \/ Free("error"))
    BY <1>8 DEF EventFails
  <2> QED
    <3>1. /\ state' = "freed" /\ inbuf' = <<>> /\ req' = NoRequest /\ left' = 0
          /\ end' \in {"timeout", "error"} /\ UNCHANGED <<net, peer, asked, togo>>
      BY <2>1 DEF Free, client
    <3>2. left' \in 0..MaxWrites /\ inbuf' \in Seq(Token(Len(asked)))
      BY <3>1, MaxWritesAssumption
    <3> QED
      BY <3>1, <3>2 DEF Typed
<1>9. CASE \E r \in Requests : Ask(r)
  <2>1. PICK r \in Requests : Ask(r)
    BY <1>9
  <2>2. /\ asked' = Append(asked, r) /\ Len(asked) < MaxReqs
        /\ togo' = Tokens(r, Len(asked) + 1)
        /\ UNCHANGED <<net, peer, state, inbuf, req, left, end>>
    BY <2>1 DEF Ask, server
  <2>3. /\ asked' \in Seq(Requests) /\ Len(asked') = Len(asked) + 1 /\ Len(asked') <= MaxReqs
        /\ Len(asked') \in Nat
    BY <1>a, <2>2, MaxReqsAssumption DEF Typed
  <2>4. togo' \in Seq(Token(Len(asked')))
    BY <1>a, <2>2, <2>3, TokensType, RequestsAssumption
  <2>5. inbuf' \in Seq(Token(Len(asked'))) /\ net' \in Seq(Token(Len(asked')))
    BY <1>a, <2>2, <2>3, TokensKept DEF Typed
  <2> QED
    BY <2>2, <2>3, <2>4, <2>5 DEF Typed
<1>10. CASE Transmit
  <2>1. /\ togo # <<>> /\ net' = Append(net, Head(togo)) /\ togo' = Tail(togo)
        /\ UNCHANGED <<peer, asked, state, inbuf, req, left, end>>
    BY <1>10 DEF Transmit, server
  <2>2. net' \in Seq(Token(Len(asked))) /\ togo' \in Seq(Token(Len(asked)))
    BY <2>1 DEF Typed
  <2> QED
    BY <2>1, <2>2 DEF Typed
<1>11. CASE Hangup
  BY <1>11 DEF Hangup, server, Typed
<1>12. CASE UNCHANGED vars
  BY <1>12 DEF vars, client, Typed
<1> QED
  BY <1>1, <1>2, <1>3, <1>4, <1>5, <1>6, <1>7, <1>8, <1>9, <1>10, <1>11, <1>12 DEF Next, Callback

Labels == /\ pc \in {"loop", "firstline", "header", "body", "trailer", "done", "fail", "sent",
                     "exit"}
          /\ ev \in {"none", "read", "write"}

\* A step goes on at one of the places of a callback.
LEMMA LabelsStep == Labels /\ [Next]_vars => Labels'
<1> SUFFICES ASSUME Labels, [Next]_vars PROVE Labels'
  OBVIOUS
<1> USE DEF Labels
<1>1. CASE ReadEof \/ ReadData
  BY <1>1 DEF ReadEof, ReadData
<1>2. CASE ReadFirstline \/ ReadPlainBody \/ ReadTrailer
  BY <1>2 DEF ReadFirstline, ReadPlainBody, ReadTrailer, WaitForMore, Goto
<1>3. CASE ReadHeader
  BY <1>3 DEF ReadHeader, GetBody, WaitForMore, Goto
<1>4. CASE ReadChunk
  BY <1>4 DEF ReadChunk, WaitForMore, Goto
<1>5. CASE ConnectionDone \/ ConnectionFail
  BY <1>5 DEF ConnectionDone, ConnectionFail, Send
<1>6. CASE WritePart \/ WriteRest
  BY <1>6 DEF WritePart, WriteRest
<1>7. CASE SendDone \/ EventFails
  BY <1>7 DEF SendDone, EventFails, Free
<1>8. CASE (\E r \in Requests : Ask(r)) \/ Transmit \/ Hangup \/ UNCHANGED vars
  BY <1>8 DEF Ask, Transmit, Hangup, server, vars
<1> QED
  BY <1>1, <1>2, <1>3, <1>4, <1>5, <1>6, <1>7, <1>8 DEF Next, Callback

\* The connection and the client's stream are typed in every reachable state.
LEMMA AlwaysTyped == Spec => [](WatchInv /\ Typed)
BY WatchInit, WatchNext, TypedInit, TypedStep, PTL DEF Spec

\* Every field of the connection has its type, for all requests, in any number and
\* any pieces; in particular the tokens that are parsed belong to requests that the
\* client has sent, and a body never has a negative length other than the -1 that
\* stands for one without end.
THEOREM ConnTyped == Spec => []TypeOK
<1>1. Init => Labels
  BY DEF Init, Labels
<1>2. Typed /\ Labels => TypeOK
  <2> SUFFICES ASSUME Typed, Labels PROVE TypeOK
    OBVIOUS
  <2>1. Token(MaxReqs) = TokenType
    BY DEF Token, TokenType, KindSet
  <2>2. Len(asked) \in Nat /\ Len(asked) <= MaxReqs /\ MaxReqs \in Nat
    BY MaxReqsAssumption DEF Typed
  <2>3. inbuf \in Seq(TokenType) /\ net \in Seq(TokenType) /\ togo \in Seq(TokenType)
    BY <2>1, <2>2, TokensKept DEF Typed
  <2>4. req # NoRequest => req.minor \in {0, 1} /\ req.ntoread \in -1..2
    BY DEF Typed, RequestState
  <2> QED
    BY <2>3, <2>4 DEF Typed, Labels, TypeOK
<1> QED
  BY <1>1, <1>2, AlwaysTyped, LabelsStep, PTL DEF Spec

-----------------------------------------------------------------------------
(***************************************************************************)
(* What comes after a reply.                                               *)
(***************************************************************************)

ReplyType == [id : Nat, code : {200, 400, 404}, minor : {0, 1}, length : BOOLEAN,
              conn : {"none", "close", "keep"}]

\* The reply in the output buffer was made for the request; it is the callback's own
\* only when the request had a version.
Made == \E page \in BOOLEAN, code \in {200, 400, 404} :
          reply = MakeHeader(req, code, page) /\ (~page => req.major = 1)

LastReply == replies[Len(replies)]

\* After the last reply to r's request the client knows of the close.
Told(r) == \/ r.conn = "close"
           \/ r.id \in 1..Len(asked) /\ asked[r.id].proxy
           \/ r.minor = 0 /\ r.conn # "keep"

\* The request knows whose it is; the reply that is being written is its reply, and
\* the last one written has decided what follows.
CloseInv ==
  /\ state = "READING_FIRSTLINE" => ~req.proxy
  /\ state # "freed" => /\ req.uri => req.major = 1
                        /\ req.proxy => req.id \in 1..Len(asked) /\ asked[req.id].proxy
  /\ ev = "write" \/ pc = "sent" => Made
  /\ replies \in Seq(ReplyType)
  /\ pc = "sent" => replies # <<>> /\ LastReply = reply
  /\ state \in Reading /\ req.id = 0 /\ pc # "sent" /\ replies # <<>>
       => LastReply.length /\ LastReply.conn # "close"
  /\ end = "served" => state = "freed" /\ (replies # <<>> => Told(LastReply))

\* A reply that is made for a request, by the cases of evhttp_make_header_response().
LEMMA HeaderIs ==
  ASSUME NEW q \in RequestState, NEW code \in {200, 400, 404}, NEW page \in BOOLEAN
  PROVE  /\ MakeHeader(q, code, page) \in ReplyType
         /\ MakeHeader(q, code, page).id = q.id
         /\ MakeHeader(q, code, page).minor = q.minor
         /\ MakeHeader(q, code, page).length = (q.major = 1 /\ (q.minor = 1 \/ q.conn = "keep"))
         /\ MakeHeader(q, code, page).conn
              = IF IsClose(q.proxy, q.conn) THEN IF q.proxy THEN "none" ELSE "close"
                ELSE IF page THEN "close"
                ELSE IF q.minor = 0 /\ q.conn = "keep" THEN "keep" ELSE "none"
<1>1. q.id \in Nat /\ q.minor \in {0, 1} /\ q.proxy \in BOOLEAN
  BY DEF RequestState
<1> QED
  BY <1>1 DEF MakeHeader, ReplyType, IsKeepalive

\* evhttp_send_done() keeps a connection only after a reply with a length and
\* without a close.
LEMMA KeptReply ==
  ASSUME NEW q \in RequestState, NEW code \in {200, 400, 404}, NEW page \in BOOLEAN,
         ~page => q.major = 1, ~NeedClose(q, MakeHeader(q, code, page))
  PROVE  MakeHeader(q, code, page).length /\ MakeHeader(q, code, page).conn # "close"
<1> DEFINE r == MakeHeader(q, code, page)
<1>1. q.minor \in {0, 1} /\ q.proxy \in BOOLEAN
  BY DEF RequestState
<1>2. /\ r.length = (q.major = 1 /\ (q.minor = 1 \/ q.conn = "keep"))
      /\ r.conn = IF IsClose(q.proxy, q.conn) THEN IF q.proxy THEN "none" ELSE "close"
                  ELSE IF page THEN "close"
                  ELSE IF q.minor = 0 /\ q.conn = "keep" THEN "keep" ELSE "none"
  BY HeaderIs
<1> HIDE DEF r
<1>3. ~(q.minor = 0 /\ q.conn # "keep") /\ ~IsClose(q.proxy, q.conn) /\ ~IsClose(q.proxy, r.conn)
  BY DEF NeedClose, IsKeepalive, r
<1>4. ~page /\ q.major = 1 /\ r.conn # "close"
  BY <1>2, <1>3 DEF IsClose
<1>5. r.length
  BY <1>1, <1>2, <1>3, <1>4
<1> QED
  BY <1>4, <1>5 DEF r

\* When it does not keep it, the client was told or has a version that implies it,
\* or is a client of a proxy.
LEMMA ClosedReply ==
  ASSUME NEW q \in RequestState, NEW code \in {200, 400, 404}, NEW page \in BOOLEAN,
         q.proxy => q.id \in 1..Len(asked) /\ asked[q.id].proxy,
         NeedClose(q, MakeHeader(q, code, page))
  PROVE  Told(MakeHeader(q, code, page))
<1> DEFINE r == MakeHeader(q, code, page)
<1>1. /\ r.id = q.id /\ r.minor = q.minor
      /\ r.conn = IF IsClose(q.proxy, q.conn) THEN IF q.proxy THEN "none" ELSE "close"
                  ELSE IF page THEN "close"
                  ELSE IF q.minor = 0 /\ q.conn = "keep" THEN "keep" ELSE "none"
  BY HeaderIs
<1> HIDE DEF r
<1>2. \/ q.minor = 0 /\ q.conn # "keep"
      \/ IsClose(q.proxy, q.conn) \/ IsClose(q.proxy, r.conn)
  BY DEF NeedClose, IsKeepalive, r
<1>3. CASE q.proxy
  BY <1>1, <1>3 DEF Told, r
<1>4. CASE ~q.proxy /\ q.minor = 0 /\ q.conn # "keep"
  BY <1>1, <1>4 DEF Told, r
<1>5. CASE ~q.proxy /\ (IsClose(q.proxy, q.conn) \/ IsClose(q.proxy, r.conn))
  <2>1. r.conn = "close"
    BY <1>1, <1>5 DEF IsClose
  <2> QED
    BY <2>1 DEF Told, r
<1> QED
  BY <1>2, <1>3, <1>4, <1>5

\* Parsing the headers and the body leaves the request line alone.
LEMMA ReadSame ==
  ASSUME WatchInv, Typed, ReadHeader \/ ReadPlainBody \/ ReadChunk \/ ReadTrailer
  PROVE  /\ req'.id = req.id /\ req'.proxy = req.proxy /\ req'.uri = req.uri
         /\ req'.major = req.major /\ req'.post = req.post
         /\ state \in Reading \ {"READING_FIRSTLINE"}
         /\ state' \in Reading \ {"READING_FIRSTLINE"}
         /\ ev' # "write" /\ pc' # "sent"
         /\ UNCHANGED <<reply, end, asked, replies>>
<1>1. req \in RequestState /\ state # "freed"
  BY DEF Typed, WatchInv, Watched, ReadHeader, ReadPlainBody, ReadChunk, ReadTrailer
<1>2. /\ state \in Reading \ {"READING_FIRSTLINE"} /\ state' \in Reading \ {"READING_FIRSTLINE"}
      /\ ev' # "write" /\ pc' # "sent" /\ UNCHANGED <<reply, end, asked, replies>>
  <2>1. ev = "none"
    BY DEF WatchInv, Watched, ReadHeader, ReadPlainBody, ReadChunk, ReadTrailer
  <2> QED
    BY <2>1 DEF WatchInv, Places, Reading, ReadHeader, GetBody, ReadPlainBody, ReadChunk,
                ReadTrailer, WaitForMore, Goto, client
<1>3. ASSUME NEW q \in RequestState, HasLine, Eat(q)
      PROVE  /\ req'.id = q.id /\ req'.proxy = q.proxy /\ req'.uri = q.uri
             /\ req'.major = q.major /\ req'.post = q.post
  BY <1>3 DEF Eat, RequestState
<1>4. ASSUME NEW k, NEW m, Take(k, m)
      PROVE  /\ req'.id = req.id /\ req'.proxy = req.proxy /\ req'.uri = req.uri
             /\ req'.major = req.major /\ req'.post = req.post
  BY <1>1, <1>4 DEF Take, RequestState
<1>5. CASE ReadTrailer \/ ReadPlainBody
  BY <1>1, <1>2, <1>3, <1>4, <1>5 DEF ReadTrailer, ReadPlainBody
<1>6. ASSUME NEW b \in -1..2,
             HasLine, \/ Eat([req EXCEPT !.chunked = TRUE, !.ntoread = -1])
                      \/ Eat([req EXCEPT !.ntoread = b])
      PROVE  /\ req'.id = req.id /\ req'.proxy = req.proxy /\ req'.uri = req.uri
             /\ req'.major = req.major /\ req'.post = req.post
  BY <1>1, <1>6 DEF Eat, RequestState
<1>7. ASSUME HasLine, Eat(ParseHeaders(Line))
      PROVE  /\ req'.id = req.id /\ req'.proxy = req.proxy /\ req'.uri = req.uri
             /\ req'.major = req.major /\ req'.post = req.post
  BY <1>1, <1>7 DEF Eat, ParseHeaders, RequestState
<1>8. req.len \in -1..2 /\ 0 \in -1..2 /\ -1 \in -1..2
  BY <1>1 DEF RequestState
<1>9. CASE ReadHeader
  BY <1>1, <1>2, <1>3, <1>6, <1>7, <1>8, <1>9 DEF ReadHeader, GetBody
<1>10. CASE ReadChunk
  BY <1>1, <1>2, <1>3, <1>4, <1>6, <1>8, <1>10 DEF ReadChunk
<1> QED
  BY <1>5, <1>9, <1>10

\* The request line.
LEMMA FirstlineIs ==
  ASSUME WatchInv, Typed, ReadFirstline
  PROVE  /\ state = "READING_FIRSTLINE" /\ ev' # "write" /\ pc' # "sent"
         /\ UNCHANGED <<reply, end, asked, replies>>
         /\ \/ UNCHANGED <<state, req>>
            \/ /\ req'.id \in 1..Len(asked) /\ state' = "READING_HEADERS"
               /\ req'.major = 1 /\ req'.proxy = asked[req'.id].proxy
            \/ /\ req'.id \in 1..Len(asked) /\ state' = state
               /\ req'.major = req.major /\ req'.proxy = req.proxy /\ req'.uri = req.uri
<1>1. req \in RequestState /\ state = "READING_FIRSTLINE" /\ ev = "none"
  BY DEF Typed, WatchInv, Watched, Places, ReadFirstline
<1>2. ev' # "write" /\ pc' # "sent" /\ UNCHANGED <<reply, end, asked, replies>>
  BY <1>1 DEF ReadFirstline, WaitForMore, Goto, client
<1>3. ASSUME HasLine PROVE Line.id \in 1..Len(asked)
  <2>1. Line \in Token(Len(asked))
    BY <1>3, LineIs DEF Typed
  <2> QED
    BY <2>1 DEF Token
<1>4. CASE HasLine /\ Eat(ParseRequestLine(Line)) /\ state' = "READING_HEADERS"
  <2>1. /\ req'.id = Line.id /\ req'.major = 1 /\ req'.proxy = asked[Line.id].proxy
    BY <1>1, <1>4 DEF Eat, ParseRequestLine, RequestState
  <2> QED
    BY <1>1, <1>2, <1>3, <1>4, <2>1
<1>5. CASE HasLine /\ Eat([req EXCEPT !.id = Line.id]) /\ UNCHANGED state
  <2>1. /\ req'.id = Line.id /\ req'.major = req.major /\ req'.proxy = req.proxy
        /\ req'.uri = req.uri
    BY <1>1, <1>5 DEF Eat, RequestState
  <2> QED
    BY <1>1, <1>2, <1>3, <1>5, <2>1
<1> QED
  BY <1>1, <1>2, <1>4, <1>5 DEF ReadFirstline

\* Sending a reply.
LEMMA SendIs ==
  ASSUME WatchInv, Typed, ConnectionDone \/ ConnectionFail
  PROVE  /\ state # "freed" /\ UNCHANGED <<end, asked, replies>> /\ pc' = "loop"
         /\ state' = state \/ state' = "WRITING"
         /\ req'.id = req.id /\ req'.proxy = req.proxy /\ req'.conn = req.conn
         /\ req'.uri => req.uri /\ (req'.major = req.major \/ req'.major = 1)
         /\ \E page \in BOOLEAN, code \in {200, 400, 404} :
              reply' = MakeHeader(req', code, page) /\ (~page => req.uri /\ req'.major = req.major)
<1>1. req \in RequestState /\ state # "freed"
  BY DEF Typed, WatchInv, Watched, ConnectionDone, ConnectionFail
<1>2. /\ UNCHANGED <<end, asked, replies>> /\ pc' = "loop"
      /\ state' = state \/ state' = "WRITING"
  BY DEF ConnectionDone, ConnectionFail, Send, client
<1>3. ASSUME NEW q \in RequestState, NEW page \in BOOLEAN
      PROVE  /\ Version(q, page).id = q.id /\ Version(q, page).proxy = q.proxy
             /\ Version(q, page).conn = q.conn /\ Version(q, page).uri = q.uri
             /\ Version(q, page).major = q.major \/ Version(q, page).major = 1
             /\ ~page => Version(q, page) = q
  BY DEF Version, RequestState
<1> DEFINE f == [req EXCEPT !.uri = FALSE]
<1>4. /\ f \in RequestState /\ f.id = req.id /\ f.proxy = req.proxy /\ f.conn = req.conn
      /\ ~f.uri /\ f.major = req.major
  BY <1>1 DEF RequestState
<1>5. \/ req' = Version(req, FALSE) /\ reply' = MakeHeader(req', 200, FALSE) /\ req.uri
      \/ req' = Version(req, TRUE) /\ reply' = MakeHeader(req', 404, TRUE)
      \/ req' = Version(req, TRUE) /\ reply' = MakeHeader(req', 400, TRUE)
      \/ req' = Version(f, TRUE) /\ reply' = MakeHeader(req', 400, TRUE)
  BY DEF ConnectionDone, ConnectionFail, Send
<1> HIDE DEF f
<1>6. /\ req'.id = req.id /\ req'.proxy = req.proxy /\ req'.conn = req.conn
      /\ req'.uri => req.uri /\ (req'.major = req.major \/ req'.major = 1)
  BY <1>1, <1>3, <1>4, <1>5
<1>7. \E page \in BOOLEAN, code \in {200, 400, 404} :
         reply' = MakeHeader(req', code, page) /\ (~page => req.uri /\ req'.major = req.major)
  <2>1. CASE req' = Version(req, FALSE) /\ reply' = MakeHeader(req', 200, FALSE) /\ req.uri
    BY <1>1, <1>3, <2>1
  <2>2. CASE \/ reply' = MakeHeader(req', 404, TRUE) \/ reply' = MakeHeader(req', 400, TRUE)
    BY <2>2
  <2> QED
    BY <1>5, <2>1, <2>2
<1> QED
  BY <1>1, <1>2, <1>6, <1>7

\* Nothing was replied to at first.
LEMMA CloseInit == Init => CloseInv
BY DEF Init, CloseInv, NewRequest, Reading

\* Every step of the server and its client keeps their agreement.
LEMMA CloseStep == WatchInv /\ Typed /\ CloseInv /\ [Next]_vars => CloseInv'
<1> SUFFICES ASSUME WatchInv, Typed, CloseInv, [Next]_vars PROVE CloseInv'
  OBVIOUS
<1>1. CASE ReadEof \/ ReadData
  <2>1. UNCHANGED <<state, req, reply, asked, end, replies>> /\ ev' = "none" /\ pc' # "sent"
    BY <1>1 DEF ReadEof, ReadData, client
  <2>2. pc # "sent"
    BY <1>1 DEF ReadEof, ReadData
  <2> QED
    BY <2>1, <2>2 DEF CloseInv, LastReply, Told
<1>2. CASE ReadFirstline
  <2>1. state \in Reading /\ state # "freed" /\ pc # "sent"
    BY <1>2, FirstlineIs DEF Reading, ReadFirstline
  <2>2. /\ ev' # "write" /\ pc' # "sent" /\ UNCHANGED <<reply, end, asked, replies>>
        /\ state = "READING_FIRSTLINE"
    BY <1>2, FirstlineIs
  <2>3. CASE UNCHANGED <<state, req>>
    BY <2>1, <2>2, <2>3 DEF CloseInv, LastReply, Told
  <2>4. CASE /\ req'.id \in 1..Len(asked) /\ state' = "READING_HEADERS"
             /\ req'.major = 1 /\ req'.proxy = asked[req'.id].proxy
    <3>1. req'.id # 0
      BY <2>4 DEF Typed
    <3> QED
      BY <2>1, <2>2, <2>4, <3>1 DEF CloseInv, LastReply, Told, Reading
  <2>5. CASE /\ req'.id \in 1..Len(asked) /\ state' = state
             /\ req'.major = req.major /\ req'.proxy = req.proxy /\ req'.uri = req.uri
    <3>1. req'.id # 0 /\ ~req.proxy
      BY <2>2, <2>5 DEF Typed, CloseInv
    <3> QED
      BY <2>1, <2>2, <2>5, <3>1 DEF CloseInv, LastReply, Told, Reading
  <2> QED
    BY <1>2, <2>3, <2>4, <2>5, FirstlineIs
<1>3. CASE ReadHeader \/ ReadPlainBody \/ ReadChunk \/ ReadTrailer
  <2>1. pc # "sent"
    BY <1>3 DEF ReadHeader, ReadPlainBody, ReadChunk, ReadTrailer
  <2>2. /\ req'.id = req.id /\ req'.proxy = req.proxy /\ req'.uri = req.uri
        /\ req'.major = req.major
        /\ state \in Reading \ {"READING_FIRSTLINE"}
        /\ state' \in Reading \ {"READING_FIRSTLINE"}
        /\ ev' # "write" /\ pc' # "sent" /\ UNCHANGED <<reply, end, asked, replies>>
    BY <1>3, ReadSame
  <2> QED
    BY <2>1, <2>2 DEF CloseInv, LastReply, Told, Reading
<1>4. CASE ConnectionDone \/ ConnectionFail
  <2>1. /\ state # "freed" /\ UNCHANGED <<end, asked, replies>> /\ pc' = "loop"
        /\ state' = state \/ state' = "WRITING"
        /\ req'.id = req.id /\ req'.proxy = req.proxy
        /\ req'.uri => req.uri /\ (req'.major = req.major \/ req'.major = 1)
    BY <1>4, SendIs
  <2>2. PICK page \in BOOLEAN, code \in {200, 400, 404} :
          reply' = MakeHeader(req', code, page) /\ (~page => req.uri /\ req'.major = req.major)
    BY <1>4, SendIs
  <2>3. ~page => req'.major = 1
    BY <2>1, <2>2 DEF CloseInv
  <2>4. Made'
    BY <2>2, <2>3 DEF Made
  <2>5. pc # "sent"
    BY <1>4 DEF ConnectionDone, ConnectionFail
  <2> QED
    BY <2>1, <2>4, <2>5 DEF CloseInv, LastReply, Told, Reading
<1>5. CASE WritePart
  BY <1>5 DEF WritePart, client, CloseInv, LastReply, Told, Made
<1>6. CASE WriteRest
  <2>1. /\ UNCHANGED <<state, req, reply, end, asked>> /\ pc' = "sent" /\ ev' = "none"
        /\ replies' = Append(replies, reply) /\ ev = "write" /\ pc = "loop"
    BY <1>6 DEF WriteRest, client
  <2>2. state # "freed" /\ req \in RequestState /\ Made /\ replies \in Seq(ReplyType)
    BY <2>1 DEF WatchInv, Watched, Typed, CloseInv
  <2>3. reply \in ReplyType
    BY <2>2, HeaderIs DEF Made
  <2>4. /\ replies' \in Seq(ReplyType) /\ replies' # <<>> /\ LastReply' = reply
    BY <2>1, <2>2, <2>3 DEF LastReply
  <2>5. Made'
    BY <2>1, <2>2 DEF Made
  <2>6. end # "served"
    BY <2>2 DEF CloseInv
  <2> QED
    BY <2>1, <2>2, <2>4, <2>5, <2>6 DEF CloseInv
<1>7. CASE SendDone
  <2>1. /\ pc = "sent" /\ state # "freed" /\ req \in RequestState
        /\ UNCHANGED <<asked, replies>> /\ replies # <<>> /\ LastReply = reply
        /\ replies \in Seq(ReplyType) /\ LastReply' = LastReply
        /\ req.proxy => req.id \in 1..Len(asked) /\ asked[req.id].proxy
    BY <1>7 DEF SendDone, client, WatchInv, Watched, Typed, CloseInv, LastReply
  <2>2. PICK page \in BOOLEAN, code \in {200, 400, 404} :
          reply = MakeHeader(req, code, page) /\ (~page => req.major = 1)
    BY <2>1 DEF CloseInv, Made
  <2>3. CASE NeedClose(req, reply) /\ Free("served")
    <3>1. Told(reply)
      BY <2>1, <2>2, <2>3, ClosedReply
    <3>2. Told(LastReply)'
      BY <2>1, <3>1 DEF Told
    <3>3. state' = "freed" /\ ev' = "none" /\ pc' = "loop"
      BY <2>3 DEF Free
    <3> QED
      BY <2>1, <3>2, <3>3 DEF CloseInv, Reading
  <2>4. CASE Free("memory")
    <3>1. state' = "freed" /\ ev' = "none" /\ pc' = "loop" /\ end' = "memory"
      BY <2>4 DEF Free
    <3> QED
      BY <2>1, <3>1 DEF CloseInv, Reading
  <2>5. CASE /\ ~NeedClose(req, reply) /\ req' = NewRequest /\ ev' = "read"
             /\ state' = "READING_FIRSTLINE" /\ pc' = "loop" /\ UNCHANGED <<inbuf, left, end>>
    <3>1. reply.length /\ reply.conn # "close"
      BY <2>1, <2>2, <2>5, KeptReply
    <3>2. ~req'.proxy /\ ~req'.uri
      BY <2>5 DEF NewRequest
    <3>3. end # "served"
      BY <2>1 DEF CloseInv
    <3> QED
      BY <2>1, <2>5, <3>1, <3>2, <3>3 DEF CloseInv
  <2> QED
    BY <1>7, <2>3, <2>4, <2>5 DEF SendDone
<1>8. CASE EventFails
  <2>1. /\ state' = "freed" /\ ev' = "none" /\ pc' = "loop" /\ end' # "served"
        /\ UNCHANGED <<asked, replies>>
    BY <1>8 DEF EventFails, Free, client
  <2> QED
    BY <2>1 DEF CloseInv, Reading
<1>9. CASE (\E r \in Requests : Ask(r)) \/ Transmit \/ Hangup
  <2>1. UNCHANGED <<pc, state, ev, req, reply, end, replies>>
    BY <1>9 DEF Ask, Transmit, Hangup, server
  <2>2. /\ Len(asked) \in Nat /\ Len(asked') \in Nat /\ Len(asked) <= Len(asked')
        /\ \A i \in 1..Len(asked) : asked'[i] = asked[i]
    <3>1. asked' = asked \/ \E r \in Requests : asked' = Append(asked, r)
      BY <1>9 DEF Ask, Transmit, Hangup
    <3>2. PICK a \in Seq(Requests) : a = asked
      BY DEF Typed
    <3>3. CASE asked' = asked
      BY <3>2, <3>3
    <3>4. ASSUME NEW r \in Requests, asked' = Append(asked, r)
          PROVE  /\ Len(asked') = Len(a) + 1 /\ \A i \in 1..Len(a) : asked'[i] = a[i]
      BY <3>2, <3>4
    <3> QED
      BY <3>1, <3>2, <3>3, <3>4
  <2>3. \A i \in 1..Len(asked) : i \in 1..Len(asked')
    BY <2>2
  <2>4. CloseInv => /\ replies # <<>> /\ end = "served" => Told(LastReply)'
                    /\ state # "freed" /\ req.proxy => req.id \in 1..Len(asked')
                                                         /\ asked'[req.id].proxy
    BY <2>1, <2>2, <2>3 DEF CloseInv, Told, LastReply
  <2>5. Made' = Made
    BY <2>1 DEF Made
  <2> QED
    BY <2>1, <2>4, <2>5 DEF CloseInv, LastReply
<1>10. CASE UNCHANGED vars
  BY <1>10 DEF vars, client, CloseInv, LastReply, Told, Made
<1> QED
  BY <1>1, <1>2, <1>3, <1>4, <1>5, <1>6, <1>7, <1>8, <1>9, <1>10 DEF Next, Callback

\* Server and client agree on what comes after a reply, for all requests: the
\* connection is kept only after a reply that tells its length and announces no
\* close, and a close was announced or follows from the version, except to clients
\* of a proxy.
THEOREM AgreeOnClose == Spec => []CloseAgreed
<1>1. Typed /\ CloseInv => CloseAgreed
  <2> SUFFICES ASSUME Typed, CloseInv, replies # <<>>
               PROVE  LET r == replies[Len(replies)] IN
                        /\ state \in Reading /\ pc # "sent" /\ calls # <<>> /\ req.id = 0
                             => r.length /\ r.conn # "close"
                        /\ end = "served" =>
                             \/ r.conn = "close"
                             \/ r.id # 0 /\ asked[r.id].proxy
                             \/ r.minor = 0 /\ r.conn # "keep"
    BY DEF CloseAgreed
  <2>1. Len(asked) \in Nat
    BY DEF Typed
  <2> QED
    BY <2>1 DEF CloseInv, LastReply, Told
<1> QED
  BY <1>1, AlwaysTyped, CloseInit, CloseStep, PTL DEF Spec
-----------------------------------------------------------------------------
(***************************************************************************)
(* Where the lines of a request end among the tokens that it is sent as.   *)
(***************************************************************************)
Crlf(r) == r.torn # "none" /\ r.cut = "crlf"
Extra(r, x) == IF r.torn = x THEN 1 ELSE 0
FirstEnd(r) == 1 + Extra(r, "first")
HeadersEnd(r) == FirstEnd(r) + 1 + Extra(r, "headers")
HeadEnd(r) == HeadersEnd(r) + 1 + Extra(r, "end")
SizeEnd(r) == HeadEnd(r) + 1 + Extra(r, "size")
DataEnd(r) == SizeEnd(r) + r.len
ChunksEnd(r) == IF r.len = 0 THEN HeadEnd(r) ELSE DataEnd(r) + 1 + Extra(r, "end")
LastEnd(r) == ChunksEnd(r) + 1 + Extra(r, "last")

\* The line x comes after the first p tokens of sequence q.
LineIn(r, q, p, x) ==
  /\ p + 1 + Extra(r, x) <= Len(q)
  /\ q[p + 1] = IF r.torn = x /\ r.cut = "text" THEN "half" ELSE x
  /\ r.torn = x => q[p + 2] = IF r.cut = "text" THEN x ELSE "lf"
LineAt(r, p, x) == LineIn(r, Pieces(r), p, x)

\* A line that is sent in two pieces is one token longer.
LEMMA ExtraIs == ASSUME NEW r, NEW x PROVE Extra(r, x) \in 0..1
BY DEF Extra

\* A line by itself.
LEMMA InLineShape ==
  ASSUME NEW r, NEW x \in KindSet
  PROVE  /\ InLine(r, x) \in Seq(KindSet) /\ Len(InLine(r, x)) = 1 + Extra(r, x)
         /\ LineIn(r, InLine(r, x), 0, x)
<1>1. "half" \in KindSet /\ "lf" \in KindSet
  BY DEF KindSet
<1>2. CASE r.torn # x
  BY <1>2 DEF InLine, Extra, LineIn
<1>3. CASE r.torn = x /\ r.cut = "text"
  BY <1>1, <1>3 DEF InLine, Extra, LineIn
<1>4. CASE r.torn = x /\ r.cut # "text"
  BY <1>1, <1>4 DEF InLine, Extra, LineIn
<1> QED
  BY <1>2, <1>3, <1>4

\* A line keeps its place when something follows, and moves when something precedes.
LEMMA LineMoves ==
  ASSUME NEW K, NEW r, NEW x, NEW q \in Seq(K), NEW p \in Nat, LineIn(r, q, p, x), NEW t \in Seq(K)
  PROVE  LineIn(r, q \o t, p, x) /\ LineIn(r, t \o q, Len(t) + p, x)
<1>1. Extra(r, x) \in 0..1 /\ (r.torn = x => Extra(r, x) = 1)
  BY DEF Extra
<1>2. /\ Len(q) \in Nat /\ Len(t) \in Nat /\ Len(q \o t) = Len(q) + Len(t) /\ Len(t \o q) = Len(t) + Len(q)
      /\ \A i \in 1..Len(q) : (q \o t)[i] = q[i] /\ (t \o q)[Len(t) + i] = q[i]
  OBVIOUS
<1>3. p + 1 \in 1..Len(q) /\ (r.torn = x => p + 2 \in 1..Len(q))
  BY <1>1, <1>2 DEF LineIn
<1>4. /\ (q \o t)[p + 1] = q[p + 1] /\ (t \o q)[Len(t) + (p + 1)] = q[p + 1]
      /\ r.torn = x => (q \o t)[p + 2] = q[p + 2] /\ (t \o q)[Len(t) + (p + 2)] = q[p + 2]
  BY <1>2, <1>3
<1>5. Len(t) + (p + 1) = (Len(t) + p) + 1 /\ Len(t) + (p + 2) = (Len(t) + p) + 2
  BY <1>2
<1>6. LineIn(r, q \o t, p, x)
  BY <1>1, <1>2, <1>4 DEF LineIn
<1>7. LineIn(r, t \o q, Len(t) + p, x)
  BY <1>1, <1>2, <1>4, <1>5 DEF LineIn
<1> QED
  BY <1>6, <1>7

\* What concatenation gives.
LEMMA Cat ==
  ASSUME NEW K, NEW q \in Seq(K), NEW t \in Seq(K)
  PROVE  /\ q \o t \in Seq(K) /\ Len(q) \in Nat /\ Len(t) \in Nat /\ Len(q \o t) = Len(q) + Len(t)
         /\ \A i \in 1..Len(q) : (q \o t)[i] = q[i]
         /\ \A i \in 1..Len(t) : (q \o t)[Len(q) + i] = t[i]
OBVIOUS

\* The head of a request and what follows it.
LEMMA HeadShape ==
  ASSUME NEW r \in RequestType, r.line # "bad", r.header # "bad"
  PROVE  /\ LineAt(r, 0, "first") /\ LineAt(r, FirstEnd(r), "headers") /\ LineAt(r, HeadersEnd(r), "end")
         /\ Len(Pieces(r)) = HeadEnd(r) + Len(Body(r))
         /\ \A p \in Nat, x \in KindSet : LineIn(r, Body(r), p, x) => LineAt(r, HeadEnd(r) + p, x)
         /\ \A j \in 1..Len(Body(r)) : Pieces(r)[HeadEnd(r) + j] = Body(r)[j]
<1>1. {"first", "headers", "end"} \subseteq KindSet
  BY DEF KindSet
<1>2. PICK a \in Seq(KindSet) : a = InLine(r, "first") /\ Len(a) = FirstEnd(r) /\ LineIn(r, a, 0, "first")
  BY <1>1, InLineShape DEF FirstEnd
<1>3. PICK b \in Seq(KindSet) : /\ b = InLine(r, "headers") /\ Len(b) = 1 + Extra(r, "headers")
                                /\ LineIn(r, b, 0, "headers")
  BY <1>1, InLineShape
<1>4. PICK c \in Seq(KindSet) : /\ c = InLine(r, "end") /\ Len(c) = 1 + Extra(r, "end")
                                /\ LineIn(r, c, 0, "end")
  BY <1>1, InLineShape
<1>5. PICK d \in Seq(KindSet) : d = Body(r)
  BY PiecesKinds
<1>6. PICK bc \in Seq(KindSet) : bc = b \o c
  BY Cat
<1>7. PICK y \in Seq(KindSet) : y = bc \o d
  BY Cat
<1>8. Pieces(r) = a \o y
  BY <1>2, <1>3, <1>4, <1>5, <1>6, <1>7 DEF Pieces
<1>9. /\ Len(bc) = Len(b) + Len(c) /\ Len(y) = Len(bc) + Len(d) /\ Len(a \o y) = Len(a) + Len(y)
      /\ Len(a) \in Nat /\ Len(b) \in Nat /\ Len(c) \in Nat /\ Len(d) \in Nat /\ Len(bc) \in Nat
      /\ \A i \in 1..Len(d) : y[Len(bc) + i] = d[i]
      /\ \A i \in 1..Len(y) : (a \o y)[Len(a) + i] = y[i]
  BY <1>6, <1>7, Cat
<1>10. /\ Extra(r, "first") \in 0..1 /\ Extra(r, "headers") \in 0..1 /\ Extra(r, "end") \in 0..1
  BY ExtraIs
<1>11. HeadersEnd(r) = Len(a) + Len(b) /\ HeadEnd(r) = Len(a) + Len(bc)
  <2>1. PICK la \in Nat, lb \in Nat, lc \in Nat : la = Len(a) /\ lb = Len(b) /\ lc = Len(c)
    BY <1>9
  <2>2. PICK x \in 0..1, z \in 0..1 : x = Extra(r, "headers") /\ z = Extra(r, "end")
    BY <1>10
  <2>3. FirstEnd(r) = la /\ lb = 1 + x /\ lc = 1 + z
    BY <1>2, <1>3, <1>4, <2>1, <2>2
  <2>4. HeadersEnd(r) = la + 1 + x
    BY <2>2, <2>3 DEF HeadersEnd
  <2>5. HeadEnd(r) = la + 1 + x + 1 + z
    BY <2>2, <2>4 DEF HeadEnd
  <2> QED
    BY <1>9, <2>1, <2>3, <2>4, <2>5
<1>12. LineAt(r, 0, "first")
  BY <1>2, <1>8, LineMoves DEF LineAt
<1>13. LineAt(r, FirstEnd(r), "headers")
  <2>1. LineIn(r, bc, 0, "headers")
    BY <1>3, <1>6, LineMoves
  <2>2. LineIn(r, y, 0, "headers")
    BY <1>7, <2>1, LineMoves
  <2>3. LineIn(r, a \o y, Len(a) + 0, "headers")
    BY <2>2, LineMoves
  <2> QED
    BY <1>2, <1>8, <1>9, <2>3 DEF LineAt
<1>14. LineAt(r, HeadersEnd(r), "end")
  <2>1. LineIn(r, bc, Len(b) + 0, "end")
    BY <1>4, <1>6, LineMoves
  <2>2. Len(b) + 0 = Len(b)
    BY <1>9
  <2>3. LineIn(r, y, Len(b), "end")
    BY <1>7, <1>9, <2>1, <2>2, LineMoves
  <2>4. LineIn(r, a \o y, Len(a) + Len(b), "end")
    BY <1>9, <2>3, LineMoves
  <2> QED
    BY <1>8, <1>11, <2>4 DEF LineAt
<1>15. ASSUME NEW p \in Nat, NEW x \in KindSet, LineIn(r, d, p, x)
       PROVE  LineAt(r, HeadEnd(r) + p, x)
  <2>1. LineIn(r, y, Len(bc) + p, x)
    BY <1>7, <1>15, LineMoves
  <2>2. Len(bc) + p \in Nat
    BY <1>9
  <2>3. LineIn(r, a \o y, Len(a) + (Len(bc) + p), x)
    BY <2>1, <2>2, LineMoves
  <2>4. Len(a) + (Len(bc) + p) = HeadEnd(r) + p
    BY <1>9, <1>11
  <2> QED
    BY <1>8, <2>3, <2>4 DEF LineAt
<1>16. ASSUME NEW j \in 1..Len(d) PROVE Pieces(r)[HeadEnd(r) + j] = d[j]
  <2>1. y[Len(bc) + j] = d[j] /\ Len(bc) + j \in 1..Len(y)
    BY <1>9
  <2>2. (a \o y)[Len(a) + (Len(bc) + j)] = d[j]
    BY <1>9, <2>1
  <2>3. Len(a) + (Len(bc) + j) = HeadEnd(r) + j
    BY <1>9, <1>11
  <2> QED
    BY <1>8, <2>2, <2>3
<1>17. Len(Pieces(r)) = HeadEnd(r) + Len(d)
  BY <1>8, <1>9, <1>11
<1> QED
  BY <1>5, <1>12, <1>13, <1>14, <1>15, <1>16, <1>17

\* The numbers are numbers.
LEMMA Ends ==
  ASSUME NEW r \in RequestType
  PROVE  /\ r.len \in 0..2 /\ FirstEnd(r) \in Nat /\ HeadersEnd(r) \in Nat /\ HeadEnd(r) \in Nat
         /\ SizeEnd(r) \in Nat /\ DataEnd(r) \in Nat /\ ChunksEnd(r) \in Nat /\ LastEnd(r) \in Nat
         /\ \A x \in KindSet : Extra(r, x) \in 0..1
<1>1. \A x \in KindSet : Extra(r, x) \in 0..1
  BY ExtraIs
<1>2. r.len \in 0..2
  BY DEF RequestType
<1>3. PICK f \in 0..1, h \in 0..1, e \in 0..1, s \in 0..1, l \in 0..1 :
        /\ f = Extra(r, "first") /\ h = Extra(r, "headers") /\ e = Extra(r, "end")
        /\ s = Extra(r, "size") /\ l = Extra(r, "last")
  BY ExtraIs
<1>4. FirstEnd(r) = 1 + f
  BY <1>3 DEF FirstEnd
<1>5. HeadersEnd(r) = 1 + f + 1 + h
  BY <1>3, <1>4 DEF HeadersEnd
<1>6. HeadEnd(r) = 1 + f + 1 + h + 1 + e
  BY <1>3, <1>5 DEF HeadEnd
<1>7. SizeEnd(r) = 1 + f + 1 + h + 1 + e + 1 + s
  BY <1>3, <1>6 DEF SizeEnd
<1>8. DataEnd(r) = 1 + f + 1 + h + 1 + e + 1 + s + r.len
  BY <1>7 DEF DataEnd
<1>9. ChunksEnd(r) \in Nat
  <2>1. PICK n \in Nat : n = DataEnd(r)
    BY <1>2, <1>8
  <2>2. PICK m \in Nat : m = HeadEnd(r)
    BY <1>6
  <2> QED
    BY <1>3, <2>1, <2>2 DEF ChunksEnd
<1>10. LastEnd(r) \in Nat
  BY <1>3, <1>9 DEF LastEnd
<1> QED
  BY <1>1, <1>2, <1>4, <1>5, <1>6, <1>7, <1>8, <1>9, <1>10

\* A chunk by itself.
LEMMA ChunkShape ==
  ASSUME NEW r \in RequestType, r.len # 0
  PROVE  /\ Chunk(r) \in Seq(KindSet) /\ LineIn(r, Chunk(r), 0, "size")
         /\ Len(Chunk(r)) = (1 + Extra(r, "size")) + r.len + (1 + Extra(r, "end"))
         /\ \A j \in 1..r.len : Chunk(r)[(1 + Extra(r, "size")) + j] = "byte"
         /\ LineIn(r, Chunk(r), (1 + Extra(r, "size")) + r.len, "end")
<1>1. {"size", "end", "byte"} \subseteq KindSet
  BY DEF KindSet
<1>2. PICK a \in Seq(KindSet) : a = InLine(r, "size") /\ Len(a) = 1 + Extra(r, "size") /\ LineIn(r, a, 0, "size")
  BY <1>1, InLineShape
<1>3. PICK b \in Seq(KindSet) : b = Bytes(r.len)
  BY PiecesKinds
<1>4. PICK c \in Seq(KindSet) : c = InLine(r, "end") /\ Len(c) = 1 + Extra(r, "end") /\ LineIn(r, c, 0, "end")
  BY <1>1, InLineShape
<1>5. PICK ab \in Seq(KindSet) : ab = a \o b
  BY Cat
<1>6. Chunk(r) = ab \o c
  BY <1>2, <1>3, <1>4, <1>5 DEF Chunk
<1>7. r.len \in Nat
  BY DEF RequestType
<1>8. Len(b) = r.len /\ \A j \in 1..r.len : b[j] = "byte"
  BY <1>3, <1>7 DEF Bytes
<1>9. /\ Len(ab) = Len(a) + r.len /\ Len(ab \o c) = Len(ab) + Len(c) /\ ab \o c \in Seq(KindSet)
      /\ Len(a) \in Nat /\ Len(ab) \in Nat
      /\ \A i \in 1..r.len : ab[Len(a) + i] = b[i]
      /\ \A i \in 1..Len(ab) : (ab \o c)[i] = ab[i]
  BY <1>5, <1>8, Cat
<1>10. LineIn(r, Chunk(r), 0, "size")
  <2>1. LineIn(r, ab, 0, "size")
    BY <1>2, <1>5, LineMoves
  <2> QED
    BY <1>6, <2>1, LineMoves
<1>11. ASSUME NEW j \in 1..r.len PROVE Chunk(r)[Len(a) + j] = "byte"
  <2>1. Len(a) + j \in 1..Len(ab)
    BY <1>7, <1>9
  <2> QED
    BY <1>6, <1>8, <1>9, <2>1
<1>12. LineIn(r, Chunk(r), Len(ab), "end")
  <2>1. LineIn(r, ab \o c, Len(ab) + 0, "end")
    BY <1>4, LineMoves
  <2> QED
    BY <1>6, <1>9, <2>1
<1> QED
  BY <1>2, <1>4, <1>6, <1>9, <1>10, <1>11, <1>12

\* A chunked request.
LEMMA ChunkedShape ==
  ASSUME NEW r \in RequestType, r.line = "post", r.header # "bad", r.body = "chunked"
  PROVE  /\ r.len # 0 => /\ LineAt(r, HeadEnd(r), "size") /\ LineAt(r, DataEnd(r), "end")
                         /\ \A j \in 1..r.len : Pieces(r)[SizeEnd(r) + j] = "byte"
         /\ LineAt(r, ChunksEnd(r), "last") /\ LineAt(r, LastEnd(r), "end")
         /\ Len(Pieces(r)) = LastEnd(r) + 1 + Extra(r, "end")
<1>1. {"size", "end", "byte", "last"} \subseteq KindSet
  BY DEF KindSet
<1>2. PICK k \in Seq(KindSet) : k = Chunk(r)
  BY PiecesKinds
<1>3. PICK b \in Seq(KindSet) : b = InLine(r, "last") /\ Len(b) = 1 + Extra(r, "last") /\ LineIn(r, b, 0, "last")
  BY <1>1, InLineShape
<1>4. PICK c \in Seq(KindSet) : c = InLine(r, "end") /\ Len(c) = 1 + Extra(r, "end") /\ LineIn(r, c, 0, "end")
  BY <1>1, InLineShape
<1>5. PICK kb \in Seq(KindSet) : kb = k \o b
  BY Cat
<1>6. Body(r) = kb \o c
  BY <1>2, <1>3, <1>4, <1>5 DEF Body
<1>7. /\ Len(kb) = Len(k) + Len(b) /\ Len(kb \o c) = Len(kb) + Len(c)
      /\ Len(k) \in Nat /\ Len(kb) \in Nat /\ Len(b) \in Nat /\ Len(c) \in Nat
      /\ \A i \in 1..Len(k) : kb[i] = k[i]
      /\ \A i \in 1..Len(kb) : (kb \o c)[i] = kb[i]
  BY <1>5, Cat
<1>8. PICK e \in 0..1, s \in 0..1, l \in 0..1, h \in Nat, n \in 0..2 :
        /\ e = Extra(r, "end") /\ s = Extra(r, "size") /\ l = Extra(r, "last") /\ h = HeadEnd(r)
        /\ n = r.len
  BY <1>1, Ends
<1>9. Len(b) = 1 + l /\ Len(c) = 1 + e
  BY <1>3, <1>4, <1>8
<1>10. SizeEnd(r) = h + (1 + s)
  BY <1>8 DEF SizeEnd
<1>11. DataEnd(r) = h + ((1 + s) + n)
  <2>1. DataEnd(r) = (h + (1 + s)) + n
    BY <1>8, <1>10 DEF DataEnd
  <2> QED
    BY <2>1
<1>12. ChunksEnd(r) = h + Len(k)
  <2>1. CASE n = 0
    <3>1. k = <<>>
      BY <1>2, <1>8, <2>1 DEF Chunk
    <3> QED
      BY <1>8, <2>1, <3>1 DEF ChunksEnd
  <2>2. CASE n # 0
    <3>1. Len(k) = (1 + s) + n + (1 + e)
      BY <1>2, <1>8, <2>2, ChunkShape
    <3>2. ChunksEnd(r) = DataEnd(r) + 1 + e
      BY <1>8, <2>2 DEF ChunksEnd
    <3>3. PICK lk \in Nat : lk = Len(k)
      BY <1>7
    <3>4. lk = (1 + s) + n + (1 + e) /\ ChunksEnd(r) = (h + ((1 + s) + n)) + 1 + e
      BY <1>11, <3>1, <3>2, <3>3
    <3>5. ChunksEnd(r) = h + lk
      BY <3>4
    <3> QED
      BY <3>3, <3>5
  <2> QED
    BY <2>1, <2>2
<1>13. LastEnd(r) = h + Len(kb)
  <2>1. PICK lk \in Nat, lb \in Nat, lkb \in Nat : lk = Len(k) /\ lb = Len(b) /\ lkb = Len(kb)
    BY <1>7
  <2>2. lkb = lk + lb /\ lb = 1 + l
    BY <1>7, <1>9, <2>1
  <2>3. LastEnd(r) = (h + lk) + 1 + l
    BY <1>8, <1>12, <2>1 DEF LastEnd
  <2>4. LastEnd(r) = h + lkb
    BY <2>2, <2>3
  <2> QED
    BY <2>1, <2>4
<1>14. ASSUME NEW p \in Nat, NEW x \in KindSet, LineIn(r, kb \o c, p, x) PROVE LineAt(r, h + p, x)
  BY <1>6, <1>8, <1>14, HeadShape
<1>15. LineAt(r, ChunksEnd(r), "last")
  <2>1. LineIn(r, kb, Len(k) + 0, "last")
    BY <1>3, <1>5, LineMoves
  <2>2. Len(k) + 0 = Len(k)
    BY <1>7
  <2>3. LineIn(r, kb \o c, Len(k), "last")
    BY <1>7, <2>1, <2>2, LineMoves
  <2> QED
    BY <1>1, <1>7, <1>12, <1>14, <2>3
<1>16. LineAt(r, LastEnd(r), "end")
  <2>1. LineIn(r, kb \o c, Len(kb) + 0, "end")
    BY <1>4, LineMoves
  <2>2. Len(kb) + 0 = Len(kb)
    BY <1>7
  <2> QED
    BY <1>1, <1>7, <1>13, <1>14, <2>1, <2>2
<1>17. Len(Pieces(r)) = LastEnd(r) + 1 + Extra(r, "end")
  <2>1. Len(Pieces(r)) = h + Len(kb \o c)
    BY <1>6, <1>8, HeadShape
  <2>2. PICK lc \in Nat, lkb \in Nat : lc = Len(c) /\ lkb = Len(kb)
    BY <1>7
  <2>3. Len(Pieces(r)) = h + (lkb + lc) /\ lc = 1 + e /\ LastEnd(r) = h + lkb
    BY <1>7, <1>9, <1>13, <2>1, <2>2
  <2>4. Len(Pieces(r)) = LastEnd(r) + 1 + e
    BY <2>3
  <2> QED
    BY <1>8, <2>4
<1>18. ASSUME n # 0
       PROVE  /\ LineAt(r, HeadEnd(r), "size") /\ LineAt(r, DataEnd(r), "end")
              /\ \A j \in 1..n : Pieces(r)[SizeEnd(r) + j] = "byte"
  <2>1. /\ LineIn(r, k, 0, "size") /\ Len(k) = (1 + s) + n + (1 + e)
        /\ \A j \in 1..n : k[(1 + s) + j] = "byte"
        /\ LineIn(r, k, (1 + s) + n, "end")
    BY <1>2, <1>8, <1>18, ChunkShape
  <2>2. LineAt(r, HeadEnd(r), "size")
    <3>1. LineIn(r, kb, 0, "size")
      BY <1>5, <2>1, LineMoves
    <3>2. LineIn(r, kb \o c, 0, "size")
      BY <3>1, LineMoves
    <3>3. LineAt(r, h + 0, "size")
      BY <1>1, <1>14, <3>2
    <3> QED
      BY <1>8, <3>3
  <2>3. LineAt(r, DataEnd(r), "end")
    <3>1. (1 + s) + n \in Nat
      BY <1>8
    <3>2. LineIn(r, kb, (1 + s) + n, "end")
      BY <1>5, <2>1, <3>1, LineMoves
    <3>3. LineIn(r, kb \o c, (1 + s) + n, "end")
      BY <3>1, <3>2, LineMoves
    <3> QED
      BY <1>1, <1>11, <1>14, <3>1, <3>3
  <2>4. ASSUME NEW j \in 1..n PROVE Pieces(r)[SizeEnd(r) + j] = "byte"
    <3>0. PICK lk \in Nat, lb \in Nat, lc \in Nat : lk = Len(k) /\ lb = Len(b) /\ lc = Len(c)
      BY <1>7
    <3>a. Len(kb) = lk + lb /\ Len(kb \o c) = lk + lb + lc /\ lk = (1 + s) + n + (1 + e)
      BY <1>7, <2>1, <3>0
    <3>b. (1 + s) + j \in 1..lk /\ (1 + s) + j \in 1..(lk + lb) /\ (1 + s) + j \in 1..(lk + lb + lc)
      BY <3>a
    <3>1. (1 + s) + j \in 1..Len(k) /\ (1 + s) + j \in 1..Len(kb) /\ (1 + s) + j \in 1..Len(kb \o c)
      BY <3>0, <3>a, <3>b
    <3>2. (kb \o c)[(1 + s) + j] = "byte"
      BY <1>7, <2>1, <3>1
    <3>3. Pieces(r)[h + ((1 + s) + j)] = "byte"
      BY <1>6, <1>8, <3>1, <3>2, HeadShape
    <3>4. SizeEnd(r) + j = h + ((1 + s) + j)
      BY <1>8, <1>10
    <3> QED
      BY <3>3, <3>4
  <2> QED
    BY <2>2, <2>3, <2>4
<1> QED
  BY <1>8, <1>15, <1>16, <1>17, <1>18

\* The other requests.
LEMMA OtherShapes ==
  ASSUME NEW r \in RequestType
  PROVE  /\ Pieces(r) \in Seq(KindSet) /\ Len(Pieces(r)) \in Nat
         /\ r.line = "bad" => Len(Pieces(r)) = 1 /\ Pieces(r)[1] = "badline"
         /\ r.line # "bad" => LineAt(r, 0, "first")
         /\ r.line # "bad" /\ r.header = "bad" =>
              Len(Pieces(r)) = FirstEnd(r) + 1 /\ Pieces(r)[FirstEnd(r) + 1] = "badheader"
         /\ r.line # "bad" /\ r.header # "bad" =>
              /\ r.line # "post" \/ r.body = "badlength" => Len(Pieces(r)) = HeadEnd(r)
              /\ r.line = "post" /\ r.body \in {"none", "length"} =>
                   /\ Len(Pieces(r)) = HeadEnd(r) + r.len
                   /\ \A j \in 1..r.len : Pieces(r)[HeadEnd(r) + j] = "byte"
              /\ r.line = "post" /\ r.body = "badchunk" =>
                   Len(Pieces(r)) = HeadEnd(r) + 1 /\ Pieces(r)[HeadEnd(r) + 1] = "badsize"
<1>1. Pieces(r) \in Seq(KindSet) /\ Len(Pieces(r)) \in Nat
  <2>1. Pieces(r) \in Seq(KindSet)
    BY PiecesKinds
  <2> QED
    BY <2>1
<1>2. ASSUME r.line = "bad" PROVE Len(Pieces(r)) = 1 /\ Pieces(r)[1] = "badline"
  <2>1. Pieces(r) = <<"badline">>
    BY <1>2 DEF Pieces
  <2> QED
    BY <2>1
<1>3. ASSUME r.line # "bad", r.header = "bad"
      PROVE  /\ LineAt(r, 0, "first") /\ Len(Pieces(r)) = FirstEnd(r) + 1
             /\ Pieces(r)[FirstEnd(r) + 1] = "badheader"
  <2>1. "first" \in KindSet /\ <<"badheader">> \in Seq(KindSet)
    BY DEF KindSet
  <2>2. PICK a \in Seq(KindSet) : a = InLine(r, "first") /\ Len(a) = FirstEnd(r) /\ LineIn(r, a, 0, "first")
    BY <2>1, InLineShape DEF FirstEnd
  <2>3. PICK b \in Seq(KindSet) : b = <<"badheader">>
    BY <2>1
  <2>4. Pieces(r) = a \o b
    BY <1>3, <2>2, <2>3 DEF Pieces
  <2>5. Len(b) = 1 /\ b[1] = "badheader"
    BY <2>3
  <2>6. Len(a \o b) = Len(a) + 1 /\ (a \o b)[Len(a) + 1] = b[1]
    <3>1. /\ Len(a \o b) = Len(a) + Len(b)
          /\ \A i \in 1..Len(b) : (a \o b)[Len(a) + i] = b[i]
      BY Cat
    <3>2. 1 \in 1..Len(b)
      BY <2>5
    <3> QED
      BY <2>5, <3>1, <3>2
  <2>7. LineIn(r, a \o b, 0, "first")
    BY <2>2, LineMoves
  <2> QED
    BY <2>2, <2>4, <2>5, <2>6, <2>7 DEF LineAt
<1>4. ASSUME r.line # "bad", r.header # "bad" PROVE LineAt(r, 0, "first")
  BY <1>4, HeadShape
<1>5. PICK h \in Nat : h = HeadEnd(r)
  BY Ends
<1>6. ASSUME r.line # "bad", r.header # "bad", r.line # "post" \/ r.body = "badlength"
      PROVE  Len(Pieces(r)) = HeadEnd(r)
  <2>1. Body(r) = <<>>
    BY <1>6 DEF Body
  <2> QED
    BY <1>5, <1>6, <2>1, HeadShape
<1>7. ASSUME r.line = "post", r.header # "bad", r.body \in {"none", "length"}
      PROVE  /\ Len(Pieces(r)) = HeadEnd(r) + r.len
             /\ \A j \in 1..r.len : Pieces(r)[HeadEnd(r) + j] = "byte"
  <2>1. Body(r) = Bytes(r.len)
    BY <1>7 DEF Body
  <2>2. r.len \in Nat
    BY Ends
  <2>3. Len(Bytes(r.len)) = r.len /\ \A j \in 1..r.len : Bytes(r.len)[j] = "byte"
    BY <2>2 DEF Bytes
  <2> QED
    BY <1>7, <2>1, <2>3, HeadShape
<1>8. ASSUME r.line = "post", r.header # "bad", r.body = "badchunk"
      PROVE  Len(Pieces(r)) = HeadEnd(r) + 1 /\ Pieces(r)[HeadEnd(r) + 1] = "badsize"
  <2>1. Body(r) = <<"badsize">>
    BY <1>8 DEF Body
  <2>2. Len(<<"badsize">>) = 1 /\ <<"badsize">>[1] = "badsize"
    OBVIOUS
  <2>3. 1 \in 1..Len(Body(r))
    BY <2>1, <2>2
  <2> QED
    BY <1>8, <2>1, <2>2, <2>3, HeadShape
<1> QED
  BY <1>1, <1>2, <1>3, <1>4, <1>6, <1>7, <1>8

\* A request that is not cut between CR and LF has no LF of its own; one that is
\* has no half line.
LEMMA NoLf ==
  ASSUME NEW r \in RequestType, ~Crlf(r)
  PROVE  \A j \in 1..Len(Pieces(r)) : Pieces(r)[j] # "lf"
<1> DEFINE K == KindSet \ {"lf"}
<1>1. r.torn = "none" \/ r.cut = "text"
  BY DEF Crlf, RequestType
<1>2. {"byte", "badsize", "badline", "badheader", "first", "headers", "end", "size", "last", "half"} \subseteq K
  BY DEF KindSet
<1> HIDE DEF K
<1>3. \A x \in {"first", "headers", "end", "size", "last"} : InLine(r, x) \in Seq(K)
  BY <1>1, <1>2 DEF InLine
<1>4. Pieces(r) \in Seq(K)
  BY <1>2, <1>3, PiecesIn
<1> QED
  BY <1>4 DEF K

\* A request that is not cut inside the text of a line has no half of one.
LEMMA NoHalf ==
  ASSUME NEW r \in RequestType, Crlf(r)
  PROVE  \A j \in 1..Len(Pieces(r)) : Pieces(r)[j] # "half"
<1> DEFINE K == KindSet \ {"half"}
<1>1. r.cut # "text"
  BY DEF Crlf
<1>2. {"byte", "badsize", "badline", "badheader", "first", "headers", "end", "size", "last", "lf"} \subseteq K
  BY DEF KindSet
<1> HIDE DEF K
<1>3. \A x \in {"first", "headers", "end", "size", "last"} : InLine(r, x) \in Seq(K)
  BY <1>1, <1>2 DEF InLine
<1>4. Pieces(r) \in Seq(K)
  BY <1>2, <1>3, PiecesIn
<1> QED
  BY <1>4 DEF K

\* A request begins with its first line and has no other.
LEMMA FirstPiece ==
  ASSUME NEW r \in RequestType
  PROVE  /\ Len(Pieces(r)) \in Nat /\ Len(Pieces(r)) >= 1 /\ Pieces(r)[1] \in {"half", "first", "badline"}
         /\ Crlf(r) => \A j \in 2..Len(Pieces(r)) : Pieces(r)[j] # "first"
<1>1. Len(Pieces(r)) \in Nat
  BY OtherShapes
<1>2. Len(Pieces(r)) >= 1 /\ Pieces(r)[1] \in {"half", "first", "badline"}
  <2>1. CASE r.line = "bad"
    BY <2>1, OtherShapes
  <2>2. CASE r.line # "bad"
    <3>1. LineAt(r, 0, "first")
      BY <2>2, OtherShapes
    <3>2. Extra(r, "first") \in 0..1
      BY ExtraIs
    <3> QED
      BY <1>1, <3>1, <3>2 DEF LineAt, LineIn
  <2> QED
    BY <2>1, <2>2
<1>3. ASSUME Crlf(r), NEW j \in 2..Len(Pieces(r)) PROVE Pieces(r)[j] # "first"
  <2> DEFINE K == KindSet \ {"first"}
  <2>1. {"byte", "badsize", "badline", "badheader", "headers", "end", "size", "last", "lf"} \subseteq K
    BY DEF KindSet
  <2>2. r.cut # "text" /\ r.line # "bad"
    <3>1. PICK n \in Nat : n = Len(Pieces(r))
      BY <1>1
    <3>2. j \in 2..n
      BY <3>1
    <3>3. r.line # "bad"
      <4>1. r.line = "bad" => n = 1
        BY <3>1, OtherShapes
      <4>2. n # 1
        BY <3>2
      <4> QED
        BY <4>1, <4>2
    <3>4. r.cut # "text"
      BY <1>3 DEF Crlf
    <3> QED
      BY <3>3, <3>4
  <2> HIDE DEF K
  <2>3. \A x \in {"headers", "end", "size", "last"} : InLine(r, x) \in Seq(K)
    BY <2>1, <2>2 DEF InLine
  <2>4. Bytes(r.len) \in Seq(K)
    <3>1. r.len \in Nat /\ "byte" \in K
      BY <2>1, Ends
    <3>2. \A n \in Nat : [i \in 1..n |-> "byte"] \in Seq(K)
      BY <3>1
    <3> QED
      BY <3>1, <3>2 DEF Bytes
  <2>5. <<>> \in Seq(K) /\ <<"badsize">> \in Seq(K) /\ <<"badheader">> \in Seq(K)
    BY <2>1
  <2>6. Chunk(r) \in Seq(K)
    BY <2>3, <2>4, <2>5 DEF Chunk
  <2>7. Body(r) \in Seq(K)
    BY <2>3, <2>4, <2>5, <2>6 DEF Body
  <2>8. InLine(r, "headers") \o InLine(r, "end") \o Body(r) \in Seq(K)
    BY <2>3, <2>7
  <2>9. PICK t \in Seq(K) : Pieces(r) = InLine(r, "first") \o t
    BY <2>2, <2>5, <2>8 DEF Pieces
  <2>10. \A i \in 1..Len(t) : t[i] # "first"
    BY DEF K
  <2>11. t \in Seq(KindSet)
    BY DEF K
  <2>12. PICK a \in Seq(KindSet) : a = InLine(r, "first") /\ Len(a) = 1 + Extra(r, "first") /\ LineIn(r, a, 0, "first")
    <3>1. "first" \in KindSet
      BY DEF KindSet
    <3> QED
      BY <3>1, InLineShape
  <2>13. PICK n \in 0..1 : n = Extra(r, "first")
    BY ExtraIs
  <2>14. /\ Pieces(r) = a \o t /\ Len(a) = 1 + n /\ Len(t) \in Nat /\ Len(a \o t) = 1 + n + Len(t)
         /\ \A i \in 1..Len(t) : (a \o t)[(1 + n) + i] = t[i]
         /\ \A i \in 1..(1 + n) : (a \o t)[i] = a[i]
    BY <2>9, <2>11, <2>12, <2>13, Cat
  <2>15. CASE j <= 1 + n
    <3>1. n = 1 /\ j = 2
      BY <2>15
    <3>2. a[2] = "lf"
      BY <2>2, <2>12, <2>13, <3>1 DEF LineIn, Extra
    <3> QED
      BY <2>14, <3>1, <3>2
  <2>16. CASE j > 1 + n
    <3>1. PICK i \in 1..Len(t) : j = (1 + n) + i
      <4>1. j - (1 + n) \in 1..Len(t) /\ j = (1 + n) + (j - (1 + n))
        BY <2>14, <2>16
      <4> QED
        BY <4>1
    <3> QED
      BY <2>10, <2>14, <3>1
  <2> QED
    BY <2>15, <2>16
<1> QED
  BY <1>1, <1>2, <1>3

\* A line that may be cut between CR and LF.
LEMMA CutLine ==
  ASSUME NEW r \in RequestType, Crlf(r), NEW p \in Nat, NEW x \in KindSet, LineAt(r, p, x)
  PROVE  /\ p + 1 + Extra(r, x) <= Len(Pieces(r)) /\ Pieces(r)[p + 1] = x
         /\ Extra(r, x) = 1 => Pieces(r)[p + 2] = "lf"
BY DEF LineAt, LineIn, Extra, Crlf

\* What is behind a line that is read from a request with a cut, with its LF (n = 2) or not.
LEMMA CutHead ==
  ASSUME NEW r \in RequestType, Crlf(r), r.line # "bad", r.header # "bad",
         NEW j \in 1..HeadEnd(r), NEW n \in {1, 2},
         n = 2 => j + 1 <= Len(Pieces(r)) /\ Pieces(r)[j + 1] = "lf"
  PROVE  j - 1 + n <= HeadEnd(r) /\ (Pieces(r)[j] = "headers" => j - 1 + n < HeadEnd(r))
<1>1. {"first", "headers", "end", "size", "last"} \subseteq KindSet
  BY DEF KindSet
<1>2. PICK f \in 0..1, h \in 0..1, e \in 0..1 :
        f = Extra(r, "first") /\ h = Extra(r, "headers") /\ e = Extra(r, "end")
  BY ExtraIs
<1>3. PICK p \in Seq(KindSet) : p = Pieces(r)
  BY OtherShapes
<1>4. PICK E \in Nat : E = HeadEnd(r)
  BY Ends
<1>5. FirstEnd(r) = 1 + f
  BY <1>2 DEF FirstEnd
<1>6. HeadersEnd(r) = 1 + f + 1 + h
  BY <1>2, <1>5 DEF HeadersEnd
<1>7. E = 1 + f + 1 + h + 1 + e
  BY <1>2, <1>4, <1>6 DEF HeadEnd
<1>8. p[1] = "first" /\ (f = 1 => p[2] = "lf")
  <2>1. LineAt(r, 0, "first")
    BY HeadShape
  <2> QED
    BY <1>1, <1>2, <1>3, <2>1, CutLine
<1>9. p[(1 + f) + 1] = "headers" /\ (h = 1 => p[(1 + f) + 2] = "lf")
  <2>1. LineAt(r, 1 + f, "headers")
    BY <1>5, HeadShape
  <2> QED
    BY <1>1, <1>2, <1>3, <2>1, CutLine
<1>10. p[(1 + f + 1 + h) + 1] = "end" /\ (e = 1 => p[(1 + f + 1 + h) + 2] = "lf")
  <2>1. LineAt(r, 1 + f + 1 + h, "end")
    BY <1>6, HeadShape
  <2>2. 1 + f + 1 + h \in Nat
    OBVIOUS
  <2> QED
    BY <1>1, <1>2, <1>3, <2>1, <2>2, CutLine
<1>11. E + 1 <= Len(p) => p[E + 1] # "lf"
  <2>1. CASE r.line # "post" \/ r.body = "badlength"
    <3>1. Len(p) = E
      BY <1>3, <1>4, <2>1, OtherShapes
    <3> QED
      BY <3>1
  <2>2. CASE r.line = "post" /\ r.body \in {"none", "length"}
    <3>1. r.len \in 0..2 /\ Len(p) = E + r.len /\ \A i \in 1..r.len : p[E + i] = "byte"
      BY <1>3, <1>4, <2>2, OtherShapes, Ends
    <3> QED
      BY <3>1
  <2>3. CASE r.line = "post" /\ r.body = "badchunk"
    BY <1>3, <1>4, <2>3, OtherShapes
  <2>4. CASE r.line = "post" /\ r.body = "chunked" /\ r.len # 0
    <3>1. LineAt(r, E, "size")
      BY <1>4, <2>4, ChunkedShape
    <3> QED
      BY <1>1, <1>3, <3>1, CutLine
  <2>5. CASE r.line = "post" /\ r.body = "chunked" /\ r.len = 0
    <3>1. LineAt(r, E, "last")
      BY <1>4, <2>5, ChunkedShape DEF ChunksEnd
    <3> QED
      BY <1>1, <1>3, <3>1, CutLine
  <2> QED
    BY <2>1, <2>2, <2>3, <2>4, <2>5 DEF RequestType
<1>12. j \in 1..E /\ (n = 2 => j + 1 <= Len(p) /\ p[j + 1] = "lf")
  BY <1>3, <1>4
<1>13. j - 1 + n <= E
  BY <1>7, <1>11, <1>12
<1>14. p[j] = "headers" => j - 1 + n < E
  BY <1>7, <1>8, <1>9, <1>10, <1>12, <1>13
<1> QED
  BY <1>3, <1>4, <1>13, <1>14

\* Before a bad header only the empty line of a cut may be read, and not the bad one.
LEMMA CutBad ==
  ASSUME NEW r \in RequestType, Crlf(r), r.line # "bad", r.header = "bad",
         NEW j \in 1..(FirstEnd(r) + 1), NEW n \in {1, 2},
         n = 2 => j + 1 <= Len(Pieces(r)) /\ Pieces(r)[j + 1] = "lf"
  PROVE  Pieces(r)[j] # "headers" /\ (Pieces(r)[j] \in Empty => j - 1 + n <= FirstEnd(r))
<1>1. "first" \in KindSet
  BY DEF KindSet
<1>2. PICK f \in 0..1 : f = Extra(r, "first")
  BY ExtraIs
<1>3. PICK p \in Seq(KindSet) : p = Pieces(r)
  BY OtherShapes
<1>4. FirstEnd(r) = 1 + f
  BY <1>2 DEF FirstEnd
<1>5. p[1] = "first" /\ (f = 1 => p[2] = "lf")
  <2>1. LineAt(r, 0, "first")
    BY OtherShapes
  <2> QED
    BY <1>1, <1>2, <1>3, <2>1, CutLine
<1>6. Len(p) = (1 + f) + 1 /\ p[(1 + f) + 1] = "badheader"
  BY <1>3, <1>4, OtherShapes
<1>7. j \in 1..((1 + f) + 1) /\ (n = 2 => j + 1 <= Len(p) /\ p[j + 1] = "lf")
  BY <1>3, <1>4
<1>8. p[j] # "headers" /\ (p[j] \in Empty => j - 1 + n <= 1 + f)
  BY <1>5, <1>6, <1>7 DEF Empty
<1> QED
  BY <1>3, <1>4, <1>8

\* What is read of a chunked body that has a cut.
LEMMA CutChunks ==
  ASSUME NEW r \in RequestType, Crlf(r), r.line = "post", r.header # "bad", r.body = "chunked",
         NEW j \in 1..Len(Pieces(r)), NEW n \in {1, 2},
         n = 2 => j + 1 <= Len(Pieces(r)) /\ Pieces(r)[j + 1] = "lf"
  PROVE  /\ Pieces(r)[j] = "size" => j - 1 + n + r.len <= Len(Pieces(r))
         /\ Pieces(r)[j] = "last" => j - 1 + n < Len(Pieces(r))
<1>1. {"first", "headers", "end", "size", "last"} \subseteq KindSet
  BY DEF KindSet
<1>2. PICK f \in 0..1, h \in 0..1, e \in 0..1, s \in 0..1, l \in 0..1, m \in 0..2 :
        /\ f = Extra(r, "first") /\ h = Extra(r, "headers") /\ e = Extra(r, "end")
        /\ s = Extra(r, "size") /\ l = Extra(r, "last") /\ m = r.len
  BY ExtraIs, Ends
<1>3. PICK p \in Seq(KindSet) : p = Pieces(r)
  BY OtherShapes
<1>4. PICK F \in Nat, H \in Nat, E \in Nat, S \in Nat, D \in Nat, C \in Nat, L \in Nat :
        /\ F = FirstEnd(r) /\ H = HeadersEnd(r) /\ E = HeadEnd(r) /\ S = SizeEnd(r)
        /\ D = DataEnd(r) /\ C = ChunksEnd(r) /\ L = LastEnd(r)
  BY Ends
<1>5. F = 1 + f /\ H = F + 1 + h /\ E = H + 1 + e /\ S = E + 1 + s /\ D = S + m
  BY <1>2, <1>4 DEF FirstEnd, HeadersEnd, HeadEnd, SizeEnd, DataEnd
<1>6. (m = 0 => C = E) /\ (m # 0 => C = D + 1 + e) /\ L = C + 1 + l /\ Len(p) = L + 1 + e
  <2>1. (m = 0 => C = E) /\ (m # 0 => C = D + 1 + e)
    BY <1>2, <1>4 DEF ChunksEnd
  <2>2. L = C + 1 + l
    BY <1>2, <1>4 DEF LastEnd
  <2>3. Len(p) = L + 1 + e
    BY <1>2, <1>3, <1>4, ChunkedShape
  <2> QED
    BY <2>1, <2>2, <2>3
<1>7. p[1] = "first" /\ (f = 1 => p[2] = "lf")
  <2>1. LineAt(r, 0, "first")
    BY HeadShape
  <2> QED
    BY <1>1, <1>2, <1>3, <2>1, CutLine
<1>8. p[F + 1] = "headers" /\ (h = 1 => p[F + 2] = "lf")
  <2>1. LineAt(r, F, "headers")
    BY <1>4, HeadShape
  <2> QED
    BY <1>1, <1>2, <1>3, <2>1, CutLine
<1>9. p[H + 1] = "end" /\ (e = 1 => p[H + 2] = "lf")
  <2>1. LineAt(r, H, "end")
    BY <1>4, HeadShape
  <2> QED
    BY <1>1, <1>2, <1>3, <2>1, CutLine
<1>10. ASSUME m # 0
       PROVE  /\ p[E + 1] = "size" /\ (s = 1 => p[E + 2] = "lf")
              /\ p[D + 1] = "end" /\ (e = 1 => p[D + 2] = "lf")
              /\ \A i \in 1..m : p[S + i] = "byte"
  <2>1. /\ LineAt(r, E, "size") /\ LineAt(r, D, "end") /\ \A i \in 1..m : p[S + i] = "byte"
    BY <1>2, <1>3, <1>4, <1>10, ChunkedShape
  <2> QED
    BY <1>1, <1>2, <1>3, <2>1, CutLine
<1>11. p[C + 1] = "last" /\ (l = 1 => p[C + 2] = "lf")
  <2>1. LineAt(r, C, "last")
    BY <1>4, ChunkedShape
  <2> QED
    BY <1>1, <1>2, <1>3, <2>1, CutLine
<1>12. p[L + 1] = "end" /\ (e = 1 => p[L + 2] = "lf")
  <2>1. LineAt(r, L, "end")
    BY <1>4, ChunkedShape
  <2> QED
    BY <1>1, <1>2, <1>3, <2>1, CutLine
<1>13. j \in 1..Len(p) /\ (n = 2 => j + 1 <= Len(p) /\ p[j + 1] = "lf")
  BY <1>3
<1>14. p[j] = "size" => m # 0 /\ j = E + 1
  <2>1. CASE j <= E
    BY <1>5, <1>7, <1>8, <1>9, <1>13, <2>1
  <2>2. CASE j > C
    BY <1>5, <1>6, <1>11, <1>12, <1>13, <2>2
  <2>3. CASE m # 0 /\ j > E /\ j <= S
    BY <1>5, <1>10, <1>13, <2>3
  <2>4. CASE m # 0 /\ j > S /\ j <= D
    <3>1. PICK i \in 1..m : j = S + i
      <4>1. j - S \in 1..m /\ j = S + (j - S)
        BY <1>5, <1>13, <2>4
      <4> QED
        BY <4>1
    <3> QED
      BY <1>10, <2>4, <3>1
  <2>5. CASE m # 0 /\ j > D /\ j <= C
    BY <1>5, <1>6, <1>10, <1>13, <2>5
  <2> QED
    BY <1>5, <1>6, <1>13, <2>1, <2>2, <2>3, <2>4, <2>5
<1>15. p[j] = "last" => j = C + 1
  <2>1. CASE j <= E
    BY <1>5, <1>7, <1>8, <1>9, <1>13, <2>1
  <2>2. CASE j > C
    BY <1>5, <1>6, <1>11, <1>12, <1>13, <2>2
  <2>3. CASE m # 0 /\ j > E /\ j <= S
    BY <1>5, <1>10, <1>13, <2>3
  <2>4. CASE m # 0 /\ j > S /\ j <= D
    <3>1. PICK i \in 1..m : j = S + i
      <4>1. j - S \in 1..m /\ j = S + (j - S)
        BY <1>5, <1>13, <2>4
      <4> QED
        BY <4>1
    <3> QED
      BY <1>10, <2>4, <3>1
  <2>5. CASE m # 0 /\ j > D /\ j <= C
    BY <1>5, <1>6, <1>10, <1>13, <2>5
  <2> QED
    BY <1>5, <1>6, <1>13, <2>1, <2>2, <2>3, <2>4, <2>5
<1>16. p[j] = "size" => j - 1 + n + m <= Len(p)
  BY <1>5, <1>6, <1>10, <1>13, <1>14
<1>17. p[j] = "last" => j - 1 + n < Len(p)
  BY <1>5, <1>6, <1>12, <1>13, <1>15
<1> QED
  BY <1>2, <1>3, <1>16, <1>17

-----------------------------------------------------------------------------
(***************************************************************************)
(* The requests as one stream of tokens.  The i-th one follows the first   *)
(* s[i] tokens; u is what remains of the stream after d of them.           *)
(***************************************************************************)
Offsets(a, s) == /\ s \in [1..(Len(a) + 1) -> Nat]
                 /\ s[1] = 0
                 /\ \A i \in 1..Len(a) : s[i + 1] = s[i] + Len(Pieces(a[i]))
                 /\ \A i \in 1..(Len(a) + 1) : s[i] <= s[Len(a) + 1]

Stream(a, s, u, d) == /\ d + Len(u) = s[Len(a) + 1]
                      /\ \A i \in 1..Len(a) : \A j \in 1..Len(Pieces(a[i])) :
                           s[i] + j > d => u[s[i] + j - d] = [kind |-> Pieces(a[i])[j], id |-> i]

\* What the server has still to look at.
Coming == inbuf \o (net \o togo)

\* The input buffer is the first part of what is coming.
LEMMA ComingIs ==
  ASSUME Typed
  PROVE  /\ Coming \in Seq(Token(Len(asked))) /\ Len(Coming) \in Nat /\ Len(inbuf) \in Nat
         /\ Len(inbuf) <= Len(Coming)
         /\ \A k \in 1..Len(inbuf) : Coming[k] = inbuf[k]
<1>1. PICK T : T = Token(Len(asked))
  OBVIOUS
<1>2. inbuf \in Seq(T) /\ net \in Seq(T) /\ togo \in Seq(T)
  BY <1>1 DEF Typed
<1>3. PICK y \in Seq(T) : y = net \o togo
  BY <1>2, Cat
<1>4. /\ inbuf \o y \in Seq(T) /\ Len(inbuf) \in Nat /\ Len(y) \in Nat
      /\ Len(inbuf \o y) = Len(inbuf) + Len(y)
      /\ \A k \in 1..Len(inbuf) : (inbuf \o y)[k] = inbuf[k]
  BY <1>2, Cat
<1>5. Coming = inbuf \o y
  BY <1>3 DEF Coming
<1>6. Len(inbuf) <= Len(inbuf) + Len(y)
  BY <1>4
<1> QED
  BY <1>1, <1>4, <1>5, <1>6

\* The server has used up n tokens.
LEMMA StreamShift ==
  ASSUME NEW a, Len(a) \in Nat, NEW s, Offsets(a, s), NEW T, NEW u \in Seq(T), NEW v \in Seq(T), NEW d \in Nat, NEW n \in Nat,
         Len(u) = n + Len(v), \A k \in 1..Len(v) : v[k] = u[n + k],
         \A i \in 1..Len(a) : Len(Pieces(a[i])) \in Nat,
         Stream(a, s, u, d)
  PROVE  Stream(a, s, v, d + n)
<1>1. PICK lu \in Nat, lv \in Nat, la \in Nat : lu = Len(u) /\ lv = Len(v) /\ la = Len(a)
  OBVIOUS
<1>2. /\ lu = n + lv /\ d + lu = s[la + 1] /\ s \in [1..(la + 1) -> Nat]
      /\ \A i \in 1..(la + 1) : s[i] <= s[la + 1]
      /\ \A i \in 1..la : s[i + 1] = s[i] + Len(Pieces(a[i]))
  BY <1>1 DEF Stream, Offsets
<1>3. (d + n) + lv = s[la + 1]
  BY <1>2
<1>4. ASSUME NEW i \in 1..la, NEW j \in 1..Len(Pieces(a[i])), s[i] + j > d + n
      PROVE  v[s[i] + j - (d + n)] = [kind |-> Pieces(a[i])[j], id |-> i]
  <2>1. PICK l \in Nat, x \in Nat, y \in Nat, z \in Nat :
          l = Len(Pieces(a[i])) /\ x = s[i] /\ y = s[i + 1] /\ z = s[la + 1]
    <3>1. Len(Pieces(a[i])) \in Nat
      BY <1>1
    <3>2. i \in 1..(la + 1) /\ i + 1 \in 1..(la + 1) /\ la + 1 \in 1..(la + 1)
      OBVIOUS
    <3>3. s[i] \in Nat /\ s[i + 1] \in Nat /\ s[la + 1] \in Nat
      BY <1>2, <3>2
    <3> QED
      BY <3>1, <3>3
  <2>2. /\ j \in 1..l /\ x + j > d + n /\ y = x + l /\ y <= z /\ z = d + n + lv
    <3>1. y <= z
      <4>1. i + 1 \in 1..(la + 1)
        OBVIOUS
      <4> QED
        BY <1>2, <2>1, <4>1
    <3> QED
      BY <1>2, <1>3, <1>4, <2>1, <3>1
  <2>3. (x + j - (d + n)) \in 1..lv /\ n + (x + j - (d + n)) = x + j - d /\ x + j > d
    BY <2>2
  <2>4. v[x + j - (d + n)] = u[x + j - d]
    BY <1>1, <2>3
  <2>5. u[x + j - d] = [kind |-> Pieces(a[i])[j], id |-> i]
    BY <1>1, <2>1, <2>3 DEF Stream
  <2> QED
    BY <2>1, <2>4, <2>5
<1> QED
  BY <1>1, <1>3, <1>4 DEF Stream

\* The client has another request: b is a and one more.
Longer(a, s, b, w, d) == \E z : /\ Offsets(b, z) /\ Stream(b, z, w, d)
                                /\ \A i \in 1..(Len(a) + 1) : z[i] = s[i]

\* The tokens of a new request go to the end of the stream.
LEMMA StreamGrows ==
  ASSUME NEW R, NEW a \in Seq(R), NEW r, NEW s, Offsets(a, s), NEW u, Len(u) \in Nat, NEW t, Len(t) \in Nat, NEW w,
         Len(w) = Len(u) + Len(t), \A k \in 1..Len(u) : w[k] = u[k],
         \A k \in 1..Len(t) : w[Len(u) + k] = t[k], NEW d \in Nat, Len(Pieces(r)) \in Nat, Len(t) = Len(Pieces(r)),
         \A j \in 1..Len(t) : t[j] = [kind |-> Pieces(r)[j], id |-> Len(a) + 1],
         \A i \in 1..Len(a) : Len(Pieces(a[i])) \in Nat,
         Stream(a, s, u, d)
  PROVE  Longer(a, s, Append(a, r), w, d)
<1>1. PICK la \in Nat, lu \in Nat, lt \in Nat : la = Len(a) /\ lu = Len(u) /\ lt = Len(t)
  OBVIOUS
<1>2. PICK b : b = Append(a, r)
  OBVIOUS
<1>3. Len(b) = la + 1 /\ b[la + 1] = r /\ \A i \in 1..la : b[i] = a[i]
  BY <1>1, <1>2
<1>4. /\ d + lu = s[la + 1] /\ s \in [1..(la + 1) -> Nat] /\ s[1] = 0
      /\ \A i \in 1..(la + 1) : s[i] <= s[la + 1]
      /\ \A i \in 1..la : s[i + 1] = s[i] + Len(Pieces(a[i]))
  BY <1>1 DEF Stream, Offsets
<1>5. PICK m \in Nat : m = s[la + 1]
  BY <1>4
<1> DEFINE z == [i \in 1..((la + 1) + 1) |-> IF i <= la + 1 THEN s[i] ELSE m + lt]
<1>6. \A i \in 1..(la + 1) : s[i] \in Nat /\ s[i] <= m
  BY <1>4, <1>5
<1>7. /\ z \in [1..((la + 1) + 1) -> Nat] /\ z[1] = 0 /\ z[(la + 1) + 1] = m + lt
      /\ \A i \in 1..(la + 1) : z[i] = s[i]
  BY <1>4, <1>6
<1> HIDE DEF z
<1>8. ASSUME NEW i \in 1..((la + 1) + 1) PROVE z[i] <= z[(la + 1) + 1]
  <2>1. CASE i \in 1..(la + 1)
    <3>1. PICK x \in Nat : x = s[i] /\ x <= m
      BY <1>6, <2>1
    <3> QED
      BY <1>7, <2>1, <3>1
  <2>2. CASE i = (la + 1) + 1
    BY <1>7, <2>2
  <2> QED
    BY <2>1, <2>2
<1>9. ASSUME NEW i \in 1..(la + 1) PROVE z[i + 1] = z[i] + Len(Pieces(b[i]))
  <2>1. CASE i \in 1..la
    <3>1. i + 1 \in 1..(la + 1)
      BY <2>1
    <3> QED
      BY <1>3, <1>4, <1>7, <2>1, <3>1
  <2>2. CASE i = la + 1
    BY <1>1, <1>3, <1>5, <1>7, <2>2
  <2> QED
    BY <2>1, <2>2
<1>10. Offsets(b, z)
  BY <1>3, <1>7, <1>8, <1>9 DEF Offsets
<1>11. /\ Len(w) = lu + lt
       /\ \A k \in 1..lu : w[k] = u[k]
       /\ \A k \in 1..lt : w[lu + k] = t[k]
  BY <1>1
<1>12. d + Len(w) = z[(la + 1) + 1]
  <2>1. m = d + lu /\ d + (lu + lt) = m + lt
    BY <1>4, <1>5
  <2> QED
    BY <1>7, <1>11, <2>1
<1>13. ASSUME NEW i \in 1..(la + 1), NEW j \in 1..Len(Pieces(b[i])), z[i] + j > d
       PROVE  w[z[i] + j - d] = [kind |-> Pieces(b[i])[j], id |-> i]
  <2>1. CASE i \in 1..la
    <3>1. PICK l \in Nat, x \in Nat, y \in Nat : l = Len(Pieces(a[i])) /\ x = s[i] /\ y = s[i + 1]
      <4>1. i + 1 \in 1..(la + 1)
        BY <2>1
      <4> QED
        BY <1>1, <1>6, <2>1, <4>1
    <3>2. y = x + l /\ y <= m
      <4>1. i + 1 \in 1..(la + 1)
        BY <2>1
      <4> QED
        BY <1>4, <1>6, <2>1, <3>1, <4>1
    <3>3. j \in 1..l /\ x + j > d /\ z[i] = x
      BY <1>3, <1>7, <1>13, <2>1, <3>1
    <3>4. (x + j - d) \in 1..lu
      <4>1. m = d + lu
        BY <1>4, <1>5
      <4> QED
        BY <3>2, <3>3, <4>1
    <3>5. u[x + j - d] = [kind |-> Pieces(a[i])[j], id |-> i]
      BY <1>1, <2>1, <3>1, <3>3 DEF Stream
    <3> QED
      BY <1>3, <1>11, <2>1, <3>3, <3>4, <3>5
  <2>2. CASE i = la + 1
    <3>1. z[i] = m /\ j \in 1..lt /\ b[i] = r
      BY <1>1, <1>3, <1>5, <1>7, <2>2
    <3>2. m + j - d = lu + j
      <4>1. m = d + lu
        BY <1>4, <1>5
      <4> QED
        BY <3>1, <4>1
    <3>3. w[lu + j] = t[j]
      BY <1>11, <3>1
    <3>4. t[j] = [kind |-> Pieces(r)[j], id |-> i]
      BY <1>1, <2>2, <3>1
    <3>5. w[m + j - d] = [kind |-> Pieces(r)[j], id |-> i]
      BY <3>2, <3>3, <3>4
    <3> QED
      BY <3>1, <3>5
  <2> QED
    BY <2>1, <2>2
<1>14. Stream(b, z, w, d)
  BY <1>3, <1>12, <1>13 DEF Stream
<1> QED
  BY <1>1, <1>2, <1>7, <1>10, <1>14 DEF Longer

\* The offsets of a request and of the next one.
LEMMA OffsetsIs ==
  ASSUME NEW a \in Seq(RequestType), NEW s, Offsets(a, s), NEW c \in 1..Len(a)
  PROVE  /\ s[c] \in Nat /\ s[c + 1] \in Nat /\ s[Len(a) + 1] \in Nat
         /\ s[c + 1] = s[c] + Len(Pieces(a[c])) /\ s[c + 1] <= s[Len(a) + 1]
         /\ a[c] \in RequestType /\ Len(Pieces(a[c])) \in Nat /\ Len(Pieces(a[c])) >= 1
<1>1. PICK n \in Nat : n = Len(a)
  OBVIOUS
<1>2. c \in 1..(n + 1) /\ c + 1 \in 1..(n + 1) /\ n + 1 \in 1..(n + 1)
  BY <1>1
<1>3. a[c] \in RequestType
  OBVIOUS
<1>4. Len(Pieces(a[c])) \in Nat /\ Len(Pieces(a[c])) >= 1
  BY <1>3, FirstPiece
<1> QED
  BY <1>1, <1>2, <1>3, <1>4 DEF Offsets

\* The k-th token of what remains is the j-th one of the c-th request.
LEMMA TokenHere ==
  ASSUME NEW a \in Seq(RequestType), NEW s, Offsets(a, s), NEW u, NEW d \in Nat, Stream(a, s, u, d),
         NEW c \in 1..Len(a), NEW j \in 1..Len(Pieces(a[c])), NEW k \in Nat \ {0}, d + k = s[c] + j
  PROVE  u[k] = [kind |-> Pieces(a[c])[j], id |-> c]
<1>1. PICK x \in Nat, l \in Nat : x = s[c] /\ l = Len(Pieces(a[c]))
  BY OffsetsIs
<1>2. x + j > d /\ x + j - d = k
  BY <1>1
<1> QED
  BY <1>1, <1>2 DEF Stream

\* What comes behind a request is the first token of the next one.
LEMMA TokenNext ==
  ASSUME NEW a \in Seq(RequestType), NEW s, Offsets(a, s), NEW u, Len(u) \in Nat, NEW d \in Nat,
         Stream(a, s, u, d), NEW c \in 1..Len(a), NEW k \in 1..Len(u), d + k = s[c + 1] + 1
  PROVE  /\ c + 1 \in 1..Len(a) /\ u[k] = [kind |-> Pieces(a[c + 1])[1], id |-> c + 1]
         /\ u[k].kind \in {"half", "first", "badline"}
<1>1. PICK n \in Nat, lu \in Nat : n = Len(a) /\ lu = Len(u)
  OBVIOUS
<1>2. PICK y \in Nat, z \in Nat : y = s[c + 1] /\ z = s[n + 1]
  BY <1>1, OffsetsIs
<1>3. d + lu = z /\ k \in 1..lu /\ d + k = y + 1
  BY <1>1, <1>2 DEF Stream
<1>4. y < z
  BY <1>3
<1>5. c + 1 # n + 1
  BY <1>2, <1>4
<1>6. c + 1 \in 1..n
  BY <1>1, <1>5
<1>7. 1 \in 1..Len(Pieces(a[c + 1])) /\ a[c + 1] \in RequestType
  BY <1>1, <1>6, OffsetsIs
<1>8. u[k] = [kind |-> Pieces(a[c + 1])[1], id |-> c + 1]
  <2>1. PICK n2 \in 1..Len(a) : n2 = c + 1
    BY <1>1, <1>6
  <2>2. k \in Nat \ {0} /\ d + k = s[n2] + 1 /\ 1 \in 1..Len(Pieces(a[n2]))
    BY <1>7, <2>1
  <2>3. u[k] = [kind |-> Pieces(a[n2])[1], id |-> n2]
    BY <2>2, TokenHere
  <2> QED
    BY <2>1, <2>3
<1> QED
  BY <1>1, <1>6, <1>7, <1>8, FirstPiece

\* A line whose first token is not a half.
LEMMA LineWhole ==
  ASSUME NEW T, inbuf \in Seq(T), HasLine, inbuf[1].kind # "half"
  PROVE  /\ Line = inbuf[1] /\ LineLen \in {1, 2} /\ 1 \in 1..Len(inbuf)
         /\ LineLen = 2 <=> 2 \in 1..Len(inbuf) /\ inbuf[2].kind = "lf"
<1>1. Halves = 0
  BY DEF Halves
<1>2. Len(inbuf) \in Nat /\ Len(inbuf) > 0
  BY <1>1 DEF HasLine
<1> QED
  BY <1>1, <1>2 DEF Line, LineLen

\* A line whose two pieces are there.
LEMMA LineTorn ==
  ASSUME NEW T, inbuf \in Seq(T), HasLine, inbuf[1].kind = "half"
  PROVE  /\ Line = inbuf[2] /\ LineLen \in {2, 3} /\ 2 \in 1..Len(inbuf)
         /\ LineLen = 3 <=> 3 \in 1..Len(inbuf) /\ inbuf[3].kind = "lf"
<1>1. PICK n \in Nat : n = Len(inbuf)
  OBVIOUS
<1>2. n > 0
  BY <1>1 DEF HasLine, Halves
<1>3. inbuf # <<>>
  BY <1>1, <1>2
<1>4. Halves = 1
  BY <1>3 DEF Halves
<1>5. n > 1
  BY <1>1, <1>4 DEF HasLine
<1>6. Line = inbuf[2]
  BY <1>4 DEF Line
<1>7. LineLen = IF n > 2 /\ inbuf[3].kind = "lf" THEN 3 ELSE 2
  BY <1>1, <1>4 DEF LineLen
<1> QED
  BY <1>1, <1>5, <1>6, <1>7

\* The server is inside the c-th request, e tokens behind its first.
Inside(s, d, c, e) == /\ Offsets(asked, s) /\ d \in Nat /\ Stream(asked, s, Coming, d)
                      /\ c \in 1..Len(asked) /\ e \in Nat /\ d = s[c] + e

\* What is in the buffer then.
Near(c, e) ==
  /\ \A k \in 1..Len(inbuf) : e + k <= Len(Pieces(asked[c])) =>
       inbuf[k] = [kind |-> Pieces(asked[c])[e + k], id |-> c]
  /\ \A k \in 1..Len(inbuf) : e + k = Len(Pieces(asked[c])) + 1 =>
       /\ inbuf[k].kind \in {"half", "first", "badline"} /\ c + 1 \in 1..Len(asked)
       /\ inbuf[k] = [kind |-> Pieces(asked[c + 1])[1], id |-> c + 1]

\* What is known of a place inside the c-th request.
LEMMA InsideIs ==
  ASSUME Typed, NEW s, NEW d \in Nat, NEW c \in Nat, NEW e \in Nat, Inside(s, d, c, e)
  PROVE  /\ asked \in Seq(RequestType) /\ asked[c] \in RequestType
         /\ Len(Pieces(asked[c])) \in Nat /\ Len(inbuf) \in Nat
         /\ Near(c, e)
<1>1. asked \in Seq(RequestType)
  BY RequestsAssumption DEF Typed
<1>2. PICK x \in Nat, l \in Nat : x = s[c] /\ l = Len(Pieces(asked[c])) /\ s[c + 1] = x + l /\ asked[c] \in RequestType
  BY <1>1, OffsetsIs DEF Inside
<1>3. PICK li \in Nat, lu \in Nat : li = Len(inbuf) /\ lu = Len(Coming) /\ li <= lu
  BY ComingIs
<1>4. \A k \in 1..li : Coming[k] = inbuf[k]
  BY <1>3, ComingIs
<1>5. /\ Offsets(asked, s) /\ d \in Nat /\ Stream(asked, s, Coming, d) /\ c \in 1..Len(asked)
      /\ e \in Nat /\ d = x + e
  BY <1>2 DEF Inside
<1>6. ASSUME NEW k \in 1..li, e + k <= l
      PROVE  inbuf[k] = [kind |-> Pieces(asked[c])[e + k], id |-> c]
  <2>1. e + k \in 1..l /\ k \in Nat \ {0} /\ d + k = x + (e + k)
    BY <1>5, <1>6
  <2>a. e + k \in 1..Len(Pieces(asked[c])) /\ d + k = s[c] + (e + k)
    BY <1>2, <2>1
  <2>2. Coming[k] = [kind |-> Pieces(asked[c])[e + k], id |-> c]
    BY <1>1, <1>5, <2>1, <2>a, TokenHere
  <2> QED
    BY <1>4, <2>2
<1>7. ASSUME NEW k \in 1..li, e + k = l + 1
      PROVE  /\ inbuf[k].kind \in {"half", "first", "badline"} /\ c + 1 \in 1..Len(asked)
             /\ inbuf[k] = [kind |-> Pieces(asked[c + 1])[1], id |-> c + 1]
  <2>1. k \in 1..lu /\ d + k = (x + l) + 1
    BY <1>3, <1>5, <1>7
  <2>2. /\ Coming[k].kind \in {"half", "first", "badline"} /\ c + 1 \in 1..Len(asked)
        /\ Coming[k] = [kind |-> Pieces(asked[c + 1])[1], id |-> c + 1]
    <3>1. k \in 1..Len(Coming) /\ d + k = s[c + 1] + 1 /\ Len(Coming) \in Nat
      BY <1>2, <1>3, <2>1
    <3> QED
      BY <1>1, <1>5, <3>1, TokenNext
  <2> QED
    BY <1>4, <2>2
<1>8. Near(c, e)
  BY <1>2, <1>3, <1>6, <1>7 DEF Near
<1> QED
  BY <1>1, <1>2, <1>3, <1>8

LineKinds == {"first", "headers", "end", "size", "last"}

\* The next line of a request none of whose lines is cut between CR and LF.
LEMMA LineHere ==
  ASSUME Typed, HasLine, NEW s, NEW d \in Nat, NEW c \in Nat, NEW e \in Nat, Inside(s, d, c, e), ~Crlf(asked[c]),
         NEW x \in LineKinds, LineAt(asked[c], e, x)
  PROVE  Line = [kind |-> x, id |-> c] /\ LineLen = 1 + Extra(asked[c], x)
<1>1. PICK r \in RequestType : r = asked[c]
  BY InsideIs
<1>2. PICK li \in Nat, l \in Nat : li = Len(inbuf) /\ l = Len(Pieces(r))
  BY <1>1, InsideIs
<1>3. /\ \A k \in 1..li : e + k <= l => inbuf[k] = [kind |-> Pieces(r)[e + k], id |-> c]
      /\ \A k \in 1..li : e + k = l + 1 => inbuf[k].kind \in {"half", "first", "badline"}
  <2>0. Near(c, e)
    BY InsideIs
  <2>1. \A k \in 1..Len(inbuf) : e + k <= Len(Pieces(asked[c])) =>
          inbuf[k] = [kind |-> Pieces(asked[c])[e + k], id |-> c]
    BY <2>0 DEF Near
  <2>2. \A k \in 1..Len(inbuf) : e + k = Len(Pieces(asked[c])) + 1 =>
          inbuf[k].kind \in {"half", "first", "badline"}
    BY <2>0 DEF Near
  <2>3. Len(inbuf) = li /\ Len(Pieces(asked[c])) = l /\ Pieces(asked[c]) = Pieces(r)
    BY <1>1, <1>2
  <2> QED
    BY <2>1, <2>2, <2>3
<1>4. e \in Nat /\ (r.torn = x => r.cut = "text") /\ x # "half" /\ x # "lf"
  <2>1. e \in Nat
    BY DEF Inside
  <2>2. x # "half" /\ x # "lf" /\ x # "none"
    BY DEF LineKinds
  <2>3. r.torn = "none" \/ r.cut = "text"
    BY <1>1 DEF Crlf, RequestType
  <2> QED
    BY <2>1, <2>2, <2>3
<1>5. \A j \in 1..l : Pieces(r)[j] # "lf"
  BY <1>1, <1>2, NoLf
<1>6. \A k \in 1..li : e + k <= l + 1 => inbuf[k].kind # "lf"
  <2> SUFFICES ASSUME NEW k \in 1..li, e + k <= l + 1 PROVE inbuf[k].kind # "lf"
    OBVIOUS
  <2>1. CASE e + k <= l
    <3>1. e + k \in 1..l
      BY <1>4, <2>1
    <3>2. inbuf[k] = [kind |-> Pieces(r)[e + k], id |-> c]
      BY <1>3, <2>1
    <3> QED
      BY <1>5, <3>1, <3>2
  <2>2. CASE e + k = l + 1
    BY <1>3, <2>2
  <2> QED
    BY <1>4, <2>1, <2>2
<1>7. inbuf \in Seq(Token(Len(asked)))
  BY DEF Typed
<1>8. Len(inbuf) > 0
  BY <1>2 DEF HasLine, Halves
<1>9. CASE r.torn = x
  <2>1. Extra(r, x) = 1 /\ e + 2 <= l /\ Pieces(r)[e + 1] = "half" /\ Pieces(r)[e + 2] = x
    BY <1>1, <1>2, <1>4, <1>9 DEF LineAt, LineIn, Extra
  <2>2. inbuf[1].kind = "half"
    <3>1. 1 \in 1..li /\ e + 1 <= l
      BY <1>2, <1>4, <1>8, <2>1
    <3>2. inbuf[1] = [kind |-> Pieces(r)[e + 1], id |-> c]
      BY <1>3, <3>1
    <3> QED
      BY <2>1, <3>2
  <2>3. Line = inbuf[2] /\ LineLen \in {2, 3} /\ 2 \in 1..li /\ (LineLen = 3 => 3 \in 1..li /\ inbuf[3].kind = "lf")
    BY <1>2, <1>7, <2>2, LineTorn
  <2>4. 3 \in 1..li => inbuf[3].kind # "lf"
    BY <1>4, <1>6, <2>1
  <2>5. LineLen = 2
    BY <2>3, <2>4
  <2>6. inbuf[2] = [kind |-> x, id |-> c]
    BY <1>3, <1>4, <2>1, <2>3
  <2> QED
    BY <1>1, <2>1, <2>3, <2>5, <2>6
<1>10. CASE r.torn # x
  <2>1. Extra(r, x) = 0 /\ e + 1 <= l /\ Pieces(r)[e + 1] = x
    BY <1>1, <1>2, <1>4, <1>10 DEF LineAt, LineIn, Extra
  <2>2. inbuf[1] = [kind |-> x, id |-> c]
    BY <1>2, <1>3, <1>4, <1>8, <2>1
  <2>3. inbuf[1].kind # "half"
    BY <1>4, <2>2
  <2>4. Line = inbuf[1] /\ LineLen \in {1, 2} /\ (LineLen = 2 => 2 \in 1..li /\ inbuf[2].kind = "lf")
    BY <1>2, <1>7, <2>3, LineWhole
  <2>5. 2 \in 1..li => inbuf[2].kind # "lf"
    BY <1>4, <1>6, <2>1
  <2>6. LineLen = 1
    BY <2>4, <2>5
  <2> QED
    BY <1>1, <2>1, <2>2, <2>4, <2>6
<1> QED
  BY <1>9, <1>10

\* A line that is one token.
LEMMA LineOdd ==
  ASSUME Typed, HasLine, NEW s, NEW d \in Nat, NEW c \in Nat, NEW e \in Nat, Inside(s, d, c, e),
         e < Len(Pieces(asked[c])), Pieces(asked[c])[e + 1] # "half"
  PROVE  /\ Line = [kind |-> Pieces(asked[c])[e + 1], id |-> c] /\ LineLen \in {1, 2}
         /\ LineLen = 2 => /\ e + 2 <= Len(Pieces(asked[c]))
                           /\ Pieces(asked[c])[e + 2] = "lf"
<1>1. PICK r \in RequestType : r = asked[c]
  BY InsideIs
<1>2. PICK li \in Nat, l \in Nat : li = Len(inbuf) /\ l = Len(Pieces(r))
  BY <1>1, InsideIs
<1>3. /\ \A k \in 1..li : e + k <= l => inbuf[k] = [kind |-> Pieces(r)[e + k], id |-> c]
      /\ \A k \in 1..li : e + k = l + 1 => inbuf[k].kind \in {"half", "first", "badline"}
  <2>0. Near(c, e)
    BY InsideIs
  <2>1. \A k \in 1..Len(inbuf) : e + k <= Len(Pieces(asked[c])) =>
          inbuf[k] = [kind |-> Pieces(asked[c])[e + k], id |-> c]
    BY <2>0 DEF Near
  <2>2. \A k \in 1..Len(inbuf) : e + k = Len(Pieces(asked[c])) + 1 =>
          inbuf[k].kind \in {"half", "first", "badline"}
    BY <2>0 DEF Near
  <2>3. Len(inbuf) = li /\ Len(Pieces(asked[c])) = l /\ Pieces(asked[c]) = Pieces(r)
    BY <1>1, <1>2
  <2> QED
    BY <2>1, <2>2, <2>3
<1>4. e \in Nat /\ e + 1 <= l
  <2>1. e \in Nat
    BY DEF Inside
  <2> QED
    BY <1>1, <1>2, <2>1
<1>5. Len(inbuf) > 0
  BY <1>2 DEF HasLine, Halves
<1>6. inbuf[1] = [kind |-> Pieces(r)[e + 1], id |-> c]
  BY <1>2, <1>3, <1>4, <1>5
<1>7. inbuf[1].kind # "half"
  BY <1>1, <1>6
<1>8. /\ Line = inbuf[1] /\ LineLen \in {1, 2}
      /\ LineLen = 2 => 2 \in 1..li /\ inbuf[2].kind = "lf"
  BY <1>2, <1>7, LineWhole DEF Typed
<1>9. ASSUME LineLen = 2 PROVE e + 2 <= l /\ Pieces(r)[e + 2] = "lf"
  <2>1. 2 \in 1..li /\ inbuf[2].kind = "lf"
    BY <1>8, <1>9
  <2>2. e + 2 # l + 1
    BY <1>3, <2>1
  <2>3. e + 2 <= l
    BY <1>4, <2>2
  <2>4. inbuf[2] = [kind |-> Pieces(r)[e + 2], id |-> c]
    BY <1>3, <2>1, <2>3
  <2> QED
    BY <2>1, <2>3, <2>4
<1> QED
  BY <1>1, <1>2, <1>6, <1>8, <1>9

\* The same in a request that is cut between CR and LF.
LEMMA LineCut ==
  ASSUME Typed, HasLine, NEW s, NEW d \in Nat, NEW c \in Nat, NEW e \in Nat, Inside(s, d, c, e), Crlf(asked[c]),
         e < Len(Pieces(asked[c]))
  PROVE  /\ Line = [kind |-> Pieces(asked[c])[e + 1], id |-> c] /\ LineLen \in {1, 2}
         /\ LineLen = 2 => /\ e + 2 <= Len(Pieces(asked[c]))
                           /\ Pieces(asked[c])[e + 2] = "lf"
<1>1. e \in Nat /\ Len(Pieces(asked[c])) \in Nat /\ asked[c] \in RequestType
  BY InsideIs DEF Inside
<1>2. e + 1 \in 1..Len(Pieces(asked[c]))
  BY <1>1
<1>3. Pieces(asked[c])[e + 1] # "half"
  BY <1>1, <1>2, NoHalf
<1> QED
  BY <1>3, LineOdd

\* The first line of a request.
LEMMA LineStart ==
  ASSUME Typed, HasLine, NEW s, NEW d \in Nat, NEW c \in Nat, Inside(s, d, c, 0)
  PROVE  /\ Line.id = c /\ Line.kind = IF asked[c].line = "bad" THEN "badline" ELSE "first"
         /\ asked[c].line # "bad" =>
              \/ LineLen = FirstEnd(asked[c])
              \/ Crlf(asked[c]) /\ LineLen = 1 /\ Len(Pieces(asked[c])) >= FirstEnd(asked[c]) + 1
<1>1. PICK r \in RequestType : r = asked[c]
  BY InsideIs
<1>2. Len(Pieces(r)) \in Nat /\ Len(Pieces(r)) >= 1
  BY FirstPiece
<1>3. CASE r.line = "bad"
  <2>1. Pieces(r)[0 + 1] = "badline" /\ 0 < Len(Pieces(r))
    BY <1>2, <1>3, OtherShapes
  <2>2. Line = [kind |-> Pieces(r)[0 + 1], id |-> c]
    BY <1>1, <2>1, LineOdd
  <2> QED
    BY <1>1, <1>3, <2>1, <2>2
<1>4. CASE r.line # "bad" /\ ~Crlf(r)
  <2>1. LineAt(r, 0, "first") /\ "first" \in LineKinds
    BY <1>4, OtherShapes DEF LineKinds
  <2>2. Line = [kind |-> "first", id |-> c] /\ LineLen = 1 + Extra(r, "first")
    BY <1>1, <1>4, <2>1, LineHere
  <2> QED
    BY <1>1, <1>4, <2>2 DEF FirstEnd
<1>5. CASE r.line # "bad" /\ Crlf(r)
  <2>0. "first" \in KindSet
    BY DEF KindSet
  <2>1. LineAt(r, 0, "first")
    BY <1>5, OtherShapes
  <2>2. Pieces(r)[0 + 1] = "first" /\ (Extra(r, "first") = 1 => Pieces(r)[0 + 2] = "lf")
    BY <1>5, <2>0, <2>1, CutLine
  <2>3. /\ Line = [kind |-> Pieces(r)[0 + 1], id |-> c] /\ LineLen \in {1, 2}
        /\ LineLen = 2 => 2 <= Len(Pieces(r)) /\ Pieces(r)[2] = "lf"
    BY <1>1, <1>2, <1>5, LineCut
  <2>4. Extra(r, "first") \in 0..1
    BY ExtraIs
  <2>5. Len(Pieces(r)) >= FirstEnd(r) + 1 /\ (Extra(r, "first") = 0 => Pieces(r)[2] # "lf")
    <3>1. CASE r.header = "bad"
      <4>1. Len(Pieces(r)) = FirstEnd(r) + 1 /\ Pieces(r)[FirstEnd(r) + 1] = "badheader"
        BY <1>5, <3>1, OtherShapes
      <4> QED
        BY <1>2, <2>4, <4>1 DEF FirstEnd
    <3>2. CASE r.header # "bad"
      <4>1. LineAt(r, FirstEnd(r), "headers") /\ FirstEnd(r) \in Nat /\ "headers" \in KindSet
        BY <1>5, <3>2, HeadShape, Ends DEF KindSet
      <4>2. FirstEnd(r) + 1 + Extra(r, "headers") <= Len(Pieces(r)) /\ Pieces(r)[FirstEnd(r) + 1] = "headers"
        BY <1>5, <4>1, CutLine
      <4>3. Extra(r, "headers") \in 0..1
        BY ExtraIs
      <4> QED
        BY <1>2, <2>4, <4>1, <4>2, <4>3 DEF FirstEnd
    <3> QED
      BY <3>1, <3>2
  <2>6. Line.kind = "first" /\ Line.id = c
    BY <2>2, <2>3
  <2>7. LineLen = 2 => FirstEnd(r) = 2
    BY <2>3, <2>4, <2>5 DEF FirstEnd
  <2> QED
    BY <1>1, <1>5, <2>3, <2>5, <2>6, <2>7
<1> QED
  BY <1>3, <1>4, <1>5

-----------------------------------------------------------------------------
(***************************************************************************)
(* Where the server is in the stream.  a stands for asked, q for req, st   *)
(* for state.  The current request is the c-th; what was used up before it *)
(* was begun is b tokens.  Of a request with a line that is cut between CR *)
(* and LF only bounds are known: the LF may be taken for an empty line.    *)
(***************************************************************************)
Unparsed(q) == q.conn = "none" /\ q.body = "none" /\ q.len = 0
Parsed(q, r) == q.conn = r.conn /\ q.body = r.body /\ q.len = r.len /\ r.header = "ok"

\* A body without an announced end takes all that comes.
Sink(q, st) == st = "READING_BODY" /\ ~q.chunked /\ q.ntoread < 0

HeadLen(r) == IF r.header = "bad" THEN FirstEnd(r) + 1 ELSE HeadEnd(r)
InHead(q, st, r) ==
  /\ st = "READING_HEADERS" /\ ~q.chunked
  /\ IF Crlf(r) THEN q.eaten >= 1 /\ q.eaten < HeadLen(r) /\ (Unparsed(q) \/ Parsed(q, r))
     ELSE \/ q.eaten = FirstEnd(r) /\ Unparsed(q)
          \/ q.eaten = HeadersEnd(r) /\ Parsed(q, r)

InPlain(q, st, r) ==
  /\ st = "READING_BODY" /\ ~q.chunked /\ q.ntoread >= 0
  /\ Parsed(q, r) /\ r.body = "length" /\ r.line = "post"
  /\ IF Crlf(r) THEN q.eaten >= 1 /\ q.eaten + q.ntoread <= Len(Pieces(r))
     ELSE q.ntoread = r.len /\ q.eaten = HeadEnd(r)

InChunks(q, st, r) ==
  /\ st = "READING_BODY" /\ q.chunked
  /\ Parsed(q, r) /\ r.body \in {"chunked", "badchunk"} /\ r.line = "post"
  /\ IF Crlf(r) THEN /\ q.eaten >= 1 /\ q.eaten <= Len(Pieces(r))
                     /\ q.ntoread >= 0 => q.eaten + q.ntoread <= Len(Pieces(r))
     ELSE \/ q.eaten = HeadEnd(r) /\ q.ntoread = -1
          \/ /\ r.body = "chunked" /\ r.len > 0
             /\ \/ q.eaten = SizeEnd(r) /\ q.ntoread = r.len
                \/ q.eaten = DataEnd(r) /\ q.ntoread = -1
                \/ q.eaten = ChunksEnd(r) /\ q.ntoread = -1

InTrailer(q, st, r) ==
  /\ st = "READING_TRAILER" /\ r.body = "chunked" /\ r.header = "ok" /\ r.line = "post"
  /\ IF Crlf(r) THEN q.eaten >= 1 /\ q.eaten < Len(Pieces(r)) ELSE q.eaten = LastEnd(r)

\* In the middle of the c-th request.
InRequest(a, q, st, s, b, c) ==
  /\ c \in 1..Len(a) /\ b = s[c]
  /\ q.uri /\ q.post = (a[c].line = "post") /\ a[c].line # "bad"
  /\ \/ Sink(q, st) \/ InHead(q, st, a[c]) \/ InPlain(q, st, a[c])
     \/ InChunks(q, st, a[c]) \/ InTrailer(q, st, a[c])

\* Before it: all of the previous one was used up, or it had a cut.
AtStart(a, q, s, b, c) ==
  /\ q = NewRequest /\ c \in 1..(Len(a) + 1)
  /\ \/ b = s[c]
     \/ /\ c - 1 \in 1..Len(a) /\ Crlf(a[c - 1])
        /\ s[c - 1] < b /\ b < s[c - 1] + Len(Pieces(a[c - 1]))

Ready(a, q, st, s, b, c) == IF st = "READING_FIRSTLINE" THEN AtStart(a, q, s, b, c)
                            ELSE InRequest(a, q, st, s, b, c)

\* All of it was read.
ReadAll(a, q, s, b, c) ==
  /\ c \in 1..Len(a) /\ b = s[c]
  /\ q.eaten >= 1 /\ q.eaten <= Len(Pieces(a[c]))
  /\ ~Crlf(a[c]) => q.eaten = Len(Pieces(a[c]))

\* An error is the fault of the request or of a cut.
Deserved(a, id, k) == \/ \E i \in 1..Len(a) : Crlf(a[i])
                      \/ id = k /\ k \in 1..Len(a) /\ Unacceptable(a[k])

\* Where a read leads to.
Outcome(p, a, q, st, s, b, c) ==
  \/ p = "fail" /\ Deserved(a, q.id, c)
  \/ p = "done" /\ ReadAll(a, q, s, b, c) /\ q.uri
  \/ p \notin {"fail", "done"} /\ Ready(a, q, st, s, b, c)

\* evhttp_read_firstline().
LEMMA FirstlineStep ==
  ASSUME WatchInv, Typed, ReadFirstline, NEW s, NEW b \in Nat, NEW c \in Nat,
         Offsets(asked, s), Stream(asked, s, Coming, b + req.eaten),
         Ready(asked, req, state, s, b, c)
  PROVE  /\ Outcome(pc', asked, req', state', s, b, c)
         /\ req'.uri => req'.id = c
<1>1. state = "READING_FIRSTLINE" /\ req \in RequestState
  BY DEF WatchInv, Watched, Places, Typed, ReadFirstline
<1>2. AtStart(asked, req, s, b, c)
  BY <1>1 DEF Ready
<1>3. req = NewRequest /\ req.eaten = 0 /\ ~req.uri /\ c \in 1..(Len(asked) + 1)
  BY <1>2 DEF AtStart, NewRequest
<1>4. asked \in Seq(RequestType)
  BY RequestsAssumption DEF Typed
<1>5. Stream(asked, s, Coming, b)
  BY <1>3
<1>6. CASE UNCHANGED <<state, req>> /\ pc' = "loop"
  BY <1>1, <1>2, <1>3, <1>6 DEF Outcome, Ready
<1>7. ASSUME HasLine, b = s[c]
      PROVE  Inside(s, b, c, 0)
  <2>1. PICK li \in Nat, lu \in Nat, n \in Nat : li = Len(inbuf) /\ lu = Len(Coming) /\ li <= lu /\ n = Len(asked)
    BY <1>4, ComingIs
  <2>2. li > 0
    BY <1>7, <2>1 DEF HasLine, Halves
  <2>3. b + lu = s[n + 1]
    BY <1>5, <2>1 DEF Stream
  <2>4. c # n + 1
    BY <1>7, <2>1, <2>2, <2>3
  <2>5. c \in 1..Len(asked)
    BY <1>3, <2>1, <2>4
  <2>6. b = s[c] + 0
    BY <1>7
  <2> QED
    BY <1>5, <2>5, <2>6 DEF Inside
<1>8. CASE HasLine /\ Line.kind = "first" /\ Eat(ParseRequestLine(Line)) /\ state' = "READING_HEADERS" /\ pc' = "header"
  <2>1. CASE b = s[c]
    <3>1. Inside(s, b, c, 0)
      BY <1>7, <1>8, <2>1
    <3>2. PICK r \in RequestType : r = asked[c]
      BY <3>1, InsideIs
    <3>3. Line.id = c /\ r.line # "bad"
      BY <1>8, <3>1, <3>2, LineStart
    <3>4. PICK l \in Nat, f \in Nat, n \in Nat : l = LineLen /\ f = FirstEnd(r) /\ n = Len(Pieces(r))
      <4>1. LineLen \in 1..Len(inbuf)
        BY <1>8, LineIs DEF Typed
      <4> QED
        BY <4>1, Ends, OtherShapes
    <3>5. l >= 1
      BY <1>8, <3>4, LineIs DEF Typed
    <3>6. l = f \/ (Crlf(r) /\ l = 1 /\ n >= f + 1)
      BY <1>8, <3>1, <3>2, <3>3, <3>4, LineStart
    <3>7. f >= 1 /\ f < HeadLen(r) /\ HeadLen(r) \in Nat
      <4>1. PICK x \in 0..1, y \in 0..1, z \in 0..1 : x = Extra(r, "first") /\ y = Extra(r, "headers") /\ z = Extra(r, "end")
        BY ExtraIs
      <4>2. f = 1 + x
        BY <3>4, <4>1 DEF FirstEnd
      <4>3. HeadersEnd(r) = f + 1 + y
        BY <3>4, <4>1 DEF HeadersEnd
      <4>4. HeadEnd(r) = f + 1 + y + 1 + z
        BY <4>1, <4>3 DEF HeadEnd
      <4> QED
        BY <3>4, <4>2, <4>4 DEF HeadLen
    <3>8. /\ req'.eaten = l /\ req'.uri /\ req'.post = (r.line = "post") /\ req'.id = c
          /\ Unparsed(req') /\ ~req'.chunked
      <4>1. req' = [ParseRequestLine(Line) EXCEPT !.eaten = @ + l]
        BY <1>8, <3>4 DEF Eat
      <4>2. ParseRequestLine(Line) = [NewRequest EXCEPT !.id = c, !.uri = TRUE, !.post = (r.line = "post"),
                                        !.major = 1, !.minor = r.minor, !.proxy = r.proxy]
        BY <1>3, <3>2, <3>3 DEF ParseRequestLine
      <4> QED
        BY <4>1, <4>2 DEF NewRequest, Unparsed
    <3>9. InHead(req', state', r)
      BY <1>8, <3>4, <3>5, <3>6, <3>7, <3>8 DEF InHead
    <3>10. InRequest(asked, req', state', s, b, c)
      BY <2>1, <3>1, <3>2, <3>3, <3>8, <3>9 DEF InRequest, Inside
    <3> QED
      BY <1>8, <3>8, <3>10 DEF Outcome, Ready
  <2>2. CASE /\ c - 1 \in 1..Len(asked) /\ Crlf(asked[c - 1])
             /\ s[c - 1] < b /\ b < s[c - 1] + Len(Pieces(asked[c - 1]))
    <3>1. PICK p \in Nat : p = c - 1 /\ p \in 1..Len(asked)
      BY <2>2
    <3>2. PICK x \in Nat, l \in Nat : x = s[p] /\ l = Len(Pieces(asked[p])) /\ asked[p] \in RequestType
      BY <1>4, <3>1, OffsetsIs
    <3>3. x < b /\ b < x + l
      BY <2>2, <3>1, <3>2
    <3>4. PICK e \in Nat : b = x + e /\ 0 < e /\ e < l
      <4>1. b - x \in Nat /\ b = x + (b - x) /\ 0 < b - x /\ b - x < l
        BY <3>3
      <4> QED
        BY <4>1
    <3>5. Inside(s, b, p, e)
      BY <1>5, <3>1, <3>2, <3>4 DEF Inside
    <3>6. Line.kind = Pieces(asked[p])[e + 1]
      <4>1. e < Len(Pieces(asked[p])) /\ Crlf(asked[p])
        BY <2>2, <3>1, <3>2, <3>4
      <4>2. Line = [kind |-> Pieces(asked[p])[e + 1], id |-> p]
        BY <1>8, <3>5, <4>1, LineCut
      <4> QED
        BY <4>2
    <3>7. e + 1 \in 2..Len(Pieces(asked[p]))
      BY <3>2, <3>4
    <3>8. Line.kind # "first"
      BY <2>2, <3>1, <3>2, <3>6, <3>7, FirstPiece
    <3> QED
      BY <1>8, <3>8
  <2> QED
    BY <1>2, <2>1, <2>2 DEF AtStart
<1>9. CASE HasLine /\ Line.kind # "first" /\ Eat([req EXCEPT !.id = Line.id]) /\ UNCHANGED state /\ pc' = "fail"
  <2>0. req'.id = Line.id /\ ~req'.uri
    BY <1>3, <1>9 DEF Eat, NewRequest
  <2>1. CASE b = s[c]
    <3>1. Inside(s, b, c, 0)
      BY <1>7, <1>9, <2>1
    <3>2. Line.id = c /\ asked[c].line = "bad"
      BY <1>9, <3>1, LineStart
    <3>3. Deserved(asked, req'.id, c)
      BY <2>0, <3>1, <3>2 DEF Deserved, Unacceptable, Inside
    <3> QED
      BY <1>9, <2>0, <3>3 DEF Outcome
  <2>2. CASE c - 1 \in 1..Len(asked) /\ Crlf(asked[c - 1])
    <3>1. Deserved(asked, req'.id, c)
      BY <2>2 DEF Deserved
    <3> QED
      BY <1>9, <2>0, <3>1 DEF Outcome
  <2> QED
    BY <1>2, <2>1, <2>2 DEF AtStart
<1> QED
  BY <1>6, <1>8, <1>9 DEF ReadFirstline, WaitForMore, Goto

\* The place of the server is inside the c-th request.
LEMMA HereIs ==
  ASSUME Typed, state # "freed", NEW s, NEW b \in Nat, NEW c \in Nat, Offsets(asked, s),
         Stream(asked, s, Coming, b + req.eaten), InRequest(asked, req, state, s, b, c)
  PROVE  /\ req \in RequestState /\ req.eaten \in Nat /\ b + req.eaten \in Nat
         /\ Inside(s, b + req.eaten, c, req.eaten)
         /\ asked[c] \in RequestType /\ c \in 1..Len(asked) /\ asked[c].line # "bad"
         /\ req.uri /\ req.post = (asked[c].line = "post") /\ b = s[c]
<1>1. req \in RequestState /\ req.eaten \in Nat
  BY DEF Typed, RequestState
<1>2. asked \in Seq(RequestType)
  BY RequestsAssumption DEF Typed
<1>3. /\ c \in 1..Len(asked) /\ b = s[c] /\ asked[c].line # "bad" /\ req.uri
      /\ req.post = (asked[c].line = "post")
  BY DEF InRequest
<1>4. Inside(s, b + req.eaten, c, req.eaten)
  <2>1. b + req.eaten = s[c] + req.eaten /\ b + req.eaten \in Nat
    BY <1>1, <1>3
  <2> QED
    BY <1>1, <1>3, <2>1 DEF Inside
<1> QED
  BY <1>1, <1>2, <1>3, <1>4

\* A line that is used up changes nothing else of the request.
LEMMA EatIs ==
  ASSUME Typed, HasLine, NEW q \in RequestState, Eat(q)
  PROVE  /\ LineLen \in Nat /\ LineLen >= 1 /\ q.eaten \in Nat
         /\ req'.eaten = q.eaten + LineLen /\ req'.uri = q.uri /\ req'.post = q.post
         /\ req'.id = q.id /\ req'.conn = q.conn /\ req'.body = q.body /\ req'.len = q.len
         /\ req'.chunked = q.chunked /\ req'.ntoread = q.ntoread
<1>1. LineLen \in 1..Len(inbuf) /\ Len(inbuf) \in Nat
  BY LineIs DEF Typed
<1>2. PICK l \in Nat : l = LineLen /\ l >= 1
  BY <1>1
<1>3. req' = [q EXCEPT !.eaten = q.eaten + l]
  BY <1>2 DEF Eat
<1> QED
  BY <1>2, <1>3 DEF RequestState

\* The head of a request is part of it.
LEMMA HeadFits ==
  ASSUME NEW r \in RequestType, r.line # "bad"
  PROVE  /\ HeadLen(r) \in Nat /\ Len(Pieces(r)) \in Nat /\ HeadLen(r) <= Len(Pieces(r))
         /\ r.header \in {"ok", "bad"}
<1>1. r.header \in {"ok", "bad"}
  BY DEF RequestType
<1>2. FirstEnd(r) \in Nat /\ HeadEnd(r) \in Nat /\ Len(Pieces(r)) \in Nat
  BY Ends, OtherShapes
<1>3. CASE r.header = "bad"
  <2>1. Len(Pieces(r)) = FirstEnd(r) + 1
    BY <1>3, OtherShapes
  <2> QED
    BY <1>1, <1>2, <1>3, <2>1 DEF HeadLen
<1>4. CASE r.header # "bad"
  <2>1. Len(Pieces(r)) = HeadEnd(r) + Len(Body(r))
    BY <1>4, HeadShape
  <2>2. Len(Body(r)) \in Nat
    BY PiecesKinds
  <2> QED
    BY <1>1, <1>2, <1>4, <2>1, <2>2 DEF HeadLen
<1> QED
  BY <1>3, <1>4

\* The next line of the head.
HeadLine(r, e, k, n) ==
  IF Crlf(r)
  THEN /\ k = "headers" => r.header = "ok" /\ e + n < HeadLen(r)
       /\ k \in Empty => e + n <= HeadLen(r)
  ELSE /\ e = FirstEnd(r) /\ r.header = "ok" => k = "headers" /\ e + n = HeadersEnd(r)
       /\ e = FirstEnd(r) /\ r.header = "bad" => k = "badheader"
       /\ e = HeadersEnd(r) /\ r.header = "ok" => k = "end" /\ e + n = HeadEnd(r)

\* The next line of the head of a request.
LEMMA HeadLineIs ==
  ASSUME Typed, HasLine, NEW s, NEW d \in Nat, NEW c \in Nat, NEW e \in Nat, Inside(s, d, c, e),
         asked[c].line # "bad", Crlf(asked[c]) => e < HeadLen(asked[c])
  PROVE  /\ HeadLine(asked[c], e, Line.kind, LineLen)
         /\ Crlf(asked[c]) \/ e = FirstEnd(asked[c]) => Line.id = c
<1>1. PICK r \in RequestType : r = asked[c]
  BY InsideIs
<1>2. /\ HeadLen(r) \in Nat /\ Len(Pieces(r)) \in Nat /\ HeadLen(r) <= Len(Pieces(r))
      /\ r.header \in {"ok", "bad"} /\ r.line # "bad"
  BY <1>1, HeadFits
<1>3. "headers" \in LineKinds /\ "end" \in LineKinds
  BY DEF LineKinds
<1>4. CASE Crlf(r)
  <2>1. e < Len(Pieces(r)) /\ e < HeadLen(r)
    BY <1>1, <1>2, <1>4
  <2>2. /\ Line = [kind |-> Pieces(r)[e + 1], id |-> c] /\ LineLen \in {1, 2}
        /\ LineLen = 2 => e + 2 <= Len(Pieces(r)) /\ Pieces(r)[e + 2] = "lf"
    BY <1>1, <1>4, <2>1, LineCut
  <2>3. PICK n \in {1, 2} : n = LineLen
    BY <2>2
  <2>4. PICK j \in Nat : j = e + 1
    OBVIOUS
  <2>5. /\ j + 1 = e + 2 /\ (n = 2 => j + 1 <= Len(Pieces(r)) /\ Pieces(r)[j + 1] = "lf")
        /\ j - 1 + n = e + n
    BY <2>2, <2>3, <2>4
  <2>6. CASE r.header = "ok"
    <3>1. j \in 1..HeadEnd(r) /\ r.header # "bad" /\ HeadLen(r) = HeadEnd(r)
      BY <1>2, <2>1, <2>4, <2>6 DEF HeadLen
    <3>2. j - 1 + n <= HeadEnd(r) /\ (Pieces(r)[j] = "headers" => j - 1 + n < HeadEnd(r))
      BY <1>2, <1>4, <2>5, <3>1, CutHead
    <3> QED
      BY <1>1, <1>4, <2>2, <2>3, <2>4, <2>5, <2>6, <3>1, <3>2 DEF HeadLine
  <2>7. CASE r.header = "bad"
    <3>1. PICK f \in Nat : f = FirstEnd(r)
      BY Ends
    <3>2. HeadLen(r) = f + 1
      BY <2>7, <3>1 DEF HeadLen
    <3>3. j \in 1..(FirstEnd(r) + 1)
      BY <2>1, <2>4, <3>1, <3>2
    <3>4. Pieces(r)[j] # "headers" /\ (Pieces(r)[j] \in Empty => j - 1 + n <= FirstEnd(r))
      BY <1>2, <1>4, <2>5, <2>7, <3>3, CutBad
    <3>5. Pieces(r)[j] \in Empty => e + n <= HeadLen(r)
      BY <2>5, <3>1, <3>2, <3>4
    <3> QED
      BY <1>1, <1>4, <2>2, <2>3, <2>4, <3>4, <3>5 DEF HeadLine
  <2> QED
    BY <1>2, <2>6, <2>7
<1>5. CASE ~Crlf(r)
  <2>1. ASSUME e = FirstEnd(r), r.header = "ok"
        PROVE  Line.kind = "headers" /\ e + LineLen = HeadersEnd(r) /\ Line.id = c
    <3>1. LineAt(r, e, "headers")
      BY <1>2, <2>1, HeadShape
    <3>2. Line = [kind |-> "headers", id |-> c] /\ LineLen = 1 + Extra(r, "headers")
      BY <1>1, <1>3, <1>5, <3>1, LineHere
    <3>3. Extra(r, "headers") \in 0..1
      BY ExtraIs
    <3> QED
      BY <2>1, <3>2, <3>3 DEF HeadersEnd
  <2>2. ASSUME e = FirstEnd(r), r.header = "bad"
        PROVE  Line.kind = "badheader" /\ Line.id = c
    <3>1. Len(Pieces(r)) = e + 1 /\ Pieces(r)[e + 1] = "badheader"
      BY <1>2, <2>2, OtherShapes
    <3>2. e < Len(Pieces(asked[c])) /\ Pieces(asked[c])[e + 1] # "half"
      BY <1>1, <3>1
    <3>3. Line = [kind |-> Pieces(asked[c])[e + 1], id |-> c]
      BY <3>2, LineOdd
    <3> QED
      BY <1>1, <3>1, <3>3
  <2>3. ASSUME e = HeadersEnd(r), r.header = "ok"
        PROVE  Line.kind = "end" /\ e + LineLen = HeadEnd(r)
    <3>1. LineAt(r, e, "end")
      BY <1>2, <2>3, HeadShape
    <3>2. Line = [kind |-> "end", id |-> c] /\ LineLen = 1 + Extra(r, "end")
      BY <1>1, <1>3, <1>5, <3>1, LineHere
    <3>3. Extra(r, "end") \in 0..1
      BY ExtraIs
    <3> QED
      BY <2>3, <3>2, <3>3 DEF HeadEnd
  <2> QED
    BY <1>1, <1>2, <1>5, <2>1, <2>2, <2>3 DEF HeadLine
<1> QED
  BY <1>4, <1>5

\* evhttp_read_header(), evhttp_get_body() included.
LEMMA HeaderStep ==
  ASSUME WatchInv, Typed, ReadHeader, NEW s, NEW b \in Nat, NEW c \in Nat,
         Offsets(asked, s), Stream(asked, s, Coming, b + req.eaten),
         Ready(asked, req, state, s, b, c), req.id = c
  PROVE  Outcome(pc', asked, req', state', s, b, c)
<1>1. state = "READING_HEADERS"
  BY DEF WatchInv, Places, ReadHeader
<1>2. InRequest(asked, req, state, s, b, c)
  BY <1>1 DEF Ready
<1>3. /\ req \in RequestState /\ req.eaten \in Nat /\ b + req.eaten \in Nat
      /\ Inside(s, b + req.eaten, c, req.eaten) /\ c \in 1..Len(asked)
      /\ req.uri /\ b = s[c]
  BY <1>1, <1>2, HereIs
<1>4. PICK r \in RequestType : r = asked[c] /\ r.line # "bad" /\ req.post = (r.line = "post")
  BY <1>1, <1>2, HereIs
<1>5. InHead(req, state, r)
  BY <1>1, <1>2, <1>4 DEF InRequest, Sink, InPlain, InChunks, InTrailer
<1>6. PICK e \in Nat : e = req.eaten
  BY <1>3
<1>7. /\ ~req.chunked
      /\ Crlf(r) => e >= 1 /\ e < HeadLen(r) /\ (Unparsed(req) \/ Parsed(req, r))
      /\ ~Crlf(r) => (e = FirstEnd(r) /\ Unparsed(req)) \/ (e = HeadersEnd(r) /\ Parsed(req, r))
  BY <1>5, <1>6 DEF InHead
<1>8. /\ HeadLen(r) \in Nat /\ Len(Pieces(r)) \in Nat /\ HeadLen(r) <= Len(Pieces(r))
      /\ r.header \in {"ok", "bad"} /\ r.body \in {"none", "length", "chunked", "badlength", "badchunk"}
  BY <1>4, HeadFits DEF RequestType
<1>9. CASE UNCHANGED <<state, req>> /\ pc' = "loop"
  BY <1>1, <1>2, <1>9 DEF Outcome, Ready
<1>10. ASSUME HasLine
       PROVE  /\ HeadLine(r, e, Line.kind, LineLen) /\ LineLen \in Nat /\ LineLen >= 1
              /\ Crlf(r) \/ e = FirstEnd(r) => Line.id = c
  <2>1. Inside(s, b + req.eaten, c, e) /\ asked[c].line # "bad" /\ (Crlf(asked[c]) => e < HeadLen(asked[c]))
    BY <1>3, <1>4, <1>6, <1>7
  <2>2. HeadLine(asked[c], e, Line.kind, LineLen) /\ (Crlf(asked[c]) \/ e = FirstEnd(asked[c]) => Line.id = c)
    BY <1>3, <1>10, <2>1, HeadLineIs
  <2>3. LineLen \in 1..Len(inbuf) /\ Len(inbuf) \in Nat
    BY <1>10, LineIs DEF Typed
  <2> QED
    BY <1>4, <2>2, <2>3
<1>11. ASSUME pc' = "fail", Crlf(r) \/ Unacceptable(r), req'.id = c
       PROVE  Outcome(pc', asked, req', state', s, b, c)
  <2>1. Deserved(asked, req'.id, c)
    BY <1>3, <1>4, <1>11 DEF Deserved
  <2> QED
    BY <1>11, <2>1 DEF Outcome
<1>12. CASE HasLine /\ Line.kind = "headers" /\ Eat(ParseHeaders(Line)) /\ UNCHANGED state /\ pc' = "header"
  <2>1. PICK n \in Nat : n = LineLen /\ n >= 1
    BY <1>10, <1>12
  <2>2. HeadLine(r, e, "headers", n)
    BY <1>10, <1>12, <2>1
  <2>3. r.header = "ok" /\ Line.id = c
    BY <1>7, <1>8, <1>10, <1>12, <2>2 DEF HeadLine, Parsed
  <2>4. PICK q \in RequestState : /\ q = ParseHeaders(Line) /\ q = [req EXCEPT !.conn = r.conn, !.body = r.body, !.len = r.len]
    <3>1. ParseHeaders(Line) = [req EXCEPT !.conn = r.conn, !.body = r.body, !.len = r.len]
      BY <1>4, <2>3 DEF ParseHeaders
    <3>2. [req EXCEPT !.conn = r.conn, !.body = r.body, !.len = r.len] \in RequestState
      BY <1>3 DEF RequestState, RequestType
    <3> QED
      BY <3>1, <3>2
  <2>5. /\ q.conn = r.conn /\ q.body = r.body /\ q.len = r.len /\ q.eaten = e /\ q.uri
        /\ q.post = req.post /\ ~q.chunked
    BY <1>3, <1>6, <1>7, <2>4 DEF RequestState
  <2>6. Eat(q)
    BY <1>12, <2>4
  <2>7. /\ req'.conn = r.conn /\ req'.body = r.body /\ req'.len = r.len /\ req'.eaten = e + n
        /\ req'.uri /\ req'.post = req.post /\ ~req'.chunked
    BY <1>12, <2>1, <2>5, <2>6, EatIs
  <2>8. Parsed(req', r)
    BY <2>3, <2>7 DEF Parsed
  <2>9. CASE Crlf(r)
    <3>1. e + n < HeadLen(r) /\ e + n >= 1
      BY <1>6, <2>1, <2>2, <2>9 DEF HeadLine
    <3>2. InHead(req', state', r)
      BY <1>1, <1>12, <2>7, <2>8, <2>9, <3>1 DEF InHead
    <3>3. InRequest(asked, req', state', s, b, c)
      BY <1>3, <1>4, <2>7, <3>2 DEF InRequest
    <3> QED
      BY <1>1, <1>12, <3>3 DEF Outcome, Ready
  <2>10. CASE ~Crlf(r)
    <3>1. e + n = HeadersEnd(r)
      BY <1>7, <2>2, <2>3, <2>10 DEF HeadLine
    <3>2. InHead(req', state', r)
      BY <1>1, <1>12, <2>7, <2>8, <2>10, <3>1 DEF InHead
    <3>3. InRequest(asked, req', state', s, b, c)
      BY <1>3, <1>4, <2>7, <3>2 DEF InRequest
    <3> QED
      BY <1>1, <1>12, <3>3 DEF Outcome, Ready
  <2> QED
    BY <2>9, <2>10
<1>13. CASE HasLine /\ Line.kind \notin Empty \cup {"headers"} /\ Eat(req) /\ UNCHANGED state /\ pc' = "fail"
  <2>1. req'.id = c
    BY <1>3, <1>13, EatIs
  <2>2. Crlf(r) \/ Unacceptable(r)
    BY <1>7, <1>8, <1>10, <1>13 DEF HeadLine, Empty, Unacceptable, Parsed
  <2> QED
    BY <1>11, <1>13, <2>1, <2>2
<1>14. CASE HasLine /\ Line.kind \in Empty /\ GetBody
  <2>1. PICK n \in Nat : n = LineLen /\ n >= 1
    BY <1>10, <1>14
  <2>2. HeadLine(r, e, Line.kind, n)
    BY <1>10, <1>14, <2>1
  <2>3. \/ Crlf(r) /\ e + n <= HeadLen(r) /\ e + n >= 1 /\ (Unparsed(req) \/ Parsed(req, r))
        \/ ~Crlf(r) /\ e + n = HeadEnd(r) /\ Parsed(req, r)
    BY <1>7, <1>8, <1>14, <2>1, <2>2 DEF HeadLine, Empty, Parsed
  <2>4. CASE ~req.post /\ Eat(req) /\ pc' = "done"
    <3>1. req'.eaten = e + n /\ req'.uri
      BY <1>3, <1>6, <1>14, <2>1, <2>4, EatIs
    <3>2. ~Crlf(r) => Len(Pieces(r)) = HeadEnd(r)
      <4>1. ~Crlf(r) => r.header # "bad" /\ r.line # "post"
        BY <1>4, <2>3, <2>4 DEF Parsed
      <4> QED
        BY <1>4, <4>1, OtherShapes
    <3>3. e + n >= 1 /\ e + n <= Len(Pieces(r)) /\ (~Crlf(r) => e + n = Len(Pieces(r)))
      BY <1>6, <1>8, <2>1, <2>3, <3>2
    <3>4. ReadAll(asked, req', s, b, c)
      BY <1>3, <1>4, <3>1, <3>3 DEF ReadAll
    <3> QED
      BY <2>4, <3>1, <3>4 DEF Outcome
  <2>5. CASE /\ req.post /\ state' = "READING_BODY" /\ req.body \in {"chunked", "badchunk"}
             /\ Eat([req EXCEPT !.chunked = TRUE, !.ntoread = -1]) /\ pc' = "body"
    <3>0. [req EXCEPT !.chunked = TRUE, !.ntoread = -1] \in RequestState
      <4>1. PICK x \in RequestState : x = [req EXCEPT !.chunked = TRUE]
        <5>1. [req EXCEPT !.chunked = TRUE] \in RequestState
          BY <1>3 DEF RequestState
        <5> QED
          BY <5>1
      <4>2. [x EXCEPT !.ntoread = -1] \in RequestState
        BY DEF RequestState
      <4> QED
        BY <4>1, <4>2
    <3>1. PICK q \in RequestState : q = [req EXCEPT !.chunked = TRUE, !.ntoread = -1]
      BY <3>0
    <3>2. /\ q.conn = req.conn /\ q.body = req.body /\ q.len = req.len /\ q.eaten = e /\ q.uri
          /\ q.post = req.post /\ q.chunked /\ q.ntoread = -1
      BY <1>3, <1>6, <3>1 DEF RequestState
    <3>3. Eat(q)
      BY <2>5, <3>1
    <3>4. /\ req'.conn = req.conn /\ req'.body = req.body /\ req'.len = req.len /\ req'.eaten = e + n
          /\ req'.uri /\ req'.post = req.post /\ req'.chunked /\ req'.ntoread = -1
      BY <1>14, <2>1, <3>2, <3>3, EatIs
    <3>5. Parsed(req, r)
      BY <2>3, <2>5 DEF Unparsed
    <3>6. Parsed(req', r) /\ r.body \in {"chunked", "badchunk"} /\ r.line = "post"
      BY <1>4, <2>5, <3>4, <3>5 DEF Parsed
    <3>7. Crlf(r) => e + n >= 1 /\ e + n <= Len(Pieces(r))
      BY <1>8, <2>3
    <3>8. InChunks(req', state', r)
      BY <2>3, <2>5, <3>4, <3>6, <3>7 DEF InChunks
    <3>9. InRequest(asked, req', state', s, b, c)
      BY <1>3, <1>4, <3>4, <3>8 DEF InRequest
    <3> QED
      BY <2>5, <3>9 DEF Outcome, Ready
  <2>6. CASE /\ req.post /\ state' = "READING_BODY" /\ req.body = "length"
             /\ Eat([req EXCEPT !.ntoread = req.len]) /\ pc' = "body"
    <3>0. [req EXCEPT !.ntoread = req.len] \in RequestState
      BY <1>3 DEF RequestState
    <3>1. PICK q \in RequestState : q = [req EXCEPT !.ntoread = req.len]
      BY <3>0
    <3>2. /\ q.conn = req.conn /\ q.body = req.body /\ q.len = req.len /\ q.eaten = e /\ q.uri
          /\ q.post = req.post /\ ~q.chunked /\ q.ntoread = req.len
      BY <1>3, <1>6, <1>7, <3>1 DEF RequestState
    <3>3. Eat(q)
      BY <2>6, <3>1
    <3>4. /\ req'.conn = req.conn /\ req'.body = req.body /\ req'.len = req.len /\ req'.eaten = e + n
          /\ req'.uri /\ req'.post = req.post /\ ~req'.chunked /\ req'.ntoread = req.len
      BY <1>14, <2>1, <3>2, <3>3, EatIs
    <3>5. Parsed(req, r)
      BY <2>3, <2>6 DEF Unparsed
    <3>6. Parsed(req', r) /\ r.body = "length" /\ r.line = "post" /\ r.header # "bad" /\ req.len = r.len
      BY <1>4, <2>6, <3>4, <3>5 DEF Parsed
    <3>7. Len(Pieces(r)) = HeadEnd(r) + r.len /\ HeadLen(r) = HeadEnd(r) /\ r.len \in 0..2 /\ HeadEnd(r) \in Nat
      BY <1>4, <3>6, OtherShapes, Ends DEF HeadLen
    <3>8. Crlf(r) => e + n >= 1 /\ (e + n) + r.len <= Len(Pieces(r))
      BY <1>6, <2>1, <2>3, <3>7
    <3>9. InPlain(req', state', r)
      BY <2>3, <2>6, <3>4, <3>6, <3>7, <3>8 DEF InPlain
    <3>10. InRequest(asked, req', state', s, b, c)
      BY <1>3, <1>4, <3>4, <3>9 DEF InRequest
    <3> QED
      BY <2>6, <3>10 DEF Outcome, Ready
  <2>7. CASE /\ req.post /\ state' = "READING_BODY"
             /\ Eat([req EXCEPT !.ntoread = -1]) /\ pc' = "body"
    <3>0. [req EXCEPT !.ntoread = -1] \in RequestState
      BY <1>3 DEF RequestState
    <3>1. PICK q \in RequestState : q = [req EXCEPT !.ntoread = -1]
      BY <3>0
    <3>2. q.uri /\ q.post = req.post /\ ~q.chunked /\ q.ntoread = -1
      BY <1>3, <1>7, <3>1 DEF RequestState
    <3>3. Eat(q)
      BY <2>7, <3>1
    <3>4. req'.uri /\ req'.post = req.post /\ ~req'.chunked /\ req'.ntoread = -1
      BY <1>14, <3>2, <3>3, EatIs
    <3>5. Sink(req', state')
      BY <2>7, <3>4 DEF Sink
    <3>6. InRequest(asked, req', state', s, b, c)
      BY <1>3, <1>4, <3>4, <3>5 DEF InRequest
    <3> QED
      BY <2>7, <3>6 DEF Outcome, Ready
  <2>8. CASE /\ req.post /\ (req.body = "badlength" \/ (req.body = "none" /\ req.conn = "keep"))
             /\ Eat(req) /\ pc' = "fail"
    <3>1. req'.id = c
      BY <1>3, <1>14, <2>8, EatIs
    <3>2. Crlf(r) \/ Unacceptable(r)
      BY <1>4, <2>3, <2>8 DEF Unacceptable, Parsed
    <3> QED
      BY <1>11, <2>8, <3>1, <3>2
  <2> QED
    BY <1>14, <2>4, <2>5, <2>6, <2>7, <2>8 DEF GetBody, Goto
<1> QED
  BY <1>9, <1>12, <1>13, <1>14 DEF ReadHeader, WaitForMore, Goto

\* Bytes of a body that are used up change nothing else of the request.
LEMMA TakeIs ==
  ASSUME req \in RequestState, NEW n \in Nat, NEW m, Take(n, m)
  PROVE  /\ req'.eaten = req.eaten + n /\ req'.ntoread = m /\ req'.uri = req.uri
         /\ req'.post = req.post /\ req'.id = req.id /\ req'.conn = req.conn
         /\ req'.body = req.body /\ req'.len = req.len /\ req'.chunked = req.chunked
<1>1. req' = [req EXCEPT !.eaten = req.eaten + n, !.ntoread = m]
  BY DEF Take
<1> QED
  BY <1>1 DEF RequestState

\* evhttp_read_body() for a body that is not chunked.
LEMMA PlainStep ==
  ASSUME WatchInv, Typed, ReadPlainBody, NEW s, NEW b \in Nat, NEW c \in Nat,
         Offsets(asked, s), Stream(asked, s, Coming, b + req.eaten),
         Ready(asked, req, state, s, b, c)
  PROVE  Outcome(pc', asked, req', state', s, b, c)
<1>1. state = "READING_BODY" /\ ~req.chunked /\ state' = state
  BY DEF WatchInv, Places, ReadPlainBody
<1>2. InRequest(asked, req, state, s, b, c)
  BY <1>1 DEF Ready
<1>3. req \in RequestState /\ req.eaten \in Nat /\ c \in 1..Len(asked) /\ req.uri /\ b = s[c]
  BY <1>1, <1>2, HereIs
<1>4. PICK r \in RequestType : r = asked[c] /\ r.line # "bad" /\ req.post = (r.line = "post")
  BY <1>1, <1>2, HereIs
<1>5. Sink(req, state) \/ InPlain(req, state, r)
  BY <1>1, <1>2, <1>4 DEF InRequest, InHead, InChunks, InTrailer
<1>6. CASE req.ntoread < 0 /\ Take(Len(inbuf), -1) /\ pc' = "loop"
  <2>1. Len(inbuf) \in Nat
    BY DEF Typed
  <2>2. req'.ntoread = -1 /\ req'.uri /\ req'.post = req.post /\ ~req'.chunked
    BY <1>1, <1>3, <1>6, <2>1, TakeIs
  <2>3. Sink(req', state')
    BY <1>1, <2>2 DEF Sink
  <2>4. InRequest(asked, req', state', s, b, c)
    BY <1>3, <1>4, <2>2, <2>3 DEF InRequest
  <2> QED
    BY <1>1, <1>6, <2>4 DEF Outcome, Ready
<1>7. CASE req.ntoread >= 0 /\ Take(req.ntoread, 0) /\ pc' = "done"
  <2>1. InPlain(req, state, r)
    BY <1>3, <1>5, <1>7 DEF Sink, RequestState
  <2>2. PICK n \in Nat, e \in Nat : n = req.ntoread /\ e = req.eaten
    BY <1>3, <1>7 DEF RequestState
  <2>3. req'.eaten = e + n /\ req'.uri
    BY <1>3, <1>7, <2>2, TakeIs
  <2>4. r.header # "bad" /\ r.body = "length" /\ r.line = "post"
    BY <2>1 DEF InPlain, Parsed
  <2>5. PICK h \in Nat, l \in Nat : h = HeadEnd(r) /\ l = r.len /\ Len(Pieces(r)) = h + l /\ h >= 1
    <3>1. Len(Pieces(r)) = HeadEnd(r) + r.len
      BY <1>4, <2>4, OtherShapes
    <3>2. HeadEnd(r) \in Nat /\ HeadersEnd(r) \in Nat /\ r.len \in 0..2 /\ Extra(r, "end") \in 0..1
      BY Ends, ExtraIs
    <3>3. HeadEnd(r) >= 1
      BY <3>2 DEF HeadEnd
    <3> QED
      BY <3>1, <3>2, <3>3
  <2>6. e + n >= 1 /\ e + n <= Len(Pieces(r)) /\ (~Crlf(r) => e + n = Len(Pieces(r)))
    BY <2>1, <2>2, <2>5 DEF InPlain
  <2>7. ReadAll(asked, req', s, b, c)
    BY <1>3, <1>4, <2>3, <2>6 DEF ReadAll
  <2> QED
    BY <1>7, <2>3, <2>7 DEF Outcome
<1>8. CASE UNCHANGED req /\ pc' = "loop"
  BY <1>1, <1>2, <1>8 DEF Outcome, Ready
<1> QED
  BY <1>6, <1>7, <1>8 DEF ReadPlainBody, WaitForMore, Goto

\* evhttp_read_trailer().
LEMMA TrailerStep ==
  ASSUME WatchInv, Typed, ReadTrailer, NEW s, NEW b \in Nat, NEW c \in Nat,
         Offsets(asked, s), Stream(asked, s, Coming, b + req.eaten),
         Ready(asked, req, state, s, b, c)
  PROVE  Outcome(pc', asked, req', state', s, b, c)
<1>1. state = "READING_TRAILER" /\ state' = state
  BY DEF WatchInv, Places, ReadTrailer
<1>2. InRequest(asked, req, state, s, b, c)
  BY <1>1 DEF Ready
<1>3. /\ req \in RequestState /\ req.eaten \in Nat /\ b + req.eaten \in Nat
      /\ Inside(s, b + req.eaten, c, req.eaten) /\ c \in 1..Len(asked) /\ req.uri /\ b = s[c]
  BY <1>1, <1>2, HereIs
<1>4. PICK r \in RequestType : r = asked[c]
  BY <1>1, <1>2, HereIs
<1>5. InTrailer(req, state, r)
  BY <1>1, <1>2, <1>4 DEF InRequest, Sink, InHead, InPlain, InChunks
<1>6. CASE UNCHANGED req /\ pc' = "loop"
  BY <1>1, <1>2, <1>6 DEF Outcome, Ready
<1>7. CASE HasLine /\ Eat(req) /\ pc' = IF Line.kind \in Empty THEN "done" ELSE "fail"
  <2>1. PICK e \in Nat, l \in Nat : e = req.eaten /\ l = Len(Pieces(r))
    BY <1>3, OtherShapes
  <2>2. Inside(s, b + req.eaten, c, e)
    BY <1>3, <2>1
  <2>3. r.body = "chunked" /\ r.header # "bad" /\ r.line = "post"
    BY <1>5 DEF InTrailer
  <2>4. req'.eaten = e + LineLen /\ req'.uri /\ LineLen \in Nat
    BY <1>3, <1>7, <2>1, EatIs
  <2>5. CASE Crlf(r)
    <3>1. e >= 1 /\ e < l
      BY <1>5, <2>1, <2>5 DEF InTrailer
    <3>2. e < Len(Pieces(asked[c])) /\ Crlf(asked[c])
      BY <1>4, <2>1, <2>5, <3>1
    <3>3. LineLen \in {1, 2} /\ (LineLen = 2 => e + 2 <= Len(Pieces(asked[c])))
      BY <1>3, <1>7, <2>2, <3>2, LineCut
    <3>4. e + LineLen >= 1 /\ e + LineLen <= l
      BY <1>4, <2>1, <3>1, <3>3
    <3>5. ReadAll(asked, req', s, b, c)
      BY <1>3, <1>4, <2>1, <2>4, <2>5, <3>4 DEF ReadAll
    <3>6. Deserved(asked, req'.id, c)
      BY <1>3, <3>2 DEF Deserved
    <3> QED
      BY <1>7, <2>4, <3>5, <3>6 DEF Outcome
  <2>6. CASE ~Crlf(r)
    <3>1. e = LastEnd(r) /\ LineAt(r, e, "end") /\ l = LastEnd(r) + 1 + Extra(r, "end")
      BY <1>5, <2>1, <2>3, <2>6, ChunkedShape DEF InTrailer
    <3>2. "end" \in LineKinds /\ "end" \in Empty
      BY DEF LineKinds, Empty
    <3>3. LineAt(asked[c], e, "end") /\ ~Crlf(asked[c])
      BY <1>4, <2>6, <3>1
    <3>4. Line = [kind |-> "end", id |-> c] /\ LineLen = 1 + Extra(r, "end")
      BY <1>3, <1>4, <1>7, <2>2, <3>2, <3>3, LineHere
    <3>5. Extra(r, "end") \in 0..1
      BY ExtraIs
    <3>6. e + LineLen = l /\ e + LineLen >= 1
      BY <2>1, <3>1, <3>4, <3>5
    <3>7. ReadAll(asked, req', s, b, c)
      BY <1>3, <1>4, <2>1, <2>4, <3>6 DEF ReadAll
    <3> QED
      BY <1>7, <2>4, <3>2, <3>4, <3>7 DEF Outcome
  <2> QED
    BY <2>5, <2>6
<1> QED
  BY <1>6, <1>7 DEF ReadTrailer, WaitForMore, Goto

\* Only a chunked body has sizes of chunks.
LEMMA NoChunk ==
  ASSUME NEW r \in RequestType, r.line = "post", r.header = "ok", r.body = "badchunk"
  PROVE  \A j \in 1..Len(Pieces(r)) : Pieces(r)[j] \notin {"size", "last"}
<1> DEFINE K == KindSet \ {"size", "last"}
<1>1. {"first", "headers", "end", "badsize", "half", "lf"} \subseteq K
  BY DEF KindSet
<1> HIDE DEF K
<1>2. \A x \in {"first", "headers", "end"} : InLine(r, x) \in Seq(K)
  BY <1>1 DEF InLine
<1>3. PICK u \in Seq(K), v \in Seq(K), w \in Seq(K) :
        u = InLine(r, "first") /\ v = InLine(r, "headers") /\ w = InLine(r, "end")
  BY <1>2
<1>4. PICK x \in Seq(K) : x = <<"badsize">>
  <2>1. "badsize" \in K
    BY <1>1
  <2>2. <<"badsize">> \in Seq(K)
    BY <2>1
  <2> QED
    BY <2>2
<1>5. Pieces(r) = u \o ((v \o w) \o x)
  BY <1>3, <1>4 DEF Pieces, Body
<1>6. Pieces(r) \in Seq(K)
  <2>1. PICK y \in Seq(K) : y = v \o w
    BY Cat
  <2>2. PICK z \in Seq(K) : z = y \o x
    BY Cat
  <2>3. u \o z \in Seq(K)
    BY Cat
  <2> QED
    BY <1>5, <2>1, <2>2, <2>3
<1>7. \A j \in 1..Len(Pieces(r)) : Pieces(r)[j] \in K
  BY <1>6
<1> QED
  BY <1>7 DEF K

\* The next line of a chunked body.
ChunkLine(r, e, k, n) ==
  IF Crlf(r)
  THEN /\ k = "size" => r.body = "chunked" /\ e + n + r.len <= Len(Pieces(r))
       /\ k = "last" => r.body = "chunked" /\ e + n < Len(Pieces(r))
       /\ k \in Empty => e + n <= Len(Pieces(r))
  ELSE /\ e = HeadEnd(r) /\ r.body = "badchunk" => k = "badsize"
       /\ e = HeadEnd(r) /\ r.body = "chunked" /\ r.len > 0 => k = "size" /\ e + n = SizeEnd(r)
       /\ e = HeadEnd(r) /\ r.body = "chunked" /\ r.len = 0 => k = "last" /\ e + n = LastEnd(r)
       /\ e = DataEnd(r) /\ r.body = "chunked" /\ r.len > 0 => k = "end" /\ e + n = ChunksEnd(r)
       /\ e = ChunksEnd(r) /\ r.body = "chunked" /\ r.len > 0 => k = "last" /\ e + n = LastEnd(r)

\* The next line of a chunked body.
LEMMA ChunkLineIs ==
  ASSUME Typed, HasLine, NEW s, NEW d \in Nat, NEW c \in Nat, NEW e \in Nat, Inside(s, d, c, e),
         asked[c].line = "post", asked[c].header = "ok", asked[c].body \in {"chunked", "badchunk"},
         Crlf(asked[c]) => e <= Len(Pieces(asked[c]))
  PROVE  ChunkLine(asked[c], e, Line.kind, LineLen)
<1>1. PICK r \in RequestType : r = asked[c]
  BY InsideIs
<1>2. PICK l \in Nat : l = Len(Pieces(r))
  BY OtherShapes
<1>3. r.line = "post" /\ r.header = "ok" /\ r.body \in {"chunked", "badchunk"} /\ r.header # "bad"
  BY <1>1
<1>4. "size" \in LineKinds /\ "last" \in LineKinds /\ "end" \in LineKinds
  BY DEF LineKinds
<1>5. CASE Crlf(r) /\ e < l
  <2>1. /\ Line = [kind |-> Pieces(r)[e + 1], id |-> c] /\ LineLen \in {1, 2}
        /\ LineLen = 2 => e + 2 <= Len(Pieces(r)) /\ Pieces(r)[e + 2] = "lf"
    BY <1>1, <1>2, <1>5, LineCut
  <2>2. PICK n \in {1, 2} : n = LineLen
    BY <2>1
  <2>3. PICK j \in Nat : j = e + 1
    OBVIOUS
  <2>4. /\ j + 1 = e + 2 /\ (n = 2 => j + 1 <= Len(Pieces(r)) /\ Pieces(r)[j + 1] = "lf")
        /\ j - 1 + n = e + n /\ j \in 1..Len(Pieces(r)) /\ e + n <= l
    BY <1>2, <1>5, <2>1, <2>2, <2>3
  <2>5. CASE r.body = "chunked"
    <3>1. /\ Pieces(r)[j] = "size" => j - 1 + n + r.len <= Len(Pieces(r))
          /\ Pieces(r)[j] = "last" => j - 1 + n < Len(Pieces(r))
      BY <1>3, <1>5, <2>4, <2>5, CutChunks
    <3>2. r.len \in 0..2
      BY Ends
    <3>3. /\ Pieces(r)[j] = "size" => e + n + r.len <= Len(Pieces(r))
          /\ Pieces(r)[j] = "last" => e + n < Len(Pieces(r))
      BY <2>4, <3>1, <3>2
    <3> QED
      BY <1>1, <1>2, <1>5, <2>1, <2>2, <2>3, <2>4, <2>5, <3>3 DEF ChunkLine
  <2>6. CASE r.body = "badchunk"
    <3>1. Pieces(r)[j] \notin {"size", "last"}
      BY <1>3, <2>4, <2>6, NoChunk
    <3> QED
      BY <1>1, <1>2, <1>5, <2>1, <2>2, <2>3, <2>4, <3>1 DEF ChunkLine
  <2> QED
    BY <1>3, <2>5, <2>6
<1>6. CASE Crlf(r) /\ e = l
  <2>1. Near(c, e) /\ Len(inbuf) \in Nat
    BY InsideIs
  <2>2. 1 \in 1..Len(inbuf)
    BY <2>1 DEF HasLine, Halves
  <2>3. e + 1 = Len(Pieces(asked[c])) + 1
    BY <1>1, <1>2, <1>6
  <2>4. PICK m \in Nat : m = c + 1 /\ m \in 1..Len(asked)
    BY <2>1, <2>2, <2>3 DEF Near
  <2>5. asked \in Seq(RequestType) /\ Offsets(asked, s) /\ Stream(asked, s, Coming, d)
        /\ c \in 1..Len(asked) /\ d = s[c] + e
    BY RequestsAssumption DEF Typed, Inside
  <2>6. s[m] = s[c] + Len(Pieces(asked[c])) /\ s[m] \in Nat
    BY <2>4, <2>5, OffsetsIs
  <2>7. d = s[m] + 0
    BY <1>1, <1>2, <1>6, <2>5, <2>6
  <2>8. Inside(s, d, m, 0)
    BY <2>4, <2>5, <2>7 DEF Inside
  <2>9. Line.kind \in {"first", "badline"}
    BY <2>8, LineStart
  <2> QED
    BY <1>1, <1>6, <2>9 DEF ChunkLine, Empty
<1>7. CASE ~Crlf(r)
  <2>1. ASSUME NEW x \in LineKinds, LineAt(r, e, x)
        PROVE  Line.kind = x /\ LineLen = 1 + Extra(r, x) /\ Extra(r, x) \in 0..1
    <3>1. LineAt(asked[c], e, x) /\ ~Crlf(asked[c])
      BY <1>1, <1>7, <2>1
    <3>2. Line = [kind |-> x, id |-> c] /\ LineLen = 1 + Extra(asked[c], x)
      BY <3>1, LineHere
    <3> QED
      BY <1>1, <3>2, ExtraIs
  <2>2. ASSUME e = HeadEnd(r), r.body = "badchunk" PROVE Line.kind = "badsize"
    <3>1. Len(Pieces(r)) = e + 1 /\ Pieces(r)[e + 1] = "badsize"
      BY <1>3, <2>2, OtherShapes
    <3>2. e < Len(Pieces(asked[c])) /\ Pieces(asked[c])[e + 1] # "half"
      BY <1>1, <3>1
    <3>3. Line = [kind |-> Pieces(asked[c])[e + 1], id |-> c]
      BY <3>2, LineOdd
    <3> QED
      BY <1>1, <3>1, <3>3
  <2>3. ASSUME r.body = "chunked", r.len > 0
        PROVE  /\ e = HeadEnd(r) => Line.kind = "size" /\ e + LineLen = SizeEnd(r)
               /\ e = DataEnd(r) => Line.kind = "end" /\ e + LineLen = ChunksEnd(r)
    <3>1. r.len # 0 /\ LineAt(r, HeadEnd(r), "size") /\ LineAt(r, DataEnd(r), "end")
      <4>1. r.len # 0
        BY <2>3, Ends
      <4> QED
        BY <1>3, <2>3, <4>1, ChunkedShape
    <3>2. CASE e = HeadEnd(r)
      <4>1. Line.kind = "size" /\ LineLen = 1 + Extra(r, "size") /\ Extra(r, "size") \in 0..1
        BY <1>4, <2>1, <3>1, <3>2
      <4>2. e + LineLen = SizeEnd(r)
        BY <3>2, <4>1 DEF SizeEnd
      <4>3. e # DataEnd(r)
        <5>1. PICK h \in Nat, n \in Nat, x \in 0..1 : h = HeadEnd(r) /\ n = r.len /\ x = Extra(r, "size")
          BY Ends, <4>1
        <5>2. SizeEnd(r) = h + 1 + x
          BY <5>1 DEF SizeEnd
        <5>3. DataEnd(r) = h + 1 + x + n
          BY <5>1, <5>2 DEF DataEnd
        <5>4. h # h + 1 + x + n
          OBVIOUS
        <5> QED
          BY <3>2, <5>1, <5>3, <5>4
      <4> QED
        BY <4>1, <4>2, <4>3
    <3>3. CASE e # HeadEnd(r) /\ e = DataEnd(r)
      <4>1. Line.kind = "end" /\ LineLen = 1 + Extra(r, "end") /\ Extra(r, "end") \in 0..1
        BY <1>4, <2>1, <3>1, <3>3
      <4>2. ChunksEnd(r) = DataEnd(r) + 1 + Extra(r, "end")
        BY <3>1 DEF ChunksEnd
      <4>3. e + LineLen = ChunksEnd(r)
        BY <3>3, <4>1, <4>2
      <4> QED
        BY <3>3, <4>1, <4>3
    <3> QED
      BY <3>2, <3>3
  <2>4. ASSUME r.body = "chunked", e = ChunksEnd(r)
        PROVE  Line.kind = "last" /\ e + LineLen = LastEnd(r)
    <3>1. LineAt(r, e, "last")
      BY <1>3, <2>4, ChunkedShape
    <3>2. Line.kind = "last" /\ LineLen = 1 + Extra(r, "last") /\ Extra(r, "last") \in 0..1
      BY <1>4, <2>1, <3>1
    <3> QED
      BY <2>4, <3>2 DEF LastEnd
  <2>5. r.len = 0 => ChunksEnd(r) = HeadEnd(r)
    BY DEF ChunksEnd
  <2> QED
    BY <1>1, <1>7, <2>2, <2>3, <2>4, <2>5 DEF ChunkLine
<1> QED
  BY <1>1, <1>2, <1>5, <1>6, <1>7

\* A turn of evhttp_handle_chunked_read().
LEMMA ChunkStep ==
  ASSUME WatchInv, Typed, ReadChunk, NEW s, NEW b \in Nat, NEW c \in Nat,
         Offsets(asked, s), Stream(asked, s, Coming, b + req.eaten),
         Ready(asked, req, state, s, b, c), req.id = c
  PROVE  Outcome(pc', asked, req', state', s, b, c)
<1>1. state = "READING_BODY" /\ req.chunked
  BY DEF WatchInv, Places, ReadChunk
<1>2. InRequest(asked, req, state, s, b, c)
  BY <1>1 DEF Ready
<1>3. /\ req \in RequestState /\ req.eaten \in Nat /\ b + req.eaten \in Nat
      /\ Inside(s, b + req.eaten, c, req.eaten) /\ c \in 1..Len(asked)
      /\ req.uri /\ b = s[c]
  BY <1>1, <1>2, HereIs
<1>4. PICK r \in RequestType : r = asked[c] /\ req.post = (r.line = "post")
  BY <1>1, <1>2, HereIs
<1>5. InChunks(req, state, r)
  BY <1>1, <1>2, <1>4 DEF InRequest, Sink, InPlain, InHead, InTrailer
<1>6. PICK e \in Nat, l \in Nat : e = req.eaten /\ l = Len(Pieces(r))
  BY <1>3, OtherShapes
<1>7. /\ Parsed(req, r) /\ r.body \in {"chunked", "badchunk"} /\ r.line = "post" /\ r.header = "ok"
      /\ req.len = r.len
      /\ Crlf(r) => e >= 1 /\ e <= l /\ (req.ntoread >= 0 => e + req.ntoread <= l)
      /\ ~Crlf(r) => \/ e = HeadEnd(r) /\ req.ntoread = -1
                     \/ /\ r.body = "chunked" /\ r.len > 0
                        /\ \/ e = SizeEnd(r) /\ req.ntoread = r.len
                           \/ e = DataEnd(r) /\ req.ntoread = -1
                           \/ e = ChunksEnd(r) /\ req.ntoread = -1
  BY <1>5, <1>6 DEF InChunks, Parsed
<1>8. r.len \in 0..2 /\ req.ntoread \in -1..2
  BY <1>3, Ends DEF RequestState
<1>9. ASSUME pc' \notin {"done", "fail"}, state' # "READING_FIRSTLINE", req'.uri, req'.post = req.post,
             InChunks(req', state', r) \/ InTrailer(req', state', r)
      PROVE  Outcome(pc', asked, req', state', s, b, c)
  <2>1. InRequest(asked, req', state', s, b, c)
    BY <1>3, <1>4, <1>7, <1>9 DEF InRequest
  <2> QED
    BY <1>9, <2>1 DEF Outcome, Ready
<1>10. ASSUME HasLine, req.ntoread < 0
       PROVE  ChunkLine(r, e, Line.kind, LineLen) /\ LineLen \in Nat /\ LineLen >= 1
  <2>1. /\ Inside(s, b + req.eaten, c, e) /\ asked[c].line = "post" /\ asked[c].header = "ok"
        /\ asked[c].body \in {"chunked", "badchunk"} /\ (Crlf(asked[c]) => e <= Len(Pieces(asked[c])))
    BY <1>3, <1>4, <1>6, <1>7
  <2>2. ChunkLine(asked[c], e, Line.kind, LineLen)
    BY <1>3, <1>10, <2>1, ChunkLineIs
  <2>3. LineLen \in 1..Len(inbuf) /\ Len(inbuf) \in Nat
    BY <1>10, LineIs DEF Typed
  <2> QED
    BY <1>4, <2>2, <2>3
<1>11. CASE /\ HasLine /\ req.ntoread < 0 /\ Line.kind = "size"
            /\ Eat([req EXCEPT !.ntoread = req.len]) /\ UNCHANGED state /\ pc' = "body"
  <2>1. PICK n \in Nat : n = LineLen /\ n >= 1
    BY <1>10, <1>11
  <2>2. ChunkLine(r, e, "size", n)
    BY <1>10, <1>11, <2>1
  <2>3. [req EXCEPT !.ntoread = req.len] \in RequestState
    BY <1>3 DEF RequestState
  <2>4. PICK q \in RequestState : q = [req EXCEPT !.ntoread = req.len]
    BY <2>3
  <2>5. /\ q.conn = req.conn /\ q.body = req.body /\ q.len = req.len /\ q.eaten = e /\ q.uri
        /\ q.post = req.post /\ q.chunked /\ q.ntoread = r.len
    BY <1>1, <1>3, <1>6, <1>7, <2>4 DEF RequestState
  <2>6. Eat(q)
    BY <1>11, <2>4
  <2>7. /\ req'.conn = req.conn /\ req'.body = req.body /\ req'.len = req.len /\ req'.eaten = e + n
        /\ req'.uri /\ req'.post = req.post /\ req'.chunked /\ req'.ntoread = r.len
    BY <1>11, <2>1, <2>5, <2>6, EatIs
  <2>8. Parsed(req', r)
    BY <1>7, <2>7 DEF Parsed
  <2>9. CASE Crlf(r)
    <3>1. e + n + r.len <= l /\ e + n >= 1 /\ e + n <= l
      BY <1>6, <1>8, <2>1, <2>2, <2>9 DEF ChunkLine
    <3>2. InChunks(req', state', r)
      BY <1>1, <1>6, <1>7, <1>11, <2>7, <2>8, <2>9, <3>1 DEF InChunks
    <3> QED
      BY <1>1, <1>9, <1>11, <2>7, <3>2
  <2>10. CASE ~Crlf(r)
    <3>1. r.body = "chunked" /\ r.len > 0 /\ e + n = SizeEnd(r)
      BY <1>7, <1>8, <1>11, <2>2, <2>10 DEF ChunkLine
    <3>2. InChunks(req', state', r)
      BY <1>1, <1>7, <1>11, <2>7, <2>8, <2>10, <3>1 DEF InChunks
    <3> QED
      BY <1>1, <1>9, <1>11, <2>7, <3>2
  <2> QED
    BY <2>9, <2>10
<1>12. CASE /\ HasLine /\ req.ntoread < 0 /\ Line.kind = "last"
            /\ Eat([req EXCEPT !.ntoread = 0]) /\ state' = "READING_TRAILER" /\ pc' = "trailer"
  <2>1. PICK n \in Nat : n = LineLen /\ n >= 1
    BY <1>10, <1>12
  <2>2. ChunkLine(r, e, "last", n)
    BY <1>10, <1>12, <2>1
  <2>3. [req EXCEPT !.ntoread = 0] \in RequestState
    BY <1>3 DEF RequestState
  <2>4. PICK q \in RequestState : q = [req EXCEPT !.ntoread = 0]
    BY <2>3
  <2>5. q.eaten = e /\ q.uri /\ q.post = req.post
    BY <1>3, <1>6, <2>4 DEF RequestState
  <2>6. Eat(q)
    BY <1>12, <2>4
  <2>7. req'.eaten = e + n /\ req'.uri /\ req'.post = req.post
    BY <1>12, <2>1, <2>5, <2>6, EatIs
  <2>8. InTrailer(req', state', r)
    <3>1. CASE Crlf(r)
      <4>1. e + n >= 1 /\ e + n < l /\ r.body = "chunked"
        BY <1>6, <2>1, <2>2, <3>1 DEF ChunkLine
      <4> QED
        BY <1>6, <1>7, <1>12, <2>7, <3>1, <4>1 DEF InTrailer
    <3>2. CASE ~Crlf(r)
      <4>1. e + n = LastEnd(r) /\ r.body = "chunked"
        BY <1>7, <1>8, <1>12, <2>2, <3>2 DEF ChunkLine
      <4> QED
        BY <1>7, <1>12, <2>7, <3>2, <4>1 DEF InTrailer
    <3> QED
      BY <3>1, <3>2
  <2> QED
    BY <1>9, <1>12, <2>7, <2>8
<1>13. CASE /\ HasLine /\ req.ntoread < 0 /\ Line.kind \in Empty
            /\ Eat(req) /\ UNCHANGED state /\ pc' = "body"
  <2>1. PICK n \in Nat : n = LineLen /\ n >= 1
    BY <1>10, <1>13
  <2>2. ChunkLine(r, e, Line.kind, n)
    BY <1>10, <1>13, <2>1
  <2>3. /\ req'.conn = req.conn /\ req'.body = req.body /\ req'.len = req.len /\ req'.eaten = e + n
        /\ req'.uri /\ req'.post = req.post /\ req'.chunked /\ req'.ntoread = req.ntoread
    BY <1>1, <1>3, <1>6, <1>13, <2>1, EatIs
  <2>4. Parsed(req', r)
    BY <1>7, <2>3 DEF Parsed
  <2>5. CASE Crlf(r)
    <3>1. e + n >= 1 /\ e + n <= l /\ ~(req'.ntoread >= 0)
      BY <1>6, <1>8, <1>13, <2>1, <2>2, <2>3, <2>5 DEF ChunkLine
    <3>2. InChunks(req', state', r)
      BY <1>1, <1>6, <1>7, <1>13, <2>3, <2>4, <2>5, <3>1 DEF InChunks
    <3> QED
      BY <1>1, <1>9, <1>13, <2>3, <3>2
  <2>6. CASE ~Crlf(r)
    <3>1. r.body = "chunked" /\ r.len > 0 /\ e + n = ChunksEnd(r) /\ req'.ntoread = -1
      BY <1>7, <1>8, <1>13, <2>2, <2>3, <2>6 DEF ChunkLine, Empty
    <3>2. InChunks(req', state', r)
      BY <1>1, <1>7, <1>13, <2>3, <2>4, <2>6, <3>1 DEF InChunks
    <3> QED
      BY <1>1, <1>9, <1>13, <2>3, <3>2
  <2> QED
    BY <2>5, <2>6
<1>14. CASE /\ HasLine /\ req.ntoread < 0 /\ Line.kind \notin Empty \cup {"size", "last"}
            /\ Eat(req) /\ UNCHANGED state /\ pc' = "fail"
  <2>1. req'.id = c
    BY <1>3, <1>14, EatIs
  <2>2. Crlf(r) \/ Unacceptable(r)
    <3>1. CASE ~Crlf(r) /\ r.body = "chunked"
      BY <1>7, <1>8, <1>10, <1>14, <3>1 DEF ChunkLine, Empty
    <3>2. CASE r.body = "badchunk"
      BY <1>7, <3>2 DEF Unacceptable
    <3> QED
      BY <1>7, <3>1, <3>2
  <2>3. Deserved(asked, req'.id, c)
    BY <1>3, <1>4, <2>1, <2>2 DEF Deserved
  <2> QED
    BY <1>14, <2>3 DEF Outcome
<1>15. CASE req.ntoread >= 0 /\ Take(req.ntoread, -1) /\ UNCHANGED state /\ pc' = "body"
  <2>1. PICK n \in Nat : n = req.ntoread
    BY <1>8, <1>15
  <2>2. /\ req'.conn = req.conn /\ req'.body = req.body /\ req'.len = req.len /\ req'.eaten = e + n
        /\ req'.uri /\ req'.post = req.post /\ req'.chunked /\ req'.ntoread = -1
    BY <1>1, <1>3, <1>6, <1>15, <2>1, TakeIs
  <2>3. Parsed(req', r)
    BY <1>7, <2>2 DEF Parsed
  <2>4. CASE Crlf(r)
    <3>1. e + n >= 1 /\ e + n <= l
      BY <1>6, <1>7, <2>1, <2>4
    <3>2. InChunks(req', state', r)
      BY <1>1, <1>6, <1>7, <1>15, <2>2, <2>3, <2>4, <3>1 DEF InChunks
    <3> QED
      BY <1>1, <1>9, <1>15, <2>2, <3>2
  <2>5. CASE ~Crlf(r)
    <3>1. r.body = "chunked" /\ r.len > 0 /\ e = SizeEnd(r) /\ n = r.len
      BY <1>7, <2>1, <2>5
    <3>2. e + n = DataEnd(r)
      BY <3>1 DEF DataEnd
    <3>3. InChunks(req', state', r)
      BY <1>1, <1>7, <1>15, <2>2, <2>3, <2>5, <3>1, <3>2 DEF InChunks
    <3> QED
      BY <1>1, <1>9, <1>15, <2>2, <3>3
  <2> QED
    BY <2>4, <2>5
<1>16. CASE UNCHANGED <<state, req>> /\ pc' = "loop"
  BY <1>1, <1>2, <1>16 DEF Outcome, Ready
<1> QED
  BY <1>11, <1>12, <1>13, <1>14, <1>15, <1>16 DEF ReadChunk, WaitForMore, Goto

-----------------------------------------------------------------------------
(***************************************************************************)
(* How the steps move the server and the client along the stream.          *)
(***************************************************************************)
\* w is q and then t; z is x without its first n elements.
Joined(q, t, w) == /\ Len(w) = Len(q) + Len(t)
                   /\ \A i \in 1..Len(q) : w[i] = q[i]
                   /\ \A i \in 1..Len(t) : w[Len(q) + i] = t[i]
Dropped(x, n, z) == Len(x) = n + Len(z) /\ \A k \in 1..Len(z) : z[k] = x[n + k]

\* Concatenation joins.
LEMMA JoinIs ==
  ASSUME NEW T, NEW q \in Seq(T), NEW t \in Seq(T)
  PROVE  q \o t \in Seq(T) /\ Joined(q, t, q \o t)
BY DEF Joined

\* A suffix drops the elements before it.
LEMMA DropIs ==
  ASSUME NEW T, NEW x \in Seq(T), NEW n \in 0..Len(x)
  PROVE  SubSeq(x, n + 1, Len(x)) \in Seq(T) /\ Dropped(x, n, SubSeq(x, n + 1, Len(x)))
BY DEF Dropped

\* To drop from a prefix is to drop from the whole.
LEMMA JoinDrop ==
  ASSUME NEW T, NEW x \in Seq(T), NEW y \in Seq(T), NEW z \in Seq(T), NEW n \in Nat, Dropped(x, n, z),
         NEW v \in Seq(T), NEW w \in Seq(T), Joined(x, y, w), Joined(z, y, v)
  PROVE  Dropped(w, n, v)
<1>1. PICK lx \in Nat, ly \in Nat, lz \in Nat, lv \in Nat, lw \in Nat :
        lx = Len(x) /\ ly = Len(y) /\ lz = Len(z) /\ lv = Len(v) /\ lw = Len(w)
  OBVIOUS
<1>2. lx = n + lz /\ \A k \in 1..lz : z[k] = x[n + k]
  BY <1>1 DEF Dropped
<1>4. lv = lz + ly /\ (\A k \in 1..lz : v[k] = z[k]) /\ (\A k \in 1..ly : v[lz + k] = y[k])
  BY <1>1 DEF Joined
<1>5. lw = lx + ly /\ (\A k \in 1..lx : w[k] = x[k]) /\ (\A k \in 1..ly : w[lx + k] = y[k])
  BY <1>1 DEF Joined
<1>6. ASSUME NEW k \in 1..lv PROVE v[k] = w[n + k]
  <2>1. CASE k \in 1..lz
    <3>1. n + k \in 1..lx
      BY <1>2, <2>1
    <3> QED
      BY <1>2, <1>4, <1>5, <2>1, <3>1
  <2>2. CASE k \notin 1..lz
    <3>1. PICK j \in 1..ly : k = lz + j
      <4>1. k - lz \in 1..ly /\ k = lz + (k - lz)
        BY <1>4, <2>2
      <4> QED
        BY <4>1
    <3>2. n + k = lx + j
      BY <1>2, <3>1
    <3> QED
      BY <1>4, <1>5, <3>1, <3>2
  <2> QED
    BY <2>1, <2>2
<1>7. lw = n + lv
  BY <1>2, <1>4, <1>5
<1> QED
  BY <1>1, <1>6, <1>7 DEF Dropped

\* Every request is sent as a finite number of tokens.
LEMMA PiecesNat == ASSUME Typed PROVE \A i \in 1..Len(asked) : Len(Pieces(asked[i])) \in Nat
<1>1. asked \in Seq(RequestType)
  BY RequestsAssumption DEF Typed
<1>2. \A i \in 1..Len(asked) : asked[i] \in RequestType
  BY <1>1
<1> QED
  BY <1>2, OtherShapes

\* The server uses up n tokens of its buffer.
LEMMA StreamEat ==
  ASSUME Typed, NEW n \in 0..Len(inbuf), inbuf' = SubSeq(inbuf, n + 1, Len(inbuf)), UNCHANGED <<net, togo>>,
         NEW s, Offsets(asked, s), NEW d \in Nat, Stream(asked, s, Coming, d)
  PROVE  Stream(asked, s, Coming', d + n)
<1>1. PICK T : T = Token(Len(asked))
  OBVIOUS
<1>2. inbuf \in Seq(T) /\ net \in Seq(T) /\ togo \in Seq(T) /\ Len(inbuf) \in Nat /\ Len(asked) \in Nat
  BY <1>1 DEF Typed
<1>3. PICK y \in Seq(T) : y = net \o togo
  BY <1>2, Cat
<1>4. PICK z \in Seq(T) : z = inbuf' /\ Dropped(inbuf, n, z)
  BY <1>2, DropIs
<1>5. PICK u \in Seq(T), v \in Seq(T) :
        u = inbuf \o y /\ v = z \o y /\ Joined(inbuf, y, u) /\ Joined(z, y, v)
  BY <1>2, <1>4, JoinIs
<1>6. Coming = u /\ Coming' = v
  BY <1>3, <1>4, <1>5 DEF Coming
<1>8. n \in Nat
  BY <1>2
<1>7. Dropped(u, n, v)
  BY <1>2, <1>4, <1>5, <1>8, JoinDrop
<1>9. Stream(asked, s, u, d)
  BY <1>6
<1>10. Stream(asked, s, v, d + n)
  <2>1. Len(u) = n + Len(v) /\ \A k \in 1..Len(v) : v[k] = u[n + k]
    BY <1>7 DEF Dropped
  <2> QED
    BY <1>2, <1>8, <1>9, <2>1, PiecesNat, StreamShift
<1> QED
  BY <1>6, <1>10

\* What a step of reading uses up.
LEMMA ReadEats ==
  ASSUME WatchInv, Typed, ReadFirstline \/ ReadHeader \/ ReadPlainBody \/ ReadChunk \/ ReadTrailer
  PROVE  /\ \E n \in 0..Len(inbuf) : /\ inbuf' = SubSeq(inbuf, n + 1, Len(inbuf))
                                     /\ req'.eaten = req.eaten + n
         /\ UNCHANGED <<reply, end, net, peer, asked, togo, calls, replies>>
         /\ ev' # "write" /\ pc' # "sent" /\ ev # "write" /\ pc \notin {"sent", "loop", "done", "fail"}
         /\ state # "freed" /\ state' # "freed" /\ req \in RequestState
<1>1. state # "freed" /\ req \in RequestState /\ ev = "none" /\ pc \notin {"sent", "loop", "done", "fail"}
  BY DEF Typed, WatchInv, Watched, ReadFirstline, ReadHeader, ReadPlainBody, ReadChunk, ReadTrailer
<1>2. /\ UNCHANGED <<reply, end, net, peer, asked, togo, calls, replies>>
      /\ ev' # "write" /\ pc' # "sent" /\ state' # "freed"
  BY <1>1 DEF ReadFirstline, ReadHeader, GetBody, ReadPlainBody, ReadChunk, ReadTrailer, WaitForMore,
              Goto, client
<1>3. inbuf \in Seq(Token(Len(asked))) /\ Len(inbuf) \in Nat /\ req.eaten \in Nat
  BY <1>1 DEF Typed, RequestState
<1> DEFINE G == \E n \in 0..Len(inbuf) : /\ inbuf' = SubSeq(inbuf, n + 1, Len(inbuf))
                                         /\ req'.eaten = req.eaten + n
<1>4. ASSUME inbuf' = inbuf, req' = req PROVE G
  <2>1. \A T : \A x \in Seq(T) : x = SubSeq(x, 0 + 1, Len(x))
    OBVIOUS
  <2>2. inbuf = SubSeq(inbuf, 0 + 1, Len(inbuf))
    BY <1>3, <2>1
  <2>3. 0 \in 0..Len(inbuf) /\ req.eaten = req.eaten + 0
    BY <1>3
  <2> QED
    BY <1>4, <2>2, <2>3
<1>5. ASSUME HasLine, NEW q \in RequestState, Eat(q), q.eaten = req.eaten PROVE G
  <2>1. LineLen \in 1..Len(inbuf)
    BY <1>3, <1>5, LineIs
  <2>2. LineLen \in 0..Len(inbuf)
    BY <1>3, <2>1
  <2>3. inbuf' = SubSeq(inbuf, LineLen + 1, Len(inbuf)) /\ req'.eaten = req.eaten + LineLen
    BY <1>5, EatIs DEF Eat
  <2> QED
    BY <2>2, <2>3
<1>6. ASSUME NEW k \in 0..Len(inbuf), NEW m, Take(k, m) PROVE G
  <2>1. k \in Nat
    BY <1>3
  <2>2. req'.eaten = req.eaten + k
    BY <1>1, <1>6, <2>1, TakeIs
  <2> QED
    BY <1>6, <2>2 DEF Take
<1> HIDE DEF G
<1>7. ASSUME NEW m \in -1..2 PROVE /\ [req EXCEPT !.ntoread = m] \in RequestState
                                   /\ [req EXCEPT !.ntoread = m].eaten = req.eaten
  BY <1>1 DEF RequestState
<1>8. /\ [req EXCEPT !.chunked = TRUE, !.ntoread = -1] \in RequestState
      /\ [req EXCEPT !.chunked = TRUE, !.ntoread = -1].eaten = req.eaten
  <2>1. PICK x \in RequestState : x = [req EXCEPT !.chunked = TRUE] /\ x.eaten = req.eaten
    <3>1. [req EXCEPT !.chunked = TRUE] \in RequestState /\ [req EXCEPT !.chunked = TRUE].eaten = req.eaten
      BY <1>1 DEF RequestState
    <3> QED
      BY <3>1
  <2>2. [x EXCEPT !.ntoread = -1] \in RequestState /\ [x EXCEPT !.ntoread = -1].eaten = x.eaten
    BY DEF RequestState
  <2> QED
    BY <2>1, <2>2
<1>9. ASSUME HasLine
      PROVE  /\ ParseRequestLine(Line) \in RequestState /\ ParseRequestLine(Line).eaten = req.eaten
             /\ ParseHeaders(Line) \in RequestState /\ ParseHeaders(Line).eaten = req.eaten
             /\ [req EXCEPT !.id = Line.id] \in RequestState /\ [req EXCEPT !.id = Line.id].eaten = req.eaten
  <2>1. Line \in Token(Len(asked))
    BY <1>3, <1>9, LineIs
  <2>2. Line.id \in 1..Len(asked) /\ Len(asked) \in Nat
    BY <2>1 DEF Token, Typed
  <2>3. PICK i \in Nat : i = Line.id
    BY <2>2
  <2>4. PICK r \in RequestType : r = asked[i]
    BY <2>2, <2>3, RequestsAssumption DEF Typed
  <2>5. PICK b \in BOOLEAN : b = (r.line = "post")
    OBVIOUS
  <2>6. /\ ParseRequestLine(Line) = [req EXCEPT !.id = i, !.uri = TRUE, !.post = b, !.major = 1,
                                                 !.minor = r.minor, !.proxy = r.proxy]
    BY <2>3, <2>4, <2>5 DEF ParseRequestLine
  <2>7. ParseHeaders(Line) = [req EXCEPT !.conn = r.conn, !.body = r.body, !.len = r.len]
    BY <2>3, <2>4 DEF ParseHeaders
  <2>8. /\ r.minor \in {0, 1} /\ r.proxy \in BOOLEAN /\ r.conn \in {"none", "close", "keep", "pkeep"}
        /\ r.body \in {"none", "length", "chunked", "badlength", "badchunk"} /\ r.len \in 0..2
    BY DEF RequestType
  <2>9. /\ [req EXCEPT !.id = i, !.uri = TRUE, !.post = b, !.major = 1, !.minor = r.minor, !.proxy = r.proxy] \in RequestState
        /\ [req EXCEPT !.id = i, !.uri = TRUE, !.post = b, !.major = 1, !.minor = r.minor, !.proxy = r.proxy].eaten = req.eaten
    BY <1>1, <2>8 DEF RequestState
  <2>10. /\ [req EXCEPT !.conn = r.conn, !.body = r.body, !.len = r.len] \in RequestState
         /\ [req EXCEPT !.conn = r.conn, !.body = r.body, !.len = r.len].eaten = req.eaten
    BY <1>1, <2>8 DEF RequestState
  <2>11. [req EXCEPT !.id = i] \in RequestState /\ [req EXCEPT !.id = i].eaten = req.eaten
    BY <1>1 DEF RequestState
  <2> QED
    BY <2>3, <2>6, <2>7, <2>9, <2>10, <2>11
<1> SUFFICES G
  BY <1>1, <1>2 DEF G
<1>10. CASE ReadFirstline
  BY <1>4, <1>5, <1>9, <1>10 DEF ReadFirstline
<1>11. CASE ReadHeader
  <2>1. CASE inbuf' = inbuf /\ req' = req
    BY <1>4, <2>1
  <2>2. CASE HasLine /\ Eat(ParseHeaders(Line))
    BY <1>5, <1>9, <2>2
  <2>3. CASE HasLine /\ Eat(req)
    BY <1>1, <1>5, <2>3
  <2>4. CASE HasLine /\ Eat([req EXCEPT !.chunked = TRUE, !.ntoread = -1])
    BY <1>5, <1>8, <2>4
  <2>5. CASE HasLine /\ (Eat([req EXCEPT !.ntoread = req.len]) \/ Eat([req EXCEPT !.ntoread = -1]))
    <3>1. req.len \in -1..2 /\ -1 \in -1..2
      BY <1>1 DEF RequestState
    <3> QED
      BY <1>5, <1>7, <2>5, <3>1
  <2> QED
    BY <1>11, <2>1, <2>2, <2>3, <2>4, <2>5 DEF ReadHeader, GetBody
<1>12. CASE ReadPlainBody
  <2>1. CASE inbuf' = inbuf /\ req' = req
    BY <1>4, <2>1
  <2>2. CASE Take(Len(inbuf), -1)
    <3>1. Len(inbuf) \in 0..Len(inbuf)
      BY <1>3
    <3> QED
      BY <1>6, <2>2, <3>1
  <2>3. CASE req.ntoread >= 0 /\ Len(inbuf) >= req.ntoread /\ Take(req.ntoread, 0)
    <3>1. req.ntoread \in 0..Len(inbuf)
      BY <1>1, <1>3, <2>3 DEF RequestState
    <3> QED
      BY <1>6, <2>3, <3>1
  <2> QED
    BY <1>12, <2>1, <2>2, <2>3 DEF ReadPlainBody
<1>13. CASE ReadChunk
  <2>1. CASE inbuf' = inbuf /\ req' = req
    BY <1>4, <2>1
  <2>2. CASE HasLine /\ Eat(req)
    BY <1>1, <1>5, <2>2
  <2>3. CASE HasLine /\ (Eat([req EXCEPT !.ntoread = req.len]) \/ Eat([req EXCEPT !.ntoread = 0]))
    <3>1. req.len \in -1..2 /\ 0 \in -1..2
      BY <1>1 DEF RequestState
    <3> QED
      BY <1>5, <1>7, <2>3, <3>1
  <2>4. CASE req.ntoread >= 0 /\ Len(inbuf) >= req.ntoread /\ Take(req.ntoread, -1)
    <3>1. req.ntoread \in 0..Len(inbuf)
      BY <1>1, <1>3, <2>4 DEF RequestState
    <3> QED
      BY <1>6, <2>4, <3>1
  <2> QED
    BY <1>13, <2>1, <2>2, <2>3, <2>4 DEF ReadChunk
<1>14. CASE ReadTrailer
  BY <1>1, <1>4, <1>5, <1>14 DEF ReadTrailer
<1> QED
  BY <1>10, <1>11, <1>12, <1>13, <1>14

\* Tokens move along: read() takes some from the socket.
LEMMA SplitIs ==
  ASSUME NEW T, NEW m \in Seq(T), NEW n \in 1..Len(m)
  PROVE  /\ SubSeq(m, 1, n) \in Seq(T) /\ SubSeq(m, n + 1, Len(m)) \in Seq(T)
         /\ m = SubSeq(m, 1, n) \o SubSeq(m, n + 1, Len(m))
<1>1. SubSeq(m, n + 1, Len(m)) \in Seq(T)
  BY DropIs
<1>2. SubSeq(m, 1, n) \in Seq(T)
  OBVIOUS
<1>3. SubSeq(m, 1, n) \o SubSeq(m, n + 1, Len(m)) = SubSeq(m, 1, Len(m))
  BY ConcatAdjacentSubSeq
<1>4. SubSeq(m, 1, Len(m)) = m
  BY SubSeqFull
<1> QED
  BY <1>1, <1>2, <1>3, <1>4

Rest(i, m, g) == i \o (m \o g)

Assoc(x, y, z) == (x \o y) \o z = x \o (y \o z)

\* Concatenation is associative.
LEMMA AssocIs ==
  ASSUME NEW T, NEW x \in Seq(T), NEW y \in Seq(T), NEW z \in Seq(T)
  PROVE  Assoc(x, y, z)
BY ConcatAssociative DEF Assoc

\* What is read from the socket stays before what is to be sent.
LEMMA JoinThree ==
  ASSUME NEW T, NEW i \in Seq(T), NEW m \in Seq(T), NEW g \in Seq(T), NEW u, u = i \o m
  PROVE  u \o g = i \o (m \o g)
OBVIOUS

\* A token that is sent stays in its place of the stream.
LEMMA MoveOne ==
  ASSUME NEW T, NEW m \in Seq(T), NEW g \in Seq(T), g # <<>>
  PROVE  Append(m, Head(g)) \o Tail(g) = m \o g
OBVIOUS

\* A read and a transmission move tokens along: none is lost, doubled or overtaken.
LEMMA StreamMoves ==
  ASSUME Typed, ReadData \/ Transmit
  PROVE  Coming' = Coming
<1>1. PICK T : T = Token(Len(asked))
  OBVIOUS
<1>2. inbuf \in Seq(T) /\ net \in Seq(T) /\ togo \in Seq(T)
  BY <1>1 DEF Typed
<1>3. CASE ReadData
  <2>1. PICK n \in 1..Len(net) : /\ inbuf' = inbuf \o SubSeq(net, 1, n)
                                 /\ net' = SubSeq(net, n + 1, Len(net)) /\ togo' = togo
    BY <1>3 DEF ReadData
  <2>2. PICK m \in Seq(T), i \in Seq(T), g \in Seq(T) : m = net /\ i = inbuf /\ g = togo
    BY <1>2
  <2>3. n \in 1..Len(m)
    BY <2>2
  <2>4. /\ SubSeq(m, 1, n) \in Seq(T) /\ SubSeq(m, n + 1, Len(m)) \in Seq(T)
        /\ m = SubSeq(m, 1, n) \o SubSeq(m, n + 1, Len(m))
    BY <2>3, SplitIs
  <2>5. PICK x \in Seq(T), y \in Seq(T) : x = SubSeq(m, 1, n) /\ y = SubSeq(m, n + 1, Len(m)) /\ m = x \o y
    BY <2>4
  <2>6. PICK v \in Seq(T) : v = i \o x
    BY Cat
  <2>7. Rest(v, y, g) = Rest(i, m, g)
    <3>1. PICK h \in Seq(T) : h = y \o g
      BY Cat
    <3>2. Assoc(x, y, g) /\ Assoc(i, x, h)
      BY AssocIs
    <3> QED
      BY <2>5, <2>6, <3>1, <3>2, Zenon DEF Rest, Assoc
  <2>8. inbuf' = v /\ net' = y /\ togo' = g
    BY <2>1, <2>2, <2>5, <2>6
  <2>9. Coming = Rest(i, m, g)
    BY <2>2 DEF Coming, Rest
  <2>10. Coming' = Rest(v, y, g)
    BY <2>8 DEF Coming, Rest
  <2> QED
    BY <2>7, <2>9, <2>10
<1>4. CASE Transmit
  <2>1. togo # <<>> /\ net' = Append(net, Head(togo)) /\ togo' = Tail(togo) /\ inbuf' = inbuf
    BY <1>4 DEF Transmit, server
  <2>2. Append(net, Head(togo)) \o Tail(togo) = net \o togo
    BY <1>2, <2>1, MoveOne
  <2> QED
    BY <2>1, <2>2 DEF Coming
<1> QED
  BY <1>3, <1>4

\* The client asks for more.
LEMMA StreamAsk ==
  ASSUME Typed, NEW r \in Requests, Ask(r), NEW s, Offsets(asked, s), NEW d \in Nat,
         Stream(asked, s, Coming, d)
  PROVE  Longer(asked, s, asked', Coming', d)
<1>1. r \in RequestType /\ asked \in Seq(RequestType)
  BY RequestsAssumption DEF Typed
<1>2. /\ asked' = Append(asked, r) /\ togo' = Tokens(r, Len(asked) + 1) /\ togo = <<>>
      /\ net' = net /\ inbuf' = inbuf
  BY DEF Ask, server
<1>3. PICK n \in Nat : n = Len(asked)
  BY <1>1
<1>4. PICK T : T = Token(n + 1)
  OBVIOUS
<1>5. PICK i \in Seq(T), m \in Seq(T) : i = inbuf /\ m = net
  <2>1. inbuf \in Seq(Token(n)) /\ net \in Seq(Token(n)) /\ n <= n + 1
    BY <1>3 DEF Typed
  <2>2. inbuf \in Seq(Token(n + 1)) /\ net \in Seq(Token(n + 1))
    BY <2>1, TokensKept
  <2> QED
    BY <1>4, <2>2
<1>6. PICK t \in Seq(T) : t = Tokens(r, n + 1)
  <2>1. n + 1 \in Nat \ {0}
    OBVIOUS
  <2> QED
    BY <1>1, <1>4, <2>1, TokensType
<1>7. PICK p \in Seq(KindSet) : p = Pieces(r)
  BY <1>1, PiecesKinds
<1>8. t = [j \in 1..Len(p) |-> [kind |-> p[j], id |-> n + 1]]
  BY <1>6, <1>7 DEF Tokens
<1>9. Len(t) = Len(p) /\ \A j \in 1..Len(p) : t[j] = [kind |-> p[j], id |-> n + 1]
  BY <1>8
<1>10. PICK u \in Seq(T) : u = i \o m
  BY Cat
<1>11. Coming = u
  <2>1. m \o <<>> = m
    OBVIOUS
  <2> QED
    BY <1>2, <1>5, <1>10, <2>1 DEF Coming
<1>12. PICK w \in Seq(T) : w = u \o t /\ Joined(u, t, w)
  BY JoinIs
<1>13. Coming' = w
  <2>1. u \o t = i \o (m \o t)
    BY <1>10, JoinThree
  <2> QED
    BY <1>2, <1>3, <1>5, <1>6, <1>10, <1>12, <2>1 DEF Coming
<1>14. /\ Len(u) \in Nat /\ Len(t) \in Nat /\ Len(w) = Len(u) + Len(t)
       /\ \A k \in 1..Len(u) : w[k] = u[k]
       /\ \A k \in 1..Len(t) : w[Len(u) + k] = t[k]
  BY <1>12 DEF Joined
<1>15. /\ Len(Pieces(r)) \in Nat /\ Len(t) = Len(Pieces(r))
       /\ \A j \in 1..Len(t) : t[j] = [kind |-> Pieces(r)[j], id |-> Len(asked) + 1]
  BY <1>3, <1>7, <1>9
<1>16. \A k \in 1..Len(asked) : Len(Pieces(asked[k])) \in Nat
  BY PiecesNat
<1>17. Longer(asked, s, Append(asked, r), w, d)
  BY <1>1, <1>11, <1>14, <1>15, <1>16, StreamGrows
<1> QED
  BY <1>2, <1>13, <1>17

-----------------------------------------------------------------------------
(***************************************************************************)
(* What was called and replied, and where the server is with the current   *)
(* request.                                                                *)
(***************************************************************************)
Answering == ev = "write" \/ pc = "sent"
Current == IF Answering THEN Len(calls) ELSE Len(calls) + 1
Over == peer = "fin" /\ net = <<>>

CallType == [id : Nat, code : {200, 400, 404}, eaten : Nat]

\* The k-th call was right: for the k-th request and all of it, or an error that
\* was deserved, if the client has not closed its side and no CR came without LF.
CallRight(a, p, x, k) ==
  IF x.code = 400 THEN p = "fin" \/ Deserved(a, x.id, k)
  ELSE /\ x.id = k /\ k \in 1..Len(a)
       /\ \/ p = "fin" \/ \E i \in 1..Len(a) : Crlf(a[i])
          \/ x.eaten = Len(Pieces(a[k]))

HistInv ==
  /\ calls \in Seq(CallType) /\ replies \in Seq(ReplyType) /\ Len(replies) <= Len(calls)
  /\ \A k \in 1..Len(replies) : replies[k].id = calls[k].id /\ replies[k].code = calls[k].code
  /\ \A k \in 1..Len(calls) : CallRight(asked, peer, calls[k], k)
  /\ \A k \in 1..Len(calls) :
       calls[k].code = 400 => k = Len(calls) /\ (Answering \/ state = "freed")

Located(s, b) == IF Answering \/ pc = "done" THEN ReadAll(asked, req, s, b, Current)
                 ELSE Ready(asked, req, state, s, b, Current)
Where == \E s : \E b \in Nat : /\ Offsets(asked, s) /\ Stream(asked, s, Coming, b + req.eaten)
                               /\ Located(s, b)

\* When the client has closed its side and everything was read, the rest does not
\* matter any more, and after an error neither.
Doing == \/ Over /\ pc \in {"loop", "done", "sent"}
         \/ Answering /\ reply.code = 400
         \/ pc = "fail" /\ Deserved(asked, req.id, Current)
         \/ pc # "fail" /\ Where

Replying == /\ calls # <<>> /\ reply \in ReplyType
            /\ reply.id = calls[Len(calls)].id /\ reply.code = calls[Len(calls)].code
            /\ reply.code = 400 => NeedClose(req, reply)

NowInv == state # "freed" => /\ req.uri => req.id = Current /\ Current \in 1..Len(asked)
                             /\ pc = "done" => req.uri \/ Over
                             /\ Answering => Replying
                             /\ Len(replies) = IF ev = "write" THEN Len(calls) - 1 ELSE Len(calls)
                             /\ Doing

\* A step that calls and replies nothing.
LEMMA HistSame ==
  ASSUME HistInv, UNCHANGED <<calls, replies, asked>>, peer' = peer \/ peer = "open",
         Answering \/ state = "freed" => Answering' \/ state' = "freed"
  PROVE  HistInv'
<1>1. \A k \in 1..Len(calls) : CallRight(asked, peer, calls[k], k) => CallRight(asked, peer', calls[k], k)
  BY DEF CallRight
<1>2. \A k \in 1..Len(calls') : CallRight(asked', peer', calls'[k], k)
  BY <1>1 DEF HistInv
<1>3. \A k \in 1..Len(calls') :
       calls'[k].code = 400 => k = Len(calls') /\ (Answering' \/ state' = "freed")
  BY DEF HistInv
<1> QED
  BY <1>2, <1>3 DEF HistInv

\* Nothing was read at first.
LEMMA HistInit == Init => HistInv /\ NowInv
<1> SUFFICES ASSUME Init PROVE HistInv /\ NowInv
  OBVIOUS
<1>1. HistInv
  BY DEF Init, HistInv
<1>2. /\ ~Answering /\ Current = 1 /\ asked = <<>> /\ Len(asked) = 0 /\ Coming = <<>> /\ req = NewRequest
      /\ state = "READING_FIRSTLINE" /\ pc = "loop"
  BY DEF Init, Answering, Current, Coming
<1> DEFINE s == [i \in 1..(0 + 1) |-> 0]
<1>3. Offsets(asked, s)
  BY <1>2 DEF Offsets
<1>4. Stream(asked, s, Coming, 0)
  BY <1>2 DEF Stream
<1>5. req.eaten = 0 /\ ~req.uri /\ s[1] = 0
  BY <1>2 DEF NewRequest
<1> HIDE DEF s
<1>6. Located(s, 0)
  BY <1>2, <1>5 DEF Located, Ready, AtStart
<1>7. Where
  <2>1. 0 \in Nat /\ 0 + req.eaten = 0
    BY <1>5
  <2> QED
    BY <1>3, <1>4, <1>6, <2>1 DEF Where
<1>8. Len(replies) = IF ev = "write" THEN Len(calls) - 1 ELSE Len(calls)
  BY DEF Init
<1> QED
  BY <1>1, <1>2, <1>5, <1>7, <1>8 DEF NowInv, Doing

\* Reading the next piece of a request.
LEMMA NowRead ==
  ASSUME WatchInv, Typed, HistInv, NowInv,
         ReadFirstline \/ ReadHeader \/ ReadPlainBody \/ ReadChunk \/ ReadTrailer
  PROVE  HistInv' /\ NowInv'
<1>1. /\ UNCHANGED <<reply, end, net, peer, asked, togo, calls, replies>>
      /\ ev' # "write" /\ pc' # "sent" /\ ev # "write" /\ pc \notin {"sent", "loop", "done", "fail"}
      /\ state # "freed" /\ state' # "freed" /\ req \in RequestState
  BY ReadEats
<1>2. ~Answering /\ ~Answering' /\ Current' = Current
  BY <1>1 DEF Answering, Current
<1>3. HistInv'
  BY <1>1, <1>2, HistSame
<1>4. Where
  BY <1>1, <1>2 DEF NowInv, Doing
<1>5. PICK s : \E b \in Nat : /\ Offsets(asked, s) /\ Stream(asked, s, Coming, b + req.eaten)
                              /\ Located(s, b)
  BY <1>4 DEF Where
<1>6. PICK b \in Nat : Offsets(asked, s) /\ Stream(asked, s, Coming, b + req.eaten) /\ Located(s, b)
  BY <1>5
<1>7. PICK c \in Nat : c = Current
  BY <1>2 DEF HistInv, Current
<1>8. Ready(asked, req, state, s, b, c)
  BY <1>1, <1>2, <1>6, <1>7 DEF Located
<1>9. state # "READING_FIRSTLINE" => req.uri /\ req.id = c /\ c \in 1..Len(asked)
  <2>1. InRequest(asked, req, state, s, b, c) => req.uri /\ c \in 1..Len(asked)
    BY DEF InRequest
  <2> QED
    BY <1>1, <1>7, <1>8, <2>1 DEF Ready, NowInv
<1>10. /\ Outcome(pc', asked, req', state', s, b, c)
       /\ req'.uri => req'.id = c /\ c \in 1..Len(asked)
  <2>1. CASE ReadFirstline
    <3>1. Outcome(pc', asked, req', state', s, b, c) /\ (req'.uri => req'.id = c)
      BY <1>6, <1>8, <2>1, FirstlineStep
    <3>2. state = "READING_FIRSTLINE" /\ ~req.uri
      <4>1. state = "READING_FIRSTLINE"
        BY <2>1, FirstlineIs
      <4> QED
        BY <1>8, <4>1 DEF Ready, AtStart, NewRequest
    <3>3. req'.uri => pc' = "header" /\ state' = "READING_HEADERS"
      <4>1. [req EXCEPT !.id = Line.id].uri = req.uri
        BY <1>1 DEF RequestState
      <4>2. Eat([req EXCEPT !.id = Line.id]) => req'.uri = req.uri
        BY <1>1 DEF Eat, RequestState
      <4> QED
        BY <2>1, <3>2, <4>2 DEF ReadFirstline, Goto
    <3>4. req'.uri => c \in 1..Len(asked)
      BY <3>1, <3>3 DEF Outcome, Ready, InRequest
    <3> QED
      BY <3>1, <3>4
  <2>2. CASE ReadHeader \/ ReadPlainBody \/ ReadChunk \/ ReadTrailer
    <3>1. req'.id = req.id /\ req'.uri = req.uri /\ state # "READING_FIRSTLINE"
      BY <2>2, ReadSame
    <3>2. req.id = c /\ c \in 1..Len(asked)
      BY <1>9, <3>1
    <3>3. CASE ReadHeader
      BY <1>6, <1>8, <3>1, <3>2, <3>3, HeaderStep
    <3>4. CASE ReadPlainBody
      BY <1>6, <1>8, <3>1, <3>2, <3>4, PlainStep
    <3>5. CASE ReadChunk
      BY <1>6, <1>8, <3>1, <3>2, <3>5, ChunkStep
    <3>6. CASE ReadTrailer
      BY <1>6, <1>8, <3>1, <3>2, <3>6, TrailerStep
    <3> QED
      BY <2>2, <3>3, <3>4, <3>5, <3>6
  <2> QED
    BY <2>1, <2>2
<1>11. Stream(asked, s, Coming', b + req'.eaten)
  <2>1. PICK n \in 0..Len(inbuf) : /\ inbuf' = SubSeq(inbuf, n + 1, Len(inbuf))
                                   /\ req'.eaten = req.eaten + n
    BY ReadEats
  <2>2. PICK e \in Nat : e = req.eaten
    BY <1>1 DEF RequestState
  <2>3. n \in Nat
    BY DEF Typed
  <2>4. b + e \in Nat /\ (b + e) + n = b + (e + n)
    BY <2>3
  <2>5. Stream(asked, s, Coming, b + e)
    BY <1>6, <2>2
  <2>6. Stream(asked, s, Coming', (b + e) + n)
    BY <1>1, <1>6, <2>1, <2>4, <2>5, StreamEat
  <2> QED
    BY <2>1, <2>2, <2>4, <2>6
<1>12. Doing' /\ (pc' = "done" => req'.uri)
  <2>1. CASE pc' = "fail" /\ Deserved(asked, req'.id, c)
    <3>1. Deserved(asked', req'.id, Current')
      BY <1>1, <1>2, <1>7, <2>1
    <3> QED
      BY <2>1, <3>1 DEF Doing
  <2>2. CASE pc' = "done" /\ ReadAll(asked, req', s, b, c) /\ req'.uri
    <3>1. Located(s, b)'
      BY <1>1, <1>2, <1>7, <2>2 DEF Located
    <3>2. Offsets(asked', s) /\ Stream(asked', s, Coming', b + req'.eaten)
      BY <1>1, <1>6, <1>11
    <3>3. Where'
      BY <3>1, <3>2 DEF Where
    <3> QED
      BY <2>2, <3>3 DEF Doing
  <2>3. CASE pc' \notin {"fail", "done"} /\ Ready(asked, req', state', s, b, c)
    <3>1. Located(s, b)'
      BY <1>1, <1>2, <1>7, <2>3 DEF Located
    <3>2. Offsets(asked', s) /\ Stream(asked', s, Coming', b + req'.eaten)
      BY <1>1, <1>6, <1>11
    <3>3. Where'
      BY <3>1, <3>2 DEF Where
    <3> QED
      BY <2>3, <3>3 DEF Doing
  <2> QED
    BY <1>10, <2>1, <2>2, <2>3 DEF Outcome
<1>13. Len(replies') = IF ev' = "write" THEN Len(calls') - 1 ELSE Len(calls')
  BY <1>1 DEF NowInv
<1> QED
  BY <1>1, <1>2, <1>3, <1>7, <1>10, <1>12, <1>13 DEF NowInv

\* read() finds the end of the client's stream.
LEMMA NowEof == ASSUME WatchInv, Typed, HistInv, NowInv, ReadEof PROVE HistInv' /\ NowInv'
<1>1. /\ pc = "loop" /\ ev = "read" /\ peer = "fin" /\ net = <<>> /\ ev' = "none" /\ pc' = "done"
      /\ UNCHANGED <<state, inbuf, req, reply, left, end, net, peer, asked, togo, calls, replies>>
  BY DEF ReadEof, client
<1>2. state # "freed" /\ ~Answering /\ ~Answering' /\ Current' = Current
  BY <1>1 DEF WatchInv, Watched, Reading, Answering, Current
<1>3. HistInv'
  BY <1>1, <1>2, HistSame
<1>4. Over' /\ Doing'
  BY <1>1 DEF Over, Doing
<1>5. Len(replies') = IF ev' = "write" THEN Len(calls') - 1 ELSE Len(calls')
  BY <1>1, <1>2 DEF NowInv
<1> QED
  BY <1>1, <1>2, <1>3, <1>4, <1>5 DEF NowInv

\* read() finds more.
LEMMA NowData == ASSUME WatchInv, WatchInv', Typed, HistInv, NowInv, ReadData PROVE HistInv' /\ NowInv'
<1>1. /\ pc = "loop" /\ ev = "read" /\ ev' = "none" /\ pc' \in {"firstline", "header", "body", "trailer", "exit"}
      /\ UNCHANGED <<state, req, reply, left, end, peer, asked, togo, calls, replies>>
  BY DEF ReadData
<1>2. state # "freed" /\ ~Answering /\ ~Answering' /\ Current' = Current
  BY <1>1 DEF WatchInv, Watched, Reading, Answering, Current
<1>3. HistInv'
  BY <1>1, <1>2, HistSame
<1>4. ~Over
  BY DEF ReadData, Over
<1>5. Where
  BY <1>1, <1>2, <1>4 DEF NowInv, Doing
<1>6. Coming' = Coming
  BY StreamMoves
<1>7. ASSUME NEW s, NEW b \in Nat, Located(s, b) PROVE Located(s, b)'
  BY <1>1, <1>2, <1>7 DEF Located
<1>8. Where'
  BY <1>1, <1>5, <1>6, <1>7 DEF Where
<1>9. Doing'
  BY <1>1, <1>8 DEF Doing
<1>10. Len(replies') = IF ev' = "write" THEN Len(calls') - 1 ELSE Len(calls')
  BY <1>1, <1>2 DEF NowInv
<1> QED
  BY <1>1, <1>2, <1>3, <1>9, <1>10 DEF NowInv

\* An error page ends the connection.
LEMMA PageCloses ==
  ASSUME NEW q \in RequestState
  PROVE  NeedClose(q, MakeHeader(q, 400, TRUE))
<1>1. MakeHeader(q, 400, TRUE).conn
        = IF IsClose(q.proxy, q.conn) THEN IF q.proxy THEN "none" ELSE "close" ELSE "close"
  BY DEF MakeHeader
<1> QED
  BY <1>1 DEF NeedClose, IsClose

\* What the callback was called with, and what evhttp_send() leaves.
Called(code) ==
  /\ calls' = Append(calls, [id |-> req.id, code |-> code, eaten |-> req.eaten])
  /\ reply'.code = code

\* A callback replies with 200 or 404 to a request that has a URI; every other reply is an
\* error page, after which the connection is closed.
LEMMA SendGives ==
  ASSUME WatchInv, Typed, ConnectionDone \/ ConnectionFail
  PROVE  /\ pc \in {"done", "fail"} /\ ev = "none" /\ state # "freed" /\ state' # "freed"
         /\ pc' = "loop" /\ ev' = "write" /\ req \in RequestState
         /\ UNCHANGED <<inbuf, net, peer, asked, togo, replies>>
         /\ req'.id = req.id /\ req'.eaten = req.eaten /\ (req'.uri => req.uri)
         /\ reply' \in ReplyType /\ reply'.id = req.id
         /\ \/ (Called(200) \/ Called(404)) /\ pc = "done" /\ req.uri
            \/ Called(400) /\ NeedClose(req', reply') /\ (pc = "fail" \/ ~req.uri)
<1>1. /\ pc \in {"done", "fail"} /\ ev = "none" /\ state # "freed" /\ req \in RequestState
      /\ pc' = "loop" /\ ev' = "write" /\ state' # "freed"
      /\ UNCHANGED <<inbuf, net, peer, asked, togo, replies>>
  BY DEF WatchInv, Watched, Typed, ConnectionDone, ConnectionFail, Send, client
<1>2. ASSUME NEW q \in RequestState, NEW page \in BOOLEAN
      PROVE  /\ Version(q, page).id = q.id /\ Version(q, page).eaten = q.eaten
             /\ Version(q, page).uri = q.uri /\ Version(q, page) \in RequestState
  BY DEF Version, RequestState
<1>3. PICK f \in RequestState : /\ f = [req EXCEPT !.uri = FALSE] /\ f.id = req.id
                                /\ f.eaten = req.eaten /\ ~f.uri
  <2>1. /\ [req EXCEPT !.uri = FALSE] \in RequestState /\ [req EXCEPT !.uri = FALSE].id = req.id
        /\ [req EXCEPT !.uri = FALSE].eaten = req.eaten /\ ~[req EXCEPT !.uri = FALSE].uri
    BY <1>1 DEF RequestState
  <2> QED
    BY <2>1
<1>4. \/ /\ req' = Version(req, FALSE) /\ reply' = MakeHeader(req', 200, FALSE) /\ pc = "done" /\ req.uri
         /\ calls' = Append(calls, [id |-> req.id, code |-> 200, eaten |-> req.eaten])
      \/ /\ req' = Version(req, TRUE) /\ reply' = MakeHeader(req', 404, TRUE) /\ pc = "done" /\ req.uri
         /\ calls' = Append(calls, [id |-> req.id, code |-> 404, eaten |-> req.eaten])
      \/ /\ req' = Version(req, TRUE) /\ reply' = MakeHeader(req', 400, TRUE) /\ ~req.uri
         /\ calls' = Append(calls, [id |-> req.id, code |-> 400, eaten |-> req.eaten])
      \/ /\ req' = Version(f, TRUE) /\ reply' = MakeHeader(req', 400, TRUE) /\ pc = "fail"
         /\ calls' = Append(calls, [id |-> f.id, code |-> 400, eaten |-> f.eaten])
  <2>1. CASE ConnectionDone
    <3>1. CASE pc = "done" /\ req.uri /\ Send(req, 200, FALSE)
      BY <3>1 DEF Send
    <3>2. CASE pc = "done" /\ req.uri /\ Send(req, 404, TRUE)
      BY <3>2 DEF Send
    <3>3. CASE ~req.uri /\ Send(req, 400, TRUE)
      BY <3>3 DEF Send
    <3> QED
      BY <2>1, <3>1, <3>2, <3>3 DEF ConnectionDone
  <2>2. CASE ConnectionFail
    <3>1. Send(f, 400, TRUE) /\ pc = "fail"
      BY <1>3, <2>2 DEF ConnectionFail
    <3> QED
      BY <3>1 DEF Send
  <2> QED
    BY <2>1, <2>2
<1>5. req' \in RequestState /\ req'.id = req.id /\ req'.eaten = req.eaten /\ (req'.uri => req.uri)
  <2>1. CASE req' = Version(req, FALSE) \/ req' = Version(req, TRUE)
    BY <1>1, <1>2, <2>1
  <2>2. CASE req' = Version(f, TRUE)
    BY <1>2, <1>3, <2>2
  <2> QED
    BY <1>4, <2>1, <2>2
<1>6. reply' \in ReplyType /\ reply'.id = req.id
  <2>1. PICK page \in BOOLEAN, code \in {200, 400, 404} : reply' = MakeHeader(req', code, page)
    BY SendIs
  <2> QED
    BY <1>5, <2>1, HeaderIs
<1>7. MakeHeader(req', 200, FALSE).code = 200 /\ MakeHeader(req', 404, TRUE).code = 404 /\ MakeHeader(req', 400, TRUE).code = 400
  BY DEF MakeHeader
<1>8. NeedClose(req', MakeHeader(req', 400, TRUE))
  BY <1>5, PageCloses
<1>9. CASE /\ pc = "done" /\ req.uri /\ reply' = MakeHeader(req', 200, FALSE)
           /\ calls' = Append(calls, [id |-> req.id, code |-> 200, eaten |-> req.eaten])
  <2>1. Called(200)
    BY <1>7, <1>9 DEF Called
  <2> QED
    BY <1>1, <1>5, <1>6, <1>9, <2>1
<1>10. CASE /\ pc = "done" /\ req.uri /\ reply' = MakeHeader(req', 404, TRUE)
            /\ calls' = Append(calls, [id |-> req.id, code |-> 404, eaten |-> req.eaten])
  <2>1. Called(404)
    BY <1>7, <1>10 DEF Called
  <2> QED
    BY <1>1, <1>5, <1>6, <1>10, <2>1
<1>11. CASE /\ (pc = "fail" \/ ~req.uri) /\ reply' = MakeHeader(req', 400, TRUE)
            /\ calls' = Append(calls, [id |-> req.id, code |-> 400, eaten |-> req.eaten])
  <2>1. Called(400)
    BY <1>7, <1>8, <1>11 DEF Called
  <2> QED
    BY <1>1, <1>5, <1>6, <1>8, <1>11, <2>1
<1> QED
  BY <1>3, <1>4, <1>9, <1>10, <1>11

\* The callback is called, or the error page is sent.
LEMMA NowSend ==
  ASSUME WatchInv, Typed, HistInv, NowInv, ConnectionDone \/ ConnectionFail
  PROVE  HistInv' /\ NowInv'
<1>1. /\ pc \in {"done", "fail"} /\ ev = "none" /\ state # "freed" /\ state' # "freed"
      /\ pc' = "loop" /\ ev' = "write" /\ req \in RequestState
      /\ UNCHANGED <<inbuf, net, peer, asked, togo, replies>>
      /\ req'.id = req.id /\ req'.eaten = req.eaten /\ (req'.uri => req.uri)
      /\ reply' \in ReplyType /\ reply'.id = req.id
  BY SendGives
<1>2. PICK code \in {200, 400, 404} :
        /\ calls' = Append(calls, [id |-> req.id, code |-> code, eaten |-> req.eaten])
        /\ reply'.code = code
        /\ code # 400 => pc = "done" /\ req.uri
        /\ code = 400 => NeedClose(req', reply') /\ (pc = "fail" \/ ~req.uri)
  <2>1. \/ (Called(200) \/ Called(404)) /\ pc = "done" /\ req.uri
        \/ Called(400) /\ NeedClose(req', reply') /\ (pc = "fail" \/ ~req.uri)
    BY SendGives
  <2>2. CASE (Called(200) \/ Called(404)) /\ pc = "done" /\ req.uri
    BY <2>2 DEF Called
  <2>3. CASE Called(400) /\ NeedClose(req', reply') /\ (pc = "fail" \/ ~req.uri)
    BY <2>3 DEF Called
  <2> QED
    BY <2>1, <2>2, <2>3
<1>3. PICK x \in CallType : x = [id |-> req.id, code |-> code, eaten |-> req.eaten]
  BY <1>1 DEF RequestState, CallType
<1>4. PICK g \in Seq(CallType) : g = calls
  BY DEF HistInv
<1>5. PICK n \in Nat : n = Len(g)
  OBVIOUS
<1>6. /\ calls' = Append(g, x) /\ calls' \in Seq(CallType) /\ Len(calls') = n + 1 /\ calls'[n + 1] = x
      /\ (\A k \in 1..n : calls'[k] = g[k]) /\ calls' # <<>>
  BY <1>2, <1>3, <1>4, <1>5
<1>7. ~Answering /\ Answering' /\ Current = n + 1 /\ Current' = n + 1
  BY <1>1, <1>4, <1>5, <1>6 DEF Answering, Current
<1>8. Len(replies) = n /\ replies \in Seq(ReplyType)
  BY <1>1, <1>4, <1>5 DEF NowInv, HistInv
<1>9. req.uri => req.id = n + 1 /\ n + 1 \in 1..Len(asked)
  BY <1>1, <1>7 DEF NowInv
<1>10. \/ Over /\ pc = "done"
       \/ pc = "fail" /\ Deserved(asked, req.id, n + 1)
       \/ pc = "done" /\ req.uri /\ Where
  BY <1>1, <1>7 DEF NowInv, Doing
<1>11. CallRight(asked, peer, x, n + 1)
  <2>1. x.code = code /\ x.id = req.id /\ x.eaten = req.eaten
    BY <1>3
  <2>2. CASE Over /\ pc = "done"
    <3>1. peer = "fin"
      BY <2>2 DEF Over
    <3> QED
      BY <1>2, <1>9, <2>1, <3>1 DEF CallRight
  <2>3. CASE pc = "fail" /\ Deserved(asked, req.id, n + 1)
    BY <1>2, <2>1, <2>3 DEF CallRight
  <2>4. CASE pc = "done" /\ req.uri /\ Where
    <3>1. PICK s : \E b \in Nat : Located(s, b)
      BY <2>4 DEF Where
    <3>2. PICK b \in Nat : Located(s, b)
      BY <3>1
    <3>3. ReadAll(asked, req, s, b, n + 1)
      BY <1>7, <2>4, <3>2 DEF Located
    <3>4. code # 400
      BY <1>2, <2>4
    <3>5. Crlf(asked[n + 1]) \/ req.eaten = Len(Pieces(asked[n + 1]))
      BY <3>3 DEF ReadAll
    <3> QED
      BY <1>9, <2>1, <2>4, <3>4, <3>5 DEF CallRight
  <2> QED
    BY <1>10, <2>2, <2>3, <2>4
<1>12. ASSUME NEW k \in 1..Len(calls')
       PROVE  /\ CallRight(asked', peer', calls'[k], k)
              /\ calls'[k].code = 400 => k = Len(calls')
  <2>1. CASE k = n + 1
    BY <1>1, <1>6, <1>11, <2>1
  <2>2. CASE k \in 1..n
    <3>1. calls'[k] = calls[k] /\ k \in 1..Len(calls)
      BY <1>4, <1>5, <1>6, <2>2
    <3>2. CallRight(asked, peer, calls[k], k) /\ calls[k].code # 400
      BY <1>1, <1>7, <3>1 DEF HistInv
    <3> QED
      BY <1>1, <3>1, <3>2
  <2> QED
    BY <1>6, <2>1, <2>2
<1>13. ASSUME NEW k \in 1..Len(replies')
       PROVE  replies'[k].id = calls'[k].id /\ replies'[k].code = calls'[k].code
  <2>1. k \in 1..n /\ k \in 1..Len(replies)
    BY <1>1, <1>8
  <2>2. calls'[k] = calls[k]
    BY <1>4, <1>6, <2>1
  <2> QED
    BY <1>1, <2>1, <2>2 DEF HistInv
<1>14. HistInv'
  <2>1. Len(replies') <= Len(calls')
    BY <1>1, <1>6, <1>8
  <2> QED
    BY <1>1, <1>6, <1>7, <1>8, <1>12, <1>13, <2>1 DEF HistInv
<1>15. Replying'
  <2>1. calls'[Len(calls')] = x
    BY <1>6
  <2> QED
    BY <1>1, <1>2, <1>3, <1>6, <2>1 DEF Replying
<1>16. Doing'
  <2>1. CASE Over /\ pc = "done"
    <3>1. Over'
      BY <1>1, <2>1 DEF Over
    <3> QED
      BY <1>1, <3>1 DEF Doing
  <2>2. CASE pc = "fail"
    <3>1. code = 400
      BY <1>2, <2>2
    <3> QED
      BY <1>2, <1>7, <3>1 DEF Doing
  <2>3. CASE pc = "done" /\ Where
    <3>1. Coming' = Coming
      BY <1>1 DEF Coming
    <3>2. ASSUME NEW s, NEW b \in Nat, Located(s, b) PROVE Located(s, b)'
      <4>1. ReadAll(asked, req, s, b, n + 1)
        BY <1>7, <2>3, <3>2 DEF Located
      <4>2. ReadAll(asked, req', s, b, n + 1)
        BY <1>1, <4>1 DEF ReadAll
      <4> QED
        BY <1>1, <1>7, <4>2 DEF Located
    <3>3. Where'
      BY <1>1, <2>3, <3>1, <3>2 DEF Where
    <3> QED
      BY <1>1, <3>3 DEF Doing
  <2> QED
    BY <1>10, <2>1, <2>2, <2>3
<1>17. Len(replies') = IF ev' = "write" THEN Len(calls') - 1 ELSE Len(calls')
  BY <1>1, <1>6, <1>8
<1> QED
  BY <1>1, <1>7, <1>9, <1>14, <1>15, <1>16, <1>17 DEF NowInv

\* Writing the reply.
LEMMA NowWrite ==
  ASSUME WatchInv, Typed, HistInv, NowInv, WritePart \/ WriteRest
  PROVE  HistInv' /\ NowInv'
<1>1. /\ pc = "loop" /\ ev = "write" /\ UNCHANGED <<state, inbuf, req, reply, net, peer, asked, togo, calls>>
  BY DEF WritePart, WriteRest, client
<1>2. /\ state # "freed" /\ Answering /\ Replying /\ Doing
      /\ Len(replies) = Len(calls) - 1
  BY <1>1 DEF WatchInv, Watched, Answering, NowInv
<1>3. Answering' /\ Current' = Current /\ pc' \in {"loop", "sent"}
  BY <1>1 DEF WritePart, WriteRest, Answering, Current
<1>4. Doing'
  <2>1. Coming' = Coming
    BY <1>1 DEF Coming
  <2>2. ASSUME NEW s, NEW b \in Nat, Located(s, b) PROVE Located(s, b)'
    BY <1>1, <1>2, <1>3, <2>2 DEF Located
  <2>3. Where => Where'
    BY <1>1, <2>1, <2>2 DEF Where
  <2>4. Over => Over'
    BY <1>1 DEF Over
  <2> QED
    BY <1>1, <1>2, <1>3, <2>3, <2>4 DEF Doing
<1>5. Replying'
  BY <1>1, <1>2 DEF Replying
<1>6. (req'.uri => req'.id = Current' /\ Current' \in 1..Len(asked')) /\ pc' # "done" /\ state' # "freed"
  BY <1>1, <1>2, <1>3 DEF NowInv
<1>7. CASE WritePart
  <2>1. UNCHANGED <<replies, ev>>
    BY <1>7 DEF WritePart
  <2>2. HistInv'
    BY <1>1, <1>3, <2>1, HistSame
  <2> QED
    BY <1>1, <1>2, <1>3, <1>4, <1>5, <1>6, <2>1, <2>2 DEF NowInv
<1>8. CASE WriteRest
  <2>1. replies' = Append(replies, reply) /\ ev' = "none"
    BY <1>8 DEF WriteRest
  <2>2. PICK n \in Nat : n = Len(replies) /\ Len(calls) = n + 1
    BY <1>2 DEF HistInv
  <2>3. PICK r \in Seq(ReplyType) : r = replies
    BY DEF HistInv
  <2>4. /\ replies' = Append(r, reply) /\ replies' \in Seq(ReplyType) /\ Len(replies') = n + 1
        /\ replies'[n + 1] = reply /\ \A k \in 1..n : replies'[k] = r[k]
    BY <1>2, <2>1, <2>2, <2>3 DEF Replying
  <2>5. reply.id = calls[n + 1].id /\ reply.code = calls[n + 1].code
    BY <1>2, <2>2 DEF Replying
  <2>6. ASSUME NEW k \in 1..Len(replies')
        PROVE  replies'[k].id = calls'[k].id /\ replies'[k].code = calls'[k].code
    <3>1. CASE k = n + 1
      BY <1>1, <2>4, <2>5, <3>1
    <3>2. CASE k \in 1..n
      BY <1>1, <2>2, <2>3, <2>4, <3>2 DEF HistInv
    <3> QED
      BY <2>4, <3>1, <3>2
  <2>7. HistInv'
    <3>1. \A k \in 1..Len(calls') : /\ CallRight(asked', peer', calls'[k], k)
                                    /\ calls'[k].code = 400 => k = Len(calls')
      BY <1>1 DEF HistInv
    <3>2. calls' \in Seq(CallType) /\ Len(replies') <= Len(calls')
      BY <1>1, <2>2, <2>4 DEF HistInv
    <3> QED
      BY <1>3, <2>4, <2>6, <3>1, <3>2 DEF HistInv
  <2>8. Len(replies') = IF ev' = "write" THEN Len(calls') - 1 ELSE Len(calls')
    BY <1>1, <2>1, <2>2, <2>4
  <2> QED
    BY <1>4, <1>5, <1>6, <2>7, <2>8 DEF NowInv
<1> QED
  BY <1>7, <1>8

\* A connection that is freed.
LEMMA NowFreed ==
  ASSUME HistInv, state' = "freed", UNCHANGED <<asked, peer, calls, replies>>
  PROVE  HistInv' /\ NowInv'
<1>1. HistInv'
  BY HistSame
<1> QED
  BY <1>1 DEF NowInv

\* All of a request was read, and the next one is begun.
LEMMA NextRequest ==
  ASSUME asked \in Seq(RequestType), NEW s, Offsets(asked, s), NEW b \in Nat, NEW c \in Nat, NEW q \in RequestState,
         ReadAll(asked, q, s, b, c)
  PROVE  AtStart(asked, NewRequest, s, b + q.eaten, c + 1)
<1>1. /\ c \in 1..Len(asked) /\ b = s[c] /\ q.eaten >= 1 /\ q.eaten <= Len(Pieces(asked[c]))
      /\ ~Crlf(asked[c]) => q.eaten = Len(Pieces(asked[c]))
  BY DEF ReadAll
<1>2. PICK x \in Nat, l \in Nat : x = s[c] /\ l = Len(Pieces(asked[c]))
  BY <1>1, OffsetsIs
<1>3. s[c + 1] = x + l
  BY <1>1, <1>2 DEF Offsets
<1>4. PICK e \in Nat : e = q.eaten
  BY DEF RequestState
<1>5. c + 1 \in 1..(Len(asked) + 1) /\ (c + 1) - 1 = c
  BY <1>1
<1>6. CASE e = l
  BY <1>1, <1>2, <1>3, <1>4, <1>5, <1>6 DEF AtStart
<1>7. CASE e # l
  <2>1. Crlf(asked[c]) /\ e >= 1 /\ e < l
    BY <1>1, <1>2, <1>4, <1>7
  <2>2. x < x + e /\ x + e < x + l
    BY <2>1
  <2> QED
    BY <1>1, <1>2, <1>4, <1>5, <2>1, <2>2 DEF AtStart
<1> QED
  BY <1>6, <1>7

\* evhttp_send_done().
LEMMA NowDone ==
  ASSUME WatchInv, Typed, HistInv, NowInv, SendDone
  PROVE  HistInv' /\ NowInv'
<1>1. /\ pc = "sent" /\ ev = "none" /\ state # "freed" /\ req \in RequestState /\ Answering
      /\ UNCHANGED <<net, peer, asked, togo, calls, replies>>
  BY DEF SendDone, WatchInv, Watched, Typed, Answering, client
<1>2. CASE state' = "freed"
  BY <1>1, <1>2, NowFreed
<1>3. CASE /\ ~NeedClose(req, reply) /\ req' = NewRequest /\ ev' = "read" /\ state' = "READING_FIRSTLINE"
           /\ pc' = "loop" /\ UNCHANGED inbuf
  <2>1. /\ Replying /\ Doing /\ Len(replies) = Len(calls) /\ reply.code # 400 /\ calls # <<>>
        /\ calls[Len(calls)].code # 400
    <3>1. Replying /\ Doing /\ Len(replies) = Len(calls)
      BY <1>1 DEF NowInv
    <3> QED
      BY <1>3, <3>1 DEF Replying
  <2>2. PICK c \in Nat : c = Len(calls)
    BY DEF HistInv
  <2>3. ~Answering' /\ Current = c /\ Current' = c + 1
    BY <1>1, <1>3, <2>2 DEF Answering, Current
  <2>4. \A k \in 1..Len(calls) : calls[k].code # 400
    BY <2>1 DEF HistInv
  <2>5. HistInv'
    <3>1. \A k \in 1..Len(calls') : CallRight(asked', peer', calls'[k], k)
      BY <1>1 DEF HistInv
    <3> QED
      BY <1>1, <2>4, <3>1 DEF HistInv
  <2>6. Doing'
    <3>1. CASE Over
      <4>1. Over'
        BY <1>1, <3>1 DEF Over
      <4> QED
        BY <1>3, <4>1 DEF Doing
    <3>2. CASE Where
      <4>1. PICK s : \E b \in Nat : /\ Offsets(asked, s) /\ Stream(asked, s, Coming, b + req.eaten)
                                    /\ Located(s, b)
        BY <3>2 DEF Where
      <4>2. PICK b \in Nat : Offsets(asked, s) /\ Stream(asked, s, Coming, b + req.eaten) /\ Located(s, b)
        BY <4>1
      <4>3. ReadAll(asked, req, s, b, c)
        BY <1>1, <2>3, <4>2 DEF Located
      <4>4. asked \in Seq(RequestType)
        BY RequestsAssumption DEF Typed
      <4>5. AtStart(asked, NewRequest, s, b + req.eaten, c + 1)
        BY <1>1, <4>2, <4>3, <4>4, NextRequest
      <4>6. PICK d \in Nat : d = b + req.eaten
        BY <1>1 DEF RequestState
      <4>7. Ready(asked', req', state', s, d, c + 1)
        BY <1>1, <1>3, <4>5, <4>6 DEF Ready
      <4>8. Located(s, d)'
        BY <1>3, <2>3, <4>7 DEF Located
      <4>9. Coming' = Coming
        BY <1>1, <1>3 DEF Coming
      <4>10. d + req'.eaten = d
        BY <1>3 DEF NewRequest
      <4>11. Offsets(asked', s) /\ Stream(asked', s, Coming', d + req'.eaten)
        BY <1>1, <4>2, <4>6, <4>9, <4>10
      <4>12. Where'
        BY <4>8, <4>11 DEF Where
      <4> QED
        BY <1>3, <4>12 DEF Doing
    <3> QED
      BY <1>1, <2>1, <3>1, <3>2 DEF Doing
  <2>7. ~req'.uri
    BY <1>3 DEF NewRequest
  <2>8. Len(replies') = IF ev' = "write" THEN Len(calls') - 1 ELSE Len(calls')
    BY <1>1, <1>3, <2>1
  <2> QED
    BY <1>3, <2>3, <2>5, <2>6, <2>7, <2>8 DEF NowInv
<1> QED
  BY <1>2, <1>3 DEF SendDone, Free

\* What is known of the requests so far stays so when the client has another one.
Beyond(a, z, s, b) == /\ Len(b) = Len(a) + 1 /\ Len(a) \in Nat
                      /\ \A i \in 1..Len(a) : b[i] = a[i]
                      /\ \A i \in 1..(Len(a) + 1) : z[i] = s[i]

\* An error that was deserved remains so.
LEMMA DeservedGrows ==
  ASSUME NEW a, NEW b, NEW z, NEW s, Beyond(a, z, s, b), NEW id, NEW k, Deserved(a, id, k)
  PROVE  Deserved(b, id, k)
<1>1. \A i \in 1..Len(a) : i \in 1..Len(b)
  BY DEF Beyond
<1> QED
  BY <1>1 DEF Deserved, Beyond

\* A call that was right remains so.
LEMMA CallGrows ==
  ASSUME NEW a, NEW b, NEW z, NEW s, Beyond(a, z, s, b), NEW p, NEW x, NEW k, CallRight(a, p, x, k)
  PROVE  CallRight(b, p, x, k)
<1>1. \A i \in 1..Len(a) : i \in 1..Len(b)
  BY DEF Beyond
<1>2. \A i \in 1..Len(a) : b[i] = a[i]
  BY DEF Beyond
<1>3. Deserved(a, x.id, k) => Deserved(b, x.id, k)
  BY DeservedGrows
<1> QED
  BY <1>1, <1>2, <1>3 DEF CallRight

\* The place in the stream remains the same.
LEMMA ReadGrows ==
  ASSUME NEW a, NEW b, NEW z, NEW s, Beyond(a, z, s, b), NEW q, NEW st, NEW d \in Nat, NEW c \in Nat
  PROVE  /\ ReadAll(a, q, s, d, c) => ReadAll(b, q, z, d, c)
         /\ Ready(a, q, st, s, d, c) => Ready(b, q, st, z, d, c)
<1>1. PICK n \in Nat : n = Len(a) /\ Len(b) = n + 1
  BY DEF Beyond
<1>2. (\A i \in 1..n : b[i] = a[i]) /\ (\A i \in 1..(n + 1) : z[i] = s[i])
  BY <1>1 DEF Beyond
<1>3. \A i \in 1..n : i \in 1..(n + 1)
  OBVIOUS
<1>4. ReadAll(a, q, s, d, c) => ReadAll(b, q, z, d, c)
  BY <1>1, <1>2, <1>3 DEF ReadAll
<1>5. InRequest(a, q, st, s, d, c) => InRequest(b, q, st, z, d, c)
  BY <1>1, <1>2, <1>3 DEF InRequest
<1>6. AtStart(a, q, s, d, c) => AtStart(b, q, z, d, c)
  BY <1>1, <1>2, <1>3 DEF AtStart
<1> QED
  BY <1>4, <1>5, <1>6 DEF Ready

\* The client asks for more.
LEMMA NowAsk ==
  ASSUME WatchInv, Typed, HistInv, NowInv, NEW r \in Requests, Ask(r)
  PROVE  HistInv' /\ NowInv'
<1>1. /\ asked' = Append(asked, r) /\ peer = "open"
      /\ UNCHANGED <<pc, state, ev, inbuf, req, reply, calls, replies, net, peer>>
  BY DEF Ask, server
<1>2. PICK a \in Seq(RequestType) : a = asked
  BY RequestsAssumption DEF Typed
<1>3. Len(asked') = Len(a) + 1 /\ Len(a) \in Nat /\ \A i \in 1..Len(a) : asked'[i] = a[i]
  BY <1>1, <1>2
<1>4. Answering' = Answering /\ Current' = Current /\ ~Over
  BY <1>1 DEF Answering, Current, Over
<1>5. Beyond(a, [i \in 1..(Len(a) + 1) |-> 0], [i \in 1..(Len(a) + 1) |-> 0], asked')
  BY <1>3 DEF Beyond
<1>6. HistInv'
  <2>1. \A k \in 1..Len(calls') : CallRight(asked', peer', calls'[k], k)
    <3> SUFFICES ASSUME NEW k \in 1..Len(calls) PROVE CallRight(asked', peer, calls[k], k)
      BY <1>1
    <3>1. CallRight(a, peer, calls[k], k)
      BY <1>2 DEF HistInv
    <3> QED
      BY <1>5, <3>1, CallGrows
  <2>2. \A k \in 1..Len(calls') :
         calls'[k].code = 400 => k = Len(calls') /\ (Answering' \/ state' = "freed")
    BY <1>1, <1>4 DEF HistInv
  <2> QED
    BY <1>1, <2>1, <2>2 DEF HistInv
<1>7. CASE state = "freed"
  BY <1>1, <1>6, <1>7 DEF NowInv
<1>8. CASE state # "freed"
  <2>1. req \in RequestState /\ Doing
    BY <1>8 DEF Typed, NowInv
  <2>5. Doing'
    <3>2. CASE Answering /\ reply.code = 400
      BY <1>1, <1>4, <3>2 DEF Doing
    <3>3. CASE pc = "fail" /\ Deserved(asked, req.id, Current)
      <4>1. Deserved(asked', req.id, Current)
        BY <1>2, <1>5, <3>3, DeservedGrows
      <4> QED
        BY <1>1, <1>4, <3>3, <4>1 DEF Doing
    <3>4. CASE pc # "fail" /\ Where
      <4>1. PICK s : \E b \in Nat : /\ Offsets(asked, s) /\ Stream(asked, s, Coming, b + req.eaten)
                                    /\ Located(s, b)
        BY <3>4 DEF Where
      <4>2. PICK b \in Nat : Offsets(asked, s) /\ Stream(asked, s, Coming, b + req.eaten) /\ Located(s, b)
        BY <4>1
      <4>3. PICK d \in Nat : d = b + req.eaten
        BY <2>1 DEF RequestState
      <4>4. Longer(asked, s, asked', Coming', d)
        BY <4>2, <4>3, StreamAsk
      <4>5. PICK z : /\ Offsets(asked', z) /\ Stream(asked', z, Coming', d)
                     /\ \A i \in 1..(Len(asked) + 1) : z[i] = s[i]
        BY <4>4 DEF Longer
      <4>6. Beyond(asked, z, s, asked')
        BY <1>2, <1>3, <4>5 DEF Beyond
      <4>7. PICK c \in Nat : c = Current
        <5>1. Len(calls) \in Nat
          BY DEF HistInv
        <5> QED
          BY <5>1 DEF Current
      <4>8. /\ ReadAll(asked, req, s, b, c) => ReadAll(asked', req, z, b, c)
            /\ Ready(asked, req, state, s, b, c) => Ready(asked', req, state, z, b, c)
        BY <4>6, ReadGrows
      <4>9. Located(z, b)'
        BY <1>1, <1>4, <4>2, <4>7, <4>8 DEF Located
      <4>10. Stream(asked', z, Coming', b + req'.eaten)
        BY <1>1, <4>3, <4>5
      <4>11. Where'
        BY <4>5, <4>9, <4>10 DEF Where
      <4> QED
        BY <1>1, <3>4, <4>11 DEF Doing
    <3> QED
      BY <1>4, <2>1, <3>2, <3>3, <3>4 DEF Doing
  <2>6. Replying' = Replying
    BY <1>1 DEF Replying
  <2>7. req'.uri => req'.id = Current' /\ Current' \in 1..Len(asked')
    <3>1. \A i \in 1..Len(asked) : i \in 1..Len(asked')
      BY <1>2, <1>3
    <3> QED
      BY <1>1, <1>4, <1>8, <3>1 DEF NowInv
  <2>8. pc' = "done" => req'.uri
    BY <1>1, <1>4, <1>8 DEF NowInv
  <2> QED
    BY <1>1, <1>4, <1>6, <1>8, <2>5, <2>6, <2>7, <2>8 DEF NowInv
<1> QED
  BY <1>7, <1>8

\* It sends a token, or hangs up.
LEMMA NowClient ==
  ASSUME WatchInv, Typed, HistInv, NowInv, Transmit \/ Hangup \/ UNCHANGED vars
  PROVE  HistInv' /\ NowInv'
<1>1. /\ UNCHANGED <<pc, state, ev, inbuf, req, reply, calls, replies, asked>>
  BY DEF Transmit, Hangup, server, vars, client, Over
<1>2. Answering' = Answering /\ Current' = Current /\ (Over => Over')
  <2>1. Over => Over'
    BY DEF Transmit, Hangup, server, vars, client, Over
  <2> QED
    BY <1>1, <2>1 DEF Answering, Current
<1>3. peer' = peer \/ peer = "open"
  BY DEF Transmit, Hangup, server, vars, client
<1>4. HistInv'
  BY <1>1, <1>2, <1>3, HistSame
<1>5. Coming' = Coming
  <2>1. CASE Transmit
    BY <2>1, StreamMoves
  <2>2. CASE Hangup \/ UNCHANGED vars
    BY <2>2 DEF Hangup, server, vars, client, Coming
  <2> QED
    BY <2>1, <2>2
<1>6. ASSUME NEW s, NEW b \in Nat, Located(s, b) PROVE Located(s, b)'
  BY <1>1, <1>2, <1>6 DEF Located
<1>7. Where => Where'
  BY <1>1, <1>5, <1>6 DEF Where
<1>8. Doing => Doing'
  BY <1>1, <1>2, <1>7 DEF Doing
<1>9. Replying' = Replying
  BY <1>1 DEF Replying
<1> QED
  BY <1>1, <1>2, <1>4, <1>8, <1>9 DEF NowInv

\* Every step keeps the history right and the server where it should be.
LEMMA HistStep ==
  WatchInv /\ WatchInv' /\ Typed /\ HistInv /\ NowInv /\ [Next]_vars => HistInv' /\ NowInv'
<1> SUFFICES ASSUME WatchInv, WatchInv', Typed, HistInv, NowInv, [Next]_vars
             PROVE  HistInv' /\ NowInv'
  OBVIOUS
<1>1. CASE ReadEof
  BY <1>1, NowEof
<1>2. CASE ReadData
  BY <1>2, NowData
<1>3. CASE ReadFirstline \/ ReadHeader \/ ReadPlainBody \/ ReadChunk \/ ReadTrailer
  BY <1>3, NowRead
<1>4. CASE ConnectionDone \/ ConnectionFail
  BY <1>4, NowSend
<1>5. CASE WritePart \/ WriteRest
  BY <1>5, NowWrite
<1>6. CASE SendDone
  BY <1>6, NowDone
<1>7. CASE EventFails
  <2>1. state' = "freed" /\ UNCHANGED <<asked, peer, calls, replies>>
    BY <1>7 DEF EventFails, Free, client
  <2> QED
    BY <2>1, NowFreed
<1>8. CASE \E r \in Requests : Ask(r)
  BY <1>8, NowAsk
<1>9. CASE Transmit \/ Hangup \/ UNCHANGED vars
  BY <1>9, NowClient
<1> QED
  BY <1>1, <1>2, <1>3, <1>4, <1>5, <1>6, <1>7, <1>8, <1>9 DEF Next, Callback

\* The history is right in every reachable state.
LEMMA AlwaysHist == Spec => [](Typed /\ HistInv)
<1>1. WatchInv /\ Typed /\ HistInv /\ NowInv /\ [Next]_vars => (WatchInv /\ Typed /\ HistInv /\ NowInv)'
  BY WatchNext, TypedStep, HistStep
<1> QED
  BY <1>1, WatchInit, TypedInit, HistInit, PTL DEF Spec

\* No CR without LF: Intact says the same.
LEMMA IntactIs ==
  ASSUME Typed, Intact
  PROVE  ~\E i \in 1..Len(asked) : Crlf(asked[i])
<1>1. \A i \in 1..Len(asked) : asked[i] \in RequestType
  BY RequestsAssumption DEF Typed
<1> QED
  BY <1>1 DEF Intact, Crlf

\* A callback is given whole requests, whatever the client sends, in whatever
\* pieces and however many requests at once, unless it closes its side first or a CR
\* comes without its LF: the callback of a URI never sees a body cut short, and never
\* a token of the next request.
THEOREM AlwaysWhole == Spec => []RequestsWhole
<1>1. Typed /\ HistInv => RequestsWhole
  <2> SUFFICES ASSUME Typed, HistInv, Intact, peer # "fin", NEW k \in 1..Len(calls),
                      calls[k].code # 400
               PROVE  calls[k].eaten = Len(Tokens(asked[calls[k].id], calls[k].id))
    BY DEF RequestsWhole, WholeCall
  <2>1. CallRight(asked, peer, calls[k], k)
    BY DEF HistInv
  <2>2. calls[k].id = k /\ k \in 1..Len(asked) /\ calls[k].eaten = Len(Pieces(asked[k]))
    BY <2>1, IntactIs DEF CallRight
  <2>3. PICK n \in Nat : n = Len(Pieces(asked[k]))
    BY <2>2, PiecesNat
  <2>4. Len(Tokens(asked[k], k)) = n
    BY <2>3 DEF Tokens
  <2> QED
    BY <2>2, <2>3, <2>4
<1> QED
  BY <1>1, AlwaysHist, PTL

\* The k-th call is for the k-th request and the k-th reply is that call's; an error
\* page ends the connection and is for a request that deserves it, unless the
\* client has gone or a CR came without its LF.
THEOREM AlwaysInOrder == Spec => []RepliesInOrder
<1>1. Typed /\ HistInv => RepliesInOrder
  <2> SUFFICES ASSUME Typed, HistInv, NEW k \in 1..Len(calls)
               PROVE  IF calls[k].code # 400 THEN calls[k].id = k
                      ELSE /\ k = Len(calls)
                           /\ peer = "fin" \/ ~Intact \/ (calls[k].id = k /\ Unacceptable(asked[k]))
    BY DEF RepliesInOrder, HistInv
  <2>1. CallRight(asked, peer, calls[k], k)
    BY DEF HistInv
  <2>2. calls[k].code = 400 => k = Len(calls)
    BY DEF HistInv
  <2>3. CASE calls[k].code # 400
    BY <2>1, <2>3 DEF CallRight
  <2>4. CASE calls[k].code = 400
    <3>1. peer = "fin" \/ Deserved(asked, calls[k].id, k)
      BY <2>1, <2>4 DEF CallRight
    <3> QED
      BY <2>2, <2>4, <3>1, IntactIs DEF Deserved
  <2> QED
    BY <2>3, <2>4
<1> QED
  BY <1>1, AlwaysHist, PTL

\* The server serves a connection exactly: whole requests, in their order, each replied to
\* once, for all requests that a client may send, in any number and any pieces.
THEOREM AlwaysServed == Spec => []ServedExactly
<1>1. TypeOK /\ RequestsWhole /\ RepliesInOrder => ServedExactly
  BY DEF ServedExactly
<1> QED
  BY <1>1, ConnTyped, AlwaysWhole, AlwaysInOrder, PTL

-----------------------------------------------------------------------------
(***************************************************************************)
(* Proofs about HttpClient.                                                *)
(***************************************************************************)

CONSTANTS Asked, Responses, RetryMax, MaxCnt, ClientTimeout, FailsNow, Breaks, FreeIn
VARIABLES con, cpc, cmade, told, called

Hc == INSTANCE HttpClient WITH pc <- cpc, made <- cmade, Timeout <- ClientTimeout

ReadStates == {"READING_FIRSTLINE", "READING_HEADERS", "READING_BODY", "READING_TRAILER"}
Quiet == {"DISCONNECTED", "CONNECTING"}
ConStates == Quiet \cup {"IDLE", "WRITING", "freed"} \cup ReadStates

\* The fields of a connection and their types.
ConFields(c) ==
  c = [state |-> c.state, fd |-> c.fd, ev |-> c.ev, closeEv |-> c.closeEv, cnt |-> c.cnt, queue |-> c.queue,
       inbuf |-> c.inbuf, cur |-> c.cur, net |-> c.net, peer |-> c.peer, due |-> c.due]
ConTyped(c) ==
  /\ ConFields(c)
  /\ c.state \in ConStates /\ c.fd \in BOOLEAN /\ c.closeEv \in BOOLEAN
  /\ c.ev \in {"none", "connect", "retry", "write", "read"}
  /\ c.cnt \in 0..MaxCnt /\ c.queue \in Seq(1..Len(Asked)) /\ c.peer \in {"none", "open", "fin", "rst"}

\* Every wait before another attempt to connect has a timer.
Timed == RetryMax \in 0..31

\* What a connection waits for, has to do and may hold in each of its states.
Settled(c) ==
  /\ c.ev \in {"connect", "retry"} => c.state = "CONNECTING"
  /\ c.ev = "write" <=> c.state = "WRITING"
  /\ c.ev = "read" => c.state \in ReadStates
  /\ c.state = "CONNECTING" /\ Timed => c.ev \in {"connect", "retry"}
  /\ c.state \in {"WRITING"} \cup ReadStates => c.queue # <<>>
  /\ c.state \in {"IDLE", "freed"} => c.queue = <<>>
  /\ c.state \in {"CONNECTING", "IDLE", "WRITING"} \cup ReadStates => c.fd = TRUE
  /\ c.closeEv = TRUE => c.state = "IDLE"
  /\ c.state = "freed" => c.peer = "none"

GoodCon(c) == ConTyped(c) /\ Settled(c)

LEMMA ResetIs ==
  ASSUME NEW c, ConTyped(c), NEW x, x = Hc!Reset(c)
  PROVE  /\ ConTyped(x) /\ x.state = "DISCONNECTED" /\ x.ev = "none" /\ x.fd = FALSE
         /\ x.queue = c.queue /\ x.closeEv = c.closeEv
BY DEF ConTyped, ConFields, Hc!Reset, ConStates, Quiet

\* evhttp_connection_connect() leaves a connection that connects, or one that could not.
Connects(x) == /\ GoodCon(x)
               /\ x.state \in Quiet
               /\ x.state = "DISCONNECTED" => FailsNow

LEMMA ConnectGood ==
  ASSUME NEW c, ConTyped(c), c.state # "CONNECTING", c.closeEv = FALSE, NEW x \in Hc!Connect(c)
  PROVE  Connects(x) /\ x.queue = c.queue
<1>1. PICK r : r = Hc!Reset(c)
  OBVIOUS
<1>2. ConTyped(r) /\ r.state = "DISCONNECTED" /\ r.ev = "none" /\ r.fd = FALSE /\ r.queue = c.queue /\ r.closeEv = FALSE
  BY <1>1, ResetIs
<1>3. x = [r EXCEPT !.fd = TRUE, !.ev = "connect", !.state = "CONNECTING"] \/ (FailsNow /\ x = r)
  BY <1>1 DEF Hc!Connect
<1>4. CASE x = [r EXCEPT !.fd = TRUE, !.ev = "connect", !.state = "CONNECTING"]
  BY <1>2, <1>4 DEF ConTyped, ConFields, Connects, GoodCon, Settled, ConStates, Quiet, ReadStates
<1>5. CASE FailsNow /\ x = r
  BY <1>2, <1>5 DEF Connects, GoodCon, Settled, Quiet, ReadStates
<1> QED
  BY <1>3, <1>4, <1>5

\* evhttp_request_dispatch() of an idle connection.
LEMMA DispatchGood ==
  ASSUME NEW c, ConTyped(c), c.state = "IDLE", c.fd = TRUE, c.ev = "none", NEW x, x = Hc!Dispatch(c)
  PROVE  GoodCon(x) /\ x.queue = c.queue /\ x.state \in {"IDLE", "WRITING"}
BY DEF ConTyped, ConFields, GoodCon, Settled, ConStates, Quiet, ReadStates, Hc!Dispatch

\* evhttp_make_request() with a request that is not at the head of the queue yet.
LEMMA MakeGood ==
  ASSUME NEW c, GoodCon(c), c.state # "freed", NEW i \in 1..Len(Asked), c.queue # <<>> => Head(c.queue) # i,
         NEW x \in Hc!MakeRequest(c, i)
  PROVE  /\ GoodCon(x) /\ x.queue = Append(c.queue, i)
         /\ c.state \in Quiet => x.state \in Quiet
         /\ x.state = c.state \/ x.state \in {"CONNECTING", "WRITING"}
         /\ x.state = "DISCONNECTED" => FailsNow
         /\ x.state \in ReadStates => x.ev = c.ev
<1>1. PICK q : q = [c EXCEPT !.queue = Append(@, i)]
  OBVIOUS
<1>2. ConTyped(c) /\ Settled(c)
  BY DEF GoodCon
<1>3. c.queue \in Seq(1..Len(Asked)) /\ Append(c.queue, i) \in Seq(1..Len(Asked)) /\ Append(c.queue, i) # <<>>
  BY <1>2 DEF ConTyped
<1>4. ConTyped(q) /\ q.queue = Append(c.queue, i) /\ q.state = c.state /\ q.ev = c.ev /\ q.fd = c.fd /\ q.closeEv = c.closeEv
  BY <1>1, <1>2, <1>3 DEF ConTyped, ConFields
<1>5. CASE c.state = "CONNECTING"
  <2>1. x = q
    BY <1>1, <1>4, <1>5 DEF Hc!MakeRequest, Hc!Connect, Hc!Connected
  <2> QED
    BY <1>2, <1>3, <1>4, <1>5, <2>1 DEF GoodCon, Settled, Quiet, ReadStates
<1>6. CASE c.state = "DISCONNECTED"
  <2>1. x \in Hc!Connect(q) /\ q.closeEv = FALSE
    BY <1>1, <1>2, <1>4, <1>6 DEF Hc!MakeRequest, Hc!Connected, Settled, ConTyped
  <2>2. Connects(x) /\ x.queue = q.queue
    BY <1>4, <1>6, <2>1, ConnectGood
  <2> QED
    BY <1>4, <1>6, <2>2 DEF Connects, Quiet, ReadStates
<1>7. CASE c.state = "IDLE"
  <2>1. c.queue = <<>> /\ c.fd = TRUE /\ c.ev = "none"
    BY <1>2, <1>7 DEF Settled, ConTyped, ReadStates
  <2>2. Head(q.queue) = i
    BY <1>4, <2>1
  <2>3. x = Hc!Dispatch(q)
    BY <1>1, <1>4, <1>7, <2>2 DEF Hc!MakeRequest, Hc!Connected
  <2>4. GoodCon(x) /\ x.queue = q.queue /\ x.state \in {"IDLE", "WRITING"}
    BY <1>4, <1>7, <2>1, <2>3, DispatchGood
  <2> QED
    BY <1>4, <1>7, <2>4 DEF Quiet, ReadStates
<1>8. CASE c.state \in {"WRITING"} \cup ReadStates
  <2>1. c.queue # <<>>
    BY <1>2, <1>8 DEF Settled
  <2>2. Head(q.queue) = Head(c.queue)
    BY <1>3, <1>4, <2>1
  <2>3. x = q
    BY <1>1, <1>4, <1>8, <2>1, <2>2 DEF Hc!MakeRequest, Hc!Connected, ReadStates
  <2> QED
    BY <1>2, <1>3, <1>4, <1>8, <2>3 DEF GoodCon, Settled, Quiet, ReadStates
<1> QED
  BY <1>2, <1>5, <1>6, <1>7, <1>8 DEF ConTyped, ConStates, Quiet

\* A connection whose first request has ended: it goes on with the next one, if there is one.
WentOn(x, c) == /\ GoodCon(x)
                /\ x.queue = Tail(c.queue)
                /\ x.state \in {"IDLE", "WRITING"} \cup Quiet
                /\ x.state = "DISCONNECTED" => x.queue = <<>> \/ FailsNow

\* evhttp_connection_done().
LEMMA DoneGood ==
  ASSUME NEW c, ConTyped(c), c.queue # <<>>, c.closeEv = FALSE, c.fd = TRUE, c.ev = "none", NEW x \in Hc!Done(c)
  PROVE  WentOn(x, c)
<1>1. PICK idle, next : /\ idle = [c EXCEPT !.state = "IDLE", !.queue = Tail(@)]
                        /\ next = IF Hc!NeedClose(c) THEN Hc!Reset(idle) ELSE idle
  OBVIOUS
<1>2. Tail(c.queue) \in Seq(1..Len(Asked))
  BY HeadTailProperties DEF ConTyped
<1>3. /\ ConTyped(idle) /\ idle.state = "IDLE" /\ idle.queue = Tail(c.queue) /\ idle.ev = "none" /\ idle.fd = TRUE
      /\ idle.closeEv = FALSE
  BY <1>1, <1>2 DEF ConTyped, ConFields, ConStates
<1>4. CASE next = idle /\ ~Hc!NeedClose(c)
  <2>1. CASE next.queue # <<>>
    <3>1. x = Hc!Dispatch(next)
      BY <1>1, <1>3, <1>4, <2>1 DEF Hc!Done, Hc!Connected
    <3> QED
      BY <1>3, <1>4, <3>1, DispatchGood DEF WentOn
  <2>2. CASE next.queue = <<>>
    <3>1. x = [next EXCEPT !.closeEv = TRUE]
      BY <1>1, <1>4, <2>2 DEF Hc!Done, Hc!StartDetectClose
    <3> QED
      BY <1>3, <1>4, <2>2, <3>1 DEF WentOn, GoodCon, Settled, ConTyped, ConFields, ConStates, Quiet, ReadStates
  <2> QED
    BY <2>1, <2>2
<1>5. CASE next = Hc!Reset(idle) /\ Hc!NeedClose(c)
  <2>1. /\ ConTyped(next) /\ next.state = "DISCONNECTED" /\ next.ev = "none" /\ next.fd = FALSE
        /\ next.queue = Tail(c.queue) /\ next.closeEv = FALSE
    BY <1>3, <1>5, ResetIs
  <2>2. CASE next.queue # <<>>
    <3>1. x \in Hc!Connect(next)
      BY <1>1, <1>5, <2>1, <2>2 DEF Hc!Done, Hc!Connected
    <3>2. Connects(x) /\ x.queue = next.queue
      BY <2>1, <3>1, ConnectGood
    <3> QED
      BY <2>1, <3>2 DEF WentOn, Connects
  <2>3. CASE next.queue = <<>>
    <3>1. x = next
      BY <1>1, <1>5, <2>3 DEF Hc!Done
    <3> QED
      BY <2>1, <2>3, <3>1 DEF WentOn, GoodCon, Settled, Quiet, ReadStates
  <2> QED
    BY <2>2, <2>3
<1> QED
  BY <1>1, <1>4, <1>5

\* evhttp_connection_fail().
LEMMA FailGood ==
  ASSUME NEW c, ConTyped(c), c.queue # <<>>, c.closeEv = FALSE, NEW x \in Hc!Fail(c)
  PROVE  WentOn(x, c)
<1>1. PICK d, r : d = [c EXCEPT !.queue = Tail(@)] /\ r = Hc!Reset(d)
  OBVIOUS
<1>2. Tail(c.queue) \in Seq(1..Len(Asked))
  BY HeadTailProperties DEF ConTyped
<1>3. ConTyped(d) /\ d.queue = Tail(c.queue) /\ d.closeEv = FALSE
  BY <1>1, <1>2 DEF ConTyped, ConFields
<1>4. ConTyped(r) /\ r.state = "DISCONNECTED" /\ r.ev = "none" /\ r.queue = Tail(c.queue) /\ r.closeEv = FALSE
  BY <1>1, <1>3, ResetIs
<1>5. CASE r.queue # <<>>
  <2>1. x \in Hc!Connect(r)
    BY <1>1, <1>5 DEF Hc!Fail
  <2>2. Connects(x) /\ x.queue = r.queue
    BY <1>4, <2>1, ConnectGood
  <2> QED
    BY <1>4, <2>2 DEF WentOn, Connects
<1>6. CASE r.queue = <<>>
  <2>1. x = r
    BY <1>1, <1>6 DEF Hc!Fail
  <2> QED
    BY <1>4, <1>6, <2>1 DEF WentOn, GoodCon, Settled, Quiet, ReadStates
<1> QED
  BY <1>5, <1>6

\* The calls so far were for the requests 1, 2, ... in their order, and the queue goes on from there.
Calls(S) == called \in Seq(S)
Ordered ==
  /\ \E S : Calls(S)
  /\ \A k \in 1..Len(called) : called[k].id = k
  /\ cmade \in 0..Len(Asked) /\ Len(called) <= cmade
  /\ con.state # "freed" => /\ Len(called) + Len(con.queue) = cmade
                            /\ \A j \in 1..Len(con.queue) : con.queue[j] = Len(called) + j

\* Where the thread is agrees with the connection.
ThreadAt ==
  /\ cpc \in {"loop", "callback", "cleanup", "cbcleanup", "dangling"} \cup ReadStates
  /\ cpc \in ReadStates => con.state = cpc /\ con.ev = "none"
  /\ con.state \in ReadStates => con.ev = "read" \/ cpc = con.state
  /\ cpc \in {"cleanup", "cbcleanup"} => con.state \in Quiet \cup {"freed"}
  /\ cpc = "cleanup" => con.state # "freed"
  /\ con.state = "DISCONNECTED" /\ con.queue # <<>> => FailsNow \/ cpc \in {"cleanup", "cbcleanup"}

Untold == told \subseteq 1..cmade /\ (told # {} => FailsNow)

ClientInv == Hc!Sane /\ GoodCon(con) /\ Ordered /\ ThreadAt /\ Untold

LEMMA LastOrBefore == \A m \in Nat : \A j \in 1..(m + 1) : j \in 1..m \/ j = m + 1
OBVIOUS

\* A sequence t that is s with e at the end.
IsLonger(t, s, e) == /\ \E T : t \in Seq(T)
                     /\ Len(t) = Len(s) + 1 /\ Len(s) \in Nat
                     /\ \A k \in 1..Len(s) : t[k] = s[k]
                     /\ t[Len(s) + 1] = e
LEMMA Appended ==
  ASSUME NEW S, NEW s \in Seq(S), NEW e, NEW t, t = Append(s, e)
  PROVE  IsLonger(t, s, e)
<1>1. s \in Seq(S \cup {e})
  BY SeqDef
<1> QED
  BY <1>1, AppendProperties DEF IsLonger

LEMMA RestOf ==
  ASSUME NEW S, NEW s \in Seq(S), s # <<>>
  PROVE  /\ Head(s) = s[1] /\ Head(s) \in S /\ Tail(s) \in Seq(S) /\ Len(Tail(s)) = Len(s) - 1 /\ Len(s) \in Nat \ {0}
         /\ \A k \in 1..(Len(s) - 1) : Tail(s)[k] = s[k + 1]
BY HeadTailProperties

\* The first request of the queue is called back.
LEMMA CallKeeps ==
  ASSUME Ordered, ConTyped(con), con.state # "freed", con.queue # <<>>, con'.queue = Tail(con.queue),
         NEW e, called' = Append(called, e), e.id = Head(con.queue), cmade' = cmade
  PROVE  Ordered'
<1>1. PICK S : called \in Seq(S)
  BY DEF Ordered, Calls
<1>2. PICK n \in Nat, q \in Seq(1..Len(Asked)) : n = Len(called) /\ q = con.queue
  BY <1>1 DEF ConTyped
<1>3. Len(called') = n + 1 /\ (\A k \in 1..n : called'[k] = called[k]) /\ called'[n + 1] = e /\ \E T : called' \in Seq(T)
  <2>1. IsLonger(called', called, e)
    BY <1>1, Appended
  <2> QED
    BY <1>2, <2>1 DEF IsLonger
<1>4. PICK m \in Nat \ {0} : m = Len(q)
  BY <1>2, RestOf
<1>5. Head(q) = q[1] /\ Len(con'.queue) = m - 1 /\ \A k \in 1..(m - 1) : con'.queue[k] = q[k + 1]
  BY <1>2, <1>4, RestOf
<1>6. n + m = cmade /\ \A j \in 1..m : q[j] = n + j
  BY <1>2, <1>4 DEF Ordered
<1>7. e.id = n + 1
  BY <1>2, <1>4, <1>5, <1>6
<1>8. \A k \in 1..Len(called') : called'[k].id = k
  BY <1>2, <1>3, <1>7 DEF Ordered
<1>9. \A j \in 1..(m - 1) : con'.queue[j] = (n + 1) + j
  BY <1>5, <1>6
<1>10. cmade' \in 0..Len(Asked) /\ n + 1 <= cmade'
  BY <1>4, <1>6 DEF Ordered
<1>11. (n + 1) + (m - 1) = cmade'
  BY <1>6
<1> QED
  BY <1>3, <1>5, <1>8, <1>9, <1>10, <1>11 DEF Ordered, Calls

\* The next request is made.
LEMMA MakeKeeps ==
  ASSUME Ordered, ConTyped(con), con.state # "freed", cmade < Len(Asked), Len(Asked) \in Nat,
         con'.queue = Append(con.queue, cmade + 1), called' = called, cmade' = cmade + 1
  PROVE  Ordered'
<1>1. PICK q \in Seq(1..Len(Asked)) : q = con.queue
  BY DEF ConTyped
<1>2. Len(con'.queue) = Len(q) + 1 /\ Len(q) \in Nat /\ (\A k \in 1..Len(q) : con'.queue[k] = q[k])
      /\ con'.queue[Len(q) + 1] = cmade + 1
  <2>1. IsLonger(con'.queue, q, cmade + 1)
    BY <1>1, Appended
  <2> QED
    BY <2>1 DEF IsLonger
<1>3. PICK m \in Nat : m = Len(q)
  BY <1>2
<1>4. Len(called) \in Nat
  BY DEF Ordered, Calls
<1>5. PICK n \in Nat : n = Len(called)
  BY <1>4
<1>6. cmade = n + m /\ \A j \in 1..m : q[j] = n + j
  BY <1>1, <1>3, <1>5 DEF Ordered
<1>7. \A j \in 1..(m + 1) : con'.queue[j] = n + j
  <2> SUFFICES ASSUME NEW j \in 1..(m + 1)
               PROVE  con'.queue[j] = n + j
    OBVIOUS
  <2>1. CASE j \in 1..m
    BY <1>2, <1>3, <1>6, <2>1
  <2>2. CASE j = m + 1
    BY <1>2, <1>3, <1>6, <2>2
  <2> QED
    BY <2>1, <2>2, LastOrBefore
<1>8. cmade' \in 0..Len(Asked) /\ n <= cmade' /\ n + (m + 1) = cmade'
  BY <1>6 DEF Ordered
<1> QED
  BY <1>2, <1>3, <1>5, <1>7, <1>8 DEF Ordered, Calls

LEMMA OrderStays ==
  ASSUME Ordered, UNCHANGED <<called, cmade>>, con'.state = "freed" \/ (con.state # "freed" /\ con'.queue = con.queue)
  PROVE  Ordered'
BY DEF Ordered, Calls

\* The number of the next request is not at the head of the queue.
LEMMA NotFirst ==
  ASSUME Ordered, ConTyped(con), con.state # "freed", con.queue # <<>>
  PROVE  Head(con.queue) # cmade + 1
<1>1. Len(con.queue) \in Nat \ {0} /\ Head(con.queue) = con.queue[1]
  BY RestOf DEF ConTyped
<1>2. con.queue[1] = Len(called) + 1 /\ Len(called) + Len(con.queue) = cmade /\ Len(called) \in Nat
  BY <1>1 DEF Ordered, Calls
<1> QED
  BY <1>1, <1>2

\* An invariant of the next state.
LEMMA GoodConNext ==
  ASSUME GoodCon(con')
  PROVE  GoodCon(con)'
BY DEF GoodCon, ConTyped, ConFields, Settled, ConStates, Quiet, ReadStates

LEMMA ClientStarts ==
  ASSUME Hc!Sane, Hc!Init
  PROVE  ClientInv
<1>1. con = [state |-> "DISCONNECTED", fd |-> FALSE, ev |-> "none", closeEv |-> FALSE, cnt |-> 0,
             queue |-> <<>>, inbuf |-> <<>>, cur |-> Hc!NewReply,
             net |-> <<>>, peer |-> "none", due |-> <<>>]
  BY DEF Hc!Init, Hc!New
<1>2. GoodCon(con)
  BY <1>1 DEF Hc!Sane, GoodCon, ConTyped, ConFields, Settled, ConStates, Quiet, ReadStates
<1>3. Ordered
  <2>1. called = <<>> /\ cmade = 0 /\ con.queue = <<>> /\ Len(Asked) \in Nat
    BY <1>1 DEF Hc!Init, Hc!Sane
  <2> QED
    BY <2>1 DEF Ordered, Calls
<1> QED
  BY <1>1, <1>2, <1>3 DEF ClientInv, ThreadAt, Untold, Hc!Init, Quiet, ReadStates

\* evhttp_make_request().
LEMMA RequestStep ==
  ASSUME ClientInv, con.state # "freed", cpc \in {"loop", "callback", "cbcleanup"}, Hc!Request
  PROVE  ClientInv'
<1>1. PICK i : i = cmade + 1
  OBVIOUS
<1>2. /\ cmade < Len(Asked) /\ cmade' = i /\ con' \in Hc!MakeRequest(con, i) /\ UNCHANGED <<cpc, called>>
      /\ told' = IF con'.state = "DISCONNECTED" THEN told \cup {i} ELSE told
  BY <1>1 DEF Hc!Request
<1>3. GoodCon(con) /\ ConTyped(con) /\ Ordered /\ ThreadAt /\ Untold /\ Hc!Sane /\ Len(Asked) \in Nat /\ cmade \in Nat
  BY DEF ClientInv, GoodCon, Ordered, Hc!Sane
<1>4. i \in 1..Len(Asked) /\ (con.queue # <<>> => Head(con.queue) # i)
  BY <1>1, <1>2, <1>3, NotFirst
<1>5. /\ GoodCon(con') /\ con'.queue = Append(con.queue, i)
      /\ con.state \in Quiet => con'.state \in Quiet
      /\ con'.state = con.state \/ con'.state \in {"CONNECTING", "WRITING"}
      /\ con'.state = "DISCONNECTED" => FailsNow
      /\ con'.state \in ReadStates => con'.ev = con.ev
  BY <1>2, <1>3, <1>4, MakeGood
<1>6. Ordered'
  BY <1>1, <1>2, <1>3, <1>5, MakeKeeps
<1>7. ThreadAt'
  BY <1>2, <1>3, <1>5 DEF ThreadAt, ReadStates, Quiet
<1>8. Untold'
  BY <1>1, <1>2, <1>3, <1>5 DEF Untold
<1> QED
  BY <1>3, <1>5, <1>6, <1>7, <1>8, GoodConNext DEF ClientInv

\* evhttp_connection_free().
LEMMA FreeStep ==
  ASSUME ClientInv, cpc \in {"loop", "callback", "cbcleanup"}, Hc!Free
  PROVE  ClientInv'
<1>1. con' = [state |-> "freed", fd |-> FALSE, ev |-> "none", closeEv |-> FALSE, cnt |-> 0,
              queue |-> <<>>, inbuf |-> <<>>, cur |-> Hc!NewReply,
              net |-> <<>>, peer |-> "none", due |-> <<>>]
  BY DEF Hc!Free, Hc!New
<1>2. UNCHANGED <<cpc, cmade, told, called>> /\ Hc!Sane /\ Ordered /\ ThreadAt /\ Untold
  BY DEF Hc!Free, ClientInv
<1>3. GoodCon(con')
  BY <1>1, <1>2 DEF Hc!Sane, GoodCon, ConTyped, ConFields, Settled, ConStates, Quiet, ReadStates
<1>4. con'.state = "freed"
  BY <1>1
<1>5. Ordered'
  BY <1>2, <1>4, OrderStays
<1>6. ThreadAt'
  BY <1>2, <1>4 DEF ThreadAt, ReadStates, Quiet
<1>7. Untold'
  BY <1>2 DEF Untold
<1> QED
  BY <1>2, <1>3, <1>5, <1>6, <1>7, GoodConNext DEF ClientInv

\* A step that leaves the queue and the history alone.
LEMMA QueueStays ==
  ASSUME ClientInv, con.state # "freed", GoodCon(con'), con'.queue = con.queue, con'.state # "freed",
         UNCHANGED <<cmade, told, called>>, ThreadAt'
  PROVE  ClientInv'
<1>1. Ordered'
  BY OrderStays DEF ClientInv
<1>2. Untold'
  BY DEF ClientInv, Untold
<1> QED
  BY <1>1, <1>2, GoodConNext DEF ClientInv

\* The callback of the first request was called.
LEMMA ReportStep ==
  ASSUME ClientInv, con.state # "freed", con.queue # <<>>, NEW c, c.queue = con.queue, WentOn(con', c),
         NEW kind, Hc!Report(c, kind), cpc' = "callback", UNCHANGED <<cmade, told>>
  PROVE  ClientInv'
<1>1. PICK e : e = [id |-> Head(c.queue), kind |-> kind, toks |-> c.cur.toks]
  OBVIOUS
<1>2. called' = Append(called, e) /\ e.id = Head(con.queue)
  BY <1>1 DEF Hc!Report
<1>3. Ordered /\ ConTyped(con) /\ con'.queue = Tail(con.queue) /\ GoodCon(con')
  BY DEF ClientInv, GoodCon, WentOn
<1>4. Ordered'
  BY <1>2, <1>3, CallKeeps
<1>5. ThreadAt'
  BY DEF WentOn, ThreadAt, Quiet, ReadStates
<1>6. Untold'
  BY DEF ClientInv, Untold
<1> QED
  BY <1>3, <1>4, <1>5, <1>6, GoodConNext DEF ClientInv

\* c is the connection after some of what it reads, or the server's side of it, has changed.
SameCon(c) == /\ ConFields(c)
              /\ c.state = con.state /\ c.fd = con.fd /\ c.closeEv = con.closeEv /\ c.cnt = con.cnt
              /\ c.queue = con.queue /\ c.peer \in {"none", "open", "fin", "rst"}

\* The end of a request that was being written or read.
LEMMA EndsStep ==
  ASSUME ClientInv, con.state \in {"WRITING"} \cup ReadStates, NEW c, SameCon(c), c.ev = "none", Hc!EndDone(c) \/ Hc!EndFail(c)
  PROVE  ClientInv'
<1>1. ConTyped(con) /\ Settled(con)
  BY DEF ClientInv, GoodCon
<1>2. ConTyped(c) /\ c.queue # <<>> /\ c.closeEv = FALSE /\ c.fd = TRUE /\ con.state # "freed" /\ c.queue = con.queue
  BY <1>1 DEF SameCon, ConTyped, Settled, ReadStates
<1>3. CASE Hc!EndDone(c)
  <2>1. con' \in Hc!Done(c) /\ Hc!Report(c, "reply") /\ cpc' = "callback" /\ UNCHANGED <<cmade, told>>
    BY <1>3 DEF Hc!EndDone
  <2>2. WentOn(con', c)
    BY <1>2, <2>1, DoneGood
  <2> QED
    BY <1>2, <2>1, <2>2, ReportStep
<1>4. CASE Hc!EndFail(c)
  <2>1. con' \in Hc!Fail(c) /\ Hc!Report(c, "failed") /\ cpc' = "callback" /\ UNCHANGED <<cmade, told>>
    BY <1>4 DEF Hc!EndFail
  <2>2. WentOn(con', c)
    BY <1>2, <2>1, FailGood
  <2> QED
    BY <1>2, <2>1, <2>2, ReportStep
<1> QED
  BY <1>3, <1>4

\* A callback returns.
LEMMA CallbackStep ==
  ASSUME ClientInv, Hc!Callback
  PROVE  ClientInv'
<1>1. cpc \in {"callback", "cbcleanup"}
  BY DEF Hc!Callback
<1>2. CASE (con.state # "freed" /\ Hc!Request) \/ Hc!Free
  BY <1>1, <1>2, RequestStep, FreeStep
<1>3. CASE /\ cpc' = IF cpc = "callback" THEN "loop" ELSE IF con.state = "freed" THEN "dangling" ELSE "cleanup"
           /\ UNCHANGED <<con, cmade, told, called>>
  <2>1. Hc!Sane /\ GoodCon(con) /\ Ordered /\ ThreadAt /\ Untold
    BY DEF ClientInv
  <2>2. GoodCon(con') /\ Ordered' /\ Untold'
    BY <1>3, <2>1 DEF Ordered, Calls, Untold
  <2>3. \/ cpc = "callback" /\ cpc' = "loop"
        \/ cpc = "cbcleanup" /\ con.state = "freed" /\ cpc' = "dangling"
        \/ cpc = "cbcleanup" /\ con.state # "freed" /\ cpc' = "cleanup"
    BY <1>1, <1>3
  <2>4. ThreadAt'
    BY <1>3, <2>1, <2>3 DEF ThreadAt, ReadStates, Quiet
  <2> QED
    BY <2>1, <2>2, <2>4, GoodConNext DEF ClientInv
<1> QED
  BY <1>1, <1>2, <1>3 DEF Hc!Callback

\* evhttp_connectioncb() and evhttp_connection_retry().
LEMMA ConnectOkStep ==
  ASSUME ClientInv, Hc!ConnectOk
  PROVE  ClientInv'
<1>1. PICK c : c = [con EXCEPT !.ev = "none", !.cnt = 0, !.state = "IDLE", !.peer = "open"]
  OBVIOUS
<1>2. con' = Hc!Dispatch(c) /\ cpc = "loop" /\ con.ev = "connect" /\ UNCHANGED <<cpc, cmade, told, called>>
  BY <1>1 DEF Hc!ConnectOk, Hc!Fired, Hc!Taken
<1>3. ConTyped(con) /\ Settled(con) /\ con.state = "CONNECTING" /\ ThreadAt /\ Hc!Sane
  BY <1>2 DEF ClientInv, GoodCon, Settled
<1>4. ConTyped(c) /\ c.state = "IDLE" /\ c.fd = TRUE /\ c.ev = "none" /\ c.queue = con.queue
  <2>1. 0 \in 0..MaxCnt /\ con.fd = TRUE
    BY <1>3 DEF Hc!Sane, Settled
  <2> QED
    BY <1>1, <1>3, <2>1 DEF ConTyped, ConFields, ConStates
<1>5. GoodCon(con') /\ con'.queue = con.queue /\ con'.state \in {"IDLE", "WRITING"}
  BY <1>2, <1>4, DispatchGood
<1>6. ThreadAt'
  BY <1>2, <1>3, <1>5 DEF ThreadAt, ReadStates, Quiet
<1> QED
  BY <1>2, <1>3, <1>5, <1>6, QueueStays

\* As long as the number of attempts is below 31, the wait is not zero.
LEMMA WaitsForRetry ==
  ASSUME NEW n \in 0..30
  PROVE  Hc!RetryWait(n) # 0
<1>1. /\ 2^1 # 0 /\ 2^2 # 0 /\ 2^3 # 0 /\ 2^4 # 0 /\ 2^5 # 0 /\ 2^6 # 0 /\ 2^7 # 0 /\ 2^8 # 0 /\ 2^9 # 0 /\ 2^10 # 0
      /\ 2^11 # 0 /\ 2^12 # 0 /\ 2^13 # 0 /\ 2^14 # 0 /\ 2^15 # 0 /\ 2^16 # 0 /\ 2^17 # 0 /\ 2^18 # 0 /\ 2^19 # 0 /\ 2^20 # 0
      /\ 2^21 # 0 /\ 2^22 # 0 /\ 2^23 # 0 /\ 2^24 # 0 /\ 2^25 # 0 /\ 2^26 # 0 /\ 2^27 # 0 /\ 2^28 # 0 /\ 2^29 # 0 /\ 2^30 # 0
  OBVIOUS
<1>2. 2^30 > 0
  OBVIOUS
<1>3. PICK k \in 1..31 : k = n + 1
  OBVIOUS
<1>4. Hc!Shifted(n) = IF k = 31 THEN -(2^30) - 2^30 ELSE 2^k
  BY <1>3 DEF Hc!Shifted
<1>5. k \in {1, 2, 3, 4, 5, 6, 7, 8, 9, 10} \/ k \in {11, 12, 13, 14, 15, 16, 17, 18, 19, 20} \/ k \in {21, 22, 23, 24, 25, 26, 27, 28, 29, 30} \/ k = 31
  OBVIOUS
<1>6. k # 31 => 2^k # 0
  BY <1>1, <1>5, Zenon
<1>7. Hc!Shifted(n) # 0
  BY <1>2, <1>4, <1>6
<1> QED
  BY <1>7 DEF Hc!RetryWait

LEMMA ConnectFailsStep ==
  ASSUME ClientInv, Hc!ConnectFails
  PROVE  ClientInv'
<1>1. cpc = "loop" /\ con.ev = "connect" /\ UNCHANGED <<cmade, told, called>>
  BY DEF Hc!ConnectFails, Hc!Fired
<1>2. ConTyped(con) /\ Settled(con) /\ con.state = "CONNECTING" /\ ThreadAt /\ Hc!Sane
  BY <1>1 DEF ClientInv, GoodCon, Settled
<1>3. PICK t : t = Hc!Taken
  OBVIOUS
<1>4. ConTyped(t) /\ t.state = "CONNECTING" /\ t.ev = "none" /\ t.queue = con.queue /\ t.cnt = con.cnt /\ t.fd = TRUE
      /\ t.closeEv = FALSE
  BY <1>2, <1>3 DEF Hc!Taken, ConTyped, ConFields, Settled, ReadStates
<1>5. CASE /\ RetryMax < 0 \/ con.cnt < RetryMax
           /\ con.cnt < MaxCnt
           /\ con' = [t EXCEPT !.cnt = @ + 1, !.ev = IF Hc!RetryWait(con.cnt) = 0 THEN "none" ELSE "retry"]
           /\ UNCHANGED cpc
  <2>1. con.cnt \in Nat /\ con.cnt + 1 \in 0..MaxCnt
    BY <1>2, <1>5 DEF ConTyped, Hc!Sane
  <2>2. PICK w \in {"none", "retry"} : w = IF Hc!RetryWait(con.cnt) = 0 THEN "none" ELSE "retry"
    OBVIOUS
  <2>3. Timed => w = "retry"
    <3>1. ASSUME Timed
          PROVE  con.cnt \in 0..30
      BY <1>5, <2>1, <3>1 DEF Timed
    <3> QED
      BY <2>2, <3>1, WaitsForRetry
  <2>4. con' = [t EXCEPT !.cnt = con.cnt + 1, !.ev = w]
    BY <1>4, <1>5, <2>2
  <2>5. ConTyped(con') /\ con'.state = "CONNECTING" /\ con'.ev = w /\ con'.queue = con.queue /\ con'.fd = TRUE /\ con'.closeEv = FALSE
    BY <1>4, <2>1, <2>4 DEF ConTyped, ConFields
  <2>6. GoodCon(con')
    BY <2>3, <2>5 DEF GoodCon, Settled, ReadStates
  <2>7. ThreadAt'
    BY <1>1, <1>2, <1>5, <2>5 DEF ThreadAt, ReadStates, Quiet
  <2> QED
    BY <1>1, <1>2, <2>5, <2>6, <2>7, QueueStays
<1>6. CASE con' = Hc!Reset(t) /\ cpc' = "cleanup"
  <2>1. ConTyped(con') /\ con'.state = "DISCONNECTED" /\ con'.ev = "none" /\ con'.queue = con.queue /\ con'.closeEv = FALSE
    BY <1>4, <1>6, ResetIs
  <2>2. GoodCon(con')
    BY <2>1 DEF GoodCon, Settled, ReadStates
  <2>3. ThreadAt'
    BY <1>6, <2>1 DEF ThreadAt, ReadStates, Quiet
  <2> QED
    BY <1>1, <1>2, <2>1, <2>2, <2>3, QueueStays
<1> QED
  BY <1>3, <1>5, <1>6 DEF Hc!ConnectFails

LEMMA RetryStep ==
  ASSUME ClientInv, Hc!Retry
  PROVE  ClientInv'
<1>1. PICK c : c = [con EXCEPT !.ev = "none", !.state = "DISCONNECTED"]
  OBVIOUS
<1>2. con' \in Hc!Connect(c) /\ cpc = "loop" /\ con.ev = "retry" /\ UNCHANGED <<cpc, cmade, told, called>>
  BY <1>1 DEF Hc!Retry, Hc!Fired, Hc!Taken
<1>3. ConTyped(con) /\ Settled(con) /\ con.state = "CONNECTING" /\ ThreadAt
  BY <1>2 DEF ClientInv, GoodCon, Settled
<1>4. ConTyped(c) /\ c.state = "DISCONNECTED" /\ c.closeEv = FALSE /\ c.queue = con.queue
  BY <1>1, <1>3 DEF ConTyped, ConFields, Settled, ConStates, Quiet
<1>5. Connects(con') /\ con'.queue = con.queue
  BY <1>2, <1>4, ConnectGood
<1>6. ThreadAt'
  BY <1>2, <1>3, <1>5 DEF ThreadAt, ReadStates, Quiet, Connects
<1> QED
  BY <1>2, <1>3, <1>5, <1>6, QueueStays DEF Connects, Quiet

\* A turn of the loop at its label cleanup.
LEMMA CleanupStep ==
  ASSUME ClientInv, Hc!Cleanup
  PROVE  ClientInv'
<1>1. cpc = "cleanup" /\ UNCHANGED <<cmade, told>>
  BY DEF Hc!Cleanup
<1>2. ConTyped(con) /\ Settled(con) /\ con.state \in Quiet /\ ThreadAt /\ Ordered /\ Untold /\ Hc!Sane
  BY <1>1 DEF ClientInv, GoodCon, ThreadAt
<1>3. CASE con.queue = <<>> /\ cpc' = "loop" /\ UNCHANGED <<con, called>>
  <2>1. ThreadAt'
    BY <1>1, <1>2, <1>3 DEF ThreadAt, ReadStates, Quiet
  <2>2. GoodCon(con') /\ con'.queue = con.queue /\ con'.state # "freed" /\ con.state # "freed"
    BY <1>2, <1>3 DEF GoodCon, Quiet
  <2> QED
    BY <1>1, <1>3, <2>1, <2>2, QueueStays
<1>4. CASE /\ con.queue # <<>>
           /\ called' = Append(called, [id |-> Head(con.queue), kind |-> "failed", toks |-> <<>>])
           /\ con' = [con EXCEPT !.queue = Tail(@)]
           /\ cpc' = "cbcleanup"
  <2>1. Tail(con.queue) \in Seq(1..Len(Asked))
    BY <1>2, <1>4, HeadTailProperties DEF ConTyped
  <2>2. /\ ConTyped(con') /\ con'.queue = Tail(con.queue) /\ con'.state = con.state /\ con'.ev = con.ev
        /\ con'.fd = con.fd /\ con'.closeEv = con.closeEv
    BY <1>2, <1>4, <2>1 DEF ConTyped, ConFields
  <2>3. GoodCon(con')
    BY <1>2, <2>2 DEF GoodCon, Settled, ReadStates, Quiet
  <2>4. PICK e : e = [id |-> Head(con.queue), kind |-> "failed", toks |-> <<>>]
    OBVIOUS
  <2>5. e.id = Head(con.queue) /\ called' = Append(called, e) /\ con.state # "freed"
    BY <1>2, <1>4, <2>4 DEF Quiet
  <2>6. Ordered'
    BY <1>1, <1>2, <1>4, <2>2, <2>5, CallKeeps
  <2>7. ThreadAt'
    BY <1>2, <1>4, <2>2 DEF ThreadAt, ReadStates, Quiet
  <2>8. Untold'
    BY <1>1, <1>2 DEF Untold
  <2> QED
    BY <1>2, <2>3, <2>6, <2>7, <2>8, GoodConNext DEF ClientInv
<1> QED
  BY <1>3, <1>4 DEF Hc!Cleanup

\* evhttp_write() and evhttp_write_connectioncb().
LEMMA WriteStep ==
  ASSUME ClientInv, Hc!Write
  PROVE  ClientInv'
<1>1. /\ cpc = "loop" /\ con.ev = "write" /\ UNCHANGED <<cpc, cmade, told, called>>
      /\ con' = [con EXCEPT !.ev = "read", !.state = "READING_FIRSTLINE",
                            !.due = IF con.peer = "open" THEN <<Head(con.queue)>> ELSE <<>>]
  BY DEF Hc!Write, Hc!Fired, Hc!Taken
<1>2. ConTyped(con) /\ Settled(con) /\ con.state = "WRITING" /\ ThreadAt
  BY <1>1 DEF ClientInv, GoodCon, Settled
<1>3. GoodCon(con') /\ con'.state = "READING_FIRSTLINE" /\ con'.ev = "read" /\ con'.queue = con.queue
  BY <1>1, <1>2 DEF GoodCon, ConTyped, ConFields, Settled, ConStates, Quiet, ReadStates
<1>4. ThreadAt'
  BY <1>1, <1>3 DEF ThreadAt, ReadStates, Quiet
<1> QED
  BY <1>1, <1>2, <1>3, <1>4, QueueStays

\* The connection after its event was taken off.
LEMMA TakenIs ==
  ASSUME ClientInv, Hc!Fired("write") \/ Hc!Fired("read")
  PROVE  SameCon(Hc!Taken) /\ Hc!Taken.ev = "none" /\ con.state \in {"WRITING"} \cup ReadStates
BY DEF ClientInv, GoodCon, ConTyped, ConFields, Settled, SameCon, Hc!Taken, Hc!Fired

LEMMA EventFailsStep ==
  ASSUME ClientInv, Hc!EventFails
  PROVE  ClientInv'
<1>1. (Hc!Fired("write") \/ Hc!Fired("read")) /\ Hc!EndFail(Hc!Taken)
  BY DEF Hc!EventFails
<1> QED
  BY <1>1, TakenIs, EndsStep

LEMMA ReadEofStep ==
  ASSUME ClientInv, Hc!ReadEof
  PROVE  ClientInv'
<1>1. Hc!Fired("read") /\ Hc!EndDone(Hc!Taken)
  BY DEF Hc!ReadEof
<1> QED
  BY <1>1, TakenIs, EndsStep

\* evhttp_detect_close_cb().
LEMMA DetectCloseStep ==
  ASSUME ClientInv, Hc!DetectClose
  PROVE  ClientInv'
<1>1. PICK c : c = [con EXCEPT !.closeEv = FALSE]
  OBVIOUS
<1>2. cpc = "loop" /\ con.closeEv /\ con' = Hc!Reset(c) /\ UNCHANGED <<cpc, cmade, told, called>>
  BY <1>1 DEF Hc!DetectClose
<1>3. ConTyped(con) /\ Settled(con) /\ con.state = "IDLE" /\ con.queue = <<>>
  BY <1>2 DEF ClientInv, GoodCon, ConTyped, Settled
<1>4. ConTyped(c) /\ c.queue = con.queue /\ c.closeEv = FALSE
  BY <1>1, <1>3 DEF ConTyped, ConFields
<1>5. /\ ConTyped(con') /\ con'.state = "DISCONNECTED" /\ con'.ev = "none" /\ con'.fd = FALSE
      /\ con'.queue = con.queue /\ con'.closeEv = FALSE
  BY <1>2, <1>4, ResetIs
<1>6. GoodCon(con')
  BY <1>5 DEF GoodCon, Settled, ReadStates
<1>7. ThreadAt'
  BY <1>2, <1>3, <1>5 DEF ThreadAt, ReadStates, Quiet
<1> QED
  BY <1>2, <1>3, <1>5, <1>6, <1>7, QueueStays

\* evhttp_read(): the connection has the state s now and reads on in it, or waits for more.
LEMMA ReadsOn ==
  ASSUME ClientInv, con.state \in ReadStates, NEW s \in ReadStates,
         ConFields(con'), con'.state = s, con'.fd = con.fd, con'.closeEv = con.closeEv, con'.cnt = con.cnt,
         con'.queue = con.queue, con'.peer \in {"none", "open", "fin", "rst"},
         \/ cpc' = s /\ con'.ev = "none"
         \/ cpc' = "loop" /\ con'.ev = "read",
         UNCHANGED <<cmade, told, called>>
  PROVE  ClientInv'
<1>1. ConTyped(con) /\ Settled(con)
  BY DEF ClientInv, GoodCon
<1>2. ConTyped(con')
  BY <1>1 DEF ConTyped, ConStates
<1>3. GoodCon(con')
  BY <1>1, <1>2 DEF GoodCon, Settled, ReadStates
<1>4. ThreadAt'
  BY DEF ThreadAt, ReadStates, Quiet
<1> QED
  BY <1>3, <1>4, QueueStays DEF ReadStates

LEMMA ReadDataStep ==
  ASSUME ClientInv, Hc!ReadData
  PROVE  ClientInv'
<1>1. PICK n : con' = [con EXCEPT !.ev = "none", !.inbuf = @ \o SubSeq(con.net, 1, n),
                                  !.net = SubSeq(con.net, n + 1, Len(con.net))]
  BY DEF Hc!ReadData, Hc!Taken
<1>2. cpc = "loop" /\ con.ev = "read" /\ cpc' = con.state /\ UNCHANGED <<cmade, told, called>>
  BY DEF Hc!ReadData, Hc!Fired
<1>3. ConTyped(con) /\ con.state \in ReadStates
  BY <1>2 DEF ClientInv, GoodCon, Settled
<1>4. /\ ConFields(con') /\ con'.state = con.state /\ con'.fd = con.fd /\ con'.closeEv = con.closeEv
      /\ con'.cnt = con.cnt /\ con'.queue = con.queue /\ con'.peer = con.peer /\ con'.ev = "none"
  BY <1>1, <1>3 DEF ConTyped, ConFields
<1> QED
  BY <1>2, <1>3, <1>4, ReadsOn DEF ConTyped

\* The thread is in evhttp_read().
LEMMA AtRead ==
  ASSUME ClientInv, cpc \in ReadStates
  PROVE  ConTyped(con) /\ con.state = cpc /\ con.ev = "none"
BY DEF ClientInv, GoodCon, ThreadAt

LEMMA WaitStep ==
  ASSUME ClientInv, cpc \in ReadStates, Hc!Wait
  PROVE  ClientInv'
<1>1. con' = [con EXCEPT !.ev = "read"] /\ cpc' = "loop" /\ UNCHANGED <<cmade, told, called>>
  BY DEF Hc!Wait
<1>2. ConTyped(con) /\ con.state \in ReadStates
  BY AtRead
<1>3. /\ ConFields(con') /\ con'.state = con.state /\ con'.fd = con.fd /\ con'.closeEv = con.closeEv
      /\ con'.cnt = con.cnt /\ con'.queue = con.queue /\ con'.peer = con.peer /\ con'.ev = "read"
  BY <1>1, <1>2 DEF ConTyped, ConFields
<1> QED
  BY <1>1, <1>2, <1>3, ReadsOn DEF ConTyped

LEMMA StepStep ==
  ASSUME ClientInv, cpc \in ReadStates, NEW r, NEW s \in ReadStates, Hc!Step(r, s)
  PROVE  ClientInv'
<1>1. PICK cur, rest : con' = [con EXCEPT !.inbuf = rest, !.cur = cur, !.state = s]
  BY DEF Hc!Step, Hc!Ate
<1>2. cpc' = s /\ UNCHANGED <<cmade, told, called>>
  BY DEF Hc!Step
<1>3. ConTyped(con) /\ con.state \in ReadStates /\ con.ev = "none"
  BY AtRead
<1>4. /\ ConFields(con') /\ con'.state = s /\ con'.fd = con.fd /\ con'.closeEv = con.closeEv
      /\ con'.cnt = con.cnt /\ con'.queue = con.queue /\ con'.peer = con.peer /\ con'.ev = "none"
  BY <1>1, <1>3 DEF ConTyped, ConFields
<1> QED
  BY <1>2, <1>3, <1>4, ReadsOn DEF ConTyped

\* The request ends with the token that is used up.
LEMMA AteStep ==
  ASSUME ClientInv, cpc \in ReadStates, NEW r, Hc!EndDone(Hc!Ate(con, r)) \/ Hc!EndFail(Hc!Ate(con, r))
  PROVE  ClientInv'
<1>1. ConTyped(con) /\ con.state \in ReadStates /\ con.ev = "none"
  BY AtRead
<1>2. PICK c : c = Hc!Ate(con, r)
  OBVIOUS
<1>3. PICK cur, rest : c = [con EXCEPT !.inbuf = rest, !.cur = cur]
  BY <1>2 DEF Hc!Ate
<1>4. SameCon(c) /\ c.ev = "none"
  BY <1>1, <1>3 DEF SameCon, ConTyped, ConFields
<1> QED
  BY <1>1, <1>2, <1>4, EndsStep

LEMMA BadStep ==
  ASSUME ClientInv, cpc \in ReadStates, Hc!EndFail([con EXCEPT !.inbuf = Tail(@)])
  PROVE  ClientInv'
<1>1. ConTyped(con) /\ con.state \in ReadStates /\ con.ev = "none"
  BY AtRead
<1>2. PICK c : c = [con EXCEPT !.inbuf = Tail(@)]
  OBVIOUS
<1>3. SameCon(c) /\ c.ev = "none"
  BY <1>1, <1>2 DEF SameCon, ConTyped, ConFields
<1> QED
  BY <1>1, <1>2, <1>3, EndsStep

LEMMA ReadFirstlineStep ==
  ASSUME ClientInv, Hc!ReadFirstline
  PROVE  ClientInv'
<1>1. cpc \in ReadStates
  BY DEF Hc!ReadFirstline, ReadStates
<1>2. Hc!Wait \/ Hc!Step(con.cur, "READING_HEADERS") \/ Hc!EndFail([con EXCEPT !.inbuf = Tail(@)])
  BY DEF Hc!ReadFirstline
<1>3. "READING_HEADERS" \in ReadStates
  BY DEF ReadStates
<1> QED
  BY <1>1, <1>2, <1>3, WaitStep, StepStep, BadStep

LEMMA ReadHeaderStep ==
  ASSUME ClientInv, Hc!ReadHeader
  PROVE  ClientInv'
<1>1. cpc \in ReadStates
  BY DEF Hc!ReadHeader, ReadStates
<1>2. Hc!Wait \/ \E r : Hc!EndDone(Hc!Ate(con, r)) \/ Hc!EndFail(Hc!Ate(con, r)) \/ Hc!Step(r, "READING_BODY")
  BY Zenon DEF Hc!ReadHeader
<1>3. "READING_BODY" \in ReadStates
  BY DEF ReadStates
<1> QED
  BY <1>1, <1>2, <1>3, WaitStep, StepStep, AteStep

LEMMA ReadBodyStep ==
  ASSUME ClientInv, Hc!ReadBody
  PROVE  ClientInv'
<1>1. cpc \in ReadStates
  BY DEF Hc!ReadBody, ReadStates
<1>2. \/ Hc!Wait \/ Hc!EndFail([con EXCEPT !.inbuf = Tail(@)])
      \/ \E r : Hc!EndDone(Hc!Ate(con, r)) \/ Hc!Step(r, "READING_BODY") \/ Hc!Step(r, "READING_TRAILER")
  BY Zenon DEF Hc!ReadBody
<1>3. "READING_BODY" \in ReadStates /\ "READING_TRAILER" \in ReadStates
  BY DEF ReadStates
<1> QED
  BY <1>1, <1>2, <1>3, WaitStep, StepStep, AteStep, BadStep

LEMMA ReadTrailerStep ==
  ASSUME ClientInv, Hc!ReadTrailer
  PROVE  ClientInv'
<1>1. cpc \in ReadStates
  BY DEF Hc!ReadTrailer, ReadStates
<1>2. Hc!Wait \/ Hc!EndDone(Hc!Ate(con, con.cur))
  BY DEF Hc!ReadTrailer
<1> QED
  BY <1>1, <1>2, WaitStep, AteStep

\* The server.
LEMMA ServerStep ==
  ASSUME ClientInv, con.state # "freed", NEW c, SameCon(c), c.ev = con.ev, Hc!Server(c)
  PROVE  ClientInv'
<1>1. con' = c /\ UNCHANGED <<cpc, cmade, told, called>>
  BY DEF Hc!Server
<1>2. ConTyped(con) /\ Settled(con) /\ ThreadAt
  BY DEF ClientInv, GoodCon
<1>3. GoodCon(con')
  BY <1>1, <1>2 DEF GoodCon, ConTyped, Settled, SameCon
<1>4. ThreadAt'
  BY <1>1, <1>2 DEF ThreadAt, SameCon
<1> QED
  BY <1>1, <1>3, <1>4, QueueStays DEF SameCon

LEMMA AnswerStep ==
  ASSUME ClientInv, Hc!Answer
  PROVE  ClientInv'
<1>1. PICK bytes, owed, side : /\ Hc!Server([con EXCEPT !.net = bytes, !.due = owed, !.peer = side])
                            /\ side \in {"fin", con.peer}
  BY Zenon DEF Hc!Answer
<1>2. con.peer = "open"
  BY DEF Hc!Answer
<1>3. PICK c : c = [con EXCEPT !.net = bytes, !.due = owed, !.peer = side]
  OBVIOUS
<1>4. ConTyped(con) /\ con.state # "freed"
  BY <1>2 DEF ClientInv, GoodCon, Settled
<1>5. SameCon(c) /\ c.ev = con.ev
  BY <1>1, <1>3, <1>4 DEF SameCon, ConTyped, ConFields
<1> QED
  BY <1>1, <1>3, <1>4, <1>5, ServerStep

LEMMA BreakStep ==
  ASSUME ClientInv, Hc!Break
  PROVE  ClientInv'
<1>1. PICK bytes, owed, side : /\ Hc!Server([con EXCEPT !.net = bytes, !.due = owed, !.peer = side])
                            /\ side \in {"fin", "rst"}
  <2>1. PICK x, y : \/ Hc!Server([con EXCEPT !.net = x, !.due = y, !.peer = "fin"])
                    \/ Hc!Server([con EXCEPT !.peer = "fin", !.due = <<>>])
                    \/ Hc!Server([con EXCEPT !.peer = "rst", !.due = <<>>, !.net = <<>>])
    BY Zenon DEF Hc!Break
  <2>2. ConFields(con)
    BY DEF ClientInv, GoodCon, ConTyped
  <2>3. [con EXCEPT !.peer = "fin", !.due = <<>>] = [con EXCEPT !.net = con.net, !.due = <<>>, !.peer = "fin"]
    BY <2>2 DEF ConFields
  <2>4. [con EXCEPT !.peer = "rst", !.due = <<>>, !.net = <<>>] = [con EXCEPT !.net = <<>>, !.due = <<>>, !.peer = "rst"]
    BY <2>2 DEF ConFields
  <2> QED
    BY <2>1, <2>3, <2>4, Zenon
<1>2. con.peer = "open"
  BY DEF Hc!Break
<1>3. PICK c : c = [con EXCEPT !.net = bytes, !.due = owed, !.peer = side]
  OBVIOUS
<1>4. ConTyped(con) /\ con.state # "freed"
  BY <1>2 DEF ClientInv, GoodCon, Settled
<1>5. SameCon(c) /\ c.ev = con.ev
  BY <1>1, <1>3, <1>4 DEF SameCon, ConTyped, ConFields
<1> QED
  BY <1>1, <1>3, <1>4, <1>5, ServerStep

LEMMA ClientStep ==
  ASSUME ClientInv, [Hc!Next]_(Hc!vars)
  PROVE  ClientInv'
<1>1. CASE Hc!Users
  <2>1. cpc = "loop" /\ con.state # "freed" /\ (Hc!Request \/ Hc!Free)
    BY <1>1 DEF Hc!Users
  <2> QED
    BY <2>1, RequestStep, FreeStep
<1>2. CASE Hc!Loop
  BY <1>2, ConnectOkStep, ConnectFailsStep, CleanupStep, RetryStep, WriteStep, EventFailsStep, DetectCloseStep,
     ReadDataStep, ReadEofStep, ReadFirstlineStep, ReadHeaderStep, ReadBodyStep, ReadTrailerStep, CallbackStep DEF Hc!Loop
<1>3. CASE Hc!Answer \/ Hc!Break
  BY <1>3, AnswerStep, BreakStep
<1>4. CASE UNCHANGED Hc!vars
  BY <1>4 DEF Hc!vars, ClientInv, GoodCon, ConTyped, ConFields, Settled, Ordered, Calls, ThreadAt, Untold
<1> QED
  BY <1>1, <1>2, <1>3, <1>4 DEF Hc!Next

\* The invariant of one connection of the client.
LEMMA ClientAlways ==
  Hc!Sane => (Hc!Spec => []ClientInv)
<1> SUFFICES ASSUME Hc!Sane
             PROVE  Hc!Spec => []ClientInv
  OBVIOUS
<1>1. Hc!Init => ClientInv
  BY ClientStarts
<1>2. ClientInv /\ [Hc!Next]_(Hc!vars) => ClientInv'
  BY ClientStep
<1> QED
  BY <1>1, <1>2, PTL DEF Hc!Spec

\* What a connection of the client may be in (http.c, struct evhttp_connection), whatever the server
\* and the callbacks do.
THEOREM ClientTyped ==
  Hc!Sane => (Hc!Spec => []Hc!TypeOK)
<1>1. ClientInv => Hc!TypeOK
  BY DEF ClientInv, GoodCon, ConTyped, ConStates, Quiet, ReadStates, Ordered, ThreadAt, Untold, Hc!TypeOK, Hc!States
<1> QED
  BY <1>1, ClientAlways, PTL

\* 1, ..., n and then n + 1, ..., n + m are 1, ..., n + m.
LEMMA Counted ==
  ASSUME NEW n \in Nat, NEW m \in Nat, NEW s \in Seq(Nat), NEW q \in Seq(Nat), Len(s) = n, Len(q) = m,
         \A k \in 1..n : s[k] = k, \A j \in 1..m : q[j] = n + j
  PROVE  s \o q = [k \in 1..(n + m) |-> k]
<1>1. s \o q \in Seq(Nat) /\ Len(s \o q) = n + m
  BY ConcatProperties
<1>2. \A k \in 1..(n + m) : (s \o q)[k] = k
  <2> SUFFICES ASSUME NEW k \in 1..(n + m)
               PROVE  (s \o q)[k] = k
    OBVIOUS
  <2>1. CASE k <= n
    BY <2>1
  <2>2. CASE k > n
    <3>1. PICK j \in 1..m : k = n + j
      BY <2>2
    <3>2. (s \o q)[n + j] = q[j]
      BY <3>1
    <3> QED
      BY <3>1, <3>2
  <2> QED
    BY <2>1, <2>2
<1> DEFINE z == s \o q
<1>3. z \in Seq(Nat) /\ Len(z) = n + m /\ \A k \in 1..(n + m) : z[k] = k
  BY <1>1, <1>2
<1> HIDE DEF z
<1>4. z = [k \in 1..(n + m) |-> z[k]]
  BY <1>3
<1> QED
  BY <1>3, <1>4 DEF z

\* Requests are called back once each and in the order of evhttp_make_request(), and those that were
\* not are the queue of the connection: across reconnects, retries, failures and requests made in
\* callbacks (evhttp_connection_done(), evhttp_connection_fail(), evhttp_connectioncb()).
THEOREM CalledBackInOrder ==
  Hc!Sane => (Hc!Spec => []Hc!CalledInOrder)
<1>1. ClientInv => Hc!CalledInOrder
  <2> SUFFICES ASSUME ClientInv
               PROVE  Hc!CalledInOrder
    OBVIOUS
  <2>1. PICK n \in Nat : n = Len(called)
    BY DEF ClientInv, Ordered, Calls
  <2>2. PICK ids : ids = [k \in 1..n |-> called[k].id]
    OBVIOUS
  <2>3. ids \in Seq(Nat) /\ Len(ids) = n /\ \A k \in 1..n : ids[k] = k
    <3>1. \A k \in 1..n : called[k].id = k
      BY <2>1 DEF ClientInv, Ordered
    <3> QED
      BY <2>1, <2>2, <3>1
  <2>4. CASE con.state = "freed"
    BY <2>1, <2>2, <2>3, <2>4 DEF Hc!CalledInOrder
  <2>5. CASE con.state # "freed"
    <3>1. PICK q \in Seq(Nat) : q = con.queue
      <4>1. con.queue \in Seq(1..Len(Asked)) /\ Len(Asked) \in Nat
        BY DEF ClientInv, GoodCon, ConTyped, Ordered, Hc!Sane
      <4> QED
        BY <4>1
    <3>2. cmade = n + Len(q) /\ (\A j \in 1..Len(q) : q[j] = n + j) /\ Len(q) \in Nat
      BY <2>1, <2>5, <3>1 DEF ClientInv, Ordered
    <3>5. ids \o q = [k \in 1..cmade |-> k]
      <4>1. PICK m \in Nat : m = Len(q) /\ cmade = n + m
        BY <3>2
      <4>2. (\A j \in 1..m : q[j] = n + j) /\ Len(q) = m /\ q \in Seq(Nat)
        BY <3>1, <3>2, <4>1
      <4>3. ids \o q = [k \in 1..(n + m) |-> k]
        BY <2>3, <4>2, Counted
      <4> QED
        BY <4>1, <4>3
    <3> QED
      BY <2>1, <2>2, <2>5, <3>1, <3>5 DEF Hc!CalledInOrder
  <2> QED
    BY <2>4, <2>5
<1> QED
  BY <1>1, ClientAlways, PTL

\* No assertion of http.c fails on a connection of the client, and evhttp_read() is never called in a
\* state in which it ends the program; the close detection runs on an idle connection with an open
\* socket only (evhttp_connection_start_detectclose()).
THEOREM ClientAsserts ==
  Hc!Sane => (Hc!Spec => [](Hc!AssertsHold /\ Hc!CloseEvIdle))
<1>1. ClientInv => Hc!AssertsHold /\ Hc!CloseEvIdle
  BY DEF ClientInv, GoodCon, ConTyped, ConStates, Quiet, Settled, ReadStates, ThreadAt, Hc!AssertsHold, Hc!CloseEvIdle
<1> QED
  BY <1>1, ClientAlways, PTL

\* If no attempt to connect fails at once and retry_max is at most 31, so that every wait has a timer,
\* a connection with a request waits for something in the event loop: no request is forgotten.
THEOREM RequestsAreServed ==
  Hc!Sane /\ ~FailsNow /\ Timed => (Hc!Spec => []Hc!QueueServed)
<1> SUFFICES ASSUME Hc!Sane, ~FailsNow, Timed
             PROVE  Hc!Spec => []Hc!QueueServed
  OBVIOUS
<1>1. ClientInv => Hc!QueueServed
  <2> SUFFICES ASSUME ClientInv, cpc = "loop", NEW k \in 1..Len(con.queue)
               PROVE  con.ev # "none"
    BY DEF Hc!QueueServed
  <2>1. con.queue # <<>>
    OBVIOUS
  <2> QED
    BY <2>1 DEF ClientInv, GoodCon, ConTyped, ConStates, Quiet, Settled, ReadStates, ThreadAt
<1> QED
  BY <1>1, ClientAlways, PTL

-----------------------------------------------------------------------------
(***************************************************************************)
(* What the client reads: t is used up, i is in the input buffer and m on  *)
(* the socket, and together they are the beginning of T.                   *)
(***************************************************************************)

Follows(t, i, m, T) ==
  /\ \E S : t \in Seq(S) /\ i \in Seq(S) /\ m \in Seq(S)
  /\ Len(T) \in Nat /\ Len(t) + Len(i) + Len(m) <= Len(T)
  /\ \A k \in 1..Len(t) : t[k] = T[k]
  /\ \A k \in 1..Len(i) : i[k] = T[Len(t) + k]
  /\ \A k \in 1..Len(m) : m[k] = T[Len(t) + Len(i) + k]

LEMMA NoneFollows ==
  ASSUME NEW S, NEW T \in Seq(S), NEW m \in Seq(S), Len(m) <= Len(T), \A k \in 1..Len(m) : m[k] = T[k]
  PROVE  Follows(<<>>, <<>>, m, T)
BY DEF Follows

\* The first byte of the buffer is used up.
LEMMA EatsOne ==
  ASSUME NEW t, NEW i, NEW m, NEW T, Follows(t, i, m, T), i # <<>>
  PROVE  /\ Follows(Append(t, Head(i)), Tail(i), m, T)
         /\ Head(i) = T[Len(t) + 1] /\ Len(t) + 1 <= Len(T) /\ Len(Append(t, Head(i))) = Len(t) + 1
         /\ (Len(t) + 1 = Len(T) => Tail(i) = <<>> /\ m = <<>>)
<1>1. PICK S : t \in Seq(S) /\ i \in Seq(S) /\ m \in Seq(S)
  BY DEF Follows
<1>2. PICK a \in Nat, b \in Nat \ {0}, c \in Nat, l \in Nat : a = Len(t) /\ b = Len(i) /\ c = Len(m) /\ l = Len(T)
  BY <1>1, RestOf DEF Follows
<1>3. /\ a + b + c <= l
      /\ \A k \in 1..a : t[k] = T[k]
      /\ \A k \in 1..b : i[k] = T[a + k]
      /\ \A k \in 1..c : m[k] = T[a + b + k]
  BY <1>2 DEF Follows
<1>4. /\ Head(i) = i[1] /\ Head(i) \in S /\ Tail(i) \in Seq(S) /\ Len(Tail(i)) = b - 1
      /\ \A k \in 1..(b - 1) : Tail(i)[k] = i[k + 1]
  BY <1>1, <1>2, RestOf
<1>5. PICK u : u = Append(t, Head(i))
  OBVIOUS
<1>6. u \in Seq(S) /\ Len(u) = a + 1 /\ (\A k \in 1..a : u[k] = t[k]) /\ u[a + 1] = i[1]
  BY <1>1, <1>2, <1>4, <1>5, AppendProperties
<1>7. i[1] = T[a + 1]
  BY <1>2, <1>3
<1>8. \A k \in 1..(a + 1) : u[k] = T[k]
  <2> SUFFICES ASSUME NEW k \in 1..(a + 1)
               PROVE  u[k] = T[k]
    OBVIOUS
  <2>1. k \in 1..a \/ k = a + 1
    OBVIOUS
  <2> QED
    BY <1>3, <1>6, <1>7, <2>1
<1>9. \A k \in 1..(b - 1) : Tail(i)[k] = T[(a + 1) + k]
  <2> SUFFICES ASSUME NEW k \in 1..(b - 1)
               PROVE  Tail(i)[k] = T[(a + 1) + k]
    OBVIOUS
  <2>1. k + 1 \in 1..b /\ a + (k + 1) = (a + 1) + k
    OBVIOUS
  <2> QED
    BY <1>3, <1>4, <2>1
<1>10. \A k \in 1..c : m[k] = T[(a + 1) + (b - 1) + k]
  <2>1. \A k \in 1..c : (a + 1) + (b - 1) + k = a + b + k
    OBVIOUS
  <2> QED
    BY <1>3, <2>1
<1>11. (a + 1) + (b - 1) + c <= l /\ a + 1 <= l
  BY <1>3
<1>12. a + 1 = l => b - 1 = 0 /\ c = 0
  BY <1>3
<1>13. a + 1 = l => Tail(i) = <<>> /\ m = <<>>
  BY <1>1, <1>2, <1>4, <1>12, EmptySeq
<1> QED
  BY <1>1, <1>2, <1>4, <1>5, <1>6, <1>7, <1>8, <1>9, <1>10, <1>11, <1>13 DEF Follows

\* read() moves n bytes to the empty buffer.
LEMMA Arrives ==
  ASSUME NEW t, NEW m, NEW T, Follows(t, <<>>, m, T), NEW n \in 1..Len(m)
  PROVE  Follows(t, <<>> \o SubSeq(m, 1, n), SubSeq(m, n + 1, Len(m)), T)
<1>1. PICK S : t \in Seq(S) /\ m \in Seq(S)
  BY DEF Follows
<1>2. PICK a \in Nat, c \in Nat, l \in Nat : a = Len(t) /\ c = Len(m) /\ l = Len(T)
  BY <1>1 DEF Follows
<1>3. /\ a + c <= l
      /\ \A k \in 1..a : t[k] = T[k]
      /\ \A k \in 1..c : m[k] = T[a + k]
  BY <1>2 DEF Follows
<1>4. n \in 1..c
  BY <1>2
<1>5. PICK p, q : p = <<>> \o SubSeq(m, 1, n) /\ q = SubSeq(m, n + 1, Len(m))
  OBVIOUS
<1>6. p \in Seq(S) /\ Len(p) = n /\ \A k \in 1..n : p[k] = m[k]
  BY <1>1, <1>2, <1>4, <1>5
<1>7. q \in Seq(S) /\ Len(q) = c - n /\ \A k \in 1..(c - n) : q[k] = m[n + k]
  BY <1>1, <1>2, <1>4, <1>5
<1>8. \A k \in 1..n : p[k] = T[a + k]
  BY <1>3, <1>4, <1>6
<1>9. \A k \in 1..(c - n) : q[k] = T[a + n + k]
  <2> SUFFICES ASSUME NEW k \in 1..(c - n)
               PROVE  q[k] = T[a + n + k]
    OBVIOUS
  <2>1. n + k \in 1..c /\ a + (n + k) = a + n + k
    BY <1>4
  <2> QED
    BY <1>3, <1>7, <2>1
<1>10. a + n + (c - n) <= l
  BY <1>3, <1>4
<1> QED
  BY <1>1, <1>2, <1>3, <1>5, <1>6, <1>7, <1>8, <1>9, <1>10 DEF Follows

\* What is on the socket is lost.
LEMMA Lost ==
  ASSUME NEW t, NEW i, NEW m, NEW T, Follows(t, i, m, T)
  PROVE  Follows(t, i, <<>>, T)
BY DEF Follows

Kinds == {"first", "headers", "byte", "size", "last", "end", "badsize"}

\* The response r to the request i.
IsResponse(T, r, i) ==
  /\ \E S : T \in Seq(S)
  /\ Len(T) \in {2, 3, 6}
  /\ \A k \in 1..Len(T) : T[k].id = i /\ T[k].resp = r
  /\ T[1].kind = "first"
  /\ r.code # "other" \/ Len(T) = 2 \/ r.body \in {"length", "eof", "chunked", "badsize"}
  /\ r.code # "other" => Len(T) = 2
  /\ r.body \in {"length", "eof", "badsize"} => Len(T) \in {2, 3}
  /\ r.body = "chunked" => Len(T) \in {2, 6}
  /\ r.code = "other" /\ r.body = "length" /\ ~Asked[i].head => Len(T) = 3
  /\ r.code = "other" /\ r.body = "chunked" /\ ~Asked[i].head => Len(T) = 6
  /\ r.body = "badsize" /\ Len(T) > 2 => T[3].kind = "badsize"
  /\ r.body = "chunked" /\ Len(T) > 2 => T[3].kind = "size" /\ T[5].kind = "last"

Twofold(h, b, s) == /\ s \in Seq(Kinds) /\ Len(s) = Len(b) + 2 /\ s[1] = h[1]
                    /\ \A k \in 1..Len(b) : s[k + 2] = b[k]
HasTwo(h) == Len(h) = 2

LEMMA JoinOf ==
  ASSUME NEW T, NEW h \in Seq(T), NEW b \in Seq(T)
  PROVE  /\ h \o b \in Seq(T) /\ Len(h \o b) = Len(h) + Len(b)
         /\ (\A k \in 1..Len(h) : (h \o b)[k] = h[k]) /\ \A k \in 1..Len(b) : (h \o b)[Len(h) + k] = b[k]
OBVIOUS

LEMMA TwoMore ==
  ASSUME NEW h \in Seq(Kinds), HasTwo(h), NEW b \in Seq(Kinds), NEW s, s = h \o b
  PROVE  Twofold(h, b, s)
<1>1. /\ s \in Seq(Kinds) /\ Len(s) = Len(h) + Len(b)
      /\ (\A k \in 1..Len(h) : s[k] = h[k]) /\ \A k \in 1..Len(b) : s[Len(h) + k] = b[k]
  BY JoinOf
<1>2. PICK n \in Nat : n = Len(b)
  OBVIOUS
<1>3. Len(h) = 2 /\ 1 \in 1..2
  BY DEF HasTwo
<1>4. Len(s) = n + 2 /\ s[1] = h[1]
  BY <1>1, <1>2, <1>3
<1>5. ASSUME NEW k \in 1..n
      PROVE  s[k + 2] = b[k]
  <2>1. k + 2 = 2 + k
    OBVIOUS
  <2> QED
    BY <1>1, <1>2, <1>3, <2>1
<1> QED
  BY <1>1, <1>2, <1>4, <1>5 DEF Twofold

LEMMA TokensAre ==
  ASSUME NEW r, NEW i
  PROVE  IsResponse(Hc!Tokens(r, i), r, i)
<1>1. PICK b : b = Hc!Body(r, Asked[i].head)
  OBVIOUS
<1>2. PICK kinds : kinds = <<"first", "headers">> \o b
  OBVIOUS
<1>3. PICK T : T = Hc!Tokens(r, i)
  OBVIOUS
<1>4. T = [k \in 1..Len(kinds) |-> [kind |-> kinds[k], id |-> i, resp |-> r]]
  BY <1>1, <1>2, <1>3 DEF Hc!Tokens
<1>5. /\ b \in Seq(Kinds) /\ Len(b) \in {0, 1, 4}
      /\ r.code # "other" \/ Len(b) = 0 \/ r.body \in {"length", "eof", "chunked", "badsize"}
      /\ r.code # "other" => Len(b) = 0
      /\ r.body \in {"length", "eof", "badsize"} => Len(b) \in {0, 1}
      /\ r.body = "chunked" => Len(b) \in {0, 4}
      /\ r.code = "other" /\ r.body = "length" /\ ~Asked[i].head => Len(b) = 1
      /\ r.code = "other" /\ r.body = "chunked" /\ ~Asked[i].head => Len(b) = 4
      /\ r.body = "badsize" /\ Len(b) > 0 => b[1] = "badsize"
      /\ r.body = "chunked" /\ Len(b) > 0 => b[1] = "size" /\ b[3] = "last"
  <2>1. CASE r.code # "other" \/ Asked[i].head
    <3>1. b = <<>>
      BY <1>1, <2>1 DEF Hc!Body
    <3> QED
      BY <2>1, <3>1
  <2>2. CASE r.code = "other" /\ ~Asked[i].head /\ r.body = "chunked"
    <3>1. b = <<"size", "byte", "last", "end">>
      BY <1>1, <2>2 DEF Hc!Body
    <3>2. b \in Seq(Kinds) /\ Len(b) = 4 /\ b[1] = "size" /\ b[3] = "last"
      BY <3>1 DEF Kinds
    <3> QED
      BY <2>2, <3>2
  <2>3. CASE r.code = "other" /\ ~Asked[i].head /\ r.body \in {"length", "eof", "badsize"}
    <3>1. b = <<IF r.body = "badsize" THEN "badsize" ELSE "byte">>
      BY <1>1, <2>3 DEF Hc!Body
    <3>2. b \in Seq(Kinds) /\ Len(b) = 1 /\ b[1] = IF r.body = "badsize" THEN "badsize" ELSE "byte"
      BY <3>1 DEF Kinds
    <3> QED
      BY <2>3, <3>2
  <2>4. CASE r.code = "other" /\ ~Asked[i].head /\ r.body \notin {"chunked", "length", "eof", "badsize"}
    <3>1. b = <<>>
      BY <1>1, <2>4 DEF Hc!Body
    <3> QED
      BY <2>4, <3>1
  <2> QED
    BY <2>1, <2>2, <2>3, <2>4
<1>6. PICK n \in Nat : n = Len(b) /\ (n = 0 \/ n = 1 \/ n = 4)
  BY <1>5
<1>7. /\ kinds \in Seq(Kinds) /\ Len(kinds) = n + 2 /\ kinds[1] = "first"
      /\ \A k \in 1..n : kinds[k + 2] = b[k]
  <2>1. <<"first", "headers">> \in Seq(Kinds)
    BY DEF Kinds
  <2>2. PICK h \in Seq(Kinds) : h = <<"first", "headers">>
    BY <2>1
  <2>3. Len(h) = 2 /\ h[1] = "first"
    BY <2>2
  <2>4. kinds = h \o b
    BY <1>2, <2>2
  <2>5. Twofold(h, b, kinds)
    BY <1>5, <2>3, <2>4, TwoMore DEF HasTwo
  <2> QED
    BY <1>6, <2>3, <2>5 DEF Twofold
<1>8. Len(T) = n + 2 /\ (\A k \in 1..(n + 2) : T[k] = [kind |-> kinds[k], id |-> i, resp |-> r]) /\ \E S : T \in Seq(S)
  <2>1. PICK m \in Nat : m = n + 2
    BY <1>6
  <2>2. T = [k \in 1..m |-> [kind |-> kinds[k], id |-> i, resp |-> r]]
    BY <1>4, <1>7, <2>1
  <2>3. T \in Seq({T[k] : k \in 1..m}) /\ Len(T) = m
    BY <2>2
  <2> QED
    BY <2>1, <2>2, <2>3
<1>9. \E S : T \in Seq(S)
  BY <1>8
<1>10. 1 \in 1..(n + 2) /\ (n > 0 => 3 \in 1..(n + 2)) /\ (n = 4 => 5 \in 1..(n + 2))
  BY <1>6
<1>11. T[1].kind = "first" /\ (n > 0 => T[3].kind = b[1]) /\ (n = 4 => T[5].kind = b[3])
  <2>1. 1 \in 1..(n + 2) /\ T[1].kind = kinds[1]
    BY <1>8, <1>10
  <2>2. n > 0 => T[3].kind = kinds[3] /\ kinds[3] = b[1]
    <3>1. n > 0 => 1 \in 1..n /\ 1 + 2 = 3
      BY <1>6
    <3> QED
      BY <1>7, <1>8, <1>10, <3>1
  <2>3. n = 4 => T[5].kind = kinds[5] /\ kinds[5] = b[3]
    <3>1. n = 4 => 3 \in 1..n /\ 3 + 2 = 5
      BY <1>6
    <3> QED
      BY <1>7, <1>8, <1>10, <3>1
  <2> QED
    BY <1>7, <2>1, <2>2, <2>3
<1>12. \A k \in 1..Len(T) : T[k].id = i /\ T[k].resp = r
  BY <1>8
<1> QED
  <2>1. Len(T) \in {2, 3, 6} /\ (n = 0 <=> Len(T) = 2) /\ (n = 1 <=> Len(T) = 3) /\ (n = 4 <=> Len(T) = 6)
    <3>1. /\ n = 0 => n + 2 = 2 /\ n + 2 # 3 /\ n + 2 # 6
          /\ n = 1 => n + 2 = 3 /\ n + 2 # 2 /\ n + 2 # 6
          /\ n = 4 => n + 2 = 6 /\ n + 2 # 2 /\ n + 2 # 3
      OBVIOUS
    <3>2. PICK m : m = n + 2
      OBVIOUS
    <3>3. Len(T) = m
      BY <1>8, <3>2
    <3>4. m \in {2, 3, 6} /\ (n = 0 <=> m = 2) /\ (n = 1 <=> m = 3) /\ (n = 4 <=> m = 6)
      BY <1>6, <3>1, <3>2
    <3> QED
      BY <3>3, <3>4
  <2>2. Len(T) > 2 => n > 0
    BY <1>6, <1>8
  <2>3. /\ r.code # "other" \/ Len(T) = 2 \/ r.body \in {"length", "eof", "chunked", "badsize"}
        /\ r.code # "other" => Len(T) = 2
        /\ r.body \in {"length", "eof", "badsize"} => Len(T) \in {2, 3}
        /\ r.body = "chunked" => Len(T) \in {2, 6}
        /\ r.code = "other" /\ r.body = "length" /\ ~Asked[i].head => Len(T) = 3
        /\ r.code = "other" /\ r.body = "chunked" /\ ~Asked[i].head => Len(T) = 6
    BY <1>5, <1>6, <2>1
  <2>4. r.body = "badsize" /\ Len(T) > 2 => T[3].kind = "badsize"
    BY <1>5, <1>6, <1>11, <2>2
  <2>5. r.body = "chunked" /\ Len(T) > 2 => n = 4
    BY <1>5, <1>6, <2>2
  <2>6. r.body = "chunked" /\ Len(T) > 2 => T[3].kind = "size" /\ T[5].kind = "last"
    BY <1>5, <1>6, <1>11, <2>2, <2>5
  <2> QED
    BY <1>3, <1>9, <1>11, <1>12, <2>1, <2>3, <2>4, <2>6 DEF IsResponse

-----------------------------------------------------------------------------
(***************************************************************************)
(* What a connection of the client reads is the response to its first      *)
(* request, and how far it has come is its state.                          *)
(***************************************************************************)

\* The server sends no interim responses.
NoInterim == \A r \in Responses : r.code # "info"
NoHeads == \A i \in 1..Len(Asked) : Asked[i].head = FALSE

CurFields(q) == q = [toks |-> q.toks, conn |-> q.conn, chunked |-> q.chunked, ntoread |-> q.ntoread]

\* After n tokens of the response r.
Place(s, n, q, r) ==
  \/ s = "READING_FIRSTLINE" /\ n = 0 /\ q.chunked = FALSE
  \/ s = "READING_HEADERS" /\ n = 1 /\ q.chunked = FALSE
  \/ /\ s = "READING_BODY" /\ r.code = "other" /\ n >= 2
     /\ \/ r.body = "length" /\ n = 2 /\ q.chunked = FALSE /\ q.ntoread = 1
        \/ r.body = "eof" /\ q.chunked = FALSE /\ q.ntoread = -1
        \/ r.body = "chunked" /\ n \in {2, 4} /\ q.chunked = TRUE /\ q.ntoread = -1
        \/ r.body = "chunked" /\ n = 3 /\ q.chunked = TRUE /\ q.ntoread = 1
        \/ r.body = "badsize" /\ n = 2 /\ q.chunked = TRUE /\ q.ntoread = -1
  \/ s = "READING_TRAILER" /\ r.code = "other" /\ r.body = "chunked" /\ n = 5

\* Nothing of a response has been sent.
Unanswered(c) == /\ c.state = "READING_FIRSTLINE" /\ c.cur.toks = <<>> /\ c.cur.chunked = FALSE
                 /\ c.inbuf = <<>> /\ c.net = <<>>
                 /\ c.due \in {<<>>, <<Head(c.queue)>>}

Answered(c, r) == /\ c.due = <<>>
                  /\ Follows(c.cur.toks, c.inbuf, c.net, Hc!Tokens(r, Head(c.queue)))
                  /\ Place(c.state, Len(c.cur.toks), c.cur, r)

ReadingOne(c) == /\ CurFields(c.cur)
                 /\ c.ev = "read" => c.inbuf = <<>>
                 /\ c.peer # "open" => c.due = <<>>
                 /\ Unanswered(c) \/ \E r \in Responses : Answered(c, r)

\* No byte is on its way to it.
Clear(c) == /\ c.inbuf = <<>> /\ c.net = <<>> /\ c.due = <<>>
            /\ c.state = "WRITING" => c.cur = Hc!NewReply

Incoming(c) == IF c.state \in ReadStates THEN ReadingOne(c) ELSE Clear(c)

\* What a callback was given.
EntryOk(e) ==
  /\ \A j \in 1..Len(e.toks) : e.toks[j].id = e.id
  /\ NoHeads /\ e.kind = "failed" => ~(Hc!Whole(e.toks) /\ e.toks[1].resp.body \in {"length", "chunked"})
History == \A k \in 1..Len(called) : EntryOk(called[k])

StreamInv == Incoming(con) /\ History

LEMMA HistoryGrows ==
  ASSUME History, Ordered, NEW e, EntryOk(e), called' = Append(called, e)
  PROVE  History'
<1>1. PICK S : called \in Seq(S)
  BY DEF Ordered, Calls
<1>2. IsLonger(called', called, e)
  BY <1>1, Appended
<1>3. PICK n \in Nat : n = Len(called)
  BY <1>1
<1>4. \A k \in 1..(n + 1) : EntryOk(called'[k])
  <2> SUFFICES ASSUME NEW k \in 1..(n + 1)
               PROVE  EntryOk(called'[k])
    OBVIOUS
  <2>1. CASE k \in 1..n
    <3>1. called'[k] = called[k] /\ EntryOk(called[k])
      BY <1>2, <1>3, <2>1 DEF IsLonger, History
    <3> QED
      BY <3>1
  <2>2. CASE k = n + 1
    <3>1. called'[k] = e
      BY <1>2, <1>3, <2>2 DEF IsLonger
    <3> QED
      BY <3>1
  <2> QED
    BY <2>1, <2>2, LastOrBefore
<1>5. Len(called') = n + 1
  BY <1>2, <1>3 DEF IsLonger
<1>6. History' = \A k \in 1..Len(called') : EntryOk(called'[k])
  BY DEF History, EntryOk, NoHeads, Hc!Whole, Hc!Tokens, Hc!Body
<1> QED
  BY <1>4, <1>5, <1>6

\* evhttp_connection_connect(), evhttp_request_dispatch(), evhttp_make_request(),
\* evhttp_connection_done() and evhttp_connection_fail().
LEMMA ConnectClear ==
  ASSUME NEW c, ConTyped(c), Clear(c), c.state # "WRITING", NEW x \in Hc!Connect(c)
  PROVE  Clear(x)
BY DEF ConTyped, ConFields, Clear, Hc!Connect, Hc!Reset

LEMMA DispatchClear ==
  ASSUME NEW c, ConTyped(c), Clear(c), NEW x, x = Hc!Dispatch(c)
  PROVE  Clear(x)
BY DEF ConTyped, ConFields, Clear, Hc!Dispatch

LEMMA MakeClear ==
  ASSUME NEW c, ConTyped(c), Clear(c), NEW i, NEW x \in Hc!MakeRequest(c, i), Append(c.queue, i) \in Seq(1..Len(Asked))
  PROVE  Clear(x)
<1>1. PICK q : q = [c EXCEPT !.queue = Append(@, i)]
  OBVIOUS
<1>2. ConTyped(q) /\ Clear(q) /\ q.state = c.state
  BY <1>1 DEF ConTyped, ConFields, Clear
<1>3. (x \in Hc!Connect(q) /\ q.state # "WRITING") \/ x = Hc!Dispatch(q) \/ x = q
  BY <1>1 DEF Hc!MakeRequest, Hc!Connected
<1> QED
  BY <1>2, <1>3, ConnectClear, DispatchClear

LEMMA ResetClear ==
  ASSUME NEW c, ConTyped(c), NEW x, x = Hc!Reset(c)
  PROVE  Clear(x) /\ ConTyped(x) /\ x.state = "DISCONNECTED"
<1>1. ConTyped(x) /\ x.state = "DISCONNECTED"
  BY ResetIs
<1> QED
  BY <1>1 DEF ConTyped, ConFields, Clear, Hc!Reset

LEMMA DoneClear ==
  ASSUME NEW c, ConTyped(c), c.queue # <<>>, c.inbuf = <<>>, c.net = <<>>, c.due = <<>>, NEW x \in Hc!Done(c)
  PROVE  Clear(x)
<1>1. PICK idle, next : /\ idle = [c EXCEPT !.state = "IDLE", !.queue = Tail(@)]
                        /\ next = IF Hc!NeedClose(c) THEN Hc!Reset(idle) ELSE idle
  OBVIOUS
<1>2. Tail(c.queue) \in Seq(1..Len(Asked))
  BY HeadTailProperties DEF ConTyped
<1>3. ConTyped(idle) /\ Clear(idle) /\ idle.state = "IDLE"
  BY <1>1, <1>2 DEF ConTyped, ConFields, ConStates, Clear
<1>4. ConTyped(next) /\ Clear(next) /\ next.state # "WRITING"
  BY <1>1, <1>3, ResetClear
<1>5. x = Hc!Dispatch(next) \/ x \in Hc!Connect(next) \/ x = next \/ x = [next EXCEPT !.closeEv = TRUE]
  BY <1>1 DEF Hc!Done, Hc!StartDetectClose
<1>6. CASE x = [next EXCEPT !.closeEv = TRUE]
  BY <1>4, <1>6 DEF ConTyped, ConFields, Clear
<1> QED
  BY <1>4, <1>5, <1>6, DispatchClear, ConnectClear

LEMMA FailClear ==
  ASSUME NEW c, ConTyped(c), c.queue # <<>>, NEW x \in Hc!Fail(c)
  PROVE  Clear(x)
<1>1. PICK d, r : d = [c EXCEPT !.queue = Tail(@)] /\ r = Hc!Reset(d)
  OBVIOUS
<1>2. Tail(c.queue) \in Seq(1..Len(Asked))
  BY HeadTailProperties DEF ConTyped
<1>3. ConTyped(d)
  BY <1>1, <1>2 DEF ConTyped, ConFields
<1>4. ConTyped(r) /\ Clear(r) /\ r.state = "DISCONNECTED"
  BY <1>1, <1>3, ResetClear
<1>5. x \in Hc!Connect(r) \/ x = r
  BY <1>1 DEF Hc!Fail
<1> QED
  BY <1>4, <1>5, ConnectClear

\* A step to a connection that no byte is on its way to.
LEMMA ClearStep ==
  ASSUME History', Clear(con'), con'.state \notin ReadStates
  PROVE  StreamInv'
BY DEF StreamInv, Incoming, Clear, Hc!NewReply

LEMMA HistoryStays ==
  ASSUME History, UNCHANGED called
  PROVE  History'
<1>1. \A k \in 1..Len(called') : EntryOk(called'[k])
  BY DEF History
<1>2. History' = \A k \in 1..Len(called') : EntryOk(called'[k])
  BY DEF History, EntryOk, NoHeads, Hc!Whole, Hc!Tokens, Hc!Body
<1> QED
  BY <1>1, <1>2

\* A step to a connection that reads.
LEMMA ReadingStep ==
  ASSUME History, UNCHANGED called, ReadingOne(con'), con'.state \in ReadStates
  PROVE  StreamInv'
<1>1. Incoming(con)'
  BY DEF Incoming, ReadingOne, CurFields, Unanswered, Answered, Follows, Place, Hc!Tokens, Hc!Body, ReadStates
<1> QED
  BY <1>1, HistoryStays DEF StreamInv

\* What was used up of the response r is a response to the request i, or the beginning of one.
LEMMA EntryFollows ==
  ASSUME NEW r, NEW i, NEW t, NEW b, NEW m, Follows(t, b, m, Hc!Tokens(r, i)), NEW kind,
         \/ kind # "failed" \/ t = <<>> \/ r.body \notin {"length", "chunked"}
         \/ NoHeads => Len(t) < Len(Hc!Tokens(r, i))
  PROVE  EntryOk([id |-> i, kind |-> kind, toks |-> t])
<1>1. PICK T : T = Hc!Tokens(r, i)
  OBVIOUS
<1>2. \A k \in 1..Len(T) : T[k].id = i /\ T[k].resp = r
  BY <1>1, TokensAre DEF IsResponse
<1>3. (\E S : t \in Seq(S)) /\ Len(T) \in Nat /\ Len(t) \in Nat /\ Len(t) <= Len(T) /\ \A k \in 1..Len(t) : t[k] = T[k]
  BY <1>1 DEF Follows
<1>4. \A j \in 1..Len(t) : t[j].id = i /\ t[j].resp = r
  <2>1. \A j \in 1..Len(t) : j \in 1..Len(T)
    BY <1>3
  <2> QED
    BY <1>2, <1>3, <2>1
<1>5. ASSUME NoHeads, kind = "failed", Hc!Whole(t), t[1].resp.body \in {"length", "chunked"}
      PROVE  FALSE
  <2>1. t # <<>> /\ t = Hc!Tokens(t[1].resp, t[1].id)
    BY <1>5 DEF Hc!Whole
  <2>2. 1 \in 1..Len(t)
    BY <1>3, <2>1, EmptySeq
  <2>3. t = T /\ r.body \in {"length", "chunked"}
    BY <1>1, <1>4, <1>5, <2>1, <2>2
  <2> QED
    BY <1>1, <1>3, <1>5, <2>1, <2>3
<1> QED
  BY <1>4, <1>5 DEF EntryOk

\* A response that is still being read is not whole.
LEMMA NotYet ==
  ASSUME NEW c, ConTyped(c), c.queue # <<>>, NEW r, Answered(c, r), NoHeads
  PROVE  \/ c.cur.toks = <<>> \/ r.body \notin {"length", "chunked"}
         \/ Len(c.cur.toks) < Len(Hc!Tokens(r, Head(c.queue)))
<1>1. PICK i \in 1..Len(Asked) : i = Head(c.queue)
  BY RestOf DEF ConTyped
<1>2. Asked[i].head = FALSE
  BY <1>1 DEF NoHeads
<1>3. PICK T : T = Hc!Tokens(r, i)
  OBVIOUS
<1>4. PICK l \in Nat : l = Len(T)
  BY <1>1, <1>3 DEF Answered, Follows
<1>5. /\ l = 2 \/ l = 3 \/ l = 6
      /\ r.code = "other" /\ r.body = "length" => l = 3
      /\ r.code = "other" /\ r.body = "chunked" => l = 6
  <2>1. IsResponse(T, r, i)
    BY <1>3, TokensAre
  <2>2. /\ Len(T) \in {2, 3, 6}
        /\ r.code = "other" /\ r.body = "length" /\ ~Asked[i].head => Len(T) = 3
        /\ r.code = "other" /\ r.body = "chunked" /\ ~Asked[i].head => Len(T) = 6
    BY <2>1 DEF IsResponse
  <2> QED
    BY <1>2, <1>4, <2>2
<1>6. \E S : c.cur.toks \in Seq(S)
  BY DEF Answered, Follows
<1>7. PICK n \in Nat : n = Len(c.cur.toks)
  BY <1>6
<1>8. Place(c.state, n, c.cur, r)
  BY <1>7 DEF Answered
<1>9. \/ n = 0 \/ n = 1 \/ r.body \notin {"length", "chunked"}
      \/ r.code = "other" /\ r.body = "chunked" /\ (n = 2 \/ n = 3 \/ n = 4 \/ n = 5)
      \/ r.code = "other" /\ r.body = "length" /\ n = 2
  BY <1>8 DEF Place
<1>10. n = 0 => c.cur.toks = <<>>
  BY <1>6, <1>7, EmptySeq
<1>11. n = 0 \/ r.body \notin {"length", "chunked"} \/ n < l
  BY <1>5, <1>9
<1> QED
  BY <1>1, <1>3, <1>4, <1>7, <1>10, <1>11

LEMMA EntryNow ==
  ASSUME ClientInv, StreamInv, con.state \in {"WRITING"} \cup ReadStates, NEW kind
  PROVE  EntryOk([id |-> Head(con.queue), kind |-> kind, toks |-> con.cur.toks])
<1>1. ConTyped(con) /\ con.queue # <<>>
  BY DEF ClientInv, GoodCon, Settled
<1>2. CASE con.cur.toks = <<>>
  BY <1>2 DEF EntryOk, Hc!Whole
<1>3. CASE con.state = "WRITING"
  <2>1. con.cur.toks = <<>>
    BY <1>3 DEF StreamInv, Incoming, Clear, ReadStates, Hc!NewReply
  <2> QED
    BY <1>2, <2>1
<1>4. CASE con.state \in ReadStates /\ con.cur.toks # <<>>
  <2>1. PICK r \in Responses : Answered(con, r)
    BY <1>4 DEF StreamInv, Incoming, ReadingOne, Unanswered
  <2>2. Follows(con.cur.toks, con.inbuf, con.net, Hc!Tokens(r, Head(con.queue)))
    BY <2>1 DEF Answered
  <2>3. NoHeads => \/ con.cur.toks = <<>> \/ r.body \notin {"length", "chunked"}
                   \/ Len(con.cur.toks) < Len(Hc!Tokens(r, Head(con.queue)))
    BY <1>1, <2>1, NotYet
  <2> QED
    BY <2>2, <2>3, EntryFollows
<1> QED
  BY <1>2, <1>3, <1>4

\* The end of a request: the response was used up, or the connection is reset.
LEMMA EndsClear ==
  ASSUME ClientInv, StreamInv, con.state \in {"WRITING"} \cup ReadStates, NEW c, SameCon(c), c.ev = "none",
         NEW kind, EntryOk([id |-> Head(con.queue), kind |-> kind, toks |-> c.cur.toks]),
         \/ kind = "reply" /\ Hc!EndDone(c) /\ c.inbuf = <<>> /\ c.net = <<>> /\ c.due = <<>>
         \/ kind = "failed" /\ Hc!EndFail(c)
  PROVE  StreamInv'
<1>1. ConTyped(con) /\ Settled(con) /\ Ordered /\ History
  BY DEF ClientInv, GoodCon, StreamInv
<1>2. ConTyped(c) /\ c.queue # <<>> /\ c.closeEv = FALSE /\ c.fd = TRUE /\ c.queue = con.queue
  BY <1>1 DEF SameCon, ConTyped, Settled, ReadStates
<1>3. Clear(con') /\ WentOn(con', c) /\ Hc!Report(c, kind)
  <2>1. CASE kind = "reply" /\ Hc!EndDone(c) /\ c.inbuf = <<>> /\ c.net = <<>> /\ c.due = <<>>
    <3>1. con' \in Hc!Done(c) /\ Hc!Report(c, "reply")
      BY <2>1 DEF Hc!EndDone
    <3> QED
      BY <1>2, <2>1, <3>1, DoneClear, DoneGood
  <2>2. CASE kind = "failed" /\ Hc!EndFail(c)
    <3>1. con' \in Hc!Fail(c) /\ Hc!Report(c, "failed")
      BY <2>2 DEF Hc!EndFail
    <3> QED
      BY <1>2, <2>2, <3>1, FailClear, FailGood
  <2> QED
    BY <2>1, <2>2
<1>4. PICK e : e = [id |-> Head(con.queue), kind |-> kind, toks |-> c.cur.toks]
  OBVIOUS
<1>5. called' = Append(called, e) /\ EntryOk(e)
  BY <1>2, <1>3, <1>4 DEF Hc!Report
<1>6. History'
  BY <1>1, <1>5, HistoryGrows
<1>7. con'.state \notin ReadStates
  BY <1>3 DEF WentOn, ReadStates, Quiet
<1> QED
  BY <1>3, <1>6, <1>7, ClearStep

\* The callbacks and the connection while no response is read.
LEMMA StreamRequest ==
  ASSUME ClientInv, StreamInv, con.state # "freed", Hc!Request
  PROVE  StreamInv'
<1>1. PICK i : i = cmade + 1
  OBVIOUS
<1>2. cmade < Len(Asked) /\ con' \in Hc!MakeRequest(con, i) /\ UNCHANGED called
  BY <1>1 DEF Hc!Request
<1>3. GoodCon(con) /\ ConTyped(con) /\ Settled(con) /\ Ordered /\ Len(Asked) \in Nat /\ cmade \in Nat /\ History
  BY DEF ClientInv, GoodCon, Ordered, Hc!Sane, StreamInv
<1>4. i \in 1..Len(Asked) /\ (con.queue # <<>> => Head(con.queue) # i)
  BY <1>1, <1>2, <1>3, NotFirst
<1>5. Append(con.queue, i) \in Seq(1..Len(Asked))
  BY <1>3, <1>4, AppendProperties DEF ConTyped
<1>6. con'.state = con.state \/ con'.state \in {"CONNECTING", "WRITING"}
  BY <1>2, <1>3, <1>4, MakeGood
<1>7. CASE con.state \notin ReadStates
  <2>1. Clear(con)
    BY <1>7 DEF StreamInv, Incoming
  <2>2. Clear(con')
    BY <1>2, <1>3, <1>5, <2>1, MakeClear
  <2>3. con'.state \notin ReadStates
    BY <1>6, <1>7 DEF ReadStates
  <2> QED
    BY <1>2, <1>3, <2>2, <2>3, ClearStep, HistoryStays
<1>8. CASE con.state \in ReadStates
  <2>1. con.queue # <<>> /\ ReadingOne(con)
    BY <1>3, <1>8 DEF Settled, StreamInv, Incoming
  <2>2. Head(Append(con.queue, i)) = Head(con.queue)
    BY <1>3, <1>4, <2>1, AppendProperties DEF ConTyped
  <2>3. PICK q : q = [con EXCEPT !.queue = Append(@, i)]
    OBVIOUS
  <2>4. /\ q.queue = Append(con.queue, i) /\ q.state = con.state /\ q.ev = con.ev /\ q.inbuf = con.inbuf /\ q.net = con.net
        /\ q.due = con.due /\ q.peer = con.peer /\ q.cur = con.cur
    BY <1>3, <2>3 DEF ConTyped, ConFields
  <2>5. con' = q
    BY <1>2, <1>4, <1>8, <2>1, <2>2, <2>3, <2>4 DEF Hc!MakeRequest, Hc!Connected, ReadStates
  <2>6. ReadingOne(q)
    BY <2>1, <2>2, <2>4 DEF ReadingOne, Unanswered, Answered
  <2> QED
    BY <1>2, <1>3, <1>8, <2>4, <2>5, <2>6, ReadingStep
<1> QED
  BY <1>7, <1>8

LEMMA StreamFree ==
  ASSUME StreamInv, Hc!Free
  PROVE  StreamInv'
<1>1. con' = [state |-> "freed", fd |-> FALSE, ev |-> "none", closeEv |-> FALSE, cnt |-> 0,
              queue |-> <<>>, inbuf |-> <<>>, cur |-> Hc!NewReply,
              net |-> <<>>, peer |-> "none", due |-> <<>>]
  BY DEF Hc!Free, Hc!New
<1>2. Clear(con') /\ con'.state \notin ReadStates
  BY <1>1 DEF Clear, ReadStates
<1> QED
  BY <1>2, ClearStep, HistoryStays DEF Hc!Free, StreamInv

LEMMA StreamSame ==
  ASSUME StreamInv, UNCHANGED <<con, called>>
  PROVE  StreamInv'
<1>1. History' /\ Incoming(con')
  BY HistoryStays DEF StreamInv
<1>2. CASE con'.state \in ReadStates
  BY <1>1, <1>2, ReadingStep DEF StreamInv, Incoming
<1>3. CASE con'.state \notin ReadStates
  BY <1>1, <1>3, ClearStep DEF StreamInv, Incoming
<1> QED
  BY <1>2, <1>3

\* A step that keeps the connection clear and calls no callback.
LEMMA StreamConnects ==
  ASSUME ClientInv, StreamInv, Hc!ConnectOk \/ Hc!ConnectFails \/ Hc!Retry \/ Hc!DetectClose
  PROVE  StreamInv'
<1>1. UNCHANGED called /\ History /\ ConTyped(con) /\ con.state \in {"CONNECTING", "IDLE"}
  BY DEF Hc!ConnectOk, Hc!ConnectFails, Hc!Retry, Hc!DetectClose, Hc!Fired, StreamInv, ClientInv, GoodCon, Settled, ConTyped
<1>2. Clear(con) /\ 0 \in 0..MaxCnt
  BY <1>1 DEF StreamInv, Incoming, ReadStates, ClientInv, Hc!Sane
<1>3. CASE Hc!ConnectOk
  <2>1. PICK c : c = [con EXCEPT !.ev = "none", !.cnt = 0, !.state = "IDLE", !.peer = "open"]
    OBVIOUS
  <2>2. con' = Hc!Dispatch(c) /\ con.ev = "connect"
    BY <1>3, <2>1 DEF Hc!ConnectOk, Hc!Fired, Hc!Taken
  <2>3. ConTyped(c) /\ Clear(c) /\ c.state = "IDLE" /\ c.fd = con.fd /\ c.ev = "none"
    BY <1>1, <1>2, <2>1 DEF ConTyped, ConFields, ConStates, Clear
  <2>4. con.fd = TRUE
    BY <2>2 DEF ClientInv, GoodCon, Settled
  <2>5. Clear(con') /\ con'.state \in {"IDLE", "WRITING"}
    BY <2>2, <2>3, <2>4, DispatchClear, DispatchGood
  <2> QED
    BY <1>1, <2>5, ClearStep, HistoryStays DEF ReadStates
<1>4. CASE Hc!ConnectFails
  <2>1. PICK t : t = Hc!Taken
    OBVIOUS
  <2>2. ConTyped(t) /\ Clear(t) /\ t.state = con.state
    BY <1>1, <1>2, <2>1 DEF Hc!Taken, ConTyped, ConFields, Clear
  <2>3. con' = Hc!Reset(t) \/ \E n, w : con' = [t EXCEPT !.cnt = n, !.ev = w]
    BY <1>4, <2>1 DEF Hc!ConnectFails
  <2>4. Clear(con') /\ con'.state \in {"CONNECTING", "IDLE", "DISCONNECTED"}
    <3>1. CASE con' = Hc!Reset(t)
      BY <2>2, <3>1, ResetClear
    <3>2. CASE \E n, w : con' = [t EXCEPT !.cnt = n, !.ev = w]
      BY <1>1, <2>2, <3>2 DEF ConTyped, ConFields, Clear
    <3> QED
      BY <2>3, <3>1, <3>2
  <2> QED
    BY <1>1, <2>4, ClearStep, HistoryStays DEF ReadStates
<1>5. CASE Hc!Retry
  <2>1. PICK c : c = [con EXCEPT !.ev = "none", !.state = "DISCONNECTED"]
    OBVIOUS
  <2>2. con' \in Hc!Connect(c) /\ con.ev = "retry"
    BY <1>5, <2>1 DEF Hc!Retry, Hc!Fired, Hc!Taken
  <2>3. ConTyped(c) /\ Clear(c) /\ c.state = "DISCONNECTED" /\ c.closeEv = con.closeEv
    BY <1>1, <1>2, <2>1 DEF ConTyped, ConFields, ConStates, Quiet, Clear
  <2>4. c.closeEv = FALSE
    BY <1>1, <2>2, <2>3 DEF ClientInv, GoodCon, Settled, ConTyped
  <2>5. Clear(con') /\ con'.state \in Quiet
    BY <2>2, <2>3, <2>4, ConnectClear, ConnectGood DEF Connects
  <2> QED
    BY <1>1, <2>5, ClearStep, HistoryStays DEF ReadStates, Quiet
<1>6. CASE Hc!DetectClose
  <2>1. PICK c : c = [con EXCEPT !.closeEv = FALSE]
    OBVIOUS
  <2>2. ConTyped(c) /\ con' = Hc!Reset(c)
    BY <1>1, <1>6, <2>1 DEF Hc!DetectClose, ConTyped, ConFields
  <2>3. Clear(con') /\ con'.state = "DISCONNECTED"
    BY <2>2, ResetClear
  <2> QED
    BY <1>1, <2>3, ClearStep, HistoryStays DEF ReadStates
<1> QED
  BY <1>3, <1>4, <1>5, <1>6

LEMMA StreamCleanup ==
  ASSUME ClientInv, StreamInv, Hc!Cleanup
  PROVE  StreamInv'
<1>1. ConTyped(con) /\ con.state \in Quiet /\ Ordered /\ History
  BY DEF Hc!Cleanup, ClientInv, GoodCon, ThreadAt, StreamInv
<1>2. Clear(con)
  BY <1>1 DEF StreamInv, Incoming, ReadStates, Quiet
<1>3. CASE UNCHANGED <<con, called>>
  BY <1>3, StreamSame
<1>4. CASE /\ called' = Append(called, [id |-> Head(con.queue), kind |-> "failed", toks |-> <<>>])
           /\ con' = [con EXCEPT !.queue = Tail(@)]
  <2>1. PICK e : e = [id |-> Head(con.queue), kind |-> "failed", toks |-> <<>>]
    OBVIOUS
  <2>2. EntryOk(e)
    BY <2>1 DEF EntryOk, Hc!Whole
  <2>3. called' = Append(called, e)
    BY <1>4, <2>1
  <2>4. History'
    BY <1>1, <2>2, <2>3, HistoryGrows
  <2>5. Clear(con') /\ con'.state = con.state
    BY <1>1, <1>2, <1>4 DEF ConTyped, ConFields, Clear
  <2> QED
    BY <1>1, <2>4, <2>5, ClearStep DEF ReadStates, Quiet
<1> QED
  BY <1>3, <1>4 DEF Hc!Cleanup

LEMMA StreamWrite ==
  ASSUME ClientInv, StreamInv, Hc!Write
  PROVE  StreamInv'
<1>1. /\ con.ev = "write" /\ UNCHANGED called
      /\ con' = [con EXCEPT !.ev = "read", !.state = "READING_FIRSTLINE",
                            !.due = IF con.peer = "open" THEN <<Head(con.queue)>> ELSE <<>>]
  BY DEF Hc!Write, Hc!Fired, Hc!Taken
<1>2. ConTyped(con) /\ con.state = "WRITING" /\ History
  BY <1>1 DEF ClientInv, GoodCon, Settled, StreamInv
<1>3. Clear(con)
  BY <1>2 DEF StreamInv, Incoming, ReadStates
<1>4. con.cur = [toks |-> <<>>, conn |-> "none", chunked |-> FALSE, ntoread |-> 0]
  BY <1>2, <1>3 DEF Clear, Hc!NewReply
<1>5. /\ con'.ev = "read" /\ con'.state = "READING_FIRSTLINE" /\ con'.inbuf = con.inbuf /\ con'.net = con.net
      /\ con'.cur = con.cur /\ con'.queue = con.queue /\ con'.peer = con.peer
      /\ con'.due = IF con.peer = "open" THEN <<Head(con.queue)>> ELSE <<>>
  BY <1>1, <1>2 DEF ConTyped, ConFields
<1>6. CurFields(con'.cur) /\ Unanswered(con')
  BY <1>3, <1>4, <1>5 DEF CurFields, Unanswered, Clear
<1>7. ReadingOne(con') /\ con'.state \in ReadStates
  BY <1>3, <1>5, <1>6 DEF ReadingOne, ReadStates, Clear
<1> QED
  BY <1>1, <1>2, <1>7, ReadingStep

LEMMA StreamEventFails ==
  ASSUME ClientInv, StreamInv, Hc!EventFails
  PROVE  StreamInv'
<1>1. (Hc!Fired("write") \/ Hc!Fired("read")) /\ Hc!EndFail(Hc!Taken)
  BY DEF Hc!EventFails
<1>2. SameCon(Hc!Taken) /\ Hc!Taken.ev = "none" /\ con.state \in {"WRITING"} \cup ReadStates
  BY <1>1, TakenIs
<1>3. PICK c : c = Hc!Taken
  OBVIOUS
<1>4. c.cur = con.cur
  BY <1>3 DEF Hc!Taken, ClientInv, GoodCon, ConTyped, ConFields
<1>5. EntryOk([id |-> Head(con.queue), kind |-> "failed", toks |-> c.cur.toks])
  BY <1>2, <1>4, EntryNow
<1> QED
  BY <1>1, <1>2, <1>3, <1>5, EndsClear

LEMMA StreamEof ==
  ASSUME ClientInv, StreamInv, Hc!ReadEof
  PROVE  StreamInv'
<1>1. Hc!Fired("read") /\ Hc!EndDone(Hc!Taken) /\ con.peer = "fin" /\ con.net = <<>> /\ con.ev = "read"
  BY DEF Hc!ReadEof, Hc!Fired
<1>2. SameCon(Hc!Taken) /\ Hc!Taken.ev = "none" /\ con.state \in ReadStates
  BY <1>1, TakenIs DEF ClientInv, GoodCon, Settled
<1>3. PICK c : c = Hc!Taken
  OBVIOUS
<1>4. c.cur = con.cur /\ c.inbuf = con.inbuf /\ c.net = con.net /\ c.due = con.due
  BY <1>3 DEF Hc!Taken, ClientInv, GoodCon, ConTyped, ConFields
<1>5. EntryOk([id |-> Head(con.queue), kind |-> "reply", toks |-> c.cur.toks])
  BY <1>2, <1>4, EntryNow
<1>6. con.inbuf = <<>> /\ con.due = <<>>
  BY <1>1, <1>2 DEF StreamInv, Incoming, ReadingOne
<1> QED
  BY <1>1, <1>2, <1>3, <1>4, <1>5, <1>6, EndsClear

LEMMA StreamData ==
  ASSUME ClientInv, StreamInv, Hc!ReadData
  PROVE  StreamInv'
<1>1. PICK n \in 1..Len(con.net) :
        con' = [con EXCEPT !.ev = "none", !.inbuf = @ \o SubSeq(con.net, 1, n),
                           !.net = SubSeq(con.net, n + 1, Len(con.net))]
  BY DEF Hc!ReadData, Hc!Taken
<1>2. con.ev = "read" /\ UNCHANGED called
  BY DEF Hc!ReadData, Hc!Fired
<1>3. ConTyped(con) /\ con.state \in ReadStates /\ ReadingOne(con) /\ History
  BY <1>2 DEF ClientInv, GoodCon, Settled, StreamInv, Incoming
<1>4. con.inbuf = <<>>
  BY <1>2, <1>3 DEF ReadingOne
<1>5. /\ con'.state = con.state /\ con'.ev = "none" /\ con'.cur = con.cur /\ con'.due = con.due /\ con'.peer = con.peer
      /\ con'.queue = con.queue
      /\ con'.inbuf = <<>> \o SubSeq(con.net, 1, n) /\ con'.net = SubSeq(con.net, n + 1, Len(con.net))
  BY <1>1, <1>3, <1>4 DEF ConTyped, ConFields
<1>6. con.net # <<>>
  OBVIOUS
<1>7. PICK r \in Responses : Answered(con, r)
  BY <1>3, <1>6 DEF ReadingOne, Unanswered
<1>8. Follows(con'.cur.toks, con'.inbuf, con'.net, Hc!Tokens(r, Head(con'.queue)))
  <2>1. PICK T : T = Hc!Tokens(r, Head(con.queue))
    OBVIOUS
  <2>2. Follows(con.cur.toks, <<>>, con.net, T)
    BY <1>4, <1>7, <2>1 DEF Answered
  <2>3. Follows(con.cur.toks, <<>> \o SubSeq(con.net, 1, n), SubSeq(con.net, n + 1, Len(con.net)), T)
    BY <2>2, Arrives
  <2> QED
    BY <1>5, <2>1, <2>3
<1>9. Answered(con', r)
  BY <1>5, <1>7, <1>8 DEF Answered
<1>10. ReadingOne(con')
  BY <1>3, <1>5, <1>9 DEF ReadingOne
<1> QED
  BY <1>2, <1>3, <1>5, <1>10, ReadingStep

\* evhttp_read() uses up one token of the response r, the one after the first n.
Eats(r, n) ==
  LET T == Hc!Tokens(r, Head(con.queue))
      t == Append(con.cur.toks, Hc!First)
  IN  /\ con.due = <<>> /\ n = Len(con.cur.toks) /\ n \in Nat /\ Place(con.state, n, con.cur, r)
      /\ Len(T) \in Nat /\ n + 1 <= Len(T) /\ Hc!First = T[n + 1] /\ Hc!First.resp = r
      /\ Follows(t, Tail(con.inbuf), con.net, T) /\ Len(t) = n + 1
      /\ n + 1 = Len(T) => Tail(con.inbuf) = <<>> /\ con.net = <<>>

LEMMA EatsNext ==
  ASSUME ClientInv, StreamInv, cpc \in ReadStates, con.inbuf # <<>>
  PROVE  \E r \in Responses, n \in Nat : Eats(r, n)
<1>1. con.state \in ReadStates /\ ConTyped(con)
  BY AtRead
<1>2. PICK r \in Responses : Answered(con, r)
  BY <1>1 DEF StreamInv, Incoming, ReadingOne, Unanswered
<1>3. PICK T : T = Hc!Tokens(r, Head(con.queue))
  OBVIOUS
<1>4. Follows(con.cur.toks, con.inbuf, con.net, T) /\ con.due = <<>>
  BY <1>2, <1>3 DEF Answered
<1>5. PICK n \in Nat : n = Len(con.cur.toks)
  BY <1>4 DEF Follows
<1>6. /\ Follows(Append(con.cur.toks, Hc!First), Tail(con.inbuf), con.net, T)
      /\ Hc!First = T[n + 1] /\ n + 1 <= Len(T) /\ Len(Append(con.cur.toks, Hc!First)) = n + 1
      /\ n + 1 = Len(T) => Tail(con.inbuf) = <<>> /\ con.net = <<>>
  BY <1>4, <1>5, EatsOne DEF Hc!First
<1>7. Len(T) \in Nat
  BY <1>4 DEF Follows
<1>8. n + 1 \in 1..Len(T)
  BY <1>6, <1>7
<1>9. T[n + 1].resp = r
  BY <1>3, <1>8, TokensAre DEF IsResponse
<1>10. Place(con.state, n, con.cur, r)
  BY <1>2, <1>5 DEF Answered
<1> QED
  BY <1>3, <1>4, <1>5, <1>6, <1>7, <1>9, <1>10 DEF Eats

\* It goes on reading.
LEMMA StepReads ==
  ASSUME ClientInv, StreamInv, cpc \in ReadStates, NEW r \in Responses, NEW n \in Nat, Eats(r, n),
         NEW q, CurFields(q), q.toks = con.cur.toks, NEW s \in ReadStates, Hc!Step(q, s), Place(s, n + 1, q, r)
  PROVE  StreamInv'
<1>1. PICK cur : cur = [q EXCEPT !.toks = Append(@, Hc!First)]
  OBVIOUS
<1>2. con' = [con EXCEPT !.inbuf = Tail(@), !.cur = cur, !.state = s] /\ UNCHANGED called
  BY <1>1 DEF Hc!Step, Hc!Ate
<1>3. ConTyped(con) /\ con.state \in ReadStates /\ con.ev = "none" /\ ReadingOne(con) /\ History
  BY AtRead DEF StreamInv, Incoming
<1>4. /\ con'.state = s /\ con'.ev = "none" /\ con'.cur = cur /\ con'.due = con.due /\ con'.peer = con.peer
      /\ con'.queue = con.queue /\ con'.inbuf = Tail(con.inbuf) /\ con'.net = con.net
  BY <1>2, <1>3 DEF ConTyped, ConFields
<1>5. CurFields(cur) /\ cur.toks = Append(con.cur.toks, Hc!First) /\ cur.chunked = q.chunked /\ cur.ntoread = q.ntoread
  BY <1>1 DEF CurFields
<1>6. Follows(cur.toks, con'.inbuf, con'.net, Hc!Tokens(r, Head(con'.queue))) /\ Len(cur.toks) = n + 1 /\ con'.due = <<>>
  BY <1>4, <1>5 DEF Eats
<1>7. Place(con'.state, Len(cur.toks), cur, r)
  BY <1>4, <1>5, <1>6 DEF Place
<1>8. Answered(con', r)
  BY <1>4, <1>6, <1>7 DEF Answered
<1>9. ReadingOne(con')
  BY <1>3, <1>4, <1>5, <1>8 DEF ReadingOne
<1> QED
  BY <1>2, <1>3, <1>4, <1>9, ReadingStep

\* The connection whose request ends with the token.
LEMMA AteOne ==
  ASSUME ClientInv, cpc \in ReadStates, NEW q, CurFields(q), q.toks = con.cur.toks, NEW c, c = Hc!Ate(con, q)
  PROVE  /\ SameCon(c) /\ c.ev = "none" /\ c.cur.toks = Append(con.cur.toks, Hc!First)
         /\ c.inbuf = Tail(con.inbuf) /\ c.net = con.net /\ c.due = con.due
<1>1. ConTyped(con) /\ con.ev = "none"
  BY AtRead
<1> QED
  BY <1>1 DEF Hc!Ate, ConTyped, ConFields, SameCon, CurFields

\* The response has been read.
LEMMA DoneReads ==
  ASSUME ClientInv, StreamInv, cpc \in ReadStates, NEW r \in Responses, NEW n \in Nat, Eats(r, n),
         NEW q, CurFields(q), q.toks = con.cur.toks, Hc!EndDone(Hc!Ate(con, q)),
         n + 1 = Len(Hc!Tokens(r, Head(con.queue)))
  PROVE  StreamInv'
<1>1. PICK c : c = Hc!Ate(con, q)
  OBVIOUS
<1>2. /\ SameCon(c) /\ c.ev = "none" /\ c.cur.toks = Append(con.cur.toks, Hc!First)
      /\ c.inbuf = Tail(con.inbuf) /\ c.net = con.net /\ c.due = con.due
  BY <1>1, AteOne
<1>3. con.due = <<>> /\ Tail(con.inbuf) = <<>> /\ con.net = <<>>
      /\ Follows(c.cur.toks, Tail(con.inbuf), con.net, Hc!Tokens(r, Head(con.queue)))
  BY <1>2 DEF Eats
<1>4. EntryOk([id |-> Head(con.queue), kind |-> "reply", toks |-> c.cur.toks])
  BY <1>3, EntryFollows
<1>5. con.state \in ReadStates
  BY AtRead
<1> QED
  BY <1>1, <1>2, <1>3, <1>4, <1>5, EndsClear

\* It cannot be read on.
LEMMA FailReads ==
  ASSUME ClientInv, StreamInv, cpc \in ReadStates, Hc!EndFail([con EXCEPT !.inbuf = Tail(@)])
  PROVE  StreamInv'
<1>1. con.state \in ReadStates /\ ConTyped(con) /\ con.ev = "none"
  BY AtRead
<1>2. PICK c : c = [con EXCEPT !.inbuf = Tail(@)]
  OBVIOUS
<1>3. SameCon(c) /\ c.ev = "none" /\ c.cur = con.cur
  BY <1>1, <1>2 DEF ConTyped, ConFields, SameCon
<1>4. EntryOk([id |-> Head(con.queue), kind |-> "failed", toks |-> c.cur.toks])
  BY <1>1, <1>3, EntryNow
<1> QED
  BY <1>1, <1>2, <1>3, <1>4, EndsClear

LEMMA StreamWait ==
  ASSUME ClientInv, StreamInv, cpc \in ReadStates, con.inbuf = <<>>, Hc!Wait
  PROVE  StreamInv'
<1>1. con' = [con EXCEPT !.ev = "read"] /\ UNCHANGED called
  BY DEF Hc!Wait
<1>2. ConTyped(con) /\ con.state \in ReadStates /\ ReadingOne(con) /\ History
  BY AtRead DEF StreamInv, Incoming
<1>3. /\ con'.state = con.state /\ con'.cur = con.cur /\ con'.due = con.due /\ con'.peer = con.peer
      /\ con'.queue = con.queue /\ con'.inbuf = con.inbuf /\ con'.net = con.net
  BY <1>1, <1>2 DEF ConTyped, ConFields
<1>4. ReadingOne(con')
  BY <1>2, <1>3 DEF ReadingOne, Unanswered, Answered
<1> QED
  BY <1>1, <1>2, <1>3, <1>4, ReadingStep

\* The length of a response of which more than the headers is left.
LEMMA LengthLeft ==
  ASSUME NEW l \in Nat, l = 2 \/ l = 3 \/ l = 6, NEW n \in Nat, n >= 2, n + 1 <= l
  PROVE  /\ l = 3 \/ l = 6
         /\ n = 2 => n + 1 = 3
         /\ n = 3 => n + 1 = 4
         /\ n = 4 => n + 1 = 5
         /\ n = 5 => n + 1 = 6
         /\ l # 2 /\ l > 2
OBVIOUS

LEMMA StreamFirstline ==
  ASSUME ClientInv, StreamInv, Hc!ReadFirstline
  PROVE  StreamInv'
<1>1. cpc \in ReadStates /\ con.state = "READING_FIRSTLINE" /\ CurFields(con.cur)
  BY AtRead DEF Hc!ReadFirstline, ReadStates, StreamInv, Incoming, ReadingOne
<1>2. CASE con.inbuf = <<>> /\ Hc!Wait
  BY <1>1, <1>2, StreamWait
<1>3. CASE con.inbuf # <<>> /\ Hc!Step(con.cur, "READING_HEADERS")
  <2>1. PICK r \in Responses, n \in Nat : Eats(r, n)
    BY <1>1, <1>3, EatsNext
  <2>2. Place("READING_HEADERS", n + 1, con.cur, r) /\ "READING_HEADERS" \in ReadStates
    BY <1>1, <2>1 DEF Eats, Place, ReadStates
  <2> QED
    BY <1>1, <1>3, <2>1, <2>2, StepReads
<1>4. CASE Hc!EndFail([con EXCEPT !.inbuf = Tail(@)])
  BY <1>1, <1>4, FailReads
<1> QED
  BY <1>2, <1>3, <1>4 DEF Hc!ReadFirstline

\* The status and the headers say what follows.
HeadersParsed(r, q) ==
  \/ r.code # "other" /\ Hc!EndDone(Hc!Ate(con, q))
  \/ r.body = "badlength" /\ Hc!EndFail(Hc!Ate(con, q))
  \/ /\ r.code = "other" /\ r.body \in {"chunked", "badsize"}
     /\ Hc!Step([q EXCEPT !.chunked = TRUE, !.ntoread = -1], "READING_BODY")
  \/ /\ r.code = "other" /\ r.body \in {"length", "eof"}
     /\ Hc!Step([q EXCEPT !.ntoread = IF r.body = "length" THEN 1 ELSE -1], "READING_BODY")

LEMMA StreamHeader ==
  ASSUME ClientInv, StreamInv, Hc!ReadHeader
  PROVE  StreamInv'
<1>1. cpc \in ReadStates /\ con.state = "READING_HEADERS" /\ CurFields(con.cur)
  BY AtRead DEF Hc!ReadHeader, ReadStates, StreamInv, Incoming, ReadingOne
<1>2. CASE con.inbuf = <<>> /\ Hc!Wait
  BY <1>1, <1>2, StreamWait
<1>3. CASE con.inbuf # <<>> /\ HeadersParsed(Hc!First.resp, [con.cur EXCEPT !.conn = Hc!First.resp.conn])
  <2>1. PICK r \in Responses, n \in Nat : Eats(r, n)
    BY <1>1, <1>3, EatsNext
  <2>2. PICK q : q = [con.cur EXCEPT !.conn = r.conn]
    OBVIOUS
  <2>3. CurFields(q) /\ q.toks = con.cur.toks /\ q.chunked = con.cur.chunked
    BY <1>1, <2>2 DEF CurFields
  <2>4. n = 1 /\ con.cur.chunked = FALSE /\ Hc!First.resp = r
    BY <1>1, <2>1 DEF Eats, Place
  <2>5. PICK T : T = Hc!Tokens(r, Head(con.queue))
    OBVIOUS
  <2>6. "READING_BODY" \in ReadStates
    BY DEF ReadStates
  <2>7. CASE r.code # "other" /\ Hc!EndDone(Hc!Ate(con, q))
    <3>1. IsResponse(T, r, Head(con.queue))
      BY <2>5, TokensAre
    <3>2. Len(T) = 2
      BY <2>7, <3>1 DEF IsResponse
    <3>3. n + 1 = Len(T)
      BY <2>4, <3>2
    <3> QED
      BY <1>1, <2>1, <2>3, <2>5, <2>7, <3>3, DoneReads
  <2>8. CASE r.body = "badlength" /\ Hc!EndFail(Hc!Ate(con, q))
    <3>1. PICK c : c = Hc!Ate(con, q)
      OBVIOUS
    <3>2. SameCon(c) /\ c.ev = "none" /\ c.cur.toks = Append(con.cur.toks, Hc!First)
      BY <1>1, <2>3, <3>1, AteOne
    <3>3. Follows(c.cur.toks, Tail(con.inbuf), con.net, T)
      BY <2>1, <2>5, <3>2 DEF Eats
    <3>4. EntryOk([id |-> Head(con.queue), kind |-> "failed", toks |-> c.cur.toks])
      BY <2>5, <2>8, <3>3, EntryFollows
    <3>5. con.state \in ReadStates
      BY AtRead, <1>1
    <3> QED
      BY <2>8, <3>1, <3>2, <3>4, <3>5, EndsClear
  <2>9. CASE r.code = "other" /\ r.body \in {"chunked", "badsize"} /\ Hc!Step([q EXCEPT !.chunked = TRUE, !.ntoread = -1], "READING_BODY")
    <3>1. PICK p : p = [q EXCEPT !.chunked = TRUE, !.ntoread = -1]
      OBVIOUS
    <3>2. CurFields(p) /\ p.toks = con.cur.toks /\ p.chunked = TRUE /\ p.ntoread = -1
      BY <2>3, <3>1 DEF CurFields
    <3>3. Place("READING_BODY", n + 1, p, r)
      BY <2>4, <2>9, <3>2 DEF Place
    <3> QED
      BY <1>1, <2>1, <2>6, <2>9, <3>1, <3>2, <3>3, StepReads
  <2>10. CASE r.code = "other" /\ r.body \in {"length", "eof"}
              /\ Hc!Step([q EXCEPT !.ntoread = IF r.body = "length" THEN 1 ELSE -1], "READING_BODY")
    <3>1. PICK p : p = [q EXCEPT !.ntoread = IF r.body = "length" THEN 1 ELSE -1]
      OBVIOUS
    <3>2. CurFields(p) /\ p.toks = con.cur.toks /\ p.chunked = FALSE /\ p.ntoread = IF r.body = "length" THEN 1 ELSE -1
      BY <2>3, <2>4, <3>1 DEF CurFields
    <3>3. Place("READING_BODY", n + 1, p, r)
      BY <2>4, <2>10, <3>2 DEF Place
    <3> QED
      BY <1>1, <2>1, <2>6, <2>10, <3>1, <3>2, <3>3, StepReads
  <2> QED
    <3>1. HeadersParsed(r, q)
      BY <1>3, <2>2, <2>4
    <3> QED
      BY <2>7, <2>8, <2>9, <2>10, <3>1 DEF HeadersParsed
<1>4. \/ con.inbuf = <<>> /\ Hc!Wait
      \/ con.inbuf # <<>> /\ HeadersParsed(Hc!First.resp, [con.cur EXCEPT !.conn = Hc!First.resp.conn])
  BY Zenon DEF Hc!ReadHeader, HeadersParsed
<1> QED
  BY <1>2, <1>3, <1>4

\* The body, by its length, to the end of the connection, or in chunks.
InBody(q) ==
  \/ ~q.chunked /\ q.ntoread = -1 /\ Hc!Step(q, "READING_BODY")
  \/ ~q.chunked /\ q.ntoread = 1 /\ Hc!EndDone(Hc!Ate(con, [q EXCEPT !.ntoread = 0]))
  \/ q.chunked /\ q.ntoread = -1 /\ Hc!First.kind = "size" /\ Hc!Step([q EXCEPT !.ntoread = 1], "READING_BODY")
  \/ q.chunked /\ q.ntoread = 1 /\ Hc!Step([q EXCEPT !.ntoread = -1], "READING_BODY")
  \/ q.chunked /\ q.ntoread = -1 /\ Hc!First.kind = "last" /\ Hc!Step(q, "READING_TRAILER")
  \/ Hc!EndFail([con EXCEPT !.inbuf = Tail(@)])

LEMMA StreamBody ==
  ASSUME ClientInv, StreamInv, Hc!ReadBody
  PROVE  StreamInv'
<1>1. cpc \in ReadStates /\ con.state = "READING_BODY" /\ CurFields(con.cur)
  BY AtRead DEF Hc!ReadBody, ReadStates, StreamInv, Incoming, ReadingOne
<1>2. CASE con.inbuf = <<>> /\ Hc!Wait
  BY <1>1, <1>2, StreamWait
<1>3. CASE con.inbuf # <<>> /\ InBody(con.cur)
  <2>1. PICK r \in Responses, n \in Nat : Eats(r, n)
    BY <1>1, <1>3, EatsNext
  <2>2. PICK q : q = con.cur
    OBVIOUS
  <2>3. PICK T : T = Hc!Tokens(r, Head(con.queue))
    OBVIOUS
  <2>4. /\ r.code = "other" /\ n >= 2 /\ n + 1 <= Len(T) /\ Len(T) \in Nat /\ Hc!First = T[n + 1]
        /\ \/ r.body = "length" /\ n = 2 /\ q.chunked = FALSE /\ q.ntoread = 1
           \/ r.body = "eof" /\ q.chunked = FALSE /\ q.ntoread = -1
           \/ r.body = "chunked" /\ n \in {2, 4} /\ q.chunked = TRUE /\ q.ntoread = -1
           \/ r.body = "chunked" /\ n = 3 /\ q.chunked = TRUE /\ q.ntoread = 1
           \/ r.body = "badsize" /\ n = 2 /\ q.chunked = TRUE /\ q.ntoread = -1
    BY <1>1, <2>1, <2>2, <2>3 DEF Eats, Place
  <2>5. IsResponse(T, r, Head(con.queue))
    BY <2>3, TokensAre
  <2>6. PICK l \in Nat : l = Len(T) /\ (l = 2 \/ l = 3 \/ l = 6) /\ n + 1 <= l
    BY <2>5, <2>4 DEF IsResponse
  <2>7. (l = 3 \/ l = 6) /\ l # 2 /\ l > 2 /\ (n = 2 => n + 1 = 3) /\ (n = 4 => n + 1 = 5)
    BY <2>4, <2>6, LengthLeft
  <2>8. /\ r.body \in {"length", "eof", "badsize"} => Len(T) = 3
        /\ r.body = "chunked" => Len(T) = 6 /\ T[3].kind = "size" /\ T[5].kind = "last"
        /\ r.body = "badsize" => T[3].kind = "badsize"
    <3>1. Len(T) # 2 /\ Len(T) > 2
      BY <2>6, <2>7
    <3>2. r.body \in {"length", "eof", "badsize"} => Len(T) = 3
      BY <2>5, <3>1 DEF IsResponse
    <3>3. r.body = "chunked" => Len(T) = 6 /\ T[3].kind = "size" /\ T[5].kind = "last"
      BY <2>5, <3>1 DEF IsResponse
    <3>4. r.body = "badsize" => T[3].kind = "badsize"
      BY <2>5, <3>1 DEF IsResponse
    <3> QED
      BY <3>2, <3>3, <3>4
  <2>9. "READING_BODY" \in ReadStates /\ "READING_TRAILER" \in ReadStates
    BY DEF ReadStates
  <2>10. CASE ~q.chunked /\ q.ntoread = -1 /\ Hc!Step(q, "READING_BODY")
    <3>1. Place("READING_BODY", n + 1, q, r)
      BY <2>4, <2>10 DEF Place
    <3> QED
      BY <1>1, <2>1, <2>2, <2>9, <2>10, <3>1, StepReads
  <2>11. CASE ~q.chunked /\ q.ntoread = 1 /\ Hc!EndDone(Hc!Ate(con, [q EXCEPT !.ntoread = 0]))
    <3>1. PICK p : p = [q EXCEPT !.ntoread = 0]
      OBVIOUS
    <3>2. CurFields(p) /\ p.toks = con.cur.toks
      BY <1>1, <2>2, <3>1 DEF CurFields
    <3>3. n + 1 = Len(T)
      <4>1. r.body = "length" /\ n = 2
        BY <2>4, <2>11
      <4>2. Len(T) = 3
        BY <2>8, <4>1
      <4> QED
        BY <2>7, <4>1, <4>2
    <3> QED
      BY <1>1, <2>1, <2>3, <2>11, <3>1, <3>2, <3>3, DoneReads
  <2>12. CASE q.chunked /\ q.ntoread = -1 /\ Hc!First.kind = "size" /\ Hc!Step([q EXCEPT !.ntoread = 1], "READING_BODY")
    <3>1. PICK p : p = [q EXCEPT !.ntoread = 1]
      OBVIOUS
    <3>2. CurFields(p) /\ p.toks = con.cur.toks /\ p.chunked = q.chunked /\ p.ntoread = 1
      BY <1>1, <2>2, <3>1 DEF CurFields
    <3>3. r.body = "chunked" /\ n = 2
      BY <2>4, <2>8, <2>12, <2>7
    <3>4. Place("READING_BODY", n + 1, p, r)
      BY <2>4, <2>12, <3>2, <3>3 DEF Place
    <3> QED
      BY <1>1, <2>1, <2>9, <2>12, <3>1, <3>2, <3>4, StepReads
  <2>13. CASE q.chunked /\ q.ntoread = 1 /\ Hc!Step([q EXCEPT !.ntoread = -1], "READING_BODY")
    <3>1. PICK p : p = [q EXCEPT !.ntoread = -1]
      OBVIOUS
    <3>2. CurFields(p) /\ p.toks = con.cur.toks /\ p.chunked = q.chunked /\ p.ntoread = -1
      BY <1>1, <2>2, <3>1 DEF CurFields
    <3>3. Place("READING_BODY", n + 1, p, r)
      BY <2>4, <2>13, <3>2 DEF Place
    <3> QED
      BY <1>1, <2>1, <2>9, <2>13, <3>1, <3>2, <3>3, StepReads
  <2>14. CASE q.chunked /\ q.ntoread = -1 /\ Hc!First.kind = "last" /\ Hc!Step(q, "READING_TRAILER")
    <3>1. r.body = "chunked" /\ n = 4
      BY <2>4, <2>8, <2>14, <2>7
    <3>2. Place("READING_TRAILER", n + 1, q, r)
      BY <2>4, <3>1 DEF Place
    <3> QED
      BY <1>1, <2>1, <2>2, <2>9, <2>14, <3>2, StepReads
  <2>15. CASE Hc!EndFail([con EXCEPT !.inbuf = Tail(@)])
    BY <1>1, <2>15, FailReads
  <2> QED
    <3>1. InBody(q)
      BY <1>3, <2>2
    <3> QED
      BY <2>10, <2>11, <2>12, <2>13, <2>14, <2>15, <3>1 DEF InBody
<1>4. (con.inbuf = <<>> /\ Hc!Wait) \/ (con.inbuf # <<>> /\ InBody(con.cur))
  BY Zenon DEF Hc!ReadBody, InBody
<1> QED
  BY <1>2, <1>3, <1>4

LEMMA StreamTrailer ==
  ASSUME ClientInv, StreamInv, Hc!ReadTrailer
  PROVE  StreamInv'
<1>1. cpc \in ReadStates /\ con.state = "READING_TRAILER" /\ CurFields(con.cur)
  BY AtRead DEF Hc!ReadTrailer, ReadStates, StreamInv, Incoming, ReadingOne
<1>2. CASE con.inbuf = <<>> /\ Hc!Wait
  BY <1>1, <1>2, StreamWait
<1>3. CASE con.inbuf # <<>> /\ Hc!EndDone(Hc!Ate(con, con.cur))
  <2>1. PICK r \in Responses, n \in Nat : Eats(r, n)
    BY <1>1, <1>3, EatsNext
  <2>2. PICK T : T = Hc!Tokens(r, Head(con.queue))
    OBVIOUS
  <2>3. n = 5 /\ r.body = "chunked" /\ n + 1 <= Len(T)
    BY <1>1, <2>1, <2>2 DEF Eats, Place
  <2>4. IsResponse(T, r, Head(con.queue))
    BY <2>2, TokensAre
  <2>5. PICK l \in Nat : l = Len(T) /\ (l = 2 \/ l = 6) /\ n + 1 <= l
    BY <2>1, <2>2, <2>3, <2>4 DEF IsResponse, Eats
  <2>6. n + 1 = l
    BY <2>3, <2>5
  <2> QED
    BY <1>1, <1>3, <2>1, <2>2, <2>5, <2>6, DoneReads
<1> QED
  BY <1>2, <1>3 DEF Hc!ReadTrailer

\* The server answers the request that it has read.
LEMMA StreamAnswer ==
  ASSUME ClientInv, StreamInv, NoInterim, Hc!Answer
  PROVE  StreamInv'
<1>1. PICK r \in Responses, side \in {"fin", con.peer} :
        /\ con' = [con EXCEPT !.net = @ \o Hc!Tokens(r, Head(con.due)),
                              !.due = IF r.code = "info" THEN @ ELSE Tail(@), !.peer = side]
        /\ UNCHANGED called
  BY DEF Hc!Answer, Hc!Server
<1>2. ConTyped(con) /\ con.peer = "open" /\ con.due # <<>> /\ r.code # "info" /\ History
  BY DEF Hc!Answer, ClientInv, GoodCon, NoInterim, StreamInv
<1>3. con.state \in ReadStates /\ ReadingOne(con)
  BY <1>2 DEF StreamInv, Incoming, Clear
<1>4. Unanswered(con)
  BY <1>2, <1>3 DEF ReadingOne, Answered
<1>5. con.due = <<Head(con.queue)>> /\ con.net = <<>>
  BY <1>2, <1>4 DEF Unanswered
<1>6. Head(con.due) = Head(con.queue) /\ Tail(con.due) = <<>>
  BY <1>5
<1>7. PICK T : T = Hc!Tokens(r, Head(con.queue))
  OBVIOUS
<1>8. PICK S : T \in Seq(S)
  BY <1>7, TokensAre DEF IsResponse
<1>9. /\ con'.net = <<>> \o T /\ con'.due = <<>> /\ con'.state = con.state /\ con'.ev = con.ev
      /\ con'.inbuf = con.inbuf /\ con'.cur = con.cur /\ con'.queue = con.queue
  BY <1>1, <1>2, <1>5, <1>6, <1>7 DEF ConTyped, ConFields
<1>10. <<>> \o T = T
  BY <1>8, ConcatEmptySeq
<1>11. Follows(<<>>, <<>>, T, T)
  <2>1. Len(T) \in Nat
    BY <1>8
  <2> QED
    BY <1>8, <2>1, NoneFollows
<1>12. Answered(con', r)
  <2>1. con.cur.toks = <<>> /\ con.inbuf = <<>> /\ con.state = "READING_FIRSTLINE" /\ con.cur.chunked = FALSE
    BY <1>4 DEF Unanswered
  <2>2. Len(<<>>) = 0
    OBVIOUS
  <2>3. Place(con'.state, 0, con'.cur, r)
    BY <1>9, <2>1 DEF Place
  <2> QED
    BY <1>7, <1>9, <1>10, <1>11, <2>1, <2>2, <2>3 DEF Answered
<1>13. ReadingOne(con')
  BY <1>3, <1>9, <1>12 DEF ReadingOne
<1> QED
  BY <1>1, <1>2, <1>3, <1>9, <1>13, ReadingStep

\* The server, or the network, breaks the connection.
LEMMA StreamBreak ==
  ASSUME ClientInv, StreamInv, Hc!Break
  PROVE  StreamInv'
<1>1. ConTyped(con) /\ con.peer = "open" /\ History /\ UNCHANGED called
  BY DEF Hc!Break, Hc!Server, ClientInv, GoodCon, StreamInv
<1>2. CASE \E r \in Responses : \E n \in 1..3 :
             /\ con.due # <<>> /\ n < Len(Hc!Tokens(r, Head(con.due)))
             /\ con' = [con EXCEPT !.net = @ \o SubSeq(Hc!Tokens(r, Head(con.due)), 1, n), !.due = <<>>, !.peer = "fin"]
  <2>1. PICK r \in Responses, n \in 1..3 :
          /\ con.due # <<>> /\ n < Len(Hc!Tokens(r, Head(con.due)))
          /\ con' = [con EXCEPT !.net = @ \o SubSeq(Hc!Tokens(r, Head(con.due)), 1, n), !.due = <<>>, !.peer = "fin"]
    BY <1>2
  <2>2. con.state \in ReadStates /\ ReadingOne(con)
    BY <2>1 DEF StreamInv, Incoming, Clear
  <2>3. Unanswered(con)
    BY <2>1, <2>2 DEF ReadingOne, Answered
  <2>4. Head(con.due) = Head(con.queue) /\ con.net = <<>>
    BY <2>1, <2>3 DEF Unanswered
  <2>5. PICK T : T = Hc!Tokens(r, Head(con.queue))
    OBVIOUS
  <2>6. PICK S : T \in Seq(S)
    BY <2>5, TokensAre DEF IsResponse
  <2>7. n \in 1..Len(T) /\ Len(T) \in Nat
    BY <2>1, <2>4, <2>5, <2>6
  <2>8. PICK m : m = SubSeq(T, 1, n)
    OBVIOUS
  <2>9. m \in Seq(S) /\ Len(m) <= Len(T) /\ \A k \in 1..Len(m) : m[k] = T[k]
    BY <2>6, <2>7, <2>8
  <2>10. /\ con'.net = <<>> \o m /\ con'.due = <<>> /\ con'.state = con.state /\ con'.ev = con.ev
         /\ con'.inbuf = con.inbuf /\ con'.cur = con.cur /\ con'.queue = con.queue
    BY <1>1, <2>1, <2>4, <2>5, <2>8 DEF ConTyped, ConFields
  <2>11. <<>> \o m = m
    BY <2>9, ConcatEmptySeq
  <2>12. Follows(<<>>, <<>>, m, T)
    BY <2>6, <2>9, NoneFollows
  <2>13. Answered(con', r)
    <3>1. con.cur.toks = <<>> /\ con.inbuf = <<>> /\ con.state = "READING_FIRSTLINE" /\ con.cur.chunked = FALSE
      BY <2>3 DEF Unanswered
    <3>2. Len(<<>>) = 0
      OBVIOUS
    <3>3. Place(con'.state, 0, con'.cur, r)
      BY <2>10, <3>1 DEF Place
    <3> QED
      BY <2>5, <2>10, <2>11, <2>12, <3>1, <3>2, <3>3 DEF Answered
  <2>14. ReadingOne(con')
    BY <2>2, <2>10, <2>13 DEF ReadingOne
  <2> QED
    BY <1>1, <2>2, <2>10, <2>14, ReadingStep
<1>3. CASE \/ con' = [con EXCEPT !.peer = "fin", !.due = <<>>]
           \/ con' = [con EXCEPT !.peer = "rst", !.due = <<>>, !.net = <<>>]
  <2>1. /\ con'.due = <<>> /\ con'.state = con.state /\ con'.ev = con.ev /\ con'.inbuf = con.inbuf /\ con'.cur = con.cur
        /\ con'.queue = con.queue /\ (con'.net = con.net \/ con'.net = <<>>)
    BY <1>1, <1>3 DEF ConTyped, ConFields
  <2>2. CASE con.state \notin ReadStates
    <3>1. Clear(con') /\ con'.state \notin ReadStates
      BY <2>1, <2>2 DEF StreamInv, Incoming, Clear
    <3> QED
      BY <1>1, <3>1, ClearStep, HistoryStays
  <2>3. CASE con.state \in ReadStates
    <3>1. ReadingOne(con)
      BY <2>3 DEF StreamInv, Incoming
    <3>2. ASSUME Unanswered(con)
          PROVE  ReadingOne(con')
      <4>1. Unanswered(con')
        BY <2>1, <3>2 DEF Unanswered
      <4> QED
        BY <2>1, <3>1, <4>1 DEF ReadingOne
    <3>3. ASSUME NEW r \in Responses, Answered(con, r)
          PROVE  ReadingOne(con')
      <4>1. Follows(con'.cur.toks, con'.inbuf, con'.net, Hc!Tokens(r, Head(con'.queue)))
        BY <2>1, <3>3, Lost DEF Answered
      <4>2. Answered(con', r)
        BY <2>1, <3>3, <4>1 DEF Answered
      <4> QED
        BY <2>1, <3>1, <4>2 DEF ReadingOne
    <3>4. ReadingOne(con')
      <4>1. Unanswered(con) \/ \E r \in Responses : Answered(con, r)
        BY <3>1 DEF ReadingOne
      <4> QED
        BY <3>2, <3>3, <4>1
    <3> QED
      BY <1>1, <2>1, <2>3, <3>4, ReadingStep
  <2> QED
    BY <2>2, <2>3
<1> QED
  BY <1>2, <1>3 DEF Hc!Break, Hc!Server

LEMMA StreamStep ==
  ASSUME ClientInv, StreamInv, NoInterim, [Hc!Next]_(Hc!vars)
  PROVE  StreamInv'
<1>1. CASE Hc!Users
  <2>1. con.state # "freed" /\ (Hc!Request \/ Hc!Free)
    BY <1>1 DEF Hc!Users
  <2> QED
    BY <2>1, StreamRequest, StreamFree
<1>2. CASE Hc!Callback
  <2>1. (con.state # "freed" /\ Hc!Request) \/ Hc!Free \/ UNCHANGED <<con, called>>
    BY <1>2 DEF Hc!Callback
  <2> QED
    BY <2>1, StreamRequest, StreamFree, StreamSame
<1>3. CASE Hc!Loop /\ ~Hc!Callback
  BY <1>3, StreamConnects, StreamCleanup, StreamWrite, StreamEventFails, StreamEof, StreamData, StreamFirstline,
     StreamHeader, StreamBody, StreamTrailer DEF Hc!Loop
<1>4. CASE Hc!Answer \/ Hc!Break
  BY <1>4, StreamAnswer, StreamBreak
<1>5. CASE UNCHANGED Hc!vars
  BY <1>5, StreamSame DEF Hc!vars
<1> QED
  BY <1>1, <1>2, <1>3, <1>4, <1>5 DEF Hc!Next

LEMMA StreamAlways ==
  Hc!Sane /\ NoInterim => (Hc!Spec => []StreamInv)
<1> SUFFICES ASSUME Hc!Sane, NoInterim
             PROVE  Hc!Spec => []StreamInv
  OBVIOUS
<1>1. Hc!Init => StreamInv
  <2> SUFFICES ASSUME Hc!Init
               PROVE  StreamInv
    OBVIOUS
  <2>1. con = [state |-> "DISCONNECTED", fd |-> FALSE, ev |-> "none", closeEv |-> FALSE, cnt |-> 0,
               queue |-> <<>>, inbuf |-> <<>>, cur |-> Hc!NewReply,
               net |-> <<>>, peer |-> "none", due |-> <<>>]
    BY DEF Hc!Init, Hc!New
  <2>2. Clear(con) /\ con.state \notin ReadStates
    BY <2>1 DEF Clear, ReadStates
  <2> QED
    BY <2>2 DEF StreamInv, Incoming, History, Hc!Init
<1>2. ClientInv /\ StreamInv /\ [Hc!Next]_(Hc!vars) => StreamInv'
  BY StreamStep
<1>3. Hc!Spec => []ClientInv
  BY ClientAlways
<1> QED
  BY <1>1, <1>2, <1>3, PTL DEF Hc!Spec

\* If the server sends no interim response, what a callback is given as the response was sent for its
\* request: nothing of an old response survives in a buffer or on a socket, on a connection that stays
\* (evhttp_connection_done()) as on one that is reset (evhttp_connection_reset()).
THEOREM ResponsesAreOwn ==
  Hc!Sane /\ NoInterim => (Hc!Spec => []Hc!OwnReply)
<1>1. StreamInv => Hc!OwnReply
  BY DEF StreamInv, History, EntryOk, Hc!OwnReply
<1> QED
  BY <1>1, StreamAlways, PTL

\* If moreover no request is HEAD, a request whose response was read to its end, by its length or in
\* chunks, does not fail (evhttp_read_body(), evhttp_read_trailer()).
THEOREM WholeResponsesCount ==
  Hc!Sane /\ NoInterim /\ NoHeads => (Hc!Spec => []Hc!WholeNotFailed)
<1> SUFFICES ASSUME Hc!Sane, NoInterim, NoHeads
             PROVE  Hc!Spec => []Hc!WholeNotFailed
  OBVIOUS
<1>1. StreamInv => Hc!WholeNotFailed
  BY DEF StreamInv, History, EntryOk, Hc!WholeNotFailed
<1>2. Hc!Spec => []StreamInv
  BY StreamAlways
<1> QED
  BY <1>1, <1>2, PTL

-----------------------------------------------------------------------------
(***************************************************************************)
(* Proofs about HttpReply.                                                 *)
(***************************************************************************)

CONSTANTS Streamed, Sizes, MaxStreams, MaxPieces, Leaves
VARIABLES rreq, phase, open, freed, outbuf, rev, cb, gone, sent, decoder

Hr == INSTANCE HttpReply WITH Requests <- Streamed, MaxReqs <- MaxStreams, req <- rreq, ev <- rev, client <- decoder

\* What evhttp_send_reply_start() and _chunk() can tell a client: no piece is empty, and no client of
\* HTTP/1.0 asks for a connection that is kept.
Streamable == /\ Hr!Sane /\ Streamed \subseteq Hr!RequestType /\ 0 \notin Sizes
              /\ \A r \in Streamed : r.minor = 0 => r.conn # "keep"

\* A set of numbers that is not empty has a smallest one.
LEMMA SmallestOf ==
  ASSUME NEW S, S \subseteq Nat, S # {}
  PROVE  \E m \in S : \A k \in S : m <= k
<1> DEFINE R == OpToRel(<, Nat)
<1>1. IsWellFoundedOn(R, Nat)
  BY NatLessThanWellFounded
<1>2. \A x, y \in Nat : y < x => <<y, x>> \in R
  BY DEF OpToRel
<1> HIDE DEF R
<1>3. PICK m \in S : \A k \in S : ~(<<k, m>> \in R)
  BY <1>1, WFMin
<1>4. ASSUME NEW k \in S
      PROVE  m <= k
  <2>1. m \in Nat /\ k \in Nat /\ ~(k < m)
    BY <1>2, <1>3
  <2> QED
    BY <2>1
<1> QED
  BY <1>4

-----------------------------------------------------------------------------
(* The bytes of a reply, piece by piece.                                   *)

Ones(n) == [i \in 1..n |-> i]
RunStep(p, f, k) == IF k = 0 THEN <<>> ELSE f[k - 1] \o [i \in 1..p[k] |-> i]
BytesRun(p) == LET f[k \in 0..Len(p)] == IF k = 0 THEN <<>> ELSE f[k - 1] \o [i \in 1..p[k] |-> i] IN f
IsRun(f, p, n) == f = [k \in 0..n |-> RunStep(p, f, k)]

LEMMA RunExists ==
  ASSUME NEW p \in Seq(Nat)
  PROVE  \E f : IsRun(f, p, Len(p))
<1> DEFINE Bad == {n \in Nat : ~ \E f : IsRun(f, p, n)}
<1>1. Bad = {}
  <2> SUFFICES ASSUME Bad # {}
               PROVE  FALSE
    OBVIOUS
  <2>1. PICK n \in Bad : \A k \in Bad : n <= k
    <3>1. Bad \subseteq Nat
      OBVIOUS
    <3> HIDE DEF Bad
    <3> QED
      BY <3>1, SmallestOf
  <2>2. n \in Nat /\ ~ \E f : IsRun(f, p, n)
    OBVIOUS
  <2>3. CASE n = 0
    <3>1. PICK f : f = [k \in 0..0 |-> <<>>]
      OBVIOUS
    <3>2. IsRun(f, p, 0)
      <4>1. \A k \in 0..0 : RunStep(p, f, k) = <<>>
        BY DEF RunStep
      <4> QED
        BY <3>1, <4>1 DEF IsRun
    <3> QED
      BY <2>2, <2>3, <3>2
  <2>4. CASE n # 0
    <3>1. n - 1 \in Nat /\ ~(n <= n - 1)
      BY <2>2, <2>4
    <3>2. n - 1 \notin Bad
      <4> HIDE DEF Bad
      <4> QED
        BY <2>1, <3>1
    <3>3. PICK g : IsRun(g, p, n - 1)
      BY <3>1, <3>2
    <3>4. PICK f : f = [k \in 0..n |-> RunStep(p, g, k)]
      OBVIOUS
    <3>5. ASSUME NEW k \in 0..n
          PROVE  RunStep(p, f, k) = RunStep(p, g, k)
      <4>1. CASE k = 0
        BY <4>1 DEF RunStep
      <4>2. CASE k # 0
        <5>1. k - 1 \in 0..(n - 1) /\ k - 1 \in 0..n
          BY <2>2, <4>2
        <5>2. g[k - 1] = RunStep(p, g, k - 1)
          BY <3>3, <5>1 DEF IsRun
        <5>3. f[k - 1] = RunStep(p, g, k - 1)
          BY <3>4, <5>1
        <5> QED
          BY <5>2, <5>3 DEF RunStep
      <4> QED
        BY <4>1, <4>2
    <3>6. IsRun(f, p, n)
      BY <3>4, <3>5 DEF IsRun
    <3> QED
      BY <2>2, <3>6
  <2> QED
    BY <2>3, <2>4
<1>2. PICK n \in Nat : n = Len(p)
  OBVIOUS
<1>3. n \notin Bad
  BY <1>1
<1> QED
  BY <1>2, <1>3

\* The function in the definition of Bytes.
LEMMA RunIs ==
  ASSUME NEW p \in Seq(Nat), NEW f, f = BytesRun(p)
  PROVE  IsRun(f, p, Len(p))
<1>1. PICK g : IsRun(g, p, Len(p))
  BY RunExists
<1>2. g = [k \in 0..Len(p) |-> IF k = 0 THEN <<>> ELSE g[k - 1] \o [i \in 1..p[k] |-> i]]
  BY <1>1 DEF IsRun, RunStep
<1>3. f = [k \in 0..Len(p) |-> IF k = 0 THEN <<>> ELSE f[k - 1] \o [i \in 1..p[k] |-> i]]
  BY <1>2 DEF BytesRun
<1> QED
  BY <1>3 DEF IsRun, RunStep

LEMMA BytesUnfold ==
  ASSUME NEW p
  PROVE  Hr!Bytes(p) = BytesRun(p)[Len(p)]
BY DEF Hr!Bytes, BytesRun

\* What it returns.
RunTyped(f, p, n) == /\ DOMAIN f = 0..n /\ f[0] = <<>>
                     /\ \A k \in 0..n : f[k] \in Seq(Nat)
                     /\ \A k \in 0..(n - 1) : f[k + 1] = f[k] \o Ones(p[k + 1])

LEMMA OnesIs ==
  ASSUME NEW n \in Nat
  PROVE  Ones(n) \in Seq(Nat) /\ Len(Ones(n)) = n /\ \A i \in 1..n : Ones(n)[i] = i
BY DEF Ones

LEMMA RunReturns ==
  ASSUME NEW p \in Seq(Nat), NEW n \in Nat, n = Len(p), NEW f, f = BytesRun(p)
  PROVE  RunTyped(f, p, n)
<1>1. f = [k \in 0..n |-> RunStep(p, f, k)]
  BY RunIs DEF IsRun
<1>2. DOMAIN f = 0..n
  BY <1>1
<1>3. f[0] = <<>>
  <2>1. 0 \in 0..n /\ RunStep(p, f, 0) = <<>>
    BY DEF RunStep
  <2> QED
    BY <1>1, <2>1
<1>4. ASSUME NEW k \in 0..(n - 1)
      PROVE  f[k + 1] = f[k] \o Ones(p[k + 1])
  <2>1. k + 1 \in 0..n /\ k + 1 # 0 /\ (k + 1) - 1 = k
    OBVIOUS
  <2>2. f[k + 1] = RunStep(p, f, k + 1)
    BY <1>1, <2>1
  <2> QED
    BY <2>1, <2>2 DEF RunStep, Ones
<1> DEFINE Bad == {k \in 0..n : f[k] \notin Seq(Nat)}
<1>5. Bad = {}
  <2> SUFFICES ASSUME Bad # {}
               PROVE  FALSE
    OBVIOUS
  <2>1. PICK k \in Bad : \A j \in Bad : k <= j
    <3>1. Bad \subseteq Nat
      OBVIOUS
    <3> HIDE DEF Bad
    <3> QED
      BY <3>1, SmallestOf
  <2>2. k \in 0..n /\ f[k] \notin Seq(Nat)
    OBVIOUS
  <2>3. k # 0
    <3>1. <<>> \in Seq(Nat)
      OBVIOUS
    <3> QED
      BY <1>3, <2>2, <3>1
  <2>4. k - 1 \in 0..(n - 1) /\ k - 1 \in 0..n /\ ~(k <= k - 1) /\ (k - 1) + 1 = k
    BY <2>2, <2>3
  <2>5. k - 1 \notin Bad
    <3> HIDE DEF Bad
    <3> QED
      BY <2>1, <2>4
  <2>6. f[k - 1] \in Seq(Nat)
    BY <2>4, <2>5
  <2>7. Ones(p[k]) \in Seq(Nat)
    <3>1. p[k] \in Nat
      BY <2>2, <2>3
    <3> QED
      BY <3>1, OnesIs
  <2>8. f[k] = f[k - 1] \o Ones(p[k])
    BY <1>4, <2>4
  <2> QED
    BY <2>2, <2>6, <2>7, <2>8
<1>6. \A k \in 0..n : f[k] \in Seq(Nat)
  BY <1>5
<1> QED
  BY <1>2, <1>3, <1>4, <1>6 DEF RunTyped

\* It depends on the pieces up to its argument only.
LEMMA SameRun ==
  ASSUME NEW p \in Seq(Nat), NEW q \in Seq(Nat), NEW n \in Nat, n = Len(p), NEW m \in Nat, m = Len(q), n <= m,
         \A i \in 1..n : p[i] = q[i]
  PROVE  \A k \in 0..n : BytesRun(p)[k] = BytesRun(q)[k]
<1>1. PICK f : f = BytesRun(p)
  OBVIOUS
<1>2. PICK g : g = BytesRun(q)
  OBVIOUS
<1>3. RunTyped(f, p, n) /\ RunTyped(g, q, m)
  BY <1>1, <1>2, RunReturns
<1> DEFINE Bad == {k \in 0..n : f[k] # g[k]}
<1>4. Bad = {}
  <2> SUFFICES ASSUME Bad # {}
               PROVE  FALSE
    OBVIOUS
  <2>1. PICK k \in Bad : \A j \in Bad : k <= j
    <3>1. Bad \subseteq Nat
      OBVIOUS
    <3> HIDE DEF Bad
    <3> QED
      BY <3>1, SmallestOf
  <2>2. k \in 0..n /\ f[k] # g[k]
    OBVIOUS
  <2>3. k # 0
    BY <1>3, <2>2 DEF RunTyped
  <2>4. k - 1 \in 0..(n - 1) /\ k - 1 \in 0..(m - 1) /\ ~(k <= k - 1) /\ (k - 1) + 1 = k /\ k \in 1..n
    BY <2>2, <2>3
  <2>5. k - 1 \in 0..n /\ k - 1 \notin Bad
    <3> HIDE DEF Bad
    <3> QED
      BY <2>1, <2>4
  <2>6. f[k - 1] = g[k - 1]
    BY <2>5
  <2>7. f[k] = f[k - 1] \o Ones(p[k]) /\ g[k] = g[k - 1] \o Ones(q[k])
    BY <1>3, <2>4 DEF RunTyped
  <2> QED
    BY <2>2, <2>4, <2>6, <2>7
<1> QED
  BY <1>1, <1>2, <1>4

\* One more piece.
PieceSeq(p, n) == p \in Seq(Nat) /\ n = Len(p)
Added(q, p, x) == q = Append(p, x)

LEMMA RunMore ==
  ASSUME NEW p, NEW n \in Nat, PieceSeq(p, n), NEW x \in Nat, NEW q, Added(q, p, x)
  PROVE  /\ q \in Seq(Nat) /\ Len(q) = n + 1
         /\ \A k \in 0..n : BytesRun(q)[k] = BytesRun(p)[k]
         /\ BytesRun(q)[n + 1] = BytesRun(p)[n] \o Ones(x)
<1>0. p \in Seq(Nat) /\ n = Len(p) /\ q = Append(p, x)
  BY DEF PieceSeq, Added
<1>1. q \in Seq(Nat) /\ Len(q) = n + 1 /\ (\A i \in 1..n : q[i] = p[i]) /\ q[n + 1] = x
  BY <1>0
<1>2. n + 1 \in Nat /\ n <= n + 1
  OBVIOUS
<1>3. \A k \in 0..n : BytesRun(q)[k] = BytesRun(p)[k]
  BY <1>0, <1>1, <1>2, SameRun
<1>4. RunTyped(BytesRun(q), q, n + 1)
  BY <1>1, <1>2, RunReturns
<1>5. n \in 0..((n + 1) - 1) /\ n \in 0..n
  OBVIOUS
<1>6. BytesRun(q)[n + 1] = BytesRun(q)[n] \o Ones(q[n + 1])
  BY <1>4, <1>5 DEF RunTyped
<1> QED
  BY <1>1, <1>3, <1>5, <1>6

-----------------------------------------------------------------------------
(* What the output holds of a reply in chunks.                             *)

OutToken == [k : {"head"}, chunked : BOOLEAN, length : BOOLEAN, n : {0}] \cup [k : {"size", "byte", "crlf"}, n : Nat]

PieceSizes(p, m) == \A i \in 1..m : p[i] \in Nat
OneMore(p2, p, m, x) == p2[m + 1] = x /\ \A i \in 1..m : p2[i] = p[i]
Plus(l2, l, n) == l2 = l + n

\* The first l tokens stay, or move by t.
Kept(b2, b, l) == \A i \in 1..l : b2[i] = b[i]
Shifted(b2, b, t, l) == \A i \in (t + 1)..l : b2[i - t] = b[i]

\* A chunk of n bytes behind the first o tokens of b.
Block(b, o, n) == /\ b[o + 1] = Hr!Size(n) /\ b[o + n + 2] = Hr!Crlf
                  /\ \A i \in 1..n : b[o + 1 + i] = Hr!Byte(i)

\* The last chunk.
Closing(b, o) == b[o + 1] = Hr!Size(0) /\ b[o + 2] = Hr!Crlf

\* Behind the first d tokens of b, of l tokens, are the pieces of p, of m pieces, after the first k,
\* and the end of the reply.
Offs(off, b, l, d, p, m, k, e) ==
  /\ off \in [k..m -> 0..l] /\ off[k] = d /\ \A i, j \in k..m : i <= j => off[i] <= off[j]
  /\ \A j \in k..(m - 1) : off[j + 1] = off[j] + p[j + 1] + 2 /\ Block(b, off[j], p[j + 1])
  /\ l = off[m] + e /\ (e = 2 => Closing(b, off[m]))
Blocks(b, l, d, p, m, k, e) == \E off : Offs(off, b, l, d, p, m, k, e)

LEMMA TokensIs ==
  /\ \A n \in Nat : Hr!Size(n) \in OutToken /\ Hr!Byte(n) \in OutToken
  /\ Hr!Crlf \in OutToken /\ \A c, x \in BOOLEAN : Hr!Heading(c, x) \in OutToken
BY DEF OutToken, Hr!Size, Hr!Byte, Hr!Crlf, Hr!Heading

\* Nothing is behind the last token,
LEMMA NoBlocks ==
  ASSUME NEW b, NEW l \in Nat, NEW p, NEW m \in Nat
  PROVE  Blocks(b, l, l, p, m, m, 0)
<1>1. PICK off : off = [j \in m..m |-> l]
  OBVIOUS
<1>2. off \in [m..m -> 0..l] /\ off[m] = l
  BY <1>1
<1>3. \A j \in m..(m - 1) : FALSE
  OBVIOUS
<1> QED
  BY <1>2, <1>3 DEF Blocks, Offs

\* more tokens do not move those that are there,
LEMMA BlockStays ==
  ASSUME NEW b, NEW l \in Nat, NEW o \in Nat, NEW n \in Nat, o + n + 2 <= l, Block(b, o, n),
         NEW b2, Kept(b2, b, l)
  PROVE  Block(b2, o, n)
<1>1. o + 1 \in 1..l /\ o + n + 2 \in 1..l /\ \A i \in 1..n : o + 1 + i \in 1..l
  OBVIOUS
<1> QED
  BY <1>1 DEF Block, Kept

\* and a token that is written moves the others.
LEMMA BlockMoves ==
  ASSUME NEW b, NEW o \in Nat, NEW n \in Nat, NEW t \in Nat, t <= o, Block(b, o, n),
         NEW b2, NEW l \in Nat, o + n + 2 <= l, Shifted(b2, b, t, l)
  PROVE  Block(b2, o - t, n)
<1>1. /\ o + 1 \in (t + 1)..l /\ (o + 1) - t = (o - t) + 1
      /\ o + n + 2 \in (t + 1)..l /\ (o + n + 2) - t = (o - t) + n + 2
  OBVIOUS
<1>2. \A i \in 1..n : o + 1 + i \in (t + 1)..l /\ (o + 1 + i) - t = (o - t) + 1 + i
  OBVIOUS
<1>3. b2[(o - t) + 1] = Hr!Size(n) /\ b2[(o - t) + n + 2] = Hr!Crlf
  BY <1>1 DEF Block, Shifted
<1>4. \A i \in 1..n : b2[(o - t) + 1 + i] = Hr!Byte(i)
  BY <1>2 DEF Block, Shifted
<1> QED
  BY <1>3, <1>4 DEF Block

LEMMA OffsEnd ==
  ASSUME NEW off, NEW b, NEW l \in Nat, NEW d \in Nat, NEW p, NEW m \in Nat, NEW k \in 0..m, NEW e \in Nat,
         Offs(off, b, l, d, p, m, k, e)
  PROVE  /\ off \in [k..m -> 0..l] /\ off[k] = d /\ off[m] \in 0..l /\ d \in 0..l
         /\ l = off[m] + e
<1>1. off \in [k..m -> 0..l] /\ off[k] = d /\ l = off[m] + e
  BY DEF Offs
<1>2. m \in k..m /\ k \in k..m
  OBVIOUS
<1>3. off[m] \in 0..l /\ off[k] \in 0..l
  BY <1>1, <1>2
<1> QED
  BY <1>1, <1>3

\* The chunk of one piece.
LEMMA OffsAt ==
  ASSUME NEW off, NEW b, NEW l \in Nat, NEW d \in Nat, NEW p, NEW m \in Nat, PieceSizes(p, m), NEW k \in 0..m,
         NEW e \in Nat, Offs(off, b, l, d, p, m, k, e), NEW j \in k..(m - 1)
  PROVE  /\ off[j] \in Nat /\ p[j + 1] \in Nat /\ off[j + 1] = off[j] + p[j + 1] + 2 /\ off[j + 1] <= l
         /\ Block(b, off[j], p[j + 1])
<1>1. j \in k..m /\ j + 1 \in k..m /\ j + 1 \in 1..m
  OBVIOUS
<1>2. off \in [k..m -> 0..l] /\ off[j + 1] = off[j] + p[j + 1] + 2 /\ Block(b, off[j], p[j + 1])
  BY DEF Offs
<1>3. off[j] \in 0..l /\ off[j + 1] \in 0..l
  BY <1>1, <1>2
<1>4. p[j + 1] \in Nat
  BY <1>1 DEF PieceSizes
<1> QED
  BY <1>2, <1>3, <1>4

LEMMA BlocksMore ==
  ASSUME NEW b, NEW l \in Nat, NEW d \in Nat, NEW p, NEW m \in Nat, PieceSizes(p, m), NEW k \in 0..m,
         Blocks(b, l, d, p, m, k, 0), NEW x \in Nat, NEW p2, OneMore(p2, p, m, x),
         NEW b2, NEW l2 \in Nat, Plus(l2, l, x + 2), Kept(b2, b, l), Block(b2, l, x)
  PROVE  Blocks(b2, l2, d, p2, m + 1, k, 0)
<1>1. PICK off : Offs(off, b, l, d, p, m, k, 0)
  BY DEF Blocks
<1>2. PICK g : g = [j \in k..(m + 1) |-> IF j = m + 1 THEN l2 ELSE off[j]]
  OBVIOUS
<1>3. off \in [k..m -> 0..l] /\ off[k] = d /\ off[m] = l
  <2>1. /\ off \in [k..m -> 0..l] /\ off[k] = d /\ off[m] \in 0..l /\ d \in 0..l
        /\ l = off[m] + 0
    BY <1>1, OffsEnd
  <2> QED
    BY <2>1
<1>4. /\ DOMAIN g = k..(m + 1) /\ g[m + 1] = l2
      /\ \A j \in k..m : g[j] = off[j] /\ g[j] \in 0..l /\ g[j] \in 0..l2
  <2>1. m + 1 \in k..(m + 1) /\ DOMAIN g = k..(m + 1)
    BY <1>2
  <2>2. g[m + 1] = l2
    BY <1>2, <2>1
  <2>3. ASSUME NEW j \in k..m
        PROVE  g[j] = off[j] /\ off[j] \in 0..l
    <3>1. j \in k..(m + 1) /\ j # m + 1
      OBVIOUS
    <3> QED
      BY <1>2, <1>3, <3>1
  <2>4. l2 = l + (x + 2)
    BY DEF Plus
  <2>5. \A j \in 0..l : j \in 0..l2
    BY <2>4
  <2> QED
    BY <2>1, <2>2, <2>3, <2>5
<1>5. g \in [k..(m + 1) -> 0..l2] /\ g[k] = d
  <2>1. \A j \in k..(m + 1) : g[j] \in 0..l2
    BY <1>4
  <2>2. g = [j \in k..(m + 1) |-> g[j]]
    BY <1>2
  <2>3. k \in k..m
    OBVIOUS
  <2> QED
    BY <1>3, <1>4, <2>1, <2>2, <2>3
<1>6. ASSUME NEW i \in k..(m + 1), NEW j \in k..(m + 1), i <= j
      PROVE  g[i] <= g[j]
  <2>1. CASE j = m + 1
    BY <1>4, <1>5, <2>1
  <2>2. CASE j # m + 1
    <3>1. i \in k..m /\ j \in k..m
      BY <1>6, <2>2
    <3>2. off[i] <= off[j]
      BY <1>1, <1>6, <3>1 DEF Offs
    <3> QED
      BY <1>4, <3>1, <3>2
  <2> QED
    BY <2>1, <2>2
<1>7. ASSUME NEW j \in k..m
      PROVE  g[j + 1] = g[j] + p2[j + 1] + 2 /\ Block(b2, g[j], p2[j + 1])
  <2>1. CASE j = m
    <3>1. g[j] = l /\ g[j + 1] = l2 /\ p2[j + 1] = x
      BY <1>3, <1>4, <2>1 DEF OneMore
    <3>2. l2 = l + x + 2
      BY DEF Plus
    <3>3. Block(b2, g[j], p2[j + 1])
      BY <3>1
    <3> QED
      BY <3>1, <3>2, <3>3
  <2>2. CASE j # m
    <3>1. j \in k..(m - 1) /\ j + 1 \in k..m /\ j + 1 \in 1..m
      BY <2>2
    <3>2. /\ off[j] \in Nat /\ p[j + 1] \in Nat /\ off[j + 1] = off[j] + p[j + 1] + 2 /\ off[j + 1] <= l
          /\ Block(b, off[j], p[j + 1])
      BY <1>1, <3>1, OffsAt
    <3>3. off[j] + p[j + 1] + 2 <= l
      BY <3>2
    <3>4. Block(b2, off[j], p[j + 1])
      BY <3>2, <3>3, BlockStays
    <3>5. g[j] = off[j] /\ g[j + 1] = off[j + 1] /\ p2[j + 1] = p[j + 1]
      BY <1>4, <3>1 DEF OneMore
    <3> QED
      BY <3>2, <3>4, <3>5
  <2> QED
    BY <2>1, <2>2
<1>8. (m + 1) - 1 = m /\ l2 = g[m + 1] + 0
  BY <1>4
<1>9. \A j \in k..((m + 1) - 1) : g[j + 1] = g[j] + p2[j + 1] + 2 /\ Block(b2, g[j], p2[j + 1])
  BY <1>7, <1>8
<1>10. Offs(g, b2, l2, d, p2, m + 1, k, 0)
  BY <1>5, <1>6, <1>8, <1>9 DEF Offs
<1> QED
  BY <1>10 DEF Blocks

LEMMA BlocksEnd ==
  ASSUME NEW b, NEW l \in Nat, NEW d \in Nat, NEW p, NEW m \in Nat, PieceSizes(p, m), NEW k \in 0..m,
         Blocks(b, l, d, p, m, k, 0),
         NEW b2, NEW l2 \in Nat, Plus(l2, l, 2), Kept(b2, b, l), Closing(b2, l)
  PROVE  Blocks(b2, l2, d, p, m, k, 2)
<1>1. PICK off : Offs(off, b, l, d, p, m, k, 0)
  BY DEF Blocks
<1>2. off \in [k..m -> 0..l] /\ off[k] = d /\ off[m] = l
  <2>1. /\ off \in [k..m -> 0..l] /\ off[k] = d /\ off[m] \in 0..l /\ d \in 0..l
        /\ l = off[m] + 0
    BY <1>1, OffsEnd
  <2> QED
    BY <2>1
<1>3. off \in [k..m -> 0..l2] /\ l2 = off[m] + 2
  <2>1. l2 = l + 2
    BY DEF Plus
  <2>2. \A i \in 0..l : i \in 0..l2
    BY <2>1
  <2> QED
    BY <1>2, <2>1, <2>2
<1>4. ASSUME NEW j \in k..(m - 1)
      PROVE  off[j + 1] = off[j] + p[j + 1] + 2 /\ Block(b2, off[j], p[j + 1])
  <2>1. /\ off[j] \in Nat /\ p[j + 1] \in Nat /\ off[j + 1] = off[j] + p[j + 1] + 2 /\ off[j + 1] <= l
        /\ Block(b, off[j], p[j + 1])
    BY <1>1, OffsAt
  <2>2. off[j] + p[j + 1] + 2 <= l
    BY <2>1
  <2> QED
    BY <2>1, <2>2, BlockStays
<1>5. \A i, j \in k..m : i <= j => off[i] <= off[j]
  BY <1>1 DEF Offs
<1>6. Closing(b2, off[m])
  BY <1>2
<1>7. Offs(off, b2, l2, d, p, m, k, 2)
  BY <1>2, <1>3, <1>4, <1>5, <1>6 DEF Offs
<1> QED
  BY <1>7 DEF Blocks

LEMMA BlocksTail ==
  ASSUME NEW b, NEW l \in Nat, NEW d \in Nat \ {0}, NEW p, NEW m \in Nat, PieceSizes(p, m), NEW k \in 0..m,
         NEW e \in Nat, Blocks(b, l, d, p, m, k, e),
         NEW b2, Shifted(b2, b, 1, l)
  PROVE  Blocks(b2, l - 1, d - 1, p, m, k, e)
<1>1. PICK off : Offs(off, b, l, d, p, m, k, e)
  BY DEF Blocks
<1>2. off \in [k..m -> 0..l] /\ off[k] = d /\ off[m] \in 0..l /\ d \in 0..l /\ l = off[m] + e
  BY <1>1, OffsEnd
<1>3. PICK g : g = [j \in k..m |-> off[j] - 1]
  OBVIOUS
<1>4. \A j \in k..m : off[j] \in 1..l
  <2>1. \A j \in k..m : k \in k..m /\ k <= j
    OBVIOUS
  <2>2. \A j \in k..m : off[k] <= off[j]
    BY <1>1, <2>1 DEF Offs
  <2> QED
    BY <1>2, <2>2
<1>5. \A j \in k..m : g[j] = off[j] - 1 /\ g[j] \in 0..(l - 1)
  BY <1>3, <1>4
<1>6. g \in [k..m -> 0..(l - 1)]
  BY <1>3, <1>5
<1>7. k \in k..m /\ m \in k..m
  OBVIOUS
<1>8. \A i, j \in k..m : i <= j => g[i] <= g[j]
  <2>1. \A i, j \in k..m : i <= j => off[i] <= off[j]
    BY <1>1 DEF Offs
  <2> QED
    BY <1>4, <1>5, <2>1
<1>9. ASSUME NEW j \in k..(m - 1)
      PROVE  g[j + 1] = g[j] + p[j + 1] + 2 /\ Block(b2, g[j], p[j + 1])
  <2>1. /\ off[j] \in Nat /\ p[j + 1] \in Nat /\ off[j + 1] = off[j] + p[j + 1] + 2 /\ off[j + 1] <= l
        /\ Block(b, off[j], p[j + 1])
    BY <1>1, OffsAt
  <2>2. off[j] + p[j + 1] + 2 <= l
    BY <2>1
  <2>3. j \in k..m /\ j + 1 \in k..m
    OBVIOUS
  <2>4. 1 <= off[j] /\ 1 \in Nat /\ 1 + 1 = 2
    BY <1>4, <2>3
  <2>5. Block(b2, off[j] - 1, p[j + 1])
    BY <2>1, <2>2, <2>4, BlockMoves
  <2> QED
    BY <1>5, <2>1, <2>3, <2>5
<1>10. l - 1 = g[m] + e
  BY <1>2, <1>4, <1>5, <1>7
<1>11. ASSUME e = 2
       PROVE  Closing(b2, g[m])
  <2>1. l = off[m] + 2 /\ off[m] \in 1..l /\ g[m] = off[m] - 1
    BY <1>2, <1>4, <1>5, <1>7, <1>11
  <2>2. Closing(b, off[m])
    BY <1>1, <1>11 DEF Offs
  <2>3. off[m] + 1 \in 2..l /\ off[m] + 2 \in 2..l /\ (off[m] + 1) - 1 = g[m] + 1 /\ (off[m] + 2) - 1 = g[m] + 2
    BY <2>1
  <2>4. b2[g[m] + 1] = Hr!Size(0) /\ b2[g[m] + 2] = Hr!Crlf
    BY <2>2, <2>3 DEF Closing, Shifted
  <2> QED
    BY <2>1, <2>4 DEF Closing
<1>12. g[k] = d - 1
  BY <1>2, <1>5, <1>7
<1>14. Offs(g, b2, l - 1, d - 1, p, m, k, e)
  BY <1>6, <1>8, <1>9, <1>10, <1>11, <1>12 DEF Offs
<1> QED
  BY <1>14 DEF Blocks

LEMMA BlocksNext ==
  ASSUME NEW b, NEW l \in Nat, NEW d \in Nat, NEW p, NEW m \in Nat, PieceSizes(p, m), NEW k \in 0..(m - 1),
         NEW e \in Nat, Blocks(b, l, d, p, m, k, e)
  PROVE  /\ p[k + 1] \in Nat /\ Block(b, d, p[k + 1]) /\ d + p[k + 1] + 2 <= l
         /\ Blocks(b, l, d + p[k + 1] + 2, p, m, k + 1, e)
<1>1. PICK off : Offs(off, b, l, d, p, m, k, e)
  BY DEF Blocks
<1>2. k \in 0..m /\ k \in k..(m - 1)
  OBVIOUS
<1>3. off \in [k..m -> 0..l] /\ off[k] = d
  BY <1>1 DEF Offs
<1>4. /\ off[k] \in Nat /\ p[k + 1] \in Nat /\ off[k + 1] = off[k] + p[k + 1] + 2 /\ off[k + 1] <= l
      /\ Block(b, off[k], p[k + 1])
  BY <1>1, <1>2, OffsAt
<1>5. PICK g : g = [j \in (k + 1)..m |-> off[j]]
  OBVIOUS
<1>6. \A j \in (k + 1)..m : j \in k..m /\ g[j] = off[j] /\ g[j] \in 0..l
  BY <1>3, <1>5
<1>7. g \in [(k + 1)..m -> 0..l]
  BY <1>5, <1>6
<1>8. k + 1 \in (k + 1)..m /\ m \in (k + 1)..m
  OBVIOUS
<1>9. \A i, j \in (k + 1)..m : i <= j => g[i] <= g[j]
  <2>1. \A i, j \in k..m : i <= j => off[i] <= off[j]
    BY <1>1 DEF Offs
  <2> QED
    BY <1>6, <2>1
<1>10. \A j \in (k + 1)..(m - 1) : g[j + 1] = g[j] + p[j + 1] + 2 /\ Block(b, g[j], p[j + 1])
  <2>1. \A j \in k..(m - 1) : off[j + 1] = off[j] + p[j + 1] + 2 /\ Block(b, off[j], p[j + 1])
    BY <1>1 DEF Offs
  <2>2. \A j \in (k + 1)..(m - 1) : j \in k..(m - 1) /\ j \in (k + 1)..m /\ j + 1 \in (k + 1)..m
    OBVIOUS
  <2> QED
    BY <1>6, <2>1, <2>2
<1>11. l = g[m] + e /\ (e = 2 => Closing(b, g[m])) /\ g[k + 1] = d + p[k + 1] + 2
  <2>1. l = off[m] + e /\ (e = 2 => Closing(b, off[m]))
    BY <1>1 DEF Offs
  <2>2. g[m] = off[m] /\ g[k + 1] = off[k + 1]
    BY <1>6, <1>8
  <2> QED
    BY <1>3, <1>4, <2>1, <2>2
<1>12. Offs(g, b, l, d + p[k + 1] + 2, p, m, k + 1, e)
  BY <1>7, <1>9, <1>10, <1>11 DEF Offs
<1> QED
  BY <1>3, <1>4, <1>12 DEF Blocks

LEMMA BlocksLast ==
  ASSUME NEW b, NEW l \in Nat, NEW d \in Nat, NEW p, NEW m \in Nat, NEW e \in Nat, Blocks(b, l, d, p, m, m, e)
  PROVE  l = d + e /\ (e = 2 => Closing(b, d))
<1>1. PICK off : Offs(off, b, l, d, p, m, m, e)
  BY DEF Blocks
<1>2. off[m] = d /\ l = off[m] + e
  BY <1>1 DEF Offs
<1>3. e = 2 => Closing(b, off[m])
  BY <1>1 DEF Offs
<1> QED
  BY <1>2, <1>3

LEMMA BlocksLength ==
  ASSUME NEW b, NEW l \in Nat, NEW d \in Nat, NEW p, NEW m \in Nat, NEW k \in 0..m, NEW e \in Nat,
         Blocks(b, l, d, p, m, k, e)
  PROVE  d + e <= l
<1>1. PICK off : Offs(off, b, l, d, p, m, k, e)
  BY DEF Blocks
<1>2. /\ off \in [k..m -> 0..l] /\ off[k] = d /\ off[m] \in 0..l /\ d \in 0..l
      /\ l = off[m] + e
  BY <1>1, OffsEnd
<1>3. off[k] <= off[m]
  <2>1. k \in k..m /\ m \in k..m /\ k <= m
    OBVIOUS
  <2> QED
    BY <1>1, <2>1 DEF Offs
<1> QED
  BY <1>2, <1>3

-----------------------------------------------------------------------------
(* What the client does with the first token.                              *)

Modes == {"head", "size", "data", "crlf", "last", "eof"}
ClientIs(c) == c \in [mode : Modes, left : Nat, body : Seq(Nat), bodies : Seq(Seq(Nat)), lost : {FALSE}]

LEMMA TakeHead ==
  ASSUME NEW c, c.mode = "head", NEW x \in BOOLEAN, NEW t, t = Hr!Heading(x, FALSE)
  PROVE  Hr!ClientTake(c, t) = [c EXCEPT !.mode = IF x THEN "size" ELSE "eof"]
<1>1. t.k = "head" /\ t.chunked = x /\ t.length = FALSE
  BY DEF Hr!Heading
<1>2. CASE x
  BY <1>1, <1>2 DEF Hr!ClientTake
<1>3. CASE ~x
  BY <1>1, <1>3 DEF Hr!ClientTake
<1> QED
  BY <1>2, <1>3

LEMMA TakeSize ==
  ASSUME NEW c, c.mode = "size", NEW n \in Nat, NEW t, t = Hr!Size(n)
  PROVE  Hr!ClientTake(c, t) = [c EXCEPT !.mode = IF n = 0 THEN "last" ELSE "data", !.left = n]
<1>1. t.k = "size" /\ t.n = n
  BY DEF Hr!Size
<1> QED
  BY <1>1 DEF Hr!ClientTake

LEMMA TakeByte ==
  ASSUME NEW c, c.mode = "data", NEW n \in Nat, NEW t, t = Hr!Byte(n)
  PROVE  Hr!ClientTake(c, t) = [c EXCEPT !.body = Append(@, n), !.left = @ - 1,
                                         !.mode = IF c.left = 1 THEN "crlf" ELSE "data"]
<1>1. t.k = "byte" /\ t.n = n
  BY DEF Hr!Byte
<1> QED
  BY <1>1 DEF Hr!ClientTake

LEMMA TakeCrlf ==
  ASSUME NEW c, c.mode = "crlf", NEW t, t = Hr!Crlf
  PROVE  Hr!ClientTake(c, t) = [c EXCEPT !.mode = "size"]
<1>1. t.k = "crlf"
  BY DEF Hr!Crlf
<1> QED
  BY <1>1 DEF Hr!ClientTake

LEMMA TakeLast ==
  ASSUME NEW c, c.mode = "last", NEW t, t = Hr!Crlf
  PROVE  Hr!ClientTake(c, t) = Hr!Complete(c)
<1>1. t.k = "crlf"
  BY DEF Hr!Crlf
<1> QED
  BY <1>1 DEF Hr!ClientTake

LEMMA TakeEof ==
  ASSUME NEW c, c.mode = "eof", NEW t
  PROVE  Hr!ClientTake(c, t) = [c EXCEPT !.body = Append(@, t.n)]
BY DEF Hr!ClientTake

-----------------------------------------------------------------------------
(* The client in a reply of chunks: c has read what came before b.         *)

Data(b, t, n) == b[t + 1] = Hr!Crlf /\ \A i \in 1..t : b[i] = Hr!Byte(n - t + i)

AtHead(c, b, l, p, m, e) == /\ c.mode = "head" /\ c.body = <<>> /\ l >= 1 /\ b[1] = Hr!Heading(TRUE, FALSE)
                            /\ Blocks(b, l, 1, p, m, 0, e)
AtSize(c, b, l, p, m, k, e) == c.mode = "size" /\ c.body = BytesRun(p)[k] /\ Blocks(b, l, 0, p, m, k, e)
InData(c, b, l, p, m, k, e) == /\ c.mode = "data" /\ k + 1 <= m /\ c.left \in 1..p[k + 1] /\ Data(b, c.left, p[k + 1])
                               /\ c.body = BytesRun(p)[k] \o Ones(p[k + 1] - c.left)
                               /\ Blocks(b, l, c.left + 1, p, m, k + 1, e)
AtCrlf(c, b, l, p, m, k, e) == c.mode = "crlf" /\ c.body = BytesRun(p)[k] /\ b[1] = Hr!Crlf /\ Blocks(b, l, 1, p, m, k, e)
AtLast(c, b, l, p, m, e) == c.mode = "last" /\ c.body = BytesRun(p)[m] /\ e = 2 /\ l = 1 /\ b[1] = Hr!Crlf

InPiece(c, b, l, p, m, k, e) == \/ AtSize(c, b, l, p, m, k, e) \/ InData(c, b, l, p, m, k, e) \/ AtCrlf(c, b, l, p, m, k, e)
InChunked(c, b, l, p, m, e) == \/ AtHead(c, b, l, p, m, e) \/ AtLast(c, b, l, p, m, e)
                              \/ \E k \in 0..m : InPiece(c, b, l, p, m, k, e)

IsPieces(p, m) == p \in Seq(Nat \ {0}) /\ m = Len(p)

LEMMA PiecesAre ==
  ASSUME NEW p, NEW m \in Nat, IsPieces(p, m)
  PROVE  /\ p \in Seq(Nat) /\ m = Len(p) /\ PieceSizes(p, m) /\ (\A i \in 1..m : p[i] \in Nat \ {0})
         /\ RunTyped(BytesRun(p), p, m)
<1>1. p \in Seq(Nat \ {0}) /\ m = Len(p)
  BY DEF IsPieces
<1>2. p \in Seq(Nat) /\ \A i \in 1..m : p[i] \in Nat \ {0}
  BY <1>1
<1>3. RunTyped(BytesRun(p), p, m)
  BY <1>1, <1>2, RunReturns
<1>4. PieceSizes(p, m)
  BY <1>2 DEF PieceSizes
<1> QED
  BY <1>1, <1>2, <1>3, <1>4

LEMMA NoOnes ==
  ASSUME NEW s \in Seq(Nat)
  PROVE  s \o Ones(0) = s
<1>1. Ones(0) = <<>>
  BY DEF Ones
<1> QED
  BY <1>1

LEMMA AppendBehind ==
  ASSUME NEW s \in Seq(Nat), NEW o \in Seq(Nat), NEW x \in Nat
  PROVE  Append(s \o o, x) = s \o Append(o, x)
OBVIOUS

LEMMA MoreOnes ==
  ASSUME NEW s \in Seq(Nat), NEW n \in Nat
  PROVE  Append(s \o Ones(n), n + 1) = s \o Ones(n + 1)
<1>1. Ones(n) \in Seq(Nat) /\ Len(Ones(n)) = n /\ \A i \in 1..n : Ones(n)[i] = i
  BY OnesIs
<1>2. Ones(n + 1) \in Seq(Nat) /\ Len(Ones(n + 1)) = n + 1 /\ \A i \in 1..(n + 1) : Ones(n + 1)[i] = i
  BY OnesIs
<1>3. Append(Ones(n), n + 1) = Ones(n + 1)
  BY <1>1, <1>2
<1>4. PICK o : o = Ones(n)
  OBVIOUS
<1>5. Append(s \o o, n + 1) = s \o Append(o, n + 1)
  <2>1. o \in Seq(Nat) /\ n + 1 \in Nat
    BY <1>1, <1>4
  <2> QED
    BY <2>1, AppendBehind
<1> QED
  BY <1>3, <1>4, <1>5

\* It takes the head,
LEMMA FromHead ==
  ASSUME NEW p, NEW m \in Nat, IsPieces(p, m), NEW e \in {0, 2}, NEW l \in Nat, NEW b, NEW c, AtHead(c, b, l, p, m, e),
         ClientIs(c), NEW b2, Shifted(b2, b, 1, l), NEW c2, c2 = Hr!ClientTake(c, b[1])
  PROVE  ClientIs(c2) /\ c2.bodies = c.bodies /\ AtSize(c2, b2, l - 1, p, m, 0, e)
<1>1. c2 = [c EXCEPT !.mode = "size"]
  BY TakeHead DEF AtHead
<1>2. ClientIs(c2) /\ c2.bodies = c.bodies /\ c2.mode = "size" /\ c2.body = c.body
  BY <1>1 DEF ClientIs, Modes
<1>3. c.body = BytesRun(p)[0]
  BY PiecesAre DEF AtHead, RunTyped
<1>4. Blocks(b2, l - 1, 1 - 1, p, m, 0, e)
  <2>1. Blocks(b, l, 1, p, m, 0, e) /\ 1 \in Nat \ {0} /\ 0 \in 0..m /\ PieceSizes(p, m) /\ e \in Nat
    BY PiecesAre DEF AtHead
  <2> QED
    BY <2>1, BlocksTail
<1> QED
  BY <1>2, <1>3, <1>4 DEF AtSize

\* the size of a chunk,
LEMMA FromSize ==
  ASSUME NEW p, NEW m \in Nat, IsPieces(p, m), NEW e \in {0, 2}, NEW l \in Nat, l >= 1, NEW b, NEW c, NEW k \in 0..m,
         AtSize(c, b, l, p, m, k, e),
         ClientIs(c), NEW b2, Shifted(b2, b, 1, l), NEW c2, c2 = Hr!ClientTake(c, b[1])
  PROVE  ClientIs(c2) /\ c2.bodies = c.bodies /\ (InData(c2, b2, l - 1, p, m, k, e) \/ AtLast(c2, b2, l - 1, p, m, e))
<1>1. /\ PieceSizes(p, m) /\ (\A i \in 1..m : p[i] \in Nat \ {0}) /\ RunTyped(BytesRun(p), p, m) /\ e \in Nat
  BY PiecesAre
<1>2. Blocks(b, l, 0, p, m, k, e) /\ c.mode = "size" /\ c.body = BytesRun(p)[k]
  BY DEF AtSize
<1>3. CASE k = m
  <2>1. l = 0 + e /\ (e = 2 => Closing(b, 0))
    BY <1>1, <1>2, <1>3, BlocksLast
  <2>2. e = 2 /\ l = 2 /\ b[1] = Hr!Size(0) /\ b[2] = Hr!Crlf
    BY <2>1 DEF Closing
  <2>3. PICK n \in Nat : n = 0
    OBVIOUS
  <2>11. c2 = [c EXCEPT !.mode = IF n = 0 THEN "last" ELSE "data", !.left = n]
    BY <1>2, <2>2, <2>3, TakeSize
  <2>4. ClientIs(c2) /\ c2.bodies = c.bodies /\ c2.mode = "last" /\ c2.body = c.body
    BY <2>3, <2>11 DEF ClientIs, Modes
  <2>5. b2[1] = Hr!Crlf
    <3>1. 2 \in (1 + 1)..l /\ 2 - 1 = 1
      BY <2>2
    <3> QED
      BY <2>2, <3>1 DEF Shifted
  <2> QED
    BY <1>2, <1>3, <2>2, <2>4, <2>5 DEF AtLast
<1>4. CASE k # m
  <2>1. k \in 0..(m - 1) /\ k + 1 \in 1..m /\ k + 1 \in 0..m
    BY <1>4
  <2>2. PICK n \in Nat \ {0} : n = p[k + 1]
    BY <1>1, <2>1
  <2>3. Block(b, 0, n) /\ 0 + n + 2 <= l /\ Blocks(b, l, 0 + n + 2, p, m, k + 1, e)
    BY <1>1, <1>2, <2>1, <2>2, BlocksNext
  <2>4. b[1] = Hr!Size(n) /\ b[n + 2] = Hr!Crlf /\ \A i \in 1..n : b[1 + i] = Hr!Byte(i)
    <3>1. 0 + 1 = 1 /\ 0 + n + 2 = n + 2 /\ \A i \in 1..n : 0 + 1 + i = 1 + i
      OBVIOUS
    <3> QED
      BY <2>3, <3>1 DEF Block
  <2>5. c2 = [c EXCEPT !.mode = "data", !.left = n]
    BY <1>2, <2>4, TakeSize
  <2>6. ClientIs(c2) /\ c2.bodies = c.bodies /\ c2.mode = "data" /\ c2.body = c.body /\ c2.left = n
    BY <2>5 DEF ClientIs, Modes
  <2>7. Data(b2, n, n)
    <3>1. n + 2 \in (1 + 1)..l /\ (n + 2) - 1 = n + 1 /\ \A i \in 1..n : 1 + i \in (1 + 1)..l /\ (1 + i) - 1 = i /\ n - n + i = i
      BY <2>3
    <3>2. b2[n + 1] = Hr!Crlf
      BY <2>4, <3>1 DEF Shifted
    <3>3. \A i \in 1..n : b2[i] = Hr!Byte(n - n + i)
      BY <2>4, <3>1 DEF Shifted
    <3> QED
      BY <3>2, <3>3 DEF Data
  <2>8. Blocks(b2, l - 1, n + 1, p, m, k + 1, e)
    <3>1. 0 + n + 2 = n + 2 /\ n + 2 \in Nat \ {0} /\ (n + 2) - 1 = n + 1
      OBVIOUS
    <3>2. Blocks(b2, l - 1, (n + 2) - 1, p, m, k + 1, e)
      BY <1>1, <2>1, <2>3, <3>1, BlocksTail
    <3> QED
      BY <3>1, <3>2
  <2>9. c2.body = BytesRun(p)[k] \o Ones(p[k + 1] - c2.left)
    <3>1. p[k + 1] - c2.left = 0 /\ BytesRun(p)[k] \in Seq(Nat)
      BY <1>1, <2>2, <2>6 DEF RunTyped
    <3> QED
      BY <1>2, <2>6, <3>1, NoOnes
  <2>10. k + 1 <= m /\ c2.left \in 1..p[k + 1]
    BY <2>1, <2>2, <2>6
  <2> QED
    BY <2>2, <2>6, <2>7, <2>8, <2>9, <2>10 DEF InData
<1> QED
  BY <1>3, <1>4

\* a byte of it,
LEMMA FromData ==
  ASSUME NEW p, NEW m \in Nat, IsPieces(p, m), NEW e \in {0, 2}, NEW l \in Nat, NEW b, NEW c, NEW k \in 0..m,
         InData(c, b, l, p, m, k, e),
         ClientIs(c), NEW b2, Shifted(b2, b, 1, l), NEW c2, c2 = Hr!ClientTake(c, b[1])
  PROVE  /\ ClientIs(c2) /\ c2.bodies = c.bodies /\ k + 1 \in 0..m
         /\ InData(c2, b2, l - 1, p, m, k, e) \/ AtCrlf(c2, b2, l - 1, p, m, k + 1, e)
<1>1. /\ PieceSizes(p, m) /\ (\A i \in 1..m : p[i] \in Nat \ {0}) /\ RunTyped(BytesRun(p), p, m) /\ e \in Nat
  BY PiecesAre
<1>2. k + 1 \in 1..m /\ k + 1 \in 0..m /\ k \in 0..(m - 1)
  BY DEF InData
<1>3. PICK n \in Nat \ {0} : n = p[k + 1]
  BY <1>1, <1>2
<1>4. PICK t \in 1..n : t = c.left
  BY <1>3 DEF InData
<1>5. /\ c.mode = "data" /\ Data(b, t, n) /\ c.body = BytesRun(p)[k] \o Ones(n - t) /\ Blocks(b, l, t + 1, p, m, k + 1, e)
  BY <1>3, <1>4 DEF InData
<1>6. PICK j \in Nat : j = n - t
  OBVIOUS
<1>7. b[1] = Hr!Byte(j + 1)
  <2>1. 1 \in 1..t /\ n - t + 1 = j + 1
    BY <1>6
  <2> QED
    BY <1>5, <2>1 DEF Data
<1>8. c2 = [c EXCEPT !.body = Append(@, j + 1), !.left = @ - 1, !.mode = IF c.left = 1 THEN "crlf" ELSE "data"]
  <2>1. j + 1 \in Nat
    OBVIOUS
  <2> QED
    BY <1>5, <1>7, <2>1, TakeByte
<1>9. BytesRun(p)[k] \in Seq(Nat)
  BY <1>1 DEF RunTyped
<1>10. Append(c.body, j + 1) = BytesRun(p)[k] \o Ones(j + 1)
  BY <1>5, <1>6, <1>9, MoreOnes
<1>11. /\ ClientIs(c2) /\ c2.bodies = c.bodies /\ c2.mode = (IF t = 1 THEN "crlf" ELSE "data") /\ c2.left = t - 1
       /\ c2.body = BytesRun(p)[k] \o Ones(j + 1)
  <2>1. /\ c2.mode = (IF t = 1 THEN "crlf" ELSE "data") /\ c2.left = t - 1 /\ c2.bodies = c.bodies
        /\ c2.body = Append(c.body, j + 1) /\ c2.lost = c.lost
        /\ c2 = [mode |-> c2.mode, left |-> c2.left, body |-> c2.body, bodies |-> c2.bodies, lost |-> c2.lost]
    BY <1>4, <1>8 DEF ClientIs
  <2>2. Append(c.body, j + 1) \in Seq(Nat)
    <3>1. c.body \in Seq(Nat) /\ j + 1 \in Nat
      BY DEF ClientIs
    <3> QED
      BY <3>1
  <2>3. t - 1 \in Nat /\ c.bodies \in Seq(Seq(Nat)) /\ c.lost = FALSE /\ c2.mode \in Modes
    <3>1. c2.mode \in Modes
      BY <2>1 DEF Modes
    <3>2. c.bodies \in Seq(Seq(Nat)) /\ c.lost = FALSE
      BY DEF ClientIs
    <3>3. t - 1 \in Nat
      BY <1>4
    <3> QED
      BY <3>1, <3>2, <3>3
  <2>4. ClientIs(c2)
    BY <2>1, <2>2, <2>3 DEF ClientIs
  <2> QED
    BY <1>10, <2>1, <2>4
<1>12. t + 1 <= l /\ Blocks(b2, l - 1, t, p, m, k + 1, e)
  <2>1. t + 1 \in Nat \ {0} /\ (t + 1) - 1 = t /\ t + 1 \in Nat
    OBVIOUS
  <2>2. Blocks(b2, l - 1, (t + 1) - 1, p, m, k + 1, e)
    BY <1>1, <1>2, <1>5, <2>1, BlocksTail
  <2>3. (t + 1) + e <= l
    BY <1>1, <1>2, <1>5, <2>1, BlocksLength
  <2> QED
    BY <2>1, <2>2, <2>3
<1>13. CASE t = 1
  <2>1. b2[1] = Hr!Crlf
    <3>1. 2 \in (1 + 1)..l /\ 2 - 1 = 1 /\ t + 1 = 2
      BY <1>12, <1>13
    <3> QED
      BY <1>5, <3>1 DEF Data, Shifted
  <2>2. c2.body = BytesRun(p)[k + 1]
    <3>1. j + 1 = n
      BY <1>6, <1>13
    <3> QED
      BY <1>1, <1>2, <1>3, <1>11, <3>1 DEF RunTyped
  <2> QED
    BY <1>2, <1>11, <1>12, <1>13, <2>1, <2>2 DEF AtCrlf
<1>14. CASE t # 1
  <2>1. t - 1 \in 1..n /\ n - (t - 1) = j + 1 /\ (t - 1) + 1 = t
    BY <1>6, <1>14
  <2>2. Data(b2, t - 1, n)
    <3>1. t + 1 \in (1 + 1)..l /\ (t + 1) - 1 = (t - 1) + 1
      BY <1>12
    <3>2. b2[(t - 1) + 1] = Hr!Crlf
      BY <1>5, <3>1 DEF Data, Shifted
    <3>3. ASSUME NEW i \in 1..(t - 1)
          PROVE  b2[i] = Hr!Byte(n - (t - 1) + i)
      <4>1. i + 1 \in (1 + 1)..l /\ (i + 1) - 1 = i /\ i + 1 \in 1..t /\ n - t + (i + 1) = n - (t - 1) + i
        BY <1>12
      <4> QED
        BY <1>5, <4>1 DEF Data, Shifted
    <3> QED
      BY <3>2, <3>3 DEF Data
  <2>3. c2.left = t - 1 /\ c2.mode = "data" /\ c2.body = BytesRun(p)[k] \o Ones(n - c2.left)
    BY <1>11, <1>14, <2>1
  <2>4. Blocks(b2, l - 1, c2.left + 1, p, m, k + 1, e)
    BY <1>12, <2>1, <2>3
  <2>5. InData(c2, b2, l - 1, p, m, k, e)
    BY <1>2, <1>3, <2>1, <2>2, <2>3, <2>4 DEF InData
  <2> QED
    BY <1>2, <1>11, <2>5
<1> QED
  BY <1>13, <1>14

\* the empty line behind it,
LEMMA FromCrlf ==
  ASSUME NEW p, NEW m \in Nat, IsPieces(p, m), NEW e \in {0, 2}, NEW l \in Nat, NEW b, NEW c, NEW k \in 0..m,
         AtCrlf(c, b, l, p, m, k, e),
         ClientIs(c), NEW b2, Shifted(b2, b, 1, l), NEW c2, c2 = Hr!ClientTake(c, b[1])
  PROVE  ClientIs(c2) /\ c2.bodies = c.bodies /\ AtSize(c2, b2, l - 1, p, m, k, e)
<1>1. c2 = [c EXCEPT !.mode = "size"]
  BY TakeCrlf DEF AtCrlf
<1>2. ClientIs(c2) /\ c2.bodies = c.bodies /\ c2.mode = "size" /\ c2.body = c.body
  BY <1>1 DEF ClientIs, Modes
<1>3. Blocks(b2, l - 1, 1 - 1, p, m, k, e)
  <2>1. Blocks(b, l, 1, p, m, k, e) /\ 1 \in Nat \ {0} /\ PieceSizes(p, m) /\ e \in Nat
    BY PiecesAre DEF AtCrlf
  <2> QED
    BY <2>1, BlocksTail
<1> QED
  BY <1>2, <1>3 DEF AtSize, AtCrlf

\* or the end of the reply.
LEMMA FromLast ==
  ASSUME NEW p, NEW m \in Nat, IsPieces(p, m), NEW e \in {0, 2}, NEW l \in Nat, NEW b, NEW c, AtLast(c, b, l, p, m, e),
         ClientIs(c), NEW c2, c2 = Hr!ClientTake(c, b[1])
  PROVE  /\ ClientIs(c2) /\ c2.mode = "head" /\ c2.body = <<>>
         /\ c2.bodies = Append(c.bodies, BytesRun(p)[m])
<1>1. c2 = [c EXCEPT !.mode = "head", !.body = <<>>, !.bodies = Append(@, c.body)]
  BY TakeLast DEF AtLast, Hr!Complete
<1>2. /\ c.body = BytesRun(p)[m] /\ c.body \in Seq(Nat) /\ c.bodies \in Seq(Seq(Nat)) /\ c.left \in Nat /\ c.lost = FALSE
      /\ c = [mode |-> c.mode, left |-> c.left, body |-> c.body, bodies |-> c.bodies, lost |-> c.lost]
  BY DEF AtLast, ClientIs
<1>3. Append(c.bodies, c.body) \in Seq(Seq(Nat)) /\ <<>> \in Seq(Nat) /\ "head" \in Modes
  BY <1>2 DEF Modes
<1>4. /\ c2.mode = "head" /\ c2.left = c.left /\ c2.body = <<>> /\ c2.bodies = Append(c.bodies, c.body) /\ c2.lost = c.lost
      /\ c2 = [mode |-> c2.mode, left |-> c2.left, body |-> c2.body, bodies |-> c2.bodies, lost |-> c2.lost]
  <2>1. /\ c2.mode = "head" /\ c2.left = c.left /\ c2.body = <<>> /\ c2.bodies = Append(c.bodies, c.body) /\ c2.lost = c.lost
        /\ c2 = [mode |-> c2.mode, left |-> c2.left, body |-> c2.body, bodies |-> c2.bodies, lost |-> c2.lost]
    BY <1>1 DEF ClientIs
  <2> QED
    BY <2>1
<1>5. ClientIs(c2)
  <2>1. c2.mode \in Modes /\ c2.left \in Nat /\ c2.body \in Seq(Nat) /\ c2.bodies \in Seq(Seq(Nat)) /\ c2.lost = FALSE
    BY <1>2, <1>3, <1>4
  <2> QED
    BY <1>4, <2>1 DEF ClientIs
<1> QED
  BY <1>2, <1>4, <1>5

LEMMA ChunksTaken ==
  ASSUME NEW p, NEW m \in Nat, IsPieces(p, m), NEW e \in {0, 2}, NEW l \in Nat, l >= 1, NEW b, NEW c,
         InChunked(c, b, l, p, m, e), ClientIs(c), NEW b2, Shifted(b2, b, 1, l), NEW c2, c2 = Hr!ClientTake(c, b[1])
  PROVE  /\ ClientIs(c2)
         /\ \/ c2.bodies = c.bodies /\ InChunked(c2, b2, l - 1, p, m, e) /\ (e = 2 => l >= 2)
            \/ e = 2 /\ l = 1 /\ c2.mode = "head" /\ c2.body = <<>> /\ c2.bodies = Append(c.bodies, BytesRun(p)[m])
<1>0. e \in Nat /\ 0 \in 0..m
  OBVIOUS
<1>1. CASE AtHead(c, b, l, p, m, e)
  <2>1. ClientIs(c2) /\ c2.bodies = c.bodies /\ AtSize(c2, b2, l - 1, p, m, 0, e)
    BY <1>1, FromHead
  <2>2. 1 + e <= l
    BY <1>0, <1>1, BlocksLength DEF AtHead
  <2> QED
    BY <1>0, <2>1, <2>2 DEF InChunked, InPiece
<1>2. CASE AtLast(c, b, l, p, m, e)
  <2>1. /\ ClientIs(c2) /\ c2.mode = "head" /\ c2.body = <<>>
        /\ c2.bodies = Append(c.bodies, BytesRun(p)[m])
    BY <1>2, FromLast
  <2>2. e = 2 /\ l = 1
    BY <1>2 DEF AtLast
  <2> QED
    BY <2>1, <2>2
<1>3. CASE \E k \in 0..m : InPiece(c, b, l, p, m, k, e)
  <2>1. PICK k \in 0..m : InPiece(c, b, l, p, m, k, e)
    BY <1>3
  <2>2. CASE AtSize(c, b, l, p, m, k, e)
    <3>1. ClientIs(c2) /\ c2.bodies = c.bodies /\ (InData(c2, b2, l - 1, p, m, k, e) \/ AtLast(c2, b2, l - 1, p, m, e))
      BY <2>2, FromSize
    <3>2. 0 + e <= l
      BY <1>0, <2>2, BlocksLength DEF AtSize
    <3> QED
      BY <3>1, <3>2 DEF InChunked, InPiece
  <2>3. CASE InData(c, b, l, p, m, k, e)
    <3>1. /\ ClientIs(c2) /\ c2.bodies = c.bodies /\ k + 1 \in 0..m
          /\ InData(c2, b2, l - 1, p, m, k, e) \/ AtCrlf(c2, b2, l - 1, p, m, k + 1, e)
      BY <2>3, FromData
    <3>2. e = 2 => l >= 2
      <4>1. PICK t \in Nat : t = c.left
        BY DEF ClientIs
      <4>2. Blocks(b, l, t + 1, p, m, k + 1, e) /\ t + 1 \in Nat
        BY <2>3, <4>1 DEF InData
      <4>3. (t + 1) + e <= l
        BY <1>0, <3>1, <4>2, BlocksLength
      <4> QED
        BY <4>1, <4>3
    <3> QED
      BY <3>1, <3>2 DEF InChunked, InPiece
  <2>4. CASE AtCrlf(c, b, l, p, m, k, e)
    <3>1. ClientIs(c2) /\ c2.bodies = c.bodies /\ AtSize(c2, b2, l - 1, p, m, k, e)
      BY <2>4, FromCrlf
    <3>2. 1 + e <= l
      BY <1>0, <2>4, BlocksLength DEF AtCrlf
    <3> QED
      BY <3>1, <3>2 DEF InChunked, InPiece
  <2> QED
    BY <2>1, <2>2, <2>3, <2>4 DEF InPiece
<1> QED
  BY <1>1, <1>2, <1>3 DEF InChunked

-----------------------------------------------------------------------------
(* What the program adds to a reply in chunks.                             *)

LEMMA ChunksStart ==
  ASSUME NEW p, NEW c, c.mode = "head", c.body = <<>>, NEW b, b[1] = Hr!Heading(TRUE, FALSE)
  PROVE  InChunked(c, b, 1, p, 0, 0)
<1>1. 1 \in Nat /\ 0 \in Nat /\ 1 >= 1
  OBVIOUS
<1>2. Blocks(b, 1, 1, p, 0, 0, 0)
  BY <1>1, NoBlocks
<1>3. AtHead(c, b, 1, p, 0, 0)
  BY <1>1, <1>2 DEF AtHead
<1> QED
  BY <1>3 DEF InChunked

\* A piece,
LEMMA PieceAdded ==
  ASSUME NEW p, NEW m \in Nat, IsPieces(p, m), NEW x \in Nat \ {0}, NEW p2, Added(p2, p, x)
  PROVE  /\ IsPieces(p2, m + 1) /\ OneMore(p2, p, m, x)
         /\ (\A k \in 0..m : BytesRun(p2)[k] = BytesRun(p)[k])
         /\ BytesRun(p2)[m + 1] = BytesRun(p)[m] \o Ones(x)
<1>1. PieceSeq(p, m) /\ x \in Nat
  BY PiecesAre DEF PieceSeq
<1>2. /\ p2 \in Seq(Nat) /\ Len(p2) = m + 1
      /\ \A k \in 0..m : BytesRun(p2)[k] = BytesRun(p)[k]
      /\ BytesRun(p2)[m + 1] = BytesRun(p)[m] \o Ones(x)
  BY <1>1, RunMore
<1>3. p \in Seq(Nat \ {0}) /\ m = Len(p) /\ p2 = Append(p, x)
  BY DEF IsPieces, Added
<1>4. p2 \in Seq(Nat \ {0}) /\ Len(p2) = m + 1 /\ (\A i \in 1..m : p2[i] = p[i]) /\ p2[m + 1] = x
  BY <1>3
<1> QED
  BY <1>2, <1>4 DEF IsPieces, OneMore

LEMMA ChunksMore ==
  ASSUME NEW p, NEW m \in Nat, IsPieces(p, m), NEW l \in Nat, NEW b, NEW c, InChunked(c, b, l, p, m, 0),
         NEW x \in Nat \ {0}, NEW p2, Added(p2, p, x),
         NEW b2, NEW l2 \in Nat, Plus(l2, l, x + 2), Kept(b2, b, l), Block(b2, l, x)
  PROVE  InChunked(c, b2, l2, p2, m + 1, 0)
<1>1. /\ PieceSizes(p, m) /\ (\A i \in 1..m : p[i] \in Nat \ {0}) /\ RunTyped(BytesRun(p), p, m)
  BY PiecesAre
<1>2. /\ IsPieces(p2, m + 1) /\ OneMore(p2, p, m, x)
      /\ (\A k \in 0..m : BytesRun(p2)[k] = BytesRun(p)[k])
      /\ BytesRun(p2)[m + 1] = BytesRun(p)[m] \o Ones(x)
  BY PieceAdded
<1>3. ASSUME NEW d \in Nat, NEW k \in 0..m, Blocks(b, l, d, p, m, k, 0)
      PROVE  d <= l /\ Blocks(b2, l2, d, p2, m + 1, k, 0)
  <2>1. x \in Nat
    OBVIOUS
  <2>2. Blocks(b2, l2, d, p2, m + 1, k, 0)
    BY <1>1, <1>2, <1>3, <2>1, BlocksMore
  <2>3. 0 \in Nat
    OBVIOUS
  <2>4. d + 0 <= l
    BY <1>3, <2>3, BlocksLength
  <2> QED
    BY <2>2, <2>4
<1>4. \A i \in 1..l : b2[i] = b[i]
  BY DEF Kept
<1>5. 0 \in Nat /\ 1 \in Nat /\ 0 \in 0..m /\ l2 >= l
  BY DEF Plus
<1>6. CASE AtHead(c, b, l, p, m, 0)
  <2>1. Blocks(b, l, 1, p, m, 0, 0) /\ l >= 1 /\ b[1] = Hr!Heading(TRUE, FALSE) /\ c.mode = "head" /\ c.body = <<>>
    BY <1>6 DEF AtHead
  <2>2. Blocks(b2, l2, 1, p2, m + 1, 0, 0)
    BY <1>3, <1>5, <2>1
  <2>3. b2[1] = b[1] /\ l2 >= 1
    <3>1. 1 \in 1..l /\ l2 >= 1
      BY <1>5, <2>1
    <3> QED
      BY <1>4, <3>1
  <2>4. AtHead(c, b2, l2, p2, m + 1, 0)
    BY <2>1, <2>2, <2>3 DEF AtHead
  <2> QED
    BY <2>4 DEF InChunked
<1>7. CASE AtLast(c, b, l, p, m, 0)
  BY <1>7 DEF AtLast
<1>8. CASE \E k \in 0..m : InPiece(c, b, l, p, m, k, 0)
  <2>1. PICK k \in 0..m : InPiece(c, b, l, p, m, k, 0)
    BY <1>8
  <2>2. BytesRun(p2)[k] = BytesRun(p)[k] /\ k \in 0..(m + 1)
    BY <1>2
  <2>3. CASE AtSize(c, b, l, p, m, k, 0)
    <3>1. Blocks(b2, l2, 0, p2, m + 1, k, 0)
      BY <1>3, <1>5, <2>3 DEF AtSize
    <3>2. AtSize(c, b2, l2, p2, m + 1, k, 0)
      BY <2>2, <2>3, <3>1 DEF AtSize
    <3> QED
      BY <2>2, <3>2 DEF InChunked, InPiece
  <2>4. CASE InData(c, b, l, p, m, k, 0)
    <3>1. k + 1 \in 1..m /\ k + 1 \in 0..m
      BY <2>4 DEF InData
    <3>2. PICK n \in Nat \ {0} : n = p[k + 1]
      BY <1>1, <3>1
    <3>3. PICK t \in 1..n : t = c.left
      BY <2>4, <3>2 DEF InData
    <3>4. /\ c.mode = "data" /\ Data(b, t, n) /\ c.body = BytesRun(p)[k] \o Ones(n - t)
          /\ Blocks(b, l, t + 1, p, m, k + 1, 0)
      BY <2>4, <3>2, <3>3 DEF InData
    <3>5. t + 1 <= l /\ Blocks(b2, l2, t + 1, p2, m + 1, k + 1, 0)
      <4>1. t + 1 \in Nat
        OBVIOUS
      <4> QED
        BY <1>3, <3>1, <3>4, <4>1
    <3>6. Data(b2, t, n)
      <4>1. t + 1 \in 1..l /\ \A i \in 1..t : i \in 1..l
        BY <3>5
      <4> QED
        BY <1>4, <3>4, <4>1 DEF Data
    <3>7. p2[k + 1] = n
      BY <1>2, <3>1, <3>2 DEF OneMore
    <3>8. k + 1 <= m + 1
      BY <3>1
    <3>9. InData(c, b2, l2, p2, m + 1, k, 0)
      BY <2>2, <3>3, <3>4, <3>5, <3>6, <3>7, <3>8 DEF InData
    <3> QED
      BY <2>2, <3>9 DEF InChunked, InPiece
  <2>5. CASE AtCrlf(c, b, l, p, m, k, 0)
    <3>1. 1 <= l /\ Blocks(b2, l2, 1, p2, m + 1, k, 0)
      BY <1>3, <1>5, <2>5 DEF AtCrlf
    <3>2. b2[1] = b[1]
      BY <1>4, <3>1
    <3>3. AtCrlf(c, b2, l2, p2, m + 1, k, 0)
      BY <2>2, <2>5, <3>1, <3>2 DEF AtCrlf
    <3> QED
      BY <2>2, <3>3 DEF InChunked, InPiece
  <2> QED
    BY <2>1, <2>3, <2>4, <2>5 DEF InPiece
<1> QED
  BY <1>6, <1>7, <1>8 DEF InChunked

\* and the end.
LEMMA ChunksClosed ==
  ASSUME NEW p, NEW m \in Nat, IsPieces(p, m), NEW l \in Nat, NEW b, NEW c, InChunked(c, b, l, p, m, 0),
         NEW b2, NEW l2 \in Nat, Plus(l2, l, 2), Kept(b2, b, l), Closing(b2, l)
  PROVE  InChunked(c, b2, l2, p, m, 2)
<1>1. /\ PieceSizes(p, m) /\ (\A i \in 1..m : p[i] \in Nat \ {0})
  BY PiecesAre
<1>3. ASSUME NEW d \in Nat, NEW k \in 0..m, Blocks(b, l, d, p, m, k, 0)
      PROVE  d <= l /\ Blocks(b2, l2, d, p, m, k, 2)
  <2>2. Blocks(b2, l2, d, p, m, k, 2)
    BY <1>1, <1>3, BlocksEnd
  <2>3. 0 \in Nat
    OBVIOUS
  <2>4. d + 0 <= l
    BY <1>3, <2>3, BlocksLength
  <2> QED
    BY <2>2, <2>4
<1>4. \A i \in 1..l : b2[i] = b[i]
  BY DEF Kept
<1>5. 0 \in Nat /\ 1 \in Nat /\ 0 \in 0..m /\ l2 >= l
  BY DEF Plus
<1>6. CASE AtHead(c, b, l, p, m, 0)
  <2>1. Blocks(b, l, 1, p, m, 0, 0) /\ l >= 1 /\ b[1] = Hr!Heading(TRUE, FALSE) /\ c.mode = "head" /\ c.body = <<>>
    BY <1>6 DEF AtHead
  <2>2. Blocks(b2, l2, 1, p, m, 0, 2)
    BY <1>3, <1>5, <2>1
  <2>3. b2[1] = b[1] /\ l2 >= 1
    <3>1. 1 \in 1..l /\ l2 >= 1
      BY <1>5, <2>1
    <3> QED
      BY <1>4, <3>1
  <2>4. AtHead(c, b2, l2, p, m, 2)
    BY <2>1, <2>2, <2>3 DEF AtHead
  <2> QED
    BY <2>4 DEF InChunked
<1>7. CASE AtLast(c, b, l, p, m, 0)
  BY <1>7 DEF AtLast
<1>8. CASE \E k \in 0..m : InPiece(c, b, l, p, m, k, 0)
  <2>1. PICK k \in 0..m : InPiece(c, b, l, p, m, k, 0)
    BY <1>8
  <2>3. CASE AtSize(c, b, l, p, m, k, 0)
    <3>1. Blocks(b2, l2, 0, p, m, k, 2)
      BY <1>3, <1>5, <2>3 DEF AtSize
    <3>2. AtSize(c, b2, l2, p, m, k, 2)
      BY <2>3, <3>1 DEF AtSize
    <3> QED
      BY <3>2 DEF InChunked, InPiece
  <2>4. CASE InData(c, b, l, p, m, k, 0)
    <3>1. k + 1 \in 1..m /\ k + 1 \in 0..m
      BY <2>4 DEF InData
    <3>2. PICK n \in Nat \ {0} : n = p[k + 1]
      BY <1>1, <3>1
    <3>3. PICK t \in 1..n : t = c.left
      BY <2>4, <3>2 DEF InData
    <3>4. /\ c.mode = "data" /\ Data(b, t, n) /\ c.body = BytesRun(p)[k] \o Ones(n - t)
          /\ Blocks(b, l, t + 1, p, m, k + 1, 0)
      BY <2>4, <3>2, <3>3 DEF InData
    <3>5. t + 1 <= l /\ Blocks(b2, l2, t + 1, p, m, k + 1, 2)
      <4>1. t + 1 \in Nat
        OBVIOUS
      <4> QED
        BY <1>3, <3>1, <3>4, <4>1
    <3>6. Data(b2, t, n)
      <4>1. t + 1 \in 1..l /\ \A i \in 1..t : i \in 1..l
        BY <3>5
      <4> QED
        BY <1>4, <3>4, <4>1 DEF Data
    <3>8. k + 1 <= m
      BY <3>1
    <3>9. InData(c, b2, l2, p, m, k, 2)
      BY <3>2, <3>3, <3>4, <3>5, <3>6, <3>8 DEF InData
    <3> QED
      BY <3>9 DEF InChunked, InPiece
  <2>5. CASE AtCrlf(c, b, l, p, m, k, 0)
    <3>1. 1 <= l /\ Blocks(b2, l2, 1, p, m, k, 2)
      BY <1>3, <1>5, <2>5 DEF AtCrlf
    <3>2. b2[1] = b[1]
      BY <1>4, <3>1
    <3>3. AtCrlf(c, b2, l2, p, m, k, 2)
      BY <2>5, <3>1, <3>2 DEF AtCrlf
    <3> QED
      BY <3>3 DEF InChunked, InPiece
  <2> QED
    BY <2>1, <2>3, <2>4, <2>5 DEF InPiece
<1> QED
  BY <1>6, <1>7, <1>8 DEF InChunked

-----------------------------------------------------------------------------
(* A reply without chunks, which the client reads to the end of the        *)
(* connection: body and then the bytes behind the first h tokens of b      *)
(* spell s.                                                                *)

Spelled(s, body, b, l, h) == /\ Len(s) = Len(body) + (l - h) /\ \A i \in 1..Len(body) : s[i] = body[i]
                             /\ \A i \in 1..(l - h) : s[Len(body) + i] = b[h + i].n

BeforeHead(c, b, l, s) == /\ c.mode = "head" /\ c.body = <<>> /\ l >= 1 /\ b[1] = Hr!Heading(FALSE, FALSE)
                          /\ Spelled(s, c.body, b, l, 1)
ToTheEnd(c, b, l, s) == c.mode = "eof" /\ Spelled(s, c.body, b, l, 0)
InStream(c, b, l, s) == BeforeHead(c, b, l, s) \/ ToTheEnd(c, b, l, s)

LEMMA StreamStart ==
  ASSUME NEW c, c.mode = "head", c.body = <<>>, NEW b, b[1] = Hr!Heading(FALSE, FALSE)
  PROVE  InStream(c, b, 1, <<>>)
<1>1. Spelled(<<>>, <<>>, b, 1, 1)
  BY DEF Spelled
<1>2. 1 >= 1
  OBVIOUS
<1> QED
  BY <1>1, <1>2 DEF InStream, BeforeHead

LEMMA Joins ==
  ASSUME NEW s \in Seq(Nat), NEW o \in Seq(Nat)
  PROVE  \E q \in Seq(Nat) : /\ q = s \o o /\ Len(q) = Len(s) + Len(o) /\ (\A i \in 1..Len(s) : q[i] = s[i])
                             /\ \A i \in 1..Len(o) : q[Len(s) + i] = o[i]
<1>1. /\ s \o o \in Seq(Nat) /\ Len(s \o o) = Len(s) + Len(o) /\ (\A i \in 1..Len(s) : (s \o o)[i] = s[i])
      /\ \A i \in 1..Len(o) : (s \o o)[Len(s) + i] = o[i]
  OBVIOUS
<1> QED
  BY <1>1

LEMMA Appends ==
  ASSUME NEW s \in Seq(Nat), NEW x \in Nat
  PROVE  \E q \in Seq(Nat) : /\ q = Append(s, x) /\ Len(q) = Len(s) + 1 /\ (\A i \in 1..Len(s) : q[i] = s[i])
                             /\ q[Len(s) + 1] = x
<1>1. /\ Append(s, x) \in Seq(Nat) /\ Len(Append(s, x)) = Len(s) + 1
      /\ (\A i \in 1..Len(s) : Append(s, x)[i] = s[i]) /\ Append(s, x)[Len(s) + 1] = x
  OBVIOUS
<1> QED
  BY <1>1

LEMMA SpelledMore ==
  ASSUME NEW s \in Seq(Nat), NEW body \in Seq(Nat), NEW b, NEW l \in Nat, NEW h \in {0, 1}, h <= l, Spelled(s, body, b, l, h),
         NEW x \in Nat, NEW b2, NEW l2 \in Nat, Plus(l2, l, x), Kept(b2, b, l),
         \A i \in 1..x : b2[l + i].n = i
  PROVE  Spelled(s \o Ones(x), body, b2, l2, h)
<1>1. Ones(x) \in Seq(Nat) /\ Len(Ones(x)) = x /\ \A i \in 1..x : Ones(x)[i] = i
  BY OnesIs
<1>2. PICK o \in Seq(Nat) : o = Ones(x)
  BY <1>1
<1>3. PICK q \in Seq(Nat) : /\ q = s \o o /\ Len(q) = Len(s) + Len(o) /\ (\A i \in 1..Len(s) : q[i] = s[i])
                           /\ \A i \in 1..Len(o) : q[Len(s) + i] = o[i]
  BY Joins
<1>4. PICK n \in Nat : n = Len(s)
  OBVIOUS
<1>5. PICK j \in Nat : j = Len(body)
  OBVIOUS
<1>6. Len(q) = n + x /\ (\A i \in 1..n : q[i] = s[i]) /\ \A i \in 1..x : q[n + i] = o[i]
  BY <1>1, <1>2, <1>3, <1>4
<1>7. n = j + (l - h) /\ (\A i \in 1..j : s[i] = body[i]) /\ \A i \in 1..(l - h) : s[j + i] = b[h + i].n
  BY <1>4, <1>5 DEF Spelled
<1>8. l2 = l + x
  BY DEF Plus
<1>9. Len(q) = j + (l2 - h)
  BY <1>6, <1>7, <1>8
<1>10. \A i \in 1..j : q[i] = body[i]
  <2>1. \A i \in 1..j : i \in 1..n
    BY <1>7
  <2> QED
    BY <1>6, <1>7, <2>1
<1>11. ASSUME NEW i \in 1..(l2 - h)
       PROVE  q[j + i] = b2[h + i].n
  <2>1. CASE i <= l - h
    <3>1. i \in 1..(l - h) /\ j + i \in 1..n /\ h + i \in 1..l
      BY <1>7, <2>1
    <3>2. q[j + i] = s[j + i] /\ s[j + i] = b[h + i].n
      BY <1>6, <1>7, <3>1
    <3>3. b2[h + i] = b[h + i]
      BY <3>1 DEF Kept
    <3> QED
      BY <3>2, <3>3
  <2>2. CASE ~(i <= l - h)
    <3>1. PICK y \in 1..x : j + i = n + y /\ h + i = l + y
      <4>1. i - (l - h) \in 1..x /\ j + i = n + (i - (l - h)) /\ h + i = l + (i - (l - h))
        BY <1>7, <1>8, <2>2
      <4> QED
        BY <4>1
    <3>2. q[n + y] = y
      BY <1>1, <1>2, <1>6
    <3>3. b2[l + y].n = y
      OBVIOUS
    <3> QED
      BY <3>1, <3>2, <3>3
  <2> QED
    BY <2>1, <2>2
<1>12. Spelled(q, body, b2, l2, h)
  BY <1>5, <1>9, <1>10, <1>11 DEF Spelled
<1> QED
  BY <1>2, <1>3, <1>12

LEMMA StreamMore ==
  ASSUME NEW s \in Seq(Nat), NEW c, ClientIs(c), NEW b, NEW l \in Nat, InStream(c, b, l, s),
         NEW x \in Nat, NEW b2, NEW l2 \in Nat, Plus(l2, l, x), Kept(b2, b, l),
         \A i \in 1..x : b2[l + i].n = i
  PROVE  InStream(c, b2, l2, s \o Ones(x))
<1>1. c.body \in Seq(Nat)
  BY DEF ClientIs
<1>2. l2 >= l
  BY DEF Plus
<1>3. CASE BeforeHead(c, b, l, s)
  <2>1. c.mode = "head" /\ c.body = <<>> /\ l >= 1 /\ b[1] = Hr!Heading(FALSE, FALSE) /\ Spelled(s, c.body, b, l, 1)
    BY <1>3 DEF BeforeHead
  <2>2. 1 \in {0, 1} /\ 1 <= l /\ l2 >= 1
    BY <1>2, <2>1
  <2>3. Spelled(s \o Ones(x), c.body, b2, l2, 1)
    BY <1>1, <2>1, <2>2, SpelledMore
  <2>4. b2[1] = b[1]
    <3>1. 1 \in 1..l
      BY <2>2
    <3> QED
      BY <3>1 DEF Kept
  <2> QED
    BY <2>1, <2>2, <2>3, <2>4 DEF InStream, BeforeHead
<1>4. CASE ToTheEnd(c, b, l, s)
  <2>1. c.mode = "eof" /\ Spelled(s, c.body, b, l, 0)
    BY <1>4 DEF ToTheEnd
  <2>2. 0 \in {0, 1} /\ 0 <= l
    OBVIOUS
  <2>3. Spelled(s \o Ones(x), c.body, b2, l2, 0)
    BY <1>1, <2>1, <2>2, SpelledMore
  <2> QED
    BY <2>1, <2>3 DEF InStream, ToTheEnd
<1> QED
  BY <1>3, <1>4 DEF InStream

LEMMA StreamTaken ==
  ASSUME NEW s \in Seq(Nat), NEW c, ClientIs(c), NEW b, NEW l \in Nat, l >= 1, InStream(c, b, l, s), b[1].n \in Nat,
         NEW b2, Shifted(b2, b, 1, l), NEW c2, c2 = Hr!ClientTake(c, b[1])
  PROVE  ClientIs(c2) /\ c2.bodies = c.bodies /\ ToTheEnd(c2, b2, l - 1, s)
<1>0. /\ c.mode \in Modes /\ c.left \in Nat /\ c.body \in Seq(Nat) /\ c.bodies \in Seq(Seq(Nat)) /\ c.lost = FALSE
      /\ c = [mode |-> c.mode, left |-> c.left, body |-> c.body, bodies |-> c.bodies, lost |-> c.lost]
  BY DEF ClientIs
<1>1. \A i \in 2..l : b2[i - 1] = b[i]
  BY DEF Shifted
<1>3. CASE BeforeHead(c, b, l, s)
  <2>1. c.mode = "head" /\ c.body = <<>> /\ b[1] = Hr!Heading(FALSE, FALSE) /\ Spelled(s, c.body, b, l, 1)
    BY <1>3 DEF BeforeHead
  <2>2. c2 = [c EXCEPT !.mode = IF FALSE THEN "size" ELSE "eof"]
    BY <2>1, TakeHead
  <2>3. ClientIs(c2) /\ c2.bodies = c.bodies /\ c2.mode = "eof" /\ c2.body = c.body
    BY <2>2 DEF ClientIs, Modes
  <2>4. Spelled(s, c2.body, b2, l - 1, 0)
    <3>0. PICK r \in Seq(Nat) : r = c.body
      BY <1>0
    <3>1. PICK j \in Nat : j = Len(r)
      OBVIOUS
    <3>2. Len(s) = j + (l - 1) /\ (\A i \in 1..j : s[i] = c.body[i]) /\ \A i \in 1..(l - 1) : s[j + i] = b[1 + i].n
      BY <2>1, <3>0, <3>1 DEF Spelled
    <3>3. ASSUME NEW i \in 1..((l - 1) - 0)
          PROVE  s[j + i] = b2[0 + i].n
      <4>1. i \in 1..(l - 1) /\ 1 + i \in 2..l /\ (1 + i) - 1 = i /\ 0 + i = i
        OBVIOUS
      <4> QED
        BY <1>1, <3>2, <4>1
    <3>4. (l - 1) - 0 = l - 1
      OBVIOUS
    <3> QED
      BY <2>3, <3>0, <3>1, <3>2, <3>3, <3>4 DEF Spelled
  <2> QED
    BY <2>3, <2>4 DEF ToTheEnd
<1>4. CASE ToTheEnd(c, b, l, s)
  <2>1. c.mode = "eof" /\ Spelled(s, c.body, b, l, 0)
    BY <1>4 DEF ToTheEnd
  <2>2. PICK x \in Nat : x = b[1].n
    OBVIOUS
  <2>3. c2 = [c EXCEPT !.body = Append(@, x)]
    BY <2>1, <2>2, TakeEof
  <2>4. PICK r \in Seq(Nat) : r = c.body
    BY <1>0
  <2>5. PICK q \in Seq(Nat) : /\ q = Append(r, x) /\ Len(q) = Len(r) + 1 /\ (\A i \in 1..Len(r) : q[i] = r[i])
                             /\ q[Len(r) + 1] = x
    BY Appends
  <2>6. /\ c2.mode = "eof" /\ c2.left = c.left /\ c2.body = q /\ c2.bodies = c.bodies /\ c2.lost = c.lost
        /\ c2 = [mode |-> c2.mode, left |-> c2.left, body |-> c2.body, bodies |-> c2.bodies, lost |-> c2.lost]
    BY <1>0, <2>1, <2>3, <2>4, <2>5
  <2>7. ClientIs(c2)
    <3>1. c2.mode \in Modes
      BY <2>6 DEF Modes
    <3> QED
      BY <1>0, <2>6, <3>1 DEF ClientIs
  <2>8. Spelled(s, q, b2, l - 1, 0)
    <3>1. PICK j \in Nat : j = Len(r)
      OBVIOUS
    <3>2. /\ Len(s) = j + (l - 0) /\ (\A i \in 1..j : s[i] = r[i]) /\ \A i \in 1..(l - 0) : s[j + i] = b[0 + i].n
      BY <2>1, <2>4, <3>1 DEF Spelled
    <3>3. Len(q) = j + 1 /\ (\A i \in 1..j : q[i] = r[i]) /\ q[j + 1] = x
      BY <2>5, <3>1
    <3>4. \A i \in 1..(j + 1) : s[i] = q[i]
      <4>1. s[j + 1] = x
        <5>1. 1 \in 1..(l - 0) /\ 0 + 1 = 1
          OBVIOUS
        <5> QED
          BY <2>2, <3>2, <5>1
      <4>2. \A i \in 1..(j + 1) : i \in 1..j \/ i = j + 1
        OBVIOUS
      <4> QED
        BY <3>2, <3>3, <4>1, <4>2
    <3>5. ASSUME NEW i \in 1..((l - 1) - 0)
          PROVE  s[(j + 1) + i] = b2[0 + i].n
      <4>1. i + 1 \in 1..(l - 0) /\ j + (i + 1) = (j + 1) + i /\ 0 + (i + 1) = i + 1 /\ i + 1 \in 2..l /\ (i + 1) - 1 = 0 + i
        OBVIOUS
      <4>2. s[j + (i + 1)] = b[0 + (i + 1)].n
        BY <3>2, <4>1
      <4>3. b2[(i + 1) - 1] = b[i + 1]
        BY <1>1, <4>1
      <4> QED
        BY <4>1, <4>2, <4>3
    <3>6. Len(s) = (j + 1) + ((l - 1) - 0)
      BY <3>2
    <3> QED
      BY <3>3, <3>4, <3>5, <3>6 DEF Spelled
  <2> QED
    BY <2>6, <2>7, <2>8 DEF ToTheEnd
<1> QED
  BY <1>3, <1>4 DEF InStream

\* Nothing is left to read.
LEMMA StreamRead ==
  ASSUME NEW s \in Seq(Nat), NEW c, ClientIs(c), NEW b, ToTheEnd(c, b, 0, s)
  PROVE  c.mode = "eof" /\ c.body = s
<1>1. c.mode = "eof" /\ Spelled(s, c.body, b, 0, 0) /\ c.body \in Seq(Nat)
  BY DEF ToTheEnd, ClientIs
<1>2. PICK r \in Seq(Nat) : r = c.body
  BY <1>1
<1>3. Len(s) = Len(r) + (0 - 0) /\ \A i \in 1..Len(r) : s[i] = r[i]
  BY <1>1, <1>2 DEF Spelled
<1>4. Len(s) = Len(r)
  BY <1>3
<1>5. s = r
  BY <1>3, <1>4
<1> QED
  BY <1>1, <1>2, <1>5

-----------------------------------------------------------------------------
(* The reply to a request.                                                 *)

LEMMA AskedIs ==
  ASSUME Streamable, NEW r \in Streamed
  PROVE  /\ r \in Hr!RequestType /\ r # Hr!NoRequest /\ r.minor \in {0, 1}
         /\ (r.minor = 0 => Hr!NeedClose(r)) /\ Hr!HasLength(r, r.minor = 1) = FALSE
<1>1. r \in [minor : {0, 1}, conn : {"none", "close", "keep"}] /\ (r.minor = 0 => r.conn # "keep")
  BY DEF Streamable, Hr!RequestType
<1>2. r \in Hr!RequestType /\ r.minor \in {0, 1}
  BY <1>1 DEF Hr!RequestType
<1>3. r # Hr!NoRequest
  BY <1>2 DEF Hr!NoRequest
<1>4. r.minor = 0 => Hr!NeedClose(r)
  BY <1>1 DEF Hr!NeedClose, Hr!IsKeepalive
<1>5. Hr!HasLength(r, r.minor = 1) = FALSE
  BY <1>1 DEF Hr!HasLength, Hr!IsKeepalive
<1> QED
  BY <1>2, <1>3, <1>4, <1>5

Reply(r, ph, c, b, l, p, m) ==
  \/ ph = "none" /\ c.mode = "head" /\ c.body = <<>> /\ l = 0 /\ m = 0
  \/ ph = "start" /\ r.minor = 1 /\ InChunked(c, b, l, p, m, 0)
  \/ ph = "end" /\ r.minor = 1 /\ InChunked(c, b, l, p, m, 2)
  \/ ph \in {"start", "end"} /\ r.minor = 0 /\ InStream(c, b, l, BytesRun(p)[m])

LEMMA BodyIs ==
  ASSUME NEW p, NEW m \in Nat, IsPieces(p, m)
  PROVE  BytesRun(p)[m] \in Seq(Nat)
<1>1. /\ p \in Seq(Nat) /\ m = Len(p) /\ PieceSizes(p, m) /\ (\A i \in 1..m : p[i] \in Nat \ {0})
      /\ RunTyped(BytesRun(p), p, m)
  BY PiecesAre
<1>2. m \in 0..m
  OBVIOUS
<1> QED
  BY <1>1, <1>2 DEF RunTyped

\* A client with the rest of a reply, or with all of it.
Reads(c2, c, r, ph, b2, l, p, m) == c2.bodies = c.bodies /\ Reply(r, ph, c2, b2, l, p, m)
HasRead(c2, c, p, m) == c2.mode = "head" /\ c2.body = <<>> /\ c2.bodies = Append(c.bodies, BytesRun(p)[m])

LEMMA ReplyTaken ==
  ASSUME NEW r, NEW ph, NEW c, ClientIs(c), NEW b, NEW l \in Nat, l >= 1, b[1].n \in Nat, NEW p, NEW m \in Nat,
         IsPieces(p, m), Reply(r, ph, c, b, l, p, m), NEW b2, Shifted(b2, b, 1, l), NEW c2, c2 = Hr!ClientTake(c, b[1])
  PROVE  /\ ClientIs(c2)
         /\ \/ Reads(c2, c, r, ph, b2, l - 1, p, m) /\ (ph = "end" => r.minor = 0 \/ l >= 2)
            \/ ph = "end" /\ r.minor = 1 /\ l = 1 /\ HasRead(c2, c, p, m)
<1>1. CASE ph = "none" /\ c.mode = "head" /\ c.body = <<>> /\ l = 0 /\ m = 0
  BY <1>1
<1>2. CASE ph = "start" /\ r.minor = 1 /\ InChunked(c, b, l, p, m, 0)
  <2>1. 0 \in {0, 2}
    OBVIOUS
  <2>2. /\ ClientIs(c2)
        /\ \/ c2.bodies = c.bodies /\ InChunked(c2, b2, l - 1, p, m, 0) /\ (0 = 2 => l >= 2)
           \/ 0 = 2 /\ l = 1 /\ c2.mode = "head" /\ c2.body = <<>> /\ c2.bodies = Append(c.bodies, BytesRun(p)[m])
    BY <1>2, <2>1, ChunksTaken
  <2>3. ClientIs(c2) /\ c2.bodies = c.bodies /\ InChunked(c2, b2, l - 1, p, m, 0)
    BY <2>2
  <2> QED
    BY <1>2, <2>3 DEF Reads, Reply
<1>3. CASE ph = "end" /\ r.minor = 1 /\ InChunked(c, b, l, p, m, 2)
  <2>1. 2 \in {0, 2}
    OBVIOUS
  <2>2. /\ ClientIs(c2)
        /\ \/ c2.bodies = c.bodies /\ InChunked(c2, b2, l - 1, p, m, 2) /\ (2 = 2 => l >= 2)
           \/ 2 = 2 /\ l = 1 /\ c2.mode = "head" /\ c2.body = <<>> /\ c2.bodies = Append(c.bodies, BytesRun(p)[m])
    BY <1>3, <2>1, ChunksTaken
  <2> QED
    BY <1>3, <2>2 DEF Reads, HasRead, Reply
<1>4. CASE ph \in {"start", "end"} /\ r.minor = 0 /\ InStream(c, b, l, BytesRun(p)[m])
  <2>1. PICK s \in Seq(Nat) : s = BytesRun(p)[m]
    BY BodyIs
  <2>2. ClientIs(c2) /\ c2.bodies = c.bodies /\ ToTheEnd(c2, b2, l - 1, s)
    BY <1>4, <2>1, StreamTaken
  <2> QED
    BY <1>4, <2>1, <2>2 DEF Reads, Reply, InStream
<1> QED
  BY <1>1, <1>2, <1>3, <1>4 DEF Reply

\* What the client of HTTP/1.0 does with the end of the connection.
LEMMA Completes ==
  ASSUME NEW c, ClientIs(c), NEW c2, c2 = Hr!Complete(c)
  PROVE  ClientIs(c2) /\ c2.mode = "head" /\ c2.body = <<>> /\ c2.bodies = Append(c.bodies, c.body)
<1>1. /\ c.mode \in Modes /\ c.left \in Nat /\ c.body \in Seq(Nat) /\ c.bodies \in Seq(Seq(Nat)) /\ c.lost = FALSE
      /\ c = [mode |-> c.mode, left |-> c.left, body |-> c.body, bodies |-> c.bodies, lost |-> c.lost]
  BY DEF ClientIs
<1>2. /\ c2.mode = "head" /\ c2.left = c.left /\ c2.body = <<>> /\ c2.bodies = Append(c.bodies, c.body) /\ c2.lost = c.lost
      /\ c2 = [mode |-> c2.mode, left |-> c2.left, body |-> c2.body, bodies |-> c2.bodies, lost |-> c2.lost]
  BY <1>1 DEF Hr!Complete
<1>3. Append(c.bodies, c.body) \in Seq(Seq(Nat)) /\ <<>> \in Seq(Nat) /\ "head" \in Modes
  BY <1>1 DEF Modes
<1>4. c2.mode \in Modes /\ c2.left \in Nat /\ c2.body \in Seq(Nat) /\ c2.bodies \in Seq(Seq(Nat)) /\ c2.lost = FALSE
  BY <1>1, <1>2, <1>3
<1>5. ClientIs(c2)
  BY <1>2, <1>4 DEF ClientIs
<1> QED
  BY <1>2, <1>5

LEMMA ReplyCut ==
  ASSUME NEW r, r.minor = 0, NEW ph, ph # "none", NEW c, ClientIs(c), NEW b, NEW p, NEW m \in Nat, IsPieces(p, m),
         Reply(r, ph, c, b, 0, p, m), NEW c2, c2 = Hr!ClientEof(c)
  PROVE  ClientIs(c2) /\ HasRead(c2, c, p, m)
<1>1. PICK s \in Seq(Nat) : s = BytesRun(p)[m]
  BY BodyIs
<1>2. InStream(c, b, 0, s)
  BY <1>1 DEF Reply
<1>3. ToTheEnd(c, b, 0, s)
  BY <1>2 DEF InStream, BeforeHead
<1>4. c.mode = "eof" /\ c.body = s
  BY <1>3, StreamRead
<1>5. c2 = Hr!Complete(c)
  BY <1>4 DEF Hr!ClientEof
<1>6. ClientIs(c2) /\ c2.mode = "head" /\ c2.body = <<>> /\ c2.bodies = Append(c.bodies, c.body)
  BY <1>5, Completes
<1> QED
  BY <1>1, <1>4, <1>6 DEF HasRead

-----------------------------------------------------------------------------
(* The bodies that it has read.                                            *)

BodiesTold(bodies, n, ss) == Len(bodies) = n /\ \A i \in 1..n : bodies[i] = Hr!Bytes(ss[i])
Last(ss, n, p, m) == Len(ss) = n + 1 /\ p = ss[n + 1] /\ IsPieces(p, m)

LEMMA ToldMore ==
  ASSUME NEW bodies \in Seq(Seq(Nat)), NEW n \in Nat, NEW ss, BodiesTold(bodies, n, ss), NEW p, NEW m \in Nat, Last(ss, n, p, m),
         NEW s \in Seq(Nat), s = BytesRun(p)[m], NEW b2, b2 = Append(bodies, s)
  PROVE  BodiesTold(b2, n + 1, ss)
<1>1. Len(bodies) = n /\ \A i \in 1..n : bodies[i] = Hr!Bytes(ss[i])
  BY DEF BodiesTold
<1>2. Len(b2) = n + 1 /\ (\A i \in 1..n : b2[i] = bodies[i]) /\ b2[n + 1] = s
  BY <1>1
<1>3. m = Len(p) /\ p = ss[n + 1]
  BY DEF Last, IsPieces
<1>4. Hr!Bytes(ss[n + 1]) = s
  BY <1>3, BytesUnfold
<1>5. ASSUME NEW i \in 1..(n + 1)
      PROVE  b2[i] = Hr!Bytes(ss[i])
  <2>1. CASE i = n + 1
    BY <1>2, <1>4, <2>1
  <2>2. CASE i # n + 1
    <3>1. i \in 1..n
      BY <2>2
    <3> QED
      BY <1>1, <1>2, <3>1
  <2> QED
    BY <2>1, <2>2
<1> QED
  BY <1>2, <1>5 DEF BodiesTold

LEMMA ToldKept ==
  ASSUME NEW bodies, NEW n \in Nat, NEW ss, BodiesTold(bodies, n, ss), NEW s2, \A i \in 1..n : s2[i] = ss[i]
  PROVE  BodiesTold(bodies, n, s2)
BY DEF BodiesTold

-----------------------------------------------------------------------------
(* The output buffer.                                                      *)

Length(s, n) == Len(s) = n
Drops(b2, b) == b2 = Tail(b)
Adds(b2, b, t) == b2 = b \o t

LEMMA TokenTaken ==
  ASSUME NEW b \in Seq(OutToken), NEW l \in Nat, Length(b, l), l >= 1, NEW b2, Drops(b2, b)
  PROVE  /\ b2 \in Seq(OutToken) /\ Length(b2, l - 1) /\ Shifted(b2, b, 1, l) /\ Head(b) = b[1] /\ b[1].n \in Nat
         /\ (b2 # <<>> <=> l > 1)
<1>1. Len(b) = l /\ b2 = Tail(b)
  BY DEF Length, Drops
<1>2. b # <<>> /\ b[1] \in OutToken
  BY <1>1
<1>3. b2 \in Seq(OutToken) /\ Len(b2) = l - 1 /\ Head(b) = b[1] /\ \A i \in 1..(l - 1) : b2[i] = b[i + 1]
  BY <1>1, <1>2
<1>4. \A i \in (1 + 1)..l : i - 1 \in 1..(l - 1) /\ (i - 1) + 1 = i
  OBVIOUS
<1>5. \A i \in (1 + 1)..l : b2[i - 1] = b[i]
  BY <1>3, <1>4
<1>6. b2 # <<>> <=> l > 1
  BY <1>3
<1>7. b[1].n \in Nat
  BY <1>2 DEF OutToken
<1> QED
  BY <1>3, <1>5, <1>6, <1>7 DEF Length, Shifted

LEMMA TokensJoin ==
  ASSUME NEW b \in Seq(OutToken), NEW t \in Seq(OutToken)
  PROVE  /\ b \o t \in Seq(OutToken) /\ Len(b \o t) = Len(b) + Len(t) /\ (\A i \in 1..Len(b) : (b \o t)[i] = b[i])
         /\ \A i \in 1..Len(t) : (b \o t)[Len(b) + i] = t[i]
OBVIOUS

LEMMA TokensAdded ==
  ASSUME NEW b \in Seq(OutToken), NEW l \in Nat, Length(b, l), NEW t \in Seq(OutToken), NEW n \in Nat \ {0}, Length(t, n), NEW b2, Adds(b2, b, t)
  PROVE  /\ b2 \in Seq(OutToken) /\ Length(b2, l + n) /\ Kept(b2, b, l) /\ b2 # <<>>
         /\ \A i \in 1..n : b2[l + i] = t[i]
<1>1. Len(b) = l /\ Len(t) = n /\ b2 = b \o t
  BY DEF Length, Adds
<1>2. /\ b \o t \in Seq(OutToken) /\ Len(b \o t) = Len(b) + Len(t) /\ (\A i \in 1..Len(b) : (b \o t)[i] = b[i])
      /\ \A i \in 1..Len(t) : (b \o t)[Len(b) + i] = t[i]
  BY TokensJoin
<1>4. /\ b2 \in Seq(OutToken) /\ Len(b2) = l + n /\ (\A i \in 1..l : b2[i] = b[i])
      /\ \A i \in 1..n : b2[l + i] = t[i]
  BY <1>1, <1>2
<1>3. b2 # <<>>
  BY <1>4
<1> QED
  BY <1>3, <1>4 DEF Length, Kept

\* What evhttp_send_reply_chunk() adds.
LEMMA ChunkIs ==
  ASSUME NEW x \in Nat \ {0}, NEW t, t = <<Hr!Size(x)>> \o [i \in 1..x |-> Hr!Byte(i)] \o <<Hr!Crlf>>
  PROVE  /\ t \in Seq(OutToken) /\ Length(t, x + 2) /\ t[1] = Hr!Size(x) /\ t[x + 2] = Hr!Crlf
         /\ \A i \in 1..x : t[1 + i] = Hr!Byte(i)
<1>1. PICK h \in OutToken : h = Hr!Size(x)
  BY TokensIs
<1>2. PICK z \in OutToken : z = Hr!Crlf
  BY TokensIs
<1>3. PICK d : d = [i \in 1..x |-> Hr!Byte(i)]
  OBVIOUS
<1>4. d \in Seq(OutToken) /\ Len(d) = x /\ \A i \in 1..x : d[i] = Hr!Byte(i)
  <2>1. \A i \in 1..x : Hr!Byte(i) \in OutToken
    BY TokensIs
  <2>2. d \in [1..x -> OutToken]
    BY <1>3, <2>1
  <2> QED
    BY <1>3, <2>2
<1>5. PICK u \in Seq(OutToken) : Len(u) = 1 + x /\ u = <<h>> \o d /\ u[1] = h /\ \A i \in 1..x : u[1 + i] = d[i]
  <2>1. <<h>> \o d \in Seq(OutToken) /\ Len(<<h>> \o d) = 1 + x /\ (<<h>> \o d)[1] = h /\ \A i \in 1..x : (<<h>> \o d)[1 + i] = d[i]
    BY <1>4
  <2> QED
    BY <2>1
<1>6. t = u \o <<z>>
  BY <1>1, <1>2, <1>3, <1>5
<1>7. t \in Seq(OutToken) /\ Len(t) = x + 2 /\ (\A i \in 1..(1 + x) : t[i] = u[i]) /\ t[x + 2] = z
  <2>1. <<z>> \in Seq(OutToken) /\ Len(<<z>>) = 1 /\ <<z>>[1] = z
    OBVIOUS
  <2>2. PICK v \in Seq(OutToken) : v = <<z>>
    BY <2>1
  <2>3. /\ u \o v \in Seq(OutToken) /\ Len(u \o v) = Len(u) + Len(v) /\ (\A i \in 1..Len(u) : (u \o v)[i] = u[i])
        /\ \A i \in 1..Len(v) : (u \o v)[Len(u) + i] = v[i]
    BY TokensJoin
  <2>4. Len(v) = 1 /\ v[1] = z
    BY <2>1, <2>2
  <2>5. t = u \o v
    BY <1>6, <2>2
  <2>6. Len(u) = 1 + x /\ (1 + x) + 1 = x + 2 /\ 1 \in 1..1
    BY <1>5
  <2> QED
    BY <2>3, <2>4, <2>5, <2>6
<1>8. \A i \in 1..x : 1 + i \in 1..(1 + x)
  OBVIOUS
<1>9. \A i \in 1..x : t[1 + i] = Hr!Byte(i)
  BY <1>4, <1>5, <1>7, <1>8
<1>10. t[1] = Hr!Size(x)
  BY <1>1, <1>5, <1>7
<1> QED
  BY <1>2, <1>7, <1>9, <1>10 DEF Length

LEMMA BytesAre ==
  ASSUME NEW x \in Nat \ {0}, NEW t, t = [i \in 1..x |-> Hr!Byte(i)]
  PROVE  t \in Seq(OutToken) /\ Length(t, x) /\ \A i \in 1..x : t[i].n = i
<1>1. \A i \in 1..x : Hr!Byte(i) \in OutToken
  BY TokensIs
<1>2. t \in [1..x -> OutToken] /\ \A i \in 1..x : t[i] = Hr!Byte(i)
  BY <1>1
<1>3. t \in Seq(OutToken) /\ Len(t) = x
  BY <1>2
<1>4. \A i \in 1..x : Hr!Byte(i).n = i
  BY DEF Hr!Byte
<1> QED
  BY <1>2, <1>3, <1>4 DEF Length

-----------------------------------------------------------------------------
(* The inductive invariant: between two requests everything is read that   *)
(* was sent, in a reply the client has read what is not in the buffer any  *)
(* more.                                                                   *)

HrTypes == /\ rreq \in Streamed \cup {Hr!NoRequest} /\ phase \in {"none", "start", "end"}
           /\ open \in BOOLEAN /\ freed \in BOOLEAN /\ gone \in BOOLEAN /\ rev \in BOOLEAN /\ cb \in BOOLEAN
           /\ outbuf \in Seq(OutToken) /\ (rev <=> outbuf # <<>>)
           /\ sent \in Seq(Seq(Nat \ {0})) /\ ClientIs(decoder)

Waits == /\ rreq = Hr!NoRequest /\ ~freed /\ open /\ outbuf = <<>> /\ cb = FALSE
         /\ decoder.mode = "head" /\ decoder.body = <<>>
         /\ \E n \in Nat : /\ Length(sent, n) /\ BodiesTold(decoder.bodies, n, sent)
                           /\ phase = "end" \/ (phase = "none" /\ n = 0)

Streams == /\ rreq \in Streamed /\ ~freed /\ open /\ cb = (phase = "end")
           /\ \E n, m, l \in Nat : \E p : /\ Last(sent, n, p, m) /\ Length(outbuf, l) /\ BodiesTold(decoder.bodies, n, sent)
                                          /\ Reply(rreq, phase, decoder, outbuf, l, p, m)

Finished == /\ rreq = Hr!NoRequest /\ freed /\ ~open /\ outbuf = <<>>
        /\ \E n, m \in Nat : /\ Length(sent, n) /\ m <= n /\ BodiesTold(decoder.bodies, m, sent)
                             /\ n = m => phase = "end"

HrInv == HrTypes /\ (Waits \/ Streams \/ Finished)

LEMMA NotAsked ==
  ASSUME Streamable, HrInv, rreq # Hr!NoRequest
  PROVE  Streams
BY DEF HrInv, Waits, Finished

LEMMA HrStarts == Streamable /\ Hr!Init => HrInv
<1> SUFFICES ASSUME Streamable, Hr!Init
             PROVE  HrInv
  OBVIOUS
<1>1. /\ rreq = Hr!NoRequest /\ phase = "none" /\ open = TRUE /\ freed = FALSE
      /\ outbuf = <<>> /\ rev = FALSE /\ cb = FALSE /\ gone = FALSE
      /\ sent = <<>> /\ decoder = Hr!NewClient
  BY DEF Hr!Init
<1>2. /\ decoder.mode = "head" /\ decoder.left = 0 /\ decoder.body = <<>> /\ decoder.bodies = <<>> /\ decoder.lost = FALSE
      /\ decoder = [mode |-> decoder.mode, left |-> decoder.left, body |-> decoder.body, bodies |-> decoder.bodies,
                   lost |-> decoder.lost]
  BY <1>1 DEF Hr!NewClient
<1>3. ClientIs(decoder)
  <2>1. <<>> \in Seq(Nat) /\ <<>> \in Seq(Seq(Nat)) /\ "head" \in Modes /\ 0 \in Nat
    BY DEF Modes
  <2> QED
    BY <1>2, <2>1 DEF ClientIs
<1>4. HrTypes
  <2>1. <<>> \in Seq(OutToken) /\ <<>> \in Seq(Seq(Nat \ {0}))
    OBVIOUS
  <2> QED
    BY <1>1, <1>3, <2>1 DEF HrTypes
<1>5. Length(sent, 0) /\ BodiesTold(decoder.bodies, 0, sent) /\ 0 \in Nat
  BY <1>1, <1>2 DEF Length, BodiesTold
<1>6. Waits
  BY <1>1, <1>2, <1>5 DEF Waits
<1> QED
  BY <1>4, <1>6 DEF HrInv

\* A request:
LEMMA HrArrives ==
  ASSUME Streamable, HrInv, NEW r \in Streamed, Hr!Arrive(r)
  PROVE  HrInv'
<1>1. /\ ~freed /\ rreq = Hr!NoRequest /\ rreq' = r /\ phase' = "none" /\ sent' = Append(sent, <<>>)
      /\ UNCHANGED <<open, freed, outbuf, rev, cb, gone, decoder>>
  BY DEF Hr!Arrive
<1>2. r # Hr!NoRequest
  BY AskedIs
<1>3. Waits
  BY <1>1, AskedIs DEF HrInv, Streams, Finished
<1>4. HrTypes
  BY DEF HrInv
<1>5. PICK n \in Nat : Length(sent, n) /\ BodiesTold(decoder.bodies, n, sent)
  BY <1>3 DEF Waits
<1>6. sent' \in Seq(Seq(Nat \ {0})) /\ Len(sent') = n + 1 /\ (\A i \in 1..n : sent'[i] = sent[i]) /\ sent'[n + 1] = <<>>
  <2>1. sent \in Seq(Seq(Nat \ {0})) /\ <<>> \in Seq(Nat \ {0}) /\ Len(sent) = n
    BY <1>4, <1>5 DEF HrTypes, Length
  <2> QED
    BY <1>1, <2>1
<1>7. HrTypes'
  BY <1>1, <1>4, <1>6 DEF HrTypes
<1>8. IsPieces(<<>>, 0) /\ Last(sent', n, <<>>, 0)
  BY <1>6 DEF IsPieces, Last
<1>9. BodiesTold(decoder'.bodies, n, sent')
  BY <1>1, <1>5, <1>6, ToldKept
<1>10. Length(outbuf', 0)
  BY <1>1, <1>3 DEF Waits, Length
<1>11. Reply(rreq', phase', decoder', outbuf', 0, <<>>, 0)
  BY <1>1, <1>3 DEF Waits, Reply
<1>12. cb' = (phase' = "end")
  BY <1>1, <1>3 DEF Waits
<1>13. ~freed' /\ open' /\ rreq' \in Streamed
  BY <1>1, <1>3 DEF Waits
<1>14. Streams'
  <2>1. 0 \in Nat
    OBVIOUS
  <2> QED
    BY <1>8, <1>9, <1>10, <1>11, <1>12, <1>13, <2>1 DEF Streams
<1> QED
  BY <1>7, <1>14 DEF HrInv

\* the head of the reply,
LEMMA HrBegins ==
  ASSUME Streamable, HrInv, Hr!SendReplyStart
  PROVE  HrInv'
<1>1. /\ rreq # Hr!NoRequest /\ phase = "none"
      /\ outbuf' = outbuf \o <<Hr!Heading(rreq.minor = 1, Hr!HasLength(rreq, rreq.minor = 1))>>
      /\ rev' = TRUE /\ cb' = FALSE /\ phase' = "start"
      /\ UNCHANGED <<rreq, open, freed, gone, sent, decoder>>
  BY DEF Hr!SendReplyStart, Hr!Uses, Hr!WriteBuffer
<1>2. Streams /\ HrTypes
  BY <1>1, NotAsked DEF HrInv
<1>0. PICK n, m, l \in Nat : \E p : /\ Last(sent, n, p, m) /\ Length(outbuf, l) /\ BodiesTold(decoder.bodies, n, sent)
                                    /\ Reply(rreq, phase, decoder, outbuf, l, p, m)
  BY <1>2 DEF Streams
<1>3. PICK p : /\ Last(sent, n, p, m) /\ Length(outbuf, l) /\ BodiesTold(decoder.bodies, n, sent)
               /\ Reply(rreq, phase, decoder, outbuf, l, p, m)
  BY <1>0
<1>4. decoder.mode = "head" /\ decoder.body = <<>> /\ l = 0 /\ m = 0
  BY <1>1, <1>3 DEF Reply
<1>5. /\ rreq.minor \in {0, 1} /\ Hr!HasLength(rreq, rreq.minor = 1) = FALSE
  <2>1. rreq \in Streamed
    BY <1>2 DEF Streams
  <2> QED
    BY <2>1, AskedIs
<1>6. PICK h \in OutToken : h = Hr!Heading(rreq.minor = 1, FALSE)
  BY TokensIs
<1>7. outbuf' \in Seq(OutToken) /\ Len(outbuf') = 1 /\ outbuf'[1] = h /\ outbuf' # <<>>
  <2>1. outbuf \in Seq(OutToken) /\ Len(outbuf) = 0
    BY <1>2, <1>3, <1>4 DEF HrTypes, Length
  <2>2. outbuf' = outbuf \o <<h>>
    BY <1>1, <1>5, <1>6
  <2>3. outbuf = <<>>
    BY <2>1
  <2>4. outbuf' = <<h>>
    BY <2>2, <2>3
  <2> QED
    BY <2>4
<1>8. HrTypes'
  BY <1>1, <1>2, <1>7 DEF HrTypes
<1>9. Length(outbuf', 1) /\ 1 \in Nat
  BY <1>7 DEF Length
<1>10. Reply(rreq', phase', decoder', outbuf', 1, p, m)
  <2>1. CASE rreq.minor = 1
    <3>1. outbuf'[1] = Hr!Heading(TRUE, FALSE)
      BY <1>6, <1>7, <2>1
    <3>2. InChunked(decoder, outbuf', 1, p, 0, 0)
      BY <1>4, <3>1, ChunksStart
    <3> QED
      BY <1>1, <1>4, <2>1, <3>2 DEF Reply
  <2>2. CASE rreq.minor = 0
    <3>0. (rreq.minor = 1) = FALSE
      BY <2>2
    <3>1. outbuf'[1] = Hr!Heading(FALSE, FALSE)
      BY <1>6, <1>7, <3>0
    <3>2. InStream(decoder, outbuf', 1, <<>>)
      BY <1>4, <3>1, StreamStart
    <3>3. BytesRun(p)[m] = <<>>
      <4>1. IsPieces(p, m)
        BY <1>3 DEF Last
      <4>2. /\ p \in Seq(Nat) /\ m = Len(p) /\ PieceSizes(p, m) /\ (\A i \in 1..m : p[i] \in Nat \ {0})
            /\ RunTyped(BytesRun(p), p, m)
        BY <4>1, PiecesAre
      <4> QED
        BY <1>4, <4>2 DEF RunTyped
    <3> QED
      BY <1>1, <2>2, <3>2, <3>3 DEF Reply
  <2> QED
    BY <1>5, <2>1, <2>2
<1>11. Streams'
  BY <1>1, <1>2, <1>3, <1>9, <1>10 DEF Streams
<1> QED
  BY <1>8, <1>11 DEF HrInv

\* a piece of it,
LEMMA HrChunk ==
  ASSUME Streamable, HrInv, NEW x \in Sizes, Hr!SendReplyChunk(x)
  PROVE  HrInv'
<1>1. /\ rreq # Hr!NoRequest /\ phase = "start" /\ outbuf' = outbuf \o Hr!Chunk(x) /\ rev' = TRUE /\ cb' = FALSE
      /\ sent' = [sent EXCEPT ![Len(sent)] = Append(@, x)]
      /\ UNCHANGED <<rreq, phase, open, freed, gone, decoder>>
  BY DEF Hr!SendReplyChunk, Hr!Uses, Hr!WriteBuffer
<1>2. Streams /\ HrTypes
  BY <1>1, NotAsked DEF HrInv
<1>3. PICK y \in Nat \ {0} : y = x
  BY DEF Streamable, Hr!Sane
<1>4. PICK n, m, l \in Nat : \E p : /\ Last(sent, n, p, m) /\ Length(outbuf, l) /\ BodiesTold(decoder.bodies, n, sent)
                                    /\ Reply(rreq, phase, decoder, outbuf, l, p, m)
  BY <1>2 DEF Streams
<1>5. PICK p : /\ Last(sent, n, p, m) /\ Length(outbuf, l) /\ BodiesTold(decoder.bodies, n, sent)
               /\ Reply(rreq, phase, decoder, outbuf, l, p, m)
  BY <1>4
<1>6. PICK p2 : Added(p2, p, y)
  BY DEF Added
<1>7. Len(sent) = n + 1 /\ p = sent[n + 1] /\ IsPieces(p, m)
  BY <1>5 DEF Last
<1>20. IsPieces(p, m)
  BY <1>7
<1>8. /\ IsPieces(p2, m + 1) /\ OneMore(p2, p, m, y)
      /\ (\A k \in 0..m : BytesRun(p2)[k] = BytesRun(p)[k])
      /\ BytesRun(p2)[m + 1] = BytesRun(p)[m] \o Ones(y)
  BY <1>6, <1>20, PieceAdded
<1>9. sent' \in Seq(Seq(Nat \ {0})) /\ Len(sent') = n + 1 /\ (\A i \in 1..n : sent'[i] = sent[i]) /\ sent'[n + 1] = p2
  <2>1. p2 \in Seq(Nat \ {0})
    BY <1>8 DEF IsPieces
  <2>2. sent \in Seq(Seq(Nat \ {0}))
    BY <1>2 DEF HrTypes
  <2>3. sent' = [sent EXCEPT ![n + 1] = p2]
    <3>1. Append(p, y) = p2
      BY <1>6 DEF Added
    <3> QED
      BY <1>1, <1>3, <1>7, <3>1
  <2>4. n + 1 \in 1..Len(sent)
    BY <1>7
  <2> QED
    BY <1>7, <2>1, <2>2, <2>3, <2>4
<1>10. Last(sent', n, p2, m + 1)
  BY <1>8, <1>9 DEF Last
<1>11. BodiesTold(decoder'.bodies, n, sent')
  BY <1>1, <1>5, <1>9, ToldKept
<1>12. outbuf \in Seq(OutToken) /\ Length(outbuf, l) /\ ClientIs(decoder)
  BY <1>2, <1>5 DEF HrTypes
<1>13. /\ outbuf' \in Seq(OutToken) /\ outbuf' # <<>>
       /\ \E l2 \in Nat : Length(outbuf', l2) /\ Reply(rreq, phase, decoder, outbuf', l2, p2, m + 1)
  <2>1. CASE rreq.minor = 1
    <3>1. PICK t : t = <<Hr!Size(y)>> \o [i \in 1..y |-> Hr!Byte(i)] \o <<Hr!Crlf>>
      OBVIOUS
    <3>2. /\ t \in Seq(OutToken) /\ Length(t, y + 2) /\ t[1] = Hr!Size(y) /\ t[y + 2] = Hr!Crlf
          /\ \A i \in 1..y : t[1 + i] = Hr!Byte(i)
      BY <3>1, ChunkIs
    <3>3. Adds(outbuf', outbuf, t)
      BY <1>1, <1>3, <2>1, <3>1 DEF Hr!Chunk, Adds
    <3>4. PICK z \in Nat \ {0} : z = y + 2
      OBVIOUS
    <3>12. Length(t, z)
      BY <3>2, <3>4
    <3>13. /\ outbuf' \in Seq(OutToken) /\ Length(outbuf', l + z) /\ Kept(outbuf', outbuf, l) /\ outbuf' # <<>>
           /\ \A i \in 1..z : outbuf'[l + i] = t[i]
      BY <1>12, <3>2, <3>3, <3>12, TokensAdded
    <3>5. /\ outbuf' \in Seq(OutToken) /\ Length(outbuf', l + (y + 2)) /\ Kept(outbuf', outbuf, l) /\ outbuf' # <<>>
          /\ \A i \in 1..(y + 2) : outbuf'[l + i] = t[i]
      BY <3>4, <3>13
    <3>6. Block(outbuf', l, y)
      <4>1. 1 \in 1..(y + 2) /\ y + 2 \in 1..(y + 2) /\ l + (y + 2) = l + y + 2
        OBVIOUS
      <4>2. \A i \in 1..y : 1 + i \in 1..(y + 2) /\ l + (1 + i) = l + 1 + i
        OBVIOUS
      <4>3. outbuf'[l + 1] = Hr!Size(y) /\ outbuf'[l + y + 2] = Hr!Crlf
        BY <3>2, <3>5, <4>1
      <4>4. ASSUME NEW i \in 1..y
            PROVE  outbuf'[l + 1 + i] = Hr!Byte(i)
        <5>1. outbuf'[l + (1 + i)] = t[1 + i]
          BY <3>5, <4>2
        <5> QED
          BY <3>2, <4>2, <5>1
      <4> QED
        BY <4>3, <4>4 DEF Block
    <3>7. PICK l2 \in Nat : l2 = l + (y + 2)
      OBVIOUS
    <3>8. Plus(l2, l, y + 2)
      BY <3>7 DEF Plus
    <3>9. InChunked(decoder, outbuf, l, p, m, 0)
      BY <1>1, <1>5, <2>1 DEF Reply
    <3>10. InChunked(decoder, outbuf', l2, p2, m + 1, 0)
      BY <1>6, <1>20, <3>5, <3>6, <3>8, <3>9, ChunksMore
    <3> QED
      BY <1>1, <2>1, <3>5, <3>7, <3>10 DEF Reply
  <2>2. CASE rreq.minor # 1
    <3>1. PICK t : t = [i \in 1..y |-> Hr!Byte(i)]
      OBVIOUS
    <3>2. t \in Seq(OutToken) /\ Length(t, y) /\ \A i \in 1..y : t[i].n = i
      BY <3>1, BytesAre
    <3>4. t \in Seq(OutToken) /\ Length(t, y)
      BY <3>2
    <3>3. Adds(outbuf', outbuf, t)
      BY <1>1, <1>3, <2>2, <3>1 DEF Hr!Chunk, Adds
    <3>5. /\ outbuf' \in Seq(OutToken) /\ Length(outbuf', l + y) /\ Kept(outbuf', outbuf, l) /\ outbuf' # <<>>
          /\ \A i \in 1..y : outbuf'[l + i] = t[i]
      BY <1>12, <3>4, <3>3, TokensAdded
    <3>6. \A i \in 1..y : outbuf'[l + i].n = i
      BY <3>2, <3>5
    <3>7. PICK l2 \in Nat : l2 = l + y
      OBVIOUS
    <3>8. Plus(l2, l, y) /\ y \in Nat
      BY <3>7 DEF Plus
    <3>9. InStream(decoder, outbuf, l, BytesRun(p)[m]) /\ rreq.minor = 0
      BY <1>1, <1>5, <2>2 DEF Reply
    <3>10. PICK s \in Seq(Nat) : s = BytesRun(p)[m]
      BY <1>20, BodyIs
    <3>11. InStream(decoder, outbuf', l2, s \o Ones(y))
      BY <1>12, <3>5, <3>6, <3>8, <3>9, <3>10, StreamMore
    <3> QED
      BY <1>1, <1>8, <3>5, <3>7, <3>9, <3>10, <3>11 DEF Reply
  <2> QED
    BY <2>1, <2>2
<1>14. HrTypes'
  BY <1>1, <1>2, <1>9, <1>13 DEF HrTypes
<1>15. PICK l2 \in Nat : Length(outbuf', l2) /\ Reply(rreq', phase', decoder', outbuf', l2, p2, m + 1)
  BY <1>1, <1>13
<1>16. m + 1 \in Nat /\ cb' = (phase' = "end")
  <2>1. m + 1 \in Nat
    OBVIOUS
  <2>2. cb' = FALSE /\ phase' # "end"
    BY <1>1
  <2> QED
    BY <2>1, <2>2
<1>17. rreq' \in Streamed /\ ~freed' /\ open'
  BY <1>1, <1>2 DEF Streams
<1>18. Streams'
  BY <1>10, <1>11, <1>15, <1>16, <1>17 DEF Streams
<1> QED
  BY <1>14, <1>18 DEF HrInv

\* The connection is freed.
LEMMA HrFrees ==
  ASSUME HrTypes, Hr!Free, UNCHANGED <<gone, sent>>, phase' \in {"none", "start", "end"}, ClientIs(decoder'),
         NEW n \in Nat, Length(sent, n), NEW m \in Nat, m <= n, BodiesTold(decoder'.bodies, m, sent), n = m => phase' = "end"
  PROVE  HrInv'
<1>1. /\ freed' = TRUE /\ open' = FALSE /\ rreq' = Hr!NoRequest /\ outbuf' = <<>> /\ rev' = FALSE /\ cb' = FALSE
      /\ gone' = gone /\ sent' = sent
  BY DEF Hr!Free
<1>2. HrTypes'
  <2>1. <<>> \in Seq(OutToken)
    OBVIOUS
  <2> QED
    BY <1>1, <2>1 DEF HrTypes
<1>3. Finished'
  BY <1>1 DEF Finished
<1> QED
  BY <1>2, <1>3 DEF HrInv

\* The reply is read, and the connection goes on.
LEMMA HrGoesOn ==
  ASSUME HrTypes, rreq' = Hr!NoRequest, freed' = FALSE, open' = TRUE, outbuf' = <<>>, rev' = FALSE, cb' = FALSE,
         phase' = "end", UNCHANGED <<gone, sent>>, ClientIs(decoder'), decoder'.mode = "head", decoder'.body = <<>>,
         NEW n \in Nat, Length(sent, n), BodiesTold(decoder'.bodies, n, sent)
  PROVE  HrInv'
<1>1. gone' = gone /\ sent' = sent
  OBVIOUS
<1>2. HrTypes'
  <2>1. <<>> \in Seq(OutToken)
    OBVIOUS
  <2> QED
    BY <1>1, <2>1 DEF HrTypes
<1>3. Waits'
  BY <1>1 DEF Waits
<1> QED
  BY <1>2, <1>3 DEF HrInv

LEMMA ReadIsTold ==
  ASSUME NEW c, ClientIs(c), NEW n \in Nat, NEW ss, BodiesTold(c.bodies, n, ss), NEW p, NEW m \in Nat, Last(ss, n, p, m),
         NEW c2, HasRead(c2, c, p, m)
  PROVE  BodiesTold(c2.bodies, n + 1, ss) /\ c2.mode = "head" /\ c2.body = <<>>
<1>1. IsPieces(p, m)
  BY DEF Last
<1>2. PICK s \in Seq(Nat) : s = BytesRun(p)[m]
  BY <1>1, BodyIs
<1>3. c.bodies \in Seq(Seq(Nat))
  BY DEF ClientIs
<1>4. c2.bodies = Append(c.bodies, s) /\ c2.mode = "head" /\ c2.body = <<>>
  BY <1>2 DEF HasRead
<1>5. BodiesTold(c2.bodies, n + 1, ss)
  BY <1>2, <1>3, <1>4, ToldMore
<1> QED
  BY <1>4, <1>5

\* its end,
LEMMA HrEnds ==
  ASSUME Streamable, HrInv, Hr!SendReplyEnd
  PROVE  HrInv'
<1>1. rreq # Hr!NoRequest /\ phase = "start" /\ phase' = "end" /\ gone' = gone /\ sent' = sent
  BY DEF Hr!SendReplyEnd, Hr!Uses
<1>2. Streams /\ HrTypes
  BY <1>1, NotAsked DEF HrInv
<1>3. PICK n, m, l \in Nat : \E p : /\ Last(sent, n, p, m) /\ Length(outbuf, l) /\ BodiesTold(decoder.bodies, n, sent)
                                    /\ Reply(rreq, phase, decoder, outbuf, l, p, m)
  BY <1>2 DEF Streams
<1>4. PICK p : /\ Last(sent, n, p, m) /\ Length(outbuf, l) /\ BodiesTold(decoder.bodies, n, sent)
               /\ Reply(rreq, phase, decoder, outbuf, l, p, m)
  BY <1>3
<1>5. IsPieces(p, m)
  BY <1>4 DEF Last
<1>6. outbuf \in Seq(OutToken) /\ Length(outbuf, l) /\ ClientIs(decoder)
  BY <1>2, <1>4 DEF HrTypes
<1>7. CASE /\ rreq.minor = 1
           /\ Hr!WriteBuffer(<<Hr!Size(0), Hr!Crlf>>, TRUE)
           /\ UNCHANGED <<rreq, open, freed, decoder>>
  <2>1. /\ outbuf' = outbuf \o <<Hr!Size(0), Hr!Crlf>> /\ rev' = TRUE /\ cb' = TRUE
        /\ rreq' = rreq /\ open' = open /\ freed' = freed /\ decoder' = decoder
    BY <1>7 DEF Hr!WriteBuffer
  <2>2. PICK t : t = <<Hr!Size(0), Hr!Crlf>>
    OBVIOUS
  <2>3. t \in Seq(OutToken) /\ Length(t, 2) /\ t[1] = Hr!Size(0) /\ t[2] = Hr!Crlf
    <3>1. Hr!Size(0) \in OutToken /\ Hr!Crlf \in OutToken
      BY TokensIs
    <3> QED
      BY <2>2, <3>1 DEF Length
  <2>4. PICK z \in Nat \ {0} : z = 2
    OBVIOUS
  <2>5. Length(t, z) /\ Adds(outbuf', outbuf, t)
    BY <2>1, <2>2, <2>3, <2>4 DEF Adds
  <2>6. /\ outbuf' \in Seq(OutToken) /\ Length(outbuf', l + z) /\ Kept(outbuf', outbuf, l) /\ outbuf' # <<>>
        /\ \A i \in 1..z : outbuf'[l + i] = t[i]
    BY <1>6, <2>3, <2>5, TokensAdded
  <2>7. Closing(outbuf', l)
    <3>1. 1 \in 1..z /\ 2 \in 1..z
      BY <2>4
    <3> QED
      BY <2>3, <2>6, <3>1 DEF Closing
  <2>8. PICK l2 \in Nat : l2 = l + 2
    OBVIOUS
  <2>9. Plus(l2, l, 2) /\ Length(outbuf', l2)
    BY <2>4, <2>6, <2>8 DEF Plus
  <2>10. InChunked(decoder, outbuf, l, p, m, 0)
    BY <1>1, <1>4, <1>7 DEF Reply
  <2>11. InChunked(decoder, outbuf', l2, p, m, 2)
    BY <1>5, <2>6, <2>7, <2>9, <2>10, ChunksClosed
  <2>12. Reply(rreq', phase', decoder', outbuf', l2, p, m)
    BY <1>1, <1>7, <2>1, <2>11 DEF Reply
  <2>13. HrTypes'
    BY <1>1, <1>2, <2>1, <2>6 DEF HrTypes
  <2>14. rreq' \in Streamed /\ ~freed' /\ open' /\ cb' = (phase' = "end")
    BY <1>1, <1>2, <2>1 DEF Streams
  <2>15. Last(sent', n, p, m) /\ BodiesTold(decoder'.bodies, n, sent')
    BY <1>1, <1>4, <2>1
  <2>16. Streams'
    BY <2>9, <2>12, <2>14, <2>15 DEF Streams
  <2> QED
    BY <2>13, <2>16 DEF HrInv
<1>8. CASE rreq.minor = 0 /\ ~rev /\ Hr!SendDone
  <2>1. Hr!NeedClose(rreq)
    BY <1>2, <1>8, AskedIs DEF Streams
  <2>2. Hr!Free /\ decoder' = Hr!ClientEof(decoder)
    BY <1>8, <2>1 DEF Hr!SendDone
  <2>3. l = 0
    <3>1. outbuf = <<>> /\ Len(outbuf) = l
      BY <1>2, <1>4, <1>8 DEF HrTypes, Length
    <3> QED
      BY <3>1
  <2>4. Reply(rreq, phase, decoder, outbuf, 0, p, m)
    BY <1>4, <2>3
  <2>5. phase # "none"
    BY <1>1
  <2>6. ClientIs(decoder') /\ HasRead(decoder', decoder, p, m)
    BY <1>5, <1>6, <1>8, <2>2, <2>4, <2>5, ReplyCut
  <2>7. BodiesTold(decoder'.bodies, n + 1, sent) /\ decoder'.mode = "head" /\ decoder'.body = <<>>
    BY <1>4, <1>6, <2>6, ReadIsTold
  <2>8. Length(sent, n + 1) /\ n + 1 \in Nat /\ n + 1 <= n + 1
    BY <1>4 DEF Last, Length
  <2>9. phase' \in {"none", "start", "end"} /\ UNCHANGED <<gone, sent>> /\ phase' = "end"
    BY <1>1
  <2> QED
    BY <1>2, <2>2, <2>6, <2>7, <2>8, <2>9, HrFrees
<1>9. CASE rreq.minor = 0 /\ rev /\ cb' = TRUE /\ UNCHANGED <<rreq, open, freed, outbuf, rev, decoder>>
  <2>1. Reply(rreq', phase', decoder', outbuf', l, p, m)
    BY <1>1, <1>4, <1>9 DEF Reply
  <2>2. HrTypes'
    BY <1>1, <1>2, <1>9 DEF HrTypes
  <2>3. rreq' \in Streamed /\ ~freed' /\ open' /\ cb' = (phase' = "end")
    BY <1>1, <1>2, <1>9 DEF Streams
  <2>4. Last(sent', n, p, m) /\ BodiesTold(decoder'.bodies, n, sent') /\ Length(outbuf', l)
    BY <1>1, <1>4, <1>9
  <2>5. Streams'
    BY <2>1, <2>3, <2>4 DEF Streams
  <2> QED
    BY <2>2, <2>5 DEF HrInv
<1> QED
  BY <1>7, <1>8, <1>9 DEF Hr!SendReplyEnd

\* What evhttp_write() has written is read.
LEMMA HrTaken ==
  ASSUME Streamable, HrInv, rev
  PROVE  /\ Streams /\ HrTypes
         /\ \E n, m, l \in Nat : \E p, b2, c2 :
              /\ Last(sent, n, p, m) /\ Length(outbuf, l) /\ BodiesTold(decoder.bodies, n, sent) /\ l >= 1 /\ phase # "none"
              /\ b2 = Tail(outbuf) /\ c2 = Hr!ClientTake(decoder, Head(outbuf)) /\ b2 \in Seq(OutToken) /\ Length(b2, l - 1)
              /\ (b2 # <<>> <=> l > 1) /\ ClientIs(c2)
              /\ \/ Reads(c2, decoder, rreq, phase, b2, l - 1, p, m) /\ (phase = "end" => rreq.minor = 0 \/ l >= 2)
                 \/ phase = "end" /\ rreq.minor = 1 /\ l = 1 /\ HasRead(c2, decoder, p, m)
<1>1. HrTypes /\ outbuf # <<>>
  BY DEF HrInv, HrTypes
<1>2. Streams
  BY <1>1 DEF HrInv, Waits, Finished
<1>3. PICK n, m, l \in Nat : \E p : /\ Last(sent, n, p, m) /\ Length(outbuf, l) /\ BodiesTold(decoder.bodies, n, sent)
                                    /\ Reply(rreq, phase, decoder, outbuf, l, p, m)
  BY <1>2 DEF Streams
<1>4. PICK p : /\ Last(sent, n, p, m) /\ Length(outbuf, l) /\ BodiesTold(decoder.bodies, n, sent)
               /\ Reply(rreq, phase, decoder, outbuf, l, p, m)
  BY <1>3
<1>5. IsPieces(p, m) /\ ClientIs(decoder) /\ outbuf \in Seq(OutToken)
  BY <1>1, <1>4 DEF Last, HrTypes
<1>6. l >= 1
  <2>1. Len(outbuf) = l
    BY <1>4 DEF Length
  <2> QED
    BY <1>1, <1>5, <2>1
<1>7. phase # "none"
  BY <1>4, <1>6 DEF Reply
<1>8. PICK b2 : Drops(b2, outbuf)
  BY DEF Drops
<1>9. /\ b2 \in Seq(OutToken) /\ Length(b2, l - 1) /\ Shifted(b2, outbuf, 1, l) /\ Head(outbuf) = outbuf[1]
      /\ outbuf[1].n \in Nat /\ (b2 # <<>> <=> l > 1)
  BY <1>4, <1>5, <1>6, <1>8, TokenTaken
<1>10. PICK c2 : c2 = Hr!ClientTake(decoder, outbuf[1])
  OBVIOUS
<1>11. /\ ClientIs(c2)
       /\ \/ Reads(c2, decoder, rreq, phase, b2, l - 1, p, m) /\ (phase = "end" => rreq.minor = 0 \/ l >= 2)
          \/ phase = "end" /\ rreq.minor = 1 /\ l = 1 /\ HasRead(c2, decoder, p, m)
  BY <1>4, <1>5, <1>6, <1>9, <1>10, ReplyTaken
<1>12. c2 = Hr!ClientTake(decoder, Head(outbuf)) /\ b2 = Tail(outbuf)
  BY <1>8, <1>9, <1>10 DEF Drops
<1> QED
  BY <1>1, <1>2, <1>4, <1>6, <1>7, <1>9, <1>11, <1>12

\* The client is still in the reply.
LEMMA HrStillIn ==
  ASSUME HrTypes, Streams, rreq' = rreq, phase' = phase, open' = open, freed' = freed, cb' = cb, gone' = gone, sent' = sent,
         NEW n \in Nat, NEW m \in Nat, NEW l \in Nat, NEW p, Last(sent, n, p, m), BodiesTold(decoder.bodies, n, sent),
         outbuf' \in Seq(OutToken), rev' \in BOOLEAN, rev' <=> outbuf' # <<>>, Length(outbuf', l), ClientIs(decoder'),
         Reads(decoder', decoder, rreq, phase, outbuf', l, p, m)
  PROVE  HrInv'
<1>1. decoder'.bodies = decoder.bodies /\ Reply(rreq', phase', decoder', outbuf', l, p, m)
  BY DEF Reads
<1>2. HrTypes'
  BY DEF HrTypes
<1>3. rreq' \in Streamed /\ ~freed' /\ open' /\ cb' = (phase' = "end")
  BY DEF Streams
<1>4. Last(sent', n, p, m) /\ BodiesTold(decoder'.bodies, n, sent')
  BY <1>1
<1>5. Streams'
  BY <1>1, <1>3, <1>4 DEF Streams
<1> QED
  BY <1>2, <1>5 DEF HrInv

\* It reads a part of it,
LEMMA HrWrites ==
  ASSUME Streamable, HrInv, Hr!WritePart
  PROVE  HrInv'
<1>1. /\ rev /\ Len(outbuf) > 1 /\ decoder' = Hr!ClientTake(decoder, Head(outbuf)) /\ outbuf' = Tail(outbuf)
      /\ rreq' = rreq /\ phase' = phase /\ open' = open /\ freed' = freed /\ rev' = rev /\ cb' = cb /\ gone' = gone /\ sent' = sent
  BY DEF Hr!WritePart, Hr!program
<1>2. Streams /\ HrTypes
  BY <1>1, HrTaken
<1>3. PICK n, m, l \in Nat : \E p, b2, c2 :
              /\ Last(sent, n, p, m) /\ Length(outbuf, l) /\ BodiesTold(decoder.bodies, n, sent) /\ l >= 1 /\ phase # "none"
              /\ b2 = Tail(outbuf) /\ c2 = Hr!ClientTake(decoder, Head(outbuf)) /\ b2 \in Seq(OutToken) /\ Length(b2, l - 1)
              /\ (b2 # <<>> <=> l > 1) /\ ClientIs(c2)
              /\ \/ Reads(c2, decoder, rreq, phase, b2, l - 1, p, m) /\ (phase = "end" => rreq.minor = 0 \/ l >= 2)
                 \/ phase = "end" /\ rreq.minor = 1 /\ l = 1 /\ HasRead(c2, decoder, p, m)
  BY <1>1, HrTaken
<1>4. PICK p :
              /\ Last(sent, n, p, m) /\ Length(outbuf, l) /\ BodiesTold(decoder.bodies, n, sent) /\ l >= 1 /\ phase # "none"
              /\ outbuf' \in Seq(OutToken) /\ Length(outbuf', l - 1)
              /\ (outbuf' # <<>> <=> l > 1) /\ ClientIs(decoder')
              /\ \/ Reads(decoder', decoder, rreq, phase, outbuf', l - 1, p, m) /\ (phase = "end" => rreq.minor = 0 \/ l >= 2)
                 \/ phase = "end" /\ rreq.minor = 1 /\ l = 1 /\ HasRead(decoder', decoder, p, m)
  BY <1>1, <1>3
<1>5. l > 1
  BY <1>1, <1>4 DEF Length
<1>6. PICK k \in Nat : k = l - 1
  BY <1>5
<1>7. /\ Reads(decoder', decoder, rreq, phase, outbuf', k, p, m) /\ Length(outbuf', k) /\ outbuf' # <<>> /\ rev'
      /\ rev' \in BOOLEAN
  BY <1>1, <1>2, <1>4, <1>5, <1>6 DEF HrTypes
<1> QED
  BY <1>1, <1>2, <1>4, <1>7, HrStillIn

\* or the rest.
LEMMA HrWritesRest ==
  ASSUME Streamable, HrInv, Hr!WriteRest
  PROVE  HrInv'
<1>1. rev /\ Len(outbuf) = 1 /\ phase' = phase /\ gone' = gone /\ sent' = sent
  BY DEF Hr!WriteRest
<1>2. Streams /\ HrTypes
  BY <1>1, HrTaken
<1>3. PICK n, m, l \in Nat : \E p, b2, c2 :
              /\ Last(sent, n, p, m) /\ Length(outbuf, l) /\ BodiesTold(decoder.bodies, n, sent) /\ l >= 1 /\ phase # "none"
              /\ b2 = Tail(outbuf) /\ c2 = Hr!ClientTake(decoder, Head(outbuf)) /\ b2 \in Seq(OutToken) /\ Length(b2, l - 1)
              /\ (b2 # <<>> <=> l > 1) /\ ClientIs(c2)
              /\ \/ Reads(c2, decoder, rreq, phase, b2, l - 1, p, m) /\ (phase = "end" => rreq.minor = 0 \/ l >= 2)
                 \/ phase = "end" /\ rreq.minor = 1 /\ l = 1 /\ HasRead(c2, decoder, p, m)
  BY <1>1, HrTaken
<1>4. PICK p, b2, c2 :
              /\ Last(sent, n, p, m) /\ Length(outbuf, l) /\ BodiesTold(decoder.bodies, n, sent) /\ l >= 1 /\ phase # "none"
              /\ b2 = Tail(outbuf) /\ c2 = Hr!ClientTake(decoder, Head(outbuf)) /\ b2 \in Seq(OutToken) /\ Length(b2, l - 1)
              /\ (b2 # <<>> <=> l > 1) /\ ClientIs(c2)
              /\ \/ Reads(c2, decoder, rreq, phase, b2, l - 1, p, m) /\ (phase = "end" => rreq.minor = 0 \/ l >= 2)
                 \/ phase = "end" /\ rreq.minor = 1 /\ l = 1 /\ HasRead(c2, decoder, p, m)
  BY <1>3
<1>5. l = 1 /\ b2 = <<>> /\ Length(b2, 0) /\ l - 1 = 0
  BY <1>1, <1>4 DEF Length
<1>6. IsPieces(p, m)
  BY <1>4 DEF Last
<1>7. ClientIs(decoder) /\ phase \in {"start", "end"} /\ rreq \in Streamed /\ ~freed /\ open /\ cb = (phase = "end")
  BY <1>2, <1>4 DEF HrTypes, Streams
<1>8. rreq.minor \in {0, 1} /\ (rreq.minor = 0 => Hr!NeedClose(rreq))
  BY <1>7, AskedIs
<1>9. Length(sent, n + 1) /\ n + 1 \in Nat /\ n + 1 <= n + 1
  BY <1>4 DEF Last, Length
<1>10. CASE /\ ~cb /\ decoder' = c2 /\ outbuf' = <<>> /\ rev' = FALSE
            /\ UNCHANGED <<rreq, open, freed, cb>>
  <2>1. phase # "end"
    BY <1>7, <1>10
  <2>2. Reads(decoder', decoder, rreq, phase, outbuf', 0, p, m)
    BY <1>4, <1>5, <1>10, <2>1
  <2>3. outbuf' \in Seq(OutToken) /\ Length(outbuf', 0) /\ ClientIs(decoder')
    BY <1>4, <1>5, <1>10
  <2>4. 0 \in Nat /\ rev' \in BOOLEAN /\ (rev' <=> outbuf' # <<>>)
    BY <1>10
  <2> QED
    BY <1>1, <1>2, <1>4, <1>10, <2>2, <2>3, <2>4, HrStillIn
<1>11. CASE cb /\ Hr!NeedClose(rreq) /\ Hr!Free /\ decoder' = Hr!ClientEof(c2)
  <2>1. phase = "end"
    BY <1>7, <1>11
  <2>2. ClientIs(decoder') /\ BodiesTold(decoder'.bodies, n + 1, sent)
    <3>1. CASE Reads(c2, decoder, rreq, phase, b2, l - 1, p, m) /\ (phase = "end" => rreq.minor = 0 \/ l >= 2)
      <4>1. rreq.minor = 0
        BY <1>5, <2>1, <3>1
      <4>2. c2.bodies = decoder.bodies /\ Reply(rreq, phase, c2, b2, 0, p, m)
        BY <1>5, <3>1 DEF Reads
      <4>3. phase # "none" /\ decoder' = Hr!ClientEof(c2)
        BY <1>11, <2>1
      <4>4. ClientIs(decoder') /\ HasRead(decoder', c2, p, m)
        BY <1>4, <1>6, <4>1, <4>2, <4>3, ReplyCut
      <4>5. HasRead(decoder', decoder, p, m)
        BY <4>2, <4>4 DEF HasRead
      <4>6. BodiesTold(decoder'.bodies, n + 1, sent) /\ decoder'.mode = "head" /\ decoder'.body = <<>>
        BY <1>4, <1>7, <4>5, ReadIsTold
      <4> QED
        BY <4>4, <4>6
    <3>2. CASE phase = "end" /\ rreq.minor = 1 /\ l = 1 /\ HasRead(c2, decoder, p, m)
      <4>1. BodiesTold(c2.bodies, n + 1, sent) /\ c2.mode = "head" /\ c2.body = <<>>
        BY <1>4, <1>7, <3>2, ReadIsTold
      <4>2. decoder' = c2
        BY <1>11, <4>1 DEF Hr!ClientEof
      <4> QED
        BY <1>4, <4>1, <4>2
    <3> QED
      BY <1>4, <3>1, <3>2
  <2>3. phase' \in {"none", "start", "end"} /\ UNCHANGED <<gone, sent>> /\ phase' = "end"
    BY <1>1, <2>1
  <2> QED
    BY <1>2, <1>9, <1>11, <2>2, <2>3, HrFrees
<1>12. CASE /\ cb /\ ~Hr!NeedClose(rreq)
            /\ rreq' = Hr!NoRequest
            /\ decoder' = c2 /\ outbuf' = <<>> /\ rev' = FALSE /\ cb' = FALSE
            /\ UNCHANGED <<open, freed>>
  <2>1. phase = "end" /\ rreq.minor = 1
    BY <1>7, <1>8, <1>12
  <2>2. HasRead(decoder', decoder, p, m) /\ ClientIs(decoder')
    BY <1>4, <1>5, <1>12, <2>1
  <2>3. BodiesTold(decoder'.bodies, n + 1, sent) /\ decoder'.mode = "head" /\ decoder'.body = <<>>
    BY <1>4, <1>7, <2>2, ReadIsTold
  <2>4. freed' = FALSE /\ open' = TRUE /\ phase' = "end" /\ UNCHANGED <<gone, sent>>
    BY <1>1, <1>2, <1>12, <2>1 DEF HrTypes, Streams
  <2> QED
    BY <1>2, <1>9, <1>12, <2>2, <2>3, <2>4, HrGoesOn
<1> QED
  BY <1>4, <1>10, <1>11, <1>12 DEF Hr!WriteRest

\* A write fails.
LEMMA HrFails ==
  ASSUME Streamable, HrInv, Hr!WriteFails
  PROVE  HrInv'
<1>1. rev /\ Hr!Free /\ phase' = phase /\ gone' = gone /\ sent' = sent /\ decoder' = decoder
  BY DEF Hr!WriteFails
<1>2. Streams /\ HrTypes
  BY <1>1, HrTaken
<1>3. PICK n, m, l \in Nat : \E p : /\ Last(sent, n, p, m) /\ Length(outbuf, l) /\ BodiesTold(decoder.bodies, n, sent)
                                    /\ Reply(rreq, phase, decoder, outbuf, l, p, m)
  BY <1>2 DEF Streams
<1>4. PICK k \in Nat : k = n + 1
  OBVIOUS
<1>5. Length(sent, k) /\ n <= k /\ (k = n => phase' = "end") /\ BodiesTold(decoder'.bodies, n, sent)
  BY <1>1, <1>3, <1>4 DEF Last, Length
<1>6. phase' \in {"none", "start", "end"} /\ ClientIs(decoder') /\ UNCHANGED <<gone, sent>>
  BY <1>1, <1>2 DEF HrTypes
<1> QED
  BY <1>1, <1>2, <1>5, <1>6, HrFrees

LEMMA HrStays ==
  ASSUME HrInv, UNCHANGED <<rreq, phase, open, freed, outbuf, rev, cb, sent, decoder>>, gone' \in BOOLEAN
  PROVE  HrInv'
<1>1. HrTypes'
  BY DEF HrInv, HrTypes
<1>2. Waits' <=> Waits
  BY DEF Waits
<1>3. Streams' <=> Streams
  BY DEF Streams
<1>4. Finished' <=> Finished
  BY DEF Finished
<1> QED
  BY <1>1, <1>2, <1>3, <1>4 DEF HrInv

LEMMA HrStep == Streamable /\ HrInv /\ [Hr!Next]_(Hr!vars) => HrInv'
<1> SUFFICES ASSUME Streamable, HrInv, [Hr!Next]_(Hr!vars)
             PROVE  HrInv'
  OBVIOUS
<1>1. ASSUME NEW r \in Streamed, Hr!Arrive(r)
      PROVE  HrInv'
  BY <1>1, HrArrives
<1>2. CASE Hr!SendReplyStart
  BY <1>2, HrBegins
<1>3. ASSUME NEW n \in Sizes, Hr!SendReplyChunk(n)
      PROVE  HrInv'
  BY <1>3, HrChunk
<1>4. CASE Hr!SendReplyEnd
  BY <1>4, HrEnds
<1>5. CASE Hr!WritePart
  BY <1>5, HrWrites
<1>6. CASE Hr!WriteRest
  BY <1>6, HrWritesRest
<1>7. CASE Hr!WriteFails
  BY <1>7, HrFails
<1>8. CASE Hr!Leave
  <2>1. gone' \in BOOLEAN /\ UNCHANGED <<rreq, phase, open, freed, outbuf, rev, cb, sent, decoder>>
    BY <1>8 DEF Hr!Leave, Hr!program
  <2> QED
    BY <2>1, HrStays
<1>9. CASE UNCHANGED Hr!vars
  <2>1. gone' \in BOOLEAN /\ UNCHANGED <<rreq, phase, open, freed, outbuf, rev, cb, sent, decoder>>
    BY <1>9 DEF Hr!vars, HrInv, HrTypes
  <2> QED
    BY <2>1, HrStays
<1> QED
  BY <1>1, <1>2, <1>3, <1>4, <1>5, <1>6, <1>7, <1>8, <1>9 DEF Hr!Next

LEMMA HrAlways ==
  Streamable => (Hr!Spec => []HrInv)
<1> SUFFICES ASSUME Streamable
             PROVE  Hr!Spec => []HrInv
  OBVIOUS
<1>1. Hr!Init => HrInv
  BY HrStarts
<1>2. HrInv /\ [Hr!Next]_(Hr!vars) => HrInv'
  BY HrStep
<1> QED
  BY <1>1, <1>2, PTL DEF Hr!Spec

LEMMA HrInvTyped ==
  ASSUME Streamable, HrInv
  PROVE  Hr!TypeOK
<1>1. HrTypes
  BY DEF HrInv
<1>2. rreq \in Hr!RequestType \cup {Hr!NoRequest}
  BY <1>1 DEF HrTypes, Streamable
<1>3. decoder.left >= 0
  BY <1>1 DEF HrTypes, ClientIs
<1> QED
  BY <1>1, <1>2, <1>3 DEF HrTypes, Hr!TypeOK

LEMMA HrInvExact ==
  ASSUME HrInv
  PROVE  Hr!StreamExact
<1>1. ~decoder.lost
  BY DEF HrInv, HrTypes, ClientIs
<1>2. PICK n \in Nat : Len(sent) = n
  BY DEF HrInv, HrTypes
<1>3. PICK k \in 0..n : BodiesTold(decoder.bodies, k, sent) /\ (k = n => n = 0 \/ phase = "end")
  <2>1. CASE Waits
    BY <1>2, <2>1 DEF Waits, Length
  <2>2. CASE Streams
    <3>1. PICK j \in Nat : BodiesTold(decoder.bodies, j, sent) /\ Len(sent) = j + 1
      BY <2>2 DEF Streams, Last
    <3>2. j \in 0..n /\ j # n
      BY <1>2, <3>1
    <3> QED
      BY <3>1, <3>2
  <2>3. CASE Finished
    BY <1>2, <2>3 DEF Finished, Length
  <2> QED
    BY <2>1, <2>2, <2>3 DEF HrInv
<1>4. Len(decoder.bodies) = k /\ \A i \in 1..k : decoder.bodies[i] = Hr!Bytes(sent[i])
  BY <1>3 DEF BodiesTold
<1>5. Len(decoder.bodies) <= Len(sent)
  BY <1>2, <1>4
<1>6. ASSUME NEW i \in 1..Len(decoder.bodies)
      PROVE  decoder.bodies[i] = Hr!Bytes(sent[i]) /\ (i = Len(sent) => phase = "end")
  <2>1. decoder.bodies[i] = Hr!Bytes(sent[i])
    BY <1>4
  <2>2. i = n => k = n /\ n # 0
    BY <1>4
  <2> QED
    BY <1>2, <1>3, <2>1, <2>2
<1> QED
  BY <1>1, <1>5, <1>6 DEF Hr!StreamExact

LEMMA HrInvTold ==
  ASSUME Streamable, HrInv
  PROVE  Hr!ToldOfClose
<1>1. \A r \in Streamed : r # Hr!NoRequest
  BY AskedIs
<1>2. CASE Waits
  BY <1>2 DEF Waits, Hr!ToldOfClose
<1>3. CASE Streams
  BY <1>1, <1>3 DEF Streams, Hr!ToldOfClose
<1>4. CASE Finished
  BY <1>4 DEF Finished, Hr!ToldOfClose
<1> QED
  BY <1>2, <1>3, <1>4 DEF HrInv

\* What a client has read to the end of replies that are sent piece by piece (evhttp_send_reply_start(),
\* _chunk() and _end() in http.c), in chunks or to the end of the connection, are the pieces of the program,
\* all of them and in order, for each of its requests, however evhttp_write() cuts the output, and it never
\* gets anything out of place.
THEOREM StreamedAreExact ==
  Streamable => (Hr!Spec => [](Hr!TypeOK /\ Hr!StreamExact))
<1> SUFFICES ASSUME Streamable
             PROVE  Hr!Spec => [](Hr!TypeOK /\ Hr!StreamExact)
  OBVIOUS
<1>1. HrInv => Hr!TypeOK /\ Hr!StreamExact
  BY HrInvTyped, HrInvExact
<1> QED
  BY <1>1, HrAlways, PTL

\* A program in the middle of such a reply has a request, until the close callback tells it that the
\* connection is gone (evhttp_connection_free()): it never goes on with freed memory.
THEOREM StreamerIsTold ==
  Streamable => (Hr!Spec => []Hr!ToldOfClose)
<1> SUFFICES ASSUME Streamable
             PROVE  Hr!Spec => []Hr!ToldOfClose
  OBVIOUS
<1>1. HrInv => Hr!ToldOfClose
  BY HrInvTold
<1> QED
  BY <1>1, HrAlways, PTL
=============================================================================
