------------------------------ MODULE HttpText ------------------------------
(***************************************************************************)
(* The functions on text of contrib/libevent/http.c: URIs and queries,     *)
(* escaped HTML, URLs, and headers as they are checked, written and read.  *)
(* A text is a sequence of bytes.  Each action is a call of a function     *)
(* with any small text; last holds what went in and what came out.         *)
(***************************************************************************)
EXTENDS Integers, Sequences, SequencesExt

CONSTANTS UriBytes,     \* bytes of URIs
          HtmlBytes,    \* bytes of HTML
          ValueBytes,   \* bytes of the values of headers
          MaxUri,       \* bound: length of a URI or of an HTML text
          MaxValue,     \* bound: length of a value
          MaxQuery,     \* bound: length of a value in a query
          Ports,        \* numbers behind the host of a URL
          OneEnd        \* the values have no two line ends in a row

VARIABLE last

Texts(bytes, n) == UNION {[1..k -> bytes] : k \in 0..n}

\* Bytes by their usual names.
LF == 10
CR == 13
SP == 32
Percent == 37
Amp == 38
Plus == 43
Colon == 58
Equals == 61
Query == 63
Slash == 47

-----------------------------------------------------------------------------
(***************************************************************************)
(* URIs.                                                                   *)
(***************************************************************************)

\* The table uri_chars.
UriChar(c) == \/ c \in {33, 36, 61, 64, 95, 126}
              \/ c \in 39..58
              \/ c \in 65..90 \/ c \in 97..122

HexDigit(n) == IF n < 10 THEN 48 + n ELSE 55 + n
IsXDigit(c) == c \in 48..57 \/ c \in 65..70 \/ c \in 97..102
XValue(c) == IF c <= 57 THEN c - 48 ELSE IF c <= 70 THEN c - 55 ELSE c - 87

\* A byte of evhttp_encode_uri(), with "%%%02X".
EncodeByte(c) == IF UriChar(c) THEN <<c>> ELSE <<Percent, HexDigit(c \div 16), HexDigit(c % 16)>>
EncodeUri(s) == FlattenSeq([i \in 1..Len(s) |-> EncodeByte(s[i])])

At(s, i) == IF i <= Len(s) THEN s[i] ELSE 0

\* A decoder that starts a query at an escaped question mark, too.
RECURSIVE BugDecode(_, _, _)
BugDecode(s, i, inQuery) ==
  IF i > Len(s) THEN <<>>
  ELSE LET c == s[i]
       IN  IF c = Percent /\ IsXDigit(At(s, i + 1)) /\ IsXDigit(At(s, i + 2))
           THEN LET b == 16 * XValue(s[i + 1]) + XValue(s[i + 2])
                IN  <<b>> \o BugDecode(s, i + 3, inQuery \/ b = Query)
           ELSE <<IF c = Plus /\ inQuery THEN SP ELSE c>>
                  \o BugDecode(s, i + 1, inQuery \/ c = Query)

\* evhttp_decode_uri_internal() from the i-th byte on.
RECURSIVE Decode(_, _, _)
Decode(s, i, inQuery) ==
  IF i > Len(s) THEN <<>>
  ELSE LET c == s[i]
       IN  IF c = Percent /\ IsXDigit(At(s, i + 1)) /\ IsXDigit(At(s, i + 2))
           THEN <<16 * XValue(s[i + 1]) + XValue(s[i + 2])>> \o Decode(s, i + 3, inQuery)
           ELSE <<IF c = Plus /\ inQuery THEN SP ELSE c>>
                  \o Decode(s, i + 1, inQuery \/ c = Query)

\* evhttp_decode_uri().
DecodeUri(s) == Decode(s, 1, FALSE)

\* strsep(): what is before the first separator and what is behind it.
Index(s, c) == IF \E i \in 1..Len(s) : s[i] = c
               THEN CHOOSE i \in 1..Len(s) : s[i] = c /\ \A j \in 1..(i - 1) : s[j] # c
               ELSE 0
Before(s, c) == IF Index(s, c) = 0 THEN s ELSE SubSeq(s, 1, Index(s, c) - 1)
After(s, c) == SubSeq(s, Index(s, c) + 1, Len(s))

\* An argument is taken to end at its last "=".

\* The loop of evhttp_parse_query(): it ends at an argument without "=".
RECURSIVE Arguments(_)
Arguments(p) ==
  IF p = <<>> THEN <<>>
  ELSE LET arg == Before(p, Amp)
           rest == IF Index(p, Amp) = 0 THEN <<>> ELSE After(p, Amp)
       IN  IF Index(arg, Equals) = 0 THEN <<>>
           ELSE <<[key |-> Before(arg, Equals), value |-> Decode(After(arg, Equals), 1, TRUE)]>>
                  \o Arguments(rest)
ParseQuery(uri) == IF Index(uri, Query) = 0 THEN <<>> ELSE Arguments(After(uri, Query))

-----------------------------------------------------------------------------
(***************************************************************************)
(* HTML and URLs.                                                          *)
(***************************************************************************)

\* html_replace(): &lt; &gt; &quot; &#039; &amp;.
HtmlReplace(c) == CASE c = 60 -> <<38, 108, 116, 59>>
                    [] c = 62 -> <<38, 103, 116, 59>>
                    [] c = 34 -> <<38, 113, 117, 111, 116, 59>>
                    [] c = 39 -> <<38, 35, 48, 51, 57, 59>>
                    [] c = Amp -> <<38, 97, 109, 112, 59>>
                    [] OTHER -> <<c>>
HtmlEscape(s) == FlattenSeq([i \in 1..Len(s) |-> HtmlReplace(s[i])])

Port(n) == IF n = -1 THEN 80 ELSE n % 2^16

\* evhttp_hostportfile() of "http://" host [":" port] ["/" file]; the file may have
\* a ":" of its own.  The result is empty if it fails.
HostPortFile(url) ==
  IF ~url.http \/ Port(url.port) = 0 THEN <<>>
  ELSE <<[host |-> url.host, port |-> Port(url.port), file |-> <<Slash>> \o url.file]>>

-----------------------------------------------------------------------------
(***************************************************************************)
(* Headers.                                                                *)
(***************************************************************************)

\* evhttp_header_is_valid_value(): behind every run of line ends there is a blank.
IsEnd(c) == c \in {CR, LF}
ValidValue(v) == \A i \in 1..Len(v) :
  IsEnd(v[i]) /\ ~(i < Len(v) /\ IsEnd(v[i + 1])) => At(v, i + 1) \in {SP, 9}

\* evhttp_add_header().
AddHeader(headers, key, value) ==
  IF (\E i \in 1..Len(key) : IsEnd(key[i])) \/ ~ValidValue(value) THEN headers
  ELSE Append(headers, [key |-> key, value |-> value])

\* evhttp_find_header() and evhttp_remove_header(): the first of that name.
FirstOf(headers, key) == {i \in 1..Len(headers) : /\ headers[i].key = key
                                                  /\ \A j \in 1..(i - 1) : headers[j].key # key}
FindHeader(headers, key) == {headers[i].value : i \in FirstOf(headers, key)}
RemoveHeader(headers, key) ==
  IF FirstOf(headers, key) = {} THEN headers
  ELSE RemoveAt(headers, CHOOSE i \in FirstOf(headers, key) : TRUE)

\* The lines of evhttp_make_header().
WriteHeaders(headers) ==
  FlattenSeq([i \in 1..Len(headers) |->
                headers[i].key \o <<Colon, SP>> \o headers[i].value \o <<CR, LF>>]) \o <<CR, LF>>

\* evbuffer_readline(): the text up to the first line end, and what is behind it;
\* a line end is one byte or two different ones.
LineEnd(s) == CHOOSE i \in 1..Len(s) : IsEnd(s[i]) /\ \A j \in 1..(i - 1) : ~IsEnd(s[j])
LineOf(s) == SubSeq(s, 1, LineEnd(s) - 1)
RestOf(s) == LET e == LineEnd(s)
                 two == e < Len(s) /\ IsEnd(s[e + 1]) /\ s[e + 1] # s[e]
             IN  SubSeq(s, IF two THEN e + 2 ELSE e + 1, Len(s))
HasLine(s) == \E i \in 1..Len(s) : IsEnd(s[i])

Trim(s) == LET n == CHOOSE k \in 0..Len(s) : /\ \A j \in 1..k : s[j] = SP
                                             /\ At(s, k + 1) # SP
           IN  SubSeq(s, n + 1, Len(s))

\* A parser that replaces the value of the last header by a line that goes on.

\* evhttp_parse_headers() and evhttp_append_to_last_header().
RECURSIVE ParseHeaders(_, _)
ParseHeaders(s, headers) ==
  IF ~HasLine(s) THEN [headers |-> headers, status |-> "more", rest |-> s]
  ELSE LET line == LineOf(s)
           corrupted == [headers |-> headers, status |-> "corrupted", rest |-> RestOf(s)]
       IN  IF line = <<>> THEN [headers |-> headers, status |-> "all", rest |-> RestOf(s)]
           ELSE IF line[1] \in {SP, 9}
           THEN IF headers = <<>> THEN corrupted
                ELSE ParseHeaders(RestOf(s), [headers EXCEPT ![Len(headers)].value = @ \o line])
           ELSE IF Index(line, Colon) = 0 THEN corrupted
           ELSE ParseHeaders(RestOf(s), Append(headers, [key |-> Before(line, Colon),
                                                         value |-> Trim(After(line, Colon))]))

-----------------------------------------------------------------------------
Init == last = [op |-> "none"]

Uri == \E s \in Texts(UriBytes, MaxUri) :
         last' = [op |-> "uri", in |-> s, encoded |-> EncodeUri(s), decoded |-> DecodeUri(s),
                  back |-> DecodeUri(EncodeUri(s))]

\* Arguments with the keys 97 and 98 and any values.
Args == \E v, w \in Texts(UriBytes, MaxQuery) :
          LET form(s) == FlattenSeq([i \in 1..Len(s) |->
                           IF s[i] = SP THEN <<Plus>>
                           ELSE IF s[i] = Plus THEN <<Percent, 50, 66>> ELSE EncodeByte(s[i])])
              uri == <<Slash, Query, 97, Equals>> \o form(v) \o <<Amp, 98, Equals>> \o form(w)
          IN  last' = [op |-> "query", in |-> <<v, w>>, out |-> ParseQuery(uri)]

Html == \E s \in Texts(HtmlBytes, MaxUri) :
          last' = [op |-> "html", in |-> s, out |-> HtmlEscape(s)]

Url == \E port \in Ports \cup {-1} : \E file \in {<<>>, <<97>>, <<97, Colon, 56>>} :
       \E http \in BOOLEAN :
         LET url == [http |-> http, host |-> <<104>>, port |-> port, file |-> file]
         IN  last' = [op |-> "url", in |-> url, out |-> HostPortFile(url)]

Values == {v \in Texts(ValueBytes, MaxValue) :
             OneEnd => \A i \in 1..(Len(v) - 1) : ~(IsEnd(v[i]) /\ IsEnd(v[i + 1]))}

\* Two headers are added, perhaps one of them removed, and the list is sent.
Headers == \E v, w \in Values : \E removed \in {{}, {<<97>>}} :
             LET both == AddHeader(AddHeader(<<>>, <<97>>, v), <<98>>, w)
                 list == IF removed = {} THEN both ELSE RemoveHeader(both, <<97>>)
             IN  last' = [op |-> "headers", in |-> <<v, w>>, list |-> list,
                          found |-> FindHeader(list, <<98>>),
                          out |-> ParseHeaders(WriteHeaders(list), <<>>)]

Return == last.op # "none" /\ last' = [op |-> "none"]

Next == (last.op = "none" /\ (Uri \/ Args \/ Html \/ Url \/ Headers)) \/ Return

Spec == Init /\ [][Next]_last

-----------------------------------------------------------------------------
\* Decoding undoes encoding, for every text, also one that looks encoded, has a "+"
\* or a "?" in it; and an encoded text has no byte that means something in a query.
UriRoundTrip == last.op = "uri" =>
  /\ last.back = last.in
  /\ \A i \in 1..Len(last.encoded) : last.encoded[i] \notin {SP, Amp, Query, LF}
  /\ Len(last.decoded) <= Len(last.in)

\* Values that a form has encoded arrive as they were, however they look: the
\* separators of the query are found before anything is decoded.
QueryRoundTrip == last.op = "query" =>
  last.out = <<[key |-> <<97>>, value |-> last.in[1]], [key |-> <<98>>, value |-> last.in[2]]>>

\* An escaped text has no markup left, and an "&" in it always starts an entity.
Entities == {<<38, 108, 116, 59>>, <<38, 103, 116, 59>>, <<38, 113, 117, 111, 116, 59>>,
             <<38, 35, 48, 51, 57, 59>>, <<38, 97, 109, 112, 59>>}
EscapeSafe == last.op = "html" =>
  /\ \A i \in 1..Len(last.out) : last.out[i] \notin {60, 62, 34, 39}
  /\ \A i \in 1..Len(last.out) : last.out[i] = Amp =>
       \E e \in Entities : IsPrefix(e, SubSeq(last.out, i, Len(last.out)))

\* A URL with a port that exists gives this port; without one, 80.
PortKept == last.op = "url" /\ last.in.http /\ last.in.port < 2^16 =>
  last.out = IF last.in.port = 0 THEN <<>>
             ELSE <<[host |-> last.in.host, file |-> <<Slash>> \o last.in.file,
                     port |-> IF last.in.port = -1 THEN 80 ELSE last.in.port]>>

\* What the other side reads are the headers that were added, in number and by name
\* and with every byte of their values that is not blank or a line end: no value ends
\* its header, starts another one, or ends the head of the message.
Visible(v) == SelectSeq(v, LAMBDA c : c \notin {SP, 9, CR, LF})
HeadersKept == last.op = "headers" =>
  /\ last.out.status = "all" /\ last.out.rest = <<>>
  /\ Len(last.out.headers) = Len(last.list)
  /\ \A i \in 1..Len(last.list) :
       /\ last.out.headers[i].key = last.list[i].key
       /\ Visible(last.out.headers[i].value) = Visible(last.list[i].value)
  /\ last.found \subseteq {last.in[2]}
=============================================================================
