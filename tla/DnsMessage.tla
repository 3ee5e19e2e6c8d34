------------------------------ MODULE DnsMessage ------------------------------
(***************************************************************************)
(* Both ends of a DNS exchange (contrib/libevent/evdns.c): request_parse() *)
(* takes a query, the program adds records and responds,                   *)
(* evdns_server_request_format_response() builds the message, and          *)
(* reply_parse() and reply_handle() at the other end read it, or a message *)
(* of some other server.  Names are opaque; lengths count cells.           *)
(***************************************************************************)
EXTENDS Integers, Sequences, FiniteSets

CONSTANTS MaxAddrs,    \* MAX_ADDRS, the addresses a reply can hold
          Header,        \* cells of the header and the question
          Fixed,       \* cells of a record besides its data
          MaxUdp,      \* 512
          BufLen,      \* 1500
          MaxRecords,  \* bound: records of a message
          MaxData,     \* bound: addresses of a record
          Ttls         \* the times to live

\* What the constants have to be.
Sane == /\ {MaxAddrs, Header, Fixed, MaxUdp, MaxRecords, MaxData} \subseteq Nat
        /\ BufLen \in Nat /\ MaxUdp <= BufLen /\ Ttls \subseteq Nat

VARIABLES query,     \* the query as it was sent
          seen,      \* what the program is told of it, or how it was answered
          sections,  \* the records added so far
          reply,     \* the message, once it is built or has come in
          result     \* what the callback of the resolver is given

vars == <<query, seen, sections, reply, result>>

Types == {"A", "AAAA", "PTR"}
Sections == {"answer", "authority", "additional"}
\* A record; have counts the addresses that lie inside the packet, and bad is a name that cannot be written.
Record(t, i, l, n, h, b) == [type |-> t, inet |-> i, ttl |-> l, n |-> n, have |-> h, bad |-> b]
Plain == {Record(t, TRUE, l, n, n, FALSE) : t \in Types, l \in Ttls, n \in 0..MaxData}
OwnRecords == Plain \cup {Record(t, TRUE, 1, 1, 1, TRUE) : t \in Types}
OtherRecords == Plain \cup {Record(t, FALSE, 1, 1, 1, FALSE) : t \in Types}
CutRecords == {Record(t, TRUE, l, MaxData, h, FALSE) : t \in Types, l \in Ttls, h \in 0..(MaxData - 1)}
Foreign == UNION {[1..k -> OtherRecords] : k \in 0..MaxRecords}
           \cup {<<r, c>> : r \in OtherRecords, c \in CutRecords}
Nothing == [kind |-> "none"]

-----------------------------------------------------------------------------
(***************************************************************************)
(* The server.                                                             *)
(***************************************************************************)

\* request_parse(): RD and CD are all that is left of the flags, and then the opcode is tested.
Masked(op) == "standard"
Parsed(op) == IF Masked(op) # "standard" THEN "notimpl" ELSE "asked"

All(s) == s["answer"] \o s["authority"] \o s["additional"]

\* Records that fit before one does not, or cannot be written.
Length(recs) ==
  LET f[k \in 0..Len(recs)] ==
        IF k = 0 THEN Header
        ELSE IF f[k - 1] > BufLen \/ recs[k].bad \/ f[k - 1] + Fixed + recs[k].n > BufLen THEN BufLen + 1
             ELSE f[k - 1] + Fixed + recs[k].n
  IN  f[Len(recs)]

\* evdns_server_request_format_response(): buf[3] |= 0x02 sets a bit of the error code.
WithBit(err) == IF (err \div 2) % 2 = 1 THEN err ELSE err + 2
Format(s, err) ==
  LET cut == Length(All(s)) > MaxUdp
  IN  [kind |-> "reply", tc |-> FALSE, rcode |-> IF cut THEN WithBit(err) ELSE err, cut |-> cut,
       err |-> err, recs |-> s["answer"]]

-----------------------------------------------------------------------------
(***************************************************************************)
(* The resolver.                                                           *)
(***************************************************************************)
Error(code) == [kind |-> "error", code |-> code]

\* reply_handle(): the error code of the flags.
ErrorOf(m) == IF m.tc THEN "truncated"
              ELSE CASE m.rcode = 1 -> "format" [] m.rcode = 2 -> "servfail" [] m.rcode = 3 -> "notexist"
                     [] m.rcode = 4 -> "notimpl" [] m.rcode = 5 -> "refused" [] OTHER -> "unknown"

ToCopy(a, r) == IF MaxAddrs - Len(a.addrs) < r.n THEN MaxAddrs - Len(a.addrs) ELSE r.n

Shorter(x, y) == IF x < y THEN x ELSE y

\* One record of the loop of reply_parse(); an address is known by its record and its place.
\* A record whose data ends outside is an error, unless it is the last and skipped.
Take(a, k, r, type, last) ==
  LET n == IF type = "PTR" THEN 1 ELSE ToCopy(a, r)
  IN  CASE a.st # "going" -> a
        [] a.st = "going" /\ ~(r.inet /\ r.type = type) ->
             IF r.have < r.n /\ ~last THEN [a EXCEPT !.st = "bad"] ELSE a
        [] a.st = "going" /\ r.inet /\ r.type = type ->
             IF r.have < n THEN [a EXCEPT !.st = "bad"]
             ELSE [a EXCEPT !.addrs = @ \o [i \in 1..n |-> <<k, i>>], !.answer = TRUE, !.ttl = Shorter(@, r.ttl),
                            !.st = IF type = "PTR" \/ Len(a.addrs) + n = MaxAddrs THEN "full" ELSE "going"]

MaxTtl == 1 + CHOOSE l \in Ttls : \A m \in Ttls : m <= l       \* 0xffffffff

ReplyParse(m, type) ==
  LET f[k \in 0..Len(m.recs)] ==
        IF k = 0 THEN [addrs |-> <<>>, answer |-> FALSE, ttl |-> MaxTtl, st |-> "going"]
        ELSE Take(f[k - 1], k, m.recs[k], type, k = Len(m.recs))
      a == f[Len(m.recs)]
  IN  IF m.tc \/ m.rcode # 0 \/ a.st = "bad" \/ ~a.answer THEN Error(ErrorOf(m))
      ELSE [kind |-> "ok", addrs |-> a.addrs, ttl |-> a.ttl]

-----------------------------------------------------------------------------
Init == /\ query = Nothing /\ seen = "nothing"
        /\ sections = [s \in Sections |-> <<>>]
        /\ reply = Nothing /\ result = Nothing

Query(op, type) == /\ query = Nothing
                   /\ query' = [kind |-> "query", op |-> op, type |-> type]
                   /\ seen' = Parsed(op)
                   /\ UNCHANGED <<sections, reply, result>>

\* evdns_server_request_add_reply() and the four that call it.
AddReply(sec, r) ==
  /\ seen = "asked" /\ reply = Nothing
  /\ Len(All(sections)) < MaxRecords
  /\ sections' = [sections EXCEPT ![sec] = Append(@, r)]
  /\ UNCHANGED <<query, seen, reply, result>>

\* evdns_server_request_respond().
Respond(err) == /\ seen = "asked" /\ reply = Nothing
                /\ reply' = Format(sections, err)
                /\ UNCHANGED <<query, seen, sections, result>>

\* The reply of another server, whose last record may be cut off.
Other == /\ seen = "asked" /\ reply = Nothing /\ All(sections) = <<>> /\ query.op = "standard"
         /\ \E recs \in Foreign : \E tc \in BOOLEAN : \E rcode \in {0, 2} :
              reply' = [kind |-> "reply", tc |-> tc, rcode |-> rcode, cut |-> FALSE, err |-> rcode, recs |-> recs]
         /\ UNCHANGED <<query, seen, sections, result>>

Arrive == /\ reply # Nothing /\ result = Nothing
          /\ result' = ReplyParse(reply, query.type)
          /\ UNCHANGED <<query, seen, sections, reply>>

Next == \/ \E op \in {"standard", "status"} : \E type \in Types : Query(op, type)
        \/ \E sec \in Sections : \E r \in OwnRecords : AddReply(sec, r)
        \/ \E err \in {0, 3, 5} : Respond(err)
        \/ Other \/ Arrive

Spec == Init /\ [][Next]_vars

-----------------------------------------------------------------------------
(***************************************************************************)
(* What the program answered arrives: the resolver gets the first          *)
(* MAX_ADDRS addresses of the records of its type, in their order, over    *)
(* all records; and without any it gets an error.                          *)
(***************************************************************************)
Wanted(m) == {k \in DOMAIN m.recs : m.recs[k].inet /\ m.recs[k].type = query.type}
Addresses(m) ==
  LET f[k \in 0..Len(m.recs)] ==
        IF k = 0 THEN <<>>
        ELSE f[k - 1] \o (IF k \in Wanted(m)
                          THEN [i \in 1..(IF query.type = "PTR" THEN 1 ELSE m.recs[k].n) |-> <<k, i>>]
                          ELSE <<>>)
  IN  f[Len(m.recs)]
Capacity == IF query.type = "PTR" THEN 1 ELSE MaxAddrs
AnswersArrive ==
  result # Nothing /\ reply.rcode = 0 /\ ~reply.tc =>
    LET as == Addresses(reply)
        whole == SubSeq(as, 1, IF Len(as) < Capacity THEN Len(as) ELSE Capacity)
    IN  /\ result.kind = "ok" => Wanted(reply) # {} /\ result.addrs = whole
        /\ (Wanted(reply) # {} /\ (\A k \in DOMAIN reply.recs : reply.recs[k].have = reply.recs[k].n)
            /\ (query.type = "PTR" => \A w \in Wanted(reply) : reply.recs[w].n > 0)) => result.kind = "ok"

(***************************************************************************)
(* No address outlives its record: the time to live that is reported is    *)
(* not longer than that of any record an address was taken from.           *)
(***************************************************************************)
TtlCovers == result # Nothing /\ result.kind = "ok" =>
               \A i \in DOMAIN result.addrs : result.ttl <= reply.recs[result.addrs[i][1]].ttl

(***************************************************************************)
(* evdns_server_request_format_response(): a response that was cut has     *)
(* "the truncated bit", and the resolver reports it as truncated.          *)
(***************************************************************************)
TruncationSeen == result # Nothing /\ reply.cut => result = Error("truncated")

(***************************************************************************)
(* request_parse(): "Only standard queries are supported."                 *)
(***************************************************************************)
OnlyStandard == query # Nothing /\ query.op # "standard" => seen = "notimpl"
=============================================================================
