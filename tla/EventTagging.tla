---------------------------- MODULE EventTagging ----------------------------
(***************************************************************************)
(* contrib/libevent/event_tagging.c: the encoding of tagged elements of a  *)
(* remote procedure call.  A writer marshals elements into a buffer, some  *)
(* part of it arrives, and a reader takes the elements out again or skips  *)
(* them.                                                                   *)
(*                                                                         *)
(* A number of 32 bits is a function from the places of its bits, as no    *)
(* machine integer of TLC holds one; a byte is an integer.                 *)
(***************************************************************************)
EXTENDS Integers, Sequences, SequencesExt, FiniteSets

CONSTANTS Tops,      \* the numbers are 0, and 2^t and 2^(t+1) - 1 for t in Tops
          TagTops,   \* the tags, likewise
          MaxItems   \* elements of a message

\* What the constants have to be.
Sane == Tops \subseteq 0..31 /\ TagTops \subseteq 0..31 /\ MaxItems \in Nat

VARIABLES sent,    \* the elements of the writer
          buf,     \* what the reader's buffer holds
          cut,     \* how many bytes arrive
          got,     \* the elements that the reader has taken
          phase

vars == <<sent, buf, cut, got, phase>>

-----------------------------------------------------------------------------
Bit == 0..31
Word(S) == [b \in Bit |-> IF b \in S THEN 1 ELSE 0]
Zero == Word({})
Numbers(T) == {Zero} \cup {Word({t}) : t \in T} \cup {Word(0..t) : t \in T}

\* The bits from..from+n-1 of a number, as an integer.
Bits(w, from, n) == FoldLeft(LAMBDA a, b : 2 * a + b, 0,
                             [k \in 1..n |-> IF from + n - k \in Bit THEN w[from + n - k] ELSE 0])
\* The number whose groups of n bits are the integers of s.
FromGroups(s, n) ==
  [b \in Bit |-> IF b \div n < Len(s) THEN (s[b \div n + 1] \div 2 ^ (b % n)) % 2 ELSE 0]

\* A length of more than 2^16 bytes is more than any buffer holds.
Huge == 2 ^ 16
Length(w) == IF \E b \in 16..31 : w[b] = 1 THEN Huge ELSE Bits(w, 0, 16)
OfLength(n) == [b \in Bit |-> IF b < 16 THEN (n \div 2 ^ b) % 2 ELSE 0]

\* The groups of n bits that the loop over a number sees before it is 0.
Groups(w, n) == LET used == {b \in Bit : w[b] = 1}
                    top  == IF used = {} THEN 0
                            ELSE (CHOOSE b \in used : \A c \in used : c <= b) \div n + 1
                IN  [k \in 1..top |-> Bits(w, (k - 1) * n, n)]

\* encode_int(): the number of nibbles after the first, then the nibbles, from the
\* lowest; two to a byte, the high half first.
EncodeInt(w) ==
  LET g == Groups(w, 4)
      s == <<IF Len(g) > 1 THEN Len(g) - 1 ELSE 0>> \o g
  IN  [k \in 1..((Len(g) + 2) \div 2) |->
         16 * s[2 * k - 1] + IF 2 * k <= Len(s) THEN s[2 * k] ELSE 0]

\* decode_int_internal(): -1, or the number and its length.
Broken == [len |-> -1, w |-> Zero]
DecodeInt(b) ==
  IF b = <<>> THEN Broken
  ELSE LET nibbles == b[1] \div 16 + 1
           len     == nibbles \div 2 + 1
           Nibble(k) == IF k % 2 = 1 THEN b[k \div 2 + 1] % 16 ELSE b[k \div 2 + 1] \div 16
       IN  IF nibbles > 8 \/ len > Len(b) THEN Broken
           ELSE [len |-> len, w |-> FromGroups([k \in 1..nibbles |-> Nibble(k)], 4)]

\* evtag_encode_tag(): seven bits to a byte; all but the last have the high bit.
EncodeTag(w) ==
  LET g == IF w = Zero THEN <<0>> ELSE Groups(w, 7)
  IN  [k \in DOMAIN g |-> IF k < Len(g) THEN g[k] + 128 ELSE g[k]]

\* decode_tag_internal().
DecodeTag(b) ==
  LET last == {k \in DOMAIN b : b[k] < 128}
      n    == CHOOSE k \in last : \A j \in last : k <= j
  IN  IF last = {} THEN Broken
      ELSE [len |-> n, w |-> FromGroups([k \in 1..n |-> b[k] % 128], 7)]

Drain(b, n) == SubSeq(b, n + 1, Len(b))

-----------------------------------------------------------------------------
(* An element: its kind, its tag and its data.                             *)

Payload(x) == CASE x.kind = "int"     -> EncodeInt(x.data[1])
                [] x.kind = "timeval" -> EncodeInt(x.data[1]) \o EncodeInt(x.data[2])
                [] x.kind \in {"fixed", "string"} -> x.data

\* evtag_marshal(), evtag_marshal_int(), evtag_marshal_string(), evtag_marshal_timeval().
Marshal(x) == EncodeTag(x.tag) \o EncodeInt(OfLength(Len(Payload(x)))) \o Payload(x)

Fails == [ok |-> FALSE, tag |-> Zero, data |-> <<>>, rest |-> <<>>]

\* evtag_unmarshal().
Unmarshal(b) ==
  LET t == DecodeTag(b)
      l == DecodeInt(Drain(b, t.len))
      rest == Drain(b, t.len + l.len)
  IN  IF t = Broken \/ l = Broken \/ Len(rest) < Length(l.w) THEN Fails
      ELSE [ok |-> TRUE, tag |-> t.w, data |-> SubSeq(rest, 1, Length(l.w)),
            rest |-> Drain(rest, Length(l.w))]

\* evtag_unmarshal_int(), _fixed(), _string() and _timeval(): what they return for an
\* element of a kind, and the rest of the buffer.
UnmarshalAs(b, kind, tag, size) ==
  LET u == Unmarshal(b)
      one == DecodeInt(u.data)
      two == DecodeInt(Drain(u.data, one.len))
  IN  CASE ~u.ok \/ u.tag # tag -> Fails
        [] kind = "int"     -> IF one = Broken THEN Fails ELSE [u EXCEPT !.data = <<one.w>>]
        [] kind = "timeval" -> IF one = Broken \/ two = Broken THEN Fails
                               ELSE [u EXCEPT !.data = <<one.w, two.w>>]
        [] kind = "fixed"   -> IF Len(u.data) # size THEN Fails ELSE u
        [] kind = "string"  -> u

\* evtag_peek_length(), evtag_payload_length().
PeekLength(b) == LET t == DecodeTag(b)
                     l == DecodeInt(Drain(b, t.len))
                 IN  IF t = Broken \/ l = Broken THEN -1 ELSE Length(l.w) + l.len + t.len
PayloadLength(b) == LET t == DecodeTag(b)
                        l == DecodeInt(Drain(b, t.len))
                    IN  IF t = Broken \/ l = Broken THEN -1 ELSE Length(l.w)

\* evtag_consume(): it drains what there is of the payload.
Consume(b) ==
  LET t == DecodeTag(b)
      l == DecodeInt(Drain(b, t.len))
  IN  IF t = Broken \/ l = Broken THEN Fails
      ELSE [Fails EXCEPT !.ok = TRUE, !.rest = Drain(b, t.len + l.len + Length(l.w))]

-----------------------------------------------------------------------------
Init == sent = <<>> /\ buf = <<>> /\ cut = 0 /\ got = <<>> /\ phase = "write"

Items == [kind : {"int"}, tag : {Word({0})}, data : {<<w>> : w \in Numbers(Tops)}]
         \cup [kind : {"timeval"}, tag : {Word({0})},
               data : {<<w, Word(0..19)>> : w \in Numbers(Tops)}]
         \cup [kind : {"fixed"}, tag : {Word({0})}, data : {<<>>, <<0, 255>>}]
         \cup [kind : {"string"}, tag : Numbers(TagTops), data : {<<>>, [k \in 1..16 |-> 255]}]

Write(x) == /\ phase = "write" /\ Len(sent) < MaxItems
            /\ sent' = Append(sent, x)
            /\ buf' = buf \o Marshal(x)
            /\ UNCHANGED <<cut, got, phase>>

\* All of the message arrives, or what one read of a socket took.
Arrive(n) == /\ phase = "write" /\ sent # <<>>
             /\ phase' = "read"
             /\ cut' = n
             /\ buf' = SubSeq(buf, 1, n)
             /\ UNCHANGED <<sent, got>>

Next1 == sent[Len(got) + 1]

Read == /\ phase = "read" /\ Len(got) < Len(sent)
        /\ LET u == UnmarshalAs(buf, Next1.kind, Next1.tag, Len(Next1.data))
           IN  IF u.ok THEN /\ got' = Append(got, [Next1 EXCEPT !.data = u.data, !.tag = u.tag])
                            /\ buf' = u.rest
                            /\ UNCHANGED phase
                       ELSE phase' = "failed" /\ UNCHANGED <<got, buf>>
        /\ UNCHANGED <<sent, cut>>

Skip == /\ phase = "read" /\ Len(got) < Len(sent)
        /\ LET u == Consume(buf)
           IN  IF u.ok THEN /\ got' = Append(got, [Next1 EXCEPT !.kind = "skipped"])
                            /\ buf' = u.rest
                            /\ UNCHANGED phase
                       ELSE phase' = "failed" /\ UNCHANGED <<got, buf>>
        /\ UNCHANGED <<sent, cut>>

Next == \/ \E x \in Items : Write(x)
        \/ \E n \in 0..Len(buf) : Arrive(n)
        \/ Read \/ Skip

Spec == Init /\ [][Next]_vars

-----------------------------------------------------------------------------
\* Bytes of the first n elements.
Size(n) == Len(FlattenSeq([k \in 1..n |-> Marshal(sent[k])]))

\* Every element that is read is the one that was written, whatever lengths, tags and
\* numbers come before it, and whether those were read or skipped.
ReadsBack == \A k \in 1..Len(got) : got[k].kind # "skipped" => got[k] = sent[k]

\* Reading fails for an element that has not wholly arrived, and only for such: no
\* prefix of an element is taken for an element.
FailsWhenCut == /\ phase = "failed" => cut < Size(Len(got) + 1)
                /\ \A k \in 1..Len(got) : got[k].kind # "skipped" => Size(k) <= cut

\* When an element has arrived, evtag_peek_length() is what reading or skipping it will
\* take from the buffer, and evtag_payload_length() what a caller has to allocate.
PeekAgrees == phase = "read" /\ Len(got) < Len(sent) /\ Size(Len(got) + 1) <= cut =>
  /\ PeekLength(buf) = Size(Len(got) + 1) - Size(Len(got))
  /\ PayloadLength(buf) = Len(Payload(Next1))
  /\ DecodeTag(buf).w = Next1.tag
  /\ Consume(buf).rest = Unmarshal(buf).rest
=============================================================================
