-------------------------------- MODULE DnsName --------------------------------
(***************************************************************************)
(* Domain names in DNS messages (contrib/libevent/evdns.c): a name is      *)
(* written as labels with their lengths, a suffix that was written before  *)
(* as a pointer to it, and it is read back through such pointers.          *)
(***************************************************************************)
EXTENDS Integers, Sequences, FiniteSets, SequencesExt

CONSTANTS Unit,       \* 64: labels are shorter, and it is the base of a pointer's high part
          BufLen,     \* size of the buffer that is written to
          OutLen,     \* size of the buffer that a name is read to
          MaxLabels,  \* MAX_LABELS of the table of suffixes
          Dot,        \* the character that ends a label
          WriteNames, \* names that are written
          RawBytes,   \* bytes of the packets that are received
          RawLen,     \* bound: longest packet that is received
          MaxWrites   \* bound: names written into a buffer

Bytes == 0..(4 * Unit - 1)
Junk == -1                       \* memory behind the packet

\* What the constants have to be.
Sane == /\ Unit \in Nat \ {0} /\ RawBytes \subseteq Bytes /\ Dot \in Bytes \ {0}
        /\ {BufLen, OutLen, MaxLabels, RawLen, MaxWrites} \subseteq Nat
        /\ \A n \in WriteNames : \A i \in DOMAIN n : n[i] \in Bytes \ {0}

VARIABLES buf,     \* a packet that is being written or was received, offset 0 first
          table,   \* the suffixes that were written and where
          wrote,   \* what was written and where
          mode     \* "write" or "received"

vars == <<buf, table, wrote, mode>>

At(p, j) == IF j < Len(p) THEN p[j + 1] ELSE Junk

-----------------------------------------------------------------------------
(***************************************************************************)
(* name_parse().  s holds the variables of its loop.                       *)
(***************************************************************************)
IsPointer(b) == b >= Unit                              \* label_len & 0xc0
Target(high, low) == (high % Unit) * (4 * Unit) + low
Failed(s) == [s EXCEPT !.st = "failed"]

\* The check of the number of jumps is left out.
BugJump(s, p) ==
  LET j == Target(At(p, s.j), At(p, s.j + 1))
  IN  IF s.j + 1 >= Len(p) \/ j >= Len(p) THEN Failed(s)
      ELSE [s EXCEPT !.j = j, !.end = IF @ < 0 THEN s.j + 2 ELSE @]

Jump(s, p) ==
  LET j == Target(At(p, s.j), At(p, s.j + 1))
  IN  IF s.j + 1 >= Len(p) \/ j >= Len(p) \/ s.jumps + 1 > Len(p) THEN Failed(s)
      ELSE [s EXCEPT !.j = j, !.end = IF @ < 0 THEN s.j + 2 ELSE @, !.jumps = @ + 1]

Copy(s, p) ==
  LET n == At(p, s.j)
      dot == IF s.out = <<>> THEN <<>> ELSE <<Dot>>
      out == s.out \o dot \o [i \in 1..n |-> At(p, s.j + i)]
  IN  IF Len(out) >= OutLen THEN Failed(s)
      ELSE [s EXCEPT !.out = out, !.j = @ + 1 + n]

ParseStep(s, p) ==
  CASE s.st # "going" -> s
    [] s.st = "going" /\ s.j >= Len(p) -> Failed(s)
    [] s.st = "going" /\ s.j < Len(p) /\ At(p, s.j) = 0 ->
         IF Len(s.out) >= OutLen THEN Failed(s)
         ELSE [s EXCEPT !.st = "done", !.j = @ + 1, !.end = IF @ < 0 THEN s.j + 1 ELSE @]
    [] s.st = "going" /\ s.j < Len(p) /\ At(p, s.j) # 0 ->
         IF IsPointer(At(p, s.j)) THEN Jump(s, p) ELSE Copy(s, p)

\* As many steps as the loop can take: a step jumps, copies at least a byte, or ends.
Fuel(p) == Len(p) + OutLen + 2

NameParse(p, idx) ==
  LET f[n \in 0..Fuel(p)] ==
        IF n = 0 THEN [j |-> idx, out |-> <<>>, end |-> -1, jumps |-> 0, st |-> "going"]
        ELSE ParseStep(f[n - 1], p)
  IN  f[Fuel(p)]

-----------------------------------------------------------------------------
(***************************************************************************)
(* dnsname_to_labels(), with a table of the suffixes in the message.       *)
(***************************************************************************)
LabelStarts(n) == SetToSortSeq({1} \cup {i + 1 : i \in {k \in DOMAIN n : n[k] = Dot}}, <)
Suffix(n, i) == SubSeq(n, i, Len(n))
LabelAt(n, i) == LET ends == {k \in i..Len(n) : n[k] = Dot}
                 IN  SubSeq(n, i, IF ends = {} THEN Len(n) ELSE (CHOOSE k \in ends : \A m \in ends : k <= m) - 1)

\* dnslabel_table_get_pos(), dnslabel_table_add().
Known(t, s) == {i \in DOMAIN t : t[i].v = s}
PosOf(t, s) == t[CHOOSE i \in Known(t, s) : \A k \in Known(t, s) : i <= k].pos

TableAdd(t, s, pos) == IF Len(t) = MaxLabels THEN t ELSE Append(t, [v |-> s, pos |-> pos])

PointerTo(pos) == <<3 * Unit + pos \div (4 * Unit), pos % (4 * Unit)>>     \* ref | 0xc000

WriteLabel(s, n, i) ==
  LET suffix == Suffix(n, i)
      label == LabelAt(n, i)
  IN  CASE s.st # "going" -> s
        [] s.st = "going" /\ Known(s.table, suffix) # {} ->
             IF Len(s.buf) + 2 > BufLen THEN [s EXCEPT !.st = "too long"]
             ELSE [s EXCEPT !.buf = @ \o PointerTo(PosOf(s.table, suffix)), !.st = "done"]
        [] s.st = "going" /\ Known(s.table, suffix) = {} ->
             CASE Len(label) >= Unit -> [s EXCEPT !.st = "bad label"]
               [] Len(label) < Unit /\ Len(s.buf) + Len(label) + 1 > BufLen -> [s EXCEPT !.st = "too long"]
               [] OTHER -> [s EXCEPT !.table = TableAdd(@, suffix, Len(s.buf)),
                                     !.buf = @ \o <<Len(label)>> \o label]

\* The terminator is written without a look at the room that is left.
Terminated(s) == IF s.st # "going" THEN s
                 ELSE [s EXCEPT !.st = "done", !.buf = IF Last(@) = 0 THEN @ ELSE Append(@, 0)]

NameToLabels(b, t, n) ==
  LET starts == LabelStarts(n)
      f[k \in 0..Len(starts)] == IF k = 0 THEN [buf |-> b, table |-> t, st |-> "going"]
                                 ELSE WriteLabel(f[k - 1], n, starts[k])
  IN  IF Len(n) >= 4 * Unit THEN [buf |-> b, table |-> t, st |-> "too long"]      \* name_len > 255
      ELSE Terminated(f[Len(starts)])

-----------------------------------------------------------------------------
Init == buf = <<>> /\ table = <<>> /\ wrote = <<>> /\ mode = "write"

\* One more name in the message that is being written.
Write(n) ==
  LET r == NameToLabels(buf, table, n)
  IN  /\ mode = "write" /\ Len(wrote) < MaxWrites
      /\ r.st = "done"
      /\ buf' = r.buf /\ table' = r.table
      /\ wrote' = Append(wrote, [at |-> Len(buf), name |-> n])
      /\ UNCHANGED mode

\* A name that does not fit, or that has a long label, ends the message.
WriteFails(n) ==
  /\ mode = "write" /\ Len(wrote) < MaxWrites
  /\ NameToLabels(buf, table, n).st # "done"
  /\ mode' = "failed"
  /\ UNCHANGED <<buf, table, wrote>>

\* A packet comes in.
Receive == /\ mode = "write" /\ wrote = <<>>
           /\ \E k \in 0..RawLen : buf' \in [1..k -> RawBytes]
           /\ mode' = "received"
           /\ UNCHANGED <<table, wrote>>

Next == (\E n \in WriteNames : Write(n) \/ WriteFails(n)) \/ Receive

Spec == Init /\ [][Next]_vars

-----------------------------------------------------------------------------
(***************************************************************************)
(* A reference for reading: the labels from an offset on, followed through *)
(* at most as many hops as the packet has bytes; <<>> when there is no end *)
(* or it lies outside, otherwise <<the labels>>.                           *)
(***************************************************************************)
Labels(p) ==
  LET f[k \in 0..Len(p), o \in 0..(Len(p) + Unit)] ==
        CASE k = 0 \/ o >= Len(p) -> <<>>
          [] k > 0 /\ o < Len(p) /\ At(p, o) = 0 -> << <<>> >>
          [] k > 0 /\ o < Len(p) /\ IsPointer(At(p, o)) ->
               IF o + 1 >= Len(p) \/ Target(At(p, o), At(p, o + 1)) >= Len(p) THEN <<>>
               ELSE f[k - 1, Target(At(p, o), At(p, o + 1))]
          [] OTHER -> LET rest == f[k - 1, o + 1 + At(p, o)]
                      IN  IF rest = <<>> THEN <<>>
                          ELSE << << SubSeq(p, o + 2, o + 1 + At(p, o)) >> \o rest[1] >>
  IN  f

Joined(ls) == FoldLeft(LAMBDA a, l : IF a = <<>> THEN l ELSE a \o <<Dot>> \o l, <<>>, ls)

(***************************************************************************)
(* name_parse() always ends, accepts exactly the names whose labels end    *)
(* within the packet and fit, and returns their bytes and nothing that was *)
(* not received, whatever the pointers of the packet do.                   *)
(***************************************************************************)
ParseExact ==
  mode = "received" =>
    LET f == Labels(buf)
    IN  \A idx \in 0..Len(buf) :
          LET s == NameParse(buf, idx)
              ls == f[Len(buf), idx]
              fits == ls # <<>> /\ Len(Joined(ls[1])) < OutLen
          IN  /\ s.st \in {"done", "failed"}
              /\ s.st = "done" <=> fits
              /\ s.st = "done" => s.out = Joined(ls[1])

(***************************************************************************)
(* What dnsname_to_labels() wrote, name_parse() reads: every name of a     *)
(* message, compressed against all that were written before it, and the    *)
(* next field is found behind it.                                          *)
(***************************************************************************)
Trimmed(n) == IF n # <<>> /\ Last(n) = Dot THEN Front(n) ELSE n
RoundTrip ==
  mode = "write" =>
    \A i \in DOMAIN wrote :
      LET s == NameParse(buf, wrote[i].at)
          next == IF i = Len(wrote) THEN Len(buf) ELSE wrote[i + 1].at
      IN  Len(Trimmed(wrote[i].name)) < OutLen => s.st = "done" /\ s.out = Trimmed(wrote[i].name) /\ s.end = next

(***************************************************************************)
(* dnsname_to_labels(): a name that is too long to fit in the buffer is    *)
(* not written.                                                            *)
(***************************************************************************)
FitsBuffer == mode = "write" => Len(buf) <= BufLen
=============================================================================
