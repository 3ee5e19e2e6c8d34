------------------------------ MODULE Snowball ------------------------------
(***************************************************************************)
(* The run-time library of the Snowball stemmers, stemmer2/sb/runtime:     *)
(* the word under work and its cursors, UTF-8, groupings of characters,    *)
(* the search in the tables of endings, and the replacement of a slice.    *)
(*                                                                         *)
(* An environment is a record.  p holds SIZE(p) bytes, from p[1]; a cursor *)
(* is the number of bytes before it.  create_s() makes a p of one byte     *)
(* with l = 0, and that byte stays behind the word for good.               *)
(***************************************************************************)
EXTENDS Integers, Sequences

\* SN_create_env(), create_s().
CreateEnv(I, B) == [p |-> <<0>>, cap |-> 1, c |-> 0, l |-> 0, lb |-> 0, bra |-> 0, ket |-> 0,
                    err |-> FALSE, I |-> [k \in 1..I |-> 0], B |-> [k \in 1..B |-> 0]]

Yes(z) == [ret |-> 1, z |-> z]
No(z) == [ret |-> 0, z |-> z]

-----------------------------------------------------------------------------
(* UTF-8                                                                   *)

RECURSIVE Trailing(_, _, _)
\* The end of the bytes 10------ from c.
Trailing(p, c, l) == IF c < l /\ p[c + 1] \in 128..191 THEN Trailing(p, c + 1, l) ELSE c

RECURSIVE LeadBefore(_, _, _)
\* The start of a character whose last byte is at c.
LeadBefore(p, c, lb) == IF c > lb /\ p[c + 1] < 192 THEN LeadBefore(p, c - 1, lb) ELSE c

\* skip_utf8(), one character forwards or backwards.
Forth(p, c, l) == IF p[c + 1] >= 192 THEN Trailing(p, c + 1, l) ELSE c + 1
Back(p, c, lb) == IF p[c] >= 128 THEN LeadBefore(p, c - 1, lb) ELSE c - 1

RECURSIVE SkipUtf8(_, _, _, _, _)
\* skip_utf8(): the new cursor, or -1.
SkipUtf8(p, c, lb, l, n) ==
  CASE n = 0 -> c
    [] n > 0 -> IF c >= l THEN -1 ELSE SkipUtf8(p, Forth(p, c, l), lb, l, n - 1)
    [] n < 0 -> IF c <= lb THEN -1 ELSE SkipUtf8(p, Back(p, c, lb), lb, l, n + 1)

\* get_utf8(): the width and the code of the character at c; of four bytes it takes three.
GetUtf8(p, c, l) ==
  CASE c >= l                                -> [w |-> 0, ch |-> 0]
    [] c < l /\ (p[c + 1] < 192 \/ c + 1 = l) -> [w |-> 1, ch |-> p[c + 1]]
    [] OTHER -> IF p[c + 1] < 224 \/ c + 2 = l
                THEN [w |-> 2, ch |-> (p[c + 1] % 32) * 64 + (p[c + 2] % 64)]
                ELSE [w |-> 3, ch |-> (p[c + 1] % 16) * 4096 + (p[c + 2] % 64) * 64 + (p[c + 3] % 64)]

\* get_b_utf8(): the character before c.
GetBUtf8(p, c, lb) ==
  CASE c <= lb                               -> [w |-> 0, ch |-> 0]
    [] c > lb /\ (p[c] < 128 \/ c - 1 = lb)  -> [w |-> 1, ch |-> p[c]]
    [] OTHER -> IF p[c - 1] >= 192 \/ c - 2 = lb
                THEN [w |-> 2, ch |-> (p[c - 1] % 32) * 64 + (p[c] % 64)]
                ELSE [w |-> 3, ch |-> (p[c - 1] % 16) * 4096 + (p[c - 1] % 64) * 64 + (p[c] % 64)]

-----------------------------------------------------------------------------
(* Groupings: a bit map from the code min on.                              *)

InGroup(ch, g) == /\ ch <= g.max /\ ch >= g.min
                  /\ (g.s[(ch - g.min) \div 8 + 1] \div 2 ^ ((ch - g.min) % 8)) % 2 = 1

\* What in_grouping_U() and its like do with one character u; y has the cursor behind it.
OverOne(z, y, u, g, in) == CASE u.w = 0 -> [ret |-> -1, z |-> z]
                             [] u.w > 0 /\ InGroup(u.ch, g) # in -> [ret |-> u.w, z |-> z]
                             [] OTHER -> [ret |-> 0, z |-> y]

\* in_grouping_U(), out_grouping_U(), and backwards in_grouping_b_U(), out_grouping_b_U():
\* over one character that is, or is not, in g.
Forward(z, u, g, in) == OverOne(z, [z EXCEPT !.c = @ + u.w], u, g, in)
Backward(z, u, g, in) == OverOne(z, [z EXCEPT !.c = @ - u.w], u, g, in)
Grouping(z, g, in) == Forward(z, GetUtf8(z.p, z.c, z.l), g, in)
GroupingB(z, g, in) == Backward(z, GetBUtf8(z.p, z.c, z.lb), g, in)

\* The same with repeat: over all of them.
RECURSIVE Groupings(_, _, _, _)
Groupings(r, g, in, back) ==
  IF r.ret # 0 THEN r
  ELSE Groupings(IF back THEN GroupingB(r.z, g, in) ELSE Grouping(r.z, g, in), g, in, back)

\* gopast a character of g (in = FALSE), or one that is not in it (in = TRUE).
Past(r, step) == IF r.ret < 0 THEN No(r.z) ELSE Yes([r.z EXCEPT !.c = @ + step * r.ret])
GoPast(z, g, in) == Past(Groupings([ret |-> 0, z |-> z], g, in, FALSE), 1)
GoPastB(z, g, in) == Past(Groupings([ret |-> 0, z |-> z], g, in, TRUE), -1)

-----------------------------------------------------------------------------
(* Strings and tables.                                                     *)

\* eq_s(), eq_s_b().
EqS(z, s) == IF z.l - z.c < Len(s) \/ SubSeq(z.p, z.c + 1, z.c + Len(s)) # s THEN No(z)
             ELSE Yes([z EXCEPT !.c = @ + Len(s)])
EqSB(z, s) == IF z.c - z.lb < Len(s) \/ SubSeq(z.p, z.c - Len(s) + 1, z.c) # s THEN No(z)
              ELSE Yes([z EXCEPT !.c = @ - Len(s)])

\* The bytes that a search compares, from the cursor on: those of the word (-1 beyond its
\* limit) and those of a key.
WordByte(z, n, back) == IF back THEN IF z.c - n = z.lb THEN -1 ELSE z.p[z.c - n]
                        ELSE IF z.c + n = z.l THEN -1 ELSE z.p[z.c + n + 1]
KeyByte(s, n, back) == IF back THEN s[Len(s) - n] ELSE s[n + 1]

\* A byte of the word with one of the key.
Diff(b, k) == IF b = -1 THEN -1 ELSE b - k

RECURSIVE Compare(_, _, _, _)
\* The word with a key, when their first common bytes are known to be the same.
Compare(z, s, common, back) ==
  IF common >= Len(s) THEN [diff |-> 0, common |-> common]
  ELSE IF WordByte(z, common, back) = KeyByte(s, common, back) THEN Compare(z, s, common + 1, back)
  ELSE [diff |-> Diff(WordByte(z, common, back), KeyByte(s, common, back)), common |-> common]

\* One half of the keys i..j, of which ci and cj bytes are known to be in the word, after the
\* comparison r with the key k.
Half(h, k, r) == IF r.diff < 0 THEN [h EXCEPT !.j = k, !.cj = r.common]
                 ELSE [h EXCEPT !.i = k, !.ci = r.common]
Middle(h) == h.i + (h.j - h.i) \div 2
Common(h) == IF h.ci < h.cj THEN h.ci ELSE h.cj
Whole(v) == [i |-> 0, j |-> Len(v), ci |-> 0, cj |-> 0, first |-> FALSE]

\* The binary search of find_among() and find_among_b(): the last key that is not after
\* the word (the first when all are), and how many bytes of it are the same.  The first key
\* is looked at once more when it is the one that is left.
RECURSIVE Search(_, _, _, _)
Search(z, v, h, back) ==
  IF h.j - h.i > 1 \/ (h.i = 0 /\ h.j # 0 /\ ~h.first)
  THEN Search(z, v, Half([h EXCEPT !.first = h.j - h.i <= 1], Middle(h),
                         Compare(z, v[Middle(h) + 1].s, Common(h), back)), back)
  ELSE h

RECURSIVE Links(_, _, _)
\* From the key that was found along substring_i to one that is in the word, or -1.
Links(v, i, common) == CASE i < 0 -> -1
                         [] i >= 0 /\ common >= Len(v[i + 1].s) -> i
                         [] OTHER -> Links(v, v[i + 1].sub, common)

\* The result of key i, the cursor being moved over it; 0 without one.
Taken(z, v, i, step) ==
  IF i < 0 THEN No(z)
  ELSE [ret |-> v[i + 1].res, z |-> [z EXCEPT !.c = @ + step * Len(v[i + 1].s)]]

Longest(v, h) == Links(v, h.i, h.ci)

\* find_among(), find_among_b(): the result of the longest key, 0 when there is none.  No
\* key of the tables used here has a function.
FindAmong(z, v) == Taken(z, v, Longest(v, Search(z, v, Whole(v), FALSE)), 1)
FindAmongB(z, v) == Taken(z, v, Longest(v, Search(z, v, Whole(v), TRUE)), -1)

-----------------------------------------------------------------------------
(* Slices.                                                                 *)

\* increase_size(): CAPACITY; one more byte is allocated.
IncreaseSize(n) == n + 20

\* replace_s(): the bytes bra..ket become s; the cursor stays with the text behind it.
ReplaceS(z, bra, ket, s) ==
  LET adjustment == Len(s) - (ket - bra)
      size == Len(z.p) + adjustment
  IN  [z EXCEPT !.p = SubSeq(z.p, 1, bra) \o s \o SubSeq(z.p, ket + 1, Len(z.p)),
                !.cap = IF adjustment # 0 /\ size > @ THEN IncreaseSize(size) ELSE @,
                !.l = @ + adjustment,
                !.c = CASE adjustment = 0  -> @
                        [] adjustment # 0 /\ @ >= ket -> @ + adjustment
                        [] OTHER           -> IF @ > bra THEN bra ELSE @]

\* slice_check().
SliceOK(z) == z.bra >= 0 /\ z.bra <= z.ket /\ z.ket <= z.l /\ z.l <= Len(z.p)

\* slice_from_s(), slice_del().  A slice that is none makes every caller return -1 at once;
\* err says that this has happened.
SliceFrom(z, s) == IF SliceOK(z) THEN ReplaceS(z, z.bra, z.ket, s) ELSE [z EXCEPT !.err = TRUE]
SliceDel(z) == SliceFrom(z, <<>>)

\* insert_s(): marks at or behind the place move.
InsertS(z, bra, ket, s) ==
  LET y == ReplaceS(z, bra, ket, s)
      adjustment == Len(s) - (ket - bra)
  IN  [y EXCEPT !.bra = IF bra <= @ THEN @ + adjustment ELSE @,
                !.ket = IF bra <= @ THEN @ + adjustment ELSE @]

\* SN_set_current(): the new word, with the cursor before it.
SetCurrent(z, s) == [ReplaceS(z, 0, z.l, s) EXCEPT !.c = 0]

-----------------------------------------------------------------------------
(* What the generated code is made of.                                     *)

\* [ substring ]: the slice of the longest ending of the table, the cursor before it.
Bracket(f) == IF f.ret = 0 THEN f ELSE [f EXCEPT !.z.bra = f.z.c]
Ending(z, v) == Bracket(FindAmongB([z EXCEPT !.ket = z.c], v))

\* [ 's' ].
Slice(r) == IF r.ret = 0 THEN r ELSE Yes([r.z EXCEPT !.bra = r.z.c])
EndString(z, s) == Slice(EqSB([z EXCEPT !.ket = z.c], s))

\* C1 C2: nothing of the second when the first fails.  C1 or C2: the second from the same
\* place.
Then(r, F(_)) == IF r.ret = 0 THEN r ELSE F(r.z)
OrElse(r, F(_)) == IF r.ret = 1 THEN r ELSE F(r.z)

\* do and try, backwards: y comes out of z, and the cursor is again as far from the end.
Again(z, y) == [y EXCEPT !.c = y.l - (z.l - z.c)]
Do(z, F(_)) == Again(z, F(z))

\* sb_stemmer_stem(): the end of the C string goes behind what the stemmer has left.
Terminated(z) == [z EXCEPT !.p[z.l + 1] = 0]

\* The word of an environment.
WordOf(z) == SubSeq(z.p, 1, z.l)

-----------------------------------------------------------------------------
(* Words as strings of letters, their endings and their parts: the words   *)
(* in which the rules of the stemmers are said.                            *)

EndsWith(w, e) == Len(w) >= Len(e) /\ SubSeq(w, Len(w) - Len(e) + 1, Len(w)) = e
But(w, e) == SubSeq(w, 1, Len(w) - Len(e))

\* The longest of the endings of a word, "" when it has none.
LongestOf(S) == CHOOSE e \in S : \A f \in S : Len(f) <= Len(e)
LongestEnd(w, E) == LongestOf({e \in E : EndsWith(w, e)} \cup {""})
Without(w, E) == But(w, LongestEnd(w, E))

Letter(w, k) == SubSeq(w, k, k)

\* The number of letters up to the first one after n that is in V (in), or is not; all of
\* them when there is none.
UpTo(w, n, V, in) == LET K == {k \in n + 1..Len(w) : (Letter(w, k) \in V) = in}
                     IN  IF K = {} THEN Len(w) ELSE CHOOSE k \in K : \A m \in K : k <= m
=============================================================================
