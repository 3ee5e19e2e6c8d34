---------------------------- MODULE LibeventProofs ----------------------------
(***************************************************************************)
(* Theorems about parts of libevent, for every value of their constants:   *)
(* the back end for select(2), the server side of evrpc.c, the buffers,    *)
(* the heap of the timeouts, and the event loop with its lists.            *)
(***************************************************************************)
EXTENDS Integers, Sequences, FiniteSets, SequenceTheorems, FiniteSetTheorems, WellFoundedInduction,
        NaturalsInduction, TLAPS

-----------------------------------------------------------------------------
(* Numbers and sequences.                                                  *)

\* A set of numbers that is not empty has a smallest one.
LEMMA Smallest ==
  ASSUME NEW S, S \subseteq Nat, S # {}
  PROVE  \E m \in S : \A k \in S : m <= k
<1> DEFINE R == OpToRel(<, Nat)
<1>1. IsWellFoundedOn(R, Nat)
  BY NatLessThanWellFounded
<1>2. \A x, y \in Nat : y < x => <<y, x>> \in R
  BY DEF OpToRel
<1> HIDE DEF R
<1>3. PICK m \in S : \A k \in S : ~(<<k, m>> \in R)
  BY <1>1, WFMin
<1>4. ASSUME NEW k \in S
      PROVE  m <= k
  <2>1. m \in Nat /\ k \in Nat /\ ~(k < m)
    BY <1>2, <1>3
  <2> QED
    BY <2>1
<1> QED
  BY <1>4

\* t is the piece of s from m to n.
IsPiece(t, s, m, n) == Len(t) = n + 1 - m /\ \A i \in 1..(n + 1 - m) : t[i] = s[m + i - 1]

LEMMA Piece ==
  ASSUME NEW S, NEW s \in Seq(S), NEW m \in Nat \ {0}, NEW n \in Nat, n <= Len(s), m <= n + 1,
         NEW t, t = SubSeq(s, m, n)
  PROVE  t \in Seq(S) /\ IsPiece(t, s, m, n)
<1>1. \A i \in m..n : s[i] \in S
  OBVIOUS
<1> QED
  BY <1>1, SubSeqProperties DEF IsPiece

-----------------------------------------------------------------------------
(* The back end for select(2).                                             *)

CONSTANTS Fds, Persists, BothOnce, Conditions, Outcomes, None, NFdBits, InitWords

VARIABLES inserted, ready, reported, sop

Sel == INSTANCE Select

(***************************************************************************)
(* The proof that select.c implements Backend.  The set of a direction and *)
(* the array beside it:                                                    *)
(***************************************************************************)
SetOf(s, d) == IF d = "r" THEN s.readset ELSE s.writeset
ByFd(s, d) == IF d = "r" THEN s.r_by_fd ELSE s.w_by_fd

\* The fields of struct selectop; words has no part in what is reported.
SelShape == /\ sop = [event_fds |-> sop.event_fds, words |-> sop.words,
                      readset |-> sop.readset, writeset |-> sop.writeset,
                      r_by_fd |-> sop.r_by_fd, w_by_fd |-> sop.w_by_fd]
            /\ sop.event_fds \in Nat
            /\ \A d \in Sel!Dirs : SetOf(sop, d) \subseteq Fds /\ ByFd(sop, d) \in [Fds -> Sel!Events \cup {None}]

\* The sets and the arrays hold the inserted events and nothing else.
SelWatching == /\ inserted \subseteq Sel!Events
               /\ \A e \in inserted : e.fd <= sop.event_fds
               /\ \A e \in inserted : \A d \in e.what : e.fd \in SetOf(sop, d) /\ ByFd(sop, d)[e.fd] = e
               /\ \A d \in Sel!Dirs, fd \in Fds :
                    fd \in SetOf(sop, d) \/ ByFd(sop, d)[fd] # None =>
                      /\ ByFd(sop, d)[fd] \in inserted
                      /\ ByFd(sop, d)[fd].fd = fd /\ d \in ByFd(sop, d)[fd].what

SelInv == SelShape /\ SelWatching

LEMMA SelEventIs ==
  ASSUME Sel!Sane, NEW e \in Sel!Events
  PROVE  e.fd \in Fds /\ e.fd \in Nat /\ e.what \subseteq Sel!Dirs /\ e.what # {} /\ e # None
BY DEF Sel!Sane, Sel!Events, Sel!Dirs

\* select_add() in terms of SetOf and ByFd.
LEMMA SelAddedTo ==
  ASSUME Sel!Sane, SelShape, NEW e \in Sel!Events, NEW t, t = Sel!AddTo(sop, e)
  PROVE  /\ t = [event_fds |-> t.event_fds, words |-> t.words, readset |-> t.readset,
                 writeset |-> t.writeset, r_by_fd |-> t.r_by_fd, w_by_fd |-> t.w_by_fd]
         /\ t.event_fds = (IF sop.event_fds >= e.fd THEN sop.event_fds ELSE e.fd)
         /\ \A d \in Sel!Dirs : /\ SetOf(t, d) = (IF d \in e.what THEN SetOf(sop, d) \cup {e.fd} ELSE SetOf(sop, d))
                                /\ ByFd(t, d) = (IF d \in e.what THEN [ByFd(sop, d) EXCEPT ![e.fd] = e] ELSE ByFd(sop, d))
<1>1. PICK s : s = Sel!Grown(sop, e.fd)
  OBVIOUS
<1>2. /\ s = [event_fds |-> s.event_fds, words |-> s.words, readset |-> sop.readset,
              writeset |-> sop.writeset, r_by_fd |-> sop.r_by_fd, w_by_fd |-> sop.w_by_fd]
      /\ s.event_fds = (IF sop.event_fds >= e.fd THEN sop.event_fds ELSE e.fd)
  <2>1. CASE sop.event_fds >= e.fd
    BY <1>1, <2>1 DEF Sel!Grown, SelShape
  <2>2. CASE ~(sop.event_fds >= e.fd)
    <3>1. PICK w : w = Sel!Doubled(sop.words, Sel!Needed(e.fd))
      OBVIOUS
    <3>2. s = [sop EXCEPT !.words = w, !.event_fds = e.fd]
      BY <1>1, <2>2, <3>1 DEF Sel!Grown
    <3> QED
      BY <2>2, <3>2 DEF SelShape
  <2> QED
    BY <2>1, <2>2
<1>3. sop.r_by_fd \in [Fds -> Sel!Events \cup {None}] /\ sop.w_by_fd \in [Fds -> Sel!Events \cup {None}] /\ e.fd \in Fds
  BY SelEventIs DEF SelShape, Sel!Dirs, ByFd
<1>4. t = [s EXCEPT !.readset = IF "r" \in e.what THEN @ \cup {e.fd} ELSE @,
                    !.r_by_fd[e.fd] = IF "r" \in e.what THEN e ELSE @,
                    !.writeset = IF "w" \in e.what THEN @ \cup {e.fd} ELSE @,
                    !.w_by_fd[e.fd] = IF "w" \in e.what THEN e ELSE @]
  BY <1>1 DEF Sel!AddTo
<1>5. /\ t = [event_fds |-> s.event_fds, words |-> s.words, readset |-> t.readset,
              writeset |-> t.writeset, r_by_fd |-> t.r_by_fd, w_by_fd |-> t.w_by_fd]
      /\ t.readset = (IF "r" \in e.what THEN sop.readset \cup {e.fd} ELSE sop.readset)
      /\ t.writeset = (IF "w" \in e.what THEN sop.writeset \cup {e.fd} ELSE sop.writeset)
      /\ t.r_by_fd = (IF "r" \in e.what THEN [sop.r_by_fd EXCEPT ![e.fd] = e] ELSE sop.r_by_fd)
      /\ t.w_by_fd = (IF "w" \in e.what THEN [sop.w_by_fd EXCEPT ![e.fd] = e] ELSE sop.w_by_fd)
  <2>1. /\ t = [event_fds |-> s.event_fds, words |-> s.words, readset |-> t.readset,
                writeset |-> t.writeset, r_by_fd |-> t.r_by_fd, w_by_fd |-> t.w_by_fd]
        /\ t.readset = (IF "r" \in e.what THEN sop.readset \cup {e.fd} ELSE sop.readset)
        /\ t.writeset = (IF "w" \in e.what THEN sop.writeset \cup {e.fd} ELSE sop.writeset)
        /\ t.r_by_fd = [sop.r_by_fd EXCEPT ![e.fd] = IF "r" \in e.what THEN e ELSE @]
        /\ t.w_by_fd = [sop.w_by_fd EXCEPT ![e.fd] = IF "w" \in e.what THEN e ELSE @]
    <3>1. /\ s.readset = sop.readset /\ s.writeset = sop.writeset
          /\ s.r_by_fd = sop.r_by_fd /\ s.w_by_fd = sop.w_by_fd
      BY <1>2
    <3>2. PICK rset : rset = IF "r" \in e.what THEN sop.readset \cup {e.fd} ELSE sop.readset
      OBVIOUS
    <3>3. PICK wset : wset = IF "w" \in e.what THEN sop.writeset \cup {e.fd} ELSE sop.writeset
      OBVIOUS
    <3>4. PICK rby : rby = [sop.r_by_fd EXCEPT ![e.fd] = IF "r" \in e.what THEN e ELSE @]
      OBVIOUS
    <3>5. PICK wby : wby = [sop.w_by_fd EXCEPT ![e.fd] = IF "w" \in e.what THEN e ELSE @]
      OBVIOUS
    <3>6. t = [s EXCEPT !.readset = rset, !.r_by_fd = rby, !.writeset = wset, !.w_by_fd = wby]
      BY <1>4, <3>1, <3>2, <3>3, <3>4, <3>5
    <3>7. t = [event_fds |-> s.event_fds, words |-> s.words, readset |-> rset,
               writeset |-> wset, r_by_fd |-> rby, w_by_fd |-> wby]
      BY <1>2, <3>6
    <3> QED
      BY <3>2, <3>3, <3>4, <3>5, <3>7
  <2>2. t.r_by_fd = (IF "r" \in e.what THEN [sop.r_by_fd EXCEPT ![e.fd] = e] ELSE sop.r_by_fd)
    BY <1>3, <2>1
  <2>3. t.w_by_fd = (IF "w" \in e.what THEN [sop.w_by_fd EXCEPT ![e.fd] = e] ELSE sop.w_by_fd)
    BY <1>3, <2>1
  <2> QED
    BY <2>1, <2>2, <2>3
<1> QED
  BY <1>2, <1>5 DEF SetOf, ByFd, Sel!Dirs

\* select_del() in terms of SetOf and ByFd.
LEMMA SelDeletedFrom ==
  ASSUME Sel!Sane, SelShape, NEW E, NEW t, t = Sel!DelFrom(sop, E)
  PROVE  /\ t = [event_fds |-> t.event_fds, words |-> t.words, readset |-> t.readset,
                 writeset |-> t.writeset, r_by_fd |-> t.r_by_fd, w_by_fd |-> t.w_by_fd]
         /\ t.event_fds = sop.event_fds
         /\ \A d \in Sel!Dirs : /\ SetOf(t, d) = SetOf(sop, d) \ Sel!Cleared(sop, E, d)
                                /\ ByFd(t, d) = [fd \in Fds |-> IF fd \in Sel!Cleared(sop, E, d) THEN None
                                                                ELSE ByFd(sop, d)[fd]]
<1>1. PICK cr : cr = Sel!Cleared(sop, E, "r")
  OBVIOUS
<1>2. PICK cw : cw = Sel!Cleared(sop, E, "w")
  OBVIOUS
<1>3. t = [sop EXCEPT !.readset = @ \ cr,
                      !.r_by_fd = [fd \in Fds |-> IF fd \in cr THEN None ELSE sop.r_by_fd[fd]],
                      !.writeset = @ \ cw,
                      !.w_by_fd = [fd \in Fds |-> IF fd \in cw THEN None ELSE sop.w_by_fd[fd]]]
  BY <1>1, <1>2 DEF Sel!DelFrom
<1>4. /\ t = [event_fds |-> sop.event_fds, words |-> sop.words, readset |-> t.readset,
              writeset |-> t.writeset, r_by_fd |-> t.r_by_fd, w_by_fd |-> t.w_by_fd]
      /\ t.readset = sop.readset \ cr /\ t.writeset = sop.writeset \ cw
      /\ t.r_by_fd = [fd \in Fds |-> IF fd \in cr THEN None ELSE sop.r_by_fd[fd]]
      /\ t.w_by_fd = [fd \in Fds |-> IF fd \in cw THEN None ELSE sop.w_by_fd[fd]]
  BY <1>3 DEF SelShape
<1> QED
  BY <1>1, <1>2, <1>4 DEF SetOf, ByFd, Sel!Dirs

LEMMA SelInitInv ==
  ASSUME Sel!Sane, Sel!Init
  PROVE  SelInv
<1>1. /\ sop = Sel!EmptyOp /\ inserted = {}
  BY DEF Sel!Init, Sel!BackendInit
<1>2. SelShape
  BY <1>1 DEF SelShape, Sel!EmptyOp, SetOf, ByFd
<1>3. \A d \in Sel!Dirs : SetOf(sop, d) = {} /\ ByFd(sop, d) = [fd \in Fds |-> None]
  BY <1>1 DEF Sel!EmptyOp, SetOf, ByFd
<1>4. SelWatching
  BY <1>1, <1>3 DEF SelWatching
<1> QED
  BY <1>2, <1>4 DEF SelInv

\* An event goes in, and takes the places of its directions.
LEMMA SelInsertKeeps ==
  ASSUME Sel!Sane, SelInv, NEW e \in Sel!Events, Sel!InsertEvent(e), sop' = Sel!AddTo(sop, e)
  PROVE  SelInv'
<1> USE DEF SelInv
<1>1. e.fd \in Fds /\ e.fd \in Nat /\ e.what \subseteq Sel!Dirs /\ e # None
  BY SelEventIs
<1>2. inserted' = inserted \cup {e} /\ \A f \in inserted : f.fd # e.fd \/ f.what \cap e.what = {}
  BY DEF Sel!InsertEvent, Sel!CanInsert
<1>3. /\ sop' = [event_fds |-> sop'.event_fds, words |-> sop'.words, readset |-> sop'.readset,
                 writeset |-> sop'.writeset, r_by_fd |-> sop'.r_by_fd, w_by_fd |-> sop'.w_by_fd]
      /\ sop'.event_fds = (IF sop.event_fds >= e.fd THEN sop.event_fds ELSE e.fd)
      /\ \A d \in Sel!Dirs : /\ SetOf(sop', d) = (IF d \in e.what THEN SetOf(sop, d) \cup {e.fd} ELSE SetOf(sop, d))
                             /\ ByFd(sop', d) = (IF d \in e.what THEN [ByFd(sop, d) EXCEPT ![e.fd] = e] ELSE ByFd(sop, d))
  BY SelAddedTo
<1>4. SelShape'
  <2>1. sop'.event_fds \in Nat
    BY <1>1, <1>3 DEF SelShape
  <2>2. \A d \in Sel!Dirs : SetOf(sop', d) \subseteq Fds /\ ByFd(sop', d) \in [Fds -> Sel!Events \cup {None}]
    BY <1>1, <1>3 DEF SelShape
  <2> QED
    BY <1>3, <2>1, <2>2 DEF SelShape
<1>5. \A d \in Sel!Dirs, fd \in Fds : ByFd(sop', d)[fd] = IF d \in e.what /\ fd = e.fd THEN e ELSE ByFd(sop, d)[fd]
  BY <1>1, <1>3 DEF SelShape
<1>6. \A f \in inserted' : f \in Sel!Events /\ f.fd \in Fds /\ f.fd \in Nat /\ f.what \subseteq Sel!Dirs
  BY <1>2, SelEventIs DEF SelWatching
<1>7. \A f \in inserted' : f.fd <= sop'.event_fds
  BY <1>1, <1>2, <1>3, <1>6 DEF SelWatching, SelShape
<1>8. \A f \in inserted' : \A d \in f.what : f.fd \in SetOf(sop', d) /\ ByFd(sop', d)[f.fd] = f
  <2> SUFFICES ASSUME NEW f \in inserted', NEW d \in f.what
               PROVE  f.fd \in SetOf(sop', d) /\ ByFd(sop', d)[f.fd] = f
    OBVIOUS
  <2>1. d \in Sel!Dirs /\ f.fd \in Fds
    BY <1>6
  <2>2. CASE f = e
    BY <1>3, <1>5, <2>1, <2>2
  <2>3. CASE f # e
    <3>1. f \in inserted /\ ~(f.fd = e.fd /\ d \in e.what)
      BY <1>2, <2>3
    <3>2. f.fd \in SetOf(sop, d) /\ ByFd(sop, d)[f.fd] = f
      BY <3>1 DEF SelWatching
    <3> QED
      BY <1>3, <1>5, <2>1, <3>1, <3>2
  <2> QED
    BY <2>2, <2>3
<1>9. ASSUME NEW d \in Sel!Dirs, NEW fd \in Fds, fd \in SetOf(sop', d) \/ ByFd(sop', d)[fd] # None
      PROVE  /\ ByFd(sop', d)[fd] \in inserted'
             /\ ByFd(sop', d)[fd].fd = fd /\ d \in ByFd(sop', d)[fd].what
  <2>1. CASE d \in e.what /\ fd = e.fd
    BY <1>2, <1>5, <2>1
  <2>2. CASE ~(d \in e.what /\ fd = e.fd)
    <3>1. ByFd(sop', d)[fd] = ByFd(sop, d)[fd] /\ (fd \in SetOf(sop', d) => fd \in SetOf(sop, d))
      BY <1>3, <1>5, <2>2
    <3> QED
      BY <1>2, <1>9, <3>1 DEF SelWatching
  <2> QED
    BY <2>1, <2>2
<1> QED
  BY <1>4, <1>6, <1>7, <1>8, <1>9 DEF SelWatching

\* Events go out, by select_del().
LEMMA SelDeleteKeeps ==
  ASSUME Sel!Sane, SelInv, NEW E, E \subseteq inserted, inserted' = inserted \ E, sop' = Sel!DelFrom(sop, E)
  PROVE  SelInv'
<1> USE DEF SelInv
<1>1. /\ sop' = [event_fds |-> sop'.event_fds, words |-> sop'.words, readset |-> sop'.readset,
                 writeset |-> sop'.writeset, r_by_fd |-> sop'.r_by_fd, w_by_fd |-> sop'.w_by_fd]
      /\ sop'.event_fds = sop.event_fds
      /\ \A d \in Sel!Dirs : /\ SetOf(sop', d) = SetOf(sop, d) \ Sel!Cleared(sop, E, d)
                             /\ ByFd(sop', d) = [fd \in Fds |-> IF fd \in Sel!Cleared(sop, E, d) THEN None
                                                                ELSE ByFd(sop, d)[fd]]
  BY SelDeletedFrom
<1>2. \A f \in inserted : f \in Sel!Events /\ f.fd \in Fds /\ f.what \subseteq Sel!Dirs /\ f.fd <= sop.event_fds
  BY SelEventIs DEF SelWatching
<1>3. ASSUME NEW d \in Sel!Dirs, NEW fd
      PROVE  fd \in Sel!Cleared(sop, E, d) <=> \E f \in E : f.fd = fd /\ d \in f.what
  BY <1>2 DEF Sel!Cleared
<1>4. SelShape'
  BY <1>1 DEF SelShape
<1>5. \A f \in inserted' : \A d \in f.what : f.fd \in SetOf(sop', d) /\ ByFd(sop', d)[f.fd] = f
  <2> SUFFICES ASSUME NEW f \in inserted', NEW d \in f.what
               PROVE  f.fd \in SetOf(sop', d) /\ ByFd(sop', d)[f.fd] = f
    OBVIOUS
  <2>1. f \in inserted /\ f \notin E /\ d \in Sel!Dirs /\ f.fd \in Fds
    BY <1>2
  <2>2. f.fd \in SetOf(sop, d) /\ ByFd(sop, d)[f.fd] = f
    BY <2>1 DEF SelWatching
  <2>3. f.fd \notin Sel!Cleared(sop, E, d)
    <3> SUFFICES ASSUME NEW g \in E, g.fd = f.fd, d \in g.what
                 PROVE  FALSE
      BY <1>3, <2>1
    <3>1. ByFd(sop, d)[g.fd] = g
      BY DEF SelWatching
    <3> QED
      BY <2>1, <2>2, <3>1
  <2> QED
    BY <1>1, <2>1, <2>2, <2>3
<1>6. ASSUME NEW d \in Sel!Dirs, NEW fd \in Fds, fd \in SetOf(sop', d) \/ ByFd(sop', d)[fd] # None
      PROVE  /\ ByFd(sop', d)[fd] \in inserted'
             /\ ByFd(sop', d)[fd].fd = fd /\ d \in ByFd(sop', d)[fd].what
  <2>1. fd \notin Sel!Cleared(sop, E, d)
    BY <1>1, <1>6
  <2>2. ByFd(sop', d)[fd] = ByFd(sop, d)[fd] /\ (fd \in SetOf(sop', d) => fd \in SetOf(sop, d))
    BY <1>1, <2>1
  <2>3. /\ ByFd(sop, d)[fd] \in inserted
        /\ ByFd(sop, d)[fd].fd = fd /\ d \in ByFd(sop, d)[fd].what
    BY <1>6, <2>2 DEF SelWatching
  <2>4. ByFd(sop, d)[fd] \notin E
    BY <1>3, <2>1, <2>3
  <2> QED
    BY <2>2, <2>3, <2>4
<1> QED
  BY <1>1, <1>2, <1>4, <1>5, <1>6 DEF SelWatching

\* The loop over the sets that select() returns finds what a dispatch has to report.
LEMMA SelFoundIsHits ==
  ASSUME Sel!Sane, SelInv, NEW r \in [Fds -> Conditions]
  PROVE  UNION {Sel!Found(r, fd) : fd \in Fds} = Sel!Hits(r)
<1> USE DEF SelInv
<1>1. \A fd \in Fds, d \in Sel!Dirs : d \in Sel!Res(r, fd) <=> fd <= sop.event_fds /\ fd \in SetOf(sop, d) /\ Sel!Concerns(r, fd, d)
  BY DEF Sel!Res, SetOf, Sel!Dirs, SelShape, Sel!Sane
<1>2. \A fd \in Fds : Sel!Res(r, fd) \subseteq Sel!Dirs
  BY DEF Sel!Res
<1>3. ASSUME NEW fd \in Fds, NEW x \in Sel!Found(r, fd)
      PROVE  x \in Sel!Hits(r)
  <2>1. PICK ev : ev = x[1]
    OBVIOUS
  <2>2. PICK d : d = x[2]
    OBVIOUS
  <2>3. /\ x = <<ev, d>> /\ d \in Sel!Res(r, fd) /\ d \in ev.what /\ ev # None
        /\ \/ ev = sop.r_by_fd[fd] /\ "r" \in Sel!Res(r, fd)
           \/ ev = sop.w_by_fd[fd] /\ "w" \in Sel!Res(r, fd)
    BY <1>3, <2>1, <2>2 DEF Sel!Found
  <2>4. PICK c \in Sel!Dirs : ev = ByFd(sop, c)[fd] /\ c \in Sel!Res(r, fd)
    BY <2>3 DEF ByFd, Sel!Dirs
  <2>5. ev \in inserted /\ ev.fd = fd
    BY <1>1, <2>3, <2>4 DEF SelWatching
  <2>6. d \in Sel!Dirs /\ Sel!Concerns(r, fd, d)
    BY <1>1, <1>2, <2>3
  <2> QED
    BY <2>3, <2>5, <2>6 DEF Sel!Hits
<1>4. ASSUME NEW x \in Sel!Hits(r)
      PROVE  \E fd \in Fds : x \in Sel!Found(r, fd)
  <2>1. PICK e \in inserted, d \in Sel!Dirs : x = <<e, d>> /\ d \in e.what /\ Sel!Concerns(r, e.fd, d)
    BY <1>4 DEF Sel!Hits
  <2>2. e.fd \in Fds /\ e # None
    BY <2>1, SelEventIs DEF SelWatching
  <2>3. e.fd <= sop.event_fds /\ e.fd \in SetOf(sop, d) /\ ByFd(sop, d)[e.fd] = e
    BY <2>1 DEF SelWatching
  <2>4. d \in Sel!Res(r, e.fd)
    BY <1>1, <2>1, <2>2, <2>3
  <2>5. \/ "r" \in Sel!Res(r, e.fd) /\ sop.r_by_fd[e.fd] = e
        \/ "w" \in Sel!Res(r, e.fd) /\ sop.w_by_fd[e.fd] = e
    BY <2>3, <2>4 DEF ByFd, Sel!Dirs
  <2>6. x \in Sel!Found(r, e.fd)
    BY <2>1, <2>2, <2>4, <2>5 DEF Sel!Found
  <2> QED
    BY <2>2, <2>6
<1> QED
  BY <1>3, <1>4

\* One step of select.c is one of Backend, and keeps the invariant.
LEMMA SelStep ==
  ASSUME Sel!Sane, SelInv, [Sel!Next]_(Sel!vars)
  PROVE  SelInv' /\ [Sel!BackendNext]_<<inserted, ready, reported>>
<1>1. ASSUME NEW e \in Sel!Events, Sel!Add(e)
      PROVE  SelInv' /\ Sel!BackendNext
  <2>1. CASE Sel!InsertEvent(e) /\ sop' = Sel!AddTo(sop, e)
    <3>1. SelInv'
      BY <2>1, SelInsertKeeps
    <3> QED
      BY <2>1, <3>1 DEF Sel!BackendNext
  <2>2. CASE Sel!RefuseEvent(e) /\ UNCHANGED sop
    <3>1. SelInv'
      BY <2>2 DEF Sel!RefuseEvent, SelInv, SelShape, SelWatching
    <3> QED
      BY <2>2, <3>1 DEF Sel!BackendNext
  <2> QED
    BY <1>1, <2>1, <2>2 DEF Sel!Add
<1>2. ASSUME NEW e \in Sel!Events, Sel!Del(e)
      PROVE  SelInv' /\ Sel!BackendNext
  <2>1. PICK E : E = {e}
    OBVIOUS
  <2>2. Sel!DeleteEvent(e) /\ E \subseteq inserted /\ inserted' = inserted \ E /\ sop' = Sel!DelFrom(sop, E)
    BY <1>2, <2>1 DEF Sel!Del, Sel!DeleteEvent
  <2>3. SelInv'
    BY <2>2, SelDeleteKeeps
  <2> QED
    BY <2>2, <2>3 DEF Sel!BackendNext
<1>3. ASSUME NEW r \in [Fds -> Conditions], Sel!SelectDispatch(r)
      PROVE  SelInv' /\ Sel!BackendNext
  <2>1. reported' = Sel!Hits(r)
    BY <1>3, SelFoundIsHits DEF Sel!SelectDispatch
  <2>2. Sel!Report(r)
    BY <1>3, <2>1 DEF Sel!SelectDispatch, Sel!Report
  <2>3. PICK E : E = Sel!Once(reported')
    OBVIOUS
  <2>4. E \subseteq inserted
    BY <2>1, <2>3 DEF Sel!Once, Sel!Hits
  <2>5. inserted' = inserted \ E /\ sop' = Sel!DelFrom(sop, E)
    BY <1>3, <2>3 DEF Sel!SelectDispatch
  <2>6. SelInv'
    BY <2>4, <2>5, SelDeleteKeeps
  <2> QED
    BY <2>2, <2>6 DEF Sel!BackendNext
<1>4. CASE UNCHANGED Sel!vars
  BY <1>4 DEF Sel!vars, SelInv, SelShape, SelWatching
<1> QED
  BY <1>1, <1>2, <1>3, <1>4 DEF Sel!Next

\* select.c implements what event.c expects of a back end: after any additions, refusals,
\* deletions and one-shot reports a dispatch activates exactly the events that are ready.
THEOREM SelectImplementsBackend ==
  ASSUME Sel!Sane
  PROVE  Sel!Spec => Sel!BackendSpec
<1>1. Sel!Init => SelInv /\ Sel!BackendInit
  BY SelInitInv DEF Sel!Init
<1>2. SelInv /\ [Sel!Next]_(Sel!vars) => SelInv' /\ [Sel!BackendNext]_<<inserted, ready, reported>>
  BY SelStep
<1> QED
  BY <1>1, <1>2, PTL DEF Sel!Spec, Sel!BackendSpec

\* The assertions of check_selectop() never fail, and the dispatch looks at every
\* descriptor that is set.
THEOREM SelectAssertionsHold ==
  ASSUME Sel!Sane
  PROVE  Sel!Spec => []Sel!CheckSelectop
<1>1. Sel!Init => SelInv
  BY SelInitInv
<1>2. SelInv /\ [Sel!Next]_(Sel!vars) => SelInv'
  BY SelStep
<1>3. SelInv => Sel!CheckSelectop
  <2> SUFFICES ASSUME SelInv
               PROVE  Sel!CheckSelectop
    OBVIOUS
  <2>1. ASSUME NEW fd \in Fds, NEW d \in Sel!Dirs, fd \in SetOf(sop, d)
        PROVE  /\ fd <= sop.event_fds /\ ByFd(sop, d)[fd] # None
               /\ d \in ByFd(sop, d)[fd].what /\ ByFd(sop, d)[fd].fd = fd
    BY <2>1, SelEventIs DEF SelInv, SelWatching
  <2>2. ASSUME NEW fd \in Fds, NEW d \in Sel!Dirs, fd \notin SetOf(sop, d)
        PROVE  ByFd(sop, d)[fd] = None
    BY <2>2 DEF SelInv, SelWatching
  <2> QED
    BY <2>1, <2>2 DEF Sel!CheckSelectop, SetOf, ByFd, Sel!Dirs
<1> QED
  BY <1>1, <1>2, <1>3, PTL DEF Sel!Spec
-----------------------------------------------------------------------------
(* The server side of evrpc.c.                                             *)

CONSTANTS Names, Clients, MaxRpcs, Hooks, Ongoing, FreesBase

VARIABLES rbase, rpcs, callbacks, made, input, output, rstate, used, replies, rfreed, rwrong, aborted

Srv == INSTANCE RpcServer WITH base <- rbase, Requests <- Clients, state <- rstate, freed <- rfreed,
         wrong <- rwrong

Entry(m) == [name : Names, id : 1..m]

\* Types of what the lists and the requests are about.
SrvTyped == /\ made \in Nat
            /\ rpcs \in Seq(Entry(made))
            /\ rfreed \in SUBSET (1..made)
            /\ rstate \in [Clients -> {"new", "user", "done"}]
            /\ replies \in [Clients -> Seq({200, 404, 503})]

\* The server calls the procedures that are registered, which have their own numbers and
\* are not freed.
SrvLists == /\ callbacks = rpcs
            /\ \A i, j \in 1..Len(rpcs) : i < j => rpcs[i].id < rpcs[j].id
            /\ \A i \in 1..Len(rpcs) : rpcs[i].id \notin rfreed

\* A request without a reply is one that is not done.
SrvReplies == \A r \in Clients : Len(replies[r]) = IF rstate[r] = "done" THEN 1 ELSE 0

SrvInv == SrvTyped /\ SrvLists /\ SrvReplies

\* A procedure has a name and a number.
LEMMA EntryOf ==
  ASSUME SrvTyped, NEW i \in 1..Len(rpcs)
  PROVE  rpcs[i] \in Entry(made) /\ rpcs[i].id \in 1..made /\ rpcs[i].name \in Names
<1>1. rpcs[i] \in Entry(made)
  BY DEF SrvTyped
<1> QED
  BY <1>1 DEF Entry

LEMMA SrvInit ==
  ASSUME Srv!Init
  PROVE  SrvInv
BY DEF Srv!Init, SrvInv, SrvTyped, SrvLists, SrvReplies

\* A list of procedures without the one at place k.
LEMMA Removed ==
  ASSUME NEW S, NEW s \in Seq(S), NEW k \in 1..Len(s), NEW t, t = Srv!RemoveAt(s, k)
  PROVE  /\ t \in Seq(S) /\ Len(t) = Len(s) - 1
         /\ \A i \in 1..Len(t) : t[i] = IF i < k THEN s[i] ELSE s[i + 1]
<1>1. PICK a : a = SubSeq(s, 1, k - 1)
  OBVIOUS
<1>2. PICK b : b = SubSeq(s, k + 1, Len(s))
  OBVIOUS
<1>3. PICK m \in Nat \ {0} : m = k + 1
  OBVIOUS
<1>4. PICK n \in Nat : n = k - 1
  OBVIOUS
<1>5. a \in Seq(S) /\ IsPiece(a, s, 1, n)
  <2>1. n <= Len(s) /\ 1 <= n + 1 /\ 1 \in Nat \ {0} /\ a = SubSeq(s, 1, n)
    BY <1>1, <1>4
  <2> QED
    BY <2>1, Piece
<1>6. b \in Seq(S) /\ IsPiece(b, s, m, Len(s))
  <2>1. Len(s) \in Nat /\ Len(s) <= Len(s) /\ m <= Len(s) + 1 /\ b = SubSeq(s, m, Len(s))
    BY <1>2, <1>3
  <2> QED
    BY <2>1, Piece
<1>7. Len(a) = k - 1 /\ Len(b) = Len(s) - k
  BY <1>3, <1>4, <1>5, <1>6 DEF IsPiece
<1>8. /\ \A i \in 1..(k - 1) : a[i] = s[i]
      /\ \A i \in 1..(Len(s) - k) : b[i] = s[i + k]
  BY <1>3, <1>4, <1>5, <1>6 DEF IsPiece
<1>9. t = a \o b
  BY <1>1, <1>2 DEF Srv!RemoveAt
<1>10. \A i \in 1..(Len(a) + Len(b)) : t[i] = IF i <= Len(a) THEN a[i] ELSE b[i - Len(a)]
  BY <1>9, <1>5, <1>6, ConcatProperties
<1>11. t \in Seq(S) /\ Len(t) = Len(s) - 1
  BY <1>9, <1>5, <1>6, <1>7
<1>12. ASSUME NEW i \in 1..Len(t)
      PROVE  t[i] = IF i < k THEN s[i] ELSE s[i + 1]
  <2>1. CASE i < k
    <3>1. i \in 1..(k - 1) /\ i <= Len(a) /\ i \in 1..(Len(a) + Len(b))
      BY <1>7, <1>11, <2>1
    <3>2. t[i] = a[i]
      BY <1>10, <3>1
    <3> QED
      BY <1>8, <2>1, <3>1, <3>2
  <2>2. CASE i >= k
    <3>1. t[i] = b[i - (k - 1)] /\ i - (k - 1) \in 1..Len(b)
      <4>1. PICK n1 \in Nat : n1 = Len(a)
        BY <1>5
      <4>2. PICK n2 \in Nat : n2 = Len(b)
        BY <1>6
      <4>3. n1 = k - 1 /\ Len(t) = n1 + n2
        BY <1>7, <1>11, <4>1, <4>2
      <4>4. i \in 1..(n1 + n2) /\ ~(i <= n1) /\ i - n1 \in 1..n2
        BY <2>2, <4>3
      <4>5. t[i] = b[i - n1]
        BY <1>10, <4>1, <4>2, <4>4
      <4> QED
        BY <4>2, <4>3, <4>4, <4>5
    <3> QED
      BY <1>7, <1>8, <2>2, <3>1
  <2> QED
    BY <2>1, <2>2
<1> QED
  BY <1>11, <1>12

\* The place that evhttp_del_cb() and evrpc_unregister_rpc() find.
LEMMA FirstFound ==
  ASSUME NEW S, NEW s \in Seq(S), NEW n, NEW k, k = Srv!First(s, n), k # 0
  PROVE  k \in 1..Len(s) /\ s[k].name = n
<1> DEFINE I == {i \in 1..Len(s) : s[i].name = n}
<1>1. I # {}
  BY DEF Srv!First
<1>2. k = CHOOSE i \in I : \A j \in I : i <= j
  BY <1>1 DEF Srv!First
<1>3. \E i \in I : \A j \in I : i <= j
  <2>1. I \subseteq Nat
    OBVIOUS
  <2> HIDE DEF I
  <2> QED
    BY <1>1, <2>1, Smallest
<1>4. k \in I
  <2> HIDE DEF I
  <2> QED
    BY <1>2, <1>3
<1> QED
  BY <1>4

LEMMA SrvSame ==
  ASSUME SrvInv, UNCHANGED <<made, rpcs, callbacks, rfreed, rstate, replies>>
  PROVE  SrvInv'
BY DEF SrvInv, SrvTyped, SrvLists, SrvReplies

LEMMA SrvRegister ==
  ASSUME SrvInv, NEW n \in Names, Srv!Register(n)
  PROVE  SrvInv'
<1> USE DEF SrvInv
<1>1. /\ made' = made + 1 /\ made \in Nat
      /\ rpcs' = Append(rpcs, [name |-> n, id |-> made + 1]) /\ callbacks' = Append(callbacks, [name |-> n, id |-> made + 1])
      /\ UNCHANGED <<rstate, replies, rfreed>>
  BY DEF Srv!Register, SrvTyped
<1>2. rpcs \in Seq(Entry(made + 1)) /\ [name |-> n, id |-> made + 1] \in Entry(made + 1)
  <2>1. Entry(made) \subseteq Entry(made + 1)
    BY <1>1 DEF Entry
  <2>2. rpcs \in Seq(Entry(made))
    BY DEF SrvTyped
  <2>3. rpcs \in [1..Len(rpcs) -> Entry(made + 1)] /\ Len(rpcs) \in Nat
    BY <2>1, <2>2
  <2>4. rpcs \in Seq(Entry(made + 1))
    BY <2>3, SeqDef
  <2>5. [name |-> n, id |-> made + 1] \in Entry(made + 1)
    BY <1>1 DEF Entry
  <2> QED
    BY <2>4, <2>5
<1>3. /\ Len(rpcs') = Len(rpcs) + 1 /\ rpcs' \in Seq(Entry(made + 1))
      /\ \A i \in 1..Len(rpcs) : rpcs'[i] = rpcs[i]
      /\ rpcs'[Len(rpcs) + 1].id = made + 1
  BY <1>1, <1>2
<1>4. \A i \in 1..Len(rpcs) : rpcs[i].id \in 1..made
  BY EntryOf
<1>5. SrvTyped'
  BY <1>1, <1>3 DEF SrvTyped
<1>6. SrvLists'
  <2>1. callbacks' = rpcs'
    BY <1>1 DEF SrvLists
  <2>2. ASSUME NEW i \in 1..Len(rpcs'), NEW j \in 1..Len(rpcs'), i < j
        PROVE  rpcs'[i].id < rpcs'[j].id
    <3>1. i \in 1..Len(rpcs) /\ rpcs'[i] = rpcs[i] /\ rpcs[i].id \in 1..made
      BY <1>3, <1>4, <2>2
    <3>2. CASE j = Len(rpcs) + 1
      BY <1>1, <1>3, <3>1, <3>2
    <3>3. CASE j # Len(rpcs) + 1
      BY <1>3, <2>2, <3>1, <3>3 DEF SrvLists
    <3> QED
      BY <3>2, <3>3
  <2>3. ASSUME NEW i \in 1..Len(rpcs')
        PROVE  rpcs'[i].id \notin rfreed'
    BY <1>1, <1>3 DEF SrvLists, SrvTyped
  <2> QED
    BY <2>1, <2>2, <2>3 DEF SrvLists
<1>7. SrvReplies'
  BY <1>1 DEF SrvReplies
<1> QED
  BY <1>5, <1>6, <1>7

\* A procedure goes from both lists, and with it its number.
LEMMA SrvRemoval ==
  ASSUME SrvInv, NEW k \in 1..Len(rpcs), rpcs' = Srv!RemoveAt(rpcs, k), callbacks' = rpcs',
         rfreed' = rfreed \cup {rpcs[k].id}, UNCHANGED <<made, rstate, replies>>
  PROVE  SrvInv'
<1> USE DEF SrvInv
<1>1. rpcs \in Seq(Entry(made)) /\ made \in Nat
  BY DEF SrvTyped
<1>2. /\ rpcs' \in Seq(Entry(made)) /\ Len(rpcs') = Len(rpcs) - 1
      /\ \A i \in 1..Len(rpcs') : rpcs'[i] = IF i < k THEN rpcs[i] ELSE rpcs[i + 1]
  BY <1>1, Removed
<1>3. \A i \in 1..Len(rpcs) : rpcs[i].id \in 1..made
  BY EntryOf
<1>4. SrvTyped'
  BY <1>1, <1>2, <1>3 DEF SrvTyped
<1>5. ASSUME NEW i \in 1..Len(rpcs')
      PROVE  \E x \in 1..Len(rpcs) : x # k /\ rpcs'[i] = rpcs[x] /\ x = (IF i < k THEN i ELSE i + 1)
  BY <1>2
<1>6. SrvLists'
  <2>1. ASSUME NEW i \in 1..Len(rpcs'), NEW j \in 1..Len(rpcs'), i < j
        PROVE  rpcs'[i].id < rpcs'[j].id
    <3>1. PICK x \in 1..Len(rpcs) : rpcs'[i] = rpcs[x] /\ x = (IF i < k THEN i ELSE i + 1)
      BY <1>5
    <3>2. PICK y \in 1..Len(rpcs) : rpcs'[j] = rpcs[y] /\ y = (IF j < k THEN j ELSE j + 1)
      BY <1>5
    <3>3. x < y
      BY <2>1, <3>1, <3>2
    <3> QED
      BY <3>1, <3>2, <3>3 DEF SrvLists
  <2>2. ASSUME NEW i \in 1..Len(rpcs')
        PROVE  rpcs'[i].id \notin rfreed'
    <3>1. PICK x \in 1..Len(rpcs) : x # k /\ rpcs'[i] = rpcs[x]
      BY <1>5
    <3>2. rpcs[x].id # rpcs[k].id
      <4>1. rpcs[x].id \in Int /\ rpcs[k].id \in Int
        BY <1>3
      <4>2. CASE x < k
        BY <4>1, <4>2 DEF SrvLists
      <4>3. CASE k < x
        BY <4>1, <4>3 DEF SrvLists
      <4> QED
        BY <3>1, <4>2, <4>3
    <3> QED
      BY <3>1, <3>2 DEF SrvLists
  <2> QED
    BY <2>1, <2>2 DEF SrvLists
<1>7. SrvReplies'
  BY DEF SrvReplies
<1> QED
  BY <1>4, <1>6, <1>7

LEMMA SrvUnregister ==
  ASSUME SrvInv, NEW n \in Names, Srv!Unregister(n)
  PROVE  SrvInv' /\ UNCHANGED aborted
<1> USE DEF SrvInv
<1>1. PICK k : k = Srv!First(rpcs, n)
  OBVIOUS
<1>2. k # 0 /\ callbacks = rpcs
  BY <1>1 DEF Srv!Unregister, SrvLists
<1>3. /\ rpcs' = Srv!RemoveAt(rpcs, k) /\ rfreed' = rfreed \cup {rpcs[k].id}
      /\ callbacks' = Srv!RemoveAt(rpcs, k) /\ UNCHANGED <<made, rstate, replies, aborted>>
  BY <1>1, <1>2 DEF Srv!Unregister, Srv!DelCb
<1>4. k \in 1..Len(rpcs)
  BY <1>1, <1>2, FirstFound DEF SrvTyped
<1> QED
  BY <1>3, <1>4, SrvRemoval

\* A reply ends a request.
LEMMA SrvReply ==
  ASSUME SrvInv, NEW r \in Clients, rstate[r] # "done", NEW code \in {200, 404, 503}, Srv!Reply(r, code),
         UNCHANGED <<made, rpcs, callbacks, rfreed>>
  PROVE  SrvInv'
<1> USE DEF SrvInv
<1>1. /\ replies' = [replies EXCEPT ![r] = Append(@, code)]
      /\ rstate' = [rstate EXCEPT ![r] = "done"]
  BY DEF Srv!Reply
<1>2. Len(replies[r]) = 0 /\ replies[r] \in Seq({200, 404, 503})
  BY DEF SrvReplies, SrvTyped
<1>3. Append(replies[r], code) \in Seq({200, 404, 503}) /\ Len(Append(replies[r], code)) = 1
  BY <1>2
<1>4. SrvTyped'
  BY <1>1, <1>3 DEF SrvTyped
<1>5. SrvReplies'
  BY <1>1, <1>3 DEF SrvReplies, SrvTyped
<1> QED
  BY <1>4, <1>5 DEF SrvLists

LEMMA SrvRequest ==
  ASSUME SrvInv, NEW r \in Clients, NEW n \in Names, NEW ok \in BOOLEAN, Srv!Request(r, n, ok)
  PROVE  SrvInv'
<1>1. rstate[r] # "done" /\ UNCHANGED <<made, rpcs, callbacks, rfreed>>
  BY DEF Srv!Request
<1>2. CASE Srv!Reply(r, 404)
  BY <1>1, <1>2, SrvReply
<1>3. CASE Srv!Reply(r, 503)
  BY <1>1, <1>3, SrvReply
<1>4. CASE rstate' = [rstate EXCEPT ![r] = "user"] /\ UNCHANGED replies
  BY <1>1, <1>4 DEF SrvInv, SrvTyped, SrvLists, SrvReplies
<1> QED
  BY <1>2, <1>3, <1>4 DEF Srv!Request, Srv!RequestCb

LEMMA SrvDone ==
  ASSUME SrvInv, NEW r \in Clients, NEW complete \in BOOLEAN, Srv!RequestDone(r, complete)
  PROVE  SrvInv'
<1>1. rstate[r] # "done" /\ UNCHANGED <<made, rpcs, callbacks, rfreed>>
  BY DEF Srv!RequestDone
<1>2. PICK code \in {200, 404, 503} : Srv!Reply(r, code)
  BY DEF Srv!RequestDone
<1> QED
  BY <1>1, <1>2, SrvReply

\* evrpc_free() takes the first procedure of the list from both.
LEMMA SrvFree ==
  ASSUME SrvInv, Srv!BaseFree
  PROVE  SrvInv'
<1>1. CASE rpcs = <<>>
  <2>1. UNCHANGED <<made, rpcs, callbacks, rfreed, rstate, replies>>
    BY <1>1 DEF Srv!BaseFree
  <2> QED
    BY <2>1, SrvSame
<1>2. CASE rpcs # <<>>
  <2>1. 1 \in 1..Len(rpcs) /\ rpcs \in Seq(Entry(made)) /\ callbacks = rpcs
    BY <1>2 DEF SrvInv, SrvTyped, SrvLists
  <2>2. Srv!First(rpcs, rpcs[1].name) = 1
    <3> DEFINE I == {i \in 1..Len(rpcs) : rpcs[i].name = rpcs[1].name}
    <3>1. 1 \in I /\ I # {} /\ I \subseteq Nat /\ \A i \in I : 1 <= i
      BY <2>1
    <3>2. Srv!First(rpcs, rpcs[1].name) = CHOOSE i \in I : \A j \in I : i <= j
      BY <3>1 DEF Srv!First
    <3> HIDE DEF I
    <3>3. \A i \in I : (\A j \in I : i <= j) => i = 1
      BY <3>1
    <3> QED
      BY <3>1, <3>2, <3>3
  <2>3. Tail(rpcs) = Srv!RemoveAt(rpcs, 1)
    <3>1. SubSeq(rpcs, 1, 0) = <<>>
      BY SubSeqEmpty
    <3>2. Tail(rpcs) \in Seq(Entry(made)) /\ Tail(rpcs) = SubSeq(rpcs, 2, Len(rpcs))
      BY <1>2, <2>1
    <3>3. <<>> \o Tail(rpcs) = Tail(rpcs)
      BY <3>2, ConcatEmptySeq
    <3> QED
      BY <3>1, <3>2, <3>3 DEF Srv!RemoveAt
  <2>4. /\ rpcs' = Tail(rpcs) /\ callbacks' = Srv!RemoveAt(callbacks, Srv!First(callbacks, rpcs[1].name))
        /\ rfreed' = rfreed \cup {rpcs[1].id} /\ UNCHANGED <<made, rstate, replies>>
    BY <1>2 DEF Srv!BaseFree, Srv!DelCb
  <2>5. PICK k \in 1..Len(rpcs) : k = 1
    BY <2>1
  <2>6. /\ rpcs' = Srv!RemoveAt(rpcs, k) /\ callbacks' = rpcs' /\ rfreed' = rfreed \cup {rpcs[k].id}
        /\ UNCHANGED <<made, rstate, replies>>
    BY <2>1, <2>2, <2>3, <2>4, <2>5
  <2> QED
    BY <2>6, SrvRemoval
<1> QED
  BY <1>1, <1>2

LEMMA SrvStep ==
  ASSUME SrvInv, [Srv!Next]_(Srv!vars)
  PROVE  SrvInv'
<1>1. ASSUME NEW n \in Names, Srv!Register(n) \/ Srv!Unregister(n)
      PROVE  SrvInv'
  BY <1>1, SrvRegister, SrvUnregister
<1>2. ASSUME NEW h \in Hooks, Srv!RemoveHook(h) \/ \E res \in {-1, 0} : Srv!AddHook(h, res)
      PROVE  SrvInv'
  <2>1. UNCHANGED <<made, rpcs, callbacks, rfreed, rstate, replies>>
    BY <1>2 DEF Srv!RemoveHook, Srv!AddHook
  <2> QED
    BY <2>1, SrvSame
<1>3. ASSUME NEW r \in Clients, NEW b \in BOOLEAN,
             Srv!RequestDone(r, b) \/ \E n \in Names : Srv!Request(r, n, b)
      PROVE  SrvInv'
  BY <1>3, SrvDone, SrvRequest
<1>4. CASE UNCHANGED Srv!vars
  BY <1>4, SrvSame DEF Srv!vars
<1> QED
  BY <1>1, <1>2, <1>3, <1>4, SrvFree DEF Srv!Next

\* The procedures of the base are the callbacks of the HTTP server, in the same order and
\* none of them freed, and a request is replied to once, however procedures are registered,
\* unregistered and freed while requests are under way.
THEOREM RpcServerExact == Srv!Spec => [](Srv!SameProcedures /\ Srv!OneReply)
<1>1. Srv!Init => SrvInv
  BY SrvInit
<1>2. SrvInv /\ [Srv!Next]_(Srv!vars) => SrvInv'
  BY SrvStep
<1>3. SrvInv => Srv!SameProcedures /\ Srv!OneReply
  BY DEF SrvInv, SrvLists, SrvReplies, Srv!SameProcedures, Srv!OneReply
<1> QED
  BY <1>1, <1>2, <1>3, PTL DEF Srv!Spec

\* A request that the program has is for a procedure that is registered.
SrvHolds == /\ used \in [Clients -> Nat]
            /\ \A r \in Clients : rstate[r] = "user" => \E k \in 1..Len(rpcs) : rpcs[k].id = used[r]

\* Neither of the two ends has been met.
SrvClean == SrvInv /\ SrvHolds /\ rwrong = FALSE /\ aborted = FALSE

LEMMA SrvCleanStep ==
  ASSUME ~Ongoing, ~FreesBase, SrvClean, [Srv!Next]_(Srv!vars)
  PROVE  SrvClean'
<1> USE DEF SrvClean
<1>1. SrvInv'
  BY SrvStep
<1>2. ASSUME NEW n \in Names, Srv!Register(n)
      PROVE  SrvHolds' /\ UNCHANGED <<rwrong, aborted>>
  <2>1. /\ rpcs' = Append(rpcs, [name |-> n, id |-> made + 1])
        /\ UNCHANGED <<rstate, used, rwrong, aborted>>
    BY <1>2 DEF Srv!Register
  <2>2. Len(rpcs) \in Nat /\ Len(rpcs') = Len(rpcs) + 1 /\ \A i \in 1..Len(rpcs) : rpcs'[i] = rpcs[i]
    BY <2>1 DEF SrvInv, SrvTyped
  <2>3. ASSUME NEW r \in Clients, rstate[r] = "user"
        PROVE  \E k \in 1..Len(rpcs') : rpcs'[k].id = used[r]
    <3>1. PICK k \in 1..Len(rpcs) : rpcs[k].id = used[r]
      BY <2>3 DEF SrvHolds
    <3> QED
      BY <2>2, <3>1
  <2> QED
    BY <2>1, <2>3 DEF SrvHolds
<1>3. ASSUME NEW n \in Names, Srv!Unregister(n)
      PROVE  SrvHolds' /\ UNCHANGED <<rwrong, aborted>>
  <2>1. UNCHANGED <<rstate, used, rwrong, aborted>>
    BY <1>3, SrvUnregister DEF Srv!Unregister
  <2>2. PICK f : f = Srv!First(rpcs, n)
    OBVIOUS
  <2>3. f # 0 /\ rpcs' = Srv!RemoveAt(rpcs, f) /\ rpcs \in Seq(Entry(made))
    BY <1>3, <2>2 DEF Srv!Unregister, SrvInv, SrvTyped
  <2>4. f \in 1..Len(rpcs)
    BY <2>2, <2>3, FirstFound
  <2>5. /\ Len(rpcs') = Len(rpcs) - 1
        /\ \A i \in 1..Len(rpcs') : rpcs'[i] = IF i < f THEN rpcs[i] ELSE rpcs[i + 1]
    BY <2>3, <2>4, Removed
  <2>6. \A r \in Clients : ~(rstate[r] = "user" /\ used[r] = rpcs[f].id)
    BY <1>3, <2>2 DEF Srv!Unregister, Srv!Held
  <2>7. ASSUME NEW r \in Clients, rstate[r] = "user"
        PROVE  \E k \in 1..Len(rpcs') : rpcs'[k].id = used[r]
    <3>1. PICK k \in 1..Len(rpcs) : rpcs[k].id = used[r]
      BY <2>7 DEF SrvHolds
    <3>2. k # f
      BY <2>6, <2>7, <3>1
    <3>3. CASE k < f
      <4>1. k \in 1..Len(rpcs') /\ rpcs'[k] = rpcs[k]
        BY <2>4, <2>5, <3>3
      <4> QED
        BY <3>1, <4>1
    <3>4. CASE f < k
      <4>1. PICK j \in 1..Len(rpcs') : j = k - 1 /\ ~(j < f)
        BY <2>4, <2>5, <3>4
      <4>2. rpcs'[j] = rpcs[k]
        BY <2>5, <4>1
      <4> QED
        BY <3>1, <4>2
    <3> QED
      BY <2>4, <3>2, <3>3, <3>4
  <2> QED
    BY <2>1, <2>7 DEF SrvHolds
<1>4. ASSUME NEW h \in Hooks, Srv!RemoveHook(h) \/ \E res \in {-1, 0} : Srv!AddHook(h, res)
      PROVE  SrvHolds' /\ UNCHANGED <<rwrong, aborted>>
  <2>1. UNCHANGED <<rpcs, rstate, used, rwrong, aborted>>
    BY <1>4 DEF Srv!RemoveHook, Srv!AddHook
  <2> QED
    BY <2>1 DEF SrvHolds
<1>5. ASSUME NEW r \in Clients, NEW ok \in BOOLEAN, Srv!RequestDone(r, ok)
      PROVE  SrvHolds' /\ UNCHANGED <<rwrong, aborted>>
  <2>1. /\ rstate[r] = "user" /\ rstate' = [rstate EXCEPT ![r] = "done"]
        /\ rwrong' = (rwrong \/ used[r] \in rfreed) /\ UNCHANGED <<rpcs, used, aborted>>
    BY <1>5 DEF Srv!RequestDone, Srv!Reply
  <2>2. PICK k \in 1..Len(rpcs) : rpcs[k].id = used[r]
    BY <2>1 DEF SrvHolds
  <2>3. used[r] \notin rfreed
    BY <2>2 DEF SrvInv, SrvLists
  <2>4. \A c \in Clients : rstate'[c] = "user" => rstate[c] = "user"
    BY <2>1 DEF SrvInv, SrvTyped
  <2> QED
    BY <2>1, <2>3, <2>4 DEF SrvHolds
<1>6. ASSUME NEW r \in Clients, NEW ok \in BOOLEAN, NEW n \in Names, Srv!Request(r, n, ok)
      PROVE  SrvHolds' /\ UNCHANGED <<rwrong, aborted>>
  <2>1. rstate \in [Clients -> {"new", "user", "done"}] /\ callbacks = rpcs /\ UNCHANGED <<rpcs, aborted>>
    BY <1>6 DEF Srv!Request, SrvInv, SrvTyped, SrvLists
  <2>2. CASE Srv!First(callbacks, n) = 0
    <3>1. rstate' = [rstate EXCEPT ![r] = "done"] /\ UNCHANGED <<used, rwrong>>
      BY <1>6, <2>2 DEF Srv!Request, Srv!Reply
    <3>2. \A c \in Clients : rstate'[c] = "user" => rstate[c] = "user"
      BY <2>1, <3>1
    <3> QED
      BY <2>1, <3>1, <3>2 DEF SrvHolds
  <2>3. CASE Srv!First(callbacks, n) # 0
    <3>1. PICK k : k = Srv!First(callbacks, n)
      OBVIOUS
    <3>2. k \in 1..Len(rpcs)
      BY <2>1, <2>3, <3>1, FirstFound DEF SrvInv, SrvTyped
    <3>3. rpcs[k].id \in 1..made /\ rpcs[k].id \notin rfreed /\ made \in Nat
      BY <3>2, EntryOf DEF SrvInv, SrvLists, SrvTyped
    <3>4. /\ used' = [used EXCEPT ![r] = rpcs[k].id] /\ rwrong' = (rwrong \/ rpcs[k].id \in rfreed)
          /\ \/ rstate' = [rstate EXCEPT ![r] = "user"]
             \/ rstate' = [rstate EXCEPT ![r] = "done"]
      BY <1>6, <2>1, <2>3, <3>1 DEF Srv!Request, Srv!RequestCb, Srv!Reply
    <3>5. used' \in [Clients -> Nat]
      BY <3>3, <3>4 DEF SrvHolds
    <3>6. ASSUME NEW c \in Clients, rstate'[c] = "user"
          PROVE  \E j \in 1..Len(rpcs') : rpcs'[j].id = used'[c]
      <4>1. CASE c = r
        <5>1. used'[c] = rpcs'[k].id /\ k \in 1..Len(rpcs')
          BY <2>1, <3>2, <3>4, <4>1 DEF SrvHolds
        <5> QED
          BY <5>1
      <4>2. CASE c # r
        BY <2>1, <3>4, <3>6, <4>2 DEF SrvHolds
      <4> QED
        BY <4>1, <4>2
    <3> QED
      BY <2>1, <3>3, <3>4, <3>5, <3>6 DEF SrvHolds
  <2> QED
    BY <2>2, <2>3
<1>7. ASSUME Srv!BaseFree
      PROVE  SrvHolds' /\ UNCHANGED <<rwrong, aborted>>
  <2>1. UNCHANGED <<rpcs, rstate, used, rwrong, aborted>>
    BY <1>7 DEF Srv!BaseFree
  <2> QED
    BY <2>1 DEF SrvHolds
<1>8. CASE UNCHANGED Srv!vars
  BY <1>8 DEF Srv!vars, SrvInv, SrvTyped, SrvLists, SrvReplies, SrvHolds
<1> QED
  BY <1>1, <1>2, <1>3, <1>4, <1>5, <1>6, <1>7, <1>8 DEF Srv!Next

\* In a program that unregisters a procedure only when it holds no request for it, and that
\* frees the base after the last procedure, no freed procedure is used and no assertion of
\* evrpc.c fails.
THEOREM RpcServerClean ==
  ASSUME ~Ongoing, ~FreesBase
  PROVE  Srv!Spec => [](Srv!NoFreedRpc /\ Srv!NoAbort)
<1>1. Srv!Init => SrvClean
  <2> SUFFICES ASSUME Srv!Init
               PROVE  SrvClean
    OBVIOUS
  <2>1. SrvInv
    BY SrvInit
  <2> QED
    BY <2>1 DEF Srv!Init, SrvClean, SrvHolds
<1>2. SrvClean /\ [Srv!Next]_(Srv!vars) => SrvClean'
  BY SrvCleanStep
<1>3. SrvClean => Srv!NoFreedRpc /\ Srv!NoAbort
  BY DEF SrvClean, Srv!NoFreedRpc, Srv!NoAbort
<1> QED
  BY <1>1, <1>2, <1>3, PTL DEF Srv!Spec

\* A hook that refuses is obeyed: the program gets no request that an input hook has
\* refused, and no reply that an output hook has refused is sent.
THEOREM HooksAreObeyed == Srv!Spec => Srv!HooksObeyed
<1> DEFINE Obeyed == \A r \in Clients :
       /\ rstate[r] = "new" /\ rstate'[r] = "user" => \A x \in Srv!ToSet(input) : x.res # -1
       /\ replies'[r] # replies[r] /\ Srv!Last(replies'[r]) = 200 => \A x \in Srv!ToSet(output) : x.res # -1
<1>1. Srv!Init => SrvInv
  BY SrvInit
<1>2. SrvInv /\ [Srv!Next]_(Srv!vars) => SrvInv'
  BY SrvStep
<1>3. ASSUME SrvInv, Srv!Next
      PROVE  Obeyed
  <2> USE <1>3
  <2>1. ASSUME UNCHANGED <<rstate, replies>>
        PROVE  Obeyed
    BY <2>1
  <2>2. ASSUME NEW c \in Clients, NEW code \in {404, 503}, Srv!Reply(c, code)
        PROVE  Obeyed
    <3>1. replies' = [replies EXCEPT ![c] = Append(@, code)] /\ rstate' = [rstate EXCEPT ![c] = "done"]
      BY <2>2 DEF Srv!Reply
    <3>2. replies[c] \in Seq({200, 404, 503}) /\ replies \in [Clients -> Seq({200, 404, 503})]
      BY DEF SrvInv, SrvTyped
    <3>3. Srv!Last(Append(replies[c], code)) = code
      BY <3>2 DEF Srv!Last
    <3>4. \A r \in Clients : replies'[r] # replies[r] => Srv!Last(replies'[r]) # 200
      BY <3>1, <3>2, <3>3
    <3>5. \A r \in Clients : rstate'[r] = "user" => rstate[r] = "user"
      BY <3>1 DEF SrvInv, SrvTyped
    <3> QED
      BY <3>4, <3>5
  <2>3. ASSUME NEW c \in Clients, NEW n \in Names, NEW ok \in BOOLEAN, Srv!Request(c, n, ok)
        PROVE  Obeyed
    <3>1. CASE Srv!Reply(c, 404)
      BY <2>2, <3>1
    <3>2. CASE Srv!Reply(c, 503)
      BY <2>2, <3>2
    <3>3. CASE Srv!ProcessHooks(input) # -1 /\ UNCHANGED replies
      BY <3>3 DEF Srv!ProcessHooks
    <3> QED
      BY <2>3, <3>1, <3>2, <3>3 DEF Srv!Request, Srv!RequestCb
  <2>4. ASSUME NEW c \in Clients, NEW ok \in BOOLEAN, Srv!RequestDone(c, ok)
        PROVE  Obeyed
    <3>1. CASE Srv!Reply(c, 503)
      BY <2>2, <3>1
    <3>2. CASE Srv!ProcessHooks(output) # -1 /\ Srv!Reply(c, 200)
      <4>1. rstate' = [rstate EXCEPT ![c] = "done"]
        BY <3>2 DEF Srv!Reply
      <4>2. \A r \in Clients : rstate'[r] = "user" => rstate[r] = "user"
        BY <4>1 DEF SrvInv, SrvTyped
      <4>3. \A x \in Srv!ToSet(output) : x.res # -1
        BY <3>2 DEF Srv!ProcessHooks
      <4> QED
        BY <4>2, <4>3
    <3> QED
      BY <2>4, <3>1, <3>2 DEF Srv!RequestDone
  <2>5. ASSUME NEW n \in Names, Srv!Register(n) \/ Srv!Unregister(n)
        PROVE  UNCHANGED <<rstate, replies>>
    BY <2>5 DEF Srv!Register, Srv!Unregister
  <2>6. ASSUME NEW h \in Hooks, Srv!RemoveHook(h) \/ \E res \in {-1, 0} : Srv!AddHook(h, res)
        PROVE  UNCHANGED <<rstate, replies>>
    BY <2>6 DEF Srv!RemoveHook, Srv!AddHook
  <2>7. ASSUME Srv!BaseFree
        PROVE  UNCHANGED <<rstate, replies>>
    BY <2>7 DEF Srv!BaseFree
  <2> QED
    BY <2>1, <2>3, <2>4, <2>5, <2>6, <2>7 DEF Srv!Next
<1>4. SrvInv /\ [Srv!Next]_(Srv!vars) => [Obeyed]_(Srv!vars)
  BY <1>3
<1> QED
  BY <1>1, <1>2, <1>4, PTL DEF Srv!Spec, Srv!HooksObeyed

-----------------------------------------------------------------------------
(* Buffers.                                                                *)

CONSTANTS Bufs, Bytes, CR, LF, MinSize, PrintfSpace, MaxRead, MaxTotal, Inputs, Junk

VARIABLES buf, told

Evb == INSTANCE Buffer

Cells == Bytes \cup {Junk}

\* A buffer whose data is inside of its memory and has no byte that nobody wrote.
IsBuffer(r) == /\ r = [mem |-> r.mem, misalign |-> r.misalign, off |-> r.off]
               /\ r.mem \in Seq(Cells) /\ r.misalign \in Nat /\ r.off \in Nat
               /\ r.misalign + r.off <= Len(r.mem)
               /\ \A i \in 1..r.off : r.mem[r.misalign + i] \in Bytes

\* The data of r is d.
Holds(r, d) == /\ IsBuffer(r) /\ d \in Seq(Bytes) /\ Len(d) = r.off
               /\ \A i \in 1..r.off : d[i] = r.mem[r.misalign + i]

\* The data of a buffer.
LEMMA DataOf ==
  ASSUME NEW r, IsBuffer(r), NEW d, d = Evb!Data(r)
  PROVE  Holds(r, d)
<1>1. r.misalign \in Nat /\ r.off \in Nat
  BY DEF IsBuffer
<1>2. PICK m \in Int : m = r.misalign + 1
  BY <1>1
<1>3. PICK n \in Int : n = r.misalign + r.off
  BY <1>1
<1>4. d = SubSeq(r.mem, m, n)
  BY <1>2, <1>3 DEF Evb!Data
<1>5. ASSUME NEW i \in m..n
      PROVE  r.mem[i] \in Bytes
  <2>1. i - r.misalign \in 1..r.off /\ r.misalign + (i - r.misalign) = i
    BY <1>1, <1>2, <1>3
  <2> QED
    BY <2>1 DEF IsBuffer
<1>6. /\ d \in Seq(Bytes) /\ Len(d) = IF m <= n THEN n - m + 1 ELSE 0
      /\ \A i \in 1..(n - m + 1) : d[i] = r.mem[m + i - 1]
  BY <1>4, <1>5, SubSeqProperties
<1>7. Len(d) = r.off
  BY <1>1, <1>2, <1>3, <1>6
<1>8. ASSUME NEW i \in 1..r.off
      PROVE  d[i] = r.mem[r.misalign + i]
  <2>1. i \in 1..(n - m + 1) /\ m + i - 1 = r.misalign + i
    BY <1>1, <1>2, <1>3
  <2> QED
    BY <1>6, <2>1
<1> QED
  BY <1>6, <1>7, <1>8 DEF Holds

\* Data is determined by length and bytes.
LEMMA HeldIsData ==
  ASSUME NEW r, NEW d, Holds(r, d)
  PROVE  Evb!Data(r) = d
<1>1. PICK e : e = Evb!Data(r)
  OBVIOUS
<1>2. Holds(r, e)
  BY <1>1, DataOf DEF Holds
<1>3. e \in Seq(Bytes) /\ d \in Seq(Bytes) /\ Len(e) = Len(d) /\ \A i \in 1..Len(e) : e[i] = d[i]
  BY <1>2 DEF Holds
<1> QED
  BY <1>1, <1>3, SeqEqual

\* Memory that nobody wrote.
IsJunk(j, n) == j \in Seq(Cells) /\ Len(j) = n /\ \A i \in 1..n : j[i] = Junk

LEMMA JunkIs ==
  ASSUME NEW n \in Nat, NEW j, j = Evb!JunkSeq(n)
  PROVE  IsJunk(j, n)
<1>1. j \in [1..n -> Cells] /\ \A i \in 1..n : j[i] = Junk
  BY DEF Evb!JunkSeq, Cells
<1>2. j \in Seq(Cells)
  BY <1>1, SeqDef
<1>3. Len(j) = n
  BY <1>1, <1>2
<1> QED
  BY <1>1, <1>2, <1>3 DEF IsJunk

LEMMA BytesAreCells ==
  ASSUME NEW d \in Seq(Bytes)
  PROVE  d \in Seq(Cells)
BY SeqMonotonic DEF Cells

\* Two sequences of cells, one behind the other.
IsJoin(t, a, b) == /\ t \in Seq(Cells) /\ Len(t) = Len(a) + Len(b)
                   /\ \A i \in 1..Len(a) : t[i] = a[i]
                   /\ \A i \in 1..Len(b) : t[Len(a) + i] = b[i]

LEMMA JoinIs ==
  ASSUME NEW a \in Seq(Cells), NEW b \in Seq(Cells), NEW t, t = a \o b
  PROVE  IsJoin(t, a, b)
<1>1. /\ t \in Seq(Cells) /\ Len(t) = Len(a) + Len(b)
      /\ \A i \in 1..(Len(a) + Len(b)) : t[i] = IF i <= Len(a) THEN a[i] ELSE b[i - Len(a)]
  BY ConcatProperties
<1>2. Len(a) \in Nat /\ Len(b) \in Nat
  OBVIOUS
<1>3. ASSUME NEW i \in 1..Len(a)
      PROVE  t[i] = a[i]
  BY <1>1, <1>2
<1>4. ASSUME NEW i \in 1..Len(b)
      PROVE  t[Len(a) + i] = b[i]
  <2>1. PICK k \in 1..(Len(a) + Len(b)) : k = Len(a) + i /\ ~(k <= Len(a)) /\ k - Len(a) = i
    BY <1>2
  <2>2. t[k] = b[k - Len(a)]
    BY <1>1, <2>1
  <2> QED
    BY <2>1, <2>2
<1> QED
  BY <1>1, <1>3, <1>4 DEF IsJoin

\* Data behind skip bytes of nothing.
LEMMA HoldingIs ==
  ASSUME NEW d \in Seq(Bytes), NEW skip \in Nat, NEW n \in Nat, skip + Len(d) <= n,
         NEW r, r = [mem |-> Evb!Holding(d, skip, n), misalign |-> skip, off |-> Len(d)]
  PROVE  Holds(r, d) /\ Len(r.mem) = n
<1>1. Len(d) \in Nat /\ d \in Seq(Cells)
  BY BytesAreCells
<1>2. PICK rest \in Nat : rest = n - skip - Len(d)
  <2>1. n - skip - Len(d) \in Nat
    BY <1>1
  <2> QED
    BY <2>1
<1>3. PICK j : j = Evb!JunkSeq(skip)
  OBVIOUS
<1>4. PICK k : k = Evb!JunkSeq(rest)
  OBVIOUS
<1>5. IsJunk(j, skip) /\ IsJunk(k, rest)
  BY <1>3, <1>4, JunkIs
<1>6. j \in Seq(Cells) /\ k \in Seq(Cells) /\ Len(j) = skip /\ Len(k) = rest
  BY <1>5 DEF IsJunk
<1>7. PICK a : a = j \o d
  OBVIOUS
<1>8. IsJoin(a, j, d)
  BY <1>1, <1>6, <1>7, JoinIs
<1>9. a \in Seq(Cells) /\ Len(a) = skip + Len(d)
  BY <1>6, <1>8 DEF IsJoin
<1>10. r.mem = a \o k /\ r.misalign = skip /\ r.off = Len(d)
  BY <1>2, <1>3, <1>4, <1>7 DEF Evb!Holding
<1>11. IsJoin(r.mem, a, k)
  BY <1>6, <1>9, <1>10, JoinIs
<1>12. r.mem \in Seq(Cells) /\ Len(r.mem) = n
  BY <1>1, <1>2, <1>6, <1>9, <1>11 DEF IsJoin
<1>13. ASSUME NEW i \in 1..Len(d)
       PROVE  r.mem[skip + i] = d[i]
  <2>1. skip + i \in 1..Len(a) /\ a[skip + i] = d[i]
    BY <1>1, <1>6, <1>8, <1>9 DEF IsJoin
  <2> QED
    BY <1>11, <2>1 DEF IsJoin
<1>14. \A i \in 1..Len(d) : d[i] \in Bytes
  BY ElementOfSeq
<1> QED
  BY <1>1, <1>10, <1>12, <1>13, <1>14 DEF Holds, IsBuffer

\* evbuffer_align() keeps the data and the memory.
LEMMA AlignKeeps ==
  ASSUME NEW r, NEW d, Holds(r, d), NEW a, a = Evb!Align(r)
  PROVE  Holds(a, d) /\ Len(a.mem) = Len(r.mem) /\ a.misalign = 0
<1>1. Evb!Data(r) = d
  BY HeldIsData
<1>2. /\ d \in Seq(Bytes) /\ r.off = Len(d) /\ r.mem \in Seq(Cells) /\ r.misalign \in Nat
      /\ r.misalign + r.off <= Len(r.mem)
  BY DEF Holds, IsBuffer
<1>3. PICK n \in Nat : n = Len(r.mem)
  BY <1>2
<1>4. a = [mem |-> Evb!Holding(d, 0, n), misalign |-> 0, off |-> Len(d)]
  BY <1>1, <1>2, <1>3 DEF Evb!Align, Evb!Total
<1>5. PICK skip \in Nat : skip = 0
  OBVIOUS
<1>6. skip + Len(d) <= n /\ a = [mem |-> Evb!Holding(d, skip, n), misalign |-> skip, off |-> Len(d)]
  BY <1>2, <1>3, <1>4, <1>5
<1>7. Holds(a, d) /\ Len(a.mem) = n
  BY <1>2, <1>6, HoldingIs
<1> QED
  BY <1>3, <1>4, <1>7

\* evbuffer_drain() takes bytes from the front.
LEMMA DrainIs ==
  ASSUME NEW r, NEW d, Holds(r, d), NEW n \in Nat, NEW a, a = Evb!Drain(r, n), NEW e,
         e = IF n >= Len(d) THEN <<>> ELSE SubSeq(d, n + 1, Len(d))
  PROVE  Holds(a, e) /\ Len(a.mem) = Len(r.mem)
<1>1. Evb!Data(r) = d
  BY HeldIsData
<1>2. /\ d \in Seq(Bytes) /\ r.off = Len(d) /\ r.mem \in Seq(Cells) /\ r.misalign \in Nat
      /\ r.misalign + r.off <= Len(r.mem) /\ Len(d) \in Nat /\ Len(r.mem) \in Nat
  BY DEF Holds, IsBuffer
<1>3. CASE n >= Len(d)
  <2>1. a = [mem |-> Evb!JunkSeq(Len(r.mem)), misalign |-> 0, off |-> 0] /\ e = <<>>
    BY <1>2, <1>3 DEF Evb!Drain, Evb!Total
  <2>2. PICK j : j = Evb!JunkSeq(Len(r.mem))
    OBVIOUS
  <2>3. IsJunk(j, Len(r.mem))
    BY <1>2, <2>2, JunkIs
  <2>4. a.mem = j /\ a.misalign = 0 /\ a.off = 0 /\ j \in Seq(Cells) /\ Len(j) = Len(r.mem)
    BY <2>1, <2>2, <2>3 DEF IsJunk
  <2>5. IsBuffer(a)
    BY <1>2, <2>1, <2>4 DEF IsBuffer
  <2> QED
    <3>1. e = <<>> /\ e \in Seq(Bytes) /\ Len(e) = 0
      BY <2>1
    <3>2. \A i \in 1..a.off : e[i] = a.mem[a.misalign + i]
      BY <2>4
    <3> QED
      BY <2>4, <2>5, <3>1, <3>2 DEF Holds
<1>4. CASE n < Len(d)
  <2>1. PICK m \in Nat \ {0} : m = n + 1
    OBVIOUS
  <2>2. e = SubSeq(d, m, Len(d)) /\ m <= Len(d) + 1 /\ Len(d) <= Len(d)
    BY <1>2, <1>4, <2>1
  <2>3. e \in Seq(Bytes) /\ IsPiece(e, d, m, Len(d))
    BY <1>2, <2>2, Piece
  <2>4. Len(e) = Len(d) - n
    BY <1>2, <2>1, <2>3 DEF IsPiece
  <2>5. PICK skip \in Nat : skip = r.misalign + n
    BY <1>2
  <2>6. a = [mem |-> Evb!Holding(e, skip, Len(r.mem)), misalign |-> skip, off |-> Len(e)]
    BY <1>1, <1>2, <1>4, <2>1, <2>2, <2>4, <2>5 DEF Evb!Drain, Evb!Total
  <2>7. skip + Len(e) <= Len(r.mem)
    BY <1>2, <2>4, <2>5
  <2>8. PICK size \in Nat : size = Len(r.mem)
    BY <1>2
  <2>9. skip + Len(e) <= size /\ a = [mem |-> Evb!Holding(e, skip, size), misalign |-> skip, off |-> Len(e)]
    BY <2>6, <2>7, <2>8
  <2>10. Holds(a, e) /\ Len(a.mem) = size
    <3>1. PICK f \in Seq(Bytes) : f = e
      BY <2>3
    <3>2. skip + Len(f) <= size /\ a = [mem |-> Evb!Holding(f, skip, size), misalign |-> skip, off |-> Len(f)]
      BY <2>9, <3>1
    <3>3. Holds(a, f) /\ Len(a.mem) = size
      BY <3>2, HoldingIs
    <3> QED
      BY <3>1, <3>3
  <2> QED
    BY <2>8, <2>10
<1> QED
  BY <1>2, <1>3, <1>4

\* Doubling reaches what is asked for, or goes beyond what realloc() gives.
LEMMA RoomIs ==
  ASSUME Evb!Sane, NEW need \in Nat, NEW from \in Nat, NEW size, size = Evb!RoomFor(need, from)
  PROVE  size = MaxTotal + 1 \/ (size \in Nat /\ size >= need)
<1>1. CASE from * 256 < need
  BY <1>1 DEF Evb!RoomFor
<1>2. CASE ~(from * 256 < need)
  <2> DEFINE D == Evb!Doublings(from)
             B == {n \in D : n >= need}
  <2>1. D \subseteq Nat /\ from * 256 \in D
    BY DEF Evb!Doublings
  <2>2. B \subseteq Nat /\ B # {}
    BY <1>2, <2>1
  <2>3. size = CHOOSE n \in D : n >= need /\ \A m \in D : m >= need => n <= m
    BY <1>2 DEF Evb!RoomFor
  <2> HIDE DEF D
  <2>4. \E n \in B : \A m \in B : n <= m
    <3> HIDE DEF B
    <3> QED
      BY <2>2, Smallest
  <2>5. \E n \in D : n >= need /\ \A m \in D : m >= need => n <= m
    BY <2>4
  <2>6. size \in D /\ size >= need
    BY <2>3, <2>5
  <2> QED
    BY <2>1, <2>6
<1> QED
  BY <1>1, <1>2

\* evbuffer_expand() keeps the data and makes room for n bytes.
LEMMA ExpandKeeps ==
  ASSUME Evb!Sane, NEW r, NEW d, Holds(r, d), Len(r.mem) <= MaxTotal, NEW n \in Nat, Evb!Succeeds(r, n),
         NEW x, x = Evb!Expand(r, n)
  PROVE  Holds(x, d) /\ Len(x.mem) <= MaxTotal /\ x.misalign + x.off + n <= Len(x.mem)
<1>1. /\ d \in Seq(Bytes) /\ r.off = Len(d) /\ r.mem \in Seq(Cells) /\ r.misalign \in Nat
      /\ r.misalign + r.off <= Len(r.mem) /\ r.off \in Nat /\ Len(r.mem) \in Nat /\ MaxTotal \in Nat
      /\ MinSize \in Nat
  BY DEF Holds, IsBuffer, Evb!Sane
<1>2. PICK need \in Nat : need = r.misalign + r.off + n
  BY <1>1
<1>3. PICK a : a = Evb!Align(r)
  OBVIOUS
<1>4. Holds(a, d) /\ Len(a.mem) = Len(r.mem) /\ a.misalign = 0 /\ a.off = r.off
  <2>1. Holds(a, d) /\ Len(a.mem) = Len(r.mem) /\ a.misalign = 0
    BY <1>3, AlignKeeps
  <2> QED
    BY <1>1, <2>1 DEF Holds
<1>5. CASE Len(r.mem) >= need
  <2>1. x = r
    BY <1>2, <1>5 DEF Evb!Expand, Evb!Total
  <2> QED
    BY <1>1, <1>2, <1>5, <2>1
<1>6. CASE ~(Len(r.mem) >= need) /\ r.misalign >= n
  <2>1. x = a
    BY <1>2, <1>3, <1>6 DEF Evb!Expand, Evb!Total
  <2> QED
    BY <1>1, <1>4, <1>6, <2>1
<1>7. CASE ~(Len(r.mem) >= need) /\ ~(r.misalign >= n)
  <2>1. PICK from \in Nat : from = IF Len(r.mem) < MinSize THEN MinSize ELSE Len(r.mem)
    BY <1>1
  <2>2. PICK size : size = Evb!RoomFor(need, from)
    OBVIOUS
  <2>3. x = [a EXCEPT !.mem = @ \o Evb!JunkSeq(size - Len(r.mem))]
    BY <1>2, <1>3, <1>7, <2>1, <2>2 DEF Evb!Expand, Evb!Total
  <2>4. size = MaxTotal + 1 \/ (size \in Nat /\ size >= need)
    BY <2>2, RoomIs
  <2>5. PICK more \in Nat : more = size - Len(r.mem)
    <3>1. size - Len(r.mem) \in Nat
      BY <1>1, <1>7, <2>4
    <3> QED
      BY <3>1
  <2>6. PICK j : j = Evb!JunkSeq(more)
    OBVIOUS
  <2>7. IsJunk(j, more)
    BY <2>6, JunkIs
  <2>8. j \in Seq(Cells) /\ Len(j) = more
    BY <2>7 DEF IsJunk
  <2>9. a = [mem |-> a.mem, misalign |-> 0, off |-> r.off] /\ a.mem \in Seq(Cells)
    BY <1>4 DEF Holds, IsBuffer
  <2>10. PICK t : t = a.mem \o j
    OBVIOUS
  <2>11. IsJoin(t, a.mem, j)
    BY <2>8, <2>9, <2>10, JoinIs
  <2>12. x = [mem |-> t, misalign |-> 0, off |-> r.off]
    <3>1. x = [a EXCEPT !.mem = t]
      BY <2>3, <2>5, <2>6, <2>10
    <3> QED
      BY <2>9, <3>1
  <2>13. t \in Seq(Cells) /\ Len(t) = size /\ \A i \in 1..Len(r.mem) : t[i] = a.mem[i]
    BY <1>1, <1>4, <2>4, <2>5, <2>8, <2>11 DEF IsJoin
  <2>14. size <= MaxTotal
    BY <2>12, <2>13 DEF Evb!Succeeds, Evb!Total
  <2>15. size \in Nat /\ size >= need
    BY <1>1, <2>4, <2>14
  <2>16. \A i \in 1..r.off : t[i] = d[i] /\ d[i] \in Bytes
    <3>1. \A i \in 1..r.off : d[i] = a.mem[i]
      BY <1>1, <1>4 DEF Holds
    <3>2. \A i \in 1..r.off : i \in 1..Len(r.mem)
      BY <1>1
    <3> QED
      BY <1>1, <2>13, <3>1, <3>2
  <2>17. x.mem = t /\ x.misalign = 0 /\ x.off = r.off
    BY <2>12
  <2>18. IsBuffer(x)
    BY <1>1, <1>2, <2>12, <2>13, <2>15, <2>16, <2>17 DEF IsBuffer
  <2>19. Holds(x, d)
    BY <1>1, <2>16, <2>17, <2>18 DEF Holds
  <2> QED
    BY <1>1, <1>2, <2>13, <2>14, <2>15, <2>17, <2>19
<1> QED
  BY <1>5, <1>6, <1>7

\* memcpy() behind the data appends.
LEMMA WriteIs ==
  ASSUME NEW r, NEW d, Holds(r, d), NEW data \in Seq(Bytes), r.misalign + r.off + Len(data) <= Len(r.mem),
         NEW x, x = Evb!Write(r, data)
  PROVE  Holds(x, d \o data) /\ Len(x.mem) = Len(r.mem)
<1>1. /\ d \in Seq(Bytes) /\ r.off = Len(d) /\ r.mem \in Seq(Cells) /\ r.misalign \in Nat
      /\ r.off \in Nat /\ Len(r.mem) \in Nat /\ Len(data) \in Nat
      /\ r = [mem |-> r.mem, misalign |-> r.misalign, off |-> r.off]
      /\ \A i \in 1..r.off : d[i] = r.mem[r.misalign + i]
  BY DEF Holds, IsBuffer
<1>2. PICK base \in Nat : base = r.misalign + r.off
  BY <1>1
<1>3. PICK t : t = [i \in DOMAIN r.mem |-> IF i - r.misalign - r.off \in DOMAIN data
                                          THEN data[i - r.misalign - r.off] ELSE r.mem[i]]
  OBVIOUS
<1>4. x = [mem |-> t, misalign |-> r.misalign, off |-> r.off + Len(data)]
  BY <1>1, <1>3 DEF Evb!Write
<1>5. DOMAIN r.mem = 1..Len(r.mem) /\ DOMAIN data = 1..Len(data)
  BY <1>1
<1>6. ASSUME NEW i \in 1..Len(r.mem)
      PROVE  t[i] = IF i - base \in 1..Len(data) THEN data[i - base] ELSE r.mem[i]
  <2>1. i - r.misalign - r.off = i - base
    BY <1>1, <1>2
  <2> QED
    BY <1>3, <1>5, <2>1
<1>7. \A i \in 1..Len(data) : data[i] \in Bytes
  BY ElementOfSeq
<1>8. \A i \in 1..Len(r.mem) : r.mem[i] \in Cells
  BY <1>1, ElementOfSeq
<1>9. t \in [1..Len(r.mem) -> Cells]
  BY <1>3, <1>5, <1>6, <1>7, <1>8 DEF Cells
<1>10. t \in Seq(Cells) /\ Len(t) = Len(r.mem)
  <2>1. t \in Seq(Cells)
    BY <1>1, <1>9, SeqDef
  <2> QED
    BY <1>1, <1>9, <2>1
<1>11. PICK e : e = d \o data
  OBVIOUS
<1>12. /\ e \in Seq(Bytes) /\ Len(e) = r.off + Len(data)
       /\ \A i \in 1..(Len(d) + Len(data)) : e[i] = IF i <= Len(d) THEN d[i] ELSE data[i - Len(d)]
  BY <1>1, <1>11, ConcatProperties
<1>13. ASSUME NEW i \in 1..(r.off + Len(data))
       PROVE  t[r.misalign + i] = e[i]
  <2>1. PICK k \in 1..Len(r.mem) : k = r.misalign + i
    BY <1>1
  <2>2. CASE i <= r.off
    <3>1. ~(k - base \in 1..Len(data)) /\ i \in 1..r.off
      BY <1>1, <1>2, <2>1, <2>2
    <3>2. t[k] = r.mem[k]
      BY <1>6, <3>1
    <3>3. e[i] = d[i]
      BY <1>1, <1>12, <2>2
    <3> QED
      BY <1>1, <2>1, <3>1, <3>2, <3>3
  <2>3. CASE ~(i <= r.off)
    <3>1. k - base \in 1..Len(data) /\ k - base = i - Len(d)
      <4>1. PICK n \in Nat : n = Len(data)
        BY <1>1
      <4>2. PICK o \in Nat : o = r.off /\ o = Len(d)
        BY <1>1
      <4>3. PICK m \in Nat : m = r.misalign
        BY <1>1
      <4>4. i \in 1..(o + n) /\ k = m + i /\ base = m + o /\ i > o /\ i \in Int
        BY <1>2, <2>1, <2>3, <4>1, <4>2, <4>3
      <4>5. k - base = i - o /\ i - o \in 1..n
        BY <4>4
      <4> QED
        BY <4>1, <4>2, <4>5
    <3>2. t[k] = data[k - base]
      BY <1>6, <3>1
    <3>3. e[i] = data[i - Len(d)]
      BY <1>1, <1>12, <2>3
    <3> QED
      BY <2>1, <3>1, <3>2, <3>3
  <2> QED
    BY <2>2, <2>3
<1>14. x.mem = t /\ x.misalign = r.misalign /\ x.off = r.off + Len(data) /\ x.off \in Nat
  BY <1>1, <1>4
<1>15. \A i \in 1..(r.off + Len(data)) : e[i] \in Bytes
  BY <1>12, ElementOfSeq
<1>16. IsBuffer(x)
  <2>1. \A i \in 1..x.off : x.mem[x.misalign + i] \in Bytes
    BY <1>13, <1>14, <1>15
  <2>2. x = [mem |-> x.mem, misalign |-> x.misalign, off |-> x.off]
    BY <1>4, <1>14
  <2> QED
    BY <1>1, <1>10, <1>14, <2>1, <2>2 DEF IsBuffer
<1>17. Holds(x, e)
  BY <1>12, <1>13, <1>14, <1>16 DEF Holds
<1> QED
  BY <1>10, <1>11, <1>14, <1>17

-----------------------------------------------------------------------------
\* Every buffer is one, and its listener knows the length.
BufShape == /\ buf = [b \in Bufs |-> buf[b]]
            /\ \A b \in Bufs : IsBuffer(buf[b]) /\ Len(buf[b].mem) <= MaxTotal
            /\ told = [b \in Bufs |-> buf[b].off]

\* x is r with bytes added behind, or taken away in front.
Grown(r, x) == /\ Len(x.mem) <= MaxTotal
               /\ \E e \in Seq(Bytes) : Holds(x, Evb!Data(r) \o e)
Shrunk(r, x) == /\ Len(x.mem) <= MaxTotal
                /\ \E n \in 0..Len(Evb!Data(r)) :
                     Holds(x, SubSeq(Evb!Data(r), n + 1, Len(Evb!Data(r))))

\* A buffer that holds the same data has grown by nothing.
LEMMA SameHasGrown ==
  ASSUME NEW r, NEW d, Holds(r, d), NEW x, Holds(x, d), Len(x.mem) <= MaxTotal
  PROVE  Grown(r, x)
<1>1. Evb!Data(r) = d /\ d \in Seq(Bytes)
  BY HeldIsData DEF Holds
<1>2. d \o <<>> = d /\ <<>> \in Seq(Bytes)
  BY <1>1, ConcatEmptySeq
<1>3. \E e \in Seq(Bytes) : Holds(x, d \o e)
  <2> WITNESS <<>> \in Seq(Bytes)
  <2> QED
    BY <1>2
<1> QED
  BY <1>1, <1>3 DEF Grown

\* One buffer changes, and its listener hears of it.
LEMMA SetKeeps ==
  ASSUME BufShape, NEW b \in Bufs, NEW x, IsBuffer(x), Len(x.mem) <= MaxTotal, Evb!Set(b, x)
  PROVE  BufShape' /\ buf'[b] = x /\ \A c \in Bufs \ {b} : buf'[c] = buf[c]
<1>1. buf' = [buf EXCEPT ![b] = x]
  BY DEF Evb!Set
<1>2. told' = [c \in Bufs |-> IF buf'[c].off # buf[c].off THEN buf'[c].off ELSE told[c]]
  BY DEF Evb!Set, Evb!Tell
<1>3. DOMAIN buf = Bufs
  BY DEF BufShape
<1>4. buf'[b] = x /\ \A c \in Bufs \ {b} : buf'[c] = buf[c]
  BY <1>1, <1>3
<1>5. buf' = [c \in Bufs |-> buf'[c]]
  BY <1>1, <1>3
<1>6. told' = [c \in Bufs |-> buf'[c].off]
  <2>1. \A c \in Bufs : told[c] = buf[c].off
    BY DEF BufShape
  <2> QED
    BY <1>2, <2>1
<1>7. \A c \in Bufs : IsBuffer(buf'[c]) /\ Len(buf'[c].mem) <= MaxTotal
  BY <1>4 DEF BufShape
<1>8. BufShape'
  BY <1>5, <1>6, <1>7 DEF BufShape, IsBuffer
<1> QED
  BY <1>4, <1>8

\* What the listeners hear is the length of the queues.
LEMMA HeardIsLength ==
  ASSUME BufShape'
  PROVE  told' = [b \in Bufs |-> Len([c \in Bufs |-> Evb!Data(buf[c])]'[b])]
<1>1. ASSUME NEW b \in Bufs
      PROVE  Len(Evb!Data(buf'[b])) = buf'[b].off
  <2>1. IsBuffer(buf'[b])
    BY DEF BufShape, IsBuffer
  <2>2. PICK r : r = buf'[b]
    OBVIOUS
  <2>3. PICK d : d = Evb!Data(r)
    OBVIOUS
  <2>4. Holds(r, d)
    BY <2>1, <2>2, <2>3, DataOf
  <2>5. Len(d) = r.off
    BY <2>4 DEF Holds
  <2> QED
    BY <2>2, <2>3, <2>5 DEF Evb!Data
<1> QED
  BY <1>1 DEF BufShape, Evb!Data

\* Growing is Put.
LEMMA GrownIsPut ==
  ASSUME BufShape, NEW b \in Bufs, NEW x, Grown(buf[b], x), Evb!Set(b, x)
  PROVE  BufShape' /\ Evb!Q!QNext
<1>1. PICK r : r = buf[b]
  OBVIOUS
<1>2. PICK d : d = Evb!Data(r)
  OBVIOUS
<1>3. PICK e \in Seq(Bytes) : Holds(x, d \o e)
  BY <1>1, <1>2 DEF Grown
<1>4. IsBuffer(x) /\ Len(x.mem) <= MaxTotal
  BY <1>3 DEF Holds, Grown
<1>5. BufShape' /\ buf'[b] = x /\ \A c \in Bufs \ {b} : buf'[c] = buf[c]
  BY <1>4, SetKeeps
<1>6. Holds(r, d)
  BY <1>1, <1>2, DataOf DEF BufShape
<1>7. d \in Seq(Bytes)
  BY <1>6 DEF Holds
<1>8. PICK f : f = d \o e
  OBVIOUS
<1>9. Evb!Data(x) = f
  BY <1>3, <1>8, HeldIsData
<1>10. Len(d) <= Len(f) /\ SubSeq(f, 1, Len(d)) = d
  BY <1>7, <1>8
<1>11. Evb!Q!Put(b)
  <2>1. Evb!Data(buf[b]) = d /\ Evb!Data(buf'[b]) = f
    BY <1>1, <1>2, <1>5, <1>9
  <2>2. \A c \in Bufs \ {b} : Evb!Data(buf'[c]) = Evb!Data(buf[c])
    BY <1>5
  <2> QED
    BY <1>10, <2>1, <2>2 DEF Evb!Q!Put, Evb!Data
<1> QED
  BY <1>5, <1>11, HeardIsLength DEF Evb!Q!QNext

\* Shrinking is Take.
LEMMA ShrunkIsTake ==
  ASSUME BufShape, NEW b \in Bufs, NEW x, Shrunk(buf[b], x), Evb!Set(b, x)
  PROVE  BufShape' /\ Evb!Q!QNext
<1>1. PICK d : d = Evb!Data(buf[b])
  OBVIOUS
<1>2. PICK n \in 0..Len(d) : Holds(x, SubSeq(d, n + 1, Len(d)))
  BY <1>1 DEF Shrunk
<1>3. PICK f : f = SubSeq(d, n + 1, Len(d))
  OBVIOUS
<1>4. IsBuffer(x) /\ Len(x.mem) <= MaxTotal
  BY <1>2 DEF Holds, Shrunk
<1>5. BufShape' /\ buf'[b] = x /\ \A c \in Bufs \ {b} : buf'[c] = buf[c]
  BY <1>4, SetKeeps
<1>6. Evb!Data(x) = f
  BY <1>2, <1>3, HeldIsData
<1> DEFINE old == [c \in Bufs |-> Evb!Data(buf[c])]
           new == [c \in Bufs |-> Evb!Data(buf'[c])]
<1>7. old[b] = d /\ new[b] = f /\ \A c \in Bufs \ {b} : new[c] = old[c]
  BY <1>1, <1>5, <1>6
<1>8. new = [old EXCEPT ![b] = f]
  BY <1>7
<1>9. Evb!Q!Take(b)
  <2>1. \E k \in 0..Len(old[b]) : new = [old EXCEPT ![b] = SubSeq(@, k + 1, Len(@))]
    <3>1. n \in 0..Len(old[b]) /\ SubSeq(old[b], n + 1, Len(old[b])) = f
      BY <1>3, <1>7
    <3>2. new = [old EXCEPT ![b] = SubSeq(old[b], n + 1, Len(old[b]))]
      BY <1>8, <3>1
    <3> QED
      BY <3>1, <3>2
  <2> QED
    BY <2>1 DEF Evb!Q!Take, Evb!Data
<1> QED
  BY <1>5, <1>9, HeardIsLength DEF Evb!Q!QNext

\* Writing into a buffer with room.
LEMMA WriteGrows ==
  ASSUME NEW r, NEW d, Holds(r, d), NEW w, Holds(w, d), Len(w.mem) <= MaxTotal, NEW data \in Seq(Bytes),
         w.misalign + w.off + Len(data) <= Len(w.mem), NEW x, x = Evb!Write(w, data)
  PROVE  Grown(r, x)
<1>1. Evb!Data(r) = d
  BY HeldIsData
<1>2. Holds(x, d \o data) /\ Len(x.mem) = Len(w.mem)
  BY WriteIs
<1> QED
  BY <1>1, <1>2 DEF Grown

\* Moving to the front.
LEMMA AlignGrows ==
  ASSUME NEW r, NEW d, Holds(r, d), NEW w, Holds(w, d), Len(w.mem) <= MaxTotal, NEW x, x = Evb!Align(w)
  PROVE  Grown(r, x)
<1>1. Holds(x, d) /\ Len(x.mem) = Len(w.mem)
  BY AlignKeeps
<1> QED
  BY <1>1, SameHasGrown

\* Draining a buffer.
LEMMA DrainShrinks ==
  ASSUME NEW r, NEW d, Holds(r, d), Len(r.mem) <= MaxTotal, NEW n \in Nat, NEW x, x = Evb!Drain(r, n)
  PROVE  Shrunk(r, x)
<1>1. Evb!Data(r) = d /\ d \in Seq(Bytes) /\ Len(d) \in Nat
  BY HeldIsData DEF Holds
<1>2. PICK e : e = IF n >= Len(d) THEN <<>> ELSE SubSeq(d, n + 1, Len(d))
  OBVIOUS
<1>3. Holds(x, e) /\ Len(x.mem) = Len(r.mem)
  BY <1>2, DrainIs
<1>4. \E k \in 0..Len(d) : Holds(x, SubSeq(d, k + 1, Len(d)))
  <2>1. CASE n >= Len(d)
    <3>1. SubSeq(d, Len(d) + 1, Len(d)) = <<>>
      BY <1>1, SubSeqEmpty
    <3>2. PICK k \in 0..Len(d) : k = Len(d)
      BY <1>1
    <3>3. SubSeq(d, k + 1, Len(d)) = e
      BY <1>2, <2>1, <3>1, <3>2
    <3>4. Holds(x, SubSeq(d, k + 1, Len(d)))
      BY <1>3, <3>3
    <3> QED
      BY <3>4
  <2>2. CASE n < Len(d)
    <3>1. n \in 0..Len(d) /\ Holds(x, SubSeq(d, n + 1, Len(d)))
      BY <1>1, <1>2, <1>3, <2>2
    <3> QED
      BY <3>1
  <2> QED
    BY <1>1, <2>1, <2>2
<1> QED
  BY <1>1, <1>3, <1>4 DEF Shrunk

\* The buffer b of a state, and what it holds.
IsHeld(b, r, d) == r = buf[b] /\ Holds(r, d) /\ Len(r.mem) <= MaxTotal /\ d = Evb!Data(r) /\ Len(d) \in Nat

LEMMA Held ==
  ASSUME BufShape, NEW b \in Bufs
  PROVE  \E r, d : IsHeld(b, r, d)
<1>1. PICK r : r = buf[b]
  OBVIOUS
<1>2. PICK d : d = Evb!Data(r)
  OBVIOUS
<1>3. Holds(r, d) /\ Len(r.mem) <= MaxTotal
  BY <1>1, <1>2, DataOf DEF BufShape
<1>4. Len(d) \in Nat
  BY <1>3 DEF Holds
<1> QED
  BY <1>1, <1>2, <1>3, <1>4 DEF IsHeld

\* evbuffer_add().
LEMMA AddKeeps ==
  ASSUME Evb!Sane, BufShape, NEW b \in Bufs, NEW data \in Inputs, Evb!Add(b, data)
  PROVE  BufShape' /\ Evb!Q!QNext
<1>1. PICK r, d : IsHeld(b, r, d)
  BY Held
<1>2. Holds(r, d) /\ r = buf[b] /\ Len(r.mem) <= MaxTotal
  BY <1>1 DEF IsHeld
<1>3. data \in Seq(Bytes)
  BY DEF Evb!Sane
<1>4. PICK n \in Nat : n = Len(data)
  BY <1>3
<1>5. CASE Evb!Succeeds(r, n) /\ Evb!Set(b, Evb!Write(Evb!Expand(r, n), data))
  <2>1. PICK w : w = Evb!Expand(r, n)
    OBVIOUS
  <2>2. Holds(w, d) /\ Len(w.mem) <= MaxTotal /\ w.misalign + w.off + n <= Len(w.mem)
    BY <1>2, <1>5, <2>1, ExpandKeeps
  <2>3. PICK x : x = Evb!Write(w, data)
    OBVIOUS
  <2>4. Grown(r, x)
    BY <1>2, <1>3, <1>4, <2>2, <2>3, WriteGrows
  <2>5. Grown(buf[b], x) /\ Evb!Set(b, x)
    BY <1>2, <1>5, <2>1, <2>3, <2>4
  <2> QED
    BY <2>5, GrownIsPut
<1>6. CASE Evb!Set(b, Evb!Align(r))
  <2>1. PICK x : x = Evb!Align(r)
    OBVIOUS
  <2>2. Grown(r, x)
    BY <1>2, <2>1, AlignGrows
  <2>3. Grown(buf[b], x) /\ Evb!Set(b, x)
    BY <1>2, <1>6, <2>1, <2>2
  <2> QED
    BY <2>3, GrownIsPut
<1> QED
  BY <1>2, <1>4, <1>5, <1>6 DEF Evb!Add

\* evbuffer_add_vprintf().
LEMMA AddPrintfKeeps ==
  ASSUME Evb!Sane, BufShape, NEW b \in Bufs, NEW data \in Inputs, Evb!AddPrintf(b, data)
  PROVE  BufShape' /\ Evb!Q!QNext
<1>1. PICK r, d : IsHeld(b, r, d)
  BY Held
<1>2. Holds(r, d) /\ r = buf[b] /\ Len(r.mem) <= MaxTotal
  BY <1>1 DEF IsHeld
<1>3. data \in Seq(Bytes) /\ PrintfSpace \in Nat
  BY DEF Evb!Sane
<1>4. PICK n \in Nat : n = Len(data)
  BY <1>3
<1>5. PICK first : first = IF Evb!Succeeds(r, PrintfSpace) THEN Evb!Expand(r, PrintfSpace) ELSE Evb!Align(r)
  OBVIOUS
<1>6. Holds(first, d) /\ Len(first.mem) <= MaxTotal
  <2>1. CASE Evb!Succeeds(r, PrintfSpace)
    <3>1. first = Evb!Expand(r, PrintfSpace)
      BY <1>5, <2>1
    <3> QED
      BY <1>2, <1>3, <2>1, <3>1, ExpandKeeps
  <2>2. CASE ~Evb!Succeeds(r, PrintfSpace)
    <3>1. first = Evb!Align(r)
      BY <1>5, <2>2
    <3> QED
      BY <1>2, <3>1, AlignKeeps
  <2> QED
    BY <2>1, <2>2
<1>7. first.misalign \in Nat /\ first.off \in Nat /\ Len(first.mem) \in Nat
  BY <1>6 DEF Holds, IsBuffer
<1>8. \/ n < Len(first.mem) - first.misalign - first.off /\ Evb!Set(b, Evb!Write(first, data))
      \/ /\ Evb!Succeeds(first, n + 1)
         /\ Evb!Set(b, Evb!Write(Evb!Expand(first, n + 1), data))
      \/ Evb!Set(b, Evb!Align(first))
  BY <1>2, <1>4, <1>5 DEF Evb!AddPrintf, Evb!Total
<1>9. CASE n < Len(first.mem) - first.misalign - first.off /\ Evb!Set(b, Evb!Write(first, data))
  <2>1. PICK x : x = Evb!Write(first, data)
    OBVIOUS
  <2>2. first.misalign + first.off + Len(data) <= Len(first.mem)
    BY <1>4, <1>7, <1>9
  <2>3. Grown(r, x)
    BY <1>2, <1>3, <1>6, <2>1, <2>2, WriteGrows
  <2> QED
    BY <1>2, <1>9, <2>1, <2>3, GrownIsPut
<1>10. CASE /\ Evb!Succeeds(first, n + 1)
            /\ Evb!Set(b, Evb!Write(Evb!Expand(first, n + 1), data))
  <2>1. PICK k \in Nat : k = n + 1
    OBVIOUS
  <2>2. PICK w : w = Evb!Expand(first, k)
    OBVIOUS
  <2>3. Holds(w, d) /\ Len(w.mem) <= MaxTotal /\ w.misalign + w.off + k <= Len(w.mem)
    BY <1>6, <1>10, <2>1, <2>2, ExpandKeeps
  <2>4. w.misalign + w.off + Len(data) <= Len(w.mem)
    <3>1. w.misalign \in Nat /\ w.off \in Nat /\ Len(w.mem) \in Nat
      BY <2>3 DEF Holds, IsBuffer
    <3> QED
      BY <1>4, <2>1, <2>3, <3>1
  <2>5. PICK x : x = Evb!Write(w, data)
    OBVIOUS
  <2>6. Grown(r, x)
    BY <1>2, <1>3, <2>3, <2>4, <2>5, WriteGrows
  <2>7. Grown(buf[b], x) /\ Evb!Set(b, x)
    BY <1>2, <1>10, <2>1, <2>2, <2>5, <2>6
  <2> QED
    BY <2>7, GrownIsPut
<1>11. CASE Evb!Set(b, Evb!Align(first))
  <2>1. PICK x : x = Evb!Align(first)
    OBVIOUS
  <2>2. Grown(r, x)
    BY <1>2, <1>6, <2>1, AlignGrows
  <2> QED
    BY <1>2, <1>11, <2>1, <2>2, GrownIsPut
<1> QED
  BY <1>8, <1>9, <1>10, <1>11

\* evbuffer_remove(), evbuffer_drain(), evbuffer_write().
LEMMA RemoveKeeps ==
  ASSUME BufShape, NEW b \in Bufs, NEW n \in Nat, Evb!Set(b, Evb!Drain(buf[b], n))
  PROVE  BufShape' /\ Evb!Q!QNext
<1>1. PICK r, d : IsHeld(b, r, d)
  BY Held
<1>2. Holds(r, d) /\ r = buf[b] /\ Len(r.mem) <= MaxTotal
  BY <1>1 DEF IsHeld
<1>3. PICK x : x = Evb!Drain(r, n)
  OBVIOUS
<1>4. Shrunk(r, x)
  BY <1>2, <1>3, DrainShrinks
<1> QED
  BY <1>2, <1>3, <1>4, ShrunkIsTake

\* evbuffer_readline().
LEMMA ReadLineKeeps ==
  ASSUME BufShape, NEW b \in Bufs, Evb!ReadLine(b)
  PROVE  BufShape' /\ Evb!Q!QNext
<1>1. PICK r, d : IsHeld(b, r, d)
  BY Held
<1>2. Holds(r, d) /\ r = buf[b] /\ d = Evb!Data(r) /\ d \in Seq(Bytes)
  BY <1>1 DEF IsHeld, Holds
<1> DEFINE E == Evb!Ends(d)
<1>3. E \subseteq Nat \ {0} /\ E # {}
  BY <1>2 DEF Evb!ReadLine, Evb!Ends
<1>4. Evb!LineEnd(d) = CHOOSE i \in E : \A j \in E : i <= j
  BY DEF Evb!LineEnd
<1>5. Evb!LineEnd(d) \in Nat \ {0}
  <2> HIDE DEF E
  <2>1. \E i \in E : \A j \in E : i <= j
    BY <1>3, Smallest
  <2>2. Evb!LineEnd(d) \in E
    BY <1>4, <2>1
  <2> QED
    BY <1>3, <2>2
<1>6. Evb!EolLen(d) \in Nat
  BY DEF Evb!EolLen
<1>7. PICK n \in Nat : n = Evb!LineEnd(d) - 1 + Evb!EolLen(d)
  <2>1. Evb!LineEnd(d) - 1 + Evb!EolLen(d) \in Nat
    BY <1>5, <1>6
  <2> QED
    BY <2>1
<1>8. PICK m \in Nat : m = Evb!LineEnd(d) - 1
  <2>1. Evb!LineEnd(d) - 1 \in Nat
    BY <1>5
  <2> QED
    BY <2>1
<1>9. Evb!Set(b, Evb!Drain(buf[b], n)) \/ Evb!Set(b, Evb!Drain(buf[b], m))
  BY <1>2, <1>7, <1>8 DEF Evb!ReadLine
<1> QED
  BY <1>9, RemoveKeeps

\* evbuffer_read().
LEMMA ReadKeeps ==
  ASSUME Evb!Sane, BufShape, NEW b \in Bufs, NEW data \in Inputs, NEW howmuch \in {-1, 1},
         NEW avail \in {0, 1, MaxTotal}, Evb!Read(b, howmuch, avail, data)
  PROVE  BufShape' /\ Evb!Q!QNext
<1>1. PICK r, d : IsHeld(b, r, d)
  BY Held
<1>2. Holds(r, d) /\ r = buf[b] /\ Len(r.mem) <= MaxTotal
  BY <1>1 DEF IsHeld
<1>3. /\ data \in Seq(Bytes) /\ MaxRead \in Nat /\ avail \in Nat /\ howmuch \in Int
      /\ Len(r.mem) \in Nat /\ Len(data) \in Nat
  BY <1>2 DEF Evb!Sane, Holds, IsBuffer
<1>4. PICK n \in Nat : n = Evb!HowMuch(r, howmuch, avail)
  <2>1. Evb!HowMuch(r, howmuch, avail) \in Nat
    BY <1>3 DEF Evb!HowMuch, Evb!Total
  <2> QED
    BY <2>1
<1>5. PICK k \in Nat : k = IF n < Len(data) THEN n ELSE Len(data)
  BY <1>3
<1>6. PICK got : got = SubSeq(data, 1, k)
  OBVIOUS
<1>7. got \in Seq(Bytes) /\ Len(got) = k
  <2>1. PICK one \in Nat \ {0} : one = 1
    OBVIOUS
  <2>2. k <= Len(data) /\ one <= k + 1 /\ got = SubSeq(data, one, k)
    BY <1>3, <1>5, <1>6, <2>1
  <2>3. got \in Seq(Bytes) /\ IsPiece(got, data, one, k)
    BY <1>3, <2>2, Piece
  <2> QED
    BY <2>1, <2>3 DEF IsPiece
<1>8. \/ Evb!Succeeds(r, n) /\ Evb!Set(b, Evb!Write(Evb!Expand(r, n), got))
      \/ Evb!Set(b, Evb!Align(r))
  BY <1>2, <1>4, <1>5, <1>6 DEF Evb!Read
<1>9. CASE Evb!Succeeds(r, n) /\ Evb!Set(b, Evb!Write(Evb!Expand(r, n), got))
  <2>1. PICK w : w = Evb!Expand(r, n)
    OBVIOUS
  <2>2. Holds(w, d) /\ Len(w.mem) <= MaxTotal /\ w.misalign + w.off + n <= Len(w.mem)
    BY <1>2, <1>9, <2>1, ExpandKeeps
  <2>3. w.misalign + w.off + Len(got) <= Len(w.mem)
    <3>1. w.misalign \in Nat /\ w.off \in Nat /\ Len(w.mem) \in Nat
      BY <2>2 DEF Holds, IsBuffer
    <3> QED
      BY <1>3, <1>5, <1>7, <2>2, <3>1
  <2>4. PICK x : x = Evb!Write(w, got)
    OBVIOUS
  <2>5. Grown(r, x)
    BY <1>2, <1>7, <2>2, <2>3, <2>4, WriteGrows
  <2> QED
    BY <1>2, <1>9, <2>1, <2>4, <2>5, GrownIsPut
<1>10. CASE Evb!Set(b, Evb!Align(r))
  <2>1. PICK x : x = Evb!Align(r)
    OBVIOUS
  <2>2. Grown(r, x)
    BY <1>2, <2>1, AlignGrows
  <2> QED
    BY <1>2, <1>10, <2>1, <2>2, GrownIsPut
<1> QED
  BY <1>8, <1>9, <1>10

\* The bytes of one buffer go behind those of another.
LEMMA MoveIs ==
  ASSUME BufShape, NEW in \in Bufs, NEW out \in Bufs, in # out, NEW x, NEW y,
         Len(x.mem) <= MaxTotal, Len(y.mem) <= MaxTotal,
         Holds(x, Evb!Data(buf[out]) \o Evb!Data(buf[in])), NEW z, z = <<>>, Holds(y, z),
         buf' = [buf EXCEPT ![out] = x, ![in] = y], Evb!Tell(buf')
  PROVE  BufShape' /\ Evb!Q!QNext
<1>1. told' = [c \in Bufs |-> IF buf'[c].off # buf[c].off THEN buf'[c].off ELSE told[c]]
  BY DEF Evb!Tell
<1>2. DOMAIN buf = Bufs
  BY DEF BufShape
<1>3. buf'[out] = x /\ buf'[in] = y /\ \A c \in Bufs \ {in, out} : buf'[c] = buf[c]
  BY <1>2
<1>4. buf' = [c \in Bufs |-> buf'[c]]
  BY <1>2
<1>5. told' = [c \in Bufs |-> buf'[c].off]
  <2>1. \A c \in Bufs : told[c] = buf[c].off
    BY DEF BufShape
  <2> QED
    BY <1>1, <2>1
<1>6. IsBuffer(x) /\ IsBuffer(y)
  BY DEF Holds
<1>7. \A c \in Bufs : IsBuffer(buf'[c]) /\ Len(buf'[c].mem) <= MaxTotal
  BY <1>3, <1>6 DEF BufShape
<1>8. BufShape'
  BY <1>4, <1>5, <1>7 DEF BufShape, IsBuffer
<1> DEFINE old == [c \in Bufs |-> Evb!Data(buf[c])]
           new == [c \in Bufs |-> Evb!Data(buf'[c])]
<1>9. new[out] = old[out] \o old[in]
  BY <1>3, HeldIsData
<1>10. new[in] = <<>>
  <2>1. Evb!Data(y) = z
    BY HeldIsData
  <2> QED
    BY <1>3, <2>1
<1>11. ASSUME NEW c \in Bufs \ {in, out}
       PROVE  new[c] = old[c]
  <2>1. buf'[c] = buf[c]
    BY <1>3
  <2> QED
    BY <2>1
<1>12. new = [old EXCEPT ![out] = old[out] \o old[in], ![in] = <<>>]
  BY <1>9, <1>10, <1>11
<1>13. Evb!Q!Move(in, out)
  BY <1>12 DEF Evb!Q!Move, Evb!Data
<1> QED
  BY <1>8, <1>13, HeardIsLength DEF Evb!Q!QNext

\* evbuffer_add_buffer().
LEMMA AddBufferKeeps ==
  ASSUME Evb!Sane, BufShape, NEW out \in Bufs, NEW in \in Bufs, Evb!AddBuffer(out, in)
  PROVE  BufShape' /\ Evb!Q!QNext
<1>1. PICK r, d : IsHeld(out, r, d)
  BY Held
<1>2. Holds(r, d) /\ r = buf[out] /\ Len(r.mem) <= MaxTotal /\ d = Evb!Data(r) /\ d \in Seq(Bytes) /\ r.off = Len(d)
  BY <1>1 DEF IsHeld, Holds
<1>3. PICK s, e : IsHeld(in, s, e)
  BY Held
<1>4. Holds(s, e) /\ s = buf[in] /\ Len(s.mem) <= MaxTotal /\ e = Evb!Data(s) /\ e \in Seq(Bytes) /\ s.off = Len(e)
  BY <1>3 DEF IsHeld, Holds
<1>5. PICK n \in Nat : n = s.off
  BY <1>4
<1>6. CASE /\ r.off = 0 /\ in # out /\ buf' = [buf EXCEPT ![out] = s, ![in] = r]
           /\ Evb!Tell(buf')
  <2>1. d = <<>> /\ d \o e = e
    <3>1. d = <<>>
      BY <1>2, <1>6, EmptySeq
    <3>2. <<>> \o e = e
      BY <1>4, ConcatEmptySeq
    <3> QED
      BY <3>1, <3>2
  <2>2. Holds(s, Evb!Data(buf[out]) \o Evb!Data(buf[in])) /\ Holds(r, d)
    BY <1>2, <1>4, <2>1
  <2> QED
    BY <1>2, <1>4, <1>6, <2>1, <2>2, MoveIs
<1>7. CASE /\ Evb!Succeeds(r, n) /\ in # out
           /\ buf' = [buf EXCEPT ![out] = Evb!Write(Evb!Expand(r, n), e), ![in] = Evb!Drain(s, n)]
           /\ Evb!Tell(buf')
  <2>1. PICK w : w = Evb!Expand(r, n)
    OBVIOUS
  <2>2. Holds(w, d) /\ Len(w.mem) <= MaxTotal /\ w.misalign + w.off + n <= Len(w.mem)
    BY <1>2, <1>7, <2>1, ExpandKeeps
  <2>3. PICK x : x = Evb!Write(w, e)
    OBVIOUS
  <2>4. w.misalign + w.off + Len(e) <= Len(w.mem)
    BY <1>4, <1>5, <2>2
  <2>5. Holds(x, d \o e) /\ Len(x.mem) = Len(w.mem)
    BY <1>4, <2>2, <2>3, <2>4, WriteIs
  <2>6. PICK y : y = Evb!Drain(s, n)
    OBVIOUS
  <2>7. PICK f : f = IF n >= Len(e) THEN <<>> ELSE SubSeq(e, n + 1, Len(e))
    OBVIOUS
  <2>8. Holds(y, f) /\ Len(y.mem) = Len(s.mem)
    <3>1. Holds(s, e)
      BY <1>4
    <3> QED
      BY <2>6, <2>7, <3>1, DrainIs
  <2>9. f = <<>>
    BY <1>4, <1>5, <2>7
  <2>10. Holds(x, Evb!Data(buf[out]) \o Evb!Data(buf[in])) /\ Holds(y, f)
    BY <1>2, <1>4, <2>5, <2>8
  <2>11. Len(x.mem) <= MaxTotal /\ Len(y.mem) <= MaxTotal
    BY <1>4, <2>2, <2>5, <2>8
  <2>12. buf' = [buf EXCEPT ![out] = x, ![in] = y]
    BY <1>7, <2>1, <2>3, <2>6
  <2>13. in # out /\ Evb!Tell(buf')
    BY <1>7
  <2> QED
    BY <2>9, <2>10, <2>11, <2>12, <2>13, MoveIs
<1>8. CASE Evb!Set(out, Evb!Align(r))
  <2>1. PICK x : x = Evb!Align(r)
    OBVIOUS
  <2>2. Grown(r, x)
    BY <1>2, <2>1, AlignGrows
  <2> QED
    BY <1>2, <1>8, <2>1, <2>2, GrownIsPut
<1>9. \/ /\ r.off = 0 /\ in # out /\ buf' = [buf EXCEPT ![out] = s, ![in] = r]
         /\ Evb!Tell(buf')
      \/ /\ Evb!Succeeds(r, n) /\ in # out
         /\ buf' = [buf EXCEPT ![out] = Evb!Write(Evb!Expand(r, n), e), ![in] = Evb!Drain(s, n)]
         /\ Evb!Tell(buf')
      \/ Evb!Set(out, Evb!Align(r))
  <2>1. DOMAIN buf = Bufs
    BY DEF BufShape
  <2> QED
    BY <1>2, <1>4, <1>5, <2>1 DEF Evb!AddBuffer
<1> QED
  BY <1>6, <1>7, <1>8, <1>9

\* Every step keeps the shape, and is a step of the queues.
LEMMA BufferStep ==
  ASSUME Evb!Sane, BufShape, [Evb!Next]_(Evb!vars)
  PROVE  BufShape' /\ [Evb!Q!QNext]_<<[b \in Bufs |-> Evb!Data(buf[b])], told>>
<1>1. CASE UNCHANGED Evb!vars
  <2>1. UNCHANGED <<buf, told>>
    BY <1>1 DEF Evb!vars
  <2> QED
    BY <2>1 DEF BufShape, IsBuffer, Evb!Data
<1>2. CASE Evb!Next
  <2>1. PICK b \in Bufs :
          \/ \E data \in Inputs : Evb!Add(b, data) \/ Evb!AddPrintf(b, data)
          \/ \E c \in Bufs : Evb!AddBuffer(b, c)
          \/ \E n \in 0..(buf[b].off + 1) : Evb!Remove(b, n)
          \/ Evb!ReadLine(b)
          \/ \E data \in Inputs : \E howmuch \in {-1, 1} : \E avail \in {0, 1, MaxTotal} :
               Evb!Read(b, howmuch, avail, data)
    BY <1>2 DEF Evb!Next
  <2>2. ASSUME NEW data \in Inputs, Evb!Add(b, data) \/ Evb!AddPrintf(b, data)
        PROVE  BufShape' /\ Evb!Q!QNext
    BY <2>2, AddKeeps, AddPrintfKeeps
  <2>3. ASSUME NEW c \in Bufs, Evb!AddBuffer(b, c)
        PROVE  BufShape' /\ Evb!Q!QNext
    BY <2>3, AddBufferKeeps
  <2>4. ASSUME NEW n \in 0..(buf[b].off + 1), Evb!Remove(b, n)
        PROVE  BufShape' /\ Evb!Q!QNext
    <3>1. buf[b].off \in Nat
      BY DEF BufShape, IsBuffer
    <3>2. n \in Nat
      BY <3>1
    <3> QED
      BY <2>4, <3>2, RemoveKeeps DEF Evb!Remove
  <2>5. CASE Evb!ReadLine(b)
    BY <2>5, ReadLineKeeps
  <2>6. ASSUME NEW data \in Inputs, NEW howmuch \in {-1, 1}, NEW avail \in {0, 1, MaxTotal},
               Evb!Read(b, howmuch, avail, data)
        PROVE  BufShape' /\ Evb!Q!QNext
    BY <2>6, ReadKeeps
  <2> QED
    BY <2>1, <2>2, <2>3, <2>4, <2>5, <2>6
<1> QED
  BY <1>1, <1>2

\* New buffers are empty queues.
LEMMA BufferStarts ==
  ASSUME Evb!Sane, Evb!Init
  PROVE  BufShape /\ Evb!Q!QInit
<1>1. PICK r : r = Evb!NewBuffer
  OBVIOUS
<1>2. r.mem = <<>> /\ r.misalign = 0 /\ r.off = 0 /\ r = [mem |-> r.mem, misalign |-> r.misalign, off |-> r.off]
  BY <1>1 DEF Evb!NewBuffer
<1>3. IsBuffer(r)
  BY <1>2 DEF IsBuffer
<1>4. Holds(r, <<>>)
  BY <1>2, <1>3 DEF Holds
<1>5. Evb!Data(r) = <<>>
  BY <1>4, HeldIsData
<1>6. buf = [b \in Bufs |-> r] /\ told = [b \in Bufs |-> 0]
  BY <1>1 DEF Evb!Init
<1>7. Len(r.mem) <= MaxTotal
  BY <1>2 DEF Evb!Sane
<1> QED
  BY <1>2, <1>3, <1>5, <1>6, <1>7 DEF BufShape, Evb!Q!QInit

(***************************************************************************)
(* For every set of buffers, first allocation, limit of realloc() and      *)
(* input, the operations of buffer.c are those of queues of bytes: growth, *)
(* the move to the front, the swap of an empty buffer and a failed         *)
(* allocation neither lose, reorder nor invent a byte, and the callback    *)
(* knows the length after every operation.                                 *)
(***************************************************************************)
THEOREM BufferIsQueue == Evb!Sane => (Evb!Spec => Evb!QueueSpec)
<1> SUFFICES ASSUME Evb!Sane
             PROVE  Evb!Spec => Evb!QueueSpec
  OBVIOUS
<1>1. Evb!Init => BufShape /\ Evb!Q!QInit
  BY BufferStarts
<1>2. BufShape /\ [Evb!Next]_(Evb!vars) => BufShape' /\ [Evb!Q!QNext]_<<[b \in Bufs |-> Evb!Data(buf[b])], told>>
  BY BufferStep
<1> QED
  BY <1>1, <1>2, PTL DEF Evb!Spec, Evb!QueueSpec, Evb!Q!QueueSpec

(***************************************************************************)
(* The data of every buffer lies inside of its memory, which is what the   *)
(* assertion of evbuffer_add_vprintf() says, and holds no byte that nobody *)
(* wrote.                                                                  *)
(***************************************************************************)
THEOREM DataInsideMemory == Evb!Sane => (Evb!Spec => []Evb!InsideMemory)
<1> SUFFICES ASSUME Evb!Sane
             PROVE  Evb!Spec => []Evb!InsideMemory
  OBVIOUS
<1>1. Evb!Init => BufShape
  BY BufferStarts
<1>2. BufShape /\ [Evb!Next]_(Evb!vars) => BufShape'
  BY BufferStep
<1>3. BufShape => Evb!InsideMemory
  BY DEF BufShape, IsBuffer, Evb!InsideMemory, Evb!Total
<1> QED
  BY <1>1, <1>2, <1>3, PTL DEF Evb!Spec

-----------------------------------------------------------------------------
(* The heap of timeouts.                                                   *)

\* A walk goes from i to N[i] as long as i is in C, where the rank R falls.  It is the
\* recursive function of min_heap_shift_up_() and of min_heap_shift_down_().
WalkStep(C, N, f, i) == IF i \in C THEN [f[N[i]] EXCEPT !.moved = @ \cup {i}] ELSE [end |-> i, moved |-> {}]

IsWalk(D, C, N, R, B) == /\ C \subseteq D /\ N \in [C -> D] /\ B \in Nat /\ R \in [D -> 0..B]
                         /\ \A i \in C : R[N[i]] < R[i]

\* A walk exists.
HasWalk(D, C, N) == \E f : f = [i \in D |-> WalkStep(C, N, f, i)]

LEMMA WalkExists ==
  ASSUME NEW D, NEW C, NEW N, NEW R, NEW B, IsWalk(D, C, N, R, B)
  PROVE  HasWalk(D, C, N)
<1> DEFINE Low(m) == {i \in D : R[i] < m}
           Bad == {m \in Nat : ~ \E f : f = [i \in Low(m) |-> WalkStep(C, N, f, i)]}
<1>1. Bad = {}
  <2> SUFFICES ASSUME Bad # {}
               PROVE  FALSE
    OBVIOUS
  <2>1. PICK m \in Bad : \A k \in Bad : m <= k
    <3>1. Bad \subseteq Nat
      OBVIOUS
    <3> HIDE DEF Bad
    <3> QED
      BY <3>1, Smallest
  <2>2. m \in Nat
    OBVIOUS
  <2>3. CASE m = 0
    <3>1. Low(m) = {}
      BY <2>3 DEF IsWalk
    <3>2. \E f : f = [i \in {} |-> WalkStep(C, N, f, i)]
      <4> WITNESS [i \in {} |-> 0]
      <4> QED
        OBVIOUS
    <3> QED
      BY <3>1, <3>2
  <2>4. CASE m # 0
    <3>1. m - 1 \in Nat /\ ~(m - 1 \in Bad)
      <4>1. m - 1 \in Nat /\ ~(m <= m - 1)
        BY <2>2, <2>4
      <4> HIDE DEF Bad
      <4> QED
        BY <2>1, <4>1
    <3>2. PICK g : g = [i \in Low(m - 1) |-> WalkStep(C, N, g, i)]
      BY <3>1
    <3> DEFINE f == [i \in Low(m) |-> WalkStep(C, N, g, i)]
    <3>3. ASSUME NEW i \in Low(m)
          PROVE  WalkStep(C, N, g, i) = WalkStep(C, N, f, i)
      <4>1. CASE i \in C
        <5>1. N[i] \in D /\ R[N[i]] \in Nat /\ R[i] \in Nat /\ R[N[i]] < R[i] /\ R[i] < m
          BY <4>1 DEF IsWalk
        <5>2. N[i] \in Low(m - 1) /\ N[i] \in Low(m)
          BY <2>2, <3>1, <5>1
        <5>3. g[N[i]] = WalkStep(C, N, g, N[i])
          <6> HIDE DEF Low
          <6> QED
            BY <3>2, <5>2
        <5>4. f[N[i]] = WalkStep(C, N, g, N[i])
          BY <5>2
        <5> HIDE DEF f
        <5> QED
          BY <5>3, <5>4 DEF WalkStep
      <4>2. CASE i \notin C
        BY <4>2 DEF WalkStep
      <4> QED
        BY <4>1, <4>2
    <3>4. f = [i \in Low(m) |-> WalkStep(C, N, f, i)]
      <4>1. f = [i \in Low(m) |-> WalkStep(C, N, g, i)]
        OBVIOUS
      <4> HIDE DEF f, Low
      <4> QED
        BY <3>3, <4>1
    <3>5. \E h : h = [i \in Low(m) |-> WalkStep(C, N, h, i)]
      <4> HIDE DEF f, Low
      <4> QED
        BY <3>4
    <3> QED
      BY <3>5
  <2> QED
    BY <2>3, <2>4
<1>2. PICK m \in Nat : m = B + 1
  BY DEF IsWalk
<1>3. ~(m \in Bad)
  BY <1>1
<1>4. PICK f : f = [i \in Low(m) |-> WalkStep(C, N, f, i)]
  BY <1>3
<1>5. Low(m) = D
  BY <1>2 DEF IsWalk
<1> HIDE DEF Low
<1> QED
  BY <1>4, <1>5 DEF HasWalk

\* What a walk from i passes, and where it ends.
IsPath(D, C, N, R, i, r) ==
  /\ r = [end |-> r.end, moved |-> r.moved]
  /\ r.end \in D /\ r.end \notin C /\ r.moved \subseteq C
  /\ i \in r.moved \cup {r.end}
  /\ \A j \in r.moved : N[j] \in r.moved \cup {r.end} /\ R[j] <= R[i] /\ R[r.end] < R[j]
  /\ \A j \in r.moved \cup {r.end} : j # i => \E c \in r.moved : N[c] = j
  /\ \A c, d \in r.moved : N[c] = N[d] => c = d

\* It stops at once,
LEMMA PathEnds ==
  ASSUME NEW D, NEW C, NEW N, NEW R, NEW i \in D, i \notin C, NEW r, r = [end |-> i, moved |-> {}]
  PROVE  IsPath(D, C, N, R, i, r)
BY DEF IsPath

\* or goes on.
LEMMA PathGoesOn ==
  ASSUME NEW D, NEW C, NEW N, NEW R, NEW B, IsWalk(D, C, N, R, B), NEW i \in C, NEW s,
         IsPath(D, C, N, R, N[i], s), NEW r, r = [s EXCEPT !.moved = @ \cup {i}]
  PROVE  IsPath(D, C, N, R, i, r)
<1>1. s = [end |-> s.end, moved |-> s.moved]
  BY DEF IsPath
<1>2. r.end = s.end /\ r.moved = s.moved \cup {i} /\ r = [end |-> r.end, moved |-> r.moved]
  BY <1>1
<1>3. i \in D /\ N[i] \in D /\ R[i] \in Nat /\ R[N[i]] \in Nat /\ R[N[i]] < R[i]
  BY DEF IsWalk
<1>4. /\ s.end \in D /\ s.end \notin C /\ s.moved \subseteq C /\ N[i] \in s.moved \cup {s.end}
      /\ \A j \in s.moved : N[j] \in s.moved \cup {s.end} /\ R[j] <= R[N[i]] /\ R[s.end] < R[j]
      /\ \A j \in s.moved \cup {s.end} : j # N[i] => \E c \in s.moved : N[c] = j
      /\ \A c, d \in s.moved : N[c] = N[d] => c = d
  BY DEF IsPath
<1>5. \A j \in D : R[j] \in Nat
  BY DEF IsWalk
<1>6. ASSUME NEW j \in s.moved
      PROVE  j \in D /\ R[j] < R[i] /\ N[j] # N[i] /\ j # i
  <2>1. j \in C /\ j \in D /\ N[j] \in D /\ R[N[j]] < R[j] /\ R[j] \in Nat /\ R[N[j]] \in Nat
    BY <1>4, <1>5 DEF IsWalk
  <2>2. R[j] <= R[N[i]]
    BY <1>4
  <2>3. R[j] < R[i]
    BY <1>3, <2>1, <2>2
  <2>4. R[N[j]] < R[N[i]]
    BY <1>3, <2>1, <2>2
  <2> QED
    BY <1>3, <2>1, <2>3, <2>4
<1>7. R[s.end] < R[i]
  <2>1. CASE N[i] = s.end
    BY <1>3, <2>1
  <2>2. CASE N[i] \in s.moved
    <3>1. R[s.end] < R[N[i]] /\ R[s.end] \in Nat
      BY <1>4, <1>5, <2>2
    <3> QED
      BY <1>3, <3>1
  <2> QED
    BY <1>4, <2>1, <2>2
<1>8. \A j \in r.moved : N[j] \in r.moved \cup {r.end} /\ R[j] <= R[i] /\ R[r.end] < R[j]
  <2> SUFFICES ASSUME NEW j \in r.moved
               PROVE  N[j] \in r.moved \cup {r.end} /\ R[j] <= R[i] /\ R[r.end] < R[j]
    OBVIOUS
  <2>1. CASE j = i
    BY <1>2, <1>3, <1>4, <1>7, <2>1
  <2>2. CASE j \in s.moved
    <3>1. R[j] <= R[i]
      BY <1>3, <1>5, <1>6, <2>2
    <3> QED
      BY <1>2, <1>4, <2>2, <3>1
  <2> QED
    BY <1>2, <2>1, <2>2
<1>9. \A j \in r.moved \cup {r.end} : j # i => \E c \in r.moved : N[c] = j
  BY <1>2, <1>4
<1>10. \A c, d \in r.moved : N[c] = N[d] => c = d
  BY <1>2, <1>4, <1>6
<1>11. r.end \in D /\ r.end \notin C /\ r.moved \subseteq C /\ i \in r.moved \cup {r.end}
  BY <1>2, <1>4
<1> QED
  BY <1>2, <1>8, <1>9, <1>10, <1>11 DEF IsPath

\* The recursive function gives the path.
LEMMA WalkIsPath ==
  ASSUME NEW D, NEW C, NEW N, NEW R, NEW B, IsWalk(D, C, N, R, B),
         NEW f, f = [i \in D |-> WalkStep(C, N, f, i)], NEW a \in D, NEW r, r = f[a]
  PROVE  IsPath(D, C, N, R, a, r)
<1> DEFINE Bad == {m \in Nat : \E i \in D : R[i] = m /\ ~IsPath(D, C, N, R, i, f[i])}
<1>1. ASSUME Bad # {}
      PROVE  FALSE
  <2>1. PICK m \in Bad : \A k \in Bad : m <= k
    <3>1. Bad \subseteq Nat
      OBVIOUS
    <3> HIDE DEF Bad
    <3> QED
      BY <1>1, <3>1, Smallest
  <2>2. PICK i \in D : R[i] = m /\ ~IsPath(D, C, N, R, i, f[i])
    BY <2>1
  <2>3. f[i] = WalkStep(C, N, f, i)
    <3> HIDE DEF Bad
    <3> QED
      OBVIOUS
  <2>4. CASE i \notin C
    <3>1. f[i] = [end |-> i, moved |-> {}]
      BY <2>3, <2>4 DEF WalkStep
    <3> HIDE DEF Bad
    <3> QED
      BY <2>2, <2>4, <3>1, PathEnds
  <2>5. CASE i \in C
    <3>1. N[i] \in D /\ R[N[i]] \in Nat /\ R[i] \in Nat /\ R[N[i]] < R[i]
      BY <2>5 DEF IsWalk
    <3>2. IsPath(D, C, N, R, N[i], f[N[i]])
      <4> SUFFICES ASSUME ~IsPath(D, C, N, R, N[i], f[N[i]])
                   PROVE  FALSE
        OBVIOUS
      <4>1. R[N[i]] \in Bad
        BY <3>1
      <4> HIDE DEF Bad
      <4>2. m <= R[N[i]]
        BY <2>1, <4>1
      <4> QED
        BY <2>2, <3>1, <4>2
    <3>3. PICK s : s = f[N[i]]
      OBVIOUS
    <3>4. PICK t : t = f[i]
      OBVIOUS
    <3>5. t = [s EXCEPT !.moved = @ \cup {i}]
      <4> HIDE DEF Bad
      <4> QED
        BY <2>3, <2>5, <3>3, <3>4 DEF WalkStep
    <3>6. IsPath(D, C, N, R, i, t)
      <4> HIDE DEF Bad
      <4> QED
        BY <2>5, <3>2, <3>3, <3>5, PathGoesOn
    <3> QED
      BY <2>2, <3>4, <3>6
  <2> QED
    BY <2>4, <2>5
<1>2. R[a] \in Nat
  BY DEF IsWalk
<1> QED
  BY <1>1, <1>2

-----------------------------------------------------------------------------
CONSTANTS Events, MaxKey

VARIABLES mheap, mkey, mset

Mh == INSTANCE MinHeap WITH heap <- mheap, key <- mkey, in <- mset

\* Parents and children.
LEMMA ParentIs ==
  ASSUME NEW i \in Nat \ {0}, NEW q, q = Mh!Parent(i)
  PROVE  q \in Nat /\ q < i /\ (i = 2 * q + 1 \/ i = 2 * q + 2)
BY DEF Mh!Parent

LEMMA ChildIs ==
  ASSUME NEW q \in Nat, NEW i \in Nat, i = 2 * q + 1 \/ i = 2 * q + 2
  PROVE  Mh!Parent(i) = q /\ i > q
BY DEF Mh!Parent

\* The first n places of h, without the hole, hold the events S, and these know their places.
Placed(h, n, hole, S) ==
  /\ \A i \in 0..(n - 1) : i # hole => Mh!At(h, i) \in S /\ h.idx[Mh!At(h, i)] = i
  /\ \A x \in S : h.idx[x] \in 0..(n - 1) /\ h.idx[x] # hole /\ Mh!At(h, h.idx[x]) = x

\* No event is later than its children, and those of the hole are not before its parent.
Sorted(h, n, hole, k) ==
  /\ \A i \in 1..(n - 1) : i # hole /\ Mh!Parent(i) # hole => k[Mh!At(h, Mh!Parent(i))] <= k[Mh!At(h, i)]
  /\ \A i \in 1..(n - 1) : Mh!Parent(i) = hole /\ hole > 0 => k[Mh!At(h, Mh!Parent(hole))] <= k[Mh!At(h, i)]

\* The children of the hole are not before v.
Below(h, n, hole, k, v) == \A i \in 1..(n - 1) : Mh!Parent(i) = hole => v <= k[Mh!At(h, i)]

\* On a path the event of place N[i] moves to place i.
IsShift(g, h, n, S, N, r) ==
  /\ \A i \in r.moved : Mh!At(g, i) = Mh!At(h, N[i]) /\ g.idx[Mh!At(h, N[i])] = i
  /\ \A i \in 0..(n - 1) : i \notin r.moved /\ i # r.end => Mh!At(g, i) = Mh!At(h, i)
  /\ \A x \in S : (\A i \in r.moved : Mh!At(h, N[i]) # x) => g.idx[x] = h.idx[x]

\* The events stay, and the hole is at the end of the path.
LEMMA ShiftPlaces ==
  ASSUME NEW n \in Nat, NEW D, NEW C, NEW N, NEW R, NEW B, IsWalk(D, C, N, R, B),
         NEW hole \in D, NEW r, IsPath(D, C, N, R, hole, r),
         r.moved \cup {r.end} \subseteq 0..(n - 1), NEW h, NEW S, Placed(h, n, hole, S),
         NEW g, IsShift(g, h, n, S, N, r)
  PROVE  Placed(g, n, r.end, S)
<1>1. /\ r.end \notin r.moved /\ hole \in r.moved \cup {r.end}
      /\ \A j \in r.moved : N[j] \in r.moved \cup {r.end} /\ N[j] \in 0..(n - 1) /\ N[j] # hole
      /\ \A j \in r.moved \cup {r.end} : j # hole => \E c \in r.moved : N[c] = j
      /\ \A c, d \in r.moved : N[c] = N[d] => c = d
  <2>1. \A j \in r.moved : N[j] # hole
    <3> SUFFICES ASSUME NEW j \in r.moved, N[j] = hole
                 PROVE  FALSE
      OBVIOUS
    <3>1. R[j] <= R[hole] /\ R[N[j]] < R[j] /\ R[j] \in Nat /\ R[hole] \in Nat
      BY DEF IsPath, IsWalk
    <3> QED
      BY <3>1
  <2> QED
    BY <2>1 DEF IsPath, IsWalk
<1>2. ASSUME NEW i \in 0..(n - 1), i # r.end
      PROVE  Mh!At(g, i) \in S /\ g.idx[Mh!At(g, i)] = i
  <2>1. CASE i \in r.moved
    <3>1. N[i] \in 0..(n - 1) /\ N[i] # hole
      BY <1>1, <2>1
    <3>2. Mh!At(h, N[i]) \in S
      BY <3>1 DEF Placed
    <3> QED
      BY <2>1, <3>2 DEF IsShift
  <2>2. CASE i \notin r.moved
    <3>1. Mh!At(g, i) = Mh!At(h, i) /\ i # hole
      BY <1>1, <1>2, <2>2 DEF IsShift
    <3>2. Mh!At(h, i) \in S /\ h.idx[Mh!At(h, i)] = i
      BY <3>1 DEF Placed
    <3>3. ASSUME NEW j \in r.moved
          PROVE  Mh!At(h, N[j]) # Mh!At(h, i)
      <4>1. N[j] \in 0..(n - 1) /\ N[j] # hole /\ N[j] # i
        BY <1>1, <1>2, <2>2
      <4>2. h.idx[Mh!At(h, N[j])] = N[j]
        BY <4>1 DEF Placed
      <4> QED
        BY <3>2, <4>1, <4>2
    <3>4. g.idx[Mh!At(h, i)] = h.idx[Mh!At(h, i)]
      BY <3>2, <3>3 DEF IsShift
    <3> QED
      BY <3>1, <3>2, <3>4
  <2> QED
    BY <2>1, <2>2
<1>3. ASSUME NEW x \in S
      PROVE  g.idx[x] \in 0..(n - 1) /\ g.idx[x] # r.end /\ Mh!At(g, g.idx[x]) = x
  <2>1. CASE \E i \in r.moved : Mh!At(h, N[i]) = x
    <3>1. PICK i \in r.moved : Mh!At(h, N[i]) = x
      BY <2>1
    <3>2. g.idx[x] = i /\ Mh!At(g, i) = x
      BY <3>1 DEF IsShift
    <3> QED
      BY <1>1, <3>2
  <2>2. CASE \A i \in r.moved : Mh!At(h, N[i]) # x
    <3>1. g.idx[x] = h.idx[x]
      BY <2>2 DEF IsShift
    <3>2. h.idx[x] \in 0..(n - 1) /\ h.idx[x] # hole /\ Mh!At(h, h.idx[x]) = x
      BY DEF Placed
    <3>3. h.idx[x] \notin r.moved /\ h.idx[x] # r.end
      <4> SUFFICES ASSUME h.idx[x] \in r.moved \cup {r.end}
                   PROVE  FALSE
        OBVIOUS
      <4>1. PICK c \in r.moved : N[c] = h.idx[x]
        BY <1>1, <3>2
      <4> QED
        BY <2>2, <3>2, <4>1
    <3>4. Mh!At(g, h.idx[x]) = Mh!At(h, h.idx[x])
      BY <3>2, <3>3 DEF IsShift
    <3> QED
      BY <3>1, <3>2, <3>3, <3>4
  <2> QED
    BY <2>1, <2>2
<1> QED
  BY <1>2, <1>3 DEF Placed

\* The numbers that the order compares.
Keys(h, n, hole, k) == \A i \in 0..(n - 1) : i # hole => k[Mh!At(h, i)] \in Int

\* A path upwards: from a place to its parent while the parent is later than v.
IsRise(h, hole, k, v, C, N, R) ==
  /\ C = {i \in 1..hole : k[Mh!At(h, Mh!Parent(i))] > v}
  /\ N = [i \in C |-> Mh!Parent(i)] /\ R = [i \in 0..hole |-> i]

LEMMA RiseWalks ==
  ASSUME NEW h, NEW hole \in Nat, NEW k, NEW v, NEW C, NEW N, NEW R, IsRise(h, hole, k, v, C, N, R),
         NEW D, D = 0..hole
  PROVE  IsWalk(D, C, N, R, hole)
<1>1. ASSUME NEW i \in C
      PROVE  N[i] \in D /\ R[N[i]] < R[i] /\ i \in D
  <2>1. i \in 1..hole /\ i \in Nat \ {0} /\ N[i] = Mh!Parent(i)
    BY DEF IsRise
  <2>2. Mh!Parent(i) \in Nat /\ Mh!Parent(i) < i
    BY <2>1, ParentIs
  <2> QED
    BY <2>1, <2>2 DEF IsRise
<1>2. N \in [C -> D]
  BY <1>1 DEF IsRise
<1>3. R \in [D -> 0..hole]
  BY DEF IsRise
<1> QED
  BY <1>1, <1>2, <1>3 DEF IsWalk

\* An event that is not later than the children of the hole has its place at the end.
LEMMA RiseSorts ==
  ASSUME NEW n \in Nat, NEW h, NEW hole \in 0..(n - 1), NEW k, NEW v \in Int, NEW C, NEW N, NEW R,
         IsRise(h, hole, k, v, C, N, R), NEW r, IsPath(0..hole, C, N, R, hole, r),
         Keys(h, n, hole, k), Sorted(h, n, hole, k), Below(h, n, hole, k, v),
         NEW g, NEW S, IsShift(g, h, n, S, N, r), k[Mh!At(g, r.end)] = v
  PROVE  Sorted(g, n, -1, k)
<1> DEFINE A(i) == k[Mh!At(h, i)]
           Z(i) == k[Mh!At(g, i)]
<1>1. /\ r.end \in 0..hole /\ r.end \notin C /\ r.moved \subseteq C /\ hole \in r.moved \cup {r.end}
      /\ \A j \in r.moved : N[j] \in r.moved \cup {r.end} /\ R[r.end] < R[j] /\ R[j] <= R[hole]
      /\ \A j \in r.moved \cup {r.end} : j # hole => \E c \in r.moved : N[c] = j
  BY DEF IsPath
<1>2. ASSUME NEW j \in r.moved
      PROVE  /\ j \in 1..hole /\ j \in Nat \ {0} /\ Mh!Parent(j) \in r.moved \cup {r.end} /\ A(Mh!Parent(j)) > v
             /\ r.end < j /\ Z(j) = A(Mh!Parent(j)) /\ Mh!Parent(j) # hole /\ Mh!Parent(j) \in 0..(n - 1)
  <2>1. j \in 1..hole /\ N[j] = Mh!Parent(j) /\ A(Mh!Parent(j)) > v /\ j \in Nat \ {0}
    BY <1>1 DEF IsRise
  <2>2. r.end < j
    <3>1. R[r.end] < R[j] /\ r.end \in 0..hole /\ j \in 0..hole
      BY <1>1, <2>1
    <3>2. R[r.end] = r.end /\ R[j] = j
      BY <3>1 DEF IsRise
    <3> QED
      BY <3>1, <3>2
  <2>3. Mh!Parent(j) \in Nat /\ Mh!Parent(j) < j
    BY <2>1, ParentIs
  <2>4. Mh!Parent(j) # hole /\ Mh!Parent(j) \in 0..(n - 1)
    BY <2>1, <2>3
  <2>5. Mh!At(g, j) = Mh!At(h, Mh!Parent(j))
    BY <2>1 DEF IsShift
  <2> QED
    BY <1>1, <2>1, <2>2, <2>4, <2>5
<1>3. \A i \in 0..(n - 1) : i \notin r.moved /\ i # r.end => Z(i) = A(i)
  BY DEF IsShift
<1>4. \A i \in 0..(n - 1) : i # hole => A(i) \in Int
  BY DEF Keys
<1>5. \A i \in 1..(n - 1) : i # hole /\ Mh!Parent(i) # hole => A(Mh!Parent(i)) <= A(i)
  BY DEF Sorted
<1>6. Z(r.end) = v
  OBVIOUS
<1>7. ASSUME NEW i \in 1..(n - 1)
      PROVE  Z(Mh!Parent(i)) <= Z(i)
  <2>1. PICK q : q = Mh!Parent(i)
    OBVIOUS
  <2>2. q \in Nat /\ q < i /\ q \in 0..(n - 1) /\ i \in 0..(n - 1) /\ i \in Nat \ {0}
    <3>1. i \in Nat \ {0}
      OBVIOUS
    <3>2. q \in Nat /\ q < i
      BY <2>1, <3>1, ParentIs
    <3> QED
      BY <3>1, <3>2
  <2>3. CASE i \in r.moved
    <3>1. Z(i) = A(q) /\ A(q) > v /\ q # hole /\ q \in r.moved \cup {r.end}
      BY <1>2, <2>1, <2>3
    <3>2. A(q) \in Int
      BY <1>4, <2>2, <3>1
    <3>3. CASE q = r.end
      BY <1>6, <2>1, <3>1, <3>2, <3>3
    <3>4. CASE q \in r.moved
      <4>1. Z(q) = A(Mh!Parent(q)) /\ Mh!Parent(q) # hole /\ q \in 1..(n - 1)
        <5>1. Z(q) = A(Mh!Parent(q)) /\ Mh!Parent(q) # hole /\ q \in 1..hole
          BY <1>2, <3>4
        <5>2. q \in 1..(n - 1)
          BY <2>2, <5>1
        <5> QED
          BY <5>1, <5>2
      <4>2. A(Mh!Parent(q)) <= A(q)
        BY <1>5, <3>1, <4>1
      <4> QED
        BY <2>1, <3>1, <4>1, <4>2
    <3> QED
      BY <3>1, <3>3, <3>4
  <2>4. CASE i = r.end
    <3>1. q \notin r.moved /\ q # r.end /\ q # hole
      <4>1. \A j \in r.moved : r.end < j /\ j \in Nat
        BY <1>2
      <4>2. r.end \in 0..hole
        BY <1>1
      <4> QED
        BY <2>2, <2>4, <4>1, <4>2
    <3>2. Z(q) = A(q) /\ A(q) \in Int
      BY <1>3, <1>4, <2>2, <3>1
    <3>3. ~(A(q) > v)
      <4>1. i \in 1..hole /\ i \notin C
        BY <1>1, <2>2, <2>4
      <4> QED
        BY <2>1, <4>1 DEF IsRise
    <3> QED
      BY <1>6, <2>1, <2>4, <3>2, <3>3
  <2>5. CASE i \notin r.moved \cup {r.end}
    <3>1. Z(i) = A(i) /\ i # hole /\ A(i) \in Int
      BY <1>1, <1>3, <1>4, <2>2, <2>5
    <3>2. CASE q \in r.moved
      <4>1. Z(q) = A(Mh!Parent(q)) /\ Mh!Parent(q) # hole /\ q \in 1..(n - 1) /\ Mh!Parent(q) \in 0..(n - 1)
        BY <1>2, <2>2, <3>2
      <4>2. CASE q = hole
        <5>1. hole > 0 /\ Mh!Parent(i) = hole
          BY <2>1, <4>1, <4>2
        <5>2. A(Mh!Parent(hole)) <= A(i)
          BY <5>1 DEF Sorted
        <5> QED
          BY <2>1, <3>1, <4>1, <4>2, <5>2
      <4>3. CASE q # hole
        <5>1. A(Mh!Parent(q)) <= A(q) /\ A(q) <= A(i)
          BY <1>5, <2>1, <3>1, <4>1, <4>3
        <5>2. A(Mh!Parent(q)) \in Int /\ A(q) \in Int
          BY <1>4, <2>2, <4>1, <4>3
        <5>3. A(Mh!Parent(q)) <= A(i)
          BY <3>1, <5>1, <5>2
        <5> QED
          BY <2>1, <3>1, <4>1, <5>3
      <4> QED
        BY <4>2, <4>3
    <3>3. CASE q = r.end
      <4>1. CASE q = hole
        <5>1. v <= A(i)
          BY <2>1, <4>1 DEF Below
        <5> QED
          BY <1>6, <2>1, <3>1, <3>3, <5>1
      <4>2. CASE q # hole
        <5>1. PICK c \in r.moved : N[c] = q
          BY <1>1, <3>3, <4>2
        <5>2. Mh!Parent(c) = q
          BY <1>1, <5>1 DEF IsRise
        <5>3. A(q) > v /\ A(q) \in Int /\ A(q) <= A(i)
          BY <1>2, <1>4, <1>5, <2>1, <2>2, <3>1, <4>2, <5>2
        <5>4. v <= A(i)
          BY <3>1, <5>3
        <5> QED
          BY <1>6, <2>1, <3>1, <3>3, <5>4
      <4> QED
        BY <4>1, <4>2
    <3>4. CASE q \notin r.moved \cup {r.end}
      <4>1. Z(q) = A(q) /\ q # hole
        BY <1>1, <1>3, <2>2, <3>4
      <4>2. A(q) <= A(i)
        BY <1>5, <2>1, <3>1, <4>1
      <4> QED
        BY <2>1, <3>1, <4>1, <4>2
    <3> QED
      BY <3>2, <3>3, <3>4
  <2> QED
    BY <2>3, <2>4, <2>5
<1>8. \A i \in 1..(n - 1) : Mh!Parent(i) # -1
  BY ParentIs
<1> QED
  BY <1>7, <1>8 DEF Sorted

\* The child that min_heap_shift_down_() looks at.
LEMMA MinChildIs ==
  ASSUME NEW h, NEW n \in Nat, NEW i \in Nat, 2 * (i + 1) <= n, NEW k, NEW c, c = Mh!MinChild(h, n, i, k)
  PROVE  c \in 0..(n - 1) /\ c > i /\ (c = 2 * i + 1 \/ c = 2 * i + 2)
BY DEF Mh!MinChild

LEMMA MinChildLeast ==
  ASSUME NEW h, NEW n \in Nat, NEW hole \in Nat, NEW i \in Nat, i >= hole, 2 * (i + 1) <= n, NEW k,
         Keys(h, n, hole, k), NEW c, c = Mh!MinChild(h, n, i, k), NEW j \in 1..(n - 1), Mh!Parent(j) = i
  PROVE  k[Mh!At(h, c)] <= k[Mh!At(h, j)]
<1>1. j \in Nat \ {0}
  OBVIOUS
<1>2. j = 2 * i + 1 \/ j = 2 * i + 2
  BY <1>1, ParentIs
<1>3. PICK right \in Nat : right = 2 * (i + 1)
  OBVIOUS
<1>4. PICK l \in Nat : l = right - 1
  <2>1. right - 1 \in Nat
    BY <1>3
  <2> QED
    BY <2>1
<1>5. c = IF right = n \/ k[Mh!At(h, right)] > k[Mh!At(h, l)] THEN l ELSE right
  BY <1>3, <1>4 DEF Mh!MinChild
<1>6. j = l \/ j = right
  BY <1>2, <1>3, <1>4
<1>7. l \in 0..(n - 1) /\ l # hole /\ right # hole
  BY <1>3, <1>4
<1>8. k[Mh!At(h, l)] \in Int
  BY <1>7 DEF Keys
<1>9. CASE right = n
  <2>1. c = l /\ j = l
    BY <1>5, <1>6, <1>9
  <2> QED
    BY <1>8, <2>1
<1>10. CASE right # n
  <2>1. right \in 0..(n - 1)
    BY <1>3, <1>10
  <2>2. k[Mh!At(h, right)] \in Int
    BY <1>7, <2>1 DEF Keys
  <2>3. CASE k[Mh!At(h, right)] > k[Mh!At(h, l)]
    BY <1>5, <1>6, <1>8, <2>2, <2>3
  <2>4. CASE ~(k[Mh!At(h, right)] > k[Mh!At(h, l)])
    BY <1>5, <1>6, <1>8, <1>10, <2>2, <2>4
  <2> QED
    BY <2>3, <2>4
<1> QED
  BY <1>9, <1>10

\* A path downwards: from a place to its smaller child while that is before v.
IsSink(h, n, k, v, C, N, R) ==
  /\ C = {i \in 0..n : 2 * (i + 1) <= n /\ v > k[Mh!At(h, Mh!MinChild(h, n, i, k))]}
  /\ N = [i \in C |-> Mh!MinChild(h, n, i, k)] /\ R = [i \in 0..n |-> n - i]

LEMMA SinkWalks ==
  ASSUME NEW h, NEW n \in Nat, NEW k, NEW v, NEW C, NEW N, NEW R, IsSink(h, n, k, v, C, N, R),
         NEW D, D = 0..n
  PROVE  IsWalk(D, C, N, R, n)
<1>1. ASSUME NEW i \in C
      PROVE  N[i] \in D /\ R[N[i]] < R[i] /\ i \in D
  <2>1. i \in 0..n /\ i \in Nat /\ 2 * (i + 1) <= n /\ N[i] = Mh!MinChild(h, n, i, k)
    BY DEF IsSink
  <2>2. N[i] \in 0..(n - 1) /\ N[i] > i
    BY <2>1, MinChildIs
  <2>3. N[i] \in 0..n
    BY <2>2
  <2>4. R[N[i]] = n - N[i] /\ R[i] = n - i
    BY <2>1, <2>3 DEF IsSink
  <2> QED
    BY <2>1, <2>2, <2>3, <2>4
<1>2. N \in [C -> D]
  BY <1>1 DEF IsSink
<1>3. R \in [D -> 0..n]
  BY DEF IsSink
<1> QED
  BY <1>1, <1>2, <1>3 DEF IsWalk

\* Where the path goes.
IsDescent(h, n, k, C, N, hole, r) ==
  /\ r.end \in hole..(n - 1) /\ r.end \notin C /\ r.end \notin r.moved /\ hole \in r.moved \cup {r.end}
  /\ \A j \in r.moved : /\ j \in hole..(n - 1) /\ j < r.end /\ 2 * (j + 1) <= n
                        /\ N[j] = Mh!MinChild(h, n, j, k) /\ N[j] \in 1..(n - 1) /\ Mh!Parent(N[j]) = j
                        /\ N[j] # hole
  /\ \A j \in r.moved \cup {r.end} : j # hole => Mh!Parent(j) \in r.moved /\ N[Mh!Parent(j)] = j

LEMMA SinkPath ==
  ASSUME NEW n \in Nat, NEW h, NEW hole \in 0..(n - 1), NEW k, NEW v, NEW C, NEW N, NEW R,
         IsSink(h, n, k, v, C, N, R), NEW r, IsPath(0..n, C, N, R, hole, r)
  PROVE  IsDescent(h, n, k, C, N, hole, r)
<1>1. /\ r.end \in 0..n /\ r.end \notin C /\ r.moved \subseteq C /\ hole \in r.moved \cup {r.end}
      /\ \A j \in r.moved : N[j] \in r.moved \cup {r.end} /\ R[j] <= R[hole] /\ R[r.end] < R[j]
      /\ \A j \in r.moved \cup {r.end} : j # hole => \E c \in r.moved : N[c] = j
  BY DEF IsPath
<1>2. \A i \in 0..n : R[i] = n - i
  BY DEF IsSink
<1>3. ASSUME NEW j \in r.moved
      PROVE  /\ j \in hole..(n - 1) /\ j < r.end /\ 2 * (j + 1) <= n
             /\ N[j] = Mh!MinChild(h, n, j, k) /\ N[j] \in 1..(n - 1) /\ Mh!Parent(N[j]) = j
             /\ N[j] # hole
  <2>1. j \in 0..n /\ j \in Nat /\ 2 * (j + 1) <= n /\ N[j] = Mh!MinChild(h, n, j, k)
    BY <1>1 DEF IsSink
  <2>2. N[j] \in 0..(n - 1) /\ N[j] > j /\ (N[j] = 2 * j + 1 \/ N[j] = 2 * j + 2)
    BY <2>1, MinChildIs
  <2>3. R[j] = n - j /\ R[hole] = n - hole /\ R[r.end] = n - r.end /\ R[j] <= R[hole] /\ R[r.end] < R[j]
    BY <1>1, <1>2, <2>1
  <2>4. j >= hole /\ j < r.end
    BY <1>1, <2>1, <2>3
  <2>5. N[j] \in Nat
    BY <2>2
  <2>6. Mh!Parent(N[j]) = j
    BY <2>1, <2>2, <2>5, ChildIs
  <2> QED
    BY <2>1, <2>2, <2>4, <2>6
<1>4. ASSUME NEW j \in r.moved \cup {r.end}, j # hole
      PROVE  Mh!Parent(j) \in r.moved /\ N[Mh!Parent(j)] = j /\ j \in hole..(n - 1)
  <2>1. PICK c \in r.moved : N[c] = j
    BY <1>1, <1>4
  <2>2. Mh!Parent(j) = c /\ j \in 1..(n - 1) /\ c \in hole..(n - 1) /\ N[c] > c
    <3>1. /\ c \in Nat /\ 2 * (c + 1) <= n /\ N[c] = Mh!MinChild(h, n, c, k)
      BY <1>3
    <3>2. N[c] > c
      BY <3>1, MinChildIs
    <3> QED
      BY <1>3, <2>1, <3>2
  <2> QED
    BY <2>1, <2>2
<1>5. r.end \in hole..(n - 1)
  <2>1. CASE r.end = hole
    BY <2>1
  <2>2. CASE r.end # hole
    BY <1>4, <2>2
  <2> QED
    BY <2>1, <2>2
<1>6. r.end \notin r.moved
  BY <1>1
<1> QED
  BY <1>1, <1>3, <1>4, <1>5, <1>6 DEF IsDescent

\* The hole goes down to a place whose children are not before v.
LEMMA SinkSorts ==
  ASSUME NEW n \in Nat, NEW h, NEW hole \in 0..(n - 1), NEW k, NEW v \in Int, NEW C, NEW N, NEW R,
         IsSink(h, n, k, v, C, N, R), NEW r, IsPath(0..n, C, N, R, hole, r),
         Keys(h, n, hole, k), Sorted(h, n, hole, k), NEW g, NEW S, IsShift(g, h, n, S, N, r)
  PROVE  Sorted(g, n, r.end, k) /\ Below(g, n, r.end, k, v)
<1> DEFINE A(i) == k[Mh!At(h, i)]
           Z(i) == k[Mh!At(g, i)]
<1>1. /\ r.end \in hole..(n - 1) /\ r.end \notin C /\ r.end \notin r.moved /\ hole \in r.moved \cup {r.end}
      /\ \A j \in r.moved : /\ j \in hole..(n - 1) /\ j < r.end /\ 2 * (j + 1) <= n
                            /\ N[j] = Mh!MinChild(h, n, j, k) /\ N[j] \in 1..(n - 1) /\ Mh!Parent(N[j]) = j
                            /\ N[j] # hole
      /\ \A j \in r.moved \cup {r.end} : j # hole => Mh!Parent(j) \in r.moved /\ N[Mh!Parent(j)] = j
  <2>1. IsDescent(h, n, k, C, N, hole, r)
    BY SinkPath
  <2> QED
    BY <2>1 DEF IsDescent
<1>2. \A j \in r.moved : Z(j) = A(N[j])
  BY DEF IsShift
<1>3. \A i \in 0..(n - 1) : i \notin r.moved /\ i # r.end => Z(i) = A(i)
  BY DEF IsShift
<1>4. \A i \in 0..(n - 1) : i # hole => A(i) \in Int
  BY DEF Keys
<1>5. \A i \in 1..(n - 1) : i # hole /\ Mh!Parent(i) # hole => A(Mh!Parent(i)) <= A(i)
  BY DEF Sorted
<1>6. \A i \in 1..(n - 1) : Mh!Parent(i) = hole /\ hole > 0 => A(Mh!Parent(hole)) <= A(i)
  BY DEF Sorted
<1>7. ASSUME NEW i \in 1..(n - 1)
      PROVE  Mh!Parent(i) \in Nat /\ Mh!Parent(i) < i /\ Mh!Parent(i) \in 0..(n - 1)
  <2>1. i \in Nat \ {0}
    OBVIOUS
  <2>2. Mh!Parent(i) \in Nat /\ Mh!Parent(i) < i
    BY <2>1, ParentIs
  <2> QED
    BY <2>2
<1>8. ASSUME NEW i \in 1..(n - 1), i # r.end, Mh!Parent(i) # r.end
      PROVE  Z(Mh!Parent(i)) <= Z(i)
  <2>1. PICK q : q = Mh!Parent(i)
    OBVIOUS
  <2>2. q \in Nat /\ q < i /\ q \in 0..(n - 1) /\ i \in 0..(n - 1)
    BY <1>7, <2>1
  <2>3. CASE i \in r.moved
    <3>1. Z(i) = A(N[i]) /\ N[i] \in 1..(n - 1) /\ Mh!Parent(N[i]) = i /\ N[i] # hole
      BY <1>1, <1>2, <2>3
    <3>2. CASE i = hole
      <4>1. q \notin r.moved
        BY <1>1, <2>2, <3>2
      <4>2. Z(q) = A(q)
        BY <1>3, <1>8, <2>1, <2>2, <4>1
      <4>3. A(q) <= A(N[i])
        BY <1>6, <2>1, <2>2, <3>1, <3>2
      <4> QED
        BY <2>1, <3>1, <4>2, <4>3
    <3>3. CASE i # hole
      <4>1. q \in r.moved /\ N[q] = i
        BY <1>1, <2>1, <2>3, <3>3
      <4>2. Z(q) = A(i)
        BY <1>2, <4>1
      <4>3. A(i) <= A(N[i])
        BY <1>5, <3>1, <3>3
      <4> QED
        BY <2>1, <3>1, <4>2, <4>3
    <3> QED
      BY <3>2, <3>3
  <2>4. CASE i \notin r.moved
    <3>1. Z(i) = A(i) /\ i # hole
      BY <1>1, <1>3, <1>8, <2>2, <2>4
    <3>2. CASE q \in r.moved
      <4>1. /\ Z(q) = A(N[q]) /\ N[q] = Mh!MinChild(h, n, q, k) /\ 2 * (q + 1) <= n /\ q >= hole /\ hole \in Nat
        BY <1>1, <1>2, <3>2
      <4>2. A(N[q]) <= A(i)
        BY <2>1, <2>2, <4>1, MinChildLeast
      <4> QED
        BY <2>1, <3>1, <4>1, <4>2
    <3>3. CASE q \notin r.moved
      <4>1. Z(q) = A(q) /\ q # hole
        BY <1>1, <1>3, <1>8, <2>1, <2>2, <3>3
      <4> QED
        BY <1>5, <2>1, <3>1, <4>1
    <3> QED
      BY <3>2, <3>3
  <2> QED
    BY <2>3, <2>4
<1>9. ASSUME NEW i \in 1..(n - 1), Mh!Parent(i) = r.end
      PROVE  Z(i) = A(i) /\ i # hole /\ i > r.end
  <2>1. i > r.end
    BY <1>1, <1>7, <1>9
  <2>2. i \notin r.moved /\ i # r.end /\ i # hole /\ i \in 0..(n - 1)
    BY <1>1, <2>1
  <2> QED
    BY <1>3, <2>1, <2>2
<1>10. ASSUME NEW i \in 1..(n - 1), Mh!Parent(i) = r.end, r.end > 0
       PROVE  Z(Mh!Parent(r.end)) <= Z(i)
  <2>1. Z(i) = A(i) /\ i # hole
    BY <1>9, <1>10
  <2>2. CASE r.end = hole
    <3>1. Mh!Parent(hole) \in 0..(n - 1) /\ Mh!Parent(hole) < hole
      BY <1>1, <1>7, <1>10, <2>2
    <3>2. Mh!Parent(hole) \notin r.moved
      BY <1>1, <3>1
    <3>3. Z(Mh!Parent(hole)) = A(Mh!Parent(hole))
      BY <1>3, <2>2, <3>1, <3>2
    <3> QED
      BY <1>6, <1>10, <2>1, <2>2, <3>3
  <2>3. CASE r.end # hole
    <3>1. Z(Mh!Parent(r.end)) = A(r.end)
      BY <1>1, <1>2, <2>3
    <3>2. A(r.end) <= A(i)
      BY <1>5, <1>10, <2>1, <2>3
    <3> QED
      BY <2>1, <3>1, <3>2
  <2> QED
    BY <2>2, <2>3
<1>11. ASSUME NEW i \in 1..(n - 1), Mh!Parent(i) = r.end
       PROVE  v <= Z(i)
  <2>1. Z(i) = A(i) /\ i # hole
    BY <1>9, <1>11
  <2>2. PICK c : c = Mh!MinChild(h, n, r.end, k)
    OBVIOUS
  <2>3. r.end \in Nat /\ r.end >= hole /\ hole \in Nat /\ r.end \in 0..n
    BY <1>1
  <2>4. 2 * (r.end + 1) <= n
    <3>1. i = 2 * r.end + 1 \/ i = 2 * r.end + 2
      <4>1. i \in Nat \ {0}
        OBVIOUS
      <4> QED
        BY <1>11, <4>1, ParentIs
    <3> QED
      BY <2>3, <3>1
  <2>5. A(c) <= A(i)
    BY <1>11, <2>2, <2>3, <2>4, MinChildLeast
  <2>6. c \in 0..(n - 1) /\ c > r.end
    BY <2>2, <2>3, <2>4, MinChildIs
  <2>7. A(c) \in Int /\ A(i) \in Int
    <3>1. c # hole
      BY <2>3, <2>6
    <3> QED
      BY <1>4, <2>1, <2>6, <3>1
  <2>8. ~(v > A(c))
    BY <1>1, <2>2, <2>3, <2>4 DEF IsSink
  <2> QED
    BY <2>1, <2>5, <2>7, <2>8
<1> QED
  BY <1>8, <1>10, <1>11 DEF Sorted, Below

\* The recursive function of min_heap_shift_up_().
RiseStep(h, k, v, f, i) == IF i > 0 /\ k[Mh!At(h, Mh!Parent(i))] > v
                           THEN LET r == f[Mh!Parent(i)] IN [r EXCEPT !.moved = @ \cup {i}]
                           ELSE [end |-> i, moved |-> {}]

RiseOf(h, k, v, D) == CHOOSE f : f = [i \in D |-> RiseStep(h, k, v, f, i)]

LEMMA RiseIsPath ==
  ASSUME NEW h, NEW hole \in Nat, NEW k, NEW v, NEW C, NEW N, NEW R, IsRise(h, hole, k, v, C, N, R),
         NEW D, D = 0..hole,
         NEW r, r = RiseOf(h, k, v, D)[hole]
  PROVE  IsPath(D, C, N, R, hole, r)
<1>1. IsWalk(D, C, N, R, hole)
  BY RiseWalks
<1>2. ASSUME NEW f, NEW i \in D
      PROVE  RiseStep(h, k, v, f, i) = WalkStep(C, N, f, i)
  <2>1. i \in C <=> i > 0 /\ k[Mh!At(h, Mh!Parent(i))] > v
    BY DEF IsRise
  <2>2. i \in C => N[i] = Mh!Parent(i)
    BY DEF IsRise
  <2> QED
    BY <2>1, <2>2 DEF RiseStep, WalkStep
<1>3. \A f : [i \in D |-> RiseStep(h, k, v, f, i)] = [i \in D |-> WalkStep(C, N, f, i)]
  BY <1>2
<1>4. \E f : f = [i \in D |-> RiseStep(h, k, v, f, i)]
  <2>1. PICK f : f = [i \in D |-> WalkStep(C, N, f, i)]
    <3>1. HasWalk(D, C, N)
      BY <1>1, WalkExists
    <3> QED
      BY <3>1 DEF HasWalk
  <2>2. [i \in D |-> RiseStep(h, k, v, f, i)] = [i \in D |-> WalkStep(C, N, f, i)]
    BY <1>3
  <2>3. f = [i \in D |-> RiseStep(h, k, v, f, i)]
    BY <2>1, <2>2
  <2> QED
    BY <2>3
<1>5. PICK rise : rise = RiseOf(h, k, v, D)
  OBVIOUS
<1>6. rise = [i \in D |-> RiseStep(h, k, v, rise, i)]
  BY <1>4, <1>5 DEF RiseOf
<1>7. rise = [i \in D |-> WalkStep(C, N, rise, i)]
  <2>1. PICK w : w = [i \in D |-> WalkStep(C, N, rise, i)]
    OBVIOUS
  <2>2. \A i \in D : rise[i] = w[i]
    BY <1>2, <1>6, <2>1
  <2>3. DOMAIN rise = D /\ DOMAIN w = D
    BY <1>6, <2>1
  <2>4. rise = [i \in D |-> rise[i]] /\ w = [i \in D |-> w[i]]
    BY <1>6, <2>1
  <2>5. rise = w
    BY <2>2, <2>4
  <2> QED
    BY <2>1, <2>5
<1>8. r = rise[hole]
  BY <1>5
<1>9. hole \in D
  OBVIOUS
<1> QED
  BY <1>1, <1>7, <1>8, <1>9, WalkIsPath

\* The recursive function of min_heap_shift_down_().
SinkStep(h, n, k, v, f, i) == IF 2 * (i + 1) <= n /\ v > k[Mh!At(h, Mh!MinChild(h, n, i, k))]
                              THEN LET r == f[Mh!MinChild(h, n, i, k)] IN [r EXCEPT !.moved = @ \cup {i}]
                              ELSE [end |-> i, moved |-> {}]

SinkOf(h, n, k, v, D) == CHOOSE f : f = [i \in D |-> SinkStep(h, n, k, v, f, i)]

LEMMA SinkIsPath ==
  ASSUME NEW h, NEW n \in Nat, NEW k, NEW v, NEW C, NEW N, NEW R, IsSink(h, n, k, v, C, N, R),
         NEW D, D = 0..n, NEW hole \in D,
         NEW r, r = SinkOf(h, n, k, v, D)[hole]
  PROVE  IsPath(D, C, N, R, hole, r)
<1>1. IsWalk(D, C, N, R, n)
  BY SinkWalks
<1>2. ASSUME NEW f, NEW i \in D
      PROVE  SinkStep(h, n, k, v, f, i) = WalkStep(C, N, f, i)
  <2>1. i \in C <=> 2 * (i + 1) <= n /\ v > k[Mh!At(h, Mh!MinChild(h, n, i, k))]
    BY DEF IsSink
  <2>2. i \in C => N[i] = Mh!MinChild(h, n, i, k)
    BY DEF IsSink
  <2> QED
    BY <2>1, <2>2 DEF SinkStep, WalkStep
<1>3. \A f : [i \in D |-> SinkStep(h, n, k, v, f, i)] = [i \in D |-> WalkStep(C, N, f, i)]
  BY <1>2
<1>4. \E f : f = [i \in D |-> SinkStep(h, n, k, v, f, i)]
  <2>1. PICK f : f = [i \in D |-> WalkStep(C, N, f, i)]
    <3>1. HasWalk(D, C, N)
      BY <1>1, WalkExists
    <3> QED
      BY <3>1 DEF HasWalk
  <2>2. [i \in D |-> SinkStep(h, n, k, v, f, i)] = [i \in D |-> WalkStep(C, N, f, i)]
    BY <1>3
  <2>3. f = [i \in D |-> SinkStep(h, n, k, v, f, i)]
    BY <2>1, <2>2
  <2> QED
    BY <2>3
<1>5. PICK sink : sink = SinkOf(h, n, k, v, D)
  OBVIOUS
<1>6. sink = [i \in D |-> SinkStep(h, n, k, v, sink, i)]
  BY <1>4, <1>5 DEF SinkOf
<1>7. sink = [i \in D |-> WalkStep(C, N, sink, i)]
  <2>1. PICK w : w = [i \in D |-> WalkStep(C, N, sink, i)]
    OBVIOUS
  <2>2. \A i \in D : sink[i] = w[i]
    BY <1>2, <1>6, <2>1
  <2>3. DOMAIN sink = D /\ DOMAIN w = D
    BY <1>6, <2>1
  <2>4. sink = [i \in D |-> sink[i]] /\ w = [i \in D |-> w[i]]
    BY <1>6, <2>1
  <2>5. sink = w
    BY <2>2, <2>4
  <2> QED
    BY <2>1, <2>5
<1>8. r = sink[hole]
  BY <1>5
<1> QED
  BY <1>1, <1>7, <1>8, WalkIsPath

-----------------------------------------------------------------------------
\* A heap in memory: places and indices.
HeapType(h) == h = [p |-> h.p, idx |-> h.idx] /\ h.p \in Seq(Events) /\ h.idx \in [Events -> Int]

\* g is h with e put in, of which n places count.
IsFilled(g, h, n, S, e, k) ==
  /\ HeapType(g) /\ Len(g.p) = (IF Len(h.p) >= n THEN Len(h.p) ELSE n)
  /\ Placed(g, n, -1, S \cup {e}) /\ Sorted(g, n, -1, k)
  /\ \A x \in Events \ (S \cup {e}) : g.idx[x] = h.idx[x]

\* The keys of events are numbers.
LEMMA KeysAre ==
  ASSUME NEW h, NEW n, NEW hole, NEW S, S \subseteq Events, NEW k \in [Events -> Int], Placed(h, n, hole, S)
  PROVE  Keys(h, n, hole, k)
BY DEF Placed, Keys

\* What min_heap_shift_up_() writes.
UpWho(h, e, r, i) == IF i = r.end THEN e ELSE Mh!At(h, Mh!Parent(i))
UpWritten(g, h, hole, e, r, wide, set) ==
  /\ wide = (IF hole = Len(h.p) THEN Mh!Place(h, hole, e) ELSE h)
  /\ set = r.moved \cup {r.end}
  /\ g = [p |-> [j \in 1..Len(wide.p) |-> IF j - 1 \in set THEN UpWho(h, e, r, j - 1) ELSE wide.p[j]],
          idx |-> [x \in DOMAIN h.idx |->
                     IF \E i \in set : UpWho(h, e, r, i) = x THEN CHOOSE i \in set : UpWho(h, e, r, i) = x
                     ELSE h.idx[x]]]

IsUp(g, h, n, S, N, r, e) ==
  /\ HeapType(g) /\ Len(g.p) = (IF Len(h.p) >= n THEN Len(h.p) ELSE n)
  /\ IsShift(g, h, n, S, N, r) /\ Mh!At(g, r.end) = e /\ g.idx[e] = r.end
  /\ \A x \in Events \ (S \cup {e}) : g.idx[x] = h.idx[x]

LEMMA ShiftUpWrites ==
  ASSUME NEW n \in Nat, NEW h, HeapType(h), NEW hole \in 0..(n - 1),
         Len(h.p) >= n \/ (Len(h.p) = hole /\ hole = n - 1),
         NEW S, S \subseteq Events, NEW e \in Events, e \notin S, Placed(h, n, hole, S),
         NEW C, NEW N, NEW R, NEW B, NEW D, D = 0..hole, IsWalk(D, C, N, R, B),
         \A i \in C : N[i] = Mh!Parent(i), NEW r, IsPath(D, C, N, R, hole, r),
         NEW g, NEW wide, NEW set, UpWritten(g, h, hole, e, r, wide, set)
  PROVE  IsUp(g, h, n, S, N, r, e)
<1>1. /\ r.end \in 0..hole /\ r.end \notin r.moved /\ r.moved \subseteq C /\ r.moved \subseteq 0..hole
      /\ \A j \in r.moved : N[j] \in r.moved \cup {r.end} /\ N[j] = Mh!Parent(j) /\ R[j] <= R[hole] /\ R[N[j]] < R[j]
      /\ \A c, d \in r.moved : N[c] = N[d] => c = d
  <2>1. \A j \in r.moved : j \in C /\ N[j] \in r.moved \cup {r.end} /\ R[j] <= R[hole]
    BY DEF IsPath
  <2>2. \A j \in C : j \in D /\ R[N[j]] < R[j]
    BY DEF IsWalk
  <2>3. r.end \in D /\ r.end \notin C /\ r.moved \subseteq C /\ \A c, d \in r.moved : N[c] = N[d] => c = d
    BY DEF IsPath
  <2> QED
    BY <2>1, <2>2, <2>3
<1>a. PICK W : W = [i \in set |-> UpWho(h, e, r, i)]
  OBVIOUS
<1>b. set = r.moved \cup {r.end}
  BY DEF UpWritten
<1>c. \A i \in set : W[i] = UpWho(h, e, r, i)
  BY <1>a
<1>0. /\ set = r.moved \cup {r.end}
      /\ \A i \in set : W[i] = IF i = r.end THEN e ELSE Mh!At(h, Mh!Parent(i))
  BY <1>b, <1>c DEF UpWho
<1>2. ASSUME NEW j \in r.moved
      PROVE  /\ W[j] = Mh!At(h, N[j]) /\ W[j] \in S /\ h.idx[W[j]] = N[j] /\ j \in set /\ W[j] # e
  <2>1. W[j] = Mh!At(h, N[j]) /\ j \in set
    BY <1>0, <1>1
  <2>2. N[j] # hole
    <3>1. R[j] \in Nat /\ R[hole] \in Nat /\ R[N[j]] \in Nat
      BY <1>1 DEF IsWalk
    <3>2. R[j] <= R[hole] /\ R[N[j]] < R[j]
      BY <1>1
    <3> QED
      BY <3>1, <3>2
  <2>3. N[j] \in 0..(n - 1)
    <3>1. N[j] \in 0..hole
      BY <1>1
    <3> QED
      BY <3>1
  <2>4. Mh!At(h, N[j]) \in S /\ h.idx[Mh!At(h, N[j])] = N[j]
    BY <2>2, <2>3 DEF Placed
  <2> QED
    BY <2>1, <2>4
<1>3. W[r.end] = e /\ r.end \in set /\ set \subseteq 0..hole
  BY <1>0, <1>1
<1>4. \A i, j \in set : W[i] = W[j] => i = j
  <2> SUFFICES ASSUME NEW i \in set, NEW j \in set, W[i] = W[j]
               PROVE  i = j
    OBVIOUS
  <2>1. CASE i \in r.moved /\ j \in r.moved
    <3>1. N[i] = N[j]
      BY <1>2, <2>1
    <3> QED
      BY <1>1, <2>1, <3>1
  <2>2. CASE i = r.end \/ j = r.end
    BY <1>0, <1>2, <1>3, <2>2
  <2> QED
    BY <1>0, <2>1, <2>2
<1>5. h.p \in Seq(Events) /\ h.idx \in [Events -> Int] /\ DOMAIN h.idx = Events /\ Len(h.p) \in Nat
  BY DEF HeapType
<1>6. /\ wide.p \in Seq(Events) /\ Len(wide.p) = (IF Len(h.p) >= n THEN Len(h.p) ELSE n)
      /\ \A i \in 0..(n - 1) : i # hole => wide.p[i + 1] = h.p[i + 1]
  <2>1. CASE hole = Len(h.p)
    <3>1. wide.p = Append(h.p, e)
      BY <2>1 DEF Mh!Place, UpWritten
    <3>2. Len(wide.p) = n /\ ~(Len(h.p) >= n)
      BY <1>5, <2>1, <3>1
    <3>3. \A i \in 1..Len(h.p) : wide.p[i] = h.p[i]
      BY <1>5, <3>1
    <3>4. \A i \in 0..(n - 1) : i # hole => i + 1 \in 1..Len(h.p)
      BY <2>1, <3>2
    <3>5. wide.p \in Seq(Events)
      BY <1>5, <3>1
    <3> QED
      BY <3>2, <3>3, <3>4, <3>5
  <2>2. CASE hole # Len(h.p)
    <3>1. wide = h
      BY <2>2 DEF UpWritten
    <3> QED
      BY <1>5, <2>2, <3>1
  <2> QED
    BY <2>1, <2>2
<1>7. \A j \in set : W[j] \in Events
  BY <1>0, <1>2, <1>3
<1>8. PICK m \in Nat : m = Len(wide.p)
  BY <1>6
<1>9. g.p = [j \in 1..m |-> IF j - 1 \in set THEN W[j - 1] ELSE wide.p[j]]
  <2>1. g.p = [j \in 1..m |-> IF j - 1 \in set THEN UpWho(h, e, r, j - 1) ELSE wide.p[j]]
    BY <1>8 DEF UpWritten
  <2> QED
    BY <1>c, <2>1
<1>10. g.p \in [1..m -> Events]
  <2>1. \A j \in 1..m : wide.p[j] \in Events
    BY <1>6, <1>8, ElementOfSeq
  <2> QED
    BY <1>7, <1>9, <2>1
<1>11. g.p \in Seq(Events)
  BY <1>8, <1>10, SeqDef
<1>12. Len(g.p) = m
  BY <1>10, <1>11
<1>13. g.idx = [x \in Events |-> IF \E i \in set : UpWho(h, e, r, i) = x
                                THEN CHOOSE i \in set : UpWho(h, e, r, i) = x ELSE h.idx[x]]
  BY <1>5 DEF UpWritten
<1>14. ASSUME NEW j \in set
       PROVE  g.idx[W[j]] = j
  <2>1. W[j] \in Events
    BY <1>7
  <2>2. UpWho(h, e, r, j) = W[j]
    BY <1>c
  <2>3. g.idx[W[j]] = CHOOSE i \in set : UpWho(h, e, r, i) = W[j]
    BY <1>13, <2>1, <2>2
  <2>4. \A i \in set : UpWho(h, e, r, i) = W[j] => i = j
    BY <1>4, <1>c
  <2> QED
    BY <2>2, <2>3, <2>4
<1>15. ASSUME NEW x \in Events, \A i \in set : W[i] # x
       PROVE  g.idx[x] = h.idx[x]
  BY <1>13, <1>15, <1>c
<1>16. g.idx \in [Events -> Int]
  <2>1. ASSUME NEW x \in Events
        PROVE  g.idx[x] \in Int
    <3>1. CASE \E i \in set : W[i] = x
      <4>1. PICK i \in set : W[i] = x
        BY <3>1
      <4>2. g.idx[x] = i /\ i \in 0..hole
        BY <1>3, <1>14, <4>1
      <4> QED
        BY <4>2
    <3>2. CASE \A i \in set : W[i] # x
      BY <1>5, <1>15, <3>2
    <3> QED
      BY <3>1, <3>2
  <2> QED
    BY <1>13, <2>1
<1>17. HeapType(g)
  <2>1. g = [p |-> g.p, idx |-> g.idx]
    BY DEF UpWritten
  <2> QED
    BY <1>11, <1>16, <2>1 DEF HeapType
<1>18. ASSUME NEW j \in set
       PROVE  Mh!At(g, j) = W[j]
  <2>1. j + 1 \in 1..m /\ (j + 1) - 1 = j
    <3>1. j \in 0..hole
      BY <1>3
    <3>2. hole + 1 <= m
      BY <1>5, <1>6, <1>8
    <3> QED
      BY <3>1, <3>2
  <2> QED
    BY <1>9, <2>1 DEF Mh!At
<1>19. ASSUME NEW i \in 0..(n - 1), i \notin set
       PROVE  Mh!At(g, i) = Mh!At(h, i)
  <2>1. i + 1 \in 1..m /\ (i + 1) - 1 = i /\ i # hole
    <3>1. i # hole
      BY <1>0, <1>19 DEF IsPath
    <3> QED
      BY <1>5, <1>6, <1>8, <3>1
  <2> QED
    BY <1>6, <1>9, <1>19, <2>1 DEF Mh!At
<1>20. IsShift(g, h, n, S, N, r)
  <2>1. \A i \in r.moved : Mh!At(g, i) = Mh!At(h, N[i]) /\ g.idx[Mh!At(h, N[i])] = i
    <3> SUFFICES ASSUME NEW i \in r.moved
                 PROVE  Mh!At(g, i) = Mh!At(h, N[i]) /\ g.idx[Mh!At(h, N[i])] = i
      OBVIOUS
    <3>1. W[i] = Mh!At(h, N[i]) /\ i \in set
      BY <1>2
    <3>2. Mh!At(g, i) = W[i] /\ g.idx[W[i]] = i
      BY <1>14, <1>18, <3>1
    <3> QED
      BY <3>1, <3>2
  <2>2. \A i \in 0..(n - 1) : i \notin r.moved /\ i # r.end => Mh!At(g, i) = Mh!At(h, i)
    BY <1>0, <1>19
  <2>3. ASSUME NEW x \in S, \A i \in r.moved : Mh!At(h, N[i]) # x
        PROVE  g.idx[x] = h.idx[x]
    <3>1. \A i \in set : W[i] # x
      BY <1>0, <1>2, <1>3, <2>3
    <3> QED
      BY <1>15, <3>1
  <2> QED
    BY <2>1, <2>2, <2>3 DEF IsShift
<1>21. Mh!At(g, r.end) = e /\ g.idx[e] = r.end
  <2>1. Mh!At(g, r.end) = W[r.end] /\ g.idx[W[r.end]] = r.end
    BY <1>3, <1>14, <1>18
  <2> QED
    BY <1>3, <2>1
<1>22. \A x \in Events \ (S \cup {e}) : g.idx[x] = h.idx[x]
  <2> SUFFICES ASSUME NEW x \in Events \ (S \cup {e})
               PROVE  g.idx[x] = h.idx[x]
    OBVIOUS
  <2>1. \A i \in set : W[i] # x
    BY <1>0, <1>2, <1>3
  <2> QED
    BY <1>15, <2>1
<1> QED
  BY <1>6, <1>8, <1>12, <1>17, <1>20, <1>21, <1>22 DEF IsUp

\* The definition of ShiftUp in these terms.
LEMMA UpUnfolds ==
  ASSUME NEW h, NEW hole, NEW e, NEW k, NEW r, r = RiseOf(h, k, k[e], 0..hole)[hole],
         NEW wide, wide = (IF hole = Len(h.p) THEN Mh!Place(h, hole, e) ELSE h),
         NEW set, set = r.moved \cup {r.end}, NEW g, g = Mh!ShiftUp(h, hole, e, k)
  PROVE  UpWritten(g, h, hole, e, r, wide, set)
BY DEF UpWritten, UpWho, RiseOf, RiseStep, Mh!ShiftUp

\* min_heap_shift_up_() fills the hole with an event.
LEMMA ShiftUpIs ==
  ASSUME NEW n \in Nat, NEW h, HeapType(h), NEW hole \in 0..(n - 1),
         Len(h.p) >= n \/ (Len(h.p) = hole /\ hole = n - 1),
         NEW S, S \subseteq Events, NEW e \in Events, e \notin S, NEW k \in [Events -> Int],
         Placed(h, n, hole, S), Sorted(h, n, hole, k), Below(h, n, hole, k, k[e]),
         NEW g, g = Mh!ShiftUp(h, hole, e, k)
  PROVE  IsFilled(g, h, n, S, e, k)
<1>1. PICK v \in Int : v = k[e]
  OBVIOUS
<1>2. PICK C : C = {i \in 1..hole : k[Mh!At(h, Mh!Parent(i))] > v}
  OBVIOUS
<1>3. PICK N : N = [i \in C |-> Mh!Parent(i)]
  OBVIOUS
<1>4. PICK R : R = [i \in 0..hole |-> i]
  OBVIOUS
<1>5. IsRise(h, hole, k, v, C, N, R)
  BY <1>2, <1>3, <1>4 DEF IsRise
<1>6. PICK D : D = 0..hole
  OBVIOUS
<1>7. hole \in Nat
  OBVIOUS
<1>8. IsWalk(D, C, N, R, hole)
  BY <1>5, <1>6, <1>7, RiseWalks
<1>9. PICK r : r = RiseOf(h, k, v, D)[hole]
  OBVIOUS
<1>10. IsPath(D, C, N, R, hole, r)
  BY <1>5, <1>6, <1>7, <1>9, RiseIsPath
<1>11. PICK wide : wide = (IF hole = Len(h.p) THEN Mh!Place(h, hole, e) ELSE h)
  OBVIOUS
<1>12. PICK set : set = r.moved \cup {r.end}
  OBVIOUS
<1>13. UpWritten(g, h, hole, e, r, wide, set)
  <2>1. r = RiseOf(h, k, k[e], 0..hole)[hole]
    BY <1>1, <1>6, <1>9
  <2> QED
    BY <1>11, <1>12, <2>1, UpUnfolds
<1>14. \A i \in C : N[i] = Mh!Parent(i)
  BY <1>3
<1>15. IsUp(g, h, n, S, N, r, e)
  BY <1>6, <1>8, <1>10, <1>13, <1>14, ShiftUpWrites
<1>16. /\ HeapType(g) /\ Len(g.p) = (IF Len(h.p) >= n THEN Len(h.p) ELSE n)
       /\ IsShift(g, h, n, S, N, r) /\ Mh!At(g, r.end) = e /\ g.idx[e] = r.end
       /\ \A x \in Events \ (S \cup {e}) : g.idx[x] = h.idx[x]
  BY <1>15 DEF IsUp
<1>17. r.moved \cup {r.end} \subseteq 0..(n - 1) /\ r.end \in 0..(n - 1)
  <2>1. r.moved \cup {r.end} \subseteq D
    BY <1>8, <1>10 DEF IsPath, IsWalk
  <2>2. D \subseteq 0..(n - 1)
    BY <1>6
  <2> QED
    BY <2>1, <2>2
<1>18. Placed(g, n, r.end, S)
  <2>1. hole \in D
    BY <1>6
  <2> QED
    BY <1>8, <1>10, <1>16, <1>17, <2>1, ShiftPlaces
<1>19. Placed(g, n, -1, S \cup {e})
  <2>1. ASSUME NEW i \in 0..(n - 1)
        PROVE  Mh!At(g, i) \in S \cup {e} /\ g.idx[Mh!At(g, i)] = i
    <3>1. CASE i = r.end
      BY <1>16, <3>1
    <3>2. CASE i # r.end
      BY <1>18, <3>2 DEF Placed
    <3> QED
      BY <3>1, <3>2
  <2>2. ASSUME NEW x \in S \cup {e}
        PROVE  g.idx[x] \in 0..(n - 1) /\ g.idx[x] # -1 /\ Mh!At(g, g.idx[x]) = x
    <3>1. CASE x = e
      BY <1>16, <1>17, <3>1
    <3>2. CASE x \in S
      <4>1. g.idx[x] \in 0..(n - 1) /\ Mh!At(g, g.idx[x]) = x
        BY <1>18, <3>2 DEF Placed
      <4> QED
        BY <4>1
    <3> QED
      BY <3>1, <3>2
  <2> QED
    BY <2>1, <2>2 DEF Placed
<1>20. Sorted(g, n, -1, k)
  <2>1. Keys(h, n, hole, k)
    BY KeysAre
  <2>2. k[Mh!At(g, r.end)] = v /\ Below(h, n, hole, k, v)
    BY <1>1, <1>16
  <2>3. IsPath(0..hole, C, N, R, hole, r)
    BY <1>6, <1>10
  <2>4. IsShift(g, h, n, S, N, r)
    BY <1>16
  <2> QED
    BY <1>5, <2>1, <2>2, <2>3, <2>4, RiseSorts
<1> QED
  BY <1>16, <1>19, <1>20 DEF IsFilled

\* What the loop of min_heap_shift_down_() writes.
DownWritten(g, h, n, k, r) ==
  g = [p |-> [j \in 1..Len(h.p) |-> IF j - 1 \in r.moved THEN Mh!At(h, Mh!MinChild(h, n, j - 1, k)) ELSE h.p[j]],
       idx |-> [x \in DOMAIN h.idx |->
                  IF \E i \in r.moved : Mh!At(h, Mh!MinChild(h, n, i, k)) = x
                  THEN CHOOSE i \in r.moved : Mh!At(h, Mh!MinChild(h, n, i, k)) = x ELSE h.idx[x]]]

IsDown(g, h, n, S, N, r) ==
  /\ HeapType(g) /\ Len(g.p) = Len(h.p) /\ IsShift(g, h, n, S, N, r)
  /\ \A x \in Events \ S : g.idx[x] = h.idx[x]

LEMMA ShiftDownWrites ==
  ASSUME NEW n \in Nat, NEW h, HeapType(h), NEW hole \in 0..(n - 1), Len(h.p) >= n,
         NEW S, S \subseteq Events, Placed(h, n, hole, S), NEW k, NEW C, NEW N,
         NEW r, IsDescent(h, n, k, C, N, hole, r), NEW g, DownWritten(g, h, n, k, r)
  PROVE  IsDown(g, h, n, S, N, r)
<1> DEFINE W(i) == Mh!At(h, Mh!MinChild(h, n, i, k))
<1>1. /\ \A j \in r.moved : /\ j \in 0..(n - 1) /\ N[j] = Mh!MinChild(h, n, j, k)
                            /\ N[j] \in 1..(n - 1) /\ Mh!Parent(N[j]) = j /\ N[j] # hole
  BY DEF IsDescent
<1>2. ASSUME NEW j \in r.moved
      PROVE  W(j) = Mh!At(h, N[j]) /\ W(j) \in S /\ h.idx[W(j)] = N[j]
  <2>1. W(j) = Mh!At(h, N[j]) /\ N[j] \in 0..(n - 1) /\ N[j] # hole
    BY <1>1
  <2>2. Mh!At(h, N[j]) \in S /\ h.idx[Mh!At(h, N[j])] = N[j]
    BY <2>1 DEF Placed
  <2> QED
    BY <2>1, <2>2
<1>3. \A i, j \in r.moved : W(i) = W(j) => i = j
  <2> SUFFICES ASSUME NEW i \in r.moved, NEW j \in r.moved, W(i) = W(j)
               PROVE  i = j
    OBVIOUS
  <2>1. N[i] = N[j]
    <3>1. h.idx[W(i)] = N[i] /\ h.idx[W(j)] = N[j]
      BY <1>2
    <3> QED
      BY <3>1
  <2>2. Mh!Parent(N[i]) = i /\ Mh!Parent(N[j]) = j
    BY <1>1
  <2> QED
    BY <2>1, <2>2
<1>4. h.p \in Seq(Events) /\ h.idx \in [Events -> Int] /\ DOMAIN h.idx = Events /\ Len(h.p) \in Nat
  BY DEF HeapType
<1>5. PICK m \in Nat : m = Len(h.p)
  BY <1>4
<1>6. /\ g.p = [j \in 1..m |-> IF j - 1 \in r.moved THEN W(j - 1) ELSE h.p[j]]
      /\ g.idx = [x \in Events |-> IF \E i \in r.moved : W(i) = x THEN CHOOSE i \in r.moved : W(i) = x ELSE h.idx[x]]
      /\ g = [p |-> g.p, idx |-> g.idx]
  BY <1>4, <1>5 DEF DownWritten
<1>7. \A j \in r.moved : W(j) \in Events
  BY <1>2
<1> HIDE DEF W
<1>8. g.p \in [1..m -> Events]
  <2>1. \A j \in 1..m : h.p[j] \in Events
    BY <1>4, <1>5, ElementOfSeq
  <2> QED
    BY <1>6, <1>7, <2>1
<1>9. g.p \in Seq(Events)
  BY <1>5, <1>8, SeqDef
<1>10. Len(g.p) = m
  BY <1>8, <1>9
<1>11. ASSUME NEW j \in r.moved
       PROVE  g.idx[W(j)] = j
  <2>1. W(j) \in Events
    BY <1>7
  <2>2. g.idx[W(j)] = CHOOSE i \in r.moved : W(i) = W(j)
    BY <1>6, <2>1
  <2> QED
    BY <1>3, <2>2
<1>12. ASSUME NEW x \in Events, \A i \in r.moved : W(i) # x
       PROVE  g.idx[x] = h.idx[x]
  BY <1>6, <1>12
<1>13. g.idx \in [Events -> Int]
  <2>1. ASSUME NEW x \in Events
        PROVE  g.idx[x] \in Int
    <3>1. CASE \E i \in r.moved : W(i) = x
      <4>1. PICK i \in r.moved : W(i) = x
        BY <3>1
      <4>2. g.idx[x] = i /\ i \in 0..(n - 1)
        BY <1>1, <1>11, <4>1
      <4> QED
        BY <4>2
    <3>2. CASE \A i \in r.moved : W(i) # x
      BY <1>4, <1>12, <3>2
    <3> QED
      BY <3>1, <3>2
  <2> QED
    BY <1>6, <2>1
<1>14. HeapType(g)
  BY <1>6, <1>9, <1>13 DEF HeapType
<1>15. ASSUME NEW j \in 0..(n - 1)
       PROVE  Mh!At(g, j) = IF j \in r.moved THEN W(j) ELSE Mh!At(h, j)
  <2>1. j + 1 \in 1..m /\ (j + 1) - 1 = j
    BY <1>5
  <2> QED
    BY <1>6, <2>1 DEF Mh!At
<1>16. IsShift(g, h, n, S, N, r)
  <2>1. \A i \in r.moved : Mh!At(g, i) = Mh!At(h, N[i]) /\ g.idx[Mh!At(h, N[i])] = i
    BY <1>1, <1>2, <1>11, <1>15
  <2>2. \A i \in 0..(n - 1) : i \notin r.moved /\ i # r.end => Mh!At(g, i) = Mh!At(h, i)
    BY <1>15
  <2>3. ASSUME NEW x \in S, \A i \in r.moved : Mh!At(h, N[i]) # x
        PROVE  g.idx[x] = h.idx[x]
    <3>1. \A i \in r.moved : W(i) # x
      BY <1>2, <2>3
    <3> QED
      BY <1>12, <3>1
  <2> QED
    BY <2>1, <2>2, <2>3 DEF IsShift
<1>17. \A x \in Events \ S : g.idx[x] = h.idx[x]
  BY <1>2, <1>12
<1> QED
  BY <1>5, <1>10, <1>14, <1>16, <1>17 DEF IsDown

\* The definition of ShiftDown in these terms.
LEMMA DownUnfolds ==
  ASSUME NEW h, NEW n, NEW hole, NEW e, NEW k, NEW r, r = SinkOf(h, n, k, k[e], 0..n)[hole],
         NEW d, DownWritten(d, h, n, k, r), NEW g, g = Mh!ShiftDown(h, n, hole, e, k)
  PROVE  g = Mh!ShiftUp(d, r.end, e, k)
BY DEF DownWritten, SinkOf, SinkStep, Mh!ShiftDown, Mh!ShiftUpAfterDown

\* min_heap_shift_down_() fills the hole with an event.
LEMMA ShiftDownIs ==
  ASSUME NEW n \in Nat, NEW h, HeapType(h), NEW hole \in 0..(n - 1), Len(h.p) >= n,
         NEW S, S \subseteq Events, NEW e \in Events, e \notin S, NEW k \in [Events -> Int],
         Placed(h, n, hole, S), Sorted(h, n, hole, k),
         NEW g, g = Mh!ShiftDown(h, n, hole, e, k)
  PROVE  IsFilled(g, h, n, S, e, k)
<1>1. PICK v \in Int : v = k[e]
  OBVIOUS
<1>2. PICK C : C = {i \in 0..n : 2 * (i + 1) <= n /\ v > k[Mh!At(h, Mh!MinChild(h, n, i, k))]}
  OBVIOUS
<1>3. PICK N : N = [i \in C |-> Mh!MinChild(h, n, i, k)]
  OBVIOUS
<1>4. PICK R : R = [i \in 0..n |-> n - i]
  OBVIOUS
<1>5. IsSink(h, n, k, v, C, N, R)
  BY <1>2, <1>3, <1>4 DEF IsSink
<1>6. PICK D : D = 0..n
  OBVIOUS
<1>7. hole \in D
  BY <1>6
<1>8. IsWalk(D, C, N, R, n)
  BY <1>5, <1>6, SinkWalks
<1>9. PICK r : r = SinkOf(h, n, k, v, D)[hole]
  OBVIOUS
<1>10. IsPath(D, C, N, R, hole, r)
  BY <1>5, <1>6, <1>7, <1>9, SinkIsPath
<1>11. IsPath(0..n, C, N, R, hole, r)
  BY <1>6, <1>10
<1>12. IsDescent(h, n, k, C, N, hole, r)
  BY <1>5, <1>11, SinkPath
<1>13. PICK d : DownWritten(d, h, n, k, r)
  BY DEF DownWritten
<1>14. IsDown(d, h, n, S, N, r)
  BY <1>12, <1>13, ShiftDownWrites
<1>15. /\ HeapType(d) /\ Len(d.p) = Len(h.p) /\ IsShift(d, h, n, S, N, r)
       /\ \A x \in Events \ S : d.idx[x] = h.idx[x]
  BY <1>14 DEF IsDown
<1>16. r.end \in 0..(n - 1) /\ r.moved \cup {r.end} \subseteq 0..(n - 1)
  BY <1>12 DEF IsDescent
<1>17. Placed(d, n, r.end, S)
  BY <1>7, <1>8, <1>10, <1>15, <1>16, ShiftPlaces
<1>18. Sorted(d, n, r.end, k) /\ Below(d, n, r.end, k, v)
  <2>1. Keys(h, n, hole, k)
    BY KeysAre
  <2>2. IsShift(d, h, n, S, N, r)
    BY <1>15
  <2> QED
    BY <1>5, <1>11, <2>1, <2>2, SinkSorts
<1>19. g = Mh!ShiftUp(d, r.end, e, k)
  <2>1. r = SinkOf(h, n, k, k[e], 0..n)[hole]
    BY <1>1, <1>6, <1>9
  <2> QED
    BY <1>13, <2>1, DownUnfolds
<1>20. IsFilled(g, d, n, S, e, k)
  <2>1. Len(d.p) >= n /\ Below(d, n, r.end, k, k[e])
    BY <1>1, <1>15, <1>18
  <2> QED
    BY <1>15, <1>16, <1>17, <1>18, <1>19, <2>1, ShiftUpIs
<1> QED
  BY <1>15, <1>20 DEF IsFilled

-----------------------------------------------------------------------------
\* h is a heap of the events S, ordered by k.
IsHeap(h, S, k) == /\ HeapType(h) /\ S \subseteq Events /\ IsFiniteSet(S) /\ Len(h.p) = Cardinality(S)
                   /\ Placed(h, Len(h.p), -1, S) /\ Sorted(h, Len(h.p), -1, k)
                   /\ \A x \in Events \ S : h.idx[x] = -1

\* The keys of other events do not matter.
LEMMA OtherKeys ==
  ASSUME NEW h, NEW S, NEW k, IsHeap(h, S, k), NEW l, \A x \in S : l[x] = k[x]
  PROVE  IsHeap(h, S, l)
<1>1. PICK n \in Nat : n = Len(h.p)
  BY DEF IsHeap, HeapType
<1>2. Placed(h, n, -1, S) /\ Sorted(h, n, -1, k)
  BY <1>1 DEF IsHeap
<1>3. \A i \in 0..(n - 1) : l[Mh!At(h, i)] = k[Mh!At(h, i)]
  BY <1>2 DEF Placed
<1>4. ASSUME NEW i \in 1..(n - 1)
      PROVE  l[Mh!At(h, Mh!Parent(i))] <= l[Mh!At(h, i)] /\ Mh!Parent(i) # -1
  <2>1. i \in Nat \ {0}
    OBVIOUS
  <2>2. Mh!Parent(i) \in Nat /\ Mh!Parent(i) < i
    BY <2>1, ParentIs
  <2>3. Mh!Parent(i) \in 0..(n - 1) /\ i \in 0..(n - 1) /\ i # -1 /\ Mh!Parent(i) # -1
    BY <2>2
  <2>4. k[Mh!At(h, Mh!Parent(i))] <= k[Mh!At(h, i)]
    BY <1>2, <2>3 DEF Sorted
  <2> QED
    BY <1>3, <2>3, <2>4
<1>5. Sorted(h, n, -1, l)
  BY <1>4 DEF Sorted
<1> QED
  BY <1>1, <1>5 DEF IsHeap

\* A heap without a hole: parents and children.
LEMMA SortedPair ==
  ASSUME NEW h, NEW n \in Nat, NEW S, Placed(h, n, -1, S), NEW k, Sorted(h, n, -1, k), NEW i \in 1..(n - 1)
  PROVE  /\ k[Mh!At(h, Mh!Parent(i))] <= k[Mh!At(h, i)] /\ Mh!Parent(i) \in 0..(n - 1) /\ Mh!Parent(i) < i
         /\ Mh!At(h, i) \in S /\ Mh!At(h, Mh!Parent(i)) \in S
<1>1. i \in Nat \ {0}
  OBVIOUS
<1>2. Mh!Parent(i) \in Nat /\ Mh!Parent(i) < i
  BY <1>1, ParentIs
<1>3. Mh!Parent(i) \in 0..(n - 1) /\ i \in 0..(n - 1) /\ i # -1 /\ Mh!Parent(i) # -1
  BY <1>2
<1> QED
  BY <1>2, <1>3 DEF Sorted, Placed

\* min_heap_push().
LEMMA PushIs ==
  ASSUME NEW h, NEW S, NEW k \in [Events -> Int], IsHeap(h, S, k), NEW e \in Events, e \notin S,
         NEW g, g = Mh!Push(h, e, k)
  PROVE  IsHeap(g, S \cup {e}, k)
<1>1. PICK m \in Nat : m = Len(h.p)
  BY DEF IsHeap, HeapType
<1>2. PICK n \in Nat : n = m + 1
  OBVIOUS
<1>3. HeapType(h) /\ S \subseteq Events /\ Placed(h, m, -1, S) /\ Sorted(h, m, -1, k)
  BY <1>1 DEF IsHeap
<1>4. m \in 0..(n - 1) /\ Len(h.p) = m /\ m = n - 1
  BY <1>1, <1>2
<1>5. Placed(h, n, m, S)
  <2>1. \A i \in 0..(n - 1) : i # m => i \in 0..(m - 1) /\ i # -1
    BY <1>2
  <2>2. \A i \in 0..(m - 1) : i \in 0..(n - 1) /\ i # m
    BY <1>2
  <2> QED
    BY <1>3, <2>1, <2>2 DEF Placed
<1>6. ASSUME NEW i \in 1..(n - 1)
      PROVE  Mh!Parent(i) # m
  <2>1. i \in Nat \ {0}
    OBVIOUS
  <2>2. Mh!Parent(i) \in Nat /\ Mh!Parent(i) < i
    BY <2>1, ParentIs
  <2> QED
    BY <1>2, <2>2
<1>7. Sorted(h, n, m, k)
  <2>1. ASSUME NEW i \in 1..(n - 1), i # m
        PROVE  k[Mh!At(h, Mh!Parent(i))] <= k[Mh!At(h, i)]
    <3>1. i \in 1..(m - 1)
      BY <1>2, <2>1
    <3> QED
      BY <1>3, <3>1, SortedPair
  <2> QED
    BY <1>6, <2>1 DEF Sorted
<1>8. Below(h, n, m, k, k[e])
  BY <1>6 DEF Below
<1>9. g = Mh!ShiftUp(h, m, e, k)
  BY <1>1 DEF Mh!Push
<1>10. IsFilled(g, h, n, S, e, k)
  BY <1>3, <1>4, <1>5, <1>7, <1>8, <1>9, ShiftUpIs
<1>11. HeapType(g) /\ Len(g.p) = n /\ Placed(g, n, -1, S \cup {e}) /\ Sorted(g, n, -1, k)
  BY <1>1, <1>2, <1>10 DEF IsFilled
<1>12. \A x \in Events \ (S \cup {e}) : g.idx[x] = -1
  BY <1>10 DEF IsFilled, IsHeap
<1>13. IsFiniteSet(S \cup {e}) /\ Cardinality(S \cup {e}) = n
  <2>1. IsFiniteSet(S) /\ Cardinality(S) = m
    BY <1>1 DEF IsHeap
  <2> QED
    BY <1>2, <2>1, FS_AddElement
<1> QED
  BY <1>3, <1>11, <1>12, <1>13 DEF IsHeap

\* The last place is given up.
LEMMA Truncates ==
  ASSUME NEW n \in Nat, NEW h, HeapType(h), Len(h.p) = n + 1, NEW T, T \subseteq Events, NEW k,
         Placed(h, n, -1, T), Sorted(h, n, -1, k), NEW e \in Events, e \notin T,
         \A x \in Events \ (T \cup {e}) : h.idx[x] = -1, IsFiniteSet(T), Cardinality(T) = n,
         NEW g, g = [p |-> SubSeq(h.p, 1, n), idx |-> [h.idx EXCEPT ![e] = -1]]
  PROVE  IsHeap(g, T, k)
<1>1. h.p \in Seq(Events) /\ h.idx \in [Events -> Int]
  BY DEF HeapType
<1>2. PICK one \in Nat \ {0} : one = 1
  OBVIOUS
<1>3. g.p = SubSeq(h.p, one, n) /\ one <= n + 1 /\ n <= Len(h.p)
  BY <1>2
<1>4. g.p \in Seq(Events) /\ IsPiece(g.p, h.p, one, n)
  BY <1>1, <1>3, Piece
<1>5. Len(g.p) = n /\ \A i \in 1..n : g.p[i] = h.p[i]
  BY <1>2, <1>4 DEF IsPiece
<1>6. g.idx \in [Events -> Int] /\ g.idx[e] = -1 /\ \A x \in Events : x # e => g.idx[x] = h.idx[x]
  BY <1>1
<1>7. HeapType(g)
  BY <1>4, <1>6 DEF HeapType
<1>8. \A i \in 0..(n - 1) : Mh!At(g, i) = Mh!At(h, i)
  <2> SUFFICES ASSUME NEW i \in 0..(n - 1)
               PROVE  Mh!At(g, i) = Mh!At(h, i)
    OBVIOUS
  <2>1. i + 1 \in 1..n
    OBVIOUS
  <2> QED
    BY <1>5, <2>1 DEF Mh!At
<1>9. \A x \in T : g.idx[x] = h.idx[x]
  BY <1>6
<1>10. Placed(g, n, -1, T)
  <2>1. ASSUME NEW i \in 0..(n - 1)
        PROVE  Mh!At(g, i) \in T /\ g.idx[Mh!At(g, i)] = i
    <3>1. i # -1
      OBVIOUS
    <3>2. Mh!At(h, i) \in T /\ h.idx[Mh!At(h, i)] = i
      BY <3>1 DEF Placed
    <3> QED
      BY <1>8, <1>9, <3>2
  <2>2. ASSUME NEW x \in T
        PROVE  g.idx[x] \in 0..(n - 1) /\ g.idx[x] # -1 /\ Mh!At(g, g.idx[x]) = x
    <3>1. h.idx[x] \in 0..(n - 1) /\ h.idx[x] # -1 /\ Mh!At(h, h.idx[x]) = x
      BY DEF Placed
    <3> QED
      BY <1>8, <1>9, <3>1
  <2> QED
    BY <2>1, <2>2 DEF Placed
<1>11. Sorted(g, n, -1, k)
  <2>1. ASSUME NEW i \in 1..(n - 1)
        PROVE  k[Mh!At(g, Mh!Parent(i))] <= k[Mh!At(g, i)] /\ Mh!Parent(i) # -1
    <3>1. k[Mh!At(h, Mh!Parent(i))] <= k[Mh!At(h, i)] /\ Mh!Parent(i) \in 0..(n - 1)
      BY SortedPair
    <3>2. i \in 0..(n - 1) /\ Mh!Parent(i) # -1
      BY <3>1
    <3> QED
      BY <1>8, <3>1, <3>2
  <2> QED
    BY <2>1 DEF Sorted
<1>12. \A x \in Events \ T : g.idx[x] = -1
  BY <1>6
<1> QED
  BY <1>5, <1>7, <1>10, <1>11, <1>12 DEF IsHeap

\* An event that is in its place stays.
LEMMA ShiftUpStays ==
  ASSUME NEW h, HeapType(h), NEW hole \in Nat, hole < Len(h.p), NEW e \in Events, NEW k \in [Events -> Int],
         Mh!At(h, hole) = e, h.idx[e] = hole,
         hole > 0 => k[Mh!At(h, Mh!Parent(hole))] <= k[e] /\ k[Mh!At(h, Mh!Parent(hole))] \in Int
  PROVE  Mh!ShiftUp(h, hole, e, k) = h
<1>1. PICK g : g = Mh!ShiftUp(h, hole, e, k)
  OBVIOUS
<1>2. PICK v \in Int : v = k[e]
  OBVIOUS
<1>3. PICK C : C = {i \in 1..hole : k[Mh!At(h, Mh!Parent(i))] > v}
  OBVIOUS
<1>4. PICK N : N = [i \in C |-> Mh!Parent(i)]
  OBVIOUS
<1>5. PICK R : R = [i \in 0..hole |-> i]
  OBVIOUS
<1>6. IsRise(h, hole, k, v, C, N, R)
  BY <1>3, <1>4, <1>5 DEF IsRise
<1>7. PICK D : D = 0..hole
  OBVIOUS
<1>8. PICK r : r = RiseOf(h, k, v, D)[hole]
  OBVIOUS
<1>9. IsPath(D, C, N, R, hole, r)
  BY <1>6, <1>7, <1>8, RiseIsPath
<1>10. hole \notin C
  BY <1>2, <1>3
<1>11. r.end = hole
  BY <1>9, <1>10 DEF IsPath
<1>12. r.moved = {}
  <2> SUFFICES ASSUME NEW j \in r.moved
               PROVE  FALSE
    OBVIOUS
  <2>1. R[r.end] < R[j] /\ R[j] <= R[hole] /\ j \in C
    BY <1>9 DEF IsPath
  <2>2. R[hole] = hole /\ R[j] = j /\ j \in Nat
    BY <1>3, <1>5, <2>1
  <2> QED
    BY <1>11, <2>1, <2>2
<1>13. PICK set : set = r.moved \cup {r.end}
  OBVIOUS
<1>14. PICK wide : wide = (IF hole = Len(h.p) THEN Mh!Place(h, hole, e) ELSE h)
  OBVIOUS
<1>15. UpWritten(g, h, hole, e, r, wide, set)
  <2>1. r = RiseOf(h, k, k[e], 0..hole)[hole]
    BY <1>2, <1>7, <1>8
  <2> QED
    BY <1>1, <1>13, <1>14, <2>1, UpUnfolds
<1>16. h.p \in Seq(Events) /\ h.idx \in [Events -> Int] /\ h = [p |-> h.p, idx |-> h.idx] /\ Len(h.p) \in Nat
  BY DEF HeapType
<1>17. wide = h /\ set = {hole}
  BY <1>11, <1>12, <1>13, <1>14, <1>16
<1>18. \A i \in set : UpWho(h, e, r, i) = e
  BY <1>11, <1>17 DEF UpWho
<1>19. g.p = [j \in 1..Len(h.p) |-> IF j - 1 \in set THEN UpWho(h, e, r, j - 1) ELSE h.p[j]]
  BY <1>15, <1>17 DEF UpWritten
<1>20. g.p = h.p
  <2>1. ASSUME NEW j \in 1..Len(h.p)
        PROVE  g.p[j] = h.p[j]
    <3>1. CASE j - 1 \in set
      <4>1. j - 1 = hole /\ h.p[hole + 1] = e /\ hole + 1 = j
        BY <1>16, <1>17, <3>1 DEF Mh!At
      <4> QED
        BY <1>18, <1>19, <3>1, <4>1
    <3>2. CASE j - 1 \notin set
      BY <1>19, <3>2
    <3> QED
      BY <3>1, <3>2
  <2>2. h.p = [j \in 1..Len(h.p) |-> h.p[j]]
    BY <1>16
  <2>3. g.p = [j \in 1..Len(h.p) |-> g.p[j]]
    BY <1>19
  <2> QED
    BY <2>1, <2>2, <2>3
<1>21. g.idx = [x \in Events |-> IF \E i \in set : UpWho(h, e, r, i) = x
                                THEN CHOOSE i \in set : UpWho(h, e, r, i) = x ELSE h.idx[x]]
  BY <1>15, <1>16 DEF UpWritten
<1>22. g.idx = h.idx
  <2>1. ASSUME NEW x \in Events
        PROVE  g.idx[x] = h.idx[x]
    <3>1. CASE x = e
      <4>1. \E i \in set : UpWho(h, e, r, i) = x
        BY <1>17, <1>18, <3>1
      <4>2. g.idx[x] = CHOOSE i \in set : UpWho(h, e, r, i) = x
        BY <1>21, <4>1
      <4>3. g.idx[x] \in set
        BY <4>1, <4>2
      <4> QED
        BY <1>17, <3>1, <4>3
    <3>2. CASE x # e
      BY <1>18, <1>21, <3>2
    <3> QED
      BY <3>1, <3>2
  <2>2. h.idx = [x \in Events |-> h.idx[x]]
    BY <1>16
  <2>3. g.idx = [x \in Events |-> g.idx[x]]
    BY <1>21
  <2> QED
    BY <2>1, <2>2, <2>3
<1>23. g = [p |-> g.p, idx |-> g.idx]
  BY <1>15 DEF UpWritten
<1> QED
  BY <1>1, <1>16, <1>20, <1>22, <1>23

\* A hole behind the events that count does not move down.
LEMMA ShiftDownStays ==
  ASSUME NEW h, HeapType(h), NEW n \in Nat, NEW e, NEW k
  PROVE  Mh!ShiftDown(h, n, n, e, k) = Mh!ShiftUp(h, n, e, k)
<1>1. PICK v : v = k[e]
  OBVIOUS
<1>2. PICK C : C = {i \in 0..n : 2 * (i + 1) <= n /\ v > k[Mh!At(h, Mh!MinChild(h, n, i, k))]}
  OBVIOUS
<1>3. PICK N : N = [i \in C |-> Mh!MinChild(h, n, i, k)]
  OBVIOUS
<1>4. PICK R : R = [i \in 0..n |-> n - i]
  OBVIOUS
<1>5. IsSink(h, n, k, v, C, N, R)
  BY <1>2, <1>3, <1>4 DEF IsSink
<1>6. PICK D : D = 0..n
  OBVIOUS
<1>7. PICK hole \in D : hole = n
  BY <1>6
<1>8. PICK r : r = SinkOf(h, n, k, v, D)[hole]
  OBVIOUS
<1>9. IsPath(D, C, N, R, hole, r)
  BY <1>5, <1>6, <1>8, SinkIsPath
<1>10. hole \notin C
  <2>1. ~(2 * (n + 1) <= n)
    OBVIOUS
  <2> QED
    BY <1>2, <1>7, <2>1
<1>11. r.end = hole
  BY <1>9, <1>10 DEF IsPath
<1>12. r.moved = {}
  <2> SUFFICES ASSUME NEW j \in r.moved
               PROVE  FALSE
    OBVIOUS
  <2>1. R[r.end] < R[j] /\ R[j] <= R[hole] /\ j \in C
    BY <1>9 DEF IsPath
  <2>2. R[hole] = n - hole /\ R[j] = n - j /\ j \in 0..n
    BY <1>2, <1>4, <1>6, <2>1
  <2> QED
    BY <1>7, <1>11, <2>1, <2>2
<1>13. PICK d : DownWritten(d, h, n, k, r)
  BY DEF DownWritten
<1>14. h.p \in Seq(Events) /\ h.idx \in [Events -> Int] /\ h = [p |-> h.p, idx |-> h.idx]
  BY DEF HeapType
<1>15. d = h
  <2>1. /\ d = [p |-> d.p, idx |-> d.idx]
        /\ d.p = [j \in 1..Len(h.p) |-> h.p[j]]
        /\ d.idx = [x \in DOMAIN h.idx |-> h.idx[x]]
    BY <1>12, <1>13 DEF DownWritten
  <2>2. h.p = [j \in 1..Len(h.p) |-> h.p[j]] /\ h.idx = [x \in DOMAIN h.idx |-> h.idx[x]]
    BY <1>14
  <2> QED
    BY <1>14, <2>1, <2>2
<1>16. r = SinkOf(h, n, k, k[e], 0..n)[n]
  BY <1>1, <1>6, <1>7, <1>8
<1>17. PICK g : g = Mh!ShiftDown(h, n, n, e, k)
  OBVIOUS
<1>18. g = Mh!ShiftUp(d, r.end, e, k)
  BY <1>13, <1>16, <1>17, DownUnfolds
<1> QED
  BY <1>7, <1>11, <1>15, <1>17, <1>18

\* min_heap_erase() when the event is the last one.
LEMMA EraseLast ==
  ASSUME NEW h, NEW S, NEW k \in [Events -> Int], IsHeap(h, S, k), NEW e \in S, NEW n \in Nat,
         Len(h.p) = n + 1, h.idx[e] = n, NEW g, g = Mh!Erase(h, e, k)
  PROVE  IsHeap(g, S \ {e}, k)
<1>1. /\ HeapType(h) /\ S \subseteq Events /\ IsFiniteSet(S) /\ Cardinality(S) = n + 1
      /\ Placed(h, n + 1, -1, S) /\ Sorted(h, n + 1, -1, k) /\ \A x \in Events \ S : h.idx[x] = -1
  BY DEF IsHeap
<1>2. e \in Events /\ Mh!At(h, n) = e
  BY <1>1 DEF Placed
<1>3. n > 0 => k[Mh!At(h, Mh!Parent(n))] <= k[e] /\ k[Mh!At(h, Mh!Parent(n))] \in Int
  <2> SUFFICES ASSUME n > 0
               PROVE  k[Mh!At(h, Mh!Parent(n))] <= k[e] /\ k[Mh!At(h, Mh!Parent(n))] \in Int
    OBVIOUS
  <2>1. PICK m \in Nat : m = n + 1
    OBVIOUS
  <2>2. PICK i \in 1..(m - 1) : i = n
    BY <2>1
  <2>3. k[Mh!At(h, Mh!Parent(i))] <= k[Mh!At(h, i)] /\ Mh!At(h, Mh!Parent(i)) \in S
    <3>1. Placed(h, m, -1, S) /\ Sorted(h, m, -1, k)
      BY <1>1, <2>1
    <3> QED
      BY <3>1, SortedPair
  <2> QED
    BY <1>1, <1>2, <2>2, <2>3
<1>4. Mh!ShiftUp(h, n, e, k) = h
  BY <1>1, <1>2, <1>3, ShiftUpStays
<1>5. Mh!ShiftDown(h, n, n, e, k) = h
  BY <1>1, <1>4, ShiftDownStays
<1>6. g = [p |-> SubSeq(h.p, 1, n), idx |-> [h.idx EXCEPT ![e] = -1]]
  <2>1. Len(h.p) - 1 = n
    OBVIOUS
  <2> QED
    BY <1>2, <1>5, <2>1 DEF Mh!Erase
<1>7. PICK T : T = S \ {e}
  OBVIOUS
<1>8. IsFiniteSet(T) /\ Cardinality(T) = n
  <2>1. IsFiniteSet(S \ {e}) /\ Cardinality(S \ {e}) = Cardinality(S) - 1
    BY <1>1, FS_RemoveElement
  <2> QED
    BY <1>1, <1>7, <2>1
<1>9. Placed(h, n, -1, T)
  <2>1. ASSUME NEW i \in 0..(n - 1)
        PROVE  Mh!At(h, i) \in T /\ h.idx[Mh!At(h, i)] = i
    <3>1. i \in 0..((n + 1) - 1) /\ i # -1 /\ i # n
      OBVIOUS
    <3>2. Mh!At(h, i) \in S /\ h.idx[Mh!At(h, i)] = i
      BY <1>1, <3>1 DEF Placed
    <3> QED
      BY <1>7, <3>1, <3>2
  <2>2. ASSUME NEW x \in T
        PROVE  h.idx[x] \in 0..(n - 1) /\ h.idx[x] # -1 /\ Mh!At(h, h.idx[x]) = x
    <3>1. h.idx[x] \in 0..((n + 1) - 1) /\ h.idx[x] # -1 /\ Mh!At(h, h.idx[x]) = x
      BY <1>1, <1>7 DEF Placed
    <3>2. h.idx[x] # n
      BY <1>2, <1>7, <3>1
    <3> QED
      BY <3>1, <3>2
  <2> QED
    BY <2>1, <2>2 DEF Placed
<1>10. Sorted(h, n, -1, k)
  <2>1. \A i \in 1..(n - 1) : i \in 1..((n + 1) - 1)
    OBVIOUS
  <2> QED
    BY <1>1, <2>1 DEF Sorted
<1>11. T \subseteq Events /\ e \notin T /\ \A x \in Events \ (T \cup {e}) : h.idx[x] = -1
  BY <1>1, <1>7
<1>12. IsHeap(g, T, k)
  BY <1>1, <1>2, <1>6, <1>8, <1>9, <1>10, <1>11, Truncates
<1> QED
  BY <1>7, <1>12

\* min_heap_erase() of another event.
LEMMA EraseInside ==
  ASSUME NEW h, NEW S, NEW k \in [Events -> Int], IsHeap(h, S, k), NEW e \in S, NEW n \in Nat,
         Len(h.p) = n + 1, h.idx[e] # n, NEW g, g = Mh!Erase(h, e, k)
  PROVE  IsHeap(g, S \ {e}, k)
<1>1. /\ HeapType(h) /\ S \subseteq Events /\ IsFiniteSet(S) /\ Cardinality(S) = n + 1
      /\ Placed(h, n + 1, -1, S) /\ Sorted(h, n + 1, -1, k) /\ \A x \in Events \ S : h.idx[x] = -1
  BY DEF IsHeap
<1>2. PICK m \in Nat : m = n + 1
  OBVIOUS
<1>3. Placed(h, m, -1, S) /\ Sorted(h, m, -1, k)
  BY <1>1, <1>2
<1>4. PICK hole \in 0..(n - 1) : hole = h.idx[e] /\ Mh!At(h, hole) = e
  <2>1. h.idx[e] \in 0..(m - 1) /\ Mh!At(h, h.idx[e]) = e
    BY <1>3 DEF Placed
  <2>2. h.idx[e] \in 0..(n - 1)
    BY <1>2, <2>1
  <2> QED
    BY <2>1, <2>2
<1>5. PICK last \in S : last = Mh!At(h, n) /\ h.idx[last] = n
  <2>1. n \in 0..(m - 1) /\ n # -1
    BY <1>2
  <2> QED
    BY <1>3, <2>1 DEF Placed
<1>6. last # e /\ e \in Events /\ last \in Events
  BY <1>1, <1>5
<1>7. PICK S0 : S0 = S \ {e, last}
  OBVIOUS
<1>8. Placed(h, n, hole, S0)
  <2>1. ASSUME NEW i \in 0..(n - 1), i # hole
        PROVE  Mh!At(h, i) \in S0 /\ h.idx[Mh!At(h, i)] = i
    <3>1. i \in 0..(m - 1) /\ i # -1 /\ i # n
      BY <1>2
    <3>2. Mh!At(h, i) \in S /\ h.idx[Mh!At(h, i)] = i
      BY <1>3, <3>1 DEF Placed
    <3> QED
      BY <1>4, <1>5, <1>7, <2>1, <3>1, <3>2
  <2>2. ASSUME NEW x \in S0
        PROVE  h.idx[x] \in 0..(n - 1) /\ h.idx[x] # hole /\ Mh!At(h, h.idx[x]) = x
    <3>1. h.idx[x] \in 0..(m - 1) /\ Mh!At(h, h.idx[x]) = x
      BY <1>3, <1>7 DEF Placed
    <3>2. h.idx[x] # n /\ h.idx[x] # hole
      BY <1>4, <1>5, <1>7, <3>1
    <3> QED
      BY <1>2, <3>1, <3>2
  <2> QED
    BY <2>1, <2>2 DEF Placed
<1>9. ASSUME NEW i \in 1..(m - 1)
      PROVE  /\ k[Mh!At(h, Mh!Parent(i))] <= k[Mh!At(h, i)]
             /\ k[Mh!At(h, Mh!Parent(i))] \in Int /\ k[Mh!At(h, i)] \in Int
  <2>1. k[Mh!At(h, Mh!Parent(i))] <= k[Mh!At(h, i)] /\ Mh!At(h, i) \in S /\ Mh!At(h, Mh!Parent(i)) \in S
    BY <1>3, SortedPair
  <2> QED
    BY <1>1, <2>1
<1>10. Sorted(h, n, hole, k)
  <2>1. ASSUME NEW i \in 1..(n - 1)
        PROVE  k[Mh!At(h, Mh!Parent(i))] <= k[Mh!At(h, i)]
    <3>1. i \in 1..(m - 1)
      BY <1>2
    <3> QED
      BY <1>9, <3>1
  <2>2. ASSUME NEW i \in 1..(n - 1), Mh!Parent(i) = hole, hole > 0
        PROVE  k[Mh!At(h, Mh!Parent(hole))] <= k[Mh!At(h, i)]
    <3>1. i \in 1..(m - 1) /\ hole \in 1..(m - 1)
      BY <1>2, <2>2
    <3>2. /\ k[Mh!At(h, hole)] <= k[Mh!At(h, i)] /\ k[Mh!At(h, hole)] \in Int /\ k[Mh!At(h, i)] \in Int
      BY <1>9, <2>2, <3>1
    <3>3. k[Mh!At(h, Mh!Parent(hole))] <= k[Mh!At(h, hole)] /\ k[Mh!At(h, Mh!Parent(hole))] \in Int
      BY <1>9, <3>1
    <3> QED
      BY <3>2, <3>3
  <2> QED
    BY <2>1, <2>2 DEF Sorted
<1>11. PICK f : f = Mh!ShiftDown(h, n, hole, last, k)
  OBVIOUS
<1>12. IsFilled(f, h, n, S0, last, k)
  <2>1. Len(h.p) >= n /\ S0 \subseteq Events /\ last \notin S0
    BY <1>1, <1>7
  <2> QED
    BY <1>1, <1>6, <1>8, <1>10, <1>11, <2>1, ShiftDownIs
<1>13. PICK T : T = S \ {e}
  OBVIOUS
<1>14. S0 \cup {last} = T
  BY <1>5, <1>6, <1>7, <1>13
<1>15. HeapType(f) /\ Len(f.p) = n + 1 /\ Placed(f, n, -1, T) /\ Sorted(f, n, -1, k)
  <2>1. HeapType(f) /\ Placed(f, n, -1, T) /\ Sorted(f, n, -1, k)
    BY <1>12, <1>14 DEF IsFilled
  <2>2. Len(f.p) = IF Len(h.p) >= n THEN Len(h.p) ELSE n
    BY <1>12 DEF IsFilled
  <2>3. Len(h.p) >= n
    OBVIOUS
  <2> QED
    BY <2>1, <2>2, <2>3
<1>16. \A x \in Events \ (T \cup {e}) : f.idx[x] = -1
  <2>1. \A x \in Events \ T : f.idx[x] = h.idx[x]
    BY <1>12, <1>14 DEF IsFilled
  <2> QED
    BY <1>1, <1>13, <2>1
<1>17. T \subseteq Events /\ e \notin T /\ IsFiniteSet(T) /\ Cardinality(T) = n
  <2>1. IsFiniteSet(S \ {e}) /\ Cardinality(S \ {e}) = Cardinality(S) - 1
    BY <1>1, FS_RemoveElement
  <2> QED
    BY <1>1, <1>13, <2>1
<1>18. g = [p |-> SubSeq(f.p, 1, n), idx |-> [f.idx EXCEPT ![e] = -1]]
  <2>1. Len(h.p) - 1 = n
    OBVIOUS
  <2> QED
    BY <1>4, <1>5, <1>11, <2>1 DEF Mh!Erase
<1>19. IsHeap(g, T, k)
  BY <1>6, <1>15, <1>16, <1>17, <1>18, Truncates
<1> QED
  BY <1>13, <1>19

\* min_heap_erase().
LEMMA EraseIs ==
  ASSUME NEW h, NEW S, NEW k \in [Events -> Int], IsHeap(h, S, k), NEW e \in S, NEW g, g = Mh!Erase(h, e, k)
  PROVE  IsHeap(g, S \ {e}, k)
<1>1. Len(h.p) \in Nat /\ h.idx[e] \in 0..(Len(h.p) - 1)
  BY DEF IsHeap, HeapType, Placed
<1>2. PICK n \in Nat : Len(h.p) = n + 1
  <2>1. Len(h.p) - 1 \in Nat /\ Len(h.p) = (Len(h.p) - 1) + 1
    BY <1>1
  <2> QED
    BY <2>1
<1> QED
  BY <1>2, EraseLast, EraseInside

\* The first event of a heap.
LEMMA TopIs ==
  ASSUME NEW h, NEW S, NEW k, IsHeap(h, S, k), S # {} \/ h.p # <<>>
  PROVE  Mh!Top(h) \in S /\ h.idx[Mh!Top(h)] = 0
<1>1. Len(h.p) \in Nat /\ h.p \in Seq(Events) /\ Placed(h, Len(h.p), -1, S)
  BY DEF IsHeap, HeapType
<1>2. Len(h.p) # 0
  <2>1. CASE S # {}
    <3>1. PICK x \in S : TRUE
      BY <2>1
    <3>2. h.idx[x] \in 0..(Len(h.p) - 1)
      BY <1>1 DEF Placed
    <3> QED
      BY <1>1, <3>2
  <2>2. CASE h.p # <<>>
    BY <1>1, <2>2, EmptySeq
  <2> QED
    BY <2>1, <2>2
<1>3. 0 \in 0..(Len(h.p) - 1) /\ 0 # -1
  BY <1>1, <1>2
<1> QED
  BY <1>1, <1>3 DEF Placed, Mh!Top

\* min_heap_pop() erases the first event.
LEMMA PopIs ==
  ASSUME NEW h, NEW S, NEW k \in [Events -> Int], IsHeap(h, S, k), S # {}, NEW g, g = Mh!Popped(h, k)
  PROVE  Mh!Top(h) \in S /\ IsHeap(g, S \ {Mh!Top(h)}, k)
<1>1. PICK e : e = Mh!Top(h)
  OBVIOUS
<1>2. e \in S /\ h.idx[e] = 0
  BY <1>1, TopIs
<1>3. g = Mh!Erase(h, e, k)
  BY <1>1, <1>2 DEF Mh!Popped, Mh!Erase
<1>4. IsHeap(g, S \ {e}, k)
  BY <1>2, <1>3, EraseIs
<1> QED
  BY <1>1, <1>2, <1>4

\* The heap of the module, its keys and its events.
HeapInv == mkey \in [Events -> Int] /\ IsHeap(mheap, mset, mkey)

mvars == <<mheap, mkey, mset>>

LEMMA HeapStarts ==
  ASSUME Mh!Init
  PROVE  HeapInv
<1>1. mheap.p = <<>> /\ mheap.idx = [e \in Events |-> -1] /\ mheap = [p |-> mheap.p, idx |-> mheap.idx]
      /\ mkey = [e \in Events |-> 1] /\ mset = {}
  BY DEF Mh!Init, Mh!EmptyHeap
<1>2. HeapType(mheap) /\ Len(mheap.p) = 0
  BY <1>1 DEF HeapType
<1>3. IsFiniteSet(mset) /\ Cardinality(mset) = 0
  BY <1>1, FS_EmptySet
<1>4. Placed(mheap, 0, -1, mset) /\ Sorted(mheap, 0, -1, mkey)
  BY <1>1 DEF Placed, Sorted
<1> QED
  BY <1>1, <1>2, <1>3, <1>4 DEF HeapInv, IsHeap

LEMMA HeapStep ==
  ASSUME HeapInv, [Mh!Next]_mvars
  PROVE  HeapInv'
<1>1. CASE UNCHANGED mvars
  BY <1>1 DEF mvars, HeapInv, IsHeap, HeapType, Placed, Sorted, Mh!At, Mh!Parent
<1>2. ASSUME NEW e \in Events, NEW k \in 1..MaxKey, Mh!PushEvent(e, k)
      PROVE  HeapInv'
  <2>1. e \notin mset /\ mkey' = [mkey EXCEPT ![e] = k] /\ mheap' = Mh!Push(mheap, e, mkey') /\ mset' = mset \cup {e}
    BY <1>2 DEF Mh!PushEvent
  <2>2. PICK l : l = mkey'
    OBVIOUS
  <2>3. l \in [Events -> Int] /\ \A x \in mset : l[x] = mkey[x]
    BY <2>1, <2>2 DEF HeapInv, IsHeap
  <2>4. IsHeap(mheap, mset, l)
    BY <2>3, OtherKeys DEF HeapInv
  <2>5. PICK g : g = Mh!Push(mheap, e, l)
    OBVIOUS
  <2>6. IsHeap(g, mset \cup {e}, l)
    BY <2>1, <2>3, <2>4, <2>5, PushIs
  <2>7. g = mheap' /\ l = mkey' /\ mset' = mset \cup {e}
    BY <2>1, <2>2, <2>5
  <2> QED
    BY <2>3, <2>6, <2>7 DEF HeapInv, IsHeap, HeapType, Placed, Sorted, Mh!At, Mh!Parent
<1>3. ASSUME NEW e \in Events, Mh!EraseEvent(e)
      PROVE  HeapInv'
  <2>1. e \in mset /\ mkey' = [mkey EXCEPT ![e] = 1] /\ mheap' = Mh!Erase(mheap, e, mkey) /\ mset' = mset \ {e}
    BY <1>3 DEF Mh!EraseEvent
  <2>2. PICK g : g = Mh!Erase(mheap, e, mkey)
    OBVIOUS
  <2>3. IsHeap(g, mset \ {e}, mkey)
    BY <2>1, <2>2, EraseIs DEF HeapInv
  <2>4. PICK l : l = mkey'
    OBVIOUS
  <2>5. l \in [Events -> Int] /\ \A x \in mset \ {e} : l[x] = mkey[x]
    BY <2>1, <2>4 DEF HeapInv, IsHeap
  <2>6. IsHeap(g, mset \ {e}, l)
    BY <2>3, <2>5, OtherKeys
  <2>7. g = mheap' /\ l = mkey' /\ mset' = mset \ {e}
    BY <2>1, <2>2, <2>4
  <2> QED
    BY <2>5, <2>6, <2>7 DEF HeapInv, IsHeap, HeapType, Placed, Sorted, Mh!At, Mh!Parent
<1>4. CASE Mh!Pop
  <2>1. PICK e : e = Mh!Top(mheap)
    OBVIOUS
  <2>2. mset # {} /\ mkey' = [mkey EXCEPT ![e] = 1] /\ mheap' = Mh!Popped(mheap, mkey) /\ mset' = mset \ {e}
    BY <1>4, <2>1 DEF Mh!Pop
  <2>3. PICK g : g = Mh!Popped(mheap, mkey)
    OBVIOUS
  <2>4. e \in mset /\ IsHeap(g, mset \ {e}, mkey)
    BY <2>1, <2>2, <2>3, PopIs DEF HeapInv
  <2>5. PICK l : l = mkey'
    OBVIOUS
  <2>6. l \in [Events -> Int] /\ \A x \in mset \ {e} : l[x] = mkey[x]
    BY <2>2, <2>4, <2>5 DEF HeapInv, IsHeap
  <2>7. IsHeap(g, mset \ {e}, l)
    BY <2>4, <2>6, OtherKeys
  <2>8. g = mheap' /\ l = mkey' /\ mset' = mset \ {e}
    BY <2>2, <2>3, <2>5
  <2> QED
    BY <2>6, <2>7, <2>8 DEF HeapInv, IsHeap, HeapType, Placed, Sorted, Mh!At, Mh!Parent
<1> QED
  BY <1>1, <1>2, <1>3, <1>4 DEF Mh!Next

(***************************************************************************)
(* For every number of events and every order of their timeouts,           *)
(* min_heap_push(), min_heap_erase() and min_heap_pop() keep a heap: no    *)
(* parent is later than its children, so that the first entry is the       *)
(* earliest timeout, and min_heap_idx of every event is its place, so that *)
(* an erase takes out the event it was asked for.                          *)
(***************************************************************************)
THEOREM HeapIsExact == Mh!Init /\ [][Mh!Next]_mvars => [](Mh!HeapOrdered /\ Mh!HeapIndexed)
<1>1. Mh!Init => HeapInv
  BY HeapStarts
<1>2. HeapInv /\ [Mh!Next]_mvars => HeapInv'
  BY HeapStep
<1>3. HeapInv => Mh!HeapOrdered /\ Mh!HeapIndexed
  <2> SUFFICES ASSUME HeapInv
               PROVE  Mh!HeapOrdered /\ Mh!HeapIndexed
    OBVIOUS
  <2>1. PICK n \in Nat : n = Len(mheap.p)
    BY DEF HeapInv, IsHeap, HeapType
  <2>2. Placed(mheap, n, -1, mset) /\ Sorted(mheap, n, -1, mkey) /\ n = Cardinality(mset)
        /\ \A x \in Events \ mset : mheap.idx[x] = -1
    BY <2>1 DEF HeapInv, IsHeap
  <2>3. \A i \in 1..(n - 1) : mkey[Mh!At(mheap, Mh!Parent(i))] <= mkey[Mh!At(mheap, i)]
    BY <2>2, SortedPair
  <2>4. Mh!HeapOrdered
    BY <2>1, <2>3 DEF Mh!HeapOrdered
  <2>5. \A e \in mset : mheap.idx[e] \in 0..(n - 1) /\ Mh!At(mheap, mheap.idx[e]) = e
    BY <2>2 DEF Placed
  <2>6. mset \subseteq Events
    BY <2>1 DEF HeapInv, IsHeap
  <2>7. Len(mheap.p) = Cardinality(mset)
    BY <2>1, <2>2
  <2>8. ASSUME NEW e \in Events
        PROVE  IF e \in mset THEN mheap.idx[e] \in 0..(Len(mheap.p) - 1) /\ Mh!At(mheap, mheap.idx[e]) = e
               ELSE mheap.idx[e] = -1
    BY <2>1, <2>2, <2>5
  <2>9. Mh!Cardinality(mset) = Cardinality(mset)
    BY DEF Mh!Cardinality, Cardinality
  <2>10. Mh!HeapIndexed
    BY <2>7, <2>8, <2>9 DEF Mh!HeapIndexed
  <2> QED
    BY <2>4, <2>10
<1> QED
  BY <1>1, <1>2, <1>3, PTL

-----------------------------------------------------------------------------
(* The event loop.                                                         *)

CONSTANTS Io, Signals, Persist, Exit, Pushed, NPri, Pri, Delays, MaxTime, MaxLag, MaxCalls, MaxLoops,
          Monotonic

VARIABLES base, pc, flag, until, queue, cur, left, gotterm, brk, clock, cache, event_tv, budget, loops,
          armed, since, faults

Eb == INSTANCE EventBase

\* s lists the events S, each of them once.
ListOf(s, S) == /\ s \in Seq(Events)
                /\ \A i \in 1..Len(s) : s[i] \in S
                /\ \A i, j \in 1..Len(s) : s[i] = s[j] => i = j
                /\ \A e \in S : \E i \in 1..Len(s) : s[i] = e

\* Counting is the same in every module.
LEMMA SameCount ==
  ASSUME NEW S
  PROVE  Eb!Cardinality(S) = Cardinality(S) /\ Eb!H!Cardinality(S) = Cardinality(S)
BY DEF Eb!Cardinality, Eb!H!Cardinality, Cardinality

\* TAILQ_REMOVE().
LEMMA ListWithout ==
  ASSUME NEW s, NEW S, ListOf(s, S), NEW e \in S, NEW t, t = Eb!Without(s, e)
  PROVE  ListOf(t, S \ {e})
<1>1. PICK k : k = CHOOSE i \in DOMAIN s : s[i] = e
  OBVIOUS
<1>2. PICK n : n = Len(s)
  OBVIOUS
<1>3. n \in Nat /\ DOMAIN s = 1..n /\ \A i \in 1..n : s[i] \in S /\ s[i] \in Events
  BY <1>2 DEF ListOf
<1>4. k \in 1..n /\ s[k] = e
  BY <1>1, <1>2, <1>3 DEF ListOf
<1>5. t = [i \in 1..(n - 1) |-> IF i < k THEN s[i] ELSE s[i + 1]]
  BY <1>1, <1>2 DEF Eb!Without
<1>6. n - 1 \in Nat /\ \A i \in 1..(n - 1) : i \in 1..n /\ i + 1 \in 1..n
  BY <1>3, <1>4
<1>7. \A i, j \in 1..n : s[i] = s[j] => i = j
  BY <1>2 DEF ListOf
<1>8. t \in Seq(Events)
  <2>1. t \in [1..(n - 1) -> Events]
    BY <1>3, <1>5, <1>6
  <2> QED
    BY <1>6, <2>1
<1>9. Len(t) = n - 1 /\ \A i \in 1..(n - 1) : t[i] = IF i < k THEN s[i] ELSE s[i + 1]
  BY <1>5, <1>6
<1>10. ASSUME NEW i \in 1..(n - 1)
       PROVE  \E a \in 1..n : t[i] = s[a] /\ a # k /\ a = (IF i < k THEN i ELSE i + 1)
  <2>1. CASE i < k
    BY <1>4, <1>6, <1>9, <2>1
  <2>2. CASE ~(i < k)
    <3>1. i + 1 \in 1..n /\ i + 1 # k
      BY <1>4, <1>6, <2>2
    <3> QED
      BY <1>9, <2>2, <3>1
  <2> QED
    BY <2>1, <2>2
<1>11. \A i \in 1..(n - 1) : t[i] \in S \ {e}
  BY <1>3, <1>4, <1>7, <1>10
<1>12. ASSUME NEW i \in 1..(n - 1), NEW j \in 1..(n - 1), t[i] = t[j]
       PROVE  i = j
  <2>1. PICK a \in 1..n : t[i] = s[a] /\ a = (IF i < k THEN i ELSE i + 1) /\ a # k
    BY <1>10
  <2>2. PICK c \in 1..n : t[j] = s[c] /\ c = (IF j < k THEN j ELSE j + 1) /\ c # k
    BY <1>10
  <2>3. a = c
    BY <1>7, <1>12, <2>1, <2>2
  <2> QED
    BY <1>3, <1>4, <2>1, <2>2, <2>3
<1>13. ASSUME NEW x \in S \ {e}
       PROVE  \E i \in 1..(n - 1) : t[i] = x
  <2>1. PICK a \in 1..n : s[a] = x
    BY <1>2 DEF ListOf
  <2>2. a # k
    BY <1>4, <2>1
  <2>3. CASE a < k
    <3>1. a \in 1..(n - 1)
      BY <1>3, <1>4, <2>3
    <3> QED
      BY <1>9, <2>1, <2>3, <3>1
  <2>4. CASE a > k
    <3>1. a - 1 \in 1..(n - 1) /\ ~(a - 1 < k) /\ (a - 1) + 1 = a
      BY <1>3, <1>4, <2>4
    <3>2. t[a - 1] = x
      BY <1>9, <2>1, <3>1
    <3> QED
      BY <3>1, <3>2
  <2> QED
    BY <1>3, <1>4, <2>2, <2>3, <2>4
<1> QED
  BY <1>8, <1>9, <1>11, <1>12, <1>13 DEF ListOf

\* TAILQ_INSERT_TAIL().
LEMMA ListWith ==
  ASSUME NEW s, NEW S, ListOf(s, S), NEW e \in Events, e \notin S
  PROVE  ListOf(Append(s, e), S \cup {e})
<1>1. PICK n \in Nat : n = Len(s)
  BY DEF ListOf
<1>2. PICK t : t = Append(s, e)
  OBVIOUS
<1>3. t \in Seq(Events) /\ Len(t) = n + 1 /\ t[n + 1] = e /\ \A i \in 1..n : t[i] = s[i]
  BY <1>1, <1>2 DEF ListOf
<1>4. /\ \A i \in 1..n : s[i] \in S
      /\ \A i, j \in 1..n : s[i] = s[j] => i = j
      /\ \A x \in S : \E i \in 1..n : s[i] = x
  BY <1>1 DEF ListOf
<1>5. \A i \in 1..(n + 1) : i = n + 1 \/ i \in 1..n
  OBVIOUS
<1>6. \A i \in 1..n : i \in 1..(n + 1)
  OBVIOUS
<1>7. n + 1 \in 1..(n + 1)
  OBVIOUS
<1>8. \A i \in 1..(n + 1) : t[i] \in S \cup {e}
  BY <1>3, <1>4, <1>5
<1>9. \A i, j \in 1..(n + 1) : t[i] = t[j] => i = j
  BY <1>3, <1>4, <1>5
<1>10. \A x \in S \cup {e} : \E i \in 1..(n + 1) : t[i] = x
  BY <1>3, <1>4, <1>6, <1>7
<1>11. ListOf(t, S \cup {e})
  BY <1>3, <1>8, <1>9, <1>10 DEF ListOf
<1> QED
  BY <1>2, <1>11

\* An order of finitely many events lists them.
LEMMA OrderLists ==
  ASSUME NEW T, T \subseteq Events, IsFiniteSet(T), NEW f \in Eb!SetToSeqs(T)
  PROVE  ListOf(f, T)
<1>1. PICK n : n = Cardinality(T)
  OBVIOUS
<1>2. n \in Nat
  BY <1>1, FS_CardinalityType
<1>3. f \in [1..n -> T] /\ \A i, j \in 1..n : i # j => f[i] # f[j]
  BY <1>1, SameCount DEF Eb!SetToSeqs
<1>4. f \in Seq(Events) /\ Len(f) = n
  BY <1>2, <1>3
<1>5. Cardinality(1..n) = n
  BY <1>2, FS_Interval
<1>6. f \in Injection(1..n, T)
  BY <1>3 DEF Injection, IsInjective
<1>7. f \in Surjection(1..n, T)
  BY <1>1, <1>5, <1>6, FS_Injection
<1>8. \A e \in T : \E i \in 1..n : f[i] = e
  BY <1>7 DEF Surjection
<1> QED
  BY <1>3, <1>4, <1>8 DEF ListOf

\* Two lists, one after the other.
LEMMA ListJoin ==
  ASSUME NEW s, NEW S, ListOf(s, S), NEW t, NEW T, ListOf(t, T), S \cap T = {}
  PROVE  ListOf(s \o t, S \cup T)
<1>1. PICK m \in Nat, n \in Nat : m = Len(s) /\ n = Len(t)
  BY DEF ListOf
<1>2. PICK r : r = s \o t
  OBVIOUS
<1>3. r \in Seq(Events) /\ Len(r) = m + n /\ \A i \in 1..(m + n) : r[i] = IF i <= m THEN s[i] ELSE t[i - m]
  BY <1>1, <1>2, ConcatProperties DEF ListOf
<1>4. /\ \A i \in 1..m : s[i] \in S
      /\ \A i, j \in 1..m : s[i] = s[j] => i = j
      /\ \A x \in S : \E i \in 1..m : s[i] = x
  BY <1>1 DEF ListOf
<1>5. /\ \A i \in 1..n : t[i] \in T
      /\ \A i, j \in 1..n : t[i] = t[j] => i = j
      /\ \A x \in T : \E i \in 1..n : t[i] = x
  BY <1>1 DEF ListOf
<1>6. ASSUME NEW i \in 1..(m + n)
      PROVE  \/ i \in 1..m /\ r[i] = s[i] /\ r[i] \in S
             \/ i - m \in 1..n /\ i > m /\ r[i] = t[i - m] /\ r[i] \in T
  <2>1. CASE i <= m
    <3>1. i \in 1..m
      BY <2>1
    <3> QED
      BY <1>3, <1>4, <2>1, <3>1
  <2>2. CASE ~(i <= m)
    <3>1. i - m \in 1..n /\ i > m
      BY <2>2
    <3> QED
      BY <1>3, <1>5, <2>2, <3>1
  <2> QED
    BY <2>1, <2>2
<1>7. \A i \in 1..(m + n) : r[i] \in S \cup T
  BY <1>6
<1>8. ASSUME NEW i \in 1..(m + n), NEW j \in 1..(m + n), r[i] = r[j]
      PROVE  i = j
  <2>1. CASE i \in 1..m /\ r[i] = s[i] /\ r[i] \in S
    <3>1. j \in 1..m /\ r[j] = s[j]
      BY <1>6, <1>8, <2>1
    <3> QED
      BY <1>4, <1>8, <2>1, <3>1
  <2>2. CASE i - m \in 1..n /\ i > m /\ r[i] = t[i - m] /\ r[i] \in T
    <3>1. j - m \in 1..n /\ r[j] = t[j - m]
      BY <1>6, <1>8, <2>2
    <3>2. i - m = j - m
      BY <1>5, <1>8, <2>2, <3>1
    <3> QED
      BY <3>2
  <2> QED
    BY <1>6, <2>1, <2>2
<1>9. ASSUME NEW x \in S \cup T
      PROVE  \E i \in 1..(m + n) : r[i] = x
  <2>1. CASE x \in S
    <3>1. PICK i \in 1..m : s[i] = x
      BY <1>4, <2>1
    <3>2. i \in 1..(m + n) /\ i <= m
      OBVIOUS
    <3> QED
      BY <1>3, <3>1, <3>2
  <2>2. CASE x \in T
    <3>1. PICK i \in 1..n : t[i] = x
      BY <1>5, <2>2
    <3>2. i + m \in 1..(m + n) /\ ~(i + m <= m) /\ (i + m) - m = i
      OBVIOUS
    <3>3. r[i + m] = x
      BY <1>3, <3>1, <3>2
    <3> QED
      BY <3>2, <3>3
  <2> QED
    BY <2>1, <2>2
<1>10. ListOf(r, S \cup T)
  BY <1>3, <1>7, <1>8, <1>9 DEF ListOf
<1> QED
  BY <1>2, <1>10

\* The first of a list, and how often an event is in it.
LEMMA ListFirst ==
  ASSUME NEW s, NEW S, ListOf(s, S)
  PROVE  (s = <<>> <=> S = {}) /\ (s # <<>> => Head(s) \in S)
<1>1. PICK n \in Nat : n = Len(s)
  BY DEF ListOf
<1>2. s = <<>> => S = {}
  BY DEF ListOf
<1>3. ASSUME s # <<>>
      PROVE  Head(s) \in S
  <2>1. Len(s) # 0 /\ s \in Seq(Events)
    BY <1>3 DEF ListOf
  <2>2. 1 \in 1..Len(s) /\ Head(s) = s[1]
    BY <1>1, <1>3, <2>1
  <2> QED
    BY <2>2 DEF ListOf
<1> QED
  BY <1>2, <1>3

LEMMA ListOnce ==
  ASSUME NEW s, NEW S, ListOf(s, S), NEW e
  PROVE  Eb!Once(s, e) = IF e \in S THEN 1 ELSE 0
<1>1. PICK D : D = {i \in DOMAIN s : s[i] = e}
  OBVIOUS
<1>2. Eb!Once(s, e) = Cardinality(D)
  BY <1>1, SameCount DEF Eb!Once
<1>3. DOMAIN s = 1..Len(s)
  BY DEF ListOf
<1>4. CASE e \in S
  <2>1. PICK i \in 1..Len(s) : s[i] = e
    BY <1>4 DEF ListOf
  <2>2. D = {i}
    BY <1>1, <1>3, <2>1 DEF ListOf
  <2> QED
    BY <1>2, <1>4, <2>2, FS_Singleton
<1>5. CASE e \notin S
  <2>1. D = {}
    BY <1>1, <1>3, <1>5 DEF ListOf
  <2> QED
    BY <1>2, <1>5, <2>1, FS_EmptySet
<1> QED
  BY <1>4, <1>5

-----------------------------------------------------------------------------
(* The functions on the base.                                              *)

Flg(b, q) == {e \in Events : q \in b.flags[e]}
Waiting(b, i) == {e \in Events : "active" \in b.flags[e] /\ Pri[e] = i}
Pris == 0..(NPri - 1)

BaseShape(b) ==
  /\ b = [flags |-> b.flags, eventqueue |-> b.eventqueue, activequeues |-> b.activequeues,
          timeheap |-> b.timeheap, timeout |-> b.timeout, res |-> b.res, ncalls |-> b.ncalls,
          pncalls |-> b.pncalls, count |-> b.count, count_active |-> b.count_active]
  /\ b.flags \in [Events -> SUBSET {"inserted", "active", "timeout"}]
  /\ b.timeout \in [Events -> Int]
  /\ b.ncalls \in [Events -> 0..2] /\ b.pncalls \in [Events -> BOOLEAN]
  /\ b.activequeues = [i \in Pris |-> b.activequeues[i]]

\* Every list holds the events that its flag names, and the heap is one.
BaseLists(b) == /\ ListOf(b.eventqueue, Flg(b, "inserted"))
                /\ \A i \in Pris : ListOf(b.activequeues[i], Waiting(b, i))
                /\ IsHeap(b.timeheap, Flg(b, "timeout"), b.timeout)

\* The counters count the flags.
BaseCounts(b) ==
  /\ IsFiniteSet(Flg(b, "inserted")) /\ IsFiniteSet(Flg(b, "active")) /\ IsFiniteSet(Flg(b, "timeout"))
  /\ b.count_active = Cardinality(Flg(b, "active"))
  /\ b.count = Cardinality(Flg(b, "inserted")) + Cardinality(Flg(b, "timeout")) + b.count_active

Good(b) == BaseShape(b) /\ BaseLists(b) /\ BaseCounts(b)

\* The fields that are not about the lists are the same.
SameFields(c, b) == c.timeout = b.timeout /\ c.res = b.res /\ c.ncalls = b.ncalls /\ c.pncalls = b.pncalls

\* c is b after e has left, or joined, what q names.
IsRemoved(c, b, e, q) == Good(c) /\ SameFields(c, b) /\ c.flags = [b.flags EXCEPT ![e] = @ \ {q}]
IsInserted(c, b, e, q) == Good(c) /\ SameFields(c, b) /\ c.flags = [b.flags EXCEPT ![e] = @ \cup {q}]

\* The heap of the base is a heap of MinHeap.
LEMMA SameHeap ==
  ASSUME NEW h, NEW e, NEW k
  PROVE  Eb!H!Push(h, e, k) = Mh!Push(h, e, k) /\ Eb!H!Erase(h, e, k) = Mh!Erase(h, e, k)
         /\ Eb!H!Top(h) = Mh!Top(h)
BY DEF Eb!H!Push, Eb!H!Erase, Eb!H!Top, Eb!H!ShiftUp, Eb!H!ShiftDown, Eb!H!ShiftUpAfterDown, Eb!H!MinChild,
       Eb!H!Parent, Eb!H!At, Eb!H!Place, Mh!Push, Mh!Erase, Mh!Top, Mh!ShiftUp, Mh!ShiftDown,
       Mh!ShiftUpAfterDown, Mh!MinChild, Mh!Parent, Mh!At, Mh!Place

\* event_queue_remove().
LEMMA RemoveIs ==
  ASSUME NEW b, BaseShape(b), NEW e \in Events, NEW q \in {"inserted", "active", "timeout"}, Pri[e] \in Pris,
         NEW c, c = Eb!QueueRemove(b, e, q)
  PROVE  c = [flags |-> [b.flags EXCEPT ![e] = @ \ {q}],
              eventqueue |-> IF q = "inserted" THEN Eb!Without(b.eventqueue, e) ELSE b.eventqueue,
              activequeues |-> IF q = "active"
                               THEN [b.activequeues EXCEPT ![Pri[e]] = Eb!Without(b.activequeues[Pri[e]], e)]
                               ELSE b.activequeues,
              timeheap |-> IF q = "timeout" THEN Mh!Erase(b.timeheap, e, b.timeout) ELSE b.timeheap,
              timeout |-> b.timeout, res |-> b.res, ncalls |-> b.ncalls, pncalls |-> b.pncalls,
              count |-> b.count - 1,
              count_active |-> IF q = "active" THEN b.count_active - 1 ELSE b.count_active]
<1>1. PICK d : d = [b EXCEPT !.count = @ - 1, !.flags[e] = @ \ {q}]
  OBVIOUS
<1>2. d = [flags |-> [b.flags EXCEPT ![e] = @ \ {q}], eventqueue |-> b.eventqueue,
           activequeues |-> b.activequeues, timeheap |-> b.timeheap, timeout |-> b.timeout, res |-> b.res,
           ncalls |-> b.ncalls, pncalls |-> b.pncalls, count |-> b.count - 1, count_active |-> b.count_active]
  BY <1>1 DEF BaseShape
<1>3. CASE q = "inserted"
  <2>1. c = [d EXCEPT !.eventqueue = Eb!Without(@, e)]
    BY <1>1, <1>3 DEF Eb!QueueRemove
  <2> QED
    BY <1>2, <1>3, <2>1
<1>4. CASE q = "active"
  <2>1. c = [d EXCEPT !.count_active = @ - 1, !.activequeues[Pri[e]] = Eb!Without(@, e)]
    BY <1>1, <1>4 DEF Eb!QueueRemove
  <2> QED
    BY <1>2, <1>4, <2>1
<1>5. CASE q = "timeout"
  <2>1. c = [d EXCEPT !.timeheap = Eb!H!Erase(@, e, b.timeout)]
    BY <1>1, <1>5 DEF Eb!QueueRemove
  <2>2. Eb!H!Erase(b.timeheap, e, b.timeout) = Mh!Erase(b.timeheap, e, b.timeout)
    BY SameHeap
  <2> QED
    BY <1>2, <1>5, <2>1, <2>2
<1> QED
  BY <1>3, <1>4, <1>5

\* event_queue_insert().
LEMMA InsertIs ==
  ASSUME NEW b, BaseShape(b), NEW e \in Events, NEW q \in {"inserted", "active", "timeout"}, Pri[e] \in Pris,
         NEW c, c = Eb!QueueInsert(b, e, q)
  PROVE  c = [flags |-> [b.flags EXCEPT ![e] = @ \cup {q}],
              eventqueue |-> IF q = "inserted" THEN Append(b.eventqueue, e) ELSE b.eventqueue,
              activequeues |-> IF q = "active"
                               THEN [b.activequeues EXCEPT ![Pri[e]] = Append(b.activequeues[Pri[e]], e)]
                               ELSE b.activequeues,
              timeheap |-> IF q = "timeout" THEN Mh!Push(b.timeheap, e, b.timeout) ELSE b.timeheap,
              timeout |-> b.timeout, res |-> b.res, ncalls |-> b.ncalls, pncalls |-> b.pncalls,
              count |-> b.count + 1,
              count_active |-> IF q = "active" THEN b.count_active + 1 ELSE b.count_active]
<1>1. PICK d : d = [b EXCEPT !.count = @ + 1, !.flags[e] = @ \cup {q}]
  OBVIOUS
<1>2. d = [flags |-> [b.flags EXCEPT ![e] = @ \cup {q}], eventqueue |-> b.eventqueue,
           activequeues |-> b.activequeues, timeheap |-> b.timeheap, timeout |-> b.timeout, res |-> b.res,
           ncalls |-> b.ncalls, pncalls |-> b.pncalls, count |-> b.count + 1, count_active |-> b.count_active]
  BY <1>1 DEF BaseShape
<1>3. CASE q = "inserted"
  <2>1. c = [d EXCEPT !.eventqueue = Append(@, e)]
    BY <1>1, <1>3 DEF Eb!QueueInsert
  <2> QED
    BY <1>2, <1>3, <2>1
<1>4. CASE q = "active"
  <2>1. c = [d EXCEPT !.count_active = @ + 1, !.activequeues[Pri[e]] = Append(@, e)]
    BY <1>1, <1>4 DEF Eb!QueueInsert
  <2> QED
    BY <1>2, <1>4, <2>1
<1>5. CASE q = "timeout"
  <2>1. c = [d EXCEPT !.timeheap = Eb!H!Push(@, e, b.timeout)]
    BY <1>1, <1>5 DEF Eb!QueueInsert
  <2>2. Eb!H!Push(b.timeheap, e, b.timeout) = Mh!Push(b.timeheap, e, b.timeout)
    BY SameHeap
  <2> QED
    BY <1>2, <1>5, <2>1, <2>2
<1> QED
  BY <1>3, <1>4, <1>5

\* What an event is removed from, it is in no longer; the rest is as before.
LEMMA RemoveGood ==
  ASSUME NEW b, Good(b), NEW e \in Events, NEW q \in {"inserted", "active", "timeout"}, q \in b.flags[e],
         Pri[e] \in Pris, NEW c, c = Eb!QueueRemove(b, e, q)
  PROVE  IsRemoved(c, b, e, q)
<1>1. BaseShape(b) /\ BaseLists(b) /\ BaseCounts(b)
  BY DEF Good
<1>2. c = [flags |-> [b.flags EXCEPT ![e] = @ \ {q}],
           eventqueue |-> IF q = "inserted" THEN Eb!Without(b.eventqueue, e) ELSE b.eventqueue,
           activequeues |-> IF q = "active"
                            THEN [b.activequeues EXCEPT ![Pri[e]] = Eb!Without(b.activequeues[Pri[e]], e)]
                            ELSE b.activequeues,
           timeheap |-> IF q = "timeout" THEN Mh!Erase(b.timeheap, e, b.timeout) ELSE b.timeheap,
           timeout |-> b.timeout, res |-> b.res, ncalls |-> b.ncalls, pncalls |-> b.pncalls,
           count |-> b.count - 1,
           count_active |-> IF q = "active" THEN b.count_active - 1 ELSE b.count_active]
  BY <1>1, RemoveIs
<1>3. /\ c.flags = [b.flags EXCEPT ![e] = @ \ {q}]
      /\ c.eventqueue = (IF q = "inserted" THEN Eb!Without(b.eventqueue, e) ELSE b.eventqueue)
      /\ c.activequeues = (IF q = "active"
                           THEN [b.activequeues EXCEPT ![Pri[e]] = Eb!Without(b.activequeues[Pri[e]], e)]
                           ELSE b.activequeues)
      /\ c.timeheap = (IF q = "timeout" THEN Mh!Erase(b.timeheap, e, b.timeout) ELSE b.timeheap)
      /\ c.count = b.count - 1
      /\ c.count_active = (IF q = "active" THEN b.count_active - 1 ELSE b.count_active)
      /\ SameFields(c, b)
  BY <1>2 DEF SameFields
<1>4. /\ b.flags \in [Events -> SUBSET {"inserted", "active", "timeout"}]
      /\ b.activequeues = [i \in Pris |-> b.activequeues[i]] /\ b.timeout \in [Events -> Int]
  BY <1>1 DEF BaseShape
<1>5. c.flags \in [Events -> SUBSET {"inserted", "active", "timeout"}] /\ c.activequeues = [i \in Pris |-> c.activequeues[i]]
  <2>1. c.flags \in [Events -> SUBSET {"inserted", "active", "timeout"}]
    BY <1>3, <1>4
  <2>2. c.activequeues = [i \in Pris |-> c.activequeues[i]]
    BY <1>3, <1>4
  <2> QED
    BY <2>1, <2>2
<1>6. BaseShape(c)
  <2>1. c = [flags |-> c.flags, eventqueue |-> c.eventqueue, activequeues |-> c.activequeues,
             timeheap |-> c.timeheap, timeout |-> c.timeout, res |-> c.res, ncalls |-> c.ncalls,
             pncalls |-> c.pncalls, count |-> c.count, count_active |-> c.count_active]
    BY <1>2
  <2> QED
    BY <1>1, <1>3, <1>5, <2>1 DEF BaseShape, SameFields
<1>7. /\ Flg(c, q) = Flg(b, q) \ {e} /\ e \in Flg(b, q)
      /\ \A p : p # q => Flg(c, p) = Flg(b, p)
      /\ \A i \in Pris : Waiting(c, i) = IF q = "active" /\ i = Pri[e] THEN Waiting(b, i) \ {e} ELSE Waiting(b, i)
  BY <1>3, <1>4 DEF Flg, Waiting
<1>8. BaseLists(c)
  <2>1. ListOf(c.eventqueue, Flg(c, "inserted"))
    <3>1. CASE q = "inserted"
      BY <1>1, <1>3, <1>7, <3>1, ListWithout DEF BaseLists
    <3>2. CASE q # "inserted"
      BY <1>1, <1>3, <1>7, <3>2 DEF BaseLists
    <3> QED
      BY <3>1, <3>2
  <2>2. ASSUME NEW i \in Pris
        PROVE  ListOf(c.activequeues[i], Waiting(c, i))
    <3>1. CASE q = "active" /\ i = Pri[e]
      <4>1. c.activequeues[i] = Eb!Without(b.activequeues[i], e)
        BY <1>3, <1>4, <3>1
      <4>2. e \in Waiting(b, i) /\ ListOf(b.activequeues[i], Waiting(b, i))
        BY <1>1, <3>1 DEF BaseLists, Waiting
      <4> QED
        BY <1>7, <3>1, <4>1, <4>2, ListWithout
    <3>2. CASE ~(q = "active" /\ i = Pri[e])
      <4>1. c.activequeues[i] = b.activequeues[i]
        BY <1>3, <1>4, <3>2
      <4> QED
        BY <1>1, <1>7, <3>2, <4>1 DEF BaseLists
    <3> QED
      BY <3>1, <3>2
  <2>3. IsHeap(c.timeheap, Flg(c, "timeout"), c.timeout)
    <3>1. IsHeap(b.timeheap, Flg(b, "timeout"), b.timeout) /\ c.timeout = b.timeout
      BY <1>1, <1>3 DEF BaseLists, SameFields
    <3>2. CASE q = "timeout"
      BY <1>3, <1>4, <1>7, <3>1, <3>2, EraseIs
    <3>3. CASE q # "timeout"
      BY <1>3, <1>7, <3>1, <3>3
    <3> QED
      BY <3>2, <3>3
  <2> QED
    BY <2>1, <2>2, <2>3 DEF BaseLists
<1>9. BaseCounts(c)
  <2>1. IsFiniteSet(Flg(b, q))
    BY <1>1 DEF BaseCounts
  <2>2. IsFiniteSet(Flg(b, q) \ {e}) /\ Cardinality(Flg(b, q) \ {e}) = Cardinality(Flg(b, q)) - 1
    BY <1>7, <2>1, FS_RemoveElement
  <2>3. Cardinality(Flg(b, "inserted")) \in Nat /\ Cardinality(Flg(b, "active")) \in Nat
        /\ Cardinality(Flg(b, "timeout")) \in Nat
    BY <1>1, FS_CardinalityType DEF BaseCounts
  <2>4. IsFiniteSet(Flg(c, q)) /\ Cardinality(Flg(c, q)) = Cardinality(Flg(b, q)) - 1
    BY <1>7, <2>2
  <2>5. /\ IsFiniteSet(Flg(b, "inserted")) /\ IsFiniteSet(Flg(b, "active")) /\ IsFiniteSet(Flg(b, "timeout"))
        /\ b.count_active = Cardinality(Flg(b, "active"))
        /\ b.count = Cardinality(Flg(b, "inserted")) + Cardinality(Flg(b, "timeout")) + b.count_active
    BY <1>1 DEF BaseCounts
  <2>6. CASE q = "inserted"
    <3>1. Flg(c, "active") = Flg(b, "active") /\ Flg(c, "timeout") = Flg(b, "timeout")
      BY <1>7, <2>6
    <3> QED
      BY <1>3, <2>3, <2>4, <2>5, <2>6, <3>1 DEF BaseCounts
  <2>7. CASE q = "active"
    <3>1. Flg(c, "inserted") = Flg(b, "inserted") /\ Flg(c, "timeout") = Flg(b, "timeout")
      BY <1>7, <2>7
    <3> QED
      BY <1>3, <2>3, <2>4, <2>5, <2>7, <3>1 DEF BaseCounts
  <2>8. CASE q = "timeout"
    <3>1. Flg(c, "inserted") = Flg(b, "inserted") /\ Flg(c, "active") = Flg(b, "active")
      BY <1>7, <2>8
    <3> QED
      BY <1>3, <2>3, <2>4, <2>5, <2>8, <3>1 DEF BaseCounts
  <2> QED
    BY <2>6, <2>7, <2>8
<1> QED
  BY <1>3, <1>6, <1>8, <1>9 DEF Good, IsRemoved

\* An event is inserted where it was not; the rest is as before.
LEMMA InsertGood ==
  ASSUME NEW b, Good(b), NEW e \in Events, NEW q \in {"inserted", "active", "timeout"}, q \notin b.flags[e],
         Pri[e] \in Pris, NEW c, c = Eb!QueueInsert(b, e, q)
  PROVE  IsInserted(c, b, e, q)
<1>1. BaseShape(b) /\ BaseLists(b) /\ BaseCounts(b)
  BY DEF Good
<1>2. c = [flags |-> [b.flags EXCEPT ![e] = @ \cup {q}],
           eventqueue |-> IF q = "inserted" THEN Append(b.eventqueue, e) ELSE b.eventqueue,
           activequeues |-> IF q = "active"
                            THEN [b.activequeues EXCEPT ![Pri[e]] = Append(b.activequeues[Pri[e]], e)]
                            ELSE b.activequeues,
           timeheap |-> IF q = "timeout" THEN Mh!Push(b.timeheap, e, b.timeout) ELSE b.timeheap,
           timeout |-> b.timeout, res |-> b.res, ncalls |-> b.ncalls, pncalls |-> b.pncalls,
           count |-> b.count + 1,
           count_active |-> IF q = "active" THEN b.count_active + 1 ELSE b.count_active]
  BY <1>1, InsertIs
<1>3. /\ c.flags = [b.flags EXCEPT ![e] = @ \cup {q}]
      /\ c.eventqueue = (IF q = "inserted" THEN Append(b.eventqueue, e) ELSE b.eventqueue)
      /\ c.activequeues = (IF q = "active"
                           THEN [b.activequeues EXCEPT ![Pri[e]] = Append(b.activequeues[Pri[e]], e)]
                           ELSE b.activequeues)
      /\ c.timeheap = (IF q = "timeout" THEN Mh!Push(b.timeheap, e, b.timeout) ELSE b.timeheap)
      /\ c.count = b.count + 1
      /\ c.count_active = (IF q = "active" THEN b.count_active + 1 ELSE b.count_active)
      /\ SameFields(c, b)
  BY <1>2 DEF SameFields
<1>4. /\ b.flags \in [Events -> SUBSET {"inserted", "active", "timeout"}]
      /\ b.activequeues = [i \in Pris |-> b.activequeues[i]] /\ b.timeout \in [Events -> Int]
  BY <1>1 DEF BaseShape
<1>5. c.flags \in [Events -> SUBSET {"inserted", "active", "timeout"}] /\ c.activequeues = [i \in Pris |-> c.activequeues[i]]
  <2>1. c.flags \in [Events -> SUBSET {"inserted", "active", "timeout"}]
    BY <1>3, <1>4
  <2>2. c.activequeues = [i \in Pris |-> c.activequeues[i]]
    BY <1>3, <1>4
  <2> QED
    BY <2>1, <2>2
<1>6. BaseShape(c)
  <2>1. c = [flags |-> c.flags, eventqueue |-> c.eventqueue, activequeues |-> c.activequeues,
             timeheap |-> c.timeheap, timeout |-> c.timeout, res |-> c.res, ncalls |-> c.ncalls,
             pncalls |-> c.pncalls, count |-> c.count, count_active |-> c.count_active]
    BY <1>2
  <2> QED
    BY <1>1, <1>3, <1>5, <2>1 DEF BaseShape, SameFields
<1>7. /\ Flg(c, q) = Flg(b, q) \cup {e} /\ e \notin Flg(b, q)
      /\ \A p : p # q => Flg(c, p) = Flg(b, p)
      /\ \A i \in Pris : Waiting(c, i) = IF q = "active" /\ i = Pri[e] THEN Waiting(b, i) \cup {e} ELSE Waiting(b, i)
  BY <1>3, <1>4 DEF Flg, Waiting
<1>8. BaseLists(c)
  <2>1. ListOf(c.eventqueue, Flg(c, "inserted"))
    <3>1. CASE q = "inserted"
      BY <1>1, <1>3, <1>7, <3>1, ListWith DEF BaseLists
    <3>2. CASE q # "inserted"
      BY <1>1, <1>3, <1>7, <3>2 DEF BaseLists
    <3> QED
      BY <3>1, <3>2
  <2>2. ASSUME NEW i \in Pris
        PROVE  ListOf(c.activequeues[i], Waiting(c, i))
    <3>1. CASE q = "active" /\ i = Pri[e]
      <4>1. c.activequeues[i] = Append(b.activequeues[i], e)
        BY <1>3, <1>4, <3>1
      <4>2. e \notin Waiting(b, i) /\ ListOf(b.activequeues[i], Waiting(b, i))
        BY <1>1, <3>1 DEF BaseLists, Waiting
      <4>3. ListOf(Append(b.activequeues[i], e), Waiting(b, i) \cup {e})
        BY <4>2, ListWith
      <4>4. Waiting(c, i) = Waiting(b, i) \cup {e}
        BY <1>7, <3>1
      <4> QED
        BY <4>1, <4>3, <4>4
    <3>2. CASE ~(q = "active" /\ i = Pri[e])
      <4>1. c.activequeues[i] = b.activequeues[i]
        BY <1>3, <1>4, <3>2
      <4> QED
        BY <1>1, <1>7, <3>2, <4>1 DEF BaseLists
    <3> QED
      BY <3>1, <3>2
  <2>3. IsHeap(c.timeheap, Flg(c, "timeout"), c.timeout)
    <3>1. IsHeap(b.timeheap, Flg(b, "timeout"), b.timeout) /\ c.timeout = b.timeout
      BY <1>1, <1>3 DEF BaseLists, SameFields
    <3>2. CASE q = "timeout"
      BY <1>3, <1>4, <1>7, <3>1, <3>2, PushIs
    <3>3. CASE q # "timeout"
      BY <1>3, <1>7, <3>1, <3>3
    <3> QED
      BY <3>2, <3>3
  <2> QED
    BY <2>1, <2>2, <2>3 DEF BaseLists
<1>9. BaseCounts(c)
  <2>1. IsFiniteSet(Flg(b, q))
    BY <1>1 DEF BaseCounts
  <2>2. IsFiniteSet(Flg(b, q) \cup {e}) /\ Cardinality(Flg(b, q) \cup {e}) = Cardinality(Flg(b, q)) + 1
    BY <1>7, <2>1, FS_AddElement
  <2>3. Cardinality(Flg(b, "inserted")) \in Nat /\ Cardinality(Flg(b, "active")) \in Nat
        /\ Cardinality(Flg(b, "timeout")) \in Nat
    BY <1>1, FS_CardinalityType DEF BaseCounts
  <2>4. IsFiniteSet(Flg(c, q)) /\ Cardinality(Flg(c, q)) = Cardinality(Flg(b, q)) + 1
    BY <1>7, <2>2
  <2>5. /\ IsFiniteSet(Flg(b, "inserted")) /\ IsFiniteSet(Flg(b, "active")) /\ IsFiniteSet(Flg(b, "timeout"))
        /\ b.count_active = Cardinality(Flg(b, "active"))
        /\ b.count = Cardinality(Flg(b, "inserted")) + Cardinality(Flg(b, "timeout")) + b.count_active
    BY <1>1 DEF BaseCounts
  <2>6. CASE q = "inserted"
    <3>1. Flg(c, "active") = Flg(b, "active") /\ Flg(c, "timeout") = Flg(b, "timeout")
      BY <1>7, <2>6
    <3> QED
      BY <1>3, <2>3, <2>4, <2>5, <2>6, <3>1 DEF BaseCounts
  <2>7. CASE q = "active"
    <3>1. Flg(c, "inserted") = Flg(b, "inserted") /\ Flg(c, "timeout") = Flg(b, "timeout")
      BY <1>7, <2>7
    <3> QED
      BY <1>3, <2>3, <2>4, <2>5, <2>7, <3>1 DEF BaseCounts
  <2>8. CASE q = "timeout"
    <3>1. Flg(c, "inserted") = Flg(b, "inserted") /\ Flg(c, "active") = Flg(b, "active")
      BY <1>7, <2>8
    <3> QED
      BY <1>3, <2>3, <2>4, <2>5, <2>8, <3>1 DEF BaseCounts
  <2> QED
    BY <2>6, <2>7, <2>8
<1> QED
  BY <1>3, <1>6, <1>8, <1>9 DEF Good, IsInserted

\* What the lists do not depend on.
LEMMA SameLists ==
  ASSUME NEW b, Good(b), NEW c, BaseShape(c), c.flags = b.flags, c.eventqueue = b.eventqueue,
         c.activequeues = b.activequeues, c.timeheap = b.timeheap, c.timeout = b.timeout,
         c.count = b.count, c.count_active = b.count_active
  PROVE  Good(c)
<1>1. \A q : Flg(c, q) = Flg(b, q)
  BY DEF Flg
<1>2. \A i : Waiting(c, i) = Waiting(b, i)
  BY DEF Waiting
<1>3. BaseLists(c)
  BY <1>1, <1>2 DEF Good, BaseLists
<1>4. BaseCounts(c)
  BY <1>1 DEF Good, BaseCounts
<1> QED
  BY <1>3, <1>4 DEF Good

LEMMA RemoveIfGood ==
  ASSUME NEW b, Good(b), NEW e \in Events, NEW q \in {"inserted", "active", "timeout"}, Pri[e] \in Pris,
         NEW c, c = Eb!RemoveIf(b, e, q)
  PROVE  IsRemoved(c, b, e, q)
<1>1. CASE q \in b.flags[e]
  <2>1. c = Eb!QueueRemove(b, e, q)
    BY <1>1 DEF Eb!RemoveIf
  <2> QED
    BY <1>1, <2>1, RemoveGood
<1>2. CASE q \notin b.flags[e]
  <2>1. c = b
    BY <1>2 DEF Eb!RemoveIf
  <2>2. b.flags = [b.flags EXCEPT ![e] = @ \ {q}]
    BY <1>2 DEF Good, BaseShape
  <2> QED
    BY <2>1, <2>2 DEF SameFields, IsRemoved
<1> QED
  BY <1>1, <1>2

\* event_del(): the event is in no list.
LEMMA DelGood ==
  ASSUME NEW b, Good(b), NEW e \in Events, Pri[e] \in Pris, NEW c, c = Eb!Del(b, e)
  PROVE  Good(c) /\ SameFields(c, b) /\ c.flags = [b.flags EXCEPT ![e] = {}]
<1>1. PICK x : x = Eb!RemoveIf(b, e, "timeout")
  OBVIOUS
<1>2. Good(x) /\ SameFields(x, b) /\ x.flags = [b.flags EXCEPT ![e] = @ \ {"timeout"}]
  <2>1. IsRemoved(x, b, e, "timeout")
    BY <1>1, RemoveIfGood
  <2> QED
    BY <2>1 DEF IsRemoved
<1>3. PICK y : y = Eb!RemoveIf(x, e, "active")
  OBVIOUS
<1>4. Good(y) /\ SameFields(y, x) /\ y.flags = [x.flags EXCEPT ![e] = @ \ {"active"}]
  <2>1. IsRemoved(y, x, e, "active")
    BY <1>2, <1>3, RemoveIfGood
  <2> QED
    BY <2>1 DEF IsRemoved
<1>5. c = Eb!RemoveIf(y, e, "inserted")
  BY <1>1, <1>3 DEF Eb!Del
<1>6. Good(c) /\ SameFields(c, y) /\ c.flags = [y.flags EXCEPT ![e] = @ \ {"inserted"}]
  <2>1. IsRemoved(c, y, e, "inserted")
    BY <1>4, <1>5, RemoveIfGood
  <2> QED
    BY <2>1 DEF IsRemoved
<1>7. b.flags \in [Events -> SUBSET {"inserted", "active", "timeout"}]
  BY DEF Good, BaseShape
<1>8. c.flags = [b.flags EXCEPT ![e] = {}]
  <2>1. b.flags[e] \subseteq {"inserted", "active", "timeout"}
    BY <1>7
  <2>2. x.flags[e] = b.flags[e] \ {"timeout"} /\ \A a \in Events : a # e => x.flags[a] = b.flags[a]
    BY <1>2, <1>7
  <2>3. x.flags = [a \in Events |-> x.flags[a]]
    BY <1>2, <1>7
  <2>4. y.flags[e] = x.flags[e] \ {"active"} /\ (\A a \in Events : a # e => y.flags[a] = x.flags[a])
        /\ y.flags = [a \in Events |-> y.flags[a]]
    BY <1>4, <2>3
  <2>5. c.flags[e] = y.flags[e] \ {"inserted"} /\ (\A a \in Events : a # e => c.flags[a] = y.flags[a])
        /\ c.flags = [a \in Events |-> c.flags[a]]
    BY <1>6, <2>4
  <2>6. c.flags[e] = {}
    BY <2>1, <2>2, <2>4, <2>5
  <2>7. \A a \in Events : c.flags[a] = IF a = e THEN {} ELSE b.flags[a]
    BY <2>2, <2>4, <2>5, <2>6
  <2> QED
    BY <1>7, <2>5, <2>7
<1> QED
  BY <1>2, <1>4, <1>6, <1>8 DEF SameFields

\* c is b after event_active() of e for n calls.
IsActive(c, b, e, n) ==
  /\ Good(c) /\ c.timeout = b.timeout /\ c.flags = [b.flags EXCEPT ![e] = @ \cup {"active"}]
  /\ c.ncalls = b.ncalls \/ c.ncalls = [b.ncalls EXCEPT ![e] = n]
  /\ c.pncalls = b.pncalls \/ c.pncalls = [b.pncalls EXCEPT ![e] = FALSE]

\* event_active().
LEMMA ActiveGood ==
  ASSUME NEW b, Good(b), NEW e \in Events, Pri[e] \in Pris, NEW r, NEW n \in 0..2, NEW c, c = Eb!Active(b, e, r, n)
  PROVE  IsActive(c, b, e, n)
<1>1. BaseShape(b)
  BY DEF Good
<1>2. CASE "active" \in b.flags[e]
  <2>1. c = [b EXCEPT !.res[e] = @ \cup r]
    BY <1>2 DEF Eb!Active
  <2>2. /\ c = [flags |-> c.flags, eventqueue |-> c.eventqueue, activequeues |-> c.activequeues,
                timeheap |-> c.timeheap, timeout |-> c.timeout, res |-> c.res, ncalls |-> c.ncalls,
                pncalls |-> c.pncalls, count |-> c.count, count_active |-> c.count_active]
        /\ c.flags = b.flags /\ c.eventqueue = b.eventqueue /\ c.activequeues = b.activequeues
        /\ c.timeheap = b.timeheap /\ c.timeout = b.timeout /\ c.ncalls = b.ncalls /\ c.pncalls = b.pncalls
        /\ c.count = b.count /\ c.count_active = b.count_active
    BY <1>1, <2>1 DEF BaseShape
  <2>3. BaseShape(c)
    BY <1>1, <2>2 DEF BaseShape
  <2>4. Good(c)
    BY <2>2, <2>3, SameLists
  <2>5. b.flags = [b.flags EXCEPT ![e] = @ \cup {"active"}]
    BY <1>1, <1>2 DEF BaseShape
  <2> QED
    BY <2>2, <2>4, <2>5 DEF IsActive
<1>3. CASE "active" \notin b.flags[e]
  <2>1. PICK d : d = [b EXCEPT !.res[e] = r, !.ncalls[e] = n, !.pncalls[e] = FALSE]
    OBVIOUS
  <2>2. /\ d = [flags |-> d.flags, eventqueue |-> d.eventqueue, activequeues |-> d.activequeues,
                timeheap |-> d.timeheap, timeout |-> d.timeout, res |-> d.res, ncalls |-> d.ncalls,
                pncalls |-> d.pncalls, count |-> d.count, count_active |-> d.count_active]
        /\ d.flags = b.flags /\ d.eventqueue = b.eventqueue /\ d.activequeues = b.activequeues
        /\ d.timeheap = b.timeheap /\ d.timeout = b.timeout
        /\ d.ncalls = [b.ncalls EXCEPT ![e] = n] /\ d.pncalls = [b.pncalls EXCEPT ![e] = FALSE]
        /\ d.count = b.count /\ d.count_active = b.count_active
    BY <1>1, <2>1 DEF BaseShape
  <2>3. d.ncalls \in [Events -> 0..2] /\ d.pncalls \in [Events -> BOOLEAN]
    BY <1>1, <2>2 DEF BaseShape
  <2>4. BaseShape(d)
    BY <1>1, <2>2, <2>3 DEF BaseShape
  <2>5. Good(d)
    BY <2>2, <2>4, SameLists
  <2>6. c = Eb!QueueInsert(d, e, "active")
    BY <1>3, <2>1 DEF Eb!Active
  <2>7. Good(c) /\ SameFields(c, d) /\ c.flags = [d.flags EXCEPT ![e] = @ \cup {"active"}]
    <3>1. IsInserted(c, d, e, "active")
      BY <1>3, <2>2, <2>5, <2>6, InsertGood
    <3> QED
      BY <3>1 DEF IsInserted
  <2> QED
    BY <2>2, <2>7 DEF SameFields, IsActive
<1> QED
  BY <1>2, <1>3

\* c is b after event_add() of e with the timeout at.
IsAdded(c, b, e, at) ==
  /\ Good(c) /\ c.ncalls = b.ncalls /\ c.pncalls = b.pncalls
  /\ \A x \in Events : x # e => c.flags[x] = b.flags[x]
  /\ e \notin Io /\ at = None => c = b
  /\ at = None => c.timeout = b.timeout /\ ("timeout" \in c.flags[e] => "timeout" \in b.flags[e])
  /\ at # None => c.timeout = [b.timeout EXCEPT ![e] = at]

\* event_add(): with a timeout the event is a timer of that time; without one it is
\* left out only when the back end does not watch it.
LEMMA AddGood ==
  ASSUME NEW b, Good(b), NEW e \in Events, Pri[e] \in Pris, NEW at, at # None => at \in Int, NEW c, c = Eb!Add(b, e, at)
  PROVE  IsAdded(c, b, e, at)
<1>1. PICK x : x = IF Eb!NeedsInsert(b, e) THEN Eb!QueueInsert(b, e, "inserted") ELSE b
  OBVIOUS
<1>2. b.flags \in [Events -> SUBSET {"inserted", "active", "timeout"}]
  BY DEF Good, BaseShape
<1>3. /\ Good(x) /\ SameFields(x, b) /\ \A y \in Events : y # e => x.flags[y] = b.flags[y]
      /\ "timeout" \in x.flags[e] => "timeout" \in b.flags[e]
      /\ e \notin Io => x = b
  <2>1. CASE Eb!NeedsInsert(b, e)
    <3>1. "inserted" \notin b.flags[e] /\ e \in Io
      BY <2>1 DEF Eb!NeedsInsert
    <3>2. Good(x) /\ SameFields(x, b) /\ x.flags = [b.flags EXCEPT ![e] = @ \cup {"inserted"}]
      <4>1. IsInserted(x, b, e, "inserted")
        BY <1>1, <2>1, <3>1, InsertGood
      <4> QED
        BY <4>1 DEF IsInserted
    <3> QED
      BY <1>2, <3>1, <3>2
  <2>2. CASE ~Eb!NeedsInsert(b, e)
    BY <1>1, <2>2 DEF SameFields
  <2> QED
    BY <2>1, <2>2
<1>4. CASE at = None
  <2>1. c = x
    BY <1>1, <1>4 DEF Eb!Add
  <2> QED
    BY <1>3, <1>4, <2>1 DEF SameFields, IsAdded
<1>5. CASE at # None
  <2>1. PICK d : d = Eb!RemoveIf(x, e, "timeout")
    OBVIOUS
  <2>2. Good(d) /\ SameFields(d, x) /\ d.flags = [x.flags EXCEPT ![e] = @ \ {"timeout"}]
    <3>1. IsRemoved(d, x, e, "timeout")
      BY <1>3, <2>1, RemoveIfGood
    <3> QED
      BY <3>1 DEF IsRemoved
  <2>3. PICK f : f = IF Eb!Reschedules(d, e) THEN Eb!QueueRemove(d, e, "active") ELSE d
    OBVIOUS
  <2>4. x.flags \in [Events -> SUBSET {"inserted", "active", "timeout"}]
    BY <1>3 DEF Good, BaseShape
  <2>5. /\ Good(f) /\ SameFields(f, d) /\ \A y \in Events : y # e => f.flags[y] = x.flags[y]
        /\ "timeout" \notin f.flags[e]
    <3>1. CASE Eb!Reschedules(d, e)
      <4>1. "active" \in d.flags[e]
        BY <3>1 DEF Eb!Reschedules
      <4>2. Good(f) /\ SameFields(f, d) /\ f.flags = [d.flags EXCEPT ![e] = @ \ {"active"}]
        <5>1. IsRemoved(f, d, e, "active")
          BY <2>2, <2>3, <3>1, <4>1, RemoveGood
        <5> QED
          BY <5>1 DEF IsRemoved
      <4> QED
        BY <2>2, <2>4, <4>2
    <3>2. CASE ~Eb!Reschedules(d, e)
      BY <2>2, <2>3, <2>4, <3>2 DEF SameFields
    <3> QED
      BY <3>1, <3>2
  <2>6. PICK g : g = [f EXCEPT !.timeout[e] = at]
    OBVIOUS
  <2>7. BaseShape(f)
    BY <2>5 DEF Good
  <2>8. /\ g = [flags |-> g.flags, eventqueue |-> g.eventqueue, activequeues |-> g.activequeues,
                timeheap |-> g.timeheap, timeout |-> g.timeout, res |-> g.res, ncalls |-> g.ncalls,
                pncalls |-> g.pncalls, count |-> g.count, count_active |-> g.count_active]
        /\ g.flags = f.flags /\ g.eventqueue = f.eventqueue /\ g.activequeues = f.activequeues
        /\ g.timeheap = f.timeheap /\ g.timeout = [f.timeout EXCEPT ![e] = at]
        /\ g.ncalls = f.ncalls /\ g.pncalls = f.pncalls
        /\ g.count = f.count /\ g.count_active = f.count_active
    BY <2>6, <2>7 DEF BaseShape
  <2>9. g.timeout \in [Events -> Int]
    BY <1>5, <2>7, <2>8 DEF BaseShape
  <2>10. BaseShape(g)
    BY <2>7, <2>8, <2>9 DEF BaseShape
  <2>11. \A q : Flg(g, q) = Flg(f, q)
    BY <2>8 DEF Flg
  <2>12. \A i : Waiting(g, i) = Waiting(f, i)
    BY <2>8 DEF Waiting
  <2>13. IsHeap(g.timeheap, Flg(g, "timeout"), g.timeout)
    <3>1. IsHeap(f.timeheap, Flg(f, "timeout"), f.timeout)
      BY <2>5 DEF Good, BaseLists
    <3>2. f.timeout \in [Events -> Int]
      BY <2>7 DEF BaseShape
    <3>3. \A y \in Flg(f, "timeout") : g.timeout[y] = f.timeout[y]
      BY <2>5, <2>8, <3>2 DEF Flg
    <3>4. IsHeap(f.timeheap, Flg(f, "timeout"), g.timeout)
      BY <3>1, <3>3, OtherKeys
    <3> QED
      BY <2>8, <2>11, <3>4
  <2>14. BaseLists(g)
    BY <2>5, <2>8, <2>11, <2>12, <2>13 DEF Good, BaseLists
  <2>15. BaseCounts(g)
    BY <2>5, <2>8, <2>11 DEF Good, BaseCounts
  <2>16. Good(g) /\ "timeout" \notin g.flags[e]
    BY <2>5, <2>8, <2>10, <2>14, <2>15 DEF Good
  <2>17. c = Eb!QueueInsert(g, e, "timeout")
    BY <1>1, <1>5, <2>1, <2>3, <2>6 DEF Eb!Add
  <2>18. Good(c) /\ SameFields(c, g) /\ c.flags = [g.flags EXCEPT ![e] = @ \cup {"timeout"}]
    <3>1. IsInserted(c, g, e, "timeout")
      BY <2>16, <2>17, InsertGood
    <3> QED
      BY <3>1 DEF IsInserted
  <2>19. c.ncalls = b.ncalls /\ c.pncalls = b.pncalls /\ c.timeout = [b.timeout EXCEPT ![e] = at]
    BY <1>3, <2>2, <2>5, <2>8, <2>18 DEF SameFields
  <2>20. \A y \in Events : y # e => c.flags[y] = b.flags[y]
    BY <1>3, <2>5, <2>7, <2>8, <2>18 DEF BaseShape
  <2> QED
    BY <1>5, <2>18, <2>19, <2>20 DEF IsAdded
<1> QED
  BY <1>4, <1>5

\* All timeouts of a heap are moved by the same time.
LEMMA ShiftedKeys ==
  ASSUME NEW h, NEW S, NEW k \in [Events -> Int], IsHeap(h, S, k), NEW l, NEW d \in Int, \A x \in S : l[x] = k[x] - d
  PROVE  IsHeap(h, S, l)
<1>1. PICK n \in Nat : n = Len(h.p)
  BY DEF IsHeap, HeapType
<1>2. Placed(h, n, -1, S) /\ Sorted(h, n, -1, k) /\ S \subseteq Events
  BY <1>1 DEF IsHeap
<1>3. ASSUME NEW i \in 0..(n - 1)
      PROVE  l[Mh!At(h, i)] = k[Mh!At(h, i)] - d /\ k[Mh!At(h, i)] \in Int
  <2>1. Mh!At(h, i) \in S
    BY <1>2 DEF Placed
  <2> QED
    BY <1>2, <2>1
<1>4. ASSUME NEW i \in 1..(n - 1)
      PROVE  l[Mh!At(h, Mh!Parent(i))] <= l[Mh!At(h, i)] /\ Mh!Parent(i) # -1
  <2>1. Mh!Parent(i) \in 0..(n - 1) /\ i \in 0..(n - 1) /\ k[Mh!At(h, Mh!Parent(i))] <= k[Mh!At(h, i)]
    <3>1. i \in Nat \ {0}
      OBVIOUS
    <3>2. Mh!Parent(i) \in Nat /\ Mh!Parent(i) < i
      BY <3>1, ParentIs
    <3>3. Mh!Parent(i) \in 0..(n - 1) /\ i \in 0..(n - 1) /\ i # -1 /\ Mh!Parent(i) # -1
      BY <3>2
    <3> QED
      BY <1>2, <3>3 DEF Sorted
  <2>2. PICK p \in 0..(n - 1) : p = Mh!Parent(i)
    BY <2>1
  <2>3. l[Mh!At(h, p)] = k[Mh!At(h, p)] - d /\ k[Mh!At(h, p)] \in Int
    BY <1>3
  <2>4. l[Mh!At(h, i)] = k[Mh!At(h, i)] - d /\ k[Mh!At(h, i)] \in Int
    BY <1>3, <2>1
  <2> QED
    BY <2>1, <2>2, <2>3, <2>4
<1>5. Sorted(h, n, -1, l)
  BY <1>4 DEF Sorted
<1> QED
  BY <1>1, <1>5 DEF IsHeap

\* timeout_correct().
LEMMA CorrectGood ==
  ASSUME Good(base), clock \in Int, event_tv \in Int, cache # None => cache \in Int, NEW c, c = Eb!Correct
  PROVE  Good(c) /\ c.flags = base.flags /\ c.ncalls = base.ncalls /\ c.pncalls = base.pncalls
         /\ (Monotonic => c = base)
<1>1. CASE Monotonic \/ Eb!Now >= event_tv
  BY <1>1 DEF Eb!Correct
<1>2. CASE ~(Monotonic \/ Eb!Now >= event_tv)
  <2>1. PICK d : d = event_tv - Eb!Now
    OBVIOUS
  <2>2. d \in Int
    BY <2>1 DEF Eb!Now
  <2>3. PICK l : l = [e \in Events |-> IF "timeout" \in base.flags[e] THEN base.timeout[e] - d ELSE base.timeout[e]]
    OBVIOUS
  <2>4. c = [base EXCEPT !.timeout = l]
    BY <1>2, <2>1, <2>3 DEF Eb!Correct
  <2>5. BaseShape(base) /\ BaseLists(base) /\ BaseCounts(base)
    BY DEF Good
  <2>6. base.timeout \in [Events -> Int]
    BY <2>5 DEF BaseShape
  <2>7. l \in [Events -> Int] /\ \A x \in Flg(base, "timeout") : l[x] = base.timeout[x] - d
    BY <2>2, <2>3, <2>6 DEF Flg
  <2>8. /\ c = [flags |-> c.flags, eventqueue |-> c.eventqueue, activequeues |-> c.activequeues,
                timeheap |-> c.timeheap, timeout |-> c.timeout, res |-> c.res, ncalls |-> c.ncalls,
                pncalls |-> c.pncalls, count |-> c.count, count_active |-> c.count_active]
        /\ c.flags = base.flags /\ c.eventqueue = base.eventqueue /\ c.activequeues = base.activequeues
        /\ c.timeheap = base.timeheap /\ c.timeout = l /\ c.ncalls = base.ncalls /\ c.pncalls = base.pncalls
        /\ c.count = base.count /\ c.count_active = base.count_active
    BY <2>4, <2>5 DEF BaseShape
  <2>9. BaseShape(c)
    BY <2>5, <2>7, <2>8 DEF BaseShape
  <2>10. (\A q : Flg(c, q) = Flg(base, q)) /\ (\A i : Waiting(c, i) = Waiting(base, i))
    BY <2>8 DEF Flg, Waiting
  <2>11. IsHeap(base.timeheap, Flg(base, "timeout"), l)
    <3>1. IsHeap(base.timeheap, Flg(base, "timeout"), base.timeout)
      BY <2>5 DEF BaseLists
    <3> QED
      BY <2>2, <2>6, <2>7, <3>1, ShiftedKeys
  <2>12. BaseLists(c)
    BY <2>5, <2>8, <2>10, <2>11 DEF BaseLists
  <2>13. BaseCounts(c)
    BY <2>5, <2>8, <2>10 DEF BaseCounts
  <2> QED
    BY <1>2, <2>8, <2>9, <2>12, <2>13 DEF Good
<1> QED
  BY <1>1, <1>2

\* c is b after the back end has reported the events of fired.
IsActivated(c, b, fired) ==
  /\ Good(c) /\ c.timeout = b.timeout
  /\ \A e \in Events : /\ c.flags[e] = b.flags[e] \cup (IF e \in fired THEN {"active"} ELSE {})
                       /\ c.ncalls[e] = 2 => b.ncalls[e] = 2 \/ e \in Signals

\* What a dispatch activates joins the queues of its priorities.
LEMMA ActivateGood ==
  ASSUME NEW b, Good(b), Pri \in [Events -> Pris], NEW fired \in SUBSET Flg(b, "inserted"), NEW n \in 1..2,
         NEW joining \in Eb!Orders(b, fired), NEW c, c = Eb!Activate(b, fired, n, joining)
  PROVE  IsActivated(c, b, fired)
<1>1. BaseShape(b) /\ BaseLists(b) /\ BaseCounts(b)
  BY DEF Good
<1>2. PICK F : F = Eb!Fresh(b, fired)
  OBVIOUS
<1>3. F = {e \in fired : "active" \notin b.flags[e]} /\ fired \subseteq Events /\ F \subseteq Events
  BY <1>2 DEF Eb!Fresh, Flg
<1>4. PICK flags, res, ncalls, pncalls, queues, m :
        /\ flags = [e \in Events |-> b.flags[e] \cup (IF e \in fired THEN {"active"} ELSE {})]
        /\ res = [e \in Events |-> IF e \notin fired THEN b.res[e]
                                   ELSE IF "active" \in b.flags[e] THEN b.res[e] \cup {"io"} ELSE {"io"}]
        /\ ncalls = [e \in Events |-> IF e \notin F THEN b.ncalls[e] ELSE IF e \in Signals THEN n ELSE 1]
        /\ pncalls = [e \in Events |-> IF e \in F THEN FALSE ELSE b.pncalls[e]]
        /\ queues = [i \in 0..(NPri - 1) |-> b.activequeues[i] \o joining[i]]
        /\ m = Eb!Cardinality(F)
  OBVIOUS
<1>5. c = [b EXCEPT !.flags = flags, !.res = res, !.ncalls = ncalls, !.pncalls = pncalls, !.count = @ + m,
                    !.count_active = @ + m, !.activequeues = queues]
  BY <1>2, <1>4 DEF Eb!Activate
<1>6. /\ c = [flags |-> c.flags, eventqueue |-> c.eventqueue, activequeues |-> c.activequeues,
              timeheap |-> c.timeheap, timeout |-> c.timeout, res |-> c.res, ncalls |-> c.ncalls,
              pncalls |-> c.pncalls, count |-> c.count, count_active |-> c.count_active]
      /\ c.flags = flags /\ c.eventqueue = b.eventqueue /\ c.activequeues = queues
      /\ c.timeheap = b.timeheap /\ c.timeout = b.timeout /\ c.ncalls = ncalls /\ c.pncalls = pncalls
      /\ c.count = b.count + m /\ c.count_active = b.count_active + m
  BY <1>1, <1>5 DEF BaseShape
<1>7. BaseShape(c)
  <2>1. flags \in [Events -> SUBSET {"inserted", "active", "timeout"}]
    BY <1>1, <1>4 DEF BaseShape
  <2>2. ncalls \in [Events -> 0..2]
    BY <1>1, <1>4 DEF BaseShape
  <2>3. pncalls \in [Events -> BOOLEAN]
    <3>1. b.pncalls \in [Events -> BOOLEAN]
      BY <1>1 DEF BaseShape
    <3> QED
      BY <1>4, <3>1
  <2>4. queues = [i \in Pris |-> queues[i]]
    BY <1>4 DEF Pris
  <2> QED
    BY <1>1, <1>6, <2>1, <2>2, <2>3, <2>4 DEF BaseShape
<1>8. /\ Flg(c, "inserted") = Flg(b, "inserted") /\ Flg(c, "timeout") = Flg(b, "timeout")
      /\ Flg(c, "active") = Flg(b, "active") \cup F /\ Flg(b, "active") \cap F = {}
  BY <1>3, <1>4, <1>6 DEF Flg
<1>9. IsFiniteSet(F)
  <2>1. F \in SUBSET Flg(b, "inserted") /\ IsFiniteSet(Flg(b, "inserted"))
    BY <1>1, <1>3 DEF BaseCounts
  <2> QED
    BY <2>1, FS_Subset
<1>10. BaseLists(c)
  <2>1. ASSUME NEW i \in Pris
        PROVE  ListOf(c.activequeues[i], Waiting(c, i))
    <3>1. PICK T : T = {e \in F : Pri[e] = i}
      OBVIOUS
    <3>2. joining[i] \in Eb!SetToSeqs(T)
      BY <1>2, <3>1 DEF Eb!Orders, Pris
    <3>3. T \subseteq Events /\ T \in SUBSET F
      BY <1>3, <3>1
    <3>4. IsFiniteSet(T)
      BY <1>9, <3>3, FS_Subset
    <3>5. ListOf(joining[i], T)
      BY <3>2, <3>3, <3>4, OrderLists
    <3>6. ListOf(b.activequeues[i], Waiting(b, i)) /\ Waiting(b, i) \cap T = {}
      BY <1>1, <1>3, <3>1 DEF BaseLists, Waiting
    <3>7. ListOf(b.activequeues[i] \o joining[i], Waiting(b, i) \cup T)
      BY <3>5, <3>6, ListJoin
    <3>8. c.activequeues[i] = b.activequeues[i] \o joining[i]
      <4>1. i \in 0..(NPri - 1)
        BY DEF Pris
      <4>2. queues[i] = b.activequeues[i] \o joining[i]
        BY <1>4, <4>1
      <4> QED
        BY <1>6, <4>2
    <3>9. Waiting(c, i) = Waiting(b, i) \cup T
      BY <1>3, <1>4, <1>6, <3>1 DEF Waiting
    <3> QED
      BY <3>7, <3>8, <3>9
  <2> QED
    BY <1>1, <1>6, <1>8, <2>1 DEF BaseLists
<1>11. BaseCounts(c)
  <2>1. IsFiniteSet(Flg(b, "active")) /\ IsFiniteSet(Flg(b, "inserted")) /\ IsFiniteSet(Flg(b, "timeout"))
        /\ b.count_active = Cardinality(Flg(b, "active"))
        /\ b.count = Cardinality(Flg(b, "inserted")) + Cardinality(Flg(b, "timeout")) + b.count_active
    BY <1>1 DEF BaseCounts
  <2>2. m = Cardinality(F) /\ m \in Nat
    BY <1>4, <1>9, SameCount, FS_CardinalityType
  <2>3. /\ IsFiniteSet(Flg(b, "active") \cup F)
        /\ Cardinality(Flg(b, "active") \cup F)
             = Cardinality(Flg(b, "active")) + Cardinality(F) - Cardinality(Flg(b, "active") \cap F)
    BY <1>9, <2>1, FS_Union
  <2>4. Cardinality(Flg(b, "active") \cap F) = 0
    BY <1>8, FS_EmptySet
  <2>5. Cardinality(Flg(b, "inserted")) \in Nat /\ Cardinality(Flg(b, "active")) \in Nat
        /\ Cardinality(Flg(b, "timeout")) \in Nat
    BY <2>1, FS_CardinalityType
  <2>6. PICK x \in Nat, y \in Nat, z \in Nat :
          x = Cardinality(Flg(b, "inserted")) /\ y = Cardinality(Flg(b, "active")) /\ z = Cardinality(Flg(b, "timeout"))
    BY <2>5
  <2>7. Cardinality(Flg(b, "active") \cup F) = y + m
    BY <2>2, <2>3, <2>4, <2>6
  <2>8. Cardinality(Flg(c, "active")) = y + m /\ IsFiniteSet(Flg(c, "active"))
    BY <1>8, <2>3, <2>7
  <2>9. Cardinality(Flg(c, "inserted")) = x /\ Cardinality(Flg(c, "timeout")) = z
        /\ IsFiniteSet(Flg(c, "inserted")) /\ IsFiniteSet(Flg(c, "timeout"))
    BY <1>8, <2>1, <2>6
  <2>10. b.count_active = y /\ b.count = x + z + y
    BY <2>1, <2>6
  <2>11. c.count_active = y + m /\ c.count = x + z + (y + m)
    BY <1>6, <2>2, <2>10
  <2> QED
    BY <2>8, <2>9, <2>11 DEF BaseCounts
<1>12. \A e \in Events : /\ c.flags[e] = b.flags[e] \cup (IF e \in fired THEN {"active"} ELSE {})
                         /\ c.ncalls[e] = 2 => b.ncalls[e] = 2 \/ e \in Signals
  BY <1>4, <1>6
<1> QED
  BY <1>6, <1>7, <1>10, <1>11, <1>12 DEF Good, IsActivated

-----------------------------------------------------------------------------
(* The loop.                                                               *)

\* What the constants are.
LEMMA EbSaneIs ==
  ASSUME Eb!Sane
  PROVE  /\ Pri \in [Events -> Pris] /\ NPri \in Nat \ {0} /\ Pushed \subseteq Events /\ Exit \in Events
         /\ Delays \subseteq Int /\ None \notin Events /\ None \notin Int /\ Monotonic \in BOOLEAN
         /\ Io \subseteq Events
BY DEF Eb!Sane, Pris

\* The lists, flags and counters agree; where the loop is, and that the freed base is empty.
EbGood == /\ Good(base)
          /\ Eb!TypeOK
          /\ clock \in Int /\ event_tv \in Int /\ (cache # None => cache \in Int)
          /\ pc = "freed" => base.eventqueue = <<>> /\ base.timeheap.p = <<>> /\ Eb!NoneActive

\* What is in a list, and what runs, may be called; only events of signals are called twice,
\* and while calls of the event that runs are left it can be told to stop.
EbArmed == /\ \A e \in Events : base.flags[e] # {} => e \in armed
           /\ \A e \in Events : base.ncalls[e] = 2 => e \in Signals
           /\ pc = "call" /\ left = 2 => cur \in Signals
           /\ pc = "cb" /\ left > 0 => cur \in Signals
           /\ pc \in {"call", "cb"} /\ left > 0 => cur \in armed /\ base.ncalls[cur] = left /\ base.pncalls[cur] = TRUE
           /\ "deleted" \notin faults

\* The time that the loop has cached is not in the future, and a timer that a callback asked
\* for is not earlier than it was asked for.
TimerRight(e) == since[e] # None =>
                   /\ since[e].from \in Int /\ since[e].tv \in Int
                   /\ since[e].cb = TRUE /\ "timeout" \in base.flags[e] =>
                        since[e].from + since[e].tv <= base.timeout[e]
EbTimes == /\ cache # None => cache <= clock
           /\ pc \in {"timeouts", "next", "call", "cb"} => cache # None
           /\ since = [e \in Events |-> since[e]]
           /\ \A e \in Events : TimerRight(e)
           /\ "early" \notin faults

\* Where the timers of the next state come from: they were there, or they are asked for now.
TimersFrom ==
  \A x \in Events : "timeout" \in base'.flags[x] =>
     \/ "timeout" \in base.flags[x] /\ base'.timeout[x] = base.timeout[x]
     \/ \E tv \in Delays : base'.timeout[x] = Eb!Now + tv

Calm == Pushed \cap Signals = {}

EbInv == EbGood /\ (Calm => EbArmed) /\ (Monotonic => EbTimes)

\* An invariant of the next state.
LEMMA GoodNext ==
  ASSUME Good(base')
  PROVE  Good(base)'
BY DEF Good, BaseShape, BaseLists, BaseCounts, Flg, Waiting, ListOf, IsHeap, HeapType, Placed, Sorted, Pris,
       Mh!At, Mh!Parent

LEMMA PlaceStays ==
  ASSUME EbGood, UNCHANGED <<base, pc, queue, cur, left, clock, cache, event_tv, faults>>
  PROVE  EbGood'
<1>1. Good(base)'
  BY GoodNext DEF EbGood
<1> QED
  BY <1>1 DEF EbGood, Eb!TypeOK, Eb!NoneActive

\* The first queue that is not empty.
LEMMA FirstActiveIs ==
  ASSUME Eb!Sane, ~Eb!NoneActive
  PROVE  Eb!FirstActive \in Pris /\ base.activequeues[Eb!FirstActive] # <<>>
<1> DEFINE S == {i \in 0..(NPri - 1) : base.activequeues[i] # <<>>}
<1>1. S \subseteq Nat /\ S # {}
  BY DEF Eb!NoneActive
<1>2. \A i \in S : i \in 0..(NPri - 1) /\ base.activequeues[i] # <<>>
  OBVIOUS
<1>3. \A i \in 0..(NPri - 1) : base.activequeues[i] # <<>> => i \in S
  OBVIOUS
<1> HIDE DEF S
<1>4. PICK m \in S : \A k \in S : m <= k
  BY <1>1, Smallest
<1>5. NPri \in Nat /\ m \in 0..(NPri - 1) /\ base.activequeues[m] # <<>>
  BY <1>2, EbSaneIs
<1>6. \A j \in 0..(m - 1) : base.activequeues[j] = <<>>
  <2> SUFFICES ASSUME NEW j \in 0..(m - 1), base.activequeues[j] # <<>>
               PROVE  FALSE
    OBVIOUS
  <2>1. j \in 0..(NPri - 1) /\ ~(m <= j)
    BY <1>5
  <2> QED
    BY <1>3, <1>4, <2>1
<1> QED
  BY <1>5, <1>6 DEF Eb!FirstActive, Pris

\* An event that waits to be called makes a queue that is not empty.
LEMMA SomeActive ==
  ASSUME Eb!Sane, Good(base)
  PROVE  (base.count_active = 0 <=> Eb!NoneActive) /\ base.count_active \in Nat
<1>1. IsFiniteSet(Flg(base, "active")) /\ base.count_active = Cardinality(Flg(base, "active"))
  BY DEF Good, BaseCounts
<1>2. base.count_active \in Nat /\ (base.count_active = 0 <=> Flg(base, "active") = {})
  BY <1>1, FS_CardinalityType, FS_EmptySet
<1>3. \A i \in Pris : base.activequeues[i] = <<>> <=> Waiting(base, i) = {}
  BY ListFirst DEF Good, BaseLists
<1>4. Flg(base, "active") = {} <=> \A i \in Pris : Waiting(base, i) = {}
  BY EbSaneIs DEF Flg, Waiting
<1> QED
  BY <1>2, <1>3, <1>4 DEF Eb!NoneActive, Pris

\* Steps that leave the base alone.
LEMMA ArmedKept ==
  ASSUME EbArmed, UNCHANGED <<base, armed, faults>>,
         pc' \in {"call", "cb"} => left' = left /\ cur' = cur /\ (pc' = pc \/ (pc = "cb" /\ pc' = "call"))
  PROVE  EbArmed'
BY DEF EbArmed

LEMMA TimesKept ==
  ASSUME EbTimes, UNCHANGED <<base, since, faults>>, cache' # None => cache' <= clock',
         pc' \in {"timeouts", "next", "call", "cb"} => cache' # None
  PROVE  EbTimes'
BY DEF EbTimes, TimerRight

QuietAction ==
  \/ \E e \in Events : Eb!EventAddFails(e)
  \/ Eb!LoopBreak
  \/ \E f \in {"wait", "once", "nonblock"} : Eb!EventBaseLoop(f)
  \/ Eb!Terminate
  \/ Eb!DispatchInterrupted
  \/ Eb!DispatchFails
  \/ Eb!Process
  \/ Eb!QueueDone
  \/ Eb!CallsDone
  \/ Eb!Return
  \/ Eb!EventBaseFree
  \/ Eb!FreeDone
  \/ Eb!Tick
  \/ Eb!ClockBack

LEMMA QuietSame ==
  ASSUME QuietAction
  PROVE  UNCHANGED <<base, armed, since, faults>>
BY DEF QuietAction, Eb!EventAddFails, Eb!Program, Eb!loopState, Eb!LoopBreak, Eb!EventBaseLoop, Eb!history, Eb!Terminate, Eb!DispatchInterrupted, Eb!DispatchFails, Eb!Process, Eb!QueueDone, Eb!Processed, Eb!CallsDone, Eb!Return, Eb!EventBaseFree, Eb!FreeDone, Eb!Tick, Eb!ClockBack

LEMMA QuietStep ==
  ASSUME Eb!Sane, EbInv, QuietAction
  PROVE  EbInv'
<1>1. UNCHANGED <<base, armed, since, faults>>
  BY QuietSame
<1>2. Good(base)'
  BY <1>1, GoodNext DEF EbInv, EbGood
<1>3. NPri \in Nat \ {0} /\ None \notin Events /\ None \notin Int
  BY EbSaneIs
<1>4. CASE \E e \in Events : Eb!EventAddFails(e)
  <2>1. EbGood'
    BY <1>1, <1>2, <1>3, <1>4 DEF EbInv, EbGood, Eb!TypeOK, Eb!EventAddFails, Eb!Program, Eb!loopState
  <2>2. Calm => EbArmed'
    <3>1. pc' \in {"call", "cb"} => left' = left /\ cur' = cur /\ (pc' = pc \/ (pc = "cb" /\ pc' = "call"))
      BY <1>4 DEF Eb!EventAddFails, Eb!Program, Eb!loopState
    <3> QED
      BY <1>1, <3>1, ArmedKept DEF EbInv
  <2>3. Monotonic => EbTimes'
    <3> SUFFICES ASSUME Monotonic
                 PROVE  EbTimes'
      OBVIOUS
    <3>1. cache' # None => cache' <= clock'
      BY <1>4 DEF EbInv, EbGood, EbTimes, Eb!EventAddFails, Eb!Program, Eb!loopState
    <3>2. pc' \in {"timeouts", "next", "call", "cb"} => cache' # None
      BY <1>3, <1>4 DEF EbInv, EbGood, EbTimes, Eb!EventAddFails, Eb!Program, Eb!loopState
    <3> QED
      BY <1>1, <3>1, <3>2, TimesKept DEF EbInv
  <2> QED
    BY <2>1, <2>2, <2>3 DEF EbInv
<1>5. CASE Eb!LoopBreak
  <2>1. EbGood'
    BY <1>1, <1>2, <1>3, <1>5 DEF EbInv, EbGood, Eb!TypeOK, Eb!LoopBreak, Eb!Program, Eb!loopState
  <2>2. Calm => EbArmed'
    <3>1. pc' \in {"call", "cb"} => left' = left /\ cur' = cur /\ (pc' = pc \/ (pc = "cb" /\ pc' = "call"))
      BY <1>5 DEF Eb!LoopBreak, Eb!Program, Eb!loopState
    <3> QED
      BY <1>1, <3>1, ArmedKept DEF EbInv
  <2>3. Monotonic => EbTimes'
    <3> SUFFICES ASSUME Monotonic
                 PROVE  EbTimes'
      OBVIOUS
    <3>1. cache' # None => cache' <= clock'
      BY <1>5 DEF EbInv, EbGood, EbTimes, Eb!LoopBreak, Eb!Program, Eb!loopState
    <3>2. pc' \in {"timeouts", "next", "call", "cb"} => cache' # None
      BY <1>3, <1>5 DEF EbInv, EbGood, EbTimes, Eb!LoopBreak, Eb!Program, Eb!loopState
    <3> QED
      BY <1>1, <3>1, <3>2, TimesKept DEF EbInv
  <2> QED
    BY <2>1, <2>2, <2>3 DEF EbInv
<1>6. CASE \E f \in {"wait", "once", "nonblock"} : Eb!EventBaseLoop(f)
  <2>1. EbGood'
    BY <1>1, <1>2, <1>3, <1>6 DEF EbInv, EbGood, Eb!TypeOK, Eb!EventBaseLoop, Eb!history
  <2>2. Calm => EbArmed'
    <3>1. pc' \in {"call", "cb"} => left' = left /\ cur' = cur /\ (pc' = pc \/ (pc = "cb" /\ pc' = "call"))
      BY <1>6 DEF Eb!EventBaseLoop, Eb!history
    <3> QED
      BY <1>1, <3>1, ArmedKept DEF EbInv
  <2>3. Monotonic => EbTimes'
    <3> SUFFICES ASSUME Monotonic
                 PROVE  EbTimes'
      OBVIOUS
    <3>1. cache' # None => cache' <= clock'
      BY <1>6 DEF EbInv, EbGood, EbTimes, Eb!EventBaseLoop, Eb!history
    <3>2. pc' \in {"timeouts", "next", "call", "cb"} => cache' # None
      BY <1>3, <1>6 DEF EbInv, EbGood, EbTimes, Eb!EventBaseLoop, Eb!history
    <3> QED
      BY <1>1, <3>1, <3>2, TimesKept DEF EbInv
  <2> QED
    BY <2>1, <2>2, <2>3 DEF EbInv
<1>7. CASE Eb!Terminate
  <2>1. EbGood'
    BY <1>1, <1>2, <1>3, <1>7 DEF EbInv, EbGood, Eb!TypeOK, Eb!Terminate, Eb!history
  <2>2. Calm => EbArmed'
    <3>1. pc' \in {"call", "cb"} => left' = left /\ cur' = cur /\ (pc' = pc \/ (pc = "cb" /\ pc' = "call"))
      BY <1>7 DEF Eb!Terminate, Eb!history
    <3> QED
      BY <1>1, <3>1, ArmedKept DEF EbInv
  <2>3. Monotonic => EbTimes'
    <3> SUFFICES ASSUME Monotonic
                 PROVE  EbTimes'
      OBVIOUS
    <3>1. cache' # None => cache' <= clock'
      BY <1>7 DEF EbInv, EbGood, EbTimes, Eb!Terminate, Eb!history
    <3>2. pc' \in {"timeouts", "next", "call", "cb"} => cache' # None
      BY <1>3, <1>7 DEF EbInv, EbGood, EbTimes, Eb!Terminate, Eb!history
    <3> QED
      BY <1>1, <3>1, <3>2, TimesKept DEF EbInv
  <2> QED
    BY <2>1, <2>2, <2>3 DEF EbInv
<1>8. CASE Eb!DispatchInterrupted
  <2>1. EbGood'
    BY <1>1, <1>2, <1>3, <1>8 DEF EbInv, EbGood, Eb!TypeOK, Eb!DispatchInterrupted, Eb!history
  <2>2. Calm => EbArmed'
    <3>1. pc' \in {"call", "cb"} => left' = left /\ cur' = cur /\ (pc' = pc \/ (pc = "cb" /\ pc' = "call"))
      BY <1>8 DEF Eb!DispatchInterrupted, Eb!history
    <3> QED
      BY <1>1, <3>1, ArmedKept DEF EbInv
  <2>3. Monotonic => EbTimes'
    <3> SUFFICES ASSUME Monotonic
                 PROVE  EbTimes'
      OBVIOUS
    <3>1. cache' # None => cache' <= clock'
      BY <1>8 DEF EbInv, EbGood, EbTimes, Eb!DispatchInterrupted, Eb!history
    <3>2. pc' \in {"timeouts", "next", "call", "cb"} => cache' # None
      BY <1>3, <1>8 DEF EbInv, EbGood, EbTimes, Eb!DispatchInterrupted, Eb!history
    <3> QED
      BY <1>1, <3>1, <3>2, TimesKept DEF EbInv
  <2> QED
    BY <2>1, <2>2, <2>3 DEF EbInv
<1>9. CASE Eb!DispatchFails
  <2>1. EbGood'
    BY <1>1, <1>2, <1>3, <1>9 DEF EbInv, EbGood, Eb!TypeOK, Eb!DispatchFails, Eb!history
  <2>2. Calm => EbArmed'
    <3>1. pc' \in {"call", "cb"} => left' = left /\ cur' = cur /\ (pc' = pc \/ (pc = "cb" /\ pc' = "call"))
      BY <1>9 DEF Eb!DispatchFails, Eb!history
    <3> QED
      BY <1>1, <3>1, ArmedKept DEF EbInv
  <2>3. Monotonic => EbTimes'
    <3> SUFFICES ASSUME Monotonic
                 PROVE  EbTimes'
      OBVIOUS
    <3>1. cache' # None => cache' <= clock'
      BY <1>9 DEF EbInv, EbGood, EbTimes, Eb!DispatchFails, Eb!history
    <3>2. pc' \in {"timeouts", "next", "call", "cb"} => cache' # None
      BY <1>3, <1>9 DEF EbInv, EbGood, EbTimes, Eb!DispatchFails, Eb!history
    <3> QED
      BY <1>1, <3>1, <3>2, TimesKept DEF EbInv
  <2> QED
    BY <2>1, <2>2, <2>3 DEF EbInv
<1>10. CASE Eb!Process
  <2>1. base.count_active > 0 => Eb!FirstActive \in 0..(NPri - 1)
    BY SomeActive, FirstActiveIs DEF EbInv, EbGood, Pris
  <2>2. EbGood'
    BY <1>2, <1>3, <1>10, <2>1 DEF EbInv, EbGood, Eb!TypeOK, Eb!Process, Eb!history
  <2>3. Calm => EbArmed'
    <3>1. pc' \in {"call", "cb"} => left' = left /\ cur' = cur /\ (pc' = pc \/ (pc = "cb" /\ pc' = "call"))
      BY <1>10 DEF Eb!Process, Eb!history
    <3> QED
      BY <1>1, <3>1, ArmedKept DEF EbInv
  <2>4. Monotonic => EbTimes'
    <3> SUFFICES ASSUME Monotonic
                 PROVE  EbTimes'
      OBVIOUS
    <3>1. cache' # None => cache' <= clock'
      BY <1>10 DEF EbInv, EbGood, EbTimes, Eb!Process, Eb!history
    <3>2. pc' \in {"timeouts", "next", "call", "cb"} => cache' # None
      BY <1>3, <1>10 DEF EbInv, EbGood, EbTimes, Eb!Process, Eb!history
    <3> QED
      BY <1>1, <3>1, <3>2, TimesKept DEF EbInv
  <2> QED
    BY <2>2, <2>3, <2>4 DEF EbInv
<1>11. CASE Eb!QueueDone
  <2>1. EbGood'
    BY <1>1, <1>2, <1>3, <1>11 DEF EbInv, EbGood, Eb!TypeOK, Eb!QueueDone, Eb!Processed, Eb!history
  <2>2. Calm => EbArmed'
    <3>1. pc' \in {"call", "cb"} => left' = left /\ cur' = cur /\ (pc' = pc \/ (pc = "cb" /\ pc' = "call"))
      BY <1>11 DEF Eb!QueueDone, Eb!Processed, Eb!history
    <3> QED
      BY <1>1, <3>1, ArmedKept DEF EbInv
  <2>3. Monotonic => EbTimes'
    <3> SUFFICES ASSUME Monotonic
                 PROVE  EbTimes'
      OBVIOUS
    <3>1. cache' # None => cache' <= clock'
      BY <1>11 DEF EbInv, EbGood, EbTimes, Eb!QueueDone, Eb!Processed, Eb!history
    <3>2. pc' \in {"timeouts", "next", "call", "cb"} => cache' # None
      BY <1>3, <1>11 DEF EbInv, EbGood, EbTimes, Eb!QueueDone, Eb!Processed, Eb!history
    <3> QED
      BY <1>1, <3>1, <3>2, TimesKept DEF EbInv
  <2> QED
    BY <2>1, <2>2, <2>3 DEF EbInv
<1>12. CASE Eb!CallsDone
  <2>1. EbGood'
    BY <1>1, <1>2, <1>3, <1>12 DEF EbInv, EbGood, Eb!TypeOK, Eb!CallsDone, Eb!history
  <2>2. Calm => EbArmed'
    <3>1. pc' \in {"call", "cb"} => left' = left /\ cur' = cur /\ (pc' = pc \/ (pc = "cb" /\ pc' = "call"))
      BY <1>12 DEF Eb!CallsDone, Eb!history
    <3> QED
      BY <1>1, <3>1, ArmedKept DEF EbInv
  <2>3. Monotonic => EbTimes'
    <3> SUFFICES ASSUME Monotonic
                 PROVE  EbTimes'
      OBVIOUS
    <3>1. cache' # None => cache' <= clock'
      BY <1>12 DEF EbInv, EbGood, EbTimes, Eb!CallsDone, Eb!history
    <3>2. pc' \in {"timeouts", "next", "call", "cb"} => cache' # None
      BY <1>3, <1>12 DEF EbInv, EbGood, EbTimes, Eb!CallsDone, Eb!history
    <3> QED
      BY <1>1, <3>1, <3>2, TimesKept DEF EbInv
  <2> QED
    BY <2>1, <2>2, <2>3 DEF EbInv
<1>13. CASE Eb!Return
  <2>1. EbGood'
    BY <1>1, <1>2, <1>3, <1>13 DEF EbInv, EbGood, Eb!TypeOK, Eb!Return, Eb!Processed, Eb!history
  <2>2. Calm => EbArmed'
    <3>1. pc' \in {"call", "cb"} => left' = left /\ cur' = cur /\ (pc' = pc \/ (pc = "cb" /\ pc' = "call"))
      BY <1>13 DEF Eb!Return, Eb!Processed, Eb!history
    <3> QED
      BY <1>1, <3>1, ArmedKept DEF EbInv
  <2>3. Monotonic => EbTimes'
    <3> SUFFICES ASSUME Monotonic
                 PROVE  EbTimes'
      OBVIOUS
    <3>1. cache' # None => cache' <= clock'
      BY <1>13 DEF EbInv, EbGood, EbTimes, Eb!Return, Eb!Processed, Eb!history
    <3>2. pc' \in {"timeouts", "next", "call", "cb"} => cache' # None
      BY <1>3, <1>13 DEF EbInv, EbGood, EbTimes, Eb!Return, Eb!Processed, Eb!history
    <3> QED
      BY <1>1, <3>1, <3>2, TimesKept DEF EbInv
  <2> QED
    BY <2>1, <2>2, <2>3 DEF EbInv
<1>14. CASE Eb!EventBaseFree
  <2>1. EbGood'
    BY <1>1, <1>2, <1>3, <1>14 DEF EbInv, EbGood, Eb!TypeOK, Eb!EventBaseFree, Eb!history
  <2>2. Calm => EbArmed'
    <3>1. pc' \in {"call", "cb"} => left' = left /\ cur' = cur /\ (pc' = pc \/ (pc = "cb" /\ pc' = "call"))
      BY <1>14 DEF Eb!EventBaseFree, Eb!history
    <3> QED
      BY <1>1, <3>1, ArmedKept DEF EbInv
  <2>3. Monotonic => EbTimes'
    <3> SUFFICES ASSUME Monotonic
                 PROVE  EbTimes'
      OBVIOUS
    <3>1. cache' # None => cache' <= clock'
      BY <1>14 DEF EbInv, EbGood, EbTimes, Eb!EventBaseFree, Eb!history
    <3>2. pc' \in {"timeouts", "next", "call", "cb"} => cache' # None
      BY <1>3, <1>14 DEF EbInv, EbGood, EbTimes, Eb!EventBaseFree, Eb!history
    <3> QED
      BY <1>1, <3>1, <3>2, TimesKept DEF EbInv
  <2> QED
    BY <2>1, <2>2, <2>3 DEF EbInv
<1>15. CASE Eb!FreeDone
  <2>1. Eb!NoneActive'
    BY <1>1, <1>15 DEF Eb!NoneActive, Eb!FreeDone
  <2>2. EbGood'
    BY <1>1, <1>2, <1>15, <2>1 DEF EbInv, EbGood, Eb!TypeOK, Eb!FreeDone, Eb!history
  <2>3. Calm => EbArmed'
    <3>1. pc' \in {"call", "cb"} => left' = left /\ cur' = cur /\ (pc' = pc \/ (pc = "cb" /\ pc' = "call"))
      BY <1>15 DEF Eb!FreeDone, Eb!history
    <3> QED
      BY <1>1, <3>1, ArmedKept DEF EbInv
  <2>4. Monotonic => EbTimes'
    <3> SUFFICES ASSUME Monotonic
                 PROVE  EbTimes'
      OBVIOUS
    <3>1. cache' # None => cache' <= clock'
      BY <1>15 DEF EbInv, EbGood, EbTimes, Eb!FreeDone, Eb!history
    <3>2. pc' \in {"timeouts", "next", "call", "cb"} => cache' # None
      BY <1>3, <1>15 DEF EbInv, EbGood, EbTimes, Eb!FreeDone, Eb!history
    <3> QED
      BY <1>1, <3>1, <3>2, TimesKept DEF EbInv
  <2> QED
    BY <2>2, <2>3, <2>4 DEF EbInv
<1>16. CASE Eb!Tick
  <2>1. EbGood'
    BY <1>1, <1>2, <1>3, <1>16 DEF EbInv, EbGood, Eb!TypeOK, Eb!Tick, Eb!history
  <2>2. Calm => EbArmed'
    <3>1. pc' \in {"call", "cb"} => left' = left /\ cur' = cur /\ (pc' = pc \/ (pc = "cb" /\ pc' = "call"))
      BY <1>16 DEF Eb!Tick, Eb!history
    <3> QED
      BY <1>1, <3>1, ArmedKept DEF EbInv
  <2>3. Monotonic => EbTimes'
    <3> SUFFICES ASSUME Monotonic
                 PROVE  EbTimes'
      OBVIOUS
    <3>1. cache' # None => cache' <= clock'
      BY <1>16 DEF EbInv, EbGood, EbTimes, Eb!Tick, Eb!history
    <3>2. pc' \in {"timeouts", "next", "call", "cb"} => cache' # None
      BY <1>3, <1>16 DEF EbInv, EbGood, EbTimes, Eb!Tick, Eb!history
    <3> QED
      BY <1>1, <3>1, <3>2, TimesKept DEF EbInv
  <2> QED
    BY <2>1, <2>2, <2>3 DEF EbInv
<1>17. CASE Eb!ClockBack
  <2>1. EbGood'
    BY <1>1, <1>2, <1>3, <1>17 DEF EbInv, EbGood, Eb!TypeOK, Eb!ClockBack
  <2>2. Calm => EbArmed'
    <3>1. pc' \in {"call", "cb"} => left' = left /\ cur' = cur /\ (pc' = pc \/ (pc = "cb" /\ pc' = "call"))
      BY <1>17 DEF Eb!ClockBack
    <3> QED
      BY <1>1, <3>1, ArmedKept DEF EbInv
  <2>3. Monotonic => EbTimes'
    <3> SUFFICES ASSUME Monotonic
                 PROVE  EbTimes'
      OBVIOUS
    <3>1. cache' # None => cache' <= clock'
      BY <1>17 DEF EbInv, EbGood, EbTimes, Eb!ClockBack
    <3>2. pc' \in {"timeouts", "next", "call", "cb"} => cache' # None
      BY <1>3, <1>17 DEF EbInv, EbGood, EbTimes, Eb!ClockBack
    <3> QED
      BY <1>1, <3>1, <3>2, TimesKept DEF EbInv
  <2> QED
    BY <2>1, <2>2, <2>3 DEF EbInv
<1> QED
  BY <1>4, <1>5, <1>6, <1>7, <1>8, <1>9, <1>10, <1>11, <1>12, <1>13, <1>14, <1>15, <1>16, <1>17 DEF QuietAction

\* Calls of the program and deletions leave the loop where it is.
LEMMA PlaceKept ==
  ASSUME EbGood, Good(base'), pc # "freed", UNCHANGED <<pc, queue, cur, clock, cache, event_tv>>,
         left' = left \/ left' = 0, faults' = faults \/ faults' = faults \cup {"stray"}
  PROVE  EbGood'
<1>1. Good(base)'
  BY GoodNext
<1>2. left' \in 0..2
  BY DEF EbGood, Eb!TypeOK
<1>3. faults' \subseteq {"stray", "deleted", "early", "earlyout"}
  BY DEF EbGood, Eb!TypeOK
<1>4. Eb!TypeOK'
  BY <1>2, <1>3 DEF EbGood, Eb!TypeOK
<1> QED
  BY <1>1, <1>4 DEF EbGood

\* event_add(), and the event of event_base_loopexit().
LEMMA AddStep ==
  ASSUME Eb!Sane, EbInv, pc \in {"out", "cb"}, NEW e \in Events, NEW tv, NEW at, tv # None => tv \in Delays,
         at = (IF tv = None THEN None ELSE Eb!Now + tv), base' = Eb!Add(base, e, at),
         since' = (IF tv = None THEN since
                   ELSE [since EXCEPT ![e] = [from |-> Eb!Asked, tv |-> tv, cb |-> pc = "cb"]]),
         armed' = (IF tv # None \/ e \in Io THEN armed \cup {e} ELSE armed),
         left' = left \/ left' = 0, UNCHANGED <<pc, queue, cur, clock, cache, event_tv>>,
         faults' = faults \/ faults' = faults \cup {"stray"}
  PROVE  EbInv' /\ (Monotonic \/ ~Eb!Prepare => TimersFrom)
<1>1. Pri[e] \in Pris /\ None \notin Int /\ (tv # None => tv \in Int)
  BY EbSaneIs
<1>2. Good(base) /\ clock \in Int /\ (cache # None => cache \in Int) /\ Eb!TypeOK
  BY DEF EbInv, EbGood
<1>3. Eb!Now \in Int /\ (at # None <=> tv # None) /\ (at # None => at = Eb!Now + tv /\ at \in Int)
  BY <1>1, <1>2 DEF Eb!Now
<1>4. PICK c : c = base'
  OBVIOUS
<1>5. /\ Good(c) /\ c.ncalls = base.ncalls /\ c.pncalls = base.pncalls
      /\ \A x \in Events : x # e => c.flags[x] = base.flags[x]
      /\ e \notin Io /\ at = None => c = base
      /\ at = None => c.timeout = base.timeout /\ ("timeout" \in c.flags[e] => "timeout" \in base.flags[e])
      /\ at # None => c.timeout = [base.timeout EXCEPT ![e] = at]
  <2>1. IsAdded(c, base, e, at)
    BY <1>1, <1>2, <1>3, <1>4, AddGood
  <2> QED
    BY <2>1 DEF IsAdded
<1>6. EbGood'
  BY <1>4, <1>5, PlaceKept DEF EbInv
<1>7. Calm => EbArmed'
  <2> SUFFICES ASSUME Calm
               PROVE  EbArmed'
    OBVIOUS
  <2>1. EbArmed
    BY DEF EbInv
  <2>2. ASSUME NEW x \in Events, c.flags[x] # {}
        PROVE  x \in armed'
    <3>1. CASE x # e
      BY <1>5, <2>1, <2>2, <3>1 DEF EbArmed
    <3>2. CASE x = e /\ (tv # None \/ e \in Io)
      BY <3>2
    <3>3. CASE x = e /\ ~(tv # None \/ e \in Io)
      BY <1>3, <1>5, <2>1, <2>2, <3>3 DEF EbArmed
    <3> QED
      BY <3>1, <3>2, <3>3
  <2>3. \A x : x \in armed => x \in armed'
    OBVIOUS
  <2> QED
    BY <1>2, <1>4, <1>5, <2>1, <2>2, <2>3 DEF EbArmed, Eb!TypeOK
<1>8. Monotonic => EbTimes'
  <2> SUFFICES ASSUME Monotonic
               PROVE  EbTimes'
    OBVIOUS
  <2>1. EbTimes
    BY DEF EbInv
  <2>2. since' = [x \in Events |-> since'[x]]
    BY <2>1 DEF EbTimes
  <2>3. base.timeout \in [Events -> Int]
    BY <1>2 DEF Good, BaseShape
  <2>4. ASSUME NEW x \in Events
        PROVE  TimerRight(x)'
    <3>1. TimerRight(x)
      BY <2>1 DEF EbTimes
    <3>2. CASE x # e
      <4>1. since'[x] = since[x] /\ c.timeout[x] = base.timeout[x] /\ c.flags[x] = base.flags[x]
        BY <1>5, <2>1, <2>3, <3>2 DEF EbTimes
      <4> QED
        BY <1>4, <3>1, <4>1 DEF TimerRight
    <3>3. CASE x = e /\ tv = None
      <4>1. since'[x] = since[x] /\ c.timeout[x] = base.timeout[x] /\ ("timeout" \in c.flags[x] => "timeout" \in base.flags[x])
        BY <1>3, <1>5, <3>3
      <4> QED
        BY <1>4, <3>1, <4>1 DEF TimerRight
    <3>4. CASE x = e /\ tv # None
      <4>1. since'[x] = [from |-> Eb!Asked, tv |-> tv, cb |-> pc = "cb"] /\ c.timeout[x] = Eb!Now + tv
        <5>1. since = [a \in Events |-> since[a]]
          BY <2>1 DEF EbTimes
        <5>2. since'[x] = [from |-> Eb!Asked, tv |-> tv, cb |-> pc = "cb"]
          BY <3>4, <5>1
        <5>3. c.timeout[x] = Eb!Now + tv
          BY <1>3, <1>5, <2>3, <3>4
        <5> QED
          BY <5>2, <5>3
      <4>2. since'[x].from = Eb!Asked /\ since'[x].tv = tv /\ (since'[x].cb = TRUE => pc = "cb")
        <5>1. PICK y : y = (pc = "cb")
          OBVIOUS
        <5>2. since'[x] = [from |-> Eb!Asked, tv |-> tv, cb |-> y]
          BY <4>1, <5>1
        <5>3. since'[x].from = Eb!Asked /\ since'[x].tv = tv /\ since'[x].cb = y
          BY <5>2
        <5>4. y = TRUE => pc = "cb"
          BY <5>1
        <5> QED
          BY <5>3, <5>4
      <4>3. pc = "cb" => cache # None
        BY <2>1 DEF EbTimes
      <4>4. Eb!Asked \in Int /\ (pc = "cb" => Eb!Asked = Eb!Now)
        BY <1>2, <4>3 DEF Eb!Asked, Eb!Now
      <4>5. pc = "cb" => since'[x].from + since'[x].tv <= c.timeout[x]
        BY <1>3, <3>4, <4>1, <4>2, <4>4
      <4> QED
        BY <1>1, <1>4, <3>4, <4>2, <4>4, <4>5 DEF TimerRight
    <3> QED
      BY <3>2, <3>3, <3>4
  <2> QED
    BY <2>1, <2>2, <2>4 DEF EbTimes
<1>9. TimersFrom
  <2>1. base.timeout \in [Events -> Int]
    BY <1>2 DEF Good, BaseShape
  <2>2. ASSUME NEW x \in Events, "timeout" \in c.flags[x]
        PROVE  \/ "timeout" \in base.flags[x] /\ c.timeout[x] = base.timeout[x]
               \/ \E d \in Delays : c.timeout[x] = Eb!Now + d
    <3>1. CASE x # e
      BY <1>5, <2>1, <2>2, <3>1
    <3>2. CASE x = e /\ tv = None
      BY <1>3, <1>5, <2>2, <3>2
    <3>3. CASE x = e /\ tv # None
      <4>1. c.timeout[x] = Eb!Now + tv
        BY <1>3, <1>5, <2>1, <3>3
      <4> QED
        BY <3>3, <4>1
    <3> QED
      BY <3>1, <3>2, <3>3
  <2> QED
    BY <1>4, <2>2 DEF TimersFrom
<1> QED
  BY <1>6, <1>7, <1>8, <1>9 DEF EbInv

\* event_del(): an event that is running is told to stop.
LEMMA DelStep ==
  ASSUME Eb!Sane, EbInv, NEW e \in Events, Eb!EventDel(e)
  PROVE  EbInv' /\ (Monotonic \/ ~Eb!Prepare => TimersFrom)
<1>1. Pri[e] \in Pris /\ None \notin Int
  BY EbSaneIs
<1>2. Good(base) /\ Eb!TypeOK
  BY DEF EbInv, EbGood
<1>3. PICK c : c = base'
  OBVIOUS
<1>4. /\ c = Eb!Del(base, e) /\ pc \in {"out", "cb"} /\ armed' = armed \ {e} /\ since' = [since EXCEPT ![e] = None]
      /\ left' = (IF Eb!Aborts(e) /\ pc = "cb" THEN 0 ELSE left)
      /\ UNCHANGED <<pc, queue, cur, clock, cache, event_tv>>
      /\ faults' = faults \/ faults' = faults \cup {"stray"}
  BY <1>3 DEF Eb!EventDel, Eb!Program, Eb!Abort, Eb!loopState
<1>5. Good(c) /\ SameFields(c, base) /\ c.flags = [base.flags EXCEPT ![e] = {}]
  BY <1>1, <1>2, <1>4, DelGood
<1>6. base.flags \in [Events -> SUBSET {"inserted", "active", "timeout"}] /\ base.timeout \in [Events -> Int]
  BY <1>2 DEF Good, BaseShape
<1>7. c.flags[e] = {} /\ \A x \in Events : x # e => c.flags[x] = base.flags[x]
  BY <1>5, <1>6
<1>8. EbGood'
  BY <1>3, <1>4, <1>5, PlaceKept DEF EbInv
<1>9. Calm => EbArmed'
  <2> SUFFICES ASSUME Calm
               PROVE  EbArmed'
    OBVIOUS
  <2>1. EbArmed
    BY DEF EbInv
  <2>2. \A x \in Events : c.flags[x] # {} => x \in armed'
    BY <1>4, <1>7, <2>1 DEF EbArmed
  <2>3. pc = "cb" /\ left > 0 /\ cur = e => Eb!Aborts(e)
    BY <1>2, <2>1 DEF EbArmed, Eb!Aborts
  <2>4. left' > 0 /\ pc = "cb" => left' = left /\ cur # e
    BY <1>4, <2>3
  <2> QED
    BY <1>2, <1>3, <1>4, <1>5, <2>1, <2>2, <2>4 DEF EbArmed, Eb!TypeOK, SameFields
<1>10. Monotonic => EbTimes'
  <2> SUFFICES ASSUME Monotonic
               PROVE  EbTimes'
    OBVIOUS
  <2>1. EbTimes
    BY DEF EbInv
  <2>2. since' = [x \in Events |-> since'[x]]
    BY <1>4, <2>1 DEF EbTimes
  <2>3. ASSUME NEW x \in Events
        PROVE  TimerRight(x)'
    <3>1. TimerRight(x)
      BY <2>1 DEF EbTimes
    <3>2. CASE x # e
      <4>1. since'[x] = since[x] /\ c.timeout[x] = base.timeout[x] /\ c.flags[x] = base.flags[x]
        BY <1>4, <1>5, <1>7, <2>1, <3>2 DEF EbTimes, SameFields
      <4> QED
        BY <1>3, <3>1, <4>1 DEF TimerRight
    <3>3. CASE x = e
      <4>1. since'[x] = None
        BY <1>4, <2>1, <3>3 DEF EbTimes
      <4> QED
        BY <4>1 DEF TimerRight
    <3> QED
      BY <3>2, <3>3
  <2> QED
    BY <1>4, <2>1, <2>2, <2>3 DEF EbTimes
<1>11. TimersFrom
  BY <1>3, <1>5, <1>7 DEF TimersFrom, SameFields
<1> QED
  BY <1>8, <1>9, <1>10, <1>11 DEF EbInv

\* event_active(): the program does not push events of signals.
LEMMA ActiveStep ==
  ASSUME Eb!Sane, EbInv, NEW e \in Events, Eb!EventActive(e)
  PROVE  EbInv' /\ (Monotonic \/ ~Eb!Prepare => TimersFrom)
<1>1. Pri[e] \in Pris /\ None \notin Int
  BY EbSaneIs
<1>2. Good(base) /\ Eb!TypeOK
  BY DEF EbInv, EbGood
<1>3. PICK c : c = base'
  OBVIOUS
<1>4. /\ c = Eb!Active(base, e, {"io"}, 1) /\ pc \in {"out", "cb"} /\ armed' = armed \cup {e} /\ e \in Pushed
      /\ UNCHANGED <<pc, queue, cur, clock, cache, event_tv, left, faults, since>>
  BY <1>3 DEF Eb!EventActive, Eb!Program, Eb!loopState
<1>5. PICK n \in 0..2 : n = 1
  OBVIOUS
<1>6. /\ Good(c) /\ c.timeout = base.timeout /\ c.flags = [base.flags EXCEPT ![e] = @ \cup {"active"}]
      /\ c.ncalls = base.ncalls \/ c.ncalls = [base.ncalls EXCEPT ![e] = 1]
      /\ c.pncalls = base.pncalls \/ c.pncalls = [base.pncalls EXCEPT ![e] = FALSE]
  <2>1. c = Eb!Active(base, e, {"io"}, n)
    BY <1>4, <1>5
  <2>2. IsActive(c, base, e, n)
    BY <1>1, <1>2, <2>1, ActiveGood
  <2> QED
    BY <1>5, <2>2 DEF IsActive
<1>7. /\ base.flags \in [Events -> SUBSET {"inserted", "active", "timeout"}]
      /\ base.ncalls \in [Events -> 0..2] /\ base.pncalls \in [Events -> BOOLEAN]
  BY <1>2 DEF Good, BaseShape
<1>8. /\ \A x \in Events : x # e => c.flags[x] = base.flags[x] /\ c.ncalls[x] = base.ncalls[x] /\ c.pncalls[x] = base.pncalls[x]
      /\ c.ncalls[e] = base.ncalls[e] \/ c.ncalls[e] = 1
      /\ "timeout" \in c.flags[e] => "timeout" \in base.flags[e]
  BY <1>6, <1>7
<1>9. EbGood'
  BY <1>3, <1>4, <1>6, PlaceKept DEF EbInv
<1>10. Calm => EbArmed'
  <2> SUFFICES ASSUME Calm
               PROVE  EbArmed'
    OBVIOUS
  <2>1. EbArmed
    BY DEF EbInv
  <2>2. \A x \in Events : c.flags[x] # {} => x \in armed'
    BY <1>4, <1>8, <2>1 DEF EbArmed
  <2>3. \A x \in Events : c.ncalls[x] = 2 => x \in Signals
    BY <1>8, <2>1 DEF EbArmed
  <2>4. pc = "cb" /\ left > 0 => cur # e /\ cur \in Events
    BY <1>2, <1>4, <2>1 DEF EbArmed, Calm, Eb!TypeOK
  <2> QED
    BY <1>2, <1>3, <1>4, <1>8, <2>1, <2>2, <2>3, <2>4 DEF EbArmed
<1>11. Monotonic => EbTimes'
  <2> SUFFICES ASSUME Monotonic
               PROVE  EbTimes'
    OBVIOUS
  <2>1. EbTimes
    BY DEF EbInv
  <2>2. ASSUME NEW x \in Events
        PROVE  TimerRight(x)'
    <3>1. TimerRight(x)
      BY <2>1 DEF EbTimes
    <3>2. since'[x] = since[x] /\ c.timeout[x] = base.timeout[x] /\ ("timeout" \in c.flags[x] => "timeout" \in base.flags[x])
      BY <1>4, <1>6, <1>8
    <3> QED
      BY <1>3, <3>1, <3>2 DEF TimerRight
  <2> QED
    BY <1>4, <2>1, <2>2 DEF EbTimes
<1>12. TimersFrom
  BY <1>3, <1>6, <1>8 DEF TimersFrom
<1> QED
  BY <1>9, <1>10, <1>11, <1>12 DEF EbInv

\* The calls that add.
LEMMA AddsStep ==
  ASSUME Eb!Sane, EbInv,
         \/ \E e \in Events, tv \in Delays \cup {None} : Eb!EventAdd(e, tv)
         \/ \E tv \in Delays : Eb!LoopExit(tv)
  PROVE  EbInv' /\ (Monotonic \/ ~Eb!Prepare => TimersFrom)
<1>1. Delays \subseteq Int /\ None \notin Int /\ Exit \in Events
  BY EbSaneIs
<1>2. ASSUME NEW e \in Events, NEW tv \in Delays \cup {None}, Eb!EventAdd(e, tv)
      PROVE  EbInv' /\ (Monotonic \/ ~Eb!Prepare => TimersFrom)
  <2>1. PICK at : at = IF tv = None THEN None ELSE Eb!Now + tv
    OBVIOUS
  <2>2. /\ pc \in {"out", "cb"} /\ base' = Eb!Add(base, e, at)
        /\ since' = (IF tv = None THEN since
                     ELSE [since EXCEPT ![e] = [from |-> Eb!Asked, tv |-> tv, cb |-> pc = "cb"]])
        /\ armed' = (IF tv # None \/ e \in Io THEN armed \cup {e} ELSE armed)
        /\ left' = left \/ left' = 0
        /\ UNCHANGED <<pc, queue, cur, clock, cache, event_tv>>
        /\ faults' = faults \/ faults' = faults \cup {"stray"}
    BY <1>2, <2>1 DEF Eb!EventAdd, Eb!Program, Eb!Abort, Eb!loopState
  <2>3. tv # None => tv \in Delays
    OBVIOUS
  <2> QED
    BY <2>1, <2>2, <2>3, AddStep
<1>3. ASSUME NEW tv \in Delays, Eb!LoopExit(tv)
      PROVE  EbInv' /\ (Monotonic \/ ~Eb!Prepare => TimersFrom)
  <2>1. PICK e \in Events : e = Exit
    BY <1>1
  <2>2. tv # None /\ (tv # None => tv \in Delays)
    BY <1>1
  <2>3. PICK at : at = IF tv = None THEN None ELSE Eb!Now + tv
    OBVIOUS
  <2>4. /\ pc \in {"out", "cb"} /\ base' = Eb!Add(base, e, at)
        /\ since' = (IF tv = None THEN since
                     ELSE [since EXCEPT ![e] = [from |-> Eb!Asked, tv |-> tv, cb |-> pc = "cb"]])
        /\ armed' = (IF tv # None \/ e \in Io THEN armed \cup {e} ELSE armed)
        /\ left' = left
        /\ UNCHANGED <<pc, queue, cur, clock, cache, event_tv, faults>>
    BY <1>3, <2>1, <2>2, <2>3 DEF Eb!LoopExit, Eb!Program, Eb!loopState
  <2> QED
    BY <2>2, <2>3, <2>4, AddStep
<1> QED
  BY <1>2, <1>3

\* The time of day may have gone back; then the loop waits.
LEMMA PrepareStep ==
  ASSUME Eb!Sane, EbInv, Eb!Prepare
  PROVE  EbInv' /\ (Monotonic \/ ~Eb!Prepare => TimersFrom)
<1>1. PICK c : c = base'
  OBVIOUS
<1>2. Good(base) /\ clock \in Int /\ event_tv \in Int /\ (cache # None => cache \in Int) /\ Eb!TypeOK
  BY DEF EbInv, EbGood
<1>3. c = Eb!Correct /\ pc = "top" /\ pc' \in {"out", "dispatch"} /\ UNCHANGED <<queue, cur, left, clock, faults, armed, since>>
      /\ (event_tv' = event_tv \/ event_tv' = Eb!Now) /\ (cache' = cache \/ cache' = None)
  BY <1>1 DEF Eb!Prepare, Eb!history
<1>4. Good(c) /\ c.flags = base.flags /\ c.ncalls = base.ncalls /\ c.pncalls = base.pncalls /\ (Monotonic => c = base)
  BY <1>2, <1>3, CorrectGood
<1>5. Good(base)'
  BY <1>1, <1>4, GoodNext
<1>6. Eb!Now \in Int
  BY <1>2 DEF Eb!Now
<1>7. EbGood'
  BY <1>2, <1>3, <1>5, <1>6 DEF EbInv, EbGood, Eb!TypeOK
<1>8. Calm => EbArmed'
  BY <1>1, <1>3, <1>4 DEF EbInv, EbArmed
<1>9. Monotonic => EbTimes'
  BY <1>1, <1>3, <1>4, TimesKept DEF EbInv, EbTimes
<1>10. Monotonic \/ ~Eb!Prepare => TimersFrom
  BY <1>1, <1>4 DEF TimersFrom
<1> QED
  BY <1>7, <1>8, <1>9, <1>10 DEF EbInv

\* What the back end reports is waited for.
LEMMA DispatchStep ==
  ASSUME Eb!Sane, EbInv, Eb!Dispatch
  PROVE  EbInv' /\ (Monotonic \/ ~Eb!Prepare => TimersFrom)
<1>1. PICK c : c = base'
  OBVIOUS
<1>2. Good(base) /\ clock \in Int /\ Eb!TypeOK /\ None \notin Int /\ Pri \in [Events -> Pris] /\ Io \subseteq Events
  BY EbSaneIs DEF EbInv, EbGood
<1>3. PICK fired \in SUBSET {e \in Io : "inserted" \in base.flags[e]}, n \in 1..2 :
        \E joining \in Eb!Orders(base, fired) : c = Eb!Activate(base, fired, n, joining)
  BY <1>1 DEF Eb!Dispatch
<1>11. PICK joining \in Eb!Orders(base, fired) : c = Eb!Activate(base, fired, n, joining)
  BY <1>3
<1>4. pc = "dispatch" /\ pc' = "timeouts" /\ cache' = clock
      /\ UNCHANGED <<queue, cur, left, clock, event_tv, faults, armed, since>>
  BY DEF Eb!Dispatch, Eb!history
<1>5. fired \in SUBSET Flg(base, "inserted")
  BY <1>2, <1>3 DEF Flg
<1>6. /\ Good(c) /\ c.timeout = base.timeout
      /\ \A e \in Events : /\ c.flags[e] = base.flags[e] \cup (IF e \in fired THEN {"active"} ELSE {})
                           /\ c.ncalls[e] = 2 => base.ncalls[e] = 2 \/ e \in Signals
  <2>1. IsActivated(c, base, fired)
    BY <1>2, <1>5, <1>11, ActivateGood
  <2> QED
    BY <2>1 DEF IsActivated
<1>7. Good(base)'
  BY <1>1, <1>6, GoodNext
<1>8. EbGood'
  BY <1>2, <1>4, <1>7 DEF EbInv, EbGood, Eb!TypeOK
<1>9. Calm => EbArmed'
  <2> SUFFICES ASSUME Calm
               PROVE  EbArmed'
    OBVIOUS
  <2>1. EbArmed
    BY DEF EbInv
  <2>2. \A x \in Events : c.flags[x] # {} => base.flags[x] # {}
    BY <1>5, <1>6 DEF Flg
  <2>3. \A x \in Events : c.flags[x] # {} => x \in armed
    BY <2>1, <2>2 DEF EbArmed
  <2> QED
    BY <1>1, <1>4, <1>6, <2>1, <2>3 DEF EbArmed
<1>10. Monotonic => EbTimes'
  <2> SUFFICES ASSUME Monotonic
               PROVE  EbTimes'
    OBVIOUS
  <2>1. EbTimes
    BY DEF EbInv
  <2>2. ASSUME NEW x \in Events
        PROVE  TimerRight(x)'
    <3>1. TimerRight(x)
      BY <2>1 DEF EbTimes
    <3>2. since'[x] = since[x] /\ c.timeout[x] = base.timeout[x] /\ ("timeout" \in c.flags[x] => "timeout" \in base.flags[x])
      BY <1>4, <1>6
    <3> QED
      BY <1>1, <3>1, <3>2 DEF TimerRight
  <2> QED
    BY <1>2, <1>4, <2>1, <2>2 DEF EbTimes
<1>12. TimersFrom
  <2>1. ASSUME NEW x \in Events, "timeout" \in c.flags[x]
        PROVE  "timeout" \in base.flags[x] /\ c.timeout[x] = base.timeout[x]
    BY <1>6, <2>1
  <2> QED
    BY <1>1, <2>1 DEF TimersFrom
<1> QED
  BY <1>8, <1>9, <1>10, <1>12 DEF EbInv

\* A timer that is due fires: it was asked for a time that has come.
LEMMA TimeoutStep ==
  ASSUME Eb!Sane, EbInv, Eb!TimeoutProcess
  PROVE  EbInv' /\ (Monotonic \/ ~Eb!Prepare => TimersFrom)
<1>1. PICK c : c = base'
  OBVIOUS
<1>2. Good(base) /\ clock \in Int /\ (cache # None => cache \in Int) /\ Eb!TypeOK
  BY DEF EbInv, EbGood
<1>3. PICK e : e = Eb!H!Top(base.timeheap)
  OBVIOUS
<1>4. /\ pc = "timeouts" /\ c = Eb!Active(Eb!Del(base, e), e, {"timeout"}, 1)
      /\ faults' = (IF Eb!Aborts(e) THEN {"stray"} ELSE {}) \cup faults \cup
                     (IF since[e] # None /\ clock < since[e].from + since[e].tv
                      THEN {IF since[e].cb THEN "early" ELSE "earlyout"} ELSE {})
      /\ since' = [since EXCEPT ![e] = None]
      /\ UNCHANGED <<pc, queue, cur, left, clock, cache, event_tv, armed>>
      /\ base.timeheap.p # <<>> /\ base.timeout[e] <= Eb!Now
  BY <1>1, <1>3 DEF Eb!TimeoutProcess, Eb!Due
<1>5. e \in Events /\ "timeout" \in base.flags[e]
  <2>1. IsHeap(base.timeheap, Flg(base, "timeout"), base.timeout)
    BY <1>2 DEF Good, BaseLists
  <2>2. Mh!Top(base.timeheap) \in Flg(base, "timeout")
    BY <1>4, <2>1, TopIs
  <2> QED
    BY <1>3, <2>2, SameHeap DEF Flg
<1>6. Pri[e] \in Pris
  BY <1>5, EbSaneIs
<1>7. PICK d : d = Eb!Del(base, e)
  OBVIOUS
<1>8. Good(d) /\ SameFields(d, base) /\ d.flags = [base.flags EXCEPT ![e] = {}]
  BY <1>2, <1>5, <1>6, <1>7, DelGood
<1>9. PICK n \in 0..2 : n = 1
  OBVIOUS
<1>10. /\ Good(c) /\ c.timeout = d.timeout /\ c.flags = [d.flags EXCEPT ![e] = @ \cup {"active"}]
       /\ c.ncalls = d.ncalls \/ c.ncalls = [d.ncalls EXCEPT ![e] = 1]
  <2>1. c = Eb!Active(d, e, {"timeout"}, n)
    BY <1>4, <1>7, <1>9
  <2>2. IsActive(c, d, e, n)
    BY <1>5, <1>6, <1>8, <2>1, ActiveGood
  <2> QED
    BY <1>9, <2>2 DEF IsActive
<1>11. /\ base.flags \in [Events -> SUBSET {"inserted", "active", "timeout"}]
       /\ base.ncalls \in [Events -> 0..2] /\ base.timeout \in [Events -> Int]
  BY <1>2 DEF Good, BaseShape
<1>12. /\ \A x \in Events : x # e => c.flags[x] = base.flags[x]
       /\ \A x \in Events : c.ncalls[x] = base.ncalls[x] \/ c.ncalls[x] = 1
       /\ c.timeout = base.timeout
  BY <1>5, <1>8, <1>10, <1>11 DEF SameFields
<1>13. Good(base)'
  BY <1>1, <1>10, GoodNext
<1>14. faults' \subseteq {"stray", "deleted", "early", "earlyout"}
  BY <1>2, <1>4 DEF Eb!TypeOK
<1>15. EbGood'
  BY <1>2, <1>4, <1>13, <1>14 DEF EbInv, EbGood, Eb!TypeOK
<1>16. Calm => EbArmed'
  <2> SUFFICES ASSUME Calm
               PROVE  EbArmed'
    OBVIOUS
  <2>1. EbArmed
    BY DEF EbInv
  <2>2. \A x \in Events : c.flags[x] # {} => x \in armed
    BY <1>5, <1>12, <2>1 DEF EbArmed
  <2>3. \A x \in Events : c.ncalls[x] = 2 => x \in Signals
    BY <1>12, <2>1 DEF EbArmed
  <2>4. "deleted" \notin faults'
    BY <1>4, <2>1 DEF EbArmed
  <2> QED
    BY <1>1, <1>4, <2>2, <2>3, <2>4 DEF EbArmed
<1>17. Monotonic => EbTimes'
  <2> SUFFICES ASSUME Monotonic
               PROVE  EbTimes'
    OBVIOUS
  <2>1. EbTimes
    BY DEF EbInv
  <2>2. since = [a \in Events |-> since[a]]
    BY <2>1 DEF EbTimes
  <2>3. since' = [x \in Events |-> since'[x]]
    BY <1>4, <2>2
  <2>4. ASSUME NEW x \in Events
        PROVE  TimerRight(x)'
    <3>1. TimerRight(x)
      BY <2>1 DEF EbTimes
    <3>2. CASE x # e
      <4>1. since'[x] = since[x] /\ c.timeout[x] = base.timeout[x] /\ c.flags[x] = base.flags[x]
        BY <1>4, <1>12, <2>2, <3>2
      <4> QED
        BY <1>1, <3>1, <4>1 DEF TimerRight
    <3>3. CASE x = e
      <4>1. since'[x] = None
        BY <1>4, <2>2, <3>3
      <4> QED
        BY <4>1 DEF TimerRight
    <3> QED
      BY <3>2, <3>3
  <2>5. since[e] # None /\ since[e].cb = TRUE => ~(clock < since[e].from + since[e].tv)
    <3> SUFFICES ASSUME since[e] # None, since[e].cb = TRUE
                 PROVE  ~(clock < since[e].from + since[e].tv)
      OBVIOUS
    <3>1. since[e].from \in Int /\ since[e].tv \in Int /\ since[e].from + since[e].tv <= base.timeout[e]
      BY <1>5, <2>1 DEF EbTimes, TimerRight
    <3>2. cache # None /\ cache <= clock /\ cache \in Int
      BY <1>2, <1>4, <2>1 DEF EbTimes
    <3>3. base.timeout[e] <= cache /\ base.timeout[e] \in Int
      BY <1>4, <1>5, <1>11, <3>2 DEF Eb!Now
    <3> QED
      BY <1>2, <3>1, <3>2, <3>3
  <2>6. "early" \notin faults'
    <3>1. "early" \notin faults
      BY <2>1 DEF EbTimes
    <3>2. CASE since[e] # None /\ clock < since[e].from + since[e].tv
      <4>1. ~(since[e].cb = TRUE)
        BY <2>5, <3>2
      <4> QED
        BY <1>4, <3>1, <3>2, <4>1
    <3>3. CASE ~(since[e] # None /\ clock < since[e].from + since[e].tv)
      BY <1>4, <3>1, <3>3
    <3> QED
      BY <3>2, <3>3
  <2> QED
    BY <1>4, <2>1, <2>3, <2>4, <2>6 DEF EbTimes
<1>18. TimersFrom
  <2>1. "timeout" \notin c.flags[e]
    <3>1. d.flags[e] = {} /\ d.flags \in [Events -> SUBSET {"inserted", "active", "timeout"}]
      BY <1>5, <1>8, <1>11
    <3> QED
      BY <1>5, <1>10, <3>1
  <2> QED
    BY <1>1, <1>12, <2>1 DEF TimersFrom
<1> QED
  BY <1>15, <1>16, <1>17, <1>18 DEF EbInv

\* The next event of the queue leaves it; unless it persists, it leaves the other lists too.
LEMMA NextEventStep ==
  ASSUME Eb!Sane, EbInv, Eb!NextEvent
  PROVE  EbInv' /\ (Monotonic \/ ~Eb!Prepare => TimersFrom)
<1>1. PICK c : c = base'
  OBVIOUS
<1>2. Good(base) /\ Eb!TypeOK /\ clock \in Int /\ (cache # None => cache \in Int)
  BY DEF EbInv, EbGood
<1>3. PICK e : e = Head(base.activequeues[queue])
  OBVIOUS
<1>4. PICK b : b = IF e \in Persist THEN Eb!QueueRemove(base, e, "active") ELSE Eb!Del(base, e)
  OBVIOUS
<1>5. /\ pc = "next" /\ base.activequeues[queue] # <<>> /\ pc' = "call" /\ cur' = e /\ left' = base.ncalls[e]
      /\ c = [b EXCEPT !.pncalls[e] = TRUE]
      /\ UNCHANGED <<queue, clock, cache, event_tv, faults, armed, since>>
  BY <1>1, <1>3, <1>4 DEF Eb!NextEvent, Eb!history
<1>6. e \in Events /\ "active" \in base.flags[e]
  <2>1. queue \in Pris
    BY <1>2 DEF Eb!TypeOK, Pris
  <2>2. ListOf(base.activequeues[queue], Waiting(base, queue))
    BY <1>2, <2>1 DEF Good, BaseLists
  <2>3. e \in Waiting(base, queue)
    BY <1>3, <1>5, <2>2, ListFirst
  <2> QED
    BY <2>3 DEF Waiting
<1>7. Pri[e] \in Pris /\ None \notin Events
  BY <1>6, EbSaneIs
<1>8. base.flags \in [Events -> SUBSET {"inserted", "active", "timeout"}] /\ base.ncalls \in [Events -> 0..2]
  BY <1>2 DEF Good, BaseShape
<1>9. /\ Good(b) /\ SameFields(b, base)
      /\ \A x \in Events : b.flags[x] \subseteq base.flags[x]
  <2>1. CASE e \in Persist
    <3>1. IsRemoved(b, base, e, "active")
      BY <1>2, <1>4, <1>6, <1>7, <2>1, RemoveGood
    <3>2. b.flags = [base.flags EXCEPT ![e] = @ \ {"active"}]
      BY <3>1 DEF IsRemoved
    <3>3. \A x \in Events : b.flags[x] \subseteq base.flags[x]
      BY <1>8, <3>2
    <3> QED
      BY <3>1, <3>3 DEF IsRemoved
  <2>2. CASE e \notin Persist
    <3>1. b = Eb!Del(base, e)
      BY <1>4, <2>2
    <3>2. Good(b) /\ SameFields(b, base) /\ b.flags = [base.flags EXCEPT ![e] = {}]
      BY <1>2, <1>6, <1>7, <3>1, DelGood
    <3>3. \A x \in Events : b.flags[x] \subseteq base.flags[x]
      BY <1>8, <3>2
    <3> QED
      BY <3>2, <3>3
  <2> QED
    BY <2>1, <2>2
<1>10. BaseShape(b)
  BY <1>9 DEF Good
<1>11. PICK pn : pn = [b.pncalls EXCEPT ![e] = TRUE]
  OBVIOUS
<1>12. /\ c = [flags |-> c.flags, eventqueue |-> c.eventqueue, activequeues |-> c.activequeues,
               timeheap |-> c.timeheap, timeout |-> c.timeout, res |-> c.res, ncalls |-> c.ncalls,
               pncalls |-> c.pncalls, count |-> c.count, count_active |-> c.count_active]
       /\ c.flags = b.flags /\ c.eventqueue = b.eventqueue /\ c.activequeues = b.activequeues
       /\ c.timeheap = b.timeheap /\ c.timeout = b.timeout /\ c.ncalls = b.ncalls /\ c.pncalls = pn
       /\ c.count = b.count /\ c.count_active = b.count_active
  <2>1. c = [b EXCEPT !.pncalls = pn]
    BY <1>5, <1>11
  <2> QED
    BY <1>10, <2>1 DEF BaseShape
<1>13. pn \in [Events -> BOOLEAN] /\ pn[e] = TRUE
  <2>1. b.pncalls \in [Events -> BOOLEAN]
    BY <1>10 DEF BaseShape
  <2> QED
    BY <1>6, <1>11, <2>1
<1>14. BaseShape(c)
  BY <1>10, <1>12, <1>13 DEF BaseShape
<1>15. Good(base)'
  <2>1. Good(c)
    BY <1>9, <1>12, <1>14, SameLists
  <2> QED
    BY <1>1, <2>1, GoodNext
<1>16. base.ncalls[e] \in 0..2
  BY <1>6, <1>8
<1>17. EbGood'
  BY <1>2, <1>5, <1>6, <1>7, <1>15, <1>16 DEF EbInv, EbGood, Eb!TypeOK
<1>18. Calm => EbArmed'
  <2> SUFFICES ASSUME Calm
               PROVE  EbArmed'
    OBVIOUS
  <2>1. EbArmed
    BY DEF EbInv
  <2>2. \A x \in Events : c.flags[x] # {} => x \in armed
    BY <1>9, <1>12, <2>1 DEF EbArmed
  <2>3. c.ncalls = base.ncalls
    BY <1>9, <1>12 DEF SameFields
  <2>4. e \in armed /\ (base.ncalls[e] = 2 => e \in Signals)
    BY <1>6, <2>1 DEF EbArmed
  <2>5. c.pncalls[e] = TRUE /\ c.ncalls[e] = base.ncalls[e]
    BY <1>12, <1>13, <2>3
  <2> QED
    BY <1>1, <1>5, <2>1, <2>2, <2>3, <2>4, <2>5 DEF EbArmed
<1>19. Monotonic => EbTimes'
  <2> SUFFICES ASSUME Monotonic
               PROVE  EbTimes'
    OBVIOUS
  <2>1. EbTimes
    BY DEF EbInv
  <2>2. ASSUME NEW x \in Events
        PROVE  TimerRight(x)'
    <3>1. TimerRight(x)
      BY <2>1 DEF EbTimes
    <3>2. since'[x] = since[x] /\ c.timeout[x] = base.timeout[x] /\ ("timeout" \in c.flags[x] => "timeout" \in base.flags[x])
      BY <1>5, <1>9, <1>12 DEF SameFields
    <3> QED
      BY <1>1, <3>1, <3>2 DEF TimerRight
  <2> QED
    BY <1>5, <2>1, <2>2 DEF EbTimes
<1>20. TimersFrom
  BY <1>1, <1>9, <1>12 DEF TimersFrom, SameFields
<1> QED
  BY <1>17, <1>18, <1>19, <1>20 DEF EbInv

\* A call begins: the event may be called, and may be called again as long as calls are left.
LEMMA CallStep ==
  ASSUME Eb!Sane, EbInv, Eb!Call
  PROVE  EbInv' /\ (Monotonic \/ ~Eb!Prepare => TimersFrom)
<1>1. PICK c : c = base'
  OBVIOUS
<1>2. Good(base) /\ Eb!TypeOK /\ clock \in Int /\ (cache # None => cache \in Int)
  BY DEF EbInv, EbGood
<1>3. /\ pc = "call" /\ left > 0 /\ pc' = "cb" /\ left' = left - 1
      /\ c = [base EXCEPT !.ncalls[cur] = left - 1]
      /\ faults' = (IF cur \in armed THEN faults ELSE faults \cup {"deleted"})
      /\ armed' = (IF cur \in Persist \/ left > 1 \/ base.flags[cur] # {} THEN armed ELSE armed \ {cur})
      /\ UNCHANGED <<queue, cur, clock, cache, event_tv, since>>
  BY <1>1 DEF Eb!Call
<1>4. cur \in Events /\ left \in 1..2 /\ left - 1 \in 0..1 /\ None \notin Events
  BY <1>2, <1>3, EbSaneIs DEF Eb!TypeOK
<1>5. BaseShape(base)
  BY <1>2 DEF Good
<1>6. PICK nc : nc = [base.ncalls EXCEPT ![cur] = left - 1]
  OBVIOUS
<1>7. /\ c = [flags |-> c.flags, eventqueue |-> c.eventqueue, activequeues |-> c.activequeues,
              timeheap |-> c.timeheap, timeout |-> c.timeout, res |-> c.res, ncalls |-> c.ncalls,
              pncalls |-> c.pncalls, count |-> c.count, count_active |-> c.count_active]
      /\ c.flags = base.flags /\ c.eventqueue = base.eventqueue /\ c.activequeues = base.activequeues
      /\ c.timeheap = base.timeheap /\ c.timeout = base.timeout /\ c.ncalls = nc /\ c.pncalls = base.pncalls
      /\ c.count = base.count /\ c.count_active = base.count_active
  <2>1. c = [base EXCEPT !.ncalls = nc]
    BY <1>3, <1>6
  <2> QED
    BY <1>5, <2>1 DEF BaseShape
<1>8. base.ncalls \in [Events -> 0..2]
  BY <1>5 DEF BaseShape
<1>9. nc \in [Events -> 0..2] /\ nc[cur] = left - 1 /\ \A x \in Events : x # cur => nc[x] = base.ncalls[x]
  <2>1. left - 1 \in 0..2
    BY <1>4
  <2> QED
    BY <1>4, <1>6, <1>8, <2>1
<1>10. BaseShape(c)
  BY <1>5, <1>7, <1>9 DEF BaseShape
<1>11. Good(base)'
  <2>1. Good(c)
    BY <1>2, <1>7, <1>10, SameLists
  <2> QED
    BY <1>1, <2>1, GoodNext
<1>12. left' \in 0..2 /\ faults' \subseteq {"stray", "deleted", "early", "earlyout"}
  BY <1>2, <1>3, <1>4 DEF Eb!TypeOK
<1>13. EbGood'
  BY <1>2, <1>3, <1>4, <1>11, <1>12 DEF EbInv, EbGood, Eb!TypeOK
<1>14. Calm => EbArmed'
  <2> SUFFICES ASSUME Calm
               PROVE  EbArmed'
    OBVIOUS
  <2>1. EbArmed
    BY DEF EbInv
  <2>2. cur \in armed /\ base.pncalls[cur] = TRUE /\ "deleted" \notin faults'
    BY <1>3, <2>1 DEF EbArmed
  <2>3. \A x \in Events : c.flags[x] # {} => x \in armed'
    BY <1>3, <1>7, <2>1 DEF EbArmed
  <2>4. \A x \in Events : c.ncalls[x] = 2 => x \in Signals
    BY <1>4, <1>7, <1>9, <2>1 DEF EbArmed
  <2>5. left' > 0 => left = 2 /\ left' = 1 /\ cur \in Signals /\ cur \in armed'
    <3>1. left' > 0 => left = 2 /\ left' = 1
      BY <1>3, <1>4
    <3>2. left = 2 => cur \in Signals /\ left > 1
      BY <1>3, <2>1 DEF EbArmed
    <3>3. left > 1 => armed' = armed
      BY <1>3
    <3> QED
      BY <2>2, <3>1, <3>2, <3>3
  <2>6. c.ncalls[cur] = left' /\ c.pncalls[cur] = TRUE
    BY <1>3, <1>7, <1>9, <2>2
  <2> QED
    BY <1>1, <1>3, <2>2, <2>3, <2>4, <2>5, <2>6 DEF EbArmed
<1>15. Monotonic => EbTimes'
  <2> SUFFICES ASSUME Monotonic
               PROVE  EbTimes'
    OBVIOUS
  <2>1. EbTimes
    BY DEF EbInv
  <2>2. "early" \notin faults'
    BY <1>3, <2>1 DEF EbTimes
  <2>3. ASSUME NEW x \in Events
        PROVE  TimerRight(x)'
    <3>1. TimerRight(x)
      BY <2>1 DEF EbTimes
    <3> QED
      BY <1>1, <1>3, <1>7, <3>1 DEF TimerRight
  <2> QED
    BY <1>3, <2>1, <2>2, <2>3 DEF EbTimes
<1>16. TimersFrom
  BY <1>1, <1>7 DEF TimersFrom
<1> QED
  BY <1>13, <1>14, <1>15, <1>16 DEF EbInv

\* event_base_free() deletes an event.
LEMMA FreedStep ==
  ASSUME Eb!Sane, EbInv, NEW e \in Events, pc = "freeing", Eb!Freed(e)
  PROVE  EbInv' /\ (Monotonic \/ ~Eb!Prepare => TimersFrom)
<1>1. Pri[e] \in Pris
  BY EbSaneIs
<1>2. Good(base) /\ Eb!TypeOK
  BY DEF EbInv, EbGood
<1>3. PICK c : c = base'
  OBVIOUS
<1>4. /\ c = Eb!Del(base, e)
      /\ UNCHANGED <<pc, queue, cur, left, clock, cache, event_tv, armed, since>>
      /\ faults' = faults \/ faults' = faults \cup {"stray"}
  BY <1>3 DEF Eb!Freed, Eb!history
<1>5. Good(c) /\ SameFields(c, base) /\ c.flags = [base.flags EXCEPT ![e] = {}]
  BY <1>1, <1>2, <1>4, DelGood
<1>6. base.flags \in [Events -> SUBSET {"inserted", "active", "timeout"}]
  BY <1>2 DEF Good, BaseShape
<1>7. \A x \in Events : c.flags[x] \subseteq base.flags[x]
  BY <1>5, <1>6
<1>8. EbGood'
  BY <1>3, <1>4, <1>5, PlaceKept DEF EbInv
<1>9. Calm => EbArmed'
  <2> SUFFICES ASSUME Calm
               PROVE  EbArmed'
    OBVIOUS
  <2>1. EbArmed
    BY DEF EbInv
  <2>2. \A x \in Events : c.flags[x] # {} => x \in armed
    BY <1>7, <2>1 DEF EbArmed
  <2> QED
    BY <1>3, <1>4, <1>5, <2>1, <2>2 DEF EbArmed, SameFields
<1>10. Monotonic => EbTimes'
  <2> SUFFICES ASSUME Monotonic
               PROVE  EbTimes'
    OBVIOUS
  <2>1. EbTimes
    BY DEF EbInv
  <2>2. ASSUME NEW x \in Events
        PROVE  TimerRight(x)'
    <3>1. TimerRight(x)
      BY <2>1 DEF EbTimes
    <3>2. since'[x] = since[x] /\ c.timeout[x] = base.timeout[x] /\ ("timeout" \in c.flags[x] => "timeout" \in base.flags[x])
      BY <1>4, <1>5, <1>7 DEF SameFields
    <3> QED
      BY <1>3, <3>1, <3>2 DEF TimerRight
  <2> QED
    BY <1>4, <2>1, <2>2 DEF EbTimes
<1>11. TimersFrom
  BY <1>3, <1>5, <1>7 DEF TimersFrom, SameFields
<1> QED
  BY <1>8, <1>9, <1>10, <1>11 DEF EbInv

LEMMA FreeStep ==
  ASSUME Eb!Sane, EbInv, Eb!FreeInserted \/ Eb!FreeTimer \/ Eb!FreeActive
  PROVE  EbInv' /\ (Monotonic \/ ~Eb!Prepare => TimersFrom)
<1>1. Good(base) /\ BaseLists(base)
  BY DEF EbInv, EbGood, Good
<1>2. CASE Eb!FreeInserted
  <2>1. PICK e : e = Head(base.eventqueue)
    OBVIOUS
  <2>2. e \in Events
    <3>1. base.eventqueue # <<>> /\ ListOf(base.eventqueue, Flg(base, "inserted"))
      BY <1>1, <1>2 DEF Eb!FreeInserted, BaseLists
    <3>2. Head(base.eventqueue) \in Flg(base, "inserted")
      BY <3>1, ListFirst
    <3> QED
      BY <2>1, <3>2 DEF Flg
  <2>3. pc = "freeing" /\ Eb!Freed(e)
    BY <1>2, <2>1 DEF Eb!FreeInserted
  <2> QED
    BY <2>2, <2>3, FreedStep
<1>3. CASE Eb!FreeTimer
  <2>1. PICK e : e = Eb!H!Top(base.timeheap)
    OBVIOUS
  <2>2. e \in Events
    <3>1. base.timeheap.p # <<>> /\ IsHeap(base.timeheap, Flg(base, "timeout"), base.timeout)
      BY <1>1, <1>3 DEF Eb!FreeTimer, BaseLists
    <3>2. Mh!Top(base.timeheap) \in Flg(base, "timeout")
      BY <3>1, TopIs
    <3> QED
      BY <2>1, <3>2, SameHeap DEF Flg
  <2>3. pc = "freeing" /\ Eb!Freed(e)
    BY <1>3, <2>1 DEF Eb!FreeTimer
  <2> QED
    BY <2>2, <2>3, FreedStep
<1>4. CASE Eb!FreeActive
  <2>1. PICK i : i = Eb!FirstActive
    OBVIOUS
  <2>2. i \in Pris /\ base.activequeues[i] # <<>>
    <3>1. ~Eb!NoneActive
      BY <1>4 DEF Eb!FreeActive
    <3> QED
      BY <2>1, <3>1, FirstActiveIs
  <2>3. PICK e : e = Head(base.activequeues[i])
    OBVIOUS
  <2>4. e \in Events
    <3>1. ListOf(base.activequeues[i], Waiting(base, i))
      BY <1>1, <2>2 DEF BaseLists
    <3>2. Head(base.activequeues[i]) \in Waiting(base, i)
      BY <2>2, <3>1, ListFirst
    <3> QED
      BY <2>3, <3>2 DEF Waiting
  <2>5. pc = "freeing" /\ Eb!Freed(e)
    BY <1>4, <2>1, <2>3 DEF Eb!FreeActive
  <2> QED
    BY <2>4, <2>5, FreedStep
<1> QED
  BY <1>2, <1>3, <1>4

\* No event is added yet.
LEMMA EbStarts ==
  ASSUME Eb!Sane, Eb!Init
  PROVE  EbInv
<1>1. NPri \in Nat \ {0} /\ None \notin Int /\ None \notin Events
  BY EbSaneIs
<1>2. base = [flags |-> [e \in Events |-> {}], eventqueue |-> <<>>,
              activequeues |-> [i \in 0..(NPri - 1) |-> <<>>],
              timeheap |-> [p |-> <<>>, idx |-> [e \in Events |-> -1]],
              timeout |-> [e \in Events |-> 0], res |-> [e \in Events |-> {}],
              ncalls |-> [e \in Events |-> 0], pncalls |-> [e \in Events |-> FALSE],
              count |-> 0, count_active |-> 0]
  BY DEF Eb!Init, Eb!EmptyBase, Eb!H!EmptyHeap
<1>3. /\ base.flags = [e \in Events |-> {}] /\ base.eventqueue = <<>>
      /\ base.activequeues = [i \in Pris |-> <<>>]
      /\ base.timeheap = [p |-> <<>>, idx |-> [e \in Events |-> -1]]
      /\ base.timeout = [e \in Events |-> 0] /\ base.ncalls = [e \in Events |-> 0]
      /\ base.pncalls = [e \in Events |-> FALSE] /\ base.count = 0 /\ base.count_active = 0
  BY <1>2 DEF Pris
<1>4. BaseShape(base)
  <2>1. base = [flags |-> base.flags, eventqueue |-> base.eventqueue, activequeues |-> base.activequeues,
                timeheap |-> base.timeheap, timeout |-> base.timeout, res |-> base.res,
                ncalls |-> base.ncalls, pncalls |-> base.pncalls, count |-> base.count,
                count_active |-> base.count_active]
    BY <1>2
  <2> QED
    BY <1>3, <2>1 DEF BaseShape
<1>5. (\A q : Flg(base, q) = {}) /\ (\A i : Waiting(base, i) = {})
  BY <1>3 DEF Flg, Waiting
<1>6. BaseLists(base)
  <2>1. ListOf(<<>>, {})
    BY DEF ListOf
  <2>2. PICK h : h = base.timeheap
    OBVIOUS
  <2>3. h.p = <<>> /\ h.idx = [e \in Events |-> -1] /\ h = [p |-> h.p, idx |-> h.idx]
    BY <1>3, <2>2
  <2>4. HeapType(h) /\ Len(h.p) = 0
    BY <2>3 DEF HeapType
  <2>5. IsFiniteSet({}) /\ Cardinality({}) = 0
    BY FS_EmptySet
  <2>6. Placed(h, 0, -1, {}) /\ Sorted(h, 0, -1, base.timeout)
    BY <2>3 DEF Placed, Sorted
  <2>7. IsHeap(h, {}, base.timeout)
    BY <2>3, <2>4, <2>5, <2>6 DEF IsHeap
  <2>8. ListOf(base.eventqueue, Flg(base, "inserted")) /\ IsHeap(base.timeheap, Flg(base, "timeout"), base.timeout)
    BY <1>3, <1>5, <2>1, <2>2, <2>7
  <2>9. ASSUME NEW i \in Pris
        PROVE  ListOf(base.activequeues[i], Waiting(base, i))
    <3>1. base.activequeues[i] = <<>> /\ Waiting(base, i) = {}
      BY <1>3, <1>5
    <3> QED
      BY <2>1, <3>1
  <2> QED
    BY <2>8, <2>9 DEF BaseLists
<1>7. BaseCounts(base)
  <2>1. IsFiniteSet({}) /\ Cardinality({}) = 0
    BY FS_EmptySet
  <2>2. Flg(base, "inserted") = {} /\ Flg(base, "active") = {} /\ Flg(base, "timeout") = {}
    BY <1>5
  <2>3. base.count = 0 /\ base.count_active = 0
    BY <1>3
  <2> QED
    BY <2>1, <2>2, <2>3 DEF BaseCounts
<1>8. EbGood
  <2>1. Good(base)
    BY <1>4, <1>6, <1>7 DEF Good
  <2> QED
    BY <1>1, <2>1 DEF EbGood, Eb!TypeOK, Eb!Init
<1>9. EbArmed
  BY <1>3 DEF EbArmed, Eb!Init
<1>10. EbTimes
  BY <1>1 DEF EbTimes, TimerRight, Eb!Init
<1> QED
  BY <1>8, <1>9, <1>10 DEF EbInv

LEMMA QuietTimers ==
  ASSUME QuietAction
  PROVE  TimersFrom
<1>1. UNCHANGED base
  BY QuietSame
<1> QED
  BY <1>1 DEF TimersFrom

LEMMA EbStep ==
  ASSUME Eb!Sane, EbInv, [Eb!Next]_(Eb!vars)
  PROVE  EbInv' /\ (Monotonic \/ ~Eb!Prepare => TimersFrom)
<1>1. CASE UNCHANGED Eb!vars
  <2>1. UNCHANGED <<base, pc, queue, cur, left, clock, cache, event_tv, armed, since, faults>>
    BY <1>1 DEF Eb!vars
  <2>2. EbGood'
    BY <2>1, PlaceStays DEF EbInv
  <2>3. EbArmed => EbArmed'
    BY <2>1 DEF EbArmed
  <2>4. EbTimes => EbTimes'
    BY <2>1 DEF EbTimes, TimerRight
  <2>5. TimersFrom
    BY <2>1 DEF TimersFrom
  <2> QED
    BY <2>2, <2>3, <2>4, <2>5 DEF EbInv
<1>2. CASE Eb!Calls
  <2>1. CASE \/ \E e \in Events, tv \in Delays \cup {None} : Eb!EventAdd(e, tv)
             \/ \E tv \in Delays : Eb!LoopExit(tv)
    BY <2>1, AddsStep
  <2>2. CASE (\E e \in Events : Eb!EventAddFails(e)) \/ Eb!LoopBreak
    BY <2>2, QuietStep, QuietTimers DEF QuietAction
  <2>3. CASE \E e \in Events : Eb!EventDel(e)
    BY <2>3, DelStep
  <2>4. CASE \E e \in Events : Eb!EventActive(e)
    BY <2>4, ActiveStep
  <2> QED
    BY <1>2, <2>1, <2>2, <2>3, <2>4 DEF Eb!Calls
<1>3. CASE Eb!Loop
  <2>1. CASE Eb!Terminate \/ Eb!Process \/ Eb!QueueDone \/ Eb!CallsDone \/ Eb!Return
    BY <2>1, QuietStep, QuietTimers DEF QuietAction
  <2> QED
    BY <1>3, <2>1, PrepareStep, DispatchStep, TimeoutStep, NextEventStep, CallStep DEF Eb!Loop
<1>4. CASE \/ Eb!DispatchInterrupted \/ Eb!DispatchFails
           \/ \E f \in {"wait", "once", "nonblock"} : Eb!EventBaseLoop(f)
           \/ Eb!EventBaseFree \/ Eb!Tick \/ Eb!ClockBack \/ Eb!FreeDone
  BY <1>4, QuietStep, QuietTimers DEF QuietAction
<1>5. CASE Eb!FreeInserted \/ Eb!FreeTimer \/ Eb!FreeActive
  BY <1>5, FreeStep
<1> QED
  BY <1>1, <1>2, <1>3, <1>4, <1>5 DEF Eb!Next, Eb!Free

\* What the invariant says of the lists, the counters and the heap.
LEMMA GoodAgrees ==
  ASSUME Eb!Sane, EbGood
  PROVE  Eb!ListsAgree /\ Eb!FreedEmpty
<1>1. BaseShape(base) /\ BaseLists(base) /\ BaseCounts(base)
  BY DEF EbGood, Good
<1>2. Eb!Flagged("inserted") = Flg(base, "inserted") /\ Eb!Flagged("active") = Flg(base, "active")
      /\ Eb!Flagged("timeout") = Flg(base, "timeout")
  BY DEF Eb!Flagged, Flg
<1>3. ASSUME NEW e \in Events
      PROVE  /\ Eb!Once(base.eventqueue, e) = (IF e \in Eb!Flagged("inserted") THEN 1 ELSE 0)
             /\ \A i \in 0..(NPri - 1) : Eb!Once(base.activequeues[i], e) =
                                          (IF e \in Eb!Flagged("active") /\ Pri[e] = i THEN 1 ELSE 0)
  <2>1. Eb!Once(base.eventqueue, e) = (IF e \in Flg(base, "inserted") THEN 1 ELSE 0)
    BY <1>1, ListOnce DEF BaseLists
  <2>2. ASSUME NEW i \in 0..(NPri - 1)
        PROVE  Eb!Once(base.activequeues[i], e) = (IF e \in Flg(base, "active") /\ Pri[e] = i THEN 1 ELSE 0)
    <3>1. ListOf(base.activequeues[i], Waiting(base, i))
      BY <1>1 DEF BaseLists, Pris
    <3>2. Eb!Once(base.activequeues[i], e) = IF e \in Waiting(base, i) THEN 1 ELSE 0
      BY <3>1, ListOnce
    <3>3. e \in Waiting(base, i) <=> e \in Flg(base, "active") /\ Pri[e] = i
      BY DEF Waiting, Flg
    <3> QED
      BY <3>2, <3>3
  <2> QED
    BY <1>2, <2>1, <2>2
<1>4. /\ base.count_active = Eb!Cardinality(Eb!Flagged("active"))
      /\ base.count = Eb!Cardinality(Eb!Flagged("inserted")) + Eb!Cardinality(Eb!Flagged("timeout"))
                      + base.count_active
  BY <1>1, <1>2, SameCount DEF BaseCounts
<1>5. Eb!H!HeapOrdered /\ Eb!H!HeapIndexed
  <2>1. PICK h, S, k : h = base.timeheap /\ S = Flg(base, "timeout") /\ k = base.timeout
    OBVIOUS
  <2>2. IsHeap(h, S, k)
    BY <1>1, <2>1 DEF BaseLists
  <2>3. PICK n \in Nat : n = Len(h.p)
    BY <2>2 DEF IsHeap, HeapType
  <2>4. Placed(h, n, -1, S) /\ Sorted(h, n, -1, k) /\ n = Cardinality(S)
        /\ \A x \in Events \ S : h.idx[x] = -1
    BY <2>2, <2>3 DEF IsHeap
  <2>5. \A i \in 1..(n - 1) : k[Mh!At(h, Mh!Parent(i))] <= k[Mh!At(h, i)]
    BY <2>4, SortedPair
  <2>6. \A i : Eb!H!At(h, i) = Mh!At(h, i) /\ Eb!H!Parent(i) = Mh!Parent(i)
    BY DEF Eb!H!At, Eb!H!Parent, Mh!At, Mh!Parent
  <2>7. \A i \in 1..(n - 1) : k[Eb!H!At(h, Eb!H!Parent(i))] <= k[Eb!H!At(h, i)]
    BY <2>5, <2>6
  <2>8. Eb!H!HeapOrdered
    BY <2>1, <2>3, <2>7 DEF Eb!H!HeapOrdered
  <2>9. \A e \in S : h.idx[e] \in 0..(n - 1) /\ Eb!H!At(h, h.idx[e]) = e
    BY <2>4, <2>6 DEF Placed
  <2>10. ASSUME NEW e \in Events
         PROVE  IF e \in S THEN h.idx[e] \in 0..(Len(h.p) - 1) /\ Eb!H!At(h, h.idx[e]) = e
                ELSE h.idx[e] = -1
    BY <2>3, <2>4, <2>9
  <2>11. Len(h.p) = Eb!H!Cardinality(S)
    BY <2>3, <2>4, SameCount
  <2>12. Eb!H!HeapIndexed
    BY <1>2, <2>1, <2>10, <2>11 DEF Eb!H!HeapIndexed
  <2> QED
    BY <2>8, <2>12
<1>6. Eb!ListsAgree
  BY <1>3, <1>4, <1>5 DEF Eb!ListsAgree
<1>7. Eb!FreedEmpty
  <2> SUFFICES ASSUME pc = "freed"
               PROVE  /\ base.eventqueue = <<>> /\ base.timeheap.p = <<>> /\ Eb!NoneActive
                      /\ base.count = 0 /\ base.count_active = 0
    BY DEF Eb!FreedEmpty
  <2>1. base.eventqueue = <<>> /\ base.timeheap.p = <<>> /\ Eb!NoneActive
    BY DEF EbGood
  <2>2. base.count_active = 0
    BY <2>1, SomeActive DEF EbGood
  <2>3. Flg(base, "inserted") = {}
    BY <1>1, <2>1, ListFirst DEF BaseLists
  <2>4. Cardinality(Flg(base, "timeout")) = 0
    <3>1. IsHeap(base.timeheap, Flg(base, "timeout"), base.timeout)
      BY <1>1 DEF BaseLists
    <3>2. Cardinality(Flg(base, "timeout")) = Len(base.timeheap.p)
      BY <3>1 DEF IsHeap
    <3> QED
      BY <2>1, <3>2
  <2>5. base.count = 0
    BY <1>1, <2>2, <2>3, <2>4, FS_EmptySet DEF BaseCounts
  <2> QED
    BY <2>1, <2>2, <2>5
<1> QED
  BY <1>6, <1>7

-----------------------------------------------------------------------------
(* How long the loop sleeps.                                               *)

Longest(d) == d \in Delays /\ \A x \in Delays : x <= d

\* No timer is further away than the longest timeout, and the dispatch gives up by then.
EbSleep ==
  \A d \in Delays : Longest(d) =>
     /\ \A e \in Events : "timeout" \in base.flags[e] => base.timeout[e] <= Eb!Now + d
     /\ pc = "dispatch" /\ until # None /\ base.count_active = 0 => until \in Int /\ until - clock <= d

\* What a step other than Prepare does to the time and to a dispatch.
OnlyWaits == /\ clock' \in {clock, clock + 1}
             /\ cache' \in {cache, None, clock}
             /\ pc' = "dispatch" => pc = "dispatch" /\ UNCHANGED <<base, until>>

LEMMA NowGrows ==
  ASSUME EbTimes, clock \in Int, cache # None => cache \in Int, None \notin Int,
         clock' \in {clock, clock + 1}, cache' \in {cache, None, clock}
  PROVE  /\ Eb!Now \in Int /\ Eb!Now' \in Int /\ clock' \in Int
         /\ Eb!Now <= Eb!Now' /\ Eb!Now <= clock /\ clock <= clock'
BY DEF EbTimes, Eb!Now

\* Timers do not move away while time goes on.
LEMMA TimersNear ==
  ASSUME Eb!Sane, EbGood, Good(base'), EbTimes, EbSleep, TimersFrom,
         clock' \in {clock, clock + 1}, cache' \in {cache, None, clock},
         NEW d \in Delays, Longest(d), NEW e \in Events, "timeout" \in base'.flags[e]
  PROVE  base'.timeout[e] <= Eb!Now' + d
<1>1. Delays \subseteq Int /\ None \notin Int /\ clock \in Int /\ (cache # None => cache \in Int)
  BY EbSaneIs DEF EbGood
<1>2. PICK m \in Int, n \in Int : m = Eb!Now /\ n = Eb!Now' /\ m <= n
  BY <1>1, NowGrows
<1>3. PICK t \in Int : t = base'.timeout[e]
  BY DEF Good, BaseShape
<1>4. d \in Int
  BY <1>1
<1>5. CASE "timeout" \in base.flags[e] /\ base'.timeout[e] = base.timeout[e]
  <2>1. t <= m + d
    BY <1>2, <1>3, <1>5 DEF EbSleep
  <2> QED
    BY <1>2, <1>3, <1>4, <2>1
<1>6. CASE \E tv \in Delays : base'.timeout[e] = Eb!Now + tv
  <2>1. PICK tv \in Delays : t = m + tv
    BY <1>2, <1>3, <1>6
  <2>2. tv \in Int /\ tv <= d
    BY <1>1 DEF Longest
  <2> QED
    BY <1>2, <1>3, <1>4, <2>1, <2>2
<1> QED
  BY <1>5, <1>6 DEF TimersFrom

LEMMA SleepKept ==
  ASSUME Eb!Sane, EbGood, Good(base'), EbTimes, EbSleep, TimersFrom, OnlyWaits
  PROVE  EbSleep'
<1>1. Delays \subseteq Int /\ None \notin Int /\ clock \in Int /\ (cache # None => cache \in Int)
  BY EbSaneIs DEF EbGood
<1>2. clock' \in Int /\ clock <= clock'
  BY <1>1 DEF OnlyWaits
<1>3. ASSUME NEW d \in Delays, Longest(d)
      PROVE  /\ \A e \in Events : "timeout" \in base'.flags[e] => base'.timeout[e] <= Eb!Now' + d
             /\ pc' = "dispatch" /\ until' # None /\ base'.count_active = 0 => until' \in Int /\ until' - clock' <= d
  <2>1. \A e \in Events : "timeout" \in base'.flags[e] => base'.timeout[e] <= Eb!Now' + d
    BY <1>3, TimersNear DEF OnlyWaits
  <2>2. ASSUME pc' = "dispatch", until' # None, base'.count_active = 0
        PROVE  until' \in Int /\ until' - clock' <= d
    <3>1. base' = base /\ until' = until /\ pc = "dispatch"
      BY <2>2 DEF OnlyWaits
    <3>2. base.count_active = 0 /\ until # None
      BY <2>2, <3>1
    <3>3. until \in Int /\ until - clock <= d
      BY <1>3, <3>1, <3>2 DEF EbSleep
    <3>4. PICK t \in Int, u \in Int, w \in Int, n \in Int : t = until /\ u = clock /\ w = clock' /\ n = d
      BY <1>1, <1>2, <3>3
    <3>5. t - u <= n /\ u <= w
      BY <1>2, <3>3, <3>4
    <3>6. t - w <= n
      BY <3>5
    <3> QED
      BY <3>1, <3>4, <3>6
  <2> QED
    BY <2>1, <2>2
<1> QED
  BY <1>3 DEF EbSleep, Longest

\* Every other step only waits.
LEMMA OthersWait ==
  ASSUME Eb!Sane, Monotonic, [Eb!Next]_(Eb!vars), ~Eb!Prepare
  PROVE  OnlyWaits
<1>1. Monotonic = TRUE
  BY EbSaneIs
<1>2. CASE UNCHANGED Eb!vars
  BY <1>2 DEF Eb!vars, OnlyWaits
<1>3. CASE Eb!Calls
  <2>1. pc \in {"out", "cb"} /\ UNCHANGED <<pc, clock, cache>>
    BY <1>3 DEF Eb!Calls, Eb!EventAdd, Eb!EventAddFails, Eb!EventDel, Eb!EventActive, Eb!LoopExit,
                Eb!LoopBreak, Eb!Program, Eb!loopState
  <2> QED
    BY <2>1 DEF OnlyWaits
<1>4. CASE Eb!Loop
  BY <1>4 DEF OnlyWaits, Eb!Loop, Eb!Terminate, Eb!Dispatch, Eb!TimeoutProcess, Eb!Process, Eb!NextEvent,
              Eb!QueueDone, Eb!Processed, Eb!Call, Eb!CallsDone, Eb!Return
<1>5. CASE \/ Eb!DispatchInterrupted \/ Eb!DispatchFails
           \/ \E f \in {"wait", "once", "nonblock"} : Eb!EventBaseLoop(f)
           \/ Eb!EventBaseFree \/ Eb!Tick \/ Eb!ClockBack
  BY <1>1, <1>5 DEF OnlyWaits, Eb!DispatchInterrupted, Eb!DispatchFails, Eb!EventBaseLoop, Eb!EventBaseFree,
                    Eb!Tick, Eb!ClockBack
<1>6. CASE Eb!Free
  BY <1>6 DEF OnlyWaits, Eb!Free, Eb!FreeInserted, Eb!FreeTimer, Eb!FreeActive, Eb!FreeDone, Eb!Freed
<1> QED
  BY <1>2, <1>3, <1>4, <1>5, <1>6 DEF Eb!Next

\* timeout_next(): the dispatch waits until the first timer is due.
LEMMA PrepareSleeps ==
  ASSUME Eb!Sane, Monotonic, EbGood, Good(base'), EbTimes, EbSleep, TimersFrom, Eb!Prepare
  PROVE  EbSleep'
<1>1. Delays \subseteq Int /\ None \notin Int /\ clock \in Int /\ (cache # None => cache \in Int) /\ Good(base)
  BY EbSaneIs DEF EbGood
<1>2. base' = base /\ clock' = clock /\ cache' \in {cache, None}
  BY DEF Eb!Prepare, Eb!Correct
<1>3. PICK m \in Int : m = Eb!Now
  BY <1>1 DEF Eb!Now
<1>4. PICK f : f = Eb!H!Top(base.timeheap)
  OBVIOUS
<1>5. pc' = "dispatch" => \/ until' = clock
                          \/ base.timeheap.p = <<>> /\ until' = None
                          \/ base.timeheap.p # <<>> /\ until' = base.timeout[f] + (clock - m)
  BY <1>2, <1>3, <1>4 DEF Eb!Prepare, Eb!TimeoutNext
<1>6. ASSUME NEW d \in Delays, Longest(d)
      PROVE  /\ \A e \in Events : "timeout" \in base'.flags[e] => base'.timeout[e] <= Eb!Now' + d
             /\ pc' = "dispatch" /\ until' # None /\ base'.count_active = 0 => until' \in Int /\ until' - clock' <= d
  <2>1. \A e \in Events : "timeout" \in base'.flags[e] => base'.timeout[e] <= Eb!Now' + d
    BY <1>2, <1>6, TimersNear
  <2>2. ASSUME pc' = "dispatch", until' # None
        PROVE  until' \in Int /\ until' - clock' <= d
    <3>1. d \in Nat
      BY DEF Eb!Sane
    <3>2. CASE until' = clock
      BY <1>1, <1>2, <3>1, <3>2
    <3>3. CASE base.timeheap.p # <<>> /\ until' = base.timeout[f] + (clock - m)
      <4>1. IsHeap(base.timeheap, Flg(base, "timeout"), base.timeout)
        BY <1>1 DEF Good, BaseLists
      <4>2. Mh!Top(base.timeheap) \in Flg(base, "timeout")
        BY <3>3, <4>1, TopIs
      <4>3. f \in Events /\ "timeout" \in base.flags[f]
        BY <1>4, <4>2, SameHeap DEF Flg
      <4>4. PICK t \in Int : t = base.timeout[f]
        BY <1>1, <4>3 DEF Good, BaseShape
      <4>5. t <= m + d
        BY <1>3, <1>6, <4>3, <4>4 DEF EbSleep
      <4> QED
        BY <1>1, <1>2, <3>1, <3>3, <4>4, <4>5
    <3> QED
      BY <1>5, <2>2, <3>2, <3>3
  <2> QED
    BY <2>1, <2>2
<1> QED
  BY <1>6 DEF EbSleep, Longest

LEMMA SleepStep ==
  ASSUME Eb!Sane, Monotonic, EbInv, EbSleep, [Eb!Next]_(Eb!vars)
  PROVE  EbSleep'
<1>1. EbGood /\ EbTimes
  BY DEF EbInv
<1>2. EbInv' /\ TimersFrom
  BY EbStep
<1>3. Good(base')
  BY <1>2 DEF EbInv, EbGood, Good, BaseShape, BaseLists, BaseCounts, Flg, Waiting, ListOf, IsHeap, HeapType,
              Placed, Sorted, Pris, Mh!At, Mh!Parent
<1>4. CASE Eb!Prepare
  BY <1>1, <1>2, <1>3, <1>4, PrepareSleeps
<1>5. CASE ~Eb!Prepare
  BY <1>1, <1>2, <1>3, <1>5, OthersWait, SleepKept
<1> QED
  BY <1>4, <1>5

-----------------------------------------------------------------------------
(* How long the loop sleeps when the time of day is set back.              *)

Running == {"top", "dispatch", "timeouts", "next", "call", "cb"}

\* The loop runs, or has yet to be called.
Ahead == pc \in Running \/ (pc = "out" /\ loops > 0)

\* event_base_loop() is called once; the time is cached in its callbacks, and not before
\* it is called or while it sleeps.
CalledOnce == /\ loops \in Int /\ loops <= 1
              /\ pc \in Running => loops <= 0
              /\ pc \in {"timeouts", "next", "call", "cb"} => cache # None
              /\ pc = "dispatch" \/ (pc = "out" /\ loops > 0) => cache = None

\* A timer is no further away than d from the time that the loop has last seen, or from now.
Near(e, d) == base.timeout[e] <= event_tv + d \/ (pc # "dispatch" /\ base.timeout[e] <= Eb!Now + d)

Waits(d) == pc = "dispatch" /\ until # None /\ base.count_active = 0 => until \in Int /\ until - clock <= d

EbBack == /\ CalledOnce
          /\ \A d \in Delays : Longest(d) /\ Ahead =>
               /\ \A e \in Events : "timeout" \in base.flags[e] => Near(e, d)
               /\ Waits(d)

\* What a step other than Prepare does to the time and to a dispatch.
StillWaits == /\ pc = "dispatch" /\ pc' = "dispatch" /\ UNCHANGED base
              /\ \/ until' = until /\ clock' \in {clock, clock + 1}
                 \/ until' = None
                 \/ until # None /\ until' = until - 1 /\ clock' = clock - 1
GoesOn == pc' # "dispatch" /\ (Ahead' => Eb!Now' \in {Eb!Now, Eb!Now + 1})
Moves == /\ event_tv' = event_tv
         /\ Ahead' => Ahead
         /\ StillWaits \/ GoesOn

\* Where the loop goes in each step.
LEMMA MovesOn ==
  ASSUME Eb!Sane, EbGood, CalledOnce, [Eb!Next]_(Eb!vars), ~Eb!Prepare
  PROVE  Moves /\ CalledOnce'
<1>1. None \notin Int /\ clock \in Int /\ event_tv \in Int /\ (cache # None => cache \in Int) /\ loops \in Int
  BY EbSaneIs DEF EbGood, CalledOnce
<1>2. CASE UNCHANGED Eb!vars
  BY <1>1, <1>2 DEF Eb!vars, Moves, StillWaits, GoesOn, Ahead, CalledOnce, Eb!Now
<1>3. CASE Eb!Calls
  <2>1. pc \in {"out", "cb"} /\ UNCHANGED <<pc, clock, cache, event_tv, loops>>
    BY <1>3 DEF Eb!Calls, Eb!EventAdd, Eb!EventAddFails, Eb!EventDel, Eb!EventActive, Eb!LoopExit,
                Eb!LoopBreak, Eb!Program, Eb!loopState
  <2> QED
    BY <2>1 DEF Moves, GoesOn, Ahead, CalledOnce, Running, Eb!Now
<1>4. CASE Eb!Terminate \/ Eb!DispatchFails
  <2>1. pc \in Running /\ pc' = "out" /\ UNCHANGED <<event_tv, loops>>
    BY <1>4 DEF Eb!Terminate, Eb!DispatchFails, Running
  <2>2. loops <= 0
    BY <2>1 DEF CalledOnce
  <2> QED
    BY <1>1, <2>1, <2>2 DEF Moves, GoesOn, Ahead, CalledOnce, Running
<1>5. CASE Eb!Dispatch \/ Eb!DispatchInterrupted
  <2>1. pc = "dispatch" /\ pc' = "timeouts" /\ cache' = clock /\ UNCHANGED <<event_tv, loops, clock>>
    BY <1>5 DEF Eb!Dispatch, Eb!DispatchInterrupted
  <2> QED
    BY <1>1, <2>1 DEF Moves, GoesOn, Ahead, CalledOnce, Running, Eb!Now
<1>6. CASE Eb!TimeoutProcess \/ Eb!NextEvent \/ Eb!Call \/ Eb!CallsDone
  <2>1. pc \in {"timeouts", "next", "call"} /\ pc' \in {"timeouts", "next", "call", "cb"}
        /\ UNCHANGED <<cache, clock, event_tv, loops>>
    BY <1>6 DEF Eb!TimeoutProcess, Eb!NextEvent, Eb!Call, Eb!CallsDone
  <2> QED
    BY <1>1, <2>1 DEF Moves, GoesOn, Ahead, CalledOnce, Running, Eb!Now
<1>7. CASE Eb!Process \/ Eb!QueueDone \/ Eb!Return
  <2>1. /\ pc \in {"timeouts", "next", "cb"} /\ UNCHANGED <<clock, event_tv, loops>>
        /\ (pc' \in {"top", "next", "call"} /\ cache' = cache) \/ pc' = "out"
    BY <1>7 DEF Eb!Process, Eb!QueueDone, Eb!Return, Eb!Processed
  <2>2. loops <= 0 /\ cache # None /\ pc \in Running
    BY <2>1 DEF CalledOnce, Running
  <2> QED
    BY <1>1, <2>1, <2>2 DEF Moves, GoesOn, Ahead, CalledOnce, Running, Eb!Now
<1>8. CASE \E f \in {"wait", "once", "nonblock"} : Eb!EventBaseLoop(f)
  <2>1. pc = "out" /\ loops > 0 /\ pc' = "top" /\ cache' = None /\ loops' = loops - 1 /\ UNCHANGED <<clock, event_tv>>
    BY <1>8 DEF Eb!EventBaseLoop
  <2>2. loops' <= 0 /\ loops' \in Int
    BY <1>1, <2>1 DEF CalledOnce
  <2> QED
    BY <1>1, <2>1, <2>2 DEF Moves, GoesOn, Ahead, CalledOnce, Running, Eb!Now
<1>9. CASE Eb!EventBaseFree \/ Eb!Free
  <2>1. pc' \in {"freeing", "freed"} /\ UNCHANGED <<event_tv, loops>>
    BY <1>9 DEF Eb!EventBaseFree, Eb!Free, Eb!FreeInserted, Eb!FreeTimer, Eb!FreeActive, Eb!FreeDone, Eb!Freed
  <2> QED
    BY <1>1, <2>1 DEF Moves, GoesOn, Ahead, CalledOnce, Running
<1>10. CASE Eb!Tick
  <2>1. /\ pc \in {"out", "cb", "dispatch"} /\ clock' = clock + 1
        /\ UNCHANGED <<base, pc, until, cache, event_tv, loops>>
    BY <1>10 DEF Eb!Tick
  <2>2. CalledOnce'
    BY <2>1 DEF CalledOnce
  <2>3. pc = "dispatch" => StillWaits
    BY <2>1 DEF StillWaits
  <2>4. pc # "dispatch" => GoesOn
    BY <2>1 DEF GoesOn, Eb!Now
  <2> QED
    BY <2>1, <2>2, <2>3, <2>4 DEF Moves, Ahead
<1>11. CASE Eb!ClockBack
  <2>1. /\ pc \in {"cb", "dispatch"} /\ clock' = clock - 1 /\ until' = IF until = None THEN None ELSE until - 1
        /\ UNCHANGED <<base, pc, cache, event_tv, loops>>
    BY <1>11 DEF Eb!ClockBack
  <2>2. CalledOnce'
    BY <2>1 DEF CalledOnce
  <2>3. pc = "dispatch" => StillWaits
    BY <2>1 DEF StillWaits
  <2>4. pc # "dispatch" => GoesOn
    BY <2>1 DEF GoesOn, CalledOnce, Eb!Now
  <2> QED
    BY <2>1, <2>2, <2>3, <2>4 DEF Moves, Ahead
<1> QED
  BY <1>2, <1>3, <1>4, <1>5, <1>6, <1>7, <1>8, <1>9, <1>10, <1>11 DEF Eb!Next, Eb!Loop

\* Timers stay near and the dispatch ends in time.
LEMMA BackKept ==
  ASSUME Eb!Sane, EbGood, Good(base'), EbBack, TimersFrom, Moves, NEW d \in Delays, Longest(d), Ahead'
  PROVE  /\ \A e \in Events : "timeout" \in base'.flags[e] => Near(e, d)'
         /\ Waits(d)'
<1>1. Delays \subseteq Int /\ None \notin Int /\ clock \in Int /\ event_tv \in Int /\ (cache # None => cache \in Int)
  BY EbSaneIs DEF EbGood
<1>2. Ahead /\ event_tv' = event_tv
  BY DEF Moves
<1>3. (\A e \in Events : "timeout" \in base.flags[e] => Near(e, d)) /\ Waits(d)
  BY <1>2 DEF EbBack
<1>4. PICK m \in Int, v \in Int, k \in Int : m = Eb!Now /\ v = event_tv /\ k = d
  BY <1>1 DEF Eb!Now
<1>5. CASE StillWaits
  <2>1. ASSUME NEW e \in Events, "timeout" \in base'.flags[e]
        PROVE  Near(e, d)'
    BY <1>2, <1>3, <1>5, <2>1 DEF Near, StillWaits
  <2>2. ASSUME until' # None, base'.count_active = 0
        PROVE  until' \in Int /\ until' - clock' <= d
    <3>1. CASE until' = until /\ clock' \in {clock, clock + 1}
      <4>1. until \in Int /\ until - clock <= d
        BY <1>3, <1>5, <2>2, <3>1 DEF Waits, StillWaits
      <4>2. PICK t \in Int, c \in Int : t = until /\ c = clock
        BY <1>1, <4>1
      <4>3. t - c <= k /\ t - (c + 1) <= k
        BY <1>4, <4>1, <4>2
      <4> QED
        BY <1>4, <3>1, <4>2, <4>3
    <3>2. CASE until # None /\ until' = until - 1 /\ clock' = clock - 1
      <4>1. until \in Int /\ until - clock <= d
        BY <1>3, <1>5, <2>2, <3>2 DEF Waits, StillWaits
      <4>2. PICK t \in Int, c \in Int : t = until /\ c = clock
        BY <1>1, <4>1
      <4>3. (t - 1) - (c - 1) <= k
        BY <1>4, <4>1, <4>2
      <4> QED
        BY <1>4, <3>2, <4>2, <4>3
    <3> QED
      BY <1>5, <2>2, <3>1, <3>2 DEF StillWaits
  <2> QED
    BY <2>1, <2>2 DEF Waits
<1>6. CASE GoesOn
  <2>1. PICK n \in Int : n = Eb!Now' /\ m <= n
    BY <1>4, <1>6 DEF GoesOn
  <2>4. m <= n
    BY <2>1
  <2>2. ASSUME NEW e \in Events, "timeout" \in base'.flags[e]
        PROVE  Near(e, d)'
    <3>1. PICK t \in Int : t = base'.timeout[e]
      BY DEF Good, BaseShape
    <3>2. t <= v + k \/ t <= n + k
      <4>1. CASE "timeout" \in base.flags[e] /\ base'.timeout[e] = base.timeout[e]
        <5>1. t <= v + k \/ t <= m + k
          BY <1>3, <1>4, <3>1, <4>1 DEF Near
        <5> QED
          BY <1>4, <2>1, <3>1, <5>1
      <4>2. CASE \E tv \in Delays : base'.timeout[e] = Eb!Now + tv
        <5>1. PICK tv \in Delays : t = m + tv
          BY <1>4, <3>1, <4>2
        <5>2. tv \in Int /\ tv <= k
          BY <1>1, <1>4 DEF Longest
        <5>3. PICK w \in Int : w = tv
          BY <5>2
        <5>4. t = m + w /\ w <= k
          BY <5>1, <5>2, <5>3
        <5>5. t <= n + k
          <6>1. m + w <= n + w
            BY <2>4
          <6>2. n + w <= n + k
            BY <5>4
          <6>3. t = m + w
            BY <5>4
          <6> QED
            BY <6>1, <6>2, <6>3
        <5> QED
          BY <5>5
      <4> QED
        BY <2>2, <4>1, <4>2 DEF TimersFrom
    <3> QED
      BY <1>2, <1>4, <1>6, <2>1, <3>1, <3>2 DEF Near, GoesOn
  <2>3. Waits(d)'
    BY <1>6 DEF Waits, GoesOn
  <2> QED
    BY <2>2, <2>3
<1> QED
  BY <1>5, <1>6 DEF Moves

\* timeout_correct() moves the timers with the time, so that the next of them is near.
LEMMA PrepareBack ==
  ASSUME Eb!Sane, ~Monotonic, EbGood, Good(base'), EbBack, Eb!Prepare
  PROVE  EbBack'
<1>1. Delays \subseteq Int /\ None \notin Int /\ clock \in Int /\ event_tv \in Int /\ (cache # None => cache \in Int)
      /\ Good(base) /\ loops \in Int
  BY EbSaneIs DEF EbGood, EbBack, CalledOnce
<1>2. PICK m \in Int, v \in Int : m = Eb!Now /\ v = event_tv
  BY <1>1 DEF Eb!Now
<1>3. pc = "top" /\ loops <= 0 /\ Ahead
  BY DEF Eb!Prepare, EbBack, CalledOnce, Running, Ahead
<1>4. CASE base.count = 0
  <2>1. pc' = "out" /\ loops' = loops /\ UNCHANGED cache
    BY <1>4 DEF Eb!Prepare
  <2> QED
    BY <1>1, <1>3, <2>1 DEF EbBack, CalledOnce, Ahead, Running
<1>5. CASE base.count # 0
  <2>1. /\ pc' = "dispatch" /\ cache' = None /\ event_tv' = m /\ clock' = clock /\ loops' = loops
        /\ until' = IF base.count_active > 0 \/ flag = "nonblock" THEN clock ELSE Eb!TimeoutNext(base')
    BY <1>2, <1>5 DEF Eb!Prepare
  <2>2. CalledOnce'
    BY <1>1, <1>3, <2>1 DEF CalledOnce, Running
  <2>3. PICK c : c = base'
    OBVIOUS
  <2>4. c = Eb!Correct /\ Good(c)
    BY <2>3 DEF Eb!Prepare
  <2>5. c.flags = base.flags
    BY <1>1, <2>4, CorrectGood
  <2>6. ASSUME NEW d \in Delays, Longest(d)
        PROVE  /\ \A e \in Events : "timeout" \in base'.flags[e] => Near(e, d)'
               /\ Waits(d)'
    <3>1. d \in Nat
      BY DEF Eb!Sane
    <3>2. ASSUME NEW e \in Events, "timeout" \in c.flags[e]
          PROVE  c.timeout[e] \in Int /\ c.timeout[e] <= m + d
      <4>1. PICK t \in Int : t = base.timeout[e]
        BY <1>1 DEF Good, BaseShape
      <4>2. t <= v + d \/ t <= m + d
        BY <1>2, <1>3, <2>5, <2>6, <3>2, <4>1 DEF EbBack, Near
      <4>3. CASE m >= v
        <5>1. c = base
          BY <1>2, <2>4, <4>3 DEF Eb!Correct
        <5> QED
          BY <3>1, <4>1, <4>2, <4>3, <5>1
      <4>4. CASE ~(m >= v)
        <5>1. c = [base EXCEPT !.timeout = [x \in Events |->
                     IF "timeout" \in base.flags[x] THEN base.timeout[x] - (v - m) ELSE base.timeout[x]]]
          BY <1>2, <2>4, <4>4 DEF Eb!Correct
        <5>2. c.timeout[e] = t - (v - m)
          BY <1>1, <2>5, <3>2, <4>1, <5>1 DEF Good, BaseShape
        <5> QED
          BY <3>1, <4>2, <4>4, <5>2
      <4> QED
        BY <4>3, <4>4
    <3>3. \A e \in Events : "timeout" \in base'.flags[e] => Near(e, d)'
      BY <2>1, <2>3, <3>2 DEF Near
    <3>4. ASSUME until' # None
          PROVE  until' \in Int /\ until' - clock' <= d
      <4>1. PICK f : f = Mh!Top(c.timeheap)
        OBVIOUS
      <4>2. CASE until' = clock
        BY <1>1, <2>1, <3>1, <4>2
      <4>3. CASE c.timeheap.p # <<>> /\ until' = c.timeout[f] + (clock - m)
        <5>1. IsHeap(c.timeheap, Flg(c, "timeout"), c.timeout)
          BY <2>4 DEF Good, BaseLists
        <5>2. f \in Flg(c, "timeout")
          BY <4>1, <4>3, <5>1, TopIs
        <5>3. c.timeout[f] \in Int /\ c.timeout[f] <= m + d
          BY <3>2, <5>2 DEF Flg
        <5>4. PICK t \in Int, k \in Int : t = c.timeout[f] /\ k = clock
          BY <1>1, <5>3
        <5>5. t <= m + d /\ (t + (k - m)) - k <= d
          BY <3>1, <5>3, <5>4
        <5> QED
          BY <2>1, <4>3, <5>4, <5>5
      <4>4. until' = clock \/ (c.timeheap.p # <<>> /\ until' = c.timeout[f] + (clock - m))
        BY <1>2, <2>1, <2>3, <3>4, <4>1, SameHeap DEF Eb!TimeoutNext
      <4> QED
        BY <4>2, <4>3, <4>4
    <3> QED
      BY <3>3, <3>4 DEF Waits
  <2> QED
    BY <2>2, <2>6 DEF EbBack, Longest
<1> QED
  BY <1>4, <1>5

LEMMA BackStep ==
  ASSUME Eb!Sane, ~Monotonic, EbInv, EbBack, [Eb!Next]_(Eb!vars)
  PROVE  EbBack'
<1>1. EbGood
  BY DEF EbInv
<1>2. EbInv' /\ (~Eb!Prepare => TimersFrom)
  BY EbStep
<1>3. Good(base')
  BY <1>2 DEF EbInv, EbGood, Good, BaseShape, BaseLists, BaseCounts, Flg, Waiting, ListOf, IsHeap, HeapType,
              Placed, Sorted, Pris, Mh!At, Mh!Parent
<1>4. CASE Eb!Prepare
  BY <1>1, <1>3, <1>4, PrepareBack
<1>5. CASE ~Eb!Prepare
  <2>1. CalledOnce
    BY DEF EbBack
  <2>2. Moves /\ CalledOnce'
    BY <1>1, <1>5, <2>1, MovesOn
  <2>3. TimersFrom
    BY <1>2, <1>5
  <2>4. ASSUME NEW d \in Delays, Longest(d), Ahead'
        PROVE  /\ \A e \in Events : "timeout" \in base'.flags[e] => Near(e, d)'
               /\ Waits(d)'
    BY <1>1, <1>3, <2>2, <2>3, <2>4, BackKept
  <2> QED
    BY <2>2, <2>4 DEF EbBack, Longest
<1> QED
  BY <1>4, <1>5

(***************************************************************************)
(* For every number of events and priorities, after any calls of the       *)
(* program from any callbacks: each list of the base holds the events      *)
(* whose ev_flags say so, once each, event_count and event_count_active    *)
(* count them, the timeouts form a heap in which every event knows its     *)
(* place, and event_base_free() leaves nothing behind, as its asserts say. *)
(***************************************************************************)
THEOREM BaseListsAgree ==
  Eb!Sane => (Eb!Spec => [](Eb!TypeOK /\ Eb!ListsAgree /\ Eb!FreedEmpty))
<1> SUFFICES ASSUME Eb!Sane
             PROVE  Eb!Spec => [](Eb!TypeOK /\ Eb!ListsAgree /\ Eb!FreedEmpty)
  OBVIOUS
<1>1. Eb!Init => EbInv
  BY EbStarts
<1>2. EbInv /\ [Eb!Next]_(Eb!vars) => EbInv'
  BY EbStep
<1>3. EbInv => Eb!TypeOK /\ Eb!ListsAgree /\ Eb!FreedEmpty
  BY GoodAgrees DEF EbInv, EbGood
<1> QED
  BY <1>1, <1>2, <1>3, PTL DEF Eb!Spec

(***************************************************************************)
(* Once event_del() has returned, the callback of the event is not called  *)
(* until the event is added or activated again, even by the loop over      *)
(* ev_ncalls of event_process_active() from which event_del() was called.  *)
(* The hypothesis is needed: event_active() on the event of a signal that  *)
(* runs clears ev_pncalls, and event_del() no longer ends that loop.       *)
(***************************************************************************)
THEOREM NoCallAfterDelete ==
  Eb!Sane /\ Pushed \cap Signals = {} => (Eb!Spec => []Eb!NoCallAfterDel)
<1> SUFFICES ASSUME Eb!Sane, Pushed \cap Signals = {}
             PROVE  Eb!Spec => []Eb!NoCallAfterDel
  OBVIOUS
<1>1. Eb!Init => EbInv
  BY EbStarts
<1>2. EbInv /\ [Eb!Next]_(Eb!vars) => EbInv'
  BY EbStep
<1>3. EbInv => Eb!NoCallAfterDel
  BY DEF EbInv, Calm, EbArmed, Eb!NoCallAfterDel
<1> QED
  BY <1>1, <1>2, <1>3, PTL DEF Eb!Spec

(***************************************************************************)
(* With a monotonic clock, a timer that a callback asked for never fires   *)
(* before its time, although it counts from the time that the loop cached  *)
(* when its dispatch returned.                                             *)
(***************************************************************************)
THEOREM TimersNeverEarly ==
  Eb!Sane /\ Monotonic => (Eb!Spec => []Eb!NeverEarly)
<1> SUFFICES ASSUME Eb!Sane, Monotonic
             PROVE  Eb!Spec => []Eb!NeverEarly
  OBVIOUS
<1>1. Eb!Init => EbInv
  BY EbStarts
<1>2. EbInv /\ [Eb!Next]_(Eb!vars) => EbInv'
  BY EbStep
<1>3. EbInv => Eb!NeverEarly
  BY DEF EbInv, EbTimes, Eb!NeverEarly
<1> QED
  BY <1>1, <1>2, <1>3, PTL DEF Eb!Spec

(***************************************************************************)
(* No dispatch of event_base_loop() is told to wait longer than the        *)
(* longest timeout that event_add() was ever given, even when the time of  *)
(* day, in which the timeouts are kept, is set back while the loop sleeps  *)
(* or a callback runs: timeout_correct() moves the timeouts with it.  The  *)
(* hypothesis is needed: without a monotonic clock, a loop that is called  *)
(* again after loopbreak does not see what was set back in between.        *)
(***************************************************************************)
THEOREM SleepsBounded ==
  Eb!Sane /\ (Monotonic \/ MaxLoops <= 1) => (Eb!Spec => []Eb!SleepBounded)
<1> SUFFICES ASSUME Eb!Sane, Monotonic \/ MaxLoops <= 1
             PROVE  Eb!Spec => []Eb!SleepBounded
  OBVIOUS
<1> DEFINE Sleeps == IF Monotonic THEN EbSleep ELSE EbBack
<1>1. Eb!Init => EbInv /\ Sleeps
  <2> SUFFICES ASSUME Eb!Init
               PROVE  EbInv /\ Sleeps
    OBVIOUS
  <2>1. \A e \in Events : "timeout" \notin base.flags[e]
    BY DEF Eb!Init, Eb!EmptyBase
  <2>2. EbSleep
    BY <2>1 DEF EbSleep, Eb!Init
  <2>3. ~Monotonic => EbBack
    <3>1. MaxLoops \in Int /\ loops = MaxLoops /\ pc = "out" /\ cache = None
      BY DEF Eb!Sane, Eb!Init
    <3> QED
      BY <2>1, <3>1 DEF EbBack, CalledOnce, Waits, Running
  <2> QED
    BY <2>2, <2>3, EbStarts
<1>2. (EbInv /\ Sleeps) /\ [Eb!Next]_(Eb!vars) => (EbInv /\ Sleeps)'
  BY EbStep, SleepStep, BackStep
<1>3. EbInv /\ Sleeps => Eb!SleepBounded
  <2>1. EbSleep => Eb!SleepBounded
    BY DEF EbSleep, Longest, Eb!SleepBounded
  <2>2. EbBack => Eb!SleepBounded
    BY DEF EbBack, Ahead, Running, Waits, Longest, Eb!SleepBounded
  <2> QED
    BY <2>1, <2>2
<1> HIDE DEF Sleeps
<1> QED
  BY <1>1, <1>2, <1>3, PTL DEF Eb!Spec
=============================================================================
