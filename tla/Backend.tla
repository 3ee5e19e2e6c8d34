------------------------------ MODULE Backend ------------------------------
(***************************************************************************)
(* What event.c expects of a back end (struct eventop in                   *)
(* event-internal.h): the events it has been given are watched, and a      *)
(* dispatch activates exactly those of them whose descriptor is ready.     *)
(* Every kind of event of a descriptor is in Events: for reading, writing  *)
(* or both, with and without EV_PERSIST.  A back end has room for one      *)
(* event for each direction of a descriptor; a program gives it no more.   *)
(* A dispatch is taken together with event_process_active(), which takes   *)
(* an event without EV_PERSIST out before it calls it.                     *)
(***************************************************************************)
EXTENDS Integers, Sequences, FiniteSets, FiniteSetsExt

CONSTANTS Fds,          \* the descriptors
          Persists,     \* the values of EV_PERSIST
          BothOnce,     \* whether an event may have both directions and no EV_PERSIST
          Conditions,   \* what a descriptor may be: subsets of {"r", "w", "hup"}
          Outcomes,     \* whether a system call of add may succeed or fail
          None          \* no event

VARIABLES inserted,   \* the events with EVLIST_INSERTED
          ready,      \* the state of the descriptors in the last dispatch
          reported    \* the events it activated, with the directions that they asked for

Dirs == {"r", "w"}

Events == {e \in [fd : Fds, what : {{"r"}, {"w"}, {"r", "w"}}, persist : Persists] :
             BothOnce \/ e.persist \/ e.what # Dirs}

\* What the constants have to be.
Sane == /\ Fds \subseteq Nat /\ IsFiniteSet(Fds)
        /\ Persists \subseteq BOOLEAN /\ BothOnce \in BOOLEAN
        /\ Outcomes \subseteq BOOLEAN
        /\ {} \in Conditions /\ Conditions \subseteq SUBSET {"r", "w", "hup"}
        /\ None \notin Events

Quiet == [fd \in Fds |-> {}]

CanInsert(e) == \A f \in inserted : f.fd # e.fd \/ f.what \cap e.what = {}

InsertEvent(e) == /\ CanInsert(e)
                  /\ inserted' = inserted \cup {e}
                  /\ ready' = Quiet /\ reported' = {}

\* The back end refuses: event_add() returns -1 and the event is not inserted.
RefuseEvent(e) == /\ CanInsert(e)
                  /\ ready' = Quiet /\ reported' = {}
                  /\ UNCHANGED inserted

DeleteEvent(e) == /\ e \in inserted
                  /\ inserted' = inserted \ {e}
                  /\ ready' = Quiet /\ reported' = {}

\* The state r of the descriptors concerns the direction d of fd.
Concerns(r, fd, d) == r[fd] \cap {d, "hup"} # {}

\* The event is taken out before its callback runs.
Once(rep) == {e \in Events : ~e.persist /\ \E d \in Dirs : <<e, d>> \in rep}

\* What a dispatch has to activate.
Hits(r) == {x \in inserted \X Dirs : x[2] \in x[1].what /\ Concerns(r, x[1].fd, x[2])}

Report(r) == /\ ready' = r
             /\ reported' = Hits(r)
             /\ inserted' = inserted \ Once(reported')

BackendInit == inserted = {} /\ ready = Quiet /\ reported = {}
BackendNext == \/ \E e \in Events : InsertEvent(e) \/ RefuseEvent(e) \/ DeleteEvent(e)
               \/ \E r \in [Fds -> Conditions] : Report(r)

\* The back end reports every event that is ready and asked for, and no other: not one
\* that was deleted, refused or never added.
BackendSpec == BackendInit /\ [][BackendNext]_<<inserted, ready, reported>>
=============================================================================
