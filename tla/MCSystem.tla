------------------------------ MODULE MCSystem ------------------------------
(***************************************************************************)
(* The parts of libevent that face the kernel and the network, for TLC:    *)
(* the signals, the seven back ends of the event loop, and evdns with its  *)
(* resolver (two servers, a queue, servers that are cleared and put back), *)
(* names, messages, server side, searches and resolv.conf.  part says      *)
(* which of them a behaviour is about; op is the structure of a back end.  *)
(***************************************************************************)
EXTENDS Signal

VARIABLES part,
          inserted, ready, reported, op,                     \* the back ends
          g, link, rfaults,                                  \* Resolver
          buf, table, wrote, mode,                           \* DnsName
          query, seen, sections, reply, result,              \* DnsMessage
          port, req, sock, queued, sent, crash, sfaults,     \* DnsServer
          heap, global, search, servers, status, configs     \* DnsSearch

be == <<inserted, ready, reported, op>>
rs == <<g, link, rfaults>>
nm == <<buf, table, wrote, mode>>
ms == <<query, seen, sections, reply, result>>
sv == <<port, req, sock, queued, sent, crash, sfaults>>
se == <<heap, global, search, servers, status, configs>>
all == <<part, vars, be, rs, nm, ms, sv, se>>

\* The signals: two events for the first one, one of them not persistent, and one for another.
OneLoop == [e1 |-> "b1", e2 |-> "b1", e3 |-> "b1"]
TwoSigs == [e1 |-> 1, e2 |-> 1, e3 |-> 3]

-----------------------------------------------------------------------------
(* The back ends.                                                          *)

Flags == BOOLEAN
Kinds == {{}, {"r"}, {"w"}, {"r", "w"}}

Ep == INSTANCE Epoll WITH NFiles <- 2,
        Fds <- {0, 1}, Persists <- Flags, BothOnce <- TRUE, Conditions <- Kinds \cup {{"hup"}}, Outcomes <- Flags

Po == INSTANCE Poll WITH pop <- op,
        Fds <- {0, 1, 2}, Persists <- {TRUE}, BothOnce <- TRUE, Conditions <- {{}, {"r"}, {"hup"}}, Outcomes <- Flags

Se == INSTANCE Select WITH sop <- op, NFdBits <- 2, InitWords <- 1,
        Fds <- {0, 2, 5}, Persists <- {TRUE}, BothOnce <- TRUE, Conditions <- {{}, {"r"}, {"hup"}}, Outcomes <- Flags

Kq == INSTANCE Kqueue WITH kqop <- op, MaxChanges <- 4,
        Fds <- {0, 1}, Persists <- Flags, BothOnce <- FALSE, Conditions <- Kinds, Outcomes <- {TRUE}

Dp == INSTANCE DevPoll WITH NFiles <- 1, NEvents <- 3,
        Fds <- {0, 2}, Persists <- Flags, BothOnce <- TRUE, Conditions <- {{}, {"r"}, {"w"}, {"hup"}}, Outcomes <- Flags

Ev == INSTANCE EvPort WITH EventsPerGetn <- 3,
        Fds <- {0, 1}, Persists <- Flags, BothOnce <- TRUE, Conditions <- Kinds, Outcomes <- {TRUE}

Wi == INSTANCE Win32 WITH NEvent <- 1,
        Fds <- {0, 1, 2}, Persists <- {TRUE}, BothOnce <- TRUE, Conditions <- {{}, {"r", "w"}}, Outcomes <- Flags

-----------------------------------------------------------------------------
(* evdns.c.                                                                *)

\* Two servers; the resolve has one more name to search.
R2 == INSTANCE Resolver WITH Servers <- {"s1", "s2"}, Users <- {"u1"}, Names <- [u1 |-> 1],
        MaxInflight <- 1, MaxRetransmits <- 1, MaxReissues <- 1, MaxNsTimeouts <- 0, NIds <- 2,
        NSlots <- 3, MaxNet <- 1, MaxFaults <- 0, Faults <- {"again", "error"}, Closes <- FALSE, faults <- rfaults

\* Two resolves, of which one has to wait.
Rq == INSTANCE Resolver WITH Servers <- {"s1"}, Users <- {"u1", "u2"}, Names <- [u1 |-> 1, u2 |-> 0],
        MaxInflight <- 1, MaxRetransmits <- 1, MaxReissues <- 1, MaxNsTimeouts <- 0, NIds <- 3,
        NSlots <- 3, MaxNet <- 1, MaxFaults <- 1, Faults <- {"again", "error"}, Closes <- FALSE, faults <- rfaults

\* evdns_clear_nameservers_and_suspend(), evdns_resume() and evdns_shutdown().
Rc == INSTANCE Resolver WITH Servers <- {"s1"}, Users <- {"u1"}, Names <- [u1 |-> 1],
        MaxInflight <- 1, MaxRetransmits <- 1, MaxReissues <- 1, MaxNsTimeouts <- 0, NIds <- 2,
        NSlots <- 3, MaxNet <- 1, MaxFaults <- 2, Faults <- {"again", "error"}, Closes <- TRUE, faults <- rfaults

\* Units of four instead of 64; 1 and 2 are letters, 3 is the dot.  The names share
\* suffixes, end in a dot, are empty or have a label that is too long.
Nm == INSTANCE DnsName WITH Unit <- 4, BufLen <- 16, OutLen <- 6, MaxLabels <- 5, Dot <- 3,
        WriteNames <- {<<1>>, <<1, 3, 2>>, <<2, 2, 3, 1, 3, 2>>, <<1, 3, 2, 3>>, <<>>, <<2, 3, 1>>,
                       <<1, 1, 2, 3, 2>>, <<1, 2, 1, 2, 3, 1>>},
        RawBytes <- {0, 1, 2, 12}, RawLen <- 6, MaxWrites <- 3

Ms == INSTANCE DnsMessage WITH MaxAddrs <- 2, Header <- 2, Fixed <- 2, MaxUdp <- 8, BufLen <- 9,
        MaxRecords <- 2, MaxData <- 2, Ttls <- {1, 2}

Sv == INSTANCE DnsServer WITH Requests <- {"r1", "r2", "r3"}, MaxFaults <- 3, faults <- sfaults

Sr == INSTANCE DnsSearch WITH Users <- {"u1", "u2"}, Domains <- {"d1"}, Addresses <- {"n1"},
        Local <- "n1", HostDomain <- "d2", NStates <- 3, MaxDomains <- 2, MaxConfigs <- 2, MaxLines <- 1

\* Files of two lines, without resolves.
Sc == INSTANCE DnsSearch WITH Users <- {}, Domains <- {"d1", "d2"}, Addresses <- {"n1"},
        Local <- "n1", HostDomain <- "d1", NStates <- 4, MaxDomains <- 2, MaxConfigs <- 2, MaxLines <- 2

ASSUME InstancesSane == /\ Sane /\ Ep!Sane /\ Ep!SaneSizes /\ Po!Sane /\ Se!Sane /\ Se!SaneSizes
                        /\ Kq!Sane /\ Kq!SaneSizes /\ Dp!Sane /\ Dp!SaneSizes
                        /\ Ev!Sane /\ Ev!SaneSizes /\ Wi!Sane /\ Wi!SaneSizes
                        /\ R2!Sane /\ Rq!Sane /\ Rc!Sane /\ Nm!Sane /\ Ms!Sane /\ Sv!Sane
                        /\ Sr!Sane /\ Sc!Sane

-----------------------------------------------------------------------------
Backends == {"epoll", "poll", "select", "kqueue", "devpoll", "evport", "win32"}
Parts == Backends \cup {"signal", "servers", "queue", "close", "name", "message", "server", "search", "conf"}

AllInit == /\ part \in Parts
           /\ Init
           /\ CASE part = "poll" -> Po!Init
                [] part = "select" -> Se!Init
                [] part = "kqueue" -> Kq!Init
                [] part = "devpoll" -> Dp!Init
                [] part = "evport" -> Ev!Init
                [] part = "win32" -> Wi!Init
                [] OTHER -> Ep!Init
           /\ CASE part = "servers" -> R2!Init
                [] part = "close" -> Rc!Init
                [] OTHER -> Rq!Init
           /\ Nm!Init
           /\ Ms!Init
           /\ Sv!Init
           /\ IF part = "conf" THEN Sc!Init ELSE Sr!Init

AllNext == /\ UNCHANGED part
           /\ IF part = "signal" THEN Next ELSE UNCHANGED vars
           /\ CASE part = "epoll" -> Ep!Next
                [] part = "poll" -> Po!Next
                [] part = "select" -> Se!Next
                [] part = "kqueue" -> Kq!Next
                [] part = "devpoll" -> Dp!Next
                [] part = "evport" -> Ev!Next
                [] part = "win32" -> Wi!Next
                [] OTHER -> UNCHANGED be
           /\ CASE part = "servers" -> R2!Next
                [] part = "queue" -> Rq!Next
                [] part = "close" -> Rc!Next
                [] OTHER -> UNCHANGED rs
           /\ IF part = "name" THEN Nm!Next ELSE UNCHANGED nm
           /\ IF part = "message" THEN Ms!Next ELSE UNCHANGED ms
           /\ IF part = "server" THEN Sv!Next ELSE UNCHANGED sv
           /\ CASE part = "search" -> Sr!Next
                [] part = "conf" -> Sc!Next
                [] OTHER -> UNCHANGED se

AllSpec == AllInit /\ [][AllNext]_all

-----------------------------------------------------------------------------
(* Properties.                                                             *)

\* The tables of every back end, and what the kernel was told, agree with the events that
\* event.c has inserted, after any additions, deletions, failed calls and one-shot reports.
TablesAgree == /\ part = "epoll" => Ep!KernelAgrees
               /\ part = "poll" => Po!PollCheckOk
               /\ part = "select" => Se!CheckSelectop /\ Se!SetsLargeEnough
               /\ part = "kqueue" => Kq!FiltersAgree
               /\ part = "devpoll" => Dp!InsideArrays
               /\ part = "evport" => Ev!NeverForgotten
               /\ part = "win32" => Wi!PlacesAgree

\* Every back end implements Backend: a dispatch reports each event that is ready and asked
\* for, and no other: not one that was deleted, refused or never added.
BackendSpecs == [][/\ part = "epoll" => Ep!BackendNext
                   /\ part = "poll" => Po!BackendNext
                   /\ part = "select" => Se!BackendNext
                   /\ part = "kqueue" => Kq!BackendNext
                   /\ part = "devpoll" => Dp!BackendNext
                   /\ part = "evport" => Ev!BackendNext
                   /\ part = "win32" => Wi!BackendNext]_<<inserted, ready, reported>>

\* Through reissues, searches, full sockets, servers that go down and servers that are taken
\* away, the counters of evdns.c agree with its lists, a resolve is carried by one request
\* until it is answered once, no request in flight is forgotten, a server that is down is
\* probed, and a request waits only when as many as allowed are in flight.
ResolverSound == /\ part = "servers" => R2!CountersAgree /\ R2!OneCarrier /\ R2!DownIsProbed
                 /\ part = "queue" => /\ Rq!CountersAgree /\ Rq!OneCarrier
                                      /\ Rq!NoneForgotten /\ Rq!WaitOnlyWhenFull
                 /\ part = "close" => Rc!CountersAgree /\ Rc!OneCarrier /\ Rc!NoneForgotten

\* name_parse() ends, accepts exactly the names of the packet that fit and reads what
\* dnsname_to_labels() wrote; the resolver gets the addresses that the server of evdns
\* answered, none longer than its record lives.
MessagesExact == /\ part = "name" => Nm!ParseExact /\ Nm!RoundTrip
                 /\ part = "message" => Ms!AnswersArrive /\ Ms!TtlCovers

\* A server port lives as long as it is held, its replies wait in their order and are watched;
\* a search state lives as long as it is used, a search tries the names it began with, and a
\* file of configuration is applied.
HoldersExact == /\ part = "server" => Sv!HeldOpen /\ Sv!ListIsQueue /\ Sv!WaitingIsWatched
                /\ part = "search" => Sr!RefsExact /\ Sr!SearchComplete
                /\ part = "conf" => Sc!ConfApplied
=============================================================================
