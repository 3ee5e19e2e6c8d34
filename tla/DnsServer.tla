------------------------------- MODULE DnsServer -------------------------------
(***************************************************************************)
(* A DNS server port (contrib/libevent/evdns.c): the requests that hold it *)
(* open, and the circular list of the replies that wait for its socket.    *)
(***************************************************************************)
EXTENDS Integers, Sequences, FiniteSets

CONSTANTS Requests,    \* requests that may come in
          MaxFaults,   \* bound: changes of the socket
          None

\* What the constants have to be.
Sane == MaxFaults \in Nat /\ None \notin Requests

VARIABLES port,     \* struct evdns_server_port
          req,      \* struct server_request of each request
          sock,     \* what sendto() does
          queued,   \* the replies that met a full socket and were not sent, in their order
          sent,     \* the replies that went out, in their order
          crash,    \* why the program ended, or None
          faults

vars == <<port, req, sock, queued, sent, crash, faults>>

NoRequest == [st |-> "none", next |-> None, prev |-> None]
Live(q) == {r \in Requests : q[r].st \in {"got", "pending"}}
Running == crash = None

\* evdns_add_server_port().
Init == /\ port = [refcnt |-> 1, closing |-> FALSE, choked |-> FALSE, head |-> None,
                   read |-> TRUE, write |-> FALSE, open |-> TRUE]
        /\ req = [r \in Requests |-> NoRequest]
        /\ sock = "ok" /\ queued = <<>> /\ sent = <<>> /\ crash = None /\ faults = MaxFaults

-----------------------------------------------------------------------------
(***************************************************************************)
(* The functions, on a record x of the variables they change.              *)
(***************************************************************************)
Now == [port |-> port, req |-> req, queued |-> queued, sent |-> sent, crash |-> None]
Becomes(x) == /\ port' = x.port /\ req' = x.req /\ queued' = x.queued /\ sent' = x.sent /\ crash' = x.crash
              /\ UNCHANGED <<sock, faults>>

\* server_port_free().
PortFree(x) == IF x.port.head # None THEN [x EXCEPT !.crash = "assert pending"]
               ELSE [x EXCEPT !.port = [@ EXCEPT !.open = FALSE, !.read = FALSE, !.write = FALSE]]

Without(s, r) == SelectSeq(s, LAMBDA y : y # r)

\* server_request_free(): the head moves to the next of the list, which is the request
\* itself when it is alone.
RequestFree(x, r) ==
  LET q == x.req[r]
      y == [x EXCEPT !.port = [@ EXCEPT !.head = IF @ = r THEN q.next ELSE @, !.refcnt = @ - 1],
                     !.req = [@ EXCEPT ![r].st = "freed"], !.queued = Without(@, r)]
      z == IF q.next = None \/ q.next = r THEN y
           ELSE [y EXCEPT !.req = [@ EXCEPT ![q.next].prev = q.prev, ![q.prev].next = q.next]]
  IN  IF z.port.refcnt = 0 THEN PortFree(z) ELSE z

\* One turn of the loop of server_port_flush().
FlushStep(x) ==
  LET r == x.port.head
      y == IF sock = "ok" THEN [x EXCEPT !.sent = Append(@, r)] ELSE x
  IN  CASE x.crash # None \/ ~x.port.open \/ r = None \/ sock = "again" -> x
        [] OTHER -> IF x.req[r].st = "freed" THEN [x EXCEPT !.crash = "freed reply"] ELSE RequestFree(y, r)

\* server_port_flush(): in the end there is nothing to write.
Flush(x) ==
  LET n == Cardinality(Requests) + 1
      f[k \in 0..n] == IF k = 0 THEN x ELSE FlushStep(f[k - 1])
      y == f[n]
  IN  IF y.crash = None /\ y.port.open /\ y.port.head = None
      THEN [y EXCEPT !.port = [@ EXCEPT !.read = TRUE, !.write = FALSE]] ELSE y

\* The first reply that waits, without the request to be told of a writable socket.
BugWatch(x, r) ==
  IF x.port.head = None
  THEN [x EXCEPT !.req[r] = [st |-> "pending", next |-> r, prev |-> r], !.queued = Append(@, r),
                 !.port = [@ EXCEPT !.head = r, !.choked = TRUE]]
  ELSE x

\* evdns_server_request_respond() when the socket is full: the end of the list.
Queue(x, r) ==
  LET h == x.port.head
      p == x.req[h].prev
  IN  IF h # None
      THEN [x EXCEPT !.req = IF h = p THEN [@ EXCEPT ![r] = [st |-> "pending", next |-> h, prev |-> h],
                                                     ![h].next = r, ![h].prev = r]
                             ELSE [@ EXCEPT ![r] = [st |-> "pending", next |-> h, prev |-> p],
                                            ![p].next = r, ![h].prev = r],
                     !.queued = Append(@, r)]
      ELSE [x EXCEPT !.req[r] = [st |-> "pending", next |-> r, prev |-> r], !.queued = Append(@, r),
                     !.port = [@ EXCEPT !.head = r, !.choked = TRUE, !.write = TRUE, !.read = ~x.port.closing]]

-----------------------------------------------------------------------------
\* server_port_read(), request_parse(): the callback of the program keeps the request.
Read(r) == /\ Running /\ port.open /\ port.read /\ req[r].st = "none"
           /\ Becomes([Now EXCEPT !.req[r].st = "got", !.port.refcnt = @ + 1])

\* evdns_server_request_respond().
Respond(r) ==
  LET y == RequestFree([Now EXCEPT !.sent = Append(@, r)], r)
  IN /\ Running /\ req[r].st = "got"
     /\ CASE sock = "error" -> Becomes(Now)
          [] sock = "again" -> Becomes(Queue(Now, r))
          [] sock = "ok" -> Becomes(IF y.crash = None /\ y.port.open /\ y.port.head # None THEN Flush(y) ELSE y)

\* evdns_server_request_drop().
Drop(r) == Running /\ req[r].st = "got" /\ Becomes(RequestFree(Now, r))

\* evdns_close_server_port().
Close == LET y == [Now EXCEPT !.port.refcnt = @ - 1]
             z == IF y.port.refcnt = 0 THEN PortFree(y) ELSE y
         IN  Running /\ ~port.closing /\ Becomes([z EXCEPT !.port.closing = TRUE])

\* server_port_ready_callback() for writing.
Writable == /\ Running /\ port.open /\ port.write /\ sock # "again"
            /\ Becomes(Flush([Now EXCEPT !.port.choked = FALSE]))

SockChange(v) == /\ Running /\ v # sock
                 /\ faults > 0 /\ faults' = faults - 1 /\ sock' = v
                 /\ UNCHANGED <<port, req, queued, sent, crash>>

Next == \/ \E r \in Requests : Read(r) \/ Respond(r) \/ Drop(r)
        \/ Close \/ Writable
        \/ \E v \in {"ok", "again", "error"} : SockChange(v)

Spec == Init /\ [][Next]_vars

-----------------------------------------------------------------------------
(***************************************************************************)
(* The port lives exactly as long as somebody holds it: it is open while   *)
(* it was not closed or has a request that was not answered or dropped.    *)
(***************************************************************************)
HeldOpen == Running =>
              /\ port.open <=> (~port.closing \/ Live(req) # {})
              /\ port.refcnt = Cardinality(Live(req)) + IF port.closing THEN 0 ELSE 1

(***************************************************************************)
(* The circular list holds the replies that wait, in the order they were   *)
(* given, and a reply goes out at most once.                               *)
(***************************************************************************)
Walk(n) == LET f[k \in 1..n] == IF k = 1 THEN port.head ELSE req[f[k - 1]].next IN f
ListIsQueue ==
  Running =>
    /\ \A i, j \in DOMAIN sent : i # j => sent[i] # sent[j]
    /\ LET n == Len(queued)
           w == Walk(n)
       IN  IF n = 0 THEN port.head = None
           ELSE /\ \A k \in 1..n : w[k] = queued[k] /\ req[queued[k]].prev = queued[IF k = 1 THEN n ELSE k - 1]
                /\ req[w[n]].next = w[1]

(***************************************************************************)
(* While replies wait, the port is told when its socket can be written.    *)
(***************************************************************************)
WaitingIsWatched == Running /\ queued # <<>> => port.write

(***************************************************************************)
(* server_request_free() removes the links to the request: the port never  *)
(* looks at a reply that was freed.                                        *)
(***************************************************************************)
NoDanglingReply == crash # "freed reply"
=============================================================================
