----------------------------- MODULE WorkerPool -----------------------------
(***************************************************************************)
(* The multi-threaded HTTP server of the testbed: main() of testbed/main.c *)
(* starts the workers and then accepts connections; accept_socket() hands  *)
(* every connection to the next worker of the ring through a locked task   *)
(* list and a one-byte write to the worker's pipe; notify_worker() runs in *)
(* the worker's event loop, consumes one byte and one task and starts to   *)
(* serve the connection (contrib/libevent/http.c).                         *)
(*                                                                         *)
(* Every step of a thread that another thread can observe is an action of  *)
(* its own.  The statements inside a critical section of a task list are   *)
(* one action; MutualExclusion is what makes that sound.                   *)
(*                                                                         *)
(* Server 0 is the evhttp object that owns the listening socket, servers   *)
(* 1..nworkers are the workers in ring order.                              *)
(***************************************************************************)
EXTENDS Integers, Sequences, TLC

CONSTANTS Conns,      \* the connections that clients open, each at most once
          NThreads,   \* config.worker_threads after main() made it positive
          PipeCap,    \* bytes that a worker's wake-up pipe holds
          Backlog,    \* connections that the listen queue holds
          None        \* no connection

ASSUME ThreadsAssumption == NThreads \in Nat \ {0}
ASSUME PipeAssumption == PipeCap \in Nat \ {0}
ASSUME BacklogAssumption == Backlog \in Nat \ {0}
ASSUME NoneAssumption == None \notin Conns

VARIABLES mpc,        \* where the main thread is
          spawned,    \* i of main()'s loop: threads created
          nworkers,   \* workers in the ring; a failed add leaves it behind
          ncb,        \* gencb is set in the servers 0..ncb-1
          cur,        \* http->cur, 0 for NULL
          nfd,        \* nfd of accept_socket()
          net,        \* connections that no client has opened yet
          backlog,    \* the listen queue
          tasks,      \* worker->tasks
          lock,       \* who holds worker->lock: "free", "main" or "worker"
          pipe,       \* bytes in the worker's wake-up pipe
          wpc,        \* where the worker thread is
          task,       \* task of notify_worker()
          conns,      \* http->connections of every server
          leaked,     \* descriptors that no object owns any more
          closed,     \* connections that were freed
          reply,      \* what answered the first request of a connection
          status,     \* of the process: "up", or "crashed" by a signal
          sent,       \* history: connections handed to a worker, in order
          started     \* history: connections a worker took up, in order

mainVars == <<mpc, spawned, nworkers, ncb, cur, nfd>>
workerVars == <<wpc, task>>
shared == <<tasks, lock, pipe>>
client == <<net, backlog>>
fds == <<conns, leaked, closed, reply>>
history == <<sent, started>>
vars == <<mainVars, workerVars, shared, client, fds, history, status>>

Workers == 1..NThreads
Servers == 0..NThreads

Init == /\ mpc = "spawn"
        /\ spawned = 0
        /\ nworkers = 0
        /\ ncb = 0
        /\ cur = 0
        /\ nfd = None
        /\ net = Conns
        /\ backlog = <<>>
        /\ tasks = [w \in Workers |-> <<>>]
        /\ lock = [w \in Workers |-> "free"]
        /\ pipe = [w \in Workers |-> 0]
        /\ wpc = [w \in Workers |-> "unborn"]
        /\ task = [w \in Workers |-> None]
        /\ conns = [s \in Servers |-> {}]
        /\ leaked = {}
        /\ closed = {}
        /\ reply = [c \in Conns |-> "none"]
        /\ status = "up"
        /\ sent = [w \in Workers |-> <<>>]
        /\ started = [w \in Workers |-> <<>>]

-----------------------------------------------------------------------------
(***************************************************************************)
(* The main thread: start-up.                                              *)
(***************************************************************************)

\* evhttp_add_worker() puts the worker at the end of the ring and main()
\* starts its thread, which enters event_base_loop().  main() does not look at
\* the result of pthread_create(): without a thread the worker stays in the ring.
AddWorker == /\ mpc = "spawn"
             /\ spawned < NThreads
             /\ spawned' = spawned + 1
             /\ nworkers' = nworkers + 1
             /\ cur' = IF cur = 0 THEN 1 ELSE cur
             /\ \E thread \in {"poll", "unborn"} :
                  wpc' = [wpc EXCEPT ![nworkers + 1] = thread]
             /\ UNCHANGED <<mpc, ncb, nfd, task, shared, client, fds, history, status>>

\* evhttp_add_worker() fails and returns 0; main() starts a thread on it all
\* the same.
AddWorkerFails == /\ mpc = "spawn"
                  /\ spawned < NThreads
                  /\ spawned' = spawned + 1
                  /\ UNCHANGED <<mpc, nworkers, ncb, cur, nfd, workerVars, shared,
                                 client, fds, history, status>>

\* That thread calls event_base_loop(0), which reads base->evsel.
NullBase == /\ nworkers < spawned
            /\ status' = "crashed"
            /\ UNCHANGED <<mainVars, workerVars, shared, client, fds, history>>

\* evhttp_set_gencb(): first the server itself, then its workers one by one.
SetGencb == /\ \/ mpc = "spawn" /\ spawned = NThreads
               \/ mpc = "gencb"
            /\ ncb <= nworkers
            /\ ncb' = ncb + 1
            /\ mpc' = IF ncb = nworkers THEN "bind" ELSE "gencb"
            /\ UNCHANGED <<spawned, nworkers, cur, nfd, workerVars, shared,
                           client, fds, history, status>>

\* A main() that binds the socket before it has set the callback everywhere.
BugBindEarly == /\ \/ mpc = "spawn" /\ spawned = NThreads
                   \/ mpc \in {"gencb", "bind"}
                /\ mpc' = "poll"
                /\ UNCHANGED <<spawned, nworkers, ncb, cur, nfd, workerVars, shared,
                               client, fds, history, status>>

\* evhttp_bind_socket(): from here on the accept event is registered and
\* event_base_loop(main_base) runs.
BindSocket == /\ mpc = "bind"
              /\ mpc' = "poll"
              /\ UNCHANGED <<spawned, nworkers, ncb, cur, nfd, workerVars, shared,
                             client, fds, history, status>>

\* It fails: main() does not look at the result, event_base_loop() finds no
\* event and returns, and main() waits for threads that never end.
BindFails == /\ mpc = "bind"
             /\ mpc' = "join"
             /\ UNCHANGED <<spawned, nworkers, ncb, cur, nfd, workerVars, shared,
                            client, fds, history, status>>

-----------------------------------------------------------------------------
(***************************************************************************)
(* The main thread: accept_socket(), called when the listening socket is   *)
(* readable.  An accept() that fails changes nothing.                      *)
(***************************************************************************)

\* accept() and evutil_make_socket_nonblocking() succeed, there are workers.
Accept == /\ mpc = "poll"
          /\ backlog # <<>>
          /\ cur # 0
          /\ nfd' = Head(backlog)
          /\ backlog' = Tail(backlog)
          /\ mpc' = "lock"
          /\ UNCHANGED <<spawned, nworkers, ncb, cur, workerVars, shared, net,
                         fds, history, status>>

\* The socket cannot be made non-blocking: the descriptor is forgotten.
AcceptLeaks == /\ mpc = "poll"
               /\ backlog # <<>>
               /\ leaked' = leaked \cup {Head(backlog)}
               /\ backlog' = Tail(backlog)
               /\ UNCHANGED <<mainVars, workerVars, shared, net, conns, closed,
                              reply, history, status>>

\* evhttp_get_request(): the connection joins http->connections; or its
\* descriptor is lost because evhttp_get_request_connection() returned NULL; or
\* there is no memory for a request and the connection is freed at once.
GetRequest(s, c) == \/ /\ conns' = [conns EXCEPT ![s] = @ \cup {c}]
                       /\ UNCHANGED <<leaked, closed>>
                    \/ /\ leaked' = leaked \cup {c}
                       /\ UNCHANGED <<conns, closed>>
                    \/ /\ closed' = closed \cup {c}
                       /\ UNCHANGED <<conns, leaked>>

\* No workers: the accepting thread serves the connection itself.
AcceptInline == /\ mpc = "poll"
                /\ backlog # <<>>
                /\ cur = 0
                /\ GetRequest(0, Head(backlog))
                /\ backlog' = Tail(backlog)
                /\ UNCHANGED <<mainVars, workerVars, shared, net, reply, history, status>>

\* An accept_socket() that gives up when the task list is busy.
BugTryLock == /\ mpc = "lock"
              /\ IF lock[cur] = "free"
                 THEN /\ lock' = [lock EXCEPT ![cur] = "main"]
                      /\ mpc' = "insert"
                      /\ UNCHANGED nfd
                 ELSE /\ mpc' = "poll"
                      /\ nfd' = None
                      /\ UNCHANGED lock
              /\ UNCHANGED <<spawned, nworkers, ncb, cur, workerVars, tasks,
                             pipe, client, fds, history, status>>

\* new_worker_task(): pthread_mutex_lock(),
LockTasks == /\ mpc = "lock"
             /\ lock[cur] = "free"
             /\ lock' = [lock EXCEPT ![cur] = "main"]
             /\ mpc' = "insert"
             /\ UNCHANGED <<spawned, nworkers, ncb, cur, nfd, workerVars, tasks,
                            pipe, client, fds, history, status>>

\* A task list that is filled at its head.
BugInsertHead == /\ mpc = "insert"
                 /\ tasks' = [tasks EXCEPT ![cur] = <<nfd>> \o @]
                 /\ sent' = [sent EXCEPT ![cur] = Append(@, nfd)]
                 /\ lock' = [lock EXCEPT ![cur] = "free"]
                 /\ nfd' = None
                 /\ mpc' = "wake"
                 /\ UNCHANGED <<spawned, nworkers, ncb, cur, workerVars, pipe,
                                client, fds, started, status>>

\* TAILQ_INSERT_TAIL() and pthread_mutex_unlock().
InsertTask == /\ mpc = "insert"
              /\ tasks' = [tasks EXCEPT ![cur] = Append(@, nfd)]
              /\ sent' = [sent EXCEPT ![cur] = Append(@, nfd)]
              /\ lock' = [lock EXCEPT ![cur] = "free"]
              /\ nfd' = None
              /\ mpc' = "wake"
              /\ UNCHANGED <<spawned, nworkers, ncb, cur, workerVars, pipe,
                             client, fds, started, status>>

\* The step of Wake with the new values of pipe and cur left open.
WakeWith(bytes, next) == /\ mpc = "wake"
                         /\ pipe' = [pipe EXCEPT ![cur] = bytes]
                         /\ cur' = next
                         /\ mpc' = "poll"
                         /\ UNCHANGED <<spawned, nworkers, ncb, nfd, workerVars, tasks,
                                        lock, client, fds, history, status>>

\* Two bytes for one task; a pipe that does not block when it is full; a ring
\* that is not closed; a turn that never moves on.
BugTwoBytes == /\ mpc = "wake" /\ pipe[cur] < PipeCap
               /\ WakeWith(pipe[cur] + 2, IF cur = nworkers THEN 1 ELSE cur + 1)
BugNonblockingPipe == WakeWith(IF pipe[cur] < PipeCap THEN pipe[cur] + 1 ELSE PipeCap,
                               IF cur = nworkers THEN 1 ELSE cur + 1)
BugOpenRing == mpc = "wake" /\ pipe[cur] < PipeCap /\ WakeWith(pipe[cur] + 1, cur + 1)
BugSameTurn == mpc = "wake" /\ pipe[cur] < PipeCap /\ WakeWith(pipe[cur] + 1, cur)

\* write() of one byte, which blocks while the pipe is full, and
\* http->cur = http->cur->next.
Wake == /\ mpc = "wake"
        /\ pipe[cur] < PipeCap
        /\ WakeWith(pipe[cur] + 1, IF cur = nworkers THEN 1 ELSE cur + 1)

-----------------------------------------------------------------------------
(***************************************************************************)
(* The worker threads: notify_worker(), called when the pipe is readable,  *)
(* and the events of the worker's connections.                             *)
(***************************************************************************)

\* read() of one byte.
ReadByte(w) == /\ wpc[w] = "poll"
               /\ pipe[w] > 0
               /\ pipe' = [pipe EXCEPT ![w] = @ - 1]
               /\ wpc' = [wpc EXCEPT ![w] = "lock"]
               /\ UNCHANGED <<mainVars, task, tasks, lock, client, fds, history, status>>

\* pthread_mutex_lock().
LockOwnTasks(w) == /\ wpc[w] = "lock"
                   /\ lock[w] = "free"
                   /\ lock' = [lock EXCEPT ![w] = "worker"]
                   /\ wpc' = [wpc EXCEPT ![w] = "remove"]
                   /\ UNCHANGED <<mainVars, task, tasks, pipe, client, fds, history, status>>

\* A worker that looks at its first task and leaves it in the list.
BugFirstOnly(w) == /\ wpc[w] = "remove"
                   /\ task' = [task EXCEPT ![w] = Head(tasks[w])]
                   /\ lock' = [lock EXCEPT ![w] = "free"]
                   /\ wpc' = [wpc EXCEPT ![w] = "serve"]
                   /\ UNCHANGED <<mainVars, tasks, pipe, client, fds, history, status>>

\* TAILQ_FIRST(), TAILQ_REMOVE() and pthread_mutex_unlock().  The code does not
\* ask whether the list is empty; NoEmptyDequeue says that it need not.
RemoveTask(w) == /\ wpc[w] = "remove"
                 /\ task' = [task EXCEPT ![w] = Head(tasks[w])]
                 /\ tasks' = [tasks EXCEPT ![w] = Tail(@)]
                 /\ lock' = [lock EXCEPT ![w] = "free"]
                 /\ wpc' = [wpc EXCEPT ![w] = "serve"]
                 /\ UNCHANGED <<mainVars, pipe, client, fds, history, status>>

\* evhttp_get_request() and free(task).
ServeTask(w) == /\ wpc[w] = "serve"
                /\ GetRequest(w, task[w])
                /\ started' = [started EXCEPT ![w] = Append(@, task[w])]
                /\ task' = [task EXCEPT ![w] = None]
                /\ wpc' = [wpc EXCEPT ![w] = "poll"]
                /\ UNCHANGED <<mainVars, shared, client, reply, sent, status>>

\* A server handles the events of its connections between two other events.
Idle(s) == IF s = 0 THEN mpc = "poll" ELSE wpc[s] = "poll"

\* evhttp_handle_request() for the first request of a connection: the generic
\* callback, or 404 when there is none, or 400 for a request without a URI.
HandleRequest(s, c) == /\ Idle(s)
                       /\ c \in conns[s]
                       /\ reply[c] = "none"
                       /\ \E answer \in {"400", IF s < ncb THEN "page" ELSE "404"} :
                            reply' = [reply EXCEPT ![c] = answer]
                       /\ UNCHANGED <<mainVars, workerVars, shared, client, conns,
                                      leaked, closed, history, status>>

\* evhttp_connection_free(): after the answer, an error or a timeout.
CloseConn(s, c) == /\ Idle(s)
                   /\ c \in conns[s]
                   /\ conns' = [conns EXCEPT ![s] = @ \ {c}]
                   /\ closed' = closed \cup {c}
                   /\ UNCHANGED <<mainVars, workerVars, shared, client, leaked,
                                  reply, history, status>>

-----------------------------------------------------------------------------
\* A client connects to the listening socket.
Connect(c) == /\ mpc \in {"poll", "lock", "insert", "wake"}
              /\ c \in net
              /\ Len(backlog) < Backlog
              /\ net' = net \ {c}
              /\ backlog' = Append(backlog, c)
              /\ UNCHANGED <<mainVars, workerVars, shared, fds, history, status>>

Startup == AddWorker \/ AddWorkerFails \/ SetGencb \/ BindSocket \/ BindFails

AcceptSocket == Accept \/ AcceptLeaks \/ AcceptInline \/ LockTasks \/ InsertTask \/ Wake

NotifyWorker(w) == ReadByte(w) \/ LockOwnTasks(w) \/ RemoveTask(w) \/ ServeTask(w)

ServeConn(s) == \E c \in Conns : HandleRequest(s, c) \/ CloseConn(s, c)

Next == /\ status = "up"
        /\ \/ Startup
           \/ NullBase
           \/ AcceptSocket
           \/ \E w \in Workers : NotifyWorker(w)
           \/ \E s \in Servers : ServeConn(s)
           \/ \E c \in Conns : Connect(c)

\* The kernel schedules every thread, and an event loop gets round to every
\* ready event: the main thread keeps accepting and each worker keeps consuming
\* bytes.  Nothing is assumed of the clients, of the connections' events or of
\* calls that fail.
Fairness == /\ WF_vars(status = "up" /\ (Startup \/ AcceptSocket))
            /\ \A w \in Workers : WF_vars(status = "up" /\ NotifyWorker(w))

Spec == Init /\ [][Next]_vars

FairSpec == Spec /\ Fairness

-----------------------------------------------------------------------------
(***************************************************************************)
(* Properties.                                                             *)
(***************************************************************************)

TypeOK == /\ mpc \in {"spawn", "gencb", "bind", "join", "poll", "lock", "insert", "wake"}
          /\ spawned \in 0..NThreads
          /\ nworkers \in 0..NThreads
          /\ ncb \in 0..(NThreads + 1)
          /\ cur \in 0..NThreads
          /\ nfd \in Conns \cup {None}
          /\ net \in SUBSET Conns
          /\ backlog \in Seq(Conns)
          /\ tasks \in [Workers -> Seq(Conns)]
          /\ lock \in [Workers -> {"free", "main", "worker"}]
          /\ pipe \in [Workers -> 0..PipeCap]
          /\ wpc \in [Workers -> {"unborn", "poll", "lock", "remove", "serve"}]
          /\ task \in [Workers -> Conns \cup {None}]
          /\ conns \in [Servers -> SUBSET Conns]
          /\ leaked \in SUBSET Conns
          /\ closed \in SUBSET Conns
          /\ reply \in [Conns -> {"none", "page", "404", "400"}]
          /\ status \in {"up", "crashed"}
          /\ sent \in [Workers -> Seq(Conns)]
          /\ started \in [Workers -> Seq(Conns)]

\* notify_worker() never finds its task list empty: TAILQ_FIRST() would return
\* NULL and TAILQ_REMOVE() dereference it.  accept_socket() has to queue the task
\* before it writes the byte, and both exactly once per connection.
NoEmptyDequeue == \A w \in Workers : wpc[w] = "remove" => tasks[w] # <<>>

\* Bytes in a pipe are wake-ups that are not yet consumed: a worker's list holds
\* one task per byte, one for the byte that the worker has read and not yet acted
\* on, and one for the byte that accept_socket() still has to write.
WakeupsMatchTasks ==
  \A w \in Workers :
    Len(tasks[w]) = pipe[w] + (IF wpc[w] \in {"lock", "remove"} THEN 1 ELSE 0)
                            + (IF mpc = "wake" /\ cur = w THEN 1 ELSE 0)

\* The accepting thread and a worker are never both inside the critical section
\* of that worker's task list.
MutualExclusion ==
  \A w \in Workers : ~(mpc = "insert" /\ cur = w /\ wpc[w] = "remove")

\* The hand-over of a connection: no dequeue from an empty list, one task per wake-up,
\* one thread at a time in the list of a worker.
QueueSafe == NoEmptyDequeue /\ WakeupsMatchTasks /\ MutualExclusion

\* Connections that notify_worker() has taken off the list and not yet served.
InHand(w) == IF wpc[w] = "serve" THEN <<task[w]>> ELSE <<>>

\* A worker takes connections up in exactly the order in which accept_socket()
\* handed them to it, none lost and none repeated on the way.
TasksInOrder == \A w \in Workers : sent[w] = started[w] \o InHand(w) \o tasks[w]

\* Elements of a sequence.
Elems(s) == {s[i] : i \in 1..Len(s)}

\* The connection that accept_socket() holds between accept() and the task list.
Accepting == IF mpc \in {"lock", "insert"} THEN {nfd} ELSE {}

\* The connections that worker w is responsible for or has been.
Handed(w) == Elems(InHand(w) \o tasks[w]) \cup conns[w]

\* A descriptor has one owner at any time: it waits in the listen queue, or the
\* accepting thread holds it, or one server does, or it is closed or leaked.
OneOwner ==
  /\ \A v, w \in Workers : v # w => Handed(v) \cap Handed(w) = {}
  /\ \A w \in Workers : /\ Elems(InHand(w) \o tasks[w]) \cap conns[w] = {}
                        /\ Handed(w) \cap conns[0] = {}
                        /\ \A i, j \in 1..Len(tasks[w]) : i # j => tasks[w][i] # tasks[w][j]
                        /\ wpc[w] = "serve" => task[w] \notin Elems(tasks[w])
  /\ LET owned == conns[0] \cup UNION {Handed(w) : w \in Workers}
         free == net \cup Elems(backlog) \cup Accepting
     IN  /\ owned \cap free = {}
         /\ (leaked \cup closed) \cap (owned \cup free) = {}
         /\ leaked \cap closed = {}

\* No connection gets lost: every one of them is somewhere.
NoneLost == Conns = net \cup Elems(backlog) \cup Accepting \cup leaked \cup closed
                    \cup (UNION {conns[s] : s \in Servers})
                    \cup UNION {Elems(InHand(w) \o tasks[w]) : w \in Workers}

\* Round robin: of two workers in the ring, neither has been handed two
\* connections more than the other.
Balanced == \A v, w \in 1..nworkers : Len(sent[v]) <= Len(sent[w]) + 1

\* No client ever gets a 404: by the time a connection reaches a server, main()
\* has set the generic callback in that server, although the workers' event
\* loops run long before evhttp_set_gencb() is called.
GencbBeforeRequests == \A c \in Conns : reply[c] # "404"

\* Every connection that reaches the listen queue is taken up by a server or
\* leaked, unless the process dies or a worker of the ring has no thread.  A
\* wake-up is never lost.
Started(c) == c \in leaked \cup closed \cup UNION {conns[s] : s \in Servers}
ThreadMissing == \E w \in 1..nworkers : wpc[w] = "unborn"
EveryConnectionStarted ==
  \A c \in Conns :
    c \in Elems(backlog) ~> (Started(c) \/ status = "crashed" \/ ThreadMissing)

\* The promise of the pool, as the abstract specification states it.
D == INSTANCE Dispatch WITH
       waiting <- net \cup Elems(backlog) \cup Accepting,
       pool <- nworkers,
       turn <- IF mpc # "wake" THEN cur ELSE IF cur = nworkers THEN 1 ELSE cur + 1,
       chan <- [w \in Workers |-> InHand(w) \o tasks[w]],
       held <- conns,
       gone <- leaked \cup closed

DispatchSpec == D!Spec

\* Connections are interchangeable; workers are not, because the ring orders them.
ConnSymmetry == Permutations(Conns)
=============================================================================
