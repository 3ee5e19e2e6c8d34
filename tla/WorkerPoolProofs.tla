-------------------------- MODULE WorkerPoolProofs --------------------------
(***************************************************************************)
(* Safety of the worker pool for every set of connections, every number of *)
(* worker threads and every pipe and backlog size.                         *)
(***************************************************************************)
EXTENDS WorkerPool, SequenceTheorems, TLAPS

Running == {"poll", "lock", "insert", "wake"}

\* Where the main thread is decides how far the start-up has come.
Control ==
  /\ nworkers <= spawned
  /\ cur <= nworkers
  /\ cur = 0 <=> nworkers = 0
  /\ mpc \in {"lock", "insert", "wake"} => cur # 0
  /\ mpc \in {"lock", "insert"} => nfd \in Conns
  /\ mpc \in {"spawn", "gencb"} => ncb <= nworkers
  /\ mpc \notin {"spawn", "gencb"} => ncb = nworkers + 1
  /\ \A w \in Workers : /\ w > nworkers => wpc[w] = "unborn"
                        /\ wpc[w] = "serve" => task[w] \in Conns

\* The lock of a task list is held by whoever is in its critical section.
LockInv ==
  \A w \in Workers : /\ lock[w] = "main" <=> mpc = "insert" /\ cur = w
                     /\ lock[w] = "worker" <=> wpc[w] = "remove"

\* Before the accept event is registered nothing has reached a server, and
\* nothing ever reaches a server outside the ring.
Quiet ==
  /\ mpc \notin Running =>
       /\ net = Conns /\ backlog = <<>> /\ cur <= 1
       /\ \A w \in Workers : /\ tasks[w] = <<>> /\ sent[w] = <<>> /\ pipe[w] = 0
                             /\ wpc[w] \in {"unborn", "poll"}
       /\ \A s \in Servers : conns[s] = {}
  /\ \A s \in Servers : s > nworkers => conns[s] = {}

\* In every round the workers before cur have had their connection already.
Turns ==
  \E r \in Nat : \A w \in 1..nworkers :
    Len(sent[w]) = r + (IF w < cur \/ (w = cur /\ mpc = "wake") THEN 1 ELSE 0)

\* The inductive invariant of the hand-over protocol.
PoolInv == TypeOK /\ Control /\ LockInv /\ WakeupsMatchTasks

\* What the head and the tail of a non-empty queue are.
LEMMA Queue ==
  ASSUME NEW S, NEW q \in Seq(S), q # <<>>
  PROVE  Head(q) \in S /\ Tail(q) \in Seq(S) /\ Len(Tail(q)) = Len(q) - 1
BY HeadTailProperties

\* A worker that has read a byte finds a task.
LEMMA InvDequeue == PoolInv => NoEmptyDequeue
<1> SUFFICES ASSUME PoolInv, NEW w \in Workers, wpc[w] = "remove" PROVE tasks[w] # <<>>
  BY DEF NoEmptyDequeue
<1>1. Len(tasks[w]) = pipe[w] + 1 + (IF mpc = "wake" /\ cur = w THEN 1 ELSE 0)
  BY DEF PoolInv, WakeupsMatchTasks
<1>2. pipe[w] \in Nat
  BY PipeAssumption DEF PoolInv, TypeOK
<1> QED
  BY <1>1, <1>2

\* The hand-over protocol starts in its invariant.
LEMMA InitPool == Init => PoolInv
<1> SUFFICES ASSUME Init PROVE PoolInv
  OBVIOUS
<1>1. TypeOK
  BY ThreadsAssumption, PipeAssumption DEF Init, TypeOK, Workers, Servers
<1>2. Control
  BY DEF Init, Control, Workers
<1>3. LockInv
  BY DEF Init, LockInv
<1>4. WakeupsMatchTasks
  BY DEF Init, WakeupsMatchTasks
<1> QED
  BY <1>1, <1>2, <1>3, <1>4 DEF PoolInv

\* Every step preserves the types.
LEMMA TypeStep == TypeOK /\ Control /\ NoEmptyDequeue /\ [Next]_vars => TypeOK'
<1> SUFFICES ASSUME TypeOK, Control, NoEmptyDequeue, [Next]_vars PROVE TypeOK'
  OBVIOUS
<1> USE DEF mainVars, workerVars, shared, client, fds, history
<1>1. CASE AddWorker
  <2>1. nworkers + 1 \in Workers /\ spawned + 1 \in 0..NThreads
    BY <1>1, ThreadsAssumption DEF AddWorker, TypeOK, Control, Workers
  <2>2. cur' \in 0..NThreads /\ nworkers' \in 0..NThreads
    BY <1>1, <2>1, ThreadsAssumption DEF AddWorker, TypeOK, Workers
  <2> QED
    BY <1>1, <2>1, <2>2 DEF AddWorker, TypeOK
<1>2. CASE AddWorkerFails
  BY <1>2, ThreadsAssumption DEF AddWorkerFails, TypeOK
<1>3. CASE NullBase
  BY <1>3 DEF NullBase, TypeOK
<1>4. CASE SetGencb
  BY <1>4, ThreadsAssumption DEF SetGencb, TypeOK, Control
<1>5. CASE BindSocket
  BY <1>5 DEF BindSocket, TypeOK
<1>6. CASE BindFails
  BY <1>6 DEF BindFails, TypeOK
<1>7. CASE Accept
  <2>1. Head(backlog) \in Conns /\ Tail(backlog) \in Seq(Conns)
    BY <1>7, Queue DEF Accept, TypeOK
  <2> QED
    BY <1>7, <2>1 DEF Accept, TypeOK
<1>8. CASE AcceptLeaks
  <2>1. Head(backlog) \in Conns /\ Tail(backlog) \in Seq(Conns)
    BY <1>8, Queue DEF AcceptLeaks, TypeOK
  <2> QED
    BY <1>8, <2>1 DEF AcceptLeaks, TypeOK
<1>9. CASE AcceptInline
  <2>1. Head(backlog) \in Conns /\ Tail(backlog) \in Seq(Conns) /\ 0 \in Servers
    BY <1>9, Queue, ThreadsAssumption DEF AcceptInline, TypeOK, Servers
  <2>2. conns' \in [Servers -> SUBSET Conns] /\ leaked' \in SUBSET Conns
         /\ closed' \in SUBSET Conns
    BY <1>9, <2>1 DEF AcceptInline, GetRequest, TypeOK
  <2> QED
    BY <1>9, <2>1, <2>2 DEF AcceptInline, TypeOK
<1>10. CASE LockTasks
  BY <1>10 DEF LockTasks, TypeOK
<1>11. CASE InsertTask
  <2>1. cur \in Workers /\ nfd \in Conns
    BY <1>11, ThreadsAssumption DEF InsertTask, TypeOK, Control, Workers
  <2>2. Append(tasks[cur], nfd) \in Seq(Conns) /\ Append(sent[cur], nfd) \in Seq(Conns)
    BY <2>1 DEF TypeOK
  <2> QED
    BY <1>11, <2>1, <2>2 DEF InsertTask, TypeOK
<1>12. CASE Wake
  <2>1. cur \in Workers /\ cur' \in 0..NThreads
    BY <1>12, ThreadsAssumption DEF Wake, WakeWith, TypeOK, Control, Workers
  <2>2. pipe[cur] \in 0..PipeCap /\ pipe[cur] < PipeCap
    BY <1>12, <2>1 DEF Wake, TypeOK
  <2>3. pipe[cur] + 1 \in 0..PipeCap
    BY <2>2, PipeAssumption
  <2> QED
    BY <1>12, <2>1, <2>3 DEF Wake, WakeWith, TypeOK
<1>13. ASSUME NEW w \in Workers, ReadByte(w) PROVE TypeOK'
  <2>1. pipe[w] \in 0..PipeCap /\ pipe[w] > 0
    BY <1>13 DEF ReadByte, TypeOK
  <2>2. pipe[w] - 1 \in 0..PipeCap
    BY <2>1, PipeAssumption
  <2> QED
    BY <1>13, <2>2 DEF ReadByte, TypeOK
<1>14. ASSUME NEW w \in Workers, LockOwnTasks(w) PROVE TypeOK'
  BY <1>14 DEF LockOwnTasks, TypeOK
<1>15. ASSUME NEW w \in Workers, RemoveTask(w) PROVE TypeOK'
  <2>1. tasks[w] # <<>>
    BY <1>15 DEF RemoveTask, NoEmptyDequeue
  <2>2. Head(tasks[w]) \in Conns /\ Tail(tasks[w]) \in Seq(Conns)
    BY <2>1, Queue DEF TypeOK
  <2> QED
    BY <1>15, <2>2 DEF RemoveTask, TypeOK
<1>16. ASSUME NEW w \in Workers, ServeTask(w) PROVE TypeOK'
  <2>1. task[w] \in Conns /\ w \in Servers
    BY <1>16 DEF ServeTask, Control, Workers, Servers
  <2>2. conns' \in [Servers -> SUBSET Conns] /\ leaked' \in SUBSET Conns
         /\ closed' \in SUBSET Conns
    BY <1>16, <2>1 DEF ServeTask, GetRequest, TypeOK
  <2>3. Append(started[w], task[w]) \in Seq(Conns)
    BY <2>1 DEF TypeOK
  <2> QED
    BY <1>16, <2>2, <2>3 DEF ServeTask, TypeOK
<1>17. ASSUME NEW s \in Servers, NEW c \in Conns, HandleRequest(s, c) PROVE TypeOK'
  BY <1>17 DEF HandleRequest, TypeOK
<1>18. ASSUME NEW s \in Servers, NEW c \in Conns, CloseConn(s, c) PROVE TypeOK'
  BY <1>18 DEF CloseConn, TypeOK
<1>19. ASSUME NEW c \in Conns, Connect(c) PROVE TypeOK'
  BY <1>19 DEF Connect, TypeOK
<1>20. CASE UNCHANGED vars
  BY <1>20 DEF vars, TypeOK
<1> QED
  BY <1>1, <1>2, <1>3, <1>4, <1>5, <1>6, <1>7, <1>8, <1>9, <1>10, <1>11,
     <1>12, <1>13, <1>14, <1>15, <1>16, <1>17, <1>18, <1>19, <1>20
     DEF Next, Startup, AcceptSocket, NotifyWorker, ServeConn

\* Every step keeps the start-up in step with where the main thread is.
LEMMA ControlStep == TypeOK /\ Control /\ NoEmptyDequeue /\ [Next]_vars => Control'
<1> SUFFICES ASSUME TypeOK, Control, NoEmptyDequeue, [Next]_vars PROVE Control'
  OBVIOUS
<1> USE ThreadsAssumption DEF mainVars, workerVars, shared, client, fds, history
<1>1. CASE AddWorker
  BY <1>1 DEF AddWorker, TypeOK, Control, Workers
<1>2. CASE AddWorkerFails
  BY <1>2 DEF AddWorkerFails, TypeOK, Control, Workers
<1>3. CASE NullBase
  BY <1>3 DEF NullBase, TypeOK, Control, Workers
<1>4. CASE SetGencb
  BY <1>4 DEF SetGencb, TypeOK, Control, Workers
<1>5. CASE BindSocket
  BY <1>5 DEF BindSocket, TypeOK, Control, Workers
<1>6. CASE BindFails
  BY <1>6 DEF BindFails, TypeOK, Control, Workers
<1>7. CASE Accept
  <2>1. Head(backlog) \in Conns
    BY <1>7, Queue DEF Accept, TypeOK
  <2> QED
    BY <1>7, <2>1 DEF Accept, TypeOK, Control
<1>8. CASE AcceptLeaks
  BY <1>8 DEF AcceptLeaks, TypeOK, Control, Workers
<1>9. CASE AcceptInline
  BY <1>9 DEF AcceptInline, GetRequest, TypeOK, Control, Workers
<1>10. CASE LockTasks
  BY <1>10 DEF LockTasks, TypeOK, Control, Workers
<1>11. CASE InsertTask
  BY <1>11 DEF InsertTask, TypeOK, Control, Workers
<1>12. CASE Wake
  BY <1>12 DEF Wake, WakeWith, TypeOK, Control, Workers
<1>13. ASSUME NEW w \in Workers, ReadByte(w) PROVE Control'
  BY <1>13 DEF ReadByte, TypeOK, Control, Workers
<1>14. ASSUME NEW w \in Workers, LockOwnTasks(w) PROVE Control'
  BY <1>14 DEF LockOwnTasks, TypeOK, Control, Workers
<1>15. ASSUME NEW w \in Workers, RemoveTask(w) PROVE Control'
  <2>1. tasks[w] # <<>>
    BY <1>15 DEF RemoveTask, NoEmptyDequeue
  <2>2. Head(tasks[w]) \in Conns
    BY <2>1, Queue DEF TypeOK
  <2> QED
    BY <1>15, <2>2 DEF RemoveTask, TypeOK, Control
<1>16. ASSUME NEW w \in Workers, ServeTask(w) PROVE Control'
  BY <1>16 DEF ServeTask, GetRequest, TypeOK, Control, Workers
<1>17. ASSUME NEW s \in Servers, NEW c \in Conns, HandleRequest(s, c) PROVE Control'
  BY <1>17 DEF HandleRequest, TypeOK, Control, Workers
<1>18. ASSUME NEW s \in Servers, NEW c \in Conns, CloseConn(s, c) PROVE Control'
  BY <1>18 DEF CloseConn, TypeOK, Control, Workers
<1>19. ASSUME NEW c \in Conns, Connect(c) PROVE Control'
  BY <1>19 DEF Connect, TypeOK, Control, Workers
<1>20. CASE UNCHANGED vars
  BY <1>20 DEF vars, TypeOK, Control, Workers
<1> QED
  BY <1>1, <1>2, <1>3, <1>4, <1>5, <1>6, <1>7, <1>8, <1>9, <1>10, <1>11,
     <1>12, <1>13, <1>14, <1>15, <1>16, <1>17, <1>18, <1>19, <1>20
     DEF Next, Startup, AcceptSocket, NotifyWorker, ServeConn

\* Every step leaves a lock with whoever is in its critical section.
LEMMA LockStep == TypeOK /\ Control /\ LockInv /\ [Next]_vars => LockInv'
<1> SUFFICES ASSUME TypeOK, Control, LockInv, [Next]_vars PROVE LockInv'
  OBVIOUS
<1> USE DEF mainVars, workerVars, shared, client, fds, history
<1>1. CASE AddWorker
  BY <1>1 DEF AddWorker, TypeOK, Control, LockInv, Workers
<1>2. CASE AddWorkerFails
  BY <1>2 DEF AddWorkerFails, TypeOK, Control, LockInv, Workers
<1>3. CASE NullBase
  BY <1>3 DEF NullBase, TypeOK, Control, LockInv, Workers
<1>4. CASE SetGencb
  BY <1>4 DEF SetGencb, TypeOK, Control, LockInv, Workers
<1>5. CASE BindSocket
  BY <1>5 DEF BindSocket, TypeOK, Control, LockInv, Workers
<1>6. CASE BindFails
  BY <1>6 DEF BindFails, TypeOK, Control, LockInv, Workers
<1>7. CASE Accept
  BY <1>7 DEF Accept, TypeOK, Control, LockInv, Workers
<1>8. CASE AcceptLeaks
  BY <1>8 DEF AcceptLeaks, TypeOK, Control, LockInv, Workers
<1>9. CASE AcceptInline
  BY <1>9 DEF AcceptInline, GetRequest, TypeOK, Control, LockInv, Workers
<1>10. CASE LockTasks
  BY <1>10 DEF LockTasks, TypeOK, Control, LockInv, Workers
<1>11. CASE InsertTask
  BY <1>11 DEF InsertTask, TypeOK, Control, LockInv, Workers
<1>12. CASE Wake
  BY <1>12 DEF Wake, WakeWith, TypeOK, Control, LockInv, Workers
<1>13. ASSUME NEW w \in Workers, ReadByte(w) PROVE LockInv'
  BY <1>13 DEF ReadByte, TypeOK, Control, LockInv, Workers
<1>14. ASSUME NEW w \in Workers, LockOwnTasks(w) PROVE LockInv'
  BY <1>14 DEF LockOwnTasks, TypeOK, Control, LockInv, Workers
<1>15. ASSUME NEW w \in Workers, RemoveTask(w) PROVE LockInv'
  BY <1>15 DEF RemoveTask, TypeOK, Control, LockInv, Workers
<1>16. ASSUME NEW w \in Workers, ServeTask(w) PROVE LockInv'
  BY <1>16 DEF ServeTask, GetRequest, TypeOK, Control, LockInv, Workers
<1>17. ASSUME NEW s \in Servers, NEW c \in Conns, HandleRequest(s, c) PROVE LockInv'
  BY <1>17 DEF HandleRequest, TypeOK, Control, LockInv, Workers
<1>18. ASSUME NEW s \in Servers, NEW c \in Conns, CloseConn(s, c) PROVE LockInv'
  BY <1>18 DEF CloseConn, TypeOK, Control, LockInv, Workers
<1>19. ASSUME NEW c \in Conns, Connect(c) PROVE LockInv'
  BY <1>19 DEF Connect, TypeOK, Control, LockInv, Workers
<1>20. CASE UNCHANGED vars
  BY <1>20 DEF vars, TypeOK, Control, LockInv, Workers
<1> QED
  BY <1>1, <1>2, <1>3, <1>4, <1>5, <1>6, <1>7, <1>8, <1>9, <1>10, <1>11,
     <1>12, <1>13, <1>14, <1>15, <1>16, <1>17, <1>18, <1>19, <1>20
     DEF Next, Startup, AcceptSocket, NotifyWorker, ServeConn

\* Every step keeps one task per wake-up.
LEMMA WakeupsStep == TypeOK /\ Control /\ NoEmptyDequeue /\ WakeupsMatchTasks /\ [Next]_vars => WakeupsMatchTasks'
<1> SUFFICES ASSUME TypeOK, Control, NoEmptyDequeue, WakeupsMatchTasks, [Next]_vars PROVE WakeupsMatchTasks'
  OBVIOUS
<1> USE DEF mainVars, workerVars, shared, client, fds, history
<1>n. \A w \in Workers : pipe[w] \in Nat /\ Len(tasks[w]) \in Nat
  BY PipeAssumption DEF TypeOK
<1>1. CASE AddWorker
  <2>1. nworkers + 1 \in Workers /\ wpc[nworkers + 1] = "unborn"
    BY <1>1, ThreadsAssumption DEF AddWorker, TypeOK, Control, Workers
  <2>2. \A w \in Workers : wpc'[w] \in {"lock", "remove"} <=> wpc[w] \in {"lock", "remove"}
    BY <1>1, <2>1 DEF AddWorker, TypeOK
  <2> QED
    BY <1>1, <2>2 DEF AddWorker, WakeupsMatchTasks
<1>2. CASE AddWorkerFails
  BY <1>2 DEF AddWorkerFails, TypeOK, WakeupsMatchTasks
<1>3. CASE NullBase
  BY <1>3 DEF NullBase, TypeOK, WakeupsMatchTasks
<1>4. CASE SetGencb
  BY <1>4 DEF SetGencb, TypeOK, WakeupsMatchTasks
<1>5. CASE BindSocket
  BY <1>5 DEF BindSocket, TypeOK, WakeupsMatchTasks
<1>6. CASE BindFails
  BY <1>6 DEF BindFails, TypeOK, WakeupsMatchTasks
<1>7. CASE Accept
  BY <1>7 DEF Accept, TypeOK, WakeupsMatchTasks
<1>8. CASE AcceptLeaks
  BY <1>8 DEF AcceptLeaks, TypeOK, WakeupsMatchTasks
<1>9. CASE AcceptInline
  BY <1>9 DEF AcceptInline, GetRequest, TypeOK, WakeupsMatchTasks
<1>10. CASE LockTasks
  BY <1>10 DEF LockTasks, TypeOK, WakeupsMatchTasks
<1>11. CASE InsertTask
  <2>1. cur \in Workers /\ nfd \in Conns
    BY <1>11, ThreadsAssumption DEF InsertTask, TypeOK, Control, Workers
  <2>2. Len(tasks'[cur]) = Len(tasks[cur]) + 1
    BY <1>11, <2>1 DEF InsertTask, TypeOK
  <2>3. \A w \in Workers : w # cur => tasks'[w] = tasks[w]
    BY <1>11 DEF InsertTask, TypeOK
  <2>4. mpc = "insert" /\ mpc' = "wake" /\ cur' = cur /\ pipe' = pipe /\ wpc' = wpc
    BY <1>11 DEF InsertTask
  <2> QED
    BY <2>1, <2>2, <2>3, <2>4, <1>n DEF WakeupsMatchTasks
<1>12. CASE Wake
  <2>1. cur \in Workers
    BY <1>12, ThreadsAssumption DEF Wake, TypeOK, Control, Workers
  <2>2. pipe'[cur] = pipe[cur] + 1
    BY <1>12, <2>1 DEF Wake, WakeWith, TypeOK
  <2>3. \A w \in Workers : w # cur => pipe'[w] = pipe[w]
    BY <1>12 DEF Wake, WakeWith, TypeOK
  <2>4. mpc = "wake" /\ mpc' = "poll" /\ tasks' = tasks /\ wpc' = wpc
    BY <1>12 DEF Wake, WakeWith
  <2> QED
    BY <2>1, <2>2, <2>3, <2>4, <1>n DEF WakeupsMatchTasks
<1>13. ASSUME NEW w \in Workers, ReadByte(w) PROVE WakeupsMatchTasks'
  <2>1. wpc[w] = "poll" /\ wpc'[w] = "lock" /\ pipe'[w] = pipe[w] - 1
    BY <1>13 DEF ReadByte, TypeOK
  <2>2. \A v \in Workers : v # w => pipe'[v] = pipe[v] /\ wpc'[v] = wpc[v]
    BY <1>13 DEF ReadByte, TypeOK
  <2>3. tasks' = tasks /\ mpc' = mpc /\ cur' = cur
    BY <1>13 DEF ReadByte
  <2> QED
    BY <2>1, <2>2, <2>3, <1>n DEF WakeupsMatchTasks
<1>14. ASSUME NEW w \in Workers, LockOwnTasks(w) PROVE WakeupsMatchTasks'
  BY <1>14 DEF LockOwnTasks, TypeOK, WakeupsMatchTasks
<1>15. ASSUME NEW w \in Workers, RemoveTask(w) PROVE WakeupsMatchTasks'
  <2>1. tasks[w] # <<>>
    BY <1>15 DEF RemoveTask, NoEmptyDequeue
  <2>2. wpc[w] = "remove" /\ wpc'[w] = "serve" /\ Len(tasks'[w]) = Len(tasks[w]) - 1
    BY <1>15, <2>1, Queue DEF RemoveTask, TypeOK
  <2>3. \A v \in Workers : v # w => tasks'[v] = tasks[v] /\ wpc'[v] = wpc[v]
    BY <1>15 DEF RemoveTask, TypeOK
  <2>4. pipe' = pipe /\ mpc' = mpc /\ cur' = cur
    BY <1>15 DEF RemoveTask
  <2> QED
    BY <2>2, <2>3, <2>4, <1>n DEF WakeupsMatchTasks
<1>16. ASSUME NEW w \in Workers, ServeTask(w) PROVE WakeupsMatchTasks'
  BY <1>16 DEF ServeTask, GetRequest, TypeOK, WakeupsMatchTasks
<1>17. ASSUME NEW s \in Servers, NEW c \in Conns, HandleRequest(s, c) PROVE WakeupsMatchTasks'
  BY <1>17 DEF HandleRequest, TypeOK, WakeupsMatchTasks
<1>18. ASSUME NEW s \in Servers, NEW c \in Conns, CloseConn(s, c) PROVE WakeupsMatchTasks'
  BY <1>18 DEF CloseConn, TypeOK, WakeupsMatchTasks
<1>19. ASSUME NEW c \in Conns, Connect(c) PROVE WakeupsMatchTasks'
  BY <1>19 DEF Connect, TypeOK, WakeupsMatchTasks
<1>20. CASE UNCHANGED vars
  BY <1>20 DEF vars, TypeOK, WakeupsMatchTasks
<1> QED
  BY <1>1, <1>2, <1>3, <1>4, <1>5, <1>6, <1>7, <1>8, <1>9, <1>10, <1>11,
     <1>12, <1>13, <1>14, <1>15, <1>16, <1>17, <1>18, <1>19, <1>20
     DEF Next, Startup, AcceptSocket, NotifyWorker, ServeConn

\* The hand-over protocol keeps its invariant.
LEMMA PoolStep == PoolInv /\ [Next]_vars => PoolInv'
BY InvDequeue, TypeStep, ControlStep, LockStep, WakeupsStep DEF PoolInv

\* The invariant of the hand-over protocol holds in every state.
LEMMA PoolAlways == Spec => []PoolInv
BY InitPool, PoolStep, PTL DEF Spec

\* Type correctness of the worker pool.
THEOREM TypeCorrect == Spec => []TypeOK
<1>1. PoolInv => TypeOK
  BY DEF PoolInv
<1> QED
  BY <1>1, PoolAlways, PTL

\* notify_worker() never dequeues from an empty task list, whatever the
\* interleaving of accept_socket() with any number of workers.
THEOREM DequeueSafe == Spec => []NoEmptyDequeue
BY InvDequeue, PoolAlways, PTL

\* A worker's task list holds exactly one task per outstanding wake-up.
THEOREM WakeupsExact == Spec => []WakeupsMatchTasks
<1>1. PoolInv => WakeupsMatchTasks
  BY DEF PoolInv
<1> QED
  BY <1>1, PoolAlways, PTL

\* accept_socket() and notify_worker() exclude each other on a task list.
THEOREM Exclusion == Spec => []MutualExclusion
<1>1. PoolInv => MutualExclusion
  BY DEF PoolInv, LockInv, MutualExclusion
<1> QED
  BY <1>1, PoolAlways, PTL

\* The hand-over is safe: the list of tasks, the bytes of the pipe and the lock of
\* a worker agree, for any number of workers and connections and any pipe.
THEOREM HandoverSafe == Spec => []QueueSafe
<1>1. NoEmptyDequeue /\ WakeupsMatchTasks /\ MutualExclusion => QueueSafe
  BY DEF QueueSafe
<1> QED
  BY <1>1, DequeueSafe, WakeupsExact, Exclusion, PTL

-----------------------------------------------------------------------------
(***************************************************************************)
(* Order: sequences.                                                       *)
(***************************************************************************)
\* A task that joins the list is behind those in hand and those before it.
LEMMA AppendConcat ==
  ASSUME NEW S, NEW s \in Seq(S), NEW t \in Seq(S), NEW x \in S
  PROVE  s \o Append(t, x) = Append(s \o t, x)
<1>1. s \o t \in Seq(S) /\ <<x>> \in Seq(S)
  OBVIOUS
<1>2. Append(t, x) = t \o <<x>> /\ Append(s \o t, x) = (s \o t) \o <<x>>
  BY <1>1, AppendIsConcat
<1>3. s \o (t \o <<x>>) = (s \o t) \o <<x>>
  BY <1>1, ConcatAssociative
<1> QED
  BY <1>2, <1>3

\* A non-empty queue is its head followed by its tail.
LEMMA HeadConcatTail ==
  ASSUME NEW S, NEW q \in Seq(S), q # <<>>
  PROVE  <<Head(q)>> \o Tail(q) = q
<1>1. Head(q) \in S /\ Tail(q) \in Seq(S) /\ Len(Tail(q)) = Len(q) - 1
  BY Queue
<1>2. \A i \in 1..Len(Tail(q)) : Tail(q)[i] = q[i + 1]
  BY HeadTailProperties
<1>3. Len(<<Head(q)>> \o Tail(q)) = Len(q) /\ <<Head(q)>> \o Tail(q) \in Seq(S)
  BY <1>1
<1>4. ASSUME NEW i \in 1..Len(q) PROVE (<<Head(q)>> \o Tail(q))[i] = q[i]
  <2>1. CASE i = 1
    BY <2>1, <1>1
  <2>2. CASE i # 1
    BY <2>2, <1>1, <1>2
  <2> QED
    BY <2>1, <2>2
<1> QED
  BY <1>3, <1>4, SeqEqual

\* RemoveTask() moves a task from the list into the hand without reordering.
LEMMA MoveFirst ==
  ASSUME NEW S, NEW s \in Seq(S), NEW q \in Seq(S), q # <<>>
  PROVE  (s \o <<Head(q)>>) \o Tail(q) = s \o q
<1> DEFINE h == <<Head(q)>>
           t == Tail(q)
<1>1. h \in Seq(S) /\ t \in Seq(S)
  BY Queue
<1>2. h \o t = q
  BY HeadConcatTail
<1> HIDE DEF h, t
<1>3. (s \o h) \o t = s \o (h \o t)
  BY <1>1, ConcatAssociative
<1> QED
  BY <1>2, <1>3 DEF h, t

\* Every step keeps the connections of a worker in order.
LEMMA OrderStep == TypeOK /\ Control /\ NoEmptyDequeue /\ TasksInOrder /\ [Next]_vars => TasksInOrder'
<1> SUFFICES ASSUME TypeOK, Control, NoEmptyDequeue, TasksInOrder, [Next]_vars PROVE TasksInOrder'
  OBVIOUS
<1> USE DEF mainVars, workerVars, shared, client, fds, history
<1>1. CASE AddWorker
  <2>1. \A w \in Workers : wpc'[w] = "serve" <=> wpc[w] = "serve"
    BY <1>1, ThreadsAssumption DEF AddWorker, TypeOK, Control, Workers
  <2>2. \A w \in Workers : InHand(w)' = InHand(w)
    BY <1>1, <2>1 DEF AddWorker, InHand
  <2> QED
    BY <1>1, <2>2 DEF AddWorker, TasksInOrder
<1>2. CASE AddWorkerFails
  BY <1>2 DEF AddWorkerFails, InHand, TasksInOrder
<1>3. CASE NullBase
  BY <1>3 DEF NullBase, InHand, TasksInOrder
<1>4. CASE SetGencb
  BY <1>4 DEF SetGencb, InHand, TasksInOrder
<1>5. CASE BindSocket
  BY <1>5 DEF BindSocket, InHand, TasksInOrder
<1>6. CASE BindFails
  BY <1>6 DEF BindFails, InHand, TasksInOrder
<1>7. CASE Accept
  BY <1>7 DEF Accept, InHand, TasksInOrder
<1>8. CASE AcceptLeaks
  BY <1>8 DEF AcceptLeaks, InHand, TasksInOrder
<1>9. CASE AcceptInline
  BY <1>9 DEF AcceptInline, GetRequest, InHand, TasksInOrder
<1>10. CASE LockTasks
  BY <1>10 DEF LockTasks, InHand, TasksInOrder
<1>11. CASE InsertTask
  <2>1. cur \in Workers /\ nfd \in Conns
    BY <1>11, ThreadsAssumption DEF InsertTask, TypeOK, Control, Workers
  <2>2. \A w \in Workers : InHand(w)' = InHand(w)
    BY <1>11 DEF InsertTask, InHand
  <2>3. started[cur] \in Seq(Conns) /\ InHand(cur) \in Seq(Conns) /\ tasks[cur] \in Seq(Conns)
    BY <2>1 DEF TypeOK, Control, InHand
  <2> DEFINE front == started[cur] \o InHand(cur)
  <2>4. front \in Seq(Conns)
    BY <2>3
  <2>5. front \o Append(tasks[cur], nfd) = Append(front \o tasks[cur], nfd)
    <3> HIDE DEF front
    <3> QED
      BY <2>1, <2>3, <2>4, AppendConcat
  <2>6. /\ tasks'[cur] = Append(tasks[cur], nfd) /\ sent'[cur] = Append(sent[cur], nfd)
        /\ \A w \in Workers : w # cur => tasks'[w] = tasks[w] /\ sent'[w] = sent[w]
        /\ started' = started
    BY <1>11, <2>1 DEF InsertTask, TypeOK
  <2> QED
    BY <2>1, <2>2, <2>5, <2>6 DEF TasksInOrder
<1>12. CASE Wake
  BY <1>12 DEF Wake, WakeWith, InHand, TasksInOrder
<1>13. ASSUME NEW w \in Workers, ReadByte(w) PROVE TasksInOrder'
  <2>1. \A v \in Workers : wpc'[v] = "serve" <=> wpc[v] = "serve"
    BY <1>13 DEF ReadByte, TypeOK
  <2> QED
    BY <1>13, <2>1 DEF ReadByte, InHand, TasksInOrder
<1>14. ASSUME NEW w \in Workers, LockOwnTasks(w) PROVE TasksInOrder'
  <2>1. \A v \in Workers : wpc'[v] = "serve" <=> wpc[v] = "serve"
    BY <1>14 DEF LockOwnTasks, TypeOK
  <2> QED
    BY <1>14, <2>1 DEF LockOwnTasks, InHand, TasksInOrder
<1>15. ASSUME NEW w \in Workers, RemoveTask(w) PROVE TasksInOrder'
  <2>1. tasks[w] # <<>> /\ tasks[w] \in Seq(Conns)
    BY <1>15 DEF RemoveTask, NoEmptyDequeue, TypeOK
  <2>2. /\ wpc[w] = "remove" /\ wpc'[w] = "serve"
        /\ task'[w] = Head(tasks[w]) /\ tasks'[w] = Tail(tasks[w])
        /\ \A v \in Workers : v # w => wpc'[v] = wpc[v] /\ task'[v] = task[v] /\ tasks'[v] = tasks[v]
        /\ sent' = sent /\ started' = started
    BY <1>15 DEF RemoveTask, TypeOK
  <2>3. InHand(w) = <<>> /\ InHand(w)' = <<Head(tasks[w])>>
    BY <2>2 DEF InHand
  <2>4. \A v \in Workers : v # w => InHand(v)' = InHand(v)
    BY <2>2 DEF InHand
  <2>5. started[w] \in Seq(Conns) /\ <<Head(tasks[w])>> \in Seq(Conns) /\ Tail(tasks[w]) \in Seq(Conns)
    BY <2>1, Queue DEF TypeOK
  <2>6. (started[w] \o <<Head(tasks[w])>>) \o Tail(tasks[w]) = started[w] \o tasks[w]
    BY <2>1, <2>5, MoveFirst
  <2>7. started[w] \o <<>> = started[w]
    BY <2>5, ConcatEmptySeq
  <2> QED
    BY <2>2, <2>3, <2>4, <2>6, <2>7 DEF TasksInOrder
<1>16. ASSUME NEW w \in Workers, ServeTask(w) PROVE TasksInOrder'
  <2>1. task[w] \in Conns /\ started[w] \in Seq(Conns)
    BY <1>16 DEF ServeTask, TypeOK, Control
  <2>2. /\ wpc[w] = "serve" /\ wpc'[w] = "poll" /\ started'[w] = Append(started[w], task[w])
        /\ \A v \in Workers : v # w => wpc'[v] = wpc[v] /\ task'[v] = task[v] /\ started'[v] = started[v]
        /\ sent' = sent /\ tasks' = tasks
    BY <1>16 DEF ServeTask, TypeOK
  <2>3. InHand(w) = <<task[w]>> /\ InHand(w)' = <<>>
    BY <2>2 DEF InHand
  <2>4. \A v \in Workers : v # w => InHand(v)' = InHand(v)
    BY <2>2 DEF InHand
  <2>5. Append(started[w], task[w]) \o <<>> = started[w] \o <<task[w]>>
    BY <2>1, AppendIsConcat, AppendProperties, ConcatEmptySeq
  <2> QED
    BY <2>2, <2>3, <2>4, <2>5 DEF TasksInOrder
<1>17. ASSUME NEW s \in Servers, NEW c \in Conns, HandleRequest(s, c) PROVE TasksInOrder'
  BY <1>17 DEF HandleRequest, InHand, TasksInOrder
<1>18. ASSUME NEW s \in Servers, NEW c \in Conns, CloseConn(s, c) PROVE TasksInOrder'
  BY <1>18 DEF CloseConn, InHand, TasksInOrder
<1>19. ASSUME NEW c \in Conns, Connect(c) PROVE TasksInOrder'
  BY <1>19 DEF Connect, InHand, TasksInOrder
<1>20. CASE UNCHANGED vars
  BY <1>20 DEF vars, InHand, TasksInOrder
<1> QED
  BY <1>1, <1>2, <1>3, <1>4, <1>5, <1>6, <1>7, <1>8, <1>9, <1>10, <1>11,
     <1>12, <1>13, <1>14, <1>15, <1>16, <1>17, <1>18, <1>19, <1>20
     DEF Next, Startup, AcceptSocket, NotifyWorker, ServeConn

\* Every step keeps the servers quiet until the socket is bound.
LEMMA QuietStep == TypeOK /\ Control /\ Quiet /\ [Next]_vars => Quiet'
<1> SUFFICES ASSUME TypeOK, Control, Quiet, [Next]_vars PROVE Quiet'
  OBVIOUS
<1> USE ThreadsAssumption DEF mainVars, workerVars, shared, client, fds, history
<1>1. CASE AddWorker
  <2>1. nworkers + 1 \in Workers /\ cur' <= 1
    BY <1>1 DEF AddWorker, TypeOK, Control, Quiet, Running, Workers
  <2>2. \A w \in Workers : wpc'[w] \in {"unborn", "poll"}
    BY <1>1, <2>1 DEF AddWorker, TypeOK, Quiet, Running
  <2>3. \A s \in Servers : conns'[s] = {}
    BY <1>1 DEF AddWorker, Quiet, Running
  <2> QED
    BY <1>1, <2>1, <2>2, <2>3 DEF AddWorker, Quiet, Running
<1>2. CASE AddWorkerFails
  BY <1>2 DEF AddWorkerFails, TypeOK, Control, Quiet, Running, Workers, Servers
<1>3. CASE NullBase
  BY <1>3 DEF NullBase, TypeOK, Control, Quiet, Running, Workers, Servers
<1>4. CASE SetGencb
  BY <1>4 DEF SetGencb, TypeOK, Control, Quiet, Running, Workers, Servers
<1>5. CASE BindSocket
  BY <1>5 DEF BindSocket, TypeOK, Control, Quiet, Running, Workers, Servers
<1>6. CASE BindFails
  BY <1>6 DEF BindFails, TypeOK, Control, Quiet, Running, Workers, Servers
<1>7. CASE Accept
  BY <1>7 DEF Accept, TypeOK, Control, Quiet, Running, Workers, Servers
<1>8. CASE AcceptLeaks
  BY <1>8 DEF AcceptLeaks, TypeOK, Control, Quiet, Running, Workers, Servers
<1>9. CASE AcceptInline
  BY <1>9 DEF AcceptInline, GetRequest, TypeOK, Control, Quiet, Running, Workers, Servers
<1>10. CASE LockTasks
  BY <1>10 DEF LockTasks, TypeOK, Control, Quiet, Running, Workers, Servers
<1>11. CASE InsertTask
  BY <1>11 DEF InsertTask, TypeOK, Control, Quiet, Running, Workers, Servers
<1>12. CASE Wake
  BY <1>12 DEF Wake, WakeWith, TypeOK, Control, Quiet, Running, Workers, Servers
<1>13. ASSUME NEW w \in Workers, ReadByte(w) PROVE Quiet'
  BY <1>13 DEF ReadByte, TypeOK, Control, Quiet, Running, Workers, Servers
<1>14. ASSUME NEW w \in Workers, LockOwnTasks(w) PROVE Quiet'
  BY <1>14 DEF LockOwnTasks, TypeOK, Control, Quiet, Running, Workers, Servers
<1>15. ASSUME NEW w \in Workers, RemoveTask(w) PROVE Quiet'
  BY <1>15 DEF RemoveTask, TypeOK, Control, Quiet, Running, Workers, Servers
<1>16. ASSUME NEW w \in Workers, ServeTask(w) PROVE Quiet'
  BY <1>16 DEF ServeTask, GetRequest, TypeOK, Control, Quiet, Running, Workers, Servers
<1>17. ASSUME NEW s \in Servers, NEW c \in Conns, HandleRequest(s, c) PROVE Quiet'
  BY <1>17 DEF HandleRequest, TypeOK, Control, Quiet, Running, Workers, Servers
<1>18. ASSUME NEW s \in Servers, NEW c \in Conns, CloseConn(s, c) PROVE Quiet'
  BY <1>18 DEF CloseConn, TypeOK, Control, Quiet, Running, Workers, Servers
<1>19. ASSUME NEW c \in Conns, Connect(c) PROVE Quiet'
  BY <1>19 DEF Connect, TypeOK, Control, Quiet, Running, Workers, Servers
<1>20. CASE UNCHANGED vars
  BY <1>20 DEF vars, TypeOK, Control, Quiet, Running, Workers, Servers
<1> QED
  BY <1>1, <1>2, <1>3, <1>4, <1>5, <1>6, <1>7, <1>8, <1>9, <1>10, <1>11,
     <1>12, <1>13, <1>14, <1>15, <1>16, <1>17, <1>18, <1>19, <1>20
     DEF Next, Startup, AcceptSocket, NotifyWorker, ServeConn

\* Every step keeps the turns.
LEMMA TurnsStep == TypeOK /\ Control /\ Quiet /\ Turns /\ [Next]_vars => Turns'
<1> SUFFICES ASSUME TypeOK, Control, Quiet, Turns, [Next]_vars PROVE Turns'
  OBVIOUS
<1> USE DEF mainVars, workerVars, shared, client, fds, history
<1>1. CASE AddWorker
  <2>0. \A w \in 1..nworkers' : w \in Workers
    BY <1>1, ThreadsAssumption DEF AddWorker, TypeOK, Control, Workers
  <2>1. \A w \in 1..nworkers' : sent'[w] = <<>>
    BY <1>1, <2>0 DEF AddWorker, Quiet, Running
  <2>2. cur' <= 1 /\ cur' \in Nat /\ mpc' = "spawn"
    BY <1>1 DEF AddWorker, TypeOK, Quiet, Running
  <2>3. \A w \in 1..nworkers' :
          Len(sent'[w]) = 0 + (IF w < cur' \/ (w = cur' /\ mpc' = "wake") THEN 1 ELSE 0)
    BY <2>1, <2>2
  <2> QED
    BY <2>3 DEF Turns
<1>2. CASE AddWorkerFails
  BY <1>2 DEF AddWorkerFails, TypeOK, Turns
<1>3. CASE NullBase
  BY <1>3 DEF NullBase, TypeOK, Turns
<1>4. CASE SetGencb
  BY <1>4 DEF SetGencb, TypeOK, Turns
<1>5. CASE BindSocket
  BY <1>5 DEF BindSocket, TypeOK, Turns
<1>6. CASE BindFails
  BY <1>6 DEF BindFails, TypeOK, Turns
<1>7. CASE Accept
  BY <1>7 DEF Accept, TypeOK, Turns
<1>8. CASE AcceptLeaks
  BY <1>8 DEF AcceptLeaks, TypeOK, Turns
<1>9. CASE AcceptInline
  BY <1>9 DEF AcceptInline, GetRequest, TypeOK, Turns
<1>10. CASE LockTasks
  BY <1>10 DEF LockTasks, TypeOK, Turns
<1>11. CASE InsertTask
  <2>1. cur \in 1..nworkers /\ cur \in Workers /\ nfd \in Conns
    BY <1>11, ThreadsAssumption DEF InsertTask, TypeOK, Control, Workers
  <2>2. Len(sent'[cur]) = Len(sent[cur]) + 1
    BY <1>11, <2>1 DEF InsertTask, TypeOK
  <2>3. \A w \in 1..nworkers : w # cur => sent'[w] = sent[w]
    BY <1>11, <2>1 DEF InsertTask, TypeOK, Control, Workers
  <2>4. mpc = "insert" /\ mpc' = "wake" /\ cur' = cur /\ nworkers' = nworkers
    BY <1>11 DEF InsertTask
  <2>5. PICK r \in Nat : \A w \in 1..nworkers : Len(sent[w]) = r + (IF w < cur THEN 1 ELSE 0)
    BY <2>4 DEF Turns
  <2>6. \A w \in 1..nworkers :
          Len(sent'[w]) = r + (IF w < cur \/ (w = cur /\ mpc' = "wake") THEN 1 ELSE 0)
    BY <2>1, <2>2, <2>3, <2>4, <2>5
  <2> QED
    BY <2>4, <2>6 DEF Turns
<1>12. CASE Wake
  <2>1. cur \in 1..nworkers /\ nworkers \in Nat
    BY <1>12, ThreadsAssumption DEF Wake, TypeOK, Control
  <2>2. /\ mpc = "wake" /\ mpc' = "poll" /\ sent' = sent /\ nworkers' = nworkers
        /\ cur' = IF cur = nworkers THEN 1 ELSE cur + 1
    BY <1>12 DEF Wake, WakeWith
  <2>3. PICK r \in Nat : \A w \in 1..nworkers : Len(sent[w]) = r + (IF w <= cur THEN 1 ELSE 0)
    <3>1. PICK r \in Nat : \A w \in 1..nworkers :
            Len(sent[w]) = r + (IF w < cur \/ (w = cur /\ mpc = "wake") THEN 1 ELSE 0)
      BY DEF Turns
    <3>2. \A w \in 1..nworkers : Len(sent[w]) = r + (IF w <= cur THEN 1 ELSE 0)
      BY <3>1, <2>1, <2>2
    <3> QED
      BY <3>2
  <2>4. CASE cur = nworkers
    <3>1. \A w \in 1..nworkers : Len(sent[w]) = (r + 1) + 0 /\ ~(w < cur')
      BY <2>1, <2>2, <2>3, <2>4
    <3> QED
      BY <3>1, <2>2 DEF Turns
  <2>5. CASE cur # nworkers
    <3>1. \A w \in 1..nworkers : Len(sent[w]) = r + (IF w < cur' THEN 1 ELSE 0)
      BY <2>1, <2>2, <2>3, <2>5
    <3> QED
      BY <3>1, <2>2 DEF Turns
  <2> QED
    BY <2>4, <2>5
<1>13. ASSUME NEW w \in Workers, ReadByte(w) PROVE Turns'
  BY <1>13 DEF ReadByte, TypeOK, Turns
<1>14. ASSUME NEW w \in Workers, LockOwnTasks(w) PROVE Turns'
  BY <1>14 DEF LockOwnTasks, TypeOK, Turns
<1>15. ASSUME NEW w \in Workers, RemoveTask(w) PROVE Turns'
  BY <1>15 DEF RemoveTask, TypeOK, Turns
<1>16. ASSUME NEW w \in Workers, ServeTask(w) PROVE Turns'
  BY <1>16 DEF ServeTask, GetRequest, TypeOK, Turns
<1>17. ASSUME NEW s \in Servers, NEW c \in Conns, HandleRequest(s, c) PROVE Turns'
  BY <1>17 DEF HandleRequest, TypeOK, Turns
<1>18. ASSUME NEW s \in Servers, NEW c \in Conns, CloseConn(s, c) PROVE Turns'
  BY <1>18 DEF CloseConn, TypeOK, Turns
<1>19. ASSUME NEW c \in Conns, Connect(c) PROVE Turns'
  BY <1>19 DEF Connect, TypeOK, Turns
<1>20. CASE UNCHANGED vars
  BY <1>20 DEF vars, TypeOK, Turns
<1> QED
  BY <1>1, <1>2, <1>3, <1>4, <1>5, <1>6, <1>7, <1>8, <1>9, <1>10, <1>11,
     <1>12, <1>13, <1>14, <1>15, <1>16, <1>17, <1>18, <1>19, <1>20
     DEF Next, Startup, AcceptSocket, NotifyWorker, ServeConn

\* No step answers 404.
LEMMA GencbStep == TypeOK /\ Control /\ Quiet /\ GencbBeforeRequests /\ [Next]_vars => GencbBeforeRequests'
<1> SUFFICES ASSUME TypeOK, Control, Quiet, GencbBeforeRequests, [Next]_vars PROVE GencbBeforeRequests'
  OBVIOUS
<1> USE DEF mainVars, workerVars, shared, client, fds, history
<1>1. CASE AddWorker
  BY <1>1 DEF AddWorker, TypeOK, GencbBeforeRequests
<1>2. CASE AddWorkerFails
  BY <1>2 DEF AddWorkerFails, TypeOK, GencbBeforeRequests
<1>3. CASE NullBase
  BY <1>3 DEF NullBase, TypeOK, GencbBeforeRequests
<1>4. CASE SetGencb
  BY <1>4 DEF SetGencb, TypeOK, GencbBeforeRequests
<1>5. CASE BindSocket
  BY <1>5 DEF BindSocket, TypeOK, GencbBeforeRequests
<1>6. CASE BindFails
  BY <1>6 DEF BindFails, TypeOK, GencbBeforeRequests
<1>7. CASE Accept
  BY <1>7 DEF Accept, TypeOK, GencbBeforeRequests
<1>8. CASE AcceptLeaks
  BY <1>8 DEF AcceptLeaks, TypeOK, GencbBeforeRequests
<1>9. CASE AcceptInline
  BY <1>9 DEF AcceptInline, GetRequest, TypeOK, GencbBeforeRequests
<1>10. CASE LockTasks
  BY <1>10 DEF LockTasks, TypeOK, GencbBeforeRequests
<1>11. CASE InsertTask
  BY <1>11 DEF InsertTask, TypeOK, GencbBeforeRequests
<1>12. CASE Wake
  BY <1>12 DEF Wake, WakeWith, TypeOK, GencbBeforeRequests
<1>13. ASSUME NEW w \in Workers, ReadByte(w) PROVE GencbBeforeRequests'
  BY <1>13 DEF ReadByte, TypeOK, GencbBeforeRequests
<1>14. ASSUME NEW w \in Workers, LockOwnTasks(w) PROVE GencbBeforeRequests'
  BY <1>14 DEF LockOwnTasks, TypeOK, GencbBeforeRequests
<1>15. ASSUME NEW w \in Workers, RemoveTask(w) PROVE GencbBeforeRequests'
  BY <1>15 DEF RemoveTask, TypeOK, GencbBeforeRequests
<1>16. ASSUME NEW w \in Workers, ServeTask(w) PROVE GencbBeforeRequests'
  BY <1>16 DEF ServeTask, GetRequest, TypeOK, GencbBeforeRequests
<1>17. ASSUME NEW s \in Servers, NEW c \in Conns, HandleRequest(s, c) PROVE GencbBeforeRequests'
  BY <1>17 DEF HandleRequest, TypeOK, GencbBeforeRequests, Control, Quiet, Running, Servers
<1>18. ASSUME NEW s \in Servers, NEW c \in Conns, CloseConn(s, c) PROVE GencbBeforeRequests'
  BY <1>18 DEF CloseConn, TypeOK, GencbBeforeRequests
<1>19. ASSUME NEW c \in Conns, Connect(c) PROVE GencbBeforeRequests'
  BY <1>19 DEF Connect, TypeOK, GencbBeforeRequests
<1>20. CASE UNCHANGED vars
  BY <1>20 DEF vars, TypeOK, GencbBeforeRequests
<1> QED
  BY <1>1, <1>2, <1>3, <1>4, <1>5, <1>6, <1>7, <1>8, <1>9, <1>10, <1>11,
     <1>12, <1>13, <1>14, <1>15, <1>16, <1>17, <1>18, <1>19, <1>20
     DEF Next, Startup, AcceptSocket, NotifyWorker, ServeConn

-----------------------------------------------------------------------------
(***************************************************************************)
(* Ownership: the places that a connection can be in.  Every step moves at *)
(* most one connection from one place to another.                          *)
(***************************************************************************)
Kinds == {"net", "backlog", "accepting", "leaked", "closed", "conns", "hand", "tasks"}
Place == Kinds \X Servers

\* The connections at every place; the places without a server count as server 0's.
At(k, n) ==
  CASE k = "net" /\ n = 0 -> net
    [] k = "backlog" /\ n = 0 -> Elems(backlog)
    [] k = "accepting" /\ n = 0 -> Accepting
    [] k = "leaked" /\ n = 0 -> leaked
    [] k = "closed" /\ n = 0 -> closed
    [] k = "conns" -> conns[n]
    [] k = "hand" /\ n # 0 -> IF wpc[n] = "serve" THEN {task[n]} ELSE {}
    [] k = "tasks" /\ n # 0 -> Elems(tasks[n])
    [] OTHER -> {}
Here == [p \in Place |-> At(p[1], p[2])]

\* No connection is at two places, and no place is without its connections.
Apart(P, f) == \A p, q \in P : p # q => f[p] \cap f[q] = {}
Once(s) == \A i, j \in 1..Len(s) : i # j => s[i] # s[j]
Ownership == /\ Apart(Place, Here)
             /\ UNION {Here[p] : p \in Place} = Conns
             /\ Once(backlog)
             /\ \A w \in Workers : Once(tasks[w])

\* g is f after c moved from p to q.
Move(P, f, g, c, p, q) ==
  /\ p \in P /\ q \in P /\ p # q
  /\ c \in f[p]
  /\ \A x \in P : g[x] = IF x = p THEN f[x] \ {c} ELSE IF x = q THEN f[x] \cup {c} ELSE f[x]

\* A move keeps the places apart and loses nothing.
LEMMA Moved ==
  ASSUME NEW P, NEW f, NEW g, NEW c, NEW p, NEW q, Apart(P, f), Move(P, f, g, c, p, q)
  PROVE  /\ Apart(P, g)
         /\ UNION {g[x] : x \in P} = UNION {f[x] : x \in P}
         /\ c \notin f[q]
<1>1. c \notin f[q]
  BY DEF Apart, Move
<1>2. Apart(P, g)
  <2> SUFFICES ASSUME NEW x \in P, NEW y \in P, x # y, NEW e \in g[x], e \in g[y] PROVE FALSE
    BY DEF Apart
  <2>1. CASE e = c
    <3>1. \A z \in P : z # p => c \notin f[z]
      BY DEF Apart, Move
    <3>2. \A z \in P : c \in g[z] => z = q
      BY <3>1 DEF Move
    <3> QED
      BY <2>1, <3>2
  <2>2. CASE e # c
    <3>1. e \in f[x] /\ e \in f[y]
      BY <2>2 DEF Move
    <3> QED
      BY <3>1 DEF Apart
  <2> QED
    BY <2>1, <2>2
<1>3. ASSUME NEW e, NEW x \in P, e \in g[x] PROVE \E y \in P : e \in f[y]
  BY <1>3 DEF Move
<1>4. ASSUME NEW e, NEW x \in P, e \in f[x] PROVE \E y \in P : e \in g[y]
  <2>1. CASE e = c
    BY <2>1 DEF Move
  <2>2. CASE e # c
    BY <1>4, <2>2 DEF Move
  <2> QED
    BY <2>1, <2>2
<1> QED
  BY <1>1, <1>2, <1>3, <1>4

\* Taking the head off a queue takes one connection off its elements.
LEMMA Took ==
  ASSUME NEW S, NEW q \in Seq(S), q # <<>>, Once(q)
  PROVE  Elems(Tail(q)) = Elems(q) \ {Head(q)} /\ Once(Tail(q)) /\ Head(q) \in Elems(q)
<1>1. Head(q) = q[1] /\ Len(q) \in Nat /\ Len(q) >= 1 /\ Len(Tail(q)) = Len(q) - 1
  BY HeadTailProperties
<1>2. \A i \in 1..Len(Tail(q)) : Tail(q)[i] = q[i + 1]
  BY HeadTailProperties
<1> DEFINE t == Tail(q)
<1>3. t = Tail(q)
  OBVIOUS
<1> HIDE DEF t
<1>4. Once(t)
  BY <1>1, <1>2, <1>3 DEF Once
<1>5. ASSUME NEW e \in Elems(t) PROVE e \in Elems(q) \ {q[1]}
  <2>1. PICK i \in 1..Len(t) : e = t[i]
    BY DEF Elems
  <2>2. i + 1 \in 1..Len(q) /\ e = q[i + 1] /\ i + 1 # 1
    BY <2>1, <1>1, <1>2, <1>3
  <2> QED
    BY <2>2, <1>1 DEF Once, Elems
<1>6. ASSUME NEW e \in Elems(q), e # q[1] PROVE e \in Elems(t)
  <2>1. PICK i \in 1..Len(q) : e = q[i]
    BY DEF Elems
  <2>2. i - 1 \in 1..Len(t) /\ t[i - 1] = q[i]
    BY <2>1, <1>6, <1>1, <1>2, <1>3
  <2> QED
    BY <2>1, <2>2 DEF Elems
<1>7. q[1] \in Elems(q)
  BY <1>1 DEF Elems
<1> QED
  BY <1>1, <1>3, <1>4, <1>5, <1>6, <1>7

\* Putting a new connection at the end of a queue adds it to its elements.
LEMMA Added ==
  ASSUME NEW S, NEW q \in Seq(S), NEW c \in S
  PROVE  /\ Elems(Append(q, c)) = Elems(q) \cup {c}
         /\ Once(q) /\ c \notin Elems(q) => Once(Append(q, c))
<1> DEFINE a == Append(q, c)
<1>1. Len(a) = Len(q) + 1 /\ Len(q) \in Nat
  OBVIOUS
<1>2. a[Len(q) + 1] = c /\ \A i \in 1..Len(q) : a[i] = q[i]
  OBVIOUS
<1> HIDE DEF a
<1>3. 1..Len(a) = 1..Len(q) \cup {Len(q) + 1}
  BY <1>1
<1>4. Elems(a) = Elems(q) \cup {c}
  BY <1>2, <1>3 DEF Elems
<1>5. ASSUME Once(q), c \notin Elems(q) PROVE Once(a)
  <2>1. \A i \in 1..Len(q) : q[i] # c
    BY <1>5 DEF Elems
  <2> QED
    BY <1>1, <1>2, <1>3, <1>5, <2>1 DEF Once
<1> QED
  BY <1>4, <1>5 DEF a

\* c moves from the connections of kind k of server n to those of kind l of m.
Shift(c, k, n, l, m) ==
  \A j \in Kinds, i \in Servers :
    At(j, i)' = IF j = k /\ i = n THEN At(j, i) \ {c}
                ELSE IF j = l /\ i = m THEN At(j, i) \cup {c} ELSE At(j, i)

\* What moves between the variables moves between the places.
LEMMA Places ==
  ASSUME NEW c, NEW k \in Kinds, NEW n \in Servers, NEW l \in Kinds, NEW m \in Servers,
         k # l, c \in At(k, n), Shift(c, k, n, l, m)
  PROVE  Move(Place, Here, Here', c, <<k, n>>, <<l, m>>)
<1>1. \A p \in Place : p[1] \in Kinds /\ p[2] \in Servers /\ p = <<p[1], p[2]>>
  BY DEF Place
<1>2. \A p \in Place : Here[p] = At(p[1], p[2]) /\ Here'[p] = At(p[1], p[2])'
  BY DEF Here
<1>3. <<k, n>> \in Place /\ <<l, m>> \in Place
  BY DEF Place
<1>4. ASSUME NEW p \in Place
      PROVE Here'[p] = IF p = <<k, n>> THEN Here[p] \ {c}
                       ELSE IF p = <<l, m>> THEN Here[p] \cup {c} ELSE Here[p]
  <2>1. p[1] \in Kinds /\ p[2] \in Servers /\ p = <<p[1], p[2]>>
    BY <1>1
  <2>2. /\ p = <<k, n>> <=> p[1] = k /\ p[2] = n
        /\ p = <<l, m>> <=> p[1] = l /\ p[2] = m
    BY <2>1
  <2> QED
    BY <1>2, <2>1, <2>2 DEF Shift
<1>5. c \in Here[<<k, n>>]
  BY <1>2, <1>3
<1> QED
  <2>1. <<k, n>> # <<l, m>>
    OBVIOUS
  <2> QED
    BY <1>3, <1>4, <1>5, <2>1 DEF Move

\* A step that leaves the variables of the places alone leaves the places alone.
LEMMA Same ==
  ASSUME Ownership, backlog' = backlog, tasks' = tasks,
         \A j \in Kinds, i \in Servers : At(j, i)' = At(j, i)
  PROVE  Ownership'
<1>1. Here' = Here
  BY DEF Here, Place
<1> QED
  BY <1>1 DEF Ownership

\* A connection that moves keeps its one owner.
LEMMA Arrives ==
  ASSUME Ownership, NEW c, NEW p, NEW q, Move(Place, Here, Here', c, p, q),
         Once(backlog)', \A w \in Workers : Once(tasks[w])'
  PROVE  Ownership'
BY Moved DEF Ownership

\* Every step moves at most one connection.
LEMMA OwnerStep == TypeOK /\ Control /\ NoEmptyDequeue /\ Ownership /\ [Next]_vars => Ownership'
<1> SUFFICES ASSUME TypeOK, Control, NoEmptyDequeue, Ownership, [Next]_vars PROVE Ownership'
  OBVIOUS
<1> USE DEF mainVars, workerVars, shared, client, fds, history
<1>z. 0 \in Servers /\ \A n \in Servers : n # 0 => n \in Workers
  BY ThreadsAssumption DEF Servers, Workers
<1>s. \A w \in Workers : w \in Servers /\ w # 0
  BY ThreadsAssumption DEF Servers, Workers
<1>o. Once(backlog) /\ \A w \in Workers : Once(tasks[w])
  BY DEF Ownership
<1>1. CASE AddWorker
  <2>1. \A w \in Workers : wpc'[w] = "serve" <=> wpc[w] = "serve"
    BY <1>1, ThreadsAssumption DEF AddWorker, TypeOK, Control, Workers
  <2>2. \A j \in Kinds, i \in Servers : At(j, i)' = At(j, i)
    BY <1>1, <2>1, <1>z DEF AddWorker, At, Accepting
  <2> QED
    BY <1>1, <2>2, Same DEF AddWorker
<1>2. CASE AddWorkerFails
  BY <1>2, Same DEF AddWorkerFails, At, Accepting
<1>3. CASE NullBase
  BY <1>3, Same DEF NullBase, At, Accepting
<1>4. CASE SetGencb
  BY <1>4, Same DEF SetGencb, At, Accepting
<1>5. CASE BindSocket
  BY <1>5, Same DEF BindSocket, At, Accepting
<1>6. CASE BindFails
  BY <1>6, Same DEF BindFails, At, Accepting
<1>7. CASE Accept
  <2> DEFINE c == Head(backlog)
  <2>1. Elems(Tail(backlog)) = Elems(backlog) \ {c} /\ Once(Tail(backlog)) /\ c \in Elems(backlog)
    BY <1>7, <1>o, Took DEF Accept, TypeOK
  <2>2. Shift(c, "backlog", 0, "accepting", 0)
    <3>1. /\ Elems(backlog)' = Elems(backlog) \ {c} /\ Accepting = {} /\ Accepting' = {c}
          /\ net' = net /\ leaked' = leaked /\ closed' = closed /\ conns' = conns
          /\ wpc' = wpc /\ task' = task /\ tasks' = tasks
      BY <1>7, <2>1 DEF Accept, Accepting
    <3> QED
      BY <3>1, <1>z, <1>s DEF Shift, At, Kinds
  <2>3. c \in At("backlog", 0)
    BY <2>1 DEF At
  <2>4. Move(Place, Here, Here', c, <<"backlog", 0>>, <<"accepting", 0>>)
    BY <2>2, <2>3, <1>z, Places DEF Kinds
  <2> QED
    BY <1>7, <2>1, <2>4, <1>o, Arrives DEF Accept
<1>8. CASE AcceptLeaks
  <2> DEFINE c == Head(backlog)
  <2>1. Elems(Tail(backlog)) = Elems(backlog) \ {c} /\ Once(Tail(backlog)) /\ c \in Elems(backlog)
    BY <1>8, <1>o, Took DEF AcceptLeaks, TypeOK
  <2>2. Shift(c, "backlog", 0, "leaked", 0)
    <3>1. /\ Elems(backlog)' = Elems(backlog) \ {c} /\ leaked' = leaked \cup {c}
          /\ net' = net /\ Accepting' = Accepting /\ closed' = closed /\ conns' = conns
          /\ wpc' = wpc /\ task' = task /\ tasks' = tasks
      BY <1>8, <2>1 DEF AcceptLeaks, Accepting
    <3> QED
      BY <3>1, <1>z, <1>s DEF Shift, At, Kinds
  <2>3. c \in At("backlog", 0)
    BY <2>1 DEF At
  <2>4. Move(Place, Here, Here', c, <<"backlog", 0>>, <<"leaked", 0>>)
    BY <2>2, <2>3, <1>z, Places DEF Kinds
  <2> QED
    BY <1>8, <2>1, <2>4, <1>o, Arrives DEF AcceptLeaks
<1>9. CASE AcceptInline
  <2> DEFINE c == Head(backlog)
  <2>1. Elems(Tail(backlog)) = Elems(backlog) \ {c} /\ Once(Tail(backlog)) /\ c \in Elems(backlog)
    BY <1>9, <1>o, Took DEF AcceptInline, TypeOK
  <2>3. c \in At("backlog", 0)
    BY <2>1 DEF At
  <2>4. \/ Shift(c, "backlog", 0, "conns", 0)
        \/ Shift(c, "backlog", 0, "leaked", 0)
        \/ Shift(c, "backlog", 0, "closed", 0)
    <3>1. /\ Elems(backlog)' = Elems(backlog) \ {c}
          /\ net' = net /\ Accepting' = Accepting /\ wpc' = wpc /\ task' = task /\ tasks' = tasks
      BY <1>9, <2>1 DEF AcceptInline, Accepting
    <3>2. GetRequest(0, c)
      BY <1>9 DEF AcceptInline
    <3>3. CASE conns' = [conns EXCEPT ![0] = @ \cup {c}] /\ UNCHANGED <<leaked, closed>>
      <4>1. /\ conns'[0] = conns[0] \cup {c}
            /\ \A i \in Servers : i # 0 => conns'[i] = conns[i]
            /\ leaked' = leaked /\ closed' = closed
        BY <3>3, <1>z DEF TypeOK
      <4> QED
        BY <3>1, <4>1, <1>z DEF Shift, At, Kinds
    <3>4. CASE leaked' = leaked \cup {c} /\ UNCHANGED <<conns, closed>>
      BY <3>1, <3>4, <1>z DEF Shift, At, Kinds
    <3>5. CASE closed' = closed \cup {c} /\ UNCHANGED <<conns, leaked>>
      BY <3>1, <3>5, <1>z DEF Shift, At, Kinds
    <3> QED
      BY <3>2, <3>3, <3>4, <3>5 DEF GetRequest
  <2>5. \E l \in {"conns", "leaked", "closed"} :
          Move(Place, Here, Here', c, <<"backlog", 0>>, <<l, 0>>)
    BY <2>3, <2>4, <1>z, Places DEF Kinds
  <2> QED
    BY <1>9, <2>1, <2>5, <1>o, Arrives DEF AcceptInline
<1>10. CASE LockTasks
  BY <1>10, Same DEF LockTasks, At, Accepting
<1>11. CASE InsertTask
  <2>1. cur \in Workers /\ nfd \in Conns /\ cur \in Servers /\ cur # 0
    BY <1>11, <1>s, ThreadsAssumption DEF InsertTask, TypeOK, Control, Workers
  <2>2. Elems(Append(tasks[cur], nfd)) = Elems(tasks[cur]) \cup {nfd}
    BY <2>1, Added DEF TypeOK
  <2>3. Shift(nfd, "accepting", 0, "tasks", cur)
    <3>1. /\ Accepting = {nfd} /\ Accepting' = {}
          /\ Elems(tasks'[cur]) = Elems(tasks[cur]) \cup {nfd}
          /\ \A i \in Workers : i # cur => tasks'[i] = tasks[i]
          /\ net' = net /\ backlog' = backlog /\ leaked' = leaked /\ closed' = closed /\ conns' = conns
          /\ wpc' = wpc /\ task' = task
      BY <1>11, <2>1, <2>2 DEF InsertTask, TypeOK, Accepting
    <3> QED
      BY <3>1, <2>1, <1>z, <1>s DEF Shift, At, Kinds
  <2>4. nfd \in At("accepting", 0)
    BY <1>11 DEF InsertTask, At, Accepting
  <2>5. Move(Place, Here, Here', nfd, <<"accepting", 0>>, <<"tasks", cur>>)
    BY <2>1, <2>3, <2>4, <1>z, Places DEF Kinds
  <2>6. nfd \notin Elems(tasks[cur])
    <3>1. nfd \notin Here[<<"tasks", cur>>]
      BY <2>5, Moved DEF Ownership
    <3>2. Here[<<"tasks", cur>>] = Elems(tasks[cur])
      BY <2>1 DEF Here, Place, Kinds, At
    <3> QED
      BY <3>1, <3>2
  <2>7. Once(Append(tasks[cur], nfd))
    BY <2>1, <2>6, <1>o, Added DEF TypeOK
  <2>8. \A w \in Workers : Once(tasks'[w])
    BY <1>11, <2>1, <2>7, <1>o DEF InsertTask, TypeOK
  <2> QED
    BY <1>11, <2>5, <2>8, <1>o, Arrives DEF InsertTask
<1>12. CASE Wake
  BY <1>12, Same DEF Wake, WakeWith, At, Accepting
<1>13. ASSUME NEW w \in Workers, ReadByte(w) PROVE Ownership'
  <2>1. \A v \in Workers : wpc'[v] = "serve" <=> wpc[v] = "serve"
    BY <1>13 DEF ReadByte, TypeOK
  <2> QED
    BY <1>13, <2>1, <1>z, Same DEF ReadByte, At, Accepting
<1>14. ASSUME NEW w \in Workers, LockOwnTasks(w) PROVE Ownership'
  <2>1. \A v \in Workers : wpc'[v] = "serve" <=> wpc[v] = "serve"
    BY <1>14 DEF LockOwnTasks, TypeOK
  <2> QED
    BY <1>14, <2>1, <1>z, Same DEF LockOwnTasks, At, Accepting
<1>15. ASSUME NEW w \in Workers, RemoveTask(w) PROVE Ownership'
  <2> DEFINE c == Head(tasks[w])
  <2>1. tasks[w] # <<>> /\ tasks[w] \in Seq(Conns)
    BY <1>15 DEF RemoveTask, NoEmptyDequeue, TypeOK
  <2>2. Elems(Tail(tasks[w])) = Elems(tasks[w]) \ {c} /\ Once(Tail(tasks[w])) /\ c \in Elems(tasks[w])
    BY <2>1, <1>o, Took
  <2>3. Shift(c, "tasks", w, "hand", w)
    <3>1. /\ Elems(tasks'[w]) = Elems(tasks[w]) \ {c}
          /\ wpc[w] # "serve" /\ wpc'[w] = "serve" /\ task'[w] = c
          /\ \A i \in Workers : i # w => /\ tasks'[i] = tasks[i] /\ task'[i] = task[i]
                                          /\ wpc'[i] = wpc[i]
          /\ net' = net /\ backlog' = backlog /\ Accepting' = Accepting
          /\ leaked' = leaked /\ closed' = closed /\ conns' = conns
      BY <1>15, <2>2 DEF RemoveTask, TypeOK, Accepting
    <3> QED
      BY <3>1, <1>z, <1>s DEF Shift, At, Kinds
  <2>4. c \in At("tasks", w)
    BY <2>2, <1>s DEF At
  <2>5. Move(Place, Here, Here', c, <<"tasks", w>>, <<"hand", w>>)
    BY <2>3, <2>4, <1>s, Places DEF Kinds
  <2>6. \A v \in Workers : Once(tasks'[v])
    BY <1>15, <2>2, <1>o DEF RemoveTask, TypeOK
  <2> QED
    BY <1>15, <2>5, <2>6, <1>o, Arrives DEF RemoveTask
<1>16. ASSUME NEW w \in Workers, ServeTask(w) PROVE Ownership'
  <2>1. \/ Shift(task[w], "hand", w, "conns", w)
        \/ Shift(task[w], "hand", w, "leaked", 0)
        \/ Shift(task[w], "hand", w, "closed", 0)
    <3>1. /\ wpc[w] = "serve" /\ wpc'[w] # "serve"
          /\ \A i \in Workers : i # w => task'[i] = task[i] /\ wpc'[i] = wpc[i]
          /\ net' = net /\ backlog' = backlog /\ Accepting' = Accepting /\ tasks' = tasks
      BY <1>16 DEF ServeTask, TypeOK, Accepting
    <3>2. GetRequest(w, task[w])
      BY <1>16 DEF ServeTask
    <3>3. CASE conns' = [conns EXCEPT ![w] = @ \cup {task[w]}] /\ UNCHANGED <<leaked, closed>>
      <4>1. /\ conns'[w] = conns[w] \cup {task[w]}
            /\ \A i \in Servers : i # w => conns'[i] = conns[i]
            /\ leaked' = leaked /\ closed' = closed
        BY <3>3, <1>s DEF TypeOK
      <4> QED
        <5>1. \A i \in Servers : i # 0 /\ i # w => wpc'[i] = wpc[i] /\ task'[i] = task[i]
          BY <3>1, <1>z
        <5>2. \A i \in Servers : /\ At("conns", i)' = IF i = w THEN At("conns", i) \cup {task[w]} ELSE At("conns", i)
                                 /\ At("hand", i)' = IF i = w THEN {} ELSE At("hand", i)
          BY <3>1, <4>1, <5>1, <1>s DEF At
        <5>3. At("hand", w) = {task[w]}
          BY <3>1, <1>s DEF At
        <5>4. \A j \in Kinds \ {"conns", "hand"}, i \in Servers : At(j, i)' = At(j, i)
          BY <3>1, <4>1 DEF At, Kinds
        <5> QED
          BY <5>2, <5>3, <5>4 DEF Shift
    <3>4. CASE leaked' = leaked \cup {task[w]} /\ UNCHANGED <<conns, closed>>
      BY <3>1, <3>4, <1>z, <1>s DEF Shift, At, Kinds
    <3>5. CASE closed' = closed \cup {task[w]} /\ UNCHANGED <<conns, leaked>>
      BY <3>1, <3>5, <1>z, <1>s DEF Shift, At, Kinds
    <3> QED
      BY <3>2, <3>3, <3>4, <3>5 DEF GetRequest
  <2>2. task[w] \in At("hand", w)
    BY <1>16, <1>s DEF ServeTask, At
  <2>3. \E q : Move(Place, Here, Here', task[w], <<"hand", w>>, q)
    BY <2>1, <2>2, <1>z, <1>s, Places DEF Kinds
  <2> QED
    BY <1>16, <2>3, <1>o, Arrives DEF ServeTask
<1>17. ASSUME NEW s \in Servers, NEW c \in Conns, HandleRequest(s, c) PROVE Ownership'
  BY <1>17, Same DEF HandleRequest, At, Accepting
<1>18. ASSUME NEW s \in Servers, NEW c \in Conns, CloseConn(s, c) PROVE Ownership'
  <2>1. Shift(c, "conns", s, "closed", 0)
    <3>1. /\ conns'[s] = conns[s] \ {c} /\ closed' = closed \cup {c}
          /\ \A i \in Servers : i # s => conns'[i] = conns[i]
          /\ net' = net /\ backlog' = backlog /\ Accepting' = Accepting /\ leaked' = leaked
          /\ wpc' = wpc /\ task' = task /\ tasks' = tasks
      BY <1>18 DEF CloseConn, TypeOK, Accepting
    <3> QED
      BY <3>1, <1>z, <1>s DEF Shift, At, Kinds
  <2>2. c \in At("conns", s)
    BY <1>18 DEF CloseConn, At
  <2>3. Move(Place, Here, Here', c, <<"conns", s>>, <<"closed", 0>>)
    BY <2>1, <2>2, <1>z, Places DEF Kinds
  <2> QED
    BY <1>18, <2>3, <1>o, Arrives DEF CloseConn
<1>19. ASSUME NEW c \in Conns, Connect(c) PROVE Ownership'
  <2>1. Elems(Append(backlog, c)) = Elems(backlog) \cup {c}
    BY Added DEF TypeOK
  <2>2. Shift(c, "net", 0, "backlog", 0)
    <3>1. /\ net' = net \ {c} /\ Elems(backlog)' = Elems(backlog) \cup {c}
          /\ Accepting' = Accepting /\ leaked' = leaked /\ closed' = closed /\ conns' = conns
          /\ wpc' = wpc /\ task' = task /\ tasks' = tasks
      BY <1>19, <2>1 DEF Connect, Accepting
    <3> QED
      BY <3>1, <1>z, <1>s DEF Shift, At, Kinds
  <2>3. c \in At("net", 0)
    BY <1>19 DEF Connect, At
  <2>4. Move(Place, Here, Here', c, <<"net", 0>>, <<"backlog", 0>>)
    BY <2>2, <2>3, <1>z, Places DEF Kinds
  <2>5. c \notin Elems(backlog)
    <3>1. c \notin Here[<<"backlog", 0>>]
      BY <2>4, Moved DEF Ownership
    <3>2. Here[<<"backlog", 0>>] = Elems(backlog)
      BY <1>z DEF Here, Place, Kinds, At
    <3> QED
      BY <3>1, <3>2
  <2>6. Once(Append(backlog, c))
    BY <2>5, <1>o, Added DEF TypeOK
  <2> QED
    BY <1>19, <2>4, <2>6, <1>o, Arrives DEF Connect
<1>20. CASE UNCHANGED vars
  BY <1>20, Same DEF vars, At, Accepting
<1> QED
  BY <1>1, <1>2, <1>3, <1>4, <1>5, <1>6, <1>7, <1>8, <1>9, <1>10, <1>11,
     <1>12, <1>13, <1>14, <1>15, <1>16, <1>17, <1>18, <1>19, <1>20
     DEF Next, Startup, AcceptSocket, NotifyWorker, ServeConn

\* The connections of a queue put behind another.
LEMMA ElemsConcat ==
  ASSUME NEW S, NEW s \in Seq(S), NEW t \in Seq(S)
  PROVE  Elems(s \o t) = Elems(s) \cup Elems(t)
<1> DEFINE u == s \o t
<1>1. Len(u) = Len(s) + Len(t) /\ Len(s) \in Nat /\ Len(t) \in Nat
  OBVIOUS
<1>2. /\ \A i \in 1..Len(s) : u[i] = s[i]
      /\ \A i \in 1..Len(t) : u[i + Len(s)] = t[i]
  OBVIOUS
<1> HIDE DEF u
<1>3. ASSUME NEW e \in Elems(u) PROVE e \in Elems(s) \cup Elems(t)
  <2>1. PICK i \in 1..Len(u) : e = u[i]
    BY DEF Elems
  <2>2. CASE i <= Len(s)
    BY <1>1, <1>2, <2>1, <2>2 DEF Elems
  <2>3. CASE i > Len(s)
    <3>1. i - Len(s) \in 1..Len(t) /\ e = t[i - Len(s)]
      BY <1>1, <1>2, <2>1, <2>3
    <3> QED
      BY <3>1 DEF Elems
  <2> QED
    BY <1>1, <2>1, <2>2, <2>3
<1>4. Elems(s) \subseteq Elems(u)
  BY <1>1, <1>2 DEF Elems
<1>5. ASSUME NEW e \in Elems(t) PROVE e \in Elems(u)
  <2>1. PICK i \in 1..Len(t) : e = t[i]
    BY DEF Elems
  <2>2. i + Len(s) \in 1..Len(u) /\ u[i + Len(s)] = e
    BY <1>1, <1>2, <2>1
  <2> QED
    BY <2>2 DEF Elems
<1> QED
  BY <1>3, <1>4, <1>5 DEF u

\* What a worker has not yet taken up is in its hand or in its list.
LEMMA HandAndTasks ==
  ASSUME TypeOK, Control, NEW w \in Workers
  PROVE  /\ Elems(InHand(w) \o tasks[w]) = At("hand", w) \cup At("tasks", w)
         /\ w # 0 /\ w \in Servers
<1>1. w # 0 /\ w \in Servers
  BY ThreadsAssumption DEF Workers, Servers
<1>2. InHand(w) \in Seq(Conns) /\ tasks[w] \in Seq(Conns)
  BY DEF TypeOK, Control, InHand
<1>3. Elems(InHand(w) \o tasks[w]) = Elems(InHand(w)) \cup Elems(tasks[w])
  BY <1>2, ElemsConcat
<1>4. Elems(InHand(w)) = At("hand", w)
  BY <1>1 DEF Elems, InHand, At
<1>5. Elems(tasks[w]) = At("tasks", w)
  BY <1>1 DEF At
<1> QED
  BY <1>1, <1>3, <1>4, <1>5

\* Places that differ share no connection, and all of them hold every one.
LEMMA PlacesApart ==
  ASSUME Ownership
  PROVE  /\ \A k, l \in Kinds, m, n \in Servers :
              k # l \/ m # n => At(k, m) \cap At(l, n) = {}
         /\ \A c : c \in Conns <=> \E k \in Kinds, n \in Servers : c \in At(k, n)
<1>1. \A k \in Kinds, n \in Servers : <<k, n>> \in Place /\ Here[<<k, n>>] = At(k, n)
  BY DEF Here, Place
<1>2. ASSUME NEW k \in Kinds, NEW l \in Kinds, NEW m \in Servers, NEW n \in Servers,
             k # l \/ m # n
      PROVE  At(k, m) \cap At(l, n) = {}
  <2>1. <<k, m>> # <<l, n>>
    BY <1>2
  <2> QED
    BY <1>1, <2>1 DEF Ownership, Apart
<1>3. ASSUME NEW c \in Conns PROVE \E k \in Kinds, n \in Servers : c \in At(k, n)
  <2>1. PICK p \in Place : c \in Here[p]
    BY DEF Ownership
  <2>2. p[1] \in Kinds /\ p[2] \in Servers /\ Here[p] = At(p[1], p[2])
    BY DEF Here, Place
  <2> QED
    BY <2>1, <2>2
<1>4. ASSUME NEW k \in Kinds, NEW n \in Servers, NEW c \in At(k, n) PROVE c \in Conns
  BY <1>1 DEF Ownership
<1> QED
  BY <1>2, <1>3, <1>4

\* Separate places are separate owners.
LEMMA OwnershipOne == TypeOK /\ Control /\ Ownership => OneOwner
<1> SUFFICES ASSUME TypeOK, Control, Ownership PROVE OneOwner
  OBVIOUS
<1>z. 0 \in Servers
  BY ThreadsAssumption DEF Servers
<1>k. {"net", "backlog", "accepting", "leaked", "closed", "conns", "hand", "tasks"} \subseteq Kinds
  BY DEF Kinds
<1>a. \A k, l \in Kinds, m, n \in Servers : k # l \/ m # n => At(k, m) \cap At(l, n) = {}
  BY PlacesApart
<1>h. \A w \in Workers : /\ w # 0 /\ w \in Servers
                         /\ Elems(InHand(w) \o tasks[w]) = At("hand", w) \cup At("tasks", w)
                         /\ conns[w] = At("conns", w)
                         /\ Handed(w) = At("hand", w) \cup At("tasks", w) \cup At("conns", w)
  BY HandAndTasks DEF Handed, At
<1>g. /\ conns[0] = At("conns", 0) /\ net = At("net", 0) /\ Elems(backlog) = At("backlog", 0)
      /\ Accepting = At("accepting", 0) /\ leaked = At("leaked", 0) /\ closed = At("closed", 0)
  BY DEF At
<1>1. ASSUME NEW v \in Workers, NEW w \in Workers, v # w PROVE Handed(v) \cap Handed(w) = {}
  BY <1>1, <1>a, <1>h, <1>k
<1>2. ASSUME NEW w \in Workers
      PROVE  /\ Elems(InHand(w) \o tasks[w]) \cap conns[w] = {}
             /\ Handed(w) \cap conns[0] = {}
  BY <1>a, <1>g, <1>h, <1>k, <1>z
<1>3. ASSUME NEW w \in Workers
      PROVE  /\ \A i, j \in 1..Len(tasks[w]) : i # j => tasks[w][i] # tasks[w][j]
             /\ wpc[w] = "serve" => task[w] \notin Elems(tasks[w])
  <2>1. Once(tasks[w])
    BY DEF Ownership
  <2>2. At("hand", w) \cap At("tasks", w) = {}
    BY <1>a, <1>h, <1>k
  <2>3. wpc[w] = "serve" => task[w] \in At("hand", w)
    BY <1>h DEF At
  <2>4. Elems(tasks[w]) = At("tasks", w)
    BY <1>h DEF At
  <2> QED
    BY <2>1, <2>2, <2>3, <2>4 DEF Once
<1> DEFINE owned == conns[0] \cup UNION {Handed(w) : w \in Workers}
           free == net \cup Elems(backlog) \cup Accepting
<1>4. \A c \in owned : \E k \in {"conns", "hand", "tasks"}, n \in Servers : c \in At(k, n)
  BY <1>g, <1>h, <1>z
<1>5. \A c \in free : \E k \in {"net", "backlog", "accepting"} : c \in At(k, 0)
  BY <1>g
<1> HIDE DEF owned, free
<1>6. owned \cap free = {}
  BY <1>4, <1>5, <1>a, <1>k, <1>z
<1>7. (leaked \cup closed) \cap (owned \cup free) = {}
  <2>1. \A c \in leaked \cup closed : \E k \in {"leaked", "closed"} : c \in At(k, 0)
    BY <1>g
  <2> QED
    BY <2>1, <1>4, <1>5, <1>a, <1>k, <1>z
<1>8. leaked \cap closed = {}
  BY <1>a, <1>g, <1>k, <1>z
<1> QED
  BY <1>1, <1>2, <1>3, <1>6, <1>7, <1>8 DEF OneOwner, owned, free

\* All places together hold every connection.
LEMMA OwnershipAll == TypeOK /\ Control /\ Ownership => NoneLost
<1> SUFFICES ASSUME TypeOK, Control, Ownership PROVE NoneLost
  OBVIOUS
<1> DEFINE pending(w) == Elems(InHand(w) \o tasks[w])
           idle == net \cup Elems(backlog) \cup Accepting \cup leaked \cup closed
           served == UNION {conns[s] : s \in Servers}
           handed == UNION {pending(w) : w \in Workers}
<1>1. \A w \in Workers : pending(w) = At("hand", w) \cup At("tasks", w) /\ w \in Servers
  BY HandAndTasks
<1>2. \A c : c \in Conns <=> \E k \in Kinds, n \in Servers : c \in At(k, n)
  BY PlacesApart
<1> HIDE DEF pending
<1>3. \A c \in handed : \E w \in Workers : c \in pending(w)
  OBVIOUS
<1>4. \A w \in Workers : pending(w) \subseteq handed
  OBVIOUS
<1>5. \A s \in Servers : conns[s] \subseteq served
  OBVIOUS
<1>6. served \subseteq Conns
  BY DEF TypeOK
<1>7. idle \subseteq Conns
  <2>1. 0 \in Servers
    BY ThreadsAssumption DEF Servers
  <2>2. /\ net = At("net", 0) /\ Elems(backlog) = At("backlog", 0)
        /\ Accepting = At("accepting", 0) /\ leaked = At("leaked", 0) /\ closed = At("closed", 0)
    BY DEF At
  <2> QED
    BY <2>1, <2>2, <1>2 DEF Kinds
<1> HIDE DEF idle, served, handed
<1>8. handed \subseteq Conns
  BY <1>1, <1>2, <1>3 DEF Kinds
<1>9. ASSUME NEW c \in Conns PROVE c \in idle \cup served \cup handed
  <2>1. PICK k \in Kinds, n \in Servers : c \in At(k, n)
    BY <1>2
  <2>2. CASE k \in {"net", "backlog", "accepting", "leaked", "closed"}
    BY <2>1, <2>2 DEF At, idle
  <2>3. CASE k = "conns"
    BY <2>1, <2>3, <1>5 DEF At
  <2>4. CASE k \in {"hand", "tasks"}
    <3>1. n # 0
      BY <2>1, <2>4 DEF At
    <3>2. n \in Workers
      BY <3>1, ThreadsAssumption DEF Servers, Workers
    <3>3. c \in pending(n)
      BY <2>1, <2>4, <3>2, <1>1
    <3> QED
      BY <3>2, <3>3, <1>4
  <2> QED
    BY <2>2, <2>3, <2>4 DEF Kinds
<1>10. Conns = idle \cup served \cup handed
  BY <1>6, <1>7, <1>8, <1>9
<1>11. NoneLost <=> Conns = idle \cup served \cup handed
  BY DEF NoneLost, idle, served, handed, pending
<1> QED
  BY <1>10, <1>11

\* Nothing has moved yet.
LEMMA InitOwner == Init => Ownership
<1> SUFFICES ASSUME Init PROVE Ownership
  OBVIOUS
<1>1. \A k \in Kinds, n \in Servers : At(k, n) = IF k = "net" /\ n = 0 THEN Conns ELSE {}
  <2>1. Elems(<<>>) = {}
    BY DEF Elems
  <2>2. \A n \in Servers : n # 0 => n \in Workers
    BY ThreadsAssumption DEF Servers, Workers
  <2> QED
    BY <2>1, <2>2 DEF Init, At, Accepting, Kinds
<1>2. \A p \in Place : Here[p] = IF p[1] = "net" /\ p[2] = 0 THEN Conns ELSE {}
  BY <1>1 DEF Here, Place
<1>3. <<"net", 0>> \in Place
  BY ThreadsAssumption DEF Place, Kinds, Servers
<1>4. Apart(Place, Here)
  <2> SUFFICES ASSUME NEW p \in Place, NEW q \in Place, p # q, Here[p] # {}, Here[q] # {}
               PROVE  FALSE
    BY DEF Apart
  <2>1. p = <<p[1], p[2]>> /\ q = <<q[1], q[2]>>
    BY DEF Place
  <2>2. p[1] = q[1] /\ p[2] = q[2]
    BY <1>2
  <2> QED
    BY <2>1, <2>2
<1>5. Once(backlog) /\ \A w \in Workers : Once(tasks[w])
  BY DEF Init, Once
<1>6. UNION {Here[p] : p \in Place} = Conns
  BY <1>2, <1>3
<1> QED
  BY <1>4, <1>5, <1>6 DEF Ownership

-----------------------------------------------------------------------------
(***************************************************************************)
(* The whole invariant and what follows from it.                           *)
(***************************************************************************)
ServerInv == PoolInv /\ TasksInOrder /\ Quiet /\ Turns /\ GencbBeforeRequests /\ Ownership

\* The server starts in its invariant.
LEMMA InitServer == Init => ServerInv
<1> SUFFICES ASSUME Init PROVE ServerInv
  OBVIOUS
<1>1. TasksInOrder
  BY DEF Init, TasksInOrder, InHand
<1>2. Quiet
  BY ThreadsAssumption DEF Init, Quiet, Running, Workers, Servers
<1>3. Turns
  BY DEF Init, Turns
<1>4. GencbBeforeRequests
  BY DEF Init, GencbBeforeRequests
<1> QED
  BY <1>1, <1>2, <1>3, <1>4, InitPool, InitOwner DEF ServerInv

\* Every step of the server keeps its invariant.
LEMMA ServerStep == ServerInv /\ [Next]_vars => ServerInv'
<1> SUFFICES ASSUME ServerInv, [Next]_vars PROVE ServerInv'
  OBVIOUS
<1>1. PoolInv /\ TypeOK /\ Control /\ NoEmptyDequeue
  BY InvDequeue DEF ServerInv, PoolInv
<1>2. PoolInv'
  BY <1>1, PoolStep
<1>3. TasksInOrder' /\ Quiet' /\ Turns' /\ GencbBeforeRequests' /\ Ownership'
  BY <1>1, OrderStep, QuietStep, TurnsStep, GencbStep, OwnerStep DEF ServerInv
<1> QED
  BY <1>2, <1>3 DEF ServerInv

\* The invariant of the server holds in every state.
LEMMA ServerAlways == Spec => []ServerInv
BY InitServer, ServerStep, PTL DEF Spec

\* Every worker takes its connections up in the order in which accept_socket()
\* handed them to it; none is lost or repeated between the two threads.
THEOREM OrderKept == Spec => []TasksInOrder
<1>1. ServerInv => TasksInOrder
  BY DEF ServerInv
<1> QED
  BY <1>1, ServerAlways, PTL

\* accept_socket() spreads the connections evenly over the ring, whatever the
\* number of workers.
THEOREM RoundRobin == Spec => []Balanced
<1>1. ServerInv => Balanced
  BY DEF ServerInv, Turns, Balanced
<1> QED
  BY <1>1, ServerAlways, PTL

\* The order of main()'s calls is enough for every request to find the generic
\* callback in its server.
THEOREM GencbReady == Spec => []GencbBeforeRequests
<1>1. ServerInv => GencbBeforeRequests
  BY DEF ServerInv
<1> QED
  BY <1>1, ServerAlways, PTL

\* Whatever the interleaving, a descriptor has one owner: it is never in the lists
\* of two workers, twice in one list, or still queued while a server closes it.
THEOREM SingleOwner == Spec => []OneOwner
<1>1. ServerInv => OneOwner
  BY OwnershipOne DEF ServerInv, PoolInv
<1> QED
  BY <1>1, ServerAlways, PTL

\* accept_socket() and notify_worker() lose no descriptor between them: every
\* connection is in the listen queue, in a thread's hand, in a list, with a server,
\* or one of those that were closed or that the code is known to leak.
THEOREM NothingLost == Spec => []NoneLost
<1>1. ServerInv => NoneLost
  BY OwnershipAll DEF ServerInv, PoolInv
<1> QED
  BY <1>1, ServerAlways, PTL

-----------------------------------------------------------------------------
(***************************************************************************)
(* Refinement: the state that Dispatch sees, and what every step does to   *)
(* it.                                                                     *)
(***************************************************************************)
Waiting == net \cup Elems(backlog) \cup Accepting
Turn == IF mpc # "wake" THEN cur ELSE IF cur = nworkers THEN 1 ELSE cur + 1
Chan == [w \in Workers |-> InHand(w) \o tasks[w]]
Gone == leaked \cup closed
seen == <<Waiting, nworkers, Turn, Chan, conns, Gone>>

\* Connections that wait are in one of three places.
LEMMA WaitingIs ==
  ASSUME Ownership
  PROVE  /\ net \cap Elems(backlog) = {} /\ net \cap Accepting = {}
         /\ Elems(backlog) \cap Accepting = {}
         /\ Waiting \subseteq Conns
<1>1. /\ net = At("net", 0) /\ Elems(backlog) = At("backlog", 0) /\ Accepting = At("accepting", 0)
  BY DEF At
<1>2. 0 \in Servers
  BY ThreadsAssumption DEF Servers
<1>3. {"net", "backlog", "accepting"} \subseteq Kinds
  BY DEF Kinds
<1>4. \A k, l \in Kinds, m, n \in Servers : k # l \/ m # n => At(k, m) \cap At(l, n) = {}
  BY PlacesApart
<1>5. \A c : c \in Conns <=> \E k \in Kinds, n \in Servers : c \in At(k, n)
  BY PlacesApart
<1> QED
  BY <1>1, <1>2, <1>3, <1>4, <1>5 DEF Waiting

\* A worker's channel is in its type.
LEMMA ChanType ==
  ASSUME TypeOK, Control, NEW w \in Workers
  PROVE  InHand(w) \in Seq(Conns) /\ tasks[w] \in Seq(Conns)
BY DEF TypeOK, Control, InHand

\* The channels only depend on the lists and on what the workers hold.
LEMMA SameChan ==
  ASSUME tasks' = tasks, \A w \in Workers : InHand(w)' = InHand(w)
  PROVE  Chan' = Chan
BY DEF Chan

\* A step that hides from Dispatch.
LEMMA Stutter ==
  ASSUME UNCHANGED seen
  PROVE  UNCHANGED D!vars
BY DEF seen, D!vars, Waiting, Turn, Chan, Gone

\* Every step of the pool is a step of Dispatch or none.
LEMMA DispatchStep ==
  TypeOK /\ Control /\ NoEmptyDequeue /\ Quiet /\ Ownership /\ [Next]_vars
    => [D!Next]_(D!vars)
<1> SUFFICES ASSUME TypeOK, Control, NoEmptyDequeue, Quiet, Ownership, [Next]_vars
             PROVE  [D!Next]_(D!vars)
  OBVIOUS
<1> USE DEF mainVars, workerVars, shared, client, fds, history
<1>o. Once(backlog)
  BY DEF Ownership
<1>1. CASE AddWorker
  <2>1. \A w \in Workers : wpc'[w] = "serve" <=> wpc[w] = "serve"
    BY <1>1, ThreadsAssumption DEF AddWorker, TypeOK, Control, Workers
  <2>2. \A w \in Workers : InHand(w)' = InHand(w)
    BY <1>1, <2>1 DEF AddWorker, InHand
  <2>3. Chan' = Chan
    BY <1>1, <2>2, SameChan DEF AddWorker
  <2>4. Waiting = Conns /\ Waiting' = Waiting /\ Gone' = Gone /\ conns' = conns
    <3>1. Waiting \subseteq Conns
      BY WaitingIs
    <3> QED
      BY <1>1, <3>1 DEF AddWorker, Waiting, Quiet, Running, Accepting, Gone
  <2>5. nworkers < NThreads /\ nworkers' = nworkers + 1 /\ Turn = cur
        /\ Turn' = (IF Turn = 0 THEN 1 ELSE Turn)
    BY <1>1, ThreadsAssumption DEF AddWorker, TypeOK, Control, Turn
  <2>6. D!Enroll
    BY <2>3, <2>4, <2>5 DEF D!Enroll, Waiting, Turn, Chan, Gone
  <2> QED
    BY <2>6 DEF D!Next
<1>2. CASE AddWorkerFails
  <2>1. UNCHANGED seen
    BY <1>2 DEF AddWorkerFails, seen, Waiting, Turn, Chan, Gone, InHand, Accepting
  <2> QED
    BY <2>1, Stutter
<1>3. CASE NullBase
  <2>1. UNCHANGED seen
    BY <1>3 DEF NullBase, seen, Waiting, Turn, Chan, Gone, InHand, Accepting
  <2> QED
    BY <2>1, Stutter
<1>4. CASE SetGencb
  <2>1. UNCHANGED seen
    BY <1>4 DEF SetGencb, seen, Waiting, Turn, Chan, Gone, InHand, Accepting
  <2> QED
    BY <2>1, Stutter
<1>5. CASE BindSocket
  <2>1. UNCHANGED seen
    BY <1>5 DEF BindSocket, seen, Waiting, Turn, Chan, Gone, InHand, Accepting
  <2> QED
    BY <2>1, Stutter
<1>6. CASE BindFails
  <2>1. UNCHANGED seen
    BY <1>6 DEF BindFails, seen, Waiting, Turn, Chan, Gone, InHand, Accepting
  <2> QED
    BY <2>1, Stutter
<1>7. CASE Accept
  <2>1. Elems(Tail(backlog)) = Elems(backlog) \ {Head(backlog)} /\ Head(backlog) \in Elems(backlog)
    BY <1>7, <1>o, Took DEF Accept, TypeOK
  <2>2. Waiting' = Waiting
    BY <1>7, <2>1 DEF Accept, Waiting, Accepting
  <2>3. UNCHANGED <<nworkers, Turn, Chan, conns, Gone>>
    BY <1>7 DEF Accept, Turn, Chan, Gone, InHand
  <2> QED
    BY <2>2, <2>3, Stutter DEF seen
<1>8. CASE AcceptLeaks
  <2>1. /\ Elems(Tail(backlog)) = Elems(backlog) \ {Head(backlog)}
        /\ Head(backlog) \in Elems(backlog)
    BY <1>8, <1>o, Took DEF AcceptLeaks, TypeOK
  <2>2. Waiting' = Waiting \ {Head(backlog)} /\ Head(backlog) \in Waiting
    BY <1>8, <2>1, WaitingIs DEF AcceptLeaks, Waiting, Accepting
  <2>3. Gone' = Gone \cup {Head(backlog)} /\ UNCHANGED <<nworkers, Turn, Chan, conns>>
    BY <1>8 DEF AcceptLeaks, Gone, Turn, Chan, InHand
  <2>4. D!Drop(Head(backlog))
    BY <2>2, <2>3 DEF D!Drop, Waiting, Turn, Chan, Gone
  <2>5. Head(backlog) \in Conns
    BY <2>2, WaitingIs
  <2> QED
    BY <2>4, <2>5 DEF D!Next
<1>9. CASE AcceptInline
  <2>1. /\ Elems(Tail(backlog)) = Elems(backlog) \ {Head(backlog)}
        /\ Head(backlog) \in Elems(backlog)
    BY <1>9, <1>o, Took DEF AcceptInline, TypeOK
  <2>2. Waiting' = Waiting \ {Head(backlog)} /\ Head(backlog) \in Waiting
    BY <1>9, <2>1, WaitingIs DEF AcceptInline, Waiting, Accepting
  <2>3. Turn = 0 /\ UNCHANGED <<nworkers, Turn, Chan>>
    BY <1>9 DEF AcceptInline, Turn, Chan, InHand
  <2>4. Head(backlog) \in Conns
    BY <2>2, WaitingIs
  <2>5. CASE /\ conns' = [conns EXCEPT ![0] = @ \cup {Head(backlog)}]
             /\ UNCHANGED <<leaked, closed>>
    <3>1. Gone' = Gone
      BY <2>5 DEF Gone
    <3>2. D!Keep(Head(backlog))
      BY <2>2, <2>3, <2>5, <3>1 DEF D!Keep, Waiting, Turn, Chan, Gone
    <3> QED
      BY <2>4, <3>2 DEF D!Next
  <2>6. CASE conns' = conns /\ Gone' = Gone \cup {Head(backlog)}
    <3>1. D!Drop(Head(backlog))
      BY <2>2, <2>3, <2>6 DEF D!Drop, Waiting, Turn, Chan, Gone
    <3> QED
      BY <2>4, <3>1 DEF D!Next
  <2> QED
    BY <1>9, <2>5, <2>6 DEF AcceptInline, GetRequest, Gone
<1>10. CASE LockTasks
  <2>1. UNCHANGED seen
    BY <1>10 DEF LockTasks, seen, Waiting, Turn, Chan, Gone, InHand, Accepting
  <2> QED
    BY <2>1, Stutter
<1>11. CASE InsertTask
  <2>1. cur \in Workers /\ nfd \in Conns /\ cur # 0
    BY <1>11, ThreadsAssumption DEF InsertTask, TypeOK, Control, Workers
  <2>2. Waiting' = Waiting \ {nfd} /\ nfd \in Waiting
    BY <1>11, WaitingIs DEF InsertTask, Waiting, Accepting
  <2>3. /\ Turn = cur /\ Turn' = (IF Turn = nworkers THEN 1 ELSE Turn + 1)
        /\ UNCHANGED <<nworkers, conns, Gone>>
    BY <1>11 DEF InsertTask, Turn, Gone
  <2>4. Chan' = [Chan EXCEPT ![cur] = Append(@, nfd)]
    <3>1. PICK k \in Workers : k = cur
      BY <2>1
    <3>2. InHand(k) \o Append(tasks[k], nfd) = Append(InHand(k) \o tasks[k], nfd)
      BY <2>1, ChanType, AppendConcat
    <3>3. \A w \in Workers : InHand(w)' = InHand(w)
      BY <1>11 DEF InsertTask, InHand
    <3>4. tasks'[k] = Append(tasks[k], nfd) /\ \A w \in Workers : w # k => tasks'[w] = tasks[w]
      BY <1>11, <3>1 DEF InsertTask, TypeOK
    <3> DEFINE ch(w) == InHand(w) \o tasks[w]
    <3>5. ch(k)' = Append(ch(k), nfd) /\ \A w \in Workers : w # k => ch(w)' = ch(w)
      BY <3>2, <3>3, <3>4
    <3>6. Chan = [w \in Workers |-> ch(w)] /\ Chan' = [w \in Workers |-> ch(w)']
      BY DEF Chan
    <3> HIDE DEF ch
    <3>7. Chan' = [Chan EXCEPT ![k] = Append(@, nfd)]
      BY <3>5, <3>6
    <3> QED
      BY <3>1, <3>7
  <2>5. PICK c \in Conns : c = nfd
    BY <2>1
  <2>6. D!Hand(c)
    <3>1. Chan' = [Chan EXCEPT ![Turn] = Append(@, c)] /\ Turn # 0
      BY <2>1, <2>3, <2>4, <2>5
    <3> QED
      BY <2>2, <2>3, <2>5, <3>1 DEF D!Hand, Waiting, Turn, Chan, Gone
  <2> QED
    BY <2>6 DEF D!Next
<1>12. CASE Wake
  <2>1. UNCHANGED seen
    BY <1>12 DEF Wake, WakeWith, seen, Waiting, Turn, Chan, Gone, InHand, Accepting
  <2> QED
    BY <2>1, Stutter
<1>13. ASSUME NEW w \in Workers, ReadByte(w) PROVE [D!Next]_(D!vars)
  <2>1. \A v \in Workers : InHand(v)' = InHand(v)
    BY <1>13 DEF ReadByte, TypeOK, InHand
  <2>2. UNCHANGED seen
    BY <1>13, <2>1, SameChan DEF ReadByte, seen, Waiting, Turn, Gone, Accepting
  <2> QED
    BY <2>2, Stutter
<1>14. ASSUME NEW w \in Workers, LockOwnTasks(w) PROVE [D!Next]_(D!vars)
  <2>1. \A v \in Workers : InHand(v)' = InHand(v)
    BY <1>14 DEF LockOwnTasks, TypeOK, InHand
  <2>2. UNCHANGED seen
    BY <1>14, <2>1, SameChan DEF LockOwnTasks, seen, Waiting, Turn, Gone, Accepting
  <2> QED
    BY <2>2, Stutter
<1>15. ASSUME NEW w \in Workers, RemoveTask(w) PROVE [D!Next]_(D!vars)
  <2>1. tasks[w] # <<>> /\ tasks[w] \in Seq(Conns)
    BY <1>15 DEF RemoveTask, NoEmptyDequeue, TypeOK
  <2>2. <<Head(tasks[w])>> \o Tail(tasks[w]) = tasks[w] /\ <<>> \o tasks[w] = tasks[w]
    BY <2>1, HeadConcatTail, ConcatEmptySeq
  <2>3. /\ InHand(w) = <<>> /\ InHand(w)' = <<Head(tasks[w])>> /\ tasks'[w] = Tail(tasks[w])
        /\ \A v \in Workers : v # w => InHand(v)' = InHand(v) /\ tasks'[v] = tasks[v]
    BY <1>15 DEF RemoveTask, TypeOK, InHand
  <2>4. \A v \in Workers : (InHand(v) \o tasks[v])' = InHand(v) \o tasks[v]
    BY <2>2, <2>3
  <2>5. Chan' = Chan
    BY <2>4 DEF Chan
  <2>6. UNCHANGED seen
    BY <1>15, <2>5 DEF RemoveTask, seen, Waiting, Turn, Gone, Accepting
  <2> QED
    BY <2>6, Stutter
<1>16. ASSUME NEW w \in Workers, ServeTask(w) PROVE [D!Next]_(D!vars)
  <2>1. task[w] \in Conns /\ tasks[w] \in Seq(Conns)
    BY <1>16 DEF ServeTask, Control, TypeOK
  <2>2. /\ InHand(w) = <<task[w]>> /\ InHand(w)' = <<>> /\ tasks' = tasks
        /\ \A v \in Workers : v # w => InHand(v)' = InHand(v)
    BY <1>16 DEF ServeTask, TypeOK, InHand
  <2>3. /\ Chan[w] = <<task[w]>> \o tasks[w]
        /\ Chan[w] # <<>> /\ Head(Chan[w]) = task[w] /\ Tail(Chan[w]) = tasks[w]
    <3>1. Chan[w] = <<task[w]>> \o tasks[w]
      BY <2>2 DEF Chan
    <3> DEFINE q == <<task[w]>> \o tasks[w]
    <3>2. q \in Seq(Conns) /\ Len(q) = Len(tasks[w]) + 1 /\ q[1] = task[w]
          /\ \A i \in 1..Len(tasks[w]) : q[i + 1] = tasks[w][i]
      BY <2>1
    <3>3. Len(tasks[w]) \in Nat
      BY <2>1
    <3> HIDE DEF q
    <3>4. q # <<>>
      BY <3>2, <3>3
    <3>5. Head(q) = task[w] /\ Tail(q) \in Seq(Conns) /\ Len(Tail(q)) = Len(q) - 1
          /\ \A i \in 1..Len(Tail(q)) : Tail(q)[i] = q[i + 1]
      BY <3>2, <3>4, HeadTailProperties
    <3>6. Len(Tail(q)) = Len(tasks[w])
      BY <3>2, <3>3, <3>5
    <3>7. Tail(q) = tasks[w]
      BY <2>1, <3>2, <3>5, <3>6, SeqEqual
    <3> QED
      BY <3>1, <3>4, <3>5, <3>7 DEF q
  <2>4. Chan' = [Chan EXCEPT ![w] = Tail(@)]
    <3> DEFINE ch(v) == InHand(v) \o tasks[v]
    <3>1. ch(w)' = tasks[w]
      BY <2>1, <2>2, ConcatEmptySeq
    <3>2. \A v \in Workers : v # w => ch(v)' = ch(v)
      BY <2>2
    <3>3. Chan = [v \in Workers |-> ch(v)] /\ Chan' = [v \in Workers |-> ch(v)']
      BY DEF Chan
    <3> HIDE DEF ch
    <3> QED
      BY <2>3, <3>1, <3>2, <3>3
  <2>5. UNCHANGED <<Waiting, nworkers, Turn>>
    BY <1>16 DEF ServeTask, Waiting, Accepting, Turn
  <2>6. CASE conns' = [conns EXCEPT ![w] = @ \cup {task[w]}] /\ UNCHANGED <<leaked, closed>>
    <3>1. conns' = [conns EXCEPT ![w] = @ \cup {Head(Chan[w])}] /\ Gone' = Gone
      BY <2>3, <2>6 DEF Gone
    <3>2. D!Take(w)
      BY <2>3, <2>4, <2>5, <3>1 DEF D!Take, Waiting, Turn, Chan, Gone
    <3> QED
      BY <3>2 DEF D!Next, Workers
  <2>7. CASE conns' = conns /\ Gone' = Gone \cup {task[w]}
    <3>1. Gone' = Gone \cup {Head(Chan[w])}
      BY <2>3, <2>7
    <3>2. D!Refuse(w)
      BY <2>3, <2>4, <2>5, <2>7, <3>1 DEF D!Refuse, Waiting, Turn, Chan, Gone
    <3> QED
      BY <3>2 DEF D!Next, Workers
  <2> QED
    BY <1>16, <2>6, <2>7 DEF ServeTask, GetRequest, Gone
<1>17. ASSUME NEW s \in Servers, NEW c \in Conns, HandleRequest(s, c) PROVE [D!Next]_(D!vars)
  <2>1. UNCHANGED seen
    BY <1>17 DEF HandleRequest, seen, Waiting, Turn, Chan, Gone, InHand, Accepting
  <2> QED
    BY <2>1, Stutter
<1>18. ASSUME NEW s \in Servers, NEW c \in Conns, CloseConn(s, c) PROVE [D!Next]_(D!vars)
  <2>1. Gone' = Gone \cup {c} /\ UNCHANGED <<Waiting, nworkers, Turn, Chan>>
    BY <1>18 DEF CloseConn, Waiting, Turn, Chan, Gone, InHand, Accepting
  <2>2. D!Finish(s, c)
    BY <1>18, <2>1 DEF CloseConn, D!Finish, Waiting, Turn, Chan, Gone
  <2> QED
    BY <2>2 DEF D!Next, Servers
<1>19. ASSUME NEW c \in Conns, Connect(c) PROVE [D!Next]_(D!vars)
  <2>1. Elems(Append(backlog, c)) = Elems(backlog) \cup {c}
    BY Added DEF TypeOK
  <2>2. Waiting' = Waiting
    BY <1>19, <2>1 DEF Connect, Waiting, Accepting
  <2>3. UNCHANGED <<nworkers, Turn, Chan, conns, Gone>>
    BY <1>19 DEF Connect, Turn, Chan, Gone, InHand
  <2> QED
    BY <2>2, <2>3, Stutter DEF seen
<1>20. CASE UNCHANGED vars
  <2>1. UNCHANGED seen
    BY <1>20 DEF vars, seen, Waiting, Turn, Chan, Gone, InHand, Accepting
  <2> QED
    BY <2>1, Stutter
<1> QED
  BY <1>1, <1>2, <1>3, <1>4, <1>5, <1>6, <1>7, <1>8, <1>9, <1>10, <1>11,
     <1>12, <1>13, <1>14, <1>15, <1>16, <1>17, <1>18, <1>19, <1>20
     DEF Next, Startup, AcceptSocket, NotifyWorker, ServeConn

\* The pool starts as Dispatch does.
LEMMA DispatchInit == Init => D!Init
<1> SUFFICES ASSUME Init PROVE D!Init
  OBVIOUS
<1>1. Waiting = Conns
  BY DEF Init, Waiting, Accepting, Elems
<1>2. Chan = [w \in 1..NThreads |-> <<>>]
  BY DEF Init, Chan, InHand, Workers
<1>3. Turn = 0 /\ Gone = {} /\ nworkers = 0 /\ conns = [s \in 0..NThreads |-> {}]
  BY DEF Init, Turn, Gone, Servers
<1> QED
  BY <1>1, <1>2, <1>3 DEF D!Init, Waiting, Turn, Chan, Gone

\* The threads, locks, pipes and event loops of the server implement the abstract
\* hand-over: accept_socket() gives every connection to the worker whose turn it is
\* and each worker takes what it was given, first come first served.
THEOREM PoolImplementsDispatch == Spec => DispatchSpec
<1>1. ServerInv /\ [Next]_vars => [D!Next]_(D!vars)
  BY DispatchStep, InvDequeue DEF ServerInv, PoolInv
<1> QED
  BY <1>1, DispatchInit, ServerAlways, PTL DEF Spec, DispatchSpec, D!Spec

=============================================================================
