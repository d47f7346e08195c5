-------------------------- MODULE ThreadPoolProofs --------------------------
(***************************************************************************)
(* Proofs about the thread pool, for any number of workers and tasks.      *)
(* The inductive invariant adds to the properties where the owner is in    *)
(* its two loops and which workers that leaves alive.                      *)
(***************************************************************************)
EXTENDS ThreadPool, FiniteSetTheorems, TLAPS

PC == {"absent", "idle", "check", "waiting", "busy", "exited", "returned"}

\* wakeOne and wakeAll turn sleepers into threads that evaluate their condition, nothing else.
LEMMA WakeEffect ==
    ASSUME pc \in [Threads -> PC], WakeAll \/ WakeOne
    PROVE  /\ pc' \in [Threads -> PC]
           /\ \A t \in Threads :
                  pc'[t] = pc[t] \/ (pc[t] = "waiting" /\ pc'[t] = "check")
<1>1. CASE WakeAll
  BY <1>1 DEF WakeAll, Sleepers, PC
<1>2. CASE WakeOne
  BY <1>2 DEF WakeOne, Sleepers, PC
<1>. QED BY <1>1, <1>2

\* A thread that calls waitForDone is not a worker.
LEMMA WaitersAreNotWorkers == Waiters \cap Workers = {}
  BY PoolAssumption DEF PoolAssumption, Workers

-----------------------------------------------------------------------------
\* Every variable keeps its type, whatever the pool's size (all of threadpool.cpp).
LEMMA TypeInduction ==
    ASSUME TypeOK, phase = "init" => idx < NumWorkers, [Next]_vars,
           phase = "stopping" => idx \in Workers
    PROVE  TypeOK'
<1> USE PoolAssumption DEF TypeOK, Workers, Threads
<1>1. CASE StartWorker
  BY <1>1 DEF StartWorker
<1>2. CASE AddTask
  <2>1. pc' \in [Threads -> {"absent", "idle", "check", "waiting", "busy", "exited", "returned"}]
    BY <1>2 DEF AddTask, WakeOne, Sleepers
  <2>2. added' \in 0 .. MaxTasks /\ taskQueue' \in Seq(Nat)
    BY <1>2 DEF AddTask
  <2>. QED BY <1>2, <2>1, <2>2 DEF AddTask
<1>3. CASE BeginDestroy
  BY <1>3 DEF BeginDestroy, WakeAll, Sleepers
<1>4. CASE StopWorker
  BY <1>4 DEF StopWorker, WakeAll, Sleepers
<1>5. CASE JoinWorker
  <2>1. pc' \in [Threads -> {"absent", "idle", "check", "waiting", "busy", "exited", "returned"}]
    BY <1>5 DEF JoinWorker, WakeAll, Sleepers
  <2>2. CASE idx < NumWorkers
    BY <1>5, <2>1, <2>2 DEF JoinWorker
  <2>3. CASE ~(idx < NumWorkers)
    <3>1. taskQueue' \in Seq(Nat)
      BY <1>5, <2>3 DEF JoinWorker
    <3>. QED BY <1>5, <2>1, <2>3, <3>1 DEF JoinWorker
  <2>. QED BY <2>2, <2>3
<1>6. ASSUME NEW w \in Workers, TakeTask(w) PROVE TypeOK'
  <2>1. Head(taskQueue) \in Nat /\ Tail(taskQueue) \in Seq(Nat)
    BY <1>6 DEF TakeTask
  <2>. QED BY <1>6, <2>1 DEF TakeTask
<1>7. ASSUME NEW w \in Workers, WorkerWait(w) \/ WorkerExit(w) PROVE TypeOK'
  BY <1>7 DEF WorkerWait, WorkerExit
<1>8. ASSUME NEW w \in Workers, FinishTask(w) PROVE TypeOK'
  BY <1>8 DEF FinishTask, NoTask
<1>9. ASSUME NEW x \in Waiters, WaiterStep(x) PROVE TypeOK'
  <2>1. CASE CallWaitForDone(x)
    BY <2>1 DEF CallWaitForDone
  <2>2. CASE WaitForDoneLoop(x)
    BY <2>2 DEF WaitForDoneLoop
  <2>. QED BY <1>9, <2>1, <2>2 DEF WaiterStep
<1>10. ASSUME NEW t \in Threads, SpuriousWakeup(t) PROVE TypeOK'
  BY <1>10 DEF SpuriousWakeup
<1>11. CASE UNCHANGED vars
  BY <1>11 DEF vars
<1>. QED
  BY <1>1, <1>2, <1>3, <1>4, <1>5, <1>6, <1>7, <1>8, <1>9, <1>10, <1>11
  DEF Next, OwnerStep, WorkerStep

-----------------------------------------------------------------------------
(* Where the owner is, and what that says about the workers.               *)

OwnerPlace ==
    /\ phase = "init" => /\ idx < NumWorkers
                         /\ \A w \in Workers : w > idx => pc[w] = "absent"
    /\ phase = "stopping" => /\ idx \in Workers
                             /\ \A w \in Workers : w < idx => pc[w] = "exited"
    /\ DestroyedIsQuiet
    /\ \A w \in Workers : stop[w] => phase \in {"stopping", "destroyed"}

\* Every step keeps the owner's place in step with the workers.
LEMMA OwnerPlaceInduction ==
    ASSUME TypeOK, OwnerPlace, [Next]_vars
    PROVE  OwnerPlace'
<1> USE PoolAssumption DEF TypeOK, Workers, Threads, OwnerPlace, DestroyedIsQuiet
<1>1. CASE StartWorker
  BY <1>1 DEF StartWorker
<1>2. CASE AddTask
  BY <1>2, WakeEffect DEF AddTask, PC
<1>3. CASE BeginDestroy
  BY <1>3 DEF BeginDestroy
<1>4. CASE StopWorker
  BY <1>4, WakeEffect DEF StopWorker, PC
<1>5. CASE JoinWorker
  <2>1. \A w \in Workers : pc[w] = "exited" => pc'[w] = "exited"
    BY <1>5, WakeEffect DEF JoinWorker, PC
  <2>2. \A w \in Workers : w <= idx => pc'[w] = "exited"
    BY <1>5, <2>1 DEF JoinWorker
  <2>3. CASE idx < NumWorkers
    BY <1>5, <2>2, <2>3 DEF JoinWorker
  <2>4. CASE ~(idx < NumWorkers)
    BY <1>5, <2>2, <2>4 DEF JoinWorker
  <2>. QED BY <2>3, <2>4
<1>6. ASSUME NEW w \in Workers, WorkerStep(w) PROVE OwnerPlace'
  <2>1. /\ UNCHANGED <<phase, idx, stop>>
        /\ pc[w] \in {"check", "waiting", "busy"}
        /\ \A v \in Workers : v # w => pc'[v] = pc[v]
    BY <1>6 DEF WorkerStep, TakeTask, WorkerWait, WorkerExit, FinishTask
  <2>2. pc'[w] = "exited" => stop[w]
    BY <1>6 DEF WorkerStep, TakeTask, WorkerWait, WorkerExit, FinishTask
  <2>. QED BY <2>1, <2>2
<1>7. ASSUME NEW x \in Waiters, WaiterStep(x) PROVE OwnerPlace'
  <2>1. /\ UNCHANGED <<phase, idx, stop>>
        /\ \A v \in Workers : pc'[v] = pc[v]
    BY <1>7 DEF WaiterStep, CallWaitForDone, WaitForDoneLoop
  <2>. QED BY <2>1
<1>8. ASSUME NEW t \in Threads, SpuriousWakeup(t) PROVE OwnerPlace'
  BY <1>8 DEF SpuriousWakeup
<1>9. CASE UNCHANGED vars
  BY <1>9 DEF vars
<1>. QED
  BY <1>1, <1>2, <1>3, <1>4, <1>5, <1>6, <1>7, <1>8, <1>9 DEF Next, OwnerStep

\* A pool that has no worker yet fits.
LEMMA InitInvariant == Init => TypeOK /\ OwnerPlace
BY PoolAssumption DEF Init, TypeOK, OwnerPlace, DestroyedIsQuiet, Workers, Threads, NoTask

\* Type correctness of the pool (threadpool.cpp), for every number of workers.
THEOREM PoolTypeCorrect == Spec => [](TypeOK /\ OwnerPlace)
<1>1. TypeOK /\ OwnerPlace /\ [Next]_vars => (TypeOK /\ OwnerPlace)'
  BY TypeInduction, OwnerPlaceInduction DEF OwnerPlace
<1>. QED BY <1>1, InitInvariant, PTL DEF Spec

\* When ~ThreadPool has returned, no worker is left in Worker::run (threadpool.cpp:67-76).
THEOREM PoolDestroyedIsQuiet == Spec => []DestroyedIsQuiet
BY PoolTypeCorrect, PTL DEF OwnerPlace

-----------------------------------------------------------------------------
(* Every task once and in order.  The queue never outgrows the number of   *)
(* submissions, so that the started tasks are a prefix of them.            *)

Started == added - Len(taskQueue)

TaskPlaces == ExactlyOnceInOrder /\ (phase # "destroyed" => Len(taskQueue) <= added)

\* A step that moves no task keeps every task in its place.
LEMMA StutterOnPlaces ==
    ASSUME TypeOK, TaskPlaces, UNCHANGED <<taskQueue, added, task, finished>>,
           phase = "destroyed" => phase' = "destroyed",
           \A w \in Workers : (pc'[w] = "busy") <=> (pc[w] = "busy")
    PROVE  TaskPlaces'
BY DEF TaskPlaces, ExactlyOnceInOrder, Running

\* The steps that leave every task where it is (all but addTask, TakeTask and FinishTask, and
\* the end of ~ThreadPool).
LEMMA QuietSteps ==
    ASSUME TypeOK, OwnerPlace, [Next]_vars, phase' # "destroyed"
    PROVE  \/ AddTask
           \/ \E w \in Workers : TakeTask(w) \/ FinishTask(w)
           \/ /\ UNCHANGED <<taskQueue, added, task, finished>>
              /\ phase # "destroyed"
              /\ \A w \in Workers : (pc'[w] = "busy") <=> (pc[w] = "busy")
<1> USE PoolAssumption DEF TypeOK, Workers, Threads, PC
<1>1. CASE StartWorker
  BY <1>1 DEF StartWorker, OwnerPlace
<1>2. CASE BeginDestroy
  BY <1>2, WakeEffect DEF BeginDestroy
<1>3. CASE StopWorker
  BY <1>3, WakeEffect DEF StopWorker
<1>4. CASE JoinWorker
  BY <1>4, WakeEffect DEF JoinWorker
<1>5. ASSUME NEW w \in Workers, WorkerWait(w) \/ WorkerExit(w)
      PROVE  /\ UNCHANGED <<phase, taskQueue, added, task, finished>>
             /\ \A v \in Workers : (pc'[v] = "busy") <=> (pc[v] = "busy")
  BY <1>5 DEF WorkerWait, WorkerExit
<1>6. ASSUME NEW x \in Waiters, WaiterStep(x)
      PROVE  /\ UNCHANGED <<phase, taskQueue, added, task, finished>>
             /\ \A v \in Workers : (pc'[v] = "busy") <=> (pc[v] = "busy")
  BY <1>6 DEF WaiterStep, CallWaitForDone, WaitForDoneLoop
<1>7. ASSUME NEW t \in Threads, SpuriousWakeup(t)
      PROVE  /\ UNCHANGED <<phase, taskQueue, added, task, finished>>
             /\ \A v \in Workers : (pc'[v] = "busy") <=> (pc[v] = "busy")
  BY <1>7 DEF SpuriousWakeup
<1>8. CASE UNCHANGED vars
  BY <1>8 DEF vars
<1>. QED
  BY <1>1, <1>2, <1>3, <1>4, <1>5, <1>6, <1>7, <1>8 DEF Next, OwnerStep, WorkerStep

\* A submitted task is the last of the queue.
LEMMA AddTaskPlaces ==
    ASSUME TypeOK, TaskPlaces, AddTask
    PROVE  TaskPlaces'
<1> USE PoolAssumption DEF TypeOK, Workers, Threads, PC
<1>1. /\ phase = "serving" /\ phase' = "serving"
      /\ added' = added + 1
      /\ taskQueue' = Append(taskQueue, added + 1)
      /\ UNCHANGED <<task, finished>>
  BY DEF AddTask
<1>2. \A w \in Workers : (pc'[w] = "busy") <=> (pc[w] = "busy")
  BY WakeEffect DEF AddTask
<1>3. Running' = Running
  BY <1>1, <1>2 DEF Running
<1>4. Len(taskQueue') = Len(taskQueue) + 1 /\ Started' = Started
  BY <1>1 DEF Started
<1>5. \A i \in 1 .. Len(taskQueue') : taskQueue'[i] = Started' + i
  BY <1>1, <1>4 DEF TaskPlaces, ExactlyOnceInOrder, Started
<1>6. \A u, v \in Workers : pc'[u] = "busy" /\ pc'[v] = "busy" /\ u # v => task'[u] # task'[v]
  BY <1>1, <1>2 DEF TaskPlaces, ExactlyOnceInOrder
<1>7. Running' \cap finished' = {} /\ Running' \cup finished' = 1 .. Started'
  BY <1>1, <1>3, <1>4 DEF TaskPlaces, ExactlyOnceInOrder, Started
<1>8. Len(taskQueue') <= added'
  BY <1>1, <1>4 DEF TaskPlaces
<1>. HIDE DEF TypeOK, Workers, Threads, PC
<1>. QED
  BY <1>5, <1>6, <1>7, <1>8 DEF TaskPlaces, ExactlyOnceInOrder, Started

\* Where TakeTask moves a task: the head is the submission after the started ones.
LEMMA TakeTaskEffect ==
    ASSUME TypeOK, OwnerPlace, TaskPlaces, NEW w \in Workers, TakeTask(w)
    PROVE  /\ phase # "destroyed"
           /\ Head(taskQueue) = Started + 1
           /\ Started \in Nat /\ Started' = Started + 1
           /\ Running' = Running \cup {Head(taskQueue)}
           /\ Head(taskQueue) \notin Running \cup finished
<1> USE PoolAssumption DEF TypeOK, Workers, Threads, PC
<1>1. phase # "destroyed"
  BY DEF TakeTask, OwnerPlace, DestroyedIsQuiet
<1>2. taskQueue # << >> /\ Len(taskQueue) \in Nat /\ Len(taskQueue) >= 1
  BY DEF TakeTask
<1>3. Head(taskQueue) = Started + 1 /\ Started \in Nat
  BY <1>1, <1>2 DEF TaskPlaces, ExactlyOnceInOrder, Started
<1>4. Started' = Started + 1
  BY <1>2 DEF TakeTask, Started
<1>5. /\ pc[w] # "busy" /\ pc'[w] = "busy" /\ task'[w] = Head(taskQueue)
      /\ \A v \in Workers : v # w => pc'[v] = pc[v] /\ task'[v] = task[v]
  BY DEF TakeTask
<1>6. Running' = Running \cup {Head(taskQueue)}
  <2>1. {v \in Workers : pc'[v] = "busy"} = {v \in Workers : pc[v] = "busy"} \cup {w}
    BY <1>5
  <2>2. ASSUME NEW t \in Running' PROVE t \in Running \cup {Head(taskQueue)}
    <3>1. PICK v \in Workers : pc'[v] = "busy" /\ task'[v] = t
      BY <2>2 DEF Running
    <3>. QED BY <1>5, <3>1 DEF Running
  <2>3. ASSUME NEW t \in Running PROVE t \in Running'
    BY <1>5, <2>1, <2>3 DEF Running
  <2>4. Head(taskQueue) \in Running'
    BY <1>5, <2>1 DEF Running
  <2>. QED BY <2>2, <2>3, <2>4
<1>7. Running \cup finished = 1 .. Started
  BY <1>1 DEF TaskPlaces, ExactlyOnceInOrder, Started
<1>. QED BY <1>1, <1>3, <1>4, <1>6, <1>7

\* The tasks started so far, running (R) or finished (F), when one more is started and when one
\* that runs is finished.
LEMMA Partition ==
    ASSUME NEW n \in Nat, NEW R, NEW F, R \cup F = 1 .. n, R \cap F = {}
    PROVE  /\ (R \cup {n + 1}) \cup F = 1 .. (n + 1)
           /\ (R \cup {n + 1}) \cap F = {}
           /\ \A t \in R : (R \ {t}) \cup (F \cup {t}) = 1 .. n /\ (R \ {t}) \cap (F \cup {t}) = {}
<1>1. n + 1 \notin 1 .. n /\ 1 .. (n + 1) = (1 .. n) \cup {n + 1}
  OBVIOUS
<1>2. n + 1 \notin F
  BY <1>1
<1>3. (R \cup {n + 1}) \cup F = 1 .. (n + 1)
  BY <1>1
<1>4. (R \cup {n + 1}) \cap F = {}
  BY <1>2
<1>5. ASSUME NEW t \in R
      PROVE  (R \ {t}) \cup (F \cup {t}) = 1 .. n /\ (R \ {t}) \cap (F \cup {t}) = {}
  OBVIOUS
<1>. QED BY <1>3, <1>4, <1>5

\* A task that is taken was the first of the queue, and no other worker has it.
LEMMA TakeTaskPlaces ==
    ASSUME TypeOK, OwnerPlace, TaskPlaces, NEW w \in Workers, TakeTask(w)
    PROVE  TaskPlaces'
<1> USE PoolAssumption DEF TypeOK, Workers, Threads, PC
<1>1. /\ Head(taskQueue) = Started + 1
      /\ Started \in Nat /\ Started' = Started + 1
      /\ Running' = Running \cup {Head(taskQueue)}
      /\ Head(taskQueue) \notin Running \cup finished
      /\ phase # "destroyed"
  BY TakeTaskEffect
<1>2. Running \cup finished = 1 .. Started /\ Running \cap finished = {}
  BY <1>1 DEF TaskPlaces, ExactlyOnceInOrder, Started
<1>3. finished' = finished /\ added' = added
  BY DEF TakeTask
<1>4. Running' \cup finished' = 1 .. Started' /\ Running' \cap finished' = {}
  <2>1. /\ (Running \cup {Started + 1}) \cup finished = 1 .. (Started + 1)
        /\ (Running \cup {Started + 1}) \cap finished = {}
    <3>. HIDE DEF TypeOK, Workers, Threads, PC
    <3>. QED BY ONLY <1>1, <1>2, Partition
  <2>. QED BY ONLY <1>1, <1>3, <2>1
<1>5. \A i \in 1 .. Len(taskQueue') : taskQueue'[i] = Started' + i
  <2>1. taskQueue' = Tail(taskQueue) /\ taskQueue # << >>
    BY DEF TakeTask
  <2>2. Len(taskQueue') = Len(taskQueue) - 1
    BY <2>1
  <2>3. \A i \in 1 .. Len(taskQueue') : taskQueue'[i] = taskQueue[i + 1]
    BY <2>1, <2>2
  <2>4. \A i \in 1 .. Len(taskQueue) : taskQueue[i] = Started + i
    BY <1>1 DEF TaskPlaces, ExactlyOnceInOrder, Started
  <2>5. ASSUME NEW i \in 1 .. Len(taskQueue') PROVE taskQueue'[i] = Started' + i
    <3>1. i + 1 \in 1 .. Len(taskQueue)
      BY <2>1, <2>2
    <3>2. taskQueue'[i] = Started + (i + 1)
      BY <2>3, <2>4, <3>1
    <3>. QED BY <1>1, <3>2
  <2>. QED BY <2>5
<1>6. ASSUME NEW u \in Workers, NEW v \in Workers, u # v, pc'[u] = "busy", pc'[v] = "busy"
      PROVE  task'[u] # task'[v]
  <2>1. \A x \in Workers \ {w} : pc'[x] = pc[x] /\ task'[x] = task[x]
    BY DEF TakeTask
  <2>2. task'[w] = Head(taskQueue)
    BY DEF TakeTask
  <2>3. \A x \in Workers : pc[x] = "busy" => task[x] \in Running
    BY DEF Running
  <2>4. \A x \in Workers \ {w} : pc'[x] = "busy" => task'[x] # Head(taskQueue)
    BY ONLY <1>1, <2>1, <2>3
  <2>5. CASE u = w \/ v = w
    BY <1>6, <2>2, <2>4, <2>5
  <2>6. CASE u # w /\ v # w
    BY <1>1, <1>6, <2>1, <2>6 DEF TaskPlaces, ExactlyOnceInOrder
  <2>. QED BY <2>5, <2>6
<1>7. Len(taskQueue') <= added'
  BY <1>1, <1>3 DEF Started, TaskPlaces, TakeTask
<1>. QED BY <1>4, <1>5, <1>6, <1>7 DEF TaskPlaces, ExactlyOnceInOrder, Started

\* What FinishTask does to the running tasks: the one task leaves, since no other worker holds it.
LEMMA FinishTaskEffect ==
    ASSUME TypeOK, OwnerPlace, TaskPlaces, NEW w \in Workers, FinishTask(w)
    PROVE  /\ phase # "destroyed"
           /\ task[w] \in Running
           /\ Running' = Running \ {task[w]}
<1>1. phase # "destroyed" /\ task[w] \in Running
  BY PoolAssumption DEF FinishTask, OwnerPlace, DestroyedIsQuiet, Running, TypeOK, Workers, Threads, PC
<1>2. /\ pc[w] = "busy" /\ pc'[w] = "check"
      /\ \A v \in Workers \ {w} : pc'[v] = pc[v] /\ task'[v] = task[v]
  BY DEF FinishTask, TypeOK, Workers, Threads, PC
<1>3. \A v \in Workers \ {w} : pc[v] = "busy" => task[v] # task[w]
  BY <1>1, <1>2 DEF TaskPlaces, ExactlyOnceInOrder
<1>4. Running' \subseteq Running \ {task[w]}
  <2>. SUFFICES ASSUME NEW v \in Workers, pc'[v] = "busy"
                PROVE  task'[v] \in Running \ {task[w]}
    BY DEF Running, Workers
  <2>1. v \in Workers \ {w}
    BY <1>2
  <2>. QED BY <1>2, <1>3, <2>1 DEF Running
<1>5. Running \ {task[w]} \subseteq Running'
  <2>. SUFFICES ASSUME NEW v \in Workers, pc[v] = "busy", task[v] # task[w]
                PROVE  task[v] \in Running'
    BY DEF Running
  <2>. QED BY <1>2 DEF Running, Workers
<1>. QED BY <1>1, <1>4, <1>5

\* A finished task leaves its worker.
LEMMA FinishTaskPlaces ==
    ASSUME TypeOK, OwnerPlace, TaskPlaces, NEW w \in Workers, FinishTask(w)
    PROVE  TaskPlaces'
<1> USE PoolAssumption DEF TypeOK, Workers, Threads, PC
<1>1. /\ phase # "destroyed" /\ task[w] \in Running /\ Running' = Running \ {task[w]}
  BY FinishTaskEffect
<1>2. /\ finished' = finished \cup {task[w]}
      /\ UNCHANGED <<phase, taskQueue, added>>
      /\ pc'[w] # "busy"
      /\ \A v \in Workers \ {w} : pc'[v] = pc[v] /\ task'[v] = task[v]
  BY DEF FinishTask
<1>3. Started \in Nat /\ Running \cup finished = 1 .. Started /\ Running \cap finished = {}
  BY <1>1 DEF TaskPlaces, ExactlyOnceInOrder, Started
<1>4. Running' \cup finished' = 1 .. Started /\ Running' \cap finished' = {}
  BY ONLY <1>1, <1>2, <1>3, Partition
<1>5. \A u, v \in Workers : u # v /\ pc'[u] = "busy" /\ pc'[v] = "busy" => task'[u] # task'[v]
  BY <1>1, <1>2 DEF TaskPlaces, ExactlyOnceInOrder
<1>. QED BY <1>1, <1>2, <1>4, <1>5 DEF TaskPlaces, ExactlyOnceInOrder, Started

PoolInv == TypeOK /\ OwnerPlace /\ TaskPlaces

\* Every step keeps types, places and tasks together.
LEMMA PoolInvInduction ==
    ASSUME PoolInv, [Next]_vars
    PROVE  PoolInv'
<1> USE DEF PoolInv
<1>1. TypeOK' /\ OwnerPlace'
  BY TypeInduction, OwnerPlaceInduction DEF OwnerPlace
<1>2. CASE phase' = "destroyed"
  BY <1>1, <1>2 DEF TaskPlaces, ExactlyOnceInOrder
<1>3. CASE phase' # "destroyed"
  BY <1>1, <1>3, QuietSteps, StutterOnPlaces, AddTaskPlaces, TakeTaskPlaces, FinishTaskPlaces
<1>. QED BY <1>2, <1>3

\* So they hold always.
LEMMA PoolInvAlways == Spec => []PoolInv
<1>1. ASSUME Init PROVE PoolInv
  <2>1. Running = {}
    BY <1>1, PoolAssumption DEF Init, Running, Workers, Threads
  <2>2. \A w \in Workers : pc[w] = "absent"
    BY <1>1, PoolAssumption DEF Init, Workers, Threads
  <2>3. Len(taskQueue) = 0 /\ added = 0 /\ finished = {}
    BY <1>1 DEF Init
  <2>4. TaskPlaces
    BY <2>1, <2>2, <2>3 DEF TaskPlaces, ExactlyOnceInOrder
  <2>. QED BY <1>1, <2>4, InitInvariant DEF PoolInv
<1>2. PoolInv /\ [Next]_vars => PoolInv'
  BY PoolInvInduction
<1>. QED BY <1>1, <1>2, PTL DEF Spec

\* Every submitted task is queued in order, or is executed by exactly one worker, or has
\* finished: none is lost, doubled or overtaken (addTask and Worker::run).
THEOREM PoolExactlyOnceInOrder == Spec => []ExactlyOnceInOrder
<1>1. PoolInv => ExactlyOnceInOrder
  BY DEF PoolInv, TaskPlaces
<1>. QED BY <1>1, PoolInvAlways, PTL

-----------------------------------------------------------------------------
(* The pool implements the abstract service.                               *)

\* Every step is one of the abstract service, or a stutter.
LEMMA PoolStepRefines ==
    ASSUME PoolInv, [Next]_vars
    PROVE  [Service!ServiceNext]_(Service!serviceVars)
<1> USE PoolAssumption DEF PoolInv
<1>1. CASE AddTask
  <2>1. phase = "serving" /\ phase' = "serving" /\ task' = task /\ finished' = finished
    BY <1>1 DEF AddTask
  <2>2. \A w \in Workers : (pc'[w] = "busy") <=> (pc[w] = "busy")
    BY <1>1, WakeEffect DEF AddTask, TypeOK, PC, Threads
  <2>3. Running' = Running
    BY <2>1, <2>2 DEF Running
  <2>4. Service!Submit
    BY <1>1, <2>1, <2>3 DEF AddTask, Service!Submit
  <2>. QED BY <2>4 DEF Service!ServiceNext
<1>2. ASSUME NEW w \in Workers, TakeTask(w)
      PROVE  Service!ServiceNext
  <2>1. /\ phase # "destroyed"
        /\ Running' = Running \cup {Head(taskQueue)}
        /\ Head(taskQueue) \notin Running \cup finished
    BY <1>2, TakeTaskEffect
  <2>2. Service!Start
    BY <1>2, <2>1 DEF TakeTask, Service!Start
  <2>. QED BY <2>2 DEF Service!ServiceNext
<1>3. ASSUME NEW w \in Workers, FinishTask(w)
      PROVE  Service!ServiceNext
  <2>1. /\ phase # "destroyed" /\ task[w] \in Running /\ Running' = Running \ {task[w]}
    BY <1>3, FinishTaskEffect
  <2>2. Service!Finish(task[w])
    BY <1>3, <2>1 DEF FinishTask, Service!Finish
  <2>. QED BY <2>1, <2>2 DEF Service!ServiceNext
<1>4. CASE phase # "destroyed" /\ phase' = "destroyed"
  <2>1. JoinWorker /\ idx = NumWorkers
    BY <1>4 DEF Next, OwnerStep, WorkerStep, WaiterStep, StartWorker, AddTask, BeginDestroy,
                StopWorker, JoinWorker, TakeTask, WorkerWait, WorkerExit, FinishTask,
                CallWaitForDone, WaitForDoneLoop, SpuriousWakeup, vars, TypeOK
  <2>2. \A w \in Workers : pc[w] = "exited"
    BY <2>1 DEF JoinWorker, OwnerPlace, Workers
  <2>3. \A w \in Workers : pc'[w] = "exited"
    BY <2>1, <2>2, WakeEffect DEF JoinWorker, TypeOK, PC, Threads
  <2>4. Running = {} /\ Running' = {}
    BY <2>2, <2>3 DEF Running
  <2>5. Service!Close
    BY <1>4, <2>1, <2>4 DEF JoinWorker, Service!Close
  <2>. QED BY <2>5 DEF Service!ServiceNext
<1>5. CASE phase = "destroyed"
  <2>1. \A w \in Workers : pc[w] = "exited"
    BY <1>5 DEF OwnerPlace, DestroyedIsQuiet
  <2>2. /\ UNCHANGED <<taskQueue, added, finished, phase>>
        /\ \A w \in Workers : pc'[w] = "exited"
    BY <1>5, <2>1 DEF Next, OwnerStep, WorkerStep, WaiterStep, StartWorker, AddTask,
                BeginDestroy, StopWorker, JoinWorker, TakeTask, WorkerWait, WorkerExit,
                FinishTask, CallWaitForDone, WaitForDoneLoop, SpuriousWakeup, vars, TypeOK,
                Threads, Workers
  <2>3. Running' = Running
    BY <2>1, <2>2 DEF Running
  <2>. QED BY <2>2, <2>3 DEF Service!serviceVars
<1>6. CASE /\ phase' # "destroyed" /\ phase # "destroyed"
           /\ UNCHANGED <<taskQueue, added, task, finished>>
           /\ \A w \in Workers : (pc'[w] = "busy") <=> (pc[w] = "busy")
  <2>1. Running' = Running
    BY <1>6 DEF Running
  <2>. QED BY <1>6, <2>1 DEF Service!serviceVars
<1>. QED
  BY <1>1, <1>2, <1>3, <1>4, <1>5, <1>6, QuietSteps DEF Service!ServiceNext

\* The threads, the mutex and the condition variable together behave as the abstract task
\* service: ordered start, at most one execution, nothing after the destructor.
THEOREM PoolImplementsTaskService == Spec => ImplementsTaskService
<1>1. Init => Service!ServiceInit
  BY PoolAssumption DEF Init, Service!ServiceInit, Running, Workers, Threads
<1>2. PoolInv /\ [Next]_vars => [Service!ServiceNext]_(Service!serviceVars)
  BY PoolStepRefines
<1>. QED
  BY <1>1, <1>2, PoolInvAlways, PTL DEF Spec, ImplementsTaskService, Service!ServiceSpec

-----------------------------------------------------------------------------
(* No wake-up is lost.  Once the pool is being destroyed nothing is added, *)
(* so whoever sleeps has seen the queue empty for good.                    *)

SomeoneSleeps == \E w \in Workers : pc[w] = "waiting"

WakeInv ==
    /\ NobodyWaitsForDone /\ SomeoneSleeps => Cardinality(Idle) >= Len(taskQueue)
    /\ phase = "stopping" /\ SomeoneSleeps => taskQueue = << >>

\* The awake workers without a task can be counted.
LEMMA IdleFinite ==
    ASSUME TypeOK
    PROVE  IsFiniteSet(Idle) /\ Cardinality(Idle) \in Nat
<1>1. IsFiniteSet(Workers)
  BY FS_Interval, PoolAssumption DEF Workers
<1>2. IsFiniteSet(Idle)
  BY <1>1, FS_Subset DEF Idle
<1>. QED BY <1>2, FS_CardinalityType

\* A worker that is woken, or done with a task, is one more.
LEMMA IdleGains ==
    ASSUME TypeOK, NEW w \in Workers, pc[w] # "check", pc' = [pc EXCEPT ![w] = "check"]
    PROVE  Cardinality(Idle') = Cardinality(Idle) + 1
<1>1. w \notin Idle /\ Idle' = Idle \cup {w}
  BY DEF Idle, TypeOK, Threads
<1>. QED BY <1>1, IdleFinite, FS_AddElement

\* A worker that takes a task, sleeps or leaves is one less.
LEMMA IdleLoses ==
    ASSUME TypeOK, NEW w \in Workers, NEW p, pc[w] = "check", p # "check",
           pc' = [pc EXCEPT ![w] = p]
    PROVE  Cardinality(Idle') = Cardinality(Idle) - 1
<1>1. w \in Idle /\ Idle' = Idle \ {w}
  BY DEF Idle, TypeOK, Threads
<1>. QED BY <1>1, IdleFinite, FS_RemoveElement

\* Every step keeps as many awake workers as there are tasks to take, while one sleeps.
LEMMA WakeInvInduction ==
    ASSUME TypeOK, OwnerPlace, WakeInv, [Next]_vars
    PROVE  WakeInv'
<1> USE PoolAssumption DEF TypeOK, Workers, Threads, NobodyWaitsForDone, SomeoneSleeps
<1>a. Cardinality(Idle) \in Nat
  BY IdleFinite
<1>b. ASSUME WakeAll PROVE ~SomeoneSleeps'
  BY <1>b DEF WakeAll, Sleepers
<1>1. CASE StartWorker
  <2>1. idx + 1 \in Workers /\ pc[idx + 1] = "absent"
    BY <1>1 DEF StartWorker, OwnerPlace
  <2>2. Cardinality(Idle') = Cardinality(Idle) + 1
    BY <1>1, <2>1, IdleGains DEF StartWorker
  <2>3. SomeoneSleeps' => SomeoneSleeps
    BY <1>1, <2>1 DEF StartWorker
  <2>4. NobodyWaitsForDone' => NobodyWaitsForDone
    BY <1>1, <2>1 DEF StartWorker
  <2>. QED BY <1>1, <1>a, <2>2, <2>3, <2>4 DEF StartWorker, WakeInv
<1>2. CASE AddTask
  <2>1. Len(taskQueue') = Len(taskQueue) + 1 /\ phase' = "serving"
    BY <1>2 DEF AddTask
  <2>2. CASE Sleepers = {} /\ pc' = pc
    BY <2>1, <2>2 DEF Sleepers, WakeInv
  <2>3. ASSUME NEW t \in Sleepers, pc' = [pc EXCEPT ![t] = "check"] PROVE WakeInv'
    <3>1. CASE t \in Waiters
      BY <2>1, <2>3, <3>1 DEF Sleepers, WakeInv
    <3>2. CASE t \in Workers
      <4>1. Cardinality(Idle') = Cardinality(Idle) + 1
        BY <2>3, <3>2, IdleGains DEF Sleepers
      <4>2. SomeoneSleeps /\ (NobodyWaitsForDone' => NobodyWaitsForDone)
        BY <2>3, <3>2 DEF Sleepers
      <4>. QED BY <1>a, <2>1, <4>1, <4>2 DEF WakeInv
    <3>. QED BY <3>1, <3>2 DEF Sleepers
  <2>. QED BY <1>2, <2>2, <2>3 DEF AddTask, WakeOne
<1>3. CASE BeginDestroy \/ StopWorker \/ JoinWorker
  BY <1>3, <1>b DEF BeginDestroy, StopWorker, JoinWorker, WakeInv
<1>4. ASSUME NEW w \in Workers, TakeTask(w) PROVE WakeInv'
  <2>1. Cardinality(Idle') = Cardinality(Idle) - 1
    BY <1>4, IdleLoses DEF TakeTask
  <2>2. Len(taskQueue') = Len(taskQueue) - 1 /\ taskQueue # << >> /\ phase' = phase
    BY <1>4 DEF TakeTask
  <2>3. (SomeoneSleeps' => SomeoneSleeps) /\ (NobodyWaitsForDone' => NobodyWaitsForDone)
    BY <1>4 DEF TakeTask
  <2>. QED BY <1>a, <2>1, <2>2, <2>3 DEF WakeInv
<1>5. ASSUME NEW w \in Workers, WorkerWait(w) PROVE WakeInv'
  <2>1. taskQueue' = << >> /\ Len(taskQueue') = 0
    BY <1>5 DEF WorkerWait
  <2>2. Cardinality(Idle') = Cardinality(Idle) - 1 /\ Cardinality(Idle) # 0
    <3>1. Cardinality(Idle') = Cardinality(Idle) - 1
      BY <1>5, IdleLoses DEF WorkerWait
    <3>2. w \in Idle
      BY <1>5 DEF WorkerWait, Idle
    <3>. QED BY <3>1, <3>2, IdleFinite, FS_EmptySet
  <2>. QED BY <1>a, <2>1, <2>2 DEF WakeInv
<1>6. ASSUME NEW w \in Workers, WorkerExit(w) PROVE WakeInv'
  <2>1. phase = "stopping" /\ phase' = "stopping"
    BY <1>6 DEF WorkerExit, OwnerPlace, DestroyedIsQuiet
  <2>2. (SomeoneSleeps' => SomeoneSleeps) /\ taskQueue' = taskQueue
    BY <1>6 DEF WorkerExit
  <2>3. Cardinality(Idle') \in Nat
    <3>1. Idle' \subseteq Idle
      BY <1>6 DEF WorkerExit, Idle
    <3>. QED BY <3>1, IdleFinite, FS_Subset, FS_CardinalityType
  <2>. QED BY <2>1, <2>2, <2>3 DEF WakeInv
<1>7. ASSUME NEW w \in Workers, FinishTask(w) PROVE WakeInv'
  <2>1. Cardinality(Idle') = Cardinality(Idle) + 1
    BY <1>7, IdleGains DEF FinishTask
  <2>2. /\ SomeoneSleeps' => SomeoneSleeps
        /\ NobodyWaitsForDone' => NobodyWaitsForDone
        /\ UNCHANGED <<phase, taskQueue>>
    BY <1>7 DEF FinishTask
  <2>. QED BY <1>a, <2>1, <2>2 DEF WakeInv
<1>8. ASSUME NEW x \in Waiters, WaiterStep(x) PROVE WakeInv'
  <2>1. UNCHANGED <<phase, taskQueue>> /\ pc'[x] \in {"check", "returned", "waiting"}
    BY <1>8 DEF WaiterStep, CallWaitForDone, WaitForDoneLoop
  <2>2. ASSUME NEW w \in Workers PROVE pc'[w] = pc[w]
    <3>1. w # x
      BY WaitersAreNotWorkers
    <3>2. \E p : pc' = [pc EXCEPT ![x] = p]
      BY <1>8 DEF WaiterStep, CallWaitForDone, WaitForDoneLoop
    <3>. QED BY <3>1, <3>2
  <2>3. ~NobodyWaitsForDone'
    BY <2>1
  <2>. QED BY <2>1, <2>2, <2>3 DEF WakeInv
<1>9. ASSUME NEW t \in Threads, SpuriousWakeup(t) PROVE WakeInv'
  <2>1. (SomeoneSleeps' => SomeoneSleeps) /\ UNCHANGED <<phase, taskQueue>>
    BY <1>9 DEF SpuriousWakeup
  <2>2. CASE t \in Waiters
    BY <1>9, <2>1, <2>2 DEF SpuriousWakeup, WakeInv
  <2>3. CASE t \in Workers
    <3>1. Cardinality(Idle') = Cardinality(Idle) + 1
      BY <1>9, <2>3, IdleGains DEF SpuriousWakeup
    <3>2. NobodyWaitsForDone' => NobodyWaitsForDone
      BY <1>9, <2>3 DEF SpuriousWakeup
    <3>. QED BY <1>a, <2>1, <3>1, <3>2 DEF WakeInv
  <2>. QED BY <2>2, <2>3
<1>10. CASE UNCHANGED vars
  BY <1>10 DEF vars, WakeInv, Idle
<1>. QED
  BY <1>1, <1>2, <1>3, <1>4, <1>5, <1>6, <1>7, <1>8, <1>9, <1>10
  DEF Next, OwnerStep, WorkerStep

\* The wakeOne of addTask always reaches a worker that will serve the queue: no worker sleeps
\* while more tasks are queued than workers are awake to take them.
THEOREM PoolNoLostWakeup == Spec => []NoLostWakeup
<1>1. Init => WakeInv
  BY PoolAssumption DEF Init, WakeInv, SomeoneSleeps, Workers, Threads
<1>2. TypeOK /\ OwnerPlace /\ WakeInv /\ [Next]_vars => WakeInv'
  BY WakeInvInduction
<1>3. WakeInv => NoLostWakeup
  BY DEF WakeInv, NoLostWakeup, SomeoneSleeps
<1>. QED BY <1>1, <1>2, <1>3, PoolTypeCorrect, PTL DEF Spec
=============================================================================
