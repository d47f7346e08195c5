----------------------------- MODULE ThreadPool -----------------------------
(***************************************************************************)
(* The thread pool of src/ChatServer/src/threadpool.cpp: one QQueue of     *)
(* tasks, one QMutex and one QWaitCondition shared by the workers, by the  *)
(* thread that owns the pool (the server's main thread, which calls init,  *)
(* addTask and the destructor) and by the threads blocked in waitForDone.  *)
(*                                                                         *)
(* A critical section is one step.  QWaitCondition::wait releases the      *)
(* mutex, so it ends a step; the thread then sleeps ("waiting") until a    *)
(* wakeOne or a wakeAll picks it, or until it wakes up for no reason, and  *)
(* evaluates its loop condition again ("check").                           *)
(***************************************************************************)
EXTENDS Naturals, Sequences, FiniteSets

CONSTANTS
    NumWorkers,  \* threadCount of init
    MaxTasks,    \* bound: how many tasks addTask is called with
    Waiters      \* threads that call waitForDone

Workers == 1 .. NumWorkers
Threads == Workers \cup Waiters

ASSUME PoolAssumption ==
    /\ NumWorkers \in Nat \ {0}
    /\ MaxTasks \in Nat
    /\ Waiters \cap Nat = {}

VARIABLES
    phase,      \* what the owning thread does: "init", "serving", "stopping", "destroyed"
    idx,        \* its position in the loop over m_workers, in init and in ~ThreadPool
    taskQueue,  \* m_taskQueue
    added,      \* number of addTask calls; a task is the number of its call
    pc,         \* where each thread is
    task,       \* the task a busy worker executes
    stop,       \* m_stop of each worker
    finished    \* tasks that have returned, or thrown

vars == <<phase, idx, taskQueue, added, pc, task, stop, finished>>

NoTask == 0

Init ==
    /\ phase = "init"
    /\ idx = 0
    /\ taskQueue = << >>
    /\ added = 0
    /\ pc = [t \in Threads |-> IF t \in Workers THEN "absent" ELSE "idle"]
    /\ task = [w \in Workers |-> NoTask]
    /\ stop = [w \in Workers |-> FALSE]
    /\ finished = {}

Sleepers == {t \in Threads : pc[t] = "waiting"}

\* QWaitCondition::wakeAll.
WakeAll == pc' = [t \in Threads |-> IF t \in Sleepers THEN "check" ELSE pc[t]]

\* QWaitCondition::wakeOne: any one sleeper, whether it is a worker or not.
WakeOne ==
    \/ Sleepers = {} /\ pc' = pc
    \/ \E t \in Sleepers : pc' = [pc EXCEPT ![t] = "check"]

-----------------------------------------------------------------------------
(* The owning thread.                                                      *)

\* One turn of the loop of ThreadPool::init: new Worker, setTaskQueue, start.
StartWorker ==
    /\ phase = "init"
    /\ idx' = idx + 1
    /\ phase' = IF idx' = NumWorkers THEN "serving" ELSE "init"
    /\ pc' = [pc EXCEPT ![idx + 1] = "check"]
    /\ UNCHANGED <<taskQueue, added, task, stop, finished>>

\* Mutant: the wakeOne is forgotten.
AddTaskWithoutWake ==
    /\ phase = "serving" /\ added < MaxTasks
    /\ added' = added + 1
    /\ taskQueue' = Append(taskQueue, added + 1)
    /\ UNCHANGED <<phase, idx, pc, task, stop, finished>>

AddTask ==
    /\ phase = "serving"
    /\ added < MaxTasks
    /\ added' = added + 1
    /\ taskQueue' = Append(taskQueue, added + 1)
    /\ WakeOne
    /\ UNCHANGED <<phase, idx, task, stop, finished>>

\* ~ThreadPool up to its loop.  Its caller must not destroy a condition variable others sleep on.
BeginDestroy ==
    /\ phase = "serving"
    /\ \A x \in Waiters : pc[x] \in {"idle", "returned"}
    /\ phase' = "stopping"
    /\ idx' = 1
    /\ WakeAll
    /\ UNCHANGED <<taskQueue, added, task, stop, finished>>

\* Mutant: the flag is set and nobody is woken.
StopWorkerWithoutWake ==
    /\ phase = "stopping" /\ ~stop[idx]
    /\ stop' = [stop EXCEPT ![idx] = TRUE]
    /\ UNCHANGED <<phase, idx, taskQueue, added, pc, task, finished>>

\* worker->stop() for the worker the loop of ~ThreadPool has come to.
StopWorker ==
    /\ phase = "stopping"
    /\ ~stop[idx]
    /\ stop' = [stop EXCEPT ![idx] = TRUE]
    /\ WakeAll
    /\ UNCHANGED <<phase, idx, taskQueue, added, task, finished>>

\* Mutant: the worker is deleted without waiting for its thread.
JoinWorkerWithoutWait ==
    /\ phase = "stopping" /\ stop[idx]
    /\ WakeAll
    /\ IF idx < NumWorkers
       THEN idx' = idx + 1 /\ UNCHANGED <<phase, taskQueue>>
       ELSE phase' = "destroyed" /\ taskQueue' = << >> /\ UNCHANGED idx
    /\ UNCHANGED <<added, task, stop, finished>>

\* worker->wait() returns and the worker is deleted (its destructor calls stop() again); after
\* the last one the members of the pool go, with the tasks still queued.
JoinWorker ==
    /\ phase = "stopping"
    /\ stop[idx]
    /\ pc[idx] = "exited"
    /\ WakeAll
    /\ IF idx < NumWorkers
       THEN idx' = idx + 1 /\ UNCHANGED <<phase, taskQueue>>
       ELSE phase' = "destroyed" /\ taskQueue' = << >> /\ UNCHANGED idx
    /\ UNCHANGED <<added, task, stop, finished>>

-----------------------------------------------------------------------------
(* Worker::run.                                                            *)

\* Mutant: the newest task is taken.
TakeNewestTask(w) ==
    /\ pc[w] = "check" /\ ~stop[w] /\ taskQueue # << >>
    /\ task' = [task EXCEPT ![w] = taskQueue[Len(taskQueue)]]
    /\ taskQueue' = SubSeq(taskQueue, 1, Len(taskQueue) - 1)
    /\ pc' = [pc EXCEPT ![w] = "busy"]
    /\ UNCHANGED <<phase, idx, added, stop, finished>>

\* Mutant: head() instead of dequeue().
TakeTaskByPeeking(w) ==
    /\ pc[w] = "check" /\ ~stop[w] /\ taskQueue # << >>
    /\ task' = [task EXCEPT ![w] = Head(taskQueue)]
    /\ pc' = [pc EXCEPT ![w] = "busy"]
    /\ UNCHANGED <<phase, idx, taskQueue, added, stop, finished>>

TakeTask(w) ==
    /\ pc[w] = "check"
    /\ ~stop[w]
    /\ taskQueue # << >>
    /\ task' = [task EXCEPT ![w] = Head(taskQueue)]
    /\ taskQueue' = Tail(taskQueue)
    /\ pc' = [pc EXCEPT ![w] = "busy"]
    /\ UNCHANGED <<phase, idx, added, stop, finished>>

WorkerWait(w) ==
    /\ pc[w] = "check"
    /\ ~stop[w]
    /\ taskQueue = << >>
    /\ pc' = [pc EXCEPT ![w] = "waiting"]
    /\ UNCHANGED <<phase, idx, taskQueue, added, task, stop, finished>>

WorkerExit(w) ==
    /\ pc[w] = "check"
    /\ stop[w]
    /\ pc' = [pc EXCEPT ![w] = "exited"]
    /\ UNCHANGED <<phase, idx, taskQueue, added, task, stop, finished>>

\* Mutant: an exception of the task ends the thread.
FinishTaskUncaught(w) ==
    /\ pc[w] = "busy"
    /\ finished' = finished \cup {task[w]}
    /\ task' = [task EXCEPT ![w] = NoTask]
    /\ \E next \in {"check", "exited"} : pc' = [pc EXCEPT ![w] = next]
    /\ UNCHANGED <<phase, idx, taskQueue, added, stop>>

\* task() returns or throws: the two catch clauses make no difference to the loop.
FinishTask(w) ==
    /\ pc[w] = "busy"
    /\ finished' = finished \cup {task[w]}
    /\ task' = [task EXCEPT ![w] = NoTask]
    /\ pc' = [pc EXCEPT ![w] = "check"]
    /\ UNCHANGED <<phase, idx, taskQueue, added, stop>>

-----------------------------------------------------------------------------
(* ThreadPool::waitForDone, and wake-ups without a cause.                  *)

CallWaitForDone(x) ==
    /\ phase = "serving"
    /\ pc[x] = "idle"
    /\ pc' = [pc EXCEPT ![x] = "check"]
    /\ UNCHANGED <<phase, idx, taskQueue, added, task, stop, finished>>

WaitForDoneLoop(x) ==
    /\ pc[x] = "check"
    /\ pc' = [pc EXCEPT ![x] = IF taskQueue = << >> THEN "returned" ELSE "waiting"]
    /\ UNCHANGED <<phase, idx, taskQueue, added, task, stop, finished>>

SpuriousWakeup(t) ==
    /\ pc[t] = "waiting"
    /\ pc' = [pc EXCEPT ![t] = "check"]
    /\ UNCHANGED <<phase, idx, taskQueue, added, task, stop, finished>>

-----------------------------------------------------------------------------
OwnerStep == StartWorker \/ AddTask \/ BeginDestroy \/ StopWorker \/ JoinWorker
WorkerStep(w) == TakeTask(w) \/ WorkerWait(w) \/ WorkerExit(w) \/ FinishTask(w)
WaiterStep(x) == CallWaitForDone(x) \/ WaitForDoneLoop(x)

Next ==
    \/ OwnerStep
    \/ \E w \in Workers : WorkerStep(w)
    \/ \E x \in Waiters : WaiterStep(x)
    \/ \E t \in Threads : SpuriousWakeup(t)

Spec == Init /\ [][Next]_vars

\* The operating system runs every thread that can run and every task returns; nobody has to
\* submit a task, destroy the pool or wake up for no reason.
FairSpec ==
    /\ Spec
    /\ WF_vars(StartWorker)
    /\ WF_vars(StopWorker \/ JoinWorker)
    /\ \A w \in Workers : WF_vars(WorkerStep(w))
    /\ \A x \in Waiters : WF_vars(WaitForDoneLoop(x))

-----------------------------------------------------------------------------
(* Properties.                                                             *)

Running == {task[w] : w \in {v \in Workers : pc[v] = "busy"}}
Idle == {w \in Workers : pc[w] = "check"}

\* Every variable has its type.
TypeOK ==
    /\ phase \in {"init", "serving", "stopping", "destroyed"}
    /\ idx \in 0 .. NumWorkers
    /\ taskQueue \in Seq(Nat)
    /\ added \in 0 .. MaxTasks
    /\ pc \in [Threads -> {"absent", "idle", "check", "waiting", "busy", "exited", "returned"}]
    /\ task \in [Workers -> Nat]
    /\ stop \in [Workers -> BOOLEAN]
    /\ finished \subseteq Nat

\* No task is lost, run twice or overtaken (addTask, Worker::run): while the pool exists the
\* queue holds exactly the latest submissions in order, and every earlier one is held by exactly
\* one worker or has finished.
ExactlyOnceInOrder ==
    phase # "destroyed" =>
        /\ \A i \in 1 .. Len(taskQueue) : taskQueue[i] = (added - Len(taskQueue)) + i
        /\ \A v, w \in Workers : pc[v] = "busy" /\ pc[w] = "busy" /\ v # w => task[v] # task[w]
        /\ Running \cap finished = {}
        /\ Running \cup finished = 1 .. (added - Len(taskQueue))

\* The server never calls waitForDone; its callers sleep on the workers' condition variable.
NobodyWaitsForDone == \A x \in Waiters : pc[x] = "idle"

\* No wake-up is lost (the wakeOne of addTask): if a worker sleeps, there are at least as many
\* awake workers without a task as there are queued tasks, so no task waits for a busy worker
\* while another worker sleeps.  A caller of waitForDone can take the wakeOne meant for a worker.
NoLostWakeup ==
    NobodyWaitsForDone /\ (\E w \in Workers : pc[w] = "waiting")
        => Cardinality(Idle) >= Len(taskQueue)

\* ~ThreadPool leaves nothing behind: when it has returned, every worker has left run(), so no
\* task runs against the members of a destroyed pool.
DestroyedIsQuiet ==
    phase = "destroyed" => \A w \in Workers : pc[w] = "exited"

\* The pool is a TaskService: the running tasks are those the busy workers hold.
Service == INSTANCE TaskService WITH
    accepted <- added,
    pending <- taskQueue,
    running <- Running,
    done <- finished,
    open <- (phase # "destroyed")

\* The pool implements the service it promises the server (addTask, Worker::run, ~ThreadPool).
ImplementsTaskService == Service!ServiceSpec

\* As long as nobody calls waitForDone, every submitted task is executed unless the pool is being
\* destroyed (Worker::run drops what is queued when m_stop is set).
EveryTaskRuns ==
    []NobodyWaitsForDone =>
        \A t \in 1 .. MaxTasks :
            (added >= t /\ phase = "serving") ~> (t \in finished \/ phase # "serving")

\* ~ThreadPool returns: no worker sleeps through its stop().
DestructorReturns == (phase = "stopping") ~> (phase = "destroyed")
=============================================================================
