------------------------------- MODULE Startup -------------------------------
(***************************************************************************)
(* How server processes share one machine: Server::initDatabase            *)
(* (src/ChatServer/src/server.cpp) under the file lock of users.db         *)
(* (filelock.cpp) and the named semaphore (semaphore.cpp), the same        *)
(* semaphore around every getChatHistory, and what remains when a process  *)
(* is killed.                                                              *)
(*                                                                         *)
(* The semaphore belongs to the machine: sem_open finds the one that an    *)
(* earlier process left, with the value it left.  The file lock belongs to *)
(* the process: it goes when the process ends - and when SQLite, in the    *)
(* same process, ends its first statement, because SQLite then releases    *)
(* the whole file, and POSIX record locks do not count.                    *)
(***************************************************************************)
EXTENDS Naturals

CONSTANTS
    Servers,        \* server processes; one that has ended can be started again
    Workers,        \* the threads of the pool of each
    NTables,        \* number of CREATE TABLE statements
    MaxStarts,      \* bound: how often processes are started
    MaxRequests,    \* bound: how many requests for a chat history are sent
    Faults,         \* what can go wrong: "kill", "disk", "semaphore"
    None            \* no process, no semaphore

ASSUME StartupAssumption ==
    /\ None \notin Servers \cup Nat
    /\ NTables \in Nat
    /\ MaxStarts \in Nat /\ MaxRequests \in Nat
    /\ Faults \subseteq {"kill", "disk", "semaphore"}

VARIABLES
    sem,        \* value of the named semaphore; None before it exists
    flock,      \* the process with the write lock on users.db
    port,       \* the process that listens
    tables,     \* how many of the tables exist; they are created in order
    pc,         \* what each process does next
    table,      \* the table its initDatabase creates next
    ok,         \* what its initDatabase has returned
    job,        \* what the workers of each process do next
    starts,     \* number of starts
    requests,   \* number of requests sent
    lost        \* history variable: a permit was taken that nobody will return

vars == <<sem, flock, port, tables, pc, table, ok, job, starts, requests, lost>>

Init ==
    /\ sem = None
    /\ flock = None
    /\ port = None
    /\ tables \in 0 .. NTables      \* users.db may be new, or unfinished
    /\ pc = [p \in Servers |-> "off"]
    /\ table = [p \in Servers |-> 1]
    /\ ok = [p \in Servers |-> FALSE]
    /\ job = [p \in Servers |-> [w \in Workers |-> "free"]]
    /\ starts = 0
    /\ requests = 0
    /\ lost = FALSE

(***************************************************************************)
(* External: POSIX and SQLite.                                             *)
(***************************************************************************)

\* Mutant of Opened: the semaphore is removed and created anew.
OpenedAnew(value) == value

\* sem_open(O_CREAT, value): the value counts only when the semaphore is new
Opened(value) == IF sem = None THEN value ELSE sem

\* Another process holds the file: SQLite's statements wait, and fail after five seconds.
Locked(p) == flock \notin {None, p}

\* A process gives up its lock of the file, by unlocking it, by ending, or by an SQLite
\* statement that ends.
Released(p) == IF flock = p THEN None ELSE flock

(***************************************************************************)
(* Server::Server and Server::initDatabase.                                *)
(***************************************************************************)
Goto(p, at) == pc' = [pc EXCEPT ![p] = at]

\* initDatabase returns false; the constructor calls quit(), which does nothing before exec(),
\* and start() listens all the same.
ReturnFalse(p) == Goto(p, "listen") /\ UNCHANGED ok

Start(p) ==
    /\ pc[p] = "off" /\ starts < MaxStarts
    /\ starts' = starts + 1
    /\ sem' = Opened(1)
    /\ table' = [table EXCEPT ![p] = 1]
    /\ ok' = [ok EXCEPT ![p] = FALSE]
    /\ Goto(p, "lock")
    /\ UNCHANGED <<flock, port, tables, job, requests, lost>>

\* F_SETLKW waits for the other process.
LockFile(p) ==
    /\ pc[p] = "lock" /\ flock = None
    /\ flock' = p
    /\ Goto(p, "wait")
    /\ UNCHANGED <<sem, port, tables, table, ok, job, starts, requests, lost>>

\* users.db cannot be opened or created
LockFails(p) ==
    /\ pc[p] = "lock" /\ "disk" \in Faults
    /\ ReturnFalse(p)
    /\ UNCHANGED <<sem, flock, port, tables, table, job, starts, requests, lost>>

TakePermit(p) ==
    /\ pc[p] = "wait" /\ sem > 0
    /\ sem' = sem - 1
    /\ Goto(p, "open")
    /\ UNCHANGED <<flock, port, tables, table, ok, job, starts, requests, lost>>

\* The semaphore is not valid, or sem_wait fails.
WaitFails(p) ==
    /\ pc[p] = "wait" /\ "semaphore" \in Faults
    /\ flock' = Released(p)
    /\ ReturnFalse(p)
    /\ UNCHANGED <<sem, port, tables, table, job, starts, requests, lost>>

Open(p) ==
    /\ pc[p] = "open"
    /\ Goto(p, IF NTables = 0 THEN "insert" ELSE "create")
    /\ UNCHANGED <<sem, flock, port, tables, table, ok, job, starts, requests, lost>>

\* Mutant of OpenFails: the permit is kept.
OpenFailsKeeping(p) ==
    /\ pc[p] = "open" /\ "disk" \in Faults
    /\ flock' = Released(p)
    /\ ReturnFalse(p)
    /\ UNCHANGED <<sem, port, tables, table, job, starts, requests, lost>>

OpenFails(p) ==
    /\ pc[p] = "open" /\ "disk" \in Faults
    /\ sem' = sem + 1
    /\ flock' = Released(p)
    /\ ReturnFalse(p)
    /\ UNCHANGED <<port, tables, table, job, starts, requests, lost>>

CreateTable(p) ==
    /\ pc[p] = "create" /\ ~Locked(p)
    /\ tables' = IF tables < table[p] THEN table[p] ELSE tables
    /\ flock' = Released(p)
    /\ table' = [table EXCEPT ![p] = @ + 1]
    /\ Goto(p, IF table[p] = NTables THEN "insert" ELSE "create")
    /\ UNCHANGED <<sem, port, ok, job, starts, requests, lost>>

\* Mutant of CreateFails: the failure is only logged.
CreateFailsLogging(p) ==
    /\ pc[p] = "create" /\ (Locked(p) \/ "disk" \in Faults)
    /\ flock' = Released(p)
    /\ table' = [table EXCEPT ![p] = @ + 1]
    /\ Goto(p, IF table[p] = NTables THEN "insert" ELSE "create")
    /\ UNCHANGED <<sem, port, tables, ok, job, starts, requests, lost>>

\* A return without post() and unlock(): of the file SQLite has already let go.
CreateFails(p) ==
    /\ pc[p] = "create" /\ (Locked(p) \/ "disk" \in Faults)
    /\ flock' = Released(p)
    /\ lost' = TRUE
    /\ ReturnFalse(p)
    /\ UNCHANGED <<sem, port, tables, table, job, starts, requests>>

\* The test accounts; an INSERT that fails is only logged.
InsertAccounts(p) ==
    /\ pc[p] = "insert"
    /\ flock' = Released(p)
    /\ Goto(p, "post")
    /\ UNCHANGED <<sem, port, tables, table, ok, job, starts, requests, lost>>

Post(p) ==
    /\ pc[p] = "post"
    /\ sem' = sem + 1
    /\ Goto(p, "unlock")
    /\ UNCHANGED <<flock, port, tables, table, ok, job, starts, requests, lost>>

Unlock(p) ==
    /\ pc[p] = "unlock"
    /\ flock' = Released(p)
    /\ ok' = [ok EXCEPT ![p] = TRUE]
    /\ Goto(p, "listen")
    /\ UNCHANGED <<sem, port, tables, table, job, starts, requests, lost>>

\* Server::start: if the port is taken, the process stays and is "deaf".
Listen(p) ==
    /\ pc[p] = "listen"
    /\ Goto(p, IF port = None THEN "serving" ELSE "deaf")
    /\ port' = IF port = None THEN p ELSE port
    /\ UNCHANGED <<sem, flock, tables, table, ok, job, starts, requests, lost>>

(***************************************************************************)
(* Server::getChatHistory in the workers.                                  *)
(***************************************************************************)
Now(p, w, at) == job' = [job EXCEPT ![p][w] = at]

Request(p, w) ==
    /\ pc[p] = "serving" /\ job[p][w] = "free"
    /\ requests < MaxRequests
    /\ requests' = requests + 1
    /\ Now(p, w, "wait")
    /\ UNCHANGED <<sem, flock, port, tables, pc, table, ok, starts, lost>>

TakeForHistory(p, w) ==
    /\ job[p][w] = "wait" /\ sem > 0
    /\ sem' = sem - 1
    /\ Now(p, w, "read")
    /\ UNCHANGED <<flock, port, tables, pc, table, ok, starts, requests, lost>>

\* The history is then empty.
HistoryWaitFails(p, w) ==
    /\ job[p][w] = "wait" /\ "semaphore" \in Faults
    /\ Now(p, w, "free")
    /\ UNCHANGED <<sem, flock, port, tables, pc, table, ok, starts, requests, lost>>

\* The SELECT, which an absent table or a locked file makes fail: the history is then empty.
Read(p, w) ==
    /\ job[p][w] = "read"
    /\ Now(p, w, "post")
    /\ UNCHANGED <<sem, flock, port, tables, pc, table, ok, starts, requests, lost>>

\* Mutant of PostAfterHistory: the permit is not returned.
PostForgotten(p, w) ==
    /\ job[p][w] = "post"
    /\ Now(p, w, "free")
    /\ UNCHANGED <<sem, flock, port, tables, pc, table, ok, starts, requests, lost>>

PostAfterHistory(p, w) ==
    /\ job[p][w] = "post"
    /\ sem' = sem + 1
    /\ Now(p, w, "free")
    /\ UNCHANGED <<flock, port, tables, pc, table, ok, starts, requests, lost>>

(***************************************************************************)
(* The end of a process, by a signal or otherwise: the handler of SIGINT   *)
(* and SIGTERM calls exit(), which destroys no Server.  The end of all.    *)
(***************************************************************************)
InitHolds(p) == pc[p] \in {"open", "create", "insert", "post"}
WorkerHolds(p, w) == job[p][w] \in {"read", "post"}

Kill(p) ==
    /\ "kill" \in Faults /\ pc[p] # "off"
    /\ Goto(p, "off")
    /\ job' = [job EXCEPT ![p] = [w \in Workers |-> "free"]]
    /\ flock' = Released(p)
    /\ port' = IF port = p THEN None ELSE port
    /\ lost' = (lost \/ InitHolds(p) \/ \E w \in Workers : WorkerHolds(p, w))
    /\ UNCHANGED <<sem, tables, table, ok, starts, requests>>

Reboot ==
    /\ "kill" \in Faults
    /\ pc' = [p \in Servers |-> "off"]
    /\ job' = [p \in Servers |-> [w \in Workers |-> "free"]]
    /\ flock' = None /\ port' = None
    /\ sem' = None /\ lost' = FALSE
    /\ UNCHANGED <<tables, table, ok, starts, requests>>

ServerStep(p) ==
    \/ LockFile(p) \/ TakePermit(p) \/ Open(p) \/ CreateTable(p) \/ CreateFails(p)
    \/ InsertAccounts(p) \/ Post(p) \/ Unlock(p) \/ Listen(p)

WorkerStep(p, w) == TakeForHistory(p, w) \/ Read(p, w) \/ PostAfterHistory(p, w)

Next ==
    \/ \E p \in Servers : Start(p) \/ ServerStep(p) \/ Kill(p)
    \/ \E p \in Servers : LockFails(p) \/ WaitFails(p) \/ OpenFails(p)
    \/ \E p \in Servers, w \in Workers : Request(p, w) \/ WorkerStep(p, w)
    \/ \E p \in Servers, w \in Workers : HistoryWaitFails(p, w)
    \/ Reboot

Spec == Init /\ [][Next]_vars

\* A process and its threads run; nothing has to be started, asked for or killed, and no call has to
\* fail so that a wait ends.
FairSpec ==
    /\ Spec
    /\ \A p \in Servers : WF_vars(ServerStep(p))
    /\ \A p \in Servers, w \in Workers : WF_vars(WorkerStep(p, w))

(***************************************************************************)
(* Properties.                                                             *)
(***************************************************************************)
Steps == {"off", "lock", "wait", "open", "create", "insert", "post", "unlock", "listen",
          "serving", "deaf"}

\* The type invariant.
TypeOK ==
    /\ sem \in {None, 0, 1}
    /\ flock \in Servers \cup {None}
    /\ port \in Servers \cup {None}
    /\ tables \in 0 .. NTables
    /\ pc \in [Servers -> Steps]
    /\ table \in [Servers -> 1 .. NTables + 1]
    /\ ok \in [Servers -> BOOLEAN]
    /\ job \in [Servers -> [Workers -> {"free", "wait", "read", "post"}]]
    /\ starts \in 0 .. MaxStarts
    /\ requests \in 0 .. MaxRequests
    /\ lost \in BOOLEAN

\* Nobody holds the permit.
Unheld ==
    /\ \A p \in Servers : ~InitHolds(p)
    /\ \A p \in Servers, w \in Workers : ~WorkerHolds(p, w)

\* The database semaphore (m_dbSemaphore) counts what it stands for, through kills, failing
\* disks, restarts and reboots: at most one start or one history reader of the machine is
\* inside, the semaphore is free only when nobody is, and taken for nobody only after a permit
\* was lost.  It is the only protection that initDatabase and getChatHistory have from each
\* other and from other processes, because the file lock is gone after the first statement.
PermitAccounted ==
    /\ \A p, q \in Servers : InitHolds(p) /\ InitHolds(q) => p = q
    /\ \A p, q \in Servers, v, w \in Workers :
            WorkerHolds(p, v) /\ WorkerHolds(q, w) => p = q /\ v = w
    /\ \A p, q \in Servers, w \in Workers : ~(InitHolds(p) /\ WorkerHolds(q, w))
    /\ sem # 0 => Unheld /\ ~lost
    /\ sem = 0 => (Unheld <=> lost)

\* A process whose initDatabase has returned true serves a database with every table, whoever
\* created which and was killed or failed in between.
ServesWholeDatabase == \A p \in Servers : pc[p] = "serving" /\ ok[p] => tables = NTables

\* Every start gets through initDatabase to a listening server, one that found the port taken,
\* or its end, unless a permit is lost.
StartsEnd == \A p \in Servers : pc[p] = "lock" ~> pc[p] \in {"serving", "deaf", "off"} \/ lost

\* Every request for a chat history is answered or its process ends, unless a permit is lost:
\* the workers, the starts and other processes wait for one semaphore in no particular order.
HistoryIsAnswered == \A p \in Servers, w \in Workers : job[p][w] = "wait" ~> job[p][w] = "free" \/ lost

\* What the comments of initDatabase say (server.cpp:1410 "protect the database file with the
\* file lock", 1593 "release the database semaphore and the file lock"): when nothing is
\* killed and no disk fails, every permit comes back.  It does not: a second process that
\* starts takes the file lock during the first one's statements and waits for the semaphore,
\* and the first one's next CREATE TABLE fails, with the permit in its hands.
PermitComesBack == ~lost
====
