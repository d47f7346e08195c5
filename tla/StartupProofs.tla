---------------------------- MODULE StartupProofs ----------------------------
(***************************************************************************)
(* For any number of processes, workers and tables: the semaphore counts   *)
(* who is inside, through kills, failures, restarts and reboots, and a     *)
(* server that started well serves every table.  Neither rests on the file *)
(* lock: nothing below mentions flock except its type.                     *)
(***************************************************************************)
EXTENDS Startup, TLAPS

\* The semaphore exists as long as a process does (Server::Server creates it first).
SemaphoreExists ==
    sem = None =>
        /\ \A p \in Servers : pc[p] = "off"
        /\ \A p \in Servers, w \in Workers : job[p][w] = "free"

\* The loop of CREATE TABLE has made all tables before the one it is at, and initDatabase
\* returns true only behind it.
TablesFit == \A p \in Servers :
    /\ pc[p] \in {"lock", "wait", "open"} => table[p] = 1
    /\ pc[p] = "create" => table[p] \in 1 .. NTables /\ tables >= table[p] - 1
    /\ pc[p] \in {"insert", "post", "unlock"} => tables = NTables
    /\ ok[p] /\ pc[p] \in {"listen", "serving", "deaf"} => tables = NTables
    /\ pc[p] \in {"lock", "wait", "open", "create", "insert", "post", "unlock"} => ~ok[p]

StartupInv == TypeOK /\ PermitAccounted /\ SemaphoreExists /\ TablesFit

-----------------------------------------------------------------------------
\* Every step keeps the types; the semaphore never counts beyond one, because who posts holds
\* the permit.
LEMMA TypesKept ==
    ASSUME StartupInv, [Next]_vars
    PROVE  TypeOK'
  <1> USE StartupAssumption DEF StartupInv, TypeOK, PermitAccounted, SemaphoreExists, TablesFit, Unheld,
                               InitHolds, WorkerHolds, Steps, Released
  <1>1. ASSUME NEW p \in Servers, Start(p) PROVE TypeOK'
    BY <1>1 DEF Start, Goto, Opened
  <1>2. ASSUME NEW p \in Servers, LockFile(p) PROVE TypeOK'
    BY <1>2 DEF LockFile, Goto
  <1>3. ASSUME NEW p \in Servers, LockFails(p) PROVE TypeOK'
    BY <1>3 DEF LockFails, Goto, ReturnFalse
  <1>4. ASSUME NEW p \in Servers, TakePermit(p) PROVE TypeOK'
    BY <1>4 DEF TakePermit, Goto
  <1>5. ASSUME NEW p \in Servers, Open(p) PROVE TypeOK'
    BY <1>5 DEF Open, Goto
  <1>6. ASSUME NEW p \in Servers, OpenFails(p) PROVE TypeOK'
    BY <1>6 DEF OpenFails, Goto, ReturnFalse
  <1>7. ASSUME NEW p \in Servers, CreateTable(p) PROVE TypeOK'
    BY <1>7 DEF CreateTable, Goto
  <1>8. ASSUME NEW p \in Servers, CreateFails(p) PROVE TypeOK'
    BY <1>8 DEF CreateFails, Goto, ReturnFalse
  <1>9. ASSUME NEW p \in Servers, InsertAccounts(p) PROVE TypeOK'
    BY <1>9 DEF InsertAccounts, Goto
  <1>10. ASSUME NEW p \in Servers, Post(p) PROVE TypeOK'
    BY <1>10 DEF Post, Goto
  <1>11. ASSUME NEW p \in Servers, Unlock(p) PROVE TypeOK'
    BY <1>11 DEF Unlock, Goto
  <1>12. ASSUME NEW p \in Servers, Listen(p) PROVE TypeOK'
    BY <1>12 DEF Listen, Goto
  <1>13. ASSUME NEW p \in Servers, Kill(p) PROVE TypeOK'
    BY <1>13 DEF Kill, Goto
  <1>14. ASSUME NEW p \in Servers, NEW w \in Workers, Request(p, w) PROVE TypeOK'
    BY <1>14 DEF Request, Now
  <1>15. ASSUME NEW p \in Servers, NEW w \in Workers, TakeForHistory(p, w) PROVE TypeOK'
    BY <1>15 DEF TakeForHistory, Now
  <1>16. ASSUME NEW p \in Servers, NEW w \in Workers, Read(p, w) PROVE TypeOK'
    BY <1>16 DEF Read, Now
  <1>17. ASSUME NEW p \in Servers, NEW w \in Workers, PostAfterHistory(p, w) PROVE TypeOK'
    BY <1>17 DEF PostAfterHistory, Now
  <1>18. CASE Reboot
    BY <1>18 DEF Reboot
  <1>19. CASE UNCHANGED vars
    BY <1>19 DEF vars
  <1>20. ASSUME NEW p \in Servers, WaitFails(p) PROVE TypeOK'
    BY <1>20 DEF WaitFails, Goto, ReturnFalse
  <1>21. ASSUME NEW p \in Servers, NEW w \in Workers, HistoryWaitFails(p, w) PROVE TypeOK'
    BY <1>21 DEF HistoryWaitFails, Now
  <1> QED
    BY <1>1, <1>2, <1>3, <1>4, <1>5, <1>6, <1>7, <1>8, <1>9, <1>10, <1>11, <1>12, <1>13,
       <1>14, <1>15, <1>16, <1>17, <1>18, <1>19, <1>20, <1>21
    DEF Next, ServerStep, WorkerStep

\* Every step keeps the account of the permit.
LEMMA PermitsKept ==
    ASSUME StartupInv, [Next]_vars
    PROVE  PermitAccounted'
  <1> USE StartupAssumption DEF StartupInv, TypeOK, PermitAccounted, SemaphoreExists, Unheld, InitHolds, WorkerHolds
  <1>1. ASSUME NEW p \in Servers, Start(p) PROVE PermitAccounted'
    BY <1>1 DEF Start, Goto, Opened
  <1>2. ASSUME NEW p \in Servers, LockFile(p) PROVE PermitAccounted'
    BY <1>2 DEF LockFile, Goto
  <1>3. ASSUME NEW p \in Servers, LockFails(p) PROVE PermitAccounted'
    BY <1>3 DEF LockFails, Goto, ReturnFalse
  <1>4. ASSUME NEW p \in Servers, TakePermit(p) PROVE PermitAccounted'
    BY <1>4 DEF TakePermit, Goto
  <1>5. ASSUME NEW p \in Servers, Open(p) PROVE PermitAccounted'
    BY <1>5 DEF Open, Goto
  <1>6. ASSUME NEW p \in Servers, OpenFails(p) PROVE PermitAccounted'
    BY <1>6 DEF OpenFails, Goto, ReturnFalse
  <1>7. ASSUME NEW p \in Servers, CreateTable(p) PROVE PermitAccounted'
    BY <1>7 DEF CreateTable, Goto
  <1>8. ASSUME NEW p \in Servers, CreateFails(p) PROVE PermitAccounted'
    BY <1>8 DEF CreateFails, Goto, ReturnFalse
  <1>9. ASSUME NEW p \in Servers, InsertAccounts(p) PROVE PermitAccounted'
    BY <1>9 DEF InsertAccounts, Goto
  <1>10. ASSUME NEW p \in Servers, Post(p) PROVE PermitAccounted'
    BY <1>10 DEF Post, Goto
  <1>11. ASSUME NEW p \in Servers, Unlock(p) PROVE PermitAccounted'
    BY <1>11 DEF Unlock, Goto
  <1>12. ASSUME NEW p \in Servers, Listen(p) PROVE PermitAccounted'
    BY <1>12 DEF Listen, Goto
  <1>13. ASSUME NEW p \in Servers, Kill(p) PROVE PermitAccounted'
    <2>1. sem' = sem /\ pc' = [pc EXCEPT ![p] = "off"]
      BY <1>13 DEF Kill, Goto
    <2>2. job' = [job EXCEPT ![p] = [w \in Workers |-> "free"]]
      BY <1>13 DEF Kill
    <2>3. \A q \in Servers : InitHolds(q)' <=> InitHolds(q) /\ q # p
      BY <2>1
    <2>4. \A q \in Servers, w \in Workers : WorkerHolds(q, w)' <=> WorkerHolds(q, w) /\ q # p
      BY <2>2
    <2>5. lost' <=> lost \/ InitHolds(p) \/ \E w \in Workers : WorkerHolds(p, w)
      BY <1>13 DEF Kill
    <2> HIDE DEF InitHolds, WorkerHolds
    <2> QED
      BY <2>1, <2>3, <2>4, <2>5
  <1>14. ASSUME NEW p \in Servers, NEW w \in Workers, Request(p, w) PROVE PermitAccounted'
    BY <1>14 DEF Request, Now
  <1>15. ASSUME NEW p \in Servers, NEW w \in Workers, TakeForHistory(p, w) PROVE PermitAccounted'
    BY <1>15 DEF TakeForHistory, Now
  <1>16. ASSUME NEW p \in Servers, NEW w \in Workers, Read(p, w) PROVE PermitAccounted'
    BY <1>16 DEF Read, Now
  <1>17. ASSUME NEW p \in Servers, NEW w \in Workers, PostAfterHistory(p, w) PROVE PermitAccounted'
    BY <1>17 DEF PostAfterHistory, Now
  <1>18. CASE Reboot
    BY <1>18 DEF Reboot
  <1>19. CASE UNCHANGED vars
    BY <1>19 DEF vars
  <1>20. ASSUME NEW p \in Servers, WaitFails(p) PROVE PermitAccounted'
    BY <1>20 DEF WaitFails, Goto, ReturnFalse
  <1>21. ASSUME NEW p \in Servers, NEW w \in Workers, HistoryWaitFails(p, w) PROVE PermitAccounted'
    BY <1>21 DEF HistoryWaitFails, Now
  <1> QED
    BY <1>1, <1>2, <1>3, <1>4, <1>5, <1>6, <1>7, <1>8, <1>9, <1>10, <1>11, <1>12, <1>13,
       <1>14, <1>15, <1>16, <1>17, <1>18, <1>19, <1>20, <1>21
    DEF Next, ServerStep, WorkerStep

\* No step but a reboot removes the semaphore.
LEMMA SemaphoreKept ==
    ASSUME StartupInv, [Next]_vars
    PROVE  SemaphoreExists'
  <1> USE StartupAssumption DEF StartupInv, TypeOK, SemaphoreExists
  <1>1. ASSUME NEW p \in Servers, Start(p) PROVE SemaphoreExists'
    BY <1>1 DEF Start, Goto, Opened
  <1>2. ASSUME NEW p \in Servers, LockFile(p) PROVE SemaphoreExists'
    BY <1>2 DEF LockFile, Goto
  <1>3. ASSUME NEW p \in Servers, LockFails(p) PROVE SemaphoreExists'
    BY <1>3 DEF LockFails, Goto, ReturnFalse
  <1>4. ASSUME NEW p \in Servers, TakePermit(p) PROVE SemaphoreExists'
    BY <1>4 DEF TakePermit, Goto
  <1>5. ASSUME NEW p \in Servers, Open(p) PROVE SemaphoreExists'
    BY <1>5 DEF Open, Goto
  <1>6. ASSUME NEW p \in Servers, OpenFails(p) PROVE SemaphoreExists'
    BY <1>6 DEF OpenFails, Goto, ReturnFalse
  <1>7. ASSUME NEW p \in Servers, CreateTable(p) PROVE SemaphoreExists'
    BY <1>7 DEF CreateTable, Goto
  <1>8. ASSUME NEW p \in Servers, CreateFails(p) PROVE SemaphoreExists'
    BY <1>8 DEF CreateFails, Goto, ReturnFalse
  <1>9. ASSUME NEW p \in Servers, InsertAccounts(p) PROVE SemaphoreExists'
    BY <1>9 DEF InsertAccounts, Goto
  <1>10. ASSUME NEW p \in Servers, Post(p) PROVE SemaphoreExists'
    BY <1>10 DEF Post, Goto
  <1>11. ASSUME NEW p \in Servers, Unlock(p) PROVE SemaphoreExists'
    BY <1>11 DEF Unlock, Goto
  <1>12. ASSUME NEW p \in Servers, Listen(p) PROVE SemaphoreExists'
    BY <1>12 DEF Listen, Goto
  <1>13. ASSUME NEW p \in Servers, Kill(p) PROVE SemaphoreExists'
    BY <1>13 DEF Kill, Goto
  <1>14. ASSUME NEW p \in Servers, NEW w \in Workers, Request(p, w) PROVE SemaphoreExists'
    BY <1>14 DEF Request, Now
  <1>15. ASSUME NEW p \in Servers, NEW w \in Workers, TakeForHistory(p, w) PROVE SemaphoreExists'
    BY <1>15 DEF TakeForHistory, Now
  <1>16. ASSUME NEW p \in Servers, NEW w \in Workers, Read(p, w) PROVE SemaphoreExists'
    BY <1>16 DEF Read, Now
  <1>17. ASSUME NEW p \in Servers, NEW w \in Workers, PostAfterHistory(p, w) PROVE SemaphoreExists'
    BY <1>17 DEF PostAfterHistory, Now
  <1>18. CASE Reboot
    BY <1>18 DEF Reboot
  <1>19. CASE UNCHANGED vars
    BY <1>19 DEF vars
  <1>20. ASSUME NEW p \in Servers, WaitFails(p) PROVE SemaphoreExists'
    BY <1>20 DEF WaitFails, Goto, ReturnFalse
  <1>21. ASSUME NEW p \in Servers, NEW w \in Workers, HistoryWaitFails(p, w) PROVE SemaphoreExists'
    BY <1>21 DEF HistoryWaitFails, Now
  <1> QED
    BY <1>1, <1>2, <1>3, <1>4, <1>5, <1>6, <1>7, <1>8, <1>9, <1>10, <1>11, <1>12, <1>13,
       <1>14, <1>15, <1>16, <1>17, <1>18, <1>19, <1>20, <1>21
    DEF Next, ServerStep, WorkerStep

\* Every step keeps the tables that are there, and the loops in their places.
LEMMA TablesKept ==
    ASSUME StartupInv, [Next]_vars
    PROVE  TablesFit'
  <1> USE StartupAssumption DEF StartupInv, TypeOK, TablesFit
  <1>1. ASSUME NEW p \in Servers, Start(p) PROVE TablesFit'
    BY <1>1 DEF Start, Goto
  <1>2. ASSUME NEW p \in Servers, LockFile(p) PROVE TablesFit'
    BY <1>2 DEF LockFile, Goto
  <1>3. ASSUME NEW p \in Servers, LockFails(p) PROVE TablesFit'
    BY <1>3 DEF LockFails, Goto, ReturnFalse
  <1>4. ASSUME NEW p \in Servers, TakePermit(p) PROVE TablesFit'
    BY <1>4 DEF TakePermit, Goto
  <1>5. ASSUME NEW p \in Servers, Open(p) PROVE TablesFit'
    BY <1>5 DEF Open, Goto
  <1>6. ASSUME NEW p \in Servers, OpenFails(p) PROVE TablesFit'
    BY <1>6 DEF OpenFails, Goto, ReturnFalse
  <1>7. ASSUME NEW p \in Servers, CreateTable(p) PROVE TablesFit'
    BY <1>7 DEF CreateTable, Goto
  <1>8. ASSUME NEW p \in Servers, CreateFails(p) PROVE TablesFit'
    BY <1>8 DEF CreateFails, Goto, ReturnFalse
  <1>9. ASSUME NEW p \in Servers, InsertAccounts(p) PROVE TablesFit'
    BY <1>9 DEF InsertAccounts, Goto
  <1>10. ASSUME NEW p \in Servers, Post(p) PROVE TablesFit'
    BY <1>10 DEF Post, Goto
  <1>11. ASSUME NEW p \in Servers, Unlock(p) PROVE TablesFit'
    BY <1>11 DEF Unlock, Goto
  <1>12. ASSUME NEW p \in Servers, Listen(p) PROVE TablesFit'
    BY <1>12 DEF Listen, Goto
  <1>13. ASSUME NEW p \in Servers, Kill(p) PROVE TablesFit'
    BY <1>13 DEF Kill, Goto
  <1>14. ASSUME NEW p \in Servers, NEW w \in Workers, Request(p, w) PROVE TablesFit'
    BY <1>14 DEF Request, Now
  <1>15. ASSUME NEW p \in Servers, NEW w \in Workers, TakeForHistory(p, w) PROVE TablesFit'
    BY <1>15 DEF TakeForHistory, Now
  <1>16. ASSUME NEW p \in Servers, NEW w \in Workers, Read(p, w) PROVE TablesFit'
    BY <1>16 DEF Read, Now
  <1>17. ASSUME NEW p \in Servers, NEW w \in Workers, PostAfterHistory(p, w) PROVE TablesFit'
    BY <1>17 DEF PostAfterHistory, Now
  <1>18. CASE Reboot
    BY <1>18 DEF Reboot
  <1>19. CASE UNCHANGED vars
    BY <1>19 DEF vars
  <1>20. ASSUME NEW p \in Servers, WaitFails(p) PROVE TablesFit'
    BY <1>20 DEF WaitFails, Goto, ReturnFalse
  <1>21. ASSUME NEW p \in Servers, NEW w \in Workers, HistoryWaitFails(p, w) PROVE TablesFit'
    BY <1>21 DEF HistoryWaitFails, Now
  <1> QED
    BY <1>1, <1>2, <1>3, <1>4, <1>5, <1>6, <1>7, <1>8, <1>9, <1>10, <1>11, <1>12, <1>13,
       <1>14, <1>15, <1>16, <1>17, <1>18, <1>19, <1>20, <1>21
    DEF Next, ServerStep, WorkerStep

-----------------------------------------------------------------------------
\* The inductive invariant behind the theorems.
THEOREM StartupInvariant == Spec => []StartupInv
  <1>1. Init => StartupInv
    <2> SUFFICES ASSUME Init PROVE StartupInv
      OBVIOUS
    <2>1. TypeOK
      <3>1. ok \in [Servers -> BOOLEAN] /\ lost \in BOOLEAN
        BY DEF Init
      <3>2. job \in [Servers -> [Workers -> {"free", "wait", "read", "post"}]]
        BY DEF Init
      <3>3. pc \in [Servers -> Steps]
        BY DEF Init, Steps
      <3>4. table \in [Servers -> 1 .. NTables + 1] /\ tables \in 0 .. NTables
        BY StartupAssumption DEF Init
      <3>5. starts \in 0 .. MaxStarts /\ requests \in 0 .. MaxRequests
        BY StartupAssumption DEF Init
      <3> QED
        BY <3>1, <3>2, <3>3, <3>4, <3>5 DEF Init, TypeOK
    <2>2. PermitAccounted
      BY StartupAssumption DEF Init, PermitAccounted, Unheld, InitHolds, WorkerHolds
    <2>3. SemaphoreExists /\ TablesFit
      BY DEF Init, SemaphoreExists, TablesFit
    <2> QED
      BY <2>1, <2>2, <2>3 DEF StartupInv
  <1>2. StartupInv /\ [Next]_vars => StartupInv'
    BY TypesKept, PermitsKept, SemaphoreKept, TablesKept DEF StartupInv
  <1> QED
    BY <1>1, <1>2, PTL DEF Spec

\* Every variable has its type; the semaphore of initDatabase and getChatHistory stays binary.
THEOREM StartupTypeCorrect == Spec => []TypeOK
  <1>1. StartupInv => TypeOK
    BY DEF StartupInv
  <1> QED
    BY <1>1, StartupInvariant, PTL

\* At most one start or history reader of the whole machine is inside, and a permit is missing
\* only if a process was killed, or returned early, while it held one.
THEOREM PermitStaysAccounted == Spec => []PermitAccounted
  <1>1. StartupInv => PermitAccounted
    BY DEF StartupInv
  <1> QED
    BY <1>1, StartupInvariant, PTL

\* What initDatabase leaves unfinished when it is killed or fails, the next start finishes
\* before its server counts as initialised.
THEOREM StartedServesWhole == Spec => []ServesWholeDatabase
  <1>1. StartupInv => ServesWholeDatabase
    BY DEF StartupInv, TablesFit, ServesWholeDatabase
  <1> QED
    BY <1>1, StartupInvariant, PTL
=============================================================================
