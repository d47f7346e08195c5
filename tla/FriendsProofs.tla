---------------------------- MODULE FriendsProofs ----------------------------
(***************************************************************************)
(* Proofs about friend requests and friendships, for any users and any     *)
(* number of workers, and for the messages the client sends (all but       *)
(* "add").  The inductive invariant says which locks a handler has at each *)
(* place, and what the writer's draft adds to the committed tables.        *)
(***************************************************************************)
EXTENDS Friends, TLAPS

ClientOps == {"request", "accept", "unfriend", "refuse", "list"}

\* What a handler is doing at each place.
PlaceFits(h) ==
    /\ pc[h] \in Places \ {"findUser", "addRow"}
    /\ pc[h] = "free" <=> job[h] = NoJob
    /\ pc[h] # "free" => job[h].op \in ClientOps
    /\ pc[h] \in {"checkFriends", "checkPending"} => job[h].op = "request"
    /\ pc[h] \in {"find", "remove", "link"} => job[h].op = "accept"
    /\ pc[h] = "write" => job[h].op \in {"request", "unfriend", "refuse"}
    /\ pc[h] = "commit" => job[h].op # "list"
    /\ pc[h] \in {"read", "reading"} => left[h] \in 1 .. 3

\* Readers and the writer are handlers in the middle of a statement or a transaction.
LocksFit(h) ==
    /\ h \in shared <=> pc[h] \in {"remove", "reading"}
    /\ writer = h <=> pc[h] \in {"link", "commit"}

\* The committed tables with the request of handler h removed, and with its whole effect.
Unrequested(h) == [stored EXCEPT !.requests = @ \ {Request(h)}]
Outcome(h) ==
    CASE job[h].op = "request" ->
            [stored EXCEPT !.requests = @ \cup {<<job[h].user, job[h].peer>>}]
      [] job[h].op = "unfriend" ->
            [stored EXCEPT !.friends = @ \ Both(job[h].user, job[h].peer)]
      [] job[h].op = "refuse" -> Unrequested(h)
      [] OTHER ->
            [Unrequested(h) EXCEPT !.friends = @ \cup Both(job[h].user, job[h].peer)]

CanLink(h) ==
    /\ job[h].user # job[h].peer
    /\ Both(job[h].user, job[h].peer) \cap stored.friends = {}

DraftFits(h) ==
    /\ pc[h] = "link" => draft = Unrequested(h)
    /\ pc[h] = "commit" => draft = Outcome(h) /\ (job[h].op = "accept" => CanLink(h))

IdleFits == writer = Nobody => draft = stored /\ ~blocking

Fits(h) == PlaceFits(h) /\ LocksFit(h) /\ DraftFits(h)

FriendsInv ==
    /\ TypeOK
    /\ IdleFits
    /\ \A h \in Handlers : Fits(h)
    /\ CheckedRequestStays
    /\ FriendshipIsMutual

-----------------------------------------------------------------------------
\* A job in progress names two users.
LEMMA JobTyped ==
    ASSUME TypeOK, NEW h \in Handlers, job[h] # NoJob
    PROVE  job[h] \in Jobs /\ job[h].user \in Users /\ job[h].peer \in Users /\ job[h].op \in Ops
  BY DEF TypeOK, Jobs

\* The tables a statement may leave are tables.
LEMMA TablesClosed ==
    ASSUME NEW t \in Tables, NEW u \in Users, NEW v \in Users
    PROVE  /\ [t EXCEPT !.requests = @ \ {<<u, v>>}] \in Tables
           /\ [t EXCEPT !.requests = @ \cup {<<u, v>>}] \in Tables
           /\ [t EXCEPT !.friends = @ \ Both(u, v)] \in Tables
           /\ [t EXCEPT !.friends = @ \cup Both(u, v)] \in Tables
  BY DEF Tables, Both

-----------------------------------------------------------------------------
\* The handlers that take no step keep their place, their job and what they have to push.
LEMMA OthersStand ==
    ASSUME TypeOK, NEW h \in Handlers, Start(h) \/ Statement(h) \/ TimesOut(h),
           NEW g \in Handlers, g # h
    PROVE  pc'[g] = pc[g] /\ job'[g] = job[g] /\ left'[g] = left[g]
<1> USE DEF TypeOK
<1>1. CASE Start(h)
  BY <1>1 DEF Start
<1>2. CASE CheckFriends(h) \/ CheckPending(h) \/ Write(h)
  BY <1>2 DEF CheckFriends, CheckPending, Write, Goto, Fail, Succeed
<1>3. CASE FindRequest(h) \/ RemoveRequest(h) \/ LinkFriends(h) \/ FindUser(h) \/ AddRow(h)
  BY <1>3 DEF FindRequest, RemoveRequest, LinkFriends, FindUser, AddRow, Goto, Fail
<1>4. CASE Commit(h) \/ AwaitReaders(h) \/ CommitTimesOut(h)
  BY <1>4 DEF Commit, AwaitReaders, CommitTimesOut, Fail, Succeed
<1>5. CASE OpenList(h) \/ CloseList(h) \/ ListTimesOut(h)
  BY <1>5 DEF OpenList, CloseList, ListTimesOut, NextList, Goto
<1>6. CASE CheckTimesOut(h) \/ StatementTimesOut(h)
  BY <1>6 DEF CheckTimesOut, StatementTimesOut, Goto, Fail
<1>. QED BY <1>1, <1>2, <1>3, <1>4, <1>5, <1>6 DEF Statement, TimesOut

-----------------------------------------------------------------------------
\* A step of one handler takes no lock away from another, changes the tables only as the writer
\* with no reader, and a writer's draft only as that writer.
Disciplined(h) ==
    /\ \A g \in Handlers \ {h} : (g \in shared' <=> g \in shared) /\ (writer' = g <=> writer = g)
    /\ writer # h /\ writer # Nobody => draft' = draft
    /\ stored' # stored => writer = h /\ shared = {}

\* Every statement keeps that discipline.
LEMMA StepIsDisciplined ==
    ASSUME FriendsInv, NEW h \in Handlers, Start(h) \/ Statement(h) \/ TimesOut(h)
    PROVE  Disciplined(h)
<1> USE FriendsAssumption DEF Disciplined
<1>a. PlaceFits(h) /\ LocksFit(h) /\ IdleFits
  BY DEF FriendsInv, Fits
<1>1. CASE Start(h)
  BY <1>1 DEF Start, locks
<1>2. CASE CheckFriends(h) \/ CheckPending(h)
  BY <1>2 DEF CheckFriends, CheckPending, locks
<1>3. CASE Write(h)
  BY <1>3 DEF Write, CanWrite
<1>4. CASE FindRequest(h)
  BY <1>4 DEF FindRequest
<1>5. CASE RemoveRequest(h)
  BY <1>5 DEF RemoveRequest
<1>6. CASE LinkFriends(h)
  BY <1>6, <1>a DEF LinkFriends, Rollback, locks, LocksFit
<1>7. CASE FindUser(h) \/ AddRow(h)
  BY <1>7, <1>a DEF FindUser, AddRow, PlaceFits
<1>8. CASE Commit(h)
  BY <1>8, <1>a DEF Commit, LocksFit
<1>9. CASE AwaitReaders(h)
  BY <1>9 DEF AwaitReaders
<1>10. CASE OpenList(h) \/ CloseList(h)
  BY <1>10 DEF OpenList, CloseList
<1>11. CASE CheckTimesOut(h) \/ StatementTimesOut(h) \/ ListTimesOut(h)
  BY <1>11 DEF CheckTimesOut, StatementTimesOut, ListTimesOut, locks
<1>12. CASE CommitTimesOut(h)
  BY <1>12, <1>a DEF CommitTimesOut, Rollback, locks, LocksFit
<1>. QED
  BY <1>1, <1>2, <1>3, <1>4, <1>5, <1>6, <1>7, <1>8, <1>9, <1>10, <1>11, <1>12
  DEF Statement, TimesOut

\* So the other handlers still fit, and what they have checked still holds.
LEMMA OthersStillFit ==
    ASSUME FriendsInv, NEW h \in Handlers, Start(h) \/ Statement(h) \/ TimesOut(h),
           NEW g \in Handlers, g # h
    PROVE  /\ Fits(g)'
           /\ job'[g].op = "accept" /\ pc'[g] \in {"remove", "link", "commit"}
                 => Request(g)' \in stored'.requests
<1>1. Disciplined(h)
  BY StepIsDisciplined
<1>2. pc'[g] = pc[g] /\ job'[g] = job[g] /\ left'[g] = left[g]
  BY OthersStand DEF FriendsInv
<1>3. Fits(g)
  BY DEF FriendsInv
<1>4. PlaceFits(g)'
  BY <1>2, <1>3 DEF Fits, PlaceFits
<1>5. LocksFit(g)'
  BY <1>1, <1>2, <1>3 DEF Fits, LocksFit, Disciplined
<1>6. ASSUME pc[g] \in {"link", "commit"} PROVE draft' = draft /\ stored' = stored
  BY <1>1, <1>3, <1>6, FriendsAssumption DEF Fits, LocksFit, Disciplined
<1>7. DraftFits(g)'
  BY <1>2, <1>3, <1>6 DEF Fits, DraftFits, Unrequested, Outcome, CanLink, Request
<1>8. ASSUME pc[g] = "remove" PROVE stored' = stored
  BY <1>1, <1>3, <1>8 DEF Fits, LocksFit, Disciplined
<1>. QED
  BY <1>2, <1>4, <1>5, <1>6, <1>7, <1>8 DEF Fits, FriendsInv, CheckedRequestStays, Request

-----------------------------------------------------------------------------
\* Leaving an operation, or going on in it, keeps the types of what a handler knows of itself.
HandlerTyped ==
    /\ pc' \in [Handlers -> Places]
    /\ job' \in [Handlers -> Jobs \cup {NoJob}]
    /\ left' \in [Handlers -> 0 .. 3]

\* Every way a statement ends leaves its handler with a place and a job.
LEMMA MovesTyped ==
    ASSUME FriendsInv, NEW h \in Handlers,
           \/ Fail(h)
           \/ Succeed(h) /\ job[h] # NoJob
           \/ NextList(h) /\ pc[h] \in {"read", "reading"}
           \/ \E place \in Places : Goto(h, place)
    PROVE  HandlerTyped
<1> USE DEF HandlerTyped, FriendsInv, TypeOK
<1>1. CASE Fail(h)
  BY <1>1 DEF Fail, Places
<1>2. CASE Succeed(h) /\ job[h] # NoJob
  <2>1. PICK n \in Refreshes(job[h].op) :
          /\ left' = [left EXCEPT ![h] = n]
          /\ pc' = [pc EXCEPT ![h] = IF n = 0 THEN "free" ELSE "read"]
          /\ job' = [job EXCEPT ![h] = IF n = 0 THEN NoJob ELSE @]
    BY <1>2 DEF Succeed
  <2>2. n \in 0 .. 3
    BY DEF Refreshes
  <2>. QED BY <2>1, <2>2 DEF Places
<1>3. CASE NextList(h) /\ pc[h] \in {"read", "reading"}
  <2>1. left[h] \in 1 .. 3
    BY <1>3 DEF Fits, PlaceFits
  <2>. QED BY <1>3, <2>1 DEF NextList, Places
<1>4. CASE \E place \in Places : Goto(h, place)
  BY <1>4 DEF Goto
<1>. QED BY <1>1, <1>2, <1>3, <1>4

\* Every variable keeps its type.
LEMMA StepKeepsType ==
    ASSUME FriendsInv, NEW h \in Handlers, Start(h) \/ Statement(h) \/ TimesOut(h)
    PROVE  TypeOK'
<1>a. TypeOK /\ PlaceFits(h) /\ (job[h] # NoJob => job[h] \in Jobs)
  BY JobTyped DEF FriendsInv, Fits
<1>b. View(h) \in Tables
  BY <1>a DEF View, TypeOK
<1>c. ASSUME pc[h] # "free", NEW t \in Tables
      PROVE  /\ [t EXCEPT !.requests = @ \ {Request(h)}] \in Tables
             /\ [t EXCEPT !.requests = @ \cup {<<job[h].user, job[h].peer>>}] \in Tables
             /\ [t EXCEPT !.friends = @ \ Both(job[h].user, job[h].peer)] \in Tables
             /\ [t EXCEPT !.friends = @ \cup Both(job[h].user, job[h].peer)] \in Tables
  <2>1. job[h].user \in Users /\ job[h].peer \in Users
    BY <1>a, <1>c DEF PlaceFits, Jobs
  <2>. QED BY <2>1, <1>c, TablesClosed DEF Request
<1>d. HandlerTyped /\ draft' \in Tables /\ stored' \in Tables /\ shared' \subseteq Handlers
         /\ writer' \in Handlers \cup {Nobody} /\ blocking' \in BOOLEAN => TypeOK'
  BY DEF HandlerTyped, TypeOK
<1> USE DEF TypeOK
<1>1. CASE Start(h)
  <2>1. PICK j \in Jobs :
          /\ job' = [job EXCEPT ![h] = j]
          /\ pc' = [pc EXCEPT ![h] = First(j.op)]
          /\ left' = [left EXCEPT ![h] = IF j.op = "list" THEN 1 ELSE 0]
    BY <1>1 DEF Start
  <2>2. First(j.op) \in Places
    BY DEF First, Places
  <2>. QED BY <1>1, <1>a, <2>1, <2>2 DEF Start, locks
<1>2. CASE CheckFriends(h) \/ CheckPending(h)
  <2>1. HandlerTyped
    BY <1>2, MovesTyped DEF CheckFriends, CheckPending, Places
  <2>. QED BY <1>2, <1>a, <1>d, <2>1 DEF CheckFriends, CheckPending, locks
<1>3. CASE Write(h)
  <2>1. HandlerTyped
    BY <1>3, <1>a, MovesTyped DEF Write, PlaceFits, Places
  <2>2. Written(h) \in Tables
    BY <1>3, <1>b, <1>c DEF Write, Written
  <2>. QED BY <1>3, <1>a, <1>d, <2>1, <2>2 DEF Write
<1>4. CASE FindRequest(h)
  <2>1. HandlerTyped
    BY <1>4, MovesTyped DEF FindRequest, Places
  <2>. QED BY <1>4, <1>a, <1>d, <2>1 DEF FindRequest
<1>5. CASE RemoveRequest(h)
  <2>1. HandlerTyped
    BY <1>5, MovesTyped DEF RemoveRequest, Places
  <2>2. [stored EXCEPT !.requests = @ \ {Request(h)}] \in Tables
    BY <1>5, <1>a, <1>c DEF RemoveRequest
  <2>. QED BY <1>5, <1>a, <1>d, <2>1, <2>2 DEF RemoveRequest
<1>6. CASE LinkFriends(h)
  <2>1. HandlerTyped
    BY <1>6, MovesTyped DEF LinkFriends, Places
  <2>2. [draft EXCEPT !.friends = @ \cup Both(job[h].user, job[h].peer)] \in Tables
    BY <1>6, <1>a, <1>c DEF LinkFriends
  <2>. QED BY <1>6, <1>a, <1>d, <2>1, <2>2 DEF LinkFriends, Rollback, locks
<1>7. CASE FindUser(h) \/ AddRow(h)
  BY <1>7, <1>a DEF FindUser, AddRow, PlaceFits
<1>8. CASE Commit(h)
  <2>1. HandlerTyped
    BY <1>8, <1>a, MovesTyped DEF Commit, PlaceFits
  <2>. QED BY <1>8, <1>a, <1>d, <2>1 DEF Commit
<1>9. CASE AwaitReaders(h)
  BY <1>9, <1>a DEF AwaitReaders
<1>10. CASE OpenList(h) \/ CloseList(h) \/ ListTimesOut(h)
  <2>1. HandlerTyped
    BY <1>10, MovesTyped DEF OpenList, CloseList, ListTimesOut, Places
  <2>. QED BY <1>10, <1>a, <1>d, <2>1 DEF OpenList, CloseList, ListTimesOut, locks
<1>11. CASE CheckTimesOut(h) \/ StatementTimesOut(h)
  <2>1. HandlerTyped
    BY <1>11, MovesTyped DEF CheckTimesOut, StatementTimesOut, Places
  <2>. QED BY <1>11, <1>a, <1>d, <2>1 DEF CheckTimesOut, StatementTimesOut, locks
<1>12. CASE CommitTimesOut(h)
  <2>1. HandlerTyped
    BY <1>12, <1>a, MovesTyped DEF CommitTimesOut, PlaceFits
  <2>. QED BY <1>12, <1>a, <1>d, <2>1 DEF CommitTimesOut, Rollback, locks
<1>. QED
  BY <1>1, <1>2, <1>3, <1>4, <1>5, <1>6, <1>7, <1>8, <1>9, <1>10, <1>11, <1>12
  DEF Statement, TimesOut

-----------------------------------------------------------------------------
\* A finished handler has no lock and no job; one that goes on to its lists has only lists left.
LEMMA EndsFit ==
    ASSUME FriendsInv, NEW h \in Handlers, h \notin shared', writer' # h,
           \/ Fail(h)
           \/ Succeed(h) /\ pc[h] \in {"write", "commit"}
           \/ NextList(h) /\ pc[h] \in {"read", "reading"}
    PROVE  Fits(h)' /\ pc'[h] \in {"free", "read"}
<1> USE DEF FriendsInv, TypeOK, Fits, PlaceFits, LocksFit, DraftFits, Places
<1>1. CASE Fail(h)
  <2>1. pc'[h] = "free" /\ job'[h] = NoJob
    BY <1>1 DEF Fail
  <2>. QED BY <2>1
<1>2. CASE Succeed(h) /\ pc[h] \in {"write", "commit"}
  <2>1. PICK n \in Refreshes(job[h].op) :
          /\ left' = [left EXCEPT ![h] = n]
          /\ pc' = [pc EXCEPT ![h] = IF n = 0 THEN "free" ELSE "read"]
          /\ job' = [job EXCEPT ![h] = IF n = 0 THEN NoJob ELSE @]
    BY <1>2 DEF Succeed
  <2>2. n \in 0 .. 3
    BY DEF Refreshes
  <2>3. CASE n = 0
    <3>1. pc'[h] = "free" /\ job'[h] = NoJob
      BY <2>1, <2>3
    <3>. QED BY <3>1
  <2>4. CASE n # 0
    <3>1. pc'[h] = "read" /\ job'[h] = job[h] /\ left'[h] \in 1 .. 3
      BY <2>1, <2>2, <2>4
    <3>. QED BY <1>2, <3>1
  <2>. QED BY <2>3, <2>4
<1>3. CASE NextList(h) /\ pc[h] \in {"read", "reading"}
  <2>1. CASE left[h] = 1
    <3>1. pc'[h] = "free" /\ job'[h] = NoJob
      BY <1>3, <2>1 DEF NextList
    <3>. QED BY <3>1
  <2>2. CASE left[h] # 1
    <3>1. pc'[h] = "read" /\ job'[h] = job[h] /\ left'[h] \in 1 .. 3
      BY <1>3, <2>2 DEF NextList
    <3>. QED BY <1>3, <3>1
  <2>. QED BY <2>1, <2>2
<1>. QED BY <1>1, <1>2, <1>3

\* What a step must establish about its own handler.
Settled(h) ==
    /\ Fits(h)'
    /\ IdleFits'
    /\ pc'[h] \in {"remove", "link", "commit"} /\ job'[h].op = "accept"
          => Request(h)' \in stored'.requests

\* The handler that takes a step fits its new place.
LEMMA OwnHandlerFits ==
    ASSUME "add" \notin Ops, FriendsInv,
           NEW h \in Handlers, Start(h) \/ Statement(h) \/ TimesOut(h)
    PROVE  Settled(h)
<1> USE FriendsAssumption
<1>a. TypeOK /\ PlaceFits(h) /\ LocksFit(h) /\ DraftFits(h) /\ IdleFits
  BY DEF FriendsInv, Fits
<1>b. pc[h] \in {"remove", "link", "commit"} /\ job[h].op = "accept"
         => Request(h) \in stored.requests
  BY DEF FriendsInv, CheckedRequestStays
<1>c. ASSUME h \notin shared', writer' # h, IdleFits',
             \/ Fail(h)
             \/ Succeed(h) /\ pc[h] \in {"write", "commit"}
             \/ NextList(h) /\ pc[h] \in {"read", "reading"}
      PROVE  Settled(h)
  BY <1>c, EndsFit DEF Settled
<1>d. ASSUME NEW place \in Places, Goto(h, place)
      PROVE  pc'[h] = place /\ job'[h] = job[h] /\ left'[h] = left[h] /\ Request(h)' = Request(h)
  BY <1>a, <1>d DEF Goto, TypeOK, Request
<1> USE DEF Places
<1>1. CASE Start(h)
  <2>1. PICK j \in Jobs :
          /\ job' = [job EXCEPT ![h] = j]
          /\ pc' = [pc EXCEPT ![h] = First(j.op)]
          /\ left' = [left EXCEPT ![h] = IF j.op = "list" THEN 1 ELSE 0]
    BY <1>1 DEF Start
  <2>2. j.op \in ClientOps /\ j # NoJob
    <3>1. j.op \in Ops /\ j.op \in ClientOps
      BY DEF Jobs, ClientOps, AllOps, FriendsAssumption
    <3>2. NoJob.op = "none" /\ "none" \notin Ops
      BY DEF NoJob, AllOps, FriendsAssumption
    <3>. QED BY <3>1, <3>2
  <2>3. job'[h] = j /\ pc'[h] = First(j.op) /\ left'[h] = IF j.op = "list" THEN 1 ELSE 0
    BY <1>a, <2>1 DEF TypeOK
  <2>4. PlaceFits(h)' /\ pc'[h] \in {"checkFriends", "find", "read", "write"}
    BY <2>2, <2>3 DEF PlaceFits, First, ClientOps
  <2>5. UNCHANGED <<stored, draft, shared, writer, blocking>> /\ pc[h] = "free"
    BY <1>1 DEF Start, locks
  <2>. QED BY <1>a, <2>4, <2>5 DEF Settled, Fits, LocksFit, DraftFits, IdleFits
<1>2. CASE CheckFriends(h) \/ CheckPending(h) \/ CheckTimesOut(h)
  <2>1. UNCHANGED <<stored, draft, shared, writer, blocking>>
        /\ pc[h] \in {"checkFriends", "checkPending"}
    BY <1>2 DEF CheckFriends, CheckPending, CheckTimesOut, locks
  <2>2. CASE Fail(h)
    BY <1>a, <1>c, <2>1, <2>2 DEF LocksFit, IdleFits
  <2>3. CASE Goto(h, "checkPending") \/ Goto(h, "write")
    BY <1>a, <1>d, <2>1, <2>3 DEF Settled, Fits, PlaceFits, LocksFit, DraftFits, IdleFits
  <2>. QED BY <1>2, <2>2, <2>3 DEF CheckFriends, CheckPending, CheckTimesOut
<1>3. CASE Write(h)
  <2>1. pc[h] = "write" /\ writer # h /\ writer = Nobody /\ UNCHANGED <<stored, shared, blocking>>
    BY <1>3, <1>a DEF Write, CanWrite, LocksFit
  <2>2. CASE Fail(h) /\ UNCHANGED <<draft, writer>>
    BY <1>a, <1>c, <2>1, <2>2 DEF LocksFit, IdleFits
  <2>3. CASE draft' = Written(h) /\ writer' = h /\ Goto(h, "commit")
    <3>1. draft' = Outcome(h)
      BY <1>a, <2>1, <2>3 DEF Written, View, Outcome, Unrequested, PlaceFits
    <3>2. Outcome(h)' = Outcome(h)
      BY <1>d, <2>1, <2>3 DEF Outcome, Unrequested, Request
    <3>3. DraftFits(h)'
      BY <1>a, <1>d, <2>1, <2>3, <3>1, <3>2 DEF DraftFits, PlaceFits
    <3>. QED
      BY <1>a, <1>d, <2>1, <2>3, <3>3 DEF Settled, Fits, PlaceFits, LocksFit, IdleFits
  <2>. QED BY <1>3, <2>1, <2>2, <2>3 DEF Write
<1>4. CASE FindRequest(h)
  <2>1. pc[h] = "find" /\ writer # h /\ UNCHANGED <<stored, draft, writer, blocking>>
    BY <1>4, <1>a DEF FindRequest, LocksFit
  <2>2. CASE Fail(h) /\ UNCHANGED shared
    BY <1>a, <1>c, <2>1, <2>2 DEF LocksFit, IdleFits
  <2>3. CASE Request(h) \in View(h).requests /\ shared' = shared \cup {h} /\ Goto(h, "remove")
    BY <1>a, <1>d, <2>1, <2>3
    DEF Settled, Fits, PlaceFits, LocksFit, DraftFits, IdleFits, View
  <2>. QED BY <1>4, <2>2, <2>3 DEF FindRequest
<1>5. CASE RemoveRequest(h)
  <2>1. pc[h] = "remove" /\ writer # h /\ shared' = shared \ {h} /\ UNCHANGED <<stored, blocking>>
    BY <1>5, <1>a DEF RemoveRequest, LocksFit
  <2>2. CASE Fail(h) /\ UNCHANGED <<writer, draft>>
    BY <1>a, <1>c, <2>1, <2>2 DEF LocksFit, IdleFits
  <2>3. CASE /\ writer' = h
             /\ draft' = Unrequested(h)
             /\ Goto(h, "link")
    <3>1. Unrequested(h)' = Unrequested(h)
      BY <1>d, <2>1, <2>3 DEF Unrequested
    <3>. QED
      BY <1>a, <1>b, <1>d, <2>1, <2>3, <3>1
      DEF Settled, Fits, PlaceFits, LocksFit, DraftFits, IdleFits
  <2>. QED BY <1>5, <2>2, <2>3 DEF RemoveRequest, Unrequested
<1>6. CASE LinkFriends(h)
  <2>1. pc[h] = "link" /\ draft = Unrequested(h) /\ writer = h /\ h \notin shared
    BY <1>6, <1>a DEF LinkFriends, DraftFits, LocksFit
  <2>2. CASE Rollback(h) /\ Fail(h)
    BY <1>c, <2>1, <2>2 DEF Rollback, IdleFits
  <2>3. CASE /\ ~(job[h].user = job[h].peer
                  \/ Both(job[h].user, job[h].peer) \cap draft.friends # {})
             /\ draft' = [draft EXCEPT !.friends = @ \cup Both(job[h].user, job[h].peer)]
             /\ Goto(h, "commit")
             /\ UNCHANGED <<stored, locks>>
    <3>1. draft.friends = stored.friends
      BY <1>a, <2>1 DEF Unrequested, TypeOK, Tables
    <3>2. CanLink(h) /\ CanLink(h)' /\ job[h].op = "accept"
      BY <1>a, <1>d, <2>1, <2>3, <3>1 DEF CanLink, PlaceFits, locks
    <3>3. draft' = Outcome(h) /\ Outcome(h)' = Outcome(h)
      BY <1>d, <2>1, <2>3, <3>2 DEF Outcome, Unrequested, Request, locks
    <3>. QED
      BY <1>a, <1>b, <1>d, <2>1, <2>3, <3>2, <3>3
      DEF Settled, Fits, PlaceFits, LocksFit, DraftFits, IdleFits, locks
  <2>. QED BY <1>6, <2>2, <2>3 DEF LinkFriends
<1>7. CASE FindUser(h) \/ AddRow(h)
  BY <1>7, <1>a DEF FindUser, AddRow, PlaceFits
<1>8. CASE Commit(h)
  BY <1>8, <1>a, <1>c DEF Commit, LocksFit, IdleFits
<1>9. CASE AwaitReaders(h)
  <2>1. /\ UNCHANGED <<stored, draft, shared, writer, pc, job, left>> /\ writer = h
        /\ Request(h)' = Request(h) /\ Outcome(h)' = Outcome(h) /\ CanLink(h)' = CanLink(h)
    BY <1>9, <1>a DEF AwaitReaders, LocksFit, Request, Outcome, Unrequested, CanLink
  <2>. QED
    BY <1>9, <1>a, <1>b, <2>1
    DEF AwaitReaders, Settled, Fits, PlaceFits, LocksFit, DraftFits, IdleFits
<1>10. CASE OpenList(h)
  BY <1>10, <1>a, <1>d
  DEF OpenList, Settled, Fits, PlaceFits, LocksFit, DraftFits, IdleFits
<1>11. CASE CloseList(h) \/ ListTimesOut(h)
  BY <1>11, <1>a, <1>c DEF CloseList, ListTimesOut, LocksFit, IdleFits, locks
<1>12. CASE StatementTimesOut(h)
  BY <1>12, <1>a, <1>c DEF StatementTimesOut, LocksFit, IdleFits, locks
<1>13. CASE CommitTimesOut(h)
  <2>1. job[h].op # "add"
    BY <1>13, <1>a DEF CommitTimesOut, PlaceFits, ClientOps
  <2>2. Rollback(h) /\ Fail(h) /\ h \notin shared
    BY <1>13, <1>a, <2>1 DEF CommitTimesOut, LocksFit
  <2>. QED BY <1>c, <2>2 DEF Rollback, IdleFits
<1>. QED
  BY <1>1, <1>2, <1>3, <1>4, <1>5, <1>6, <1>7, <1>8, <1>9, <1>10, <1>11, <1>12, <1>13
  DEF Statement, TimesOut

-----------------------------------------------------------------------------
\* A committed effect keeps friendship mutual.
LEMMA MutualKept ==
    ASSUME "add" \notin Ops, FriendsInv,
           NEW h \in Handlers, Start(h) \/ Statement(h) \/ TimesOut(h)
    PROVE  Mutual(stored'.friends)
<1>a. TypeOK /\ PlaceFits(h) /\ LocksFit(h) /\ DraftFits(h) /\ Mutual(stored.friends)
  BY DEF FriendsInv, Fits, FriendshipIsMutual
<1>1. CASE stored' = stored
  BY <1>1, <1>a
<1>2. CASE stored' # stored
  <2>1. Commit(h)
    BY <1>2, <1>a DEF Start, Statement, TimesOut, CheckFriends, CheckPending, Write, FindRequest,
       RemoveRequest, LinkFriends, FindUser, AddRow, AwaitReaders, OpenList, CloseList, Rollback,
       CheckTimesOut, StatementTimesOut, ListTimesOut, CommitTimesOut, locks
  <2>2. stored' = Outcome(h) /\ pc[h] = "commit" /\ job[h] \in Jobs
    BY <1>a, <2>1 DEF Commit, DraftFits, PlaceFits, TypeOK
  <2>3. stored \in Tables /\ job[h].user \in Users /\ job[h].peer \in Users
    BY <1>a, <2>2 DEF TypeOK, Jobs
  <2>4. CASE job[h].op \in {"request", "refuse"}
    <3>1. stored'.friends = stored.friends
      BY <2>2, <2>3, <2>4 DEF Outcome, Unrequested, Tables
    <3>. QED BY <1>a, <3>1
  <2>5. CASE job[h].op = "unfriend"
    <3>1. stored'.friends = stored.friends \ Both(job[h].user, job[h].peer)
      BY <2>2, <2>3, <2>5 DEF Outcome, Tables
    <3>. QED BY <1>a, <3>1 DEF Mutual, Both
  <2>6. CASE job[h].op = "accept"
    <3>1. stored'.friends = stored.friends \cup Both(job[h].user, job[h].peer)
      BY <2>2, <2>3, <2>6 DEF Outcome, Unrequested, Tables
    <3>2. job[h].user # job[h].peer
      BY <1>a, <2>2, <2>6 DEF DraftFits, CanLink
    <3>. QED BY <1>a, <3>1, <3>2 DEF Mutual, Both
  <2>. QED BY <1>a, <2>2, <2>4, <2>5, <2>6 DEF PlaceFits, ClientOps
<1>. QED BY <1>1, <1>2

\* A step of a handler keeps the invariant, for it and for the others.
LEMMA StepKeepsInv ==
    ASSUME "add" \notin Ops, FriendsInv,
           NEW h \in Handlers, Start(h) \/ Statement(h) \/ TimesOut(h)
    PROVE  FriendsInv'
<1>1. TypeOK'
  BY StepKeepsType
<1>2. Settled(h)
  BY OwnHandlerFits
<1>3. FriendshipIsMutual'
  BY MutualKept DEF FriendshipIsMutual
<1>4. \A g \in Handlers : Fits(g)'
  BY <1>2, OthersStillFit DEF Settled
<1>5. CheckedRequestStays'
  BY <1>2, OthersStillFit DEF Settled, CheckedRequestStays, Request
<1>. QED BY <1>1, <1>2, <1>3, <1>4, <1>5 DEF FriendsInv, Settled

\* So does a step that changes nothing.
LEMMA StutterKeepsInv == FriendsInv /\ UNCHANGED vars => FriendsInv'
<1> SUFFICES ASSUME FriendsInv, UNCHANGED vars PROVE FriendsInv'
  OBVIOUS
<1> USE DEF vars
<1>1. TypeOK' /\ IdleFits' /\ FriendshipIsMutual'
  BY DEF FriendsInv, TypeOK, IdleFits, FriendshipIsMutual
<1>2. ASSUME NEW h \in Handlers PROVE Fits(h)'
  <2>1. Fits(h)
    BY DEF FriendsInv
  <2>2. Outcome(h)' = Outcome(h) /\ CanLink(h)' = CanLink(h) /\ Unrequested(h)' = Unrequested(h)
    BY DEF Outcome, CanLink, Unrequested, Request
  <2>. QED BY <2>1, <2>2 DEF Fits, PlaceFits, LocksFit, DraftFits
<1>3. CheckedRequestStays'
  BY DEF FriendsInv, CheckedRequestStays, Request
<1>. QED BY <1>1, <1>2, <1>3 DEF FriendsInv

\* Nobody has a lock or a place in the middle at the start.
LEMMA InitFits == Init => FriendsInv
<1>1. ASSUME Init PROVE FriendsInv
  <2> USE <1>1, FriendsAssumption DEF Init
  <2>1. TypeOK
    <3>1. stored \in Tables /\ draft \in Tables
      OBVIOUS
    <3>2. pc \in [Handlers -> Places] /\ left \in [Handlers -> 0 .. 3]
      BY DEF Places
    <3>3. job \in [Handlers -> Jobs \cup {NoJob}]
      OBVIOUS
    <3>. QED BY <3>1, <3>2, <3>3 DEF TypeOK
  <2>2. \A h \in Handlers : pc[h] = "free" /\ job[h] = NoJob
    OBVIOUS
  <2>3. \A h \in Handlers : Fits(h)
    BY <2>2 DEF Fits, PlaceFits, LocksFit, DraftFits, Places
  <2>. QED
    BY <2>1, <2>2, <2>3 DEF FriendsInv, IdleFits, CheckedRequestStays, FriendshipIsMutual
<1>. QED BY <1>1

-----------------------------------------------------------------------------
\* For the messages the client sends, the invariant holds in every state: the theorems below name
\* its parts (all of the handlers of friend requests in server.cpp).
THEOREM FriendsInvariant == ASSUME "add" \notin Ops PROVE Spec => []FriendsInv
<1>1. Init => FriendsInv
  BY InitFits
<1>2. FriendsInv /\ [Next]_vars => FriendsInv'
  BY StepKeepsInv, StutterKeepsInv DEF Next
<1>. QED BY <1>1, <1>2, PTL DEF Spec

\* Friendship is mutual and irreflexive in the committed tables, however many handlers work on them.
THEOREM FriendshipStaysMutual == ASSUME "add" \notin Ops PROVE Spec => []FriendshipIsMutual
<1>1. FriendsInv => FriendshipIsMutual
  BY DEF FriendsInv
<1>. QED BY <1>1, FriendsInvariant, PTL

\* The request that acceptFriendRequest has found is still there when it commits the friendship.
THEOREM AcceptedRequestStays == ASSUME "add" \notin Ops PROVE Spec => []CheckedRequestStays
<1>1. FriendsInv => CheckedRequestStays
  BY DEF FriendsInv
<1>. QED BY <1>1, FriendsInvariant, PTL

\* No handler of a client's message returns with a lock or an open transaction.
THEOREM LocksEndWithHandlers == ASSUME "add" \notin Ops PROVE Spec => []NoLockOutlivesItsHandler
<1>1. FriendsInv => NoLockOutlivesItsHandler
  BY DEF FriendsInv, Fits, LocksFit, NoLockOutlivesItsHandler
<1>. QED BY <1>1, FriendsInvariant, PTL

\* The handlers implement Friendship: the committed tables change by whole operations only.
THEOREM FriendsImplementsFriendship == ASSUME "add" \notin Ops PROVE Spec => ImplementsFriendship
<1>1. Init => Promised!FriendshipInit
  BY DEF Init, Tables, Mutual, Promised!FriendshipInit
<1>2. FriendsInv /\ [Next]_vars => [Promised!FriendshipNext]_(Promised!friendshipVars)
  <2> SUFFICES ASSUME FriendsInv, [Next]_vars, stored' # stored
               PROVE  Promised!FriendshipNext
    BY DEF Promised!friendshipVars
  <2>1. PICK h \in Handlers : Start(h) \/ Statement(h) \/ TimesOut(h)
    BY DEF Next, vars
  <2>a. TypeOK /\ PlaceFits(h) /\ DraftFits(h)
    BY DEF FriendsInv, Fits
  <2>2. Commit(h)
    BY <2>1, <2>a DEF Start, Statement, TimesOut, CheckFriends, CheckPending, Write, FindRequest,
       RemoveRequest, LinkFriends, FindUser, AddRow, AwaitReaders, OpenList, CloseList, Rollback,
       CheckTimesOut, StatementTimesOut, ListTimesOut, CommitTimesOut, locks
  <2>3. stored' = Outcome(h) /\ pc[h] = "commit" /\ job[h] \in Jobs
    BY <2>a, <2>2 DEF Commit, DraftFits, PlaceFits, TypeOK
  <2>4. stored \in Tables /\ job[h].user \in Users /\ job[h].peer \in Users
    BY <2>a, <2>3 DEF TypeOK, Jobs
  <2> DEFINE u == job[h].user
             v == job[h].peer
  <2>5. CASE job[h].op = "request"
    <3>1. Promised!Ask(u, v)
      BY <2>3, <2>4, <2>5 DEF Outcome, Tables, Promised!Ask
    <3>. QED BY <2>4, <3>1 DEF Promised!FriendshipNext
  <2>6. CASE job[h].op = "unfriend"
    <3>1. Promised!Unfriend(u, v)
      BY <2>3, <2>4, <2>6 DEF Outcome, Tables, Both, Promised!Unfriend, Promised!Both
    <3>. QED BY <2>4, <3>1 DEF Promised!FriendshipNext
  <2>7. CASE job[h].op = "refuse"
    <3>1. Promised!Refuse(u, v)
      BY <2>3, <2>4, <2>7 DEF Outcome, Unrequested, Request, Tables, Promised!Refuse
    <3>. QED BY <2>4, <3>1 DEF Promised!FriendshipNext
  <2>8. CASE job[h].op = "accept"
    <3>1. CanLink(h) /\ Request(h) \in stored.requests
      BY <2>a, <2>3, <2>8 DEF DraftFits, FriendsInv, CheckedRequestStays
    <3>2. Promised!Accept(u, v)
      BY <2>3, <2>4, <2>8, <3>1
      DEF Outcome, Unrequested, CanLink, Request, Tables, Both, Promised!Accept, Promised!Both
    <3>. QED BY <2>4, <3>2 DEF Promised!FriendshipNext
  <2>. QED BY <2>a, <2>3, <2>5, <2>6, <2>7, <2>8 DEF PlaceFits, ClientOps
<1>. QED
  BY <1>1, <1>2, FriendsInvariant, PTL DEF Spec, ImplementsFriendship, Promised!FriendshipSpec
-----------------------------------------------------------------------------
\* A handler that refuses an accept does so at one of five statements.  The request was not there,
\* or the friendship was, or another connection has the lock that the statement needs.
Conflict(h) ==
    \/ writer \notin {Nobody, h} \/ shared \ {h} # {}
    \/ Both(job[h].user, job[h].peer) \cap stored.friends # {}

\* Whoever refuses a request that stays committed has met such a conflict.
LEMMA RefusalMeetsConflict ==
    ASSUME FriendsInv, [Next]_vars, NEW h \in Handlers, FalseRefusal(h)
    PROVE  Conflict(h)
<1> USE FriendsAssumption
<1>a. TypeOK /\ PlaceFits(h) /\ LocksFit(h) /\ DraftFits(h) /\ IdleFits
  BY DEF FriendsInv, Fits
<1>b. /\ job[h].op = "accept" /\ job[h].user # job[h].peer /\ left'[h] = 0
      /\ pc[h] \in {"find", "remove", "link", "commit"} /\ pc'[h] = "free"
      /\ Request(h) \in stored'.requests
  BY DEF FalseRefusal
<1>1. Start(h) \/ Statement(h) \/ TimesOut(h)
  <2>1. PICK g \in Handlers : Start(g) \/ Statement(g) \/ TimesOut(g)
    BY <1>b DEF Next, vars
  <2>. QED BY <1>a, <1>b, <2>1, OthersStand
<1>2. CASE pc[h] = "find"
  <2>1. FindRequest(h) \/ StatementTimesOut(h)
    BY <1>1, <1>2 DEF Start, Statement, TimesOut, CheckFriends, CheckPending, Write, FindRequest,
       RemoveRequest, LinkFriends, FindUser, AddRow, Commit, AwaitReaders, OpenList, CloseList,
       CheckTimesOut, ListTimesOut, CommitTimesOut
  <2>2. writer # h
    BY <1>a, <1>2 DEF LocksFit
  <2>3. CASE FindRequest(h)
    <3>1. stored' = stored /\ View(h) = stored
      BY <2>2, <2>3 DEF FindRequest, View
    <3>2. pc'[h] = "remove"
      BY <1>a, <1>b, <2>2, <2>3, <3>1 DEF FindRequest, Goto, TypeOK
    <3>. QED BY <1>b, <3>2
  <2>4. CASE StatementTimesOut(h)
    BY <1>a, <1>2, <2>2, <2>4 DEF StatementTimesOut, CanRead, IdleFits, Conflict
  <2>. QED BY <2>1, <2>3, <2>4
<1>3. CASE pc[h] = "remove"
  <2>1. RemoveRequest(h) /\ writer # h
    BY <1>1, <1>3, <1>a DEF Start, Statement, TimesOut, CheckFriends, CheckPending, Write, FindRequest,
       LinkFriends, FindUser, AddRow, Commit, AwaitReaders, OpenList, CloseList, LocksFit,
       CheckTimesOut, StatementTimesOut, ListTimesOut, CommitTimesOut
  <2>2. writer # Nobody
    BY <1>a, <1>b, <2>1 DEF RemoveRequest, Goto, TypeOK
  <2>. QED BY <2>1, <2>2 DEF Conflict
<1>4. CASE pc[h] = "link"
  <2>1. LinkFriends(h)
    BY <1>1, <1>4 DEF Start, Statement, TimesOut, CheckFriends, CheckPending, Write, FindRequest,
       RemoveRequest, FindUser, AddRow, Commit, AwaitReaders, OpenList, CloseList,
       CheckTimesOut, StatementTimesOut, ListTimesOut, CommitTimesOut
  <2>2. draft.friends = stored.friends
    BY <1>a, <1>4 DEF DraftFits, Unrequested, TypeOK, Tables
  <2>3. Both(job[h].user, job[h].peer) \cap draft.friends # {}
    BY <1>a, <1>b, <2>1 DEF LinkFriends, Goto, TypeOK
  <2>. QED BY <2>2, <2>3 DEF Conflict
<1>5. CASE pc[h] = "commit"
  <2>1. Commit(h) \/ AwaitReaders(h) \/ CommitTimesOut(h)
    BY <1>1, <1>5 DEF Start, Statement, TimesOut, CheckFriends, CheckPending, Write, FindRequest,
       RemoveRequest, LinkFriends, FindUser, AddRow, OpenList, CloseList,
       CheckTimesOut, StatementTimesOut, ListTimesOut
  <2>2. ~Commit(h)
    BY <1>a, <1>b DEF Commit, Succeed, Refreshes, TypeOK
  <2>3. ~AwaitReaders(h)
    BY <1>b, <1>5 DEF AwaitReaders
  <2>4. shared # {} /\ h \notin shared
    BY <1>a, <1>5, <2>1, <2>2, <2>3 DEF CommitTimesOut, LocksFit
  <2>. QED BY <2>4 DEF Conflict
<1>. QED BY <1>b, <1>2, <1>3, <1>4, <1>5

\* An accept is refused while its request is there only beside another connection that reads or
\* writes, or for a friendship that exists already.
THEOREM RefusalsHaveAConflict == ASSUME "add" \notin Ops PROVE Spec => RefusalNeedsConflict
<1> DEFINE Explained == \A h \in Handlers : FalseRefusal(h) =>
          \/ writer \notin {Nobody, h} \/ shared \ {h} # {}
          \/ Both(job[h].user, job[h].peer) \cap stored.friends # {}
<1>1. FriendsInv /\ [Next]_vars => Explained
  BY RefusalMeetsConflict DEF Conflict
<1>2. RefusalNeedsConflict <=> [][Explained]_vars
  BY DEF RefusalNeedsConflict
<1> HIDE DEF Explained
<1>3. FriendsInv /\ [Next]_vars => [Explained]_vars
  BY <1>1
<1>. QED BY <1>2, <1>3, FriendsInvariant, PTL DEF Spec
=============================================================================
