------------------------------ MODULE Friends ------------------------------
(***************************************************************************)
(* Friend requests and friendships: the handlers of src/ChatServer/src/    *)
(* server.cpp that work on the tables friends and friend_requests, run by  *)
(* the pool's workers at the same time.  Every worker has a connection of  *)
(* its own to one SQLite file (getThreadLocalDatabase), which sets no      *)
(* PRAGMA: a rollback journal, one writer, a busy timeout.                 *)
(*                                                                         *)
(* A step is one SQL statement, as far as it can run without waiting for   *)
(* another connection.  A SELECT that found a row keeps its read lock      *)
(* until its query is prepared again, and to the end of the transaction    *)
(* when one was begun meanwhile.  A write statement becomes the writer,    *)
(* and a commit waits until nobody reads, keeping new readers out.         *)
(***************************************************************************)
EXTENDS Naturals

CONSTANTS
    Users,      \* nicknames
    Handlers,   \* workers, each with its connection
    Ops,        \* the message types handled
    Nobody      \* not a handler

AllOps == {"request", "accept", "unfriend", "refuse", "list", "add"}

ASSUME FriendsAssumption ==
    /\ Nobody \notin Handlers
    /\ Ops \subseteq AllOps

VARIABLES
    stored,     \* the committed tables
    draft,      \* the tables as the writer sees them
    shared,     \* connections with a read lock that are not the writer
    writer,     \* the connection that may write, or Nobody
    blocking,   \* the writer keeps new readers out to commit
    pc,         \* the next statement of each handler
    job,        \* the message it handles
    left        \* lists it still has to read and push

vars == <<stored, draft, shared, writer, blocking, pc, job, left>>
locks == <<shared, writer, blocking>>

Both(u, v) == {<<u, v>>, <<v, u>>}
Tables == [friends : SUBSET (Users \X Users), requests : SUBSET (Users \X Users)]
Jobs == [op : Ops, user : Users, peer : Users]
NoJob == [op |-> "none"]

Mutual(rows) == \A u, v \in Users : <<u, v>> \in rows => u # v /\ <<v, u>> \in rows

\* The file outlives the server: it starts with any tables earlier runs have left.
Init ==
    /\ stored \in {t \in Tables : Mutual(t.friends)}
    /\ draft = stored
    /\ shared = {}
    /\ writer = Nobody
    /\ blocking = FALSE
    /\ pc = [h \in Handlers |-> "free"]
    /\ job = [h \in Handlers |-> NoJob]
    /\ left = [h \in Handlers |-> 0]

View(h) == IF writer = h THEN draft ELSE stored
CanRead(h) == writer = h \/ ~blocking
CanWrite(h) == writer = h \/ (writer = Nobody /\ ~blocking)
Request(h) == <<job[h].peer, job[h].user>>   \* the request that job[h].user answers

\* How many lists a handler pushes after it has replied with success: an accepted request
\* refreshes two of the accepter's, and one of the sender's if the sender is logged in.
Refreshes(op) == CASE op = "accept" -> {2, 3}
                   [] op \in {"refuse", "list"} -> {1}
                   [] OTHER -> {0}

\* The handler replies with "failed" and returns.
Fail(h) ==
    /\ pc' = [pc EXCEPT ![h] = "free"]
    /\ job' = [job EXCEPT ![h] = NoJob]
    /\ UNCHANGED left

\* The handler replies with "success" and goes on to push lists, if there are any.
Succeed(h) ==
    \E n \in Refreshes(job[h].op) :
        /\ left' = [left EXCEPT ![h] = n]
        /\ pc' = [pc EXCEPT ![h] = IF n = 0 THEN "free" ELSE "read"]
        /\ job' = [job EXCEPT ![h] = IF n = 0 THEN NoJob ELSE @]

Goto(h, place) ==
    /\ pc' = [pc EXCEPT ![h] = place]
    /\ UNCHANGED <<job, left>>

Rollback(h) ==
    /\ draft' = stored
    /\ writer' = Nobody
    /\ blocking' = FALSE
    /\ UNCHANGED <<stored, shared>>

\* A list has been pushed; after the last one the handler returns.
NextList(h) ==
    /\ left' = [left EXCEPT ![h] = @ - 1]
    /\ pc' = [pc EXCEPT ![h] = IF left[h] = 1 THEN "free" ELSE "read"]
    /\ job' = [job EXCEPT ![h] = IF left[h] = 1 THEN NoJob ELSE @]

-----------------------------------------------------------------------------
(* processClientData: a logged-in user's message reaches a worker.         *)

First(op) == CASE op = "request" -> "checkFriends"
               [] op = "accept" -> "find"
               [] op = "list" -> "read"
               [] op = "add" -> "findUser"
               [] OTHER -> "write"

Start(h) ==
    /\ pc[h] = "free"
    /\ \E j \in Jobs :
          /\ job' = [job EXCEPT ![h] = j]
          /\ pc' = [pc EXCEPT ![h] = First(j.op)]
          /\ left' = [left EXCEPT ![h] = IF j.op = "list" THEN 1 ELSE 0]
    /\ UNCHANGED <<stored, draft, locks>>

-----------------------------------------------------------------------------
(* sendFriendRequest: two checks, then an INSERT that commits by itself.   *)

CheckFriends(h) ==
    /\ pc[h] = "checkFriends"
    /\ CanRead(h)
    /\ IF Both(job[h].user, job[h].peer) \cap View(h).friends # {}
       THEN Fail(h)
       ELSE Goto(h, "checkPending")
    /\ UNCHANGED <<stored, draft, locks>>

CheckPending(h) ==
    /\ pc[h] = "checkPending"
    /\ CanRead(h)
    /\ IF <<job[h].user, job[h].peer>> \in View(h).requests
       THEN Fail(h)
       ELSE Goto(h, "write")
    /\ UNCHANGED <<stored, draft, locks>>

\* Mutant: a friendship is deleted in one direction.
WrittenOneWay(h) ==
    CASE job[h].op = "request" ->
            [View(h) EXCEPT !.requests = @ \cup {<<job[h].user, job[h].peer>>}]
      [] job[h].op = "unfriend" ->
            [View(h) EXCEPT !.friends = @ \ {<<job[h].user, job[h].peer>>}]
      [] OTHER ->
            [View(h) EXCEPT !.requests = @ \ {Request(h)}]

\* The rows after the one write statement of sendFriendRequest, deleteFriend, deleteFriendRequest.
Written(h) ==
    CASE job[h].op = "request" ->
            [View(h) EXCEPT !.requests = @ \cup {<<job[h].user, job[h].peer>>}]
      [] job[h].op = "unfriend" ->
            [View(h) EXCEPT !.friends = @ \ Both(job[h].user, job[h].peer)]
      [] OTHER ->
            [View(h) EXCEPT !.requests = @ \ {Request(h)}]

Duplicate(h) == job[h].op = "request" /\ <<job[h].user, job[h].peer>> \in View(h).requests

\* A write outside a transaction becomes the writer, and commits next.  On a connection whose
\* transaction is still open it only joins that transaction.
Write(h) ==
    /\ pc[h] = "write"
    /\ CanWrite(h)
    /\ \/ /\ Duplicate(h)
          /\ Fail(h)
          /\ UNCHANGED <<draft, writer>>
       \/ /\ ~Duplicate(h)
          /\ draft' = Written(h)
          /\ writer' = h
          /\ IF writer = h THEN Succeed(h) ELSE Goto(h, "commit")
    /\ UNCHANGED <<stored, shared, blocking>>

\* COMMIT, explicit or at the end of a lone statement; without changed rows it waits for nobody.
Commit(h) ==
    /\ pc[h] = "commit"
    /\ shared = {} \/ draft = stored
    /\ stored' = draft
    /\ writer' = Nobody
    /\ blocking' = FALSE
    /\ Succeed(h)
    /\ UNCHANGED <<draft, shared>>

AwaitReaders(h) ==
    /\ pc[h] = "commit"
    /\ shared # {}
    /\ draft # stored
    /\ ~blocking
    /\ blocking' = TRUE
    /\ UNCHANGED <<stored, draft, shared, writer, pc, job, left>>

-----------------------------------------------------------------------------
(* acceptFriendRequest.                                                    *)

\* Mutant: the query is finished before the transaction begins, and its read lock with it.
FindRequestUnlocked(h) ==
    /\ pc[h] = "find"
    /\ CanRead(h)
    /\ IF Request(h) \in View(h).requests /\ writer # h THEN Goto(h, "remove") ELSE Fail(h)
    /\ UNCHANGED <<stored, draft, locks>>

\* Mutant: the request is looked up in the wrong direction.
FindRequestReversed(h) ==
    /\ pc[h] = "find"
    /\ CanRead(h)
    /\ IF <<job[h].user, job[h].peer>> \in View(h).requests /\ writer # h
       THEN shared' = shared \cup {h} /\ Goto(h, "remove")
       ELSE Fail(h) /\ UNCHANGED shared
    /\ UNCHANGED <<stored, draft, writer, blocking>>

\* The SELECT for the request.  BEGIN fails on a connection whose transaction is still open.
FindRequest(h) ==
    /\ pc[h] = "find"
    /\ CanRead(h)
    /\ IF Request(h) \in View(h).requests /\ writer # h
       THEN shared' = shared \cup {h} /\ Goto(h, "remove")
       ELSE Fail(h) /\ UNCHANGED shared
    /\ UNCHANGED <<stored, draft, writer, blocking>>

\* Mutant: the accepted request is not deleted.
RemoveRequestKeepingIt(h) ==
    /\ pc[h] = "remove"
    /\ shared' = shared \ {h}
    /\ IF writer = Nobody
       THEN writer' = h /\ Goto(h, "link")
       ELSE Fail(h) /\ UNCHANGED writer
    /\ UNCHANGED <<stored, draft, blocking>>

\* Mutant: a reader waits for the writer to finish.
RemoveRequestWaiting(h) ==
    /\ pc[h] = "remove"
    /\ writer = Nobody
    /\ shared' = shared \ {h}
    /\ writer' = h
    /\ draft' = [stored EXCEPT !.requests = @ \ {Request(h)}]
    /\ Goto(h, "link")
    /\ UNCHANGED <<stored, blocking>>

\* The DELETE.  A reader that finds another writer fails at once: waiting could be for ever.
RemoveRequest(h) ==
    /\ pc[h] = "remove"
    /\ shared' = shared \ {h}
    /\ IF writer = Nobody
       THEN /\ writer' = h
            /\ draft' = [stored EXCEPT !.requests = @ \ {Request(h)}]
            /\ Goto(h, "link")
       ELSE Fail(h) /\ UNCHANGED <<writer, draft>>
    /\ UNCHANGED <<stored, blocking>>

\* Mutant: a failed INSERT returns without a rollback.
LinkFriendsWithoutRollback(h) ==
    LET rows == Both(job[h].user, job[h].peer) IN
    /\ pc[h] = "link"
    /\ IF job[h].user = job[h].peer \/ rows \cap draft.friends # {}
       THEN Fail(h) /\ UNCHANGED draft
       ELSE draft' = [draft EXCEPT !.friends = @ \cup rows] /\ Goto(h, "commit")
    /\ UNCHANGED <<stored, locks>>

\* The INSERT of both rows, which breaks the primary key if one of them exists.
LinkFriends(h) ==
    LET rows == Both(job[h].user, job[h].peer) IN
    /\ pc[h] = "link"
    /\ IF job[h].user = job[h].peer \/ rows \cap draft.friends # {}
       THEN Rollback(h) /\ Fail(h)
       ELSE /\ draft' = [draft EXCEPT !.friends = @ \cup rows]
            /\ Goto(h, "commit")
            /\ UNCHANGED <<stored, locks>>

-----------------------------------------------------------------------------
(* addFriend, a message type the server handles and its client never sends. *)

\* The SELECT for the friend's account; the name in the message may have none.
FindUser(h) ==
    /\ pc[h] = "findUser"
    /\ CanRead(h)
    /\ \/ Fail(h) /\ UNCHANGED shared
       \/ /\ shared' = IF writer = h THEN shared ELSE shared \cup {h}
          /\ Goto(h, "addRow")
    /\ UNCHANGED <<stored, draft, writer, blocking>>

\* BEGIN, whose failure is ignored, then INSERT OR IGNORE of one row and the two counters.
AddRow(h) ==
    /\ pc[h] = "addRow"
    /\ shared' = shared \ {h}
    /\ IF writer \in {Nobody, h}
       THEN /\ writer' = h
            /\ draft' = [View(h) EXCEPT !.friends = @ \cup {<<job[h].user, job[h].peer>>}]
            /\ Goto(h, "commit")
       ELSE Fail(h) /\ UNCHANGED <<writer, draft>>
    /\ UNCHANGED <<stored, blocking>>

-----------------------------------------------------------------------------
(* getFriendList, getFriendRequests: one SELECT, read to its end.           *)

OpenList(h) ==
    /\ pc[h] = "read"
    /\ CanRead(h)
    /\ shared' = IF writer = h THEN shared ELSE shared \cup {h}
    /\ Goto(h, "reading")
    /\ UNCHANGED <<stored, draft, writer, blocking>>

CloseList(h) ==
    /\ pc[h] = "reading"
    /\ shared' = shared \ {h}
    /\ NextList(h)
    /\ UNCHANGED <<stored, draft, writer, blocking>>

-----------------------------------------------------------------------------
(* The busy timeout: a statement that has waited long enough fails.         *)

\* A failed check counts as a check that found nothing.
CheckTimesOut(h) ==
    /\ pc[h] \in {"checkFriends", "checkPending"}
    /\ ~CanRead(h)
    /\ Goto(h, IF pc[h] = "checkFriends" THEN "checkPending" ELSE "write")
    /\ UNCHANGED <<stored, draft, locks>>

StatementTimesOut(h) ==
    /\ \/ pc[h] \in {"find", "findUser"} /\ ~CanRead(h)
       \/ pc[h] = "write" /\ ~CanWrite(h)
    /\ Fail(h)
    /\ UNCHANGED <<stored, draft, locks>>

\* Mutant: a list that could not be read is tried again.
ListRetries(h) ==
    /\ pc[h] = "read"
    /\ ~CanRead(h)
    /\ UNCHANGED vars

\* The list is pushed empty.
ListTimesOut(h) ==
    /\ pc[h] = "read"
    /\ ~CanRead(h)
    /\ NextList(h)
    /\ UNCHANGED <<stored, draft, locks>>

\* A lone statement and acceptFriendRequest roll back; addFriend ignores what commit() returns
\* and leaves the transaction, and its locks, to whatever its thread does next.
CommitTimesOut(h) ==
    /\ pc[h] = "commit"
    /\ shared # {}
    /\ blocking
    /\ IF job[h].op = "add"
       THEN Succeed(h) /\ UNCHANGED <<stored, draft, locks>>
       ELSE Rollback(h) /\ Fail(h)

-----------------------------------------------------------------------------
Statement(h) ==
    \/ CheckFriends(h) \/ CheckPending(h) \/ Write(h)
    \/ FindRequest(h) \/ RemoveRequest(h) \/ LinkFriends(h)
    \/ FindUser(h) \/ AddRow(h)
    \/ Commit(h) \/ AwaitReaders(h)
    \/ OpenList(h) \/ CloseList(h)

TimesOut(h) ==
    CheckTimesOut(h) \/ StatementTimesOut(h) \/ ListTimesOut(h) \/ CommitTimesOut(h)

Next == \E h \in Handlers : Start(h) \/ Statement(h) \/ TimesOut(h)

Spec == Init /\ [][Next]_vars

\* A worker that can take a step takes it; no timeout is needed for anything.
Fairness == \A h \in Handlers : WF_vars(Statement(h))
FairSpec == Spec /\ Fairness

\* The same from empty tables.
FreshInit == Init /\ stored = [friends |-> {}, requests |-> {}]
FreshSpec == FreshInit /\ [][Next]_vars /\ Fairness

\* With addFriend a transaction can stay open, and others go on only because they time out.
TimeoutSpec == FreshSpec /\ \A h \in Handlers : WF_vars(TimesOut(h))

-----------------------------------------------------------------------------
(* Properties.                                                             *)

Places == {"free", "checkFriends", "checkPending", "write", "commit", "find", "remove", "link",
           "findUser", "addRow", "read", "reading"}

\* Every variable has its type.
TypeOK ==
    /\ stored \in Tables
    /\ draft \in Tables
    /\ shared \subseteq Handlers
    /\ writer \in Handlers \cup {Nobody}
    /\ blocking \in BOOLEAN
    /\ pc \in [Handlers -> Places]
    /\ job \in [Handlers -> Jobs \cup {NoJob}]
    /\ left \in [Handlers -> 0 .. 3]

\* Friendship is mutual and not with oneself, whatever the requests that run at the same time:
\* each reader of friends looks at one direction only (getFriendList, getChatHistory).
FriendshipIsMutual == Mutual(stored.friends)

\* What acceptFriendRequest has checked stays true until it acts on it: the request found by its
\* SELECT is still committed when its transaction deletes it, so that nobody becomes the friend
\* of somebody whose request was refused meanwhile.
CheckedRequestStays ==
    \A h \in Handlers :
        job[h].op = "accept" /\ pc[h] \in {"remove", "link", "commit"}
            => Request(h) \in stored.requests

\* Every operation ends with its transaction over (addFriend "commits or rolls back depending on
\* the result", server.cpp:1699), and no early return keeps a lock: between two messages a
\* connection neither reads nor writes.
NoLockOutlivesItsHandler ==
    \A h \in Handlers : pc[h] = "free" => h \notin shared /\ writer # h

\* The committed tables, seen from outside, go through whole operations only.
Promised == INSTANCE Friendship WITH friends <- stored.friends, requests <- stored.requests
ImplementsFriendship == Promised!FriendshipSpec

\* Connections that wait for one another's locks never do so in a circle: unless messages keep
\* coming, every handler returns.  (Nothing orders those that wait, so under load one can lose
\* every race for the lock until its timeout.)
MessagesKeepComing == []<><<\E h \in Handlers : Start(h)>>_vars
EveryHandlerReturns ==
    MessagesKeepComing \/ \A h \in Handlers : (pc[h] # "free") ~> (pc[h] = "free")

\* The reply to an accept that fails says "Request not found or already processed"
\* (server.cpp:616).  It is wrong sometimes (FalseRefusal), since the read lock of the first
\* SELECT makes the DELETE fail at once beside any writer; but only while another connection
\* reads or writes, or if the request crossed a friendship.
FalseRefusal(h) ==
    /\ job[h].op = "accept" /\ job[h].user # job[h].peer
    /\ pc[h] \in {"find", "remove", "link", "commit"} /\ pc'[h] = "free"
    /\ left'[h] = 0 /\ Request(h) \in stored'.requests
RefusalNeedsConflict ==
    [][\A h \in Handlers : FalseRefusal(h) =>
          \/ writer \notin {Nobody, h} \/ shared \ {h} # {}
          \/ Both(job[h].user, job[h].peer) \cap stored.friends # {}]_vars
=============================================================================
