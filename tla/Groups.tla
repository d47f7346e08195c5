------------------------------- MODULE Groups -------------------------------
(***************************************************************************)
(* Group chats (src/ChatServer/src/server.cpp): createGroup, a transaction *)
(* that tells each member while it is open; GroupChat, an INSERT after     *)
(* which the members are read and told; and the list of groups from which  *)
(* a client takes the group it writes to.  The requests of several users   *)
(* are served by several workers, each with its own connection to SQLite.  *)
(*                                                                         *)
(* An event that is posted to a user's socket is in the user's inbox; the  *)
(* main thread writes it later, in the order of the posts.                 *)
(***************************************************************************)
EXTENDS Naturals, Sequences, FiniteSets

CONSTANTS
    Users,
    Workers,        \* threads of the pool
    MaxRequests,    \* bound: how many groups are asked for and messages sent
    None            \* no worker

ASSUME GroupsAssumption ==
    /\ None \notin Workers
    /\ MaxRequests \in Nat

VARIABLES
    groups,     \* the members of each committed group, by id
    stored,     \* table group_messages: [group, from]
    writer,     \* the worker whose transaction has written (SQLite has one writer)
    draft,      \* the members its transaction has inserted
    pc,         \* the next step of each worker's handler
    job,        \* the request it serves: [op, user, members] or [op, user, group, message]
    told,       \* createGroup: members still to insert; GroupChat: members to tell
    inbox,      \* the messages posted to each user, as rows of the table
    noticed,    \* the events of notifyGroupCreation that were posted: [user, group]
    requests    \* number of requests sent

vars == <<groups, stored, writer, draft, pc, job, told, inbox, noticed, requests>>
database == <<groups, stored, writer, draft>>

NoJob == [op |-> "none"]

\* The database outlives the server: one group may be there already.
Init ==
    /\ groups \in {<< >>} \cup {<<members>> : members \in {m \in SUBSET Users : Cardinality(m) > 1}}
    /\ stored = << >>
    /\ writer = None /\ draft = {}
    /\ pc = [w \in Workers |-> "free"]
    /\ job = [w \in Workers |-> NoJob]
    /\ told = [w \in Workers |-> {}]
    /\ inbox = [u \in Users |-> << >>]
    /\ noticed = {}
    /\ requests = 0

Goto(w, at) == pc' = [pc EXCEPT ![w] = at]
Free(w) == pc[w] = "free"

\* AUTOINCREMENT: the id of a group that is rolled back is given again.
NextId == Len(groups) + 1

\* Under m_clientsMutex, a message is posted to those of these users who are online.  Users log in
\* and out at any moment: it is any part of them.
Post(us, message) == \E online \in SUBSET us :
    inbox' = [u \in Users |-> IF u \in online THEN Append(inbox[u], message) ELSE inbox[u]]

(***************************************************************************)
(* The users and their clients.                                            *)
(***************************************************************************)
Begin(w, request, at) ==
    /\ Free(w)
    /\ requests < MaxRequests
    /\ requests' = requests + 1
    /\ job' = [job EXCEPT ![w] = request]
    /\ Goto(w, at)
    /\ UNCHANGED <<database, told, inbox, noticed>>

CreateGroup(w, u, members) ==
    /\ members # {} /\ u \notin members
    /\ Begin(w, [op |-> "create", user |-> u, members |-> members], "group")

\* A client writes to a group of its list, and nobody leaves a group.  But the list outlives a
\* logout, so that the next user of the same client writes to groups of the last one, and GroupChat
\* does not look who is a member.
sendGroupMessage(w, u, g) ==
    Begin(w, [op |-> "say", user |-> u, group |-> g, message |-> 0], "insert")

(***************************************************************************)
(* createGroup.                                                            *)
(***************************************************************************)

\* BEGIN takes no lock; the first INSERT waits for another transaction that has written.
InsertGroup(w) ==
    /\ pc[w] = "group" /\ writer = None
    /\ writer' = w
    /\ draft' = {}
    /\ Goto(w, "creator")
    /\ UNCHANGED <<groups, stored, job, told, inbox, noticed, requests>>

InsertCreator(w) ==
    /\ pc[w] = "creator"
    /\ draft' = {job[w].user}
    /\ told' = [told EXCEPT ![w] = job[w].members]
    /\ Goto(w, "member")
    /\ UNCHANGED <<groups, stored, writer, job, inbox, noticed, requests>>

\* Mutant: all members are told before the first of them is inserted.
InsertMemberTellingAll(w) ==
    /\ pc[w] = "member"
    /\ \E m \in told[w] :
        /\ draft' = draft \cup {m}
        /\ told' = [told EXCEPT ![w] = @ \ {m}]
        /\ \E online \in SUBSET told[w] :
              noticed' = noticed \cup {[user |-> u, group |-> NextId] : u \in online}
    /\ UNCHANGED <<groups, stored, writer, pc, job, inbox, requests>>

\* One turn of the loop: the INSERT and notifyGroupCreation.
InsertMember(w) ==
    /\ pc[w] = "member"
    /\ \E m \in told[w] :
        /\ draft' = draft \cup {m}
        /\ told' = [told EXCEPT ![w] = @ \ {m}]
        /\ \E online \in SUBSET {m} :
              noticed' = noticed \cup {[user |-> u, group |-> NextId] : u \in online}
    /\ UNCHANGED <<groups, stored, writer, pc, job, inbox, requests>>

Commit(w) ==
    /\ pc[w] = "member" /\ told[w] = {}
    /\ groups' = Append(groups, draft)
    /\ writer' = None /\ draft' = {}
    /\ Goto(w, "success")
    /\ UNCHANGED <<stored, job, told, inbox, noticed, requests>>

\* Mutant: a member who cannot be inserted is passed over.
CreationFailsPassingOver(w) ==
    /\ pc[w] = "member"
    /\ \E m \in told[w] : told' = [told EXCEPT ![w] = @ \ {m}]
    /\ UNCHANGED <<database, pc, job, inbox, noticed, requests>>

\* Mutant: no rollback, as after the early return of addFriend.
CreationFailsWithoutRollback(w) ==
    /\ pc[w] \in {"group", "creator", "member"}
    /\ told' = [told EXCEPT ![w] = {}]
    /\ Goto(w, "failed")
    /\ UNCHANGED <<database, job, inbox, noticed, requests>>

\* A statement or the commit fails, or waits too long: rollback.
CreationFails(w) ==
    /\ pc[w] \in {"group", "creator", "member"}
    /\ writer' = IF writer = w THEN None ELSE writer
    /\ draft' = IF writer = w THEN {} ELSE draft
    /\ told' = [told EXCEPT ![w] = {}]
    /\ Goto(w, "failed")
    /\ UNCHANGED <<groups, stored, job, inbox, noticed, requests>>

(***************************************************************************)
(* GroupChat and notifyGroupMessage.                                       *)
(***************************************************************************)
InsertMessage(w) ==
    /\ pc[w] = "insert" /\ writer = None
    /\ stored' = Append(stored, [group |-> job[w].group, from |-> job[w].user])
    /\ job' = [job EXCEPT ![w].message = Len(stored) + 1]
    /\ Goto(w, "members")
    /\ UNCHANGED <<groups, writer, draft, told, inbox, noticed, requests>>

InsertFails(w) ==
    /\ pc[w] = "insert"
    /\ Goto(w, "failed")
    /\ UNCHANGED <<database, job, told, inbox, noticed, requests>>

\* Mutant: everybody online is told.
getGroupMembersOfAll(w) ==
    /\ pc[w] = "members"
    /\ told' = [told EXCEPT ![w] = Users \ {job[w].user}]
    /\ Goto(w, "tell")
    /\ UNCHANGED <<database, job, inbox, noticed, requests>>

getGroupMembers(w) ==
    /\ pc[w] = "members"
    /\ told' = [told EXCEPT ![w] = groups[job[w].group] \ {job[w].user}]
    /\ Goto(w, "tell")
    /\ UNCHANGED <<database, job, inbox, noticed, requests>>

\* The SELECT fails: nobody is told, and the sender is not told of it either.
MembersFail(w) ==
    /\ pc[w] = "members"
    /\ Goto(w, "tell")
    /\ UNCHANGED <<database, job, told, inbox, noticed, requests>>

\* Mutant: m_clientsMutex is taken for each member by itself.
TellOneByOne(w) ==
    /\ pc[w] = "tell"
    /\ \E u \in told[w] :
        /\ Post({u}, job[w].message)
        /\ told' = [told EXCEPT ![w] = @ \ {u}]
    /\ Goto(w, IF Cardinality(told[w]) = 1 THEN "success" ELSE "tell")
    /\ UNCHANGED <<database, job, noticed, requests>>

Tell(w) ==
    /\ pc[w] = "tell"
    /\ Post(told[w], job[w].message)
    /\ told' = [told EXCEPT ![w] = {}]
    /\ Goto(w, "success")
    /\ UNCHANGED <<database, job, noticed, requests>>

\* The answer to the sender: "success" or "failed".
Answer(w) ==
    /\ pc[w] \in {"success", "failed"}
    /\ Goto(w, "free")
    /\ job' = [job EXCEPT ![w] = NoJob]
    /\ UNCHANGED <<database, told, inbox, noticed, requests>>

WorkerStep(w) ==
    \/ InsertGroup(w) \/ InsertCreator(w) \/ InsertMember(w) \/ Commit(w)
    \/ InsertMessage(w) \/ getGroupMembers(w) \/ Tell(w) \/ Answer(w)

Next ==
    \/ \E w \in Workers, u \in Users :
        \/ \E members \in SUBSET Users : CreateGroup(w, u, members)
        \/ \E g \in DOMAIN groups : sendGroupMessage(w, u, g)
    \/ \E w \in Workers :
        WorkerStep(w) \/ CreationFails(w) \/ InsertFails(w) \/ MembersFail(w)

Spec == Init /\ [][Next]_vars

\* A worker whose statement can run runs it; no statement has to fail.
FairSpec == Spec /\ \A w \in Workers : WF_vars(WorkerStep(w))

(***************************************************************************)
(* Properties.                                                             *)
(***************************************************************************)
Jobs ==
    [op : {"create"}, user : Users, members : SUBSET Users]
    \cup [op : {"say"}, user : Users, group : Nat, message : Nat]

\* The type invariant.
TypeOK ==
    /\ groups \in Seq(SUBSET Users)
    /\ stored \in Seq([group : Nat, from : Users])
    /\ writer \in Workers \cup {None}
    /\ draft \in SUBSET Users
    /\ pc \in [Workers -> {"free", "group", "creator", "member", "insert", "members", "tell",
                           "success", "failed"}]
    /\ job \in [Workers -> Jobs \cup {NoJob}]
    /\ told \in [Workers -> SUBSET Users]
    /\ inbox \in [Users -> Seq(Nat)]
    /\ noticed \in SUBSET [user : Users, group : Nat]
    /\ requests \in 0 .. MaxRequests

\* Groups come into being whole and messages are accepted at once, whatever the statements of
\* several workers do in between, and the answer "success" or "failed" is the truth.
Outcome(w) ==
    CASE pc[w] = "failed" -> "failed"
      [] pc[w] \in {"members", "tell", "success"} -> "success"
      [] OTHER -> "open"

Request(w) ==
    IF Free(w) THEN NoJob
    ELSE IF job[w].op = "create"
    THEN [op |-> "create", user |-> job[w].user, members |-> job[w].members, outcome |-> Outcome(w)]
    ELSE [op |-> "say", user |-> job[w].user, group |-> job[w].group, outcome |-> Outcome(w)]

Service == INSTANCE GroupService WITH request <- [w \in Workers |-> Request(w)]

ImplementsGroupService == Service!Spec

\* notifyGroupMessage holds m_clientsMutex over its loop: any two members who get two messages
\* see them in one order, though it need not be that of the table.
SameOrder == \A u, v \in Users : \A i, j \in DOMAIN inbox[u], k, l \in DOMAIN inbox[v] :
    inbox[u][i] = inbox[v][k] /\ inbox[u][j] = inbox[v][l] => (i < j <=> k < l)

\* A message is shown to the members of its group, except its sender, and once; and it is in the
\* table: whoever opens the group later finds it.
HearsOwnGroups == \A u \in Users : \A i \in DOMAIN inbox[u] :
    /\ inbox[u][i] \in DOMAIN stored
    /\ LET m == stored[inbox[u][i]] IN
          m.group \in DOMAIN groups /\ u \in groups[m.group] /\ u # m.from
    /\ \A j \in DOMAIN inbox[u] : inbox[u][i] = inbox[u][j] => i = j

\* Who is told to be in a group (notifyGroupCreation, inside the transaction) is in it from then
\* on, unless the creation fails and is rolled back: then the notice is false, until the id is
\* given to another group.
IsMember(n) ==
    \/ n.group \in DOMAIN groups /\ n.user \in groups[n.group]
    \/ n.group = NextId /\ writer # None /\ n.user \in draft
NoticesAreTrue == [][\A n \in noticed' :
    (n \in noticed => IsMember(n)) /\ ~IsMember(n)' => \E w \in Workers : CreationFails(w)]_vars

\* Every request is answered: the transactions of other workers end, whatever fails in them.
EveryRequestIsAnswered == \A w \in Workers : ~Free(w) ~> Free(w)
===============================================================================
