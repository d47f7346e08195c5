----------------------------- MODULE GroupsProofs -----------------------------
(***************************************************************************)
(* For any users, any number of workers and of requests: the statements of *)
(* the handlers, and the notices they post in between, keep what           *)
(* GroupService promises, and a message is posted to members of its group. *)
(***************************************************************************)
EXTENDS Groups, TLAPS

CreateJob == [op : {"create"}, user : Users, members : SUBSET Users]
SayJob == [op : {"say"}, user : Users, group : Nat, message : Nat]

Creating(w) == pc[w] \in {"creator", "member"}
Saying(w) == pc[w] \in {"insert", "members", "tell"}
Said(w) == pc[w] \in {"members", "tell"}

\* The one worker whose transaction has written is behind its first INSERT and before its end.
WriterFits == \A w \in Workers : writer = w <=> Creating(w)

\* The handler that is at a step serves a request of its kind, a message for a group that exists.
JobFits == \A w \in Workers :
    /\ Free(w) => job[w] = NoJob
    /\ pc[w] \in {"success", "failed"} => job[w] \in Jobs
    /\ pc[w] = "group" \/ Creating(w) => job[w] \in CreateJob
    /\ Saying(w) => /\ job[w] \in SayJob
                    /\ job[w].group \in DOMAIN groups

\* What the transaction has inserted and what it still has to insert make up the group.
DraftFits == \A w \in Workers :
    /\ pc[w] = "creator" => draft = {}
    /\ pc[w] = "member" => draft \cup told[w] = job[w].members \cup {job[w].user}

\* A handler at another step has nobody left to tell.
ToldFits == \A w \in Workers :
    /\ told[w] # {} => pc[w] \in {"member", "tell"}
    /\ pc[w] = "tell" => told[w] \subseteq groups[job[w].group] \ {job[w].user}

\* The message that is being posted is the handler's own, is in the table, and is new to all.
MessageFits == \A w \in Workers : Said(w) =>
    /\ job[w].message \in DOMAIN stored
    /\ stored[job[w].message] = [group |-> job[w].group, from |-> job[w].user]
    /\ \A u \in Users : \A i \in DOMAIN inbox[u] : inbox[u][i] # job[w].message
    /\ \A v \in Workers : Said(v) /\ v # w => job[v].message # job[w].message

GroupsInv ==
    /\ TypeOK /\ WriterFits /\ JobFits /\ DraftFits /\ ToldFits /\ MessageFits
    /\ HearsOwnGroups

-----------------------------------------------------------------------------
\* What InsertMessage changes: the handler learns the number of its row, the last one.
LEMMA Inserted ==
    ASSUME TypeOK, JobFits, NEW w \in Workers, InsertMessage(w)
    PROVE  /\ job'[w] = [job[w] EXCEPT !.message = Len(stored) + 1]
           /\ job[w] \in SayJob /\ job'[w] \in SayJob
           /\ job'[w].message = Len(stored) + 1
           /\ job'[w].group = job[w].group /\ job'[w].user = job[w].user
           /\ \A v \in Workers : v # w => job'[v] = job[v]
           /\ job' \in [Workers -> Jobs \cup {NoJob}]
           /\ stored' \in Seq([group : Nat, from : Users])
           /\ DOMAIN stored' = DOMAIN stored \cup {Len(stored) + 1}
           /\ Len(stored) + 1 \notin DOMAIN stored
           /\ \A i \in DOMAIN stored : stored'[i] = stored[i]
           /\ stored'[Len(stored) + 1] = [group |-> job[w].group, from |-> job[w].user]
  <1> USE DEF InsertMessage, TypeOK
  <1>1. job[w] \in SayJob
    BY DEF JobFits, Saying
  <1>2. job'[w] = [job[w] EXCEPT !.message = Len(stored) + 1] /\ Len(stored) \in Nat
    OBVIOUS
  <1>3. /\ job'[w] \in SayJob
        /\ job'[w].message = Len(stored) + 1
        /\ job'[w].group = job[w].group /\ job'[w].user = job[w].user
    <2>1. ASSUME NEW r \in SayJob, NEW n \in Nat, NEW s, s = [r EXCEPT !.message = n]
          PROVE  s \in SayJob /\ s.message = n /\ s.group = r.group /\ s.user = r.user
      BY <2>1 DEF SayJob
    <2>2. Len(stored) + 1 \in Nat
      BY <1>2
    <2> HIDE DEF TypeOK, InsertMessage
    <2> QED
      BY <1>1, <1>2, <2>1, <2>2
  <1>4. \A v \in Workers : v # w => job'[v] = job[v]
    OBVIOUS
  <1>5. job' \in [Workers -> Jobs \cup {NoJob}]
    BY <1>3, <1>4 DEF SayJob, Jobs
  <1>6. [group |-> job[w].group, from |-> job[w].user] \in [group : Nat, from : Users]
    BY <1>1 DEF SayJob
  <1> QED
    BY <1>1, <1>2, <1>3, <1>4, <1>5, <1>6, SMTT(40)

\* What Tell changes: some of those to tell get the message behind what they had.
LEMMA Posted ==
    ASSUME TypeOK, NEW w \in Workers, Tell(w), job[w].message \in Nat
    PROVE  /\ inbox' \in [Users -> Seq(Nat)]
           /\ \A u \in Users : \A i \in DOMAIN inbox'[u] :
                 \/ i \in DOMAIN inbox[u] /\ inbox'[u][i] = inbox[u][i]
                 \/ /\ i = Len(inbox[u]) + 1 /\ i \notin DOMAIN inbox[u]
                    /\ u \in told[w] /\ inbox'[u][i] = job[w].message
  <1> USE DEF TypeOK
  <1>1. PICK online \in SUBSET told[w] :
          inbox' = [u \in Users |-> IF u \in online THEN Append(inbox[u], job[w].message)
                                    ELSE inbox[u]]
    BY DEF Tell, Post
  <1>2. inbox' \in [Users -> Seq(Nat)]
    BY <1>1
  <1>3. ASSUME NEW u \in Users, NEW i \in DOMAIN inbox'[u]
        PROVE  \/ i \in DOMAIN inbox[u] /\ inbox'[u][i] = inbox[u][i]
               \/ /\ i = Len(inbox[u]) + 1 /\ i \notin DOMAIN inbox[u]
                  /\ u \in told[w] /\ inbox'[u][i] = job[w].message
    <2>1. CASE u \notin online
      BY <1>1, <1>3, <2>1
    <2>2. CASE u \in online
      <3>1. inbox'[u] = Append(inbox[u], job[w].message) /\ inbox[u] \in Seq(Nat)
        BY <1>1, <2>2
      <3> QED
        BY <3>1, <2>2
    <2> QED
      BY <2>1, <2>2
  <1> QED
    BY <1>2, <1>3

\* Every step keeps the types.
LEMMA TypesKept ==
    ASSUME GroupsInv, [Next]_vars
    PROVE  TypeOK'
  <1> USE GroupsAssumption DEF GroupsInv, TypeOK, JobFits, Jobs, CreateJob, SayJob, Saying, Creating
  <1>1. ASSUME NEW w \in Workers, NEW u \in Users,
            NEW members \in SUBSET Users, CreateGroup(w, u, members)
      PROVE TypeOK'
    BY <1>1 DEF CreateGroup, Begin, Free, Goto, database
  <1>2. ASSUME NEW w \in Workers, NEW u \in Users, NEW g \in DOMAIN groups,
            sendGroupMessage(w, u, g)
      PROVE TypeOK'
    BY <1>2 DEF sendGroupMessage, Begin, Free, Goto, database
  <1>3. ASSUME NEW w \in Workers, InsertGroup(w)
      PROVE TypeOK'
    BY <1>3 DEF InsertGroup, Goto
  <1>4. ASSUME NEW w \in Workers, InsertCreator(w)
      PROVE TypeOK'
    BY <1>4 DEF InsertCreator, Goto
  <1>5. ASSUME NEW w \in Workers, InsertMember(w)
      PROVE TypeOK'
    BY <1>5, SMTT(40) DEF InsertMember, NextId, database
  <1>6. ASSUME NEW w \in Workers, Commit(w)
      PROVE TypeOK'
    BY <1>6 DEF Commit, Goto
  <1>7. ASSUME NEW w \in Workers, CreationFails(w)
      PROVE TypeOK'
    BY <1>7 DEF CreationFails, Goto
  <1>8. ASSUME NEW w \in Workers, InsertMessage(w)
      PROVE TypeOK'
    BY <1>8, Inserted DEF InsertMessage, Goto
  <1>9. ASSUME NEW w \in Workers, InsertFails(w)
      PROVE TypeOK'
    BY <1>9 DEF InsertFails, Goto, database
  <1>10. ASSUME NEW w \in Workers, getGroupMembers(w)
      PROVE TypeOK'
    BY <1>10 DEF getGroupMembers, Goto, database
  <1>11. ASSUME NEW w \in Workers, MembersFail(w)
      PROVE TypeOK'
    BY <1>11 DEF MembersFail, Goto, database
  <1>12. ASSUME NEW w \in Workers, Tell(w)
      PROVE TypeOK'
    BY <1>12 DEF Tell, Post, Goto, database
  <1>13. ASSUME NEW w \in Workers, Answer(w)
      PROVE TypeOK'
    BY <1>13 DEF Answer, Goto, database
  <1>14. CASE UNCHANGED vars
    BY <1>14 DEF vars
  <1> QED
    BY <1>1, <1>2, <1>3, <1>4, <1>5, <1>6, <1>7, <1>8, <1>9,
       <1>10, <1>11, <1>12, <1>13, <1>14
    DEF Next, WorkerStep

\* Every step keeps the one writer.
LEMMA WriterKept ==
    ASSUME GroupsInv, [Next]_vars
    PROVE  WriterFits'
  <1> USE GroupsAssumption DEF GroupsInv, TypeOK, WriterFits, Creating
  <1>1. ASSUME NEW w \in Workers, NEW u \in Users,
            NEW members \in SUBSET Users, CreateGroup(w, u, members)
      PROVE WriterFits'
    BY <1>1 DEF CreateGroup, Begin, Free, Goto, database
  <1>2. ASSUME NEW w \in Workers, NEW u \in Users, NEW g \in DOMAIN groups,
            sendGroupMessage(w, u, g)
      PROVE WriterFits'
    BY <1>2 DEF sendGroupMessage, Begin, Free, Goto, database
  <1>3. ASSUME NEW w \in Workers, InsertGroup(w)
      PROVE WriterFits'
    BY <1>3 DEF InsertGroup, Goto
  <1>4. ASSUME NEW w \in Workers, InsertCreator(w)
      PROVE WriterFits'
    BY <1>4 DEF InsertCreator, Goto
  <1>5. ASSUME NEW w \in Workers, InsertMember(w)
      PROVE WriterFits'
    BY <1>5 DEF InsertMember, NextId, database
  <1>6. ASSUME NEW w \in Workers, Commit(w)
      PROVE WriterFits'
    BY <1>6 DEF Commit, Goto
  <1>7. ASSUME NEW w \in Workers, CreationFails(w)
      PROVE WriterFits'
    BY <1>7 DEF CreationFails, Goto
  <1>8. ASSUME NEW w \in Workers, InsertMessage(w)
      PROVE WriterFits'
    BY <1>8 DEF InsertMessage, Goto
  <1>9. ASSUME NEW w \in Workers, InsertFails(w)
      PROVE WriterFits'
    BY <1>9 DEF InsertFails, Goto, database
  <1>10. ASSUME NEW w \in Workers, getGroupMembers(w)
      PROVE WriterFits'
    BY <1>10 DEF getGroupMembers, Goto, database
  <1>11. ASSUME NEW w \in Workers, MembersFail(w)
      PROVE WriterFits'
    BY <1>11 DEF MembersFail, Goto, database
  <1>12. ASSUME NEW w \in Workers, Tell(w)
      PROVE WriterFits'
    BY <1>12 DEF Tell, Post, Goto, database
  <1>13. ASSUME NEW w \in Workers, Answer(w)
      PROVE WriterFits'
    BY <1>13 DEF Answer, Goto, database
  <1>14. CASE UNCHANGED vars
    BY <1>14 DEF vars
  <1> QED
    BY <1>1, <1>2, <1>3, <1>4, <1>5, <1>6, <1>7, <1>8, <1>9,
       <1>10, <1>11, <1>12, <1>13, <1>14
    DEF Next, WorkerStep

\* Every step keeps the requests in their places: groups only grow.
LEMMA JobsKept ==
    ASSUME GroupsInv, [Next]_vars
    PROVE  JobFits'
  <1> USE GroupsAssumption DEF GroupsInv, TypeOK, JobFits, Jobs, CreateJob, SayJob, Free, Creating, Saying
  <1>1. ASSUME NEW w \in Workers, NEW u \in Users,
            NEW members \in SUBSET Users, CreateGroup(w, u, members)
      PROVE JobFits'
    BY <1>1 DEF CreateGroup, Begin, Free, Goto, database
  <1>2. ASSUME NEW w \in Workers, NEW u \in Users, NEW g \in DOMAIN groups,
            sendGroupMessage(w, u, g)
      PROVE JobFits'
    BY <1>2 DEF sendGroupMessage, Begin, Free, Goto, database
  <1>3. ASSUME NEW w \in Workers, InsertGroup(w)
      PROVE JobFits'
    BY <1>3 DEF InsertGroup, Goto
  <1>4. ASSUME NEW w \in Workers, InsertCreator(w)
      PROVE JobFits'
    BY <1>4 DEF InsertCreator, Goto
  <1>5. ASSUME NEW w \in Workers, InsertMember(w)
      PROVE JobFits'
    BY <1>5 DEF InsertMember, NextId, database
  <1>6. ASSUME NEW w \in Workers, Commit(w)
      PROVE JobFits'
    BY <1>6 DEF Commit, Goto
  <1>7. ASSUME NEW w \in Workers, CreationFails(w)
      PROVE JobFits'
    BY <1>7 DEF CreationFails, Goto
  <1>8. ASSUME NEW w \in Workers, InsertMessage(w)
      PROVE JobFits'
    <2>1. \A v \in Workers : v # w => job'[v] = job[v] /\ pc'[v] = pc[v]
      BY <1>8, Inserted DEF InsertMessage, Goto
    <2>2. pc'[w] = "members" /\ groups' = groups
      BY <1>8 DEF InsertMessage, Goto
    <2>3. /\ job'[w] \in SayJob
          /\ job'[w].group = job[w].group /\ job'[w].user = job[w].user
      BY <1>8, Inserted
    <2>4. pc[w] = "insert"
      BY <1>8 DEF InsertMessage
    <2> QED
      BY <2>1, <2>2, <2>3, <2>4, ZenonT(40)
  <1>9. ASSUME NEW w \in Workers, InsertFails(w)
      PROVE JobFits'
    BY <1>9 DEF InsertFails, Goto, database
  <1>10. ASSUME NEW w \in Workers, getGroupMembers(w)
      PROVE JobFits'
    BY <1>10 DEF getGroupMembers, Goto, database
  <1>11. ASSUME NEW w \in Workers, MembersFail(w)
      PROVE JobFits'
    BY <1>11 DEF MembersFail, Goto, database
  <1>12. ASSUME NEW w \in Workers, Tell(w)
      PROVE JobFits'
    BY <1>12 DEF Tell, Post, Goto, database
  <1>13. ASSUME NEW w \in Workers, Answer(w)
      PROVE JobFits'
    BY <1>13 DEF Answer, Goto, database
  <1>14. CASE UNCHANGED vars
    BY <1>14 DEF vars
  <1> QED
    BY <1>1, <1>2, <1>3, <1>4, <1>5, <1>6, <1>7, <1>8, <1>9,
       <1>10, <1>11, <1>12, <1>13, <1>14
    DEF Next, WorkerStep

\* Every step keeps the transaction on its way to the group that was asked for.
LEMMA DraftKept ==
    ASSUME GroupsInv, [Next]_vars
    PROVE  DraftFits'
  <1> USE GroupsAssumption DEF GroupsInv, TypeOK, WriterFits, JobFits, CreateJob, Creating, DraftFits
  <1>1. ASSUME NEW w \in Workers, NEW u \in Users,
            NEW members \in SUBSET Users, CreateGroup(w, u, members)
      PROVE DraftFits'
    BY <1>1 DEF CreateGroup, Begin, Free, Goto, database
  <1>2. ASSUME NEW w \in Workers, NEW u \in Users, NEW g \in DOMAIN groups,
            sendGroupMessage(w, u, g)
      PROVE DraftFits'
    BY <1>2 DEF sendGroupMessage, Begin, Free, Goto, database
  <1>3. ASSUME NEW w \in Workers, InsertGroup(w)
      PROVE DraftFits'
    BY <1>3 DEF InsertGroup, Goto
  <1>4. ASSUME NEW w \in Workers, InsertCreator(w)
      PROVE DraftFits'
    BY <1>4 DEF InsertCreator, Goto
  <1>5. ASSUME NEW w \in Workers, InsertMember(w)
      PROVE DraftFits'
    BY <1>5 DEF InsertMember, NextId, database
  <1>6. ASSUME NEW w \in Workers, Commit(w)
      PROVE DraftFits'
    BY <1>6 DEF Commit, Goto
  <1>7. ASSUME NEW w \in Workers, CreationFails(w)
      PROVE DraftFits'
    BY <1>7 DEF CreationFails, Goto
  <1>8. ASSUME NEW w \in Workers, InsertMessage(w)
      PROVE DraftFits'
    BY <1>8 DEF InsertMessage, Goto
  <1>9. ASSUME NEW w \in Workers, InsertFails(w)
      PROVE DraftFits'
    BY <1>9 DEF InsertFails, Goto, database
  <1>10. ASSUME NEW w \in Workers, getGroupMembers(w)
      PROVE DraftFits'
    BY <1>10 DEF getGroupMembers, Goto, database
  <1>11. ASSUME NEW w \in Workers, MembersFail(w)
      PROVE DraftFits'
    BY <1>11 DEF MembersFail, Goto, database
  <1>12. ASSUME NEW w \in Workers, Tell(w)
      PROVE DraftFits'
    BY <1>12 DEF Tell, Post, Goto, database
  <1>13. ASSUME NEW w \in Workers, Answer(w)
      PROVE DraftFits'
    BY <1>13 DEF Answer, Goto, database
  <1>14. CASE UNCHANGED vars
    BY <1>14 DEF vars
  <1> QED
    BY <1>1, <1>2, <1>3, <1>4, <1>5, <1>6, <1>7, <1>8, <1>9,
       <1>10, <1>11, <1>12, <1>13, <1>14
    DEF Next, WorkerStep

\* Every step keeps those to tell within the group.
LEMMA ToldKept ==
    ASSUME GroupsInv, [Next]_vars
    PROVE  ToldFits'
  <1> USE GroupsAssumption DEF GroupsInv, TypeOK, JobFits, CreateJob, SayJob, Creating, Saying, ToldFits
  <1>1. ASSUME NEW w \in Workers, NEW u \in Users,
            NEW members \in SUBSET Users, CreateGroup(w, u, members)
      PROVE ToldFits'
    BY <1>1 DEF CreateGroup, Begin, Free, Goto, database
  <1>2. ASSUME NEW w \in Workers, NEW u \in Users, NEW g \in DOMAIN groups,
            sendGroupMessage(w, u, g)
      PROVE ToldFits'
    BY <1>2 DEF sendGroupMessage, Begin, Free, Goto, database
  <1>3. ASSUME NEW w \in Workers, InsertGroup(w)
      PROVE ToldFits'
    BY <1>3 DEF InsertGroup, Goto
  <1>4. ASSUME NEW w \in Workers, InsertCreator(w)
      PROVE ToldFits'
    BY <1>4 DEF InsertCreator, Goto
  <1>5. ASSUME NEW w \in Workers, InsertMember(w)
      PROVE ToldFits'
    BY <1>5 DEF InsertMember, NextId, database
  <1>6. ASSUME NEW w \in Workers, Commit(w)
      PROVE ToldFits'
    BY <1>6 DEF Commit, Goto
  <1>7. ASSUME NEW w \in Workers, CreationFails(w)
      PROVE ToldFits'
    BY <1>7 DEF CreationFails, Goto
  <1>8. ASSUME NEW w \in Workers, InsertMessage(w)
      PROVE ToldFits'
    BY <1>8 DEF InsertMessage, Goto
  <1>9. ASSUME NEW w \in Workers, InsertFails(w)
      PROVE ToldFits'
    BY <1>9 DEF InsertFails, Goto, database
  <1>10. ASSUME NEW w \in Workers, getGroupMembers(w)
      PROVE ToldFits'
    BY <1>10 DEF getGroupMembers, Goto, database
  <1>11. ASSUME NEW w \in Workers, MembersFail(w)
      PROVE ToldFits'
    BY <1>11 DEF MembersFail, Goto, database
  <1>12. ASSUME NEW w \in Workers, Tell(w)
      PROVE ToldFits'
    BY <1>12 DEF Tell, Post, Goto, database
  <1>13. ASSUME NEW w \in Workers, Answer(w)
      PROVE ToldFits'
    BY <1>13 DEF Answer, Goto, database
  <1>14. CASE UNCHANGED vars
    BY <1>14 DEF vars
  <1> QED
    BY <1>1, <1>2, <1>3, <1>4, <1>5, <1>6, <1>7, <1>8, <1>9,
       <1>10, <1>11, <1>12, <1>13, <1>14
    DEF Next, WorkerStep

\* Every step keeps each message the handler's own until it is posted, at once, to all.
LEMMA MessagesKept ==
    ASSUME GroupsInv, [Next]_vars
    PROVE  MessageFits'
  <1> USE GroupsAssumption DEF GroupsInv, TypeOK, JobFits, SayJob, Saying, Said, MessageFits, HearsOwnGroups
  <1>1. ASSUME NEW w \in Workers, NEW u \in Users,
            NEW members \in SUBSET Users, CreateGroup(w, u, members)
      PROVE MessageFits'
    BY <1>1 DEF CreateGroup, Begin, Free, Goto, database
  <1>2. ASSUME NEW w \in Workers, NEW u \in Users, NEW g \in DOMAIN groups,
            sendGroupMessage(w, u, g)
      PROVE MessageFits'
    BY <1>2 DEF sendGroupMessage, Begin, Free, Goto, database
  <1>3. ASSUME NEW w \in Workers, InsertGroup(w)
      PROVE MessageFits'
    BY <1>3 DEF InsertGroup, Goto
  <1>4. ASSUME NEW w \in Workers, InsertCreator(w)
      PROVE MessageFits'
    BY <1>4 DEF InsertCreator, Goto
  <1>5. ASSUME NEW w \in Workers, InsertMember(w)
      PROVE MessageFits'
    BY <1>5 DEF InsertMember, NextId, database
  <1>6. ASSUME NEW w \in Workers, Commit(w)
      PROVE MessageFits'
    BY <1>6 DEF Commit, Goto
  <1>7. ASSUME NEW w \in Workers, CreationFails(w)
      PROVE MessageFits'
    BY <1>7 DEF CreationFails, Goto
  <1>8. ASSUME NEW w \in Workers, InsertMessage(w)
      PROVE MessageFits'
    <2>1. \A v \in Workers : v # w => job'[v] = job[v] /\ pc'[v] = pc[v]
      BY <1>8, Inserted DEF InsertMessage, Goto
    <2>2. pc'[w] = "members" /\ inbox' = inbox
      BY <1>8 DEF InsertMessage, Goto
    <2>0. job'[w].message = Len(stored) + 1 /\ Len(stored) + 1 \notin DOMAIN stored
      BY <1>8, Inserted
    <2>3. \A u \in Users : \A i \in DOMAIN inbox[u] : inbox[u][i] # job'[w].message
      BY <2>0
    <2>4. ASSUME NEW v \in Workers, Said(v) PROVE job[v].message # job'[w].message
      <3>1. job[v].message \in DOMAIN stored
        BY <2>4 DEF MessageFits
      <3> HIDE DEF Said
      <3> QED
        BY <2>0, <3>1
    <2>7. \A i \in DOMAIN stored : i \in DOMAIN stored' /\ stored'[i] = stored[i]
      BY <1>8, Inserted
    <2>8. /\ job'[w].message \in DOMAIN stored'
          /\ stored'[job'[w].message] = [group |-> job'[w].group, from |-> job'[w].user]
      BY <1>8, Inserted
    <2>5. ASSUME NEW v \in Workers, Said(v)', v # w
          PROVE  /\ job'[v].message \in DOMAIN stored'
                 /\ stored'[job'[v].message] = [group |-> job'[v].group, from |-> job'[v].user]
                 /\ \A u \in Users : \A i \in DOMAIN inbox'[u] : inbox'[u][i] # job'[v].message
                 /\ \A x \in Workers : Said(x)' /\ x # v => job'[x].message # job'[v].message
      <3>1. Said(v) /\ job'[v] = job[v]
        BY <2>1, <2>5
      <3>2. /\ job[v].message \in DOMAIN stored
            /\ stored[job[v].message] = [group |-> job[v].group, from |-> job[v].user]
            /\ \A u \in Users : \A i \in DOMAIN inbox[u] : inbox[u][i] # job[v].message
            /\ \A x \in Workers : Said(x) /\ x # v => job[x].message # job[v].message
        BY <3>1
      <3>3. \A x \in Workers : x # w => job'[x] = job[x] /\ (Said(x)' <=> Said(x))
        BY <2>1
      <3> HIDE DEF Said, HearsOwnGroups, MessageFits, TypeOK, JobFits
      <3> QED
        BY <2>2, <2>4, <2>5, <2>7, <3>1, <3>2, <3>3
    <2>6. /\ job'[w].message \in DOMAIN stored'
          /\ stored'[job'[w].message] = [group |-> job'[w].group, from |-> job'[w].user]
          /\ \A u \in Users : \A i \in DOMAIN inbox'[u] : inbox'[u][i] # job'[w].message
          /\ \A x \in Workers : Said(x)' /\ x # w => job'[x].message # job'[w].message
      BY <2>1, <2>2, <2>3, <2>4, <2>8
    <2> QED
      BY <2>5, <2>6
  <1>9. ASSUME NEW w \in Workers, InsertFails(w)
      PROVE MessageFits'
    BY <1>9 DEF InsertFails, Goto, database
  <1>10. ASSUME NEW w \in Workers, getGroupMembers(w)
      PROVE MessageFits'
    BY <1>10 DEF getGroupMembers, Goto, database
  <1>11. ASSUME NEW w \in Workers, MembersFail(w)
      PROVE MessageFits'
    BY <1>11 DEF MembersFail, Goto, database
  <1>12. ASSUME NEW w \in Workers, Tell(w)
      PROVE MessageFits'
    <2>1. Said(w) /\ job[w].message \in Nat
      BY <1>12 DEF Tell
    <2>2. \A v \in Workers : Said(v)' => Said(v) /\ v # w
      BY <1>12 DEF Tell, Goto
    <2>3. stored' = stored /\ job' = job
      BY <1>12 DEF Tell, database
    <2>4. \A u \in Users : \A i \in DOMAIN inbox'[u] :
            \/ inbox'[u][i] = job[w].message
            \/ i \in DOMAIN inbox[u] /\ inbox'[u][i] = inbox[u][i]
      BY <1>12, <2>1, Posted
    <2> QED
      BY <2>1, <2>2, <2>3, <2>4
  <1>13. ASSUME NEW w \in Workers, Answer(w)
      PROVE MessageFits'
    BY <1>13 DEF Answer, Goto, database
  <1>14. CASE UNCHANGED vars
    BY <1>14, SMTT(40) DEF vars
  <1> QED
    BY <1>1, <1>2, <1>3, <1>4, <1>5, <1>6, <1>7, <1>8, <1>9,
       <1>10, <1>11, <1>12, <1>13, <1>14
    DEF Next, WorkerStep

\* A message is posted to members of its group only, once.
LEMMA HearingKept ==
    ASSUME GroupsInv, [Next]_vars
    PROVE  HearsOwnGroups'
  <1> USE GroupsAssumption DEF GroupsInv, TypeOK, JobFits, SayJob, Saying, Said, ToldFits, MessageFits, HearsOwnGroups
  <1>1. ASSUME NEW w \in Workers, NEW u \in Users,
            NEW members \in SUBSET Users, CreateGroup(w, u, members)
      PROVE HearsOwnGroups'
    BY <1>1 DEF CreateGroup, Begin, Free, Goto, database
  <1>2. ASSUME NEW w \in Workers, NEW u \in Users, NEW g \in DOMAIN groups,
            sendGroupMessage(w, u, g)
      PROVE HearsOwnGroups'
    BY <1>2 DEF sendGroupMessage, Begin, Free, Goto, database
  <1>3. ASSUME NEW w \in Workers, InsertGroup(w)
      PROVE HearsOwnGroups'
    BY <1>3 DEF InsertGroup, Goto
  <1>4. ASSUME NEW w \in Workers, InsertCreator(w)
      PROVE HearsOwnGroups'
    BY <1>4 DEF InsertCreator, Goto
  <1>5. ASSUME NEW w \in Workers, InsertMember(w)
      PROVE HearsOwnGroups'
    BY <1>5 DEF InsertMember, NextId, database
  <1>6. ASSUME NEW w \in Workers, Commit(w)
      PROVE HearsOwnGroups'
    BY <1>6, SMTT(40) DEF Commit, Goto
  <1>7. ASSUME NEW w \in Workers, CreationFails(w)
      PROVE HearsOwnGroups'
    BY <1>7 DEF CreationFails, Goto
  <1>8. ASSUME NEW w \in Workers, InsertMessage(w)
      PROVE HearsOwnGroups'
    <2>1. inbox' = inbox /\ groups' = groups
      BY <1>8 DEF InsertMessage
    <2>2. \A i \in DOMAIN stored : i \in DOMAIN stored' /\ stored'[i] = stored[i]
      <3> HIDE DEF TypeOK, HearsOwnGroups, MessageFits, ToldFits, SayJob
      <3> QED
        BY <1>8, Inserted
    <2> QED
      BY <2>1, <2>2, SMTT(40)
  <1>9. ASSUME NEW w \in Workers, InsertFails(w)
      PROVE HearsOwnGroups'
    BY <1>9 DEF InsertFails, Goto, database
  <1>10. ASSUME NEW w \in Workers, getGroupMembers(w)
      PROVE HearsOwnGroups'
    BY <1>10 DEF getGroupMembers, Goto, database
  <1>11. ASSUME NEW w \in Workers, MembersFail(w)
      PROVE HearsOwnGroups'
    BY <1>11 DEF MembersFail, Goto, database
  <1>12. ASSUME NEW w \in Workers, Tell(w)
      PROVE HearsOwnGroups'
    <2> DEFINE msg == job[w].message
    <2>1. Said(w) /\ msg \in DOMAIN stored /\ msg \in Nat
      BY <1>12 DEF Tell
    <2>2. stored' = stored /\ groups' = groups
      BY <1>12 DEF Tell, database
    <2>3. /\ stored[msg].group = job[w].group /\ stored[msg].from = job[w].user
          /\ job[w].group \in DOMAIN groups
          /\ \A u \in told[w] : u \in groups[job[w].group] /\ u # job[w].user
      <3>1. pc[w] = "tell"
        BY <1>12 DEF Tell
      <3>2. stored[msg] = [group |-> job[w].group, from |-> job[w].user]
        BY <2>1
      <3>3. job[w].group \in DOMAIN groups
        BY <3>1
      <3>4. told[w] \subseteq groups[job[w].group] \ {job[w].user}
        BY <3>1
      <3> QED
        BY <3>2, <3>3, <3>4
    <2>4. \A u \in Users : \A i \in DOMAIN inbox'[u] :
            \/ i \in DOMAIN inbox[u] /\ inbox'[u][i] = inbox[u][i]
            \/ /\ i = Len(inbox[u]) + 1 /\ i \notin DOMAIN inbox[u]
               /\ u \in told[w] /\ inbox'[u][i] = msg
      BY <1>12, <2>1, Posted
    <2>5. \A u \in Users : \A i \in DOMAIN inbox[u] : inbox[u][i] # msg
      BY <2>1
    <2>6. ASSUME NEW u \in Users, NEW i \in DOMAIN inbox'[u]
          PROVE  /\ inbox'[u][i] \in DOMAIN stored
                 /\ LET m == stored[inbox'[u][i]] IN
                      m.group \in DOMAIN groups /\ u \in groups[m.group] /\ u # m.from
      <3>1. CASE i \in DOMAIN inbox[u] /\ inbox'[u][i] = inbox[u][i]
        BY <3>1
      <3>2. CASE u \in told[w] /\ inbox'[u][i] = msg
        BY <2>1, <2>3, <3>2
      <3> QED
        BY <2>4, <3>1, <3>2
    <2>7. ASSUME NEW u \in Users, NEW i \in DOMAIN inbox'[u], NEW j \in DOMAIN inbox'[u],
                 inbox'[u][i] = inbox'[u][j]
          PROVE  i = j
      <3>1. CASE i \in DOMAIN inbox[u] /\ inbox'[u][i] = inbox[u][i]
        <4>1. inbox'[u][i] # msg
          BY <2>5, <3>1
        <4>2. j \in DOMAIN inbox[u] /\ inbox'[u][j] = inbox[u][j]
          BY <2>4, <2>7, <4>1
        <4>3. inbox[u][i] = inbox[u][j]
          BY <2>7, <3>1, <4>2
        <4>4. \A k, l \in DOMAIN inbox[u] : inbox[u][k] = inbox[u][l] => k = l
          OBVIOUS
        <4> HIDE DEF HearsOwnGroups
        <4> QED
          BY <3>1, <4>2, <4>3, <4>4
      <3>2. CASE i = Len(inbox[u]) + 1 /\ inbox'[u][i] = msg
        BY <2>4, <2>5, <2>7, <3>2
      <3> QED
        BY <2>4, <3>1, <3>2
    <2> QED
      BY <2>2, <2>6, <2>7
  <1>13. ASSUME NEW w \in Workers, Answer(w)
      PROVE HearsOwnGroups'
    BY <1>13 DEF Answer, Goto, database
  <1>14. CASE UNCHANGED vars
    BY <1>14 DEF vars
  <1> QED
    BY <1>1, <1>2, <1>3, <1>4, <1>5, <1>6, <1>7, <1>8, <1>9,
       <1>10, <1>11, <1>12, <1>13, <1>14
    DEF Next, WorkerStep

-----------------------------------------------------------------------------
\* The inductive invariant behind the theorems.
THEOREM GroupsInvariant == Spec => []GroupsInv
  <1>1. Init => GroupsInv
    <2> SUFFICES ASSUME Init PROVE GroupsInv
      OBVIOUS
    <2>1. groups \in Seq(SUBSET Users)
      <3>1. ASSUME NEW m \in SUBSET Users PROVE <<m>> \in Seq(SUBSET Users)
        OBVIOUS
      <3>2. << >> \in Seq(SUBSET Users)
        OBVIOUS
      <3>3. groups = << >> \/ \E m \in SUBSET Users : groups = <<m>>
        BY DEF Init
      <3> QED
        BY <3>1, <3>2, <3>3
    <2>2. TypeOK
      <3>1. /\ stored \in Seq([group : Nat, from : Users])
            /\ inbox \in [Users -> Seq(Nat)]
        BY DEF Init
      <3>2. job \in [Workers -> Jobs \cup {NoJob}]
        BY DEF Init
      <3>3. /\ pc \in [Workers -> {"free", "group", "creator", "member", "insert", "members",
                                   "tell", "success", "failed"}]
            /\ told \in [Workers -> SUBSET Users]
        BY DEF Init
      <3>4. requests \in 0 .. MaxRequests
        BY GroupsAssumption DEF Init
      <3> QED
        BY <2>1, <3>1, <3>2, <3>3, <3>4 DEF Init, TypeOK
    <2>3. WriterFits /\ JobFits /\ DraftFits /\ ToldFits /\ MessageFits
      BY GroupsAssumption DEF Init, WriterFits, JobFits, DraftFits, ToldFits, MessageFits, Creating, Saying,
         Said, Free
    <2>4. HearsOwnGroups
      BY DEF Init, HearsOwnGroups
    <2> QED
      BY <2>2, <2>3, <2>4 DEF GroupsInv
  <1>2. GroupsInv /\ [Next]_vars => GroupsInv'
    BY TypesKept, WriterKept, JobsKept, DraftKept, ToldKept, MessagesKept, HearingKept
    DEF GroupsInv
  <1> QED
    BY <1>1, <1>2, PTL DEF Spec

\* Every variable has its type.
THEOREM GroupsTypeCorrect == Spec => []TypeOK
  <1>1. GroupsInv => TypeOK
    BY DEF GroupsInv
  <1> QED
    BY <1>1, GroupsInvariant, PTL

\* notifyGroupMessage posts a message to members of its group only, never to its sender, to
\* nobody twice, and only when the message is in the table.
THEOREM MembersHearTheirGroups == Spec => []HearsOwnGroups
  <1>1. GroupsInv => HearsOwnGroups
    BY DEF GroupsInv
  <1> QED
    BY <1>1, GroupsInvariant, PTL
-----------------------------------------------------------------------------
\* The loop of notifyGroupMessage puts a message that is in nobody's inbox behind all that is in
\* the inboxes, under one lock for all of them; no other step touches an inbox.
LEMMA OrderKept ==
    ASSUME GroupsInv, SameOrder, [Next]_vars
    PROVE  SameOrder'
  <1>1. ASSUME NEW w \in Workers, Tell(w)
        PROVE SameOrder'
    <2> DEFINE m == job[w].message
    <2>1. job[w].message \in Nat /\ \A u \in Users : \A i \in DOMAIN inbox[u] : inbox[u][i] # m
      BY <1>1 DEF GroupsInv, JobFits, MessageFits, Saying, Said, SayJob, Tell
    <2>2. ASSUME NEW u \in Users, NEW i \in DOMAIN inbox'[u]
          PROVE  \/ /\ i \in DOMAIN inbox[u] /\ inbox'[u][i] = inbox[u][i] /\ inbox'[u][i] # m
                    /\ i \in Nat /\ i < Len(inbox[u]) + 1
                 \/ i = Len(inbox[u]) + 1 /\ inbox'[u][i] = m
      <3>1. inbox[u] \in Seq(Nat)
        BY DEF GroupsInv, TypeOK
      <3>2. \A n \in DOMAIN inbox[u] : n \in Nat /\ n < Len(inbox[u]) + 1
        BY <3>1
      <3> QED
        BY <1>1, <2>1, <2>2, <3>2, Posted DEF GroupsInv
    <2>3. ASSUME NEW u \in Users PROVE Len(inbox[u]) \in Nat
      BY DEF GroupsInv, TypeOK
    <2>4. ASSUME NEW u \in Users, NEW v \in Users,
                 NEW i \in DOMAIN inbox'[u], NEW j \in DOMAIN inbox'[u],
                 NEW k \in DOMAIN inbox'[v], NEW l \in DOMAIN inbox'[v],
                 inbox'[u][i] = inbox'[v][k], inbox'[u][j] = inbox'[v][l]
          PROVE  i < j <=> k < l
      <3>1. CASE inbox'[u][i] = m
        <4>1. i = Len(inbox[u]) + 1 /\ k = Len(inbox[v]) + 1
          BY <2>2, <2>4, <3>1
        <4>2. ~(i < j) /\ ~(k < l)
          BY <2>2, <2>3, <4>1
        <4> QED
          BY <4>2
      <3>2. CASE inbox'[u][i] # m /\ inbox'[u][j] = m
        <4>1. j = Len(inbox[u]) + 1 /\ l = Len(inbox[v]) + 1
          BY <2>2, <2>4, <3>2
        <4>2. i < j /\ k < l
          BY <2>2, <2>4, <3>2, <4>1
        <4> QED
          BY <4>2
      <3>3. CASE inbox'[u][i] # m /\ inbox'[u][j] # m
        <4>1. /\ i \in DOMAIN inbox[u] /\ j \in DOMAIN inbox[u]
              /\ k \in DOMAIN inbox[v] /\ l \in DOMAIN inbox[v]
              /\ inbox[u][i] = inbox[v][k] /\ inbox[u][j] = inbox[v][l]
          BY <2>2, <2>4, <3>3
        <4> QED
          BY <4>1 DEF SameOrder
      <3> QED
        BY <3>1, <3>2, <3>3
    <2> QED
      BY <2>4 DEF SameOrder
  <1>2. CASE inbox' = inbox
    BY <1>2 DEF SameOrder
  <1> QED
    BY <1>1, <1>2 DEF Next, WorkerStep, vars, CreateGroup, sendGroupMessage, Begin, InsertGroup,
       InsertCreator, InsertMember, Commit, CreationFails, InsertMessage, InsertFails,
       getGroupMembers, MembersFail, Answer

\* Any two members who are told of two group messages are told of them in one order.
THEOREM MembersSeeOneOrder == Spec => []SameOrder
  <1>1. Init => SameOrder
    BY DEF Init, SameOrder
  <1>2. GroupsInv /\ SameOrder /\ [Next]_vars => SameOrder'
    BY OrderKept
  <1> QED
    BY <1>1, <1>2, GroupsInvariant, PTL DEF Spec

-----------------------------------------------------------------------------
NoticesStayTrue == \A n \in noticed' :
    (n \in noticed => IsMember(n)) /\ ~IsMember(n)' => \E w \in Workers : CreationFails(w)

\* A notice says what the open transaction holds or a committed group; only a rollback unsays it.
LEMMA NoticesKept ==
    ASSUME GroupsInv, [Next]_vars
    PROVE  NoticesStayTrue
  <1> USE GroupsAssumption DEF GroupsInv, TypeOK, WriterFits, Creating, IsMember, NextId, NoticesStayTrue
  <1>1. ASSUME NEW w \in Workers, NEW u \in Users,
            NEW members \in SUBSET Users, CreateGroup(w, u, members)
      PROVE NoticesStayTrue
    BY <1>1 DEF CreateGroup, Begin, Free, Goto, database
  <1>2. ASSUME NEW w \in Workers, NEW u \in Users, NEW g \in DOMAIN groups,
            sendGroupMessage(w, u, g)
      PROVE NoticesStayTrue
    BY <1>2 DEF sendGroupMessage, Begin, Free, Goto, database
  <1>3. ASSUME NEW w \in Workers, InsertGroup(w)
      PROVE NoticesStayTrue
    BY <1>3 DEF InsertGroup, Goto
  <1>4. ASSUME NEW w \in Workers, InsertCreator(w)
      PROVE NoticesStayTrue
    BY <1>4 DEF InsertCreator, Goto, DraftFits
  <1>5. ASSUME NEW w \in Workers, InsertMember(w)
      PROVE NoticesStayTrue
    BY <1>5 DEF InsertMember, NextId, database
  <1>6. ASSUME NEW w \in Workers, Commit(w)
      PROVE NoticesStayTrue
    BY <1>6 DEF Commit, Goto
  <1>7. ASSUME NEW w \in Workers, CreationFails(w)
      PROVE NoticesStayTrue
    BY <1>7 DEF CreationFails, Goto
  <1>8. ASSUME NEW w \in Workers, InsertMessage(w)
      PROVE NoticesStayTrue
    BY <1>8 DEF InsertMessage, Goto
  <1>9. ASSUME NEW w \in Workers, InsertFails(w)
      PROVE NoticesStayTrue
    BY <1>9 DEF InsertFails, Goto, database
  <1>10. ASSUME NEW w \in Workers, getGroupMembers(w)
      PROVE NoticesStayTrue
    BY <1>10 DEF getGroupMembers, Goto, database
  <1>11. ASSUME NEW w \in Workers, MembersFail(w)
      PROVE NoticesStayTrue
    BY <1>11 DEF MembersFail, Goto, database
  <1>12. ASSUME NEW w \in Workers, Tell(w)
      PROVE NoticesStayTrue
    BY <1>12 DEF Tell, Post, Goto, database
  <1>13. ASSUME NEW w \in Workers, Answer(w)
      PROVE NoticesStayTrue
    BY <1>13 DEF Answer, Goto, database
  <1>14. CASE UNCHANGED vars
    BY <1>14 DEF vars
  <1> QED
    BY <1>1, <1>2, <1>3, <1>4, <1>5, <1>6, <1>7, <1>8, <1>9,
       <1>10, <1>11, <1>12, <1>13, <1>14
    DEF Next, WorkerStep

\* Who was told by notifyGroupCreation to be in a group stays in it, unless the transaction that
\* was told of is rolled back.
THEOREM NoticesStayTrueAlways == Spec => NoticesAreTrue
  <1>1. GroupsInv /\ [Next]_vars => NoticesStayTrue
    BY NoticesKept
  <1>2. NoticesStayTrue \/ UNCHANGED vars <=> [NoticesStayTrue]_vars
    OBVIOUS
  <1> QED
    BY <1>1, GroupsInvariant, PTL DEF Spec, NoticesAreTrue, NoticesStayTrue
-----------------------------------------------------------------------------
\* A step of one worker leaves the requests of the others what they were.
LEMMA OthersRequests ==
    ASSUME TypeOK, NEW w \in Workers,
           \A v \in Workers : v # w => pc'[v] = pc[v] /\ job'[v] = job[v]
    PROVE  \A v \in Workers : v # w => Request(v)' = Request(v)
  BY DEF Request, Free, Outcome

\* Each step of the handlers is a step of the promised service or none.
LEMMA GroupsStepRefines ==
    ASSUME GroupsInv, [Next]_vars
    PROVE  [Service!Next]_(Service!vars)
  <1> DEFINE S == [Service!Next]_(Service!vars)
  <1> USE DEF GroupsInv
  <1>1. ASSUME NEW w \in Workers, NEW u \in Users,
            NEW members \in SUBSET Users, CreateGroup(w, u, members)
      PROVE S
    <2>1. \A v \in Workers : v # w => Request(v)' = Request(v)
      BY <1>1, OthersRequests DEF CreateGroup, Begin, Free, Goto, database, TypeOK
    <2>2. Request(w) = Service!Idle /\ UNCHANGED <<groups, stored>>
      BY <1>1 DEF CreateGroup, Begin, Free, Goto, database, Request, Service!Idle, NoJob
    <2>3. Request(w)' = [op |-> "create", user |-> u, members |-> members, outcome |-> "open"]
      BY <1>1 DEF CreateGroup, Begin, Free, Goto, database, TypeOK, Request, Outcome
    <2>4. Service!Ask(w, [op |-> "create", user |-> u, members |-> members, outcome |-> "open"])
      BY <2>1, <2>2, <2>3 DEF Service!Ask
    <2> QED
      BY <1>1, <2>4 DEF Service!Next
  <1>2. ASSUME NEW w \in Workers, NEW u \in Users, NEW g \in DOMAIN groups,
            sendGroupMessage(w, u, g)
      PROVE S
    <2>1. \A v \in Workers : v # w => Request(v)' = Request(v)
      BY <1>2, OthersRequests DEF sendGroupMessage, Begin, Free, Goto, database, TypeOK
    <2>2. Request(w) = Service!Idle /\ UNCHANGED <<groups, stored>>
      BY <1>2 DEF sendGroupMessage, Begin, Free, Goto, database, Request, Service!Idle, NoJob
    <2>3. Request(w)' = [op |-> "say", user |-> u, group |-> g, outcome |-> "open"]
      BY <1>2 DEF sendGroupMessage, Begin, Free, Goto, database, TypeOK, Request, Outcome
    <2>4. Service!Ask(w, [op |-> "say", user |-> u, group |-> g, outcome |-> "open"])
      BY <2>1, <2>2, <2>3 DEF Service!Ask
    <2> QED
      BY <1>2, <2>4 DEF Service!Next
  <1>3. ASSUME NEW w \in Workers, InsertGroup(w)
      PROVE S
    <2>1. \A v \in Workers : v # w => Request(v)' = Request(v)
      BY <1>3, OthersRequests DEF InsertGroup, Goto, TypeOK
    <2>2. Request(w)' = Request(w) /\ UNCHANGED <<groups, stored>>
      BY <1>3 DEF InsertGroup, Goto, TypeOK, JobFits, CreateJob, SayJob, Creating, Saying, Request, Free,
         Outcome
    <2> QED
      BY <2>1, <2>2 DEF Service!vars
  <1>4. ASSUME NEW w \in Workers, InsertCreator(w)
      PROVE S
    <2>1. \A v \in Workers : v # w => Request(v)' = Request(v)
      BY <1>4, OthersRequests DEF InsertCreator, Goto, TypeOK
    <2>2. Request(w)' = Request(w) /\ UNCHANGED <<groups, stored>>
      BY <1>4 DEF InsertCreator, Goto, TypeOK, JobFits, CreateJob, SayJob, Creating, Saying, Request, Free,
         Outcome
    <2> QED
      BY <2>1, <2>2 DEF Service!vars
  <1>5. ASSUME NEW w \in Workers, InsertMember(w)
      PROVE S
    <2>1. \A v \in Workers : v # w => Request(v)' = Request(v)
      BY <1>5, OthersRequests DEF InsertMember, NextId, database, TypeOK
    <2>2. Request(w)' = Request(w) /\ UNCHANGED <<groups, stored>>
      BY <1>5 DEF InsertMember, NextId, database, TypeOK, JobFits, CreateJob, SayJob, Creating, Saying, Request, Free,
         Outcome
    <2> QED
      BY <2>1, <2>2 DEF Service!vars
  <1>6. ASSUME NEW w \in Workers, Commit(w)
      PROVE S
    <2>1. \A v \in Workers : v # w => Request(v)' = Request(v)
      BY <1>6, OthersRequests DEF Commit, Goto, TypeOK
    <2>2. /\ Request(w) # Service!Idle /\ Request(w).outcome = "open"
          /\ Request(w).op = "create"
          /\ draft = Request(w).members \cup {Request(w).user}
      BY <1>6 DEF Commit, JobFits, CreateJob, SayJob, Creating, Saying, Request, Free, Outcome,
         Service!Idle, DraftFits
    <2>3. Request(w)' = [Request(w) EXCEPT !.outcome = "success"]
      <3>1. Outcome(w) = "open" /\ ~Free(w)
        BY <1>6 DEF Commit, Outcome, Free
      <3>2. Outcome(w)' = "success" /\ ~Free(w)'
        BY <1>6 DEF Commit, Goto, TypeOK, Outcome, Free
      <3>3. job' = job
        BY <1>6 DEF Commit, Goto
      <3> QED
        BY <3>1, <3>2, <3>3 DEF Request
    <2>4. Service!Create(w)
      BY <1>6, <2>1, <2>2, <2>3 DEF Commit, Service!Create, Service!Open, Service!Outcome
    <2> QED
      BY <1>6, <2>4 DEF Service!Next
  <1>7. ASSUME NEW w \in Workers, CreationFails(w)
      PROVE S
    <2>1. \A v \in Workers : v # w => Request(v)' = Request(v)
      BY <1>7, OthersRequests DEF CreationFails, Goto, TypeOK
    <2>2. /\ Request(w) # Service!Idle /\ Request(w).outcome = "open"
      BY <1>7 DEF CreationFails, JobFits, CreateJob, SayJob, Creating, Saying, Request, Free, Outcome,
         Service!Idle
    <2>3. Request(w)' = [Request(w) EXCEPT !.outcome = "failed"]
      <3>1. Outcome(w) = "open" /\ ~Free(w)
        BY <1>7 DEF CreationFails, Outcome, Free
      <3>2. Outcome(w)' = "failed" /\ ~Free(w)'
        BY <1>7 DEF CreationFails, Goto, TypeOK, Outcome, Free
      <3>3. job' = job
        BY <1>7 DEF CreationFails, Goto
      <3> QED
        BY <3>1, <3>2, <3>3 DEF Request
    <2>4. Service!Refuse(w)
      BY <1>7, <2>1, <2>2, <2>3 DEF CreationFails, database, Service!Refuse, Service!Open, Service!Outcome
    <2> QED
      BY <1>7, <2>4 DEF Service!Next
  <1>8. ASSUME NEW w \in Workers, InsertMessage(w)
      PROVE S
    <2>1. \A v \in Workers : v # w => Request(v)' = Request(v)
      BY <1>8, OthersRequests DEF InsertMessage, Goto, TypeOK
    <2>2. /\ Request(w) # Service!Idle /\ Request(w).outcome = "open"
          /\ Request(w).op = "say"
          /\ Request(w).group = job[w].group /\ Request(w).user = job[w].user
      BY <1>8 DEF InsertMessage, JobFits, CreateJob, SayJob, Creating, Saying, Request, Free, Outcome,
         Service!Idle
    <2>3. Request(w)' = [Request(w) EXCEPT !.outcome = "success"]
      BY <1>8, Inserted, SMTT(40) DEF InsertMessage, Goto, TypeOK, JobFits, CreateJob, SayJob, Creating, Saying,
         Request, Free, Outcome
    <2>4. Service!Say(w)
      BY <1>8, <2>1, <2>2, <2>3 DEF InsertMessage, JobFits, Saying, Service!Say, Service!Open,
         Service!Outcome
    <2> QED
      BY <1>8, <2>4 DEF Service!Next
  <1>9. ASSUME NEW w \in Workers, InsertFails(w)
      PROVE S
    <2>1. \A v \in Workers : v # w => Request(v)' = Request(v)
      BY <1>9, OthersRequests DEF InsertFails, Goto, database, TypeOK
    <2>2. /\ Request(w) # Service!Idle /\ Request(w).outcome = "open"
      BY <1>9 DEF InsertFails, JobFits, CreateJob, SayJob, Creating, Saying, Request, Free, Outcome,
         Service!Idle
    <2>3. Request(w)' = [Request(w) EXCEPT !.outcome = "failed"]
      <3>1. Outcome(w) = "open" /\ ~Free(w)
        BY <1>9 DEF InsertFails, Outcome, Free
      <3>2. Outcome(w)' = "failed" /\ ~Free(w)'
        BY <1>9 DEF InsertFails, Goto, database, TypeOK, Outcome, Free
      <3>3. job' = job
        BY <1>9 DEF InsertFails, Goto, database
      <3> QED
        BY <3>1, <3>2, <3>3 DEF Request
    <2>4. Service!Refuse(w)
      BY <1>9, <2>1, <2>2, <2>3 DEF InsertFails, database, Service!Refuse, Service!Open, Service!Outcome
    <2> QED
      BY <1>9, <2>4 DEF Service!Next
  <1>10. ASSUME NEW w \in Workers, getGroupMembers(w)
      PROVE S
    <2>1. \A v \in Workers : v # w => Request(v)' = Request(v)
      BY <1>10, OthersRequests DEF getGroupMembers, Goto, database, TypeOK
    <2>2. Request(w)' = Request(w) /\ UNCHANGED <<groups, stored>>
      BY <1>10 DEF getGroupMembers, Goto, database, TypeOK, JobFits, CreateJob, SayJob, Creating, Saying, Request, Free,
         Outcome
    <2> QED
      BY <2>1, <2>2 DEF Service!vars
  <1>11. ASSUME NEW w \in Workers, MembersFail(w)
      PROVE S
    <2>1. \A v \in Workers : v # w => Request(v)' = Request(v)
      BY <1>11, OthersRequests DEF MembersFail, Goto, database, TypeOK
    <2>2. Request(w)' = Request(w) /\ UNCHANGED <<groups, stored>>
      BY <1>11 DEF MembersFail, Goto, database, TypeOK, JobFits, CreateJob, SayJob, Creating, Saying, Request, Free,
         Outcome
    <2> QED
      BY <2>1, <2>2 DEF Service!vars
  <1>12. ASSUME NEW w \in Workers, Tell(w)
      PROVE S
    <2>1. \A v \in Workers : v # w => Request(v)' = Request(v)
      BY <1>12, OthersRequests DEF Tell, Post, Goto, database, TypeOK
    <2>2. Request(w)' = Request(w) /\ UNCHANGED <<groups, stored>>
      BY <1>12 DEF Tell, Post, Goto, database, TypeOK, JobFits, CreateJob, SayJob, Creating, Saying, Request, Free,
         Outcome
    <2> QED
      BY <2>1, <2>2 DEF Service!vars
  <1>13. ASSUME NEW w \in Workers, Answer(w)
      PROVE S
    <2>1. \A v \in Workers : v # w => Request(v)' = Request(v)
      BY <1>13, OthersRequests DEF Answer, Goto, database, TypeOK
    <2>2. Request(w) # Service!Idle /\ ~Service!Open(w)
      BY <1>13 DEF Answer, JobFits, Jobs, Request, Free, Outcome, Service!Idle, Service!Open
    <2>3. Request(w)' = Service!Idle /\ UNCHANGED <<groups, stored>>
      BY <1>13 DEF Answer, Goto, database, TypeOK, Request, Free, NoJob, Service!Idle
    <2>4. Service!Answer(w)
      BY <2>1, <2>2, <2>3 DEF Service!Answer
    <2> QED
      BY <1>13, <2>4 DEF Service!Next
  <1>14. CASE UNCHANGED vars
    BY <1>14 DEF vars, Service!vars, Request, Free, Outcome
  <1> QED
    BY <1>1, <1>2, <1>3, <1>4, <1>5, <1>6, <1>7, <1>8, <1>9,
       <1>10, <1>11, <1>12, <1>13, <1>14
    DEF Next, WorkerStep

\* Whatever the statements of several workers do in between: a group comes into being whole or
\* not at all, a message is accepted at once and for a group that exists, and the answer is the truth.
THEOREM GroupsImplementGroupService == Spec => ImplementsGroupService
  <1>1. Init => Service!Init
    <2> SUFFICES ASSUME Init PROVE Service!Init
      OBVIOUS
    <2>1. groups \in Seq(SUBSET Users)
      <3>1. ASSUME NEW m \in SUBSET Users PROVE <<m>> \in Seq(SUBSET Users)
        OBVIOUS
      <3>2. << >> \in Seq(SUBSET Users)
        OBVIOUS
      <3>3. groups = << >> \/ \E m \in SUBSET Users : groups = <<m>>
        BY DEF Init
      <3> QED
        BY <3>1, <3>2, <3>3
    <2> QED
      BY <2>1 DEF Init, Service!Init, Service!Idle, Request, Free, NoJob
  <1>2. GroupsInv /\ [Next]_vars => [Service!Next]_(Service!vars)
    BY GroupsStepRefines
  <1> QED
    BY <1>1, <1>2, GroupsInvariant, PTL DEF Spec, ImplementsGroupService, Service!Spec
=============================================================================
