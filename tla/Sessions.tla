------------------------------ MODULE Sessions ------------------------------
(***************************************************************************)
(* The server's list of clients (src/ChatServer/src/server.cpp, server.h): *)
(* the main thread accepts connections, hands each message to a worker,    *)
(* removes the entry of a connection that ends, and runs the events that   *)
(* were posted to it; the workers handle messages through a pointer to the *)
(* entry of their client, which they find under m_clientsMutex and use     *)
(* after they have released it.                                            *)
(*                                                                         *)
(* A pointer is the position of the cell it points at, counted from the    *)
(* first entry: it points at an entry as long as that is a position of the *)
(* list.  QList::append may move all entries to other storage, so that no  *)
(* pointer will ever be good again (Lost); removing the first of several   *)
(* entries leaves the others where they are; removing another one moves    *)
(* those behind it one cell down.                                          *)
(***************************************************************************)
EXTENDS Naturals, Sequences

CONSTANTS
    Sockets,        \* connections; each is used once
    Users,          \* nicknames, all friends of one another
    Workers,        \* threads of the pool
    MaxMessages,    \* bound: how many messages are handled
    None            \* no user, no thread, a null pointer

ASSUME SessionsAssumption ==
    /\ None \notin Users \cup Nat \cup {"main"}
    /\ MaxMessages \in Nat

VARIABLES
    link,       \* each QTcpSocket: "new", "open", "closed" (to be deleted later), "deleted"
    clients,    \* the list of ClientInfo
    mutex,      \* the holder of m_clientsMutex, "main" or None
    main,       \* what the main thread is doing: [at, socket, user]
    events,     \* the main thread's event queue
    pc,         \* the next step of each worker's handler
    msg,        \* the message it handles: [kind, socket, user]
    info,       \* its clientInfo
    handled,    \* number of messages given to workers
    crashed     \* the process has died of an invalid access

vars == <<link, clients, mutex, main, events, pc, msg, info, handled, crashed>>
worker == <<pc, msg, info, handled>>

Entries == [socket : Sockets, user : Users \cup {None}, isLoggedIn : BOOLEAN]
Kinds == {"login", "logout", "message"}
Messages == {m \in [kind : Kinds, socket : Sockets, user : Users \cup {None}] :
                m.user = None <=> m.kind = "logout"}
NoMessage == [kind |-> "none"]
Idle == [at |-> "idle"]
Lost == 0

Init ==
    /\ link = [s \in Sockets |-> "new"]
    /\ clients = << >>
    /\ mutex = None
    /\ main = Idle
    /\ events = << >>
    /\ pc = [w \in Workers |-> "free"]
    /\ msg = [w \in Workers |-> NoMessage]
    /\ info = [w \in Workers |-> None]
    /\ handled = 0
    /\ crashed = FALSE

\* invokeMethod(sendResponseToClient, QueuedConnection), for one socket or several.
Post(to) == events' = IF to = {} THEN events ELSE Append(events, [kind |-> "write", to |-> to])

\* The entries a text message for this user could be delivered to.
Receivers(user) == {i \in DOMAIN clients : clients[i].isLoggedIn /\ clients[i].user = user}

\* The friends' sockets in notifyFriendsStatusChange: an entry whose nickname is empty is no friend.
FriendSockets(user) ==
    {clients[i].socket : i \in {j \in DOMAIN clients :
        clients[j].isLoggedIn /\ clients[j].user \notin {user, None}}}

\* Where a thread is, as long as the process lives.
MainAt(place) == ~crashed /\ main.at = place
At(w, place) == ~crashed /\ pc[w] = place

-----------------------------------------------------------------------------
(* The main thread.                                                        *)

handleNewConnection(s) ==
    /\ MainAt("idle")
    /\ mutex = None
    /\ link[s] = "new"
    /\ link' = [link EXCEPT ![s] = "open"]
    /\ clients' = Append(clients, [socket |-> s, user |-> None, isLoggedIn |-> FALSE])
    /\ \/ info' = [w \in Workers |-> IF info[w] = None THEN None ELSE Lost]
       \/ info' = info
    /\ UNCHANGED <<mutex, main, events, pc, msg, handled, crashed>>

\* handleClientData: one whole message; a free worker gets it (the queue is ThreadPool's subject).
handleClientData(s, w) ==
    /\ MainAt("idle")
    /\ link[s] = "open"
    /\ At(w, "free")
    /\ handled < MaxMessages
    /\ handled' = handled + 1
    /\ \E m \in Messages : m.socket = s /\ msg' = [msg EXCEPT ![w] = m]
    /\ pc' = [pc EXCEPT ![w] = "find"]
    /\ UNCHANGED <<link, clients, mutex, main, events, info, crashed>>

\* Mutant: the removed entry keeps its cell and the one behind it goes.
WithoutNext(i) == [j \in 1 .. Len(clients) - 1 |-> IF j <= i THEN clients[j] ELSE clients[j + 1]]

Position(s) == CHOOSE i \in DOMAIN clients : clients[i].socket = s
Without(i) == [j \in 1 .. Len(clients) - 1 |-> IF j < i THEN clients[j] ELSE clients[j + 1]]

\* handleClientDisconnection, inside the mutex: the entry goes, its nickname is kept.
RemoveEntry(s) ==
    LET i == Position(s) IN
    /\ MainAt("idle")
    /\ mutex = None
    /\ link[s] = "open"
    /\ link' = [link EXCEPT ![s] = "closed"]
    /\ mutex' = "main"
    /\ main' = [at |-> IF clients[i].isLoggedIn THEN "unlock" ELSE "unlisted",
                socket |-> s, user |-> clients[i].user]
    /\ clients' = Without(i)
    /\ info' = [w \in Workers |->
                   IF i = 1 /\ Len(clients) > 1 /\ info[w] \notin {None, Lost}
                   THEN info[w] - 1 ELSE info[w]]
    /\ UNCHANGED <<events, pc, msg, handled, crashed>>

\* Mutant: the friends are told before the mutex is released.
UnlockLater ==
    /\ MainAt("unlock") \/ MainAt("unlisted")
    /\ mutex' = IF main.at = "unlock" THEN mutex ELSE None
    /\ main' = [main EXCEPT !.at = IF @ = "unlock" THEN "tell" ELSE "delete"]
    /\ UNCHANGED <<link, clients, events, worker, crashed>>

\* Mutant: the mutex is released only in the branch of a client that is logged in.
UnlockOneBranch ==
    /\ MainAt("unlock") \/ MainAt("unlisted")
    /\ mutex' = IF main.at = "unlock" THEN None ELSE mutex
    /\ main' = [main EXCEPT !.at = IF @ = "unlock" THEN "tell" ELSE "delete"]
    /\ UNCHANGED <<link, clients, events, worker, crashed>>

\* Mutant: the branch of a client that is not logged in deletes the socket too.
UnlockDeleting ==
    /\ MainAt("unlock") \/ MainAt("unlisted")
    /\ mutex' = None
    /\ events' = IF main.at = "unlock" THEN events
                 ELSE Append(events, [kind |-> "delete", to |-> {main.socket}])
    /\ main' = [main EXCEPT !.at = IF @ = "unlock" THEN "tell" ELSE "delete"]
    /\ UNCHANGED <<link, clients, worker, crashed>>

\* locker.unlock() and updateUserStatus, or the end of the locked block.
Unlock ==
    /\ MainAt("unlock") \/ MainAt("unlisted")
    /\ mutex' = None
    /\ main' = [main EXCEPT !.at = IF @ = "unlock" THEN "tell" ELSE "delete"]
    /\ UNCHANGED <<link, clients, events, worker, crashed>>

\* notifyFriendsStatusChange.
TellFriends ==
    /\ MainAt("tell")
    /\ mutex = None
    /\ Post(FriendSockets(main.user))
    /\ main' = [main EXCEPT !.at = "delete"]
    /\ UNCHANGED <<link, clients, mutex, worker, crashed>>

\* clientSocket->deleteLater().
DeleteLater ==
    /\ MainAt("delete")
    /\ events' = Append(events, [kind |-> "delete", to |-> {main.socket}])
    /\ main' = Idle
    /\ UNCHANGED <<link, clients, mutex, worker, crashed>>

\* The event loop: a deferred delete, or sendResponseToClient, which writes to the socket if it is
\* open and reads freed memory if it has been deleted.
RunEvent ==
    /\ MainAt("idle")
    /\ events # << >>
    /\ events' = Tail(events)
    /\ LET e == Head(events) IN
       \/ /\ e.kind = "delete"
          /\ link' = [s \in Sockets |-> IF s \in e.to THEN "deleted" ELSE link[s]]
          /\ UNCHANGED crashed
       \/ /\ e.kind = "write"
          /\ crashed' \in (IF \E s \in e.to : link[s] = "deleted" THEN BOOLEAN ELSE {FALSE})
          /\ UNCHANGED link
    /\ UNCHANGED <<clients, mutex, main, worker>>

-----------------------------------------------------------------------------
(* processClientData, in a worker.                                         *)

Valid(w) == info[w] # None /\ info[w] \in DOMAIN clients

\* What a read through clientInfo may return: nothing through a null pointer, anything from memory
\* that is no entry any more.
Seen(w) ==
    IF info[w] = None THEN {} ELSE IF Valid(w) THEN {clients[info[w]]} ELSE Entries

\* A write through clientInfo; one into freed memory changes no entry.
Set(w, entry) ==
    /\ info[w] # None
    /\ clients' = IF Valid(w) THEN [clients EXCEPT ![info[w]] = entry] ELSE clients

Goto(w, place) == pc' = [pc EXCEPT ![w] = place] /\ UNCHANGED <<msg, info, handled>>

Return(w) ==
    /\ pc' = [pc EXCEPT ![w] = "free"]
    /\ msg' = [msg EXCEPT ![w] = NoMessage]
    /\ info' = [info EXCEPT ![w] = None]
    /\ UNCHANGED handled

\* The search for the client's entry, under the mutex.
Find(w) ==
    /\ At(w, "find")
    /\ mutex = None
    /\ info' = [info EXCEPT ![w] =
                   IF \E i \in DOMAIN clients : clients[i].socket = msg[w].socket
                   THEN Position(msg[w].socket) ELSE None]
    /\ pc' = [pc EXCEPT ![w] = IF msg[w].kind = "login" THEN "start" ELSE "check"]
    /\ UNCHANGED <<link, clients, mutex, main, events, msg, handled, crashed>>

\* loginUser finds no such user, or another password: clientInfo is not used.
Refuse(w) ==
    /\ At(w, "start")
    /\ Post({msg[w].socket})
    /\ Return(w)
    /\ UNCHANGED <<link, clients, mutex, main, crashed>>

\* loginUser finds the password right.
Admit(w) ==
    /\ At(w, "start")
    /\ Goto(w, "tell")
    /\ UNCHANGED <<link, clients, mutex, main, events, crashed>>

\* "if (!clientInfo->isLoggedIn)" answers that the client must log in first, or is not logged in.
CheckLogin(w) ==
    /\ At(w, "check")
    /\ \E e \in Seen(w) :
          IF e.isLoggedIn
          THEN Goto(w, IF msg[w].kind = "logout" THEN "logout" ELSE "store") /\ UNCHANGED events
          ELSE Return(w) /\ Post({msg[w].socket})
    /\ UNCHANGED <<link, clients, mutex, main, crashed>>

\* handleLogout looks again, and returns without an answer.
CheckLogout(w) ==
    /\ At(w, "logout")
    /\ \E e \in Seen(w) : IF e.isLoggedIn THEN Goto(w, "tell") ELSE Return(w)
    /\ UNCHANGED <<link, clients, mutex, main, events, crashed>>

\* notifyFriendsStatusChange, for the user of the login or for the nickname of the entry.
TellFriendsOf(w) ==
    /\ At(w, "tell")
    /\ mutex = None
    /\ IF msg[w].kind = "login"
       THEN Post(FriendSockets(msg[w].user)) /\ Goto(w, "mark")
       ELSE /\ \E e \in Seen(w) : Post(IF e.user = None THEN {} ELSE FriendSockets(e.user))
            /\ Goto(w, "bye")
    /\ UNCHANGED <<link, clients, mutex, main, crashed>>

\* clientInfo->isLoggedIn = true, then clientInfo->nickname = nickname and the answer.
SetLoggedIn(w) ==
    /\ At(w, "mark")
    /\ \E e \in Seen(w) : Set(w, [e EXCEPT !.isLoggedIn = TRUE])
    /\ Goto(w, "name")
    /\ UNCHANGED <<link, mutex, main, events, crashed>>

SetNickname(w) ==
    /\ At(w, "name")
    /\ \E e \in Seen(w) : Set(w, [e EXCEPT !.user = msg[w].user])
    /\ Post({msg[w].socket})
    /\ Return(w)
    /\ UNCHANGED <<link, mutex, main, crashed>>

\* handleLogout answers on clientInfo->socket, then empties the entry.
SayBye(w) ==
    /\ At(w, "bye")
    /\ \E e \in Seen(w) : Post({e.socket})
    /\ Goto(w, "leave")
    /\ UNCHANGED <<link, clients, mutex, main, crashed>>

Leave(w) ==
    /\ At(w, "leave")
    /\ \E e \in Seen(w) : Set(w, [e EXCEPT !.isLoggedIn = FALSE, !.user = None])
    /\ Return(w)
    /\ UNCHANGED <<link, mutex, main, events, crashed>>

\* A chat message is inserted in the name of clientInfo->nickname; an INSERT that fails is answered.
Store(w) ==
    /\ At(w, "store")
    /\ Seen(w) # {}
    /\ \/ Goto(w, "deliver") /\ UNCHANGED events
       \/ Return(w) /\ Post({msg[w].socket})
    /\ UNCHANGED <<link, clients, mutex, main, crashed>>

\* It goes to the first entry of its receiver, if there is one, and is not answered.
Deliver(w) ==
    /\ At(w, "deliver")
    /\ mutex = None
    /\ Seen(w) # {}
    /\ IF Receivers(msg[w].user) = {}
       THEN UNCHANGED events
       ELSE \E i \in Receivers(msg[w].user) :
               /\ \A j \in Receivers(msg[w].user) : i <= j
               /\ Post({clients[i].socket})
    /\ Return(w)
    /\ UNCHANGED <<link, clients, mutex, main, crashed>>

\* The places where the next thing a handler does is to follow clientInfo.
Follows(w) ==
    \/ pc[w] \in {"check", "logout", "mark", "name", "bye", "leave", "store", "deliver"}
    \/ pc[w] = "tell" /\ msg[w].kind = "logout"

\* Following a null pointer ends the process; following a dangling one may.
Crash(w) ==
    /\ ~crashed
    /\ Follows(w)
    /\ ~Valid(w)
    /\ crashed' = TRUE
    /\ UNCHANGED <<link, clients, mutex, main, events, worker>>

-----------------------------------------------------------------------------
HandlerStep(w) ==
    \/ Find(w) \/ Refuse(w) \/ Admit(w) \/ CheckLogin(w) \/ CheckLogout(w) \/ TellFriendsOf(w)
    \/ SetLoggedIn(w) \/ SetNickname(w) \/ SayBye(w) \/ Leave(w) \/ Store(w) \/ Deliver(w)
    \/ Crash(w)

MainStep == Unlock \/ TellFriends \/ DeleteLater \/ RunEvent

Next ==
    \/ \E s \in Sockets : handleNewConnection(s) \/ RemoveEntry(s)
    \/ \E s \in Sockets, w \in Workers : handleClientData(s, w)
    \/ MainStep
    \/ \E w \in Workers : HandlerStep(w)

Spec == Init /\ [][Next]_vars

\* The main thread's event loop and the workers run; clients need not connect, send or leave.
FairSpec ==
    /\ Spec
    /\ WF_vars(MainStep)
    /\ \A w \in Workers : WF_vars(HandlerStep(w))

-----------------------------------------------------------------------------
(* Properties.                                                             *)

Places == {"free", "find", "start", "check", "logout", "tell", "mark", "name", "bye", "leave",
           "store", "deliver"}

\* Every variable has its type, and a pointer lives no longer than the handling of one message.
TypeOK ==
    /\ link \in [Sockets -> {"new", "open", "closed", "deleted"}]
    /\ clients \in Seq(Entries)
    /\ mutex \in {"main", None}
    /\ main \in {Idle} \cup [at : {"unlock", "unlisted", "tell", "delete"}, socket : Sockets,
                            user : Users \cup {None}]
    /\ events \in Seq([kind : {"write", "delete"}, to : SUBSET Sockets])
    /\ pc \in [Workers -> Places]
    /\ msg \in [Workers -> Messages \cup {NoMessage}]
    /\ info \in [Workers -> Nat \cup {None}]
    /\ \A w \in Workers : pc[w] = "free" => info[w] = None
    /\ handled \in 0 .. MaxMessages
    /\ crashed \in BOOLEAN

\* The list is exact at any time: each open connection has one entry and no entry outlives its
\* connection, so that what a locked loop over clients posts is posted to an existing socket
\* (handleNewConnection, handleClientDisconnection).
ListIsExact ==
    /\ \A i, j \in DOMAIN clients : clients[i].socket = clients[j].socket => i = j
    /\ \A s \in Sockets : link[s] = "open" <=> \E i \in DOMAIN clients : clients[i].socket = s

\* No socket is deleted under an event posted before its disconnection: a delete event is only for
\* a closed connection, once, and behind everything that was posted while it was open.
DeletedOnce ==
    \A i \in DOMAIN events : events[i].kind = "delete" =>
        \A s \in events[i].to :
            /\ link[s] = "closed"
            /\ \A j \in DOMAIN events : events[j].kind = "delete" /\ s \in events[j].to => i = j

\* A message that was handed to a worker is handled to its end, unless the process dies.
MessagesAreHandled == \A w \in Workers : (pc[w] # "free") ~> (pc[w] = "free" \/ crashed)

\* Calling handleLogout inside the lock "may cause a deadlock" (server.cpp:1321): outside it, the
\* connections that have ended are all cleaned up to the deletion of their sockets.
DisconnectionsEnd ==
    (\E s \in Sockets : link[s] = "closed") ~>
        (crashed \/ \A s \in Sockets : link[s] # "closed")

\* processClientData fetches "the corresponding client's information" (server.cpp:268) under the
\* mutex that "protects the list of clients" (server.h:49): the entry a handler follows its pointer
\* to is the entry of the connection its message came from.
HandlerActsForItsClient ==
    \A w \in Workers : Follows(w) /\ Valid(w) => clients[info[w]].socket = msg[w].socket

\* The README says that crashes caused by threads are avoided (README.md:503).
NeverCrashes == ~crashed
=============================================================================
