--------------------------- MODULE SessionsProofs ---------------------------
(***************************************************************************)
(* For any connections, users and workers: the list of clients is exact    *)
(* and sockets are deleted once.  Both rest on the main thread alone       *)
(* adding and removing entries, while the workers, whatever their pointers *)
(* point at, change only the other two fields of an entry.                 *)
(***************************************************************************)
EXTENDS Sessions, TLAPS

\* A worker that handles a message has one (handleClientData).
MessageFits == \A w \in Workers : pc[w] # "free" => msg[w] \in Messages

\* The connection the main thread is cleaning up is closed, and not yet to be deleted.
MainFits ==
    main # Idle =>
        /\ link[main.socket] = "closed"
        /\ \A i \in DOMAIN events :
              events[i].kind = "delete" => main.socket \notin events[i].to

SessionsInv == TypeOK /\ MessageFits /\ ListIsExact /\ DeletedOnce /\ MainFits

\* What a step of a worker may do to the list and to the event queue.
KeepsSockets ==
    /\ DOMAIN clients' = DOMAIN clients
    /\ \A i \in DOMAIN clients : clients'[i].socket = clients[i].socket

OnlyWrites ==
    \/ events' = events
    \/ \E to \in SUBSET Sockets : events' = Append(events, [kind |-> "write", to |-> to])

-----------------------------------------------------------------------------
\* The socket of an entry has a position, and the entry there is its own.
LEMMA PositionOfSocket ==
    ASSUME NEW s \in Sockets, \E i \in DOMAIN clients : clients[i].socket = s
    PROVE  Position(s) \in DOMAIN clients /\ clients[Position(s)].socket = s
  BY DEF Position

\* Posting writes to existing connections extends the event queue by at most one write.
LEMMA PostWrites ==
    ASSUME TypeOK, NEW to \in SUBSET Sockets, Post(to)
    PROVE  OnlyWrites /\ events' \in Seq([kind : {"write", "delete"}, to : SUBSET Sockets])
  <1>1. events \in Seq([kind : {"write", "delete"}, to : SUBSET Sockets])
    BY DEF TypeOK
  <1>2. CASE events' = events
    BY <1>1, <1>2 DEF OnlyWrites
  <1>3. CASE events' = Append(events, [kind |-> "write", to |-> to])
    <2>1. [kind |-> "write", to |-> to] \in [kind : {"write", "delete"}, to : SUBSET Sockets]
      OBVIOUS
    <2>2. events' \in Seq([kind : {"write", "delete"}, to : SUBSET Sockets])
      BY <1>1, <1>3, <2>1
    <2>3. OnlyWrites
      BY <1>3 DEF OnlyWrites
    <2> QED
      BY <2>2, <2>3
  <1> QED
    BY <1>2, <1>3 DEF Post

\* A write through clientInfo keeps the entry's connection, or hits no entry.
LEMMA SetKeepsSockets ==
    ASSUME TypeOK, NEW w \in Workers, NEW e \in Entries, NEW seen \in Seen(w),
           e.socket = seen.socket, Set(w, e)
    PROVE  KeepsSockets /\ clients' \in Seq(Entries)
  <1>1. clients \in Seq(Entries)
    BY DEF TypeOK
  <1>2. CASE Valid(w)
    <2>1. info[w] \in DOMAIN clients /\ clients' = [clients EXCEPT ![info[w]] = e]
      BY <1>2 DEF Set, Valid
    <2>2. seen = clients[info[w]]
      BY <1>2 DEF Seen, Valid
    <2> QED
      BY <1>1, <2>1, <2>2 DEF KeepsSockets
  <1>3. CASE ~Valid(w)
    BY <1>1, <1>3 DEF Set, KeepsSockets
  <1> QED
    BY <1>2, <1>3

\* What is read through a pointer is an entry.
LEMMA SeenIsEntry ==
    ASSUME TypeOK, NEW w \in Workers
    PROVE  Seen(w) \subseteq Entries
  <1>1. clients \in Seq(Entries)
    BY DEF TypeOK
  <1> QED
    BY <1>1 DEF Seen, Valid

\* The list and the sockets stay in step whenever the list keeps its sockets and only writes are
\* posted.
LEMMA QuietStep ==
    ASSUME SessionsInv, KeepsSockets, OnlyWrites, UNCHANGED <<link, main>>
    PROVE  ListIsExact' /\ DeletedOnce' /\ MainFits'
  <1>1. ListIsExact'
    BY DEF SessionsInv, ListIsExact, KeepsSockets
  <1>2. \A i \in DOMAIN events' :
           events'[i].kind = "delete" => i \in DOMAIN events /\ events'[i] = events[i]
    <2>1. CASE events' = events
      BY <2>1
    <2>2. CASE \E to \in SUBSET Sockets : events' = Append(events, [kind |-> "write", to |-> to])
      BY <2>2 DEF SessionsInv, TypeOK
    <2> QED
      BY <2>1, <2>2 DEF OnlyWrites
  <1>3. DeletedOnce'
    BY <1>2 DEF SessionsInv, DeletedOnce
  <1>4. MainFits'
    BY <1>2 DEF SessionsInv, MainFits
  <1> QED
    BY <1>1, <1>3, <1>4

-----------------------------------------------------------------------------
(* One lemma per action of a worker.                                       *)

\* What a worker's step has to do for the invariant to be kept.
GoodStep ==
    /\ TypeOK' /\ MessageFits'
    /\ KeepsSockets /\ OnlyWrites
    /\ UNCHANGED <<link, main>>

\* A handler that goes on keeps the types of the workers' variables.
LEMMA GotoTypes ==
    ASSUME SessionsInv, NEW w \in Workers, NEW place \in Places, pc[w] # "free", place # "free",
           Goto(w, place)
    PROVE  /\ pc' \in [Workers -> Places] /\ UNCHANGED <<msg, info, handled>>
           /\ \A v \in Workers : pc'[v] = "free" => info'[v] = None
           /\ MessageFits'
  BY DEF SessionsInv, TypeOK, Goto, MessageFits

\* A handler that returns keeps the types of the workers' variables.
LEMMA ReturnTypes ==
    ASSUME SessionsInv, NEW w \in Workers, Return(w)
    PROVE  /\ pc' \in [Workers -> Places]
           /\ msg' \in [Workers -> Messages \cup {NoMessage}]
           /\ info' \in [Workers -> Nat \cup {None}]
           /\ \A v \in Workers : pc'[v] = "free" => info'[v] = None
           /\ handled' = handled
           /\ MessageFits'
  BY DEF SessionsInv, TypeOK, Return, MessageFits, Places

\* The search stores the position of an entry, or no pointer.
LEMMA FindKeepsInv ==
    ASSUME SessionsInv, NEW w \in Workers, Find(w)
    PROVE  GoodStep
  <1>1. /\ clients \in Seq(Entries)
        /\ msg[w] \in Messages
    BY DEF SessionsInv, TypeOK, MessageFits, Find, At
  <1>2. msg[w].socket \in Sockets
    BY <1>1 DEF Messages
  <1>3. info' \in [Workers -> Nat \cup {None}]
    <2>1. CASE \E i \in DOMAIN clients : clients[i].socket = msg[w].socket
      <3>1. Position(msg[w].socket) \in DOMAIN clients
        BY <1>2, <2>1, PositionOfSocket
      <3>2. Position(msg[w].socket) \in Nat
        BY <1>1, <3>1
      <3> QED
        BY <2>1, <3>2 DEF Find, SessionsInv, TypeOK
    <2>2. CASE ~\E i \in DOMAIN clients : clients[i].socket = msg[w].socket
      BY <2>2 DEF Find, SessionsInv, TypeOK
    <2> QED
      BY <2>1, <2>2
  <1>4. pc' \in [Workers -> Places] /\ \A v \in Workers : pc'[v] = "free" => info'[v] = None
    BY DEF Find, SessionsInv, TypeOK, Places
  <1>5. MessageFits'
    BY DEF Find, SessionsInv, TypeOK, MessageFits, Places, At
  <1>6. TypeOK'
    BY <1>3, <1>4 DEF Find, SessionsInv, TypeOK, At
  <1> QED
    BY <1>5, <1>6 DEF Find, GoodStep, KeepsSockets, OnlyWrites

\* A handler that answers its client and returns.
LEMMA AnswerKeepsInv ==
    ASSUME SessionsInv, NEW w \in Workers, pc[w] # "free", Post({msg[w].socket}), Return(w),
           UNCHANGED <<link, clients, mutex, main, crashed>>
    PROVE  GoodStep
  <1>1. {msg[w].socket} \in SUBSET Sockets
    BY DEF SessionsInv, MessageFits, Messages
  <1>2. OnlyWrites /\ events' \in Seq([kind : {"write", "delete"}, to : SUBSET Sockets])
    BY <1>1, PostWrites DEF SessionsInv
  <1>3. TypeOK' /\ MessageFits'
    BY <1>2, ReturnTypes DEF SessionsInv, TypeOK
  <1> QED
    BY <1>2, <1>3 DEF GoodStep, KeepsSockets

\* A handler that goes on to another place and touches nothing shared.
LEMMA GoOnKeepsInv ==
    ASSUME SessionsInv, NEW w \in Workers, pc[w] # "free", NEW place \in Places,
           place # "free", Goto(w, place), UNCHANGED <<link, clients, mutex, main, events, crashed>>
    PROVE  GoodStep
  <1>1. TypeOK' /\ MessageFits'
    BY GotoTypes DEF SessionsInv, TypeOK
  <1> QED
    BY <1>1 DEF GoodStep, KeepsSockets, OnlyWrites

\* A handler that tells some connections and goes on.
LEMMA TellKeepsInv ==
    ASSUME SessionsInv, NEW w \in Workers, pc[w] # "free", NEW place \in Places,
           place # "free", Goto(w, place), NEW to \in SUBSET Sockets, Post(to),
           UNCHANGED <<link, clients, mutex, main, crashed>>
    PROVE  GoodStep
  <1>1. OnlyWrites /\ events' \in Seq([kind : {"write", "delete"}, to : SUBSET Sockets])
    BY PostWrites DEF SessionsInv
  <1>2. TypeOK' /\ MessageFits'
    BY <1>1, GotoTypes DEF SessionsInv, TypeOK
  <1> QED
    BY <1>1, <1>2 DEF GoodStep, KeepsSockets

\* A handler that returns without an answer.
LEMMA LeaveQuietly ==
    ASSUME SessionsInv, NEW w \in Workers, Return(w),
           UNCHANGED <<link, clients, mutex, main, events, crashed>>
    PROVE  GoodStep
  <1>1. TypeOK' /\ MessageFits'
    BY ReturnTypes DEF SessionsInv, TypeOK
  <1> QED
    BY <1>1 DEF GoodStep, KeepsSockets, OnlyWrites

\* The sockets of the entries are connections.
LEMMA ListedSockets ==
    ASSUME TypeOK
    PROVE  \A i \in DOMAIN clients : clients[i].socket \in Sockets
  <1>1. clients \in Seq(Entries)
    BY DEF TypeOK
  <1>2. \A i \in DOMAIN clients : clients[i] \in Entries
    BY <1>1
  <1> QED
    BY <1>2 DEF Entries

\* So are those that a status notification is posted to.
LEMMA FriendSocketsType ==
    ASSUME TypeOK, NEW user
    PROVE  FriendSockets(user) \in SUBSET Sockets
  BY ListedSockets DEF FriendSockets

\* Text message and logout: the check of the login.
LEMMA CheckLoginKeepsInv ==
    ASSUME SessionsInv, NEW w \in Workers, CheckLogin(w)
    PROVE  GoodStep
  <1>1. PICK e \in Seen(w) :
           IF e.isLoggedIn
           THEN Goto(w, IF msg[w].kind = "logout" THEN "logout" ELSE "store") /\ UNCHANGED events
           ELSE Return(w) /\ Post({msg[w].socket})
    BY DEF CheckLogin
  <1>2. pc[w] # "free" /\ UNCHANGED <<link, clients, mutex, main, crashed>>
    BY DEF CheckLogin, At
  <1>3. CASE e.isLoggedIn
    <2> DEFINE place == IF msg[w].kind = "logout" THEN "logout" ELSE "store"
    <2>1. place \in Places /\ place # "free"
      BY DEF Places
    <2>2. Goto(w, place) /\ UNCHANGED events
      BY <1>1, <1>3
    <2> QED
      BY <1>2, <2>1, <2>2, GoOnKeepsInv
  <1>4. CASE ~e.isLoggedIn
    BY <1>1, <1>2, <1>4, AnswerKeepsInv
  <1> QED
    BY <1>3, <1>4

\* handleLogout: the second check of the login.
LEMMA CheckLogoutKeepsInv ==
    ASSUME SessionsInv, NEW w \in Workers, CheckLogout(w)
    PROVE  GoodStep
  <1>1. PICK e \in Seen(w) : IF e.isLoggedIn THEN Goto(w, "tell") ELSE Return(w)
    BY DEF CheckLogout
  <1>2. pc[w] # "free" /\ UNCHANGED <<link, clients, mutex, main, events, crashed>>
    BY DEF CheckLogout, At
  <1>3. "tell" \in Places /\ "tell" # "free"
    BY DEF Places
  <1>4. CASE e.isLoggedIn
    BY <1>1, <1>2, <1>3, <1>4, GoOnKeepsInv
  <1>5. CASE ~e.isLoggedIn
    BY <1>1, <1>2, <1>5, LeaveQuietly
  <1> QED
    BY <1>4, <1>5

\* notifyFriendsStatusChange in a worker.
LEMMA TellFriendsOfKeepsInv ==
    ASSUME SessionsInv, NEW w \in Workers, TellFriendsOf(w)
    PROVE  GoodStep
  <1>1. pc[w] # "free" /\ UNCHANGED <<link, clients, mutex, main, crashed>>
    BY DEF TellFriendsOf, At
  <1>2. /\ "mark" \in Places /\ "mark" # "free"
        /\ "bye" \in Places /\ "bye" # "free"
    BY DEF Places
  <1>3. \A user : FriendSockets(user) \in SUBSET Sockets
    BY FriendSocketsType DEF SessionsInv
  <1>4. CASE msg[w].kind = "login"
    <2>1. Post(FriendSockets(msg[w].user)) /\ Goto(w, "mark")
      BY <1>4 DEF TellFriendsOf
    <2> QED
      BY <1>1, <1>2, <1>3, <2>1, TellKeepsInv
  <1>5. CASE msg[w].kind # "login"
    <2>1. PICK e \in Seen(w) : Post(IF e.user = None THEN {} ELSE FriendSockets(e.user))
      BY <1>5 DEF TellFriendsOf
    <2>2. Goto(w, "bye")
      BY <1>5 DEF TellFriendsOf
    <2> DEFINE to == IF e.user = None THEN {} ELSE FriendSockets(e.user)
    <2>3. to \in SUBSET Sockets
      BY <1>3
    <2>4. Post(to)
      BY <2>1
    <2> HIDE DEF to
    <2> QED
      BY <1>1, <1>2, <2>2, <2>3, <2>4, TellKeepsInv
  <1> QED
    BY <1>4, <1>5

\* The writes of login and logout change fields of an entry, never its socket.
LEMMA SetLoggedInKeepsInv ==
    ASSUME SessionsInv, NEW w \in Workers, SetLoggedIn(w)
    PROVE  GoodStep
  <1>1. PICK e \in Seen(w) : Set(w, [e EXCEPT !.isLoggedIn = TRUE])
    BY DEF SetLoggedIn
  <1>2. e \in Entries
    BY SeenIsEntry DEF SessionsInv
  <1>3. [e EXCEPT !.isLoggedIn = TRUE] \in Entries /\ [e EXCEPT !.isLoggedIn = TRUE].socket = e.socket
    BY <1>2 DEF Entries
  <1>4. KeepsSockets /\ clients' \in Seq(Entries)
    BY <1>1, <1>3, SetKeepsSockets DEF SessionsInv
  <1>5. "name" \in Places /\ pc[w] # "free" /\ Goto(w, "name")
    BY DEF SetLoggedIn, Places, At
  <1>6. /\ pc' \in [Workers -> Places] /\ UNCHANGED <<msg, info, handled>>
        /\ \A v \in Workers : pc'[v] = "free" => info'[v] = None
        /\ MessageFits'
    BY <1>5, GotoTypes
  <1>7. TypeOK'
    BY <1>4, <1>6 DEF SetLoggedIn, SessionsInv, TypeOK
  <1> QED
    BY <1>4, <1>6, <1>7 DEF SetLoggedIn, GoodStep, OnlyWrites

\* Login: the nickname, and the answer.
LEMMA SetNicknameKeepsInv ==
    ASSUME SessionsInv, NEW w \in Workers, SetNickname(w)
    PROVE  GoodStep
  <1>1. PICK e \in Seen(w) : Set(w, [e EXCEPT !.user = msg[w].user])
    BY DEF SetNickname
  <1>2. e \in Entries
    BY SeenIsEntry DEF SessionsInv
  <1>3. msg[w].user \in Users \cup {None} /\ {msg[w].socket} \in SUBSET Sockets
    BY DEF SetNickname, SessionsInv, MessageFits, Messages, At
  <1>4. /\ [e EXCEPT !.user = msg[w].user] \in Entries
        /\ [e EXCEPT !.user = msg[w].user].socket = e.socket
    BY <1>2, <1>3 DEF Entries
  <1>5. KeepsSockets /\ clients' \in Seq(Entries)
    BY <1>1, <1>4, SetKeepsSockets DEF SessionsInv
  <1>6. OnlyWrites /\ events' \in Seq([kind : {"write", "delete"}, to : SUBSET Sockets])
    BY <1>3, PostWrites DEF SetNickname, SessionsInv
  <1>7. TypeOK' /\ MessageFits'
    BY <1>5, <1>6, ReturnTypes DEF SetNickname, SessionsInv, TypeOK
  <1> QED
    BY <1>5, <1>6, <1>7 DEF SetNickname, GoodStep

\* handleLogout: the answer goes to the socket of whatever entry is read.
LEMMA SayByeKeepsInv ==
    ASSUME SessionsInv, NEW w \in Workers, SayBye(w)
    PROVE  GoodStep
  <1>1. PICK e \in Seen(w) : Post({e.socket})
    BY DEF SayBye
  <1>2. {e.socket} \in SUBSET Sockets
    BY SeenIsEntry DEF SessionsInv, Entries
  <1>3. /\ "leave" \in Places /\ pc[w] # "free" /\ Goto(w, "leave")
        /\ UNCHANGED <<link, clients, mutex, main, crashed>>
    BY DEF SayBye, Places, At
  <1> QED
    BY <1>1, <1>2, <1>3, TellKeepsInv

\* handleLogout: the entry is emptied, its socket stays.
LEMMA LeaveKeepsInv ==
    ASSUME SessionsInv, NEW w \in Workers, Leave(w)
    PROVE  GoodStep
  <1>1. PICK e \in Seen(w) : Set(w, [e EXCEPT !.isLoggedIn = FALSE, !.user = None])
    BY DEF Leave
  <1> DEFINE new == [e EXCEPT !.isLoggedIn = FALSE, !.user = None]
  <1>2. e \in Entries
    BY SeenIsEntry DEF SessionsInv
  <1>3. new \in Entries /\ new.socket = e.socket
    BY <1>2 DEF Entries
  <1>4. KeepsSockets /\ clients' \in Seq(Entries)
    BY <1>1, <1>3, SetKeepsSockets DEF SessionsInv
  <1>5. TypeOK' /\ MessageFits'
    BY <1>4, ReturnTypes DEF Leave, SessionsInv, TypeOK
  <1> QED
    BY <1>4, <1>5 DEF Leave, GoodStep, OnlyWrites

\* Text message: the INSERT.
LEMMA StoreKeepsInv ==
    ASSUME SessionsInv, NEW w \in Workers, Store(w)
    PROVE  GoodStep
  <1>1. /\ "deliver" \in Places /\ pc[w] # "free"
        /\ UNCHANGED <<link, clients, mutex, main, crashed>>
    BY DEF Store, Places, At
  <1>2. CASE Goto(w, "deliver") /\ UNCHANGED events
    BY <1>1, <1>2, GoOnKeepsInv
  <1>3. CASE Return(w) /\ Post({msg[w].socket})
    BY <1>1, <1>3, AnswerKeepsInv
  <1> QED
    BY <1>2, <1>3 DEF Store

\* Text message: the receiver's connection is one of the list.
LEMMA DeliverKeepsInv ==
    ASSUME SessionsInv, NEW w \in Workers, Deliver(w)
    PROVE  GoodStep
  <1>1. Return(w) /\ UNCHANGED <<link, clients, mutex, main, crashed>>
    BY DEF Deliver
  <1>2. CASE UNCHANGED events
    BY <1>1, <1>2, LeaveQuietly
  <1>3. CASE \E i \in Receivers(msg[w].user) : Post({clients[i].socket})
    <2>1. PICK i \in DOMAIN clients : Post({clients[i].socket})
      BY <1>3 DEF Receivers
    <2>2. {clients[i].socket} \in SUBSET Sockets
      BY ListedSockets DEF SessionsInv
    <2>3. OnlyWrites /\ events' \in Seq([kind : {"write", "delete"}, to : SUBSET Sockets])
      BY <2>1, <2>2, PostWrites DEF SessionsInv
    <2>4. TypeOK' /\ MessageFits'
      BY <1>1, <2>3, ReturnTypes DEF SessionsInv, TypeOK
    <2> QED
      BY <1>1, <2>3, <2>4 DEF GoodStep, KeepsSockets
  <1> QED
    BY <1>2, <1>3 DEF Deliver

\* Every step of a worker is a good one.
LEMMA HandlerKeepsInv ==
    ASSUME SessionsInv, NEW w \in Workers, HandlerStep(w)
    PROVE  SessionsInv'
  <1>1. CASE Find(w)
    BY <1>1, FindKeepsInv, QuietStep DEF GoodStep, SessionsInv
  <1>2. CASE Refuse(w)
    <2>1. GoodStep
      BY <1>2, AnswerKeepsInv DEF Refuse, At
    <2> QED
      BY <2>1, QuietStep DEF GoodStep, SessionsInv
  <1>3. CASE Admit(w)
    <2>1. "tell" \in Places /\ "tell" # "free"
      BY DEF Places
    <2>2. GoodStep
      BY <1>3, <2>1, GoOnKeepsInv DEF Admit, At
    <2> QED
      BY <2>2, QuietStep DEF GoodStep, SessionsInv
  <1>4. CASE CheckLogin(w)
    BY <1>4, CheckLoginKeepsInv, QuietStep DEF GoodStep, SessionsInv
  <1>5. CASE CheckLogout(w)
    BY <1>5, CheckLogoutKeepsInv, QuietStep DEF GoodStep, SessionsInv
  <1>6. CASE TellFriendsOf(w)
    BY <1>6, TellFriendsOfKeepsInv, QuietStep DEF GoodStep, SessionsInv
  <1>7. CASE SetLoggedIn(w)
    BY <1>7, SetLoggedInKeepsInv, QuietStep DEF GoodStep, SessionsInv
  <1>8. CASE SetNickname(w)
    BY <1>8, SetNicknameKeepsInv, QuietStep DEF GoodStep, SessionsInv
  <1>9. CASE SayBye(w)
    BY <1>9, SayByeKeepsInv, QuietStep DEF GoodStep, SessionsInv
  <1>10. CASE Leave(w)
    BY <1>10, LeaveKeepsInv, QuietStep DEF GoodStep, SessionsInv
  <1>11. CASE Store(w)
    BY <1>11, StoreKeepsInv, QuietStep DEF GoodStep, SessionsInv
  <1>12. CASE Deliver(w)
    BY <1>12, DeliverKeepsInv, QuietStep DEF GoodStep, SessionsInv
  <1>13. CASE Crash(w)
    <2>1. TypeOK' /\ MessageFits'
      BY <1>13 DEF Crash, worker, SessionsInv, TypeOK, MessageFits
    <2>2. KeepsSockets /\ OnlyWrites /\ UNCHANGED <<link, main>>
      BY <1>13 DEF Crash, KeepsSockets, OnlyWrites
    <2> QED
      BY <2>1, <2>2, QuietStep DEF SessionsInv
  <1> QED
    BY <1>1, <1>2, <1>3, <1>4, <1>5, <1>6, <1>7, <1>8, <1>9, <1>10, <1>11, <1>12, <1>13
       DEF HandlerStep

-----------------------------------------------------------------------------
(* The main thread.                                                        *)

\* The main thread's record is the same connection's until the clean-up is over.
LEMMA MainTyped ==
    ASSUME TypeOK, main # Idle
    PROVE  main \in [at : {"unlock", "unlisted", "tell", "delete"}, socket : Sockets,
                     user : Users \cup {None}]
  BY DEF TypeOK

\* Between two callbacks the main thread cleans up nothing.
LEMMA MainIsIdle ==
    ASSUME TypeOK, MainAt("idle")
    PROVE  main = Idle
  BY DEF TypeOK, MainAt, Idle

\* A new connection gets an entry behind all others.
LEMMA NewConnectionKeepsInv ==
    ASSUME SessionsInv, NEW s \in Sockets, handleNewConnection(s)
    PROVE  SessionsInv'
  <1> DEFINE new == [socket |-> s, user |-> None, isLoggedIn |-> FALSE]
  <1>1. clients \in Seq(Entries) /\ new \in Entries
    BY DEF SessionsInv, TypeOK, Entries
  <1>2. clients' = Append(clients, new)
    BY DEF handleNewConnection
  <1>3. clients' \in Seq(Entries)
    BY <1>1, <1>2
  <1>4. /\ DOMAIN clients' = DOMAIN clients \cup {Len(clients) + 1}
        /\ \A i \in DOMAIN clients : clients'[i] = clients[i] /\ i # Len(clients) + 1
        /\ clients'[Len(clients) + 1].socket = s
    BY <1>1, <1>2
  <1>5. link[s] = "new" /\ link' = [link EXCEPT ![s] = "open"]
    BY DEF handleNewConnection
  <1>6. info' \in [Workers -> Nat \cup {None}] /\ \A w \in Workers : info[w] = None => info'[w] = None
    BY DEF handleNewConnection, SessionsInv, TypeOK, Lost
  <1>7. TypeOK'
    <2>1. link' \in [Sockets -> {"new", "open", "closed", "deleted"}]
      BY <1>5 DEF SessionsInv, TypeOK
    <2>2. /\ UNCHANGED <<mutex, main, events, pc, msg, handled, crashed>>
      BY DEF handleNewConnection
    <2> QED
      BY <1>3, <1>6, <2>1, <2>2 DEF SessionsInv, TypeOK
  <1>8. \A i \in DOMAIN clients : clients[i].socket # s
    BY <1>5 DEF SessionsInv, ListIsExact
  <1>9. ListIsExact'
    <2>1. \A i, j \in DOMAIN clients' : clients'[i].socket = clients'[j].socket => i = j
      BY <1>4, <1>8 DEF SessionsInv, ListIsExact
    <2>2. \A t \in Sockets : link'[t] = "open" <=> \E i \in DOMAIN clients' : clients'[i].socket = t
      <3>1. \A t \in Sockets \ {s} : link'[t] = link[t]
        BY <1>5 DEF SessionsInv, TypeOK
      <3>2. link'[s] = "open"
        BY <1>5 DEF SessionsInv, TypeOK
      <3> QED
        BY <1>4, <1>8, <3>1, <3>2 DEF SessionsInv, ListIsExact
    <2> QED
      BY <2>1, <2>2 DEF ListIsExact
  <1>10. DeletedOnce'
    BY <1>5 DEF handleNewConnection, SessionsInv, TypeOK, DeletedOnce
  <1>11. MainFits' /\ MessageFits'
    BY DEF handleNewConnection, SessionsInv, MainFits, MessageFits
  <1> QED
    BY <1>7, <1>9, <1>10, <1>11 DEF SessionsInv

\* A worker takes a message: nothing it shares changes.
LEMMA ClientDataKeepsInv ==
    ASSUME SessionsInv, NEW s \in Sockets, NEW w \in Workers, handleClientData(s, w)
    PROVE  SessionsInv'
  <1>1. TypeOK'
    <2>1. handled' \in 0 .. MaxMessages
      BY SessionsAssumption DEF handleClientData, SessionsInv, TypeOK
    <2>2. msg' \in [Workers -> Messages \cup {NoMessage}]
      BY DEF handleClientData, SessionsInv, TypeOK
    <2>3. pc' \in [Workers -> Places] /\ \A v \in Workers : pc'[v] = "free" => info'[v] = None
      BY DEF handleClientData, SessionsInv, TypeOK, Places
    <2> QED
      BY <2>1, <2>2, <2>3 DEF handleClientData, SessionsInv, TypeOK
  <1>2. MessageFits'
    BY DEF handleClientData, SessionsInv, TypeOK, MessageFits
  <1>3. KeepsSockets /\ OnlyWrites /\ UNCHANGED <<link, main>>
    BY DEF handleClientData, KeepsSockets, OnlyWrites
  <1> QED
    BY <1>1, <1>2, <1>3, QuietStep DEF SessionsInv

\* What is left of the list without one entry.
LEMMA WithoutEntry ==
    ASSUME clients \in Seq(Entries), NEW i \in DOMAIN clients
    PROVE  /\ Without(i) \in Seq(Entries)
           /\ DOMAIN Without(i) = 1 .. Len(clients) - 1
           /\ \A j \in DOMAIN Without(i) :
                 /\ j < i => j \in DOMAIN clients /\ Without(i)[j] = clients[j]
                 /\ j >= i => j + 1 \in DOMAIN clients /\ Without(i)[j] = clients[j + 1]
  <1>1. Len(clients) \in Nat /\ DOMAIN clients = 1 .. Len(clients) /\ i \in 1 .. Len(clients)
    OBVIOUS
  <1>2. \A j \in 1 .. Len(clients) : clients[j] \in Entries
    BY <1>1
  <1>3. \A j \in 1 .. Len(clients) - 1 :
           (IF j < i THEN clients[j] ELSE clients[j + 1]) \in Entries
    BY <1>1, <1>2
  <1>4. Without(i) \in [1 .. Len(clients) - 1 -> Entries]
    BY <1>3 DEF Without
  <1>5. Without(i) \in Seq(Entries)
    BY <1>1, <1>4
  <1> QED
    BY <1>1, <1>5 DEF Without

\* A connection that ends loses its entry, and no other.
LEMMA RemoveEntryKeepsInv ==
    ASSUME SessionsInv, NEW s \in Sockets, RemoveEntry(s)
    PROVE  SessionsInv'
  <1> DEFINE i == Position(s)
  <1>1. link[s] = "open" /\ main = Idle
    BY MainIsIdle DEF RemoveEntry, SessionsInv, MainAt
  <1>2. clients \in Seq(Entries)
    BY DEF SessionsInv, TypeOK
  <1>3. i \in DOMAIN clients /\ clients[i].socket = s
    BY <1>1, PositionOfSocket DEF SessionsInv, ListIsExact
  <1>4. /\ link' = [link EXCEPT ![s] = "closed"]
        /\ mutex' = "main"
        /\ main' = [at |-> IF clients[i].isLoggedIn THEN "unlock" ELSE "unlisted",
                    socket |-> s, user |-> clients[i].user]
        /\ clients' = Without(i)
        /\ info' = [w \in Workers |->
                       IF i = 1 /\ Len(clients) > 1 /\ info[w] \notin {None, Lost}
                       THEN info[w] - 1 ELSE info[w]]
        /\ UNCHANGED <<events, pc, msg, handled, crashed>>
    BY DEF RemoveEntry
  <1> HIDE DEF i
  <1>5. clients[i] \in Entries
    BY <1>2, <1>3
  <1>6. /\ clients' \in Seq(Entries)
        /\ DOMAIN clients' = 1 .. Len(clients) - 1
        /\ \A j \in DOMAIN clients' :
              /\ j < i => j \in DOMAIN clients /\ clients'[j] = clients[j]
              /\ j >= i => j + 1 \in DOMAIN clients /\ clients'[j] = clients[j + 1]
    BY <1>2, <1>3, <1>4, WithoutEntry
  <1>7. TypeOK'
    <2>1. link' \in [Sockets -> {"new", "open", "closed", "deleted"}]
      BY <1>4 DEF SessionsInv, TypeOK
    <2>2. main' \in [at : {"unlock", "unlisted", "tell", "delete"}, socket : Sockets,
                     user : Users \cup {None}]
      BY <1>4, <1>5 DEF Entries
    <2>3. info' \in [Workers -> Nat \cup {None}]
      BY <1>4 DEF SessionsInv, TypeOK, Lost
    <2>4. \A w \in Workers : pc'[w] = "free" => info'[w] = None
      BY <1>4 DEF SessionsInv, TypeOK
    <2>5. mutex' \in {"main", None}
      BY <1>4
    <2> QED
      BY <1>4, <1>6, <2>1, <2>2, <2>3, <2>4, <2>5 DEF SessionsInv, TypeOK
  <1>8. \A t \in Sockets : link'[t] = IF t = s THEN "closed" ELSE link[t]
    BY <1>4 DEF SessionsInv, TypeOK
  <1>9. Len(clients) \in Nat /\ DOMAIN clients = 1 .. Len(clients)
    BY <1>2
  <1>10. ListIsExact'
    <2>1. \A j, k \in DOMAIN clients' : clients'[j].socket = clients'[k].socket => j = k
      <3> SUFFICES ASSUME NEW j \in DOMAIN clients', NEW k \in DOMAIN clients',
                          clients'[j].socket = clients'[k].socket
                   PROVE  j = k
        OBVIOUS
      <3> DEFINE from(x) == IF x < i THEN x ELSE x + 1
      <3>1. /\ j \in Nat /\ k \in Nat /\ i \in Nat
            /\ from(j) \in DOMAIN clients /\ from(k) \in DOMAIN clients
            /\ clients'[j] = clients[from(j)] /\ clients'[k] = clients[from(k)]
        BY <1>3, <1>6, <1>9
      <3>2. from(j) = from(k)
        BY <3>1 DEF SessionsInv, ListIsExact
      <3> QED
        BY <3>1, <3>2
    <2>2. ASSUME NEW j \in DOMAIN clients'
          PROVE  clients'[j].socket # s /\ link[clients'[j].socket] = "open"
      <3>1. PICK k \in DOMAIN clients : k # i /\ clients'[j] = clients[k]
        BY <1>3, <1>6, <1>9
      <3>2. clients[k].socket \in Sockets
        BY ListedSockets DEF SessionsInv
      <3> QED
        BY <1>3, <3>1, <3>2 DEF SessionsInv, ListIsExact
    <2>3. ASSUME NEW t \in Sockets, t # s, link[t] = "open"
          PROVE  \E j \in DOMAIN clients' : clients'[j].socket = t
      <3>1. PICK k \in DOMAIN clients : clients[k].socket = t
        BY <2>3 DEF SessionsInv, ListIsExact
      <3>2. k # i
        BY <1>3, <2>3, <3>1
      <3>3. CASE k < i
        <4>1. k \in DOMAIN clients'
          BY <1>3, <1>6, <1>9, <3>3
        <4> QED
          BY <1>6, <3>1, <3>3, <4>1
      <3>4. CASE k > i
        <4>1. k - 1 \in DOMAIN clients' /\ k - 1 >= i /\ (k - 1) + 1 = k
          BY <1>3, <1>6, <1>9, <3>4
        <4>2. clients'[k - 1] = clients[k]
          BY <1>6, <4>1
        <4> QED
          BY <3>1, <4>1, <4>2
      <3> QED
        BY <1>3, <1>9, <3>2, <3>3, <3>4
    <2> QED
      BY <1>8, <2>1, <2>2, <2>3 DEF ListIsExact
  <1>11. DeletedOnce'
    BY <1>4, <1>8 DEF SessionsInv, TypeOK, DeletedOnce
  <1>12. MainFits'
    <2>1. main'.socket = s /\ link'[s] = "closed"
      BY <1>4, <1>8
    <2>2. \A j \in DOMAIN events : events[j].kind = "delete" => s \notin events[j].to
      BY <1>1 DEF SessionsInv, DeletedOnce
    <2> QED
      BY <1>4, <2>1, <2>2 DEF MainFits
  <1>13. MessageFits'
    BY <1>4 DEF SessionsInv, MessageFits
  <1> QED
    BY <1>7, <1>10, <1>11, <1>12, <1>13 DEF SessionsInv

\* The release of the mutex.
LEMMA UnlockKeepsInv ==
    ASSUME SessionsInv, Unlock
    PROVE  SessionsInv'
  <1>1. main \in [at : {"unlock", "unlisted", "tell", "delete"}, socket : Sockets,
                  user : Users \cup {None}]
    BY MainTyped DEF Unlock, SessionsInv, MainAt, Idle
  <1>2. /\ main' = [main EXCEPT !.at = IF @ = "unlock" THEN "tell" ELSE "delete"]
        /\ mutex' = None /\ UNCHANGED <<link, clients, events, worker, crashed>>
    BY DEF Unlock
  <1>3. /\ main' \in [at : {"unlock", "unlisted", "tell", "delete"}, socket : Sockets,
                      user : Users \cup {None}]
        /\ main'.socket = main.socket
    BY <1>1, <1>2
  <1>4. TypeOK' /\ MessageFits' /\ ListIsExact' /\ DeletedOnce'
    BY <1>2, <1>3 DEF SessionsInv, TypeOK, MessageFits, ListIsExact, DeletedOnce, worker
  <1>5. MainFits'
    BY <1>2, <1>3 DEF SessionsInv, MainFits, Unlock, MainAt, Idle
  <1> QED
    BY <1>4, <1>5 DEF SessionsInv

\* The friends are told by writes to connections of the list.
LEMMA TellFriendsKeepsInv ==
    ASSUME SessionsInv, TellFriends
    PROVE  SessionsInv'
  <1>1. main # Idle /\ main \in [at : {"unlock", "unlisted", "tell", "delete"}, socket : Sockets,
                                user : Users \cup {None}]
    BY MainTyped DEF TellFriends, SessionsInv, MainAt, Idle
  <1>2. /\ main' = [main EXCEPT !.at = "delete"]
        /\ Post(FriendSockets(main.user))
        /\ UNCHANGED <<link, clients, mutex, worker, crashed>>
    BY DEF TellFriends
  <1>3. /\ main' \in [at : {"unlock", "unlisted", "tell", "delete"}, socket : Sockets,
                      user : Users \cup {None}]
        /\ main'.socket = main.socket
    BY <1>1, <1>2
  <1>4. OnlyWrites /\ events' \in Seq([kind : {"write", "delete"}, to : SUBSET Sockets])
    <2>1. FriendSockets(main.user) \in SUBSET Sockets
      BY FriendSocketsType DEF SessionsInv
    <2> QED
      BY <1>2, <2>1, PostWrites DEF SessionsInv
  <1>5. TypeOK' /\ MessageFits' /\ ListIsExact'
    BY <1>2, <1>3, <1>4 DEF SessionsInv, TypeOK, MessageFits, ListIsExact, worker
  <1>6. \A i \in DOMAIN events' :
           events'[i].kind = "delete" => i \in DOMAIN events /\ events'[i] = events[i]
    <2>1. CASE events' = events
      BY <2>1
    <2>2. CASE \E to \in SUBSET Sockets : events' = Append(events, [kind |-> "write", to |-> to])
      BY <2>2 DEF SessionsInv, TypeOK
    <2> QED
      BY <1>4, <2>1, <2>2 DEF OnlyWrites
  <1>7. DeletedOnce'
    BY <1>2, <1>6 DEF SessionsInv, DeletedOnce
  <1>8. MainFits'
    BY <1>1, <1>2, <1>3, <1>6 DEF SessionsInv, MainFits
  <1> QED
    BY <1>5, <1>7, <1>8 DEF SessionsInv

\* The deletion of the socket is posted, for the first time and behind everything else.
LEMMA DeleteLaterKeepsInv ==
    ASSUME SessionsInv, DeleteLater
    PROVE  SessionsInv'
  <1> DEFINE new == [kind |-> "delete", to |-> {main.socket}]
  <1>1. /\ main # Idle
        /\ events' = Append(events, new)
        /\ main' = Idle
        /\ UNCHANGED <<link, clients, mutex, worker, crashed>>
    BY DEF DeleteLater, MainAt, Idle
  <1>2. main.socket \in Sockets
    BY <1>1, MainTyped DEF SessionsInv
  <1>3. events \in Seq([kind : {"write", "delete"}, to : SUBSET Sockets])
    BY DEF SessionsInv, TypeOK
  <1>4. new \in [kind : {"write", "delete"}, to : SUBSET Sockets]
    BY <1>2
  <1>5. /\ events' \in Seq([kind : {"write", "delete"}, to : SUBSET Sockets])
        /\ DOMAIN events' = DOMAIN events \cup {Len(events) + 1}
        /\ \A i \in DOMAIN events : events'[i] = events[i] /\ i # Len(events) + 1
        /\ events'[Len(events) + 1] = new
    BY <1>1, <1>3, <1>4
  <1>6. TypeOK' /\ MessageFits' /\ ListIsExact' /\ MainFits'
    BY <1>1, <1>5 DEF SessionsInv, TypeOK, MessageFits, ListIsExact, MainFits, worker
  <1>7. /\ link[main.socket] = "closed"
        /\ \A i \in DOMAIN events : events[i].kind = "delete" => main.socket \notin events[i].to
    BY <1>1 DEF SessionsInv, MainFits
  <1>8. DeletedOnce'
    <2>1. link' = link
      BY <1>1
    <2>2. new.kind = "delete" /\ new.to = {main.socket}
      OBVIOUS
    <2> HIDE DEF new
    <2> QED
      BY <1>5, <1>7, <2>1, <2>2 DEF SessionsInv, DeletedOnce
  <1> QED
    BY <1>6, <1>8 DEF SessionsInv

\* The next event is run: a deletion is of closed connections, which have no entry.
LEMMA RunEventKeepsInv ==
    ASSUME SessionsInv, RunEvent
    PROVE  SessionsInv'
  <1>1. /\ main = Idle /\ events # << >> /\ events' = Tail(events)
        /\ UNCHANGED <<clients, mutex, main, worker>>
    BY MainIsIdle DEF RunEvent, SessionsInv
  <1>2. events \in Seq([kind : {"write", "delete"}, to : SUBSET Sockets])
    BY DEF SessionsInv, TypeOK
  <1>3. /\ events' \in Seq([kind : {"write", "delete"}, to : SUBSET Sockets])
        /\ Len(events) \in Nat /\ DOMAIN events = 1 .. Len(events) /\ 1 \in DOMAIN events
        /\ DOMAIN events' = 1 .. Len(events) - 1
        /\ \A i \in DOMAIN events' : i + 1 \in DOMAIN events /\ events'[i] = events[i + 1]
        /\ Head(events) = events[1]
    BY <1>1, <1>2
  <1>4. link' \in [Sockets -> {"new", "open", "closed", "deleted"}] /\ crashed' \in BOOLEAN
    BY DEF RunEvent, SessionsInv, TypeOK
  <1>5. TypeOK' /\ MessageFits' /\ MainFits'
    BY <1>1, <1>3, <1>4 DEF SessionsInv, TypeOK, MessageFits, MainFits, worker
  <1>6. \A s \in Sockets :
           link'[s] = link[s] \/ (events[1].kind = "delete" /\ s \in events[1].to)
    BY <1>3 DEF RunEvent, SessionsInv, TypeOK
  <1>7. \A s \in Sockets : link'[s] # link[s] => link[s] = "closed" /\ link'[s] = "deleted"
    <2>1. \A s \in Sockets : link'[s] # link[s] => link[s] = "closed"
      BY <1>3, <1>6 DEF SessionsInv, DeletedOnce
    <2>2. \A s \in Sockets : link'[s] # link[s] => link'[s] = "deleted"
      BY DEF RunEvent
    <2> QED
      BY <2>1, <2>2
  <1>8. ListIsExact'
    BY <1>1, <1>7 DEF SessionsInv, ListIsExact
  <1>9. DeletedOnce'
    <2> SUFFICES ASSUME NEW i \in DOMAIN events', events'[i].kind = "delete",
                        NEW s \in events'[i].to
                 PROVE  /\ link'[s] = "closed"
                        /\ \A j \in DOMAIN events' :
                              events'[j].kind = "delete" /\ s \in events'[j].to => i = j
      BY DEF DeletedOnce
    <2>1. /\ i + 1 \in DOMAIN events /\ i \in Nat /\ i + 1 # 1
          /\ events[i + 1].kind = "delete" /\ s \in events[i + 1].to
      BY <1>3
    <2>2. /\ link[s] = "closed"
          /\ \A j \in DOMAIN events :
                events[j].kind = "delete" /\ s \in events[j].to => i + 1 = j
      BY <2>1 DEF SessionsInv, DeletedOnce
    <2>3. ~(events[1].kind = "delete" /\ s \in events[1].to)
      BY <1>3, <2>1, <2>2
    <2>4. s \in Sockets
      <3> DEFINE Events == [kind : {"write", "delete"}, to : SUBSET Sockets]
      <3>1. \A S : events \in Seq(S) => \A j \in DOMAIN events : events[j] \in S
        OBVIOUS
      <3>2. events[i + 1] \in Events
        BY <1>2, <2>1, <3>1
      <3> QED
        BY <2>1, <3>2
    <2>5. link'[s] = "closed"
      BY <1>6, <2>2, <2>3, <2>4
    <2>6. ASSUME NEW j \in DOMAIN events', events'[j].kind = "delete", s \in events'[j].to
          PROVE  i = j
      <3>1. j + 1 \in DOMAIN events /\ j \in Nat /\ events'[j] = events[j + 1]
        BY <1>3
      <3>2. i + 1 = j + 1
        BY <2>2, <2>6, <3>1
      <3> QED
        BY <2>1, <3>1, <3>2
    <2> QED
      BY <2>5, <2>6
  <1> QED
    BY <1>5, <1>8, <1>9 DEF SessionsInv

-----------------------------------------------------------------------------
\* The invariant that the others rest on: the list, the sockets and the queued deletions of the
\* server stay in step, whatever its handlers and its clients do.
THEOREM SessionsInvariant == Spec => []SessionsInv
  <1>1. Init => SessionsInv
    <2> SUFFICES ASSUME Init PROVE SessionsInv
      OBVIOUS
    <2>1. /\ clients \in Seq(Entries) /\ DOMAIN clients = {}
          /\ events \in Seq([kind : {"write", "delete"}, to : SUBSET Sockets])
          /\ DOMAIN events = {}
      BY DEF Init
    <2>2. link \in [Sockets -> {"new", "open", "closed", "deleted"}]
      BY DEF Init
    <2>3. pc \in [Workers -> Places] /\ msg \in [Workers -> Messages \cup {NoMessage}]
      BY DEF Init, Places
    <2>4. info \in [Workers -> Nat \cup {None}] /\ \A w \in Workers : info[w] = None
      BY DEF Init
    <2>5. handled \in 0 .. MaxMessages
      BY SessionsAssumption DEF Init
    <2>6. crashed \in BOOLEAN /\ mutex \in {"main", None}
      BY DEF Init
    <2>7. TypeOK
      BY <2>1, <2>2, <2>3, <2>4, <2>5, <2>6 DEF Init, TypeOK
    <2> QED
      BY <2>1, <2>7 DEF Init, SessionsInv, MessageFits, ListIsExact, DeletedOnce, MainFits
  <1>2. SessionsInv /\ [Next]_vars => SessionsInv'
    <2> SUFFICES ASSUME SessionsInv, [Next]_vars PROVE SessionsInv'
      OBVIOUS
    <2>1. ASSUME NEW s \in Sockets, handleNewConnection(s) PROVE SessionsInv'
      BY <2>1, NewConnectionKeepsInv
    <2>2. ASSUME NEW s \in Sockets, RemoveEntry(s) PROVE SessionsInv'
      BY <2>2, RemoveEntryKeepsInv
    <2>3. ASSUME NEW s \in Sockets, NEW w \in Workers, handleClientData(s, w) PROVE SessionsInv'
      BY <2>3, ClientDataKeepsInv
    <2>4. CASE MainStep
      BY <2>4, UnlockKeepsInv, TellFriendsKeepsInv, DeleteLaterKeepsInv, RunEventKeepsInv
         DEF MainStep
    <2>5. ASSUME NEW w \in Workers, HandlerStep(w) PROVE SessionsInv'
      BY <2>5, HandlerKeepsInv
    <2>6. CASE UNCHANGED vars
      BY <2>6 DEF vars, SessionsInv, TypeOK, MessageFits, ListIsExact, DeletedOnce, MainFits
    <2> QED
      BY <2>1, <2>2, <2>3, <2>4, <2>5, <2>6 DEF Next
  <1> QED
    BY <1>1, <1>2, PTL DEF Spec

\* Every variable has its type, and no handler keeps a pointer from one message to the next.
THEOREM SessionsTypeCorrect == Spec => []TypeOK
  <1>1. SessionsInv => TypeOK
    BY DEF SessionsInv
  <1> QED
    BY <1>1, SessionsInvariant, PTL

\* Whatever handlers write through stale pointers, the list has one entry for each open connection
\* and no other (handleNewConnection, handleClientDisconnection).
THEOREM ListStaysExact == Spec => []ListIsExact
  <1>1. SessionsInv => ListIsExact
    BY DEF SessionsInv
  <1> QED
    BY <1>1, SessionsInvariant, PTL

\* deleteLater is posted once for a connection, behind the events posted while it was open.
THEOREM SocketsDeletedOnce == Spec => []DeletedOnce
  <1>1. SessionsInv => DeletedOnce
    BY DEF SessionsInv
  <1> QED
    BY <1>1, SessionsInvariant, PTL
=============================================================================
