---------------------------- MODULE ClientSession ----------------------------
(***************************************************************************)
(* One client (src/ChatClient/src/chatwindow.cpp and its pages) and what   *)
(* the server's handlers make of its requests: logging in and out, opening *)
(* a chat with a friend or a group, and the answers that arrive while the  *)
(* user goes on clicking.  The requests of one client are handled by       *)
(* several workers, so answers may overtake one another.  On either side a *)
(* read is taken for one message: a message that arrives in pieces is      *)
(* lost, and so are messages that arrive together.                         *)
(*                                                                         *)
(* The display is what the visible page lists.  A client never connects    *)
(* again after its connection is lost.                                     *)
(***************************************************************************)
EXTENDS Naturals, Sequences, SequencesExt

CONSTANTS
    Users,      \* names to log in with
    Known,      \* those whose password the user knows
    Friends,    \* their friends
    Groups,     \* their groups
    MaxClicks,  \* bound: what the user does
    MaxLost,    \* bound: messages lost in reads
    MaxLive,    \* bound: messages that others send
    None        \* no user and no chat

ASSUME ClientSessionAssumption ==
    /\ Known \subseteq Users
    /\ None \notin Users \cup Friends \cup Groups
    /\ Friends \cap Groups = {}
    /\ MaxClicks \in Nat /\ MaxLost \in Nat /\ MaxLive \in Nat

VARIABLES
    connected,
    page,       \* the page on top: "auth", "chat" or "group"
    isLoggedIn,
    nickname,   \* m_currentNickname
    friend,     \* m_currentChatFriend
    group,      \* m_currentChatGroup; m_isGroupChat says that there is one
    listed,     \* which lists have arrived: "friends", "groups"
    display,    \* the items of the page: [kind, chat]
    timers,     \* selectGroup's timers: the groups whose history they will ask for
    retry,      \* GroupChatPage's retryTimer: its group
    sent,       \* requests on their way, in the pool's queue or in a worker
    answers,    \* messages written to the client and not yet read
    session,    \* the user logged in by the server's entry of this client
    clicks, lost, live,
    missed,     \* history variable: a message was lost since a chat was last opened
    overlapped, \* history variable: a login or logout was sent before the last one was done
    overtaken   \* history variable: a request was handled before an earlier one

vars == <<connected, page, isLoggedIn, nickname, friend, group, listed, display, timers, retry,
          sent, answers, session, clicks, lost, missed, live, overlapped, overtaken>>
user == <<isLoggedIn, nickname, listed>>
chat == <<friend, group>>
view == <<page, display, retry>>
server == <<answers, session>>
faults == <<lost, missed>>
order == <<overlapped, overtaken>>
past == <<faults, live, order>>

isGroupChat == group # None

Init ==
    /\ connected = TRUE
    /\ page = "auth" /\ isLoggedIn = FALSE /\ nickname = None
    /\ friend = None /\ group = None /\ listed = {}
    /\ display = << >> /\ timers = << >> /\ retry = None
    /\ sent = << >> /\ answers = << >> /\ session = None
    /\ clicks = 0 /\ lost = 0 /\ live = 0
    /\ missed = FALSE /\ overlapped = FALSE /\ overtaken = FALSE

Send(request) == sent' = IF connected THEN Append(sent, request) ELSE sent

SessionKinds == {"login", "logout", "leave"}
UnderWay == \E s \in {sent, answers} : \E i \in DOMAIN s : s[i].kind \in SessionKinds

Click ==
    /\ clicks < MaxClicks
    /\ clicks' = clicks + 1
    /\ UNCHANGED connected

(***************************************************************************)
(* What the user does.                                                     *)
(***************************************************************************)

\* The name is kept at once, the page stays until the answer.
login(name) ==
    /\ page = "auth" /\ connected
    /\ Click
    /\ Send([kind |-> "login", name |-> name])
    /\ nickname' = name
    /\ overlapped' = (overlapped \/ UnderWay)
    /\ UNCHANGED <<isLoggedIn, listed, chat, view, timers, server, faults, live, overtaken>>

\* The page that was on top is destroyed, with its list and its timer.
ShowPage(p) == page' = p /\ display' = << >> /\ retry' = None

logout ==
    /\ page = "chat" /\ isLoggedIn
    /\ Click
    /\ Send([kind |-> "logout"])
    /\ isLoggedIn' = FALSE /\ nickname' = None /\ friend' = None
    /\ listed' = listed \ {"friends"}
    /\ ShowPage("auth")
    /\ overlapped' = (overlapped \/ UnderWay)
    /\ UNCHANGED <<group, timers, server, faults, live, overtaken>>

\* Mutant: the list is not cleared.
selectFriendKeepingList(f) ==
    /\ page = "chat" /\ "friends" \in listed
    /\ f # friend \/ isGroupChat
    /\ Click
    /\ friend' = f /\ group' = None
    /\ missed' = FALSE
    /\ Send([kind |-> "history", chat |-> f])
    /\ UNCHANGED <<user, view, timers, server, lost, live, order>>

\* Mutant: the history is asked for only if no other one is listed.
selectFriendOnce(f) ==
    /\ page = "chat" /\ "friends" \in listed
    /\ f # friend \/ isGroupChat
    /\ Click
    /\ friend' = f /\ group' = None
    /\ display' = << >> /\ missed' = FALSE
    /\ IF display = << >> THEN Send([kind |-> "history", chat |-> f]) ELSE UNCHANGED sent
    /\ UNCHANGED <<user, page, timers, retry, server, lost, live, order>>

selectFriend(f) ==
    /\ page = "chat" /\ "friends" \in listed
    /\ f # friend \/ isGroupChat
    /\ Click
    /\ friend' = f /\ group' = None
    /\ display' = << >> /\ missed' = FALSE
    /\ Send([kind |-> "history", chat |-> f])
    /\ UNCHANGED <<user, page, timers, retry, server, lost, live, order>>

openGroupPage ==
    /\ page = "chat"
    /\ Click
    /\ ShowPage("group")
    /\ Send([kind |-> "groups"])
    /\ UNCHANGED <<user, chat, timers, server, past>>

\* Mutant: clearChatType forgets the group.
backKeepingGroup ==
    /\ page = "group"
    /\ Click
    /\ friend' = None
    /\ ShowPage("chat")
    /\ UNCHANGED <<user, group, timers, sent, server, past>>

\* clearChatType, and back to the chat page.
back ==
    /\ page = "group"
    /\ Click
    /\ friend' = None /\ group' = None
    /\ ShowPage("chat")
    /\ UNCHANGED <<user, timers, sent, server, past>>

\* The list is cleared, the line "loading" that a click has put there included.
Select(g) ==
    /\ friend' = None /\ group' = g
    /\ display' = << >> /\ missed' = FALSE
    /\ timers' = IF connected THEN Append(timers, g) ELSE timers

selectGroup(g) ==
    /\ page = "group" /\ "groups" \in listed
    /\ Click
    /\ Select(g)
    /\ retry' = g
    /\ UNCHANGED <<user, page, sent, server, lost, live, order>>

(***************************************************************************)
(* Timers.                                                                 *)
(***************************************************************************)

\* The history of a group is asked for 100 ms after selectGroup, its members in between.
Timer(i) ==
    /\ timers' = RemoveAt(timers, i)
    /\ Send([kind |-> "history", chat |-> timers[i]])
    /\ UNCHANGED <<connected, user, chat, view, server, clicks, past>>

\* A second after the click, selects the group again if the list has one item and that is the
\* system's.
RetryTimer ==
    /\ retry # None /\ timers = << >>
    /\ retry' = None
    /\ IF Len(display) = 1 /\ display[1].kind = "system"
       THEN Select(retry) ELSE UNCHANGED <<chat, display, timers, missed>>
    /\ UNCHANGED <<connected, user, page, sent, server, clicks, lost, live, order>>

(***************************************************************************)
(* The server.                                                             *)
(***************************************************************************)
Lose ==
    /\ lost < MaxLost
    /\ lost' = lost + 1 /\ missed' = TRUE
    /\ UNCHANGED <<connected, user, chat, view, timers, session, clicks, live, order>>

\* A read finds a piece of a request, or a request and another message, which are no JSON document
\* (of requests that are read together, one after the other is lost).
LoseRequest(i) ==
    /\ Lose
    /\ sent[i].kind # "leave"
    /\ sent' = RemoveAt(sent, i)
    /\ UNCHANGED answers

Reply(i, answer) ==
    /\ sent' = RemoveAt(sent, i)
    /\ answers' = Append(answers, answer)

\* The answer of a handler that finds its client logged out: a Message without sender.
Refused == [kind |-> "live", chat |-> None]

HandleLogin(i) ==
    /\ sent[i].kind = "login"
    /\ Reply(i, [kind |-> "login", right |-> sent[i].name \in Known])
    /\ session' = IF sent[i].name \in Known THEN sent[i].name ELSE session

\* handleLogout answers first and clears the entry afterwards.
HandleLogout(i) ==
    /\ sent[i].kind = "logout"
    /\ IF session = None
       THEN Reply(i, Refused)
       ELSE /\ sent' = [sent EXCEPT ![i] = [kind |-> "leave"]]
            /\ answers' = Append(answers, [kind |-> "logout"])
    /\ UNCHANGED session

Leave(i) ==
    /\ sent[i].kind = "leave"
    /\ sent' = RemoveAt(sent, i)
    /\ session' = None
    /\ UNCHANGED answers

\* A group may have no messages yet.
HandleQuestion(i) ==
    /\ sent[i].kind \in {"friends", "groups", "history"}
    /\ \/ session # None /\ Reply(i, sent[i])
       \/ session # None /\ sent[i].kind = "history" /\ sent[i].chat \in Groups
          /\ Reply(i, [kind |-> "system", chat |-> sent[i].chat])
       \/ session = None /\ Reply(i, Refused)
    /\ UNCHANGED session

\* Any worker may be the next to get on.
Handle(i) ==
    /\ HandleLogin(i) \/ HandleLogout(i) \/ Leave(i) \/ HandleQuestion(i)
    /\ overtaken' = (overtaken \/ i > 1)
    /\ UNCHANGED <<connected, user, chat, view, timers, clicks, faults, live, overlapped>>

\* Somebody else sends a message.
Deliver(c) ==
    /\ connected /\ session # None /\ live < MaxLive
    /\ live' = live + 1
    /\ answers' = Append(answers, [kind |-> "live", chat |-> c])
    /\ UNCHANGED <<connected, user, chat, view, timers, sent, session, clicks,
                   faults, order>>

(***************************************************************************)
(* handleServerData.                                                       *)
(***************************************************************************)
Answer == Head(answers)
Take(kind) ==
    /\ answers # << >> /\ Answer.kind = kind
    /\ answers' = Tail(answers)
    /\ UNCHANGED <<connected, session, clicks, past>>

\* groupChatMessageReceived: only the group page listens.
ShowInGroup(item) == display' = IF page = "group" THEN Append(display, item) ELSE display

\* messageReceived: the group page listens while no group is open.
Shown(items, item) ==
    IF page = "chat" \/ (page = "group" /\ ~isGroupChat) THEN Append(items, item) ELSE items

\* Mutant: the answer's status is not looked at.
LoginAnswerUnchecked ==
    /\ Take("login")
    /\ isLoggedIn' = TRUE /\ friend' = None
    /\ ShowPage("chat")
    /\ Send([kind |-> "friends"])
    /\ UNCHANGED <<nickname, listed, group, timers>>

\* main.qml shows the chat page anew; the list of friends is asked for (and, later, that of friend
\* requests, which is left out); the group of an earlier session stays open.
LoginAnswer ==
    /\ Take("login")
    /\ IF Answer.right
       THEN /\ isLoggedIn' = TRUE /\ friend' = None
            /\ ShowPage("chat")
            /\ Send([kind |-> "friends"])
       ELSE UNCHANGED <<isLoggedIn, friend, view, sent>>
    /\ UNCHANGED <<nickname, listed, group, timers>>

LogoutAnswer ==
    /\ Take("logout")
    /\ isLoggedIn' = FALSE /\ nickname' = None /\ friend' = None
    /\ listed' = listed \ {"friends"}
    /\ ShowPage("auth")
    /\ UNCHANGED <<group, timers, sent>>

ListAnswer ==
    /\ \/ Take("friends") /\ listed' = listed \cup {"friends"}
       \/ Take("groups") /\ listed' = listed \cup {"groups"}
    /\ UNCHANGED <<isLoggedIn, nickname, chat, view, timers, sent>>

\* Mutant: a friend's history is added to what is shown, as a group's is.
HistoryAnswerAdded ==
    /\ Take("history")
    /\ IF Answer.chat \in Friends THEN display' = Shown(display, Answer) ELSE ShowInGroup(Answer)
    /\ UNCHANGED <<user, chat, page, timers, retry, sent>>

\* The answer does not say whose history it is: it is shown in whatever chat is open.  That of a
\* group says so, but nobody looks, and it is added to what is shown.
HistoryAnswer ==
    /\ Take("history")
    /\ IF Answer.chat \in Friends THEN display' = Shown(<< >>, Answer) ELSE ShowInGroup(Answer)
    /\ UNCHANGED <<user, chat, page, timers, retry, sent>>

EmptyHistoryAnswer ==
    /\ Take("system")
    /\ ShowInGroup(Answer)
    /\ UNCHANGED <<user, chat, page, timers, retry, sent>>

\* A message is shown if its sender's chat, or its group, is the open one.
LiveMessage ==
    /\ Take("live")
    /\ IF Answer.chat \in Groups
       THEN IF Answer.chat = group THEN ShowInGroup(Answer) ELSE UNCHANGED display
       ELSE display' = IF Answer.chat = friend THEN Shown(display, Answer) ELSE display
    /\ UNCHANGED <<user, chat, page, timers, retry, sent>>

\* A history that is too long for one read, an answer together with the next one, or with one that is
\* left out here (the members of a group, a friend's status).
LoseAnswer ==
    /\ Lose
    /\ answers # << >>
    /\ answers' = Tail(answers)
    /\ UNCHANGED sent

\* onDisconnected: name and chat stay.  Nothing reaches this client any more, and a timer does
\* nothing without a connection.
Disconnect ==
    /\ connected
    /\ connected' = FALSE /\ isLoggedIn' = FALSE
    /\ ShowPage("auth")
    /\ sent' = << >> /\ answers' = << >> /\ session' = None /\ timers' = << >>
    /\ UNCHANGED <<nickname, listed, chat, clicks, past>>

handleServerData ==
    LoginAnswer \/ LogoutAnswer \/ ListAnswer \/ HistoryAnswer \/ EmptyHistoryAnswer \/ LiveMessage

SystemStep ==
    \/ \E i \in DOMAIN timers : Timer(i)
    \/ RetryTimer
    \/ \E i \in DOMAIN sent : Handle(i)
    \/ handleServerData

Next ==
    \/ \E name \in Users : login(name)
    \/ logout \/ openGroupPage \/ back
    \/ \E f \in Friends : selectFriend(f)
    \/ \E g \in Groups : selectGroup(g)
    \/ SystemStep
    \/ (\E i \in DOMAIN sent : LoseRequest(i)) \/ LoseAnswer \/ Disconnect
    \/ \E c \in Friends \cup Groups : Deliver(c)

Spec == Init /\ [][Next]_vars

\* The event loops run, timers fire and handlers return; the user may stop at any time.
FairSpec == Spec /\ WF_vars(SystemStep)

(***************************************************************************)
(* Properties.                                                             *)
(***************************************************************************)
Chats == Friends \cup Groups
Requests ==
    [kind : {"login"}, name : Users]
    \cup [kind : {"logout", "leave", "friends", "groups"}]
    \cup [kind : {"history"}, chat : Chats]
Items == [kind : {"history", "system", "live"}, chat : Chats \cup {None}]

\* The type invariant.
TypeOK ==
    /\ connected \in BOOLEAN /\ isLoggedIn \in BOOLEAN
    /\ page \in {"auth", "chat", "group"}
    /\ nickname \in Users \cup {None} /\ session \in Users \cup {None}
    /\ friend \in Friends \cup {None}
    /\ group \in Groups \cup {None} /\ retry \in Groups \cup {None}
    /\ listed \subseteq {"friends", "groups"}
    /\ display \in Seq(Items)
    /\ timers \in Seq(Groups) /\ sent \in Seq(Requests)
    /\ answers \in Seq(Items \cup Requests \cup [kind : {"login"}, right : BOOLEAN])
    /\ clicks \in 0 .. MaxClicks /\ lost \in 0 .. MaxLost /\ live \in 0 .. MaxLive
    /\ missed \in BOOLEAN /\ overlapped \in BOOLEAN /\ overtaken \in BOOLEAN

\* A client that shows a user as logged in is logged in at the server, by the same name, though
\* the answer to a login names nobody and the client keeps the name before it knows (login,
\* "confirmed after success"): unless a login or a logout is sent while another is under way.
LoggedInAsOneself == connected /\ isLoggedIn /\ ~overlapped => session = nickname

\* On the chat page no group is open: m_isGroupChat, which decides where a finished image upload
\* is sent, outlives a session and a page, and still an image never goes to a group that is not on
\* the page, unless a login or a logout is sent while another is under way.
NoGroupBehindThePage ==
    isLoggedIn /\ isGroupChat /\ ~overlapped => page = "group" /\ friend = None

\* However fast a user changes from friend to friend, and to groups and back, and whatever was lost
\* before: when everything has been answered, in the order of the requests and without a loss since
\* the chat was opened, what is listed is the history of the open chat and then its later messages,
\* although an answer does not say whose history it is; and a group lists its history at least.
AtRest == sent = << >> /\ answers = << >> /\ timers = << >>
Orderly == ~overtaken /\ ~overlapped /\ ~missed
Open == IF isGroupChat THEN group ELSE friend
Viewing(c) == isLoggedIn /\ Open = c /\ page = IF c \in Groups THEN "group" ELSE "chat"
Lists(c) == \E i \in DOMAIN display : display[i].kind # "live" /\ display[i].chat = c
HistoryAtRest == Orderly /\ AtRest => \A c \in Chats : Viewing(c) =>
    /\ Lists(c)
    /\ c \in Friends => \A i \in DOMAIN display :
          display[i] = [kind |-> IF i = 1 THEN "history" ELSE "live", chat |-> c]

\* In no order of answers and clicks does a message come to be listed in a chat that is not its own
\* (a refusal, which is a message of nobody, does).
LiveIsOfOpenChat == \A i \in DOMAIN display :
    display[i].kind = "live" /\ display[i].chat # None => display[i].chat = Open

\* A chat that stays open comes to list its history, if requests are answered in their order and no
\* message is lost from its opening on: nothing asks again for a history that came in pieces.
HistoryArrives == \A c \in Chats : Viewing(c) ~> Lists(c) \/ ~Viewing(c) \/ ~Orderly

\* GroupChatPage.qml says of its timer that it asks again when the first request got no answer.
RetriesWhenUnanswered ==
    [][RetryTimer /\ retry = Open /\ ~Lists(retry) => timers' # timers]_vars
=============================================================================
