-------------------------- MODULE ClientSessionProofs --------------------------
(***************************************************************************)
(* For any names, friends and groups and any number of clicks, lost        *)
(* messages and late answers: a client that did not send a login or logout    *)
(* while another was under way is the user it shows, has no group open     *)
(* behind its page, and lists messages in their own chats only; and when   *)
(* everything has been answered in its order, and nothing was lost since   *)
(* the chat was opened, the open chat lists its history.                   *)
(***************************************************************************)
EXTENDS ClientSession, SequenceTheorems, TLAPS

\* A message by which the client or the server changes who is logged in.
Token(r) == r.kind \in SessionKinds

Once(s) == \A i, j \in DOMAIN s : Token(s[i]) /\ Token(s[j]) => i = j
NoToken(s) == \A i \in DOMAIN s : ~Token(s[i])

\* The tokens of t are tokens of s, and no token has been doubled.
Thins(s, t) ==
    /\ Once(s) => Once(t)
    /\ \A j \in DOMAIN t : Token(t[j]) => \E i \in DOMAIN s : s[i] = t[j]

\* While one token is under way, nobody is shown as logged in, and it fits the two sides.
TokensFit == ~overlapped =>
    /\ Once(sent) /\ Once(answers)
    /\ \A i \in DOMAIN sent, j \in DOMAIN answers :
          Token(sent[i]) /\ Token(answers[j]) =>
              sent[i].kind = "leave" /\ answers[j].kind = "logout"
    /\ \A i \in DOMAIN sent : Token(sent[i]) =>
          /\ ~isLoggedIn
          /\ sent[i].kind = "login" => sent[i].name = nickname
    /\ \A j \in DOMAIN answers : Token(answers[j]) =>
          /\ ~isLoggedIn
          /\ answers[j].kind = "login" /\ answers[j].right => session = nickname

\* The pages behind the login are shown to those who are logged in, and nothing is on its way on
\* a lost connection.
PagesFit ==
    /\ isLoggedIn <=> page # "auth"
    /\ ~connected => ~isLoggedIn /\ sent = << >> /\ answers = << >> /\ timers = << >>

\* A group is open on the group page only, where its timer runs too.
GroupFits ==
    /\ retry # None => page = "group"
    /\ friend = None \/ group = None
    /\ connected /\ ~overlapped /\ group # None => page = "group"

ClientInv ==
    /\ TypeOK /\ TokensFit /\ PagesFit /\ GroupFits
    /\ LoggedInAsOneself /\ LiveIsOfOpenChat

-----------------------------------------------------------------------------
\* RemoveAt(s, i) is s without its element i.
LEMMA Removed ==
    ASSUME NEW T, NEW s \in Seq(T), NEW i \in DOMAIN s
    PROVE  /\ RemoveAt(s, i) \in Seq(T)
           /\ DOMAIN RemoveAt(s, i) = 1 .. (Len(s) - 1)
           /\ \A j \in 1 .. (Len(s) - 1) : RemoveAt(s, i)[j] = s[IF j < i THEN j ELSE j + 1]
  <1> DEFINE a == SubSeq(s, 1, i - 1)
             b == SubSeq(s, i + 1, Len(s))
  <1>1. i \in 1 .. Len(s) /\ Len(s) \in Nat
    OBVIOUS
  <1>2. /\ a \in Seq(T) /\ Len(a) = i - 1
        /\ \A j \in 1 .. (i - 1) : a[j] = s[j]
    BY <1>1
  <1>3. /\ b \in Seq(T) /\ Len(b) = Len(s) - i
        /\ \A j \in 1 .. (Len(s) - i) : b[j] = s[i + j]
    BY <1>1
  <1>4. RemoveAt(s, i) = a \o b
    BY DEF RemoveAt
  <1> HIDE DEF a, b
  <1>5. /\ a \o b \in Seq(T) /\ Len(a \o b) = Len(s) - 1
        /\ \A j \in 1 .. (Len(s) - 1) :
              (a \o b)[j] = IF j <= i - 1 THEN a[j] ELSE b[j - (i - 1)]
    BY <1>1, <1>2, <1>3, SMTT(40)
  <1>6. ASSUME NEW j \in 1 .. (Len(s) - 1)
        PROVE  (a \o b)[j] = s[IF j < i THEN j ELSE j + 1]
    <2>1. CASE j < i
      BY <1>1, <1>2, <1>5, <2>1
    <2>2. CASE ~(j < i)
      <3>1. j - (i - 1) \in 1 .. (Len(s) - i) /\ i + (j - (i - 1)) = j + 1
        BY <1>1, <2>2
      <3>2. b[j - (i - 1)] = s[j + 1]
        BY <1>3, <3>1
      <3>3. ~(j <= i - 1)
        BY <1>1, <2>2
      <3>4. (a \o b)[j] = b[j - (i - 1)]
        BY <1>5, <3>3
      <3> QED
        BY <2>2, <3>2, <3>4
    <2> QED
      BY <2>1, <2>2
  <1> QED
    BY <1>4, <1>5, <1>6

\* Nothing is doubled by leaving a sequence alone, by appending what is no token, or by removing.
LEMMA ThinsSame == ASSUME NEW s PROVE Thins(s, s)
  BY DEF Thins

\* What is appended is no token.
LEMMA ThinsAppend ==
    ASSUME NEW T, NEW s \in Seq(T), NEW r, ~Token(r)
    PROVE  Thins(s, Append(s, r))
  <1>1. /\ DOMAIN Append(s, r) = 1 .. (Len(s) + 1) /\ DOMAIN s = 1 .. Len(s)
        /\ Append(s, r)[Len(s) + 1] = r
        /\ \A i \in DOMAIN s : Append(s, r)[i] = s[i]
    BY AppendProperties
  <1>2. \A j \in DOMAIN Append(s, r) : Token(Append(s, r)[j]) => j \in DOMAIN s
    BY <1>1
  <1> QED
    BY <1>1, <1>2 DEF Thins, Once

\* Removing an element; and a removed token was the only one.
LEMMA ThinsRemove ==
    ASSUME NEW T, NEW s \in Seq(T), NEW i \in DOMAIN s
    PROVE  /\ Thins(s, RemoveAt(s, i))
           /\ Once(s) /\ Token(s[i]) => NoToken(RemoveAt(s, i))
  <1> DEFINE t == RemoveAt(s, i)
             k(j) == IF j < i THEN j ELSE j + 1
  <1>1. DOMAIN t = 1 .. (Len(s) - 1) /\ \A j \in DOMAIN t : t[j] = s[k(j)]
    BY Removed
  <1>2. i \in 1 .. Len(s) /\ Len(s) \in Nat /\ DOMAIN s = 1 .. Len(s)
    OBVIOUS
  <1> HIDE DEF t
  <1>3. \A j \in DOMAIN t : k(j) \in DOMAIN s /\ k(j) # i
    BY <1>1, <1>2
  <1>4. \A j, l \in DOMAIN t : k(j) = k(l) => j = l
    BY <1>1, <1>2
  <1> HIDE DEF k
  <1>5. Thins(s, t)
    BY <1>1, <1>3, <1>4 DEF Thins, Once
  <1>6. Once(s) /\ Token(s[i]) => NoToken(t)
    BY <1>1, <1>3 DEF Once, NoToken
  <1> QED
    BY <1>5, <1>6 DEF t

\* Taking the first element; and a taken token was the only one.
LEMMA ThinsTail ==
    ASSUME NEW T, NEW s \in Seq(T), s # << >>
    PROVE  /\ Thins(s, Tail(s)) /\ Tail(s) \in Seq(T)
           /\ Once(s) /\ Token(Head(s)) => NoToken(Tail(s))
  <1>1. /\ Tail(s) \in Seq(T) /\ Len(s) \in Nat /\ Len(s) > 0
        /\ DOMAIN Tail(s) = 1 .. (Len(s) - 1) /\ DOMAIN s = 1 .. Len(s)
        /\ \A j \in DOMAIN Tail(s) : Tail(s)[j] = s[j + 1]
        /\ Head(s) = s[1]
    OBVIOUS
  <1>2. \A j \in DOMAIN Tail(s) : j + 1 \in DOMAIN s /\ j + 1 # 1
    BY <1>1
  <1>3. \A j, l \in DOMAIN Tail(s) : j + 1 = l + 1 => j = l
    BY <1>1
  <1>4. 1 \in DOMAIN s
    BY <1>1
  <1> QED
    BY <1>1, <1>2, <1>3, <1>4 DEF Thins, Once, NoToken

\* Steps that leave the two sides' ideas of who is logged in alone, and the tokens.
LEMMA Quiet ==
    ASSUME TokensFit, Thins(sent, sent'), Thins(answers, answers'),
           UNCHANGED <<isLoggedIn, nickname, session, overlapped>>
    PROVE  TokensFit'
  BY DEF TokensFit, Thins

\* A new token goes behind no other one.
LEMMA OnceAppend ==
    ASSUME NEW T, NEW s \in Seq(T), NEW r, NoToken(s)
    PROVE  /\ Once(Append(s, r))
           /\ \A j \in DOMAIN Append(s, r) : Token(Append(s, r)[j]) => Append(s, r)[j] = r
  <1>1. /\ DOMAIN Append(s, r) = 1 .. (Len(s) + 1) /\ DOMAIN s = 1 .. Len(s)
        /\ Append(s, r)[Len(s) + 1] = r
        /\ \A i \in DOMAIN s : Append(s, r)[i] = s[i]
    BY AppendProperties
  <1>2. \A j \in DOMAIN Append(s, r) : j \in DOMAIN s \/ j = Len(s) + 1
    BY <1>1
  <1>3. \A j \in DOMAIN Append(s, r) : Token(Append(s, r)[j]) => j = Len(s) + 1
    BY <1>1, <1>2 DEF NoToken
  <1> QED
    BY <1>1, <1>3 DEF Once

\* What is sent, and what is taken from the answers.
Replies == Items \cup Requests \cup [kind : {"login"}, right : BOOLEAN]

\* A request that is sent comes behind the others, or nowhere without a connection.
LEMMA Sent ==
    ASSUME TypeOK, NEW r \in Requests, Send(r)
    PROVE  /\ sent' \in Seq(Requests)
           /\ ~Token(r) => Thins(sent, sent')
           /\ ~connected => sent' = sent
  <1>1. sent \in Seq(Requests)
    BY DEF TypeOK
  <1>2. CASE connected
    <2>1. sent' = Append(sent, r)
      BY <1>2 DEF Send
    <2>2. sent' \in Seq(Requests)
      BY <1>1, <2>1
    <2> QED
      BY <1>1, <1>2, <2>1, <2>2, ThinsAppend
  <1>3. CASE ~connected
    BY <1>1, <1>3, ThinsSame DEF Send
  <1> QED
    BY <1>2, <1>3

\* The answer that is taken was the first; the server does not notice.
LEMMA Taken ==
    ASSUME TypeOK, NEW kind, Take(kind)
    PROVE  /\ Answer \in Replies /\ Answer.kind = kind
           /\ answers # << >> /\ 1 \in DOMAIN answers /\ Answer = answers[1]
           /\ answers' \in Seq(Replies)
           /\ Thins(answers, answers')
           /\ Once(answers) /\ Token(Answer) => NoToken(answers')
           /\ UNCHANGED <<connected, session, clicks, past>>
  <1>1. answers \in Seq(Replies) /\ answers # << >> /\ answers' = Tail(answers)
    BY DEF TypeOK, Take, Replies
  <1>2. Answer = answers[1] /\ 1 \in DOMAIN answers /\ Answer \in Replies
    BY <1>1 DEF Answer
  <1> QED
    BY <1>1, <1>2, ThinsTail DEF Take, Answer, past, faults, order

\* A message that is shown is one of the answers that can be shown.
LEMMA Showable ==
    ASSUME NEW a \in Replies, a.kind \in {"history", "system", "live"}
    PROVE  a \in Items
  BY DEF Replies, Items, Requests, Chats

\* Whatever is handled: one request is removed and at most one answer is added; or a logout has
\* been answered and is not yet done.
LEMMA Handled ==
    ASSUME TypeOK, NEW i \in DOMAIN sent, Handle(i)
    PROVE  /\ sent' \in Seq(Requests) /\ answers' \in Seq(Replies)
           /\ session' \in Users \cup {None}
           /\ UNCHANGED <<connected, user, chat, view, timers, clicks, faults, live, overlapped>>
  <1>1. sent \in Seq(Requests) /\ answers \in Seq(Replies) /\ session \in Users \cup {None}
    BY DEF TypeOK, Replies
  <1>2. sent[i] \in Requests
    BY <1>1
  <1>3. RemoveAt(sent, i) \in Seq(Requests)
    BY <1>1, Removed
  <1>4. Refused \in Replies
    BY DEF Refused, Replies, Items
  <1>5. ASSUME NEW a \in Replies, Reply(i, a)
        PROVE  sent' \in Seq(Requests) /\ answers' \in Seq(Replies)
    BY <1>1, <1>3, <1>5 DEF Reply
  <1>6. CASE HandleLogin(i)
    <2>1. [kind |-> "login", right |-> sent[i].name \in Known] \in Replies
      BY DEF Replies
    <2>2. sent[i].name \in Users
      BY <1>2, <1>6 DEF HandleLogin, Requests
    <2>3. session' \in Users \cup {None}
      BY <1>1, <1>6, <2>2 DEF HandleLogin
    <2>4. Reply(i, [kind |-> "login", right |-> sent[i].name \in Known])
      BY <1>6 DEF HandleLogin
    <2>5. sent' \in Seq(Requests) /\ answers' \in Seq(Replies)
      BY <1>5, <2>1, <2>4
    <2> QED
      BY <2>3, <2>5 DEF Handle
  <1>7. CASE HandleLogout(i)
    <2>1. CASE session = None
      BY <1>4, <1>5, <1>7, <1>1, <2>1 DEF HandleLogout, Handle
    <2>2. CASE session # None
      <3>1. [kind |-> "leave"] \in Requests /\ [kind |-> "logout"] \in Replies
        BY DEF Requests, Replies
      <3>2. /\ sent' = [sent EXCEPT ![i] = [kind |-> "leave"]]
            /\ answers' = Append(answers, [kind |-> "logout"])
            /\ session' = session
        BY <1>7, <2>2 DEF HandleLogout
      <3> QED
        BY <1>1, <3>1, <3>2 DEF Handle
    <2> QED
      BY <2>1, <2>2
  <1>8. CASE Leave(i)
    BY <1>1, <1>3, <1>8 DEF Leave, Handle
  <1>9. CASE HandleQuestion(i)
    <2>1. sent[i] \in Replies
      BY <1>2 DEF Replies
    <2>2. sent[i].kind = "history" /\ sent[i].chat \in Groups =>
             [kind |-> "system", chat |-> sent[i].chat] \in Replies
      BY DEF Replies, Items, Chats
    <2>3. session' = session
      BY <1>9 DEF HandleQuestion
    <2>4. sent' \in Seq(Requests) /\ answers' \in Seq(Replies)
      <3>1. CASE Reply(i, sent[i])
        BY <3>1, <1>5, <2>1
      <3>2. CASE /\ sent[i].kind = "history" /\ sent[i].chat \in Groups
                 /\ Reply(i, [kind |-> "system", chat |-> sent[i].chat])
        BY <3>2, <1>5, <2>2
      <3>3. CASE Reply(i, Refused)
        BY <3>3, <1>4, <1>5
      <3> QED
        BY <1>9, <3>1, <3>2, <3>3 DEF HandleQuestion
    <2> QED
      BY <1>1, <2>3, <2>4 DEF Handle
  <1> QED
    BY <1>6, <1>7, <1>8, <1>9 DEF Handle

-----------------------------------------------------------------------------
\* Every step keeps the types.
LEMMA TypesKept ==
    ASSUME ClientInv, [Next]_vars
    PROVE  TypeOK'
  <1> USE ClientSessionAssumption DEF ClientInv, TypeOK, isGroupChat, user, chat, view, server,
      past, faults, order
  <1>1. ASSUME NEW name \in Users, login(name) PROVE TypeOK'
    <2>1. [kind |-> "login", name |-> name] \in Requests
      BY <1>1 DEF Requests
    <2>2. sent' \in Seq(Requests)
      BY <1>1, <2>1, Sent DEF login
    <2>3. overlapped' \in BOOLEAN
      BY <1>1 DEF login
    <2> QED
      BY <1>1, <2>2, <2>3 DEF login, Click
  <1>2. ASSUME logout PROVE TypeOK'
    <2>1. [kind |-> "logout"] \in Requests
      BY DEF Requests
    <2>2. sent' \in Seq(Requests)
      BY <1>2, <2>1, Sent DEF logout
    <2>3. overlapped' \in BOOLEAN
      BY <1>2 DEF logout
    <2>4. listed' \subseteq {"friends", "groups"} /\ display' \in Seq(Items)
      BY <1>2 DEF logout, ShowPage
    <2>8. /\ isLoggedIn' \in BOOLEAN /\ connected' \in BOOLEAN
          /\ missed' \in BOOLEAN /\ overlapped' \in BOOLEAN /\ overtaken' \in BOOLEAN
      BY <1>2, <2>2, <2>3 DEF logout, Click, ShowPage
    <2>9. /\ page' \in {"auth", "chat", "group"}
          /\ nickname' \in Users \cup {None} /\ session' \in Users \cup {None}
          /\ friend' \in Friends \cup {None}
          /\ group' \in Groups \cup {None} /\ retry' \in Groups \cup {None}
          /\ listed' \subseteq {"friends", "groups"}
          /\ clicks' \in 0 .. MaxClicks /\ lost' \in 0 .. MaxLost
          /\ live' \in 0 .. MaxLive
      BY <1>2, <2>2, <2>3 DEF logout, Click, ShowPage
    <2>10. sent' \in Seq(Requests) /\ timers' \in Seq(Groups)
      BY <1>2, <2>2, <2>3 DEF logout, Click, ShowPage
    <2>11. display' \in Seq(Items)
      BY <1>2, <2>2, <2>3 DEF logout, Click, ShowPage
    <2>12. answers' \in Seq(Replies)
      BY <1>2, <2>2, <2>3 DEF logout, Click, ShowPage, Replies
    <2> QED
      BY <2>8, <2>9, <2>10, <2>11, <2>12 DEF Replies
  <1>3. ASSUME openGroupPage PROVE TypeOK'
    <2>1. [kind |-> "groups"] \in Requests
      BY DEF Requests, Chats
    <2>2. sent' \in Seq(Requests)
      BY <1>3, <2>1, Sent DEF openGroupPage
    <2> QED
      BY <1>3, <2>2 DEF openGroupPage, Click, ShowPage
  <1>4. ASSUME back PROVE TypeOK'
    BY <1>4 DEF back, Click, ShowPage
  <1>5. ASSUME NEW f \in Friends, selectFriend(f) PROVE TypeOK'
    <2>1. [kind |-> "history", chat |-> f] \in Requests
      BY DEF Requests, Chats
    <2>2. sent' \in Seq(Requests)
      BY <1>5, <2>1, Sent DEF selectFriend
    <2>3. display' \in Seq(Items) /\ missed' = FALSE
      BY <1>5 DEF selectFriend
    <2>8. /\ isLoggedIn' \in BOOLEAN /\ connected' \in BOOLEAN /\ missed' \in BOOLEAN
      BY <1>5, <2>2, <2>3 DEF selectFriend, Click
    <2>9. overlapped' \in BOOLEAN /\ overtaken' \in BOOLEAN
      <3>1. overlapped' = overlapped /\ overtaken' = overtaken
        BY <1>5, <2>2, <2>3 DEF selectFriend, Click
      <3> QED
        BY <3>1
    <2>10. /\ page' \in {"auth", "chat", "group"}
           /\ nickname' \in Users \cup {None} /\ session' \in Users \cup {None}
           /\ friend' \in Friends \cup {None}
           /\ group' \in Groups \cup {None} /\ retry' \in Groups \cup {None}
           /\ listed' \subseteq {"friends", "groups"}
      BY <1>5, <2>2, <2>3 DEF selectFriend, Click
    <2>11. /\ clicks' \in 0 .. MaxClicks /\ lost' \in 0 .. MaxLost
           /\ live' \in 0 .. MaxLive
      BY <1>5, <2>2, <2>3 DEF selectFriend, Click
    <2>12. sent' \in Seq(Requests) /\ timers' \in Seq(Groups) /\ answers' \in Seq(Replies)
      BY <1>5, <2>2, <2>3 DEF selectFriend, Click, Replies
    <2> QED
      BY <1>5, <2>2, <2>3, <2>8, <2>9, <2>10, <2>11, <2>12 DEF Replies
  <1>6. ASSUME NEW g \in Groups, selectGroup(g) PROVE TypeOK'
    <2>1. /\ display' \in Seq(Items) /\ missed' = FALSE
          /\ group' \in Groups /\ friend' = None
      BY <1>6 DEF selectGroup, Select
    <2>2. timers' \in Seq(Groups)
      BY <1>6 DEF selectGroup, Select
    <2>8. /\ isLoggedIn' \in BOOLEAN /\ connected' \in BOOLEAN /\ missed' \in BOOLEAN
      BY <1>6, <2>1, <2>2 DEF selectGroup, Click
    <2>9. overlapped' \in BOOLEAN /\ overtaken' \in BOOLEAN
      <3>1. overlapped' = overlapped /\ overtaken' = overtaken
        BY <1>6, <2>1, <2>2 DEF selectGroup, Click
      <3> QED
        BY <3>1
    <2>10. /\ page' \in {"auth", "chat", "group"}
           /\ nickname' \in Users \cup {None} /\ session' \in Users \cup {None}
           /\ friend' \in Friends \cup {None}
           /\ group' \in Groups \cup {None} /\ retry' \in Groups \cup {None}
           /\ listed' \subseteq {"friends", "groups"}
      BY <1>6, <2>1, <2>2 DEF selectGroup, Click
    <2>11. /\ clicks' \in 0 .. MaxClicks /\ lost' \in 0 .. MaxLost
           /\ live' \in 0 .. MaxLive
      BY <1>6, <2>1, <2>2 DEF selectGroup, Click
    <2>12. sent' \in Seq(Requests) /\ timers' \in Seq(Groups) /\ answers' \in Seq(Replies)
      BY <1>6, <2>1, <2>2 DEF selectGroup, Click, Replies
    <2> QED
      BY <1>6, <2>1, <2>2, <2>8, <2>9, <2>10, <2>11, <2>12 DEF Replies
  <1>7. ASSUME NEW i \in DOMAIN timers, Timer(i) PROVE TypeOK'
    <2>1. timers[i] \in Groups
      BY <1>7
    <2>2. [kind |-> "history", chat |-> timers[i]] \in Requests
      BY <2>1 DEF Requests, Chats
    <2>3. sent' \in Seq(Requests)
      BY <1>7, <2>2, Sent DEF Timer
    <2>4. timers' \in Seq(Groups)
      BY <1>7, Removed DEF Timer
    <2> QED
      BY <1>7, <2>3, <2>4 DEF Timer
  <1>8. ASSUME RetryTimer PROVE TypeOK'
    <2>1. retry \in Groups
      BY <1>8 DEF RetryTimer
    <2>2. /\ display' \in {display, << >>} /\ timers' \in {timers, Append(timers, retry)}
          /\ sent' = sent
      <3>1. CASE Select(retry)
        BY <1>8, <3>1 DEF Select, RetryTimer
      <3>2. CASE UNCHANGED <<chat, display, timers>>
        BY <1>8, <3>2 DEF RetryTimer
      <3> QED
        BY <1>8, <3>1, <3>2 DEF RetryTimer
    <2>3. timers' \in Seq(Groups)
      <3>1. timers \in Seq(Groups)
        OBVIOUS
      <3> HIDE DEF TypeOK, ClientInv
      <3> QED
        BY <2>1, <2>2, <3>1
    <2>4. display' \in Seq(Items)
      <3>1. << >> \in Seq(Items) /\ display \in Seq(Items)
        OBVIOUS
      <3> HIDE DEF TypeOK, ClientInv
      <3> QED
        BY <2>2, <3>1
    <2>8. /\ isLoggedIn' \in BOOLEAN /\ connected' \in BOOLEAN
          /\ missed' \in BOOLEAN /\ overlapped' \in BOOLEAN /\ overtaken' \in BOOLEAN
      BY <1>8 DEF RetryTimer, Select
    <2>9. /\ page' \in {"auth", "chat", "group"}
          /\ nickname' \in Users \cup {None} /\ session' \in Users \cup {None}
          /\ friend' \in Friends \cup {None}
          /\ group' \in Groups \cup {None} /\ retry' \in Groups \cup {None}
          /\ listed' \subseteq {"friends", "groups"}
          /\ clicks' \in 0 .. MaxClicks /\ lost' \in 0 .. MaxLost
          /\ live' \in 0 .. MaxLive
      BY <1>8 DEF RetryTimer, Select
    <2>10. sent' \in Seq(Requests) /\ timers' \in Seq(Groups)
      BY <2>2, <2>3 DEF RetryTimer, Select
    <2>11. display' \in Seq(Items)
      BY <2>4
    <2>12. answers' \in Seq(Replies)
      BY <1>8 DEF RetryTimer, Select, Replies
    <2> QED
      BY <2>8, <2>9, <2>10, <2>11, <2>12 DEF Replies
  <1>9. ASSUME NEW i \in DOMAIN sent, Handle(i) PROVE TypeOK'
    <2>1. overtaken' \in BOOLEAN
      BY <1>9 DEF Handle
    <2> QED
      BY <1>9, <2>1, Handled DEF Replies
  <1>10. ASSUME LoginAnswer PROVE TypeOK'
    <2>1. [kind |-> "friends"] \in Requests
      BY DEF Requests
    <2>2. sent' \in Seq(Requests)
      BY <1>10, <2>1, Sent DEF LoginAnswer
    <2>3. answers' \in Seq(Replies)
      BY <1>10, Taken DEF LoginAnswer
    <2>8. /\ isLoggedIn' \in BOOLEAN /\ connected' \in BOOLEAN
          /\ missed' \in BOOLEAN /\ overlapped' \in BOOLEAN /\ overtaken' \in BOOLEAN
      BY <1>10, <2>2, <2>3, Taken DEF LoginAnswer, ShowPage
    <2>9. /\ page' \in {"auth", "chat", "group"}
          /\ nickname' \in Users \cup {None} /\ session' \in Users \cup {None}
          /\ friend' \in Friends \cup {None}
          /\ group' \in Groups \cup {None} /\ retry' \in Groups \cup {None}
          /\ listed' \subseteq {"friends", "groups"}
          /\ clicks' \in 0 .. MaxClicks /\ lost' \in 0 .. MaxLost
          /\ live' \in 0 .. MaxLive
      BY <1>10, <2>2, <2>3, Taken DEF LoginAnswer, ShowPage
    <2>10. sent' \in Seq(Requests) /\ timers' \in Seq(Groups)
      BY <1>10, <2>2, <2>3, Taken DEF LoginAnswer, ShowPage
    <2>11. display' \in Seq(Items)
      <3>1. display' \in {display, << >>}
        BY <1>10 DEF LoginAnswer, ShowPage
      <3>2. << >> \in Seq(Items) /\ display \in Seq(Items)
        OBVIOUS
      <3> HIDE DEF TypeOK, ClientInv
      <3> QED
        BY <3>1, <3>2
    <2>12. answers' \in Seq(Replies)
      BY <1>10, <2>2, <2>3, Taken DEF LoginAnswer, ShowPage, Replies
    <2> QED
      BY <2>8, <2>9, <2>10, <2>11, <2>12 DEF Replies
  <1>11. ASSUME LogoutAnswer PROVE TypeOK'
    <2>1. answers' \in Seq(Replies)
      BY <1>11, Taken DEF LogoutAnswer
    <2>8. /\ isLoggedIn' \in BOOLEAN /\ connected' \in BOOLEAN
          /\ missed' \in BOOLEAN /\ overlapped' \in BOOLEAN /\ overtaken' \in BOOLEAN
      BY <1>11, <2>1, Taken DEF LogoutAnswer, ShowPage
    <2>9. /\ page' \in {"auth", "chat", "group"}
          /\ nickname' \in Users \cup {None} /\ session' \in Users \cup {None}
          /\ friend' \in Friends \cup {None}
          /\ group' \in Groups \cup {None} /\ retry' \in Groups \cup {None}
          /\ listed' \subseteq {"friends", "groups"}
          /\ clicks' \in 0 .. MaxClicks /\ lost' \in 0 .. MaxLost
          /\ live' \in 0 .. MaxLive
      BY <1>11, <2>1, Taken DEF LogoutAnswer, ShowPage
    <2>10. sent' \in Seq(Requests) /\ timers' \in Seq(Groups)
      BY <1>11, <2>1, Taken DEF LogoutAnswer, ShowPage
    <2>11. display' \in Seq(Items)
      BY <1>11, <2>1, Taken DEF LogoutAnswer, ShowPage
    <2>12. answers' \in Seq(Replies)
      BY <1>11, <2>1, Taken DEF LogoutAnswer, ShowPage, Replies
    <2> QED
      BY <2>8, <2>9, <2>10, <2>11, <2>12 DEF Replies
  <1>12. ASSUME ListAnswer PROVE TypeOK'
    <2>1. answers' \in Seq(Replies) /\ UNCHANGED <<connected, session, clicks, past>>
      BY <1>12, Taken DEF ListAnswer, past, faults, order
    <2>2. listed' \subseteq {"friends", "groups"}
      BY <1>12 DEF ListAnswer
    <2> QED
      BY <1>12, <2>1, <2>2 DEF ListAnswer, Replies
  <1>13. ASSUME HistoryAnswer PROVE TypeOK'
    <2>1. /\ answers' \in Seq(Replies) /\ Answer \in Replies
          /\ Answer.kind = "history"
          /\ UNCHANGED <<connected, session, clicks, past>>
      BY <1>13, Taken DEF HistoryAnswer, past, faults, order
    <2>2. Answer \in Items
      BY <2>1, Showable
    <2>4. Append(display, Answer) \in Seq(Items) /\ display \in Seq(Items)
          /\ Append(<< >>, Answer) \in Seq(Items) /\ << >> \in Seq(Items)
      BY <2>2
    <2>5. /\ \A items \in {<< >>, display} : Shown(items, Answer) \in Seq(Items)
          /\ ShowInGroup(Answer) => display' \in Seq(Items)
      <3> HIDE DEF TypeOK, ClientInv
      <3> QED
        BY <2>4 DEF Shown, ShowInGroup
    <2>3. display' \in Seq(Items)
      <3>1. \/ display' \in {Shown(<< >>, Answer), Shown(display, Answer), display}
            \/ ShowInGroup(Answer)
        BY <1>13 DEF HistoryAnswer
      <3> QED
        BY <2>4, <2>5, <3>1
    <2> QED
      BY <1>13, <2>1, <2>3 DEF HistoryAnswer, Replies
  <1>14. ASSUME EmptyHistoryAnswer PROVE TypeOK'
    <2>1. /\ answers' \in Seq(Replies) /\ Answer \in Replies
          /\ Answer.kind = "system"
          /\ UNCHANGED <<connected, session, clicks, past>>
      BY <1>14, Taken DEF EmptyHistoryAnswer, past, faults, order
    <2>2. Answer \in Items
      BY <2>1, Showable
    <2>3. display' \in Seq(Items)
      BY <1>14, <2>2 DEF EmptyHistoryAnswer, ShowInGroup
    <2> QED
      BY <1>14, <2>1, <2>3 DEF EmptyHistoryAnswer, Replies
  <1>15. ASSUME LiveMessage PROVE TypeOK'
    <2>1. /\ answers' \in Seq(Replies) /\ Answer \in Replies
          /\ Answer.kind = "live"
          /\ UNCHANGED <<connected, session, clicks, past>>
      BY <1>15, Taken DEF LiveMessage, past, faults, order
    <2>2. Answer \in Items
      BY <2>1, Showable
    <2>4. Append(display, Answer) \in Seq(Items) /\ display \in Seq(Items)
          /\ Append(<< >>, Answer) \in Seq(Items) /\ << >> \in Seq(Items)
      BY <2>2
    <2>5. /\ \A items \in {<< >>, display} : Shown(items, Answer) \in Seq(Items)
          /\ ShowInGroup(Answer) => display' \in Seq(Items)
      <3> HIDE DEF TypeOK, ClientInv
      <3> QED
        BY <2>4 DEF Shown, ShowInGroup
    <2>3. display' \in Seq(Items)
      <3>1. \/ display' \in {Shown(<< >>, Answer), Shown(display, Answer), display}
            \/ ShowInGroup(Answer)
        BY <1>15 DEF LiveMessage
      <3> QED
        BY <2>4, <2>5, <3>1
    <2> QED
      BY <1>15, <2>1, <2>3 DEF LiveMessage, Replies
  <1>16. ASSUME NEW i \in DOMAIN sent, LoseRequest(i) PROVE TypeOK'
    <2>1. sent' \in Seq(Requests)
      BY <1>16, Removed DEF LoseRequest
    <2>2. missed' = TRUE /\ lost' \in 0 .. MaxLost
      BY <1>16 DEF LoseRequest, Lose
    <2> QED
      BY <1>16, <2>1, <2>2 DEF LoseRequest, Lose
  <1>17. ASSUME LoseAnswer PROVE TypeOK'
    <2>1. answers' \in Seq(Replies)
      BY <1>17 DEF LoseAnswer, Replies
    <2>2. missed' = TRUE /\ lost' \in 0 .. MaxLost
      BY <1>17 DEF LoseAnswer, Lose
    <2> QED
      BY <1>17, <2>1, <2>2 DEF LoseAnswer, Lose, Replies
  <1>18. ASSUME Disconnect PROVE TypeOK'
    <2>8. /\ isLoggedIn' \in BOOLEAN /\ connected' \in BOOLEAN
          /\ missed' \in BOOLEAN /\ overlapped' \in BOOLEAN /\ overtaken' \in BOOLEAN
      BY <1>18 DEF Disconnect, ShowPage
    <2>9. /\ page' \in {"auth", "chat", "group"}
          /\ nickname' \in Users \cup {None} /\ session' \in Users \cup {None}
          /\ friend' \in Friends \cup {None}
          /\ group' \in Groups \cup {None} /\ retry' \in Groups \cup {None}
          /\ listed' \subseteq {"friends", "groups"}
          /\ clicks' \in 0 .. MaxClicks /\ lost' \in 0 .. MaxLost
          /\ live' \in 0 .. MaxLive
      BY <1>18 DEF Disconnect, ShowPage
    <2>10. sent' \in Seq(Requests) /\ timers' \in Seq(Groups)
      BY <1>18 DEF Disconnect, ShowPage
    <2>11. display' \in Seq(Items)
      BY <1>18 DEF Disconnect, ShowPage
    <2>12. answers' \in Seq(Replies)
      BY <1>18 DEF Disconnect, ShowPage, Replies
    <2> QED
      BY <2>8, <2>9, <2>10, <2>11, <2>12 DEF Replies
  <1>19. ASSUME NEW c \in Friends \cup Groups, Deliver(c) PROVE TypeOK'
    <2>1. [kind |-> "live", chat |-> c] \in Replies
      BY <1>19 DEF Replies, Items, Chats
    <2>2. answers' \in Seq(Replies)
      BY <1>19, <2>1 DEF Deliver, Replies
    <2> QED
      BY <1>19, <2>2 DEF Deliver, Replies
  <1>20. CASE UNCHANGED vars
    BY <1>20 DEF vars
  <1> QED
    BY <1>1, <1>2, <1>3, <1>4, <1>5, <1>6, <1>7, <1>8, <1>9, <1>10,
       <1>11, <1>12, <1>13, <1>14, <1>15, <1>16, <1>17, <1>18, <1>19, <1>20
    DEF Next, SystemStep, handleServerData

\* What a handler makes of a token: the answer to a login and the "leave" of a logout replace it.
LEMMA TokensHandled ==
    ASSUME ClientInv, NEW i \in DOMAIN sent, Handle(i)
    PROVE  TokensFit'
  <1>1. sent \in Seq(Requests) /\ answers \in Seq(Replies)
    BY DEF ClientInv, TypeOK, Replies
  <1>2. TokensFit /\ UNCHANGED <<isLoggedIn, nickname, overlapped>>
    BY Handled DEF ClientInv, user
  <1>3. /\ Thins(sent, RemoveAt(sent, i))
        /\ Once(sent) /\ Token(sent[i]) => NoToken(RemoveAt(sent, i))
    BY <1>1, ThinsRemove
  <1>4. ~Token(Refused)
    BY DEF Refused, Token, SessionKinds
  <1>5. CASE HandleLogin(i)
    <2> SUFFICES ASSUME ~overlapped PROVE TokensFit'
      BY <1>2 DEF TokensFit
    <2>1. Token(sent[i]) /\ sent[i].kind = "login"
      BY <1>5 DEF HandleLogin, Token, SessionKinds
    <2>2. /\ sent[i].name = nickname /\ ~isLoggedIn
          /\ NoToken(RemoveAt(sent, i)) /\ NoToken(answers)
      BY <1>2, <1>3, <2>1 DEF TokensFit, NoToken
    <2> DEFINE r == [kind |-> "login", right |-> sent[i].name \in Known]
    <2>3. sent' = RemoveAt(sent, i) /\ answers' = Append(answers, r)
      BY <1>5 DEF HandleLogin, Reply
    <2>4. r.kind = "login" /\ (r.right => session' = nickname)
      BY <1>5, <2>2 DEF HandleLogin
    <2> HIDE DEF r
    <2>5. NoToken(sent')
      BY <2>2, <2>3
    <2>6. Once(answers') /\ \A j \in DOMAIN answers' : Token(answers'[j]) => answers'[j] = r
      BY <1>1, <2>2, <2>3, OnceAppend
    <2> QED
      BY <1>2, <2>2, <2>4, <2>5, <2>6 DEF TokensFit, NoToken, Once
  <1>6. CASE HandleLogout(i) /\ session # None
    <2> SUFFICES ASSUME ~overlapped PROVE TokensFit'
      BY <1>2 DEF TokensFit
    <2>1. Token(sent[i]) /\ sent[i].kind = "logout"
      BY <1>6 DEF HandleLogout, Token, SessionKinds
    <2>2. ~isLoggedIn /\ NoToken(answers) /\ Once(sent)
      BY <1>2, <2>1 DEF TokensFit, NoToken
    <2> DEFINE l == [kind |-> "leave"]
               r == [kind |-> "logout"]
    <2>3. sent' = [sent EXCEPT ![i] = l] /\ answers' = Append(answers, r)
      BY <1>6 DEF HandleLogout
    <2>4. l.kind = "leave" /\ r.kind = "logout"
      OBVIOUS
    <2> HIDE DEF l, r
    <2>5. DOMAIN sent' = DOMAIN sent /\ \A k \in DOMAIN sent : sent'[k] = IF k = i THEN l ELSE sent[k]
      BY <1>1, <2>3
    <2>6. \A k \in DOMAIN sent' : Token(sent'[k]) => k = i /\ sent'[k] = l
      BY <2>1, <2>2, <2>5 DEF Once
    <2>7. Once(answers') /\ \A j \in DOMAIN answers' : Token(answers'[j]) => answers'[j] = r
      BY <1>1, <2>2, <2>3, OnceAppend
    <2> QED
      BY <1>2, <2>2, <2>4, <2>6, <2>7 DEF TokensFit, Once
  <1>7. CASE HandleLogout(i) /\ session = None
    <2>1. /\ sent' = RemoveAt(sent, i) /\ answers' = Append(answers, Refused)
          /\ session' = session
      BY <1>7 DEF HandleLogout, Reply
    <2> QED
      BY <1>1, <1>2, <1>3, <1>4, <2>1, ThinsAppend, Quiet
  <1>8. CASE Leave(i)
    <2> SUFFICES ASSUME ~overlapped PROVE TokensFit'
      BY <1>2 DEF TokensFit
    <2>1. Token(sent[i]) /\ sent[i].kind = "leave"
      BY <1>8 DEF Leave, Token, SessionKinds
    <2>2. NoToken(sent') /\ answers' = answers
      BY <1>2, <1>3, <1>8, <2>1 DEF TokensFit, Leave
    <2>3. \A j \in DOMAIN answers : Token(answers[j]) => answers[j].kind = "logout"
      BY <1>2, <2>1 DEF TokensFit
    <2> QED
      BY <1>2, <2>2, <2>3 DEF TokensFit, NoToken, Once
  <1>9. CASE HandleQuestion(i)
    <2>1. sent' = RemoveAt(sent, i) /\ session' = session
      BY <1>9 DEF HandleQuestion, Reply
    <2>2. ~Token(sent[i])
      BY <1>9 DEF HandleQuestion, Token, SessionKinds
    <2>3. ~Token([kind |-> "system", chat |-> sent[i].chat])
      BY DEF Token, SessionKinds
    <2>4. PICK r : answers' = Append(answers, r) /\ ~Token(r)
      BY <1>4, <1>9, <2>2, <2>3 DEF HandleQuestion, Reply
    <2>5. Thins(answers, answers')
      BY <1>1, <2>4, ThinsAppend
    <2> QED
      BY <1>2, <1>3, <2>1, <2>5, Quiet
  <1> QED
    BY <1>5, <1>6, <1>7, <1>8, <1>9 DEF Handle

\* Every step keeps what a token on its way says of the two sides.
LEMMA TokensKept ==
    ASSUME ClientInv, [Next]_vars
    PROVE  TokensFit'
  <1> USE DEF ClientInv, TypeOK, PagesFit, user, chat, view, server,
      past, faults, order
  <1>1. ASSUME NEW name \in Users, login(name) PROVE TokensFit'
    <2> SUFFICES ASSUME ~overlapped' PROVE TokensFit'
      BY DEF TokensFit
    <2>1. ~overlapped /\ NoToken(sent) /\ NoToken(answers)
      BY <1>1 DEF login, UnderWay, NoToken, Token
    <2>2. connected
      BY <1>1 DEF login
    <2> DEFINE r == [kind |-> "login", name |-> name]
    <2>3. sent' = Append(sent, r) /\ answers' = answers
      BY <1>1, <2>2 DEF login, Send
    <2>4. r.kind = "login" /\ r.name = nickname' /\ ~isLoggedIn'
      BY <1>1 DEF login
    <2> HIDE DEF r
    <2>5. Once(sent') /\ \A j \in DOMAIN sent' : Token(sent'[j]) => sent'[j] = r
      BY <2>1, <2>3, OnceAppend
    <2> QED
      BY <2>1, <2>3, <2>4, <2>5 DEF TokensFit, NoToken, Once
  <1>2. ASSUME logout PROVE TokensFit'
    <2> SUFFICES ASSUME ~overlapped' PROVE TokensFit'
      BY DEF TokensFit
    <2>1. ~overlapped /\ NoToken(sent) /\ NoToken(answers)
      BY <1>2 DEF logout, UnderWay, NoToken, Token
    <2>2. connected
      BY <1>2 DEF logout
    <2> DEFINE r == [kind |-> "logout"]
    <2>3. sent' = Append(sent, r) /\ answers' = answers
      BY <1>2, <2>2 DEF logout, Send
    <2>4. r.kind = "logout" /\ ~isLoggedIn'
      BY <1>2 DEF logout
    <2> HIDE DEF r
    <2>5. Once(sent') /\ \A j \in DOMAIN sent' : Token(sent'[j]) => sent'[j] = r
      BY <2>1, <2>3, OnceAppend
    <2> QED
      BY <2>1, <2>3, <2>4, <2>5 DEF TokensFit, NoToken, Once
  <1>3. ASSUME openGroupPage PROVE TokensFit'
    <2>1. [kind |-> "groups"] \in Requests /\ ~Token([kind |-> "groups"])
      BY <1>3 DEF Requests, Chats, Token, SessionKinds
    <2>2. Thins(sent, sent')
      BY <1>3, <2>1, Sent DEF openGroupPage
    <2> QED
      BY <1>3, <2>2, ThinsSame, Quiet DEF openGroupPage
  <1>4. ASSUME back PROVE TokensFit'
    BY <1>4, ThinsSame, Quiet DEF back
  <1>5. ASSUME NEW f \in Friends, selectFriend(f) PROVE TokensFit'
    <2>1. [kind |-> "history", chat |-> f] \in Requests /\ ~Token([kind |-> "history", chat |-> f])
      BY <1>5 DEF Requests, Chats, Token, SessionKinds
    <2>2. Thins(sent, sent')
      BY <1>5, <2>1, Sent DEF selectFriend
    <2> QED
      BY <1>5, <2>2, ThinsSame, Quiet DEF selectFriend
  <1>6. ASSUME NEW g \in Groups, selectGroup(g) PROVE TokensFit'
    BY <1>6, ThinsSame, Quiet DEF selectGroup
  <1>7. ASSUME NEW i \in DOMAIN timers, Timer(i) PROVE TokensFit'
    <2>1. timers[i] \in Groups
      BY <1>7
    <2>2. /\ [kind |-> "history", chat |-> timers[i]] \in Requests
          /\ ~Token([kind |-> "history", chat |-> timers[i]])
      BY <2>1 DEF Requests, Chats, Token, SessionKinds
    <2>3. Thins(sent, sent')
      BY <1>7, <2>2, Sent DEF Timer
    <2> QED
      BY <1>7, <2>3, ThinsSame, Quiet DEF Timer
  <1>8. ASSUME RetryTimer PROVE TokensFit'
    BY <1>8, ThinsSame, Quiet DEF RetryTimer
  <1>9. ASSUME NEW i \in DOMAIN sent, Handle(i) PROVE TokensFit'
    BY <1>9, TokensHandled
  <1>10. ASSUME LoginAnswer PROVE TokensFit'
    <2> SUFFICES ASSUME ~overlapped' PROVE TokensFit'
      BY DEF TokensFit
    <2>1. /\ ~overlapped /\ session' = session /\ nickname' = nickname
          /\ 1 \in DOMAIN answers /\ Token(answers[1]) /\ answers[1].kind = "login"
          /\ Once(answers) => NoToken(answers')
      BY <1>10, Taken DEF LoginAnswer, Token, SessionKinds
    <2>2. NoToken(answers') /\ NoToken(sent)
      BY <2>1 DEF TokensFit, NoToken
    <2>3. [kind |-> "friends"] \in Requests /\ ~Token([kind |-> "friends"])
      BY DEF Requests, Token, SessionKinds
    <2>4. Thins(sent, sent')
      BY <1>10, <2>3, Sent, ThinsSame DEF LoginAnswer
    <2>5. NoToken(sent')
      BY <2>2, <2>4 DEF Thins, NoToken
    <2> QED
      BY <2>2, <2>5 DEF TokensFit, NoToken, Once
  <1>11. ASSUME LogoutAnswer PROVE TokensFit'
    <2> SUFFICES ASSUME ~overlapped' PROVE TokensFit'
      BY DEF TokensFit
    <2>1. /\ ~overlapped /\ session' = session /\ sent' = sent /\ isLoggedIn' = FALSE
          /\ 1 \in DOMAIN answers /\ Token(answers[1])
          /\ Once(answers) => NoToken(answers')
      BY <1>11, Taken DEF LogoutAnswer, Token, SessionKinds
    <2>2. NoToken(answers')
      BY <2>1 DEF TokensFit
    <2>3. \A i \in DOMAIN sent : Token(sent[i]) => sent[i].kind = "leave"
      BY <2>1 DEF TokensFit
    <2> QED
      BY <2>1, <2>2, <2>3 DEF TokensFit, NoToken, Once
  <1>12. ASSUME ListAnswer PROVE TokensFit'
    <2>1. Thins(answers, answers') /\ session' = session /\ overlapped' = overlapped
      BY <1>12, Taken DEF ListAnswer
    <2> QED
      BY <1>12, <2>1, ThinsSame, Quiet DEF ListAnswer
  <1>13. ASSUME HistoryAnswer PROVE TokensFit'
    <2>1. Thins(answers, answers') /\ session' = session /\ overlapped' = overlapped
      BY <1>13, Taken DEF HistoryAnswer
    <2> QED
      BY <1>13, <2>1, ThinsSame, Quiet DEF HistoryAnswer
  <1>14. ASSUME EmptyHistoryAnswer PROVE TokensFit'
    <2>1. Thins(answers, answers') /\ session' = session /\ overlapped' = overlapped
      BY <1>14, Taken DEF EmptyHistoryAnswer
    <2> QED
      BY <1>14, <2>1, ThinsSame, Quiet DEF EmptyHistoryAnswer
  <1>15. ASSUME LiveMessage PROVE TokensFit'
    <2>1. Thins(answers, answers') /\ session' = session /\ overlapped' = overlapped
      BY <1>15, Taken DEF LiveMessage
    <2> QED
      BY <1>15, <2>1, ThinsSame, Quiet DEF LiveMessage
  <1>16. ASSUME NEW i \in DOMAIN sent, LoseRequest(i) PROVE TokensFit'
    <2>1. Thins(sent, sent')
      BY <1>16, ThinsRemove DEF LoseRequest
    <2> QED
      BY <1>16, <2>1, ThinsSame, Quiet DEF LoseRequest, Lose
  <1>17. ASSUME LoseAnswer PROVE TokensFit'
    <2>1. answers \in Seq(Replies) /\ answers # << >>
      BY <1>17 DEF LoseAnswer, Replies
    <2>2. Thins(answers, answers')
      BY <1>17, <2>1, ThinsTail DEF LoseAnswer
    <2> QED
      BY <1>17, <2>2, ThinsSame, Quiet DEF LoseAnswer, Lose
  <1>18. ASSUME Disconnect PROVE TokensFit'
    BY <1>18 DEF Disconnect, TokensFit, Once
  <1>19. ASSUME NEW c \in Friends \cup Groups, Deliver(c) PROVE TokensFit'
    <2>1. ~Token([kind |-> "live", chat |-> c]) /\ answers \in Seq(Replies)
      BY DEF Token, SessionKinds, Replies
    <2>2. Thins(answers, answers')
      BY <1>19, <2>1, ThinsAppend DEF Deliver
    <2> QED
      BY <1>19, <2>2, ThinsSame, Quiet DEF Deliver
  <1>20. CASE UNCHANGED vars
    BY <1>20, ThinsSame, Quiet DEF vars
  <1> QED
    BY <1>1, <1>2, <1>3, <1>4, <1>5, <1>6, <1>7, <1>8, <1>9, <1>10,
       <1>11, <1>12, <1>13, <1>14, <1>15, <1>16, <1>17, <1>18, <1>19, <1>20
    DEF Next, SystemStep, handleServerData


\* Every step keeps page and login, and connection and requests, together.
LEMMA PagesKept ==
    ASSUME ClientInv, [Next]_vars
    PROVE  PagesFit'
  <1> USE ClientSessionAssumption DEF ClientInv, TypeOK, PagesFit, user, chat, view, server,
      past, faults, order
  <1>1. ASSUME NEW name \in Users, login(name) PROVE PagesFit'
    BY <1>1 DEF login, Click
  <1>2. ASSUME logout PROVE PagesFit'
    BY <1>2 DEF logout, Click, ShowPage
  <1>3. ASSUME openGroupPage PROVE PagesFit'
    <2>1. connected /\ connected' = connected
      BY <1>3 DEF openGroupPage, Click
    <2> QED
      BY <1>3, <2>1 DEF openGroupPage, ShowPage
  <1>4. ASSUME back PROVE PagesFit'
    BY <1>4 DEF back, Click, ShowPage
  <1>5. ASSUME NEW f \in Friends, selectFriend(f) PROVE PagesFit'
    <2>1. connected /\ connected' = connected
      BY <1>5 DEF selectFriend, Click
    <2> QED
      BY <1>5, <2>1 DEF selectFriend
  <1>6. ASSUME NEW g \in Groups, selectGroup(g) PROVE PagesFit'
    BY <1>6 DEF selectGroup, Click, Select
  <1>7. ASSUME NEW i \in DOMAIN timers, Timer(i) PROVE PagesFit'
    <2>1. connected
      BY <1>7
    <2> QED
      BY <1>7, <2>1 DEF Timer
  <1>8. ASSUME RetryTimer PROVE PagesFit'
    BY <1>8 DEF RetryTimer, Select
  <1>9. ASSUME NEW i \in DOMAIN sent, Handle(i) PROVE PagesFit'
    <2>1. connected
      BY <1>9
    <2> QED
      BY <1>9, <2>1, Handled
  <1>10. ASSUME LoginAnswer PROVE PagesFit'
    <2>1. connected /\ connected' = connected
      BY <1>10, Taken DEF LoginAnswer
    <2> QED
      BY <1>10, <2>1 DEF LoginAnswer, ShowPage
  <1>11. ASSUME LogoutAnswer PROVE PagesFit'
    <2>1. connected /\ connected' = connected
      BY <1>11, Taken DEF LogoutAnswer
    <2> QED
      BY <1>11, <2>1 DEF LogoutAnswer, ShowPage
  <1>12. ASSUME ListAnswer PROVE PagesFit'
    <2>1. connected /\ connected' = connected
      BY <1>12, Taken DEF ListAnswer
    <2> QED
      BY <1>12, <2>1 DEF ListAnswer
  <1>13. ASSUME HistoryAnswer PROVE PagesFit'
    <2>1. connected /\ connected' = connected
      BY <1>13, Taken DEF HistoryAnswer
    <2> QED
      BY <1>13, <2>1 DEF HistoryAnswer, Shown, ShowInGroup
  <1>14. ASSUME EmptyHistoryAnswer PROVE PagesFit'
    <2>1. connected /\ connected' = connected
      BY <1>14, Taken DEF EmptyHistoryAnswer
    <2> QED
      BY <1>14, <2>1 DEF EmptyHistoryAnswer, ShowInGroup
  <1>15. ASSUME LiveMessage PROVE PagesFit'
    <2>1. connected /\ connected' = connected
      BY <1>15, Taken DEF LiveMessage
    <2> QED
      BY <1>15, <2>1 DEF LiveMessage, Shown, ShowInGroup
  <1>16. ASSUME NEW i \in DOMAIN sent, LoseRequest(i) PROVE PagesFit'
    BY <1>16 DEF LoseRequest, Lose
  <1>17. ASSUME LoseAnswer PROVE PagesFit'
    BY <1>17 DEF LoseAnswer, Lose
  <1>18. ASSUME Disconnect PROVE PagesFit'
    BY <1>18 DEF Disconnect, ShowPage
  <1>19. ASSUME NEW c \in Friends \cup Groups, Deliver(c) PROVE PagesFit'
    BY <1>19 DEF Deliver
  <1>20. CASE UNCHANGED vars
    BY <1>20 DEF vars
  <1> QED
    BY <1>1, <1>2, <1>3, <1>4, <1>5, <1>6, <1>7, <1>8, <1>9, <1>10,
       <1>11, <1>12, <1>13, <1>14, <1>15, <1>16, <1>17, <1>18, <1>19, <1>20
    DEF Next, SystemStep, handleServerData

\* Every step keeps the open group on the group page.
LEMMA GroupKept ==
    ASSUME ClientInv, [Next]_vars
    PROVE  GroupFits'
  <1> USE ClientSessionAssumption DEF ClientInv, TypeOK, PagesFit, user, chat, view, server,
      past, faults, order,
             GroupFits, isGroupChat
  <1>1. ASSUME NEW name \in Users, login(name) PROVE GroupFits'
    BY <1>1 DEF login, Click
  <1>2. ASSUME logout PROVE GroupFits'
    BY <1>2 DEF logout, Click, ShowPage
  <1>3. ASSUME openGroupPage PROVE GroupFits'
    BY <1>3 DEF openGroupPage, Click, ShowPage
  <1>4. ASSUME back PROVE GroupFits'
    BY <1>4 DEF back, Click, ShowPage
  <1>5. ASSUME NEW f \in Friends, selectFriend(f) PROVE GroupFits'
    BY <1>5 DEF selectFriend, Click
  <1>6. ASSUME NEW g \in Groups, selectGroup(g) PROVE GroupFits'
    BY <1>6 DEF selectGroup, Click, Select
  <1>7. ASSUME NEW i \in DOMAIN timers, Timer(i) PROVE GroupFits'
    BY <1>7 DEF Timer
  <1>8. ASSUME RetryTimer PROVE GroupFits'
    BY <1>8 DEF RetryTimer, Select
  <1>9. ASSUME NEW i \in DOMAIN sent, Handle(i) PROVE GroupFits'
    BY <1>9, Handled
  <1>10. ASSUME LoginAnswer PROVE GroupFits'
    <2>1. /\ connected' = connected /\ overlapped' = overlapped
          /\ 1 \in DOMAIN answers /\ Answer = answers[1] /\ Answer.kind = "login"
      BY <1>10, Taken DEF LoginAnswer
    <2>2. ~overlapped => ~isLoggedIn
      BY <2>1 DEF TokensFit, Token, SessionKinds
    <2> QED
      BY <1>10, <2>1, <2>2 DEF LoginAnswer, ShowPage
  <1>11. ASSUME LogoutAnswer PROVE GroupFits'
    <2>1. /\ connected' = connected /\ overlapped' = overlapped
          /\ 1 \in DOMAIN answers /\ Answer = answers[1] /\ Answer.kind = "logout"
      BY <1>11, Taken DEF LogoutAnswer
    <2>2. ~overlapped => ~isLoggedIn
      BY <2>1 DEF TokensFit, Token, SessionKinds
    <2> QED
      BY <1>11, <2>1, <2>2 DEF LogoutAnswer, ShowPage
  <1>12. ASSUME ListAnswer PROVE GroupFits'
    <2>1. connected' = connected /\ overlapped' = overlapped
      BY <1>12, Taken DEF ListAnswer
    <2> QED
      BY <1>12, <2>1 DEF ListAnswer
  <1>13. ASSUME HistoryAnswer PROVE GroupFits'
    <2>1. connected' = connected /\ overlapped' = overlapped
      BY <1>13, Taken DEF HistoryAnswer
    <2> QED
      BY <1>13, <2>1 DEF HistoryAnswer
  <1>14. ASSUME EmptyHistoryAnswer PROVE GroupFits'
    <2>1. connected' = connected /\ overlapped' = overlapped
      BY <1>14, Taken DEF EmptyHistoryAnswer
    <2> QED
      BY <1>14, <2>1 DEF EmptyHistoryAnswer
  <1>15. ASSUME LiveMessage PROVE GroupFits'
    <2>1. connected' = connected /\ overlapped' = overlapped
      BY <1>15, Taken DEF LiveMessage
    <2> QED
      BY <1>15, <2>1 DEF LiveMessage
  <1>16. ASSUME NEW i \in DOMAIN sent, LoseRequest(i) PROVE GroupFits'
    BY <1>16 DEF LoseRequest, Lose
  <1>17. ASSUME LoseAnswer PROVE GroupFits'
    BY <1>17 DEF LoseAnswer, Lose
  <1>18. ASSUME Disconnect PROVE GroupFits'
    BY <1>18 DEF Disconnect, ShowPage
  <1>19. ASSUME NEW c \in Friends \cup Groups, Deliver(c) PROVE GroupFits'
    BY <1>19 DEF Deliver
  <1>20. CASE UNCHANGED vars
    BY <1>20 DEF vars
  <1> QED
    BY <1>1, <1>2, <1>3, <1>4, <1>5, <1>6, <1>7, <1>8, <1>9, <1>10,
       <1>11, <1>12, <1>13, <1>14, <1>15, <1>16, <1>17, <1>18, <1>19, <1>20
    DEF Next, SystemStep, handleServerData

\* Every step keeps the user that is shown and the server's the same.
LEMMA LoggedKept ==
    ASSUME ClientInv, [Next]_vars
    PROVE  LoggedInAsOneself'
  <1> USE ClientSessionAssumption DEF ClientInv, TypeOK, PagesFit, user, chat, view, server,
      past, faults, order,
             LoggedInAsOneself
  <1>1. ASSUME NEW name \in Users, login(name) PROVE LoggedInAsOneself'
    BY <1>1 DEF login, Click
  <1>2. ASSUME logout PROVE LoggedInAsOneself'
    BY <1>2 DEF logout, Click, ShowPage
  <1>3. ASSUME openGroupPage PROVE LoggedInAsOneself'
    BY <1>3 DEF openGroupPage, Click, ShowPage
  <1>4. ASSUME back PROVE LoggedInAsOneself'
    BY <1>4 DEF back, Click, ShowPage
  <1>5. ASSUME NEW f \in Friends, selectFriend(f) PROVE LoggedInAsOneself'
    BY <1>5 DEF selectFriend, Click
  <1>6. ASSUME NEW g \in Groups, selectGroup(g) PROVE LoggedInAsOneself'
    BY <1>6 DEF selectGroup, Click, Select
  <1>7. ASSUME NEW i \in DOMAIN timers, Timer(i) PROVE LoggedInAsOneself'
    BY <1>7 DEF Timer
  <1>8. ASSUME RetryTimer PROVE LoggedInAsOneself'
    BY <1>8 DEF RetryTimer, Select
  <1>9. ASSUME NEW i \in DOMAIN sent, Handle(i) PROVE LoggedInAsOneself'
    <2>1. UNCHANGED <<connected, isLoggedIn, nickname, overlapped>>
      BY <1>9, Handled
    <2>2. ~overlapped /\ isLoggedIn => session' = session
      <3>1. ~overlapped /\ isLoggedIn => ~Token(sent[i])
        BY DEF TokensFit
      <3> QED
        BY <1>9, <3>1 DEF Handle, HandleLogin, HandleLogout, Leave, HandleQuestion, Token, SessionKinds
    <2> QED
      BY <2>1, <2>2
  <1>10. ASSUME LoginAnswer PROVE LoggedInAsOneself'
    <2> SUFFICES ASSUME connected', isLoggedIn', ~overlapped' PROVE session' = nickname'
      OBVIOUS
    <2>1. /\ UNCHANGED <<connected, session, overlapped, nickname>>
          /\ 1 \in DOMAIN answers /\ Answer = answers[1] /\ Answer.kind = "login"
      BY <1>10, Taken DEF LoginAnswer
    <2>2. ~isLoggedIn /\ (Answer.right => session = nickname)
      BY <2>1 DEF TokensFit, Token, SessionKinds
    <2> QED
      BY <1>10, <2>1, <2>2 DEF LoginAnswer
  <1>11. ASSUME LogoutAnswer PROVE LoggedInAsOneself'
    BY <1>11 DEF LogoutAnswer
  <1>12. ASSUME ListAnswer PROVE LoggedInAsOneself'
    <2>1. UNCHANGED <<connected, session, overlapped>>
      BY <1>12, Taken DEF ListAnswer
    <2> QED
      BY <1>12, <2>1 DEF ListAnswer
  <1>13. ASSUME HistoryAnswer PROVE LoggedInAsOneself'
    <2>1. UNCHANGED <<connected, session, overlapped>>
      BY <1>13, Taken DEF HistoryAnswer
    <2> QED
      BY <1>13, <2>1 DEF HistoryAnswer
  <1>14. ASSUME EmptyHistoryAnswer PROVE LoggedInAsOneself'
    <2>1. UNCHANGED <<connected, session, overlapped>>
      BY <1>14, Taken DEF EmptyHistoryAnswer
    <2> QED
      BY <1>14, <2>1 DEF EmptyHistoryAnswer
  <1>15. ASSUME LiveMessage PROVE LoggedInAsOneself'
    <2>1. UNCHANGED <<connected, session, overlapped>>
      BY <1>15, Taken DEF LiveMessage
    <2> QED
      BY <1>15, <2>1 DEF LiveMessage
  <1>16. ASSUME NEW i \in DOMAIN sent, LoseRequest(i) PROVE LoggedInAsOneself'
    BY <1>16 DEF LoseRequest, Lose
  <1>17. ASSUME LoseAnswer PROVE LoggedInAsOneself'
    BY <1>17 DEF LoseAnswer, Lose
  <1>18. ASSUME Disconnect PROVE LoggedInAsOneself'
    BY <1>18 DEF Disconnect, ShowPage
  <1>19. ASSUME NEW c \in Friends \cup Groups, Deliver(c) PROVE LoggedInAsOneself'
    BY <1>19 DEF Deliver
  <1>20. CASE UNCHANGED vars
    BY <1>20 DEF vars
  <1> QED
    BY <1>1, <1>2, <1>3, <1>4, <1>5, <1>6, <1>7, <1>8, <1>9, <1>10,
       <1>11, <1>12, <1>13, <1>14, <1>15, <1>16, <1>17, <1>18, <1>19, <1>20
    DEF Next, SystemStep, handleServerData

\* An item that is added to what is shown, to nothing, or to neither.
LEMMA Added ==
    ASSUME TypeOK, NEW a \in Items, NEW items \in {display, << >>}
    PROVE  \A i \in DOMAIN Append(items, a) :
              \/ i \in DOMAIN items /\ Append(items, a)[i] = items[i]
              \/ Append(items, a)[i] = a
  <1>1. items \in Seq(Items)
    <2>1. display \in Seq(Items) /\ << >> \in Seq(Items)
      BY DEF TypeOK
    <2> QED
      BY <2>1
  <1> QED
    BY <1>1, AppendProperties

\* Every step keeps what is listed in its own chat.
LEMMA LiveKept ==
    ASSUME ClientInv, [Next]_vars
    PROVE  LiveIsOfOpenChat'
  <1> USE DEF ClientInv, LiveIsOfOpenChat, Open, isGroupChat, user, chat, view, server,
      past, faults, order
  <1>1. ASSUME NEW name \in Users, login(name) PROVE LiveIsOfOpenChat'
    BY <1>1 DEF login, Click
  <1>2. ASSUME logout PROVE LiveIsOfOpenChat'
    BY <1>2 DEF logout, Click, ShowPage
  <1>3. ASSUME openGroupPage PROVE LiveIsOfOpenChat'
    BY <1>3 DEF openGroupPage, Click, ShowPage
  <1>4. ASSUME back PROVE LiveIsOfOpenChat'
    BY <1>4 DEF back, Click, ShowPage
  <1>5. ASSUME NEW f \in Friends, selectFriend(f) PROVE LiveIsOfOpenChat'
    BY <1>5 DEF selectFriend, Click
  <1>6. ASSUME NEW g \in Groups, selectGroup(g) PROVE LiveIsOfOpenChat'
    BY <1>6 DEF selectGroup, Click, Select
  <1>7. ASSUME NEW i \in DOMAIN timers, Timer(i) PROVE LiveIsOfOpenChat'
    BY <1>7 DEF Timer
  <1>8. ASSUME RetryTimer PROVE LiveIsOfOpenChat'
    BY <1>8 DEF RetryTimer, Select, chat
  <1>9. ASSUME NEW i \in DOMAIN sent, Handle(i) PROVE LiveIsOfOpenChat'
    BY <1>9, Handled DEF chat, view
  <1>10. ASSUME LoginAnswer PROVE LiveIsOfOpenChat'
    BY <1>10 DEF LoginAnswer, ShowPage
  <1>11. ASSUME LogoutAnswer PROVE LiveIsOfOpenChat'
    BY <1>11 DEF LogoutAnswer, ShowPage
  <1>12. ASSUME ListAnswer PROVE LiveIsOfOpenChat'
    BY <1>12 DEF ListAnswer
  <1>13. ASSUME HistoryAnswer PROVE LiveIsOfOpenChat'
    <2>1. Answer \in Replies /\ Answer.kind = "history"
      BY <1>13, Taken DEF HistoryAnswer
    <2>2. Answer \in Items
      BY <2>1, Showable
    <2>3. UNCHANGED <<friend, group>>
      BY <1>13 DEF HistoryAnswer
    <2>4. \/ display' = display
          \/ \E items \in {display, << >>} : display' = Append(items, Answer)
          \/ display' = << >>
      BY <1>13 DEF HistoryAnswer, Shown, ShowInGroup
    <2>5. ASSUME NEW items \in {display, << >>}, display' = Append(items, Answer)
          PROVE  LiveIsOfOpenChat'
      BY <2>1, <2>2, <2>3, <2>5, Added
    <2> QED
      BY <2>3, <2>4, <2>5
  <1>14. ASSUME EmptyHistoryAnswer PROVE LiveIsOfOpenChat'
    <2>1. Answer \in Replies /\ Answer.kind = "system"
      BY <1>14, Taken DEF EmptyHistoryAnswer
    <2>2. Answer \in Items
      BY <2>1, Showable
    <2>3. UNCHANGED <<friend, group>>
      BY <1>14 DEF EmptyHistoryAnswer
    <2>4. \/ display' = display
          \/ \E items \in {display, << >>} : display' = Append(items, Answer)
          \/ display' = << >>
      BY <1>14 DEF EmptyHistoryAnswer, Shown, ShowInGroup
    <2>5. ASSUME NEW items \in {display, << >>}, display' = Append(items, Answer)
          PROVE  LiveIsOfOpenChat'
      BY <2>1, <2>2, <2>3, <2>5, Added
    <2> QED
      BY <2>3, <2>4, <2>5
  <1>15. ASSUME LiveMessage PROVE LiveIsOfOpenChat'
    <2>1. Answer \in Replies /\ Answer.kind = "live"
      BY <1>15, Taken DEF LiveMessage
    <2>2. Answer \in Items
      BY <2>1, Showable
    <2>3. UNCHANGED <<friend, group>>
      BY <1>15 DEF LiveMessage
    <2>4. \/ display' = display
          \/ /\ display' = Append(display, Answer)
             /\ Answer.chat \in {friend, group}
      BY <1>15 DEF LiveMessage, Shown, ShowInGroup
    <2>5. Answer.chat \in {friend, group} /\ Answer.chat # None => Answer.chat = Open
      BY DEF GroupFits, Open
    <2>6. CASE display' = Append(display, Answer) /\ Answer.chat \in {friend, group}
      BY <2>2, <2>3, <2>5, <2>6, Added
    <2> QED
      BY <2>3, <2>4, <2>6
  <1>16. ASSUME NEW i \in DOMAIN sent, LoseRequest(i) PROVE LiveIsOfOpenChat'
    BY <1>16 DEF LoseRequest, Lose
  <1>17. ASSUME LoseAnswer PROVE LiveIsOfOpenChat'
    BY <1>17 DEF LoseAnswer, Lose
  <1>18. ASSUME Disconnect PROVE LiveIsOfOpenChat'
    BY <1>18 DEF Disconnect, ShowPage
  <1>19. ASSUME NEW c \in Friends \cup Groups, Deliver(c) PROVE LiveIsOfOpenChat'
    BY <1>19 DEF Deliver
  <1>20. CASE UNCHANGED vars
    BY <1>20 DEF vars
  <1> QED
    BY <1>1, <1>2, <1>3, <1>4, <1>5, <1>6, <1>7, <1>8, <1>9, <1>10,
       <1>11, <1>12, <1>13, <1>14, <1>15, <1>16, <1>17, <1>18, <1>19, <1>20
    DEF Next, SystemStep, handleServerData

-----------------------------------------------------------------------------
\* The inductive invariant behind the theorems.
THEOREM ClientInvariant == Spec => []ClientInv
  <1>1. Init => ClientInv
    <2> SUFFICES ASSUME Init PROVE ClientInv
      OBVIOUS
    <2>1. TypeOK
      <3>1. /\ page \in {"auth", "chat", "group"} /\ listed \subseteq {"friends", "groups"}
            /\ nickname \in Users \cup {None} /\ session \in Users \cup {None}
            /\ friend \in Friends \cup {None}
            /\ group \in Groups \cup {None} /\ retry \in Groups \cup {None}
        BY DEF Init
      <3>2. clicks \in 0 .. MaxClicks /\ lost \in 0 .. MaxLost /\ live \in 0 .. MaxLive
        BY ClientSessionAssumption DEF Init
      <3>3. display \in Seq(Items) /\ timers \in Seq(Groups) /\ sent \in Seq(Requests)
        BY DEF Init
      <3>4. answers \in Seq(Replies)
        BY DEF Init
      <3> QED
        BY <3>1, <3>2, <3>3, <3>4 DEF Init, TypeOK, Replies
    <2> QED
      BY <2>1 DEF Init, ClientInv, TokensFit, Once, PagesFit, GroupFits, LoggedInAsOneself,
         LiveIsOfOpenChat
  <1>2. ClientInv /\ [Next]_vars => ClientInv'
    BY TypesKept, TokensKept, PagesKept, GroupKept, LoggedKept, LiveKept DEF ClientInv
  <1> QED
    BY <1>1, <1>2, PTL DEF Spec

\* Every variable has its type.
THEOREM ClientTypeCorrect == Spec => []TypeOK
  <1>1. ClientInv => TypeOK
    BY DEF ClientInv
  <1> QED
    BY <1>1, ClientInvariant, PTL

\* A client that shows a user as logged in is that user at the server, through lost messages and
\* answers in any order (login, handleLogin, handleLogout).
THEOREM ClientsAreThemselves == Spec => []LoggedInAsOneself
  <1>1. ClientInv => LoggedInAsOneself
    BY DEF ClientInv
  <1> QED
    BY <1>1, ClientInvariant, PTL

\* m_isGroupChat is set for a logged-in user only while the group page is on top.
THEOREM GroupsStayOnTheirPage == Spec => []NoGroupBehindThePage
  <1>1. ClientInv => NoGroupBehindThePage
    BY DEF ClientInv, NoGroupBehindThePage, GroupFits, PagesFit, isGroupChat
  <1> QED
    BY <1>1, ClientInvariant, PTL

\* Every message is listed in its own chat (handleServerData, the cases of messages).
THEOREM MessagesAreInTheirChats == Spec => []LiveIsOfOpenChat
  <1>1. ClientInv => LiveIsOfOpenChat
    BY DEF ClientInv
  <1> QED
    BY <1>1, ClientInvariant, PTL
-----------------------------------------------------------------------------
(* What lists the history of the open chat: the answers and requests on    *)
(* their way are looked at as one sequence, which is in the order of the   *)
(* clicks while requests are handled in their order.                       *)

way == answers \o sent

\* The answers that list something for whatever chat is open, and those that clear the list first.
Lister(r) == r.kind \in {"history", "system"}
Clearer(r) == r.kind = "history" /\ r.chat \in Friends

\* Nothing behind place i will clear the list.
LastClear(s, i) == \A j \in DOMAIN s : j > i => ~Clearer(s[j])

\* The list of a friend's chat: the history, then messages.
ListsFriend(f) ==
    /\ Lists(f)
    /\ \A i \in DOMAIN display :
          display[i] = [kind |-> IF i = 1 THEN "history" ELSE "live", chat |-> f]

\* The last friend's history on its way is that of the friend whose chat is open; when there is none,
\* that friend's has arrived.
FriendAsked == page = "chat" /\ friend # None =>
    /\ \A i \in DOMAIN way : Clearer(way[i]) /\ LastClear(way, i) => way[i].chat = friend
    /\ LastClear(way, 0) => ListsFriend(friend)

\* A timer will ask for the history of the open group, or it is on its way, or it is listed; and no
\* friend's history comes behind it.
GroupAsked == page = "group" /\ group # None =>
    \/ \E i \in DOMAIN timers : timers[i] = group
    \/ \E i \in DOMAIN way : Lister(way[i]) /\ way[i].chat = group /\ LastClear(way, i)
    \/ Lists(group) /\ LastClear(way, 0)

HistoryAsked == Orderly /\ isLoggedIn => FriendAsked /\ GroupAsked

\* Nobody is refused: whom the client shows as logged in, and whom an answer says to be, the server
\* has as well.
SessionFits == ~overlapped =>
    /\ isLoggedIn => session # None
    /\ \A j \in DOMAIN answers :
          answers[j].kind = "login" /\ answers[j].right => session # None

HistoryInv == SessionFits /\ HistoryAsked
-----------------------------------------------------------------------------
\* Two sequences, one behind the other.
LEMMA Joined ==
    ASSUME NEW S, NEW s \in Seq(S), NEW r \in Seq(S)
    PROVE  /\ s \o r \in Seq(S)
           /\ DOMAIN (s \o r) = 1 .. Len(s) + Len(r)
           /\ \A i \in DOMAIN s : i \in DOMAIN (s \o r) /\ (s \o r)[i] = s[i]
           /\ \A i \in DOMAIN r : Len(s) + i \in DOMAIN (s \o r) /\ (s \o r)[Len(s) + i] = r[i]
           /\ \A i \in DOMAIN (s \o r) :
                 IF i <= Len(s) THEN i \in DOMAIN s /\ (s \o r)[i] = s[i]
                 ELSE i - Len(s) \in DOMAIN r /\ (s \o r)[i] = r[i - Len(s)]
  OBVIOUS

\* The sequence of what is on its way, and its places.
LEMMA WayTypes ==
    ASSUME TypeOK
    PROVE  /\ answers \in Seq(Replies) /\ sent \in Seq(Replies) /\ way \in Seq(Replies)
           /\ Len(answers) \in Nat /\ Len(sent) \in Nat
           /\ DOMAIN answers = 1 .. Len(answers) /\ DOMAIN sent = 1 .. Len(sent)
           /\ DOMAIN way = 1 .. Len(answers) + Len(sent)
           /\ DOMAIN way \subseteq Nat
  <1>1. answers \in Seq(Replies) /\ sent \in Seq(Requests)
    BY DEF TypeOK, Replies
  <1>2. sent \in Seq(Replies)
    <2>1. Requests \subseteq Replies
      BY DEF Replies
    <2> QED
      BY <1>1, <2>1
  <1>3. way \in Seq(Replies) /\ DOMAIN way = 1 .. Len(answers) + Len(sent)
    BY <1>1, <1>2, Joined DEF way
  <1> QED
    BY <1>1, <1>2, <1>3

\* The answers that list something, before and after a step: the same, in the same order.
Kept(f) ==
    /\ \A i \in DOMAIN way' : Lister(way'[i]) =>
          /\ f[i] \in DOMAIN way /\ Lister(way[f[i]]) /\ way'[i].chat = way[f[i]].chat
          /\ Clearer(way'[i]) <=> Clearer(way[f[i]])
    /\ \A i, j \in DOMAIN way' : Lister(way'[i]) /\ Lister(way'[j]) /\ i < j => f[i] < f[j]
    /\ \A j \in DOMAIN way : Lister(way[j]) => \E i \in DOMAIN way' : f[i] = j /\ Lister(way'[i])

\* What comes behind a place is kept as well.
LEMMA KeptOrder ==
    ASSUME TypeOK, TypeOK', NEW f, Kept(f)
    PROVE  /\ \A i \in DOMAIN way' : Lister(way'[i]) => (LastClear(way, f[i]) <=> LastClear(way', i))
           /\ LastClear(way, 0) <=> LastClear(way', 0)
  <1>1. /\ DOMAIN way \subseteq Nat /\ DOMAIN way' \subseteq Nat
        /\ \A i \in DOMAIN way \cup DOMAIN way' : i > 0
    <2>1. /\ DOMAIN way = 1 .. Len(answers) + Len(sent) /\ Len(answers) + Len(sent) \in Nat
      BY WayTypes
    <2>2. DOMAIN way' = 1 .. Len(answers') + Len(sent') /\ Len(answers') + Len(sent') \in Nat
      <3>1. answers' \in Seq(Replies) /\ sent' \in Seq(Requests) /\ Requests \subseteq Replies
        BY DEF TypeOK, Replies
      <3>2. sent' \in Seq(Replies)
        BY <3>1
      <3>3. DOMAIN (answers' \o sent') = 1 .. Len(answers') + Len(sent')
        BY <3>1, <3>2, Joined
      <3> QED
        BY <3>1, <3>2, <3>3 DEF way
    <2> QED
      BY <2>1, <2>2
  <1>2. \A r : Clearer(r) => Lister(r)
    BY DEF Clearer, Lister
  <1>3. ASSUME NEW i \in DOMAIN way', Lister(way'[i]), LastClear(way, f[i])
        PROVE  LastClear(way', i)
    <2> SUFFICES ASSUME NEW j \in DOMAIN way', j > i, Clearer(way'[j]) PROVE FALSE
      BY DEF LastClear
    <2>1. i < j /\ Lister(way'[j])
      BY <1>1, <1>2
    <2>2. f[i] < f[j] /\ f[i] \in Nat /\ f[j] \in DOMAIN way /\ f[j] \in Nat /\ Clearer(way[f[j]])
      BY <1>1, <1>3, <2>1 DEF Kept
    <2> QED
      BY <1>3, <2>2 DEF LastClear
  <1>4. ASSUME NEW i \in DOMAIN way', Lister(way'[i]), LastClear(way', i)
        PROVE  LastClear(way, f[i])
    <2> SUFFICES ASSUME NEW j \in DOMAIN way, j > f[i], Clearer(way[j]) PROVE FALSE
      BY DEF LastClear
    <2>1. PICK k \in DOMAIN way' : f[k] = j /\ Lister(way'[k])
      BY <1>2 DEF Kept
    <2>2. f[i] \in Nat /\ k \in Nat /\ i \in Nat /\ j \in Nat
      BY <1>1, <1>4 DEF Kept
    <2>3. k > i
      <3>1. k # i
        BY <2>1, <2>2
      <3>2. ~(k < i)
        <4>1. k < i => f[k] < f[i]
          BY <1>4, <2>1 DEF Kept
        <4> QED
          BY <2>1, <2>2, <4>1
      <3> QED
        BY <2>2, <3>1, <3>2
    <2>4. Clearer(way'[k])
      BY <2>1 DEF Kept
    <2> QED
      BY <1>4, <2>3, <2>4 DEF LastClear
  <1>5. LastClear(way, 0) => LastClear(way', 0)
    <2> SUFFICES ASSUME LastClear(way, 0), NEW j \in DOMAIN way', Clearer(way'[j]) PROVE FALSE
      BY DEF LastClear
    <2>1. f[j] \in DOMAIN way /\ Clearer(way[f[j]])
      BY <1>2 DEF Kept
    <2> QED
      BY <1>1, <2>1 DEF LastClear
  <1>6. LastClear(way', 0) => LastClear(way, 0)
    <2> SUFFICES ASSUME LastClear(way', 0), NEW j \in DOMAIN way, Clearer(way[j]) PROVE FALSE
      BY DEF LastClear
    <2>1. PICK k \in DOMAIN way' : f[k] = j /\ Lister(way'[k])
      BY <1>2 DEF Kept
    <2>2. Clearer(way'[k])
      BY <2>1 DEF Kept
    <2> QED
      BY <1>1, <2>2 DEF LastClear
  <1> QED
    BY <1>3, <1>4, <1>5, <1>6

\* Such a step keeps what is said of the open chat, if timers stay and what is listed stays listed.
LEMMA KeptAsked ==
    ASSUME TypeOK, TypeOK', NEW f, Kept(f), UNCHANGED <<page, friend, group>>,
           friend # None /\ page = "chat" /\ ListsFriend(friend) => ListsFriend(friend)'
    PROVE  /\ FriendAsked => FriendAsked'
           /\ /\ GroupAsked
              /\ page = "group" /\ Lists(group) => Lists(group)'
              /\ \A i \in DOMAIN timers : \E j \in DOMAIN timers' : timers'[j] = timers[i]
              => GroupAsked'
  <1>1. \A r : Clearer(r) => Lister(r)
    BY DEF Clearer, Lister
  <1>2. ASSUME FriendAsked PROVE FriendAsked'
    <2> SUFFICES ASSUME page = "chat", friend # None
                 PROVE  /\ \A i \in DOMAIN way' :
                              Clearer(way'[i]) /\ LastClear(way', i) => way'[i].chat = friend
                        /\ LastClear(way', 0) => ListsFriend(friend)'
      BY DEF FriendAsked
    <2>1. ASSUME NEW i \in DOMAIN way', Clearer(way'[i]), LastClear(way', i)
          PROVE  way'[i].chat = friend
      <3>1. /\ f[i] \in DOMAIN way /\ way'[i].chat = way[f[i]].chat /\ Clearer(way[f[i]])
            /\ LastClear(way, f[i])
        BY <1>1, <2>1, KeptOrder DEF Kept
      <3> QED
        BY <1>2, <3>1 DEF FriendAsked
    <2>2. LastClear(way', 0) => ListsFriend(friend)'
      BY <1>2, KeptOrder DEF FriendAsked
    <2> QED
      BY <2>1, <2>2
  <1>3. ASSUME GroupAsked, page = "group" /\ Lists(group) => Lists(group)',
               \A i \in DOMAIN timers : \E j \in DOMAIN timers' : timers'[j] = timers[i]
        PROVE  GroupAsked'
    <2> SUFFICES ASSUME page = "group", group # None
                 PROVE  \/ \E i \in DOMAIN timers' : timers'[i] = group
                        \/ \E i \in DOMAIN way' :
                              Lister(way'[i]) /\ way'[i].chat = group /\ LastClear(way', i)
                        \/ Lists(group)' /\ LastClear(way', 0)
      BY DEF GroupAsked
    <2>1. CASE \E i \in DOMAIN timers : timers[i] = group
      BY <1>3, <2>1
    <2>2. ASSUME NEW j \in DOMAIN way, Lister(way[j]), way[j].chat = group, LastClear(way, j)
          PROVE  \E i \in DOMAIN way' :
                    Lister(way'[i]) /\ way'[i].chat = group /\ LastClear(way', i)
      <3>1. PICK i \in DOMAIN way' : f[i] = j /\ Lister(way'[i])
        BY <2>2 DEF Kept
      <3>2. way'[i].chat = group
        BY <2>2, <3>1 DEF Kept
      <3>3. LastClear(way', i)
        BY <2>2, <3>1, KeptOrder
      <3> QED
        BY <3>1, <3>2, <3>3
    <2>3. CASE Lists(group) /\ LastClear(way, 0)
      BY <1>3, <2>3, KeptOrder
    <2> QED
      BY <1>3, <2>1, <2>2, <2>3 DEF GroupAsked
  <1> QED
    BY <1>2, <1>3

\* What a request that is sent does to the way: it comes last.
LEMMA WaySent ==
    ASSUME TypeOK, NEW r \in Requests, Send(r), connected, answers' = answers
    PROVE  /\ Len(way) \in Nat /\ DOMAIN way = 1 .. Len(way)
           /\ DOMAIN way' = 1 .. Len(way) + 1
           /\ way'[Len(way) + 1] = r
           /\ \A i \in DOMAIN way : way'[i] = way[i]
  <1>1. answers \in Seq(Replies) /\ sent \in Seq(Replies) /\ r \in Replies
    BY WayTypes DEF Replies
  <1>2. sent' = Append(sent, r)
    BY DEF Send
  <1>3. answers \o Append(sent, r) = Append(answers \o sent, r)
    BY <1>1
  <1>4. way' = Append(way, r) /\ way \in Seq(Replies)
    BY <1>1, <1>2, <1>3, WayTypes DEF way
  <1> HIDE DEF way
  <1> QED
    BY <1>4, AppendProperties

\* What is done with the next answer: all others come one place nearer.
LEMMA WayTaken ==
    ASSUME TypeOK, NEW kind, Take(kind), sent' = sent
    PROVE  /\ 1 \in DOMAIN way /\ way[1] = Answer
           /\ DOMAIN way' \subseteq Nat
           /\ \A i \in DOMAIN way' : i + 1 \in DOMAIN way /\ i + 1 # 1 /\ way'[i] = way[i + 1]
           /\ \A i \in DOMAIN way : i = 1 \/ (i - 1 \in DOMAIN way' /\ i - 1 + 1 = i)
  <1>1. answers \in Seq(Replies) /\ sent \in Seq(Replies) /\ answers # << >>
    BY WayTypes DEF Take
  <1>2. answers' = Tail(answers)
    BY DEF Take
  <1>3. ASSUME NEW s \in Seq(Replies), NEW r \in Seq(Replies), s # << >>
        PROVE  /\ 1 \in DOMAIN (s \o r) /\ (s \o r)[1] = Head(s)
               /\ DOMAIN (Tail(s) \o r) \subseteq Nat
               /\ \A i \in DOMAIN (Tail(s) \o r) :
                    /\ i + 1 \in DOMAIN (s \o r) /\ i + 1 # 1
                    /\ (Tail(s) \o r)[i] = (s \o r)[i + 1]
               /\ \A i \in DOMAIN (s \o r) :
                    i = 1 \/ (i - 1 \in DOMAIN (Tail(s) \o r) /\ i - 1 + 1 = i)
    BY <1>3
  <1> QED
    BY <1>1, <1>2, <1>3, SMTT(40) DEF way, Answer

\* An answer that lists nothing is taken without moving the others.
LEMMA TakenKept ==
    ASSUME TypeOK, NEW kind, Take(kind), sent' = sent, ~Lister(Answer)
    PROVE  \E f : Kept(f)
  <1> DEFINE f == [i \in DOMAIN way' |-> i + 1]
  <1>1. \A i \in DOMAIN way' : f[i] \in DOMAIN way /\ way'[i] = way[f[i]]
    BY WayTaken
  <1>2. \A i, j \in DOMAIN way' : i < j => f[i] < f[j]
    BY WayTaken
  <1>3. \A j \in DOMAIN way : Lister(way[j]) => \E i \in DOMAIN way' : f[i] = j /\ Lister(way'[i])
    <2> SUFFICES ASSUME NEW j \in DOMAIN way, Lister(way[j])
                 PROVE  \E i \in DOMAIN way' : f[i] = j /\ Lister(way'[i])
      OBVIOUS
    <2>1. j - 1 \in DOMAIN way' /\ f[j - 1] = j
      BY WayTaken
    <2> QED
      BY <1>1, <2>1
  <1> HIDE DEF f
  <1>4. Kept(f)
    BY <1>1, <1>2, <1>3 DEF Kept
  <1> QED
    BY <1>4

\* A message of somebody else comes between the answers and the requests.
LEMMA DeliveredKept ==
    ASSUME TypeOK, NEW c, Deliver(c)
    PROVE  \E f : Kept(f)
  <1> DEFINE r == [kind |-> "live", chat |-> c]
             n == Len(answers)
             f == [i \in DOMAIN way' |-> IF i <= n THEN i ELSE i - 1]
  <1>1. answers \in Seq(Replies) /\ sent \in Seq(Replies) /\ n \in Nat
    BY WayTypes
  <1>2. answers' = Append(answers, r) /\ sent' = sent
    BY DEF Deliver
  <1>3. ~Lister(r)
    BY DEF Lister
  <1> HIDE DEF r
  <1>4. ASSUME NEW T, NEW s \in Seq(T), NEW q \in Seq(T), NEW x \in T
        PROVE  /\ DOMAIN (s \o q) = 1 .. Len(s) + Len(q)
               /\ DOMAIN (Append(s, x) \o q) = 1 .. Len(s) + 1 + Len(q)
               /\ \A i \in 1 .. Len(s) : (Append(s, x) \o q)[i] = (s \o q)[i]
               /\ (Append(s, x) \o q)[Len(s) + 1] = x
               /\ \A i \in Len(s) + 2 .. Len(s) + 1 + Len(q) :
                    (Append(s, x) \o q)[i] = (s \o q)[i - 1]
    OBVIOUS
  <1>5. PICK T : answers \in Seq(T) /\ sent \in Seq(T) /\ r \in T
    <2>1. answers \in Seq(Replies \cup {r}) /\ sent \in Seq(Replies \cup {r})
      BY <1>1
    <2> QED
      BY <2>1
  <1>6. /\ DOMAIN way = 1 .. n + Len(sent)
        /\ DOMAIN way' = 1 .. n + 1 + Len(sent)
        /\ \A i \in 1 .. n : way'[i] = way[i]
        /\ way'[n + 1] = r
        /\ \A i \in n + 2 .. n + 1 + Len(sent) : way'[i] = way[i - 1]
    BY <1>2, <1>4, <1>5 DEF way
  <1>7. Len(sent) \in Nat
    BY <1>1
  <1> HIDE DEF n
  <1>8. \A i \in DOMAIN way' : Lister(way'[i]) => f[i] \in DOMAIN way /\ way'[i] = way[f[i]]
    <2> SUFFICES ASSUME NEW i \in DOMAIN way', Lister(way'[i])
                 PROVE  f[i] \in DOMAIN way /\ way'[i] = way[f[i]]
      OBVIOUS
    <2>1. i # n + 1
      BY <1>3, <1>6
    <2>2. CASE i <= n
      BY <1>1, <1>6, <1>7, <2>2
    <2>3. CASE ~(i <= n)
      BY <1>1, <1>6, <1>7, <2>1, <2>3
    <2> QED
      BY <2>2, <2>3
  <1>9. \A i, j \in DOMAIN way' : Lister(way'[i]) /\ Lister(way'[j]) /\ i < j => f[i] < f[j]
    <2> SUFFICES ASSUME NEW i \in DOMAIN way', NEW j \in DOMAIN way', i < j,
                        Lister(way'[i]), Lister(way'[j])
                 PROVE  f[i] < f[j]
      OBVIOUS
    <2>1. i # n + 1 /\ j # n + 1
      BY <1>3, <1>6
    <2> QED
      BY <1>1, <1>6, <1>7, <2>1
  <1>10. \A j \in DOMAIN way : \E i \in DOMAIN way' : f[i] = j /\ way'[i] = way[j]
    <2> SUFFICES ASSUME NEW j \in DOMAIN way
                 PROVE  \E i \in DOMAIN way' : f[i] = j /\ way'[i] = way[j]
      OBVIOUS
    <2>1. CASE j <= n
      BY <1>1, <1>6, <1>7, <2>1
    <2>2. CASE ~(j <= n)
      <3>1. j + 1 \in DOMAIN way' /\ f[j + 1] = j /\ way'[j + 1] = way[j]
        BY <1>1, <1>6, <1>7, <2>2
      <3> QED
        BY <3>1
    <2> QED
      BY <2>1, <2>2
  <1> HIDE DEF f
  <1>11. Kept(f)
    BY <1>8, <1>9, <1>10 DEF Kept
  <1> QED
    BY <1>11

\* The request for a list or a history that is handled first changes places with its answer.
LEMMA QuestionKept ==
    ASSUME TypeOK, 1 \in DOMAIN sent, HandleQuestion(1), session # None
    PROVE  \E f : Kept(f)
  <1> DEFINE n == Len(answers)
             f == [i \in DOMAIN way' |-> i]
  <1>1. answers \in Seq(Replies) /\ sent \in Seq(Replies) /\ n \in Nat /\ sent # << >>
    BY WayTypes
  <1>2. PICK a : /\ Reply(1, a)
                 /\ Lister(a) <=> Lister(sent[1])
                 /\ Lister(a) => a.chat = sent[1].chat
                 /\ Clearer(a) <=> Clearer(sent[1])
    <2>1. CASE Reply(1, sent[1])
      BY <2>1
    <2>2. CASE /\ sent[1].kind = "history" /\ sent[1].chat \in Groups
               /\ Reply(1, [kind |-> "system", chat |-> sent[1].chat])
      <3> DEFINE a == [kind |-> "system", chat |-> sent[1].chat]
      <3>1. Lister(a) /\ Lister(sent[1]) /\ a.chat = sent[1].chat /\ ~Clearer(a)
        BY <2>2 DEF Lister, Clearer
      <3>2. ~Clearer(sent[1])
        BY <2>2, ClientSessionAssumption DEF Clearer
      <3> QED
        BY <2>2, <3>1, <3>2
    <2> QED
      BY <2>1, <2>2 DEF HandleQuestion
  <1>3. answers' = Append(answers, a) /\ sent' = Tail(sent)
    <2>1. RemoveAt(sent, 1) = Tail(sent)
      <3>1. ASSUME NEW T, NEW s \in Seq(T), s # << >>
            PROVE  SubSeq(s, 1, 0) \o SubSeq(s, 2, Len(s)) = Tail(s)
        BY <3>1
      <3> QED
        BY <1>1, <3>1 DEF RemoveAt
    <2> QED
      BY <1>2, <2>1 DEF Reply
  <1>4. ASSUME NEW T, NEW s \in Seq(T), NEW q \in Seq(T), NEW x \in T, q # << >>
        PROVE  /\ DOMAIN (s \o q) = 1 .. Len(s) + Len(q)
               /\ DOMAIN (Append(s, x) \o Tail(q)) = 1 .. Len(s) + Len(q)
               /\ (Append(s, x) \o Tail(q))[Len(s) + 1] = x
               /\ (s \o q)[Len(s) + 1] = q[1]
               /\ \A i \in 1 .. Len(s) + Len(q) :
                    i # Len(s) + 1 => (Append(s, x) \o Tail(q))[i] = (s \o q)[i]
    <2>1. Len(q) \in Nat \ {0} /\ Len(s) \in Nat /\ Len(Tail(q)) = Len(q) - 1
      BY <1>4
    <2> QED
      BY <1>4, <2>1
  <1>5. PICK T : answers \in Seq(T) /\ sent \in Seq(T) /\ a \in T
    <2>1. answers \in Seq(Replies \cup {a}) /\ sent \in Seq(Replies \cup {a})
      BY <1>1
    <2> QED
      BY <2>1
  <1>6. /\ DOMAIN way = 1 .. n + Len(sent) /\ DOMAIN way' = DOMAIN way
        /\ way'[n + 1] = a /\ way[n + 1] = sent[1]
        /\ \A i \in DOMAIN way : i # n + 1 => way'[i] = way[i]
    BY <1>1, <1>3, <1>4, <1>5, SMTT(40) DEF way
  <1>7. Kept(f)
    <2>1. \A i \in DOMAIN way' : /\ Lister(way'[i]) <=> Lister(way[i])
                                 /\ Lister(way'[i]) => way'[i].chat = way[i].chat
                                 /\ Clearer(way'[i]) <=> Clearer(way[i])
      BY <1>2, <1>6
    <2> QED
      BY <1>6, <2>1 DEF Kept
  <1> QED
    BY <1>7
-----------------------------------------------------------------------------
\* A run in which order was kept kept it before, and the chat was opened by this step or nothing had
\* been lost before it either.
LEMMA OrderlyBefore ==
    ASSUME ClientInv, [Next]_vars, Orderly'
    PROVE  /\ ~overtaken /\ ~overlapped
           /\ \/ ~missed
              \/ \E f \in Friends : selectFriend(f)
              \/ \E g \in Groups : selectGroup(g)
              \/ RetryTimer /\ Select(retry)
  <1> DEFINE Opened == \/ \E f \in Friends : selectFriend(f)
                       \/ \E g \in Groups : selectGroup(g)
                       \/ RetryTimer /\ Select(retry)
  <1> DEFINE Before == ~overtaken /\ ~overlapped /\ (~missed \/ Opened)
  <1> SUFFICES Before
    OBVIOUS
  <1>a. ~overtaken' /\ ~overlapped' /\ ~missed'
    BY DEF Orderly
  <1> USE <1>a DEF past, faults, order
  <1> HIDE DEF Opened
  <1>1. ASSUME NEW name \in Users, login(name) PROVE Before
    BY <1>1 DEF login
  <1>2. ASSUME NEW i \in DOMAIN sent, Handle(i) PROVE Before
    BY <1>2 DEF Handle
  <1>3. ASSUME handleServerData PROVE Before
    BY <1>3 DEF handleServerData, LoginAnswer, LogoutAnswer, ListAnswer, HistoryAnswer,
       EmptyHistoryAnswer, LiveMessage, Take
  <1>4. ASSUME NEW i \in DOMAIN sent, LoseRequest(i) PROVE Before
    BY <1>4 DEF LoseRequest, Lose
  <1>5. ASSUME LoseAnswer PROVE Before
    BY <1>5 DEF LoseAnswer, Lose
  <1>6. ASSUME NEW c \in Friends \cup Groups, Deliver(c) PROVE Before
    BY <1>6 DEF Deliver
  <1>7. ASSUME logout PROVE Before
    BY <1>7 DEF logout
  <1>8. ASSUME NEW i \in DOMAIN timers, Timer(i) PROVE Before
    BY <1>8 DEF Timer
  <1>9. ASSUME openGroupPage \/ back PROVE Before
    BY <1>9 DEF openGroupPage, back
  <1>10. ASSUME NEW f \in Friends, selectFriend(f) PROVE Before
    <2>1. Opened
      BY <1>10 DEF Opened
    <2> QED
      BY <1>10, <2>1 DEF selectFriend
  <1>11. ASSUME NEW g \in Groups, selectGroup(g) PROVE Before
    <2>1. Opened
      BY <1>11 DEF Opened
    <2> QED
      BY <1>11, <2>1 DEF selectGroup
  <1>12. ASSUME RetryTimer PROVE Before
    <2>1. Select(retry) \/ missed' = missed
      BY <1>12 DEF RetryTimer
    <2>2. Select(retry) => Opened
      BY <1>12 DEF Opened
    <2> QED
      BY <1>12, <2>1, <2>2 DEF RetryTimer
  <1>13. ASSUME Disconnect PROVE Before
    BY <1>13 DEF Disconnect
  <1>14. CASE UNCHANGED vars
    BY <1>14 DEF vars
  <1> QED
    BY <1>1, <1>2, <1>3, <1>4, <1>5, <1>6, <1>7, <1>8, <1>9, <1>10, <1>11, <1>12, <1>13, <1>14
    DEF Next, SystemStep

\* Every step keeps the server's user where there must be one.
LEMMA SessionKept ==
    ASSUME ClientInv, SessionFits, [Next]_vars
    PROVE  SessionFits'
  <1> USE DEF SessionFits, user, server, past, faults, order
  <1>a. TypeOK /\ TokensFit
    BY DEF ClientInv
  <1>b. answers \in Seq(Replies)
    BY <1>a, WayTypes
  <1>1. ASSUME NEW name \in Users, login(name) PROVE SessionFits'
    BY <1>1 DEF login
  <1>2. ASSUME logout PROVE SessionFits'
    BY <1>2 DEF logout
  <1>3. ASSUME NEW i \in DOMAIN sent, Handle(i) PROVE SessionFits'
    <2> SUFFICES ASSUME ~overlapped' PROVE SessionFits'
      OBVIOUS
    <2>1. UNCHANGED <<isLoggedIn, overlapped>>
      BY <1>3 DEF Handle
    <2>2. \A r : answers' = Append(answers, r) =>
             /\ DOMAIN answers' = 1 .. Len(answers) + 1 /\ DOMAIN answers = 1 .. Len(answers)
             /\ answers'[Len(answers) + 1] = r
             /\ \A j \in DOMAIN answers : answers'[j] = answers[j]
      <3> SUFFICES ASSUME NEW r, answers' = Append(answers, r)
                   PROVE  /\ DOMAIN answers' = 1 .. Len(answers) + 1
                          /\ DOMAIN answers = 1 .. Len(answers)
                          /\ answers'[Len(answers) + 1] = r
                          /\ \A j \in DOMAIN answers : answers'[j] = answers[j]
        OBVIOUS
      <3> QED
        BY <1>b, AppendProperties
    <2>2a. ASSUME NEW r, answers' = Append(answers, r), NEW j \in DOMAIN answers'
           PROVE  (j \in DOMAIN answers /\ answers'[j] = answers[j]) \/ answers'[j] = r
      <3>1. Len(answers) \in Nat
        BY <1>b
      <3>2. /\ DOMAIN answers' = 1 .. Len(answers) + 1 /\ DOMAIN answers = 1 .. Len(answers)
            /\ answers'[Len(answers) + 1] = r
            /\ \A k \in DOMAIN answers : answers'[k] = answers[k]
        BY <2>2, <2>2a
      <3>3. j \in DOMAIN answers \/ j = Len(answers) + 1
        BY <3>1, <3>2
      <3> QED
        BY <3>2, <3>3
    <2>3. CASE HandleLogin(i)
      <3> DEFINE r == [kind |-> "login", right |-> sent[i].name \in Known]
      <3>1. answers' = Append(answers, r) /\ ~isLoggedIn
        BY <1>a, <2>1, <2>3 DEF HandleLogin, Reply, TokensFit, Token, SessionKinds
      <3>2. CASE sent[i].name \in Known
        <4>1. session' # None
          BY <2>3, <3>2, ClientSessionAssumption DEF HandleLogin
        <4> QED
          BY <4>1
      <3>3. CASE sent[i].name \notin Known
        <4>1. session' = session /\ ~r.right
          BY <2>3, <3>3 DEF HandleLogin
        <4> HIDE DEF r
        <4> QED
          BY <2>1, <2>2a, <3>1, <4>1
      <3> QED
        BY <3>2, <3>3
    <2>4. CASE Leave(i)
      <3>1. Token(sent[i]) /\ ~isLoggedIn
        BY <1>a, <2>1, <2>4 DEF Leave, TokensFit, Token, SessionKinds
      <3>2. answers' = answers /\ \A j \in DOMAIN answers : answers[j].kind # "login"
        BY <1>a, <2>1, <2>4, <3>1 DEF Leave, TokensFit, Token, SessionKinds
      <3> QED
        BY <2>1, <3>1, <3>2
    <2>5. ASSUME NEW r, r.kind # "login", answers' = Append(answers, r), session' = session
          PROVE  SessionFits'
      BY <2>1, <2>2a, <2>5
    <2>6. CASE HandleLogout(i)
      <3>1. Refused.kind # "login" /\ [kind |-> "logout"].kind # "login"
        BY DEF Refused
      <3> QED
        BY <2>5, <2>6, <3>1 DEF HandleLogout, Reply
    <2>7. CASE HandleQuestion(i)
      <3>1. /\ Refused.kind # "login" /\ [kind |-> "system", chat |-> sent[i].chat].kind # "login"
            /\ sent[i].kind # "login"
        BY <2>7 DEF Refused, HandleQuestion
      <3> QED
        BY <2>5, <2>7, <3>1 DEF HandleQuestion, Reply
    <2> QED
      BY <1>3, <2>3, <2>4, <2>6, <2>7 DEF Handle
  <1>4. ASSUME NEW kind, Take(kind)
        PROVE  \A j \in DOMAIN answers' : \E i \in DOMAIN answers : answers'[j] = answers[i]
    <2>1. answers # << >> /\ answers' = Tail(answers)
      BY <1>4 DEF Take
    <2>2. ASSUME NEW s \in Seq(Replies), s # << >>
          PROVE  \A j \in DOMAIN Tail(s) : \E i \in DOMAIN s : Tail(s)[j] = s[i]
      <3>1. \A j \in DOMAIN Tail(s) : j + 1 \in DOMAIN s /\ Tail(s)[j] = s[j + 1]
        BY <2>2
      <3> QED
        BY <3>1
    <2> QED
      BY <1>b, <2>1, <2>2
  <1>5. ASSUME NEW kind, Take(kind) PROVE UNCHANGED <<session, overlapped>>
    BY <1>5 DEF Take
  <1>6. ASSUME LoginAnswer PROVE SessionFits'
    <2>1. Answer \in Replies /\ Answer.kind = "login" /\ 1 \in DOMAIN answers /\ Answer = answers[1]
      BY <1>a, <1>6, Taken DEF LoginAnswer
    <2>2. Answer.right \/ isLoggedIn' = isLoggedIn
      BY <1>6 DEF LoginAnswer
    <2>3. UNCHANGED <<session, overlapped>>
      BY <1>5, <1>6 DEF LoginAnswer
    <2>4. \A j \in DOMAIN answers' : \E i \in DOMAIN answers : answers'[j] = answers[i]
      BY <1>4, <1>6 DEF LoginAnswer
    <2> QED
      BY <2>1, <2>2, <2>3, <2>4
  <1>7. ASSUME NEW kind, Take(kind), isLoggedIn' = isLoggedIn \/ isLoggedIn' = FALSE
        PROVE  SessionFits'
    BY <1>4, <1>5, <1>7
  <1>8. ASSUME LogoutAnswer \/ ListAnswer \/ HistoryAnswer \/ EmptyHistoryAnswer \/ LiveMessage
        PROVE  SessionFits'
    BY <1>7, <1>8 DEF LogoutAnswer, ListAnswer, HistoryAnswer, EmptyHistoryAnswer, LiveMessage
  <1>9. ASSUME LoseAnswer PROVE SessionFits'
    <2>1. \A j \in DOMAIN answers' : \E i \in DOMAIN answers : answers'[j] = answers[i]
      <3>1. ASSUME NEW t \in Seq(Replies), t # << >>
            PROVE  \A j \in DOMAIN Tail(t) : \E i \in DOMAIN t : Tail(t)[j] = t[i]
        <4>1. \A j \in DOMAIN Tail(t) : j + 1 \in DOMAIN t /\ Tail(t)[j] = t[j + 1]
          BY <3>1
        <4> QED
          BY <4>1
      <3> QED
        BY <1>9, <1>b, <3>1 DEF LoseAnswer
    <2> QED
      BY <1>9, <2>1 DEF LoseAnswer, Lose
  <1>10. ASSUME Disconnect PROVE SessionFits'
    BY <1>10 DEF Disconnect
  <1>11. ASSUME NEW c \in Friends \cup Groups, Deliver(c) PROVE SessionFits'
    <2>1. session' # None
      BY <1>11 DEF Deliver
    <2> QED
      BY <2>1
  <1>12. ASSUME NEW i \in DOMAIN sent, LoseRequest(i) PROVE SessionFits'
    BY <1>12 DEF LoseRequest, Lose
  <1>13. ASSUME NEW i \in DOMAIN timers, Timer(i) PROVE SessionFits'
    BY <1>13 DEF Timer
  <1>14. CASE UNCHANGED vars
    BY <1>14 DEF vars
  <1> QED
    BY <1>1, <1>2, <1>3, <1>6, <1>8, <1>9, <1>10, <1>11, <1>12, <1>13, <1>14
    DEF Next, SystemStep, handleServerData, openGroupPage, back, selectFriend, selectGroup, RetryTimer

-----------------------------------------------------------------------------
\* One more item at the end of the list.
LEMMA ListedMore ==
    ASSUME TypeOK, NEW a \in Items, display' = Append(display, a)
    PROVE  /\ \A c : Lists(c) => Lists(c)'
           /\ a.kind # "live" => Lists(a.chat)'
           /\ \A f : ListsFriend(f) /\ a = [kind |-> "live", chat |-> f] => ListsFriend(f)'
  <1>1. display \in Seq(Items) /\ Len(display) \in Nat /\ DOMAIN display = 1 .. Len(display)
    BY DEF TypeOK
  <1>2. /\ DOMAIN display' = 1 .. Len(display) + 1
        /\ display'[Len(display) + 1] = a
        /\ \A i \in DOMAIN display : i \in DOMAIN display' /\ display'[i] = display[i]
    BY <1>1, AppendProperties
  <1>3. \A c : Lists(c) => Lists(c)'
    BY <1>2 DEF Lists
  <1>4. a.kind # "live" => Lists(a.chat)'
    <2>1. Len(display) + 1 \in DOMAIN display'
      BY <1>1, <1>2
    <2> QED
      BY <1>2, <2>1 DEF Lists
  <1>5. ASSUME NEW f, ListsFriend(f), a = [kind |-> "live", chat |-> f]
        PROVE  ListsFriend(f)'
    <2>1. Lists(f)'
      BY <1>3, <1>5 DEF ListsFriend
    <2>2. ASSUME NEW i \in DOMAIN display'
          PROVE  display'[i] = [kind |-> IF i = 1 THEN "history" ELSE "live", chat |-> f]
      <3>1. CASE i \in DOMAIN display
        BY <1>2, <1>5, <3>1 DEF ListsFriend
      <3>2. CASE i \notin DOMAIN display
        <4>1. i = Len(display) + 1
          BY <1>1, <1>2, <3>2
        <4>2. Len(display) # 0
          BY <1>1, <1>5 DEF ListsFriend, Lists
        <4>3. i # 1
          BY <1>1, <4>1, <4>2
        <4> QED
          BY <1>2, <1>5, <4>1, <4>3
      <3> QED
        BY <3>1, <3>2
    <2> QED
      BY <2>1, <2>2 DEF ListsFriend
  <1> QED
    BY <1>3, <1>4, <1>5

\* A history that arrives is listed for the chat that asked for it.
LEMMA HistoryTaken ==
    ASSUME ClientInv, ~overlapped, isLoggedIn, FriendAsked, GroupAsked,
           HistoryAnswer \/ EmptyHistoryAnswer
    PROVE  FriendAsked' /\ GroupAsked'
  <1> USE ClientSessionAssumption
  <1>a. TypeOK /\ (friend = None \/ group = None)
    BY DEF ClientInv, GroupFits
  <1>1. /\ UNCHANGED <<page, friend, group, timers, sent>>
        /\ \E kind \in {"history", "system"} : Take(kind)
    BY DEF HistoryAnswer, EmptyHistoryAnswer, user, chat
  <1>2. PICK kind \in {"history", "system"} : Take(kind)
    BY <1>1
  <1>3. Answer \in Items /\ Lister(Answer) /\ Answer \in Replies
    <2>1. Answer \in Replies /\ Answer.kind = kind
      BY <1>a, <1>2, Taken
    <2> QED
      BY <2>1, Showable DEF Lister
  <1>4. /\ 1 \in DOMAIN way /\ way[1] = Answer
        /\ DOMAIN way' \subseteq Nat /\ DOMAIN way \subseteq Nat
        /\ \A i \in DOMAIN way' : i + 1 \in DOMAIN way /\ i + 1 # 1 /\ way'[i] = way[i + 1]
        /\ \A i \in DOMAIN way : i = 1 \/ (i - 1 \in DOMAIN way' /\ i - 1 + 1 = i)
    BY <1>1, <1>2, <1>a, WayTaken, WayTypes
  <1>5. \A i \in DOMAIN way' \cup {0} : LastClear(way', i) <=> LastClear(way, i + 1)
    <2> SUFFICES ASSUME NEW i \in DOMAIN way' \cup {0}
                 PROVE  LastClear(way', i) <=> LastClear(way, i + 1)
      OBVIOUS
    <2>1. ASSUME LastClear(way', i), NEW j \in DOMAIN way, j > i + 1 PROVE ~Clearer(way[j])
      <3>1. j - 1 \in DOMAIN way' /\ j - 1 + 1 = j /\ j - 1 > i
        BY <1>4, <2>1
      <3> QED
        BY <1>4, <2>1, <3>1 DEF LastClear
    <2>2. ASSUME LastClear(way, i + 1), NEW j \in DOMAIN way', j > i PROVE ~Clearer(way'[j])
      <3>1. j + 1 \in DOMAIN way /\ j + 1 > i + 1 /\ way'[j] = way[j + 1]
        BY <1>4, <2>2
      <3> QED
        BY <2>2, <3>1 DEF LastClear
    <2> QED
      BY <2>1, <2>2 DEF LastClear
  <1>6. LastClear(way, 1) /\ ~Clearer(Answer) => LastClear(way, 0)
    BY <1>4 DEF LastClear
  <1>7. LastClear(way, 0) => LastClear(way, 1) /\ ~Clearer(Answer)
    BY <1>4 DEF LastClear
  <1>8. Clearer(Answer) => display' = IF page = "chat" \/ (page = "group" /\ ~isGroupChat)
                                      THEN Append(<< >>, Answer) ELSE << >>
    BY DEF HistoryAnswer, EmptyHistoryAnswer, Clearer, Shown, Take
  <1>9. ~Clearer(Answer) => display' = IF page = "group" THEN Append(display, Answer) ELSE display
    BY DEF HistoryAnswer, EmptyHistoryAnswer, Clearer, ShowInGroup, Take
  <1>10. FriendAsked'
    <2> SUFFICES ASSUME page = "chat", friend # None
                 PROVE  /\ \A i \in DOMAIN way' :
                              Clearer(way'[i]) /\ LastClear(way', i) => way'[i].chat = friend
                        /\ LastClear(way', 0) => ListsFriend(friend)'
      BY <1>1 DEF FriendAsked
    <2>1. ASSUME NEW i \in DOMAIN way', Clearer(way'[i]), LastClear(way', i)
          PROVE  way'[i].chat = friend
      BY <1>4, <1>5, <2>1 DEF FriendAsked
    <2>2. ASSUME LastClear(way', 0), ~Clearer(Answer) PROVE ListsFriend(friend)'
      <3>1. LastClear(way, 1)
        BY <1>5, <2>2
      <3>2. ListsFriend(friend)
        BY <1>6, <2>2, <3>1 DEF FriendAsked
      <3>3. display' = display
        BY <1>9, <2>2
      <3> QED
        BY <1>1, <3>2, <3>3 DEF ListsFriend, Lists
    <2>3. ASSUME LastClear(way', 0), Clearer(Answer) PROVE ListsFriend(friend)'
      <3>1. LastClear(way, 1)
        BY <1>5, <2>3
      <3>2. Answer.chat = friend /\ Answer.kind = "history"
        BY <1>4, <2>3, <3>1 DEF FriendAsked, Clearer
      <3>3. Answer = [kind |-> "history", chat |-> friend]
        BY <1>3, <3>2 DEF Items
      <3>4. display' = <<Answer>> /\ friend' = friend
        BY <1>1, <1>8, <2>3
      <3>5. /\ DOMAIN display' = {1} /\ display'[1] = [kind |-> "history", chat |-> friend']
            /\ display'[1].kind # "live" /\ display'[1].chat = friend'
        BY <3>3, <3>4
      <3> QED
        BY <3>5 DEF ListsFriend, Lists
    <2> QED
      BY <2>1, <2>2, <2>3
  <1>11. GroupAsked'
    <2> SUFFICES ASSUME page = "group", group # None
                 PROVE  \/ \E i \in DOMAIN timers' : timers'[i] = group
                        \/ \E i \in DOMAIN way' :
                              Lister(way'[i]) /\ way'[i].chat = group /\ LastClear(way', i)
                        \/ Lists(group)' /\ LastClear(way', 0)
      BY <1>1 DEF GroupAsked
    <2>1. CASE \E i \in DOMAIN timers : timers[i] = group
      BY <1>1, <2>1
    <2>2. ASSUME NEW j \in DOMAIN way, Lister(way[j]), way[j].chat = group, LastClear(way, j), j # 1
          PROVE  \E i \in DOMAIN way' :
                    Lister(way'[i]) /\ way'[i].chat = group /\ LastClear(way', i)
      <3>1. j - 1 \in DOMAIN way' /\ j - 1 + 1 = j
        BY <1>4, <2>2
      <3> QED
        BY <1>4, <1>5, <2>2, <3>1
    <2>3. CASE Answer.chat = group /\ LastClear(way, 1)
      <3>1. group \in Groups
        BY <1>a DEF TypeOK
      <3>2. ~Clearer(Answer)
        BY <2>3, <3>1 DEF Clearer
      <3>3. display' = Append(display, Answer)
        BY <1>9, <3>2
      <3>4. PICK a \in Items : a = Answer
        BY <1>3
      <3>5. Lists(group)'
        <4>1. Lists(a.chat)'
          BY <1>a, <1>3, <3>3, <3>4, ListedMore DEF Lister
        <4> QED
          BY <1>1, <2>3, <3>4, <4>1 DEF Lists
      <3> QED
        BY <1>5, <2>3, <3>5
    <2>4. CASE Lists(group) /\ LastClear(way, 0)
      <3>1. display' = Append(display, Answer) /\ LastClear(way', 0)
        BY <1>5, <1>7, <1>9, <2>4
      <3>2. \A c : Lists(c) => Lists(c)'
        BY <1>a, <1>3, <3>1, ListedMore
      <3>3. Lists(group)'
        BY <1>1, <2>4, <3>2 DEF Lists
      <3> QED
        BY <3>1, <3>3
    <2> QED
      BY <1>4, <2>1, <2>2, <2>3, <2>4 DEF GroupAsked
  <1> QED
    BY <1>10, <1>11

\* A message that arrives leaves the history of the open chat where it is.
LEMMA LiveTaken ==
    ASSUME ClientInv, TypeOK', FriendAsked, GroupAsked, LiveMessage
    PROVE  FriendAsked' /\ GroupAsked'
  <1> USE ClientSessionAssumption
  <1>a. TypeOK /\ (friend = None \/ group = None)
    BY DEF ClientInv, GroupFits
  <1>1. UNCHANGED <<page, friend, group, timers, sent>> /\ Take("live")
    BY DEF LiveMessage, user, chat
  <1>2. Answer \in Replies /\ Answer.kind = "live"
    BY <1>a, <1>1, Taken
  <1>3. PICK a \in Items : a = Answer /\ a.kind = "live"
    BY <1>2, Showable
  <1>4. PICK f : Kept(f)
    BY <1>a, <1>1, <1>2, TakenKept DEF Lister
  <1>5. display' = display \/ display' = Append(display, a)
    BY <1>3 DEF LiveMessage, ShowInGroup, Shown
  <1>6. \A c : Lists(c) => Lists(c)'
    BY <1>a, <1>3, <1>5, ListedMore DEF Lists
  <1>7. page = "group" /\ Lists(group) => Lists(group)'
    BY <1>1, <1>6 DEF Lists
  <1>8. ASSUME friend # None, page = "chat", ListsFriend(friend)
        PROVE  ListsFriend(friend)'
    <2>1. group = None /\ None \notin Groups
      BY <1>a, <1>8
    <2>2. a.chat \in Groups => display' = display
      BY <1>3, <2>1 DEF LiveMessage
    <2>3. display' = display \/ a.chat = friend
      BY <1>3, <2>2 DEF LiveMessage
    <2>4. CASE display' = display
      BY <1>1, <1>8, <2>4 DEF ListsFriend, Lists
    <2>5. CASE display' = Append(display, a) /\ a.chat = friend
      <3>1. PICK c : c = friend
        OBVIOUS
      <3>2. a = [kind |-> "live", chat |-> c]
        BY <1>3, <2>5, <3>1 DEF Items
      <3>3. ListsFriend(c)'
        BY <1>a, <1>8, <2>5, <3>1, <3>2, ListedMore
      <3> QED
        BY <1>1, <3>1, <3>3 DEF ListsFriend, Lists
    <2> QED
      BY <1>5, <2>3, <2>4, <2>5
  <1> QED
    BY <1>1, <1>a, <1>4, <1>7, <1>8, KeptAsked

\* Every step keeps what is said of the history of the open chat.
LEMMA AskedKept ==
    ASSUME ClientInv, TypeOK', HistoryInv, [Next]_vars
    PROVE  HistoryAsked'
  <1> USE ClientSessionAssumption
  <1> SUFFICES ASSUME Orderly', isLoggedIn' PROVE FriendAsked' /\ GroupAsked'
    BY DEF HistoryAsked
  <1>a. TypeOK /\ TokensFit /\ PagesFit /\ GroupFits
    BY DEF ClientInv
  <1>b. ~overtaken /\ ~overlapped
    BY OrderlyBefore
  <1>g. isLoggedIn => connected
    BY <1>a DEF PagesFit
  <1>d. ASSUME page' = "auth" \/ (page' = "chat" /\ friend' = None) \/ (page' = "group" /\ group' = None)
        PROVE  FriendAsked' /\ GroupAsked'
    BY <1>d DEF FriendAsked, GroupAsked
  <1>5. ASSUME NEW f \in Friends, selectFriend(f) PROVE FriendAsked' /\ GroupAsked'
    <2> DEFINE r == [kind |-> "history", chat |-> f]
    <2>1. r \in Requests /\ Clearer(r) /\ r.chat = f
      BY DEF Requests, Chats, Clearer
    <2>2. connected /\ Send(r) /\ answers' = answers /\ friend' = f /\ page' = "chat"
      BY <1>5, <1>g DEF selectFriend, user, server
    <2> HIDE DEF r
    <2>3. /\ Len(way) \in Nat /\ DOMAIN way' = 1 .. Len(way) + 1
          /\ way'[Len(way) + 1] = r
      BY <1>a, <2>1, <2>2, WaySent
    <2>4. Len(way) + 1 \in DOMAIN way'
      BY <2>3
    <2>5. \A i \in DOMAIN way' : LastClear(way', i) => i = Len(way) + 1
      BY <2>1, <2>3, <2>4 DEF LastClear
    <2>6. ~LastClear(way', 0)
      BY <2>1, <2>3, <2>4 DEF LastClear
    <2> QED
      BY <2>1, <2>2, <2>3, <2>5, <2>6 DEF FriendAsked, GroupAsked
  <1>6. ASSUME NEW g \in Groups, Select(g), page' = page, page = "group", connected
        PROVE  FriendAsked' /\ GroupAsked'
    <2>1. timers' = Append(timers, g) /\ group' = g
      BY <1>6 DEF Select
    <2>2. Len(timers) + 1 \in DOMAIN timers' /\ timers'[Len(timers) + 1] = g
      BY <1>a, <2>1 DEF TypeOK
    <2> QED
      BY <1>6, <2>1, <2>2 DEF FriendAsked, GroupAsked
  <1>7. ASSUME NEW g \in Groups, selectGroup(g) PROVE FriendAsked' /\ GroupAsked'
    <2>1. isLoggedIn /\ page = "group" /\ page' = page /\ Select(g)
      BY <1>7 DEF selectGroup, user
    <2> QED
      BY <1>6, <1>g, <2>1
  <1>9. ASSUME RetryTimer, Select(retry) PROVE FriendAsked' /\ GroupAsked'
    <2>1. page = "group" /\ page' = page /\ isLoggedIn' = isLoggedIn /\ retry \in Groups
      BY <1>9, <1>a DEF RetryTimer, GroupFits, TypeOK, user, server
    <2> QED
      BY <1>6, <1>9, <1>g, <2>1
  <1>h. SUFFICES ASSUME ~missed PROVE FriendAsked' /\ GroupAsked'
    BY <1>5, <1>7, <1>9, OrderlyBefore
  <1>c. isLoggedIn => connected /\ session # None /\ FriendAsked /\ GroupAsked
    BY <1>a, <1>b, <1>h DEF HistoryInv, HistoryAsked, SessionFits, PagesFit, Orderly
  <1>e. ASSUME isLoggedIn, NEW f, Kept(f), UNCHANGED <<page, friend, group, timers, display>>
        PROVE  FriendAsked' /\ GroupAsked'
    <2>1. ListsFriend(friend) => ListsFriend(friend)'
      BY <1>e DEF ListsFriend, Lists
    <2>2. Lists(group) => Lists(group)'
      BY <1>e DEF Lists
    <2> QED
      BY <1>a, <1>c, <1>e, <2>1, <2>2, KeptAsked
  <1>f. ASSUME isLoggedIn, UNCHANGED <<page, friend, group, timers, display, answers, sent>>
        PROVE  FriendAsked' /\ GroupAsked'
    BY <1>c, <1>f DEF FriendAsked, GroupAsked, ListsFriend, Lists, LastClear, way
  <1>1. ASSUME NEW name \in Users, login(name) PROVE FriendAsked' /\ GroupAsked'
    BY <1>d, <1>1 DEF login, view
  <1>2. ASSUME logout PROVE FriendAsked' /\ GroupAsked'
    BY <1>d, <1>2 DEF logout, ShowPage
  <1>3. ASSUME openGroupPage PROVE FriendAsked' /\ GroupAsked'
    <2>1. isLoggedIn /\ page = "chat" /\ page' = "group" /\ group' = group
      BY <1>3 DEF openGroupPage, ShowPage, user, chat
    <2> QED
      BY <1>a, <1>b, <1>c, <1>d, <2>1 DEF GroupFits
  <1>4. ASSUME back PROVE FriendAsked' /\ GroupAsked'
    BY <1>d, <1>4 DEF back, ShowPage
  <1>8. ASSUME NEW i \in DOMAIN timers, Timer(i) PROVE FriendAsked' /\ GroupAsked'
    <2> DEFINE r == [kind |-> "history", chat |-> timers[i]]
    <2>1. timers[i] \in Groups /\ timers \in Seq(Groups)
      BY <1>a, <1>8 DEF TypeOK
    <2>2. r \in Requests /\ Lister(r) /\ ~Clearer(r) /\ r.chat = timers[i]
      BY <2>1 DEF Requests, Chats, Lister, Clearer
    <2>3. /\ isLoggedIn /\ connected /\ Send(r) /\ timers' = RemoveAt(timers, i)
          /\ UNCHANGED <<answers, page, friend, group, display>>
      BY <1>8, <1>c DEF Timer, user, chat, view, server
    <2> HIDE DEF r
    <2>4. /\ Len(way) \in Nat /\ DOMAIN way = 1 .. Len(way) /\ DOMAIN way' = 1 .. Len(way) + 1
          /\ way'[Len(way) + 1] = r
          /\ \A j \in DOMAIN way : way'[j] = way[j]
      BY <1>a, <2>2, <2>3, WaySent
    <2>5. /\ \A j \in DOMAIN way' : j \in DOMAIN way \/ j = Len(way) + 1
          /\ \A j \in DOMAIN way : j \in DOMAIN way' /\ j < Len(way) + 1
      BY <2>4
    <2>6. \A j \in DOMAIN way \cup {0} : LastClear(way, j) => LastClear(way', j)
      BY <2>2, <2>4, <2>5 DEF LastClear
    <2>7. LastClear(way', Len(way) + 1)
      BY <2>4 DEF LastClear
    <2>8. \A j \in DOMAIN way \cup {0} : LastClear(way', j) => LastClear(way, j)
      BY <2>4, <2>5 DEF LastClear
    <2>9. FriendAsked'
      <3> SUFFICES ASSUME page = "chat", friend # None
                   PROVE  /\ \A j \in DOMAIN way' :
                                Clearer(way'[j]) /\ LastClear(way', j) => way'[j].chat = friend
                          /\ LastClear(way', 0) => ListsFriend(friend)'
        BY <2>3 DEF FriendAsked
      <3>1. ListsFriend(friend) => ListsFriend(friend)'
        BY <2>3 DEF ListsFriend, Lists
      <3>2. ASSUME NEW j \in DOMAIN way', Clearer(way'[j]), LastClear(way', j)
            PROVE  way'[j].chat = friend
        <4>1. j \in DOMAIN way /\ way'[j] = way[j]
          BY <2>2, <2>4, <2>5, <3>2
        <4> QED
          BY <1>c, <2>3, <2>8, <3>2, <4>1 DEF FriendAsked
      <3> QED
        BY <1>c, <2>3, <2>8, <3>1, <3>2 DEF FriendAsked
    <2>10. GroupAsked'
      <3> SUFFICES ASSUME page = "group", group # None
                   PROVE  \/ \E j \in DOMAIN timers' : timers'[j] = group
                          \/ \E j \in DOMAIN way' :
                                Lister(way'[j]) /\ way'[j].chat = group /\ LastClear(way', j)
                          \/ Lists(group)' /\ LastClear(way', 0)
        BY <2>3 DEF GroupAsked
      <3>1. CASE timers[i] = group
        BY <2>2, <2>4, <2>7, <3>1
      <3>2. ASSUME NEW j \in DOMAIN timers, timers[j] = group, j # i
            PROVE  \E k \in DOMAIN timers' : timers'[k] = group
        <4>1. /\ DOMAIN timers' = 1 .. (Len(timers) - 1) /\ DOMAIN timers = 1 .. Len(timers)
              /\ Len(timers) \in Nat
              /\ \A k \in 1 .. (Len(timers) - 1) : timers'[k] = timers[IF k < i THEN k ELSE k + 1]
          BY <2>1, <2>3, Removed
        <4>2. CASE j < i
          BY <3>2, <4>1, <4>2
        <4>3. CASE j > i
          <5>1. j - 1 \in DOMAIN timers' /\ timers'[j - 1] = timers[j]
            BY <4>1, <4>3
          <5> QED
            BY <3>2, <5>1
        <4> QED
          BY <3>2, <4>1, <4>2, <4>3
      <3>3. CASE \E j \in DOMAIN way : Lister(way[j]) /\ way[j].chat = group /\ LastClear(way, j)
        BY <2>4, <2>5, <2>6, <3>3
      <3>4. CASE Lists(group) /\ LastClear(way, 0)
        BY <2>3, <2>6, <3>4 DEF Lists
      <3> QED
        BY <1>c, <2>3, <3>1, <3>2, <3>3, <3>4 DEF GroupAsked
    <2> QED
      BY <2>9, <2>10
  <1>21. ASSUME RetryTimer PROVE FriendAsked' /\ GroupAsked'
    <2>1. /\ page' = page /\ isLoggedIn' = isLoggedIn
          /\ UNCHANGED <<answers, sent>>
      BY <1>21 DEF RetryTimer, user, server
    <2>2. CASE UNCHANGED <<chat, display, timers>>
      BY <1>f, <2>1, <2>2 DEF chat
    <2> QED
      BY <1>9, <1>21, <2>2 DEF RetryTimer
  <1>10. ASSUME NEW i \in DOMAIN sent, Handle(i) PROVE FriendAsked' /\ GroupAsked'
    <2>1. UNCHANGED <<isLoggedIn, page, friend, group, timers, display>>
      BY <1>10 DEF Handle, user, chat, view
    <2>2. i = 1
      <3>1. ~overtaken' /\ i \in Nat /\ i > 0
        BY <1>10, <1>a DEF Orderly, TypeOK
      <3>2. overtaken' = (overtaken \/ i > 1)
        BY <1>10 DEF Handle
      <3>3. ~(i > 1)
        BY <3>1, <3>2
      <3> QED
        BY <3>1, <3>3
    <2>3. ~Token(sent[i])
      BY <1>a, <1>b, <2>1 DEF TokensFit
    <2>4. HandleQuestion(1)
      BY <1>10, <2>2, <2>3 DEF Handle, HandleLogin, HandleLogout, Leave, Token, SessionKinds
    <2>5. PICK f : Kept(f)
      BY <1>10, <1>a, <1>c, <2>1, <2>2, <2>4, QuestionKept
    <2> QED
      BY <1>e, <2>1, <2>5
  <1>11. ASSUME NEW kind \in {"login", "logout"}, Take(kind) PROVE ~isLoggedIn
    <2>1. 1 \in DOMAIN answers /\ answers[1].kind = kind
      BY <1>11, <1>a, Taken
    <2> QED
      BY <1>a, <1>b, <2>1 DEF TokensFit, Token, SessionKinds
  <1>12. ASSUME LoginAnswer PROVE FriendAsked' /\ GroupAsked'
    <2>1. ~isLoggedIn
      BY <1>11, <1>12 DEF LoginAnswer
    <2>2. page' = "chat" /\ friend' = None
      BY <1>12, <2>1 DEF LoginAnswer, ShowPage
    <2> QED
      BY <1>d, <2>2
  <1>13. ASSUME LogoutAnswer PROVE FriendAsked' /\ GroupAsked'
    BY <1>13 DEF LogoutAnswer
  <1>14. ASSUME ListAnswer PROVE FriendAsked' /\ GroupAsked'
    <2>1. UNCHANGED <<isLoggedIn, page, friend, group, timers, display, sent>>
      BY <1>14 DEF ListAnswer, chat, view
    <2>2. PICK kind \in {"friends", "groups"} : Take(kind)
      BY <1>14 DEF ListAnswer
    <2>3. ~Lister(Answer)
      BY <1>a, <2>2, Taken DEF Lister
    <2>4. PICK f : Kept(f)
      BY <1>a, <2>1, <2>2, <2>3, TakenKept
    <2> QED
      BY <1>e, <2>1, <2>4
  <1>15. ASSUME HistoryAnswer \/ EmptyHistoryAnswer PROVE FriendAsked' /\ GroupAsked'
    <2>1. isLoggedIn
      BY <1>15 DEF HistoryAnswer, EmptyHistoryAnswer, user
    <2> QED
      BY <1>15, <1>b, <1>c, <2>1, HistoryTaken
  <1>16. ASSUME LiveMessage PROVE FriendAsked' /\ GroupAsked'
    <2>1. isLoggedIn
      BY <1>16 DEF LiveMessage, user
    <2> QED
      BY <1>16, <1>c, <2>1, LiveTaken
  <1>17. ASSUME LoseAnswer \/ \E i \in DOMAIN sent : LoseRequest(i) PROVE FALSE
    BY <1>17 DEF LoseAnswer, LoseRequest, Lose, Orderly
  <1>18. ASSUME Disconnect PROVE FALSE
    BY <1>18 DEF Disconnect
  <1>19. ASSUME NEW c \in Friends \cup Groups, Deliver(c) PROVE FriendAsked' /\ GroupAsked'
    <2>1. UNCHANGED <<isLoggedIn, page, friend, group, timers, display>>
      BY <1>19 DEF Deliver, user, chat, view
    <2>2. PICK f : Kept(f)
      BY <1>19, <1>a, DeliveredKept
    <2> QED
      BY <1>e, <2>1, <2>2
  <1>20. CASE UNCHANGED vars
    BY <1>f, <1>20 DEF vars
  <1> QED
    BY <1>1, <1>2, <1>3, <1>4, <1>5, <1>7, <1>8, <1>10,
       <1>12, <1>13, <1>14, <1>15, <1>16, <1>17, <1>18, <1>19, <1>20, <1>21
    DEF Next, SystemStep, handleServerData

\* The inductive invariant of the histories, beside ClientInv.
THEOREM HistoryInvariant == Spec => []HistoryInv
  <1>1. Init => HistoryInv
    BY DEF Init, HistoryInv, SessionFits, HistoryAsked
  <1>2. ClientInv /\ ClientInv' /\ HistoryInv /\ [Next]_vars => HistoryInv'
    <2> SUFFICES ASSUME ClientInv, ClientInv', HistoryInv, [Next]_vars PROVE HistoryInv'
      OBVIOUS
    <2>1. TypeOK'
      BY DEF ClientInv
    <2> QED
      BY <2>1, SessionKept, AskedKept DEF HistoryInv
  <1> QED
    BY <1>1, <1>2, ClientInvariant, PTL DEF Spec

\* When everything has been answered in its order, the open chat lists its own history
\* (selectFriend, selectGroup, handleServerData, the cases of histories).
THEOREM HistoriesAreInTheirChats == Spec => []HistoryAtRest
  <1>1. ClientInv /\ HistoryInv => HistoryAtRest
    <2> SUFFICES ASSUME ClientInv, HistoryInv, Orderly, AtRest, NEW c \in Chats, Viewing(c)
                 PROVE  /\ Lists(c)
                        /\ c \in Friends => \A i \in DOMAIN display :
                              display[i] = [kind |-> IF i = 1 THEN "history" ELSE "live", chat |-> c]
      BY DEF HistoryAtRest
    <2>1. way = << >> /\ timers = << >>
      BY DEF AtRest, way
    <2>2. LastClear(way, 0) /\ FriendAsked /\ GroupAsked
      BY <2>1 DEF LastClear, HistoryInv, HistoryAsked, Viewing
    <2>3. /\ Open = c /\ c # None /\ page = IF c \in Groups THEN "group" ELSE "chat"
          /\ group \in Groups \cup {None} /\ friend \in Friends \cup {None}
      BY ClientSessionAssumption DEF Viewing, Chats, ClientInv, TypeOK
    <2>4. CASE c \in Groups
      <3>1. group = c /\ c \notin Friends /\ page = "group"
        BY <2>3, <2>4, ClientSessionAssumption DEF Open, isGroupChat
      <3>2. Lists(group)
        BY <2>1, <2>2, <2>3, <3>1 DEF GroupAsked
      <3> QED
        BY <3>1, <3>2
    <2>5. CASE c \notin Groups
      <3>1. friend = c /\ page = "chat"
        BY <2>3, <2>5 DEF Open, isGroupChat
      <3>2. ListsFriend(friend)
        BY <2>2, <2>3, <3>1 DEF FriendAsked
      <3> QED
        BY <3>1, <3>2 DEF ListsFriend
    <2> QED
      BY <2>4, <2>5
  <1> QED
    BY <1>1, ClientInvariant, HistoryInvariant, PTL
=============================================================================
