--------------------------- MODULE ImageDownload ---------------------------
(***************************************************************************)
(* The images in one chat of the client, from the message that names an    *)
(* image to the picture on the screen (handleServerData, downloadImage and *)
(* updateImageMessages in src/ChatClient/src/chatwindow.cpp, the model of  *)
(* the list in src/ChatClient/qml/ChatPage.qml, DownloadImageRequest in    *)
(* src/ChatServer/src/server.cpp).                                         *)
(*                                                                         *)
(* An image that is not in the cache is shown as "loading" and asked for;  *)
(* a worker reads the file and writes it to the socket itself, while other *)
(* threads may write to the same socket: one of two such writes can be     *)
(* lost.  The client takes one read for one message.  Reads that are not   *)
(* one message are counted by badReads; what gets lost that way, or in a   *)
(* race of two writes, is damaged.                                         *)
(*                                                                         *)
(* An answer is written over the file that is there: opening it empties    *)
(* it, so that a write that fails then cuts an image that was whole.  The  *)
(* map of the cache goes on naming the file.  Clients on one machine keep  *)
(* their images in the same directory.                                     *)
(***************************************************************************)
EXTENDS Naturals, Sequences, FiniteSets

CONSTANTS
    Images,         \* the images the friend sends, each in one message
    Workers,        \* threads of the pool
    MaxOpens,       \* bound: how often the chat is opened
    MaxBadReads,    \* bound: reads that are not one message
    MaxFailures,    \* bound: files that cannot be read or written
    None            \* "[loading]"

ASSUME ImageDownloadAssumption ==
    /\ None \notin Images
    /\ MaxOpens \in Nat /\ MaxBadReads \in Nat /\ MaxFailures \in Nat

VARIABLES
    connected,  \* the client's socket
    open,       \* the chat with the friend is the current one
    opens,      \* how often it was opened
    display,    \* messageModel: the image of each message, and the image it shows
    named,      \* the images in m_imageCacheMap
    file,       \* the file of an image: "none", "empty", "broken", "part" or "whole"
    cut,        \* images whose file a failing write has cut
    timers,     \* downloads to be tried again (2 s after a failure, 1 s after a broken file)
    repeats,    \* updates of the display to be repeated (500 ms)
    stored,     \* the friend's messages in the database
    delivering, \* stored, but not posted to this client yet
    requests,   \* on their way to the server
    job,        \* what each worker does
    packets,    \* on their way to the client
    badReads,
    failures,
    damaged     \* images of which a request or an answer was lost or torn

chat == <<open, opens, display>>
cache == <<named, file, cut>>
pending == <<timers, repeats>>
server == <<stored, delivering, job>>
bounds == <<badReads, failures>>
vars == <<connected, chat, cache, pending, server, requests, packets, bounds, damaged>>

Message(kind, images) == [kind |-> kind, images |-> images]
NoJob == Message("none", << >>)
Item(i, shown) == [image |-> i, shows |-> shown]
Subject(m) == m.images[1]
Absent == {"none", "empty"}     \* what downloadImage does not take for a file
Loadable == {"whole", "part"}
Cut == {"empty", "broken", "part"}
Files == {"none", "whole"} \cup Cut

Init ==
    /\ connected = TRUE
    /\ open = FALSE
    /\ opens = 0
    /\ display = << >>
    /\ named = {}
    /\ file = [i \in Images |-> "none"]
    /\ cut = {}
    /\ timers = [i \in Images |-> 0]
    /\ repeats = [i \in Images |-> 0]
    /\ stored = << >>
    /\ delivering = {}
    /\ requests = << >>
    /\ job = [w \in Workers |-> NoJob]
    /\ packets = << >>
    /\ badReads = 0
    /\ failures = 0
    /\ damaged = {}

\* The images whose download suffers when messages are lost.
Suffers(messages) ==
    {Subject(messages[k]) : k \in {j \in DOMAIN messages : messages[j].kind \in {"image", "failed"}}}

-----------------------------------------------------------------------------
(* The server.                                                             *)

\* Message p is written to the socket, with the workers' jobs j.  Two threads that write at the
\* same time can lose either message.
Post(p, j) ==
    \/ /\ packets' = IF connected THEN Append(packets, p) ELSE packets
       /\ job' = j
       /\ UNCHANGED damaged
    \/ \E w \in {v \in Workers : j[v].kind = "writing"} :
          \/ /\ job' = j
             /\ damaged' = damaged \cup Suffers(<<p>>)
             /\ UNCHANGED packets
          \/ /\ packets' = IF connected THEN Append(packets, p) ELSE packets
             /\ job' = [j EXCEPT ![w].kind = "spoilt"]
             /\ damaged' = damaged \cup {Subject(job[w])}

\* The friend's image message is inserted into the database by the worker that handles it.
Store(i) ==
    /\ \A k \in DOMAIN stored : stored[k] # i
    /\ stored' = Append(stored, i)
    /\ delivering' = delivering \cup {i}
    /\ UNCHANGED <<connected, chat, cache, pending, job, requests, packets, bounds, damaged>>

\* The same worker posts it to this client.
Deliver(i) ==
    /\ i \in delivering
    /\ delivering' = delivering \ {i}
    /\ Post(Message("message", <<i>>), job)
    /\ UNCHANGED <<connected, chat, cache, pending, stored, requests, bounds>>

Take(w) ==
    /\ job[w] = NoJob
    /\ requests # << >>
    /\ job' = [job EXCEPT ![w] = Head(requests)]
    /\ requests' = Tail(requests)
    /\ UNCHANGED <<connected, chat, cache, pending, stored, delivering, packets, bounds, damaged>>

\* ChatHistory.
AnswerHistory(w) ==
    /\ job[w].kind = "history"
    /\ Post(Message("history", stored), [job EXCEPT ![w] = NoJob])
    /\ UNCHANGED <<connected, chat, cache, pending, stored, delivering, requests, bounds>>

\* DownloadImageRequest: "Image not found or read error".
Refuse(w) ==
    /\ job[w].kind = "image"
    /\ failures < MaxFailures
    /\ failures' = failures + 1
    /\ Post(Message("failed", job[w].images), [job EXCEPT ![w] = NoJob])
    /\ UNCHANGED <<connected, chat, cache, pending, stored, delivering, requests, badReads>>

\* The packet is complete, and the worker calls clientSocket->write.
BeginWrite(w) ==
    /\ job[w].kind = "image"
    /\ job' = [job EXCEPT ![w].kind = "writing"]
    /\ UNCHANGED <<connected, chat, cache, pending, stored, delivering, requests, packets, bounds,
                   damaged>>

EndWrite(w) ==
    /\ \/ /\ job[w].kind = "writing"
          /\ Post(Message("image", job[w].images), [job EXCEPT ![w] = NoJob])
       \/ /\ job[w].kind = "spoilt"
          /\ job' = [job EXCEPT ![w] = NoJob]
          /\ UNCHANGED <<packets, damaged>>
    /\ UNCHANGED <<connected, chat, cache, pending, stored, delivering, requests, bounds>>

WorkerStep(w) == Take(w) \/ AnswerHistory(w) \/ Refuse(w) \/ BeginWrite(w) \/ EndWrite(w)

\* handleClientData reads the first n requests, or a part of one, or one with some other message
\* of this client: no JSON document.
LoseRequests(n) ==
    /\ badReads < MaxBadReads
    /\ badReads' = badReads + 1
    /\ requests' = SubSeq(requests, n + 1, Len(requests))
    /\ damaged' = damaged \cup Suffers(SubSeq(requests, 1, n))
    /\ UNCHANGED <<connected, chat, cache, pending, server, packets, failures>>

-----------------------------------------------------------------------------
(* The client.                                                             *)

\* Image i is in the cache if its file is f: it is named, and the file is not empty.
Cached(i, f) == i \in named /\ f \notin Absent

\* Image i can be shown.
Shown(i) == i \in named /\ file[i] \in Loadable

\* downloadImage, if the file is f: nothing is asked for that is in the cache.
Download(i, f) ==
    /\ named' = IF Cached(i, f) THEN named ELSE named \ {i}
    /\ requests' = IF connected /\ ~Cached(i, f) THEN Append(requests, Message("image", <<i>>))
                   ELSE requests

\* selectFriend, with loadChatHistory.
selectFriend ==
    /\ ~open
    /\ opens < MaxOpens
    /\ open' = TRUE
    /\ opens' = opens + 1
    /\ display' = << >>
    /\ requests' = IF connected THEN Append(requests, Message("history", << >>)) ELSE requests
    /\ UNCHANGED <<connected, cache, pending, server, packets, bounds, damaged>>

\* Another friend or a group is selected; its messages are not modelled.
selectOther ==
    /\ open
    /\ open' = FALSE
    /\ display' = << >>
    /\ UNCHANGED <<connected, opens, cache, pending, server, requests, packets, bounds, damaged>>

\* One read of the socket is one packet.
Receive(kind) ==
    /\ packets # << >>
    /\ Head(packets).kind = kind
    /\ packets' = Tail(packets)

\* onUpdatePlaceholderMessages: every message that shows "[loading]" shows image i.
Filled(i) ==
    [k \in DOMAIN display |-> IF display[k].shows = None THEN Item(display[k].image, i) ELSE display[k]]

\* An image message arrives.  The sender's file may be on this machine, where it is not looked
\* into; otherwise downloadImage is called, even for an image in the cache if the sender has named
\* a file.
handleMessage ==
    /\ Receive("message")
    /\ LET i == Subject(Head(packets))
           Show(shown) == display' = IF open THEN Append(display, Item(i, shown)) ELSE display IN
       \/ /\ file' = [file EXCEPT ![i] = IF @ = "none" THEN "whole" ELSE @]
          /\ named' = named \cup {i}
          /\ Show(i)
          /\ UNCHANGED requests
       \/ /\ Show(None)
          /\ Download(i, file[i])
          /\ UNCHANGED file
       \/ /\ Shown(i)
          /\ Show(i)
          /\ UNCHANGED <<named, file, requests>>
    /\ UNCHANGED <<connected, open, opens, cut, pending, server, bounds, damaged>>

\* The sequences that list the positions W, in their order.
Listings(W) ==
    {f \in [1 .. Cardinality(W) -> W] :
        /\ \A a, b \in DOMAIN f : a < b => f[a] < f[b]
        /\ \A k \in W : \E a \in DOMAIN f : f[a] = k}

\* Mutant: only the first image of the history is asked for.
HistoryFetchingFirst ==
    /\ Receive("history")
    /\ LET images == Head(packets).images IN
       /\ display' = [k \in DOMAIN images |->
                        Item(images[k], IF Shown(images[k]) THEN images[k] ELSE None)]
       /\ IF images = << >> THEN UNCHANGED <<named, requests>> ELSE Download(images[1], file[images[1]])
    /\ UNCHANGED <<connected, open, opens, file, cut, pending, server, bounds, damaged>>

\* The history replaces what is shown; the images that are not in the cache are asked for.
handleHistory ==
    /\ Receive("history")
    /\ LET images == Head(packets).images IN
       /\ display' = [k \in DOMAIN images |->
                        Item(images[k], IF Shown(images[k]) THEN images[k] ELSE None)]
       /\ named' = named \ {images[k] : k \in {j \in DOMAIN images : file[images[j]] \in Absent}}
       /\ \E f \in Listings({k \in DOMAIN images : connected /\ ~Cached(images[k], file[images[k]])}) :
             requests' = requests \o [a \in DOMAIN f |-> Message("image", <<images[f[a]]>>)]
    /\ UNCHANGED <<connected, open, opens, file, cut, pending, server, bounds, damaged>>

\* A file of the given quality is put into the cache, then updateImageMessages.
Save(i, quality) ==
    /\ named' = named \cup {i}
    /\ file' = [file EXCEPT ![i] = quality]
    /\ IF quality \in Loadable
       THEN /\ display' = Filled(i)
            /\ repeats' = [repeats EXCEPT ![i] = @ + 1]
            /\ UNCHANGED timers
       ELSE /\ timers' = [timers EXCEPT ![i] = @ + 1]
            /\ UNCHANGED <<display, repeats>>
    /\ UNCHANGED <<connected, open, opens, server, requests>>

\* The file cannot be opened, or is emptied by that and then written in part: downloadImage.
SaveFails(i) ==
    /\ failures < MaxFailures
    /\ failures' = failures + 1
    /\ \/ Download(i, file[i]) /\ UNCHANGED <<file, cut>>
       \/ \E quality \in Cut :
             /\ file' = [file EXCEPT ![i] = quality]
             /\ cut' = cut \cup {i}
             /\ Download(i, quality)
    /\ UNCHANGED <<connected, chat, pending, server>>

\* A file is written in part, and that is not noticed: the file is closed after the count is taken.
SaveCut(i) ==
    /\ failures < MaxFailures
    /\ failures' = failures + 1
    /\ cut' = cut \cup {i}
    /\ \E quality \in Cut : Save(i, quality)

\* What an answer brings is written to the file of image i.
TrySave(i, quality) ==
    \/ Save(i, quality) /\ UNCHANGED <<failures, cut>>
    \/ SaveCut(i)
    \/ SaveFails(i)

\* A read that is one image packet.
handleImage ==
    /\ Receive("image")
    /\ TrySave(Subject(Head(packets)), "whole")
    /\ UNCHANGED <<badReads, damaged>>

\* Mutant: a failure is only reported.
FailureWithoutRetry ==
    /\ Receive("failed")
    /\ UNCHANGED <<connected, chat, cache, pending, server, requests, bounds, damaged>>

\* handleDownloadImageResponse, with the reason of a failure.
handleFailure ==
    /\ Receive("failed")
    /\ timers' = [timers EXCEPT ![Subject(Head(packets))] = @ + 1]
    /\ UNCHANGED <<connected, chat, cache, repeats, server, requests, bounds, damaged>>

handleServerData == handleMessage \/ handleHistory \/ handleImage \/ handleFailure

\* The first read of an image packet ends in the middle of the image, which is saved all the same;
\* the rest is not recognised.
ReadTorn ==
    /\ Receive("image")
    /\ badReads < MaxBadReads
    /\ badReads' = badReads + 1
    /\ damaged' = damaged \cup {Subject(Head(packets))}
    /\ \E quality \in {"part", "broken"} : TrySave(Subject(Head(packets)), quality)

\* Mutant: the packet's length is not looked at, and the image saved with all that follows.
ReadImageAndRest(n) ==
    /\ n >= 2
    /\ packets[1].kind = "image"
    /\ badReads < MaxBadReads
    /\ badReads' = badReads + 1
    /\ packets' = SubSeq(packets, n + 1, Len(packets))
    /\ damaged' = damaged \cup Suffers(SubSeq(packets, 2, n))
    /\ TrySave(Subject(packets[1]), "part")

\* An image packet with others behind it in the same read: these are lost.
ReadImageFirst(n) ==
    /\ n >= 2
    /\ packets[1].kind = "image"
    /\ badReads < MaxBadReads
    /\ badReads' = badReads + 1
    /\ packets' = SubSeq(packets, n + 1, Len(packets))
    /\ damaged' = damaged \cup Suffers(SubSeq(packets, 2, n))
    /\ TrySave(Subject(packets[1]), "whole")

\* Any other read is neither an image nor JSON.  If there is a DownloadImageResponse in it, its
\* image is asked for again (when it is torn, only if its first part was short).
ReadUnparsable(n) ==
    LET failed == {k \in 1 .. n : packets[k].kind = "failed"} IN
    /\ badReads < MaxBadReads
    /\ badReads' = badReads + 1
    /\ packets' = SubSeq(packets, n + 1, Len(packets))
    /\ \/ \E k \in failed :
             /\ \A j \in failed : k <= j
             /\ Download(Subject(packets[k]), file[Subject(packets[k])])
             /\ damaged' = damaged \cup Suffers(SubSeq(packets, 1, k - 1) \o SubSeq(packets, k + 1, n))
       \/ /\ failed = {} \/ n = 1
          /\ damaged' = damaged \cup Suffers(SubSeq(packets, 1, n))
          /\ UNCHANGED <<named, requests>>
    /\ UNCHANGED <<connected, chat, file, cut, pending, server, failures>>

\* Mutant: the timer goes on firing.
RetryTimerAgain(i) ==
    /\ timers' = [timers EXCEPT ![i] = @ - 1]
    /\ Download(i, file[i])
    /\ UNCHANGED <<connected, chat, file, cut, repeats, server, packets, bounds, damaged>>

\* The download is tried again.
RetryTimer(i) ==
    /\ timers[i] > 0
    /\ timers' = [timers EXCEPT ![i] = @ - 1]
    /\ Download(i, file[i])
    /\ UNCHANGED <<connected, chat, file, cut, repeats, server, packets, bounds, damaged>>

\* The update of the display is repeated, whatever is shown by now.
RepeatTimer(i) ==
    /\ repeats[i] > 0
    /\ repeats' = [repeats EXCEPT ![i] = @ - 1]
    /\ display' = Filled(i)
    /\ UNCHANGED <<connected, open, opens, cache, timers, server, requests, packets, bounds, damaged>>

Disconnect ==
    /\ connected
    /\ connected' = FALSE
    /\ requests' = << >>
    /\ packets' = << >>
    /\ UNCHANGED <<chat, cache, pending, server, bounds, damaged>>

Next ==
    \/ \E i \in Images : Store(i) \/ Deliver(i) \/ RetryTimer(i) \/ RepeatTimer(i)
    \/ \E w \in Workers : WorkerStep(w)
    \/ \E n \in 1 .. Len(requests) : LoseRequests(n)
    \/ selectFriend \/ selectOther \/ handleServerData \/ ReadTorn \/ Disconnect
    \/ \E n \in 1 .. Len(packets) : ReadImageFirst(n) \/ ReadUnparsable(n)

Spec == Init /\ [][Next]_vars

\* The pool runs its tasks, and the client's event loop reads its socket and fires its timers.
FairSpec ==
    /\ Spec
    /\ \A w \in Workers : WF_vars(WorkerStep(w))
    /\ WF_vars(handleServerData)
    /\ \A i \in Images : WF_vars(RetryTimer(i))

-----------------------------------------------------------------------------
(* Properties.                                                             *)

Messages(kinds) == [kind : kinds, images : Seq(Images)]

\* Every variable has its type; a packet or request about an image names one.
TypeOK ==
    /\ connected \in BOOLEAN
    /\ open \in BOOLEAN
    /\ opens \in 0 .. MaxOpens
    /\ display \in Seq([image : Images, shows : Images \cup {None}])
    /\ named \subseteq Images
    /\ file \in [Images -> Files]
    /\ cut \subseteq Images
    /\ timers \in [Images -> Nat]
    /\ repeats \in [Images -> Nat]
    /\ stored \in Seq(Images)
    /\ delivering \subseteq Images
    /\ requests \in Seq(Messages({"history", "image"}))
    /\ job \in [Workers -> Messages({"none", "history", "image", "writing", "spoilt"})]
    /\ packets \in Seq(Messages({"message", "history", "image", "failed"}))
    /\ badReads \in 0 .. MaxBadReads
    /\ failures \in 0 .. MaxFailures
    /\ damaged \subseteq Images
    /\ \A m \in {requests[k] : k \in DOMAIN requests} \cup {job[w] : w \in Workers}
                \cup {packets[k] : k \in DOMAIN packets} :
          m.kind \in {"image", "writing", "spoilt", "failed", "message"} => Len(m.images) = 1

\* A download of image i is under way.
UnderWay(i) ==
    \/ timers[i] > 0
    \/ \E k \in DOMAIN requests : requests[k] = Message("image", <<i>>)
    \/ \E w \in Workers : job[w].kind \in {"image", "writing"} /\ Subject(job[w]) = i
    \/ \E k \in DOMAIN packets : packets[k].kind \in {"image", "failed"} /\ Subject(packets[k]) = i

\* An image shown as "loading" that is not in the cache is being downloaded, unless a request or
\* an answer was lost or torn: no failure of the server's or the client's files, no reopening of
\* the chat and no message makes the client forget it (downloadImage and its callers).
NothingForgotten ==
    connected => \A k \in DOMAIN display :
        LET i == display[k].image IN
        display[k].shows = None /\ ~Cached(i, file[i]) => UnderWay(i) \/ i \in damaged

\* However reads are merged, the file under an image's name is that image, whole, unless one of
\* its own packets was torn or lost or a failing write has cut the file (handleServerData).
CacheIsWhole ==
    \A i \in Images \ (damaged \cup cut) : file[i] \in {"none", "whole"}

\* A download of image i that is under way ends with the image in the cache, unless it is damaged:
\* the retries after failures lead somewhere (handleDownloadImageResponse, DownloadImageRequest).
Arrives(i) == UnderWay(i) ~> (Cached(i, file[i]) \/ i \in damaged \/ ~connected)

\* "If the save failed, try to ask for the image again" (chatwindow.cpp:571): a failed save that
\* has cut the file of an image is followed by a request for it.
FailedSaveAsksAgain ==
    [][\A i \in Images : connected /\ SaveFails(i) /\ file'[i] # file[i] => requests' # requests]_vars

\* "Update all messages that show this image" (chatwindow.cpp:2680): a message shows its own image.
EachShowsItsImage ==
    \A k \in DOMAIN display : display[k].shows \in {None, display[k].image}
=============================================================================
