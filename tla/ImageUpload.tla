---------------------------- MODULE ImageUpload ----------------------------
(***************************************************************************)
(* Sending an image from one client to the server.  The client             *)
(* (src/ChatClient/src/chatwindow.cpp) sends a small image in one message  *)
(* and a larger one in chunks, one every 50 ms from a timer.  The server   *)
(* (src/ChatServer/src/server.cpp) hands each read of the socket to a      *)
(* worker, collects the chunks in m_pendingChunkedImages, which no mutex   *)
(* protects, and writes the file when the end message comes.               *)
(*                                                                         *)
(* The main thread takes one read for one message.  A message that arrives *)
(* in two reads is lost; of messages that arrive in one read the first     *)
(* chunk is saved by hand, in the main thread, with what follows it up to  *)
(* the last quote decoded as if it were image data (Junk).                 *)
(*                                                                         *)
(* A data race is resolved as the build may resolve it: of two overlapping *)
(* changes one may be lost, a change to an entry that was taken out of the *)
(* map is lost, and a lookup during an insertion or a removal may miss.    *)
(***************************************************************************)
EXTENDS Naturals, Sequences

CONSTANTS
    Uploads,        \* the temporary ids; each is used once
    Chunked,        \* those of images above MAX_DIRECT_SIZE
    Chunks,         \* number of chunks of such an image
    Workers,        \* threads of the pool
    MaxBadReads,    \* bound: reads of the server's socket that are not one message
    None            \* no upload

ASSUME ImageUploadAssumption ==
    /\ Chunked \subseteq Uploads
    /\ Chunks \in Nat \ {0}
    /\ MaxBadReads \in Nat
    /\ "main" \notin Workers

VARIABLES
    connected,  \* the client's socket
    upload,     \* m_pendingImageUploads: "new", "pending" (in the map) or "gone"
    next,       \* currentChunk
    timer,      \* a call of sendNextImageChunk is scheduled
    messages,   \* the images for which the client has sent a chat message
    wire,       \* messages on their way to the server
    badReads,   \* number of reads that were not one message
    tasks,      \* the pool's queue
    answers,    \* answers on their way to the client: [upload, success]
    entry,      \* m_pendingChunkedImages: a function of the ids in the map
    disk,       \* the image files: a function of the uploads they come from
    pc,         \* the next step of each thread
    job,        \* the message it works on
    data,       \* image data it has read
    count,      \* receivedChunks it has read
    lost,       \* its reference into the map leads nowhere
    disturbed   \* uploads some message of which was not read and handled alone

client == <<upload, next, timer, messages>>
link == <<connected, wire, badReads, tasks>>
threads == <<pc, job, data, count, lost>>
vars == <<client, link, answers, entry, disk, threads, disturbed>>

Threads == Workers \cup {"main"}
Junk == [of |-> None, at |-> 0]
Piece(u, k) == [of |-> u, at |-> k]
Image(u) == IF u \in Chunked THEN [k \in 1 .. Chunks |-> Piece(u, k)] ELSE <<Piece(u, 1)>>
Start(u) == [kind |-> "start", upload |-> u, data |-> << >>]
Chunk(u, k) == [kind |-> "chunk", upload |-> u, data |-> <<Piece(u, k)>>]
End(u) == [kind |-> "end", upload |-> u, data |-> << >>]
Whole(u) == [kind |-> "save", upload |-> u, data |-> Image(u)]
Empty(total) == [total |-> total, received |-> 0, data |-> << >>]
NoJob == [kind |-> "none"]

\* QMap: f[u] = x, and remove.
Insert(f, u, x) == [v \in DOMAIN f \cup {u} |-> IF v = u THEN x ELSE f[v]]
Remove(f, u) == [v \in DOMAIN f \ {u} |-> f[v]]

Init ==
    /\ connected = TRUE
    /\ upload = [u \in Uploads |-> "new"]
    /\ next = [u \in Uploads |-> 0]
    /\ timer = [u \in Uploads |-> FALSE]
    /\ messages = {}
    /\ wire = << >>
    /\ badReads = 0
    /\ tasks = << >>
    /\ answers = << >>
    /\ entry = << >>
    /\ disk = << >>
    /\ pc = [t \in Threads |-> "free"]
    /\ job = [t \in Threads |-> NoJob]
    /\ data = [t \in Threads |-> << >>]
    /\ count = [t \in Threads |-> 0]
    /\ lost = [t \in Threads |-> FALSE]
    /\ disturbed = {}

-----------------------------------------------------------------------------
(* The client.                                                             *)

\* sendImageMessage, and sendImageChunked with the first chunk right behind the start message.
sendImageMessage(u) ==
    /\ connected
    /\ upload[u] = "new"
    /\ upload' = [upload EXCEPT ![u] = "pending"]
    /\ IF u \in Chunked
       THEN /\ wire' = wire \o <<Start(u), Chunk(u, 1)>>
            /\ next' = [next EXCEPT ![u] = 1]
            /\ timer' = [timer EXCEPT ![u] = TRUE]
       ELSE /\ wire' = Append(wire, Whole(u))
            /\ UNCHANGED <<next, timer>>
    /\ UNCHANGED <<messages, connected, badReads, tasks, answers, entry, disk, threads, disturbed>>

\* Mutant: the index is not counted up, so that the first chunk is sent again.
SendNotCounting(u) ==
    LET sends == upload[u] = "pending" /\ connected
        more == next[u] < Chunks IN
    /\ timer[u]
    /\ wire' = IF ~sends THEN wire
               ELSE Append(wire, IF more THEN Chunk(u, next[u]) ELSE End(u))
    /\ next' = [next EXCEPT ![u] = IF sends /\ more THEN @ + 1 ELSE @]
    /\ timer' = [timer EXCEPT ![u] = sends /\ more]
    /\ upload' = [upload EXCEPT ![u] = IF ~connected /\ more THEN "gone" ELSE @]
    /\ UNCHANGED <<messages, connected, badReads, tasks, answers, entry, disk, threads, disturbed>>

\* sendNextImageChunk, when its timer fires: a chunk and the next timer, or the end message.  The
\* entry is dropped when the connection is down, but not once all chunks are sent.
sendNextImageChunk(u) ==
    LET sends == upload[u] = "pending" /\ connected
        more == next[u] < Chunks IN
    /\ timer[u]
    /\ wire' = IF ~sends THEN wire
               ELSE Append(wire, IF more THEN Chunk(u, next[u] + 1) ELSE End(u))
    /\ next' = [next EXCEPT ![u] = IF sends /\ more THEN @ + 1 ELSE @]
    /\ timer' = [timer EXCEPT ![u] = sends /\ more]
    /\ upload' = [upload EXCEPT ![u] = IF ~connected /\ more THEN "gone" ELSE @]
    /\ UNCHANGED <<messages, connected, badReads, tasks, answers, entry, disk, threads, disturbed>>

\* handleChunkedImageResponse or handleUploadImageResponse: a success ends the upload and sends the
\* chat message with the image; a failure ends a chunked upload only.
handleResponse ==
    /\ answers # << >>
    /\ answers' = Tail(answers)
    /\ LET a == Head(answers) IN
       /\ upload' = [upload EXCEPT ![a.upload] =
                        IF a.success \/ a.upload \in Chunked THEN "gone" ELSE @]
       /\ messages' = IF a.success /\ upload[a.upload] = "pending" /\ connected
                      THEN messages \cup {a.upload} ELSE messages
    /\ UNCHANGED <<next, timer, link, entry, disk, threads, disturbed>>

\* handleServerData finds two answers in one read: no JSON document, and no download to save.
LoseAnswers ==
    /\ Len(answers) >= 2
    /\ answers' = Tail(Tail(answers))
    /\ UNCHANGED <<client, link, entry, disk, threads, disturbed>>

\* The connection ends, and what was on its way with it.
Disconnect ==
    /\ connected
    /\ connected' = FALSE
    /\ wire' = << >>
    /\ answers' = << >>
    /\ UNCHANGED <<client, badReads, tasks, entry, disk, threads, disturbed>>

-----------------------------------------------------------------------------
(* The server's main thread.                                               *)

Busy == {t \in Threads : pc[t] # "free"}

\* Thread t begins to handle message m; what overlaps with it is disturbed.
Begin(t, m, place) ==
    /\ pc' = [pc EXCEPT ![t] = place]
    /\ job' = [job EXCEPT ![t] = m]
    /\ disturbed' = IF Busy = {} THEN disturbed
                    ELSE disturbed \cup {m.upload} \cup {job[s].upload : s \in Busy}
    /\ UNCHANGED <<data, count, lost>>

\* handleClientData, when the read is one message: it is queued for the workers.
handleClientData ==
    /\ pc["main"] = "free"
    /\ wire # << >>
    /\ wire' = Tail(wire)
    /\ tasks' = Append(tasks, Head(wire))
    /\ UNCHANGED <<client, connected, badReads, answers, entry, disk, threads, disturbed>>

\* A message arrives in two reads, of which neither can be parsed or saved: the type comes last.
ReadTorn ==
    /\ pc["main"] = "free"
    /\ wire # << >>
    /\ badReads < MaxBadReads
    /\ badReads' = badReads + 1
    /\ wire' = Tail(wire)
    /\ disturbed' = disturbed \cup {Head(wire).upload}
    /\ UNCHANGED <<client, connected, tasks, answers, entry, disk, threads>>

\* The first n messages arrive in one read, or (n = 1) one message up to some place behind its type.
\* If one is a chunk, the data of the first chunk goes to the upload that is named first; all else is
\* lost.
ReadMerged(n) ==
    LET chunks == {i \in 1 .. n : wire[i].kind = "chunk"} IN
    /\ pc["main"] = "free"
    /\ badReads < MaxBadReads
    /\ badReads' = badReads + 1
    /\ wire' = SubSeq(wire, n + 1, Len(wire))
    /\ IF chunks = {}
       THEN UNCHANGED threads
       ELSE /\ \E i \in chunks :
                  /\ \A j \in chunks : i <= j
                  /\ job' = [job EXCEPT !["main"] =
                                [kind |-> "chunk", upload |-> Head(wire).upload,
                                 data |-> Append(wire[i].data, Junk)]]
            /\ pc' = [pc EXCEPT !["main"] = "find"]
            /\ UNCHANGED <<data, count, lost>>
    /\ disturbed' = disturbed \cup {wire[i].upload : i \in 1 .. n}
                              \cup {job[s].upload : s \in Busy}
    /\ UNCHANGED <<client, connected, tasks, answers, entry, disk>>

-----------------------------------------------------------------------------
(* The handlers, in a worker or, for a chunk saved by hand, in the main    *)
(* thread.                                                                 *)

Subject(t) == job[t].upload
Answer(u, success) ==
    answers' = IF connected THEN Append(answers, [upload |-> u, success |-> success]) ELSE answers

Goto(t, place) == pc' = [pc EXCEPT ![t] = place] /\ UNCHANGED job

Return(t) ==
    /\ pc' = [pc EXCEPT ![t] = "free"]
    /\ job' = [job EXCEPT ![t] = NoJob]
    /\ data' = [data EXCEPT ![t] = << >>]
    /\ count' = [count EXCEPT ![t] = 0]
    /\ lost' = [lost EXCEPT ![t] = FALSE]

\* m_pendingChunkedImages.contains(tempId).
Contains(t) ==
    {Subject(t) \in DOMAIN entry} \cup
        (IF \E s \in Threads \ {t} : pc[s] \in {"start", "take", "refer"} THEN {FALSE} ELSE {})

\* A free worker takes the first task.
Take(w) ==
    /\ pc[w] = "free"
    /\ tasks # << >>
    /\ tasks' = Tail(tasks)
    /\ LET m == Head(tasks) IN
       Begin(w, m, CASE m.kind = "start" -> "start"
                     [] m.kind = "save" -> "save"
                     [] OTHER -> "find")
    /\ UNCHANGED <<client, connected, wire, badReads, answers, entry, disk>>

handleChunkedImageStart(t) ==
    /\ pc[t] = "start"
    /\ entry' = Insert(entry, Subject(t), Empty(Chunks))
    /\ Return(t)
    /\ UNCHANGED <<client, link, answers, disk, disturbed>>

\* Mutant: the end message of an unknown upload is not answered.
FindQuietly(t) ==
    /\ pc[t] = "find"
    /\ \E found \in Contains(t) :
          IF found THEN /\ Goto(t, IF job[t].kind = "end" THEN "take" ELSE "refer")
                        /\ UNCHANGED <<data, count, lost, answers>>
          ELSE /\ IF t = "main" \/ job[t].kind = "end" THEN UNCHANGED answers
                  ELSE Answer(Subject(t), FALSE)
               /\ Return(t)
    /\ UNCHANGED <<client, link, entry, disk, disturbed>>

\* "No active upload found for this ID", or on to the entry.
Find(t) ==
    /\ pc[t] = "find"
    /\ \E found \in Contains(t) :
          IF found THEN /\ Goto(t, IF job[t].kind = "end" THEN "take" ELSE "refer")
                        /\ UNCHANGED <<data, count, lost, answers>>
          ELSE /\ IF t = "main" THEN UNCHANGED answers ELSE Answer(Subject(t), FALSE)
               /\ Return(t)
    /\ UNCHANGED <<client, link, entry, disk, disturbed>>

\* m_pendingChunkedImages[tempId], which makes an empty entry if there is none any more.
Refer(t) ==
    /\ pc[t] = "refer"
    /\ entry' = IF Subject(t) \in DOMAIN entry THEN entry
                ELSE Insert(entry, Subject(t), Empty(0))
    /\ Goto(t, "append")
    /\ UNCHANGED <<client, link, answers, disk, data, count, lost, disturbed>>

\* imageData.append, in two steps.
ReadData(t) ==
    /\ pc[t] = "append"
    /\ data' = [data EXCEPT ![t] = IF lost[t] THEN << >> ELSE entry[Subject(t)].data]
    /\ Goto(t, "write")
    /\ UNCHANGED <<client, link, answers, entry, disk, count, lost, disturbed>>

\* Mutant: the chunk goes to the front.
WriteDataFirst(t) ==
    /\ pc[t] = "write"
    /\ entry' = IF lost[t] THEN entry
                ELSE [entry EXCEPT ![Subject(t)].data = job[t].data \o data[t]]
    /\ Goto(t, "count")
    /\ UNCHANGED <<client, link, answers, disk, data, count, lost, disturbed>>

WriteData(t) ==
    /\ pc[t] = "write"
    /\ entry' = IF lost[t] THEN entry
                ELSE [entry EXCEPT ![Subject(t)].data = data[t] \o job[t].data]
    /\ Goto(t, "count")
    /\ UNCHANGED <<client, link, answers, disk, data, count, lost, disturbed>>

\* receivedChunks++, in two steps.
ReadCount(t) ==
    /\ pc[t] = "count"
    /\ count' = [count EXCEPT ![t] = IF lost[t] THEN 0 ELSE entry[Subject(t)].received]
    /\ Goto(t, "increment")
    /\ UNCHANGED <<client, link, answers, entry, disk, data, lost, disturbed>>

WriteCount(t) ==
    /\ pc[t] = "increment"
    /\ entry' = IF lost[t] THEN entry
                ELSE [entry EXCEPT ![Subject(t)].received = count[t] + 1]
    /\ Return(t)
    /\ UNCHANGED <<client, link, answers, disk, disturbed>>

\* Mutant: the index of the last chunk in place of the number of chunks.
EnoughByIndex(e) == (e.received - 1) * 10 >= e.total * 9

\* At least nine tenths of the chunks.
Enough(e) == e.received * 10 >= e.total * 9

References == {"append", "write", "count", "increment"}

\* handleChunkedImageEnd takes the entry, or an empty one, out of the map; who refers to it is left
\* with nothing.
TakeEntry(t) ==
    LET u == Subject(t)
        e == IF u \in DOMAIN entry THEN entry[u] ELSE Empty(0) IN
    /\ pc[t] = "take"
    /\ entry' = Remove(entry, u)
    /\ lost' = [s \in Threads |-> lost[s] \/ (pc[s] \in References /\ Subject(s) = u)]
    /\ IF Enough(e)
       THEN /\ Goto(t, "save")
            /\ data' = [data EXCEPT ![t] = e.data]
            /\ UNCHANGED answers
       ELSE /\ pc' = [pc EXCEPT ![t] = "free"]
            /\ job' = [job EXCEPT ![t] = NoJob]
            /\ Answer(u, FALSE)
            /\ UNCHANGED data
    /\ UNCHANGED <<client, link, disk, count, disturbed>>

\* The bytes that go into the file.
Written(t) == IF Subject(t) \in Chunked THEN data[t] ELSE job[t].data

\* Mutant: the result of saveImage is not looked at.
SaveUnchecked(t) ==
    LET u == Subject(t) IN
    /\ pc[t] = "save"
    /\ disk' = Insert(disk, u, Written(t)) \/ UNCHANGED disk
    /\ Answer(u, TRUE)
    /\ Return(t)
    /\ UNCHANGED <<client, link, entry, disturbed>>

\* saveImage under a fresh id, for a whole image or a collected one: the file may fail.
saveImage(t) ==
    LET u == Subject(t) IN
    /\ pc[t] = "save"
    /\ \/ /\ disk' = Insert(disk, u, Written(t))
          /\ Answer(u, TRUE)
       \/ /\ Answer(u, FALSE)
          /\ UNCHANGED disk
    /\ Return(t)
    /\ UNCHANGED <<client, link, entry, disturbed>>

HandlerStep(t) ==
    \/ handleChunkedImageStart(t) \/ Find(t) \/ Refer(t) \/ ReadData(t) \/ WriteData(t)
    \/ ReadCount(t) \/ WriteCount(t) \/ TakeEntry(t) \/ saveImage(t)

Next ==
    \/ \E u \in Uploads : sendImageMessage(u) \/ sendNextImageChunk(u)
    \/ handleResponse \/ LoseAnswers \/ Disconnect
    \/ handleClientData \/ ReadTorn \/ \E n \in 1 .. Len(wire) : ReadMerged(n)
    \/ \E w \in Workers : Take(w)
    \/ \E t \in Threads : HandlerStep(t)

Spec == Init /\ [][Next]_vars

\* The pool's threads run, which ThreadPool shows to be so; nothing is assumed of the client, the
\* connection and the main thread.
FairSpec == Spec /\ \A w \in Workers : WF_vars(Take(w) \/ HandlerStep(w))

-----------------------------------------------------------------------------
(* Properties.                                                             *)

Pieces == [of : Uploads, at : 1 .. Chunks] \cup {Junk}
Entries == [total : Nat, received : Nat, data : Seq(Pieces)]
Jobs == [kind : {"start", "chunk", "end", "save"}, upload : Uploads, data : Seq(Pieces)]
Places == {"free", "start", "find", "refer", "take", "save"} \cup References

ClientOK ==
    /\ upload \in [Uploads -> {"new", "pending", "gone"}]
    /\ next \in [Uploads -> 0 .. Chunks]
    /\ timer \in [Uploads -> BOOLEAN]
    /\ messages \subseteq Uploads

LinkOK ==
    /\ connected \in BOOLEAN
    /\ wire \in Seq(Jobs)
    /\ tasks \in Seq(Jobs)
    /\ badReads \in 0 .. MaxBadReads
    /\ answers \in Seq([upload : Uploads, success : BOOLEAN])

StoreOK ==
    /\ DOMAIN entry \subseteq Uploads
    /\ entry \in [DOMAIN entry -> Entries]
    /\ DOMAIN disk \subseteq Uploads
    /\ disk \in [DOMAIN disk -> Seq(Pieces)]

ThreadsOK ==
    /\ pc \in [Threads -> Places]
    /\ job \in [Threads -> Jobs \cup {NoJob}]
    /\ data \in [Threads -> Seq(Pieces)]
    /\ count \in [Threads -> Nat]
    /\ lost \in [Threads -> BOOLEAN]

\* Every variable has its type, and a free thread keeps nothing of what it has handled.
TypeOK ==
    /\ ClientOK /\ LinkOK /\ StoreOK /\ ThreadsOK
    /\ disturbed \subseteq Uploads
    /\ \A t \in Threads : pc[t] = "free" => job[t] = NoJob /\ data[t] = << >> /\ ~lost[t]

\* The client sends a chat message only for an image that is on the server's disk, where the
\* receiver will ask for it (handleChunkedImageEnd, handleUploadImageResponse).
SentAfterStored == messages \subseteq DOMAIN disk

Distinct(d) == \A i, j \in DOMAIN d : d[i] = d[j] /\ d[i] # Junk => i = j

\* However reads are torn or merged and handlers overlap, no chunk is twice in a collected or a
\* stored image (sendNextImageChunk, handleChunkedImageChunk, the chunk saved by hand).
NoPieceTwice ==
    /\ \A u \in DOMAIN entry : Distinct(entry[u].data)
    /\ \A u \in DOMAIN disk : Distinct(disk[u])

\* An upload of which every message was read alone and handled alone is stored as the image that
\* was sent: all chunks, in their order (the handlers of ChunkedImageStart, Chunk and End).
StoredIsTheImage ==
    \A u \in DOMAIN disk \ disturbed : disk[u] = Image(u)

\* Such an upload is refused only when its file cannot be written.
RefusedForItsFile ==
    [][\A u \in Uploads \ disturbed' :
          answers' = Append(answers, [upload |-> u, success |-> FALSE]) =>
              \E w \in Workers : pc[w] = "save" /\ Subject(w) = u]_vars

\* However messages are lost, merged or handled at the same time, an image is stored at most once,
\* and told to the friend at most once, behind its storing (sendNextImageChunk, saveImage,
\* handleResponse): the uploads implement ImageService, of which SentAfterStored is a part.
Promised == INSTANCE ImageService WITH phase <- upload, stored <- disk, announced <- messages

ImplementsImageService == Promised!Spec

Handed(u) ==
    \/ \E i \in DOMAIN tasks : tasks[i] = End(u)
    \/ \E w \in Workers : job[w] = End(u)

\* An end message that has been handed to the pool is answered, whatever has become of the start
\* message and of the chunks (handleChunkedImageEnd).
EndIsAnswered ==
    \A u \in Chunked :
        Handed(u) ~> (~connected \/ \E i \in DOMAIN answers : answers[i].upload = u)

\* "At least 90 per cent of the chunks have been received" (server.cpp:2673): an image that is
\* stored has nine tenths of its chunks.
StoredIsAlmostWhole ==
    \A u \in Chunked \cap DOMAIN disk :
        10 * Len(SelectSeq(disk[u], LAMBDA p : p.of = u)) >= 9 * Chunks
=============================================================================
