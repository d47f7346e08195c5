-------------------------- MODULE ImageUploadProofs --------------------------
(***************************************************************************)
(* For any uploads, chunks, workers and bad reads: the types; that the     *)
(* client announces an image only when its file is on the server; that no  *)
(* chunk is collected twice; that an image is stored once, and announced   *)
(* once, which is ImageService; and that an upload whose messages are read *)
(* and handled one at a time is stored as it was sent, and refused only    *)
(* for its file.  The announcement rests on the answers: a success on its  *)
(* way has a file behind it.  The chunks go one way, and each is in one    *)
(* place; so is the message that makes the file.  The order rests on what  *)
(* lies ahead of an upload in the queue.                                   *)
(***************************************************************************)
EXTENDS ImageUpload, SequenceTheorems, TLAPS

\* A busy thread has a job, a reference that is not lost leads to an entry, and a thread that has not
\* yet followed its reference has read nothing and lost nothing.
ThreadFits ==
    \A t \in Threads :
        /\ pc[t] # "free" => job[t] \in Jobs
        /\ pc[t] \in References /\ ~lost[t] => Subject(t) \in DOMAIN entry
        /\ pc[t] \in {"start", "find", "refer", "take"} => data[t] = << >> /\ ~lost[t]

\* A success on its way to the client has a file behind it.
SuccessIsStored ==
    \A i \in DOMAIN answers : answers[i].success => answers[i].upload \in DOMAIN disk

UploadInv == TypeOK /\ ThreadFits /\ SuccessIsStored /\ SentAfterStored

Answers == [upload : Uploads, success : BOOLEAN]
NoLeftovers == \A t \in Threads : pc[t] = "free" => job[t] = NoJob /\ data[t] = << >> /\ ~lost[t]
-----------------------------------------------------------------------------
\* The messages of the client are jobs.
LEMMA MessageTypes ==
    ASSUME NEW u \in Uploads
    PROVE  /\ Start(u) \in Jobs
           /\ End(u) \in Jobs
           /\ Whole(u) \in Jobs \/ u \in Chunked
           /\ \A k \in 1 .. Chunks : Chunk(u, k) \in Jobs
  <1>1. << >> \in Seq(Pieces)
    OBVIOUS
  <1>2. \A k \in 1 .. Chunks : Piece(u, k) \in Pieces
    BY DEF Piece, Pieces
  <1>3. \A k \in 1 .. Chunks : <<Piece(u, k)>> \in Seq(Pieces)
    BY <1>2
  <1>4. 1 \in 1 .. Chunks
    BY ImageUploadAssumption
  <1>5. u \notin Chunked => Image(u) \in Seq(Pieces)
    BY <1>3, <1>4 DEF Image
  <1> QED
    BY <1>1, <1>3, <1>5 DEF Start, End, Whole, Chunk, Jobs

\* Putting an element at the end of a sequence, and taking some from its front, keeps its type.
LEMMA SequenceTypes ==
    ASSUME NEW S, NEW s \in Seq(S)
    PROVE  /\ \A x \in S : Append(s, x) \in Seq(S)
           /\ s # << >> => Head(s) \in S /\ Tail(s) \in Seq(S)
           /\ \A r \in Seq(S) : s \o r \in Seq(S)
  OBVIOUS

\* The rest of a sequence behind its first n elements.
LEMMA RestType ==
    ASSUME NEW S, NEW s \in Seq(S), NEW n \in 1 .. Len(s)
    PROVE  SubSeq(s, n + 1, Len(s)) \in Seq(S)
  OBVIOUS

\* A sequence without its first element.
LEMMA TailFacts ==
    ASSUME NEW S, NEW s \in Seq(S), s # << >>
    PROVE  /\ Tail(s) \in Seq(S)
           /\ Len(Tail(s)) = Len(s) - 1
           /\ \A i \in DOMAIN Tail(s) : i \in Nat /\ i + 1 \in DOMAIN s /\ Tail(s)[i] = s[i + 1]
  OBVIOUS

\* Inserting into the map of uploads, and removing from it.
LEMMA EntryTypes ==
    ASSUME StoreOK, NEW u \in Uploads, NEW x \in Entries
    PROVE  /\ DOMAIN Insert(entry, u, x) = DOMAIN entry \cup {u}
           /\ DOMAIN Insert(entry, u, x) \subseteq Uploads
           /\ Insert(entry, u, x) \in [DOMAIN Insert(entry, u, x) -> Entries]
           /\ DOMAIN Remove(entry, u) = DOMAIN entry \ {u}
           /\ DOMAIN Remove(entry, u) \subseteq Uploads
           /\ Remove(entry, u) \in [DOMAIN Remove(entry, u) -> Entries]
  BY DEF StoreOK, Insert, Remove

\* A step that makes an entry.
LEMMA InsertEntry ==
    ASSUME StoreOK, NEW u \in Uploads, NEW x \in Entries, entry' = Insert(entry, u, x), disk' = disk
    PROVE  DOMAIN entry' = DOMAIN entry \cup {u} /\ StoreOK'
  <1> DEFINE e == Insert(entry, u, x)
  <1>1. DOMAIN e = DOMAIN entry \cup {u} /\ DOMAIN e \subseteq Uploads /\ e \in [DOMAIN e -> Entries]
    BY EntryTypes
  <1> HIDE DEF e
  <1>2. entry' = e
    BY DEF e
  <1> QED
    BY <1>1, <1>2 DEF StoreOK

\* Adding a file.
LEMMA DiskTypes ==
    ASSUME StoreOK, NEW u \in Uploads, NEW x \in Seq(Pieces)
    PROVE  /\ DOMAIN Insert(disk, u, x) = DOMAIN disk \cup {u}
           /\ DOMAIN Insert(disk, u, x) \subseteq Uploads
           /\ Insert(disk, u, x) \in [DOMAIN Insert(disk, u, x) -> Seq(Pieces)]
  BY DEF StoreOK, Insert

\* An answer keeps the answers typed, and if a success has a file, so have all.
LEMMA AnswerFits ==
    ASSUME UploadInv, NEW u \in Uploads, NEW ok \in BOOLEAN, Answer(u, ok),
           ok => u \in DOMAIN disk', DOMAIN disk \subseteq DOMAIN disk'
    PROVE  answers' \in Seq(Answers) /\ SuccessIsStored'
  <1>1. answers \in Seq(Answers)
    BY DEF UploadInv, TypeOK, LinkOK, Answers
  <1>2. [upload |-> u, success |-> ok] \in Answers
    BY DEF Answers
  <1>3. CASE answers' = answers
    BY <1>1, <1>3 DEF UploadInv, SuccessIsStored
  <1>4. CASE answers' = Append(answers, [upload |-> u, success |-> ok])
    <2>1. answers' \in Seq(Answers)
      BY <1>1, <1>2, <1>4
    <2>2. \A i \in DOMAIN answers' :
             \/ i \in DOMAIN answers /\ answers'[i] = answers[i]
             \/ answers'[i] = [upload |-> u, success |-> ok]
      BY <1>1, <1>4
    <2> QED
      BY <2>1, <2>2 DEF UploadInv, SuccessIsStored
  <1> QED
    BY <1>3, <1>4 DEF Answer
-----------------------------------------------------------------------------
\* The client and the network leave the threads, the map and the disk alone.
LEMMA OutsideStep ==
    ASSUME UploadInv, ClientOK', LinkOK', disturbed' \subseteq Uploads,
           UNCHANGED <<entry, disk, threads>>
    PROVE  TypeOK' /\ ThreadFits'
  <1>1. StoreOK' /\ ThreadsOK'
    BY DEF UploadInv, TypeOK, StoreOK, ThreadsOK, threads
  <1>2. ThreadFits'
    BY DEF UploadInv, ThreadFits, threads, Subject
  <1>3. NoLeftovers'
    BY DEF UploadInv, TypeOK, NoLeftovers, threads
  <1> QED
    BY <1>1, <1>2, <1>3 DEF TypeOK, NoLeftovers

\* What is on its way and what the client has announced stays backed by files if nothing is added.
LEMMA QuietStep ==
    ASSUME UploadInv, ClientOK', LinkOK', disturbed' \subseteq Uploads,
           UNCHANGED <<entry, disk, threads, messages>>,
           answers' = answers \/ answers' = << >>
    PROVE  UploadInv'
  <1>1. TypeOK' /\ ThreadFits'
    BY OutsideStep
  <1>2. SuccessIsStored'
    BY DEF UploadInv, SuccessIsStored
  <1>3. SentAfterStored'
    BY DEF UploadInv, SentAfterStored
  <1> QED
    BY <1>1, <1>2, <1>3 DEF UploadInv

\* sendImageMessage puts typed messages on the wire.
LEMMA SendImage ==
    ASSUME UploadInv, NEW u \in Uploads, sendImageMessage(u)
    PROVE  UploadInv'
  <1>1. ClientOK /\ LinkOK /\ disturbed \subseteq Uploads
    BY DEF UploadInv, TypeOK
  <1>2. 1 \in 1 .. Chunks /\ 1 \in 0 .. Chunks
    BY ImageUploadAssumption
  <1>3. <<Start(u), Chunk(u, 1)>> \in Seq(Jobs)
    BY <1>2, MessageTypes
  <1>4. wire' \in Seq(Jobs)
    <2>1. wire \in Seq(Jobs)
      BY <1>1 DEF LinkOK
    <2>2. CASE u \in Chunked
      <3>1. wire' = wire \o <<Start(u), Chunk(u, 1)>>
        BY <2>2 DEF sendImageMessage
      <3>2. wire \o <<Start(u), Chunk(u, 1)>> \in Seq(Jobs)
        BY <1>3, <2>1, SequenceTypes
      <3> QED
        BY <3>1, <3>2
    <2>3. CASE u \notin Chunked
      <3>1. Whole(u) \in Jobs
        BY <2>3, MessageTypes
      <3> QED
        BY <2>1, <2>3, <3>1, SequenceTypes DEF sendImageMessage
    <2> QED
      BY <2>2, <2>3
  <1>5. ClientOK'
    BY <1>1, <1>2 DEF ClientOK, sendImageMessage
  <1>6. LinkOK'
    BY <1>1, <1>4 DEF LinkOK, sendImageMessage
  <1>7. UNCHANGED <<entry, disk, threads, messages, answers, disturbed>>
    BY DEF sendImageMessage
  <1> QED
    BY <1>1, <1>5, <1>6, <1>7, QuietStep

\* sendNextImageChunk puts a chunk with an existing number, or the end message, on the wire.
LEMMA SendNext ==
    ASSUME UploadInv, NEW u \in Uploads, sendNextImageChunk(u)
    PROVE  UploadInv'
  <1>1. ClientOK /\ LinkOK /\ disturbed \subseteq Uploads
    BY DEF UploadInv, TypeOK
  <1>2. Chunks \in Nat /\ next[u] \in 0 .. Chunks
    BY <1>1, ImageUploadAssumption DEF ClientOK
  <1>3. next[u] < Chunks => next[u] + 1 \in 1 .. Chunks /\ next[u] + 1 \in 0 .. Chunks
    BY <1>2
  <1>4. wire' \in Seq(Jobs)
    <2>1. wire \in Seq(Jobs)
      BY <1>1 DEF LinkOK
    <2>2. End(u) \in Jobs /\ (next[u] < Chunks => Chunk(u, next[u] + 1) \in Jobs)
      BY <1>3, MessageTypes
    <2>3. \/ wire' = wire
          \/ next[u] < Chunks /\ wire' = Append(wire, Chunk(u, next[u] + 1))
          \/ wire' = Append(wire, End(u))
      BY DEF sendNextImageChunk
    <2> QED
      BY <2>1, <2>2, <2>3, SequenceTypes
  <1>5. ClientOK'
    <2>1. upload' \in [Uploads -> {"new", "pending", "gone"}]
      BY <1>1 DEF ClientOK, sendNextImageChunk
    <2>2. next' \in [Uploads -> 0 .. Chunks]
      BY <1>1, <1>3 DEF ClientOK, sendNextImageChunk
    <2>3. timer' \in [Uploads -> BOOLEAN] /\ messages' \subseteq Uploads
      <3>1. (upload[u] = "pending" /\ connected /\ next[u] < Chunks) \in BOOLEAN
        OBVIOUS
      <3> QED
        BY <1>1, <3>1 DEF ClientOK, sendNextImageChunk
    <2> QED
      BY <2>1, <2>2, <2>3 DEF ClientOK
  <1>6. LinkOK'
    BY <1>1, <1>4 DEF LinkOK, sendNextImageChunk
  <1>7. UNCHANGED <<entry, disk, threads, messages, answers, disturbed>>
    BY DEF sendNextImageChunk
  <1> QED
    BY <1>1, <1>5, <1>6, <1>7, QuietStep

\* handleResponse announces an image only for an answer that has its file.
LEMMA Response ==
    ASSUME UploadInv, handleResponse
    PROVE  UploadInv'
  <1> DEFINE a == Head(answers)
  <1>1. ClientOK /\ LinkOK /\ disturbed \subseteq Uploads
    BY DEF UploadInv, TypeOK
  <1>2. answers \in Seq(Answers) /\ answers # << >>
    BY <1>1 DEF LinkOK, Answers, handleResponse
  <1>3. a \in Answers /\ a = answers[1] /\ 1 \in DOMAIN answers
    BY <1>2
  <1>4. answers' \in Seq(Answers)
    BY <1>2 DEF handleResponse
  <1>5. \A i \in DOMAIN answers' : i + 1 \in DOMAIN answers /\ answers'[i] = answers[i + 1]
    BY <1>2 DEF handleResponse
  <1>6. messages' = messages \/ (a.success /\ messages' = messages \cup {a.upload})
    BY DEF handleResponse
  <1>7. ClientOK'
    <2>1. messages' \subseteq Uploads
      BY <1>1, <1>3, <1>6 DEF ClientOK, Answers
    <2>2. upload' \in [Uploads -> {"new", "pending", "gone"}]
      BY <1>1, <1>3 DEF ClientOK, Answers, handleResponse
    <2> QED
      BY <1>1, <2>1, <2>2 DEF ClientOK, handleResponse
  <1>8. LinkOK'
    BY <1>1, <1>4 DEF LinkOK, link, Answers, handleResponse
  <1>9. TypeOK' /\ ThreadFits'
    BY <1>1, <1>7, <1>8, OutsideStep DEF handleResponse
  <1>10. disk' = disk
    BY DEF handleResponse
  <1>11. SuccessIsStored'
    BY <1>5, <1>10 DEF UploadInv, SuccessIsStored
  <1>12. SentAfterStored'
    BY <1>3, <1>6, <1>10 DEF UploadInv, SuccessIsStored, SentAfterStored
  <1> QED
    BY <1>9, <1>11, <1>12 DEF UploadInv

\* Answers that are lost leave the others as they were.
LEMMA LostAnswers ==
    ASSUME UploadInv, LoseAnswers
    PROVE  UploadInv'
  <1>1. ClientOK /\ LinkOK /\ disturbed \subseteq Uploads
    BY DEF UploadInv, TypeOK
  <1>2. answers \in Seq(Answers) /\ Len(answers) >= 2
    BY <1>1 DEF LinkOK, Answers, LoseAnswers
  <1>3. /\ answers' \in Seq(Answers)
        /\ \A i \in DOMAIN answers' : i + 2 \in DOMAIN answers /\ answers'[i] = answers[i + 2]
    <2>1. /\ Tail(answers) \in Seq(Answers) /\ Tail(answers) # << >>
          /\ \A i \in DOMAIN Tail(answers) :
                i + 1 \in DOMAIN answers /\ Tail(answers)[i] = answers[i + 1]
      BY <1>2, TailFacts
    <2>2. /\ Tail(Tail(answers)) \in Seq(Answers)
          /\ \A i \in DOMAIN Tail(Tail(answers)) :
                /\ i \in Nat
                /\ i + 1 \in DOMAIN Tail(answers)
                /\ Tail(Tail(answers))[i] = Tail(answers)[i + 1]
      BY <2>1, TailFacts
    <2>3. \A i \in DOMAIN Tail(Tail(answers)) :
             i \in Nat /\ i + 2 \in DOMAIN answers /\ Tail(Tail(answers))[i] = answers[i + 2]
      <3> TAKE i \in DOMAIN Tail(Tail(answers))
      <3>1. i \in Nat /\ (i + 1) + 1 = i + 2
        BY <2>2
      <3> QED
        BY <2>1, <2>2, <3>1
    <2> QED
      BY <2>2, <2>3 DEF LoseAnswers
  <1>4. ClientOK' /\ LinkOK'
    BY <1>1, <1>3 DEF ClientOK, LinkOK, client, link, Answers, LoseAnswers
  <1>5. TypeOK' /\ ThreadFits'
    BY <1>1, <1>4, OutsideStep DEF LoseAnswers
  <1>6. SuccessIsStored' /\ SentAfterStored'
    BY <1>3 DEF UploadInv, SuccessIsStored, SentAfterStored, LoseAnswers, client
  <1> QED
    BY <1>5, <1>6 DEF UploadInv

\* A disconnection, a read of one message and a read of half a message only move messages.
LEMMA LinkStep ==
    ASSUME UploadInv, Disconnect \/ handleClientData \/ ReadTorn
    PROVE  UploadInv'
  <1>1. ClientOK /\ LinkOK /\ disturbed \subseteq Uploads
    BY DEF UploadInv, TypeOK
  <1>2. wire # << >> => Head(wire) \in Jobs /\ Tail(wire) \in Seq(Jobs)
    BY <1>1, SequenceTypes DEF LinkOK
  <1>3. CASE Disconnect
    <2>1. << >> \in Seq(Jobs) /\ << >> \in Seq([upload : Uploads, success : BOOLEAN])
      OBVIOUS
    <2>2. LinkOK'
      BY <1>1, <1>3, <2>1 DEF LinkOK, Disconnect
    <2>3. ClientOK'
      BY <1>1, <1>3 DEF ClientOK, client, Disconnect
    <2>4. UNCHANGED <<entry, disk, threads, messages, disturbed>> /\ answers' = << >>
      BY <1>3 DEF client, Disconnect
    <2> QED
      BY <1>1, <2>2, <2>3, <2>4, QuietStep
  <1>4. CASE handleClientData
    <2>1. tasks' \in Seq(Jobs)
      BY <1>1, <1>2, <1>4, SequenceTypes DEF LinkOK, handleClientData
    <2>2. ClientOK' /\ LinkOK'
      BY <1>1, <1>2, <1>4, <2>1 DEF ClientOK, LinkOK, client, handleClientData
    <2>3. UNCHANGED <<entry, disk, threads, messages, answers, disturbed>>
      BY <1>4 DEF client, handleClientData
    <2> QED
      BY <1>1, <2>2, <2>3, QuietStep
  <1>5. CASE ReadTorn
    <2>1. Head(wire).upload \in Uploads
      BY <1>2, <1>5 DEF ReadTorn, Jobs
    <2>2. badReads' \in 0 .. MaxBadReads
      BY <1>1, <1>5, ImageUploadAssumption DEF LinkOK, ReadTorn
    <2>3. ClientOK' /\ LinkOK'
      BY <1>1, <1>2, <1>5, <2>2 DEF ClientOK, LinkOK, client, ReadTorn
    <2>4. UNCHANGED <<entry, disk, threads, messages, answers>> /\ disturbed' \subseteq Uploads
      BY <1>1, <1>5, <2>1 DEF client, ReadTorn
    <2> QED
      BY <2>3, <2>4, QuietStep
  <1> QED
    BY <1>3, <1>4, <1>5
-----------------------------------------------------------------------------
\* The threads.  A thread that starts to handle a job of the right type leaves the others alone.
LEMMA BeginFits ==
    ASSUME UploadInv, NEW t \in Threads, NEW m \in Jobs, NEW place \in Places \ {"free"},
           pc[t] = "free", place \notin References,
           job' = [job EXCEPT ![t] = m], pc' = [pc EXCEPT ![t] = place],
           UNCHANGED <<data, count, lost, entry>>
    PROVE  ThreadsOK' /\ ThreadFits' /\ NoLeftovers'
  <1>1. ThreadsOK
    BY DEF UploadInv, TypeOK
  <1>2. ThreadsOK'
    BY <1>1 DEF ThreadsOK
  <1>3. ThreadFits'
    BY <1>1 DEF UploadInv, TypeOK, ThreadFits, ThreadsOK, Subject
  <1>4. NoLeftovers'
    BY <1>1 DEF UploadInv, TypeOK, ThreadsOK, NoLeftovers
  <1> QED
    BY <1>2, <1>3, <1>4

\* A thread that returns keeps nothing.
LEMMA ReturnFits ==
    ASSUME UploadInv, NEW t \in Threads, Return(t), DOMAIN entry \subseteq DOMAIN entry'
    PROVE  ThreadsOK' /\ ThreadFits' /\ NoLeftovers'
  <1>1. ThreadsOK
    BY DEF UploadInv, TypeOK
  <1>2. ThreadsOK'
    <2>1. << >> \in Seq(Pieces) /\ 0 \in Nat /\ "free" \in Places
      BY DEF Places
    <2> QED
      BY <1>1, <2>1 DEF ThreadsOK, Return
  <1>3. ThreadFits'
    BY <1>1 DEF UploadInv, ThreadFits, ThreadsOK, Subject, Return, References
  <1>4. NoLeftovers'
    BY <1>1 DEF UploadInv, TypeOK, ThreadsOK, NoLeftovers, Return
  <1> QED
    BY <1>2, <1>3, <1>4

\* A thread that goes on keeps its job, and what it has read is its own.
LEMMA GotoFits ==
    ASSUME UploadInv, NEW t \in Threads, pc[t] # "free",
           NEW place \in Places \ {"free"}, Goto(t, place),
           data' \in [Threads -> Seq(Pieces)], \A s \in Threads \ {t} : data'[s] = data[s],
           count' \in [Threads -> Nat], lost' = lost, DOMAIN entry \subseteq DOMAIN entry',
           place \in References => lost[t] \/ Subject(t) \in DOMAIN entry',
           place \in {"start", "find", "refer", "take"} => data'[t] = << >> /\ ~lost[t]
    PROVE  ThreadsOK' /\ ThreadFits' /\ NoLeftovers'
  <1>1. ThreadsOK
    BY DEF UploadInv, TypeOK
  <1>2. ThreadsOK'
    BY <1>1 DEF ThreadsOK, Goto
  <1>3. ThreadFits'
    BY <1>1 DEF UploadInv, ThreadFits, ThreadsOK, Subject, Goto
  <1>4. NoLeftovers'
    BY <1>1 DEF UploadInv, TypeOK, ThreadsOK, NoLeftovers, Goto
  <1> QED
    BY <1>2, <1>3, <1>4

\* What a step of a thread has to show, if it leaves the client and the connection alone.
LEMMA ThreadStep ==
    ASSUME UploadInv, ThreadsOK', ThreadFits', NoLeftovers', StoreOK',
           answers' \in Seq(Answers), SuccessIsStored', DOMAIN disk \subseteq DOMAIN disk',
           UNCHANGED <<client, link, disturbed>>
    PROVE  UploadInv'
  <1>1. ClientOK' /\ LinkOK'
    BY DEF UploadInv, TypeOK, ClientOK, LinkOK, client, link, Answers
  <1>2. TypeOK'
    BY <1>1 DEF UploadInv, TypeOK, NoLeftovers
  <1>3. SentAfterStored'
    BY DEF UploadInv, SentAfterStored, client
  <1> QED
    BY <1>2, <1>3 DEF UploadInv

\* Several messages in one read: the rest of the wire stays typed, and so does the saved chunk.
LEMMA MergedRead ==
    ASSUME UploadInv, NEW n \in 1 .. Len(wire), ReadMerged(n)
    PROVE  UploadInv'
  <1>1. /\ ClientOK /\ LinkOK /\ StoreOK /\ ThreadsOK
        /\ disturbed \subseteq Uploads /\ wire \in Seq(Jobs)
    BY DEF UploadInv, TypeOK, LinkOK
  <1>2. wire' \in Seq(Jobs)
    BY <1>1, RestType DEF ReadMerged
  <1>3. \A i \in 1 .. n : wire[i] \in Jobs
    BY <1>1
  <1>4. LinkOK' /\ ClientOK'
    <2>1. badReads' \in 0 .. MaxBadReads
      BY <1>1, ImageUploadAssumption DEF LinkOK, ReadMerged
    <2> QED
      BY <1>1, <1>2, <2>1 DEF LinkOK, ClientOK, client, ReadMerged
  <1>5. disturbed' \subseteq Uploads
    <2>1. \A i \in 1 .. n : wire[i].upload \in Uploads
      BY <1>3 DEF Jobs
    <2>2. \A s \in Busy : job[s].upload \in Uploads
      BY DEF UploadInv, ThreadFits, Busy, Jobs
    <2> QED
      BY <1>1, <2>1, <2>2 DEF ReadMerged
  <1>6. StoreOK'
    BY <1>1 DEF StoreOK, ReadMerged
  <1>7. ThreadsOK' /\ ThreadFits' /\ NoLeftovers'
    <2>1. CASE UNCHANGED threads
      <3>1. entry' = entry
        BY DEF ReadMerged
      <3> QED
        BY <2>1, <3>1, <1>1
           DEF UploadInv, TypeOK, ThreadsOK, ThreadFits, NoLeftovers, threads, Subject
    <2>2. CASE ~UNCHANGED threads
      <3> DEFINE saved(i) == [kind |-> "chunk", upload |-> Head(wire).upload,
                              data |-> Append(wire[i].data, Junk)]
      <3>1. PICK i \in 1 .. n : job' = [job EXCEPT !["main"] = saved(i)]
        BY <2>2 DEF ReadMerged
      <3>2. saved(i) \in Jobs
        <4>1. Head(wire) = wire[1] /\ 1 \in 1 .. n
          BY <1>1
        <4>2. wire[i].data \in Seq(Pieces) /\ Head(wire).upload \in Uploads
          BY <1>3, <4>1 DEF Jobs
        <4>3. Junk \in Pieces
          BY DEF Pieces
        <4>4. Append(wire[i].data, Junk) \in Seq(Pieces)
          BY <4>2, <4>3, SequenceTypes
        <4> QED
          BY <4>2, <4>4 DEF Jobs
      <3>3. pc' = [pc EXCEPT !["main"] = "find"] /\ UNCHANGED <<data, count, lost, entry>>
        BY <2>2 DEF ReadMerged
      <3>4. pc["main"] = "free"
        BY DEF ReadMerged
      <3>5. "main" \in Threads /\ "find" \in Places \ {"free"} /\ "find" \notin References
        BY DEF Threads, Places, References
      <3> HIDE DEF saved
      <3> QED
        BY <3>1, <3>2, <3>3, <3>4, <3>5, BeginFits
    <2> QED
      BY <2>1, <2>2
  <1>8. UNCHANGED <<disk, answers, messages>>
    BY DEF ReadMerged, client
  <1>9. SuccessIsStored' /\ SentAfterStored'
    BY <1>8 DEF UploadInv, SuccessIsStored, SentAfterStored
  <1> QED
    BY <1>4, <1>5, <1>6, <1>7, <1>9 DEF UploadInv, TypeOK, NoLeftovers

\* A worker takes a task.
LEMMA TakeStep ==
    ASSUME UploadInv, NEW w \in Workers, Take(w)
    PROVE  UploadInv'
  <1> DEFINE m == Head(tasks)
             place == CASE m.kind = "start" -> "start"
                        [] m.kind = "save" -> "save"
                        [] OTHER -> "find"
  <1>1. ClientOK /\ LinkOK /\ StoreOK /\ ThreadsOK /\ disturbed \subseteq Uploads
    BY DEF UploadInv, TypeOK
  <1>2. m \in Jobs /\ tasks' \in Seq(Jobs)
    BY <1>1, SequenceTypes DEF LinkOK, Take
  <1>3. Begin(w, m, place) /\ UNCHANGED <<client, connected, wire, badReads, answers, entry, disk>>
    BY DEF Take
  <1>4. place \in Places \ {"free"} /\ place \notin References /\ w \in Threads
    BY DEF Places, References, Threads
  <1> HIDE DEF m, place
  <1>5. ThreadsOK' /\ ThreadFits' /\ NoLeftovers'
    <2>1. /\ job' = [job EXCEPT ![w] = m] /\ pc' = [pc EXCEPT ![w] = place]
          /\ UNCHANGED <<data, count, lost, entry>> /\ pc[w] = "free"
      BY <1>3 DEF Begin, Take
    <2> QED
      BY <1>2, <1>4, <2>1, BeginFits
  <1>6. disturbed' \subseteq Uploads
    <2>1. m.upload \in Uploads
      BY <1>2 DEF Jobs
    <2>2. \A s \in Busy : job[s].upload \in Uploads
      BY DEF UploadInv, ThreadFits, Busy, Jobs
    <2> QED
      BY <1>1, <1>3, <2>1, <2>2 DEF Begin
  <1>7. ClientOK' /\ LinkOK' /\ StoreOK'
    BY <1>1, <1>2, <1>3 DEF ClientOK, LinkOK, StoreOK, client
  <1>8. SuccessIsStored' /\ SentAfterStored'
    BY <1>3 DEF UploadInv, SuccessIsStored, SentAfterStored, client
  <1> QED
    BY <1>5, <1>6, <1>7, <1>8 DEF UploadInv, TypeOK, NoLeftovers
-----------------------------------------------------------------------------
(* The handlers.                                                           *)

\* The start message makes an entry.
LEMMA StartStep ==
    ASSUME UploadInv, NEW t \in Threads, handleChunkedImageStart(t)
    PROVE  UploadInv'
  <1>1. Subject(t) \in Uploads /\ Empty(Chunks) \in Entries
    <2>1. << >> \in Seq(Pieces) /\ Chunks \in Nat
      BY ImageUploadAssumption
    <2>2. job[t] \in Jobs
      BY DEF UploadInv, ThreadFits, handleChunkedImageStart
    <2> QED
      BY <2>1, <2>2 DEF Empty, Entries, Subject, Jobs
  <1>2. entry' = Insert(entry, Subject(t), Empty(Chunks)) /\ Return(t)
    BY DEF handleChunkedImageStart
  <1>3. DOMAIN entry \subseteq DOMAIN entry' /\ StoreOK'
    <2>1. StoreOK /\ disk' = disk
      BY DEF UploadInv, TypeOK, handleChunkedImageStart
    <2> QED
      BY <1>1, <1>2, <2>1, InsertEntry
  <1>4. ThreadsOK' /\ ThreadFits' /\ NoLeftovers'
    BY <1>2, <1>3, ReturnFits
  <1>5. answers' \in Seq(Answers) /\ SuccessIsStored'
    BY DEF UploadInv, TypeOK, LinkOK, Answers, SuccessIsStored, handleChunkedImageStart
  <1> QED
    BY <1>3, <1>4, <1>5, ThreadStep DEF handleChunkedImageStart

\* The lookup: a chunk or an end message that finds no entry is refused.
LEMMA FindStep ==
    ASSUME UploadInv, NEW t \in Threads, Find(t)
    PROVE  UploadInv'
  <1>1. ThreadsOK /\ StoreOK /\ answers \in Seq(Answers) /\ pc[t] = "find" /\ Subject(t) \in Uploads
    BY DEF UploadInv, TypeOK, LinkOK, Answers, ThreadFits, Subject, Jobs, Find
  <1>2. UNCHANGED <<client, link, entry, disk, disturbed>>
    BY DEF Find
  <1>3. StoreOK'
    BY <1>1, <1>2 DEF StoreOK
  <1>4. CASE Return(t) /\ (answers' = answers \/ Answer(Subject(t), FALSE))
    <2>1. ThreadsOK' /\ ThreadFits' /\ NoLeftovers'
      BY <1>2, <1>4, ReturnFits
    <2>2. answers' \in Seq(Answers) /\ SuccessIsStored'
      <3>1. CASE answers' = answers
        BY <1>1, <1>2, <3>1 DEF UploadInv, SuccessIsStored
      <3>2. CASE Answer(Subject(t), FALSE)
        BY <1>1, <1>2, <3>2, AnswerFits
      <3> QED
        BY <1>4, <3>1, <3>2
    <2> QED
      BY <1>2, <1>3, <2>1, <2>2, ThreadStep
  <1>5. CASE UNCHANGED <<data, count, lost, answers>> /\ \E p \in {"take", "refer"} : Goto(t, p)
    <2>1. PICK p \in {"take", "refer"} : Goto(t, p)
      BY <1>5
    <2>2. p \in Places \ {"free"} /\ p \notin References
      BY DEF Places, References
    <2>3. ThreadsOK' /\ ThreadFits' /\ NoLeftovers'
      <3>1. data'[t] = << >> /\ ~lost[t]
        BY <1>1, <1>5 DEF UploadInv, ThreadFits
      <3> QED
        BY <1>1, <1>2, <1>5, <2>1, <2>2, <3>1, GotoFits DEF ThreadsOK
    <2>4. answers' \in Seq(Answers) /\ SuccessIsStored'
      BY <1>1, <1>2, <1>5 DEF UploadInv, SuccessIsStored
    <2> QED
      BY <1>2, <1>3, <2>3, <2>4, ThreadStep
  <1> QED
    BY <1>4, <1>5 DEF Find

\* The reference is to an entry, made if need be.
LEMMA ReferStep ==
    ASSUME UploadInv, NEW t \in Threads, Refer(t)
    PROVE  UploadInv'
  <1>1. ThreadsOK /\ StoreOK /\ answers \in Seq(Answers) /\ pc[t] = "refer" /\ Subject(t) \in Uploads
    BY DEF UploadInv, TypeOK, LinkOK, Answers, ThreadFits, Subject, Jobs, Refer
  <1>2. Empty(0) \in Entries
    <2>1. << >> \in Seq(Pieces)
      OBVIOUS
    <2> QED
      BY <2>1 DEF Empty, Entries
  <1>3. DOMAIN entry \subseteq DOMAIN entry' /\ Subject(t) \in DOMAIN entry' /\ StoreOK'
    <2>1. disk' = disk
      BY DEF Refer
    <2>2. CASE Subject(t) \in DOMAIN entry
      BY <1>1, <2>1, <2>2 DEF StoreOK, Refer
    <2>3. CASE Subject(t) \notin DOMAIN entry
      <3>1. entry' = Insert(entry, Subject(t), Empty(0))
        BY <2>3 DEF Refer
      <3> QED
        BY <1>1, <1>2, <2>1, <3>1, InsertEntry
    <2> QED
      BY <2>2, <2>3
  <1>4. ThreadsOK' /\ ThreadFits' /\ NoLeftovers'
    <2>1. /\ Goto(t, "append") /\ UNCHANGED <<data, count, lost>>
          /\ "append" \in Places \ {"free"} /\ "append" \notin {"start", "find", "refer", "take"}
      BY DEF Refer, Places, References
    <2> QED
      BY <1>1, <1>3, <2>1, GotoFits DEF ThreadsOK
  <1>5. answers' \in Seq(Answers) /\ SuccessIsStored'
    BY <1>1 DEF UploadInv, SuccessIsStored, Refer
  <1> QED
    BY <1>3, <1>4, <1>5, ThreadStep DEF Refer

\* Reading the data or the counter of an entry that is there.
LEMMA ReadStep ==
    ASSUME UploadInv, NEW t \in Threads, ReadData(t) \/ ReadCount(t)
    PROVE  UploadInv'
  <1>1. ThreadsOK /\ StoreOK /\ answers \in Seq(Answers)
    BY DEF UploadInv, TypeOK, LinkOK, Answers
  <1>2. UNCHANGED <<client, link, entry, disk, answers, lost, disturbed>>
    BY DEF ReadData, ReadCount
  <1>3. StoreOK' /\ answers' \in Seq(Answers) /\ SuccessIsStored'
    BY <1>1, <1>2 DEF UploadInv, StoreOK, SuccessIsStored
  <1>4. pc[t] \in References /\ (lost[t] \/ entry[Subject(t)] \in Entries)
    <2>1. pc[t] \in References
      BY DEF ReadData, ReadCount, References
    <2> QED
      BY <1>1, <2>1 DEF UploadInv, ThreadFits, StoreOK
  <1>5. lost[t] \/ Subject(t) \in DOMAIN entry'
    BY <1>2, <1>4 DEF UploadInv, ThreadFits
  <1>6. ThreadsOK' /\ ThreadFits' /\ NoLeftovers'
    <2>1. CASE ReadData(t)
      <3> DEFINE d == IF lost[t] THEN << >> ELSE entry[Subject(t)].data
      <3>1. d \in Seq(Pieces)
        <4>1. << >> \in Seq(Pieces)
          OBVIOUS
        <4> QED
          BY <1>4, <4>1 DEF Entries
      <3>2. Goto(t, "write") /\ data' = [data EXCEPT ![t] = d] /\ count' = count
        BY <2>1 DEF ReadData
      <3>3. "write" \in Places \ {"free"} /\ pc[t] # "free"
        BY <1>4 DEF Places, References
      <3> HIDE DEF d
      <3>4. data' \in [Threads -> Seq(Pieces)] /\ \A s \in Threads \ {t} : data'[s] = data[s]
        BY <1>1, <3>1, <3>2 DEF ThreadsOK
      <3> QED
        BY <1>1, <1>2, <1>5, <3>2, <3>3, <3>4, GotoFits DEF ThreadsOK
    <2>2. CASE ReadCount(t)
      <3> DEFINE c == IF lost[t] THEN 0 ELSE entry[Subject(t)].received
      <3>1. c \in Nat
        BY <1>4 DEF Entries
      <3>2. Goto(t, "increment") /\ count' = [count EXCEPT ![t] = c] /\ data' = data
        BY <2>2 DEF ReadCount
      <3>3. "increment" \in Places \ {"free"} /\ pc[t] # "free"
        BY <1>4 DEF Places, References
      <3> HIDE DEF c
      <3>4. count' \in [Threads -> Nat]
        BY <1>1, <3>1, <3>2 DEF ThreadsOK
      <3> QED
        BY <1>1, <1>2, <1>5, <3>2, <3>3, <3>4, GotoFits DEF ThreadsOK
    <2> QED
      BY <2>1, <2>2
  <1> QED
    BY <1>2, <1>3, <1>6, ThreadStep

\* Writing the data or the counter back.
LEMMA WriteStep ==
    ASSUME UploadInv, NEW t \in Threads, WriteData(t) \/ WriteCount(t)
    PROVE  UploadInv'
  <1>1. ThreadsOK /\ StoreOK /\ answers \in Seq(Answers)
    BY DEF UploadInv, TypeOK, LinkOK, Answers
  <1>2. UNCHANGED <<client, link, disk, answers, disturbed>>
    BY DEF WriteData, WriteCount
  <1>3. answers' \in Seq(Answers) /\ SuccessIsStored'
    BY <1>1, <1>2 DEF UploadInv, SuccessIsStored
  <1>4. /\ pc[t] \in References /\ job[t] \in Jobs
        /\ lost[t] \/ (Subject(t) \in DOMAIN entry /\ entry[Subject(t)] \in Entries)
    <2>1. pc[t] \in References /\ pc[t] # "free"
      BY DEF WriteData, WriteCount, References
    <2> QED
      BY <1>1, <2>1 DEF UploadInv, ThreadFits, StoreOK
  <1>5. CASE WriteData(t)
    <2>1. data[t] \o job[t].data \in Seq(Pieces)
      <3>1. data[t] \in Seq(Pieces) /\ job[t].data \in Seq(Pieces)
        BY <1>1, <1>4 DEF ThreadsOK, Jobs
      <3> QED
        BY <3>1, SequenceTypes
    <2>2. DOMAIN entry' = DOMAIN entry /\ StoreOK'
      BY <1>1, <1>2, <1>4, <1>5, <2>1 DEF StoreOK, WriteData, Entries
    <2>3. Goto(t, "count") /\ UNCHANGED <<data, count, lost>> /\ "count" \in Places \ {"free"}
      BY <1>5 DEF WriteData, Places, References
    <2>4. ThreadsOK' /\ ThreadFits' /\ NoLeftovers'
      BY <1>1, <1>4, <2>2, <2>3, GotoFits DEF ThreadsOK, References
    <2> QED
      BY <1>2, <1>3, <2>2, <2>4, ThreadStep
  <1>6. CASE WriteCount(t)
    <2>1. count[t] + 1 \in Nat
      BY <1>1 DEF ThreadsOK
    <2>2. DOMAIN entry' = DOMAIN entry /\ StoreOK'
      BY <1>1, <1>2, <1>4, <1>6, <2>1 DEF StoreOK, WriteCount, Entries
    <2>3. ThreadsOK' /\ ThreadFits' /\ NoLeftovers'
      BY <1>6, <2>2, ReturnFits DEF WriteCount
    <2> QED
      BY <1>2, <1>3, <2>2, <2>3, ThreadStep
  <1> QED
    BY <1>5, <1>6

\* The end message takes the entry away, and with it the references of other threads.
LEMMA TakeEntryStep ==
    ASSUME UploadInv, NEW t \in Threads, TakeEntry(t)
    PROVE  UploadInv'
  <1> DEFINE u == Subject(t)
             e == IF u \in DOMAIN entry THEN entry[u] ELSE Empty(0)
  <1>1. /\ ThreadsOK /\ StoreOK /\ answers \in Seq(Answers) /\ NoLeftovers
        /\ pc[t] = "take" /\ job[t] \in Jobs /\ data[t] = << >> /\ ~lost[t]
    BY DEF UploadInv, TypeOK, LinkOK, Answers, ThreadFits, NoLeftovers, TakeEntry
  <1>2. u \in Uploads /\ e \in Entries
    <2>1. << >> \in Seq(Pieces)
      OBVIOUS
    <2> QED
      BY <1>1, <2>1 DEF StoreOK, Entries, Empty, Jobs, Subject
  <1>3. UNCHANGED <<client, link, disk, count, disturbed>> /\ entry' = Remove(entry, u)
    BY DEF TakeEntry
  <1>4. DOMAIN entry' = DOMAIN entry \ {u} /\ StoreOK'
    BY <1>1, <1>2, <1>3, EntryTypes DEF StoreOK
  <1>5. lost' = [s \in Threads |-> lost[s] \/ (pc[s] \in References /\ Subject(s) = u)]
    BY DEF TakeEntry
  <1>6. \/ /\ pc' = [pc EXCEPT ![t] = "save"] /\ job' = job
           /\ data' = [data EXCEPT ![t] = e.data] /\ answers' = answers
        \/ /\ pc' = [pc EXCEPT ![t] = "free"] /\ job' = [job EXCEPT ![t] = NoJob]
           /\ data' = data /\ Answer(u, FALSE)
    BY DEF TakeEntry, Goto
  <1>7. "take" \notin References /\ "save" \notin References /\ "free" \notin References
        /\ "save" \in Places /\ "free" \in Places
    BY DEF References, Places
  <1> HIDE DEF u, e
  <1>8. lost' \in [Threads -> BOOLEAN]
    <2> DEFINE Loses(s) == lost[s] \/ (pc[s] \in References /\ Subject(s) = u)
    <2>1. lost' = [s \in Threads |-> Loses(s)]
      BY <1>5
    <2>2. \A s \in Threads : Loses(s) \in BOOLEAN
      BY Zenon
    <2> HIDE DEF Loses
    <2> QED
      BY ONLY <2>1, <2>2
  <1>9. ThreadsOK'
    <2>1. e.data \in Seq(Pieces)
      BY <1>2 DEF Entries
    <2>2. pc' \in [Threads -> Places] /\ job' \in [Threads -> Jobs \cup {NoJob}]
      BY <1>1, <1>6, <1>7 DEF ThreadsOK
    <2>3. data' \in [Threads -> Seq(Pieces)]
      BY <1>1, <1>6, <2>1 DEF ThreadsOK
    <2>4. count' \in [Threads -> Nat]
      BY <1>1, <1>3 DEF ThreadsOK
    <2> QED
      BY <1>8, <2>2, <2>3, <2>4 DEF ThreadsOK
  <1>10. ThreadFits'
    <2> SUFFICES ASSUME NEW s \in Threads
                 PROVE  /\ pc'[s] # "free" => job'[s] \in Jobs
                        /\ pc'[s] \in References /\ ~lost'[s] => Subject(s)' \in DOMAIN entry'
                        /\ pc'[s] \in {"start", "find", "refer", "take"} =>
                              data'[s] = << >> /\ ~lost'[s]
      BY DEF ThreadFits
    <2>1. CASE s = t
      BY <1>1, <1>6, <1>7, <2>1 DEF ThreadsOK
    <2>2. CASE s # t
      <3>1. pc'[s] = pc[s] /\ job'[s] = job[s] /\ Subject(s)' = Subject(s)
        BY <1>1, <1>6, <2>2 DEF ThreadsOK, Subject
      <3>2. pc[s] \in References /\ ~lost'[s] => ~lost[s] /\ Subject(s) # u
        BY <1>5
      <3>3. pc[s] \in {"start", "find", "refer", "take"} => data'[s] = << >> /\ ~lost'[s]
        BY <1>1, <1>5, <1>6, <2>2 DEF UploadInv, ThreadFits, ThreadsOK, References
      <3> QED
        BY <1>4, <3>1, <3>2, <3>3 DEF UploadInv, ThreadFits
    <2> QED
      BY <2>1, <2>2
  <1>11. NoLeftovers'
    <2> SUFFICES ASSUME NEW s \in Threads, pc'[s] = "free"
                 PROVE  job'[s] = NoJob /\ data'[s] = << >> /\ ~lost'[s]
      BY DEF NoLeftovers
    <2>1. CASE s = t
      BY <1>1, <1>5, <1>6, <1>7, <2>1 DEF ThreadsOK
    <2>2. CASE s # t
      <3>1. pc[s] = "free" /\ job'[s] = job[s] /\ data'[s] = data[s]
        BY <1>1, <1>6, <2>2 DEF ThreadsOK
      <3>2. ~lost'[s]
        BY <1>1, <1>5, <1>7, <3>1 DEF NoLeftovers
      <3> QED
        BY <1>1, <3>1, <3>2 DEF NoLeftovers
    <2> QED
      BY <2>1, <2>2
  <1>12. answers' \in Seq(Answers) /\ SuccessIsStored'
    <2>1. CASE answers' = answers
      BY <1>1, <1>3, <2>1 DEF UploadInv, SuccessIsStored
    <2>2. CASE Answer(u, FALSE)
      BY <1>2, <1>3, <2>2, AnswerFits
    <2> QED
      BY <1>6, <2>1, <2>2
  <1> QED
    BY <1>3, <1>4, <1>9, <1>10, <1>11, <1>12, ThreadStep

\* saveImage: a success is answered when the file is there.
LEMMA SaveStep ==
    ASSUME UploadInv, NEW t \in Threads, saveImage(t)
    PROVE  UploadInv'
  <1>1. /\ ThreadsOK /\ StoreOK /\ pc[t] = "save" /\ job[t] \in Jobs
    BY DEF UploadInv, TypeOK, ThreadFits, saveImage
  <1>2. Subject(t) \in Uploads /\ Written(t) \in Seq(Pieces)
    BY <1>1 DEF ThreadsOK, Jobs, Subject, Written
  <1>3. UNCHANGED <<client, link, entry, disturbed>> /\ Return(t)
    BY DEF saveImage
  <1>4. ThreadsOK' /\ ThreadFits' /\ NoLeftovers'
    BY <1>3, ReturnFits
  <1>5. CASE disk' = Insert(disk, Subject(t), Written(t)) /\ Answer(Subject(t), TRUE)
    <2>1. DOMAIN disk' = DOMAIN disk \cup {Subject(t)} /\ StoreOK'
      BY <1>1, <1>2, <1>3, <1>5, DiskTypes DEF StoreOK
    <2>2. answers' \in Seq(Answers) /\ SuccessIsStored'
      BY <1>2, <1>5, <2>1, AnswerFits
    <2> QED
      BY <1>3, <1>4, <2>1, <2>2, ThreadStep
  <1>6. CASE disk' = disk /\ Answer(Subject(t), FALSE)
    <2>1. StoreOK'
      BY <1>1, <1>3, <1>6 DEF StoreOK
    <2>2. answers' \in Seq(Answers) /\ SuccessIsStored'
      BY <1>2, <1>6, AnswerFits
    <2> QED
      BY <1>3, <1>4, <1>6, <2>1, <2>2, ThreadStep
  <1> QED
    BY <1>5, <1>6 DEF saveImage
-----------------------------------------------------------------------------
\* The initial state has the invariant.
LEMMA InitFits ==
    ASSUME Init
    PROVE  UploadInv
  <1>1. << >> \in Seq(Pieces) /\ << >> \in Seq(Jobs) /\ << >> \in Seq(Answers)
        /\ DOMAIN << >> = {}
    OBVIOUS
  <1>2. 0 \in 0 .. Chunks /\ 0 \in 0 .. MaxBadReads
    BY ImageUploadAssumption
  <1>3. ClientOK
    BY <1>2 DEF Init, ClientOK
  <1>4. LinkOK
    BY <1>1, <1>2 DEF Init, LinkOK, Answers
  <1>5. StoreOK
    BY <1>1 DEF Init, StoreOK
  <1>6. ThreadsOK /\ NoLeftovers
    BY <1>1 DEF Init, ThreadsOK, NoLeftovers, Places
  <1>7. ThreadFits
    BY DEF Init, ThreadFits, References
  <1>8. SuccessIsStored /\ SentAfterStored
    BY DEF Init, SuccessIsStored, SentAfterStored
  <1> QED
    BY <1>3, <1>4, <1>5, <1>6, <1>7, <1>8 DEF Init, UploadInv, TypeOK, NoLeftovers

\* Every step keeps the invariant.
LEMMA NextFits ==
    ASSUME UploadInv, [Next]_vars
    PROVE  UploadInv'
  <1>1. CASE UNCHANGED vars
    <2>1. UNCHANGED <<client, link, answers, entry, disk, threads, disturbed>>
      BY <1>1 DEF vars
    <2>2. ClientOK' /\ LinkOK' /\ disturbed' \subseteq Uploads /\ UNCHANGED messages
      BY <2>1 DEF UploadInv, TypeOK, ClientOK, LinkOK, client, link
    <2> QED
      BY <2>1, <2>2, QuietStep
  <1>2. ASSUME NEW t \in Threads, HandlerStep(t) PROVE UploadInv'
    BY <1>2, StartStep, FindStep, ReferStep, ReadStep, WriteStep, TakeEntryStep, SaveStep
       DEF HandlerStep
  <1> QED
    BY <1>1, <1>2, SendImage, SendNext, Response, LostAnswers, LinkStep, MergedRead, TakeStep
       DEF Next

\* The invariant always holds, for any uploads, chunks, workers and bad reads.
THEOREM UploadInvariant == Spec => []UploadInv
  <1>1. Init => UploadInv
    BY InitFits
  <1>2. UploadInv /\ [Next]_vars => UploadInv'
    BY NextFits
  <1> QED
    BY <1>1, <1>2, PTL DEF Spec

\* All variables keep their types, and a thread that is free has forgotten what it has handled.
THEOREM UploadTypeCorrect == Spec => []TypeOK
  <1>1. UploadInv => TypeOK
    BY DEF UploadInv
  <1> QED
    BY <1>1, UploadInvariant, PTL

\* An image that the client announces in a chat message is on the server's disk
\* (handleChunkedImageResponse, handleUploadImageResponse, saveImage).
THEOREM AnnouncedIsStored == Spec => []SentAfterStored
  <1>1. UploadInv => SentAfterStored
    BY DEF UploadInv
  <1> QED
    BY <1>1, UploadInvariant, PTL
-----------------------------------------------------------------------------
(* Every chunk goes one way: over the wire, through the pool's queue and a *)
(* thread into the collected data.  What is on the way is looked at as one *)
(* sequence, so that reading a message moves nothing.                      *)

queue == tasks \o wire

\* What the client has sent.
SentMessage(m) ==
    \/ \E u \in Chunked : m = Start(u) \/ m = End(u) \/ \E k \in 1 .. next[u] : m = Chunk(u, k)
    \/ \E u \in Uploads \ Chunked : m = Whole(u)

\* What the main thread saves by hand: some chunk, for the upload that was named first.
ByHand(m) == \E u \in Chunked, x \in disturbed : \E k \in 1 .. next[u] :
    m = [kind |-> "chunk", upload |-> x, data |-> Append(<<Piece(u, k)>>, Junk)]

MessageFits ==
    /\ \A i \in DOMAIN queue : SentMessage(queue[i])
    /\ \A t \in Threads : pc[t] # "free" =>
          IF t = "main" THEN ByHand(job[t]) ELSE SentMessage(job[t])

\* The handler that is at a step works on a message of its kind.
PlaceFits == \A t \in Threads :
    /\ pc[t] = "start" => job[t].kind = "start"
    /\ pc[t] = "find" => job[t].kind \in {"chunk", "end"}
    /\ pc[t] \in {"refer"} \cup References => job[t].kind = "chunk"
    /\ pc[t] = "take" => job[t].kind = "end"
    /\ pc[t] = "save" => job[t].kind \in {"end", "save"}

\* The timer runs for chunked images that are being sent.
ClientFits == \A u \in Uploads :
    /\ timer[u] => u \in Chunked /\ upload[u] # "new"
    /\ upload[u] = "new" => next[u] = 0

SourceInv == MessageFits /\ PlaceFits /\ ClientFits
-----------------------------------------------------------------------------
\* Putting an element at the end of a sequence, and two.
LEMMA Longer ==
    ASSUME NEW S, NEW s \in Seq(S), NEW r \in Seq(S)
    PROVE  /\ s \o r \in Seq(S)
           /\ DOMAIN (s \o r) = 1 .. Len(s) + Len(r)
           /\ \A i \in DOMAIN s : i \in DOMAIN (s \o r) /\ (s \o r)[i] = s[i]
           /\ \A i \in DOMAIN (s \o r) :
                 IF i <= Len(s) THEN i \in DOMAIN s /\ (s \o r)[i] = s[i]
                 ELSE i - Len(s) \in DOMAIN r /\ (s \o r)[i] = r[i - Len(s)]
           /\ \A i \in DOMAIN r :
                 Len(s) + i \in DOMAIN (s \o r) /\ (s \o r)[Len(s) + i] = r[i]
  OBVIOUS

\* The messages that stay when only some are taken away: each was there, in the same order.
Thinned(f) ==
    /\ f \in [DOMAIN queue' -> DOMAIN queue]
    /\ \A i \in DOMAIN queue' : queue'[i] = queue[f[i]]
    /\ \A i, j \in DOMAIN queue' : i < j => f[i] < f[j]

\* The queue is made of the two sequences.
LEMMA QueueFacts ==
    ASSUME LinkOK
    PROVE  /\ tasks \in Seq(Jobs) /\ wire \in Seq(Jobs) /\ queue \in Seq(Jobs)
           /\ DOMAIN queue = 1 .. Len(tasks) + Len(wire)
           /\ Len(queue) = Len(tasks) + Len(wire) /\ Len(tasks) \in Nat /\ Len(wire) \in Nat
           /\ \A i \in DOMAIN tasks : i \in DOMAIN queue /\ queue[i] = tasks[i]
           /\ \A i \in DOMAIN queue :
                 IF i <= Len(tasks) THEN i \in DOMAIN tasks /\ queue[i] = tasks[i]
                 ELSE i - Len(tasks) \in DOMAIN wire /\ queue[i] = wire[i - Len(tasks)]
           /\ \A i \in DOMAIN wire :
                 Len(tasks) + i \in DOMAIN queue /\ queue[Len(tasks) + i] = wire[i]
  BY Longer DEF LinkOK, queue

\* Reading one message moves it from the wire to the tasks.
LEMMA QueueRead ==
    ASSUME LinkOK, handleClientData
    PROVE  queue' = queue
  <1>1. tasks \in Seq(Jobs) /\ wire \in Seq(Jobs) /\ wire # << >>
    BY DEF LinkOK, handleClientData
  <1>2. ASSUME NEW s \in Seq(Jobs), NEW r \in Seq(Jobs), r # << >>
        PROVE  Append(s, Head(r)) \o Tail(r) = s \o r
    <2>1. r = <<Head(r)>> \o Tail(r) /\ Append(s, Head(r)) = s \o <<Head(r)>>
      BY <1>2
    <2> QED
      BY <1>2, <2>1
  <1> QED
    BY <1>1, <1>2 DEF queue, handleClientData

\* A worker takes the first message.
LEMMA QueueTake ==
    ASSUME LinkOK, NEW w \in Workers, Take(w)
    PROVE  /\ 1 \in DOMAIN queue /\ queue[1] = Head(tasks)
           /\ \A i \in DOMAIN queue' :
                 i \in Nat /\ i + 1 \in DOMAIN queue /\ queue'[i] = queue[i + 1]
           /\ \A i \in DOMAIN queue : i = 1 \/ (i - 1 \in DOMAIN queue' /\ queue'[i - 1] = queue[i])
  <1>1. tasks \in Seq(Jobs) /\ wire \in Seq(Jobs) /\ tasks # << >>
    BY DEF LinkOK, Take
  <1>2. tasks' = Tail(tasks) /\ wire' = wire
    BY DEF Take
  <1>3. ASSUME NEW s \in Seq(Jobs), NEW r \in Seq(Jobs), s # << >>
        PROVE  /\ 1 \in DOMAIN (s \o r) /\ (s \o r)[1] = Head(s)
               /\ \A i \in DOMAIN (Tail(s) \o r) :
                    /\ i \in Nat /\ i + 1 \in DOMAIN (s \o r)
                    /\ (Tail(s) \o r)[i] = (s \o r)[i + 1]
               /\ \A i \in DOMAIN (s \o r) :
                    i = 1 \/ (i - 1 \in DOMAIN (Tail(s) \o r) /\ (Tail(s) \o r)[i - 1] = (s \o r)[i])
    BY <1>3
  <1> QED
    BY <1>1, <1>2, <1>3 DEF queue

\* Where a message was before the first n messages of the wire went away.
Skip(n, i) == IF i <= Len(tasks) THEN i ELSE i + n
\* The first n messages of the wire go away, and no others.
LEMMA QueueLoses ==
    ASSUME LinkOK, NEW n \in 1 .. Len(wire), wire' = SubSeq(wire, n + 1, Len(wire)), tasks' = tasks
    PROVE  /\ \A i \in DOMAIN queue' : /\ i \in Nat /\ Skip(n, i) \in DOMAIN queue
                                       /\ queue'[i] = queue[Skip(n, i)]
           /\ \A j \in DOMAIN queue : \/ \E i \in DOMAIN queue' : Skip(n, i) = j
                                      \/ \E k \in 1 .. n : queue[j] = wire[k]
           /\ \A k \in 1 .. n : Len(tasks) + k \in DOMAIN queue /\ queue[Len(tasks) + k] = wire[k]
           /\ \A k \in 1 .. n, i \in DOMAIN queue' : Skip(n, i) # Len(tasks) + k
  <1>1. tasks \in Seq(Jobs) /\ wire \in Seq(Jobs)
    BY DEF LinkOK
  <1> DEFINE r == SubSeq(wire, n + 1, Len(wire))
  <1>2. /\ r \in Seq(Jobs) /\ Len(r) = Len(wire) - n /\ Len(wire) \in Nat /\ Len(tasks) \in Nat
        /\ \A i \in 1 .. Len(r) : r[i] = wire[i + n]
    BY <1>1
  <1>3. wire' = r
    OBVIOUS
  <1> HIDE DEF r
  <1>12. queue' = tasks \o r /\ queue = tasks \o wire
    BY <1>3 DEF queue
  <1>4. DOMAIN queue' = 1 .. Len(tasks) + (Len(wire) - n)
    <2>1. DOMAIN (tasks \o r) = 1 .. Len(tasks) + Len(r)
      BY <1>1, <1>2, Longer
    <2> QED
      BY <1>2, <1>12, <2>1
  <1>5. DOMAIN queue = 1 .. Len(tasks) + Len(wire)
    BY <1>1, <1>12, Longer
  <1>6. \A i \in DOMAIN queue' :
           IF i <= Len(tasks) THEN queue'[i] = tasks[i]
           ELSE i - Len(tasks) \in DOMAIN r /\ queue'[i] = r[i - Len(tasks)]
    BY <1>1, <1>2, <1>12, Longer
  <1>7. \A i \in DOMAIN queue :
           IF i <= Len(tasks) THEN queue[i] = tasks[i]
           ELSE i - Len(tasks) \in DOMAIN wire /\ queue[i] = wire[i - Len(tasks)]
    BY <1>1, <1>12, Longer
  <1>8. ASSUME NEW i \in DOMAIN queue'
        PROVE  i \in Nat /\ Skip(n, i) \in DOMAIN queue /\ queue'[i] = queue[Skip(n, i)]
    <2>1. CASE i <= Len(tasks)
      <3>1. i \in Nat /\ i \in DOMAIN queue
        BY <1>2, <1>4, <1>5
      <3>2. queue'[i] = tasks[i] /\ queue[i] = tasks[i]
        BY <1>6, <1>7, <2>1, <3>1
      <3> QED
        BY <2>1, <3>1, <3>2 DEF Skip
    <2>2. CASE ~(i <= Len(tasks))
      <3>1. i - Len(tasks) \in 1 .. Len(r) /\ i + n \in DOMAIN queue /\ ~(i + n <= Len(tasks))
        BY <1>2, <1>4, <1>5, <2>2
      <3>2. (i - Len(tasks)) + n = (i + n) - Len(tasks)
        BY <1>2, <1>4
      <3>3. queue'[i] = r[i - Len(tasks)] /\ r[i - Len(tasks)] = wire[(i + n) - Len(tasks)]
        BY <1>2, <1>4, <1>6, <2>2, <3>1, <3>2
      <3>4. queue[i + n] = wire[(i + n) - Len(tasks)]
        BY <1>7, <3>1
      <3> QED
        BY <1>4, <2>2, <3>1, <3>3, <3>4 DEF Skip
    <2> QED
      BY <2>1, <2>2
  <1>9. ASSUME NEW j \in DOMAIN queue
        PROVE  \/ \E i \in DOMAIN queue' : Skip(n, i) = j
               \/ \E k \in 1 .. n : queue[j] = wire[k]
    <2>1. CASE j <= Len(tasks)
      BY <1>2, <1>4, <1>5, <2>1 DEF Skip
    <2>2. CASE ~(j <= Len(tasks)) /\ j - Len(tasks) <= n
      <3>1. j - Len(tasks) \in 1 .. n
        BY <1>2, <1>5, <2>2
      <3> QED
        BY <1>7, <2>2, <3>1
    <2>3. CASE ~(j <= Len(tasks)) /\ ~(j - Len(tasks) <= n)
      <3>1. j - n \in DOMAIN queue' /\ ~(j - n <= Len(tasks)) /\ (j - n) + n = j
        BY <1>2, <1>4, <1>5, <2>3
      <3> QED
        BY <3>1 DEF Skip
    <2> QED
      BY <2>1, <2>2, <2>3
  <1>10. \A k \in 1 .. n : Len(tasks) + k \in DOMAIN queue /\ queue[Len(tasks) + k] = wire[k]
    <2> TAKE k \in 1 .. n
    <2>1. /\ Len(tasks) + k \in DOMAIN queue /\ ~(Len(tasks) + k <= Len(tasks))
          /\ (Len(tasks) + k) - Len(tasks) = k
      BY <1>2, <1>5
    <2> QED
      BY <1>7, <2>1
  <1>11. \A k \in 1 .. n, i \in DOMAIN queue' : Skip(n, i) # Len(tasks) + k
    BY <1>2, <1>4 DEF Skip
  <1> QED
    BY <1>8, <1>9, <1>10, <1>11

\* What a read that fails takes away thins the queue.
LEMMA ThinnedByLoss ==
    ASSUME LinkOK, NEW n \in 1 .. Len(wire), wire' = SubSeq(wire, n + 1, Len(wire)), tasks' = tasks
    PROVE  Thinned([i \in DOMAIN queue' |-> Skip(n, i)])
  <1>1. Len(tasks) \in Nat
    BY DEF LinkOK
  <1>2. \A i \in DOMAIN queue' : /\ i \in Nat /\ Skip(n, i) \in DOMAIN queue
                                 /\ queue'[i] = queue[Skip(n, i)]
    BY QueueLoses
  <1>3. \A i, j \in DOMAIN queue' : i < j => Skip(n, i) < Skip(n, j)
    BY <1>1, <1>2 DEF Skip
  <1> QED
    BY <1>2, <1>3 DEF Thinned

\* A worker takes the first message: each place was the next one.
LEMMA ThinnedByTake ==
    ASSUME LinkOK, NEW w \in Workers, Take(w)
    PROVE  Thinned([i \in DOMAIN queue' |-> i + 1])
  BY QueueTake DEF Thinned

\* The connection ends: what is left is the beginning of the queue.
LEMMA ThinnedByDisconnect ==
    ASSUME LinkOK, Disconnect
    PROVE  /\ DOMAIN queue' \subseteq DOMAIN queue
           /\ \A i \in DOMAIN queue' : queue'[i] = queue[i] /\ i \in Nat
           /\ \A i \in DOMAIN queue' : \A j \in 1 .. i - 1 : j \in DOMAIN queue'
           /\ Thinned([i \in DOMAIN queue' |-> i])
  <1>1. tasks \in Seq(Jobs) /\ wire \in Seq(Jobs) /\ tasks' = tasks /\ wire' = << >>
    BY DEF LinkOK, Disconnect
  <1>2. queue' = tasks
    BY <1>1 DEF queue
  <1>3. \A i \in DOMAIN tasks : i \in DOMAIN queue /\ queue[i] = tasks[i] /\ i \in Nat
    BY <1>1 DEF queue
  <1>4. DOMAIN tasks = 1 .. Len(tasks) /\ Len(tasks) \in Nat
    BY <1>1
  <1> QED
    BY <1>2, <1>3, <1>4 DEF Thinned

\* A queue that stays the same is thinned of nothing.
LEMMA ThinnedByNothing ==
    ASSUME LinkOK, queue' = queue
    PROVE  Thinned([i \in DOMAIN queue' |-> i])
  BY DEF Thinned
-----------------------------------------------------------------------------
\* What the client has sent stays sent, what was saved by hand stays so.
LEMMA SentStays ==
    ASSUME ClientOK, ClientOK', \A u \in Uploads : next[u] <= next'[u], NEW m, SentMessage(m)
    PROVE  SentMessage(m)'
  <1>1. Chunked \subseteq Uploads /\ \A u \in Uploads : next[u] \in Nat /\ next'[u] \in Nat
    BY ImageUploadAssumption DEF ClientOK
  <1>2. \A u \in Chunked : \A k \in 1 .. next[u] : k \in 1 .. next'[u]
    BY <1>1
  <1> QED
    BY <1>2 DEF SentMessage

\* What is saved by hand stays a chunk that was sent, for an upload that is disturbed.
LEMMA ByHandStays ==
    ASSUME ClientOK, ClientOK', \A u \in Uploads : next[u] <= next'[u],
           disturbed \subseteq disturbed', NEW m, ByHand(m)
    PROVE  ByHand(m)'
  <1>1. Chunked \subseteq Uploads /\ \A u \in Uploads : next[u] \in Nat /\ next'[u] \in Nat
    BY ImageUploadAssumption DEF ClientOK
  <1>2. \A u \in Chunked : \A k \in 1 .. next[u] : k \in 1 .. next'[u]
    BY <1>1
  <1> QED
    BY <1>2 DEF ByHand

\* The messages that stay in a thinned queue were sent.
LEMMA ThinnedFits ==
    ASSUME MessageFits, NEW f, Thinned(f), \A m : SentMessage(m) => SentMessage(m)'
    PROVE  \A i \in DOMAIN queue' : SentMessage(queue[i])'
  <1> TAKE i \in DOMAIN queue'
  <1>1. f[i] \in DOMAIN queue /\ queue'[i] = queue[f[i]]
    BY DEF Thinned
  <1>2. SentMessage(queue[f[i]])
    BY <1>1 DEF MessageFits
  <1>3. ASSUME NEW m, m = queue'[i], SentMessage(m)' PROVE SentMessage(queue[i])'
    BY <1>3
  <1> QED
    BY <1>1, <1>2, <1>3

\* What threads work on stays what it was.
LEMMA ThreadMessagesFit ==
    ASSUME MessageFits, NEW T \in SUBSET Threads,
           \A t \in T : pc'[t] # "free" => pc[t] # "free" /\ job'[t] = job[t],
           \A m : SentMessage(m) => SentMessage(m)', \A m : ByHand(m) => ByHand(m)'
    PROVE  \A t \in T : pc'[t] # "free" =>
              IF t = "main" THEN ByHand(job[t])' ELSE SentMessage(job[t])'
  <1> TAKE t \in T
  <1> HAVE pc'[t] # "free"
  <1>1. job'[t] = job[t] /\ IF t = "main" THEN ByHand(job[t]) ELSE SentMessage(job[t])
    BY DEF MessageFits
  <1>2. ASSUME NEW m, m = job'[t] PROVE (SentMessage(m)' => SentMessage(job[t])')
                                        /\ (ByHand(m)' => ByHand(job[t])')
    BY <1>2
  <1> QED
    BY <1>1, <1>2

\* A chunk is counted before it is sent; what is disturbed stays so.
LEMMA SentGrows ==
    ASSUME UploadInv, ClientFits, [Next]_vars
    PROVE  /\ \A u \in Uploads : next[u] <= next'[u]
           /\ disturbed \subseteq disturbed'
           /\ \A m : SentMessage(m) => SentMessage(m)'
           /\ \A m : ByHand(m) => ByHand(m)'
  <1>1. ClientOK /\ ClientOK' /\ UploadInv'
    BY NextFits DEF UploadInv, TypeOK
  <1>2. \A u \in Uploads : next[u] \in 0 .. Chunks /\ Chunks \in Nat
    BY <1>1, ImageUploadAssumption DEF ClientOK
  <1>3. (\A u \in Uploads : next[u] <= next'[u]) /\ disturbed \subseteq disturbed'
    <2>1. CASE next' = next /\ disturbed \subseteq disturbed'
      BY <1>2, <2>1
    <2>2. ASSUME NEW u \in Uploads, sendImageMessage(u) PROVE <1>3!1 /\ <1>3!2
      BY <1>1, <1>2, <2>2 DEF ClientOK, ClientFits, sendImageMessage
    <2>3. ASSUME NEW u \in Uploads, sendNextImageChunk(u) PROVE <1>3!1 /\ <1>3!2
      BY <1>1, <1>2, <2>3 DEF ClientOK, sendNextImageChunk
    <2> QED
      BY <2>1, <2>2, <2>3
      DEF Next, vars, client, handleResponse, LoseAnswers, Disconnect, handleClientData, ReadTorn,
          ReadMerged, Take, Begin, HandlerStep, handleChunkedImageStart, Find, Refer, ReadData,
          WriteData, ReadCount, WriteCount, TakeEntry, saveImage
  <1> QED
    BY <1>1, <1>3, SentStays, ByHandStays

\* A step of a handler leaves the client, the queue and the other threads alone; it keeps its job or
\* is free.
LEMMA HandlerLeaves ==
    ASSUME UploadInv, NEW t \in Threads, HandlerStep(t)
    PROVE  /\ UNCHANGED <<client, link, disturbed>> /\ queue' = queue
           /\ pc[t] # "free" /\ (pc'[t] = "free" \/ job'[t] = job[t])
           /\ \A s \in Threads : s # t =>
                 pc'[s] = pc[s] /\ job'[s] = job[s] /\ data'[s] = data[s] /\ count'[s] = count[s]
  <1>1. ThreadsOK
    BY DEF UploadInv, TypeOK
  <1>2. UNCHANGED <<client, link, disturbed>> /\ queue' = queue
    BY DEF HandlerStep, handleChunkedImageStart, Find, Refer, ReadData, WriteData, ReadCount,
       WriteCount, TakeEntry, saveImage, link, queue
  <1>3. /\ pc[t] # "free" /\ (pc'[t] = "free" \/ job'[t] = job[t])
        /\ \A s \in Threads : s # t => pc'[s] = pc[s] /\ job'[s] = job[s]
    BY <1>1 DEF HandlerStep, handleChunkedImageStart, Find, Refer, ReadData, WriteData, ReadCount,
       WriteCount, TakeEntry, saveImage, Return, Goto, ThreadsOK
  <1>4. \A s \in Threads : s # t => data'[s] = data[s] /\ count'[s] = count[s]
    BY <1>1 DEF HandlerStep, handleChunkedImageStart, Find, Refer, ReadData, WriteData, ReadCount,
       WriteCount, TakeEntry, saveImage, Return, Goto, ThreadsOK
  <1> QED
    BY <1>2, <1>3, <1>4

\* Where a handler goes from each of its places.
LEMMA HandlerPlaces ==
    ASSUME UploadInv, PlaceFits, NEW t \in Threads, HandlerStep(t)
    PROVE  PlaceFits'
  <1>1. ThreadsOK
    BY DEF UploadInv, TypeOK
  <1>2. \/ pc'[t] = "free"
        \/ pc[t] = "find" /\ pc'[t] = IF job[t].kind = "end" THEN "take" ELSE "refer"
        \/ pc[t] = "take" /\ pc'[t] = "save"
        \/ pc[t] \in {"refer"} \cup References /\ pc'[t] \in References
    BY <1>1 DEF HandlerStep, handleChunkedImageStart, Find, Refer, ReadData, WriteData, ReadCount,
       WriteCount, TakeEntry, saveImage, Return, Goto, ThreadsOK, References
  <1>3. /\ pc'[t] = "free" \/ job'[t] = job[t]
        /\ \A s \in Threads : s # t => pc'[s] = pc[s] /\ job'[s] = job[s]
    BY HandlerLeaves
  <1> QED
    BY <1>2, <1>3 DEF PlaceFits, References

\* What is in a message that was sent.
LEMMA SentKinds ==
    ASSUME NEW m, SentMessage(m)
    PROVE  /\ m.kind \in {"start", "chunk", "end", "save"} /\ m.upload \in Uploads
           /\ m.kind = "start" => m.upload \in Chunked /\ m = Start(m.upload)
           /\ m.kind = "end" => m.upload \in Chunked /\ m = End(m.upload)
           /\ m.kind = "save" => m.upload \notin Chunked /\ m = Whole(m.upload)
           /\ m.kind = "chunk" => /\ m.upload \in Chunked
                                  /\ \E k \in 1 .. next[m.upload] : m = Chunk(m.upload, k)
           /\ m.upload \in Chunked => m.kind # "save"
  BY ImageUploadAssumption DEF SentMessage, Start, End, Chunk, Whole

\* What the client adds to the queue: messages of one upload, at most one of them a chunk, the next.
Added(u, ms) ==
    /\ queue' = queue \o ms
    /\ \A i \in DOMAIN ms :
          /\ SentMessage(ms[i])' /\ ms[i].upload = u
          /\ ms[i].kind = "chunk" => /\ u \in Chunked
                                     /\ ms[i] = Chunk(u, next[u] + 1) /\ next'[u] = next[u] + 1
    /\ \A i, j \in DOMAIN ms : ms[i].kind = "chunk" /\ ms[j].kind = "chunk" => i = j

\* What is put at the end of the wire is put at the end of the queue.
LEMMA QueueGrows ==
    ASSUME LinkOK, NEW ms \in Seq(Jobs), wire' = wire \o ms, tasks' = tasks
    PROVE  queue' = queue \o ms
  <1>1. ASSUME NEW s \in Seq(Jobs), NEW r \in Seq(Jobs) PROVE s \o (r \o ms) = (s \o r) \o ms
    OBVIOUS
  <1> QED
    BY <1>1 DEF LinkOK, queue

\* Each step of the client that sends something adds such messages.
LEMMA ClientAdds ==
    ASSUME UploadInv, ClientFits, NEW u \in Uploads, sendImageMessage(u) \/ sendNextImageChunk(u)
    PROVE  \E ms \in Seq(Jobs) : wire' = wire \o ms /\ Added(u, ms)
  <1>1. LinkOK /\ ClientOK /\ wire \in Seq(Jobs) /\ tasks' = tasks /\ UploadInv'
    BY NextFits DEF UploadInv, TypeOK, LinkOK, sendImageMessage, sendNextImageChunk, Next
  <1>2. next \in [Uploads -> 0 .. Chunks] /\ next' \in [Uploads -> 0 .. Chunks] /\ Chunks \in Nat \ {0}
    BY <1>1, ImageUploadAssumption DEF ClientOK, UploadInv, TypeOK
  <1>3. ASSUME NEW ms \in Seq(Jobs), wire' = wire \o ms,
               \A i \in DOMAIN ms : /\ SentMessage(ms[i])' /\ ms[i].upload = u
                                    /\ ms[i].kind = "chunk" =>
                                         /\ u \in Chunked /\ ms[i] = Chunk(u, next[u] + 1)
                                         /\ next'[u] = next[u] + 1,
               \A i, j \in DOMAIN ms : ms[i].kind = "chunk" /\ ms[j].kind = "chunk" => i = j
        PROVE  \E xs \in Seq(Jobs) : wire' = wire \o xs /\ Added(u, xs)
    <2>1. Added(u, ms)
      BY <1>1, <1>3, QueueGrows DEF Added
    <2> QED
      BY <1>3, <2>1
  <1>4. CASE sendImageMessage(u) /\ u \in Chunked
    <2> DEFINE ms == <<Start(u), Chunk(u, 1)>>
    <2>1. wire' = wire \o ms /\ next[u] = 0 /\ next'[u] = 1
      BY <1>2, <1>4 DEF sendImageMessage, ClientFits
    <2>2. ms \in Seq(Jobs) /\ DOMAIN ms = {1, 2} /\ ms[1] = Start(u) /\ ms[2] = Chunk(u, 1)
      <3>1. Start(u) \in Jobs /\ Chunk(u, 1) \in Jobs
        BY <1>2, MessageTypes
      <3> QED
        BY <3>1
    <2>3. ASSUME NEW m, m = Start(u) \/ m = Chunk(u, 1) PROVE SentMessage(m)'
      BY <1>4, <2>1, <2>3 DEF SentMessage
    <2>4. next'[u] = next[u] + 1 /\ next[u] + 1 = 1
      BY <2>1
    <2>5. ms[1].kind = "start" /\ ms[1].upload = u /\ ms[2].kind = "chunk" /\ ms[2].upload = u
      BY <2>2 DEF Start, Chunk
    <2> HIDE DEF ms
    <2> QED
      BY <1>3, <1>4, <2>1, <2>2, <2>3, <2>4, <2>5
  <1>5. CASE sendImageMessage(u) /\ u \notin Chunked
    <2> DEFINE ms == <<Whole(u)>>
    <2>1. wire' = Append(wire, Whole(u)) /\ Whole(u) \in Jobs
      BY <1>5, MessageTypes DEF sendImageMessage
    <2>2. ms \in Seq(Jobs) /\ DOMAIN ms = {1} /\ ms[1] = Whole(u) /\ wire' = wire \o ms
      BY <1>1, <2>1
    <2>3. ASSUME NEW m, m = Whole(u) PROVE SentMessage(m)'
      BY <1>5, <2>3 DEF SentMessage
    <2>4. Whole(u).kind = "save" /\ Whole(u).upload = u
      BY DEF Whole
    <2> HIDE DEF ms
    <2> QED
      BY <1>3, <2>2, <2>3, <2>4
  <1>6. CASE sendNextImageChunk(u) /\ wire' = wire
    <2>1. << >> \in Seq(Jobs) /\ DOMAIN << >> = {} /\ wire' = wire \o << >>
      BY <1>1, <1>6
    <2> QED
      BY <1>3, <2>1
  <1>7. CASE /\ sendNextImageChunk(u) /\ next[u] < Chunks /\ next'[u] = next[u] + 1
             /\ wire' = Append(wire, Chunk(u, next[u] + 1))
    <2> DEFINE ms == <<Chunk(u, next[u] + 1)>>
    <2>1. u \in Chunked /\ next[u] + 1 \in 1 .. Chunks
      BY <1>2, <1>7 DEF sendNextImageChunk, ClientFits
    <2>2. ms \in Seq(Jobs) /\ DOMAIN ms = {1} /\ ms[1] = Chunk(u, next[u] + 1) /\ wire' = wire \o ms
      <3>1. Chunk(u, next[u] + 1) \in Jobs
        BY <2>1, MessageTypes
      <3> QED
        BY <1>1, <1>7, <3>1
    <2>3. ASSUME NEW m, m = Chunk(u, next[u] + 1) PROVE SentMessage(m)'
      BY <1>7, <2>1, <2>3 DEF SentMessage
    <2>4. Chunk(u, next[u] + 1).upload = u
      BY DEF Chunk
    <2> HIDE DEF ms
    <2> QED
      BY <1>3, <1>7, <2>1, <2>2, <2>3, <2>4
  <1>8. CASE sendNextImageChunk(u) /\ wire' = Append(wire, End(u))
    <2> DEFINE ms == <<End(u)>>
    <2>1. End(u) \in Jobs /\ u \in Chunked
      BY <1>8, MessageTypes DEF sendNextImageChunk, ClientFits
    <2>2. ms \in Seq(Jobs) /\ DOMAIN ms = {1} /\ ms[1] = End(u) /\ wire' = wire \o ms
      BY <1>1, <1>8, <2>1
    <2>3. ASSUME NEW m, m = End(u) PROVE SentMessage(m)'
      BY <2>1, <2>3 DEF SentMessage
    <2>4. End(u).kind = "end" /\ End(u).upload = u
      BY DEF End
    <2> HIDE DEF ms
    <2> QED
      BY <1>3, <2>2, <2>3, <2>4
  <1>9. sendNextImageChunk(u) =>
           \/ wire' = wire
           \/ /\ next[u] < Chunks /\ next'[u] = next[u] + 1
              /\ wire' = Append(wire, Chunk(u, next[u] + 1))
           \/ wire' = Append(wire, End(u))
    BY <1>2 DEF sendNextImageChunk
  <1> QED
    BY <1>4, <1>5, <1>6, <1>7, <1>8, <1>9

\* A job that a worker takes is the first of the queue, and goes to the place of its kind.
LEMMA TakesFirst ==
    ASSUME UploadInv, MessageFits, NEW w \in Workers, Take(w)
    PROVE  /\ pc[w] = "free" /\ w \in Threads /\ w # "main"
           /\ job' = [job EXCEPT ![w] = queue[1]] /\ 1 \in DOMAIN queue /\ SentMessage(queue[1])
           /\ \E place \in {"start", "save", "find"} :
                 /\ pc' = [pc EXCEPT ![w] = place]
                 /\ place = "start" => queue[1].kind = "start"
                 /\ place = "save" => queue[1].kind = "save"
                 /\ place = "find" => queue[1].kind \in {"chunk", "end"}
                 /\ queue[1].kind = "chunk" => place = "find"
                 /\ queue[1].kind = "start" => place = "start"
                 /\ queue[1].kind = "end" => place = "find"
           /\ UNCHANGED <<client, connected, answers, entry, disk, data, count, lost>>
  <1> DEFINE m == Head(tasks)
             place == CASE m.kind = "start" -> "start"
                        [] m.kind = "save" -> "save"
                        [] OTHER -> "find"
  <1>1. 1 \in DOMAIN queue /\ queue[1] = m
    BY QueueTake DEF UploadInv, TypeOK
  <1>2. SentMessage(queue[1])
    BY <1>1 DEF MessageFits
  <1>3. Begin(w, m, place)
    BY DEF Take
  <1>4. m.kind \in {"start", "chunk", "end", "save"}
    <2>1. ASSUME NEW x, x = queue[1] PROVE x.kind \in {"start", "chunk", "end", "save"}
      BY <1>2, <2>1, SentKinds
    <2> QED
      BY <1>1, <2>1
  <1> HIDE DEF m
  <1>5. UNCHANGED <<client, connected, answers, entry, disk, data, count, lost>>
    BY <1>3 DEF Take, Begin
  <1> QED
    BY <1>1, <1>2, <1>3, <1>4, <1>5, ImageUploadAssumption DEF Begin, Take, Threads

\* What the main thread saves by hand is a chunk that was sent.
LEMMA SavesByHand ==
    ASSUME UploadInv, MessageFits, NEW n \in 1 .. Len(wire), ReadMerged(n)
    PROVE  \/ UNCHANGED threads
           \/ \E i \in 1 .. n, u \in Chunked : \E k \in 1 .. next[u] :
                 /\ wire[i] = Chunk(u, k)
                 /\ job' = [job EXCEPT !["main"] =
                               [kind |-> "chunk", upload |-> Head(wire).upload,
                                data |-> Append(<<Piece(u, k)>>, Junk)]]
                 /\ Head(wire).upload \in disturbed'
                 /\ pc' = [pc EXCEPT !["main"] = "find"] /\ UNCHANGED <<data, count, lost>>
  <1> SUFFICES ASSUME ~UNCHANGED threads
               PROVE  \E i \in 1 .. n, u \in Chunked : \E k \in 1 .. next[u] :
                         /\ wire[i] = Chunk(u, k)
                         /\ job' = [job EXCEPT !["main"] =
                                       [kind |-> "chunk", upload |-> Head(wire).upload,
                                        data |-> Append(<<Piece(u, k)>>, Junk)]]
                         /\ Head(wire).upload \in disturbed'
                         /\ pc' = [pc EXCEPT !["main"] = "find"] /\ UNCHANGED <<data, count, lost>>
    OBVIOUS
  <1>1. LinkOK /\ wire \in Seq(Jobs)
    BY DEF UploadInv, TypeOK, LinkOK
  <1>2. PICK i \in 1 .. n :
          /\ wire[i].kind = "chunk"
          /\ job' = [job EXCEPT !["main"] = [kind |-> "chunk", upload |-> Head(wire).upload,
                                             data |-> Append(wire[i].data, Junk)]]
    BY DEF ReadMerged
  <1>3. \A j \in 1 .. n : SentMessage(wire[j])
    <2> TAKE j \in 1 .. n
    <2>1. Len(tasks) + j \in DOMAIN queue /\ queue[Len(tasks) + j] = wire[j]
      BY <1>1, QueueFacts
    <2>2. SentMessage(queue[Len(tasks) + j])
      BY <2>1 DEF MessageFits
    <2> QED
      BY <2>1, <2>2
  <1>4. PICK u \in Chunked : \E k \in 1 .. next[u] : wire[i] = Chunk(u, k)
    BY <1>2, <1>3, SentKinds
  <1>5. PICK k \in 1 .. next[u] : wire[i] = Chunk(u, k)
    BY <1>4
  <1>6. Append(wire[i].data, Junk) = Append(<<Piece(u, k)>>, Junk)
    <2>1. wire[i].data = <<Piece(u, k)>>
      BY <1>5 DEF Chunk
    <2> QED
      BY <2>1
  <1>7. Head(wire).upload \in disturbed'
    <2>1. Head(wire) = wire[1] /\ 1 \in 1 .. n
      BY <1>1
    <2> QED
      BY <2>1 DEF ReadMerged
  <1>8. pc' = [pc EXCEPT !["main"] = "find"] /\ UNCHANGED <<data, count, lost>>
    BY DEF ReadMerged
  <1> QED
    BY <1>2, <1>5, <1>6, <1>7, <1>8

\* Which steps leave the threads alone and only take messages away.
LEMMA OutsideThins ==
    ASSUME UploadInv,
           \/ handleResponse \/ LoseAnswers \/ Disconnect \/ handleClientData \/ ReadTorn
           \/ UNCHANGED vars
    PROVE  /\ \E f : Thinned(f)
           /\ UNCHANGED <<next, timer, entry, disk, threads>>
           /\ \A u \in Uploads : upload'[u] = upload[u] \/ upload'[u] = "gone"
  <1>1. LinkOK /\ ClientOK
    BY DEF UploadInv, TypeOK
  <1>2. CASE handleResponse \/ LoseAnswers \/ handleClientData \/ UNCHANGED vars
    <2>1. queue' = queue
      <3>1. CASE handleClientData
        BY <1>1, <3>1, QueueRead
      <3>2. CASE handleResponse \/ LoseAnswers \/ UNCHANGED vars
        BY <3>2 DEF handleResponse, LoseAnswers, vars, link, queue
      <3> QED
        BY <1>2, <3>1, <3>2
    <2> QED
      BY <1>1, <1>2, <2>1, ThinnedByNothing
      DEF handleResponse, LoseAnswers, handleClientData, vars, client, ClientOK
  <1>3. CASE Disconnect
    BY <1>1, <1>3, ThinnedByDisconnect DEF Disconnect, client
  <1>4. CASE ReadTorn
    <2>1. wire \in Seq(Jobs) /\ wire # << >> /\ wire' = Tail(wire) /\ tasks' = tasks
      BY <1>1, <1>4 DEF LinkOK, ReadTorn
    <2>2. 1 \in 1 .. Len(wire) /\ wire' = SubSeq(wire, 1 + 1, Len(wire))
      BY <2>1
    <2>3. \E f : Thinned(f)
      BY <1>1, <2>1, <2>2, ThinnedByLoss
    <2> QED
      BY <1>4, <2>3 DEF ReadTorn, client
  <1> QED
    BY <1>2, <1>3, <1>4

\* Every step keeps the messages, the places and the client in their shape.
LEMMA SourceKept ==
    ASSUME UploadInv, SourceInv, [Next]_vars
    PROVE  SourceInv'
  <1> DEFINE ThreadsFit == \A t \in Threads : pc'[t] # "free" =>
                 IF t = "main" THEN ByHand(job[t])' ELSE SentMessage(job[t])'
             QueueFits == \A i \in DOMAIN queue' : SentMessage(queue[i])'
  <1>1. /\ \A m : SentMessage(m) => SentMessage(m)'
        /\ \A m : ByHand(m) => ByHand(m)'
        /\ MessageFits /\ PlaceFits /\ ClientFits /\ LinkOK /\ ClientOK /\ ThreadsOK
    BY SentGrows DEF SourceInv, UploadInv, TypeOK
  <1>2. QueueFits /\ ThreadsFit => MessageFits'
    BY DEF MessageFits
  <1>3. threads' = threads => ThreadsFit /\ PlaceFits'
    <2>1. ASSUME threads' = threads PROVE ThreadsFit
      BY <1>1, <2>1, ThreadMessagesFit DEF threads
    <2> QED
      BY <1>1, <2>1 DEF threads, PlaceFits
  <1>4. ASSUME NEW f, Thinned(f) PROVE QueueFits
    BY <1>1, <1>4, ThinnedFits
  <1> HIDE DEF ThreadsFit, QueueFits
  <1>5. CASE \/ handleResponse \/ LoseAnswers \/ Disconnect \/ handleClientData \/ ReadTorn
             \/ UNCHANGED vars
    <2>1. /\ \E f : Thinned(f)
          /\ UNCHANGED <<next, timer, threads>>
          /\ \A u \in Uploads : upload'[u] = upload[u] \/ upload'[u] = "gone"
      BY <1>5, OutsideThins
    <2>2. ClientFits'
      BY <1>1, <2>1 DEF ClientFits
    <2> QED
      BY <1>2, <1>3, <1>4, <2>1, <2>2 DEF SourceInv
  <1>6. ASSUME NEW u \in Uploads, sendImageMessage(u) \/ sendNextImageChunk(u) PROVE SourceInv'
    <2>1. PICK ms \in Seq(Jobs) : Added(u, ms)
      BY <1>1, <1>6, ClientAdds
    <2>2. QueueFits
      <3>1. ASSUME NEW i \in DOMAIN queue' PROVE SentMessage(queue[i])'
        <4>1. queue \in Seq(Jobs) /\ queue' = queue \o ms
          BY <1>1, <2>1, QueueFacts DEF Added
        <4>2. CASE i <= Len(queue)
          <5>1. i \in DOMAIN queue /\ queue'[i] = queue[i]
            BY <4>1, <4>2, Longer
          <5>2. ASSUME NEW m, m = queue'[i], SentMessage(m)' PROVE SentMessage(queue[i])'
            BY <5>2
          <5> QED
            BY <1>1, <5>1, <5>2 DEF MessageFits
        <4>3. CASE ~(i <= Len(queue))
          <5>1. i - Len(queue) \in DOMAIN ms /\ queue'[i] = ms[i - Len(queue)]
            BY <4>1, <4>3, Longer
          <5>2. ASSUME NEW j \in DOMAIN ms, queue'[i] = ms[j] PROVE SentMessage(queue[i])'
            <6>1. SentMessage(ms[j])'
              BY <2>1 DEF Added
            <6> QED
              BY <5>2, <6>1
          <5> QED
            BY <5>1, <5>2
        <4> QED
          BY <4>2, <4>3
      <3> QED
        BY <3>1 DEF QueueFits
    <2>3. threads' = threads
      BY <1>6 DEF sendImageMessage, sendNextImageChunk
    <2>4. ClientFits'
      BY <1>1, <1>6 DEF ClientOK, ClientFits, sendImageMessage, sendNextImageChunk
    <2> QED
      BY <1>2, <1>3, <2>2, <2>3, <2>4 DEF SourceInv
  <1>7. ASSUME NEW n \in 1 .. Len(wire), ReadMerged(n) PROVE SourceInv'
    <2>1. wire' = SubSeq(wire, n + 1, Len(wire)) /\ tasks' = tasks /\ UNCHANGED client
      BY <1>7 DEF ReadMerged
    <2>2. QueueFits
      BY <1>1, <1>4, <2>1, ThinnedByLoss
    <2>3. ClientFits'
      BY <1>1, <2>1 DEF client, ClientFits
    <2>4. CASE UNCHANGED threads
      BY <1>2, <1>3, <2>2, <2>3, <2>4 DEF SourceInv
    <2>5. CASE ~UNCHANGED threads
      <3>1. PICK u \in Chunked : \E k \in 1 .. next[u] :
                 /\ job' = [job EXCEPT !["main"] =
                               [kind |-> "chunk", upload |-> Head(wire).upload,
                                data |-> Append(<<Piece(u, k)>>, Junk)]]
                 /\ Head(wire).upload \in disturbed'
                 /\ pc' = [pc EXCEPT !["main"] = "find"]
        BY <1>1, <1>7, <2>5, SavesByHand
      <3>2. PICK k \in 1 .. next[u] :
                 /\ job' = [job EXCEPT !["main"] =
                               [kind |-> "chunk", upload |-> Head(wire).upload,
                                data |-> Append(<<Piece(u, k)>>, Junk)]]
                 /\ Head(wire).upload \in disturbed'
                 /\ pc' = [pc EXCEPT !["main"] = "find"]
        BY <3>1
      <3> DEFINE m == [kind |-> "chunk", upload |-> Head(wire).upload,
                       data |-> Append(<<Piece(u, k)>>, Junk)]
      <3>3. ASSUME NEW x, x = m PROVE ByHand(x)' /\ x.kind = "chunk"
        BY <2>1, <3>2, <3>3 DEF ByHand, client
      <3>4. job'["main"] = m /\ "main" \in Threads /\ pc'["main"] = "find" /\ pc["main"] = "free"
        BY <1>1, <1>7, <3>2 DEF ThreadsOK, Threads, ReadMerged
      <3>5. \A t \in Threads \ {"main"} : pc'[t] = pc[t] /\ job'[t] = job[t]
        BY <1>1, <3>2 DEF ThreadsOK
      <3> HIDE DEF m
      <3>6. ThreadsFit
        <4>1. \A t \in Threads \ {"main"} : pc'[t] # "free" =>
                 IF t = "main" THEN ByHand(job[t])' ELSE SentMessage(job[t])'
          BY <1>1, <3>5, ThreadMessagesFit
        <4>2. ByHand(job["main"])'
          <5>1. ASSUME NEW x, x = job'["main"], ByHand(x)' PROVE ByHand(job["main"])'
            BY <5>1
          <5> QED
            BY <3>3, <3>4, <5>1
        <4> QED
          BY <4>1, <4>2 DEF ThreadsFit
      <3>7. PlaceFits'
        BY <1>1, <3>3, <3>4, <3>5 DEF PlaceFits, References
      <3> QED
        BY <1>2, <2>2, <2>3, <3>6, <3>7 DEF SourceInv
    <2> QED
      BY <2>4, <2>5
  <1>8. ASSUME NEW w \in Workers, Take(w) PROVE SourceInv'
    <2>1. QueueFits
      BY <1>1, <1>4, <1>8, ThinnedByTake
    <2>2. /\ w \in Threads /\ w # "main" /\ UNCHANGED client
          /\ job' = [job EXCEPT ![w] = queue[1]] /\ SentMessage(queue[1])
      BY <1>1, <1>8, TakesFirst
    <2>3. PICK place \in {"start", "save", "find"} :
             /\ pc' = [pc EXCEPT ![w] = place]
             /\ place = "start" => queue[1].kind = "start"
             /\ place = "save" => queue[1].kind = "save"
             /\ place = "find" => queue[1].kind \in {"chunk", "end"}
      BY <1>1, <1>8, TakesFirst
    <2>4. job'[w] = queue[1] /\ pc'[w] = place
          /\ \A t \in Threads \ {w} : pc'[t] = pc[t] /\ job'[t] = job[t]
      BY <1>1, <2>2, <2>3 DEF ThreadsOK
    <2>5. ThreadsFit
      <3>1. \A t \in Threads \ {w} : pc'[t] # "free" =>
               IF t = "main" THEN ByHand(job[t])' ELSE SentMessage(job[t])'
        BY <1>1, <2>4, ThreadMessagesFit
      <3>2. SentMessage(job[w])'
        <4>1. ASSUME NEW m, m = job'[w], SentMessage(m)' PROVE SentMessage(job[w])'
          BY <4>1
        <4> QED
          BY <1>1, <2>2, <2>4, <4>1
      <3> QED
        BY <2>2, <3>1, <3>2 DEF ThreadsFit
    <2>6. PlaceFits'
      BY <1>1, <2>3, <2>4 DEF PlaceFits, References
    <2>7. ClientFits'
      BY <1>1, <2>2 DEF client, ClientFits
    <2> QED
      BY <1>2, <2>1, <2>5, <2>6, <2>7 DEF SourceInv
  <1>9. ASSUME NEW t \in Threads, HandlerStep(t) PROVE SourceInv'
    <2>1. /\ UNCHANGED <<client, link, disturbed>> /\ queue' = queue
          /\ pc[t] # "free" /\ (pc'[t] = "free" \/ job'[t] = job[t])
          /\ \A s \in Threads : s # t => pc'[s] = pc[s] /\ job'[s] = job[s]
      BY <1>9, HandlerLeaves
    <2>2. ThreadsFit
      BY <1>1, <2>1, ThreadMessagesFit DEF ThreadsFit
    <2>3. QueueFits
      BY <1>1, <1>4, <2>1, ThinnedByNothing
    <2>4. PlaceFits'
      BY <1>1, <1>9, HandlerPlaces
    <2>5. ClientFits'
      BY <1>1, <2>1 DEF client, ClientFits
    <2> QED
      BY <1>2, <2>2, <2>3, <2>4, <2>5 DEF SourceInv
  <1> QED
    BY <1>5, <1>6, <1>7, <1>8, <1>9 DEF Next
-----------------------------------------------------------------------------
(* A piece is in one place only: in a message on its way, with a thread    *)
(* that has not yet written it, or in what has been collected.             *)
First(m) == m.data[1]
Same(m, n) == m.kind = "chunk" /\ n.kind = "chunk" /\ First(m) = First(n)
Early(t) == pc[t] \in {"find", "refer", "append", "write"}
Has(d, p) == \E i \in DOMAIN d : d[i] = p

Collected == {entry[u].data : u \in DOMAIN entry} \cup {data[t] : t \in Threads}
             \cup {disk[u] : u \in DOMAIN disk}
Clear(m) == m.kind = "chunk" => \A d \in Collected : ~Has(d, First(m))

SentOnce ==
    /\ \A i, j \in DOMAIN queue : Same(queue[i], queue[j]) => i = j
    /\ \A t \in Threads : Early(t) =>
          /\ \A i \in DOMAIN queue : ~Same(queue[i], job[t])
          /\ \A s \in Threads : Early(s) /\ Same(job[s], job[t]) => s = t
NotCollected ==
    /\ \A i \in DOMAIN queue : Clear(queue[i])
    /\ \A t \in Threads : Early(t) => Clear(job[t])

\* What has been collected has been sent, and each piece of it once.
Known(p) == p.of \in Chunked => p.at <= next[p.of]
CollectedFits == \A d \in Collected : Distinct(d) /\ \A i \in DOMAIN d : Known(d[i])

OnceInv == SentOnce /\ NotCollected /\ CollectedFits

\* What is collected is made of pieces.
LEMMA CollectedTypes ==
    ASSUME UploadInv, NEW d \in Collected
    PROVE  d \in Seq(Pieces) /\ \A i \in DOMAIN d : d[i] \in Pieces /\ d[i].at \in Nat
  <1>1. d \in Seq(Pieces)
    BY DEF UploadInv, TypeOK, StoreOK, ThreadsOK, Entries, Collected
  <1>2. \A p \in Pieces : p.at \in Nat
    BY ImageUploadAssumption DEF Pieces, Junk
  <1> QED
    BY <1>1, <1>2

\* A chunk message brings a piece that was sent.
LEMMA ChunkBrings ==
    ASSUME NEW m, SentMessage(m) \/ ByHand(m), m.kind = "chunk"
    PROVE  \E u \in Chunked : \E k \in 1 .. next[u] :
              /\ First(m) = Piece(u, k)
              /\ m.data = <<Piece(u, k)>> \/ m.data = Append(<<Piece(u, k)>>, Junk)
  <1>1. CASE SentMessage(m)
    <2>1. PICK u \in Chunked : \E k \in 1 .. next[u] : m = Chunk(u, k)
      BY <1>1, SentKinds
    <2> QED
      BY <2>1 DEF Chunk, First
  <1>2. CASE ByHand(m)
    <2>1. PICK u \in Chunked : \E k \in 1 .. next[u] : m.data = Append(<<Piece(u, k)>>, Junk)
      BY <1>2 DEF ByHand
    <2>2. PICK k \in 1 .. next[u] : m.data = Append(<<Piece(u, k)>>, Junk)
      BY <2>1
    <2>3. Append(<<Piece(u, k)>>, Junk)[1] = Piece(u, k)
      OBVIOUS
    <2> QED
      BY <2>2, <2>3 DEF First
  <1> QED
    BY <1>1, <1>2

\* So does the chunk that a thread works on,
LEMMA JobBrings ==
    ASSUME MessageFits, NEW t \in Threads, pc[t] # "free", job[t].kind = "chunk"
    PROVE  \E u \in Chunked : \E k \in 1 .. next[u] :
              /\ First(job[t]) = Piece(u, k)
              /\ job[t].data = <<Piece(u, k)>> \/ job[t].data = Append(<<Piece(u, k)>>, Junk)
  <1>1. SentMessage(job[t]) \/ ByHand(job[t])
    BY DEF MessageFits
  <1> QED
    BY <1>1, ChunkBrings

\* and each chunk in the queue.
LEMMA QueueBrings ==
    ASSUME MessageFits, NEW i \in DOMAIN queue, queue[i].kind = "chunk"
    PROVE  \E u \in Chunked : \E k \in 1 .. next[u] : First(queue[i]) = Piece(u, k)
  <1>1. SentMessage(queue[i])
    BY DEF MessageFits
  <1> QED
    BY <1>1, ChunkBrings

\* What is collected anew without a chunk being written: nothing, or an image in one piece.
Plain(d) == d = << >> \/ \E v \in Uploads \ Chunked : d = <<Piece(v, 1)>>

\* Such data is free of pieces of images in chunks, and none of its pieces is twice in it.
LEMMA PlainFacts ==
    ASSUME NEW d, Plain(d)
    PROVE  Distinct(d) /\ \A i \in DOMAIN d : d[i].of \notin Chunked
  BY DEF Plain, Distinct, Piece

\* Messages that go away or into the hands of a thread, and counters that grow, leave each piece in
\* one place.
LEMMA OnceSteady ==
    ASSUME UploadInv, UploadInv', SourceInv, OnceInv,
           \A d \in Collected' : d \in Collected \/ Plain(d),
           \A u \in Uploads : next[u] <= next'[u],
           NEW f, Thinned(f), NEW t0, NEW d0,
           \A t \in Threads : Early(t)' =>
              \/ Early(t) /\ job'[t] = job[t]
              \/ /\ t = t0 /\ d0 \in DOMAIN queue /\ \A i \in DOMAIN queue' : f[i] # d0
                 /\ job'[t].kind = "chunk" =>
                       queue[d0].kind = "chunk" /\ First(job'[t]) = First(queue[d0])
    PROVE  OnceInv'
  <1>1. \A i \in DOMAIN queue' : f[i] \in DOMAIN queue /\ queue'[i] = queue[f[i]]
    BY DEF Thinned
  <1>2. \A i, j \in DOMAIN queue' : f[i] = f[j] => i = j
    <2>1. DOMAIN queue \subseteq Nat /\ DOMAIN queue' \subseteq Nat
      <3>1. LinkOK /\ LinkOK'
        BY DEF UploadInv, TypeOK
      <3>2. DOMAIN queue \subseteq Nat
        BY <3>1, QueueFacts
      <3>3. tasks' \in Seq(Jobs) /\ wire' \in Seq(Jobs) /\ queue' = tasks' \o wire'
        BY <3>1 DEF LinkOK, queue
      <3> QED
        BY <3>2, <3>3, Longer
    <2> TAKE i, j \in DOMAIN queue'
    <2>2. (i < j => f[i] < f[j]) /\ (j < i => f[j] < f[i]) /\ i \in Nat /\ j \in Nat /\ f[i] \in Nat
      BY <1>1, <2>1 DEF Thinned
    <2> QED
      BY <2>2
  <1>3. ASSUME NEW m, Clear(m), m.kind = "chunk" => First(m).of \in Chunked
        PROVE  Clear(m)'
    <2>1. \A d : Plain(d) => \A i \in DOMAIN d : d[i].of \notin Chunked
      BY PlainFacts
    <2> QED
      BY <1>3, <2>1 DEF Clear, Has
  <1>4. \A i \in DOMAIN queue : queue[i].kind = "chunk" => First(queue[i]).of \in Chunked
    BY QueueBrings DEF SourceInv, Piece
  <1>5. \A t \in Threads : Early(t) /\ job[t].kind = "chunk" => First(job[t]).of \in Chunked
    <2> TAKE t \in Threads
    <2> HAVE Early(t) /\ job[t].kind = "chunk"
    <2>1. PICK u \in Chunked : \E k \in 1 .. next[u] : First(job[t]) = Piece(u, k)
      BY JobBrings DEF SourceInv, Early
    <2> QED
      BY <2>1 DEF Piece
  <1>6. SentOnce'
    <2>1. ASSUME NEW i \in DOMAIN queue', NEW j \in DOMAIN queue', Same(queue'[i], queue'[j])
          PROVE  i = j
      BY <1>1, <1>2, <2>1 DEF OnceInv, SentOnce
    <2>2. ASSUME NEW t \in Threads, Early(t)', NEW i \in DOMAIN queue'
          PROVE  ~Same(queue'[i], job'[t])
      BY <1>1, <2>2 DEF OnceInv, SentOnce, Same
    <2>3. ASSUME NEW t \in Threads, NEW s \in Threads, Early(t)', Early(s)', Same(job'[s], job'[t])
          PROVE  s = t
      BY <2>3 DEF OnceInv, SentOnce, Same
    <2> QED
      BY <2>1, <2>2, <2>3 DEF SentOnce, Same
  <1>7. NotCollected'
    <2>1. ASSUME NEW i \in DOMAIN queue' PROVE Clear(queue[i])'
      <3>1. Clear(queue[f[i]])
        BY <1>1 DEF OnceInv, NotCollected
      <3>2. ASSUME NEW m, m = queue[f[i]] PROVE Clear(m)'
        BY <1>1, <1>3, <1>4, <3>1, <3>2
      <3>3. ASSUME NEW m, m = queue'[i], Clear(m)' PROVE Clear(queue[i])'
        BY <3>3
      <3> QED
        BY <1>1, <3>2, <3>3
    <2>2. ASSUME NEW t \in Threads, Early(t)' PROVE Clear(job[t])'
      <3>1. ASSUME NEW m, m = job'[t], Clear(m)' PROVE Clear(job[t])'
        BY <3>1
      <3>2. CASE Early(t) /\ job'[t] = job[t]
        <4>1. Clear(job[t]) /\ (job[t].kind = "chunk" => First(job[t]).of \in Chunked)
          BY <1>5, <3>2 DEF OnceInv, NotCollected
        <4>2. ASSUME NEW m, m = job[t] PROVE Clear(m)'
          BY <1>3, <4>1, <4>2
        <4> QED
          BY <3>1, <3>2, <4>2
      <3>3. CASE job'[t].kind # "chunk"
        <4>1. ASSUME NEW m, m.kind # "chunk" PROVE Clear(m)'
          BY <4>1 DEF Clear
        <4> QED
          BY <3>1, <3>3, <4>1
      <3>4. CASE /\ d0 \in DOMAIN queue /\ job'[t].kind = "chunk"
                 /\ queue[d0].kind = "chunk" /\ First(job'[t]) = First(queue[d0])
        <4>1. Clear(queue[d0]) /\ First(queue[d0]).of \in Chunked
          BY <1>4, <3>4 DEF OnceInv, NotCollected
        <4>2. ASSUME NEW m, m = queue[d0] PROVE Clear(m)'
          BY <1>3, <4>1, <4>2
        <4>3. ASSUME NEW m, NEW n, Clear(n)', n.kind = "chunk", First(m) = First(n) PROVE Clear(m)'
          BY <4>3 DEF Clear
        <4> QED
          BY <3>1, <3>4, <4>2, <4>3
      <3> QED
        BY <2>2, <3>2, <3>3, <3>4
    <2> QED
      BY <2>1, <2>2 DEF NotCollected
  <1>8. CollectedFits'
    <2> SUFFICES ASSUME NEW d \in Collected' PROVE Distinct(d) /\ \A i \in DOMAIN d : Known(d[i])'
      BY DEF CollectedFits
    <2>1. CASE d \in Collected
      <3>1. Distinct(d) /\ \A i \in DOMAIN d : Known(d[i])
        BY <2>1 DEF OnceInv, CollectedFits
      <3>2. ASSUME NEW p \in Pieces, p.at \in Nat, Known(p) PROVE Known(p)'
        <4>1. \A u \in Uploads : next[u] \in Nat /\ next'[u] \in Nat
          BY ImageUploadAssumption DEF UploadInv, TypeOK, ClientOK
        <4> QED
          BY <3>2, <4>1, ImageUploadAssumption DEF Known
      <3> QED
        BY <2>1, <3>1, <3>2, CollectedTypes
    <2>2. CASE Plain(d)
      BY <2>2, PlainFacts DEF Known
    <2> QED
      BY <2>1, <2>2
  <1> QED
    BY <1>6, <1>7, <1>8 DEF OnceInv

\* What the client sends next is nowhere yet.
LEMMA OnceSent ==
    ASSUME UploadInv, UploadInv', SourceInv, OnceInv, NEW u \in Uploads,
           sendImageMessage(u) \/ sendNextImageChunk(u), \A v \in Uploads : next[v] <= next'[v]
    PROVE  OnceInv'
  <1>1. LinkOK /\ ClientOK /\ ClientOK' /\ queue \in Seq(Jobs) /\ ClientFits /\ MessageFits
    BY QueueFacts DEF UploadInv, TypeOK, SourceInv
  <1>2. \A v \in Uploads : next[v] \in Nat /\ next'[v] \in Nat
    BY <1>1, ImageUploadAssumption DEF ClientOK
  <1>3. PICK ms \in Seq(Jobs) : Added(u, ms)
    BY <1>1, ClientAdds
  <1>4. /\ \A i \in DOMAIN queue' : \/ i \in DOMAIN queue /\ queue'[i] = queue[i]
                                    \/ /\ i - Len(queue) \in DOMAIN ms
                                       /\ queue'[i] = ms[i - Len(queue)]
        /\ DOMAIN queue' \subseteq Nat /\ Len(queue) \in Nat
    BY <1>1, <1>3, Longer DEF Added
  <1> DEFINE p == Piece(u, next[u] + 1)
  <1>5. ASSUME NEW i \in DOMAIN ms, ms[i].kind = "chunk"
        PROVE  u \in Chunked /\ First(ms[i]) = p /\ next'[u] = next[u] + 1
    BY <1>3, <1>5 DEF Added, First, Chunk
  <1>6. u \in Chunked => \A i \in DOMAIN queue : queue[i].kind = "chunk" => First(queue[i]) # p
    <2> SUFFICES ASSUME NEW i \in DOMAIN queue, queue[i].kind = "chunk", First(queue[i]) = p
                 PROVE  FALSE
      OBVIOUS
    <2>1. PICK v \in Chunked : \E k \in 1 .. next[v] : p = Piece(v, k)
      BY <1>1, QueueBrings
    <2>2. v = u /\ next[u] + 1 \in 1 .. next[u]
      BY <2>1 DEF Piece
    <2> QED
      BY <1>2, <2>2
  <1>7. \A t \in Threads : Early(t) /\ job[t].kind = "chunk" => First(job[t]) # p
    <2> SUFFICES ASSUME NEW t \in Threads, Early(t), job[t].kind = "chunk", First(job[t]) = p
                 PROVE  FALSE
      OBVIOUS
    <2>1. PICK v \in Chunked : \E k \in 1 .. next[v] : p = Piece(v, k)
      BY <1>1, JobBrings DEF Early
    <2>2. v = u /\ next[u] + 1 \in 1 .. next[u]
      BY <2>1 DEF Piece
    <2> QED
      BY <1>2, <2>2
  <1>8. u \in Chunked => \A d \in Collected : ~Has(d, p)
    <2> SUFFICES ASSUME u \in Chunked, NEW d \in Collected, NEW i \in DOMAIN d, d[i] = p
                 PROVE  FALSE
      BY DEF Has
    <2>1. Known(p) /\ p.of = u /\ p.at = next[u] + 1
      BY DEF OnceInv, CollectedFits, Piece
    <2> QED
      BY <1>2, <2>1 DEF Known
  <1> HIDE DEF p
  <1>9. UNCHANGED <<threads, entry, disk>> /\ Collected' = Collected
    BY DEF sendImageMessage, sendNextImageChunk, Collected, threads
  <1>10. \A t \in Threads : Early(t)' <=> Early(t)
    BY <1>9 DEF Early, threads
  <1>11. SentOnce'
    <2>1. ASSUME NEW i \in DOMAIN queue', NEW j \in DOMAIN queue', Same(queue'[i], queue'[j])
          PROVE  i = j
      <3>1. CASE i \in DOMAIN queue /\ queue'[i] = queue[i] /\ j \in DOMAIN queue /\ queue'[j] = queue[j]
        BY <2>1, <3>1 DEF OnceInv, SentOnce
      <3>2. CASE i - Len(queue) \in DOMAIN ms /\ queue'[i] = ms[i - Len(queue)]
        <4>1. u \in Chunked /\ First(queue'[j]) = p /\ queue'[j].kind = "chunk"
          BY <1>5, <2>1, <3>2 DEF Same
        <4>2. j - Len(queue) \in DOMAIN ms /\ queue'[j] = ms[j - Len(queue)]
          BY <1>4, <1>6, <4>1
        <4>3. i - Len(queue) = j - Len(queue)
          BY <1>3, <2>1, <3>2, <4>2 DEF Added, Same
        <4> QED
          BY <1>4, <4>3
      <3>3. CASE j - Len(queue) \in DOMAIN ms /\ queue'[j] = ms[j - Len(queue)]
        <4>1. u \in Chunked /\ First(queue'[i]) = p /\ queue'[i].kind = "chunk"
          BY <1>5, <2>1, <3>3 DEF Same
        <4>2. i - Len(queue) \in DOMAIN ms /\ queue'[i] = ms[i - Len(queue)]
          BY <1>4, <1>6, <4>1
        <4>3. i - Len(queue) = j - Len(queue)
          BY <1>3, <2>1, <3>3, <4>2 DEF Added, Same
        <4> QED
          BY <1>4, <4>3
      <3> QED
        BY <1>4, <3>1, <3>2, <3>3
    <2>2. ASSUME NEW t \in Threads, Early(t)', NEW i \in DOMAIN queue'
          PROVE  ~Same(queue'[i], job'[t])
      <3>1. Early(t) /\ job'[t] = job[t]
        BY <1>9, <1>10, <2>2 DEF threads
      <3> QED
        BY <1>4, <1>5, <1>7, <3>1 DEF OnceInv, SentOnce, Same
    <2>3. ASSUME NEW t \in Threads, NEW s \in Threads, Early(t)', Early(s)', Same(job'[s], job'[t])
          PROVE  s = t
      BY <1>9, <1>10, <2>3 DEF OnceInv, SentOnce, threads
    <2> QED
      BY <2>1, <2>2, <2>3 DEF SentOnce, Same
  <1>12. NotCollected'
    <2>1. ASSUME NEW i \in DOMAIN queue', queue'[i].kind = "chunk", NEW d \in Collected
          PROVE  ~Has(d, First(queue'[i]))
      <3>1. CASE i \in DOMAIN queue /\ queue'[i] = queue[i]
        BY <2>1, <3>1 DEF OnceInv, NotCollected, Clear
      <3>2. CASE i - Len(queue) \in DOMAIN ms /\ queue'[i] = ms[i - Len(queue)]
        BY <1>5, <1>8, <2>1, <3>2
      <3> QED
        BY <1>4, <3>1, <3>2
    <2>2. ASSUME NEW t \in Threads, Early(t), job[t].kind = "chunk", NEW d \in Collected
          PROVE  ~Has(d, First(job[t]))
      BY <2>2 DEF OnceInv, NotCollected, Clear
    <2> QED
      BY <1>9, <1>10, <2>1, <2>2 DEF NotCollected, Clear, threads
  <1>13. CollectedFits'
    <2> SUFFICES ASSUME NEW d \in Collected PROVE Distinct(d) /\ \A i \in DOMAIN d : Known(d[i])'
      BY <1>9 DEF CollectedFits
    <2>1. Distinct(d) /\ \A i \in DOMAIN d : Known(d[i])
      BY DEF OnceInv, CollectedFits
    <2>2. ASSUME NEW x \in Pieces, x.at \in Nat, Known(x) PROVE Known(x)'
      BY <1>2, <2>2, ImageUploadAssumption DEF Known
    <2> QED
      BY <2>1, <2>2, CollectedTypes
  <1> QED
    BY <1>11, <1>12, <1>13 DEF OnceInv

\* A piece behind others, and what a chunk saved by hand brings along.
LEMMA OneMore ==
    ASSUME NEW d \in Seq(Pieces), NEW p \in Pieces, NEW x, x = <<p>> \/ x = Append(<<p>>, Junk)
    PROVE  \A i \in DOMAIN (d \o x) :
              \/ i \in DOMAIN d /\ (d \o x)[i] = d[i]
              \/ i = Len(d) + 1 /\ i \notin DOMAIN d /\ (d \o x)[i] = p
              \/ (d \o x)[i] = Junk
  <1>1. Junk \in Pieces
    BY DEF Pieces
  <1>2. CASE x = <<p>>
    BY <1>2
  <1>3. CASE x = Append(<<p>>, Junk)
    <2>1. /\ x \in Seq(Pieces) /\ Len(x) = 2 /\ x[1] = p /\ x[2] = Junk
      BY <1>1, <1>3
    <2>2. DOMAIN x = {1, 2}
      BY <2>1
    <2> TAKE i \in DOMAIN (d \o x)
    <2>3. CASE i <= Len(d)
      BY <2>1, <2>3, Longer
    <2>4. CASE ~(i <= Len(d))
      <3>1. i - Len(d) \in DOMAIN x /\ (d \o x)[i] = x[i - Len(d)] /\ i \in Nat /\ Len(d) \in Nat
        BY <2>1, <2>4, Longer
      <3>2. i - Len(d) = 1 => i = Len(d) + 1 /\ i \notin DOMAIN d
        BY <3>1
      <3> QED
        BY <2>1, <2>2, <3>1, <3>2
    <2> QED
      BY <2>3, <2>4
  <1> QED
    BY <1>2, <1>3

\* A chunk is written where it is not yet; from then on it is with no thread.
LEMMA OnceWritten ==
    ASSUME UploadInv, UploadInv', SourceInv, OnceInv, NEW t \in Threads, WriteData(t)
    PROVE  OnceInv'
  <1>1. ThreadsOK /\ StoreOK /\ pc[t] = "write" /\ MessageFits
    BY DEF UploadInv, TypeOK, SourceInv, WriteData
  <1>2. job[t].kind = "chunk" /\ Early(t) /\ job[t] \in Jobs
    BY <1>1 DEF SourceInv, PlaceFits, References, Early, UploadInv, ThreadFits
  <1>3. PICK u \in Chunked : \E k \in 1 .. next[u] :
              /\ First(job[t]) = Piece(u, k)
              /\ job[t].data = <<Piece(u, k)>> \/ job[t].data = Append(<<Piece(u, k)>>, Junk)
    BY <1>1, <1>2, JobBrings
  <1>4. PICK k \in 1 .. next[u] :
              /\ First(job[t]) = Piece(u, k)
              /\ job[t].data = <<Piece(u, k)>> \/ job[t].data = Append(<<Piece(u, k)>>, Junk)
    BY <1>3
  <1> DEFINE p == Piece(u, k)
             d == data[t] \o job[t].data
  <1>5. p \in Pieces /\ p.of \in Chunked /\ Known(p) /\ p # Junk
    <2>1. k \in 1 .. Chunks /\ k <= next[u] /\ k >= 1 /\ u \in Uploads
      BY ImageUploadAssumption DEF UploadInv, TypeOK, ClientOK
    <2> QED
      BY <2>1 DEF Piece, Pieces, Known, Junk
  <1>6. data[t] \in Collected /\ data[t] \in Seq(Pieces)
    BY <1>1 DEF Collected, ThreadsOK
  <1>7. Distinct(data[t]) /\ (\A i \in DOMAIN data[t] : Known(data[t][i])) /\ ~Has(data[t], p)
    BY <1>2, <1>4, <1>6 DEF OnceInv, CollectedFits, NotCollected, Clear
  <1>8. \A i \in DOMAIN d :
              \/ i \in DOMAIN data[t] /\ d[i] = data[t][i]
              \/ i = Len(data[t]) + 1 /\ i \notin DOMAIN data[t] /\ d[i] = p
              \/ d[i] = Junk
    BY <1>4, <1>5, <1>6, OneMore
  <1>9. Known(Junk)
    BY ImageUploadAssumption DEF Known, Junk, UploadInv, TypeOK, ClientOK
  <1>10. First(job[t]) = p
    BY <1>4
  <1> HIDE DEF p
  <1>11. Distinct(d) /\ (\A i \in DOMAIN d : Known(d[i]))
         /\ \A x : Has(d, x) => Has(data[t], x) \/ x = p \/ x = Junk
    <2>1. Distinct(d)
      <3> SUFFICES ASSUME NEW i \in DOMAIN d, NEW j \in DOMAIN d, d[i] = d[j], d[i] # Junk PROVE i = j
        BY DEF Distinct
      <3>1. CASE d[i] = p
        BY <1>7, <1>8, <3>1 DEF Has
      <3>2. CASE d[i] # p
        BY <1>7, <1>8, <3>2 DEF Distinct
      <3> QED
        BY <3>1, <3>2
    <2> QED
      BY <1>5, <1>7, <1>8, <1>9, <2>1 DEF Has
  <1> HIDE DEF d
  <1>12. \A e \in Collected' : e \in Collected \/ e = d
    <2>1. UNCHANGED <<data, disk>>
      BY DEF WriteData
    <2>2. \A v \in DOMAIN entry' :
             v \in DOMAIN entry /\ (entry'[v].data = entry[v].data \/ entry'[v].data = d)
      <3>1. CASE lost[t]
        BY <3>1 DEF WriteData
      <3>2. CASE ~lost[t]
        <4>1. entry' = [entry EXCEPT ![Subject(t)].data = d] /\ Subject(t) \in DOMAIN entry
          BY <1>1, <3>2 DEF WriteData, d, UploadInv, ThreadFits, References
        <4>2. \A v \in DOMAIN entry : entry[v] \in Entries
          BY <1>1 DEF StoreOK
        <4> QED
          BY <4>1, <4>2 DEF Entries
      <3> QED
        BY <3>1, <3>2
    <2> QED
      BY <2>1, <2>2 DEF Collected
  <1>13. /\ queue' = queue /\ next' = next
         /\ \A s \in Threads : Early(s)' => s # t /\ Early(s) /\ job'[s] = job[s]
    <2>1. pc'[t] = "count" /\ \A s \in Threads \ {t} : pc'[s] = pc[s] /\ job'[s] = job[s]
      BY <1>1 DEF WriteData, Goto, ThreadsOK
    <2> QED
      BY <2>1 DEF WriteData, link, client, queue, Early
  <1>14. SentOnce'
    BY <1>13 DEF OnceInv, SentOnce
  <1>15. ASSUME NEW m, Clear(m), m.kind = "chunk" => First(m) # p /\ First(m) # Junk PROVE Clear(m)'
    BY <1>6, <1>11, <1>12, <1>15 DEF Clear
  <1>16. NotCollected'
    <2>1. ASSUME NEW i \in DOMAIN queue PROVE Clear(queue[i])'
      <3>1. queue[i].kind = "chunk" => First(queue[i]) # p
        BY <1>2, <1>10 DEF OnceInv, SentOnce, Same
      <3>2. queue[i].kind = "chunk" => First(queue[i]) # Junk
        <4> HAVE queue[i].kind = "chunk"
        <4>1. PICK v \in Chunked : \E j \in 1 .. next[v] : First(queue[i]) = Piece(v, j)
          BY <1>1, QueueBrings
        <4>2. next[v] \in Nat
          BY ImageUploadAssumption DEF UploadInv, TypeOK, ClientOK
        <4> QED
          BY <4>1, <4>2 DEF Piece, Junk
      <3>3. ASSUME NEW m, m = queue[i] PROVE Clear(m)'
        BY <1>15, <3>1, <3>2, <3>3 DEF OnceInv, NotCollected
      <3>4. ASSUME NEW m, m = queue'[i], Clear(m)' PROVE Clear(queue[i])'
        BY <3>4
      <3> QED
        BY <1>13, <3>3, <3>4
    <2>2. ASSUME NEW s \in Threads, Early(s)' PROVE Clear(job[s])'
      <3>1. s # t /\ Early(s) /\ job'[s] = job[s]
        BY <1>13, <2>2
      <3>2. job[s].kind = "chunk" => First(job[s]) # p
        BY <1>2, <1>10, <3>1 DEF OnceInv, SentOnce, Same
      <3>3. job[s].kind = "chunk" => First(job[s]) # Junk
        <4> HAVE job[s].kind = "chunk"
        <4>1. PICK v \in Chunked : \E j \in 1 .. next[v] : First(job[s]) = Piece(v, j)
          BY <1>1, <3>1, JobBrings DEF Early
        <4>2. next[v] \in Nat
          BY ImageUploadAssumption DEF UploadInv, TypeOK, ClientOK
        <4> QED
          BY <4>1, <4>2 DEF Piece, Junk
      <3>4. ASSUME NEW m, m = job[s] PROVE Clear(m)'
        BY <1>15, <3>1, <3>2, <3>3, <3>4 DEF OnceInv, NotCollected
      <3>5. ASSUME NEW m, m = job'[s], Clear(m)' PROVE Clear(job[s])'
        BY <3>5
      <3> QED
        BY <3>1, <3>4, <3>5
    <2> QED
      BY <1>13, <2>1, <2>2 DEF NotCollected
  <1>17. CollectedFits'
    <2>1. \A x : Known(x) => Known(x)'
      BY <1>13 DEF Known
    <2> QED
      BY <1>11, <1>12, <2>1 DEF OnceInv, CollectedFits
  <1> QED
    BY <1>14, <1>16, <1>17 DEF OnceInv

\* What the other steps of the handlers collect was collected before, or is nothing, or is an
\* image in one piece.
LEMMA HandlerCollects ==
    ASSUME UploadInv, SourceInv, NEW t \in Threads, HandlerStep(t), ~WriteData(t)
    PROVE  /\ \A d \in Collected' : d \in Collected \/ Plain(d)
           /\ Early(t)' => Early(t) /\ job'[t] = job[t]
  <1>1. ThreadsOK /\ StoreOK
    BY DEF UploadInv, TypeOK
  <1> DEFINE Old(d) == d \in Collected \/ Plain(d)
  <1>2. /\ Old(<< >>)
        /\ \A u \in DOMAIN entry : Old(entry[u].data)
        /\ \A s \in Threads : Old(data[s])
        /\ \A u \in DOMAIN disk : Old(disk[u])
    BY DEF Plain, Collected
  <1> HIDE DEF Old
  <1>3. ASSUME \A u \in DOMAIN entry' : Old(entry'[u].data),
               \A s \in Threads : Old(data'[s]),
               \A u \in DOMAIN disk' : Old(disk'[u])
        PROVE  \A d \in Collected' : d \in Collected \/ Plain(d)
    BY <1>3 DEF Collected, Old
  <1>4. \A s \in Threads : s # t => data'[s] = data[s]
    BY HandlerLeaves
  <1>5. Return(t) => data'[t] = << >> /\ pc'[t] = "free"
    BY <1>1 DEF Return, ThreadsOK
  <1>6. CASE handleChunkedImageStart(t)
    <2>1. \A u \in DOMAIN entry' : Old(entry'[u].data)
      BY <1>2, <1>6 DEF handleChunkedImageStart, Insert, Empty
    <2> QED
      BY <1>2, <1>3, <1>4, <1>5, <1>6, <2>1 DEF handleChunkedImageStart, Early
  <1>7. CASE Find(t)
    <2>1. data'[t] = << >> \/ data'[t] = data[t]
      BY <1>5, <1>7 DEF Find
    <2>2. entry' = entry /\ disk' = disk
      BY <1>7 DEF Find
    <2>3. Early(t)' => Early(t) /\ job'[t] = job[t]
      BY <1>5, <1>7 DEF Find, Goto, Early
    <2> QED
      BY <1>2, <1>3, <1>4, <2>1, <2>2, <2>3
  <1>8. CASE Refer(t)
    <2>1. \A u \in DOMAIN entry' : Old(entry'[u].data)
      BY <1>2, <1>8 DEF Refer, Insert, Empty
    <2> QED
      BY <1>2, <1>3, <1>8, <2>1 DEF Refer, Early, Goto
  <1>9. CASE ReadData(t)
    <2>1. data'[t] = << >> \/ (Subject(t) \in DOMAIN entry /\ data'[t] = entry[Subject(t)].data)
      BY <1>1, <1>9 DEF ReadData, UploadInv, ThreadFits, References, ThreadsOK
    <2>2. Early(t)' => Early(t) /\ job'[t] = job[t]
      BY <1>9 DEF ReadData, Goto, Early
    <2> QED
      BY <1>2, <1>3, <1>4, <1>9, <2>1, <2>2 DEF ReadData
  <1>10. CASE ReadCount(t)
    <2>1. UNCHANGED <<entry, data, disk, job>> /\ pc'[t] = "increment"
      BY <1>1, <1>10 DEF ReadCount, Goto, ThreadsOK
    <2> QED
      BY <1>2, <1>3, <2>1 DEF Early
  <1>11. CASE WriteCount(t)
    <2>1. \A u \in DOMAIN entry' : u \in DOMAIN entry /\ entry'[u].data = entry[u].data
      <3>1. \A u \in DOMAIN entry : entry[u] \in Entries
        BY <1>1 DEF StoreOK
      <3> QED
        BY <1>11, <3>1 DEF WriteCount, Entries
    <2> QED
      BY <1>2, <1>3, <1>4, <1>5, <1>11, <2>1 DEF WriteCount, Early
  <1>12. CASE TakeEntry(t)
    <2>1. \A u \in DOMAIN entry' : u \in DOMAIN entry /\ entry'[u] = entry[u]
      BY <1>12 DEF TakeEntry, Remove
    <2>2. \/ data' = data
          \/ data'[t] = << >>
          \/ Subject(t) \in DOMAIN entry /\ data'[t] = entry[Subject(t)].data
      BY <1>1, <1>12 DEF TakeEntry, Empty, ThreadsOK
    <2>3. disk' = disk /\ (pc'[t] = "save" \/ pc'[t] = "free")
      BY <1>1, <1>12 DEF TakeEntry, ThreadsOK, Goto
    <2> QED
      BY <1>2, <1>3, <1>4, <2>1, <2>2, <2>3 DEF Early
  <1>13. CASE saveImage(t)
    <2>1. Old(Written(t))
      <3>1. CASE Subject(t) \in Chunked
        BY <1>2, <3>1 DEF Written
      <3>2. CASE Subject(t) \notin Chunked
        <4>1. /\ pc[t] = "save" /\ job[t].kind \in {"end", "save"}
              /\ SentMessage(job[t]) \/ ByHand(job[t])
          BY <1>13 DEF saveImage, SourceInv, PlaceFits, MessageFits
        <4>2. SentMessage(job[t]) /\ job[t].kind = "save"
          <5>1. ByHand(job[t]) => job[t].kind = "chunk"
            BY DEF ByHand
          <5>2. SentMessage(job[t])
            BY <4>1, <5>1
          <5> QED
            BY <3>2, <4>1, <5>2, SentKinds DEF Subject
        <4>3. job[t].data = <<Piece(Subject(t), 1)>> /\ Subject(t) \in Uploads
          BY <3>2, <4>2, SentKinds DEF Subject, Whole, Image
        <4> QED
          BY <3>2, <4>3 DEF Written, Old, Plain
      <3> QED
        BY <3>1, <3>2
    <2>2. \A u \in DOMAIN disk' : disk'[u] = Written(t) \/ (u \in DOMAIN disk /\ disk'[u] = disk[u])
      BY <1>13 DEF saveImage, Insert
    <2> QED
      BY <1>2, <1>3, <1>4, <1>5, <1>13, <2>1, <2>2 DEF saveImage, Early
  <1> QED
    BY <1>6, <1>7, <1>8, <1>9, <1>10, <1>11, <1>12, <1>13 DEF HandlerStep

\* Every step leaves each piece in one place.
LEMMA OnceKept ==
    ASSUME UploadInv, SourceInv, OnceInv, [Next]_vars
    PROVE  OnceInv'
  <1>1. UploadInv' /\ LinkOK /\ ClientFits /\ MessageFits /\ ThreadsOK
        /\ \A u \in Uploads : next[u] <= next'[u]
    BY NextFits, SentGrows DEF SourceInv, UploadInv, TypeOK
  <1>2. CASE \/ handleResponse \/ LoseAnswers \/ Disconnect \/ handleClientData \/ ReadTorn
             \/ UNCHANGED vars
    <2>1. (\E f : Thinned(f)) /\ UNCHANGED <<entry, disk, threads>>
      BY <1>2, OutsideThins
    <2>2. Collected' = Collected /\ \A t \in Threads : Early(t)' => Early(t) /\ job'[t] = job[t]
      BY <2>1 DEF Collected, threads, Early
    <2> QED
      BY <1>1, <2>1, <2>2, OnceSteady
  <1>3. ASSUME NEW u \in Uploads, sendImageMessage(u) \/ sendNextImageChunk(u) PROVE OnceInv'
    BY <1>1, <1>3, OnceSent
  <1>4. ASSUME NEW n \in 1 .. Len(wire), ReadMerged(n) PROVE OnceInv'
    <2>1. wire' = SubSeq(wire, n + 1, Len(wire)) /\ tasks' = tasks /\ UNCHANGED <<entry, disk>>
      BY <1>4 DEF ReadMerged
    <2>2. Thinned([i \in DOMAIN queue' |-> Skip(n, i)])
      BY <1>1, <2>1, ThinnedByLoss
    <2>3. CASE UNCHANGED threads
      <3>1. Collected' = Collected /\ \A t \in Threads : Early(t)' => Early(t) /\ job'[t] = job[t]
        BY <2>1, <2>3 DEF Collected, threads, Early
      <3> QED
        BY <1>1, <2>2, <3>1, OnceSteady
    <2>4. CASE ~UNCHANGED threads
      <3>1. PICK i \in 1 .. n, u \in Chunked : \E k \in 1 .. next[u] :
                 /\ wire[i] = Chunk(u, k)
                 /\ job' = [job EXCEPT !["main"] =
                               [kind |-> "chunk", upload |-> Head(wire).upload,
                                data |-> Append(<<Piece(u, k)>>, Junk)]]
                 /\ pc' = [pc EXCEPT !["main"] = "find"] /\ UNCHANGED <<data, count, lost>>
        BY <1>1, <1>4, <2>4, SavesByHand
      <3>2. PICK k \in 1 .. next[u] :
                 /\ wire[i] = Chunk(u, k)
                 /\ job' = [job EXCEPT !["main"] =
                               [kind |-> "chunk", upload |-> Head(wire).upload,
                                data |-> Append(<<Piece(u, k)>>, Junk)]]
                 /\ pc' = [pc EXCEPT !["main"] = "find"] /\ UNCHANGED <<data, count, lost>>
        BY <3>1
      <3> DEFINE d0 == Len(tasks) + i
      <3>3. d0 \in DOMAIN queue /\ queue[d0] = wire[i]
            /\ \A j \in DOMAIN queue' : Skip(n, j) # d0
        BY <1>1, <2>1, QueueLoses
      <3>4. First(job'["main"]) = Piece(u, k) /\ First(wire[i]) = Piece(u, k)
            /\ wire[i].kind = "chunk"
        <4>1. Append(<<Piece(u, k)>>, Junk)[1] = Piece(u, k)
          OBVIOUS
        <4>2. job'["main"].data = Append(<<Piece(u, k)>>, Junk)
          BY <1>1, <3>2 DEF ThreadsOK, Threads
        <4> QED
          BY <3>2, <4>1, <4>2 DEF First, Chunk
      <3>5. \A t \in Threads : t # "main" /\ Early(t)' => Early(t) /\ job'[t] = job[t]
        BY <1>1, <3>2 DEF Early, ThreadsOK
      <3>6. Collected' = Collected
        BY <2>1, <3>2 DEF Collected
      <3> HIDE DEF d0
      <3> DEFINE f == [j \in DOMAIN queue' |-> Skip(n, j)]
      <3>7. \A j \in DOMAIN queue' : f[j] # d0
        BY <3>3
      <3>8. Thinned(f)
        BY <2>2
      <3> HIDE DEF f
      <3>9. \A t \in Threads : Early(t)' =>
               \/ Early(t) /\ job'[t] = job[t]
               \/ /\ t = "main" /\ d0 \in DOMAIN queue /\ \A j \in DOMAIN queue' : f[j] # d0
                  /\ job'[t].kind = "chunk" =>
                        queue[d0].kind = "chunk" /\ First(queue[d0]) = First(job'[t])
        BY <3>3, <3>4, <3>5, <3>7
      <3> QED
        BY <1>1, <3>6, <3>8, <3>9, OnceSteady
    <2> QED
      BY <2>3, <2>4
  <1>5. ASSUME NEW w \in Workers, Take(w) PROVE OnceInv'
    <2>1. /\ w \in Threads /\ job' = [job EXCEPT ![w] = queue[1]] /\ 1 \in DOMAIN queue
          /\ UNCHANGED <<entry, disk, data>>
          /\ \E place : pc' = [pc EXCEPT ![w] = place]
      BY <1>1, <1>5, TakesFirst
    <2>2. Thinned([i \in DOMAIN queue' |-> i + 1])
      BY <1>1, <1>5, ThinnedByTake
    <2>3. \A i \in DOMAIN queue' : i + 1 # 1
      <3>1. \A i \in DOMAIN queue' : i \in Nat /\ i + 1 \in DOMAIN queue /\ DOMAIN queue \subseteq Nat
            /\ i # 0
        BY <1>1, <1>5, QueueTake, QueueFacts DEF UploadInv, TypeOK, LinkOK, queue
      <3> QED
        BY <3>1
    <2>4. Collected' = Collected
      BY <2>1 DEF Collected
    <2>5. \A t \in Threads : t # w /\ Early(t)' => Early(t) /\ job'[t] = job[t]
      BY <1>1, <2>1 DEF Early, ThreadsOK
    <2>6. job'[w] = queue[1]
      BY <1>1, <2>1 DEF ThreadsOK
    <2> DEFINE f == [i \in DOMAIN queue' |-> i + 1]
    <2>7. \A i \in DOMAIN queue' : f[i] # 1
      BY <2>3
    <2>8. Thinned(f)
      BY <2>2
    <2> HIDE DEF f
    <2> QED
      BY <1>1, <2>1, <2>4, <2>5, <2>6, <2>7, <2>8, OnceSteady
  <1>6. ASSUME NEW t \in Threads, HandlerStep(t) PROVE OnceInv'
    <2>1. CASE WriteData(t)
      BY <1>1, <1>6, <2>1, OnceWritten
    <2>2. CASE ~WriteData(t)
      <3>1. /\ queue' = queue
            /\ \A s \in Threads : s # t => pc'[s] = pc[s] /\ job'[s] = job[s]
        BY <1>6, HandlerLeaves
      <3>2. /\ \A d \in Collected' : d \in Collected \/ Plain(d)
            /\ Early(t)' => Early(t) /\ job'[t] = job[t]
        BY <1>6, <2>2, HandlerCollects
      <3>3. \A s \in Threads : Early(s)' => Early(s) /\ job'[s] = job[s]
        BY <3>1, <3>2 DEF Early
      <3>4. Thinned([i \in DOMAIN queue' |-> i])
        BY <1>1, <3>1, ThinnedByNothing
      <3> QED
        BY <1>1, <3>2, <3>3, <3>4, OnceSteady
    <2> QED
      BY <2>1, <2>2
  <1> QED
    BY <1>2, <1>3, <1>4, <1>5, <1>6 DEF Next

\* What the client, the queue and the threads hold always fits, and each piece is in one place.
THEOREM SourceInvariant == Spec => [](SourceInv /\ OnceInv)
  <1>1. Init => SourceInv /\ OnceInv
    <2> SUFFICES ASSUME Init PROVE SourceInv /\ OnceInv
      OBVIOUS
    <2>1. DOMAIN queue = {} /\ \A t \in Threads : pc[t] = "free" /\ data[t] = << >>
      BY DEF Init, queue
    <2>2. \A d \in Collected : d = << >>
      BY <2>1 DEF Init, Collected
    <2>3. MessageFits /\ PlaceFits /\ ClientFits
      BY <2>1 DEF Init, MessageFits, PlaceFits, ClientFits, References
    <2>4. SentOnce /\ NotCollected
      BY <2>1 DEF SentOnce, NotCollected, Early
    <2>5. CollectedFits
      BY <2>2 DEF CollectedFits, Distinct
    <2> QED
      BY <2>3, <2>4, <2>5 DEF SourceInv, OnceInv
  <1>2. UploadInv /\ (SourceInv /\ OnceInv) /\ [Next]_vars => (SourceInv /\ OnceInv)'
    BY SourceKept, OnceKept
  <1> QED
    BY <1>1, <1>2, UploadInvariant, PTL DEF Spec

\* However reads are torn or merged, handlers overlap and references are lost, no chunk is twice in
\* a collected or a stored image.
THEOREM NoPieceIsTwice == Spec => []NoPieceTwice
  <1>1. OnceInv => NoPieceTwice
    BY DEF OnceInv, CollectedFits, Collected, NoPieceTwice
  <1> QED
    BY <1>1, SourceInvariant, PTL
-----------------------------------------------------------------------------
(* What makes a file is the last message of an upload, the end of a        *)
(* chunked image or the whole of a small one.  It is sent once, is on its  *)
(* way or with one thread, and is gone before the file is there.           *)
FinalOf(m, u) == m.kind \in {"end", "save"} /\ m.upload = u
Finishes(t, u) == pc[t] # "free" /\ FinalOf(job[t], u)

NoFinal(u) ==
    /\ \A i \in DOMAIN queue : ~FinalOf(queue[i], u)
    /\ \A t \in Threads : ~Finishes(t, u)

OneFinal(u) ==
    /\ \A i, j \in DOMAIN queue : FinalOf(queue[i], u) /\ FinalOf(queue[j], u) => i = j
    /\ \A s, t \in Threads : Finishes(s, u) /\ Finishes(t, u) => s = t
    /\ \A i \in DOMAIN queue, t \in Threads : ~(FinalOf(queue[i], u) /\ Finishes(t, u))

FinalOnce == \A u \in Uploads :
    /\ OneFinal(u)
    /\ u \in DOMAIN disk \/ timer[u] => NoFinal(u)
    /\ timer[u] \/ upload[u] = "new" => u \notin DOMAIN disk

\* Whatever is on its way or being handled is of an upload that the client has begun.
Begun(u) == u \in Uploads /\ upload[u] # "new"
Offered ==
    /\ \A i \in DOMAIN queue : Begun(queue[i].upload)
    /\ \A t \in Threads : pc[t] # "free" => Begun(Subject(t))
    /\ \A i \in DOMAIN answers : Begun(answers[i].upload)

StoreInv == FinalOnce /\ Offered

\* An upload that is begun stays so.
LEMMA StaysBegun ==
    ASSUME UploadInv, [Next]_vars
    PROVE  \A u : Begun(u) => Begun(u)'
  <1>1. ClientOK
    BY SMTT(40) DEF UploadInv, TypeOK
  <1>2. \A u \in Uploads : upload'[u] = "new" => upload[u] = "new"
    BY <1>1, ZenonT(40)
    DEF ClientOK, Next, vars, client, sendImageMessage, sendNextImageChunk, handleResponse, LoseAnswers,
        Disconnect, handleClientData, ReadTorn, ReadMerged, Take, HandlerStep,
        handleChunkedImageStart, Find, Refer, ReadData, WriteData, ReadCount, WriteCount, TakeEntry,
        saveImage
  <1> QED
    BY <1>2 DEF Begun

\* Where messages only go away, and threads get nothing but chunks, the last messages stay where
\* they were.
LEMMA FinalsThin ==
    ASSUME UploadInv, UploadInv', FinalOnce, NEW f, Thinned(f),
           \A t \in Threads : pc'[t] # "free" =>
              (pc[t] # "free" /\ job'[t] = job[t]) \/ job'[t].kind = "chunk",
           DOMAIN disk' = DOMAIN disk, timer' = timer,
           \A u \in Uploads : upload'[u] = "new" => upload[u] = "new"
    PROVE  FinalOnce'
  <1>1. \A i, j \in DOMAIN queue' : i < j => f[i] # f[j]
    <2>1. LinkOK
      BY DEF UploadInv, TypeOK
    <2>2. \A i \in DOMAIN queue : i \in Int
      BY <2>1, QueueFacts
    <2> QED
      BY <2>2 DEF Thinned
  <1>2. \A i \in DOMAIN queue' : i \in Int
    <2>1. LinkOK'
      BY DEF UploadInv, TypeOK
    <2>2. queue' = tasks' \o wire' /\ tasks' \in Seq(Jobs) /\ wire' \in Seq(Jobs)
      BY <2>1 DEF queue, LinkOK
    <2> QED
      BY <2>2, Longer
  <1>3. \A i \in DOMAIN queue' : f[i] \in DOMAIN queue /\ queue'[i] = queue[f[i]]
    BY DEF Thinned
  <1> SUFFICES ASSUME NEW u \in Uploads
               PROVE  /\ OneFinal(u)'
                      /\ u \in DOMAIN disk' \/ timer'[u] => NoFinal(u)'
                      /\ timer'[u] \/ upload'[u] = "new" => u \notin DOMAIN disk'
    BY DEF FinalOnce
  <1>4. /\ OneFinal(u)
        /\ u \in DOMAIN disk \/ timer[u] => NoFinal(u)
        /\ timer[u] \/ upload[u] = "new" => u \notin DOMAIN disk
    BY DEF FinalOnce
  <1>5. \A t \in Threads : Finishes(t, u)' => Finishes(t, u)
    BY DEF Finishes, FinalOf
  <1>6. \A i \in DOMAIN queue' : FinalOf(queue[i], u)' => FinalOf(queue[f[i]], u)
    BY <1>3 DEF FinalOf
  <1>7. NoFinal(u) => NoFinal(u)'
    BY <1>3, <1>5, <1>6 DEF NoFinal
  <1>8. OneFinal(u)'
    <2>1. ASSUME NEW i \in DOMAIN queue', NEW j \in DOMAIN queue',
                 FinalOf(queue[i], u)', FinalOf(queue[j], u)'
          PROVE  i = j
      <3>1. f[i] = f[j]
        BY <1>3, <1>4, <1>6, <2>1 DEF OneFinal
      <3>2. i \in Int /\ j \in Int /\ ~(i < j) /\ ~(j < i)
        BY <1>1, <1>2, <3>1
      <3> QED
        BY <3>2
    <2>2. ASSUME NEW i \in DOMAIN queue', NEW t \in Threads
          PROVE  ~(FinalOf(queue[i], u)' /\ Finishes(t, u)')
      BY <1>3, <1>4, <1>5, <1>6 DEF OneFinal
    <2> QED
      BY <1>4, <1>5, <2>1, <2>2 DEF OneFinal
  <1> QED
    BY <1>4, <1>7, <1>8

\* A worker takes over the first message.
LEMMA FinalsTaken ==
    ASSUME UploadInv, MessageFits, FinalOnce, NEW w \in Workers, Take(w)
    PROVE  FinalOnce'
  <1>1. /\ LinkOK /\ ThreadsOK
        /\ pc[w] = "free" /\ w \in Threads /\ job' = [job EXCEPT ![w] = queue[1]]
        /\ 1 \in DOMAIN queue /\ UNCHANGED <<client, disk>>
    BY TakesFirst DEF UploadInv, TypeOK
  <1>2. /\ \A t \in Threads \ {w} : pc'[t] = pc[t] /\ job'[t] = job[t]
        /\ job'[w] = queue[1]
    <2>1. \E place : pc' = [pc EXCEPT ![w] = place]
      BY DEF Take, Begin
    <2> QED
      BY <1>1, <2>1 DEF ThreadsOK
  <1>3. \A i \in DOMAIN queue' : i \in Nat /\ i + 1 \in DOMAIN queue /\ queue'[i] = queue[i + 1]
    BY <1>1, QueueTake
  <1>4. \A i \in DOMAIN queue' : i + 1 # 1
    <2>1. LinkOK' 
      BY NextFits DEF UploadInv, TypeOK, Next
    <2>2. queue' = tasks' \o wire' /\ tasks' \in Seq(Jobs) /\ wire' \in Seq(Jobs)
      BY <2>1 DEF queue, LinkOK
    <2>3. \A i \in DOMAIN queue' : i \in Nat /\ i # 0
      BY <2>2, Longer
    <2> QED
      BY <2>3
  <1> SUFFICES ASSUME NEW u \in Uploads
               PROVE  /\ OneFinal(u)'
                      /\ u \in DOMAIN disk' \/ timer'[u] => NoFinal(u)'
                      /\ timer'[u] \/ upload'[u] = "new" => u \notin DOMAIN disk'
    BY DEF FinalOnce
  <1>5. /\ OneFinal(u)
        /\ u \in DOMAIN disk \/ timer[u] => NoFinal(u)
        /\ timer[u] \/ upload[u] = "new" => u \notin DOMAIN disk
    BY DEF FinalOnce
  <1>6. \A t \in Threads \ {w} : Finishes(t, u)' <=> Finishes(t, u)
    BY <1>2 DEF Finishes, FinalOf
  <1>7. Finishes(w, u)' => FinalOf(queue[1], u)
    BY <1>2 DEF Finishes, FinalOf
  <1>8. \A i \in DOMAIN queue' : FinalOf(queue[i], u)' => FinalOf(queue[i + 1], u)
    BY <1>3 DEF FinalOf
  <1>9. NoFinal(u) => NoFinal(u)'
    BY <1>1, <1>3, <1>6, <1>7, <1>8 DEF NoFinal
  <1>10. OneFinal(u)'
    <2>1. ASSUME NEW i \in DOMAIN queue', NEW j \in DOMAIN queue',
                 FinalOf(queue[i], u)', FinalOf(queue[j], u)'
          PROVE  i = j
      <3>1. i + 1 = j + 1 /\ i \in Nat /\ j \in Nat
        BY <1>3, <1>5, <1>8, <2>1 DEF OneFinal
      <3> QED
        BY <3>1
    <2>2. ASSUME NEW i \in DOMAIN queue', NEW t \in Threads, FinalOf(queue[i], u)', Finishes(t, u)'
          PROVE  FALSE
      <3>1. i + 1 \in DOMAIN queue /\ FinalOf(queue[i + 1], u) /\ i + 1 # 1
        BY <1>3, <1>4, <1>8, <2>2
      <3>2. CASE t = w
        BY <1>1, <1>5, <1>7, <2>2, <3>1, <3>2 DEF OneFinal
      <3>3. CASE t # w
        BY <1>5, <1>6, <2>2, <3>1, <3>3 DEF OneFinal
      <3> QED
        BY <3>2, <3>3
    <2>3. ASSUME NEW s \in Threads, NEW t \in Threads, Finishes(s, u)', Finishes(t, u)'
          PROVE  s = t
      BY <1>1, <1>5, <1>6, <1>7, <2>3 DEF OneFinal
    <2> QED
      BY <2>1, <2>2, <2>3 DEF OneFinal
  <1> QED
    BY <1>1, <1>5, <1>9, <1>10 DEF client

\* What the client adds is of an upload that has no last message yet, and brings at most one.
LEMMA FinalsAdded ==
    ASSUME UploadInv, FinalOnce, NEW u \in Uploads, NEW ms \in Seq(Jobs), queue' = queue \o ms,
           UNCHANGED <<threads, disk>>, NoFinal(u), u \notin DOMAIN disk,
           \A i \in DOMAIN ms : ms[i].upload = u /\ (FinalOf(ms[i], u) => ~timer'[u]),
           \A i, j \in DOMAIN ms : FinalOf(ms[i], u) /\ FinalOf(ms[j], u) => i = j,
           \A v \in Uploads \ {u} : timer'[v] = timer[v] /\ upload'[v] = upload[v]
    PROVE  FinalOnce'
  <1>1. queue \in Seq(Jobs) /\ Len(queue) \in Nat /\ \A i \in DOMAIN queue : i \in Int
    BY QueueFacts DEF UploadInv, TypeOK
  <1>2. \A i \in DOMAIN queue' :
           IF i <= Len(queue) THEN i \in DOMAIN queue /\ queue'[i] = queue[i]
           ELSE i - Len(queue) \in DOMAIN ms /\ queue'[i] = ms[i - Len(queue)]
    BY <1>1, Longer
  <1>3. \A i \in DOMAIN queue' : i \in Int
    BY <1>1, Longer
  <1>4. \A t \in Threads, v \in Uploads : Finishes(t, v)' <=> Finishes(t, v)
    BY DEF Finishes, FinalOf, threads
  <1>5. ASSUME NEW v \in Uploads \ {u}
        PROVE  \A i \in DOMAIN queue' : FinalOf(queue[i], v)' =>
                  i \in DOMAIN queue /\ FinalOf(queue[i], v)
    BY <1>2 DEF FinalOf
  <1>6. \A i \in DOMAIN queue' : FinalOf(queue[i], u)' =>
           i - Len(queue) \in DOMAIN ms /\ FinalOf(ms[i - Len(queue)], u)
    BY <1>2 DEF FinalOf, NoFinal
  <1>7. ASSUME NEW v \in Uploads \ {u}
        PROVE  /\ OneFinal(v)'
               /\ v \in DOMAIN disk' \/ timer'[v] => NoFinal(v)'
               /\ timer'[v] \/ upload'[v] = "new" => v \notin DOMAIN disk'
    <2>1. /\ OneFinal(v)
          /\ v \in DOMAIN disk \/ timer[v] => NoFinal(v)
          /\ timer[v] \/ upload[v] = "new" => v \notin DOMAIN disk
      BY DEF FinalOnce
    <2>2. OneFinal(v)'
      BY <1>4, <1>5, <2>1 DEF OneFinal
    <2>3. NoFinal(v) => NoFinal(v)'
      BY <1>4, <1>5 DEF NoFinal
    <2> QED
      BY <2>1, <2>2, <2>3
  <1>8. OneFinal(u)'
    <2>1. ASSUME NEW i \in DOMAIN queue', NEW j \in DOMAIN queue',
                 FinalOf(queue[i], u)', FinalOf(queue[j], u)'
          PROVE  i = j
      <3>1. i - Len(queue) = j - Len(queue)
        BY <1>6, <2>1
      <3> QED
        BY <1>1, <1>3, <3>1
    <2>2. \A t \in Threads : ~Finishes(t, u)'
      BY <1>4 DEF NoFinal
    <2> QED
      BY <2>1, <2>2 DEF OneFinal
  <1>9. timer'[u] => NoFinal(u)'
    BY <1>4, <1>6 DEF NoFinal
  <1> QED
    BY <1>7, <1>8, <1>9 DEF FinalOnce

\* The client sends the last message when no timer is left that could send it again.
LEMMA FinalsSent ==
    ASSUME UploadInv, ClientFits, StoreInv, NEW u \in Uploads,
           sendImageMessage(u) \/ sendNextImageChunk(u)
    PROVE  FinalOnce'
  <1>1. /\ LinkOK /\ ClientOK /\ FinalOnce /\ Offered /\ wire \in Seq(Jobs) /\ tasks' = tasks
        /\ UNCHANGED <<threads, disk>>
    BY DEF UploadInv, TypeOK, LinkOK, StoreInv, sendImageMessage, sendNextImageChunk
  <1>2. next \in [Uploads -> 0 .. Chunks] /\ Chunks \in Nat \ {0}
    BY <1>1, ImageUploadAssumption DEF ClientOK
  <1>3. timer[u] \/ upload[u] = "new"
    BY DEF sendImageMessage, sendNextImageChunk
  <1>4. NoFinal(u) /\ u \notin DOMAIN disk
    <2>1. CASE timer[u]
      BY <1>1, <2>1 DEF FinalOnce
    <2>2. CASE upload[u] = "new"
      BY <1>1, <2>2 DEF FinalOnce, Offered, Begun, NoFinal, Finishes, FinalOf, Subject
    <2> QED
      BY <1>3, <2>1, <2>2
  <1>5. \A v \in Uploads \ {u} : timer'[v] = timer[v] /\ upload'[v] = upload[v]
    BY <1>1 DEF ClientOK, sendImageMessage, sendNextImageChunk
  <1>6. ASSUME NEW ms \in Seq(Jobs), wire' = wire \o ms,
               \A i \in DOMAIN ms : ms[i].upload = u /\ (FinalOf(ms[i], u) => ~timer'[u]),
               \A i, j \in DOMAIN ms : FinalOf(ms[i], u) /\ FinalOf(ms[j], u) => i = j
        PROVE  FinalOnce'
    BY <1>1, <1>4, <1>5, <1>6, QueueGrows, FinalsAdded
  <1>7. /\ Start(u).upload = u /\ ~FinalOf(Start(u), u) /\ End(u).upload = u /\ Whole(u).upload = u
        /\ \A k \in 1 .. Chunks : Chunk(u, k).upload = u /\ ~FinalOf(Chunk(u, k), u)
    BY DEF Start, End, Whole, Chunk, FinalOf
  <1>8. CASE sendImageMessage(u) /\ u \in Chunked
    <2> DEFINE ms == <<Start(u), Chunk(u, 1)>>
    <2>1. Start(u) \in Jobs /\ Chunk(u, 1) \in Jobs
      BY <1>2, MessageTypes
    <2>2. ms \in Seq(Jobs) /\ DOMAIN ms = {1, 2} /\ ms[1] = Start(u) /\ ms[2] = Chunk(u, 1)
      BY <2>1
    <2>3. wire' = wire \o ms /\ 1 \in 1 .. Chunks
      BY <1>2, <1>8 DEF sendImageMessage
    <2> HIDE DEF ms
    <2>4. \A i \in DOMAIN ms : ms[i].upload = u /\ ~FinalOf(ms[i], u)
      BY <1>7, <2>2, <2>3
    <2> QED
      BY <1>6, <2>2, <2>3, <2>4
  <1>9. ASSUME NEW m \in Jobs, wire' = Append(wire, m), m.upload = u, FinalOf(m, u) => ~timer'[u]
        PROVE  FinalOnce'
    <2> DEFINE ms == <<m>>
    <2>1. ms \in Seq(Jobs) /\ DOMAIN ms = {1} /\ ms[1] = m /\ wire' = wire \o ms
      BY <1>1, <1>9
    <2> HIDE DEF ms
    <2> QED
      BY <1>6, <1>9, <2>1
  <1>10. CASE sendImageMessage(u) /\ u \notin Chunked
    <2>1. wire' = Append(wire, Whole(u)) /\ Whole(u) \in Jobs /\ timer' = timer /\ ~timer[u]
      BY <1>10, MessageTypes DEF sendImageMessage, ClientFits
    <2> QED
      BY <1>7, <1>9, <2>1
  <1>11. CASE sendNextImageChunk(u) /\ wire' = wire
    <2>1. << >> \in Seq(Jobs) /\ DOMAIN << >> = {} /\ wire' = wire \o << >>
      BY <1>1, <1>11
    <2> QED
      BY <1>6, <2>1
  <1>12. CASE sendNextImageChunk(u) /\ next[u] < Chunks /\ wire' = Append(wire, Chunk(u, next[u] + 1))
    <2>1. u \in Chunked /\ next[u] + 1 \in 1 .. Chunks
      BY <1>2, <1>12 DEF sendNextImageChunk, ClientFits
    <2>2. Chunk(u, next[u] + 1) \in Jobs
      BY <2>1, MessageTypes
    <2> QED
      BY <1>7, <1>9, <1>12, <2>1, <2>2
  <1>13. CASE sendNextImageChunk(u) /\ ~(next[u] < Chunks) /\ wire' = Append(wire, End(u))
    <2>1. End(u) \in Jobs /\ ~timer'[u]
      BY <1>1, <1>13, MessageTypes DEF sendNextImageChunk, ClientFits, ClientOK
    <2> QED
      BY <1>7, <1>9, <1>13, <2>1
  <1>14. sendNextImageChunk(u) =>
            \/ wire' = wire
            \/ next[u] < Chunks /\ wire' = Append(wire, Chunk(u, next[u] + 1))
            \/ ~(next[u] < Chunks) /\ wire' = Append(wire, End(u))
    BY DEF sendNextImageChunk
  <1> QED
    BY <1>8, <1>10, <1>11, <1>12, <1>13, <1>14

\* Who writes a file has the last message of its upload, and lets go of it.
LEMMA FinalsSaved ==
    ASSUME UploadInv, PlaceFits, StoreInv, NEW t \in Threads, saveImage(t)
    PROVE  /\ FinalOnce'
           /\ Begun(Subject(t)) /\ Subject(t) \notin DOMAIN disk /\ ~timer[Subject(t)]
  <1>0. PICK x : x = Subject(t)
    OBVIOUS
  <1>1. /\ ThreadsOK /\ StoreOK /\ FinalOnce /\ Offered
        /\ pc[t] = "save" /\ pc'[t] = "free" /\ queue' = queue
        /\ UNCHANGED <<client>>
        /\ \A s \in Threads : s # t => pc'[s] = pc[s] /\ job'[s] = job[s]
    <2>1. HandlerStep(t)
      BY DEF HandlerStep
    <2> QED
      BY <2>1, HandlerLeaves DEF UploadInv, TypeOK, StoreInv, saveImage, Return, ThreadsOK
  <1>2. x \in Uploads /\ Begun(x) /\ Finishes(t, x)
    BY <1>0, <1>1 DEF Offered, Begun, PlaceFits, Finishes, FinalOf, Subject
  <1>3. DOMAIN disk' = DOMAIN disk \cup {x} \/ DOMAIN disk' = DOMAIN disk
    BY <1>0 DEF saveImage, Insert
  <1>4. x \notin DOMAIN disk /\ ~timer[x] /\ upload[x] # "new"
    BY <1>1, <1>2 DEF FinalOnce, NoFinal, Begun
  <1>5. \A s \in Threads, u \in Uploads : Finishes(s, u)' => Finishes(s, u) /\ s # t
    BY <1>1 DEF Finishes, FinalOf
  <1>6. \A i \in DOMAIN queue', u \in Uploads :
           i \in DOMAIN queue /\ (FinalOf(queue[i], u)' <=> FinalOf(queue[i], u))
    BY <1>1 DEF FinalOf
  <1>7. NoFinal(x)'
    <2>1. OneFinal(x)
      BY <1>1, <1>2 DEF FinalOnce
    <2>2. \A i \in DOMAIN queue : ~FinalOf(queue[i], x)
      BY <1>2, <2>1 DEF OneFinal
    <2>3. \A s \in Threads : ~Finishes(s, x)'
      BY <1>2, <1>5, <2>1 DEF OneFinal
    <2>4. \A i \in DOMAIN queue' : ~FinalOf(queue[i], x)'
      BY <1>2, <1>6, <2>2
    <2> QED
      BY <2>3, <2>4 DEF NoFinal
  <1>8. \A u \in Uploads : (NoFinal(u) => NoFinal(u)') /\ (OneFinal(u) => OneFinal(u)')
    BY <1>5, <1>6 DEF NoFinal, OneFinal
  <1>9. FinalOnce'
    <2> SUFFICES ASSUME NEW u \in Uploads
                 PROVE  /\ OneFinal(u)'
                        /\ u \in DOMAIN disk' \/ timer'[u] => NoFinal(u)'
                        /\ timer'[u] \/ upload'[u] = "new" => u \notin DOMAIN disk'
      BY DEF FinalOnce
    <2>1. /\ OneFinal(u)
          /\ u \in DOMAIN disk \/ timer[u] => NoFinal(u)
          /\ timer[u] \/ upload[u] = "new" => u \notin DOMAIN disk
      BY <1>1 DEF FinalOnce
    <2>2. timer' = timer /\ upload' = upload
      BY <1>1 DEF client
    <2>3. CASE u = x
      BY <1>4, <1>7, <1>8, <2>1, <2>2, <2>3
    <2>4. CASE u # x
      <3>1. u \in DOMAIN disk' <=> u \in DOMAIN disk
        BY <1>3, <2>4
      <3> QED
        BY <1>8, <2>1, <2>2, <3>1
    <2> QED
      BY <2>3, <2>4
  <1> QED
    BY <1>0, <1>2, <1>4, <1>9

\* Every step keeps the last messages where they are.
LEMMA FinalsKept ==
    ASSUME UploadInv, SourceInv, StoreInv, [Next]_vars
    PROVE  FinalOnce'
  <1>1. /\ UploadInv' /\ FinalOnce /\ MessageFits /\ PlaceFits /\ ClientFits /\ LinkOK /\ ThreadsOK
        /\ \A u \in Uploads : upload'[u] = "new" => upload[u] = "new"
    BY NextFits, StaysBegun DEF UploadInv, TypeOK, SourceInv, StoreInv, Begun
  <1>2. CASE \/ handleResponse \/ LoseAnswers \/ Disconnect \/ handleClientData \/ ReadTorn
             \/ UNCHANGED vars
    <2>1. PICK f : Thinned(f)
      BY <1>2, OutsideThins
    <2>2. UNCHANGED <<next, timer, entry, disk, threads>>
      BY <1>2, OutsideThins
    <2> QED
      BY <1>1, <2>1, <2>2, FinalsThin DEF threads
  <1>3. ASSUME NEW u \in Uploads, sendImageMessage(u) \/ sendNextImageChunk(u) PROVE FinalOnce'
    BY <1>1, <1>3, FinalsSent
  <1>4. ASSUME NEW n \in 1 .. Len(wire), ReadMerged(n) PROVE FinalOnce'
    <2>1. \E f : Thinned(f)
      BY <1>1, <1>4, ThinnedByLoss DEF ReadMerged
    <2>2. \A t \in Threads : pc'[t] # "free" =>
             (pc[t] # "free" /\ job'[t] = job[t]) \/ job'[t].kind = "chunk"
      <3>1. CASE UNCHANGED threads
        BY <3>1 DEF threads
      <3>2. CASE ~UNCHANGED threads
        <4>1. PICK u \in Chunked : \E k \in 1 .. next[u] :
                 /\ job' = [job EXCEPT !["main"] =
                               [kind |-> "chunk", upload |-> Head(wire).upload,
                                data |-> Append(<<Piece(u, k)>>, Junk)]]
                 /\ pc' = [pc EXCEPT !["main"] = "find"]
          BY <1>1, <1>4, <3>2, SavesByHand
        <4> QED
          BY <1>1, <4>1 DEF ThreadsOK
      <3> QED
        BY <3>1, <3>2
    <2>3. UNCHANGED <<timer, disk>>
      BY <1>4 DEF ReadMerged, client
    <2> QED
      BY <1>1, <2>1, <2>2, <2>3, FinalsThin
  <1>5. ASSUME NEW w \in Workers, Take(w) PROVE FinalOnce'
    BY <1>1, <1>5, FinalsTaken
  <1>6. ASSUME NEW t \in Threads, HandlerStep(t) PROVE FinalOnce'
    <2>1. CASE saveImage(t)
      BY <1>1, <2>1, FinalsSaved
    <2>2. CASE ~saveImage(t)
      <3>1. disk' = disk
        BY <1>6, <2>2 DEF HandlerStep, handleChunkedImageStart, Find, Refer, ReadData, WriteData,
           ReadCount, WriteCount, TakeEntry
      <3>2. /\ UNCHANGED <<client, link>> /\ queue' = queue
            /\ \A s \in Threads : pc'[s] # "free" => pc[s] # "free" /\ job'[s] = job[s]
        BY <1>6, HandlerLeaves
      <3>3. Thinned([i \in DOMAIN queue' |-> i])
        BY <1>1, <3>2, ThinnedByNothing
      <3> QED
        BY <1>1, <3>1, <3>2, <3>3, FinalsThin DEF client
    <2> QED
      BY <2>1, <2>2
  <1> QED
    BY <1>2, <1>3, <1>4, <1>5, <1>6 DEF Next

\* An answer is one that was on its way, or a thread's about the upload of its message.
LEMMA AnswersFrom ==
    ASSUME UploadInv, [Next]_vars
    PROVE  \A i \in DOMAIN answers' :
              \/ \E j \in DOMAIN answers : answers'[i] = answers[j]
              \/ \E t \in Threads : pc[t] # "free" /\ answers'[i].upload = Subject(t)
  <1>1. LinkOK /\ answers \in Seq(Answers)
    BY DEF UploadInv, TypeOK, LinkOK, Answers
  <1>2. answers' = answers => \A i \in DOMAIN answers' : \E j \in DOMAIN answers : answers'[i] = answers[j]
    OBVIOUS
  <1>3. CASE handleResponse
    <2>1. answers # << >> /\ answers' = Tail(answers)
      BY <1>3 DEF handleResponse
    <2> QED
      BY <1>1, <2>1, TailFacts
  <1>4. CASE LoseAnswers
    <2>1. answers # << >> /\ Tail(answers) # << >> /\ answers' = Tail(Tail(answers))
      <3>1. answers' = Tail(Tail(answers)) /\ Len(answers) >= 2
        BY <1>4 DEF LoseAnswers
      <3>2. answers # << >>
        BY <1>1, <3>1
      <3>3. Tail(answers) \in Seq(Answers) /\ Len(Tail(answers)) >= 1
        BY <1>1, <3>1, <3>2, TailFacts
      <3>4. ASSUME NEW r \in Seq(Answers), Len(r) >= 1 PROVE r # << >>
        BY <3>4
      <3> QED
        BY <3>1, <3>2, <3>3, <3>4
    <2>2. Tail(answers) \in Seq(Answers)
      BY <1>1, <2>1, TailFacts
    <2>3. \A i \in DOMAIN answers' : i + 1 \in DOMAIN Tail(answers) /\ answers'[i] = Tail(answers)[i + 1]
      BY <2>1, <2>2, TailFacts
    <2>4. \A i \in DOMAIN Tail(answers) : i + 1 \in DOMAIN answers /\ Tail(answers)[i] = answers[i + 1]
      BY <1>1, <2>1, TailFacts
    <2> QED
      BY <2>3, <2>4
  <1>5. CASE Disconnect
    BY <1>5 DEF Disconnect
  <1>6. ASSUME NEW t \in Threads, HandlerStep(t)
        PROVE  \A i \in DOMAIN answers' :
                  \/ \E j \in DOMAIN answers : answers'[i] = answers[j]
                  \/ pc[t] # "free" /\ answers'[i].upload = Subject(t)
    <2>1. pc[t] # "free"
      BY <1>6, HandlerLeaves
    <2>2. answers' = answers \/ \E ok \in BOOLEAN : Answer(Subject(t), ok)
      BY <1>6 DEF HandlerStep, handleChunkedImageStart, Find, Refer, ReadData, WriteData, ReadCount,
         WriteCount, TakeEntry, saveImage
    <2>3. ASSUME NEW a \in Answers, answers' = Append(answers, a), a.upload = Subject(t)
          PROVE  \A i \in DOMAIN answers' :
                    \/ \E j \in DOMAIN answers : answers'[i] = answers[j]
                    \/ pc[t] # "free" /\ answers'[i].upload = Subject(t)
      <3>1. \A i \in DOMAIN answers' : (i \in DOMAIN answers /\ answers'[i] = answers[i]) \/ answers'[i] = a
        BY <1>1, <2>3
      <3> QED
        BY <2>1, <2>3, <3>1
    <2>4. Subject(t) \in Uploads
      BY <2>1 DEF UploadInv, ThreadFits, Jobs, Subject
    <2>5. ASSUME NEW ok \in BOOLEAN, Answer(Subject(t), ok)
          PROVE  \/ answers' = answers
                 \/ \E a \in Answers : a.upload = Subject(t) /\ answers' = Append(answers, a)
      <3>1. [upload |-> Subject(t), success |-> ok] \in Answers
        BY <2>4 DEF Answers
      <3> QED
        BY <2>5, <3>1 DEF Answer
    <2> QED
      BY <1>2, <2>2, <2>3, <2>5
  <1>7. \/ answers' = answers \/ handleResponse \/ LoseAnswers \/ Disconnect
        \/ \E t \in Threads : HandlerStep(t)
    BY DEF Next, vars, sendImageMessage, sendNextImageChunk, handleClientData, ReadTorn, ReadMerged, Take
  <1> QED
    BY <1>2, <1>3, <1>4, <1>5, <1>6, <1>7

\* A message on its way was there before, or has just been sent by the client.
LEMMA QueueFrom ==
    ASSUME UploadInv, SourceInv, [Next]_vars
    PROVE  \A i \in DOMAIN queue' :
              \/ \E j \in DOMAIN queue : queue'[i] = queue[j]
              \/ \E u \in Uploads : queue'[i].upload = u /\ (sendImageMessage(u) \/ sendNextImageChunk(u))
  <1>1. UploadInv /\ MessageFits /\ ClientFits /\ LinkOK
    BY DEF SourceInv, UploadInv, TypeOK
  <1>2. ASSUME NEW f, Thinned(f) PROVE \A i \in DOMAIN queue' : \E j \in DOMAIN queue : queue'[i] = queue[j]
    BY <1>2 DEF Thinned
  <1>3. CASE \/ handleResponse \/ LoseAnswers \/ Disconnect \/ handleClientData \/ ReadTorn
             \/ UNCHANGED vars
    BY <1>1, <1>2, <1>3, OutsideThins
  <1>4. ASSUME NEW u \in Uploads, sendImageMessage(u) \/ sendNextImageChunk(u)
        PROVE  \A i \in DOMAIN queue' :
                  (\E j \in DOMAIN queue : queue'[i] = queue[j]) \/ queue'[i].upload = u
    <2>1. PICK ms \in Seq(Jobs) : Added(u, ms)
      BY <1>1, <1>4, ClientAdds
    <2>2. queue \in Seq(Jobs) /\ queue' = queue \o ms
      BY <1>1, <2>1, QueueFacts DEF Added
    <2>3. \A i \in DOMAIN queue' :
             \/ i \in DOMAIN queue /\ queue'[i] = queue[i]
             \/ i - Len(queue) \in DOMAIN ms /\ queue'[i] = ms[i - Len(queue)]
      BY <2>2, Longer
    <2> QED
      BY <2>1, <2>3 DEF Added
  <1>5. ASSUME NEW n \in 1 .. Len(wire), ReadMerged(n)
        PROVE  \A i \in DOMAIN queue' : \E j \in DOMAIN queue : queue'[i] = queue[j]
    BY <1>1, <1>2, <1>5, ThinnedByLoss DEF ReadMerged
  <1>6. ASSUME NEW w \in Workers, Take(w)
        PROVE  \A i \in DOMAIN queue' : \E j \in DOMAIN queue : queue'[i] = queue[j]
    BY <1>1, <1>2, <1>6, ThinnedByTake
  <1>7. ASSUME NEW t \in Threads, HandlerStep(t)
        PROVE  \A i \in DOMAIN queue' : \E j \in DOMAIN queue : queue'[i] = queue[j]
    BY <1>1, <1>7, HandlerLeaves
  <1> QED
    BY <1>3, <1>4, <1>5, <1>6, <1>7 DEF Next

\* A thread works on what it worked on, or on something from the queue, or saves a chunk by hand
\* for an upload from the queue.
LEMMA SubjectsFrom ==
    ASSUME UploadInv, SourceInv, [Next]_vars
    PROVE  \A t \in Threads : pc'[t] # "free" =>
              \/ pc[t] # "free" /\ Subject(t)' = Subject(t)
              \/ \E j \in DOMAIN queue : Subject(t)' = queue[j].upload
  <1>1. UploadInv /\ MessageFits /\ LinkOK /\ ThreadsOK
    BY DEF SourceInv, UploadInv, TypeOK
  <1>2. CASE UNCHANGED threads
    BY <1>2 DEF threads, Subject
  <1>3. ASSUME NEW n \in 1 .. Len(wire), ReadMerged(n), ~UNCHANGED threads
        PROVE  \A t \in Threads :
                  \/ pc'[t] = pc[t] /\ job'[t] = job[t]
                  \/ \E j \in DOMAIN queue : job'[t].upload = queue[j].upload
    <2>1. PICK u \in Chunked : \E k \in 1 .. next[u] :
             /\ job' = [job EXCEPT !["main"] =
                           [kind |-> "chunk", upload |-> Head(wire).upload,
                            data |-> Append(<<Piece(u, k)>>, Junk)]]
             /\ pc' = [pc EXCEPT !["main"] = "find"]
      BY <1>1, <1>3, SavesByHand
    <2>2. Head(wire) = wire[1] /\ 1 \in DOMAIN wire
      BY <1>1 DEF LinkOK
    <2>3. \E j \in DOMAIN queue : queue[j] = Head(wire)
      BY <1>1, <2>2, QueueFacts
    <2> QED
      BY <1>1, <2>1, <2>3 DEF ThreadsOK
  <1>4. ASSUME NEW w \in Workers, Take(w)
        PROVE  \A t \in Threads :
                  \/ pc'[t] = pc[t] /\ job'[t] = job[t]
                  \/ \E j \in DOMAIN queue : job'[t].upload = queue[j].upload
    BY <1>1, <1>4, TakesFirst DEF ThreadsOK
  <1>5. ASSUME NEW s \in Threads, HandlerStep(s)
        PROVE  \A t \in Threads : pc'[t] # "free" => pc[t] # "free" /\ job'[t] = job[t]
    BY <1>1, <1>5, HandlerLeaves
  <1>6. \/ UNCHANGED threads
        \/ \E n \in 1 .. Len(wire) : ReadMerged(n)
        \/ \E w \in Workers : Take(w)
        \/ \E t \in Threads : HandlerStep(t)
    BY DEF Next, vars, sendImageMessage, sendNextImageChunk, handleResponse, LoseAnswers, Disconnect,
       handleClientData, ReadTorn
  <1> QED
    BY <1>2, <1>3, <1>4, <1>5, <1>6 DEF Subject

\* So all that is on its way stays of uploads that are begun.
LEMMA OfferedKept ==
    ASSUME UploadInv, SourceInv, Offered, [Next]_vars
    PROVE  Offered'
  <1>1. UploadInv' /\ ClientFits /\ ClientOK
    BY NextFits DEF SourceInv, UploadInv, TypeOK
  <1>2. \A u : Begun(u) => Begun(u)'
    BY StaysBegun
  <1>3. ASSUME NEW u \in Uploads, sendImageMessage(u) \/ sendNextImageChunk(u) PROVE Begun(u)'
    BY <1>1, <1>3 DEF Begun, ClientOK, ClientFits, sendImageMessage, sendNextImageChunk
  <1>4. ASSUME NEW i \in DOMAIN queue' PROVE Begun(queue[i].upload)'
    <2>1. PICK u : u = queue'[i].upload
      OBVIOUS
    <2>2. Begun(u)'
      BY <1>2, <1>3, <2>1, QueueFrom DEF Offered
    <2> QED
      BY <2>1, <2>2
  <1>5. ASSUME NEW t \in Threads, pc'[t] # "free" PROVE Begun(Subject(t))'
    <2>1. PICK u : u = Subject(t)'
      OBVIOUS
    <2>2. Begun(u)'
      BY <1>2, <1>5, <2>1, SubjectsFrom DEF Offered
    <2> QED
      BY <2>1, <2>2
  <1>6. ASSUME NEW i \in DOMAIN answers' PROVE Begun(answers[i].upload)'
    <2>1. PICK u : u = answers'[i].upload
      OBVIOUS
    <2>2. Begun(u)'
      BY <1>2, <2>1, AnswersFrom DEF Offered
    <2> QED
      BY <2>1, <2>2
  <1> QED
    BY <1>4, <1>5, <1>6 DEF Offered

\* The last message of an upload is in one place at most, in none once its file is written, and
\* nothing on its way is of an upload that the client has not begun.
THEOREM StoreInvariant == Spec => []StoreInv
  <1>1. Init => StoreInv
    <2> SUFFICES ASSUME Init PROVE StoreInv
      OBVIOUS
    <2>1. DOMAIN queue = {} /\ DOMAIN disk = {} /\ \A t \in Threads : pc[t] = "free"
      BY DEF Init, queue
    <2>2. DOMAIN answers = {}
      <3>1. answers = << >>
        BY DEF Init
      <3> QED
        BY <3>1
    <2>3. \A u \in Uploads : ~timer[u]
      BY DEF Init
    <2> QED
      BY <2>1, <2>2, <2>3 DEF StoreInv, FinalOnce, OneFinal, NoFinal, Finishes, Offered
  <1>2. UploadInv /\ (SourceInv /\ OnceInv) /\ StoreInv /\ [Next]_vars => StoreInv'
    BY FinalsKept, OfferedKept DEF StoreInv
  <1> QED
    BY <1>1, <1>2, UploadInvariant, SourceInvariant, PTL DEF Spec

\* A handler's step stores the image of its message, which was not stored before, or stutters.
LEMMA HandlerPromised ==
    ASSUME UploadInv, UploadInv', SourceInv, OnceInv', StoreInv, NEW t \in Threads, HandlerStep(t)
    PROVE  [Promised!Next]_(Promised!vars)
  <1>1. UNCHANGED client
    BY HandlerLeaves
  <1>2. CASE disk' = disk
    BY <1>1, <1>2 DEF client, Promised!vars
  <1>3. CASE saveImage(t) /\ disk' = Insert(disk, Subject(t), Written(t))
    <2>1. PICK u : u = Subject(t)
      OBVIOUS
    <2>2. u \in Uploads /\ upload[u] # "new" /\ u \notin DOMAIN disk
      BY <1>3, <2>1, FinalsSaved DEF Begun, SourceInv
    <2>3. DOMAIN disk' = DOMAIN disk \cup {u} /\ \A v \in DOMAIN disk : disk'[v] = disk[v]
      BY <1>3, <2>1, <2>2 DEF Insert
    <2>4. Promised!OncePerPiece(disk'[u])
      BY <2>3 DEF OnceInv, CollectedFits, Collected, Distinct, Promised!OncePerPiece
    <2>5. Promised!Store(u)
      BY <1>1, <2>2, <2>3, <2>4 DEF client, Promised!Store
    <2> QED
      BY <2>2, <2>5 DEF Promised!Next
  <1>4. disk' = disk \/ (saveImage(t) /\ disk' = Insert(disk, Subject(t), Written(t)))
    BY DEF HandlerStep, handleChunkedImageStart, Find, Refer, ReadData, WriteData, ReadCount,
       WriteCount, TakeEntry, saveImage
  <1> QED
    BY <1>2, <1>3, <1>4

\* An answer that the client handles announces the image or gives it up, or comes too late.
LEMMA ResponsePromised ==
    ASSUME UploadInv, StoreInv, handleResponse
    PROVE  [Promised!Next]_(Promised!vars)
  <1>1. PICK u, ok : u = Head(answers).upload /\ ok = Head(answers).success
    OBVIOUS
  <1>2. ClientOK /\ LinkOK /\ answers \in Seq(Answers) /\ answers # << >>
    BY DEF UploadInv, TypeOK, LinkOK, Answers, handleResponse
  <1>3. 1 \in DOMAIN answers /\ Head(answers) = answers[1]
    BY <1>2
  <1>4. Begun(u) /\ (ok => u \in DOMAIN disk)
    BY <1>1, <1>3 DEF StoreInv, Offered, UploadInv, SuccessIsStored
  <1>5. /\ upload' = [upload EXCEPT ![u] = IF ok \/ u \in Chunked THEN "gone" ELSE @]
        /\ messages' = IF ok /\ upload[u] = "pending" /\ connected THEN messages \cup {u} ELSE messages
        /\ disk' = disk
    BY <1>1 DEF handleResponse
  <1>6. u \in Uploads /\ upload[u] \in {"pending", "gone"}
    BY <1>2, <1>4 DEF Begun, ClientOK
  <1>7. CASE upload[u] = "gone"
    <2>1. upload' = upload /\ messages' = messages
      BY <1>2, <1>5, <1>6, <1>7 DEF ClientOK
    <2> QED
      BY <1>5, <2>1 DEF Promised!vars
  <1>8. CASE upload[u] = "pending" /\ ok /\ connected
    <2>1. Promised!Announce(u)
      BY <1>4, <1>5, <1>8 DEF Promised!Announce
    <2> QED
      BY <1>6, <2>1 DEF Promised!Next
  <1>9. CASE upload[u] = "pending" /\ (ok \/ u \in Chunked) /\ ~(ok /\ connected)
    <2>1. Promised!GiveUp(u)
      BY <1>5, <1>9 DEF Promised!GiveUp
    <2> QED
      BY <1>6, <2>1 DEF Promised!Next
  <1>10. CASE upload[u] = "pending" /\ ~(ok \/ u \in Chunked)
    <2>1. upload' = upload /\ messages' = messages
      BY <1>2, <1>5, <1>6, <1>10 DEF ClientOK
    <2> QED
      BY <1>5, <2>1 DEF Promised!vars
  <1> QED
    BY <1>6, <1>7, <1>8, <1>9, <1>10

\* Every step of the upload is one step of ImageService, or none.
LEMMA UploadStepRefines ==
    ASSUME UploadInv, UploadInv', SourceInv, OnceInv', StoreInv, [Next]_vars
    PROVE  [Promised!Next]_(Promised!vars)
  <1>1. ClientOK /\ ClientFits
    BY DEF UploadInv, TypeOK, SourceInv
  <1>2. CASE UNCHANGED <<upload, messages, disk>>
    BY <1>2 DEF Promised!vars
  <1>3. ASSUME NEW u \in Uploads, sendImageMessage(u) PROVE [Promised!Next]_(Promised!vars)
    <2>1. Promised!Offer(u)
      BY <1>3 DEF sendImageMessage, Promised!Offer
    <2> QED
      BY <1>3, <2>1 DEF Promised!Next
  <1>4. ASSUME NEW u \in Uploads, sendNextImageChunk(u) PROVE [Promised!Next]_(Promised!vars)
    <2>1. timer[u] /\ upload[u] \in {"pending", "gone"} /\ messages' = messages /\ disk' = disk
      BY <1>1, <1>4 DEF ClientOK, ClientFits, sendNextImageChunk
    <2>2. upload' = upload \/ upload' = [upload EXCEPT ![u] = "gone"]
      BY <1>1, <1>4 DEF ClientOK, sendNextImageChunk
    <2>3. CASE upload[u] = "pending" /\ upload' = [upload EXCEPT ![u] = "gone"]
      <3>1. Promised!GiveUp(u)
        BY <2>1, <2>3 DEF Promised!GiveUp
      <3> QED
        BY <1>4, <3>1 DEF Promised!Next
    <2>4. CASE upload' = upload
      BY <1>2, <2>1, <2>4
    <2>5. upload[u] = "gone" => [upload EXCEPT ![u] = "gone"] = upload
      BY <1>1 DEF ClientOK
    <2> QED
      BY <2>1, <2>2, <2>3, <2>4, <2>5
  <1>5. CASE handleResponse
    BY <1>5, ResponsePromised
  <1>6. ASSUME NEW t \in Threads, HandlerStep(t) PROVE [Promised!Next]_(Promised!vars)
    BY <1>6, HandlerPromised
  <1>7. \/ UNCHANGED <<upload, messages, disk>>
        \/ \E u \in Uploads : sendImageMessage(u) \/ sendNextImageChunk(u)
        \/ handleResponse
        \/ \E t \in Threads : HandlerStep(t)
    BY DEF Next, vars, client, LoseAnswers, Disconnect, handleClientData, ReadTorn, ReadMerged, Take
  <1> QED
    BY <1>2, <1>3, <1>4, <1>5, <1>6, <1>7

\* However messages are torn, merged, lost or handled at the same time, an image is stored at most
\* once, and told to the friend at most once, behind its storing.
THEOREM UploadsImplementImageService == Spec => ImplementsImageService
  <1>1. Init => Promised!Init
    BY DEF Init, Promised!Init
  <1>2. UploadInv /\ UploadInv' /\ (SourceInv /\ OnceInv) /\ (SourceInv /\ OnceInv)' /\ StoreInv
        /\ [Next]_vars => [Promised!Next]_(Promised!vars)
    <2> SUFFICES ASSUME UploadInv, UploadInv', SourceInv, OnceInv, SourceInv', OnceInv',
                        StoreInv, [Next]_vars
                 PROVE  [Promised!Next]_(Promised!vars)
      OBVIOUS
    <2> QED
      BY UploadStepRefines
  <1> QED
    BY <1>1, <1>2, UploadInvariant, SourceInvariant, StoreInvariant, PTL
    DEF Spec, ImplementsImageService, Promised!Spec
-----------------------------------------------------------------------------
(* An upload of which every message was read alone and handled alone: its  *)
(* messages are handled in the order in which they were sent, each when    *)
(* what was collected is what the messages before it have brought.         *)

\* The place of a message among those of its upload.
At(m) == CASE m.kind = "start" -> 0
           [] m.kind = "end" -> Chunks + 1
           [] OTHER -> First(m).at

\* The first k pieces; an entry that has n counted and the first k collected.
Part(u, k) == [i \in 1 .. k |-> Piece(u, i)]
Collects(u, n, k) ==
    /\ u \in DOMAIN entry
    /\ entry[u].total = Chunks /\ entry[u].received = n /\ entry[u].data = Part(u, k)

\* What a thread has before it, and has read, when it handles chunk k, and when it handles the end.
ChunkFits(t, u, k) ==
    /\ ~lost[t]
    /\ Early(t) => Collects(u, k - 1, k - 1)
    /\ pc[t] = "write" => data[t] = Part(u, k - 1)
    /\ pc[t] \in {"count", "increment"} => Collects(u, k - 1, k)
    /\ pc[t] = "increment" => count[t] = k - 1
EndFits(t, u) ==
    /\ pc[t] \in {"find", "take"} => Collects(u, Chunks, Chunks)
    /\ pc[t] = "save" => data[t] = Image(u)
HandlerFits(t, u) ==
    /\ job[t].kind = "chunk" => ChunkFits(t, u, At(job[t]))
    /\ job[t].kind = "end" => EndFits(t, u)

Handles(t, u) == pc[t] # "free" /\ Subject(t) = u

\* The messages before place lo have been given to threads; the last of them may still be in work.
Progress(u, lo) ==
    /\ \A t \in Threads : Handles(t, u) =>
          /\ \A s \in Threads : pc[s] # "free" => s = t
          /\ At(job[t]) = lo - 1
          /\ HandlerFits(t, u)
    /\ (\A t \in Threads : ~Handles(t, u)) /\ lo \in 1 .. Chunks + 1 => Collects(u, lo - 1, lo - 1)

\* The messages from lo on are in the queue, in their order and without a gap, up to the last one
\* that was sent, unless the connection has ended.
Queued(u, p) == \E j \in DOMAIN queue : queue[j].upload = u /\ At(queue[j]) = p
Ahead(u, lo) == \A i \in DOMAIN queue : queue[i].upload = u =>
    /\ lo <= At(queue[i])
    /\ \A p \in lo .. At(queue[i]) - 1 :
          \E j \in DOMAIN queue : j < i /\ queue[j].upload = u /\ At(queue[j]) = p
Single(u) == \A i, j \in DOMAIN queue :
    queue[i].upload = u /\ queue[j].upload = u /\ At(queue[i]) = At(queue[j]) => i = j
Complete(u, lo) == connected /\ timer[u] => \A p \in lo .. next[u] : Queued(u, p)
Limited(u, lo) == timer[u] =>
    /\ lo <= next[u] + 1
    /\ \A i \in DOMAIN queue : queue[i].upload = u => At(queue[i]) <= next[u]
Unsent(u, lo) == upload[u] = "new" =>
    lo = 0 /\ \A i \in DOMAIN queue : queue[i].upload # u
InOrder(u, lo) == Ahead(u, lo) /\ Single(u) /\ Complete(u, lo) /\ Limited(u, lo) /\ Unsent(u, lo)

Undisturbed ==
    \A u \in Chunked \ disturbed : \E lo \in 0 .. Chunks + 2 : Progress(u, lo) /\ InOrder(u, lo)
-----------------------------------------------------------------------------
\* The places of the messages of an image in chunks.
LEMMA Places3 ==
    ASSUME NEW u
    PROVE  /\ At(Start(u)) = 0 /\ At(End(u)) = Chunks + 1
           /\ \A k \in Nat : At(Chunk(u, k)) = k
  BY DEF At, Start, End, Chunk, First, Piece

\* The place of a message that was sent says what it is.
LEMMA SentAt ==
    ASSUME ClientOK, NEW m, SentMessage(m), m.upload \in Chunked
    PROVE  /\ At(m) \in 0 .. Chunks + 1
           /\ m.kind = "start" => At(m) = 0
           /\ m.kind = "end" => At(m) = Chunks + 1
           /\ m.kind = "chunk" => At(m) \in 1 .. Chunks /\ m = Chunk(m.upload, At(m))
           /\ m.kind \in {"start", "chunk", "end"}
  <1>1. Chunks \in Nat \ {0} /\ \A u \in Chunked : next[u] \in 0 .. Chunks
    BY ImageUploadAssumption DEF ClientOK
  <1>2. m.kind \in {"start", "chunk", "end"}
    BY SentKinds
  <1>3. m.kind = "start" => At(m) = 0
    BY DEF At
  <1>4. m.kind = "end" => At(m) = Chunks + 1
    BY DEF At
  <1>5. m.kind = "chunk" => At(m) \in 1 .. Chunks /\ m = Chunk(m.upload, At(m))
    <2> HAVE m.kind = "chunk"
    <2>1. PICK k \in 1 .. next[m.upload] : m = Chunk(m.upload, k)
      BY SentKinds
    <2>2. k \in 1 .. Chunks /\ k \in Nat
      BY <1>1
    <2>3. At(m) = k
      BY <2>1, <2>2, Places3
    <2> QED
      BY <2>1, <2>2, <2>3
  <1> QED
    BY <1>1, <1>2, <1>3, <1>4, <1>5

\* A queue whose messages of an upload are what they were, in their order.
Moved(u, f) ==
    /\ \A i \in DOMAIN queue' : queue'[i].upload = u => f[i] \in DOMAIN queue /\ queue'[i] = queue[f[i]]
    /\ \A i, j \in DOMAIN queue' :
          queue'[i].upload = u /\ queue'[j].upload = u /\ i < j => f[i] < f[j]
    /\ \A j \in DOMAIN queue : queue[j].upload = u =>
          \E i \in DOMAIN queue' : f[i] = j /\ queue'[i].upload = u

\* The places of the queue are numbers, before and after a step.
LEMMA Indices ==
    ASSUME UploadInv, UploadInv'
    PROVE  DOMAIN queue \subseteq Nat /\ DOMAIN queue' \subseteq Nat
  <1>1. LinkOK /\ LinkOK'
    BY DEF UploadInv, TypeOK
  <1>2. DOMAIN queue \subseteq Nat
    BY <1>1, QueueFacts
  <1>3. tasks' \in Seq(Jobs) /\ wire' \in Seq(Jobs) /\ queue' = tasks' \o wire'
    BY <1>1 DEF LinkOK, queue
  <1> QED
    BY <1>2, <1>3, Longer

\* The order is kept when the messages of the upload are what they were, in their order.
LEMMA OrderMoved ==
    ASSUME UploadInv, UploadInv', NEW u, NEW lo, InOrder(u, lo), NEW f, Moved(u, f),
           connected' => connected, timer'[u] = timer[u], next'[u] = next[u],
           upload'[u] = "new" => upload[u] = "new"
    PROVE  InOrder(u, lo)'
  <1>1. DOMAIN queue \subseteq Nat /\ DOMAIN queue' \subseteq Nat
    BY Indices
  <1>2. \A i \in DOMAIN queue' : queue'[i].upload = u =>
           f[i] \in DOMAIN queue /\ queue'[i] = queue[f[i]] /\ queue[f[i]].upload = u
    BY DEF Moved
  <1>3. \A j \in DOMAIN queue : queue[j].upload = u =>
           \E i \in DOMAIN queue' : f[i] = j /\ queue'[i].upload = u /\ queue'[i] = queue[j]
    BY <1>2 DEF Moved
  <1>4. ASSUME NEW i \in DOMAIN queue', NEW j \in DOMAIN queue',
               queue'[i].upload = u, queue'[j].upload = u
        PROVE  (f[i] < f[j] => i < j) /\ (f[i] = f[j] => i = j)
    <2>1. (i < j => f[i] < f[j]) /\ (j < i => f[j] < f[i])
      BY <1>4 DEF Moved
    <2>2. i \in Nat /\ j \in Nat /\ f[i] \in Nat /\ f[j] \in Nat
      BY <1>1, <1>2, <1>4
    <2> QED
      BY <2>1, <2>2
  <1>5. Ahead(u, lo)'
    <2> SUFFICES ASSUME NEW i \in DOMAIN queue', queue'[i].upload = u
                 PROVE  /\ lo <= At(queue'[i])
                        /\ \A p \in lo .. At(queue'[i]) - 1 : \E j \in DOMAIN queue' :
                              j < i /\ queue'[j].upload = u /\ At(queue'[j]) = p
      BY DEF Ahead, At, First
    <2>1. f[i] \in DOMAIN queue /\ queue'[i] = queue[f[i]] /\ queue[f[i]].upload = u
      BY <1>2
    <2>2. lo <= At(queue'[i])
      BY <2>1 DEF InOrder, Ahead
    <2>3. ASSUME NEW p \in lo .. At(queue'[i]) - 1
          PROVE  \E j \in DOMAIN queue' : j < i /\ queue'[j].upload = u /\ At(queue'[j]) = p
      <3>1. PICK j0 \in DOMAIN queue : j0 < f[i] /\ queue[j0].upload = u /\ At(queue[j0]) = p
        BY <2>1 DEF InOrder, Ahead
      <3>2. PICK j \in DOMAIN queue' : f[j] = j0 /\ queue'[j].upload = u /\ queue'[j] = queue[j0]
        BY <1>3, <3>1
      <3> QED
        BY <1>4, <3>1, <3>2
    <2> QED
      BY <2>2, <2>3
  <1>6. Single(u)'
    <2> SUFFICES ASSUME NEW i \in DOMAIN queue', NEW j \in DOMAIN queue', queue'[i].upload = u,
                        queue'[j].upload = u, At(queue'[i]) = At(queue'[j])
                 PROVE  i = j
      BY DEF Single, At, First
    <2> QED
      BY <1>2, <1>4 DEF InOrder, Single
  <1>7. Complete(u, lo)'
    <2> SUFFICES ASSUME connected', timer'[u], NEW p \in lo .. next'[u]
                 PROVE  \E j \in DOMAIN queue' : queue'[j].upload = u /\ At(queue'[j]) = p
      BY DEF Complete, Queued, At, First
    <2>1. PICK j0 \in DOMAIN queue : queue[j0].upload = u /\ At(queue[j0]) = p
      BY DEF InOrder, Complete, Queued
    <2> QED
      BY <1>3, <2>1
  <1>8. Limited(u, lo)'
    <2> SUFFICES ASSUME timer'[u]
                 PROVE  /\ lo <= next'[u] + 1
                        /\ \A i \in DOMAIN queue' : queue'[i].upload = u => At(queue'[i]) <= next'[u]
      BY DEF Limited, At, First
    <2> QED
      BY <1>2 DEF InOrder, Limited
  <1>9. Unsent(u, lo)'
    BY <1>2 DEF InOrder, Unsent
  <1> QED
    BY <1>5, <1>6, <1>7, <1>8, <1>9 DEF InOrder

\* The connection ends: what is in the pool's queue stays, in its order.
LEMMA OrderCut ==
    ASSUME UploadInv, UploadInv', NEW u, NEW lo, InOrder(u, lo), Disconnect
    PROVE  InOrder(u, lo)'
  <1>1. /\ DOMAIN queue' \subseteq DOMAIN queue
        /\ \A i \in DOMAIN queue' : queue'[i] = queue[i] /\ i \in Nat
        /\ \A i \in DOMAIN queue' : \A j \in 1 .. i - 1 : j \in DOMAIN queue'
    BY ThinnedByDisconnect DEF UploadInv, TypeOK
  <1>2. \A j \in DOMAIN queue : j \in Nat /\ j >= 1
    BY QueueFacts DEF UploadInv, TypeOK
  <1>3. ~connected' /\ timer' = timer /\ next' = next /\ upload' = upload
    BY DEF Disconnect, client
  <1>4. Ahead(u, lo)'
    <2> SUFFICES ASSUME NEW i \in DOMAIN queue', queue'[i].upload = u
                 PROVE  /\ lo <= At(queue'[i])
                        /\ \A p \in lo .. At(queue'[i]) - 1 : \E j \in DOMAIN queue' :
                              j < i /\ queue'[j].upload = u /\ At(queue'[j]) = p
      BY DEF Ahead, At, First
    <2>1. lo <= At(queue'[i])
      BY <1>1 DEF InOrder, Ahead
    <2>2. ASSUME NEW p \in lo .. At(queue'[i]) - 1
          PROVE  \E j \in DOMAIN queue' : j < i /\ queue'[j].upload = u /\ At(queue'[j]) = p
      <3>1. PICK j \in DOMAIN queue : j < i /\ queue[j].upload = u /\ At(queue[j]) = p
        BY <1>1 DEF InOrder, Ahead
      <3>2. j \in 1 .. i - 1
        BY <1>1, <1>2, <3>1
      <3> QED
        BY <1>1, <3>1, <3>2
    <2> QED
      BY <2>1, <2>2
  <1>5. Single(u)'
    BY <1>1 DEF InOrder, Single, At, First
  <1>6. Complete(u, lo)'
    BY <1>3 DEF Complete
  <1>7. Limited(u, lo)'
    BY <1>1, <1>3 DEF InOrder, Limited, At, First
  <1>8. Unsent(u, lo)'
    BY <1>1, <1>3 DEF InOrder, Unsent
  <1> QED
    BY <1>4, <1>5, <1>6, <1>7, <1>8 DEF InOrder

\* A worker takes the first message of the upload from the front of the queue: it is the one at lo.
LEMMA OrderTaken ==
    ASSUME UploadInv, UploadInv', SourceInv, NEW u \in Chunked, NEW lo \in Nat, InOrder(u, lo),
           NEW w \in Workers, Take(w), queue[1].upload = u
    PROVE  At(queue[1]) = lo /\ InOrder(u, lo + 1)'
  <1>1. /\ 1 \in DOMAIN queue
        /\ \A i \in DOMAIN queue' :
              i \in Nat /\ i + 1 \in DOMAIN queue /\ queue'[i] = queue[i + 1]
        /\ \A i \in DOMAIN queue : i = 1 \/ (i - 1 \in DOMAIN queue' /\ queue'[i - 1] = queue[i])
    BY QueueTake DEF UploadInv, TypeOK
  <1>2. /\ \A j \in DOMAIN queue : j \in Nat /\ j >= 1
        /\ \A j \in DOMAIN queue' : j \in Nat /\ j >= 1
    <2>1. \A j \in DOMAIN queue : j \in Nat /\ j >= 1
      BY QueueFacts DEF UploadInv, TypeOK
    <2>2. tasks' \in Seq(Jobs) /\ wire' \in Seq(Jobs) /\ queue' = tasks' \o wire'
      BY DEF UploadInv, TypeOK, LinkOK, queue
    <2> QED
      BY <2>1, <2>2, Longer
  <1>3. \A i \in DOMAIN queue : queue[i].upload = u => At(queue[i]) \in Nat
    <2> TAKE i \in DOMAIN queue
    <2> HAVE queue[i].upload = u
    <2>1. SentMessage(queue[i])
      BY DEF SourceInv, MessageFits
    <2>2. At(queue[i]) \in 0 .. Chunks + 1
      BY <2>1, SentAt DEF UploadInv, TypeOK
    <2> QED
      BY <2>2
  <1>4. At(queue[1]) = lo
    <2>1. lo <= At(queue[1]) /\ At(queue[1]) \in Nat
      BY <1>1, <1>3 DEF InOrder, Ahead
    <2>2. CASE lo < At(queue[1])
      <3>1. lo \in lo .. At(queue[1]) - 1
        BY <2>1, <2>2
      <3>2. PICK j \in DOMAIN queue : j < 1
        BY <1>1, <3>1 DEF InOrder, Ahead
      <3> QED
        BY <1>2, <3>2
    <2> QED
      BY <2>1, <2>2
  <1>5. timer' = timer /\ next' = next /\ upload' = upload /\ connected' = connected
    BY DEF Take, client
  <1>6. \A j \in DOMAIN queue : queue[j].upload = u /\ At(queue[j]) # lo =>
           j - 1 \in DOMAIN queue' /\ queue'[j - 1] = queue[j]
    BY <1>1, <1>4
  <1>7. Ahead(u, lo + 1)'
    <2> SUFFICES ASSUME NEW i \in DOMAIN queue', queue'[i].upload = u
                 PROVE  /\ lo + 1 <= At(queue'[i])
                        /\ \A p \in lo + 1 .. At(queue'[i]) - 1 : \E j \in DOMAIN queue' :
                              j < i /\ queue'[j].upload = u /\ At(queue'[j]) = p
      BY DEF Ahead, At, First
    <2>1. i + 1 \in DOMAIN queue /\ queue'[i] = queue[i + 1] /\ i \in Nat /\ i + 1 # 1
      BY <1>1, <1>2
    <2>2. lo <= At(queue[i + 1]) /\ At(queue[i + 1]) # lo /\ At(queue[i + 1]) \in Nat
      BY <1>1, <1>3, <1>4, <2>1 DEF InOrder, Ahead, Single
    <2>3. ASSUME NEW p \in lo + 1 .. At(queue'[i]) - 1
          PROVE  \E j \in DOMAIN queue' : j < i /\ queue'[j].upload = u /\ At(queue'[j]) = p
      <3>1. p \in lo .. At(queue[i + 1]) - 1 /\ p # lo
        BY <2>1, <2>2
      <3>2. PICK j \in DOMAIN queue : j < i + 1 /\ queue[j].upload = u /\ At(queue[j]) = p
        BY <2>1, <3>1 DEF InOrder, Ahead
      <3>3. j - 1 \in DOMAIN queue' /\ queue'[j - 1] = queue[j] /\ j - 1 < i
        BY <1>2, <1>6, <2>1, <3>1, <3>2
      <3> QED
        BY <3>2, <3>3
    <2> QED
      BY <2>1, <2>2, <2>3
  <1>8. Single(u)'
    <2> SUFFICES ASSUME NEW i \in DOMAIN queue', NEW j \in DOMAIN queue', queue'[i].upload = u,
                        queue'[j].upload = u, At(queue'[i]) = At(queue'[j])
                 PROVE  i = j
      BY DEF Single, At, First
    <2>1. i + 1 = j + 1
      BY <1>1 DEF InOrder, Single
    <2> QED
      BY <1>1, <2>1
  <1>9. Complete(u, lo + 1)'
    <2> SUFFICES ASSUME connected', timer'[u], NEW p \in lo + 1 .. next'[u]
                 PROVE  \E j \in DOMAIN queue' : queue'[j].upload = u /\ At(queue'[j]) = p
      BY DEF Complete, Queued, At, First
    <2>1. p \in lo .. next[u] /\ p # lo
      <3>1. next[u] \in Nat
        BY ImageUploadAssumption DEF UploadInv, TypeOK, ClientOK
      <3> QED
        BY <1>5, <3>1
    <2>2. PICK j \in DOMAIN queue : queue[j].upload = u /\ At(queue[j]) = p
      BY <1>5, <2>1 DEF InOrder, Complete, Queued
    <2> QED
      BY <1>6, <2>1, <2>2
  <1>10. Limited(u, lo + 1)'
    <2> SUFFICES ASSUME timer'[u]
                 PROVE  /\ lo + 1 <= next'[u] + 1
                        /\ \A i \in DOMAIN queue' : queue'[i].upload = u => At(queue'[i]) <= next'[u]
      BY DEF Limited, At, First
    <2>1. next[u] \in Nat
      BY ImageUploadAssumption DEF UploadInv, TypeOK, ClientOK
    <2>2. lo <= next[u]
      BY <1>1, <1>4, <1>5 DEF InOrder, Limited
    <2> QED
      BY <1>1, <1>5, <2>1, <2>2 DEF InOrder, Limited
  <1>11. Unsent(u, lo + 1)'
    BY <1>1, <1>5 DEF InOrder, Unsent
  <1> QED
    BY <1>4, <1>7, <1>8, <1>9, <1>10, <1>11 DEF InOrder

\* The messages of an upload in a queue are those from place lo to place n - 1, in their order.
Line(q, u, lo, n) ==
    /\ \A i \in DOMAIN q : q[i].upload = u =>
          /\ lo <= At(q[i]) /\ At(q[i]) < n /\ At(q[i]) \in Nat
          /\ \A p \in lo .. At(q[i]) - 1 :
                \E j \in DOMAIN q : j < i /\ q[j].upload = u /\ At(q[j]) = p
    /\ \A i, j \in DOMAIN q : q[i].upload = u /\ q[j].upload = u /\ At(q[i]) = At(q[j]) => i = j
    /\ \A p \in lo .. n - 1 : \E j \in DOMAIN q : q[j].upload = u /\ At(q[j]) = p

\* One more message of the upload behind the queue, the one after those that were sent.
LEMMA OrderLonger ==
    ASSUME NEW u, NEW lo \in Nat, NEW n \in Nat, lo <= n, NEW q \in Seq(Jobs), NEW m \in Jobs,
           m.upload = u, At(m) = n, Line(q, u, lo, n)
    PROVE  Line(Append(q, m), u, lo, n + 1)
  <1> DEFINE r == Append(q, m)
  <1>1. /\ r \in Seq(Jobs) /\ DOMAIN r = 1 .. Len(q) + 1 /\ Len(q) \in Nat
        /\ r[Len(q) + 1] = m /\ Len(q) + 1 \in DOMAIN r
        /\ \A i \in DOMAIN q : i \in DOMAIN r /\ r[i] = q[i] /\ i \in Nat /\ i < Len(q) + 1
        /\ \A i \in DOMAIN r : i = Len(q) + 1 \/ i \in DOMAIN q
    OBVIOUS
  <1> HIDE DEF r
  <1>2. \A p \in lo .. n - 1 : \E j \in DOMAIN r : j < Len(q) + 1 /\ r[j].upload = u /\ At(r[j]) = p
    BY <1>1 DEF Line
  <1>3. ASSUME NEW i \in DOMAIN r, r[i].upload = u
        PROVE  /\ lo <= At(r[i]) /\ At(r[i]) < n + 1 /\ At(r[i]) \in Nat
               /\ \A p \in lo .. At(r[i]) - 1 :
                     \E j \in DOMAIN r : j < i /\ r[j].upload = u /\ At(r[j]) = p
    <2>1. CASE i = Len(q) + 1
      BY <1>1, <1>2, <2>1
    <2>2. CASE i \in DOMAIN q
      <3>1. r[i] = q[i] /\ q[i].upload = u
        BY <1>1, <1>3, <2>2
      <3>2. lo <= At(q[i]) /\ At(q[i]) < n /\ At(q[i]) \in Nat
        BY <2>2, <3>1 DEF Line
      <3>3. ASSUME NEW p \in lo .. At(q[i]) - 1
            PROVE  \E j \in DOMAIN r : j < i /\ r[j].upload = u /\ At(r[j]) = p
        <4>1. PICK j \in DOMAIN q : j < i /\ q[j].upload = u /\ At(q[j]) = p
          BY <2>2, <3>1 DEF Line
        <4> QED
          BY <1>1, <4>1
      <3> QED
        BY <3>1, <3>2, <3>3
    <2> QED
      BY <1>1, <2>1, <2>2
  <1>4. \A i, j \in DOMAIN r : r[i].upload = u /\ r[j].upload = u /\ At(r[i]) = At(r[j]) => i = j
    <2> TAKE i, j \in DOMAIN r
    <2> HAVE r[i].upload = u /\ r[j].upload = u /\ At(r[i]) = At(r[j])
    <2>1. \A k \in DOMAIN q : q[k].upload = u => At(q[k]) < n /\ At(q[k]) \in Nat
      BY DEF Line
    <2>2. CASE i \in DOMAIN q /\ j \in DOMAIN q
      BY <1>1, <2>2 DEF Line
    <2>3. CASE i = Len(q) + 1 \/ j = Len(q) + 1
      BY <1>1, <2>1, <2>3
    <2> QED
      BY <1>1, <2>2, <2>3
  <1>5. \A p \in lo .. n + 1 - 1 : \E j \in DOMAIN r : r[j].upload = u /\ At(r[j]) = p
    <2> TAKE p \in lo .. n + 1 - 1
    <2>1. CASE p = n
      BY <1>1, <2>1
    <2>2. CASE p # n
      <3>1. p \in lo .. n - 1
        BY <2>2
      <3> QED
        BY <1>2, <3>1
    <2> QED
      BY <2>1, <2>2
  <1>6. Line(r, u, lo, n + 1)
    BY <1>3, <1>4, <1>5 DEF Line
  <1> QED
    BY <1>6 DEF r

\* What the order of a queue means, for the queue behind a step.
LEMMA OrderFrom ==
    ASSUME NEW u, NEW lo \in Nat, NEW n \in Nat, upload'[u] # "new", Line(queue', u, lo, n),
           timer'[u] => n = next'[u] + 1 /\ lo <= n /\ next'[u] \in Nat
    PROVE  InOrder(u, lo)'
  <1>1. Ahead(u, lo)'
    BY DEF Ahead, Line, At, First
  <1>2. Single(u)'
    BY DEF Single, Line, At, First
  <1>3. Complete(u, lo)'
    <2> SUFFICES ASSUME timer'[u], NEW p \in lo .. next'[u]
                 PROVE  \E j \in DOMAIN queue' : queue'[j].upload = u /\ At(queue'[j]) = p
      BY DEF Complete, Queued, At, First
    <2>1. p \in lo .. n - 1
      OBVIOUS
    <2> QED
      BY <2>1 DEF Line
  <1>4. Limited(u, lo)'
    <2> SUFFICES ASSUME timer'[u]
                 PROVE  /\ lo <= next'[u] + 1
                        /\ \A i \in DOMAIN queue' : queue'[i].upload = u => At(queue'[i]) <= next'[u]
      BY DEF Limited, At, First
    <2> QED
      BY DEF Line
  <1>5. Unsent(u, lo)'
    BY DEF Unsent
  <1> QED
    BY <1>1, <1>2, <1>3, <1>4, <1>5 DEF InOrder

\* The first two messages of an upload.
LEMMA OrderStarted ==
    ASSUME UploadInv, UploadInv', SourceInv, NEW u \in Chunked, NEW lo \in Nat, InOrder(u, lo),
           sendImageMessage(u)
    PROVE  InOrder(u, lo)'
  <1>1. /\ queue \in Seq(Jobs) /\ lo = 0 /\ u \in Uploads
        /\ \A i \in DOMAIN queue : queue[i].upload # u
    BY QueueFacts, ImageUploadAssumption
    DEF UploadInv, TypeOK, InOrder, Unsent, sendImageMessage
  <1>2. Start(u) \in Jobs /\ Chunk(u, 1) \in Jobs /\ Start(u).upload = u /\ Chunk(u, 1).upload = u
    BY <1>1, MessageTypes, ImageUploadAssumption DEF Start, Chunk
  <1>3. At(Start(u)) = 0 /\ At(Chunk(u, 1)) = 1
    BY Places3
  <1> DEFINE r == Append(queue, Start(u))
             s == Append(r, Chunk(u, 1))
  <1>4. queue' = s /\ r \in Seq(Jobs)
    <2>1. wire' = wire \o <<Start(u), Chunk(u, 1)>> /\ tasks' = tasks
          /\ <<Start(u), Chunk(u, 1)>> \in Seq(Jobs)
      BY <1>2 DEF sendImageMessage
    <2>2. queue' = queue \o <<Start(u), Chunk(u, 1)>>
      BY <2>1, QueueGrows DEF UploadInv, TypeOK
    <2>3. ASSUME NEW q \in Seq(Jobs), NEW a \in Jobs, NEW b \in Jobs
          PROVE  Append(Append(q, a), b) = q \o <<a, b>> /\ Append(q, a) \in Seq(Jobs)
      OBVIOUS
    <2> QED
      BY <1>1, <1>2, <2>2, <2>3
  <1>5. next'[u] = 1 /\ upload'[u] # "new"
    BY <1>1 DEF UploadInv, TypeOK, ClientOK, sendImageMessage
  <1>6. Line(queue, u, lo, 0)
    BY <1>1 DEF Line
  <1>7. Line(r, u, lo, 0 + 1)
    <2>1. lo <= 0 /\ 0 \in Nat
      BY <1>1
    <2> HIDE DEF r
    <2>2. r = Append(queue, Start(u))
      BY DEF r
    <2>3. Line(Append(queue, Start(u)), u, lo, 0 + 1)
      BY <1>1, <1>2, <1>3, <1>6, <2>1, OrderLonger
    <2> QED
      BY <2>2, <2>3
  <1> HIDE DEF r
  <1>8. Line(s, u, lo, 1 + 1)
    <2>1. Line(r, u, lo, 1) /\ lo <= 1 /\ 1 \in Nat
      BY <1>1, <1>7
    <2> QED
      BY <1>2, <1>3, <1>4, <2>1, OrderLonger
  <1> HIDE DEF s
  <1>9. Line(queue', u, lo, 2) /\ 2 = next'[u] + 1 /\ lo <= 2
    BY <1>1, <1>4, <1>5, <1>8
  <1> QED
    BY <1>5, <1>9, OrderFrom

\* The next message of an upload, or none.
LEMMA OrderNext ==
    ASSUME UploadInv, UploadInv', SourceInv, NEW u \in Chunked, NEW lo \in Nat, InOrder(u, lo),
           sendNextImageChunk(u)
    PROVE  InOrder(u, lo)'
  <1> DEFINE n == next[u] + 1
  <1>1. /\ queue \in Seq(Jobs) /\ u \in Uploads /\ LinkOK /\ ClientOK
        /\ Chunks \in Nat /\ next[u] \in 0 .. Chunks /\ timer[u] /\ upload[u] # "new"
    BY QueueFacts, ImageUploadAssumption
    DEF UploadInv, TypeOK, ClientOK, SourceInv, ClientFits, sendNextImageChunk
  <1>2. upload'[u] # "new"
    BY <1>1 DEF ClientOK, sendNextImageChunk
  <1>3. /\ n \in Nat /\ lo <= n
        /\ \A i \in DOMAIN queue : queue[i].upload = u => At(queue[i]) <= next[u]
    BY <1>1 DEF InOrder, Limited
  <1>4. \A i \in DOMAIN queue : queue[i].upload = u => At(queue[i]) \in Nat
    <2> TAKE i \in DOMAIN queue
    <2> HAVE queue[i].upload = u
    <2>1. SentMessage(queue[i])
      BY DEF SourceInv, MessageFits
    <2>2. At(queue[i]) \in 0 .. Chunks + 1
      BY <1>1, <2>1, SentAt
    <2> QED
      BY <1>1, <2>2
  <1>5. CASE connected
    <2>1. Line(queue, u, lo, n)
      <3>1. \A p \in lo .. n - 1 : \E j \in DOMAIN queue : queue[j].upload = u /\ At(queue[j]) = p
        <4>1. n - 1 = next[u]
          BY <1>1
        <4> QED
          BY <1>1, <1>5, <4>1 DEF InOrder, Complete, Queued
      <3>2. \A i \in DOMAIN queue : queue[i].upload = u =>
               /\ lo <= At(queue[i]) /\ At(queue[i]) < n /\ At(queue[i]) \in Nat
               /\ \A p \in lo .. At(queue[i]) - 1 :
                     \E j \in DOMAIN queue : j < i /\ queue[j].upload = u /\ At(queue[j]) = p
        BY <1>1, <1>3, <1>4 DEF InOrder, Ahead
      <3> QED
        BY <3>1, <3>2 DEF Line, InOrder, Single
    <2>2. ASSUME NEW m \in Jobs, m.upload = u, At(m) = n, wire' = Append(wire, m),
                 timer'[u] => next'[u] = n
          PROVE  InOrder(u, lo)'
      <3>1. queue' = Append(queue, m)
        <4>1. ASSUME NEW q \in Seq(Jobs), NEW x \in Jobs
              PROVE  Append(q, x) = q \o <<x>> /\ <<x>> \in Seq(Jobs)
          OBVIOUS
        <4>2. wire' = wire \o <<m>> /\ <<m>> \in Seq(Jobs)
          BY <1>1, <2>2, <4>1 DEF LinkOK
        <4>3. tasks' = tasks
          BY DEF sendNextImageChunk
        <4>4. queue' = queue \o <<m>>
          BY <1>1, <4>2, <4>3, QueueGrows
        <4> QED
          BY <1>1, <4>1, <4>4
      <3> HIDE DEF n
      <3>2. Line(queue', u, lo, n + 1)
        BY <1>1, <1>3, <2>1, <2>2, <3>1, OrderLonger
      <3>3. n + 1 \in Nat /\ (timer'[u] => n + 1 = next'[u] + 1 /\ lo <= n + 1 /\ next'[u] \in Nat)
        BY <1>3, <2>2
      <3> QED
        BY <1>2, <3>2, <3>3, OrderFrom
    <2>3. CASE upload[u] = "pending" /\ next[u] < Chunks
      <3>1. n \in 1 .. Chunks /\ n \in Nat
        BY <1>1, <2>3
      <3>2. Chunk(u, n) \in Jobs /\ Chunk(u, n).upload = u /\ At(Chunk(u, n)) = n
        BY <1>1, <3>1, MessageTypes, Places3 DEF Chunk
      <3>3. wire' = Append(wire, Chunk(u, n)) /\ next'[u] = n
        BY <1>1, <1>5, <2>3 DEF ClientOK, sendNextImageChunk
      <3> QED
        BY <2>2, <3>2, <3>3
    <2>4. CASE upload[u] = "pending" /\ ~(next[u] < Chunks)
      <3>1. n = Chunks + 1
        BY <1>1, <2>4
      <3>2. End(u) \in Jobs /\ End(u).upload = u /\ At(End(u)) = n
        BY <1>1, <3>1, MessageTypes, Places3 DEF End
      <3>3. wire' = Append(wire, End(u)) /\ ~timer'[u]
        BY <1>1, <1>5, <2>4 DEF ClientOK, sendNextImageChunk
      <3> QED
        BY <2>2, <3>2, <3>3
    <2>5. CASE upload[u] # "pending"
      <3>1. queue' = queue /\ ~timer'[u]
        BY <1>1, <2>5 DEF ClientOK, sendNextImageChunk, queue
      <3> QED
        BY <1>2, <1>3, <2>1, <3>1, OrderFrom
    <2> QED
      BY <2>3, <2>4, <2>5
  <1>6. CASE ~connected
    <2>1. queue' = queue /\ ~timer'[u] /\ connected' = connected
      BY <1>1, <1>6 DEF ClientOK, sendNextImageChunk, queue
    <2>2. Ahead(u, lo)' /\ Single(u)'
      BY <2>1 DEF InOrder, Ahead, Single, At, First
    <2>3. Complete(u, lo)' /\ Limited(u, lo)' /\ Unsent(u, lo)'
      BY <1>2, <2>1 DEF Complete, Limited, Unsent
    <2> QED
      BY <2>2, <2>3 DEF InOrder
  <1> QED
    BY <1>5, <1>6
-----------------------------------------------------------------------------
\* The pieces of an image, one more at a time.
LEMMA PartGrows ==
    ASSUME NEW u, NEW k \in Nat \ {0}
    PROVE  Part(u, 0) = << >> /\ Part(u, k - 1) \o <<Piece(u, k)>> = Part(u, k)
  <1>1. Part(u, 0) = << >>
    BY DEF Part
  <1> DEFINE S == {Piece(u, i) : i \in 1 .. k}
             p == Part(u, k - 1)
             q == Part(u, k)
  <1>2. /\ p \in Seq(S) /\ Len(p) = k - 1 /\ \A i \in 1 .. k - 1 : p[i] = Piece(u, i)
    BY DEF Part
  <1>3. /\ q \in Seq(S) /\ Len(q) = k /\ \A i \in 1 .. k : q[i] = Piece(u, i)
    BY DEF Part
  <1>4. Piece(u, k) \in S
    OBVIOUS
  <1> HIDE DEF S, p, q
  <1>5. ASSUME NEW s \in Seq(S), NEW x \in S, NEW r \in Seq(S), Len(r) = Len(s) + 1,
               \A i \in 1 .. Len(s) : r[i] = s[i], r[Len(s) + 1] = x
        PROVE  s \o <<x>> = r
    <2>1. s \o <<x>> \in Seq(S) /\ Len(s \o <<x>>) = Len(r)
          /\ \A i \in 1 .. Len(s) : (s \o <<x>>)[i] = s[i]
          /\ (s \o <<x>>)[Len(s) + 1] = x
      BY <1>5
    <2>2. \A i \in 1 .. Len(s \o <<x>>) : (s \o <<x>>)[i] = r[i]
      BY <1>5, <2>1
    <2> QED
      BY <2>1, <2>2, SeqEqual
  <1>6. p \o <<Piece(u, k)>> = q
    BY <1>2, <1>3, <1>4, <1>5
  <1> QED
    BY <1>1, <1>6 DEF p, q

\* What a step leaves alone: the entry of an upload.
SameEntry(u) ==
    /\ u \in DOMAIN entry' <=> u \in DOMAIN entry
    /\ u \in DOMAIN entry => entry'[u] = entry[u]

\* A step that has nothing to do with the handlers and the entry of an upload.
LEMMA ProgressStays ==
    ASSUME NEW u, NEW lo, Progress(u, lo), SameEntry(u),
           UNCHANGED threads \/ \A t \in Threads : ~Handles(t, u) /\ ~Handles(t, u)'
    PROVE  Progress(u, lo)'
  <1>1. \A n, k : Collects(u, n, k) => Collects(u, n, k)'
    BY DEF Collects, SameEntry, Part, Piece
  <1>2. CASE \A t \in Threads : ~Handles(t, u) /\ ~Handles(t, u)'
    BY <1>1, <1>2 DEF Progress
  <1>3. CASE UNCHANGED threads
    <2>1. /\ \A t \in Threads : pc'[t] = pc[t] /\ job'[t] = job[t] /\ data'[t] = data[t]
                               /\ count'[t] = count[t] /\ lost'[t] = lost[t]
      BY <1>3 DEF threads
    <2>2. \A t \in Threads : /\ Handles(t, u)' <=> Handles(t, u)
                             /\ Early(t)' <=> Early(t)
      BY <2>1 DEF Handles, Subject, Early
    <2>3. \A t \in Threads : HandlerFits(t, u) => HandlerFits(t, u)'
      <3> SUFFICES ASSUME NEW t \in Threads, HandlerFits(t, u) PROVE HandlerFits(t, u)'
        OBVIOUS
      <3>1. \A k : ChunkFits(t, u, k) => ChunkFits(t, u, k)'
        BY <1>1, <2>1, <2>2 DEF ChunkFits, Part, Piece
      <3>2. EndFits(t, u) => EndFits(t, u)'
        BY <1>1, <2>1 DEF EndFits, Image, Piece
      <3>3. ASSUME NEW k, k = At(job[t]), ChunkFits(t, u, k)'
            PROVE  ChunkFits(t, u, At(job[t]))'
        BY <2>1, <3>3 DEF ChunkFits, At, First
      <3> QED
        BY <2>1, <3>1, <3>2, <3>3 DEF HandlerFits
    <2>4. \A t \in Threads : At(job[t])' = At(job[t])
      BY <2>1 DEF At, First
    <2>5. ASSUME NEW t \in Threads, Handles(t, u)'
          PROVE  /\ \A s \in Threads : pc'[s] # "free" => s = t
                 /\ At(job[t])' = lo - 1
                 /\ HandlerFits(t, u)'
      BY <2>1, <2>2, <2>3, <2>4, <2>5 DEF Progress
    <2>6. (\A t \in Threads : ~Handles(t, u)') /\ lo \in 1 .. Chunks + 1 => Collects(u, lo - 1, lo - 1)'
      BY <1>1, <2>2 DEF Progress
    <2> QED
      BY <2>5, <2>6 DEF Progress
  <1> QED
    BY <1>2, <1>3

\* What a thread that handles an undisturbed upload in chunks works on: a message that was sent.
LEMMA HandlerHas ==
    ASSUME UploadInv, SourceInv, NEW u \in Chunked \ disturbed, NEW t \in Threads, Handles(t, u)
    PROVE  /\ t # "main" /\ SentMessage(job[t]) /\ job[t].upload = u
           /\ job[t].kind \in {"start", "chunk", "end"}
           /\ job[t].kind = "start" => At(job[t]) = 0
           /\ job[t].kind = "end" => At(job[t]) = Chunks + 1
           /\ job[t].kind = "chunk" => At(job[t]) \in 1 .. Chunks /\ job[t] = Chunk(u, At(job[t]))
  <1>1. pc[t] # "free" /\ job[t].upload = u
    BY DEF Handles, Subject
  <1>2. t # "main"
    <2> SUFFICES ASSUME t = "main" PROVE FALSE
      OBVIOUS
    <2>1. ByHand(job[t])
      BY <1>1 DEF SourceInv, MessageFits
    <2>2. job[t].upload \in disturbed
      BY <2>1 DEF ByHand
    <2> QED
      BY <1>1, <2>2
  <1>3. SentMessage(job[t])
    BY <1>1, <1>2 DEF SourceInv, MessageFits
  <1> DEFINE m == job[t]
  <1> HIDE DEF m
  <1>4. SentMessage(m) /\ m.upload = u /\ m.upload \in Chunked /\ ClientOK
    BY <1>1, <1>3 DEF m, UploadInv, TypeOK
  <1>5. /\ m.kind = "start" => At(m) = 0
        /\ m.kind = "end" => At(m) = Chunks + 1
        /\ m.kind = "chunk" => At(m) \in 1 .. Chunks /\ m = Chunk(m.upload, At(m))
        /\ m.kind \in {"start", "chunk", "end"}
    BY <1>4, SentAt
  <1> QED
    BY <1>1, <1>2, <1>3, <1>4, <1>5 DEF m

\* A worker takes the message of an upload that comes next.
LEMMA ProgressTaken ==
    ASSUME UploadInv, SourceInv, NEW u \in Chunked \ disturbed, NEW lo \in Nat, Progress(u, lo),
           NEW w \in Workers, Take(w), queue[1].upload = u, At(queue[1]) = lo, u \notin disturbed'
    PROVE  Progress(u, lo + 1)'
  <1>1. /\ pc[w] = "free" /\ w \in Threads
        /\ job' = [job EXCEPT ![w] = queue[1]] /\ 1 \in DOMAIN queue /\ SentMessage(queue[1])
        /\ UNCHANGED <<client, entry, disk, data, count, lost>>
    BY TakesFirst DEF SourceInv
  <1>2. PICK place \in {"start", "save", "find"} :
          /\ pc' = [pc EXCEPT ![w] = place]
          /\ queue[1].kind = "chunk" => place = "find"
          /\ queue[1].kind = "end" => place = "find"
    BY TakesFirst DEF SourceInv
  <1>3. /\ job'[w] = queue[1] /\ pc'[w] = place /\ pc'[w] # "free" /\ ~lost[w] /\ lost'[w] = lost[w]
        /\ \A s \in Threads : s # w => pc'[s] = pc[s] /\ job'[s] = job[s]
    BY <1>1, <1>2 DEF UploadInv, TypeOK, ThreadsOK
  <1>4. Busy = {}
    <2>1. queue[1] = Head(tasks)
      BY QueueTake DEF UploadInv, TypeOK
    <2>2. Busy # {} => Head(tasks).upload \in disturbed'
      BY DEF Take, Begin
    <2> QED
      BY <2>1, <2>2
  <1>5. \A s \in Threads : pc[s] = "free" /\ ~Handles(s, u)
    BY <1>4 DEF Busy, Handles
  <1>6. lo \in 1 .. Chunks + 1 => Collects(u, lo - 1, lo - 1)'
    <2>1. lo \in 1 .. Chunks + 1 => Collects(u, lo - 1, lo - 1)
      BY <1>5 DEF Progress
    <2> QED
      BY <1>1, <2>1 DEF Collects, Part, Piece
  <1> DEFINE m == queue[1]
  <1> HIDE DEF m
  <1>7. SentMessage(m) /\ m.upload = u /\ m.upload \in Chunked /\ ClientOK /\ At(m) = lo
    BY <1>1 DEF m, UploadInv, TypeOK
  <1>8. /\ m.kind = "end" => At(m) = Chunks + 1
        /\ m.kind = "chunk" => At(m) \in 1 .. Chunks
    BY <1>7, SentAt
  <1>9. job'[w] = m
    BY <1>3 DEF m
  <1>10. At(job[w])' = lo
    BY <1>7, <1>9 DEF At, First
  <1>11. HandlerFits(w, u)'
    <2>1. CASE m.kind = "chunk"
      <3>1. pc'[w] = "find" /\ lo \in 1 .. Chunks + 1
        BY <1>2, <1>3, <1>7, <1>8, <2>1, ImageUploadAssumption DEF m
      <3>2. ChunkFits(w, u, lo)'
        BY <1>3, <1>6, <3>1 DEF ChunkFits, Early
      <3>3. ASSUME NEW k, k = At(job[w])', ChunkFits(w, u, k)'
            PROVE  ChunkFits(w, u, At(job[w]))'
        BY <3>3 DEF ChunkFits
      <3> QED
        BY <1>9, <1>10, <2>1, <3>2, <3>3 DEF HandlerFits
    <2>2. CASE m.kind = "end"
      <3>1. pc'[w] = "find" /\ lo = Chunks + 1 /\ lo \in 1 .. Chunks + 1 /\ lo - 1 = Chunks
        BY <1>2, <1>3, <1>7, <1>8, <2>2, ImageUploadAssumption DEF m
      <3>2. EndFits(w, u)'
        BY <1>6, <3>1 DEF EndFits
      <3> QED
        BY <1>9, <2>2, <3>2 DEF HandlerFits
    <2> QED
      BY <1>9, <2>1, <2>2 DEF HandlerFits
  <1>12. Handles(w, u)'
    BY <1>3, <1>7, <1>9 DEF Handles, Subject
  <1>13. \A s \in Threads : pc'[s] # "free" => s = w
    BY <1>3, <1>5
  <1> QED
    BY <1>1, <1>3, <1>10, <1>11, <1>12, <1>13 DEF Progress, Handles

\* A handler's step by the thread that handles the upload, which is the only one at work.
LEMMA ProgressStep ==
    ASSUME UploadInv, SourceInv, NEW u \in Chunked \ disturbed, NEW lo \in Nat, Progress(u, lo),
           NEW t \in Threads, HandlerStep(t), Handles(t, u)
    PROVE  Progress(u, lo)'
  <1>0. PICK k : k = At(job[t])
    OBVIOUS
  <1>1. /\ t # "main" /\ SentMessage(job[t]) /\ job[t].upload = u
        /\ job[t].kind \in {"start", "chunk", "end"}
        /\ job[t].kind = "start" => k = 0
        /\ job[t].kind = "end" => k = Chunks + 1
        /\ job[t].kind = "chunk" => k \in 1 .. Chunks /\ job[t] = Chunk(u, k)
    BY <1>0, HandlerHas
  <1>2. k = lo - 1 /\ HandlerFits(t, u) /\ \A s \in Threads : s # t => pc[s] = "free"
    BY <1>0 DEF Progress
  <1>3. /\ pc[t] # "free" /\ (pc'[t] = "free" \/ job'[t] = job[t])
        /\ \A s \in Threads : s # t => pc'[s] = "free"
    BY <1>2, HandlerLeaves
  <1>4. /\ StoreOK /\ ThreadsOK /\ Chunks \in Nat \ {0} /\ u \in Uploads /\ Subject(t) = u
    BY <1>1, ImageUploadAssumption DEF UploadInv, TypeOK, Subject
  <1>5. /\ job[t].kind = "chunk" => ChunkFits(t, u, k)
        /\ job[t].kind = "end" => EndFits(t, u)
    BY <1>0, <1>2 DEF HandlerFits
  <1>6. /\ pc[t] = "start" => job[t].kind = "start"
        /\ pc[t] = "find" => job[t].kind \in {"chunk", "end"}
        /\ pc[t] \in {"refer"} \cup References => job[t].kind = "chunk"
        /\ pc[t] = "take" => job[t].kind = "end"
        /\ pc[t] = "save" => job[t].kind = "end"
    BY <1>1 DEF SourceInv, PlaceFits
  <1>7. ASSUME pc'[t] = "free", lo \in 1 .. Chunks + 1 => Collects(u, lo - 1, lo - 1)'
        PROVE  Progress(u, lo)'
    BY <1>3, <1>7 DEF Progress, Handles
  <1>8. ASSUME job'[t] = job[t], job[t].kind = "chunk" => ChunkFits(t, u, k)',
               job[t].kind = "end" => EndFits(t, u)', pc'[t] # "free"
        PROVE  Progress(u, lo)'
    <2>1. At(job[t])' = k
      BY <1>0, <1>8 DEF At, First
    <2>2. ASSUME NEW n, n = At(job[t])', ChunkFits(t, u, n)'
          PROVE  ChunkFits(t, u, At(job[t]))'
      BY <2>2 DEF ChunkFits
    <2>3. HandlerFits(t, u)'
      BY <1>8, <2>1, <2>2 DEF HandlerFits
    <2>4. Handles(t, u)'
      BY <1>4, <1>8 DEF Handles, Subject
    <2> QED
      BY <1>2, <1>3, <2>1, <2>3, <2>4 DEF Progress, Handles
  <1>18. ASSUME entry' = entry
         PROVE  \A n, j : Collects(u, n, j) => Collects(u, n, j)'
    BY <1>18 DEF Collects, Part, Piece
  <1>9. CASE handleChunkedImageStart(t)
    <2>1. pc'[t] = "free" /\ lo - 1 = 0
      BY <1>1, <1>2, <1>4, <1>6, <1>9 DEF handleChunkedImageStart, Return, ThreadsOK
    <2>2. entry' = Insert(entry, u, Empty(Chunks))
      BY <1>4, <1>9 DEF handleChunkedImageStart
    <2>3. Collects(u, 0, 0)'
      <3>1. u \in DOMAIN entry' /\ entry'[u] = Empty(Chunks)
        BY <2>2 DEF Insert
      <3>2. Part(u, 0) = << >>
        BY PartGrows, <1>4
      <3>3. Part(u, 0)' = << >>
        BY <3>2 DEF Part, Piece
      <3> QED
        BY <3>1, <3>3 DEF Collects, Empty
    <2> QED
      BY <1>7, <2>1, <2>3
  <1>10. CASE Find(t)
    <2>1. job[t].kind \in {"chunk", "end"} /\ entry' = entry /\ pc[t] = "find"
      BY <1>4, <1>6, <1>10 DEF Find
    <2>2. u \in DOMAIN entry
      BY <1>5, <2>1 DEF ChunkFits, EndFits, Early, Collects
    <2>3. Contains(t) = {TRUE}
      BY <1>2, <1>4, <2>2 DEF Contains
    <2>4. /\ pc'[t] = IF job[t].kind = "end" THEN "take" ELSE "refer"
          /\ job'[t] = job[t] /\ UNCHANGED <<data, count, lost>>
      BY <1>4, <1>10, <2>3 DEF Find, Goto, ThreadsOK
    <2> QED
      <3>1. job[t].kind = "chunk" => ChunkFits(t, u, k)'
        BY <1>5, <1>18, <2>1, <2>4 DEF ChunkFits, Early
      <3>2. job[t].kind = "end" => EndFits(t, u)'
        BY <1>5, <1>18, <2>1, <2>4 DEF EndFits
      <3> QED
        BY <1>8, <2>1, <2>4, <3>1, <3>2
  <1>11. CASE Refer(t)
    <2>1. job[t].kind = "chunk" /\ pc[t] = "refer" /\ UNCHANGED <<data, count, lost>>
          /\ job'[t] = job[t] /\ pc'[t] = "append"
      BY <1>4, <1>6, <1>11 DEF Refer, Goto, ThreadsOK
    <2>2. u \in DOMAIN entry
      BY <1>5, <2>1 DEF ChunkFits, Early, Collects
    <2>3. entry' = entry
      BY <1>4, <1>11, <2>2 DEF Refer
    <2>4. ChunkFits(t, u, k)'
      BY <1>5, <1>18, <2>1, <2>3 DEF ChunkFits, Early
    <2> QED
      BY <1>8, <2>1, <2>4
  <1>12. CASE ReadData(t)
    <2>1. job[t].kind = "chunk" /\ pc[t] = "append" /\ UNCHANGED <<entry, count, lost>>
          /\ job'[t] = job[t] /\ pc'[t] = "write"
      BY <1>4, <1>6, <1>12 DEF ReadData, Goto, ThreadsOK, References
    <2>2. ~lost[t] /\ Collects(u, k - 1, k - 1)
      BY <1>5, <2>1 DEF ChunkFits, Early
    <2>3. data'[t] = Part(u, k - 1)
      BY <1>4, <1>12, <2>2 DEF ReadData, ThreadsOK, Collects
    <2>4. ChunkFits(t, u, k)'
      BY <1>18, <2>1, <2>2, <2>3 DEF ChunkFits, Early, Part, Piece
    <2> QED
      BY <1>8, <2>1, <2>4
  <1>13. CASE WriteData(t)
    <2>1. job[t].kind = "chunk" /\ pc[t] = "write" /\ UNCHANGED <<data, count, lost>>
          /\ job'[t] = job[t] /\ pc'[t] = "count"
      BY <1>4, <1>6, <1>13 DEF WriteData, Goto, ThreadsOK, References
    <2>2. ~lost[t] /\ Collects(u, k - 1, k - 1) /\ data[t] = Part(u, k - 1)
      BY <1>5, <2>1 DEF ChunkFits, Early
    <2>3. job[t].data = <<Piece(u, k)>> /\ k \in Nat \ {0}
      BY <1>1, <1>4, <2>1 DEF Chunk
    <2>4. entry' = [entry EXCEPT ![u].data = Part(u, k)]
      <3>1. data[t] \o job[t].data = Part(u, k)
        BY <2>2, <2>3, PartGrows
      <3> QED
        BY <1>4, <1>13, <2>2, <3>1 DEF WriteData
    <2>5. Collects(u, k - 1, k)'
      <3>1. u \in DOMAIN entry /\ entry[u].total = Chunks /\ entry[u].received = k - 1
            /\ entry[u] \in Entries
        BY <1>4, <2>2 DEF Collects, StoreOK
      <3>2. u \in DOMAIN entry' /\ entry'[u] = [entry[u] EXCEPT !.data = Part(u, k)]
        BY <2>4, <3>1
      <3>3. entry'[u].total = Chunks /\ entry'[u].received = k - 1 /\ entry'[u].data = Part(u, k)
        BY <3>1, <3>2 DEF Entries
      <3> QED
        BY <3>2, <3>3 DEF Collects, Part, Piece
    <2>6. ChunkFits(t, u, k)'
      BY <2>1, <2>2, <2>5 DEF ChunkFits, Early
    <2> QED
      BY <1>8, <2>1, <2>6
  <1>14. CASE ReadCount(t)
    <2>1. job[t].kind = "chunk" /\ pc[t] = "count" /\ UNCHANGED <<entry, data, lost>>
          /\ job'[t] = job[t] /\ pc'[t] = "increment"
      BY <1>4, <1>6, <1>14 DEF ReadCount, Goto, ThreadsOK, References
    <2>2. ~lost[t] /\ Collects(u, k - 1, k)
      BY <1>5, <2>1 DEF ChunkFits
    <2>3. count'[t] = k - 1
      BY <1>4, <1>14, <2>2 DEF ReadCount, ThreadsOK, Collects
    <2>4. ChunkFits(t, u, k)'
      BY <1>18, <2>1, <2>2, <2>3 DEF ChunkFits, Early
    <2> QED
      BY <1>8, <2>1, <2>4
  <1>15. CASE WriteCount(t)
    <2>1. job[t].kind = "chunk" /\ pc[t] = "increment" /\ pc'[t] = "free"
      BY <1>4, <1>6, <1>15 DEF WriteCount, Return, ThreadsOK, References
    <2>2. ~lost[t] /\ Collects(u, k - 1, k) /\ count[t] = k - 1
      BY <1>5, <2>1 DEF ChunkFits
    <2>3. entry' = [entry EXCEPT ![u].received = k] /\ k \in Nat
      <3>1. k \in Nat /\ count[t] + 1 = k
        BY <1>1, <2>1, <2>2
      <3> QED
        BY <1>4, <1>15, <2>2, <3>1 DEF WriteCount
    <2>4. Collects(u, k, k)'
      <3>1. u \in DOMAIN entry /\ entry[u].total = Chunks /\ entry[u].data = Part(u, k)
            /\ entry[u] \in Entries
        BY <1>4, <2>2 DEF Collects, StoreOK
      <3>2. u \in DOMAIN entry' /\ entry'[u] = [entry[u] EXCEPT !.received = k]
        BY <2>3, <3>1
      <3>3. entry'[u].total = Chunks /\ entry'[u].received = k /\ entry'[u].data = Part(u, k)
        BY <3>1, <3>2 DEF Entries
      <3> QED
        BY <3>2, <3>3 DEF Collects, Part, Piece
    <2>5. lo - 1 = k
      BY <1>2
    <2> QED
      BY <1>7, <2>1, <2>4, <2>5
  <1>16. CASE TakeEntry(t)
    <2>1. job[t].kind = "end" /\ pc[t] = "take"
      BY <1>6, <1>16 DEF TakeEntry
    <2>2. Collects(u, Chunks, Chunks)
      BY <1>5, <2>1 DEF EndFits
    <2>3. u \in DOMAIN entry /\ Enough(entry[u])
      BY <1>4, <2>2 DEF Collects, Enough
    <2>4. pc'[t] = "save" /\ job'[t] = job[t] /\ data'[t] = entry[u].data
      BY <1>4, <1>16, <2>3 DEF TakeEntry, Goto, ThreadsOK
    <2>5. data'[t] = Image(u)
      BY <2>2, <2>4 DEF Collects, Part, Image
    <2>6. EndFits(t, u)'
      BY <2>4, <2>5 DEF EndFits, Image, Piece
    <2> QED
      BY <1>8, <2>1, <2>4, <2>6
  <1>17. CASE saveImage(t)
    <2>1. job[t].kind = "end" /\ pc'[t] = "free"
      BY <1>4, <1>6, <1>17 DEF saveImage, Return, ThreadsOK
    <2>2. lo \notin 1 .. Chunks + 1
      BY <1>1, <1>2, <1>4, <2>1
    <2> QED
      BY <1>7, <2>1, <2>2
  <1> QED
    BY <1>9, <1>10, <1>11, <1>12, <1>13, <1>14, <1>15, <1>16, <1>17 DEF HandlerStep
-----------------------------------------------------------------------------
\* A step that leaves the queue as it is.
LEMMA MovedByNothing ==
    ASSUME UploadInv, NEW u, queue' = queue
    PROVE  Moved(u, [i \in DOMAIN queue |-> i])
  <1>1. DOMAIN queue' = DOMAIN queue
    OBVIOUS
  <1> QED
    BY <1>1 DEF Moved

\* The first n messages of the wire go away, and none of them is of the upload.
LEMMA MovedByLoss ==
    ASSUME UploadInv, NEW u, NEW n \in 1 .. Len(wire), wire' = SubSeq(wire, n + 1, Len(wire)),
           tasks' = tasks, \A k \in 1 .. n : wire[k].upload # u
    PROVE  \E f : Moved(u, f)
  <1> DEFINE f == [i \in DOMAIN queue' |-> Skip(n, i)]
  <1>1. /\ \A i \in DOMAIN queue' : Skip(n, i) \in DOMAIN queue /\ queue'[i] = queue[Skip(n, i)]
        /\ \A j \in DOMAIN queue : \/ \E i \in DOMAIN queue' : Skip(n, i) = j
                                   \/ \E k \in 1 .. n : queue[j] = wire[k]
    BY QueueLoses DEF UploadInv, TypeOK
  <1>2. Thinned(f)
    BY ThinnedByLoss DEF UploadInv, TypeOK
  <1>3. \A i \in DOMAIN queue' : f[i] = Skip(n, i)
    OBVIOUS
  <1> HIDE DEF f
  <1>4. \A j \in DOMAIN queue : queue[j].upload = u =>
           \E i \in DOMAIN queue' : f[i] = j /\ queue'[i].upload = u
    <2> TAKE j \in DOMAIN queue
    <2> HAVE queue[j].upload = u
    <2>1. PICK i \in DOMAIN queue' : Skip(n, i) = j
      BY <1>1
    <2> QED
      BY <1>1, <1>3, <2>1
  <1>5. Moved(u, f)
    BY <1>2, <1>4 DEF Moved, Thinned
  <1> QED
    BY <1>5

\* A worker takes a message of another upload.
LEMMA MovedByTake ==
    ASSUME UploadInv, NEW u, NEW w \in Workers, Take(w), queue[1].upload # u
    PROVE  \E f : Moved(u, f)
  <1> DEFINE f == [i \in DOMAIN queue' |-> i + 1]
  <1>1. /\ \A i \in DOMAIN queue' : i \in Nat /\ i + 1 \in DOMAIN queue /\ queue'[i] = queue[i + 1]
        /\ \A i \in DOMAIN queue : i = 1 \/ (i - 1 \in DOMAIN queue' /\ queue'[i - 1] = queue[i])
    BY QueueTake DEF UploadInv, TypeOK
  <1>2. Thinned(f)
    BY ThinnedByTake DEF UploadInv, TypeOK
  <1>3. \A i \in DOMAIN queue' : f[i] = i + 1
    OBVIOUS
  <1> HIDE DEF f
  <1>4. \A j \in DOMAIN queue : queue[j].upload = u =>
           \E i \in DOMAIN queue' : f[i] = j /\ queue'[i].upload = u
    <2> TAKE j \in DOMAIN queue
    <2> HAVE queue[j].upload = u
    <2>1. j - 1 \in DOMAIN queue' /\ queue'[j - 1] = queue[j]
      BY <1>1
    <2>2. j \in Nat
      BY QueueFacts DEF UploadInv, TypeOK
    <2>3. f[j - 1] = j
      BY <1>3, <2>1, <2>2
    <2> QED
      BY <2>1, <2>3
  <1>5. Moved(u, f)
    BY <1>2, <1>4 DEF Moved, Thinned
  <1> QED
    BY <1>5

\* The client sends messages of another upload.
LEMMA MovedBySend ==
    ASSUME UploadInv, NEW u, NEW v, v # u, NEW ms \in Seq(Jobs), Added(v, ms)
    PROVE  \E f : Moved(u, f)
  <1> DEFINE f == [i \in DOMAIN queue' |-> i]
  <1>1. queue \in Seq(Jobs) /\ queue' = queue \o ms /\ \A i \in DOMAIN ms : ms[i].upload = v
    BY QueueFacts DEF UploadInv, TypeOK, Added
  <1>2. /\ \A i \in DOMAIN queue : i \in DOMAIN queue' /\ queue'[i] = queue[i]
        /\ \A i \in DOMAIN queue' :
              IF i <= Len(queue) THEN i \in DOMAIN queue /\ queue'[i] = queue[i]
              ELSE i - Len(queue) \in DOMAIN ms /\ queue'[i] = ms[i - Len(queue)]
    BY <1>1, Longer
  <1>3. \A i \in DOMAIN queue' : queue'[i].upload = u => i \in DOMAIN queue /\ queue'[i] = queue[i]
    BY <1>1, <1>2
  <1>4. \A i \in DOMAIN queue' : f[i] = i
    OBVIOUS
  <1> HIDE DEF f
  <1>5. Moved(u, f)
    BY <1>2, <1>3, <1>4 DEF Moved
  <1> QED
    BY <1>5

\* A handler changes the entry of its own upload only.
LEMMA OwnEntry ==
    ASSUME UploadInv, NEW t \in Threads, HandlerStep(t), NEW u, Subject(t) # u
    PROVE  SameEntry(u)
  <1>1. CASE handleChunkedImageStart(t)
    BY <1>1 DEF handleChunkedImageStart, Insert, SameEntry
  <1>2. CASE Refer(t)
    BY <1>2 DEF Refer, Insert, SameEntry
  <1>3. CASE TakeEntry(t)
    BY <1>3 DEF TakeEntry, Remove, SameEntry
  <1>4. CASE WriteData(t)
    BY <1>4 DEF WriteData, SameEntry
  <1>5. CASE WriteCount(t)
    BY <1>5 DEF WriteCount, SameEntry
  <1>6. CASE Find(t) \/ ReadData(t) \/ ReadCount(t) \/ saveImage(t)
    BY <1>6 DEF Find, ReadData, ReadCount, saveImage, SameEntry
  <1> QED
    BY <1>1, <1>2, <1>3, <1>4, <1>5, <1>6 DEF HandlerStep
-----------------------------------------------------------------------------
\* The handlers of an upload and its entry go with its messages, whatever step is made.
LEMMA UndisturbedKept ==
    ASSUME UploadInv, SourceInv, Undisturbed, [Next]_vars
    PROVE  Undisturbed'
  <1> SUFFICES ASSUME NEW u \in Chunked, u \notin disturbed'
               PROVE  \E lo \in 0 .. Chunks + 2 : Progress(u, lo)' /\ InOrder(u, lo)'
    BY DEF Undisturbed
  <1>1. /\ UploadInv' /\ LinkOK /\ ClientOK /\ ClientFits /\ MessageFits /\ ThreadsOK
        /\ u \in Uploads /\ Chunks \in Nat
    BY NextFits, ImageUploadAssumption DEF SourceInv, UploadInv, TypeOK
  <1>2. u \notin disturbed
    BY DEF Next, vars, sendImageMessage, sendNextImageChunk, handleResponse, LoseAnswers,
       Disconnect, handleClientData, ReadTorn, ReadMerged, Take, Begin, HandlerStep,
       handleChunkedImageStart, Find, Refer, ReadData, WriteData, ReadCount, WriteCount,
       TakeEntry, saveImage
  <1>3. PICK lo \in 0 .. Chunks + 2 : Progress(u, lo) /\ InOrder(u, lo)
    BY <1>2 DEF Undisturbed
  <1>4. lo \in Nat
    BY <1>1
  <1>5. ASSUME UNCHANGED <<entry, threads>>
        PROVE  Progress(u, lo)'
    <2>1. SameEntry(u)
      BY <1>5 DEF SameEntry
    <2>2. UNCHANGED threads
      BY <1>5
    <2> QED
      BY <1>3, <2>1, <2>2, ProgressStays
  <1>6. ASSUME NEW f, Moved(u, f), connected' = connected, timer'[u] = timer[u],
               next'[u] = next[u], upload'[u] = "new" => upload[u] = "new"
        PROVE  InOrder(u, lo)'
    BY <1>1, <1>3, <1>6, OrderMoved
  <1>7. CASE handleResponse \/ LoseAnswers \/ handleClientData \/ UNCHANGED vars
    <2>1. UNCHANGED <<entry, threads, next, timer>> /\ connected' = connected
      BY <1>7 DEF handleResponse, LoseAnswers, handleClientData, vars, client, link
    <2>2. upload'[u] = "new" => upload[u] = "new"
      BY <1>1, <1>7, OutsideThins
    <2>3. queue' = queue
      <3>1. CASE handleClientData
        BY <1>1, <3>1, QueueRead
      <3>2. CASE handleResponse \/ LoseAnswers \/ UNCHANGED vars
        BY <3>2 DEF handleResponse, LoseAnswers, vars, link, queue
      <3> QED
        BY <1>7, <3>1, <3>2
    <2>4. InOrder(u, lo)'
      BY <1>6, <2>1, <2>2, <2>3, MovedByNothing
    <2> QED
      BY <1>5, <2>1, <2>4
  <1>8. CASE Disconnect
    <2>1. InOrder(u, lo)'
      BY <1>1, <1>3, <1>8, OrderCut
    <2> QED
      BY <1>5, <1>8, <2>1 DEF Disconnect
  <1>9. CASE ReadTorn
    <2>1. wire \in Seq(Jobs) /\ wire # << >> /\ wire' = Tail(wire) /\ tasks' = tasks
      BY <1>1, <1>9 DEF LinkOK, ReadTorn
    <2>2. 1 \in 1 .. Len(wire) /\ wire' = SubSeq(wire, 1 + 1, Len(wire)) /\ Head(wire) = wire[1]
      BY <2>1
    <2>3. \A k \in 1 .. 1 : wire[k].upload # u
      BY <1>9, <2>2 DEF ReadTorn
    <2>4. PICK f : Moved(u, f)
      BY <2>1, <2>2, <2>3, MovedByLoss
    <2>5. UNCHANGED <<entry, threads, next, timer, upload, connected>>
      BY <1>9 DEF ReadTorn, client
    <2> QED
      BY <1>5, <1>6, <2>4, <2>5
  <1>10. ASSUME NEW v \in Uploads, sendImageMessage(v) \/ sendNextImageChunk(v)
         PROVE  Progress(u, lo)' /\ InOrder(u, lo)'
    <2>1. UNCHANGED <<entry, threads, connected>>
      BY <1>10 DEF sendImageMessage, sendNextImageChunk
    <2>2. CASE v = u
      BY <1>1, <1>3, <1>4, <1>5, <1>10, <2>1, <2>2, OrderStarted, OrderNext
    <2>3. CASE v # u
      <3>1. PICK ms \in Seq(Jobs) : Added(v, ms)
        BY <1>1, <1>10, ClientAdds
      <3>2. PICK f : Moved(u, f)
        BY <2>3, <3>1, MovedBySend
      <3>3. timer'[u] = timer[u] /\ next'[u] = next[u] /\ upload'[u] = upload[u]
        BY <1>1, <1>10, <2>3 DEF ClientOK, sendImageMessage, sendNextImageChunk
      <3> QED
        BY <1>5, <1>6, <2>1, <3>2, <3>3
    <2> QED
      BY <2>2, <2>3
  <1>11. ASSUME NEW n \in 1 .. Len(wire), ReadMerged(n)
         PROVE  Progress(u, lo)' /\ InOrder(u, lo)'
    <2>1. wire' = SubSeq(wire, n + 1, Len(wire)) /\ tasks' = tasks
          /\ UNCHANGED <<next, timer, upload, connected, entry>>
          /\ (\A k \in 1 .. n : wire[k].upload # u) /\ \A s \in Busy : job[s].upload # u
      BY <1>11 DEF ReadMerged, client
    <2>2. PICK f : Moved(u, f)
      BY <2>1, MovedByLoss
    <2>3. Progress(u, lo)'
      <3>1. CASE UNCHANGED threads
        BY <1>5, <2>1, <3>1
      <3>2. CASE ~UNCHANGED threads
        <4>1. PICK d : /\ job' = [job EXCEPT !["main"] =
                                 [kind |-> "chunk", upload |-> Head(wire).upload, data |-> d]]
                       /\ Head(wire).upload \in disturbed'
                       /\ pc' = [pc EXCEPT !["main"] = "find"]
          BY <1>1, <1>11, <3>2, SavesByHand
        <4>2. \A t \in Threads : ~Handles(t, u)
          BY <2>1 DEF Handles, Subject, Busy
        <4>3. \A t \in Threads : ~Handles(t, u)'
          BY <1>1, <4>1, <4>2 DEF Handles, Subject, ThreadsOK
        <4>4. SameEntry(u)
          BY <2>1 DEF SameEntry
        <4> QED
          BY <1>3, <4>2, <4>3, <4>4, ProgressStays
      <3> QED
        BY <3>1, <3>2
    <2> QED
      BY <1>6, <2>1, <2>2, <2>3
  <1>12. ASSUME NEW w \in Workers, Take(w)
         PROVE  \E l \in 0 .. Chunks + 2 : Progress(u, l)' /\ InOrder(u, l)'
    <2>1. /\ pc[w] = "free" /\ w \in Threads /\ job' = [job EXCEPT ![w] = queue[1]]
          /\ 1 \in DOMAIN queue /\ SentMessage(queue[1])
          /\ UNCHANGED <<client, connected, entry>>
          /\ \E place : pc' = [pc EXCEPT ![w] = place]
      BY <1>1, <1>12, TakesFirst
    <2>2. CASE queue[1].upload = u
      <3>1. At(queue[1]) = lo /\ InOrder(u, lo + 1)'
        BY <1>1, <1>3, <1>4, <1>12, <2>2, OrderTaken
      <3>2. Progress(u, lo + 1)'
        BY <1>2, <1>3, <1>4, <1>12, <2>2, <3>1, ProgressTaken
      <3>3. At(queue[1]) \in 0 .. Chunks + 1
        <4> DEFINE m == queue[1]
        <4> HIDE DEF m
        <4>1. SentMessage(m) /\ m.upload \in Chunked
          BY <2>1, <2>2 DEF m
        <4>2. At(m) \in 0 .. Chunks + 1
          BY <1>1, <4>1, SentAt
        <4> QED
          BY <4>2 DEF m
      <3>4. lo + 1 \in 0 .. Chunks + 2
        BY <1>1, <3>1, <3>3
      <3> QED
        BY <3>1, <3>2, <3>4
    <2>3. CASE queue[1].upload # u
      <3>1. PICK f : Moved(u, f)
        BY <1>12, <2>3, MovedByTake
      <3>2. InOrder(u, lo)'
        BY <1>6, <2>1, <3>1 DEF client
      <3>3. \A s \in Busy : job[s].upload # u
        BY <1>12 DEF Take, Begin
      <3>4. \A t \in Threads : ~Handles(t, u)
        BY <3>3 DEF Handles, Subject, Busy
      <3>5. \A t \in Threads : ~Handles(t, u)'
        BY <1>1, <2>1, <2>3, <3>4 DEF Handles, Subject, ThreadsOK
      <3>6. SameEntry(u)
        BY <2>1 DEF SameEntry
      <3> QED
        BY <1>3, <3>2, <3>4, <3>5, <3>6, ProgressStays
    <2> QED
      BY <2>2, <2>3
  <1>13. ASSUME NEW t \in Threads, HandlerStep(t)
         PROVE  Progress(u, lo)' /\ InOrder(u, lo)'
    <2>1. /\ UNCHANGED <<client, link, disturbed>> /\ queue' = queue
          /\ pc[t] # "free" /\ (pc'[t] = "free" \/ job'[t] = job[t])
          /\ \A s \in Threads : s # t => pc'[s] = pc[s] /\ job'[s] = job[s]
      BY <1>13, HandlerLeaves
    <2>2. InOrder(u, lo)'
      BY <1>6, <2>1, MovedByNothing DEF client, link
    <2>3. CASE Handles(t, u)
      BY <1>2, <1>3, <1>4, <1>13, <2>2, <2>3, ProgressStep
    <2>4. CASE ~Handles(t, u)
      <3>1. \A s \in Threads : ~Handles(s, u)
        BY <1>3, <2>1, <2>4 DEF Progress
      <3>2. \A s \in Threads : ~Handles(s, u)'
        BY <2>1, <3>1 DEF Handles, Subject
      <3>3. SameEntry(u)
        BY <1>13, <2>1, <2>4, OwnEntry DEF Handles
      <3> QED
        BY <1>3, <2>2, <3>1, <3>2, <3>3, ProgressStays
    <2> QED
      BY <2>3, <2>4
  <1> QED
    BY <1>3, <1>7, <1>8, <1>9, <1>10, <1>11, <1>12, <1>13 DEF Next

\* A file that is written for an undisturbed upload is its image.
LEMMA StoredKept ==
    ASSUME UploadInv, SourceInv, Undisturbed, StoredIsTheImage, [Next]_vars
    PROVE  StoredIsTheImage'
  <1>1. disturbed \subseteq disturbed'
    BY DEF Next, vars, sendImageMessage, sendNextImageChunk, handleResponse, LoseAnswers,
       Disconnect, handleClientData, ReadTorn, ReadMerged, Take, Begin, HandlerStep,
       handleChunkedImageStart, Find, Refer, ReadData, WriteData, ReadCount, WriteCount,
       TakeEntry, saveImage
  <1>2. CASE disk' = disk
    BY <1>1, <1>2 DEF StoredIsTheImage, Image, Piece
  <1>3. ASSUME NEW t \in Threads, saveImage(t), Subject(t) \notin disturbed
        PROVE  Written(t) = Image(Subject(t))
    <2> DEFINE u == Subject(t)
    <2>1. pc[t] = "save" /\ job[t].kind \in {"end", "save"}
      BY <1>3 DEF saveImage, SourceInv, PlaceFits
    <2>2. t # "main"
      <3> SUFFICES ASSUME t = "main" PROVE FALSE
        OBVIOUS
      <3>1. ByHand(job[t])
        BY <2>1 DEF SourceInv, MessageFits
      <3> QED
        BY <2>1, <3>1 DEF ByHand
    <2>3. SentMessage(job[t])
      BY <2>1, <2>2 DEF SourceInv, MessageFits
    <2>4. /\ job[t].kind = "end" => u \in Chunked
          /\ job[t].kind = "save" => u \notin Chunked /\ job[t] = Whole(u)
      BY <2>3, SentKinds DEF Subject
    <2>5. CASE u \in Chunked
      <3>1. Handles(t, u) /\ job[t].kind = "end"
        BY <2>1, <2>4, <2>5 DEF Handles
      <3>2. HandlerFits(t, u)
        BY <1>3, <2>5, <3>1 DEF Undisturbed, Progress
      <3> QED
        BY <2>1, <2>5, <3>1, <3>2 DEF HandlerFits, EndFits, Written
    <2>6. CASE u \notin Chunked
      BY <2>1, <2>4, <2>6 DEF Whole, Written
    <2> QED
      BY <2>5, <2>6
  <1>4. ASSUME NEW t \in Threads, saveImage(t), disk' = Insert(disk, Subject(t), Written(t))
        PROVE  StoredIsTheImage'
    <2>1. disturbed' = disturbed
      BY <1>4 DEF saveImage
    <2> SUFFICES ASSUME NEW v \in DOMAIN disk', v \notin disturbed' PROVE disk'[v] = Image(v)
      BY DEF StoredIsTheImage, Image, Piece
    <2>2. CASE v = Subject(t)
      BY <1>3, <1>4, <2>1, <2>2 DEF Insert
    <2>3. CASE v # Subject(t)
      <3>1. v \in DOMAIN disk /\ disk'[v] = disk[v]
        BY <1>4, <2>3, SMTT(40) DEF Insert
      <3> QED
        BY <2>1, <3>1 DEF StoredIsTheImage
    <2> QED
      BY <2>2, <2>3
  <1>5. disk' = disk \/ \E t \in Threads :
           saveImage(t) /\ disk' = Insert(disk, Subject(t), Written(t))
    BY DEF Next, vars, sendImageMessage, sendNextImageChunk, handleResponse, LoseAnswers,
       Disconnect, handleClientData, ReadTorn, ReadMerged, Take, HandlerStep,
       handleChunkedImageStart, Find, Refer, ReadData, WriteData, ReadCount, WriteCount,
       TakeEntry, saveImage
  <1> QED
    BY <1>2, <1>4, <1>5, SMTT(40)

\* A longer sequence is another one, and what was put at its end is seen there.
LEMMA AppendFacts ==
    ASSUME NEW S, NEW s \in Seq(S), NEW a \in S, NEW b \in S
    PROVE  /\ Append(s, a) # s
           /\ Append(s, a) # << >>
           /\ s # << >> => Append(s, a) # Tail(s)
           /\ Len(s) >= 2 => Append(s, a) # Tail(Tail(s))
           /\ Append(s, a) = Append(s, b) => a = b
  <1>1. Len(Append(s, a)) = Len(s) + 1 /\ Len(s) \in Nat
    OBVIOUS
  <1>2. s # << >> => Len(Tail(s)) = Len(s) - 1
    OBVIOUS
  <1>3. Len(<< >>) = 0
    OBVIOUS
  <1>4. Len(s) >= 2 => Len(Tail(Tail(s))) = Len(s) - 2
    <2> HAVE Len(s) >= 2
    <2>1. Tail(s) \in Seq(S) /\ Tail(s) # << >> /\ Len(Tail(s)) = Len(s) - 1
      <3>1. s # << >> /\ Len(s) - 1 >= 1
        BY <1>1, <1>3
      <3>2. Tail(s) \in Seq(S) /\ Len(Tail(s)) = Len(s) - 1
        BY <3>1, TailFacts
      <3>3. ASSUME NEW r \in Seq(S), Len(r) >= 1 PROVE r # << >>
        BY <3>3
      <3>4. Len(Tail(s)) >= 1
        BY <3>1, <3>2
      <3> QED
        BY <3>2, <3>3, <3>4
    <2>2. Len(Tail(Tail(s))) = Len(Tail(s)) - 1
      BY <2>1, TailFacts
    <2> QED
      BY <1>1, <2>1, <2>2
  <1>5. Append(s, a) = Append(s, b) => a = b
    <2>1. Append(s, a)[Len(s) + 1] = a /\ Append(s, b)[Len(s) + 1] = b
      OBVIOUS
    <2> QED
      BY <2>1
  <1> QED
    BY <1>1, <1>2, <1>3, <1>4, <1>5

\* Who refuses an undisturbed upload had a file to write.
LEMMA RefusalHasAFile ==
    ASSUME UploadInv, SourceInv, Undisturbed, [Next]_vars, NEW u \in Uploads, u \notin disturbed',
           answers' = Append(answers, [upload |-> u, success |-> FALSE])
    PROVE  \E w \in Workers : pc[w] = "save" /\ Subject(w) = u
  <1> DEFINE a == [upload |-> u, success |-> FALSE]
  <1>1. answers \in Seq(Answers) /\ a \in Answers
    BY DEF UploadInv, TypeOK, LinkOK, Answers
  <1> HIDE DEF a
  <1>2. answers' = Append(answers, a)
    BY DEF a
  <1>3. /\ answers' # answers /\ answers' # << >>
        /\ answers # << >> => answers' # Tail(answers)
        /\ Len(answers) >= 2 => answers' # Tail(Tail(answers))
    BY <1>1, <1>2, AppendFacts, SMTT(40)
  <1>4. PICK t \in Threads : Find(t) \/ TakeEntry(t) \/ saveImage(t)
    BY <1>3 DEF Next, vars, sendImageMessage, sendNextImageChunk, handleResponse, LoseAnswers,
       Disconnect, handleClientData, ReadTorn, ReadMerged, Take, HandlerStep,
       handleChunkedImageStart, Refer, ReadData, WriteData, ReadCount, WriteCount
  <1>5. HandlerStep(t) /\ disturbed' = disturbed
    BY <1>4 DEF HandlerStep, Find, TakeEntry, saveImage
  <1>6. pc[t] # "free" /\ job[t] \in Jobs /\ Subject(t) \in Uploads
    BY <1>5, HandlerLeaves DEF UploadInv, ThreadFits, Jobs, Subject
  <1>7. Subject(t) = u
    <2>1. \E ok \in BOOLEAN : answers' = Append(answers, [upload |-> Subject(t), success |-> ok])
      BY <1>3, <1>4 DEF Find, TakeEntry, saveImage, Answer
    <2>2. PICK ok \in BOOLEAN : answers' = Append(answers, [upload |-> Subject(t), success |-> ok])
      BY <2>1
    <2> DEFINE b == [upload |-> Subject(t), success |-> ok]
    <2>3. b \in Answers /\ b.upload = Subject(t)
      BY <1>6 DEF Answers
    <2>4. answers' = Append(answers, b)
      BY <2>2
    <2> HIDE DEF b
    <2>5. a = b
      <3>1. Append(answers, a) = Append(answers, b)
        BY <1>2, <2>4
      <3>2. \A s \in Seq(Answers), x, y \in Answers : Append(s, x) = Append(s, y) => x = y
        BY AppendFacts
      <3> QED
        BY <1>1, <2>3, <3>1, <3>2
    <2> QED
      BY <2>3, <2>5 DEF a
  <1>8. Handles(t, u) /\ u \notin disturbed
    BY <1>5, <1>6, <1>7 DEF Handles
  <1>9. t # "main"
    <2> SUFFICES ASSUME t = "main" PROVE FALSE
      OBVIOUS
    <2>1. ByHand(job[t])
      BY <1>6 DEF SourceInv, MessageFits
    <2> QED
      BY <1>7, <1>8, <2>1 DEF ByHand, Subject
  <1>10. SentMessage(job[t]) /\ t \in Workers
    BY <1>6, <1>9 DEF SourceInv, MessageFits, Threads
  <1>11. CASE Find(t)
    <2>1. pc[t] = "find" /\ job[t].kind \in {"chunk", "end"}
      BY <1>11 DEF Find, SourceInv, PlaceFits
    <2>2. u \in Chunked
      BY <1>7, <1>10, <2>1, SentKinds DEF Subject
    <2>3. HandlerFits(t, u) /\ \A s \in Threads : s # t => pc[s] = "free"
      BY <1>8, <2>2 DEF Undisturbed, Progress
    <2>4. u \in DOMAIN entry
      BY <2>1, <2>3 DEF HandlerFits, ChunkFits, EndFits, Early, Collects
    <2>5. Contains(t) = {TRUE}
      BY <1>7, <2>3, <2>4 DEF Contains
    <2>6. answers' = answers
      BY <1>11, <2>5 DEF Find
    <2> QED
      BY <1>3, <2>6
  <1>12. CASE TakeEntry(t)
    <2>1. pc[t] = "take" /\ job[t].kind = "end"
      BY <1>12 DEF TakeEntry, SourceInv, PlaceFits
    <2>2. u \in Chunked
      BY <1>7, <1>10, <2>1, SentKinds DEF Subject
    <2>3. Collects(u, Chunks, Chunks)
      BY <1>8, <2>1, <2>2 DEF Undisturbed, Progress, HandlerFits, EndFits
    <2>4. u \in DOMAIN entry /\ Enough(entry[u])
      BY <2>3, ImageUploadAssumption DEF Collects, Enough
    <2>5. answers' = answers
      BY <1>7, <1>12, <2>4 DEF TakeEntry
    <2> QED
      BY <1>3, <2>5
  <1>13. CASE saveImage(t)
    BY <1>7, <1>10, <1>13 DEF saveImage
  <1> QED
    BY <1>4, <1>11, <1>12, <1>13

\* The handlers of an undisturbed upload always find its messages in order, with the entry that the
\* messages before have left.
THEOREM OrderInvariant == Spec => [](Undisturbed /\ StoredIsTheImage)
  <1>1. Init => Undisturbed /\ StoredIsTheImage
    <2> SUFFICES ASSUME Init PROVE Undisturbed /\ StoredIsTheImage
      OBVIOUS
    <2>1. DOMAIN queue = {} /\ (\A t \in Threads : pc[t] = "free") /\ DOMAIN disk = {}
      BY DEF Init, queue
    <2>2. ASSUME NEW u \in Chunked PROVE Progress(u, 0) /\ InOrder(u, 0)
      <3>1. ~timer[u] /\ Chunks \in Nat
        BY ImageUploadAssumption DEF Init
      <3>2. Progress(u, 0)
        BY <2>1, <3>1 DEF Progress, Handles
      <3> QED
        BY <2>1, <3>1, <3>2 DEF InOrder, Ahead, Single, Complete, Limited, Unsent
    <2>3. 0 \in 0 .. Chunks + 2
      BY ImageUploadAssumption
    <2> QED
      BY <2>1, <2>2, <2>3 DEF Undisturbed, StoredIsTheImage
  <1>2. UploadInv /\ SourceInv /\ OnceInv /\ (Undisturbed /\ StoredIsTheImage) /\ [Next]_vars
           => (Undisturbed /\ StoredIsTheImage)'
    BY UndisturbedKept, StoredKept
  <1> QED
    BY <1>1, <1>2, UploadInvariant, SourceInvariant, PTL DEF Spec

\* An upload of which every message was read alone and handled alone is stored as the image that
\* was sent, with every chunk at its place (handleChunkedImageChunk, handleChunkedImageEnd).
THEOREM UndisturbedIsStoredWhole == Spec => []StoredIsTheImage
  BY OrderInvariant, PTL

\* Such an upload is refused only when its file cannot be written: its entry is found, and has
\* enough chunks, whenever one of its messages is handled.
THEOREM UndisturbedIsRefusedForItsFile == Spec => RefusedForItsFile
  <1> DEFINE Refuses == \A u \in Uploads \ disturbed' :
          answers' = Append(answers, [upload |-> u, success |-> FALSE]) =>
              \E w \in Workers : pc[w] = "save" /\ Subject(w) = u
  <1>1. UploadInv /\ SourceInv /\ Undisturbed /\ [Next]_vars => Refuses
    BY RefusalHasAFile
  <1>2. RefusedForItsFile <=> [][Refuses]_vars
    BY DEF RefusedForItsFile
  <1> HIDE DEF Refuses
  <1>3. UploadInv /\ SourceInv /\ Undisturbed /\ [Next]_vars => [Refuses]_vars
    BY <1>1
  <1> QED
    BY <1>2, <1>3, UploadInvariant, SourceInvariant, OrderInvariant, PTL DEF Spec
=============================================================================
