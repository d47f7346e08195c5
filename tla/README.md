# A verification of the chat server

TLA+ models, TLC checks and TLAPS proofs for the instant messaging software in
`src/`: a Qt server (`src/ChatServer/src`), a Qt/QML client (`src/ChatClient`)
and the protocol they share (`src/Common`). The definitions are translated from
the C++ code; `PROJECT.json` names the lines of every one.

## 1. The system

One server process, many clients, one TCP connection per client, JSON messages.

* The **main thread** owns all sockets. It accepts connections
  (`handleNewConnection`), turns every `readyRead` into one task of the thread
  pool (`handleClientData`), cleans up after a connection that ends
  (`handleClientDisconnection`) and runs the events posted to it, above all
  `sendResponseToClient` and deferred deletions of sockets.
* The **workers** of the thread pool run `processClientData`: parse the message,
  find the client's entry in `clients`, and handle one of about thirty message
  types. They answer by posting `sendResponseToClient` to the main thread.
* Workers and main thread share the list `clients` (under `m_clientsMutex`, not
  everywhere), the map `m_pendingChunkedImages` (unprotected), and one SQLite
  file, over one connection per thread.
* The **client** (`ChatWindow`) is single-threaded; every `readyRead` is one call
  of `handleServerData`, and timers issue follow-up requests.

### Inventory

| component | state | operations | hard behaviour | what makes it correct |
|---|---|---|---|---|
| thread pool (`threadpool.cpp`) | task queue, mutex, condition variable, `m_stop` of each worker | `init`, `addTask`, `Worker::run`, `stop`, `waitForDone`, `~ThreadPool` | wake-ups, shutdown | each task once and in order, no lost wake-up, the destructor returns and leaves nothing running |
| connections and sessions (`server.cpp` 88-205, 253-408, 482-490, 1311-1404) | `clients`, its mutex, sockets, event queue | connect, message, disconnect, login, logout, status notifications | pointers into the list used after the mutex is released, deferred deletion, queued writes | the list is exact, a socket is deleted once, a handler acts for its own client |
| friends (`server.cpp` 424-746, 1667-2048) | tables `friends`, `friend_requests`; read and write locks of the connections | request, accept, delete, refuse, add, lists | statements of several workers interleave; statements time out | friendship is mutual, requests are answered once, no lock is left behind, everyone returns |
| database start-up (`server.cpp` 13-86, 1406-1598, `semaphore.cpp`, `filelock.cpp`) | named semaphore, file lock, tables | constructor, `initDatabase`, `start` | early returns, a kill while the semaphore is taken, two servers on one machine | one process or history reader inside at a time, an initialised server has every table, starts and histories end |
| chat history (`server.cpp` 1727-1858, `readwritelock.cpp`) | table `messages`, read-write lock | `getChatHistory`; `saveChatMessage` has no caller | shares the semaphore with every start | every history is answered |
| message queue (`threadmessagequeue.cpp`) | queue, condition variable | enqueue, dequeue, clear | none: only `saveChatMessage` enqueues, nothing dequeues | - |
| images (`server.cpp` 1109-1304, 2496-2727; `chatwindow.cpp` 2214-2948; `ChatPage.qml` 331-360) | files, `m_pendingChunkedImages`, the client's cache | upload, chunked upload, download | chunks handled by several workers, a worker that writes to the socket, retries | a stored image is the one that was sent; one that is shown as loading arrives, in its own place |
| groups (`server.cpp` 747-924, 2050-2325) | tables `groups`, `group_members`, `group_messages` | create, list, send | notices inside the transaction, members read after the message is stored, several workers | groups come into being whole, members and only members hear of messages, all in one order |
| framing and order (`server.cpp` 119-197, `messageprotocol.cpp`) | bytes in the socket | one read is one message | merged, split and overtaking messages | what is lost or overtaken does not mislead those who wait for it |
| accounts, profiles, avatars | table `users`, avatar files | register, search, update | shared connection used by workers | nicknames are unique |
| client session (`chatwindow.cpp`, `main.qml`, `ChatPage.qml`, `GroupChatPage.qml`) | login, name, current chat, page, list of messages | about sixty methods, responses, timers | answers that arrive after the state has changed, in another order, or never | client and server agree on who is logged in; what is listed belongs to the open chat |
| process manager, shared memory, SysV queue, logger | children, a segment, a queue, files | wrappers | signals, rotation | demonstrations: nothing else depends on them |

`PROJECT.json` lists every component with its status and, under `hazards`, what
is hard to test at the line where it bites.

## 2. What is modelled

### The thread pool: `ThreadPool`, `TaskService`

`TaskService` is what the server expects of a pool: tasks accepted in order,
started in that order, each at most once, nothing running once it is closed.
`ThreadPool` is the code: a critical section is one step;
`QWaitCondition::wait` ends a step, and the thread sleeps until `wakeOne`,
`wakeAll` or nothing at all wakes it, then evaluates its loop condition again.

| model | code |
|---|---|
| `StartWorker`, `AddTask` | `ThreadPool::init` (one turn of its loop), `ThreadPool::addTask` |
| `BeginDestroy`, `StopWorker`, `JoinWorker` | `~ThreadPool`: up to the loop, `worker->stop()`, `worker->wait()` and `delete` |
| `TakeTask`, `WorkerWait`, `WorkerExit`, `FinishTask` | `Worker::run`: dequeue, wait, break, task returned or threw |
| `CallWaitForDone`, `WaitForDoneLoop` | `waitForDone`, which nothing in the server calls |
| `WakeOne`, `WakeAll`, `SpuriousWakeup` | Qt's condition variable (external) |

Tasks are numbered by their `addTask`; what they do is the other modules' subject.
The pool is destroyed only when nobody is inside `waitForDone`, because
destroying a condition variable that threads sleep on is the caller's error.

### Friends: `Friends`, `Friendship`

`Friendship` is what users are promised: ask, accept, refuse, unfriend, each at
once. `Friends` runs the handlers of several workers statement by statement
over SQLite as `getThreadLocalDatabase` opens it: no PRAGMA, hence a rollback
journal, one writer, and a busy timeout. The locks matter, because the code
keeps one `QSqlQuery` for all statements of a function: a SELECT that found a
row holds its read lock until the next `prepare`, and one held when a
transaction begins is kept by it. That a checked request is still there when
it is deleted rests on this alone; so does the immediate failure of an accept
when another connection is writing.

| model | code |
|---|---|
| `Start` | `processClientData` for a logged-in client |
| `CheckFriends`, `CheckPending`, `Write`, `Duplicate` | `sendFriendRequest` |
| `FindRequest`, `RemoveRequest`, `LinkFriends`, `Commit` | `acceptFriendRequest` |
| `Write` | `deleteFriend`, `deleteFriendRequest` |
| `FindUser`, `AddRow`, `Commit` | `addFriend` |
| `OpenList`, `CloseList` | `getFriendList`, `getFriendRequests` and the pushes after an accept or a refusal |
| `CheckTimesOut`, `StatementTimesOut`, `ListTimesOut`, `CommitTimesOut` | a statement fails with "database is locked", and the error path of each function |
| `View`, `CanRead`, `CanWrite`, `AwaitReaders` | SQLite's locks (external) |

Only the rows and locks are kept: nicknames are model values, replies are the
pair "success or failure", and statements on other tables (messages, profiles)
do not appear; for locking they behave like the writes that are there. A writer
that cannot write for lack of disk space is not modelled: its error paths are
those of the timeouts.

### Connections and sessions: `Sessions`

The main thread, the workers and what they share: `clients`, `m_clientsMutex`,
the sockets and the main thread's event queue. `processClientData` finds the
client's entry under the mutex and follows a raw pointer to it afterwards, so a
pointer is modelled as what it is: the position of a cell of the list's
storage. `QList` removes the first entry by moving its start, any other one by
moving the later entries down, and may move everything when it appends. A read through
a pointer to no entry may return anything, or end the process (`Crash`).

| model | code |
|---|---|
| `handleNewConnection`, `handleClientData` | the functions of that name (one whole message per read) |
| `RemoveEntry`, `Unlock`, `TellFriends`, `DeleteLater` | `handleClientDisconnection`: inside the mutex, the release, `notifyFriendsStatusChange`, `deleteLater` |
| `RunEvent` | the event loop: `sendResponseToClient`, a deferred delete |
| `Find` | the search at the start of `processClientData` |
| `Refuse`, `Admit`, `TellFriendsOf`, `SetLoggedIn`, `SetNickname` | login |
| `CheckLogin`, `Store`, `Deliver` | text message |
| `CheckLogin`, `CheckLogout`, `TellFriendsOf`, `SayBye`, `Leave` | logout |

The queue of the pool is not repeated here: a message goes to a free worker, in
any order, which is what `TaskService` allows. All users are friends of one
another, so that status notifications reach as many sockets as they can. The
other message types follow the pattern of the text message (find, check the
login, work, post) and add no operation on the shared state, except
`AcceptFriend`, which walks the list without the mutex.

### Sending an image: `ImageUpload`, `ImageService`

`ImageService` is what a user is promised of an image he sends: it is stored at
most once, with no piece of it twice, and stays as it was stored; his friend is
told of it at most once, and only behind its storing. An image that was given up
may still be stored, but nobody hears of it. `ImageUpload` is the code: one
client that sends images, the connection, and the server's handlers of the four
upload messages. `m_pendingChunkedImages` is shared by the workers and, when it
saves a chunk by hand, the main thread; no mutex protects it. `append` and
`receivedChunks++` are therefore a read and a write, between which others run:
of two overlapping changes one can be lost. `take` in one thread leaves another
one with a reference to nothing (`lost`), and a lookup during an insertion or a
removal may miss. Image data are the pieces it consists of.

| model | code |
|---|---|
| `sendImageMessage` | the function of that name and `sendImageChunked`, with the first chunk |
| `sendNextImageChunk` | one call, when its timer fires |
| `handleResponse`, `LoseAnswers` | `handleChunkedImageResponse`, `handleUploadImageResponse`; two answers in one read |
| `handleClientData`, `ReadTorn`, `ReadMerged` | `Server::handleClientData`: a read that is one message, a part of one, or several, with the first chunk saved by hand |
| `Take` | a worker begins with `processClientData` |
| `handleChunkedImageStart` | the function of that name |
| `Find`, `Refer`, `ReadData`, `WriteData`, `ReadCount`, `WriteCount` | `handleChunkedImageChunk` |
| `Find`, `TakeEntry`, `saveImage` | `handleChunkedImageEnd`; `saveImage` also for a whole image |

The client's entry in `clients` is the subject of `Sessions` and left out here,
as are parameters the client never sends (an empty id, no chunks). A message
torn into two reads is lost, because neither half is a JSON document, except a
chunk that is torn behind its type, which comes last: it is saved by hand. A data
race is undefined behaviour and could in principle do more than lose an update;
the model keeps to what the compiled `QMap` and `QByteArray` operations do to
each other's data. To which chat the finished image goes is decided by
`m_isGroupChat`, which is in `ClientSession`.

### Receiving an image: `ImageDownload`

One chat of one client, from the message that names an image to the picture in
the list. An image that is not in the cache is shown as `[图片加载中...]` ("loading",
`None` in the model) and asked for; when it arrives, `updateImageMessages`
emits the signals that fill the list, at once and again half a second later.

| model | code |
|---|---|
| `Store`, `Deliver` | the worker that handles the friend's text message with the image |
| `Take`, `AnswerHistory` | `processClientData`, `getChatHistory` |
| `Refuse`, `BeginWrite`, `EndWrite` | `DownloadImageRequest`: no file; the worker's own `clientSocket->write` |
| `LoseRequests` | `Server::handleClientData`: a read that is no JSON document |
| `Download` | `downloadImage` |
| `selectFriend`, `selectOther` | `selectFriend` with `loadChatHistory`; `selectGroup`, or another friend |
| `handleMessage`, `handleHistory`, `handleImage`, `handleFailure` | the cases of `ChatWindow::handleServerData` |
| `ReadTorn`, `ReadImageFirst`, `ReadUnparsable` | a read that is not one message |
| `TrySave`: `Save`, `SaveFails`, `SaveCut` | the file in `handleDownloadImageResponse`: written; failed, with `downloadImage`; written in part and taken for whole |
| `Filled` | `updateImageMessages`, `onUpdatePlaceholderMessages` in `ChatPage.qml` |
| `RetryTimer`, `RepeatTimer` | the timers of `handleDownloadImageResponse` and `updateImageMessages` |

The cache is two things: the images that are `named` in `m_imageCacheMap`, and
their files, each `none`, `empty`, `broken`, a `part` that can still be decoded,
or `whole`. `downloadImage` asks for nothing when the image is named and its file
is there and not empty. A save opens the file for writing, which empties it: a
save that fails behind this leaves less than there was, perhaps of an image that an
earlier answer had cached whole and that stays named (`SaveFails`). What is
written can also be cut short unnoticed, because the bytes are counted before the
file is closed (`SaveCut`). `cut` keeps the images this has happened to. The
list holds images only. Files in the cache are not removed by others, and the
files on the server are images. The client can also read an image from a JSON
answer, which the server never sends. The other messages of the client and the
friend appear only as a cause of bad reads. Two threads that write to one socket
race; in the model one of the two packets can be lost (`Post`).

### Starting the server: `Startup`

Several server processes on one machine, each with the constructor,
`initDatabase`, `start` and the workers that read histories. What they share
outlives them or belongs to the machine: the named semaphore, which `sem_open`
finds with the value an earlier process left; the file lock, a POSIX record lock
that goes with its process, or when SQLite, in the same process, closes its own
lock of that file; the tables; the port. A process can be killed at every step
(the handler of SIGINT and SIGTERM calls `exit`, which destroys no `Server`), a
statement or a wait can fail (a `Semaphore` that could not be opened fails every
wait), and the machine can be rebooted.

| model | code |
|---|---|
| `Start` | `Server::Server` up to `initDatabase`; `sem_open(O_CREAT)` (`Opened`) |
| `LockFile`, `LockFails` | `m_dbFileLock->lock`, and the first early return |
| `TakePermit`, `WaitFails`, `Open`, `OpenFails` | `m_dbSemaphore->wait` and its early return; `db.open`, the early return that undoes both |
| `CreateTable`, `CreateFails` | one turn of the seven `CREATE TABLE` statements; the early returns that undo nothing |
| `InsertAccounts`, `Post`, `Unlock` | the test accounts, the two releases |
| `Listen` | `Server::start`, with the port taken (`deaf`) or not |
| `Request`, `TakeForHistory`, `HistoryWaitFails`, `Read`, `PostAfterHistory` | `getChatHistory` in a worker |
| `Kill`, `Reboot` | `ProcessManager::signalHandler`; the operating system |

`ReturnFalse` shows what follows an early return: the constructor calls
`QCoreApplication::quit()` before `exec()`, which does nothing, and `start()`
listens all the same. `~Server`, which would remove the semaphore, is reached on
no path and not modelled. The images' directory and shared memory are left out.

### Groups: `Groups`, `GroupService`

`GroupService` is what users are promised: a group is created at once with all
its members or not at all, a message of anybody is accepted at once, and the
answer tells which of the two happened. `Groups` runs the handlers of several workers
statement by statement. SQLite has one writer, whose transaction begins with its
first INSERT; the others wait, or fail. `notifyGroupCreation` posts its notice
while the transaction is open; a rollback unsays it, and the id is given to the
next group.

| model | code |
|---|---|
| `CreateGroup`, `InsertGroup`, `InsertCreator`, `InsertMember`, `Commit` | the message's case, `createGroup`; `InsertMember` is one turn of its loop with `notifyGroupCreation` |
| `CreationFails` | the five early returns and failing statements, all of which roll back |
| `sendGroupMessage`, `InsertMessage`, `InsertFails` | the client's function, the case `GroupChat` |
| `getGroupMembers`, `MembersFail`, `Tell` | `notifyGroupMessage`: the SELECT outside the mutex, the posts under it |
| `Answer` | the answer to the sender |

Whoever is logged in can write into any group, a member or not: the client keeps
`m_groupList` through a logout and shows it to its next user until his own list
arrives, and the server inserts the message without a look at `group_members`
(`sendGroupMessage` has no such guard). Nobody leaves a group. Who is online changes at every moment: a post reaches any part of those
it is for. The client has no case for the notice of a new group and drops it,
so that `NoticesAreTrue` speaks of what is posted. A group's name, the
content of messages, a member named twice and `saveGroupChatMessage`, which has
no caller, are left out.

### One client: `ClientSession`

The state of `ChatWindow` that is not images, the pages of `main.qml`, and what
the server's handlers make of its requests. The requests of one client go to
several workers (`Handle` takes any of them next), so their answers may overtake
one another. A read that is not exactly one message is no JSON document
(`chatwindow.cpp:414-418`, and the same in the server): a message that arrives in pieces is
lost, as a long history may be, and so is one that arrives together with another,
be that one of the model or not. Each step of `LoseRequest` or `LoseAnswer`
loses one message; of several that are read together, one after the other. A list item is its kind and the chat it is from.

| model | code |
|---|---|
| `login`, `logout`, `selectFriend`, `back` | the functions of `ChatWindow` (`back` is `clearChatType` and `pop`) |
| `openGroupPage`, `selectGroup` | the `onClicked` of `ChatPage.qml` and `GroupChatPage.qml`, `ChatWindow::selectGroup` |
| `Timer`, `RetryTimer` | the two `singleShot` of `selectGroup` as one, `retryTimer` |
| `ShowPage` | `onIsLoggedInChanged` and the page stack: a page that goes takes its list and timer with it |
| `HandleLogin`, `HandleLogout`, `Leave`, `HandleQuestion` | the server's cases; `handleLogout` answers first and clears the entry afterwards |
| `LoginAnswer` ... `LiveMessage` | the cases of `handleServerData` |
| `Shown`, `ShowInGroup` | which page listens to `messageReceived` and `groupChatMessageReceived` |
| `Deliver` | a message of somebody else |
| `LoseRequest`, `LoseAnswer` | a read that is no JSON document, in `Server::handleClientData` and `handleServerData` |
| `Disconnect` | `onDisconnected`; the client never connects again |

Left out: registration, search, profiles, friend requests (single questions with
single answers), the answer with a group's members, sending a message (it adds
an item of one's own to the list), and images, which have their modules.
`retryTimer` (a second) fires after the timers of `selectGroup` (100 ms).

## 3. What is checked

| run | instance | result |
|---|---|---|
| `thread_pool` | 3 workers, 4 tasks, 1 caller of `waitForDone` | all properties hold |
| `friends` | 2 users, 2 workers, every operation the client has, any initial tables | all properties hold |
| `friends_add` | 2 users, 2 workers, `addFriend` and lists | every handler returns |
| `sessions` | 2 connections, 2 users, 1 worker, 3 messages | all properties hold |
| `sessions_entry` | 3 connections, 2 workers, 2 messages | `HandlerActsForItsClient` is violated |
| `image_upload` | an image of 3 chunks and a small one, 2 workers, 1 bad read | all properties hold |
| `image_download` | 2 images, 1 worker, 1 opening of the chat, 1 bad read, 1 failing file or write | all properties hold |
| `image_download_shown` | 2 images, 2 workers, no fault | `EachShowsItsImage` is violated |
| `startup` | 2 processes, 2 workers each, 2 tables, 3 starts, 2 histories, kills, failing disks and waits | all properties hold |
| `groups` | 3 users, 2 workers, 2 requests, any one group there already | all properties hold |
| `client_session` | 2 names of which 1 is known, 2 friends, 1 group, 4 clicks, 2 lost messages, 1 live message | all properties hold |
| `client_retry` | 1 name, 1 friend, 1 group, 3 clicks, 1 lost message | `RetriesWhenUnanswered` is violated |

**Thread pool.** `ExactlyOnceInOrder`: the queue, the busy workers and the
finished tasks partition the submissions, the queue holding the latest in order.
`NoLostWakeup`: while a worker sleeps, there are at least as many awake workers
without a task as queued tasks. It needs that nobody calls `waitForDone`, whose
callers sleep on the same condition variable and can take a worker's wake-up.
`DestroyedIsQuiet` and `DestructorReturns` are the two halves of a clean
shutdown; `EveryTaskRuns` is the liveness of `addTask` while the pool is not
being destroyed (a stopping worker drops what is queued).
`ImplementsTaskService` is the refinement. Three workers let one be stopping,
one busy and one asleep; four tasks let the queue outgrow them.

**Friends.** `FriendshipIsMutual` (every list is read in one direction),
`CheckedRequestStays` (the check of `acceptFriendRequest` precedes its
transaction), `NoLockOutlivesItsHandler` (no error path leaves a transaction or
read lock behind), `ImplementsFriendship` (the committed tables change by whole
operations), `EveryHandlerReturns` (the waits for locks never form a circle),
`RefusalNeedsConflict` (a request that is there is refused with "not found" only
while another worker holds a lock, or if it crossed an existing friendship).
Two connections suffice for a lock conflict, since SQLite has one writer, and
two users are the two sides of every row; the initial tables are arbitrary,
because the file outlives the server.

**Sessions.** `ListIsExact` (open connections and entries are in step through
any interleaving, including writes through stale pointers), `DeletedOnce`,
`MessagesAreHandled` and `DisconnectionsEnd` (no worker and no clean-up waits
for the mutex for ever; the comment at `server.cpp:1321` names the deadlock
that is avoided). Two connections are needed to have an entry behind another;
three messages let two users log in before a third message is handled.

**Images.** `ImplementsImageService`: whatever becomes of the messages and their
handlers, at most one file comes of an upload and at most one chat message, and that
only behind the file, so that the receiver can get what is announced to him
(`SentAfterStored` is this part by itself). `NoPieceTwice` (neither the race on the map nor the
chunk saved by hand doubles a chunk), `StoredIsTheImage` and `RefusedForItsFile`: an upload none
of whose messages was torn, merged or handled while another was (`disturbed`) is stored
exactly, and refused only for want of disk space. `EndIsAnswered`: the end
message is answered however it overtakes or is overtaken. Three chunks are the
smallest image with a middle chunk. The nine-tenths rule asks for all three of them (it
lets one be missing from ten chunks on), so what the run shows of it is its upper
boundary: an upload that is complete is not refused for a chunk. That an image with chunks
missing is stored is allowed by the rule, and no property forbids it. Two workers and the main thread make every pair of overlapping handlers;
the small image adds a second upload whose messages mix with the first one's.

**Downloads.** `NothingForgotten`: an image that is shown as loading and is not
in the cache is being downloaded, through failures, files that cannot be
written or are emptied and cut by a failing write, a history that replaces what
is shown and a chat that is left. `CacheIsWhole`: a file in the cache is the whole
image, unless a failing write has cut it (`cut`); a merged read may lose packets, but never
caches one image with the bytes of another packet. `ImagesArrive`: what is under
way ends in the cache. The three exempt an image of which a request or an answer
was lost or torn (`damaged`): nobody asks for that one again while the chat stays
open. Two images are needed for one to suffer from the other's packets. One failure is
enough to start a retry, or to empty the file of an image that is cached: the
friend's message and the history both ask for it, so that it is saved twice. With
one worker, answers still overtake messages and history, and the messages of
`Deliver` are posted by other workers; two workers that answer two requests in
either order appear in `image_download_shown`. The invariants are proved for any number of
images, workers and failures; `ImagesArrive` is checked of one of the two images, which
stands for both, as no step tells them apart (`MCImageDownload`).

**Startup.** `PermitAccounted`: at most one start or history reader of the
machine is inside, and the semaphore is at zero with nobody inside only after a
permit was lost. `ServesWholeDatabase`: what a killed start left unfinished, the
next one finishes before it counts as initialised. `StartsEnd` and
`HistoryIsAnswered`: unless a permit was lost, starts and histories end.
The second process starts while the first one starts, serves or has
died, the third start is a restart; two workers compete for one permit; of two
tables one can exist and one not.

**Groups.** `HearsOwnGroups` (members only, never the sender, once, and stored),
`SameOrder` (two members who get two messages see them in one order, because the
mutex is held over the loop), `NoticesAreTrue` (an action property: a notice stays
true unless `CreationFails` rolls it back), `ImplementsGroupService`,
`EveryRequestIsAnswered` (a transaction that were left open would block the other
worker). Two requests make every pair of overlapping handlers; a third user
makes two receivers of one message, and the group that may be there at the start
lets both requests be messages. The sender of a message may be a member of its group or not.

**Client.** `LoggedInAsOneself`: a client that shows a user as logged in is that
user at the server, unless it sends a login or logout while another is under way
(`overlapped`). `NoGroupBehindThePage`: `m_isGroupChat`, which also decides
where a finished image goes, is set only while the group page shows that group.
`LiveIsOfOpenChat`: no order of clicks and answers lists a message in a chat
that is not its own (a refusal, a message of nobody, can be listed anywhere).
`HistoryAtRest`: the answer with a friend's history does not say whose it is;
still, once all requests are answered in their order, the open chat lists its
own history. `HistoryArrives`: it comes to do so. The last two exempt (`Orderly`)
answers that overtake one another, logins and logouts sent at once, and a chat since
whose opening a message of this client was lost in a read (`missed`): nothing asks
again for a history that came in pieces. What was lost before a chat was
opened does no harm to it. The other properties have none of these exemptions but the one named. Four clicks are login, a page or a chat, another chat, and back or
out; two names let a login be refused after another.

### Disagreements found

Each of the first three has a run that shows it.

1. `processClientData` (`server.cpp:268-277`) uses its pointer after the mutex
   is released: a disconnection moves the entries, and the handler of one client
   reads and writes the entry of another (`sessions_entry`).
2. `onUpdatePlaceholderMessages` (`ChatPage.qml:331`) does not look at the id of
   the image: with two messages loading, the first image that arrives fills both,
   and the one that arrives second changes neither, although `chatwindow.cpp:2680`
   says "all messages that show this image" (`image_download_shown`).
3. `retryTimer` (`GroupChatPage.qml:785-799`) is to ask again when the first request
   got no answer. It asks again if the list has one line of the system, the one
   that says "loading"; but `selectGroup` has cleared it. Without an answer nothing
   is asked again; an empty history that did arrive is asked for twice
   (`client_retry`).

No run is kept for the following; each is a step of the models, and the formula in
brackets, put in a `.cfg` (with the constants of the module's run), is violated.

4. A save that fails is to "try to ask for the image again" (`chatwindow.cpp:571`). But
   opening the file (`chatwindow.cpp:530`) has emptied it; if the write then fails in the
   middle of an image that the cache names already, `downloadImage`
   (`chatwindow.cpp:2400`) finds a file that is not empty, takes it for the image and asks
   for nothing, now or later. (`FailedSaveAsksAgain`)
5. `addFriend` (`server.cpp:1701`) ignores the result of `commit()`. A commit
   kept out by a reader until the timeout leaves the transaction open, the
   client is told "success", and every other writer fails until that worker
   happens to end the transaction. (`NoLockOutlivesItsHandler` with the constants
   of `FriendsAdd.cfg`.)
6. `acceptFriendRequest` holds the read lock of its SELECT when it wants to
   write; if any other connection is writing, its DELETE fails at once, without
   the busy timeout, and the user is told "Request not found or already
   processed" (`server.cpp:616`) of a request that is still pending. (`[][\A h \in Handlers :
   ~FalseRefusal(h)]_vars`, as a property; what does hold is `RefusalNeedsConflict`.)
7. The pointer of `processClientData` is null when the client has disconnected
   before its message is handled, and dangling when it disconnects meanwhile; the
   process dies, and the list of clients with it. (`NeverCrashes`)
8. `handleChunkedImageChunk` (`server.cpp:2629`) appends without a lock. Two
   workers with two chunks of one image can lose the data of one and count both,
   and `handleChunkedImageEnd` stores the image that has "at least 90 per cent"
   (`server.cpp:2673`) by that count. (`StoredIsAlmostWhole`)
9. Two servers that are started at once: SQLite drops the lock of the file
   (`server.cpp:1410`) when the first statement ends, the second process takes
   it and waits for the semaphore, and the next `CREATE TABLE` of the first one fails
   and keeps the permit (`server.cpp:1471`): both are stuck, and no history is answered
   until a reboot. (`PermitComesBack` with `Faults = {}`)

Also visible in the models: an image whose
packet was torn is cached as it is, and `downloadImage` (`chatwindow.cpp:2400`),
which finds a file, never asks for it again; two download requests that the
server reads together are both lost; `waitForDone` (`threadpool.cpp:106`), which
nothing calls, waits for an empty queue and not for "all tasks done"
(`threadpool.h:48`); two users
who ask each other leave, after one accept, a request that can never be accepted
(the INSERT breaks the primary key), only deleted; a check of
`sendFriendRequest` that times out counts as a check that found nothing; members
who were told of a group whose creation is rolled back keep the notice; a user who is no
member of a group, the second user of one client, can write into it; a group's
history that arrives late is added to the list of another group; and the answer to
a logout that was sent twice, or a second login at once, can leave client and server
with different ideas of who is logged in.

### Fairness

* `ThreadPool!FairSpec`: each worker, the destructor's loop and a caller inside
  `waitForDone` are weakly fair: the operating system runs every runnable thread
  and tasks return. Submitting a task, destroying the pool and spurious wake-ups
  are not fair.
* `Friends!FairSpec`: a worker whose next statement can run takes it. Timeouts
  are not fair: nothing has to time out for the handlers to return, except with
  `addFriend` (`TimeoutSpec`). `EveryHandlerReturns` excludes behaviours in which
  messages keep coming: SQLite does not queue the waiting connections, so under
  load one of them can lose every race until it times out.
* `Sessions!FairSpec`: the main thread's event loop and every worker are weakly
  fair; clients need not do anything.
* `ImageUpload!FairSpec`: every worker is weakly fair. Nothing is assumed of the
  client, the connection and the main thread.
* `ImageDownload!FairSpec`: every worker, the client's reading of its socket and
  its retry timers are weakly fair. Messages, bad reads, failures and the
  repeated update are not.

* `Startup!FairSpec`: a process and its workers run. Nothing has to be started,
  asked for or killed, and no call has to fail for a wait to end: the failing
  calls in front of the locks are not among the fair steps. `sem_wait` is not first come, first served; weak fairness is
  enough because the number of starts and requests is bounded.
* `Groups!FairSpec`: a worker whose statement can run runs it; nothing has to fail.
* `ClientSession!FairSpec`: the event loops, timers and handlers run, taken together
  (each of them uses up a finite supply of requests, answers and timers); the user,
  other users and bad reads do as they like.

### Bounds

`MaxTasks`, `MaxMessages`, `MaxBadReads`, `MaxOpens`, `MaxFailures`, `MaxStarts`,
`MaxRequests`, `MaxClicks`, `MaxLost` and `MaxLive` bound how many tasks are
submitted, messages handled, reads torn or merged, chats opened, files that cannot be
read or written, processes started, requests sent, clicks made, messages
lost in reads and messages received; every other quantity is bounded by the sets of the instance.
`CHECK_DEADLOCK FALSE` is set where the system really stops: a destroyed pool, a
process that has died, connections that are all over, a permit that is lost, users
who do nothing more.

## 4. What is proved

Eight modules hold proofs, checked by TLAPS for every value of the constants that the
named assumption of the component allows: `ThreadPoolProofs` (`PoolAssumption`),
`FriendsProofs` (`FriendsAssumption`), `SessionsProofs` (`SessionsAssumption`),
`ImageUploadProofs` (`ImageUploadAssumption`), `ImageDownloadProofs`
(`ImageDownloadAssumption`), `StartupProofs` (`StartupAssumption`),
`GroupsProofs` (`GroupsAssumption`) and `ClientSessionProofs` (`ClientSessionAssumption`).

| theorem | statement |
|---|---|
| `PoolTypeCorrect`, `PoolExactlyOnceInOrder`, `PoolDestroyedIsQuiet`, `PoolNoLostWakeup` | the invariants of the pool |
| `PoolImplementsTaskService` | the pool refines `TaskService` |
| `FriendsInvariant` | the inductive invariant |
| `FriendshipStaysMutual`, `AcceptedRequestStays`, `LocksEndWithHandlers` | the invariants of the friend handlers |
| `RefusalsHaveAConflict` | the action property of the refusals |
| `FriendsImplementsFriendship` | the handlers refine `Friendship` |
| `SessionsInvariant` | the inductive invariant |
| `SessionsTypeCorrect`, `ListStaysExact`, `SocketsDeletedOnce` | the invariants of the client list |
| `UploadInvariant`, `SourceInvariant`, `OrderInvariant`, `StoreInvariant` | the inductive invariants, each on top of those before it |
| `UploadTypeCorrect`, `AnnouncedIsStored`, `NoPieceIsTwice`, `UndisturbedIsStoredWhole` | the invariants of the uploads |
| `UndisturbedIsRefusedForItsFile` | the action property of the answers |
| `UploadsImplementImageService` | the uploads refine `ImageService` |
| `DownloadInvariant` | the inductive invariant |
| `DownloadTypeCorrect`, `LoadingImagesAreFetched`, `CachedImagesAreWhole` | the invariants of the downloads |
| `StartupInvariant` | the inductive invariant |
| `StartupTypeCorrect`, `PermitStaysAccounted`, `StartedServesWhole` | the invariants of the start |
| `GroupsInvariant` | the inductive invariant |
| `GroupsTypeCorrect`, `MembersHearTheirGroups`, `MembersSeeOneOrder` | the invariants of the group handlers |
| `NoticesStayTrueAlways` | the action property of the notices |
| `GroupsImplementGroupService` | the handlers refine `GroupService` |
| `ClientInvariant`, `HistoryInvariant` | the inductive invariants |
| `ClientTypeCorrect`, `ClientsAreThemselves`, `GroupsStayOnTheirPage`, `MessagesAreInTheirChats`, `HistoriesAreInTheirChats` | the invariants of the client |

Every invariant and every action property that a passing run checks, and each of the
four refinements, is the statement of one of these theorems.

*Thread pool.* `ExactlyOnceInOrder` and `DestroyedIsQuiet` are not inductive by
themselves: the destructor's position must be tied to the workers (all those
before it have exited, no stopped flag is ahead of it), and the pool has no
worker yet while `init` runs. `NoLostWakeup` needs a count: an `addTask` that
finds a sleeper makes one idle worker more, and one that finds none has no
sleeping worker to care about; a worker goes to sleep only on an empty queue.
The refinement follows from the invariant step by step: `AddTask` is `Submit`,
`TakeTask` is `Start`, `FinishTask` is `Finish`, the last `JoinWorker` is
`Close`, and everything else stutters.

*Friends.* The theorems assume that `addFriend` is not among the operations
(`"add" \notin Ops`; the client never sends it, and the runs show that two of
the properties fail with it). The invariant `FriendsInvariant` ties the locks to
the places of the handlers: who is inside a transaction is the writer, the
writer's draft is the committed tables with exactly the changes of the
statements already executed, and a handler between its SELECT and its DELETE
holds a read lock, so that nobody can commit under it. From this, a commit is
one whole operation of `Friendship`. An accept can be refused at five of its
statements; `RefusalsHaveAConflict` goes through them: where a lock stopped it the
invariant names its holder, and where the INSERT found a row the draft, which is
still the committed table but for the request, has the friendship.

*Sessions.* `SessionsInv` adds to the three invariants that the connection the
main thread is cleaning up is closed and has no deletion queued yet, and that a
busy worker has a message. The workers' part of the proof is one fact,
`KeepsSockets`: what a handler writes, through a good pointer or a stale one, is
never the socket of an entry, so only the main thread changes which connections
are listed. That is also why the list survives the stale pointers that the run
`sessions_entry` and the step `Crash` exhibit; what does not survive is the
content of the entries, and the process.

*Images.* Four invariants, each on top of those before it.

1. `UploadInv` ties what a thread holds to the place it is at
   (`ThreadFits`: who has a reference that is not lost has an entry to refer to, who
   is about to save holds a message of the upload) and demands that every success
   among the answers is for an image on the disk (`SuccessIsStored`). Files are
   never removed, so `SentAfterStored` follows although answers may be lost.
2. `SourceInv` and `OnceInv` follow the chunks. What is on its way, the pool's queue
   with the wire behind it, is looked at as one sequence (`queue`), so that reading a
   message moves nothing, and a loss only makes the sequence thinner (`Thinned`).
   Each message is one the client has sent or a chunk saved by hand (`SourceInv`), no
   two places hold the same chunk (`SentOnce`), and what is still on its way is not
   among what was collected (`NotCollected`). A thread that has lost its reference
   writes nothing, and one that overwrites another's data loses pieces but doubles
   none, which is `NoPieceTwice`.
3. `Undisturbed` is about one upload of which no message was torn, merged or handled
   beside another: at most one thread is at one of its messages, and there is a place
   `lo` in the order start, chunks, end such that what came before is collected in
   order (`Progress`) and what is behind is in the queue, in order and without a gap
   (`InOrder`). At the end message all chunks are there, so `Enough` holds and the
   file is the image; this gives `StoredIsTheImage` and, with the places at which an
   answer can be a refusal, `RefusedForItsFile`. What the client contributes is
   that it sends each message once and behind those before it; how fast threads and
   timers are does not matter.
4. `StoreInv` follows the one message of an upload that makes a file, its end or the
   whole image: it is in one place at most, and in none while the timer may still
   send it or once the file is there (`FinalOnce`); and nothing on its way is of an
   upload the client has not begun (`Offered`). With it each step is one of
   `ImageService` or none: a saved file is `Store`, an answer that finds the upload
   pending is `Announce` or `GiveUp`, and a timer that fires without a connection is
   `GiveUp`.

*Downloads.* With the types, the two properties are inductive. A download is at one of
four places (a timer, a request, a worker, a packet), and every step leaves it at one
of them, or caches the image, or counts it as damaged (`StillUnderWay`); what comes to
be shown as loading has just been asked for, or is cached in the same step
(`ShownIsKnown`). A cached image does not stay cached: a failing save can empty its file.
But whoever empties it asks for it in the same step (`SaveFails`) or starts its timer
(`SaveCut`); and a file stays as it is or becomes whole, unless a step adds the image to
`damaged` or `cut` (`Progress`), from which nothing is removed.

*Startup.* `PermitAccounted` is nearly inductive: each step that posts holds the
permit, and a kill drops the permit of the killed process and of its workers only.
It needs that the semaphore exists as long as a process does (`SemaphoreExists`: a
reboot, which removes it, finds nobody running). `ServesWholeDatabase` needs
`TablesFit`: the loop has made the tables before the one it is at, and no step
removes a table, so a process that comes behind the loop finds all of them however
many processes were in it at once. Nothing in the proof mentions the file lock,
which SQLite drops: the permit and `IF NOT EXISTS` carry both theorems.

*Groups.* `GroupsInv` says what the handlers are in the middle of: the writer is the
one handler whose transaction has written (`WriterFits`), what it has inserted and
what it still has to insert make up the group (`DraftFits`), whom a message is still
owed is in its group (`ToldFits`), and the message that is being posted is in the
table, is the handler's own and has not yet reached those it is owed (`MessageFits`).
The latter two give `HearsOwnGroups`. `DraftFits` makes a commit one `Create` of
`GroupService`; the insertion of a message is its `Say`, and all else stutters.
`SameOrder` is kept because `Tell` posts a message that is in nobody's inbox behind all
that is in the inboxes, to all its receivers in one step: the step is one because the
loop of `notifyGroupMessage` runs under the mutex.

*Client.* `ClientInv` rests on the messages that change who is logged in, the tokens:
a login or logout on its way, its answer, and the rest of `handleLogout` behind its
answer. Unless two of them were sent at once, there is at most one in each direction;
while there is one the client shows nobody as logged in; a login on its way has the
name the client keeps, and a positive answer is for the user the server has
(`TokensFit`). What lost messages and overtaking answers do to a sequence of requests,
removing, appending and reordering, never makes a second token (`Thins`). That no
group is open behind the page follows from `GroupFits` with it, and
`LiveIsOfOpenChat` from the fact that friend and group are never both set.

`HistoryAtRest` speaks of a moment at which nothing is on its way; `HistoryInv` says what
is true until then, while the answers keep the order of the requests and no message is lost behind the opening
of the chat (`Orderly`; an opening forgets the losses before it, so the invariant is also
about what is on the way from then on, `OrderlyBefore`). The
answers and the requests behind them are one sequence (`way`), the order of the clicks:
handling a request replaces it by its answer at the same place (`Kept`). In it, the last
answer that will clear the list is the history of the friend whose chat is open, or, if
there is none, that history is listed already (`FriendAsked`); for an open group, a timer,
or a question or an answer behind every clearing one, or the list itself (`GroupAsked`).
Nobody is refused on the way, because the server has whom the client shows
(`SessionFits`), unless two logins or logouts were sent at once.

Checked by TLC only, on the instances above: the liveness properties (`EveryTaskRuns`,
`DestructorReturns`, `EveryHandlerReturns`, `MessagesAreHandled`, `DisconnectionsEnd`,
`EndIsAnswered`, `ImagesArrive`, `StartsEnd`, `HistoryIsAnswered`, `EveryRequestIsAnswered`,
`HistoryArrives`), because TLAPS has no support for ENABLED and thus for fairness; and,
naturally, the three properties that are violated. With `addFriend`, where two of the
friends' properties are false, only `EveryHandlerReturns` is checked.

## 5. Not modelled, and what could follow

* *Chat history.* The read-write lock (`readwritelock.cpp`) prefers writers, but its
  only writer, `saveChatMessage`, has no caller: readers never meet one, and the
  named semaphore, which they also take, is in `Startup`. A model would be of code
  that never runs.
* *Thread message queue.* Only `saveChatMessage` puts a message in it and nothing takes
  one out: it is always empty.
* *Accounts and profiles.* Each operation is one statement of SQL and one answer; the
  hazards they share with the rest (locks, framing, order of answers) are in `Friends`
  and `ClientSession`. That registration runs over the main thread's connection is
  undefined behaviour of the SQL driver, about which nothing can be promised.
* *SysV queue, shared memory, child processes.* The queue has no user, the shared
  memory is written once at the start, and the processes that are started for every
  fifth connection do nothing that anybody reads.
* *Logger, build files, arguments, layout of the pages.* No behaviour that a property
  here is about. The logger holds its mutex for file output only.
* *Images in groups.* They use the steps of `ImageUpload` with another table for the
  message at the end; whom they reach is decided as in `Groups`.
* *The client's questions with one answer* (registration, search, profile, friend
  requests): an answer sets a label or a list of its own.

Message framing has no module of its own: merged and split reads are steps of
`ImageUpload`, `ImageDownload` and `ClientSession`, where they do harm.

What could follow: abstract specifications for downloads (an image is shown in the
places it belongs to, once its file is there) and for sessions, and the liveness
properties, should the prover come to support fairness. No module has RECURSIVE
operators, so all of them can be proved about.
