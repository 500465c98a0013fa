# generic_server in TLA+

A verification development of `generic_server`: a single-threaded `select`
reactor that hosts a logging service and a small file server (a repository that
keeps the list of files, and services that store them). This page says what the
system consists of, what is modelled and how, what the model-checking runs and
the proofs show, and what is left.

## 1. The system

| part | source | state | operations |
|---|---|---|---|
| Selector | `src/selector.cpp`, `inc/selector.h` | master and current fd sets, `m_eventHandlerTable`, `m_signalTable`, `m_isRunning`, the timer queue | `RegisterIO`, `UnRegisterIO`, `SchedualTimer`, `CancelTimer`, `CancelAllTimers`, `RegisterSignal`, `UnRegisterSignal`, `HandleEvents`, `SignalHandler` |
| Reactor | `src/reactor.cpp`, `inc/reactor_impl.h` | a pointer | forwards to the Selector |
| EventHandler | `inc/event_handler.h` | `m_fd`, `m_timer` | virtual handlers, `Destroy` (`delete this`) |
| Acceptor | `inc/acceptor.h` | a listening socket | `Init`, `Open`, `HandleInput` (accept, construct, `Open`, set the timer), `HandleSignal`, `HandleClose` |
| LogHandler | `src/logging/server/log_handler.cpp` | a log `FILE*` per connection | `Open`, `HandleInput`, `HandleTimer`, `HandleSignal`, `HandleClose` |
| FsRepoHandler | `src/fileserver/server/repo_handler.cpp` | the files list (`FILE*`), transfer members, static `m_downloadServers` | the same, `HandleOutput`, and `DISCOVERY`, `GET_SERV_DOWNLOAD`, `GET_SERV_UPLOAD`, `UPDATE_FILES_LIST` |
| FsServiceHandler | `src/fileserver/server/service_handler.cpp` | the current `FILE*`, transfer members | the same, `HandleOutput`, and `DOWNLOAD`, `UPLOAD` |
| protocol clients | `src/fileserver/client/fileserver_protocolos.cpp` | a socket, the last header | `Discovery`, `GetServers*`, `UpdateFilesList`, `Download`, `Upload`, `UploadPair`, `DownloadPair` |
| programs | `interactive_*.cpp`, `single_client.cpp`, the logging clients, `server.cpp` | | order of the calls above; `main` opens four acceptors and enters the loop |
| file operations | `src/file_operations.cpp` | files | `DivideFile`, `CombineFile` by lines |
| common | `src/fileserver_common.cpp` | | `HashFileName` (DJB2), `MD5ChkSum` (a shell command), `FileSize` |
| timer queue, heap, vector, list | `lib/lib.a`, headers in `inc/` | nodes ordered by time | binary only: seen through its header |

How they interact. One thread runs `HandleEvents`: copy the sets, `pselect`,
serve the elapsed timers, then walk the descriptor table and call `HandleInput`
and `HandleOutput` of every object whose bit is set. A handler registers itself
with the Selector, is called back by it, and closes and **destroys itself**
inside a callback: on its peer's end of stream, on a failed write, in its timer,
or in SIGINT's handler. SIGINT is the only asynchronous actor inside the
process: `SignalHandler` closes every registered object on top of whatever was
running. Peers connect, send, stall and leave whenever they like. Only the
listening sockets are non-blocking.

What is hard, and what makes each part correct:

* *Selector*: tables that outlive the objects they point to, descriptors that
  are reused, bits that are stale when they are used, a signal at any moment. It
  is correct when what it watches and will call is exactly what exists.
* *Acceptor and handlers*: construction and closing in several steps that may
  fail or be interrupted in the middle; no connection is forgotten, none is
  used after its release, all are released in the end.
* *File transfers*: one file over many partial writes, interleaved with other
  connections that change the file; every byte arrives once, and the end is
  recognised by both sides.
* *Uploads*: request, header and body are one stream without boundaries, and a
  blocking reader that loses count waits for ever or reads a file as requests;
  "true" has to mean stored.
* *Repository*: one file that every handler appends to through a buffer of its
  own, and a map in memory, over SIGINT, kill and restart.
* *Pairs*: a file is two parts on two connections, stored one after the other and
  announced later still, by clients that may fail anywhere and do not know of
  each other; what is listed has to be stored, and what is joined has to be of
  one file.
* *Checksums*: a temporary file with a fixed name, shared by every process that
  was started in the same directory.

`PROJECT.json` lists the hazards one by one, at their lines.

## 2. The modules

```
Sockets  <-  Selector  <-  Handlers  <-  Acceptors  <-  Server  <-  MCServer
(peers,      (reactor)     (log, repo,   (accept)       (Spec,      (constants
 kernel)                    service)                     properties)  for TLC)
                                                              <-  MCFaults
                                                     (a choice of misfortunes)
                                         EventLoop <-- Refinement
                                         ServerProofs  <-  FaultProofs
FileStream   (one transfer, counted in bytes)  <--  FileStreamProofs
Upload       (one upload, counted in bytes)    <--  UploadProofs
    \ AtomicUpload <-- UploadIsAtomic
CheckSum     (several MD5ChkSum)  <-  MCCheckSum    CheckSumProofs

FilePair     (split and join)                       FilePairProofs
PairLoops    (their loops)        <-  MCPairLoops   PairLoopsProofs
Repository   (list and map)       <-  MCRepository
    \ with FilePair /
FileStore    (the clients' menu over repository and services)
             <-  MCFileStore                        FileStoreProofs (both)
```

**Sockets** is the outside: `dial`, `peer` and `phase` of each connection, the
kernel's accept queue `backlog`, the server's descriptor `sock` and the open
listening sockets. A conversation is reduced to its phase: nothing owed, a
request unread, a file being sent, a file sent whose end the server has not
noticed, and that with the next request already there. A `Client` is one
connection; a program that connects twice is two clients.

**Selector** has the variables of the class under their own names without `m_`:
`readMaster`, `writeMaster`, `readCurrent`, `writeCurrent`, `table`,
`sigTable`, `running`. `timer[c]` and `due` stand for the queue: a node is armed,
cancelled (still in the queue) or freed. `obj[c]` is the life of the handler
object, `pc` and `cur` where the thread is. Each part of `HandleEvents` that can
be interleaved with a signal, a peer or the clock is an action. `ForEachSafe`
visits the set bits in ascending order (`IsNext`).

**Handlers** has one action per handler function: `LogHandleInput`,
`RepoHandleInput`, `ServiceHandleInput`, the outcomes of `HandleOutput`
(`IgnoreOutput`, `SendChunk`, `SendLastChunk`, `SendFails`, `SendBroken`),
`HandleTimer`, and `HandleClose` inside them. `HandleClose` is taken apart where
SIGINT makes a difference: after its `fclose`, with the handler still registered
(`CloseFile`, `FcloseFails`, `CrashInFclose`), the rest of it follows as a step of its
own (`FinishClose`, and `FinishTimer` when `HandleTimer` called it), and a SIGINT in
between closes the same `FILE*` again. So is `HandleTimer`, from its call (`"expire"`) to
its end (`TimerServed`). `CloseAll` is the effect of closing
any set of handlers and acceptors; SIGINT uses it for all of them at once. An
upload is the one handler call that waits for its peer in the middle
(`pc = "upload"`).

**Acceptors** splits `Acceptor::HandleInput` where a signal makes a difference:
accept and construct, `Open`'s registrations, its `fopen`, set the timer. A SIGINT
between the second and the third finds a handler without its file.

**Server** composes them and states the properties. **MCFaults** runs it under one of
several sets of misfortunes, which is chosen before it starts. **EventLoop** is the abstract
specification: connections are admitted, served, expired and released, one
handler at a time, never after release; `Refinement` maps the server to it.

**FileStream** is `WriteFileToSocket` of both file handlers, byte by byte, with
the members `m_fileOffset`, `m_sendBufferOffset`, `m_currReadSize`, `m_isEof`,
every way to split the writes and the reads, the client's receiving loop, several
files on one connection, and other connections that change the file: freely
between two transfers, and as `FileChange` says during one. It shows in detail
what `Server` abstracts to a chunk, a last chunk and a failed chunk.

**Upload** is the other direction: the client's `Upload` with its `SendHeader` and
the loop of `WriteFileToSocket`, the service's `HandleInput`, `HandleUpload` and
the loop of its `WriteSocketToFile`. `put` and `taken` count the bytes written to
and read from the socket, so what a read brings depends on where in the stream
it happens. `server` is the read the handler blocks in; only in the loop
(`"idle"`) can its timer close it. Each misfortune (a header in pieces, a wrong
checksum, a failing `fopen`, a short `fwrite`, a client that ends) is an action
that notes itself in `trouble`, so that the properties can say exactly which of
them breaks what. **AtomicUpload** is what an upload is to everyone else: the stored
file is replaced in one step, and the client is told afterwards, if at all; the
mapping is at the end of `Upload`. It is what lets `FileStore` store a part in one
step that may fail with a beginning of it.

**Repository** is what `FsRepoHandler`s share: the files list on disk
(`filesList`, how often each line is there), the line in the buffer of each
handler's `FILE*` (`buffer`), and `m_downloadServers`. `FileAppend` seeks before
it writes, which flushes the previous line and leaves the new one in the buffer;
so do `FileSize` before a list is sent, and `fclose`. `Kill` empties the buffers,
SIGINT closes every handler, `Restart` starts with an empty map.

**FilePair** states what the two loops of `file_operations.cpp` compute, as
functions on sequences of lines; `FileStore` uses them.

**PairLoops** is the loops themselves: `at` is the `getline` that is next, `read`
how many lines each `ifstream` has given, `failed` the `ofstream`s that take nothing
more. `DivideEven`, `DivideOdd`, `CombineEven` and `CombineOdd` are a `getline` that
succeeds with the write that follows it, `DivideReturns` and `CombineReturns` one
that fails, at the loop's head or at its `break`. A call may fail to open each of
its files in turn, a write may fail and leave a piece of its line, and parts may
be downloaded that do not belong together. `fresh` (history) says whose output
the parts and the output are.

**FileStore** composes the two with the clients. `at[c]` is where in `OptionSwitch`,
`UploadPair` or `DownloadPair` a client is; its actions are the calls of the
protocol classes, and `Abandon` is any of them returning false. `stored` is what
the services hold, by the hash of the name and the part. A download is sent line
by line, by a handler that reads what is in the file *now*, while other clients
upload. `inbox` holds an `UPDATE_FILES_LIST` that nobody has read yet. `leaked` are the
`FILE*`s that the error returns of `WriteSocketToFile` do not close
(`service_handler.cpp:435-451`): which file each is of, where in it, and what is in its
buffer. A crash loses them; after SIGINT `exit` writes them in any order
(`FlushLeaked`), over what the file has become since, and only then can the process
be started again. `CutTransfers` is what the end of the process does to clients in
the middle of something. `writer`, `settled`, `overlaid`, `expected`, `sameProcess`,
`promised` and `denied` are history variables: no action reads them for anything but the
history.

**CheckSum** is one `MD5ChkSum` per process, system call by system call: the
shell's redirection, md5sum's write, `fopen`, `fread`, and the second shell's
`rm`. Names and inodes are apart, because a removed file that is still open is
written and read as before.

### Abstractions

* *Faults end the model.* Undefined behaviour (a call on a destroyed object, a
  `FILE*` that is NULL or closed, a `TimerId` that names no node) and SIGPIPE set
  `fault`, and nothing happens afterwards. What a build does next is not guessed.
* *Misfortunes are switched on per instance* by the constant `Disturbance`:
  timeouts, SIGINT, peers that leave in the middle, a failing `fopen` in `Open`,
  a failing `fclose` in `HandleClose`, files that end on a buffer boundary.
* `SignalHandler` is one step: SIGINT is blocked while its handler runs. The calls
  into `std::map`, `malloc`, stdio and the timer queue are atomic with respect to it:
  that a signal in the middle of one finds it inconsistent is undefined whatever
  the server does. `RegisterIO` and `RegisterSignal` of `Open` are one step, since
  SIGINT looks at the signal table only, and so are `SchedualTimer` and `SetTimer`
  (a SIGINT between them finds the `TimerId` -1, as one just before them does). From
  `UnRegisterSignal` on SIGINT no longer reaches a handler, so the rest of
  `HandleClose` is one step. A SIGINT inside the `HandleClose` that `HandleOutput` calls
  for `HandleDiscovery` or `HandleDownload` is followed only as the fault it is
  (`SendAfterClose`).
* Client sockets are blocking: a `read` or a `write` may keep the thread as long as its
  peer likes. A step of a handler that needs its peer is taken when the peer lets
  it; `PeerHolds` says when that is so, and no fairness but `PeerFairness` excludes
  that it is for ever.
* An empty timer queue makes `pselect` wait 30 days (`NO_TIMERS`): for ever.
* The order in which two elapsed nodes are served is left open.
* Which free descriptor `accept` returns is left open (POSIX: the lowest).
* A service connection carries one file, as in every client here; a repository
  connection carries any number of requests.
* A handler that is called for the stale write bit of its descriptor's last
  owner sends its file unasked; what the peer makes of the bytes is left out.
* *Upload*: the network cuts only the header, which the code reads with one
  `read`; the body may be read in any pieces, and a request, which is small and
  first, arrives whole. A write to a connection that the server has closed fails
  at once (in a real kernel the second one does). A piece of a header keeps the
  low bytes of the size and loses the checksum behind it. That left-over bytes
  might spell a request is not followed.
* *Repository*: where in the file a line stands is left out, how often it is there
  is not. A buffer holds one line: every operation flushes before it writes.
* *FileStore*: a line of text stands for what one `HandleOutput` sends; the server's
  write and the client's read of it are one step, `FileStream` has them apart. An
  upload is one step, because the server serves nobody else meanwhile, with every
  prefix as its failure, part of it in the file and part in a leaked buffer (`Upload`
  implements `AtomicUpload`, in which the beginning is what the file and the buffer
  have together; that a header in pieces may leave more than the file is not followed
  here). A buffer that is written beyond the end of its file leaves a hole, which
  reads as `Zeros`. The parts of a name are kept under the name's own hash: DJB2 goes
  on from it over the common suffix, so two names collide with the suffix exactly when
  they do without. Both services and the repository run in one process over one
  directory, as `server.cpp` has them. The user announces the name that was uploaded
  (`ClientUpdateRepo` asks for it again). Each client has a directory of its own for
  its temporary parts and its checksums.
* `single_client.cpp` makes the menu's calls once, in a fixed order, and ends at
  the first failure: one path of `FileStore`.
* *PairLoops*: the piece of a line that a full disk leaves is any line, without its
  newline; a disk that has been full stays so for the stream that met it, and may
  take what the next one writes. The name of the file is the caller's matter.
* *CheckSum*: shells and md5sum succeed; a file stands for its sum.
* Left out: failures of `close`, `malloc`, `fseek`, `ftell`; a log message
  without `#`; the limit of the accept queue; the 10 us sleep.

## 3. The runs

Instances of the server: two connections, two free descriptors 7 and 8, three
acceptors, one of each class, on descriptors 4 to 6 (`ending` leaves out the
repository, which closes as the service does, and `late_sigint` needs one connection
only). Two connections are enough for what the properties relate: a connection and the
one that takes over its descriptor, or that it makes wait; the invariants about tables
are also proved for any number. Every connection chooses its port, so all pairs of
classes occur. `SYMMETRY` only in the run without liveness.

| run | specification | what it shows |
|---|---|---|
| `failing_calls` | `MCFaults!ChoiceSpec`, five sets of misfortunes | no fault comes about without one of its causes among the misfortunes (`FaultsCaused`); where only `fopen` and `fclose` fail, at any call, and peers read what they are sent, every request is answered unless the server breaks (`Answered`) |
| `disturbed` | `Spec`, all disturbances | tables, timers and handlers agree (`InterestIsOwned`, `LiveHasTimer`, `CallbacksReachLive`, `LiveIsRegistered`, `WriteInterestIsResponse`); the abstract event loop is implemented |
| `ending` | `LoopSpec`, timeouts, SIGINT, hangups, whole buffers | SIGINT releases everything but the connection being accepted; every connection ends unless a fault ends the process or a peer holds the thread for ever (`PeerHolds`), whatever the peers do |
| `stale_dispatch` | `Spec`, timeouts | violated: a destroyed handler is called |
| `late_sigint` | `Spec`, SIGINT | violated: pselect is entered after the server has closed |
| `stream` | `FileStream!FairSpec`, 0 to 3 buffers of 3 bytes | no byte lost or doubled, exact delivery, clean handler between files, transfers end |
| `growing_list` | `FileStream!Spec`, the file may grow | violated: the client is past the announced size and still reads |
| `checksum` | `CheckSum!Spec`, three processes, two directories | a call that overlaps no other in its directory returns its own file's sum; a process alone never reads through a null pointer; the temporary file is always removed |
| `upload` | `Upload!FairSpec`, a buffer of 2 bytes, files of 0 to 5, every misfortune | `true` means stored, whole; body bytes are read as requests, and the two sides wait for each other, only after the misfortunes named; to everyone else it is the one step of `AtomicUpload`; `Upload` returns |
| `pair_loops` | `PairLoops!Spec`, files of none to three lines, every open and write may fail | where no write failed the loops compute `FilePair`'s functions; where one did, what is there begins as it should, although the call returns OK |
| `repository` | `Repository!Spec`, three handlers, three names with two keys | no announcement is forgotten, one header, what is found is listed, answers do not change, the list only grows |
| `file_store` | `FileStore!StoreSpec`, two clients, one name announced once, one leaked `FILE*` at a time, files of one and three lines | an undisturbed download is the file uploaded; an accepted part is of one upload, although leaked buffers are written over stored files when the process ends; what is listed, found or about to be is stored; nobody is denied what it announced |

`failing_calls` chooses among the widest sets of misfortunes that must not cause
some fault: `openfail` and `fcloseFail` (no freed handler is called), the two and
`sigint` (no SIGPIPE), `timeout`, `hangup` and `wholeBuffers` or `fcloseFail`, `hangup` and
`wholeBuffers` (no `TimerId` is used that names no node), `hangup` and `wholeBuffers` (no
`FILE*` that is not open). With any more each of them would have a cause.

`stream`'s sizes are 0, one byte short of, exactly, and one byte over one and two
buffers, and three whole ones: a transfer with zero, one, two and more refills,
with and without a remainder. Three bytes are enough to split a buffer in up to
three writes.

`upload`'s sizes are none, one, two and three chunks with and without a remainder; a
request of 2 and a header of 3 bytes can be cut, and can be told from each other and
from a chunk. Three handlers in `repository` are one that writes, one that holds a
line and one that looks; two of its three names share a key, and a second update of a
name meets the map's `insert`. In `file_store` the file of one line has no odd part
(the upload that cannot succeed), those of three lines have an even part of two, so
that it can change in the middle and an upload of it can leave one line in the file
and one in a leaked buffer; two clients are an uploader and a downloader, or two
uploaders. One announcement and one leaked `FILE*` at a time are what the state space
allows; the proofs have any number of both. More names add nothing there but
collisions, which `repository` and the proofs have. Two of `checksum`'s processes
share a directory, and its inodes are enough for one to be open after its removal in
each.

`pair_loops`'s files have no line, an even and an odd number of lines, with and
without a last newline; any two of them may be downloaded as a pair, so that each
part is the longer one and the loop is left at each of its ends.

Deadlock is checked in the runs in which the system can always go on (`checksum`,
`repository`, `file_store`, `pair_loops`). In the others it is not (`CHECK_DEADLOCK
FALSE`): the server stops after a fault, after `HandleEvents` returns, and when every
connection has come and gone; an upload ends.

### The disagreements

The three violated properties are things the source says of itself:

1. `selector.cpp:271` calls the iteration safe; `selector.cpp:309` dispatches
   bits after the timers have destroyed their owners.
2. `selector.cpp:88` announces "SERVER CLOSED !"; the loop may wait in `pselect`
   all the same, because the test of `m_isRunning` and the wait are not atomic
   (`pselect` is given no signal mask).
3. `fileserver_protocolos.cpp:237` breaks when the file is sent; a files list that
   grows meanwhile is sent beyond the announced size and the equality is missed.

Others need no run. `selector.cpp:306` releases expired clients, but one that stalls
inside an upload is read from with a blocking `read` and holds the loop: the
liveness properties are stated under a fairness of the peers, or up to
`PeerHolds`. `file_operations.h:16` promises -1 on error, but no stream is looked at
after it is opened, and a full disk leaves a part cut short and the result OK
(`PartsBegin` says all that is left). `service_handler.cpp:435-451` leaves the `FILE*` of a
failed upload open, and `exit` writes the rest of it over what may have been confirmed
since (`FileStore`'s `FlushLeaked`): a stored file is only as good as the process that
lists it. `file_operations.h:19` combines "back to the
original file", but `endl` also ends a last line that had no newline (`Written`).

### Fairness

`LoopFairness` is what the code and the clock give: the thread keeps running unless a
peer holds it (`WF` of a step of the server, the end of an upload included, while
`~PeerHolds`), and 240 s pass (`WF` of `Timeout`). `ConnectionsEnd` needs no more, and
excepts a peer that holds the thread for ever: the code has no bound for a blocking
`read` or `write`, timers included. `PeerFairness`, which the code cannot enforce, is kept
apart and used for `Answered` only: what a handler waits for comes (`WF` of `ServerStep`),
an announced upload arrives or breaks (`WF` of `Upload`), a peer that is sent a file
reads it, so that its socket is reported writable again and again (`SF` of
`ReportWritable`), and, files being finite, sending chunks of it reaches the last
one (`SF` of `SendLastChunk`). Nothing makes a peer send a
request or leave. `FileStream!FairSpec` has weak fairness for the server's and the
client's steps and none for the timer. `Upload!FairSpec` has weak fairness for
both sides and for the timer, whose 240 s pass (it can only fire when the handler
is back in the loop, so it does not help a server that blocks in a body); none
makes the client leave. A server that has rejected a checksum sends nothing, so
it is this timer that ends the client's wait. The other modules have safety
properties only: nothing makes a user do anything.

## 4. The proofs

`ServerProofs` proves with TLAPS, for every value of the constants that
`ConstantsAssumption` allows (any set of connections and acceptors, any
descriptors with the listening ones below the others, any disturbances):

| theorem | statement |
|---|---|
| `Invariance` | `Spec => []IInv` |
| `TypeCorrect` | `Spec => []TypeOK` |
| `OwnedInterest` | `Spec => []InterestIsOwned` |
| `LiveCallbacks` | `Spec => []CallbacksReachLive` |
| `NothingForgotten` | `Spec => []LiveIsRegistered` |
| `InterestFollowsResponse` | `Spec => []WriteInterestIsResponse` |
| `ServerImplementsReactor` | `Spec => Refinement` |

`IInv` is `TypeOK` and `Ownership`. The three properties are not inductive: that
a watched descriptor belongs to a live handler survives `accept` only if the new
descriptor was not watched, survives SIGINT only if the logger, which never
clears the write interest when it closes, never has one, and survives
`Acceptor::HandleInput` only if what is under construction is known. So the
invariant adds:

* `SocketIsLive`: the handlers that are live are those that have a socket, each
  its own;
* `FreshHasNothing`: a connection in the backlog has no handler yet, and a
  connection without handler no timer;
* `UnderConstruction`: between accept and SetTimer the handler is live, without
  timer, and before `Open` unknown to SIGINT;
* `OnlyFileHandlersWrite`: no listening socket and no logger's socket is ever
  watched for output.

The proof has a lemma per action group. `CloseAllOwnership` (closing any set of
live handlers and acceptors) serves the three `HandleClose`, the timer and
SIGINT; `RegisterOwnership` (a live handler registers its own socket) serves
`Open` and the first chunk of a file; `QuietStep` serves every step that touches
no registration.

`InterestFollowsResponse` adds `Owed`: nobody is sent a file before it is accepted or
after it is released, only a files list is followed by a request already there,
and only a service is in an upload.

`ServerImplementsReactor`: each abstract step has a lemma in terms of the mapping
(`Stage`, `Active`, `Status`), and each group of the server's actions one that names
the step it is. The mapping needs two facts besides `IInv` (`Admission`): a table
entry only ever names a handler that was made, so what the loop calls is open or
released, never unborn; and once `m_isRunning` is false nothing listens, so nobody
is admitted by a server that is going down.

`FaultProofs` asks what it takes for the server to break, again for every value of
the constants, and so for every set of misfortunes at once:

| theorem | statement |
|---|---|
| `TimersGuardConnections` | `Spec => []LiveHasTimer` |
| `ShutdownIsComplete` | `"fcloseFail" \notin Disturbance /\ Spec => []ShutdownReleases` |
| `FaultsHaveCauses` | `Spec => []FaultHasCause` |
| `UndisturbedIsSafe` | `Disturbance = {} /\ Spec => []NoFault` |

`FaultHasCause` names for each of the four faults the misfortunes of which one at
least has to be there; each of those brings the fault about by itself (for a timer
that is gone, `fcloseFail` together with `timeout`), so the lists cannot be
shortened. `UndisturbedIsSafe` is the corollary for no misfortune at all. The
argument has a lemma that says what any handler does (`HandlerDoes`: it closes,
answers, begins a file or goes on with one) and one that sorts every step of the
server (`NextIs`), so that each invariant below needs one case per kind of step:

* `Conversations` (who speaks): a file that fills no whole buffers is seen to end
  when it is sent, and a peer that never hangs up leaves between conversations.
  SIGPIPE follows from it and from `Round`.
* `Round` (no timeouts): an output bit that is still to be served belongs to the
  handler it was set for (`WriteBits`), which is sending on it or has been released.
  It survives `accept` because the listening descriptors are the lowest and are
  served first (`AcceptsFirst`), so that no connection takes over the descriptor
  of a bit. This is why a timeout is what SIGPIPE takes where no peer misbehaves.
* `Timers` (a handler without a node is being opened, or its `fopen` failed, or its
  timer has fired and its `fclose` failed, the last two only under the misfortunes
  that say so) and `OpenFiles` (every handler has the file it works on) bring the
  faults of the timer queue and of the `FILE*`s down to the calls that fail and to
  SIGINT between two steps of `Open` or of `HandleClose`.
* `Calm` (no connection ends but at a read that finds it ended): every bit of a
  round is served for the connection it was set for, its handler is alive, is not
  the one running, and has what the bit says (`FreshBits`); so no handler is
  called, or goes on, after its release (`CalledIsLive`). That is what a timer
  breaks in `stale_dispatch`.
* `Shutdown`: every acceptor that listens is in the signal table, so that SIGINT
  closes all of them, and of the handlers leaves one that has not registered.

`FileStreamProofs` does the same for one transfer, for every `BUFFER_SIZE` above 0
and every set of file sizes:

| theorem | statement |
|---|---|
| `TypeCorrect` | `Spec => []TypeOK` |
| `CleanStart` | `Spec => []CleanBetweenTransfers` |
| `NoByteLost` | `FileChange = {} /\ Spec => []Conservation` |
| `Delivered` | `FileChange = {} /\ Spec => []ExactDelivery` |
| `TransferCounts` | `FileChange = {} /\ Spec => [][Ask \/ ChangeFile \/ Lower]_vars` |
| `FinishedMeansWritten` | `FileChange = {} /\ Spec => []WaitsForSomething` |

Its invariant has two parts. `Buffered` (a buffer that is partly written has a
rest) makes the two branches of `WriteFileToSocket` one account: `RefillConserves`
says that a refill moves bytes from file to buffer, `PartConserves` that a write
moves them from buffer to wire. `Transfer` says what exact delivery needs between
the calls: `m_isEof` is set only at the file's end and with bytes left to write,
the announced size is still the file's, and a client that asks anew while the
server still holds the write interest (the whole-buffer case) finds the offset at
the end. The last two need a file that nobody changes during the transfer;
`growing_list` shows what happens otherwise.

`CheckSumProofs`, `UploadProofs`, `PairLoopsProofs` and the first half of
`FileStoreProofs`, which is about `Repository` alone, prove every safety property of
their runs, for any values of the constants:

| theorem | statement |
|---|---|
| `CheckSumProofs!Invariance` | `Spec => []IInv` |
| `CheckSumProofs!TypeCorrect` | `Spec => []TypeOK` |
| `OwnSumReturned` | `Spec => []OwnSum` |
| `LonersNeverCrash` | `Spec => []LonersSurvive` |
| `TempRemoved` | `Spec => []NoLitter` |
| `UploadProofs!Invariance` | `Spec => []IInv` |
| `UploadProofs!TypeCorrect` | `Spec => []TypeOK` |
| `TrueMeansStored` | `Spec => []ConfirmedIsStored` |
| `InStep` | `Spec => []NoStrays` |
| `ReplacedWhole` | `Spec => []NeverHalf` |
| `NoMutualWait` | `Spec => []StrandedOnlyByLoss` |
| `ImplementsAtomicUpload` | `Spec => UploadIsAtomic` |
| `EveryStepCounts` | `Spec => [][Lower]_vars` |
| `WaitingIsAnswered` | `Spec => []AnswerIsComing` |
| `PairLoopsProofs!Invariance` | `Spec => []IInv` |
| `PairLoopsProofs!TypeCorrect` | `Spec => []TypeOK` |
| `DivideLoop` | `Spec => []Divided` |
| `CombineLoop` | `Spec => []Combined` |
| `PartsAreBeginnings` | `Spec => []PartsBegin` |
| `LoopsRestore` | `Spec => []Restored` |
| `CallsReturn` | `Spec => [][at # "idle" => Lower]_vars` |
| `FileStoreProofs!Invariance` | `Spec => []IInv` |
| `FileStoreProofs!TypeCorrect` | `Spec => []TypeOK` |
| `NoUpdateForgotten` | `Spec => []EveryUpdateKept` |
| `HeaderOnce` | `Spec => []OneHeader` |
| `FoundWasListed` | `Spec => []FoundIsListed` |
| `AnswersStay` | `Spec => AnswersAgree` |
| `ListGrows` | `Spec => ListOnlyGrows` |

* *CheckSum*: what an undisturbed call finds at each statement (`Undisturbed`) needs
  that nothing outside its directory reaches its inode: `Apart` says so of
  directory entries and of inodes that are open after their removal. `NoLitter` is
  inductive by itself, given the types.
* *Upload*: `ClientAt` and `ServerAt` tie each side's place to its counters, which is
  what makes them agree where the body begins; `AtTheEnd` says that a handler
  that is back in the loop without a loss has read the stream to its end, and
  `Confirmed` that only a complete file is ever confirmed with more than 0 bytes.
  A client that compares nothing but sizes is safe because the size 0, the
  confirmation of a failed `fopen`, is never its own: an empty file is not sent.
  `ImplementsAtomicUpload` has a lemma for each side: whatever the client does is to
  return or nothing, whatever the server does is to replace the file, once, or
  nothing. It needs `NoLonger` besides: without a header in pieces what is written to
  the file never exceeds what was read of the body. `ReplacedWhole` is its case
  without a misfortune.
* *PairLoops*: that a loop computes a function of its input is an induction over
  the lines, which here is the induction over steps that every invariant is.
  `Dividing` says what each part holds when n lines have been read (`EvenUpTo`,
  `OddUpTo`), if its stream has not failed, and that n is even at the first
  `getline` and odd at the second; `Combining` says the same of the output
  (`Joined`), and that the even file is never more than one line ahead. Both hold
  for parts that do not belong together, and where the loop stops they are
  `FilePair`'s functions (`AllOfThem`, `StopsThere`). `LoopsRestore` follows with
  `RoundTrip`. A part whose stream has failed has only `PartsBegin`.
* *Repository*: a closed handler holds nothing (`ClosedHoldNothing`), a process
  that is down has no handlers, and while the list does not exist no header is
  pending (`NoListNoHeader`), without which `OneHeader` is not inductive. The
  counting of buffers is cardinalities of finite sets: `Handlers` must be finite.

`FilePairProofs` proves, of any file, `RoundTrip`:
`CombineFile(DivideFile(file).even, DivideFile(file).odd) = Written(file.lines)`.
The joined file is the original but for the newline its last line may have lacked.

`FileStoreProofs` brings them together, for any clients, names, files, hash and
number of updates:

| theorem | statement |
|---|---|
| `StoreImplementsRepository` | `StoreSpec => Spec` (the repository's) |
| `StoreTypeCorrect` | `StoreSpec => []StoreTypeOK` |
| `UndisturbedIsWhole` | `StoreSpec => []QuietDownload` |
| `PartsOfOneUpload` | `StoreSpec => []NoMixture` |
| `ToldAfterStored` | `StoreSpec => []ListedIsStored` |
| `OwnAnnouncementsSeen` | `StoreSpec => []ReadYourWrites` |

By `StoreImplementsRepository` every theorem about the repository holds in the
composition, and its `TypeOK` is where each of the four proofs starts. Their
invariants are kept apart, since they share little but the types and, the first two,
`Clean`: what the map names, or is about to, or what a client was given by this
process, has not been written over by a leaked buffer. That is why the buffers do no
harm to those two properties: they are written when a process has ended, the next one
starts with an empty map, and a name is found in it only after both its parts have
been uploaded again. The one client that can meet a damaged part is the one that was
told its servers by a process that ended and was started again before it connected to
them, and `sameProcess` excepts it. A part that is damaged stays so until then
(`overlaid`), listed as it is.

* `UndisturbedIsWhole`: what is `settled` is what both parts are of
  (`SettledIsStored`, where nothing was written over them), half of which is already
  true while its writer is at the odd part (`WriterStored`); an undisturbed client is
  sent what is settled, and holds its even part when it is at the odd one
  (`SentSettled`). `RoundTrip` gives the result when the two are joined.
* `PartsOfOneUpload`: stored parts and announced headers are beginnings of one
  upload's part (`StoredWhole` where no leaked buffer was written over them,
  `HeaderWhole`), so a part that equals its header is
  one too; the lemma that `DivideFile` finds in a joined file again the parts it
  was made of carries this to the output.
* `ToldAfterStored`: `StoredBefore` (a client that is about to announce has stored
  both parts) and that parts are replaced, never removed (`StaysStored`).
* `OwnAnnouncementsSeen`: a promise is in the client's inbox, or it is in the map,
  and its line is in the file or in the buffer that this client's own `DISCOVERY`
  will flush (`PromisesKept`); nothing is pending when a client asks
  (`NothingPending`).

Only model-checked: liveness (`Answered`, `ConnectionsEnd`, `TransferEnds`,
`UploadReturns`), which is out of the prover's reach, as is anything about `ENABLED`.
What the last two rest on is proved for every size all the same: a number
(`Remaining`: bytes not written, bytes not read, calls left on each side) falls with
every step of an upload and of a transfer (`EveryStepCounts`, `TransferCounts`), so
that neither goes on for ever; and a client that waits finds something that will end
its wait, or is stranded (`WaitingIsAnswered`, `FinishedMeansWritten`). Fairness,
which TLC has in the runs, does the rest. `CallsReturn` is the same for the loops of
`DivideFile` and `CombineFile`, which need nobody's fairness: with `DivideLoop` and
`CombineLoop` they are totally correct wherever no write fails. Every invariant of a
passing run is proved, `FaultsCaused` as `FaultHasCause` for each set of misfortunes,
`ShutdownReleases` where no `fclose` fails, and `Conservation` and `ExactDelivery`
where nobody changes the file meanwhile.

## 5. Plan

Done in this order: Sockets, Selector, Handlers, Acceptors, Server with its runs,
EventLoop, FileStream, ServerProofs, FileStreamProofs; then Upload, CheckSum,
Repository, FilePair, FileStore, each with its proofs; then FaultProofs, PairLoops and
PairLoopsProofs, AtomicUpload and what liveness rests on. What could follow:

1. `FileStore` with several services that fail one by one, as soon as the
   repository knows more than one pair of them.
2. Clients that share a directory, and so the temporary parts and the checksum
   file, in `FileStore`.

### Not modelled

* The timer queue's inside, the heap and the vector: a binary library.
* `Reactor` (forwards to the Selector), `Singleton`, `UnCopyable`, list and error
  headers: no state of the running server.
* Menus, prompts, logging texts, `PrintFile`, `IpPort::Print`; the arithmetic of DJB2
  and of MD5 (any hash with any collisions; a file stands for its sum).
* `multiple_random_clients.cpp` beyond what a peer of `Sockets` does: it opens 500
  logging connections, some of which send.
* A user who announces another name than the one uploaded: the list then says
  what the user typed, and no property of the code could forbid it.
