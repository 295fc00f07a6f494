# LogPower in TLA+

LogPower collects logs. A *client* follows the log file of some application
(`process_log_reader.cpp`), and sends it in blocks over TCP (`tcp_client.cpp`,
`main.cpp`). A *server* (`tcp_server.cpp`) accepts many clients with a few epoll
threads, a task queue and a pool of workers; each connection has a `ProcessTask`
(`process_task.cpp`) that cuts the byte stream into messages and appends them to
files. This directory holds TLA+ models of those parts, the TLC runs that check
them and TLAPS proofs of the theorems named below.

## Inventory

| part | state it keeps | operations | talks to |
|---|---|---|---|
| server threads, `tcp_server.cpp` | `runing_`, `server_socket_lock_`, `task_queue_` with its mutex and condition; per accept thread an epoll instance and `has_server_socket`; per task `if_in_epoll_`, `epoll_fd_` | `AcceptThreadLoop` (5 threads), `ServerLoop` (`thread_num` threads), `AddReadEventToEpoll`, `DeleEventFromEpoll`, `PushToQueue` | kernel (sockets, epoll), `ProcessTask` |
| server start-up | configuration, listening socket | `LoadConfig`, `StartServer` | creates all of the above |
| `ProcessTask`, framing | `len_buf_`, `len_buf_len_`, `content_buf_`, `content_len_`, `current_content_len_` | `ProcessReadTask`, `ReadHeader`, `ReadContent`, `ReadFromSocket` | called by one worker after another |
| `ProcessTask`, files | `file`, `split_size_` | `WriteToFile`, with rotation by `mv` | file system, shared with the other tasks of the same client |
| `ProcessLogReader` | `last_pos_`, `file_`, `current_file_len_` | `ReadNexBlock`, `MoveLogFile` | the application that writes the log, through the file system |
| `TcpClient` and `main` | `socket_fd_`, `if_connected_`; `new_block`, `send_len` | `ConnectToServer`, `SendToServer`, `ResetClient`; the loop | reader, network |
| wire format, `power.loginfo.pb.*` | a message with its `_has_bits_` | setters, `ByteSize`, `SerializeToArray`, `ParseFromArray` | `TcpClient`, `ProcessTask` |
| configuration, tool functions, logger, MD5 | - | look-ups, helpers, output | everything |

What is hard here:

* *interleaving*: a task moves between an epoll instance, the queue and a worker,
  and nothing but the order of the calls says who owns it; the flag
  `if_in_epoll_` is written by two threads without a lock;
* *ordering*: epoll is edge-triggered, so an event that is dropped is not
  repeated;
* *partial input*: a message arrives in pieces and several workers read it;
* *files that change under the reader*: the application does not know of it;
* *network failure*: the client learns of it late, and has freed the block; a frame
  may leave in part;
* *a process that ends*: the position in the log is kept in memory only;
* *memory without a length*: a block is handed on as a C string.

What makes each part correct: a task is in one place at a time and is not used
after it was deleted; no connection is forgotten and no edge is lost; one thread
at a time accepts; data is read, gone clients are cleaned up, the backlog is
served, a stop reaches every thread; the buffers always hold the received part
of one message; every message is stored once, in order; a reader reads
every byte once, in order; a block is in one place between the reader and the
server, and a connection carries whole frames; what stays in the log file
gets into the server's log; the fields of a message arrive as they were set.

## Modules

| module | models | code |
|---|---|---|
| `TcpServer` | the threads of the server | `tcp_server.cpp:84-345, 454-484` |
| `ProcessTask` | one connection's framing | `process_task.cpp:252-416` |
| `LogStream` | what a connection promises, abstractly | implemented by `ProcessTask` and, for each connection, by `ServerFiles` |
| `ProcessLogReader` | the reader beside the application | `process_log_reader.cpp` |
| `LogClient` | the client loop, its connections, the network | `tcp_client.cpp`, `main.cpp:98-158` |
| `LogPipeline` | composes application, `ProcessLogReader`, `LogClient` and the server's end | `main.cpp:98-158` |
| `LogInfo` | a block from the client's memory to the server's file | `power.loginfo.pb.*`, `tcp_client.cpp:141-163`, `process_task.cpp:206-226` |
| `ServerFiles` | the log files that connections share | `process_task.cpp:206-249`, `tool_functions.cpp:144-151` |
| `Startup` | configuration and start of the process | `main.cpp:20-98, 160-181`, `config.cpp`, `tcp_server.cpp:54-81, 347-451` |
| `MC...` | instances for TLC | |
| `TcpServerProofs` | types, accept threads and the ownership of tasks of `TcpServer`, proved | |
| `ProcessTaskProofs` | framing, and that `ProcessTask` implements `LogStream`, proved | |
| `ServerFilesProofs` | names and order of the log files, proved | |
| `ProcessLogReaderProofs` | no byte twice, none passed over, proved | |
| `LogClientProofs` | frames, places and order of the blocks, proved | |
| `LogPipelineProofs` | what holds of the client with its reader, and the whole way of a byte, proved | |
| `LogInfoProofs` | varints, and that a block arrives as it was set, proved | |
| `StartupProofs` | what a start arrives at, proved | |

Variables have the names of the code without the trailing underscore.
Definitions marked "Mutant" are changed versions of the definition after them;
no specification uses them. They show that a property would notice the change.

### TcpServer

A step is one system call, one critical section or one access to a field of a
task that two threads can reach. So `AddReadEventToEpoll` is two steps (`ReAdd`:
the test of the flag and `epoll_ctl`; `SetFlag`: the assignment), and
`DeleEventFromEpoll` is two (`DeleEvent`, `ClearFlag`). Taking `back()` and
popping the front is one step (`TakeTask`), because the mutex is held. `apc` and
`wpc` are program counters; `interest` and `ready` are the kernel's
edge-triggered epoll: an instance has at most one pending edge per socket, gets
one when something happens on a socket that it watches or when it starts to
watch one that is readable, and loses it in `epoll_wait`. Data on a socket is a
count of unread chunks.

The code has two steps that break the ownership of tasks: the pop of the wrong
end (`tcp_server.cpp:306`) and the late flag (`:130`). Both are in the model.
Instead of stopping at them, the history variables `mixed` and `skipped` record
which tasks they have touched, and the safety properties are stated for all
other tasks: so the runs show that there is no third way to lose or to share a
task. `stale` records accesses to deleted tasks. When a deleted task is
really used, the execution has no defined meaning: `undefined` is set and the
model stops there.

Abstractions. The address of a deleted task and the number of a closed socket are
not reused. `epoll_ctl` fails to delete only what is not registered, and fails
to add what is registered already or for want of resources. `epoll_wait` that
fails is a round without events. Connections are accepted in any order. Mutexes
and the creation of threads do not fail. The read of `runing_` and the following
system call are one step.

### ProcessTask and LogStream

`recv` takes one byte per step: a larger `recv` is several steps, and nobody
else looks at the buffers in between. After each byte `Eagain` may happen, the
task goes back to its epoll instance, and `StartReading` continues it, or
`Delete` ends it. A byte is the number of its message and its place in it, so
that a header or a body that is put together wrongly is noticed (`misread`).
`LogStream` is the abstract specification: messages are taken in order, each is
stored or dropped. `ProcessTask` implements it with `next` as the
message being received, `stored` as the messages written and `open` as "not
deleted".

### ProcessLogReader

Each system call of `ReadNexBlock` is a step: `fopen` and `ftell` (`Open`; the
two together), the comparison of lengths, the `mv`, the second `fopen`, the
`fread`. In between the application appends, truncates, replaces the file, or
opens the name again after the file was moved. Files are kept apart from the
name that leads to them: an application goes on writing to a file that was moved.
The bytes of the log are numbered in the order in which they were written.
`source` and `touched` are history variables for the statement of properties.
`new char[len]` leaves the block unset (`Junk`), a negative `len` ends the
process (`crashed`). The length of the file is a `long` that goes into an `int`
(`ToInt`). The `mv` may succeed, fail unnoticed, or move the file to a name that the
command's 255 characters have cut, where nobody looks for it.

### LogClient

Blocks and connections are numbered. A frame leaves in `FrameLen` pieces: `send`
takes what the buffers of the connection (`Window` pieces) have room for, and
`SendPiece` is one `send`. When a send fails (`SendFails`) the client is reset and
the frame begins again on the next connection. A connection that is `up` carries
pieces in order; when it breaks, a suffix of what is in it is lost (`Break`). A
client learns of that only by a send that fails, and the kernel may still accept
pieces before it does. The server puts the pieces of each connection together
(`Deliver`, the client's view of `ProcessTask`), and may forget a connection and
leave it open (`Forget`, the client's view of `TakeTask`): then the client fills
the buffers and stays in `send` for ever (`SendBlocks`). The process may be killed
and started again (`StartAgain`). `lost` collects the blocks that a broken
connection or a process took with it. SIGPIPE is ignored (`main.cpp:83`).

### LogPipeline

The variables are those of `LogClient` and of `ProcessLogReader`. While the loop is
in `ReadNexBlock` the steps of the reader are steps of the loop (`Reading`), its
return is the step `ReadNexBlock` of `LogClient` (`Returning`), and the bytes it
has put into `collected` are the block. Application and network move at any time.
`NewProcess` restarts the client: `last_pos` is zero, the block and the file it
had are gone. `text` says which bytes a block holds and `proc` which process read
it, so the end of the line can be compared with what the application wrote. The
actions are put together from those of `LogClient`, so that it implements the loop
of `LogClient` by construction (`LoopImplements` in `LogPipelineProofs`); what is
checked here is what the parts do together.

### LogInfo

A block of `buf_len` bytes, a Nul anywhere in it or nowhere, and what lies behind it
in memory. `SetFields` is the three setters, each with its bit of `_has_bits_`;
`set_log_content(const char*)` takes memory up to the first Nul. `Serialize` writes
the header with the size that `ByteSize` computes, and the fields by another
function; `ParseField` is one round of the loop of `MergePartialFromCodedStream`;
`WriteToFile` takes `log_len` bytes from the start of the content, beyond its end if
need be (`Junk`). Numbers are written in digits to the base `Base`; the real one is
128, and a small one brings the same boundaries to short blocks. As in protobuf,
three functions that know nothing of each other must agree: the size of a number is
found by comparing it with the limits of one to five digits (`VarintSize`), it is written
by dividing until nothing is left (`Digits`), and read as a sum of at most five digits
up to the first without a mark (`VarintAt`).

### ServerFiles

A step of `WriteToFile` is one system call, or one access to memory that threads
share: `fopen` (`OpenFile`), each `write(2)` that `fwrite` and `fflush` make of a
message (`Write`), `ftell` with `fclose` (`Tell`), `time` (`ReadClock`),
`localtime` (`Convert`), `strftime` (`Format`), `mv` (`Move`). Files are kept apart
from names: a task goes on writing to a file that another task has moved, and `mv`
takes what is at the path at that moment, which need not be the file the task wrote
to.

What a `write(2)` appends is a piece, of length 1. A message that is longer than the
buffer of the `FILE` takes several, up to `MaxPieces`, and other tasks may write to
the same file in between; the files are opened in append mode, so a piece itself is
whole and at the end. `ftell` returns the end of the file or of the task's own last
write (`Position`): the library may know either. The `long` becomes an `int`
(`ToInt`).

A time is a minute, which stands for all fields of a `struct tm` but the seconds, and
a second. `LocalTime` gives the local time of each second and is any function: an
hour may come twice, and the clock may be put back. `localtime` fills one static
`struct tm` for all threads, without a lock. `tm` has the times that were in it
since a task called `localtime`; `strftime` may find each field from any of them. The
fields that `minute` stands for are read together: two halves are enough for a time
that never was. `TimeString` is the number that the printed digits stand for: they
are as many for every time, so names compare as numbers do.

`StoredFor` reads the messages of a connection off the files in the order of their
creation, each where its last piece is and by how many are ahead of it. This is the
refinement mapping to `LogStream`; `PiecesTogether` says that the other pieces are in
the same file in front of it.

### Startup

A line of the configuration is its kind, key and value; the value is the number
that `atoi` makes of it. `config::Open` reads the lines (`ReadLine`), stops at one
that does not fit, and inserts the pairs (`ParseLine`); `ServesAsConfigured`
compares the result with definitions that are read off the file. `logger::Init`
has no return statement, so `InitLogger` may go either way. The loops that
create the threads are one step per thread; the system allows `MaxThreads` of
them. The defaults (a backlog of 2048, 500 threads, 300 entries) are constants. Which
characters make a line too long for the buffer (1023 fit) is not modelled: `tooLong`
is a kind of line.

## Runs

| run | instance | shows |
|---|---|---|
| `server_pool` | 1 accept thread, 2 workers, 2 connections, queue of 2, 1 chunk each, 1 fault | `SinglePlace`, `NoUseAfterFree`, `NoConnectionLost`, `NoEdgeLost`, `ClosedIsHeardOut`, `TypeOK` |
| `server_live` | 2 accept threads, 1 worker, 1 connection with 2 chunks, queue of 1, 1 event per round, 1 fault, fair threads | `AcceptExclusive`, `AcceptInv`, `BacklogIsServed`, `StopReachesAll`, `DataIsRead`, `GonePeerIsFreed` |
| `server_queue_order` | 2 tasks queued | **violated**: `LeavesQueueToWorker` |
| `server_unregister` | 1 of each | **violated**: `DeletedFromEpoll` |
| `task_read` | 4 messages, bodies of 1 to 4 bytes, header of 3 | `Framed`, `NeverMisread`, `Accounted`, `LogStreamSpec`, `TypeOK` |
| `reader_follow` | 6 bytes, 3 files, 2 changes, blocks of 2, split at 4, `int` up to 5, fair reader | `NothingTwice`, `NothingPassedOver`, `FailsOnlyIfTouched`, `EverythingIsRead`, `TypeOK` |
| `reader_split` | 5 bytes, blocks of 2, split at 3 | **violated**: `DividedNotDropped` |
| `pipeline` | 3 bytes, blocks of 2, split at 3, frames of 2 pieces, buffers of 2, 3 connections, 2 failures, fair loop and delivery | `ExactlyOnePlace`, `FramesWhole`, `OrderedByConnection`, `StoredOnce`, `BlocksArrive`, `LogArrives`, `TypeOK` |
| `server_files` | 2 connections on one path, 2 messages each of 1 or 2 pieces, split at 2, `int` up to 3, 3 seconds, the clock is put back once, 1 fault | `MovedAsSeen`, `FoundUnlessSameTime`, `SortedByName`, `PiecesTogether`, `EachStream`, `TypeOK` |
| `startup` | 1500 files for each type of process, 5 threads at most | `ServesAsConfigured`, `StartEnds` |
| `wire` | blocks of 1 to 17 bytes, a Nul anywhere or nowhere, up to 2 bytes behind, names of 1 to 16, base 4 | `FieldsArrive`, `LogHoldsText`, `TypeOK` |
| `wire_nul` | the same | **violated**: `LogHoldsBlock` |

Why these bounds. A task is lost or shared through the actions of at most two
workers and the accept thread that owns its epoll instance, with a second task to
make the queue longer than one; a second accept thread matters only for the lock
and the listening socket. One chunk per connection still gives a task every
history: idle, readable, drained, readable again. A queue of two and two events per
round reach their limits with two connections. In `task_read` a body of one byte is
completed by the first byte after a header, and the longest is longer than the
header. In `reader_follow` six bytes are three blocks, and three files with two
changes allow a file to be moved, made anew and replaced; six bytes are more than the
`int` of that instance can tell. In `server_live` one chunk would be too few: a task
that is forgotten after its first chunk shows only with a second one. In `pipeline`
two failures are a process that dies after a connection broke, a connection that
breaks twice, or any two of the others; there are more connections than failures,
so the loop never lacks one; three bytes are two blocks, and fill the file so that it
is moved; the file is not truncated there, which is the part of `reader_follow`.
The buffers hold the end of one frame and the beginning of the next. In `wire`, 3
and 4, 15 and 16 are the last and first lengths of one, two and three digits. In
`server_files` a message may fill a file alone or with pieces of the other connection
between its own, so each connection can move files twice while the other has one
open; four pieces are more than the `int` of that instance can tell. The three seconds
are the last of a minute, the first of the next, and the last once more, so moves
happen in one second, in different ones, and in different ones of the same name, and
the fields of two times mix to four. In `startup` the two extra lines may be two
definitions of one key, or a definition on either side of a line that is too
long.

The four violations are disagreements between the code and its comments; the
findings in `PROJECT.json` quote them. `server_queue_order`: a worker takes the
newest task and removes the oldest, so the oldest connection is never served
again and the newest gets two workers. `server_unregister`: an event may be handled
between `epoll_ctl` and `if_in_epoll_ = true`, and the socket stays
registered while a worker has it. `reader_split`: a file that is moved with more
than one block left is never read to its end. `wire_nul`: a block with a Nul in it
is cut there, and the server appends its own memory in place of the rest.

Fairness. `TcpServer!FairSpec` gives each thread weak fairness: the threads are
created once, run loops, and block only in calls with a time limit
(`epoll_wait`, `pthread_cond_timedwait`) or on a mutex held for a few
instructions. Nothing is assumed of clients. `ProcessLogReader!FairSpec` and
`PipelineSpec` say that the loop of `main` goes on. `PipelineSpec` also says that a
server reads what arrives on a connection that it has not forgotten, which is
`DataIsRead` of `server_live`. Nothing is assumed of the application, and of the
network only that `MaxFaults` bounds its failures. The two properties of the form
`<>[]` speak of an application that has stopped writing, as every application of a
bounded instance does.

## Proofs

Every safety property of a passing run is a theorem. The theorems assume only the
named `ASSUME` of the module they speak of (`ServerConstants`, `TaskConstants`,
`FilesConstants`, `ReaderConstants`, `ClientConstants`, `StartupConstants`,
`LogInfoConstants`, `LengthsAreInts`): the bounds are numbers, a frame and a block have
at least one piece, `None` is no thread, names have no Nul, lengths are ints. The bounds on failures,
bytes, seconds or sends are arbitrary in them, and so are the sets of threads,
connections and files. `ClientConstants` asks for more connections than
failures; a client needs a new connection only after one.

Each proof has the same form: an invariant that is inductive, a lemma for each
action, and the property as a consequence. TLC checked each invariant on a
small instance before it was proved.

### The threads of the server

`TcpServerProofs`:

* `TypeCorrect`. The type invariant contains `ControlOK`, that a thread in the middle
  of handling a task has one.
* `AcceptInvCorrect` and `AcceptExclusiveCorrect`. `AcceptExclusive` is not
  inductive: a thread keeps the listening socket in its epoll instance across
  `wait`, `dispatch` and the handling of client events. `AcceptInv` adds what ties
  these together: `has_server_socket` equals holding the lock during a round, the
  shared flag of `server_task_` is up wherever the socket is watched (so the
  `DeleEventFromEpoll` at the end of the round is effective), the list of events
  is empty outside `dispatch`, and no edge is kept for what is not watched.

The second part of `TcpServerProofs` has one invariant for every task, `OwnInv`. `SinglePlace` alone
is not inductive, because a thread refers for a moment to a task that is in an epoll
instance: an accept thread that has taken its event and is about to test the flag
(`Examines`), a worker between `epoll_ctl` and the assignment of the flag (`Raises`). `BegunAt` says that
threads know only accepted tasks, and an accept thread only those of its own
instance; `FlagAt` what `if_in_epoll_` says of a task and who may change it next;
`KeptAt` that a live task is somewhere; `SoleAt` which of the queue, the workers,
the instances and the lists of events exclude each other; `FreshAt` and `DrainedAt`
add what `NoUseAfterFree` and `ClosedIsHeardOut` need. From it follow
`SinglePlaceCorrect`, `NoUseAfterFreeCorrect`, `NoConnectionLostCorrect` and
`ClosedIsHeardOutCorrect`. `NoEdgeLostCorrect` also rests on a lemma about the
kernel's edges, which says that an instance that watches a readable socket has an
edge or is handling one. `ClosedIsHeardOut` turned out to hold only for tasks that are
not `mixed`: two workers that share a task may close it with data unread. The bound of one
chunk per connection had hidden that; it is now stated with this exception.

### A connection and its files

`ProcessTaskProofs`:

* `TypeCorrect`, `FramedCorrect`: `Framed` is inductive; it says which piece of
  the stream each buffer holds, as a function of the position in the stream.
* `NeverMisreadCorrect`: with `Framed`, a complete header is the header of the
  current message, and so for the body.
* `AccountedCorrect`: with `Framed`, each body that is completed is that of the
  current message.
* `Implements`: `Spec => LogStreamSpec`. The completion of a body is a `Take`, the
  deletion is a `Close`, everything else stutters.

`ServerFilesProofs`: a task may write to a file that another has moved, so nothing can
be said of "the" file of a path. `ControlOK` says what each task has at each step.
`OwnerInv` says that a file belongs to one path for good, `OneName` that it has one name,
`NewestInv` that what is at a path is newer than what was moved from there and that no
task of the path has written to a newer one. With these `OrderInv` is inductive: the
pieces of a connection increase with the creation of the files and within each file;
what is of the message that is being written (`Begun`) is the newest. `PartInv` says
where those pieces are: in the file the task has open, in order. `PiecesTogetherCorrect`
follows, and `EachStreamCorrect`, the refinement of `LogStream` for each connection.
What `StoredFor` reads off the files is defined by ranks (the n-th message is the one
with n - 1 ahead), so that no induction is needed: what `Write` adds is behind all other
messages of its connection (`WritePlace`), hence no rank changes and the sequence
grows by one when the piece is the last (`WriteStored`), and not at all otherwise; no
other step moves a message (`PlacesKept`).

`MovedInv` says that a file that is as long as `split_size_`, in an `int`, has a task
that is still writing, is about to ask for its length and will see it (`Telling`), or
has seen it; whichever end `ftell` reports to the others, the task that wrote last
sees all of the file. This is `MovedAsSeenCorrect`. The length in it is the int that
the code compares: a file that is beyond 2^31 bytes when `ftell` is called is negative
then, and stays at its path for good or until the next wrap. Without `ToInt` the
property is false, of the model as of the code.

`MoveInv` relates the names to the moves that made them (`FoundUnlessSameTimeCorrect`).
Nothing is assumed of local time in it. `SortedInv` is an implication: if local time has
gone forward with every second so far (`ClockForward`) and every `mv` ran in the second
of its name (`MovesTimely`), names sort as the files do. Both premises are what the code
relies on and does not ensure; `server_files` has behaviours in which they fail.
`TimeStringOrder` is the lemma that the digits compare as times do.
`SortedByNameCorrect` follows.

### The client

`ProcessLogReaderProofs`: `NameInv` and `ContentInv` say what the application leaves
in its files (bytes of a later file are later), `OpenInv` which files are open at each
point of `ReadNexBlock`, `PassedInv` what `last_pos_` has passed. `NothingTwice` needs
`TwiceInv`: in each file that may be read next (`Candidates`), what lies behind
`last_pos_` is newer than everything read (`Newer`), and if the file is shorter than
`last_pos_`, so that reading starts over, all of it is (`Shrunk`). The attempt to prove
`NothingTwice` without a bound on the file failed for a reason that is in the code: a
file longer than an `unsigned int` has a length that wraps to a small positive number,
and is read from its start again. TLC found that at a small `IntMax`. The
premise `LengthsTold` of `NothingTwice` and `StoredOnce` bounds what is written, and so each
file, by what an `unsigned int` can tell; lengths that become negative are covered. `FailsOnlyIfTouchedCorrect` proves an action
property with `UntouchedInv`, that a length that was measured stays good while the
application leaves the files alone.

`LogClientProofs`: `LoopInv` says what the loop knows at each point. `StreamInv` is the
inductive form of `FramesWhole`: the task of a connection has the first pieces of a
frame (`PartialInv`), the buffers go on from there without a gap (`WireInv`), and
what the client's connection lacks of a frame is what `send_len` says (`SenderInv`).
`PlaceInv` is `ExactlyOnePlace` with positions in place of cardinalities, so that a
duplicate within one connection shows. `OrderInv` speaks of blocks on the way as well as of
those that were taken, and gives `OrderedByConnection`.

`LogPipelineProofs`: each step of the composition is a step of `LogClient` or a stutter
(the lemma `LoopImplements`, by definition), so `BlocksCorrect` carries over what is
proved of the client.
`ReaderInv` is the reader's invariant without what a new process forgets, and
`TextInv` says that the bytes of the blocks of this process are what the reader has read,
no two blocks sharing one (`Apart`). With `ExactlyOnePlace` this is `StoredOnceCorrect`.

### The wire format

`LogInfoProofs` proves that what one function writes another reads, for every base of the
varints, every name and every block. `LengthsAreInts` is its premise: lengths have at
most five digits and the whole message is an int, as blocks are cut at `g_100MB`
(`process_log_reader.cpp:136-139`).

`Digits` is recursive. A theorem with an operator as parameter, like the library's
induction theorems, is of no use to the prover, but `WFMin`, that a well-founded relation
has minimal elements, takes a set. From it follows `LeastNat`, and each induction is
the search for the least number that fails: that there is a function which satisfies the
equation of `Digits` (`UpToExists`, `UpToUnique`, `DigitsIs`) and that the last element
of a varint, and only it, has no mark (`VarintWellFormed`). With that, `SizeIsLength` says
that `ByteSize` counts what is written, `EndFound` and `NumberFound` that a number is
read back whatever follows it, and `HostOfNet` the same of the header.

`BlockInv` is the inductive invariant. `FieldsArrive` and `LogHoldsText` speak of the
end only; `BlockInv` says for every step which fields the parser has set and where
it stands (`ReadingOf`). Where the parts of the stream lie is said by `Holds`, which
composes: a part of a part is a part of the whole (`HoldsWithin`), so the position of
each tag, length and text follows without counting bytes. `TypeCorrect`,
`FieldsArriveCorrect` and `LogHoldsTextCorrect` follow, and `TextArrivesCorrect`: a block
without a Nul is appended unchanged, to the file of its own name, so that a Nul is
the only cause of what `wire_nul` shows.

### The start

`StartupProofs`: `LinesInv` says that the lines are the file up to its end or to a
line that does not fit, `ContentInv` that `content_` has the first value of each key in
the lines gone through, `SettingsInv` and `ThreadsInv` that `LoadConfig` and the loops
arrive at what was asked. `ServesAsConfiguredCorrect` is for every file.

### Only model-checked

* All liveness properties (`BacklogIsServed`, `StopReachesAll`, `DataIsRead`,
  `GonePeerIsFreed`, `EverythingIsRead`, `BlocksArrive`, `LogArrives`, `StartEnds`): the
  prover does not reach `ENABLED`, on which weak fairness rests.
* The four violations: each is a behaviour that TLC shows.

## Not modelled

Left out:

* the logger (output only), the project files;
* `Tokenize`, `TimevalSubtract`, `BKDRHash`, `GetProcName`, `Md5Generator` and with it
  MD5 (third-party): nobody calls them;
* of the generated class, what nobody calls (`Clear`, `Swap`, `CopyFrom`, reflection),
  and unknown tags, which no client of this program sends;
* names so long that the server's `mv` command is cut (`process_task.cpp:235`), a full
  disk, and the product that gives `split_size_` (the modules take the result);
* in `ServerFiles`, two workers with one task (`TcpServer` shows when that happens).

The use of uninitialised memory by a `%s` without argument (`tcp_server.cpp:326`) is
the choice of `undefined` in `ReAdd`.
