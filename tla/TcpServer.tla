----------------------------- MODULE TcpServer -----------------------------
(***************************************************************************)
(* The threads of the log server (tcp_server.cpp).                         *)
(*                                                                         *)
(* A group of accept threads, each with an epoll instance of its own,      *)
(* compete for server_socket_lock_; the holder also polls the listening    *)
(* socket.  A readable client socket is taken out of the epoll instance    *)
(* and its ProcessTask is pushed to task_queue_.  A worker takes a task    *)
(* from the queue, reads the socket until it is drained and puts the task  *)
(* back into the epoll instance it came from, or deletes the task.         *)
(*                                                                         *)
(* A step is one system call, one critical section, or one access to a     *)
(* field of a task that another thread may share.  What the bytes mean is  *)
(* left to ProcessTask: here the data on a socket is a number of unread    *)
(* chunks.                                                                 *)
(***************************************************************************)
EXTENDS Integers, Sequences, FiniteSets

CONSTANTS
  AcceptThreads,  \* the k_accept_thread_num threads that run AcceptThreadLoop
  Workers,        \* the thread_num_size_ threads that run ServerLoop
  Tasks,          \* the client connections, each with the ProcessTask made for it
  ServerTask,     \* server_task_, the ProcessTask of the listening socket
  None,           \* no thread, no task
  QueueSize,      \* queue_size_
  MaxEvents,      \* current_max_client_num: max_clients_size_ / k_accept_thread_num
  MaxSends,       \* bound: chunks that arrive on one connection
  MaxFaults       \* bound: system calls that fail for want of resources

ASSUME ServerConstants ==
  /\ ServerTask \notin Tasks
  /\ None \notin AcceptThreads \cup Tasks \cup {ServerTask}
  /\ QueueSize \in Int
  /\ MaxEvents \in Nat
  /\ MaxSends \in Nat
  /\ MaxFaults \in Nat

VARIABLES
  running,          \* runing_
  lock,             \* the thread that holds server_socket_lock_, or None
  apc,              \* where each accept thread is
  hasServerSocket,  \* has_server_socket, a local of each accept thread
  events,           \* the part of epoll_event_list that is still to be handled
  hup,              \* those of the list that carry EPOLLERR or EPOLLHUP
  cur,              \* the task an accept thread is handling
  interest,         \* kernel: what each epoll instance watches
  ready,            \* kernel: what each epoll instance has an edge for
  queue,            \* task_queue_
  wpc,              \* where each worker is
  wtask,            \* the task a worker is handling
  life,             \* what became of each connection and its task
  inEpoll,          \* if_in_epoll_ of each task
  home,             \* epoll_fd_ of each client task
  unread,           \* kernel: chunks received and not yet read
  sent,             \* chunks that have arrived so far
  peer,             \* kernel: the other end is open, has closed or has reset
  faults,           \* resource failures so far
  mixed,            \* history: tasks that two parties may refer to at once
  skipped,          \* history: tasks popped from the queue without being taken
  stale,            \* history: accesses to deleted tasks, with their site
  undefined         \* history: the execution has no defined meaning any more

acceptVars == <<apc, hasServerSocket, events, hup, cur>>
epollVars  == <<interest, ready>>
workerVars == <<wpc, wtask>>
taskVars   == <<life, inEpoll, home>>
socketVars == <<unread, sent, peer>>
ghostVars  == <<mixed, skipped, stale, undefined>>
vars == <<running, lock, acceptVars, epollVars, queue, workerVars, taskVars,
          socketVars, faults, ghostVars>>

-----------------------------------------------------------------------------
(* The kernel's side: sockets and edge-triggered epoll.                    *)

Items   == Tasks \cup {ServerTask}
Backlog == {t \in Tasks : life[t] = "backlog"}

\* poll() of a socket: connections to accept, bytes to read, or a peer that left.
Pollable(i) ==
  IF i = ServerTask THEN Backlog # {}
                    ELSE unread[i] > 0 \/ peer[i] # "open"

\* EPOLL_CTL_ADD: what is pollable already gets its edge at once.
Register(a, i) ==
  /\ interest' = [interest EXCEPT ![a] = @ \cup {i}]
  /\ ready' = [ready EXCEPT ![a] = IF Pollable(i) THEN @ \cup {i} ELSE @]

\* EPOLL_CTL_DEL, and what close() of the socket does to the instance.
Unregister(a, i) ==
  /\ interest' = [interest EXCEPT ![a] = @ \ {i}]
  /\ ready' = [ready EXCEPT ![a] = @ \ {i}]

\* Activity on a socket is an edge for the instance that watches it.
Wake(i) ==
  ready' = [a \in AcceptThreads |->
              IF i \in interest[a] THEN ready[a] \cup {i} ELSE ready[a]]

\* A call fails for want of memory or descriptors.
Fail == faults < MaxFaults /\ faults' = faults + 1

\* The connection is complete: it waits to be accepted.
Connect(t) ==
  /\ life[t] = "none"
  /\ life' = [life EXCEPT ![t] = "backlog"]
  /\ Wake(ServerTask)
  /\ UNCHANGED <<running, lock, acceptVars, interest, queue, workerVars,
                 inEpoll, home, socketVars, faults, ghostVars>>

\* The client sends a chunk, closes the connection or resets it.
PeerStep(t) ==
  /\ life[t] \in {"backlog", "live"}
  /\ peer[t] = "open"
  /\ \/ /\ sent[t] < MaxSends
        /\ sent' = [sent EXCEPT ![t] = @ + 1]
        /\ unread' = [unread EXCEPT ![t] = @ + 1]
        /\ UNCHANGED peer
     \/ /\ \E how \in {"closed", "reset"} : peer' = [peer EXCEPT ![t] = how]
        /\ UNCHANGED <<sent, unread>>
  /\ Wake(t)
  /\ UNCHANGED <<running, lock, acceptVars, interest, queue, workerVars,
                 taskVars, faults, ghostVars>>

-----------------------------------------------------------------------------
(* Deleting a task closes its socket.                                      *)

DeleteTask(t) ==
  /\ life' = [life EXCEPT ![t] = "freed"]
  /\ Unregister(home[t], t)

-----------------------------------------------------------------------------
(* AcceptThreadLoop.                                                       *)

AGo(a, label) == apc' = [apc EXCEPT ![a] = label]

\* epoll_create(current_max_client_num) refuses a size of zero.
EpollCreate(a) ==
  /\ apc[a] = "start"
  /\ \/ /\ MaxEvents > 0
        /\ AGo(a, "loop")
        /\ UNCHANGED <<running, faults>>
     \/ /\ IF MaxEvents = 0 THEN UNCHANGED faults ELSE Fail
        /\ running' = FALSE
        /\ AGo(a, "exit")
  /\ UNCHANGED <<lock, hasServerSocket, events, hup, cur, epollVars, queue,
                 workerVars, taskVars, socketVars, ghostVars>>

AcceptExit(a) ==
  /\ apc[a] = "loop"
  /\ ~running
  /\ AGo(a, "exit")
  /\ UNCHANGED <<running, lock, hasServerSocket, events, hup, cur, epollVars,
                 queue, workerVars, taskVars, socketVars, faults, ghostVars>>

\* Mutant of TryLock: has_server_socket keeps its value when the lock is taken.
TryLockKeepsFlag(a) ==
  /\ apc[a] = "loop"
  /\ running
  /\ IF lock = None THEN lock' = a /\ AGo(a, "addListen")
                    ELSE AGo(a, "wait") /\ UNCHANGED lock
  /\ UNCHANGED <<running, hasServerSocket, events, hup, cur, epollVars, queue,
                 workerVars, taskVars, socketVars, faults, ghostVars>>

\* pthread_mutex_trylock(&server_socket_lock_)
TryLock(a) ==
  /\ apc[a] = "loop"
  /\ running
  /\ \/ /\ lock = None
        /\ lock' = a
        /\ AGo(a, "addListen")
        /\ UNCHANGED hasServerSocket
     \/ /\ lock # None
        /\ hasServerSocket' = [hasServerSocket EXCEPT ![a] = FALSE]
        /\ AGo(a, "wait")
        /\ UNCHANGED lock
  /\ UNCHANGED <<running, events, hup, cur, epollVars, queue, workerVars,
                 taskVars, socketVars, faults, ghostVars>>

\* Mutant of GiveUpListening: the unlock is missing.
ForgetToUnlock(a) ==
  /\ UNCHANGED lock
  /\ hasServerSocket' = [hasServerSocket EXCEPT ![a] = FALSE]

GiveUpListening(a) ==
  /\ lock' = None
  /\ hasServerSocket' = [hasServerSocket EXCEPT ![a] = FALSE]

\* AddReadEventToEpoll(epoll_fd, server_task_); on failure the lock is given up.
AddListen(a) ==
  /\ apc[a] = "addListen"
  /\ AGo(a, "wait")
  /\ \/ /\ inEpoll[ServerTask]
        /\ hasServerSocket' = [hasServerSocket EXCEPT ![a] = TRUE]
        /\ UNCHANGED <<lock, inEpoll, epollVars, faults>>
     \/ /\ ~inEpoll[ServerTask]
        /\ Register(a, ServerTask)
        /\ inEpoll' = [inEpoll EXCEPT ![ServerTask] = TRUE]
        /\ hasServerSocket' = [hasServerSocket EXCEPT ![a] = TRUE]
        /\ UNCHANGED <<lock, faults>>
     \/ /\ ~inEpoll[ServerTask]
        /\ Fail
        /\ GiveUpListening(a)
        /\ UNCHANGED <<inEpoll, epollVars>>
  /\ UNCHANGED <<running, events, hup, cur, queue, workerVars, life, home,
                 socketVars, ghostVars>>

\* epoll_wait returns the edges that still hold, at most MaxEvents of them, and
\* consumes them; with none it returns when k_epoll_time_out has passed.
EpollWait(a) ==
  LET holding == {i \in ready[a] : Pollable(i)}
  IN  /\ apc[a] = "wait"
      /\ \E batch \in SUBSET holding :
           /\ \/ batch = holding /\ Cardinality(holding) <= MaxEvents
              \/ Cardinality(batch) = MaxEvents
           /\ events' = [events EXCEPT ![a] = batch]
           /\ hup' = [hup EXCEPT ![a] =
                        {t \in batch \ {ServerTask} : peer[t] = "reset"}]
           /\ ready' = [ready EXCEPT ![a] = holding \ batch]
      /\ AGo(a, "dispatch")
      /\ UNCHANGED <<running, lock, hasServerSocket, cur, interest, queue,
                     workerVars, taskVars, socketVars, faults, ghostVars>>

\* The for loop over epoll_event_list: the next event, or the end of the list.
Dispatch(a) ==
  /\ apc[a] = "dispatch"
  /\ \/ \E i \in events[a] :
          /\ events' = [events EXCEPT ![a] = @ \ {i}]
          /\ cur' = [cur EXCEPT ![a] = i]
          /\ AGo(a, IF i = ServerTask THEN "accept" ELSE "dele")
     \/ /\ events[a] = {}
        /\ cur' = [cur EXCEPT ![a] = None]
        /\ AGo(a, IF hasServerSocket[a] THEN "release" ELSE "loop")
        /\ UNCHANGED events
  /\ UNCHANGED <<running, lock, hasServerSocket, hup, epollVars, queue,
                 workerVars, taskVars, socketVars, faults, ghostVars>>

\* One round of the accept loop.  A connection whose set-up fails (SetNonBlock,
\* inet_ntop or AddReadEventToEpoll) is closed at once.
AcceptOne(a) ==
  /\ apc[a] = "accept"
  /\ \E t \in Backlog :
       \/ /\ life' = [life EXCEPT ![t] = "live"]
          /\ home' = [home EXCEPT ![t] = a]
          /\ inEpoll' = [inEpoll EXCEPT ![t] = TRUE]
          /\ Register(a, t)
          /\ UNCHANGED faults
       \/ /\ Fail
          /\ life' = [life EXCEPT ![t] = "freed"]
          /\ UNCHANGED <<home, inEpoll, epollVars>>
  /\ UNCHANGED <<running, lock, acceptVars, queue, workerVars, socketVars,
                 ghostVars>>

\* Mutant of AcceptEnd: the break leaves the loop over the events as well.
AcceptEndLeavesList(a) ==
  /\ apc[a] = "accept"
  /\ IF Backlog = {} THEN UNCHANGED faults ELSE Fail
  /\ events' = [events EXCEPT ![a] = {}]
  /\ AGo(a, "dispatch")
  /\ UNCHANGED <<running, lock, hasServerSocket, hup, cur, epollVars, queue,
                 workerVars, taskVars, socketVars, ghostVars>>

\* accept() returns -1: nothing is left, or no descriptor is.
AcceptEnd(a) ==
  /\ apc[a] = "accept"
  /\ IF Backlog = {} THEN UNCHANGED faults ELSE Fail
  /\ AGo(a, "dispatch")
  /\ UNCHANGED <<running, lock, hasServerSocket, events, hup, cur, epollVars,
                 queue, workerVars, taskVars, socketVars, ghostVars>>

\* DeleEventFromEpoll(epoll_fd, task): the test of if_in_epoll_ and epoll_ctl.
\* With the flag down it returns kOk and the task stays registered.
DeleEvent(a) ==
  LET t == cur[a]
  IN  /\ apc[a] = "dele"
      /\ life[t] = "live"
      /\ \/ /\ ~inEpoll[t]
            /\ AGo(a, "handle")
            /\ mixed' = IF t \in interest[a] THEN mixed \cup {t} ELSE mixed
            /\ UNCHANGED epollVars
         \/ /\ inEpoll[t] /\ t \in interest[a]
            /\ Unregister(a, t)
            /\ AGo(a, "clear")
            /\ UNCHANGED mixed
         \/ /\ inEpoll[t] /\ t \notin interest[a]
            /\ AGo(a, "handle")
            /\ UNCHANGED <<epollVars, mixed>>
      /\ UNCHANGED <<running, lock, hasServerSocket, events, hup, cur, queue,
                     workerVars, taskVars, socketVars, faults, skipped, stale,
                     undefined>>

\* ... and its last assignment: if_in_epoll_ = false.
ClearFlag(a) ==
  LET t == cur[a]
  IN  /\ apc[a] = "clear"
      /\ life[t] = "live"
      /\ inEpoll' = [inEpoll EXCEPT ![t] = FALSE]
      /\ AGo(a, "handle")
      /\ UNCHANGED <<running, lock, hasServerSocket, events, hup, cur,
                     epollVars, queue, workerVars, life, home, socketVars,
                     faults, ghostVars>>

\* pthread_cond_signal wakes one of the workers that wait, if any does.
SignalWorker ==
  \/ \E w \in Workers : wpc[w] = "wait" /\ wpc' = [wpc EXCEPT ![w] = "take"]
  \/ (\A w \in Workers : wpc[w] # "wait") /\ UNCHANGED wpc

\* EPOLLERR or EPOLLHUP, else PushToQueue.
HandleEvent(a) ==
  LET t == cur[a]
  IN  /\ apc[a] = "handle"
      /\ life[t] = "live"
      /\ \/ /\ t \in hup[a] \/ Len(queue) >= QueueSize
            /\ AGo(a, "drop")
            /\ UNCHANGED <<queue, wpc>>
         \/ /\ t \notin hup[a] /\ Len(queue) < QueueSize
            /\ queue' = Append(queue, t)
            /\ SignalWorker
            /\ AGo(a, "logPush")
      /\ UNCHANGED <<running, lock, hasServerSocket, events, hup, cur,
                     epollVars, wtask, taskVars, socketVars, faults, ghostVars>>

\* Mutant of DropTask: the continue after the delete is missing.
DropTaskAndGoOn(a) ==
  LET t == cur[a]
  IN  /\ apc[a] = "drop"
      /\ life[t] = "live"
      /\ DeleteTask(t)
      /\ queue' = Append(queue, t)
      /\ AGo(a, "logPush")
      /\ UNCHANGED <<running, lock, hasServerSocket, events, hup, cur,
                     workerVars, inEpoll, home, socketVars, faults, ghostVars>>

\* delete task, after an error event or a full queue.
DropTask(a) ==
  LET t == cur[a]
  IN  /\ apc[a] = "drop"
      /\ life[t] = "live"
      /\ DeleteTask(t)
      /\ AGo(a, "dispatch")
      /\ UNCHANGED <<running, lock, hasServerSocket, events, hup, cur, queue,
                     workerVars, inEpoll, home, socketVars, faults, ghostVars>>

\* The trace line after PushToQueue reads the task that a worker now owns.
LogPush(a) ==
  /\ apc[a] = "logPush"
  /\ stale' = IF life[cur[a]] = "freed"
              THEN stale \cup {<<"log", cur[a]>>} ELSE stale
  /\ AGo(a, "dispatch")
  /\ UNCHANGED <<running, lock, hasServerSocket, events, hup, cur, epollVars,
                 queue, workerVars, taskVars, socketVars, faults, mixed,
                 skipped, undefined>>

\* DeleEventFromEpoll(epoll_fd, server_task_) at the end of a round.
ReleaseListen(a) ==
  /\ apc[a] = "release"
  /\ IF inEpoll[ServerTask] /\ ServerTask \in interest[a]
     THEN /\ Unregister(a, ServerTask)
          /\ inEpoll' = [inEpoll EXCEPT ![ServerTask] = FALSE]
     ELSE UNCHANGED <<epollVars, inEpoll>>
  /\ AGo(a, "unlock")
  /\ UNCHANGED <<running, lock, hasServerSocket, events, hup, cur, queue,
                 workerVars, life, home, socketVars, faults, ghostVars>>

Unlock(a) ==
  /\ apc[a] = "unlock"
  /\ lock' = None
  /\ AGo(a, "loop")
  /\ UNCHANGED <<running, hasServerSocket, events, hup, cur, epollVars, queue,
                 workerVars, taskVars, socketVars, faults, ghostVars>>

\* An accept thread uses a task that was deleted: from here on the execution
\* has no defined meaning, and the model stops.
AcceptUseAfterFree(a) ==
  /\ apc[a] \in {"dele", "clear", "handle", "drop"}
  /\ life[cur[a]] = "freed"
  /\ stale' = stale \cup {<<"use", cur[a]>>}
  /\ undefined' = TRUE
  /\ UNCHANGED <<running, lock, acceptVars, epollVars, queue, workerVars,
                 taskVars, socketVars, faults, mixed, skipped>>

-----------------------------------------------------------------------------
(* ServerLoop.                                                             *)

WGo(w, label) == wpc' = [wpc EXCEPT ![w] = label]

\* The critical section that takes back() and then pops front().
TakeTask(w) ==
  LET t == queue[Len(queue)]
      several == Len(queue) > 1
  IN  /\ wpc[w] = "take"
      /\ running
      /\ queue # <<>>
      /\ wtask' = [wtask EXCEPT ![w] = t]
      /\ queue' = Tail(queue)
      /\ mixed' = IF several THEN mixed \cup {t} ELSE mixed
      /\ skipped' = IF several THEN skipped \cup {Head(queue)} ELSE skipped
      /\ WGo(w, "process")
      /\ UNCHANGED <<running, lock, acceptVars, epollVars, taskVars,
                     socketVars, faults, stale, undefined>>

\* Mutant of WorkerWait: the wait for a task does not test runing_.
WorkerWaitAnyway(w) ==
  /\ \/ wpc[w] = "take" /\ queue = <<>> /\ WGo(w, "wait")
     \/ wpc[w] = "wait" /\ WGo(w, "take")
  /\ UNCHANGED <<running, lock, acceptVars, epollVars, queue, wtask, taskVars,
                 socketVars, faults, ghostVars>>

\* pthread_cond_timedwait: entered with an empty queue, left at a signal (in
\* HandleEvent) or after five seconds.
WorkerWait(w) ==
  /\ \/ wpc[w] = "take" /\ running /\ queue = <<>> /\ WGo(w, "wait")
     \/ wpc[w] = "wait" /\ WGo(w, "take")
  /\ UNCHANGED <<running, lock, acceptVars, epollVars, queue, wtask, taskVars,
                 socketVars, faults, ghostVars>>

WorkerExit(w) ==
  /\ wpc[w] = "take"
  /\ ~running
  /\ WGo(w, "exit")
  /\ UNCHANGED <<running, lock, acceptVars, epollVars, queue, wtask, taskVars,
                 socketVars, faults, ghostVars>>

\* Mutants of HasData and of Drained: recv on an empty buffer counts as data, the
\* end of the stream counts before what precedes it, a drained task is not put
\* back, and an end of stream counts as EAGAIN.
AlwaysHasData(t) == unread[t] >= 0
HasDataWhileOpen(t) == unread[t] > 0 /\ peer[t] = "open"
DrainedIsDone(t) == IF peer[t] = "open" THEN {"take"} ELSE {"delete"}
EofIsEagain(t)   == {"readd"}

HasData(t) == unread[t] > 0

\* What a worker does with a task whose socket has nothing left: put it back
\* after EAGAIN, delete it after an end of stream or an error.
Drained(t) ==
  (IF peer[t] # "closed" THEN {"readd"} ELSE {}) \cup
  (IF peer[t] # "open" THEN {"delete"} ELSE {})

\* ProcessReadTask: recv until the socket is drained, the peer has left or the
\* data makes no sense.  A reset is reported once, by recv; the SO_ERROR that
\* is asked for afterwards may be 0 already, which counts as EAGAIN.
ProcessRead(w) ==
  LET t == wtask[w]
  IN  /\ wpc[w] = "process"
      /\ life[t] = "live"
      /\ \/ /\ HasData(t)
            /\ unread' = [unread EXCEPT ![t] = @ - 1]
            /\ \/ UNCHANGED <<wpc, faults>>
               \/ Fail /\ WGo(w, "delete")
         \/ /\ ~HasData(t)
            /\ \E next \in Drained(t) : WGo(w, next)
            /\ UNCHANGED <<unread, faults>>
      /\ UNCHANGED <<running, lock, acceptVars, epollVars, queue, wtask,
                     taskVars, sent, peer, ghostVars>>

\* AddReadEventToEpoll(task->GetEpollFd(), task), up to epoll_ctl, which
\* refuses a socket that is registered already.  The line that reports the
\* failure prints a %s without an argument: it may bring the process down.
ReAdd(w) ==
  LET t == wtask[w]
  IN  /\ wpc[w] = "readd"
      /\ life[t] = "live"
      /\ \/ /\ inEpoll[t]
            /\ WGo(w, "take")
            /\ UNCHANGED <<epollVars, faults, undefined>>
         \/ /\ ~inEpoll[t] /\ t \notin interest[home[t]]
            /\ Register(home[t], t)
            /\ WGo(w, "setFlag")
            /\ UNCHANGED <<faults, undefined>>
         \/ /\ ~inEpoll[t]
            /\ IF t \in interest[home[t]] THEN UNCHANGED faults ELSE Fail
            /\ WGo(w, "delete")
            /\ undefined' \in BOOLEAN
            /\ UNCHANGED epollVars
      /\ UNCHANGED <<running, lock, acceptVars, queue, wtask, taskVars,
                     socketVars, mixed, skipped, stale>>

\* ... and its last assignment, if_in_epoll_ = true, on a task that the epoll
\* instance can already hand to the accept thread.
SetFlag(w) ==
  LET t == wtask[w]
  IN  /\ wpc[w] = "setFlag"
      /\ IF life[t] = "freed"
         THEN stale' = stale \cup {<<"flag", t>>} /\ UNCHANGED inEpoll
         ELSE inEpoll' = [inEpoll EXCEPT ![t] = TRUE] /\ UNCHANGED stale
      /\ WGo(w, "take")
      /\ UNCHANGED <<running, lock, acceptVars, epollVars, queue, wtask, life,
                     home, socketVars, faults, mixed, skipped, undefined>>

\* delete task, after a negative result.
WorkerDelete(w) ==
  LET t == wtask[w]
  IN  /\ wpc[w] = "delete"
      /\ life[t] = "live"
      /\ DeleteTask(t)
      /\ WGo(w, "take")
      /\ UNCHANGED <<running, lock, acceptVars, queue, wtask, inEpoll, home,
                     socketVars, faults, ghostVars>>

\* A worker uses a task that was deleted, or deletes it again.
WorkerUseAfterFree(w) ==
  /\ wpc[w] \in {"process", "readd", "delete"}
  /\ life[wtask[w]] = "freed"
  /\ stale' = stale \cup {<<"use", wtask[w]>>}
  /\ undefined' = TRUE
  /\ UNCHANGED <<running, lock, acceptVars, epollVars, queue, workerVars,
                 taskVars, socketVars, faults, mixed, skipped>>

-----------------------------------------------------------------------------

\* StartServer has created the lock, the queue and every thread.
Init ==
  /\ running = TRUE
  /\ lock = None
  /\ apc = [a \in AcceptThreads |-> "start"]
  /\ hasServerSocket = [a \in AcceptThreads |-> FALSE]
  /\ events = [a \in AcceptThreads |-> {}]
  /\ hup = [a \in AcceptThreads |-> {}]
  /\ cur = [a \in AcceptThreads |-> None]
  /\ interest = [a \in AcceptThreads |-> {}]
  /\ ready = [a \in AcceptThreads |-> {}]
  /\ queue = <<>>
  /\ wpc = [w \in Workers |-> "take"]
  /\ wtask = [w \in Workers |-> None]
  /\ life = [t \in Tasks |-> "none"]
  /\ inEpoll = [i \in Items |-> FALSE]
  /\ home = [t \in Tasks |-> None]
  /\ unread = [t \in Tasks |-> 0]
  /\ sent = [t \in Tasks |-> 0]
  /\ peer = [t \in Tasks |-> "open"]
  /\ faults = 0
  /\ mixed = {}
  /\ skipped = {}
  /\ stale = {}
  /\ undefined = FALSE

AcceptThreadLoop(a) ==
  \/ EpollCreate(a) \/ AcceptExit(a) \/ TryLock(a) \/ AddListen(a)
  \/ EpollWait(a) \/ Dispatch(a) \/ AcceptOne(a) \/ AcceptEnd(a)
  \/ DeleEvent(a) \/ ClearFlag(a) \/ HandleEvent(a) \/ DropTask(a)
  \/ LogPush(a) \/ ReleaseListen(a) \/ Unlock(a) \/ AcceptUseAfterFree(a)

ServerLoop(w) ==
  \/ TakeTask(w) \/ WorkerWait(w) \/ WorkerExit(w) \/ ProcessRead(w)
  \/ ReAdd(w) \/ SetFlag(w) \/ WorkerDelete(w) \/ WorkerUseAfterFree(w)

\* The server has stopped, or its execution has lost its meaning.
Halted ==
  /\ \/ undefined
     \/ /\ \A a \in AcceptThreads : apc[a] = "exit"
        /\ \A w \in Workers : wpc[w] = "exit"
  /\ UNCHANGED vars

Next ==
  \/ ~undefined /\ \E t \in Tasks : Connect(t) \/ PeerStep(t)
  \/ ~undefined /\ \E a \in AcceptThreads : AcceptThreadLoop(a)
  \/ ~undefined /\ \E w \in Workers : ServerLoop(w)
  \/ Halted

Spec == Init /\ [][Next]_vars

\* Every thread keeps running; clients promise nothing.
FairSpec ==
  /\ Spec
  /\ \A a \in AcceptThreads : WF_vars(~undefined /\ AcceptThreadLoop(a))
  /\ \A w \in Workers : WF_vars(~undefined /\ ServerLoop(w))
-----------------------------------------------------------------------------
(* What the server keeps true.                                             *)

AcceptPC == {"start", "loop", "addListen", "wait", "dispatch", "accept",
             "dele", "clear", "handle", "drop", "logPush", "release",
             "unlock", "exit"}
WorkerPC == {"take", "wait", "process", "readd", "setFlag", "delete", "exit"}

\* A thread that handles a task has one.
ControlOK ==
  /\ \A a \in AcceptThreads :
       apc[a] \in {"dele", "clear", "handle", "drop", "logPush"} => cur[a] \in Tasks
  /\ \A w \in Workers :
       wpc[w] \in {"process", "readd", "setFlag", "delete"} => wtask[w] \in Tasks

\* Every variable has its type, and the thread that handles a task has one.
TypeOK ==
  /\ ControlOK
  /\ running \in BOOLEAN
  /\ lock \in AcceptThreads \cup {None}
  /\ apc \in [AcceptThreads -> AcceptPC]
  /\ hasServerSocket \in [AcceptThreads -> BOOLEAN]
  /\ events \in [AcceptThreads -> SUBSET Items]
  /\ hup \in [AcceptThreads -> SUBSET Tasks]
  /\ cur \in [AcceptThreads -> Items \cup {None}]
  /\ interest \in [AcceptThreads -> SUBSET Items]
  /\ ready \in [AcceptThreads -> SUBSET Items]
  /\ queue \in Seq(Tasks)
  /\ wpc \in [Workers -> WorkerPC]
  /\ wtask \in [Workers -> Tasks \cup {None}]
  /\ life \in [Tasks -> {"none", "backlog", "live", "freed"}]
  /\ inEpoll \in [Items -> BOOLEAN]
  /\ home \in [Tasks -> AcceptThreads \cup {None}]
  /\ unread \in [Tasks -> Nat]
  /\ sent \in [Tasks -> Nat]
  /\ peer \in [Tasks -> {"open", "closed", "reset"}]
  /\ faults \in 0 .. MaxFaults
  /\ mixed \in SUBSET Tasks
  /\ skipped \in SUBSET Tasks
  /\ stale \in SUBSET ({"log", "flag", "use"} \X Tasks)
  /\ undefined \in BOOLEAN

\* server_socket_lock_ does what its comment says: only its holder polls the
\* listening socket, has an event of it to handle, or accepts from it.
AcceptExclusive ==
  \A a \in AcceptThreads :
    \/ ServerTask \in interest[a] \cup events[a]
    \/ apc[a] = "accept"
    => lock = a

\* Why it holds, as an inductive invariant.  What is between trylock and unlock
\* holds the lock; has_server_socket says whether a thread does; and the flag of
\* server_task_ is up wherever the listening socket is watched, so that the end
\* of a round takes it out.
Rounds == {"wait", "dispatch", "accept", "dele", "clear", "handle", "drop",
           "logPush"}

AcceptInvAt(a) ==
  /\ apc[a] \in {"addListen", "accept", "release", "unlock"} => lock = a
  /\ apc[a] \in {"start", "loop", "exit"} => lock # a
  /\ apc[a] \in Rounds => (hasServerSocket[a] <=> lock = a)
  /\ apc[a] = "unlock" => ServerTask \notin interest[a]
  /\ apc[a] \in {"start", "loop", "addListen", "wait", "release", "unlock", "exit"}
       => events[a] = {}
  /\ ServerTask \in interest[a] \cup events[a] => lock = a
  /\ ServerTask \in interest[a] => inEpoll[ServerTask]
  /\ ready[a] \subseteq interest[a]

AcceptInv == \A a \in AcceptThreads : AcceptInvAt(a)

\* Who holds a task: an accept thread that took it out of its epoll instance,
\* a worker, or a position of the queue.
Handles(a, t) == apc[a] \in {"clear", "handle", "drop"} /\ cur[a] = t
Serves(w, t)  == wpc[w] \in {"process", "readd", "delete"} /\ wtask[w] = t

Holders(t) ==
       ({"accept"} \X {a \in AcceptThreads : Handles(a, t)})
  \cup ({"worker"} \X {w \in Workers : Serves(w, t)})
  \cup ({"queue"} \X {n \in DOMAIN queue : queue[n] = t})

Registered(t) == \E a \in AcceptThreads : t \in interest[a]

Places(t) == Cardinality(Holders(t)) + (IF Registered(t) THEN 1 ELSE 0)

\* A task is in one place at a time: watched by an epoll instance, queued once,
\* or in the hands of one thread.  Two steps break this and no others do: the
\* pop of another task than the one taken, and an event that is handled before
\* the worker that registered the task has raised if_in_epoll_.
SinglePlace ==
  \A t \in Tasks \ mixed :
    Places(t) = IF life[t] = "live" /\ t \notin skipped THEN 1 ELSE 0

\* A deleted task is used again only after one of those two steps; the trace
\* line of LogPush is the exception, so it is not counted.
NoUseAfterFree ==
  \A t \in Tasks \ mixed : <<"use", t>> \notin stale /\ <<"flag", t>> \notin stale

\* No connection is forgotten, unless its task was popped and never taken.
NoConnectionLost ==
  \A t \in Tasks \ skipped : life[t] = "live" => Registered(t) \/ Holders(t) # {}

\* A socket that is watched and has something to report has its edge, or its
\* event is still to be handled.
NoEdgeLost ==
  \A a \in AcceptThreads, t \in Tasks \ mixed :
    t \in interest[a] /\ Pollable(t)
      => \/ t \in ready[a] \cup events[a]
         \/ apc[a] = "dele" /\ cur[a] = t

\* A connection that is deleted with something unread was reset, or found the queue
\* full, unless a call has failed or two threads have shared its task: a client that
\* sends and closes is heard out.
ClosedIsHeardOut ==
  [][\A t \in Tasks \ mixed :
       life[t] = "live" /\ life'[t] = "freed" /\ unread[t] > 0 /\ faults = 0
         => \/ peer[t] = "reset"
            \/ \E a \in AcceptThreads : apc[a] = "drop" /\ cur[a] = t]_vars

\* What arrives on a connection is read, or the connection is closed, unless
\* the task was popped and never taken.
DataIsRead ==
  \A t \in Tasks :
    life[t] = "live" /\ unread[t] > 0
      ~> \/ unread[t] = 0 \/ life[t] = "freed"
         \/ undefined \/ ~running \/ t \in skipped

\* The task of a client that has left is deleted.
GonePeerIsFreed ==
  \A t \in Tasks :
    life[t] = "live" /\ peer[t] # "open"
      ~> life[t] = "freed" \/ undefined \/ ~running \/ t \in skipped

\* Every connection is accepted, or refused, sooner or later.
BacklogIsServed ==
  \A t \in Tasks : life[t] = "backlog"
                     ~> life[t] # "backlog" \/ undefined \/ ~running

\* tcp_server.h:23 calls task_queue_ the processing queue and tcp_server.cpp:241
\* says that a readable socket is put into it: so a task should leave the queue
\* only into the hands of a worker that processes it.
Queued(t) == \E n \in DOMAIN queue : queue[n] = t

LeavesQueueToWorker ==
  [][\A t \in Tasks :
       Queued(t) /\ ~Queued(t)'
         => \E w \in Workers : wpc'[w] = "process" /\ wtask'[w] = t]_vars

\* tcp_server.h:35 says that DeleEventFromEpoll deletes the event from the
\* queue of epoll_fd: so after the call the task should not be watched.
DeletedFromEpoll ==
  \A a \in AcceptThreads : apc[a] = "handle" => cur[a] \notin interest[a]

\* When one accept thread gives up, every thread leaves its loop.
StopReachesAll ==
  ~running ~> \/ undefined
              \/ /\ \A a \in AcceptThreads : apc[a] = "exit"
                 /\ \A w \in Workers : wpc[w] = "exit"
=============================================================================
