-------------------------- MODULE TcpServerProofs --------------------------
(***************************************************************************)
(* Proofs about the threads of the server, for any number of accept        *)
(* threads, workers and connections and any size of the queue: first what  *)
(* the accept threads do to each other, then who owns a ProcessTask.       *)
(***************************************************************************)
EXTENDS TcpServer, FiniteSetTheorems, TLAPS

\* What the kernel calls do to the types of the epoll instances.
LEMMA RegisterType ==
  ASSUME TypeOK, NEW a, NEW i \in Items, Register(a, i)
  PROVE  /\ interest' \in [AcceptThreads -> SUBSET Items]
         /\ ready' \in [AcceptThreads -> SUBSET Items]
  BY DEF Register, TypeOK

\* So does one that deletes.
LEMMA UnregisterType ==
  ASSUME TypeOK, NEW a, NEW i, Unregister(a, i)
  PROVE  /\ interest' \in [AcceptThreads -> SUBSET Items]
         /\ ready' \in [AcceptThreads -> SUBSET Items]
  BY DEF Unregister, TypeOK

\* A failure is counted.
LEMMA FailType == ASSUME TypeOK, Fail PROVE faults' \in 0 .. MaxFaults
  BY ServerConstants DEF Fail, TypeOK

\* The types hold initially and every step keeps them.
LEMMA TypeInit == Init => TypeOK
  <1> SUFFICES ASSUME Init PROVE TypeOK
    OBVIOUS
  <1>1. ControlOK
    BY DEF Init, ControlOK
  <1>2. /\ queue \in Seq(Tasks)
        /\ faults \in 0 .. MaxFaults
        /\ mixed \in SUBSET Tasks
        /\ skipped \in SUBSET Tasks
        /\ stale \in SUBSET ({"log", "flag", "use"} \X Tasks)
    BY ServerConstants DEF Init
  <1> QED
    BY <1>1, <1>2 DEF Init, TypeOK, AcceptPC, WorkerPC, Items

\* A step of an accept thread (tcp_server.cpp:134-291).
LEMMA TypeAccept ==
  ASSUME TypeOK, NEW a \in AcceptThreads, AcceptThreadLoop(a)
  PROVE  TypeOK'
  <1>1. CASE EpollCreate(a)
    <2>1. faults' \in 0 .. MaxFaults
      BY <1>1, FailType DEF EpollCreate, TypeOK
    <2> QED
      BY <1>1, <2>1 DEF EpollCreate, AGo, TypeOK, ControlOK, AcceptPC,
         epollVars, workerVars, taskVars, socketVars, ghostVars
  <1>2. CASE AcceptExit(a)
    BY <1>2 DEF AcceptExit, AGo, TypeOK, ControlOK, AcceptPC,
       epollVars, workerVars, taskVars, socketVars, ghostVars
  <1>3. CASE TryLock(a)
    BY <1>3 DEF TryLock, AGo, TypeOK, ControlOK, AcceptPC,
       epollVars, workerVars, taskVars, socketVars, ghostVars
  <1>4. CASE AddListen(a)
    <2>1. faults' \in 0 .. MaxFaults
      BY <1>4, FailType DEF AddListen, TypeOK
    <2>2. /\ interest' \in [AcceptThreads -> SUBSET Items]
          /\ ready' \in [AcceptThreads -> SUBSET Items]
      BY <1>4, RegisterType DEF AddListen, TypeOK, epollVars, Items
    <2>3. /\ inEpoll' \in [Items -> BOOLEAN]
          /\ lock' \in AcceptThreads \cup {None}
          /\ hasServerSocket' \in [AcceptThreads -> BOOLEAN]
      BY <1>4 DEF AddListen, GiveUpListening, TypeOK, Items
    <2> QED
      BY <1>4, <2>1, <2>2, <2>3 DEF AddListen, AGo, TypeOK, ControlOK, AcceptPC,
         workerVars, socketVars, ghostVars
  <1>5. CASE EpollWait(a)
    <2>1. PICK batch \in SUBSET ready[a] :
            /\ events' = [events EXCEPT ![a] = batch]
            /\ hup' = [hup EXCEPT ![a] =
                         {t \in batch \ {ServerTask} : peer[t] = "reset"}]
      BY <1>5 DEF EpollWait
    <2>2. batch \in SUBSET Items
      BY DEF TypeOK
    <2>3. events' \in [AcceptThreads -> SUBSET Items]
      BY <2>1, <2>2 DEF TypeOK
    <2>4. {t \in batch \ {ServerTask} : peer[t] = "reset"} \in SUBSET Tasks
      BY <2>2 DEF Items
    <2>5. hup' \in [AcceptThreads -> SUBSET Tasks]
      BY <2>1, <2>4 DEF TypeOK
    <2>6. ready' \in [AcceptThreads -> SUBSET Items]
      <3>1. \E left \in SUBSET ready[a] : ready' = [ready EXCEPT ![a] = left]
        BY <1>5 DEF EpollWait
      <3> QED
        BY <3>1 DEF TypeOK
    <2> QED
      BY <1>5, <2>3, <2>5, <2>6 DEF EpollWait, AGo, TypeOK, ControlOK, AcceptPC,
         workerVars, taskVars, socketVars, ghostVars
  <1>6. CASE Dispatch(a)
    <2>1. \/ \E i \in Items : /\ cur' = [cur EXCEPT ![a] = i]
                              /\ apc' = [apc EXCEPT ![a] =
                                   IF i = ServerTask THEN "accept" ELSE "dele"]
          \/ /\ cur' = [cur EXCEPT ![a] = None]
             /\ apc' = [apc EXCEPT ![a] =
                          IF hasServerSocket[a] THEN "release" ELSE "loop"]
      BY <1>6 DEF Dispatch, AGo, TypeOK
    <2>2. /\ cur \in [AcceptThreads -> Items \cup {None}]
          /\ apc \in [AcceptThreads -> AcceptPC]
          /\ ControlOK
      BY DEF TypeOK
    <2>3. cur' \in [AcceptThreads -> Items \cup {None}]
      BY <2>1, <2>2
    <2>4. apc' \in [AcceptThreads -> AcceptPC]
      BY <2>1, <2>2 DEF AcceptPC
    <2>5. \A b \in AcceptThreads :
            apc'[b] \in {"dele", "clear", "handle", "drop", "logPush"}
              => cur'[b] \in Tasks
      BY <2>1, <2>2 DEF ControlOK, Items
    <2>6. ControlOK'
      BY <1>6, <2>2, <2>5 DEF Dispatch, ControlOK, workerVars
    <2>7. events' \in [AcceptThreads -> SUBSET Items]
      <3>1. \/ \E i : events' = [events EXCEPT ![a] = events[a] \ {i}]
            \/ UNCHANGED events
        BY <1>6 DEF Dispatch
      <3>2. events \in [AcceptThreads -> SUBSET Items]
        BY DEF TypeOK
      <3> QED
        BY <3>1, <3>2
    <2> QED
      BY <1>6, <2>3, <2>4, <2>6, <2>7 DEF Dispatch, TypeOK,
         epollVars, workerVars, taskVars, socketVars, ghostVars
  <1>7. CASE AcceptOne(a)
    <2>1. faults' \in 0 .. MaxFaults
      BY <1>7, FailType DEF AcceptOne, TypeOK
    <2>2. /\ interest' \in [AcceptThreads -> SUBSET Items]
          /\ ready' \in [AcceptThreads -> SUBSET Items]
      BY <1>7, RegisterType DEF AcceptOne, TypeOK, epollVars, Items, Backlog
    <2>3. /\ life' \in [Tasks -> {"none", "backlog", "live", "freed"}]
          /\ inEpoll' \in [Items -> BOOLEAN]
          /\ home' \in [Tasks -> AcceptThreads \cup {None}]
      <3>1. PICK t \in Backlog :
              \/ /\ life' = [life EXCEPT ![t] = "live"]
                 /\ home' = [home EXCEPT ![t] = a]
                 /\ inEpoll' = [inEpoll EXCEPT ![t] = TRUE]
              \/ /\ life' = [life EXCEPT ![t] = "freed"]
                 /\ UNCHANGED <<home, inEpoll>>
        BY <1>7 DEF AcceptOne
      <3>2. /\ life \in [Tasks -> {"none", "backlog", "live", "freed"}]
            /\ inEpoll \in [Items -> BOOLEAN]
            /\ home \in [Tasks -> AcceptThreads \cup {None}]
            /\ t \in Tasks
        BY DEF TypeOK, Backlog
      <3>3. life' \in [Tasks -> {"none", "backlog", "live", "freed"}]
        BY <3>1, <3>2
      <3>4. inEpoll' \in [Items -> BOOLEAN]
        BY <3>1, <3>2, Zenon
      <3>5. home' \in [Tasks -> AcceptThreads \cup {None}]
        BY <3>1, <3>2
      <3> QED
        BY <3>3, <3>4, <3>5
    <2> QED
      BY <1>7, <2>1, <2>2, <2>3 DEF AcceptOne, TypeOK, ControlOK,
         acceptVars, workerVars, socketVars, ghostVars
  <1>8. CASE AcceptEnd(a)
    <2>1. faults' \in 0 .. MaxFaults
      BY <1>8, FailType DEF AcceptEnd, TypeOK
    <2> QED
      BY <1>8, <2>1 DEF AcceptEnd, AGo, TypeOK, ControlOK, AcceptPC,
         epollVars, workerVars, taskVars, socketVars, ghostVars
  <1>9. CASE DeleEvent(a)
    <2>1. cur[a] \in Tasks
      BY <1>9 DEF DeleEvent, TypeOK, ControlOK
    <2>2. /\ interest' \in [AcceptThreads -> SUBSET Items]
          /\ ready' \in [AcceptThreads -> SUBSET Items]
      BY <1>9, <2>1, UnregisterType DEF DeleEvent, TypeOK, epollVars, Items
    <2>3. mixed' \in SUBSET Tasks
      BY <1>9, <2>1 DEF DeleEvent, TypeOK
    <2> QED
      BY <1>9, <2>1, <2>2, <2>3 DEF DeleEvent, AGo, TypeOK, ControlOK, AcceptPC,
         workerVars, taskVars, socketVars
  <1>10. CASE ClearFlag(a)
    BY <1>10 DEF ClearFlag, AGo, TypeOK, ControlOK, AcceptPC, Items,
       epollVars, workerVars, socketVars, ghostVars
  <1>11. CASE HandleEvent(a)
    <2>1. cur[a] \in Tasks
      BY <1>11 DEF HandleEvent, TypeOK, ControlOK
    <2>2. queue' \in Seq(Tasks)
      <3>1. queue' = queue \/ queue' = Append(queue, cur[a])
        BY <1>11 DEF HandleEvent
      <3>2. queue \in Seq(Tasks)
        BY DEF TypeOK
      <3> QED
        BY <2>1, <3>1, <3>2
    <2>3. /\ wpc' \in [Workers -> WorkerPC]
          /\ \A w \in Workers : wpc'[w] # wpc[w] => wpc'[w] = "take"
      <3>1. UNCHANGED wpc \/ \E w \in Workers : wpc' = [wpc EXCEPT ![w] = "take"]
        BY <1>11 DEF HandleEvent, SignalWorker
      <3>2. wpc \in [Workers -> WorkerPC]
        BY DEF TypeOK
      <3>3. ASSUME NEW w \in Workers, wpc' = [wpc EXCEPT ![w] = "take"]
            PROVE  /\ wpc' \in [Workers -> WorkerPC]
                   /\ \A v \in Workers : wpc'[v] # wpc[v] => wpc'[v] = "take"
        BY <3>2, <3>3 DEF WorkerPC
      <3>4. CASE UNCHANGED wpc
        BY <3>2, <3>4
      <3>5. CASE \E w \in Workers : wpc' = [wpc EXCEPT ![w] = "take"]
        <4>1. PICK w \in Workers : wpc' = [wpc EXCEPT ![w] = "take"]
          BY <3>5
        <4> QED
          BY <3>3, <4>1
      <3> QED
        BY <3>1, <3>4, <3>5
    <2>4. AGo(a, "drop") \/ AGo(a, "logPush")
      BY <1>11 DEF HandleEvent
    <2>5. apc' \in [AcceptThreads -> AcceptPC]
      BY <2>4 DEF AGo, TypeOK, AcceptPC
    <2>6. ControlOK'
      <3>1. UNCHANGED <<cur, wtask>>
        BY <1>11 DEF HandleEvent
      <3>2. \A b \in AcceptThreads : b = a \/ apc'[b] = apc[b]
        BY <2>4 DEF AGo, TypeOK
      <3>3. \A w \in Workers : wpc'[w] \in {"process", "readd", "setFlag", "delete"}
                              => wpc'[w] = wpc[w]
        BY <2>3
      <3>4. ControlOK
        BY DEF TypeOK
      <3> QED
        BY <2>1, <3>1, <3>2, <3>3, <3>4 DEF ControlOK
    <2>7. /\ UNCHANGED <<running, lock, hasServerSocket, events, hup, cur, wtask>>
          /\ UNCHANGED <<epollVars, taskVars, socketVars, faults, ghostVars>>
      BY <1>11 DEF HandleEvent
    <2> QED
      BY <2>2, <2>3, <2>5, <2>6, <2>7 DEF TypeOK,
         epollVars, taskVars, socketVars, ghostVars
  <1>12. CASE DropTask(a)
    <2>1. cur[a] \in Tasks
      BY <1>12 DEF DropTask, TypeOK, ControlOK
    <2>2. /\ interest' \in [AcceptThreads -> SUBSET Items]
          /\ ready' \in [AcceptThreads -> SUBSET Items]
      BY <1>12, <2>1, UnregisterType DEF DropTask, DeleteTask, TypeOK, Items
    <2> QED
      BY <1>12, <2>1, <2>2 DEF DropTask, DeleteTask, AGo, TypeOK, ControlOK,
         AcceptPC, workerVars, socketVars, ghostVars
  <1>13. CASE LogPush(a)
    <2>1. cur[a] \in Tasks
      BY <1>13 DEF LogPush, TypeOK, ControlOK
    <2>2. stale' \in SUBSET ({"log", "flag", "use"} \X Tasks)
      BY <1>13, <2>1 DEF LogPush, TypeOK
    <2> QED
      BY <1>13, <2>2 DEF LogPush, AGo, TypeOK, ControlOK, AcceptPC,
         epollVars, workerVars, taskVars, socketVars
  <1>14. CASE ReleaseListen(a)
    <2>1. /\ interest' \in [AcceptThreads -> SUBSET Items]
          /\ ready' \in [AcceptThreads -> SUBSET Items]
      BY <1>14, UnregisterType DEF ReleaseListen, TypeOK, epollVars
    <2>2. inEpoll' \in [Items -> BOOLEAN]
      BY <1>14 DEF ReleaseListen, TypeOK
    <2> QED
      BY <1>14, <2>1, <2>2 DEF ReleaseListen, AGo, TypeOK, ControlOK, AcceptPC,
         workerVars, socketVars, ghostVars
  <1>15. CASE Unlock(a)
    BY <1>15 DEF Unlock, AGo, TypeOK, ControlOK, AcceptPC,
       epollVars, workerVars, taskVars, socketVars, ghostVars
  <1>16. CASE AcceptUseAfterFree(a)
    <2>1. cur[a] \in Tasks
      BY <1>16 DEF AcceptUseAfterFree, TypeOK, ControlOK
    <2>2. stale' \in SUBSET ({"log", "flag", "use"} \X Tasks)
      BY <1>16, <2>1 DEF AcceptUseAfterFree, TypeOK
    <2> QED
      BY <1>16, <2>2 DEF AcceptUseAfterFree, TypeOK, ControlOK,
         acceptVars, epollVars, workerVars, taskVars, socketVars
  <1> QED
    BY <1>1, <1>2, <1>3, <1>4, <1>5, <1>6, <1>7, <1>8, <1>9, <1>10, <1>11,
       <1>12, <1>13, <1>14, <1>15, <1>16 DEF AcceptThreadLoop

\* A step of a worker (tcp_server.cpp:293-345).
LEMMA TypeServer ==
  ASSUME TypeOK, NEW w \in Workers, ServerLoop(w)
  PROVE  TypeOK'
  <1>1. CASE TakeTask(w)
    <2>1. /\ queue[Len(queue)] \in Tasks
          /\ Head(queue) \in Tasks
          /\ Tail(queue) \in Seq(Tasks)
      BY <1>1 DEF TakeTask, TypeOK
    <2>2. mixed' \in SUBSET Tasks /\ skipped' \in SUBSET Tasks
      BY <1>1, <2>1 DEF TakeTask, TypeOK
    <2> QED
      BY <1>1, <2>1, <2>2 DEF TakeTask, WGo, TypeOK, ControlOK, WorkerPC,
         acceptVars, epollVars, taskVars, socketVars
  <1>2. CASE WorkerWait(w)
    BY <1>2 DEF WorkerWait, WGo, TypeOK, ControlOK, WorkerPC,
       acceptVars, epollVars, taskVars, socketVars, ghostVars
  <1>3. CASE WorkerExit(w)
    BY <1>3 DEF WorkerExit, WGo, TypeOK, ControlOK, WorkerPC,
       acceptVars, epollVars, taskVars, socketVars, ghostVars
  <1>4. CASE ProcessRead(w)
    <2>1. wtask[w] \in Tasks
      BY <1>4 DEF ProcessRead, TypeOK, ControlOK
    <2>2. unread' \in [Tasks -> Nat]
      <3>1. \/ UNCHANGED unread
            \/ /\ unread[wtask[w]] > 0
               /\ unread' = [unread EXCEPT ![wtask[w]] = @ - 1]
        BY <1>4 DEF ProcessRead, HasData
      <3>2. unread \in [Tasks -> Nat]
        BY DEF TypeOK
      <3> QED
        BY <2>1, <3>1, <3>2
    <2>3. faults' \in 0 .. MaxFaults
      BY <1>4, FailType DEF ProcessRead, TypeOK
    <2>4. wpc' \in [Workers -> WorkerPC]
      <3>1. UNCHANGED wpc \/ WGo(w, "delete") \/ WGo(w, "readd")
        BY <1>4 DEF ProcessRead, Drained
      <3>2. wpc \in [Workers -> WorkerPC]
        BY DEF TypeOK
      <3> QED
        BY <3>1, <3>2 DEF WGo, WorkerPC
    <2>5. \A v \in Workers : v # w => wpc'[v] = wpc[v]
      BY <1>4 DEF ProcessRead, WGo, TypeOK
    <2> QED
      BY <1>4, <2>1, <2>2, <2>3, <2>4, <2>5 DEF ProcessRead, TypeOK, ControlOK,
         acceptVars, epollVars, taskVars, ghostVars
  <1>5. CASE ReAdd(w)
    <2>1. wtask[w] \in Tasks
      BY <1>5 DEF ReAdd, TypeOK, ControlOK
    <2>2. /\ interest' \in [AcceptThreads -> SUBSET Items]
          /\ ready' \in [AcceptThreads -> SUBSET Items]
      BY <1>5, <2>1, RegisterType DEF ReAdd, TypeOK, epollVars, Items
    <2>3. faults' \in 0 .. MaxFaults
      BY <1>5, FailType DEF ReAdd, TypeOK
    <2>4. undefined' \in BOOLEAN
      BY <1>5 DEF ReAdd, TypeOK
    <2>5. wpc' \in [Workers -> WorkerPC]
      <3>1. \/ WGo(w, "take") \/ WGo(w, "setFlag") \/ WGo(w, "delete")
        BY <1>5 DEF ReAdd
      <3>2. wpc \in [Workers -> WorkerPC]
        BY DEF TypeOK
      <3> QED
        BY <3>1, <3>2 DEF WGo, WorkerPC
    <2>6. ControlOK'
      BY <1>5, <2>1 DEF ReAdd, WGo, TypeOK, ControlOK, acceptVars
    <2> QED
      BY <1>5, <2>2, <2>3, <2>4, <2>5, <2>6 DEF ReAdd, TypeOK,
         acceptVars, taskVars, socketVars
  <1>6. CASE SetFlag(w)
    <2>1. wtask[w] \in Tasks
      BY <1>6 DEF SetFlag, TypeOK, ControlOK
    <2>2. stale' \in SUBSET ({"log", "flag", "use"} \X Tasks)
      BY <1>6, <2>1 DEF SetFlag, TypeOK
    <2>3. inEpoll' \in [Items -> BOOLEAN]
      BY <1>6 DEF SetFlag, TypeOK
    <2> QED
      BY <1>6, <2>2, <2>3 DEF SetFlag, WGo, TypeOK, ControlOK, WorkerPC,
         acceptVars, epollVars, socketVars
  <1>7. CASE WorkerDelete(w)
    <2>1. wtask[w] \in Tasks
      BY <1>7 DEF WorkerDelete, TypeOK, ControlOK
    <2>2. /\ interest' \in [AcceptThreads -> SUBSET Items]
          /\ ready' \in [AcceptThreads -> SUBSET Items]
      BY <1>7, <2>1, UnregisterType DEF WorkerDelete, DeleteTask
    <2> QED
      BY <1>7, <2>1, <2>2 DEF WorkerDelete, DeleteTask, WGo, TypeOK, ControlOK,
         WorkerPC, acceptVars, socketVars, ghostVars
  <1>8. CASE WorkerUseAfterFree(w)
    <2>1. wtask[w] \in Tasks
      BY <1>8 DEF WorkerUseAfterFree, TypeOK, ControlOK
    <2>2. stale' \in SUBSET ({"log", "flag", "use"} \X Tasks)
      BY <1>8, <2>1 DEF WorkerUseAfterFree, TypeOK
    <2> QED
      BY <1>8, <2>2 DEF WorkerUseAfterFree, TypeOK, ControlOK,
         acceptVars, epollVars, workerVars, taskVars, socketVars
  <1> QED
    BY <1>1, <1>2, <1>3, <1>4, <1>5, <1>6, <1>7, <1>8 DEF ServerLoop

\* The kernel raises edges where an item is watched.
LEMMA WakeType ==
  ASSUME TypeOK, NEW i \in Items, Wake(i)
  PROVE  ready' \in [AcceptThreads -> SUBSET Items]
  BY DEF Wake, TypeOK

\* A step of a client.
LEMMA TypePeer ==
  ASSUME TypeOK, NEW t \in Tasks, Connect(t) \/ PeerStep(t)
  PROVE  TypeOK'
  <1>1. CASE Connect(t)
    <2>1. ready' \in [AcceptThreads -> SUBSET Items]
      BY <1>1, WakeType DEF Connect, Items
    <2> QED
      BY <1>1, <2>1 DEF Connect, TypeOK, ControlOK,
         acceptVars, workerVars, socketVars, ghostVars
  <1>2. CASE PeerStep(t)
    <2>1. ready' \in [AcceptThreads -> SUBSET Items]
      BY <1>2, WakeType DEF PeerStep, Items
    <2>2. /\ unread' \in [Tasks -> Nat]
          /\ sent' \in [Tasks -> Nat]
          /\ peer' \in [Tasks -> {"open", "closed", "reset"}]
      <3>1. \/ /\ sent' = [sent EXCEPT ![t] = @ + 1]
               /\ unread' = [unread EXCEPT ![t] = @ + 1]
               /\ UNCHANGED peer
            \/ /\ \E how \in {"closed", "reset"} : peer' = [peer EXCEPT ![t] = how]
               /\ UNCHANGED <<sent, unread>>
        BY <1>2 DEF PeerStep
      <3>2. /\ unread \in [Tasks -> Nat]
            /\ sent \in [Tasks -> Nat]
            /\ peer \in [Tasks -> {"open", "closed", "reset"}]
        BY DEF TypeOK
      <3>3. unread' \in [Tasks -> Nat] /\ sent' \in [Tasks -> Nat]
        BY <3>1, <3>2
      <3>4. peer' \in [Tasks -> {"open", "closed", "reset"}]
        BY <3>1, <3>2
      <3> QED
        BY <3>3, <3>4
    <2> QED
      BY <1>2, <2>1, <2>2 DEF PeerStep, TypeOK, ControlOK,
         acceptVars, workerVars, taskVars, ghostVars
  <1> QED
    BY <1>1, <1>2

\* Nothing changes.
LEMMA TypeStutter == TypeOK /\ UNCHANGED vars => TypeOK'
  BY DEF TypeOK, ControlOK, vars, acceptVars, epollVars, workerVars, taskVars,
     socketVars, ghostVars

\* Every variable of the server keeps its type, and a thread that is between two
\* accesses to a task knows which task that is (tcp_server.cpp:189, 306).
THEOREM TypeCorrect == Spec => []TypeOK
  <1>1. Init => TypeOK
    BY TypeInit
  <1>2. TypeOK /\ [Next]_vars => TypeOK'
    BY TypeAccept, TypeServer, TypePeer, TypeStutter DEF Next, Halted
  <1> QED
    BY <1>1, <1>2, PTL DEF Spec

-----------------------------------------------------------------------------
(* The lock of the listening socket.                                       *)

\* What the kernel calls do to the instances, seen from the listening socket.
LEMMA RegisterEffect ==
  ASSUME TypeOK, AcceptInv, NEW a, NEW i \in Items, Register(a, i),
         NEW b \in AcceptThreads
  PROVE  /\ ready'[b] \subseteq interest'[b]
         /\ b # a \/ i # ServerTask
              => (ServerTask \in interest'[b] <=> ServerTask \in interest[b])
  <1>1. /\ interest \in [AcceptThreads -> SUBSET Items]
        /\ ready \in [AcceptThreads -> SUBSET Items]
        /\ ready[b] \subseteq interest[b]
    BY DEF TypeOK, AcceptInv, AcceptInvAt
  <1>2. /\ interest' = [interest EXCEPT ![a] = @ \cup {i}]
        /\ ready' = ready \/ ready' = [ready EXCEPT ![a] = @ \cup {i}]
    BY <1>1 DEF Register
  <1> QED
    BY <1>1, <1>2

\* What a removal from an instance does to the edges and to the listening socket.
LEMMA UnregisterEffect ==
  ASSUME TypeOK, AcceptInv, NEW a, NEW i, Unregister(a, i),
         NEW b \in AcceptThreads
  PROVE  /\ ready'[b] \subseteq interest'[b]
         /\ b # a \/ i # ServerTask
              => (ServerTask \in interest'[b] <=> ServerTask \in interest[b])
         /\ i \notin interest'[a] \/ a \notin AcceptThreads
  BY DEF Unregister, TypeOK, AcceptInv, AcceptInvAt

\* A step that touches neither the control of the accept threads nor the
\* listening socket keeps the invariant.
LEMMA AcceptFrame ==
  ASSUME AcceptInv,
         UNCHANGED <<lock, apc, hasServerSocket, events>>,
         inEpoll'[ServerTask] = inEpoll[ServerTask],
         \A b \in AcceptThreads :
           /\ ready'[b] \subseteq interest'[b]
           /\ ServerTask \in interest'[b] <=> ServerTask \in interest[b]
  PROVE  AcceptInv'
  BY DEF AcceptInv, AcceptInvAt

\* Nobody accepts at first.
LEMMA AcceptInit == Init => AcceptInv
  BY ServerConstants DEF Init, AcceptInv, AcceptInvAt, Rounds

\* A worker leaves the listening socket alone.
LEMMA AcceptServer ==
  ASSUME TypeOK, AcceptInv, NEW w \in Workers, ServerLoop(w)
  PROVE  AcceptInv'
  <1>1. UNCHANGED <<lock, apc, hasServerSocket, events>>
    BY DEF ServerLoop, TakeTask, WorkerWait, WorkerExit, ProcessRead, ReAdd,
       SetFlag, WorkerDelete, WorkerUseAfterFree, acceptVars
  <1>2. inEpoll'[ServerTask] = inEpoll[ServerTask]
    <2>1. CASE SetFlag(w)
      <3>1. wtask[w] # ServerTask
        BY <2>1, ServerConstants DEF SetFlag, TypeOK, ControlOK
      <3>2. UNCHANGED inEpoll \/ inEpoll' = [inEpoll EXCEPT ![wtask[w]] = TRUE]
        BY <2>1 DEF SetFlag
      <3>3. inEpoll \in [Items -> BOOLEAN] /\ ServerTask \in Items
        BY DEF TypeOK, Items
      <3> QED
        BY <3>1, <3>2, <3>3
    <2>2. CASE ~SetFlag(w)
      BY <2>2 DEF ServerLoop, TakeTask, WorkerWait, WorkerExit, ProcessRead,
         ReAdd, WorkerDelete, WorkerUseAfterFree, taskVars
    <2> QED
      BY <2>1, <2>2
  <1>3. ASSUME NEW b \in AcceptThreads
        PROVE  /\ ready'[b] \subseteq interest'[b]
               /\ ServerTask \in interest'[b] <=> ServerTask \in interest[b]
    <2>1. CASE UNCHANGED epollVars
      BY <2>1 DEF epollVars, AcceptInv, AcceptInvAt
    <2>2. CASE ReAdd(w) /\ Register(home[wtask[w]], wtask[w])
      <3>1. wtask[w] \in Items /\ wtask[w] # ServerTask
        BY <2>2, ServerConstants DEF ReAdd, TypeOK, ControlOK, Items
      <3> QED
        BY <2>2, <3>1, RegisterEffect
    <2>3. CASE WorkerDelete(w)
      <3>1. wtask[w] # ServerTask
        BY <2>3, ServerConstants DEF WorkerDelete, TypeOK, ControlOK
      <3> QED
        BY <2>3, <3>1, UnregisterEffect DEF WorkerDelete, DeleteTask
    <2> QED
      BY <2>1, <2>2, <2>3 DEF ServerLoop, TakeTask, WorkerWait, WorkerExit,
         ProcessRead, ReAdd, SetFlag, WorkerUseAfterFree
  <1> QED
    BY <1>1, <1>2, <1>3, AcceptFrame

\* A client can only raise edges that are watched.
LEMMA AcceptPeer ==
  ASSUME TypeOK, AcceptInv, NEW t \in Tasks, Connect(t) \/ PeerStep(t)
  PROVE  AcceptInv'
  <1>1. /\ UNCHANGED <<lock, apc, hasServerSocket, events, interest, inEpoll>>
        /\ \E i : Wake(i)
    BY DEF Connect, PeerStep, acceptVars, taskVars
  <1>2. \A b \in AcceptThreads : ready'[b] \subseteq interest'[b]
    BY <1>1 DEF Wake, AcceptInv, AcceptInvAt
  <1> QED
    BY <1>1, <1>2, AcceptFrame

\* A step of an accept thread.
LEMMA AcceptAccept ==
  ASSUME TypeOK, AcceptInv, NEW a \in AcceptThreads, AcceptThreadLoop(a)
  PROVE  AcceptInv'
  <1>1. CASE EpollCreate(a)
    BY <1>1 DEF EpollCreate, AGo, TypeOK, AcceptInv, AcceptInvAt, Rounds,
       epollVars, taskVars
  <1>2. CASE AcceptExit(a)
    BY <1>2 DEF AcceptExit, AGo, TypeOK, AcceptInv, AcceptInvAt, Rounds,
       epollVars, taskVars
  <1>3. CASE TryLock(a)
    <2>1. CASE lock = None /\ lock' = a
      <3>1. apc' = [apc EXCEPT ![a] = "addListen"] /\ UNCHANGED hasServerSocket
        BY <1>3, <2>1, ServerConstants DEF TryLock, AGo
      <3>2. \A b \in AcceptThreads : lock # b
        BY <2>1, ServerConstants
      <3> QED
        BY <1>3, <2>1, <3>1, <3>2 DEF TryLock, TypeOK, AcceptInv, AcceptInvAt,
           Rounds, epollVars, taskVars
    <2>2. CASE UNCHANGED lock /\ apc' = [apc EXCEPT ![a] = "wait"]
      <3>1. hasServerSocket' = [hasServerSocket EXCEPT ![a] = FALSE]
        BY <1>3, <2>2 DEF TryLock, AGo, TypeOK
      <3> QED
        BY <1>3, <2>2, <3>1 DEF TryLock, TypeOK, AcceptInv, AcceptInvAt,
           Rounds, epollVars, taskVars
    <2> QED
      BY <1>3, <2>1, <2>2 DEF TryLock, AGo
  <1>4. CASE AddListen(a)
    <2>1. CASE inEpoll[ServerTask]
      BY <1>4, <2>1 DEF AddListen, AGo, TypeOK, AcceptInv, AcceptInvAt, Rounds,
         epollVars
    <2>2. CASE /\ Register(a, ServerTask)
               /\ UNCHANGED <<lock, events>>
               /\ AGo(a, "wait")
               /\ inEpoll' = [inEpoll EXCEPT ![ServerTask] = TRUE]
               /\ hasServerSocket' = [hasServerSocket EXCEPT ![a] = TRUE]
      <3>1. lock = a /\ apc[a] = "addListen"
        BY <1>4 DEF AddListen, AcceptInv, AcceptInvAt
      <3>2. \A b \in AcceptThreads :
              /\ ready'[b] \subseteq interest'[b]
              /\ b # a => ServerTask \notin interest'[b]
        BY <2>2, <3>1, RegisterEffect DEF Items, AcceptInv, AcceptInvAt
      <3>3. /\ UNCHANGED <<lock, events>>
            /\ apc' = [apc EXCEPT ![a] = "wait"]
            /\ inEpoll'[ServerTask]
            /\ hasServerSocket' = [hasServerSocket EXCEPT ![a] = TRUE]
        BY <2>2 DEF AGo, TypeOK, Items
      <3> QED
        BY <3>1, <3>2, <3>3 DEF TypeOK, AcceptInv, AcceptInvAt, Rounds
    <2>3. CASE ~inEpoll[ServerTask] /\ GiveUpListening(a)
      BY <1>4, <2>3, ServerConstants DEF AddListen, GiveUpListening, AGo, TypeOK,
         AcceptInv, AcceptInvAt, Rounds, epollVars
    <2> QED
      BY <1>4, <2>1, <2>2, <2>3 DEF AddListen
  <1>5. CASE EpollWait(a)
    <2>1. PICK batch \in SUBSET ready[a] :
            /\ events' = [events EXCEPT ![a] = batch]
            /\ \E left \in SUBSET ready[a] : ready' = [ready EXCEPT ![a] = left]
      BY <1>5 DEF EpollWait
    <2> QED
      BY <1>5, <2>1 DEF EpollWait, AGo, TypeOK, AcceptInv, AcceptInvAt, Rounds,
         taskVars
  <1>6. CASE Dispatch(a)
    BY <1>6 DEF Dispatch, AGo, TypeOK, AcceptInv, AcceptInvAt, Rounds,
       epollVars, taskVars
  <1>7. CASE AcceptOne(a)
    <2>1. PICK t \in Tasks : \/ Register(a, t) /\ inEpoll' = [inEpoll EXCEPT ![t] = TRUE]
                             \/ UNCHANGED <<epollVars, inEpoll>>
      BY <1>7 DEF AcceptOne, Backlog
    <2>2. inEpoll'[ServerTask] = inEpoll[ServerTask]
      <3>1. t # ServerTask /\ inEpoll \in [Items -> BOOLEAN] /\ ServerTask \in Items
        BY ServerConstants DEF TypeOK, Items
      <3> QED
        BY <2>1, <3>1 DEF epollVars
    <2>3. \A b \in AcceptThreads :
            /\ ready'[b] \subseteq interest'[b]
            /\ ServerTask \in interest'[b] <=> ServerTask \in interest[b]
      BY <2>1, RegisterEffect, ServerConstants
         DEF epollVars, Items, AcceptInv, AcceptInvAt
    <2> QED
      BY <1>7, <2>2, <2>3, AcceptFrame DEF AcceptOne, acceptVars
  <1>8. CASE AcceptEnd(a)
    BY <1>8 DEF AcceptEnd, AGo, TypeOK, AcceptInv, AcceptInvAt, Rounds,
       epollVars, taskVars
  <1>9. CASE DeleEvent(a)
    <2>1. \A b \in AcceptThreads :
            /\ ready'[b] \subseteq interest'[b]
            /\ ServerTask \in interest'[b] <=> ServerTask \in interest[b]
      <3>1. cur[a] # ServerTask
        BY <1>9, ServerConstants DEF DeleEvent, TypeOK, ControlOK
      <3>2. UNCHANGED epollVars \/ Unregister(a, cur[a])
        BY <1>9 DEF DeleEvent
      <3> QED
        BY <3>1, <3>2, UnregisterEffect DEF epollVars, AcceptInv, AcceptInvAt
    <2>2. \/ apc' = [apc EXCEPT ![a] = "handle"]
          \/ apc' = [apc EXCEPT ![a] = "clear"]
      BY <1>9 DEF DeleEvent, AGo
    <2> QED
      BY <1>9, <2>1, <2>2 DEF DeleEvent, TypeOK, AcceptInv, AcceptInvAt, Rounds,
         taskVars
  <1>10. CASE ClearFlag(a)
    BY <1>10, ServerConstants DEF ClearFlag, AGo, TypeOK, ControlOK, AcceptInv,
       AcceptInvAt, Rounds, epollVars
  <1>11. CASE HandleEvent(a)
    BY <1>11 DEF HandleEvent, AGo, TypeOK, AcceptInv, AcceptInvAt, Rounds,
       epollVars, taskVars
  <1>12. CASE DropTask(a)
    <2>1. \A b \in AcceptThreads :
            /\ ready'[b] \subseteq interest'[b]
            /\ ServerTask \in interest'[b] <=> ServerTask \in interest[b]
      <3>1. cur[a] # ServerTask
        BY <1>12, ServerConstants DEF DropTask, TypeOK, ControlOK
      <3> QED
        BY <1>12, <3>1, UnregisterEffect DEF DropTask, DeleteTask
    <2> QED
      BY <1>12, <2>1 DEF DropTask, AGo, TypeOK, AcceptInv, AcceptInvAt, Rounds
  <1>13. CASE LogPush(a)
    BY <1>13 DEF LogPush, AGo, TypeOK, AcceptInv, AcceptInvAt, Rounds,
       epollVars, taskVars
  <1>14. CASE ReleaseListen(a)
    <2>1. lock = a /\ events[a] = {} /\ apc[a] = "release"
      BY <1>14 DEF ReleaseListen, AcceptInv, AcceptInvAt
    <2>2. \A b \in AcceptThreads :
            /\ ready'[b] \subseteq interest'[b]
            /\ ServerTask \notin interest'[b]
      BY <1>14, <2>1, UnregisterEffect DEF ReleaseListen, epollVars, AcceptInv,
         AcceptInvAt
    <2> QED
      BY <1>14, <2>1, <2>2 DEF ReleaseListen, AGo, TypeOK, AcceptInv, AcceptInvAt,
         Rounds
  <1>15. CASE Unlock(a)
    BY <1>15, ServerConstants DEF Unlock, AGo, TypeOK, AcceptInv, AcceptInvAt,
       Rounds, epollVars, taskVars
  <1>16. CASE AcceptUseAfterFree(a)
    BY <1>16, AcceptFrame DEF AcceptUseAfterFree, acceptVars, epollVars,
       taskVars, AcceptInv, AcceptInvAt
  <1> QED
    BY <1>1, <1>2, <1>3, <1>4, <1>5, <1>6, <1>7, <1>8, <1>9, <1>10, <1>11,
       <1>12, <1>13, <1>14, <1>15, <1>16 DEF AcceptThreadLoop

\* Nothing changes.
LEMMA AcceptStutter == AcceptInv /\ UNCHANGED vars => AcceptInv'
  BY DEF AcceptInv, AcceptInvAt, vars, acceptVars, epollVars, taskVars

\* The inductive invariant behind the next theorem: what has_server_socket and
\* if_in_epoll_ of server_task_ tell about the lock (tcp_server.cpp:158-174,
\* 268-274).
THEOREM AcceptInvCorrect == Spec => []AcceptInv
  <1>1. Init => AcceptInv
    BY AcceptInit
  <1>2. TypeOK /\ AcceptInv /\ [Next]_vars => AcceptInv'
    BY AcceptAccept, AcceptServer, AcceptPeer, AcceptStutter DEF Next, Halted
  <1> QED
    BY <1>1, <1>2, TypeCorrect, PTL DEF Spec

\* Whatever the number of accept threads, only the holder of
\* server_socket_lock_ polls the listening socket, handles an event of it or
\* accepts from it (tcp_server.h:54).
THEOREM AcceptExclusiveCorrect == Spec => []AcceptExclusive
  <1>1. AcceptInv => AcceptExclusive
    BY DEF AcceptInv, AcceptInvAt, AcceptExclusive
  <1> QED
    BY <1>1, AcceptInvCorrect, PTL

-----------------------------------------------------------------------------
(* Who owns a ProcessTask.                                                 *)

\* Between Dispatch and DeleEvent, and between ReAdd and SetFlag, a thread refers to
\* a task that is still, or already, in an epoll instance.
Examines(a, t) == apc[a] = "dele" /\ cur[a] = t
Raises(w, t)   == wpc[w] = "setFlag" /\ wtask[w] = t
InQueue(t)     == \E n \in DOMAIN queue : queue[n] = t
Once(t)        == \A m, n \in DOMAIN queue : queue[m] = t /\ queue[n] = t => m = n

\* Threads and instances know only tasks whose connection was accepted, and the
\* accept threads only those of their own instance.
BegunAt(t) ==
  /\ life[t] = "live" => home[t] \in AcceptThreads
  /\ \A a \in AcceptThreads :
       /\ t \in interest[a] => life[t] = "live" /\ home[t] = a
       /\ t \in events[a] \/ Examines(a, t) \/ Handles(a, t)
            => life[t] \in {"live", "freed"} /\ home[t] = a
  /\ \A w \in Workers : Serves(w, t) \/ Raises(w, t) => life[t] \in {"live", "freed"}
  /\ InQueue(t) \/ t \in skipped => life[t] \in {"live", "freed"}

\* What the flag says about a task that is not deleted: raised, it is true, or about
\* to be lowered; a worker that is about to raise it has registered the task, and
\* is the only one to do so.
FlagAt(t) ==
  life[t] = "live" =>
    /\ inEpoll[t] => \/ t \in interest[home[t]]
                     \/ apc[home[t]] = "clear" /\ cur[home[t]] = t
    /\ \A w \in Workers :
         Raises(w, t) => /\ t \in interest[home[t]]
                         /\ ~inEpoll[t]
                         /\ \A v \in Workers : Raises(v, t) => v = w

\* A live task that was not popped untaken is somewhere.
KeptAt(t) ==
  life[t] = "live" /\ t \notin skipped
    => \/ \E a \in AcceptThreads : t \in interest[a] \/ Handles(a, t)
       \/ \E w \in Workers : Serves(w, t)
       \/ InQueue(t)

\* A task that was never shared is in one place at most, and only while it lives.
\* What else refers to it refers to it there.
SoleAt(t) ==
  t \notin mixed =>
    /\ \A a \in AcceptThreads :
         /\ t \in events[a] => t \in interest[a]
         /\ Examines(a, t) => t \in interest[a] \ events[a]
         /\ t \in interest[a] => t \notin skipped
         /\ Handles(a, t) =>
              /\ life[t] = "live" /\ t \notin skipped
              /\ t \notin interest[a]
              /\ ~InQueue(t)
              /\ \A w \in Workers : ~Serves(w, t)
    /\ \A w \in Workers :
         /\ Raises(w, t) => life[t] = "live"
         /\ Serves(w, t) =>
              /\ life[t] = "live" /\ t \notin skipped
              /\ \A a \in AcceptThreads : t \notin interest[a]
              /\ ~InQueue(t)
              /\ \A v \in Workers : Serves(v, t) => v = w
    /\ InQueue(t) =>
         /\ life[t] = "live" /\ t \notin skipped
         /\ \A a \in AcceptThreads : t \notin interest[a]
         /\ Once(t)

\* No access to it was one to a deleted task.
FreshAt(t) == t \notin mixed => <<"use", t>> \notin stale /\ <<"flag", t>> \notin stale

\* A worker that deletes a task has read everything, if no call has failed.
DrainedAt(t) ==
  t \notin mixed /\ faults = 0 =>
    \A w \in Workers :
      wpc[w] = "delete" /\ wtask[w] = t => peer[t] # "open" /\ unread[t] = 0

OwnAt(t) == BegunAt(t) /\ FlagAt(t) /\ KeptAt(t) /\ SoleAt(t)

OwnInv == \A t \in Tasks : OwnAt(t) /\ FreshAt(t) /\ DrainedAt(t)

\* What does not concern a task: nothing that refers to it changes.
Untouched(t) ==
  /\ life'[t] = life[t] /\ home'[t] = home[t] /\ inEpoll'[t] = inEpoll[t]
  /\ \A a \in AcceptThreads :
       /\ t \in interest'[a] <=> t \in interest[a]
       /\ t \in events'[a] => t \in events[a] \/ (t \in interest[a] /\ ~Examines(a, t))
       /\ Examines(a, t)' <=> Examines(a, t)
       /\ Handles(a, t)' <=> Handles(a, t)
       /\ (apc'[a] = "clear" /\ cur'[a] = t) <=> (apc[a] = "clear" /\ cur[a] = t)
  /\ t \in skipped' <=> t \in skipped
  /\ t \in mixed' <=> t \in mixed

\* No worker takes or leaves it.
SameWorkers(t) ==
  \A w \in Workers : /\ Serves(w, t)' <=> Serves(w, t)
                     /\ Raises(w, t)' <=> Raises(w, t)

\* It is in the queue as before.
SameQueue(t) == (InQueue(t)' <=> InQueue(t)) /\ (Once(t) => Once(t)')

\* A step that touches nothing of a task keeps its places.
LEMMA OwnFrame ==
  ASSUME TypeOK, NEW t \in Tasks, OwnAt(t), Untouched(t), SameWorkers(t), SameQueue(t)
  PROVE  OwnAt(t)'
  <1>1. BegunAt(t)'
    BY DEF OwnAt, BegunAt, Untouched, SameWorkers, SameQueue, Examines, Handles, Serves, Raises
  <1>2. FlagAt(t)'
    BY DEF OwnAt, BegunAt, FlagAt, Untouched, SameWorkers, Serves, Raises
  <1>3. KeptAt(t)'
    BY DEF OwnAt, KeptAt, Untouched, SameWorkers, SameQueue, Examines, Handles, Serves, Raises
  <1>4. SoleAt(t)'
    BY DEF OwnAt, SoleAt, Untouched, SameWorkers, SameQueue, Examines, Handles, Serves, Raises
  <1> QED
    BY <1>1, <1>2, <1>3, <1>4 DEF OwnAt

\* What the helpers do, point by point.
LEMMA AGoEffect ==
  ASSUME TypeOK, NEW a \in AcceptThreads, NEW label, AGo(a, label)
  PROVE  apc'[a] = label /\ \A b \in AcceptThreads \ {a} : apc'[b] = apc[b]
  BY DEF TypeOK, AGo

\* The same of a worker.
LEMMA WGoEffect ==
  ASSUME TypeOK, NEW w \in Workers, NEW label, WGo(w, label)
  PROVE  wpc'[w] = label /\ \A v \in Workers : v # w => wpc'[v] = wpc[v]
  BY DEF TypeOK, WGo

\* epoll_ctl adds one item to one instance.
LEMMA Registers ==
  ASSUME TypeOK, NEW a, NEW i, Register(a, i), NEW t
  PROVE  \A b \in AcceptThreads :
           t \in interest'[b] <=> t \in interest[b] \/ (b = a /\ t = i)
  BY DEF TypeOK, Register

\* epoll_ctl takes one item out of one instance.
LEMMA Unregisters ==
  ASSUME TypeOK, NEW a, NEW i, Unregister(a, i), NEW t
  PROVE  \A b \in AcceptThreads :
           t \in interest'[b] <=> t \in interest[b] /\ ~(b = a /\ t = i)
  BY DEF TypeOK, Unregister

\* From the instance to the accept thread: what it examines it takes out, or drops.
LEMMA OwnDeleEvent ==
  ASSUME TypeOK, NEW t \in Tasks, OwnAt(t), NEW a \in AcceptThreads, DeleEvent(a)
  PROVE  OwnAt(t)'
  <1>1. /\ apc[a] = "dele" /\ life[cur[a]] = "live" /\ cur[a] \in Tasks
        /\ UNCHANGED <<life, home, inEpoll, events, cur, queue, wpc, wtask, skipped>>
    BY DEF DeleEvent, TypeOK, ControlOK, taskVars, workerVars
  <1>2. \A b \in AcceptThreads \ {a} : apc'[b] = apc[b]
    BY AGoEffect DEF DeleEvent
  <1>3. CASE t # cur[a]
    <2>1. apc'[a] \in {"clear", "handle"}
      BY AGoEffect DEF DeleEvent
    <2>2. \A b \in AcceptThreads : t \in interest'[b] <=> t \in interest[b]
      BY <1>3, Unregisters DEF DeleEvent, epollVars
    <2>3. t \in mixed' <=> t \in mixed
      BY <1>3 DEF DeleEvent
    <2>4. Untouched(t) /\ SameWorkers(t) /\ SameQueue(t)
      BY <1>1, <1>2, <1>3, <2>1, <2>2, <2>3
      DEF Untouched, SameWorkers, SameQueue, InQueue, Once, Examines, Handles, Serves, Raises
    <2> QED
      BY <1>1, <2>4, OwnFrame
  <1>4. CASE t = cur[a] /\ ~inEpoll[t]
    <2>1. /\ apc'[a] = "handle" /\ UNCHANGED interest
          /\ mixed' = IF t \in interest[a] THEN mixed \cup {t} ELSE mixed
      BY <1>4, AGoEffect DEF DeleEvent, epollVars
    <2>2. t \in mixed'
      BY <1>1, <1>4, <2>1 DEF OwnAt, SoleAt, Examines
    <2> QED
      BY <1>1, <1>2, <1>4, <2>1, <2>2
      DEF OwnAt, BegunAt, FlagAt, KeptAt, SoleAt, InQueue, Once, Examines, Handles, Serves, Raises
  <1>5. CASE t = cur[a] /\ inEpoll[t] /\ t \in interest[a]
    <2>1. apc'[a] = "clear" /\ UNCHANGED mixed /\ Unregister(a, t)
      BY <1>5, AGoEffect DEF DeleEvent
    <2>2. \A b \in AcceptThreads : t \in interest'[b] <=> t \in interest[b] /\ b # a
      BY <2>1, Unregisters
    <2>3. home[t] = a
      BY <1>5 DEF OwnAt, BegunAt
    <2>4. BegunAt(t)'
      BY <1>1, <1>2, <1>5, <2>1, <2>2, <2>3
      DEF OwnAt, BegunAt, InQueue, Once, Examines, Handles, Serves, Raises
    <2>5. FlagAt(t)'
      BY <1>1, <1>2, <1>5, <2>1, <2>2, <2>3 DEF OwnAt, FlagAt, Raises
    <2>6. KeptAt(t)'
      BY <1>1, <1>2, <1>5, <2>1, <2>2, <2>3 DEF KeptAt, Handles
    <2>7. SoleAt(t)'
      BY <1>1, <1>2, <1>5, <2>1, <2>2, <2>3
      DEF OwnAt, BegunAt, SoleAt, InQueue, Once, Examines, Handles, Serves, Raises
    <2> QED
      BY <2>4, <2>5, <2>6, <2>7 DEF OwnAt
  <1>6. CASE t = cur[a] /\ inEpoll[t] /\ t \notin interest[a]
    <2>1. apc'[a] = "handle" /\ UNCHANGED <<interest, mixed>>
      BY <1>6, AGoEffect DEF DeleEvent, epollVars
    <2>2. t \in mixed
      BY <1>1, <1>6 DEF OwnAt, SoleAt, Examines
    <2> QED
      BY <1>1, <1>2, <1>6, <2>1, <2>2
      DEF OwnAt, BegunAt, FlagAt, KeptAt, SoleAt, InQueue, Once, Examines, Handles, Serves, Raises
  <1> QED
    BY <1>3, <1>4, <1>5, <1>6

\* An accept thread that does not deal with any task, before or after the step.
Away(a) == apc[a] \notin {"dele", "clear", "handle", "drop"}

\* An accept thread that deals with no task before or after its step, and at most
\* takes an event of its own instance, disturbs no task.
LEMMA OwnQuiet ==
  ASSUME TypeOK, NEW t \in Tasks, OwnAt(t), NEW a \in AcceptThreads,
         Away(a), Away(a)', \A b \in AcceptThreads \ {a} : apc'[b] = apc[b],
         UNCHANGED <<life, home, cur, queue, wpc, wtask, mixed, skipped>>,
         inEpoll'[t] = inEpoll[t],
         \A b \in AcceptThreads :
           /\ t \in interest'[b] <=> t \in interest[b]
           /\ t \in events'[b] => t \in events[b] \/ (b = a /\ t \in interest[b])
  PROVE  OwnAt(t)'
  <1>1. Untouched(t)
    BY DEF Untouched, Away, Examines, Handles
  <1>2. SameWorkers(t) /\ SameQueue(t)
    BY DEF SameWorkers, SameQueue, InQueue, Once, Serves, Raises
  <1> QED
    BY <1>1, <1>2, OwnFrame

\* The steps of an accept thread's round around the events themselves
\* (tcp_server.cpp:180-240).
LEMMA OwnRounds ==
  ASSUME TypeOK, AcceptInv, NEW t \in Tasks, OwnAt(t), NEW a \in AcceptThreads,
         \/ EpollCreate(a) \/ AcceptExit(a) \/ TryLock(a) \/ AddListen(a) \/ EpollWait(a)
         \/ AcceptEnd(a) \/ LogPush(a) \/ ReleaseListen(a) \/ Unlock(a)
  PROVE  OwnAt(t)'
  <1>1. /\ Away(a) /\ Away(a)' /\ \A b \in AcceptThreads \ {a} : apc'[b] = apc[b]
        /\ UNCHANGED <<life, home, cur, queue, wpc, wtask, mixed, skipped>>
    <2>1. /\ Away(a)
          /\ \E label \in {"loop", "exit", "addListen", "wait", "dispatch", "unlock"} :
               AGo(a, label)
      BY DEF EpollCreate, AcceptExit, TryLock, AddListen, EpollWait, AcceptEnd,
         LogPush, ReleaseListen, Unlock, Away
    <2>2. Away(a)' /\ \A b \in AcceptThreads \ {a} : apc'[b] = apc[b]
      BY <2>1, AGoEffect DEF Away
    <2>3. UNCHANGED <<life, home, cur, queue, wpc, wtask, mixed, skipped>>
      BY DEF EpollCreate, AcceptExit, TryLock, AddListen, EpollWait, AcceptEnd,
         LogPush, ReleaseListen, Unlock, taskVars, workerVars, ghostVars
    <2> QED
      BY <2>1, <2>2, <2>3
  <1>2. t # ServerTask
    BY ServerConstants
  <1>3. inEpoll'[t] = inEpoll[t]
    BY <1>2 DEF EpollCreate, AcceptExit, TryLock, AddListen, EpollWait, AcceptEnd,
       LogPush, ReleaseListen, Unlock, taskVars, TypeOK, Items
  <1>4. \A b \in AcceptThreads : t \in interest'[b] <=> t \in interest[b]
    BY <1>2, Registers, Unregisters DEF EpollCreate, AcceptExit, TryLock, AddListen,
       EpollWait, AcceptEnd, LogPush, ReleaseListen, Unlock, epollVars
  <1>5. \A b \in AcceptThreads : t \in events'[b] => t \in events[b] \/ (b = a /\ t \in interest[b])
    <2>1. CASE EpollWait(a)
      <3>1. PICK batch \in SUBSET ready[a] : events' = [events EXCEPT ![a] = batch]
        BY <2>1 DEF EpollWait
      <3>2. ready[a] \subseteq interest[a]
        BY DEF AcceptInv, AcceptInvAt
      <3> QED
        BY <3>1, <3>2 DEF TypeOK
    <2>2. CASE UNCHANGED events
      BY <2>2
    <2> QED
      BY <2>1, <2>2 DEF EpollCreate, AcceptExit, TryLock, AddListen, AcceptEnd, LogPush,
         ReleaseListen, Unlock
  <1> QED
    BY <1>1, <1>3, <1>4, <1>5, OwnQuiet

\* An event becomes the task that the thread examines.
LEMMA OwnDispatch ==
  ASSUME TypeOK, NEW t \in Tasks, OwnAt(t), NEW a \in AcceptThreads, Dispatch(a)
  PROVE  OwnAt(t)'
  <1>1. /\ Away(a) /\ \A b \in AcceptThreads \ {a} : apc'[b] = apc[b] /\ cur'[b] = cur[b]
        /\ UNCHANGED <<life, home, inEpoll, interest, queue, wpc, wtask, mixed, skipped>>
    <2>1. \A b \in AcceptThreads \ {a} : apc'[b] = apc[b]
      BY AGoEffect DEF Dispatch
    <2>2. \A b \in AcceptThreads \ {a} : cur'[b] = cur[b]
      BY DEF Dispatch, TypeOK
    <2> QED
      BY <2>1, <2>2 DEF Dispatch, Away, taskVars, workerVars, epollVars, ghostVars
  <1>2. \A b \in AcceptThreads : events'[b] \subseteq events[b]
    <2>1. \/ UNCHANGED events
          \/ \E i : events' = [events EXCEPT ![a] = events[a] \ {i}]
      BY DEF Dispatch
    <2> QED
      BY <2>1 DEF TypeOK
  <1>3. SameWorkers(t) /\ SameQueue(t)
    BY <1>1 DEF SameWorkers, SameQueue, InQueue, Once, Serves, Raises
  <1>4. CASE ~Examines(a, t)'
    <2>1. Untouched(t)
      BY <1>1, <1>2, <1>4, AGoEffect DEF Dispatch, Untouched, Away, Examines, Handles
    <2> QED
      BY <1>3, <2>1, OwnFrame
  <1>5. CASE Examines(a, t)'
    <2>1. t \in events[a] /\ t \notin events'[a]
      BY <1>5, AGoEffect, ServerConstants DEF Dispatch, Examines, TypeOK
    <2> QED
      BY <1>1, <1>2, <1>5, <2>1
      DEF OwnAt, BegunAt, FlagAt, KeptAt, SoleAt, InQueue, Once, Away, Examines, Handles,
          Serves, Raises
  <1> QED
    BY <1>4, <1>5

\* A connection that is accepted gets a task and its place in the instance, or is closed.
LEMMA OwnAcceptOne ==
  ASSUME TypeOK, NEW t \in Tasks, OwnAt(t), NEW a \in AcceptThreads, AcceptOne(a)
  PROVE  OwnAt(t)'
  <1>1. PICK x \in Backlog :
          \/ /\ life' = [life EXCEPT ![x] = "live"]
             /\ home' = [home EXCEPT ![x] = a]
             /\ inEpoll' = [inEpoll EXCEPT ![x] = TRUE]
             /\ Register(a, x)
          \/ /\ life' = [life EXCEPT ![x] = "freed"]
             /\ UNCHANGED <<home, inEpoll, epollVars>>
    BY DEF AcceptOne
  <1>2. UNCHANGED <<apc, cur, events, queue, wpc, wtask, mixed, skipped>>
    BY DEF AcceptOne, acceptVars, workerVars, ghostVars
  <1>3. x \in Tasks /\ life[x] = "backlog"
    BY DEF Backlog
  <1>4. CASE t # x
    <2>1. /\ life'[t] = life[t] /\ home'[t] = home[t] /\ inEpoll'[t] = inEpoll[t]
      BY <1>1, <1>3, <1>4 DEF TypeOK, Items
    <2>2. \A b \in AcceptThreads : t \in interest'[b] <=> t \in interest[b]
      BY <1>1, <1>4, Registers DEF epollVars
    <2>3. Untouched(t) /\ SameWorkers(t) /\ SameQueue(t)
      BY <1>2, <2>1, <2>2
      DEF Untouched, SameWorkers, SameQueue, InQueue, Once, Examines, Handles, Serves, Raises
    <2> QED
      BY <2>3, OwnFrame
  <1>5. CASE t = x
    <2>1. \/ /\ life'[t] = "live" /\ home'[t] = a
             /\ \A b \in AcceptThreads : t \in interest'[b] <=> t \in interest[b] \/ b = a
          \/ life'[t] = "freed" /\ UNCHANGED interest
      BY <1>1, <1>3, <1>5, Registers DEF TypeOK, epollVars
    <2>2. /\ \A b \in AcceptThreads : /\ t \notin interest[b] /\ t \notin events[b]
                                      /\ ~Examines(b, t) /\ ~Handles(b, t)
          /\ \A w \in Workers : ~Serves(w, t) /\ ~Raises(w, t)
          /\ ~InQueue(t) /\ t \notin skipped
      BY <1>3, <1>5 DEF OwnAt, BegunAt
    <2>3. /\ \A b \in AcceptThreads : ~Examines(b, t)' /\ ~Handles(b, t)'
          /\ \A w \in Workers : ~Serves(w, t)' /\ ~Raises(w, t)'
          /\ ~InQueue(t)'
      BY <1>2, <2>2 DEF Examines, Handles, Serves, Raises, InQueue
    <2> QED
      BY <1>2, <2>1, <2>2, <2>3 DEF OwnAt, BegunAt, FlagAt, KeptAt, SoleAt
  <1> QED
    BY <1>4, <1>5

\* The flag is cleared when the task has left the instance.
LEMMA OwnClearFlag ==
  ASSUME TypeOK, NEW t \in Tasks, OwnAt(t), NEW a \in AcceptThreads, ClearFlag(a)
  PROVE  OwnAt(t)'
  <1>1. /\ apc[a] = "clear" /\ cur[a] \in Tasks
        /\ apc'[a] = "handle" /\ \A b \in AcceptThreads \ {a} : apc'[b] = apc[b]
        /\ UNCHANGED <<life, home, interest, events, cur, queue, wpc, wtask, mixed, skipped>>
    BY AGoEffect DEF ClearFlag, TypeOK, ControlOK, workerVars, epollVars, ghostVars
  <1>2. inEpoll'[t] = (IF t = cur[a] THEN FALSE ELSE inEpoll[t])
    BY <1>1 DEF ClearFlag, TypeOK, Items
  <1>3. CASE t # cur[a]
    <2>1. Untouched(t) /\ SameWorkers(t) /\ SameQueue(t)
      BY <1>1, <1>2, <1>3
      DEF Untouched, SameWorkers, SameQueue, InQueue, Once, Examines, Handles, Serves, Raises
    <2> QED
      BY <2>1, OwnFrame
  <1>4. CASE t = cur[a]
    BY <1>1, <1>2, <1>4
    DEF OwnAt, BegunAt, FlagAt, KeptAt, SoleAt, InQueue, Once, Examines, Handles, Serves,
        Raises
  <1> QED
    BY <1>3, <1>4

\* What Append does to the elements.
LEMMA AppendEffect ==
  ASSUME NEW S, NEW q \in Seq(S), NEW x \in S, NEW r, r = Append(q, x)
  PROVE  /\ DOMAIN q = 1 .. Len(q) /\ DOMAIN r = 1 .. Len(q) + 1 /\ Len(q) \in Nat
         /\ \A n \in 1 .. Len(q) : r[n] = q[n]
         /\ r[Len(q) + 1] = x
  OBVIOUS

\* From the accept thread to the queue: the task is in one of them, before and after.
LEMMA OwnHandleEvent ==
  ASSUME TypeOK, NEW t \in Tasks, OwnAt(t), NEW a \in AcceptThreads, HandleEvent(a)
  PROVE  OwnAt(t)'
  <1>1. /\ apc[a] = "handle" /\ cur[a] \in Tasks /\ life[cur[a]] = "live"
        /\ \A b \in AcceptThreads \ {a} : apc'[b] = apc[b]
        /\ UNCHANGED <<life, home, inEpoll, interest, events, cur, wtask, mixed, skipped>>
    BY AGoEffect DEF HandleEvent, TypeOK, ControlOK, taskVars, epollVars, ghostVars
  <1>2. SameWorkers(t)
    <2>1. \/ UNCHANGED wpc
          \/ \E w \in Workers : wpc[w] = "wait" /\ wpc' = [wpc EXCEPT ![w] = "take"]
      BY DEF HandleEvent, SignalWorker
    <2>2. CASE UNCHANGED wpc
      BY <1>1, <2>2 DEF SameWorkers, Serves, Raises
    <2>3. ASSUME NEW w \in Workers, wpc[w] = "wait", wpc' = [wpc EXCEPT ![w] = "take"]
          PROVE  SameWorkers(t)
      BY <1>1, <2>3 DEF SameWorkers, Serves, Raises, TypeOK
    <2> QED
      BY <2>1, <2>2, <2>3
  <1>3. CASE AGo(a, "drop") /\ UNCHANGED queue
    <2>1. Untouched(t) /\ SameQueue(t)
      BY <1>1, <1>3, AGoEffect DEF Untouched, SameQueue, InQueue, Once, Examines, Handles
    <2> QED
      BY <1>2, <2>1, OwnFrame
  <1>4. CASE AGo(a, "logPush") /\ queue' = Append(queue, cur[a])
    <2>1. /\ DOMAIN queue = 1 .. Len(queue) /\ DOMAIN queue' = 1 .. Len(queue) + 1
          /\ Len(queue) \in Nat
          /\ \A n \in 1 .. Len(queue) : queue'[n] = queue[n]
          /\ queue'[Len(queue) + 1] = cur[a]
      BY <1>1, <1>4, AppendEffect DEF TypeOK
    <2>2. apc'[a] = "logPush"
      BY <1>4, AGoEffect
    <2>3. CASE t # cur[a]
      <3>1. SameQueue(t)
        BY <2>1, <2>3 DEF SameQueue, InQueue, Once
      <3>2. Untouched(t)
        BY <1>1, <2>2, <2>3 DEF Untouched, Examines, Handles
      <3> QED
        BY <1>2, <3>1, <3>2, OwnFrame
    <2>4. CASE t = cur[a]
      <3>1. InQueue(t)' /\ (~InQueue(t) => Once(t)')
        BY <2>1, <2>4 DEF InQueue, Once
      <3>2. /\ Handles(a, t) /\ home[t] = a
            /\ \A b \in AcceptThreads : ~Handles(b, t)'
            /\ \A b \in AcceptThreads : Examines(b, t)' => Examines(b, t)
        BY <1>1, <2>2, <2>4 DEF OwnAt, BegunAt, Examines, Handles
      <3>3. BegunAt(t)'
        BY <1>1, <1>2, <2>4, <3>1, <3>2 DEF OwnAt, BegunAt, SameWorkers
      <3>4. FlagAt(t)'
        BY <1>1, <1>2, <2>4, <3>2 DEF OwnAt, BegunAt, FlagAt, SameWorkers
      <3>5. KeptAt(t)'
        BY <3>1 DEF KeptAt
      <3>6. SoleAt(t)'
        BY <1>1, <1>2, <2>4, <3>1, <3>2 DEF OwnAt, BegunAt, SoleAt, SameWorkers
      <3> QED
        BY <3>3, <3>4, <3>5, <3>6 DEF OwnAt
    <2> QED
      BY <2>3, <2>4
  <1> QED
    BY <1>3, <1>4 DEF HandleEvent

\* A hang-up: the accept thread deletes the task that it alone refers to.
LEMMA OwnDropTask ==
  ASSUME TypeOK, NEW t \in Tasks, OwnAt(t), NEW a \in AcceptThreads, DropTask(a)
  PROVE  OwnAt(t)'
  <1>1. /\ apc[a] = "drop" /\ cur[a] \in Tasks /\ life[cur[a]] = "live"
        /\ apc'[a] = "dispatch" /\ \A b \in AcceptThreads \ {a} : apc'[b] = apc[b]
        /\ UNCHANGED <<home, inEpoll, events, cur, queue, wpc, wtask, mixed, skipped>>
    BY AGoEffect DEF DropTask, TypeOK, ControlOK, workerVars, ghostVars
  <1>2. life'[t] = IF t = cur[a] THEN "freed" ELSE life[t]
    BY <1>1 DEF DropTask, DeleteTask, TypeOK
  <1>3. \A b \in AcceptThreads :
          t \in interest'[b] <=> t \in interest[b] /\ ~(b = home[cur[a]] /\ t = cur[a])
    BY Unregisters DEF DropTask, DeleteTask
  <1>4. SameWorkers(t) /\ SameQueue(t)
    BY <1>1 DEF SameWorkers, SameQueue, InQueue, Once, Serves, Raises
  <1>5. CASE t # cur[a]
    <2>1. Untouched(t)
      BY <1>1, <1>2, <1>3, <1>5 DEF Untouched, Examines, Handles
    <2> QED
      BY <1>4, <2>1, OwnFrame
  <1>6. CASE t = cur[a]
    BY <1>1, <1>2, <1>3, <1>6
    DEF OwnAt, BegunAt, FlagAt, KeptAt, SoleAt, InQueue, Once, Examines, Handles, Serves,
        Raises
  <1> QED
    BY <1>5, <1>6

\* Nothing that a place is made of changes.
LEMMA OwnStill ==
  ASSUME TypeOK, NEW t \in Tasks, OwnAt(t),
         UNCHANGED <<acceptVars, interest, queue, workerVars, taskVars, mixed, skipped>>
  PROVE  OwnAt(t)'
  <1>1. Untouched(t) /\ SameWorkers(t) /\ SameQueue(t)
    BY DEF Untouched, SameWorkers, SameQueue, InQueue, Once, Examines, Handles, Serves,
       Raises, acceptVars, workerVars, taskVars
  <1> QED
    BY <1>1, OwnFrame

\* A client connects: nothing refers to the task before it is accepted.
LEMMA OwnConnect ==
  ASSUME TypeOK, NEW t \in Tasks, OwnAt(t), NEW u \in Tasks, Connect(u)
  PROVE  OwnAt(t)'
  <1>1. /\ life[u] = "none"
        /\ UNCHANGED <<acceptVars, interest, queue, workerVars, inEpoll, home, mixed, skipped>>
    BY DEF Connect, ghostVars
  <1>2. life'[t] = IF t = u THEN "backlog" ELSE life[t]
    BY DEF Connect, TypeOK
  <1>3. CASE t # u
    <2>1. Untouched(t) /\ SameWorkers(t) /\ SameQueue(t)
      BY <1>1, <1>2, <1>3
      DEF Untouched, SameWorkers, SameQueue, InQueue, Once, Examines, Handles, Serves,
          Raises, acceptVars, workerVars
    <2> QED
      BY <2>1, OwnFrame
  <1>4. CASE t = u
    BY <1>1, <1>2, <1>4
    DEF OwnAt, BegunAt, FlagAt, KeptAt, SoleAt, InQueue, Once, Examines, Handles, Serves,
        Raises, acceptVars, workerVars
  <1> QED
    BY <1>3, <1>4

\* What Tail and Head do to the elements.
LEMMA TailEffect ==
  ASSUME NEW S, NEW q \in Seq(S), q # <<>>, NEW r, r = Tail(q)
  PROVE  /\ DOMAIN q = 1 .. Len(q) /\ Len(q) \in Nat \ {0} /\ DOMAIN r = 1 .. Len(q) - 1
         /\ \A n \in 1 .. Len(q) - 1 : r[n] = q[n + 1]
         /\ Head(q) = q[1] /\ q[1] \in S /\ q[Len(q)] \in S
  OBVIOUS

\* A worker takes the last task and removes the first.
LEMMA OwnTakeTask ==
  ASSUME TypeOK, NEW t \in Tasks, OwnAt(t), NEW w \in Workers, TakeTask(w)
  PROVE  OwnAt(t)'
  <1> DEFINE x == queue[Len(queue)]
  <1>1. /\ DOMAIN queue = 1 .. Len(queue) /\ Len(queue) \in Nat \ {0}
        /\ DOMAIN queue' = 1 .. Len(queue) - 1
        /\ \A n \in 1 .. Len(queue) - 1 : queue'[n] = queue[n + 1]
        /\ Head(queue) = queue[1] /\ queue[1] \in Tasks /\ x \in Tasks
    BY TailEffect DEF TakeTask, TypeOK
  <1>2. /\ UNCHANGED <<life, home, inEpoll, interest, events, apc, cur>>
        /\ mixed' = IF Len(queue) > 1 THEN mixed \cup {x} ELSE mixed
        /\ skipped' = IF Len(queue) > 1 THEN skipped \cup {queue[1]} ELSE skipped
    BY <1>1 DEF TakeTask, taskVars, epollVars, acceptVars
  <1>3. /\ wpc[w] = "take" /\ wpc'[w] = "process" /\ wtask'[w] = x
        /\ \A v \in Workers : v # w => wpc'[v] = wpc[v] /\ wtask'[v] = wtask[v]
    BY WGoEffect DEF TakeTask, TypeOK
  <1>4. \A v \in Workers : /\ Raises(v, t)' <=> Raises(v, t)
                           /\ Serves(v, t)' <=> Serves(v, t) \/ (v = w /\ t = x)
    BY <1>3 DEF Serves, Raises
  <1>5. InQueue(t)' => InQueue(t)
    BY <1>1 DEF InQueue
  <1>6. Once(t) => Once(t)'
    BY <1>1 DEF Once
  <1>7. InQueue(t) => InQueue(t)' \/ t = queue[1]
    <2>1. ASSUME NEW n \in DOMAIN queue, queue[n] = t, t # queue[1]
          PROVE  InQueue(t)'
      <3>1. n - 1 \in 1 .. Len(queue) - 1 /\ queue'[n - 1] = t
        BY <1>1, <2>1
      <3> QED
        BY <1>1, <3>1 DEF InQueue
    <2> QED
      BY <2>1 DEF InQueue
  <1>8. CASE t # x /\ (Len(queue) = 1 \/ t # queue[1])
    <2>1. SameWorkers(t)
      BY <1>4, <1>8 DEF SameWorkers
    <2>2. SameQueue(t)
      BY <1>5, <1>6, <1>7, <1>8 DEF SameQueue
    <2>3. Untouched(t)
      BY <1>2, <1>8 DEF Untouched, Examines, Handles
    <2> QED
      BY <2>1, <2>2, <2>3, OwnFrame
  <1>9. CASE t = x
    <2>1. InQueue(t)
      BY <1>1, <1>9 DEF InQueue
    <2>2. Len(queue) = 1 => ~InQueue(t)'
      BY <1>1 DEF InQueue
    <2>3. BegunAt(t)'
      BY <1>2, <1>4, <1>5, <2>1 DEF OwnAt, BegunAt, Examines, Handles
    <2>4. FlagAt(t)'
      BY <1>2, <1>4 DEF OwnAt, FlagAt
    <2>5. KeptAt(t)'
      BY <1>4, <1>9 DEF KeptAt
    <2>6. SoleAt(t)'
      <3>1. CASE Len(queue) = 1
        BY <1>2, <1>4, <1>9, <2>1, <2>2, <3>1 DEF OwnAt, SoleAt, Examines, Handles
      <3>2. CASE Len(queue) > 1
        BY <1>2, <1>9, <3>2 DEF SoleAt
      <3> QED
        BY <1>1, <3>1, <3>2
    <2> QED
      BY <2>3, <2>4, <2>5, <2>6 DEF OwnAt
  <1>10. CASE t # x /\ Len(queue) > 1 /\ t = queue[1]
    <2>1. InQueue(t) /\ t \in skipped' /\ (t \in mixed' <=> t \in mixed)
      BY <1>1, <1>2, <1>10 DEF InQueue
    <2>2. Once(t) => ~InQueue(t)'
      BY <1>1, <1>10 DEF Once, InQueue
    <2>3. BegunAt(t)'
      BY <1>2, <1>4, <1>5, <1>10, <2>1 DEF OwnAt, BegunAt, Examines, Handles
    <2>4. FlagAt(t)'
      BY <1>2, <1>4 DEF OwnAt, FlagAt
    <2>5. KeptAt(t)'
      BY <2>1 DEF KeptAt
    <2>6. SoleAt(t)'
      BY <1>2, <1>4, <1>10, <2>1, <2>2 DEF OwnAt, SoleAt, Examines, Handles
    <2> QED
      BY <2>3, <2>4, <2>5, <2>6 DEF OwnAt
  <1> QED
    BY <1>1, <1>8, <1>9, <1>10

\* A worker waits, ends, or reads: its task stays its own.
LEMMA OwnWorkerQuiet ==
  ASSUME TypeOK, NEW t \in Tasks, OwnAt(t), NEW w \in Workers,
         WorkerWait(w) \/ WorkerExit(w) \/ ProcessRead(w)
  PROVE  OwnAt(t)'
  <1>1. UNCHANGED <<acceptVars, interest, queue, wtask, taskVars, mixed, skipped>>
    BY DEF WorkerWait, WorkerExit, ProcessRead, epollVars, ghostVars
  <1>2. SameWorkers(t)
    <2>1. \/ UNCHANGED wpc
          \/ /\ wpc[w] \in {"take", "wait"}
             /\ WGo(w, "wait") \/ WGo(w, "take") \/ WGo(w, "exit")
          \/ wpc[w] = "process" /\ (WGo(w, "readd") \/ WGo(w, "delete"))
      BY DEF WorkerWait, WorkerExit, ProcessRead, Drained
    <2> QED
      BY <1>1, <2>1, WGoEffect DEF SameWorkers, Serves, Raises
  <1>3. Untouched(t) /\ SameQueue(t)
    BY <1>1 DEF Untouched, SameQueue, InQueue, Once, Examines, Handles, acceptVars, taskVars
  <1> QED
    BY <1>2, <1>3, OwnFrame

\* From the worker back to the instance, before the flag says so (tcp_server.cpp:300-345).
LEMMA OwnReAdd ==
  ASSUME TypeOK, NEW t \in Tasks, OwnAt(t), NEW w \in Workers, ReAdd(w)
  PROVE  OwnAt(t)'
  <1>1. /\ wpc[w] = "readd" /\ wtask[w] \in Tasks /\ life[wtask[w]] = "live"
        /\ UNCHANGED <<acceptVars, queue, wtask, taskVars, mixed, skipped>>
    BY DEF ReAdd, TypeOK, ControlOK
  <1>2. /\ Untouched(t) <=> \A b \in AcceptThreads : t \in interest'[b] <=> t \in interest[b]
        /\ SameQueue(t)
    BY <1>1 DEF Untouched, SameQueue, InQueue, Once, Examines, Handles, acceptVars, taskVars
  <1>3. CASE t # wtask[w]
    <2>1. \/ UNCHANGED interest
          \/ Register(home[wtask[w]], wtask[w])
      BY DEF ReAdd, epollVars
    <2>2. \A b \in AcceptThreads : t \in interest'[b] <=> t \in interest[b]
      BY <1>3, <2>1, Registers
    <2>3. WGo(w, "take") \/ WGo(w, "setFlag") \/ WGo(w, "delete")
      BY DEF ReAdd
    <2>4. SameWorkers(t)
      BY <1>1, <1>3, <2>3, WGoEffect DEF SameWorkers, Serves, Raises
    <2> QED
      BY <1>2, <2>2, <2>4, OwnFrame
  <1>4. CASE t = wtask[w] /\ inEpoll[t] /\ WGo(w, "take") /\ UNCHANGED interest
    <2>1. \A v \in Workers : /\ Raises(v, t)' <=> Raises(v, t)
                             /\ Serves(v, t)' <=> Serves(v, t) /\ v # w
      BY <1>1, <1>4, WGoEffect DEF Serves, Raises
    <2>2. Serves(w, t) /\ life[t] = "live"
      BY <1>1, <1>4 DEF Serves
    <2>3. \E a \in AcceptThreads : t \in interest[a] \/ Handles(a, t)
      BY <1>4, <2>2 DEF OwnAt, BegunAt, FlagAt, Handles
    <2>4. t \in mixed
      BY <2>2, <2>3 DEF OwnAt, SoleAt
    <2>5. BegunAt(t)'
      BY <1>1, <1>4, <2>1
      DEF OwnAt, BegunAt, InQueue, Examines, Handles, acceptVars, taskVars
    <2>6. FlagAt(t)'
      BY <1>1, <1>4, <2>1 DEF OwnAt, FlagAt, acceptVars, taskVars
    <2>7. KeptAt(t)'
      BY <1>1, <1>4, <2>3 DEF KeptAt, Handles, acceptVars
    <2>8. SoleAt(t)'
      BY <1>1, <2>4 DEF SoleAt
    <2> QED
      BY <2>5, <2>6, <2>7, <2>8 DEF OwnAt
  <1>5. CASE /\ t = wtask[w] /\ ~inEpoll[t] /\ t \notin interest[home[t]]
             /\ Register(home[t], t) /\ WGo(w, "setFlag")
    <2>1. \A v \in Workers : /\ Raises(v, t)' <=> Raises(v, t) \/ v = w
                             /\ Serves(v, t)' <=> Serves(v, t) /\ v # w
      BY <1>1, <1>5, WGoEffect DEF Serves, Raises
    <2>2. Serves(w, t) /\ life[t] = "live" /\ home[t] \in AcceptThreads
      BY <1>1, <1>5 DEF OwnAt, BegunAt, Serves
    <2>3. \A b \in AcceptThreads :
            t \in interest'[b] <=> t \in interest[b] \/ b = home[t]
      BY <1>5, <2>2, Registers
    <2>4. \A v \in Workers : ~Raises(v, t)
      BY <1>5, <2>2 DEF OwnAt, FlagAt
    <2>5. BegunAt(t)'
      BY <1>1, <2>1, <2>2, <2>3
      DEF OwnAt, BegunAt, InQueue, Examines, Handles, acceptVars, taskVars
    <2>6. FlagAt(t)'
      BY <1>1, <1>5, <2>1, <2>2, <2>3, <2>4 DEF FlagAt, taskVars
    <2>7. KeptAt(t)'
      BY <2>2, <2>3 DEF KeptAt
    <2>8. SoleAt(t)'
      BY <1>1, <2>1, <2>2, <2>3, <2>4
      DEF OwnAt, BegunAt, SoleAt, InQueue, Examines, Handles, acceptVars, taskVars
    <2> QED
      BY <2>5, <2>6, <2>7, <2>8 DEF OwnAt
  <1>6. CASE t = wtask[w] /\ WGo(w, "delete") /\ UNCHANGED interest
    <2>1. SameWorkers(t)
      BY <1>1, <1>6, WGoEffect DEF SameWorkers, Serves, Raises
    <2> QED
      BY <1>2, <1>6, <2>1, OwnFrame
  <1> QED
    BY <1>3, <1>4, <1>5, <1>6 DEF ReAdd, epollVars

\* The flag is set after the task is back in the instance: another thread may have it.
LEMMA OwnSetFlag ==
  ASSUME TypeOK, NEW t \in Tasks, OwnAt(t), NEW w \in Workers, SetFlag(w)
  PROVE  OwnAt(t)'
  <1>1. /\ wpc[w] = "setFlag" /\ wtask[w] \in Tasks
        /\ wpc'[w] = "take" /\ \A v \in Workers : v # w => wpc'[v] = wpc[v]
        /\ UNCHANGED <<acceptVars, interest, queue, wtask, life, home, mixed, skipped>>
    BY WGoEffect DEF SetFlag, TypeOK, ControlOK, epollVars
  <1>2. inEpoll'[t] = IF t = wtask[w] /\ life[t] # "freed" THEN TRUE ELSE inEpoll[t]
    BY DEF SetFlag, TypeOK, Items
  <1>3. \A v \in Workers : /\ Raises(v, t)' <=> Raises(v, t) /\ ~(v = w /\ t = wtask[w])
                           /\ Serves(v, t)' <=> Serves(v, t)
    BY <1>1 DEF Serves, Raises
  <1>4. CASE t # wtask[w]
    <2>1. Untouched(t) /\ SameWorkers(t) /\ SameQueue(t)
      BY <1>1, <1>2, <1>3, <1>4
      DEF Untouched, SameWorkers, SameQueue, InQueue, Once, Examines, Handles, acceptVars
    <2> QED
      BY <2>1, OwnFrame
  <1>5. CASE t = wtask[w]
    <2>1. Raises(w, t)
      BY <1>1, <1>5 DEF Raises
    <2>2. BegunAt(t)'
      BY <1>1, <1>3 DEF OwnAt, BegunAt, InQueue, Examines, Handles, acceptVars
    <2>3. FlagAt(t)'
      BY <1>1, <1>2, <1>3, <1>5, <2>1 DEF OwnAt, FlagAt
    <2>4. KeptAt(t)'
      BY <1>1, <1>3 DEF OwnAt, KeptAt, InQueue, Handles, acceptVars
    <2>5. SoleAt(t)'
      BY <1>1, <1>3 DEF OwnAt, SoleAt, InQueue, Once, Examines, Handles, acceptVars
    <2> QED
      BY <2>2, <2>3, <2>4, <2>5 DEF OwnAt
  <1> QED
    BY <1>4, <1>5

\* A worker deletes the task that it alone refers to.
LEMMA OwnWorkerDelete ==
  ASSUME TypeOK, NEW t \in Tasks, OwnAt(t), NEW w \in Workers, WorkerDelete(w)
  PROVE  OwnAt(t)'
  <1>1. /\ wpc[w] = "delete" /\ wtask[w] \in Tasks /\ life[wtask[w]] = "live"
        /\ wpc'[w] = "take" /\ \A v \in Workers : v # w => wpc'[v] = wpc[v]
        /\ UNCHANGED <<acceptVars, queue, wtask, inEpoll, home, mixed, skipped>>
    BY WGoEffect DEF WorkerDelete, TypeOK, ControlOK, ghostVars
  <1>2. life'[t] = IF t = wtask[w] THEN "freed" ELSE life[t]
    BY <1>1 DEF WorkerDelete, DeleteTask, TypeOK
  <1>3. \A b \in AcceptThreads :
          t \in interest'[b] <=> t \in interest[b] /\ ~(b = home[wtask[w]] /\ t = wtask[w])
    BY Unregisters DEF WorkerDelete, DeleteTask
  <1>4. \A v \in Workers : /\ Raises(v, t)' <=> Raises(v, t)
                           /\ Serves(v, t)' <=> Serves(v, t) /\ ~(v = w /\ t = wtask[w])
    BY <1>1 DEF Serves, Raises
  <1>5. CASE t # wtask[w]
    <2>1. Untouched(t) /\ SameWorkers(t) /\ SameQueue(t)
      BY <1>1, <1>2, <1>3, <1>4, <1>5
      DEF Untouched, SameWorkers, SameQueue, InQueue, Once, Examines, Handles, acceptVars
    <2> QED
      BY <2>1, OwnFrame
  <1>6. CASE t = wtask[w]
    <2>1. Serves(w, t)
      BY <1>1, <1>6 DEF Serves
    <2>2. BegunAt(t)'
      BY <1>1, <1>2, <1>3, <1>4, <1>6
      DEF OwnAt, BegunAt, InQueue, Examines, Handles, acceptVars
    <2>3. FlagAt(t)' /\ KeptAt(t)'
      BY <1>2, <1>6 DEF FlagAt, KeptAt
    <2>4. SoleAt(t)'
      BY <1>1, <1>2, <1>3, <1>4, <1>6, <2>1
      DEF OwnAt, BegunAt, FlagAt, SoleAt, InQueue, Once, Examines, Handles, acceptVars
    <2> QED
      BY <2>2, <2>3, <2>4 DEF OwnAt
  <1> QED
    BY <1>5, <1>6

\* The places of a task, step by step.
LEMMA OwnNext ==
  ASSUME TypeOK, AcceptInv, \A t \in Tasks : OwnAt(t), [Next]_vars
  PROVE  \A t \in Tasks : OwnAt(t)'
  <1> SUFFICES ASSUME NEW t \in Tasks PROVE OwnAt(t)'
    OBVIOUS
  <1>1. ASSUME NEW u \in Tasks, Connect(u) \/ PeerStep(u) PROVE OwnAt(t)'
    <2>1. CASE PeerStep(u)
      BY <2>1, OwnStill DEF PeerStep, ghostVars
    <2> QED
      BY <1>1, <2>1, OwnConnect
  <1>2. ASSUME NEW a \in AcceptThreads, AcceptThreadLoop(a) PROVE OwnAt(t)'
    <2>1. CASE AcceptUseAfterFree(a)
      BY <2>1, OwnStill DEF AcceptUseAfterFree, epollVars
    <2> QED
      BY <1>2, <2>1, OwnRounds, OwnDispatch, OwnAcceptOne, OwnDeleEvent, OwnClearFlag,
         OwnHandleEvent, OwnDropTask DEF AcceptThreadLoop
  <1>3. ASSUME NEW w \in Workers, ServerLoop(w) PROVE OwnAt(t)'
    <2>1. CASE WorkerUseAfterFree(w)
      BY <2>1, OwnStill DEF WorkerUseAfterFree, epollVars
    <2> QED
      BY <1>3, <2>1, OwnTakeTask, OwnWorkerQuiet, OwnReAdd, OwnSetFlag, OwnWorkerDelete
      DEF ServerLoop
  <1>4. CASE UNCHANGED vars
    BY <1>4, OwnStill DEF vars, epollVars, ghostVars
  <1> QED
    BY <1>1, <1>2, <1>3, <1>4 DEF Next, Halted

\* At the start nothing refers to any task.
LEMMA OwnInit == Init => \A t \in Tasks : OwnAt(t)
  BY DEF Init, OwnAt, BegunAt, FlagAt, KeptAt, SoleAt, InQueue, Examines, Handles, Serves,
     Raises

\* A task that was shared stays so, and faults are not undone.
LEMMA HistoryGrows ==
  ASSUME TypeOK, [Next]_vars
  PROVE  mixed \subseteq mixed' /\ (faults' = 0 => faults = 0)
  <1>1. mixed \subseteq mixed'
    BY DEF Next, Connect, PeerStep, AcceptThreadLoop, EpollCreate, AcceptExit, TryLock,
       AddListen, EpollWait, Dispatch, AcceptOne, AcceptEnd, DeleEvent, ClearFlag,
       HandleEvent, DropTask, LogPush, ReleaseListen, Unlock, AcceptUseAfterFree,
       ServerLoop, TakeTask, WorkerWait, WorkerExit, ProcessRead, ReAdd, SetFlag,
       WorkerDelete, WorkerUseAfterFree, Halted, vars, ghostVars
  <1>2. UNCHANGED faults \/ Fail
    BY DEF Next, Connect, PeerStep, AcceptThreadLoop, EpollCreate, AcceptExit, TryLock,
       AddListen, EpollWait, Dispatch, AcceptOne, AcceptEnd, DeleEvent, ClearFlag,
       HandleEvent, DropTask, LogPush, ReleaseListen, Unlock, AcceptUseAfterFree,
       ServerLoop, TakeTask, WorkerWait, WorkerExit, ProcessRead, ReAdd, SetFlag,
       WorkerDelete, WorkerUseAfterFree, Halted, vars
  <1> QED
    BY <1>1, <1>2, ServerConstants DEF Fail, TypeOK

\* Deleted tasks: only a task that was shared is used again.
LEMMA FreshNext ==
  ASSUME TypeOK, NEW t \in Tasks, OwnAt(t), FreshAt(t), [Next]_vars
  PROVE  FreshAt(t)'
  <1> SUFFICES ASSUME t \notin mixed'
               PROVE  <<"use", t>> \notin stale' /\ <<"flag", t>> \notin stale'
    BY DEF FreshAt
  <1>1. t \notin mixed
    BY HistoryGrows
  <1>2. <<"use", t>> \notin stale /\ <<"flag", t>> \notin stale
    BY <1>1 DEF FreshAt
  <1>3. \A a \in AcceptThreads : Examines(a, t) \/ Handles(a, t) => life[t] = "live"
    BY <1>1 DEF OwnAt, BegunAt, SoleAt
  <1>4. \A w \in Workers : Raises(w, t) \/ Serves(w, t) => life[t] = "live"
    BY <1>1 DEF OwnAt, SoleAt
  <1>5. ASSUME NEW a \in AcceptThreads, AcceptUseAfterFree(a)
        PROVE  cur[a] # t /\ stale' = stale \cup {<<"use", cur[a]>>}
    BY <1>3, <1>5 DEF AcceptUseAfterFree, Examines, Handles
  <1>6. ASSUME NEW w \in Workers, WorkerUseAfterFree(w)
        PROVE  wtask[w] # t /\ stale' = stale \cup {<<"use", wtask[w]>>}
    BY <1>4, <1>6 DEF WorkerUseAfterFree, Serves
  <1>7. ASSUME NEW w \in Workers, SetFlag(w)
        PROVE  \/ UNCHANGED stale
               \/ wtask[w] # t /\ stale' = stale \cup {<<"flag", wtask[w]>>}
    BY <1>4, <1>7 DEF SetFlag, Raises
  <1>8. ASSUME NEW a \in AcceptThreads, LogPush(a)
        PROVE  UNCHANGED stale \/ stale' = stale \cup {<<"log", cur[a]>>}
    BY <1>8 DEF LogPush
  <1>9. \/ UNCHANGED stale
        \/ \E a \in AcceptThreads : AcceptUseAfterFree(a) \/ LogPush(a)
        \/ \E w \in Workers : WorkerUseAfterFree(w) \/ SetFlag(w)
    BY DEF Next, Connect, PeerStep, AcceptThreadLoop, EpollCreate, AcceptExit, TryLock,
       AddListen, EpollWait, Dispatch, AcceptOne, AcceptEnd, DeleEvent, ClearFlag,
       HandleEvent, DropTask, ReleaseListen, Unlock,
       ServerLoop, TakeTask, WorkerWait, WorkerExit, ProcessRead, ReAdd,
       WorkerDelete, Halted, vars, ghostVars
  <1> QED
    BY <1>2, <1>5, <1>6, <1>7, <1>8, <1>9

\* What was unread when the client left was read before the task is deleted.
LEMMA DrainedNext ==
  ASSUME TypeOK, NEW t \in Tasks, OwnAt(t), DrainedAt(t), [Next]_vars
  PROVE  DrainedAt(t)'
  <1> SUFFICES ASSUME t \notin mixed', faults' = 0, NEW v \in Workers,
                      wpc'[v] = "delete", wtask'[v] = t
               PROVE  peer'[t] # "open" /\ unread'[t] = 0
    BY DEF DrainedAt
  <1>1. t \notin mixed /\ faults = 0 /\ ~Fail
    BY HistoryGrows, ServerConstants DEF Fail
  <1>2. wpc[v] = "delete" /\ wtask[v] = t => peer[t] # "open" /\ unread[t] = 0
    BY <1>1 DEF DrainedAt
  <1>3. CASE UNCHANGED <<wpc, wtask, unread, peer>>
    BY <1>2, <1>3
  <1>4. ASSUME NEW u \in Tasks, PeerStep(u) PROVE peer'[t] # "open" /\ unread'[t] = 0
    <2>1. peer[t] # "open" /\ unread[t] = 0 /\ peer[u] = "open"
      BY <1>2, <1>4 DEF PeerStep, workerVars
    <2> QED
      BY <1>4, <2>1 DEF PeerStep, TypeOK
  <1>5. ASSUME NEW a \in AcceptThreads, HandleEvent(a)
        PROVE  peer'[t] # "open" /\ unread'[t] = 0
    <2>1. /\ UNCHANGED <<wtask, unread, peer>>
          /\ \/ UNCHANGED wpc
             \/ \E w \in Workers : wpc' = [wpc EXCEPT ![w] = "take"]
      BY <1>5 DEF HandleEvent, SignalWorker, socketVars
    <2>2. wpc[v] = "delete"
      BY <2>1 DEF TypeOK
    <2> QED
      BY <1>2, <2>1, <2>2
  <1>6. ASSUME NEW w \in Workers, ServerLoop(w) PROVE peer'[t] # "open" /\ unread'[t] = 0
    <2>1. CASE ProcessRead(w)
      <3>1. /\ wpc[w] = "process" /\ wtask[w] \in Tasks
            /\ UNCHANGED <<wtask, peer>>
            /\ unread[wtask[w]] \in Nat
        BY <2>1 DEF ProcessRead, TypeOK, ControlOK
      <3>2. CASE HasData(wtask[w])
        <4>1. UNCHANGED wpc /\ unread' = [unread EXCEPT ![wtask[w]] = @ - 1]
          BY <1>1, <2>1, <3>2 DEF ProcessRead
        <4>2. peer[t] # "open" /\ unread[t] = 0
          BY <1>2, <3>1, <4>1
        <4>3. wtask[w] # t
          BY <3>2, <4>2 DEF HasData
        <4> QED
          BY <3>1, <4>1, <4>2, <4>3 DEF TypeOK
      <3>3. CASE ~HasData(wtask[w])
        <4>1. /\ UNCHANGED unread /\ unread[wtask[w]] = 0
              /\ WGo(w, "readd") \/ (WGo(w, "delete") /\ peer[wtask[w]] # "open")
          BY <2>1, <3>1, <3>3 DEF ProcessRead, HasData, Drained
        <4>2. CASE v = w
          BY <3>1, <4>1, <4>2, WGoEffect
        <4>3. CASE v # w
          BY <1>2, <3>1, <4>1, <4>3, WGoEffect
        <4> QED
          BY <4>2, <4>3
      <3> QED
        BY <3>2, <3>3
    <2>2. CASE ReAdd(w)
      <3>1. /\ UNCHANGED <<wtask, unread, peer>> /\ wtask[w] \in Tasks
            /\ wpc[w] = "readd" /\ life[wtask[w]] = "live"
        BY <2>2 DEF ReAdd, TypeOK, ControlOK, socketVars
      <3>2. \/ WGo(w, "take") \/ WGo(w, "setFlag")
            \/ WGo(w, "delete") /\ wtask[w] \in interest[home[wtask[w]]]
        BY <1>1, <2>2 DEF ReAdd
      <3>3. CASE v = w
        <4>1. wtask[w] = t /\ t \in interest[home[t]]
          BY <3>1, <3>2, <3>3, WGoEffect
        <4>2. Serves(w, t) /\ home[t] \in AcceptThreads
          BY <3>1, <4>1 DEF Serves, OwnAt, BegunAt
        <4> QED
          BY <1>1, <4>1, <4>2 DEF OwnAt, SoleAt
      <3>4. CASE v # w
        BY <1>2, <3>1, <3>2, <3>4, WGoEffect
      <3> QED
        BY <3>3, <3>4
    <2>3. CASE TakeTask(w) \/ WorkerWait(w) \/ WorkerExit(w) \/ SetFlag(w) \/ WorkerDelete(w)
      <3>1. /\ UNCHANGED <<unread, peer>>
            /\ \E label \in {"take", "wait", "process", "exit"} : WGo(w, label)
            /\ wtask' = wtask \/ \E x : wtask' = [wtask EXCEPT ![w] = x]
        BY <2>3 DEF TakeTask, WorkerWait, WorkerExit, SetFlag, WorkerDelete, socketVars
      <3>2. v # w /\ wpc'[v] = wpc[v]
        BY <3>1, WGoEffect
      <3>3. wtask'[v] = wtask[v]
        BY <3>1, <3>2 DEF TypeOK
      <3> QED
        BY <1>2, <3>1, <3>2, <3>3
    <2>4. CASE WorkerUseAfterFree(w)
      BY <1>3, <2>4 DEF WorkerUseAfterFree, workerVars, socketVars
    <2> QED
      BY <1>6, <2>1, <2>2, <2>3, <2>4 DEF ServerLoop
  <1>7. \/ UNCHANGED <<wpc, wtask, unread, peer>>
        \/ \E u \in Tasks : PeerStep(u)
        \/ \E a \in AcceptThreads : HandleEvent(a)
        \/ \E w \in Workers : ServerLoop(w)
    BY DEF Next, Connect, AcceptThreadLoop, EpollCreate, AcceptExit, TryLock,
       AddListen, EpollWait, Dispatch, AcceptOne, AcceptEnd, DeleEvent, ClearFlag,
       DropTask, LogPush, ReleaseListen, Unlock, AcceptUseAfterFree, Halted, vars,
       workerVars, socketVars
  <1> QED
    BY <1>3, <1>4, <1>5, <1>6, <1>7

\* The inductive invariant about the owners of a task: who refers to it, what
\* if_in_epoll_ says of it, and what makes its deletion the last access to it
\* (tcp_server.cpp:98-131, 188-266, 300-345).
THEOREM OwnInvCorrect == Spec => []OwnInv
  <1>1. Init => OwnInv
    BY OwnInit DEF OwnInv, Init, FreshAt, DrainedAt
  <1>2. TypeOK /\ AcceptInv /\ OwnInv /\ [Next]_vars => OwnInv'
    BY OwnNext, FreshNext, DrainedNext DEF OwnInv
  <1> QED
    BY <1>1, <1>2, TypeCorrect, AcceptInvCorrect, PTL DEF Spec

\* A task that no two threads have shared is watched by an epoll instance, queued once
\* or in the hands of one thread, from accept to delete, unless it was popped from the
\* queue untaken (tcp_server.cpp:188-266, 300-345).
THEOREM SinglePlaceCorrect == Spec => []SinglePlace
  <1>1. TypeOK /\ OwnInv => SinglePlace
    <2> SUFFICES ASSUME TypeOK, OwnInv, NEW t \in Tasks, t \notin mixed
                 PROVE  Places(t) = IF life[t] = "live" /\ t \notin skipped THEN 1 ELSE 0
      BY DEF SinglePlace
    <2>1. KeptAt(t) /\ SoleAt(t) /\ BegunAt(t)
      BY DEF OwnInv, OwnAt
    <2>2. CASE ~(life[t] = "live" /\ t \notin skipped)
      <3>1. ~Registered(t)
        BY <2>1, <2>2 DEF BegunAt, SoleAt, Registered
      <3>2. Holders(t) = {}
        BY <2>1, <2>2 DEF SoleAt, InQueue, Holders
      <3> QED
        BY <2>2, <3>1, <3>2, FS_EmptySet DEF Places
    <2>3. CASE life[t] = "live" /\ t \notin skipped /\ Registered(t)
      <3>1. Holders(t) = {}
        BY <2>1, <2>3 DEF BegunAt, SoleAt, InQueue, Holders, Registered
      <3> QED
        BY <2>3, <3>1, FS_EmptySet DEF Places
    <2>4. CASE life[t] = "live" /\ t \notin skipped /\ ~Registered(t)
      <3>1. \E x : Holders(t) = {x}
        <4>1. CASE \E a \in AcceptThreads : Handles(a, t)
          <5>1. PICK a \in AcceptThreads : Handles(a, t)
            BY <4>1
          <5>2. Holders(t) = {<<"accept", a>>}
            BY <2>1, <5>1 DEF BegunAt, SoleAt, InQueue, Holders
          <5> QED
            BY <5>2
        <4>2. CASE \E w \in Workers : Serves(w, t)
          <5>1. PICK w \in Workers : Serves(w, t)
            BY <4>2
          <5>2. Holders(t) = {<<"worker", w>>}
            BY <2>1, <5>1 DEF SoleAt, InQueue, Holders
          <5> QED
            BY <5>2
        <4>3. CASE InQueue(t)
          <5>1. PICK n \in DOMAIN queue : queue[n] = t
            BY <4>3 DEF InQueue
          <5>2. Holders(t) = {<<"queue", n>>}
            BY <2>1, <4>3, <5>1 DEF SoleAt, Once, Holders
          <5> QED
            BY <5>2
        <4> QED
          BY <2>1, <2>4, <4>1, <4>2, <4>3 DEF KeptAt, Registered
      <3>2. Cardinality(Holders(t)) = 1
        BY <3>1, FS_Singleton
      <3> QED
        BY <2>4, <3>2 DEF Places
    <2> QED
      BY <2>2, <2>3, <2>4
  <1> QED
    BY <1>1, TypeCorrect, OwnInvCorrect, PTL

\* No thread uses a deleted task that was never shared (tcp_server.cpp:188-266,
\* 300-345).
THEOREM NoUseAfterFreeCorrect == Spec => []NoUseAfterFree
  <1>1. OwnInv => NoUseAfterFree
    BY DEF OwnInv, FreshAt, NoUseAfterFree
  <1> QED
    BY <1>1, OwnInvCorrect, PTL

\* Even a task that two threads have shared is somewhere as long as it lives, unless
\* it was popped from the queue untaken (tcp_server.cpp:300-345).
THEOREM NoConnectionLostCorrect == Spec => []NoConnectionLost
  <1>1. OwnInv => NoConnectionLost
    <2> SUFFICES ASSUME OwnInv, NEW t \in Tasks, t \notin skipped, life[t] = "live",
                        ~Registered(t)
                 PROVE  Holders(t) # {}
      BY DEF NoConnectionLost
    <2>1. \/ \E a \in AcceptThreads : Handles(a, t)
          \/ \E w \in Workers : Serves(w, t)
          \/ \E n \in DOMAIN queue : queue[n] = t
      BY DEF OwnInv, OwnAt, KeptAt, InQueue, Registered
    <2>2. ASSUME NEW a \in AcceptThreads, Handles(a, t) PROVE <<"accept", a>> \in Holders(t)
      BY <2>2 DEF Holders
    <2>3. ASSUME NEW w \in Workers, Serves(w, t) PROVE <<"worker", w>> \in Holders(t)
      BY <2>3 DEF Holders
    <2>4. ASSUME NEW n \in DOMAIN queue, queue[n] = t PROVE <<"queue", n>> \in Holders(t)
      BY <2>4 DEF Holders
    <2> QED
      BY <2>1, <2>2, <2>3, <2>4
  <1> QED
    BY <1>1, OwnInvCorrect, PTL

\* What NoEdgeLost says of one instance and one task.
Edge(a, t) ==
  t \in interest[a] /\ Pollable(t) => t \in ready[a] \cup events[a] \/ Examines(a, t)

\* Steps after which a socket has something to report only if it had before.
LEMMA PollableBefore ==
  ASSUME TypeOK, NEW t \in Tasks, [Next]_vars, ~PeerStep(t), Pollable(t)'
  PROVE  Pollable(t)
  <1>1. t # ServerTask
    BY ServerConstants
  <1>2. UNCHANGED <<unread, peer>> => Pollable(t)
    BY <1>1 DEF Pollable
  <1>3. ASSUME NEW u \in Tasks, PeerStep(u) PROVE Pollable(t)
    <2>1. unread'[t] = unread[t] /\ peer'[t] = peer[t]
      BY <1>3 DEF PeerStep, TypeOK
    <2> QED
      BY <1>1, <2>1 DEF Pollable
  <1>4. ASSUME NEW w \in Workers, ProcessRead(w) PROVE Pollable(t)
    <2>1. /\ UNCHANGED peer
          /\ UNCHANGED unread \/ unread' = [unread EXCEPT ![wtask[w]] = @ - 1]
      BY <1>4 DEF ProcessRead
    <2>2. unread'[t] = unread[t] \/ unread'[t] = unread[t] - 1
      BY <2>1 DEF TypeOK
    <2>3. unread[t] \in Int
      BY DEF TypeOK
    <2> QED
      BY <1>1, <2>1, <2>2, <2>3 DEF Pollable
  <1>5. ASSUME NEW u \in Tasks, Connect(u) PROVE UNCHANGED <<unread, peer>>
    BY <1>5 DEF Connect, socketVars
  <1>6. ASSUME NEW w \in Workers, ServerLoop(w)
        PROVE  ProcessRead(w) \/ UNCHANGED <<unread, peer>>
    BY <1>6 DEF ServerLoop, TakeTask, WorkerWait, WorkerExit, ReAdd, SetFlag, WorkerDelete,
       WorkerUseAfterFree, socketVars
  <1>7. ASSUME NEW b \in AcceptThreads, AcceptThreadLoop(b) PROVE UNCHANGED <<unread, peer>>
    <2>1. CASE EpollCreate(b) \/ AcceptExit(b) \/ TryLock(b) \/ AddListen(b) \/ EpollWait(b)
               \/ Dispatch(b) \/ AcceptEnd(b) \/ ReleaseListen(b) \/ Unlock(b)
      BY <2>1 DEF EpollCreate, AcceptExit, TryLock, AddListen, EpollWait, Dispatch,
         AcceptEnd, ReleaseListen, Unlock, socketVars
    <2>2. CASE AcceptOne(b) \/ DeleEvent(b) \/ ClearFlag(b) \/ HandleEvent(b)
               \/ DropTask(b) \/ LogPush(b) \/ AcceptUseAfterFree(b)
      BY <2>2 DEF AcceptOne, DeleEvent, ClearFlag, HandleEvent, DropTask, LogPush,
         AcceptUseAfterFree, socketVars
    <2> QED
      BY <1>7, <2>1, <2>2 DEF AcceptThreadLoop
  <1>8. \/ UNCHANGED <<unread, peer>>
        \/ \E u \in Tasks : PeerStep(u)
        \/ \E w \in Workers : ProcessRead(w)
    BY <1>5, <1>6, <1>7 DEF Next, Halted, vars, socketVars
  <1> QED
    BY <1>2, <1>3, <1>4, <1>8

\* Registering what is pollable raises its edge, and other tasks keep theirs.
LEMMA RegisterEdge ==
  ASSUME TypeOK, NEW a \in AcceptThreads, NEW t \in Tasks, Edge(a, t), NEW h, NEW i,
         Register(h, i), UNCHANGED <<events, apc, cur>>, Pollable(t)' => Pollable(t)
  PROVE  Edge(a, t)'
  <1> SUFFICES ASSUME t \in interest'[a], Pollable(t)
               PROVE  t \in ready'[a] \cup events[a] \/ Examines(a, t)
    BY DEF Edge, Examines
  <1>1. t \in interest[a] => t \in ready[a] \cup events[a] \/ Examines(a, t)
    BY DEF Edge
  <1>2. ready[a] \subseteq ready'[a]
    BY DEF Register, TypeOK
  <1>3. CASE t \in interest[a]
    BY <1>1, <1>2, <1>3
  <1>4. CASE t \notin interest[a]
    <2>1. h = a /\ t = i
      BY <1>4, Registers
    <2> QED
      BY <2>1 DEF Register, TypeOK
  <1> QED
    BY <1>3, <1>4

\* Unregistering a task does not concern the others.
LEMMA UnregisterEdge ==
  ASSUME TypeOK, NEW a \in AcceptThreads, NEW t \in Tasks, Edge(a, t), NEW h, NEW i,
         Unregister(h, i), UNCHANGED <<events, cur>>,
         Pollable(t)' => Pollable(t),
         Examines(a, t) => Examines(a, t)' \/ (h = a /\ i = t)
  PROVE  Edge(a, t)'
  <1>1. t \in interest'[a] <=> t \in interest[a] /\ ~(a = h /\ t = i)
    BY Unregisters
  <1>2. t \in ready[a] /\ ~(a = h /\ t = i) => t \in ready'[a]
    BY DEF Unregister, TypeOK
  <1> QED
    BY <1>1, <1>2 DEF Edge

\* The edge of one instance and one task, step by step.
LEMMA EdgeNext ==
  ASSUME TypeOK, AcceptInv, NEW a \in AcceptThreads, NEW t \in Tasks, t \notin mixed',
         t \notin mixed => Edge(a, t), [Next]_vars
  PROVE  Edge(a, t)'
  <1>1. t \notin mixed /\ Edge(a, t) /\ t # ServerTask
    BY HistoryGrows, ServerConstants
  <1>2. ~PeerStep(t) => (Pollable(t)' => Pollable(t))
    BY PollableBefore
  <1>3. CASE /\ UNCHANGED <<interest, ready, events, cur>> /\ ~PeerStep(t)
             /\ apc[a] = "dele" => apc'[a] = "dele"
    BY <1>1, <1>2, <1>3 DEF Edge, Examines
  <1>4. ASSUME NEW u \in Tasks, Connect(u) \/ PeerStep(u) PROVE Edge(a, t)'
    <2>1. /\ UNCHANGED <<interest, events, cur, apc>>
          /\ \E i : Wake(i) /\ (t # i => ~PeerStep(t))
      BY <1>4, <1>1 DEF Connect, PeerStep, acceptVars
    <2>2. PICK i : Wake(i) /\ (t # i => ~PeerStep(t))
      BY <2>1
    <2>3. ready'[a] = IF i \in interest[a] THEN ready[a] \cup {i} ELSE ready[a]
      BY <2>2 DEF Wake
    <2> QED
      BY <1>1, <1>2, <2>1, <2>2, <2>3 DEF Edge, Examines
  <1>5. ASSUME NEW b \in AcceptThreads, AcceptThreadLoop(b), ~PeerStep(t) PROVE Edge(a, t)'
    <2>1. CASE AddListen(b)
      <3>1. /\ UNCHANGED <<interest, ready>> \/ Register(b, ServerTask)
            /\ UNCHANGED <<events, cur>> /\ apc[b] # "dele"
        BY <2>1 DEF AddListen, epollVars
      <3>2. \A c \in AcceptThreads : apc'[c] = "dele" <=> apc[c] = "dele"
        BY <2>1, <3>1, AGoEffect DEF AddListen
      <3>3. CASE Register(b, ServerTask)
        <4>1. t \in interest'[a] => t \in interest[a]
          BY <1>1, <3>3, Registers
        <4>2. ready[a] \subseteq ready'[a]
          BY <3>3 DEF Register, TypeOK
        <4> QED
          BY <1>1, <1>2, <1>5, <3>1, <3>2, <4>1, <4>2 DEF Edge, Examines
      <3> QED
        BY <1>3, <1>5, <3>1, <3>2, <3>3
    <2>2. CASE EpollWait(b)
      <3>1. PICK batch \in SUBSET {i \in ready[b] : Pollable(i)} :
              /\ events' = [events EXCEPT ![b] = batch]
              /\ ready' = [ready EXCEPT ![b] = {i \in ready[b] : Pollable(i)} \ batch]
        BY <2>2 DEF EpollWait
      <3>2. /\ apc[b] = "wait" /\ events[b] = {} /\ UNCHANGED <<interest, cur>>
            /\ \A c \in AcceptThreads : c # b => apc'[c] = apc[c]
        BY <2>2, AGoEffect DEF EpollWait, AcceptInv, AcceptInvAt
      <3>3. CASE a = b
        BY <1>1, <1>2, <1>5, <3>1, <3>2, <3>3 DEF Edge, Examines, TypeOK
      <3>4. CASE a # b
        BY <1>1, <1>2, <1>5, <3>1, <3>2, <3>4 DEF Edge, Examines, TypeOK
      <3> QED
        BY <3>3, <3>4
    <2>3. CASE Dispatch(b)
      <3>1. /\ apc[b] = "dispatch" /\ UNCHANGED <<interest, ready>>
            /\ \A c \in AcceptThreads : c # b => apc'[c] = apc[c] /\ cur'[c] = cur[c]
        BY <2>3, AGoEffect DEF Dispatch, TypeOK, epollVars
      <3>2. \A c \in AcceptThreads : c # b => events'[c] = events[c]
        BY <2>3 DEF Dispatch, TypeOK
      <3>3. t \in events[b] => t \in events'[b] \/ Examines(b, t)'
        BY <1>1, <2>3, AGoEffect DEF Dispatch, TypeOK, Examines
      <3> QED
        BY <1>1, <1>2, <1>5, <3>1, <3>2, <3>3 DEF Edge, Examines
    <2>4. CASE AcceptOne(b)
      <3>1. /\ UNCHANGED <<events, cur, apc>>
            /\ UNCHANGED <<interest, ready>> \/ \E i : Register(b, i)
        BY <2>4 DEF AcceptOne, epollVars, acceptVars
      <3> QED
        BY <1>1, <1>2, <1>3, <1>5, <3>1, RegisterEdge
    <2>5. CASE DeleEvent(b)
      <3>1. /\ UNCHANGED <<events, cur>> /\ apc[b] = "dele"
            /\ \A c \in AcceptThreads : c # b => apc'[c] = apc[c]
        BY <2>5, AGoEffect DEF DeleEvent
      <3>2. CASE Unregister(b, cur[b])
        <4>1. Examines(a, t) => Examines(a, t)' \/ (b = a /\ cur[b] = t)
          BY <3>1 DEF Examines
        <4> QED
          BY <1>1, <1>2, <1>5, <3>1, <3>2, <4>1, UnregisterEdge
      <3>3. CASE /\ UNCHANGED <<interest, ready>>
                 /\ cur[b] \in interest[b] => cur[b] \in mixed'
        BY <1>1, <1>2, <1>5, <3>1, <3>3 DEF Edge, Examines
      <3> QED
        BY <2>5, <3>2, <3>3 DEF DeleEvent, epollVars
    <2>6. CASE DropTask(b)
      <3>1. /\ UNCHANGED <<events, cur>> /\ \E h, i : Unregister(h, i)
            /\ apc[b] = "drop" /\ \A c \in AcceptThreads : c # b => apc'[c] = apc[c]
        BY <2>6, AGoEffect DEF DropTask, DeleteTask
      <3>2. Examines(a, t) => Examines(a, t)'
        BY <3>1 DEF Examines
      <3> QED
        BY <1>1, <1>2, <1>5, <3>1, <3>2, UnregisterEdge
    <2>7. CASE ReleaseListen(b)
      <3>1. /\ UNCHANGED <<events, cur>>
            /\ UNCHANGED <<interest, ready>> \/ Unregister(b, ServerTask)
            /\ apc[b] = "release" /\ \A c \in AcceptThreads : c # b => apc'[c] = apc[c]
        BY <2>7, AGoEffect DEF ReleaseListen, epollVars
      <3>2. Examines(a, t) => Examines(a, t)'
        BY <3>1 DEF Examines
      <3>3. CASE Unregister(b, ServerTask)
        BY <1>1, <1>2, <1>5, <3>1, <3>2, <3>3, UnregisterEdge
      <3>4. CASE UNCHANGED <<interest, ready>>
        BY <1>1, <1>2, <1>5, <3>1, <3>2, <3>4 DEF Edge
      <3> QED
        BY <3>1, <3>3, <3>4
    <2>8. CASE \/ EpollCreate(b) \/ AcceptExit(b) \/ TryLock(b) \/ AcceptEnd(b)
               \/ ClearFlag(b) \/ HandleEvent(b) \/ LogPush(b) \/ Unlock(b)
      <3>1. /\ UNCHANGED <<interest, ready, events, cur>> /\ apc[b] # "dele"
            /\ \E label : AGo(b, label)
        BY <2>8 DEF EpollCreate, AcceptExit, TryLock, AcceptEnd, ClearFlag, HandleEvent,
           LogPush, Unlock, epollVars
      <3>2. apc[a] = "dele" => apc'[a] = "dele"
        BY <3>1, AGoEffect
      <3> QED
        BY <1>3, <1>5, <3>1, <3>2
    <2>9. CASE AcceptUseAfterFree(b)
      BY <1>3, <1>5, <2>9 DEF AcceptUseAfterFree, epollVars, acceptVars
    <2> QED
      BY <1>5, <2>1, <2>2, <2>3, <2>4, <2>5, <2>6, <2>7, <2>8, <2>9 DEF AcceptThreadLoop
  <1>6. ASSUME NEW w \in Workers, ServerLoop(w), ~PeerStep(t) PROVE Edge(a, t)'
    <2>1. /\ UNCHANGED <<events, cur, apc>>
          /\ \/ UNCHANGED <<interest, ready>>
             \/ \E h, i : Register(h, i)
             \/ \E h, i : Unregister(h, i)
      BY <1>6 DEF ServerLoop, TakeTask, WorkerWait, WorkerExit, ProcessRead, ReAdd, SetFlag,
         WorkerDelete, WorkerUseAfterFree, DeleteTask, epollVars, acceptVars
    <2>2. Examines(a, t) => Examines(a, t)'
      BY <2>1 DEF Examines
    <2> QED
      BY <1>1, <1>2, <1>3, <1>6, <2>1, <2>2, RegisterEdge, UnregisterEdge
  <1>7. CASE UNCHANGED vars
    <2>1. UNCHANGED <<unread, peer, interest, ready, events, cur, apc>>
      BY <1>7 DEF vars, epollVars, acceptVars, socketVars
    <2> QED
      BY <1>1, <2>1 DEF Edge, Examines, Pollable
  <1> QED
    BY <1>4, <1>5, <1>6, <1>7 DEF Next, Halted

\* A socket that an epoll instance watches, and that has something to report, has its
\* edge or its event, although edges are given once (tcp_server.cpp:98-131, 180-240).
THEOREM NoEdgeLostCorrect == Spec => []NoEdgeLost
  <1>1. NoEdgeLost <=> \A a \in AcceptThreads, t \in Tasks : t \notin mixed => Edge(a, t)
    BY DEF NoEdgeLost, Edge, Examines
  <1>2. Init => NoEdgeLost
    BY DEF Init, NoEdgeLost
  <1>3. TypeOK /\ AcceptInv /\ NoEdgeLost /\ [Next]_vars => NoEdgeLost'
    <2> SUFFICES ASSUME TypeOK, AcceptInv, NoEdgeLost, [Next]_vars
                 PROVE  NoEdgeLost'
      OBVIOUS
    <2>1. ASSUME NEW a \in AcceptThreads, NEW t \in Tasks, t \notin mixed'
          PROVE  Edge(a, t)'
      BY <1>1, <2>1, EdgeNext
    <2> QED
      BY <2>1 DEF NoEdgeLost, Edge, Examines
  <1> QED
    BY <1>2, <1>3, TypeCorrect, AcceptInvCorrect, PTL DEF Spec

\* A client that sends and closes is heard out: a task that was not shared is deleted
\* with something unread only after a reset, a failed call or for a full queue
\* (tcp_server.cpp:245-266, process_task.cpp:252-416).
THEOREM ClosedIsHeardOutCorrect == Spec => ClosedIsHeardOut
  <1> DEFINE HeardOut ==
        \A t \in Tasks \ mixed :
          life[t] = "live" /\ life'[t] = "freed" /\ unread[t] > 0 /\ faults = 0
            => \/ peer[t] = "reset"
               \/ \E a \in AcceptThreads : apc[a] = "drop" /\ cur[a] = t
  <1>1. TypeOK /\ OwnInv /\ [Next]_vars => HeardOut
    <2> SUFFICES ASSUME TypeOK, OwnInv, [Next]_vars, NEW t \in Tasks, t \notin mixed,
                        life[t] = "live", life'[t] = "freed", unread[t] > 0, faults = 0
                 PROVE  \E a \in AcceptThreads : apc[a] = "drop" /\ cur[a] = t
      OBVIOUS
    <2>1. life # life'
      OBVIOUS
    <2>2. ASSUME NEW u \in Tasks, Connect(u) PROVE FALSE
      BY <2>2 DEF Connect, TypeOK
    <2>3. ASSUME NEW a \in AcceptThreads, AcceptOne(a) PROVE FALSE
      BY <2>3 DEF AcceptOne, Backlog, TypeOK
    <2>4. ASSUME NEW a \in AcceptThreads, DropTask(a) PROVE apc[a] = "drop" /\ cur[a] = t
      BY <2>4 DEF DropTask, DeleteTask, TypeOK
    <2>5. ASSUME NEW w \in Workers, WorkerDelete(w) PROVE FALSE
      <3>1. wpc[w] = "delete" /\ wtask[w] = t
        BY <2>5 DEF WorkerDelete, DeleteTask, TypeOK
      <3>2. unread[t] = 0
        BY <3>1 DEF OwnInv, DrainedAt
      <3> QED
        BY <3>2
    <2>6. \/ UNCHANGED life
          \/ \E u \in Tasks : Connect(u)
          \/ \E a \in AcceptThreads : AcceptOne(a) \/ DropTask(a)
          \/ \E w \in Workers : WorkerDelete(w)
      BY DEF Next, PeerStep, AcceptThreadLoop, EpollCreate, AcceptExit, TryLock,
         AddListen, EpollWait, Dispatch, AcceptEnd, DeleEvent, ClearFlag,
         HandleEvent, LogPush, ReleaseListen, Unlock, AcceptUseAfterFree,
         ServerLoop, TakeTask, WorkerWait, WorkerExit, ProcessRead, ReAdd, SetFlag,
         WorkerUseAfterFree, Halted, vars, taskVars
    <2> QED
      BY <2>1, <2>2, <2>3, <2>4, <2>5, <2>6
  <1>2. ClosedIsHeardOut <=> [][HeardOut]_vars
    BY PTL DEF ClosedIsHeardOut
  <1> QED
    BY <1>1, <1>2, TypeCorrect, OwnInvCorrect, PTL DEF Spec
=============================================================================
