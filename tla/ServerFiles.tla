---------------------------- MODULE ServerFiles ----------------------------
(***************************************************************************)
(* The log files of the server (ProcessTask::WriteToFile).                 *)
(*                                                                         *)
(* The task of each connection keeps its log file open from one message to *)
(* the next.  Connections of the same client with the same log_name share  *)
(* a path, and workers write for them side by side.  A task whose write    *)
(* brings the file to split_size_ closes it and moves what is at the path  *)
(* then, under a name that ends in the second of the move.  A file that    *)
(* was moved stays open in the other tasks.                                *)
(*                                                                         *)
(* A step is one system call, or one access to the time that localtime     *)
(* keeps for all threads.  The messages of a connection are numbered; each *)
(* is written by one write(2) or by several, and what one of them appends  *)
(* is a piece of length 1.                                                 *)
(***************************************************************************)
EXTENDS Integers, Sequences, FiniteSets

CONSTANTS
  Tasks,        \* the connections
  Paths,        \* client_ip_ and log_name, where log files are opened
  PathOf,       \* the path of each connection
  SplitSize,    \* split_size_
  IntMax,       \* the greatest value of an int
  Messages,     \* bound: messages of each connection
  MaxPieces,    \* bound: calls of write(2) for one message
  LocalTime,    \* the local time in each second: summer time ends, clocks are set
  MaxSeconds,   \* bound: seconds that pass
  MaxFaults     \* bound: fopen and mv that fail

ASSUME FilesConstants ==
  /\ PathOf \in [Tasks -> Paths]
  /\ SplitSize \in Int
  /\ IntMax \in Nat
  /\ Messages \in Nat
  /\ MaxPieces \in Nat \ {0}
  /\ LocalTime \in [0 .. MaxSeconds -> [minute : Nat, second : 0 .. 60]]
  /\ MaxSeconds \in Nat
  /\ MaxFaults \in Nat

NoFile  == 0
Seconds == 0 .. MaxSeconds

\* The fields of a struct tm; minute stands for all of them but the seconds.
Times == [minute : {LocalTime[s].minute : s \in Seconds},
          second : {LocalTime[s].second : s \in Seconds}]

VARIABLES
  pc,        \* where WriteToFile is, for each connection; or the task is deleted
  next,      \* number of the next message of each connection
  piece,     \* the pieces of that message that are written
  file,      \* file: the file a task has open
  called,    \* what time(NULL) has returned to a task
  tm,        \* the times in localtime's static tm since a task has called it
  target,    \* the time for which new_file_path was made
  current,   \* the file at each path
  archive,   \* the files that were moved from a path, by the time in their name
  content,   \* the pieces in each file, files in the order of their creation
  now,       \* the current second
  moves,     \* history: the moves so far
  faults

timeVars == <<called, tm, target>>
taskVars == <<pc, next, piece, file, timeVars>>
diskVars == <<current, archive, content>>
vars == <<taskVars, diskVars, now, moves, faults>>

Fail == faults < MaxFaults /\ faults' = faults + 1

-----------------------------------------------------------------------------

Go(t, label) == pc' = [pc EXCEPT ![t] = label]

\* Mutant of Kept: fopen(file_name, "w").
Emptied(f) == [content EXCEPT ![f] = <<>>]

\* fopen(file_name, "a") leaves what the file holds.
Kept(f) == content

\* Mutant of Drop: the message after it is dropped as well.
DropTwo(t) == next' = [next EXCEPT ![t] = @ + 2]

Drop(t) == next' = [next EXCEPT ![t] = @ + 1]

\* A message is complete.  A task without an open file opens it; when that fails
\* the message is dropped.
OpenFile(t) ==
  LET path == PathOf[t]
      new  == Len(content) + 1
  IN  /\ pc[t] = "idle"
      /\ next[t] <= Messages
      /\ \/ /\ file[t] # NoFile
            /\ Go(t, "write")
            /\ UNCHANGED <<next, file, current, content, faults>>
         \/ /\ file[t] = NoFile
            /\ current[path] # NoFile
            /\ file' = [file EXCEPT ![t] = current[path]]
            /\ content' = Kept(current[path])
            /\ Go(t, "write")
            /\ UNCHANGED <<next, current, faults>>
         \/ /\ file[t] = NoFile
            /\ current[path] = NoFile
            /\ file' = [file EXCEPT ![t] = new]
            /\ current' = [current EXCEPT ![path] = new]
            /\ content' = Append(content, <<>>)
            /\ Go(t, "write")
            /\ UNCHANGED <<next, faults>>
         \/ /\ file[t] = NoFile
            /\ Fail
            /\ Drop(t)
            /\ UNCHANGED <<pc, file, current, content>>
      /\ UNCHANGED <<piece, timeVars, archive, now, moves>>

\* One write(2) of fwrite or fflush.  A message that is longer than the buffer of the
\* FILE takes several, and other tasks may write to the file in between.
Write(t) ==
  LET n == piece[t] + 1
  IN  /\ pc[t] = "write"
      /\ \E last \in BOOLEAN :
           /\ last \/ n < MaxPieces
           /\ content' = [content EXCEPT ![file[t]] =
                  Append(@, [task |-> t, message |-> next[t], piece |-> n, last |-> last])]
           /\ IF last
              THEN /\ next' = [next EXCEPT ![t] = @ + 1]
                   /\ piece' = [piece EXCEPT ![t] = 0]
                   /\ Go(t, "tell")
              ELSE /\ piece' = [piece EXCEPT ![t] = n]
                   /\ UNCHANGED <<next, pc>>
      /\ UNCHANGED <<file, timeVars, current, archive, now, moves, faults>>

\* The long of ftell becomes an int.
ToInt(n) == ((n + IntMax + 1) % (2 * (IntMax + 1))) - (IntMax + 1)

\* Mutant of MustMove: a file may reach split_size_ and stay.
MustMoveLate(len) == ToInt(len) > SplitSize

MustMove(len) == ToInt(len) >= SplitSize

\* What ftell returns for a file that is appended to: the end of the file, or of the
\* task's own last write.  It depends on the library.
Position(t, len) ==
  LET f == file[t]
  IN  /\ len \in 1 .. Len(content[f])
      /\ \/ len = Len(content[f])
         \/ /\ content[f][len].task = t
            /\ \A i \in len + 1 .. Len(content[f]) : content[f][i].task # t

\* ftell, and fclose if the file is full.
Tell(t) ==
  /\ pc[t] = "tell"
  /\ \E len \in DOMAIN content[file[t]] :
       /\ Position(t, len)
       /\ IF MustMove(len)
          THEN Go(t, "time") /\ file' = [file EXCEPT ![t] = NoFile]
          ELSE Go(t, "idle") /\ UNCHANGED file
  /\ UNCHANGED <<next, piece, timeVars, diskVars, now, moves, faults>>

\* GetCurrentTimeString for new_file_path: the second,
ReadClock(t) ==
  /\ pc[t] = "time"
  /\ called' = [called EXCEPT ![t] = now]
  /\ Go(t, "convert")
  /\ UNCHANGED <<next, piece, file, tm, target, diskVars, now, moves, faults>>

\* its local time, in a struct tm that all threads share,
Convert(t) ==
  /\ pc[t] = "convert"
  /\ tm' = [u \in Tasks |-> CASE u = t            -> {LocalTime[called[t]]}
                             [] pc[u] = "format"  -> tm[u] \cup {LocalTime[called[t]]}
                             [] OTHER             -> tm[u]]
  /\ called' = [called EXCEPT ![t] = 0]
  /\ Go(t, "format")
  /\ UNCHANGED <<next, piece, file, target, diskVars, now, moves, faults>>

\* and its text.  Each field is read by itself, and may be that of another task's call
\* by now.
Format(t) ==
  /\ pc[t] = "format"
  /\ \E a, b \in tm[t] :
       target' = [target EXCEPT ![t] = [minute |-> a.minute, second |-> b.second]]
  /\ tm' = [tm EXCEPT ![t] = {}]
  /\ Go(t, "move")
  /\ UNCHANGED <<next, piece, file, called, diskVars, now, moves, faults>>

\* Mutants of TimeString: a format that begins with the seconds, and one without
\* them.
TimeStringReversed(time) == 100 * time.second + time.minute
TimeStringMinutes(time)  == time.minute

\* What strftime prints has as many digits for every time, so texts compare as the
\* numbers do that they stand for.
TimeString(time) == 100 * time.minute + time.second

Names == {TimeString(time) : time \in Times}

\* mv takes what is at the path at this moment, over anything that has the new
\* name already.  When it fails, nobody learns of it.
Move(t) ==
  LET path == PathOf[t]
      f    == current[path]
  IN  /\ pc[t] = "move"
      /\ Go(t, "idle")
      /\ \/ /\ f # NoFile
            /\ current' = [current EXCEPT ![path] = NoFile]
            /\ archive' = [archive EXCEPT ![path][TimeString(target[t])] = f]
            /\ moves' = Append(moves, [path |-> path, time |-> target[t],
                                       at |-> now, file |-> f])
            /\ UNCHANGED faults
         \/ /\ IF f = NoFile THEN UNCHANGED faults ELSE Fail
            /\ UNCHANGED <<current, archive, moves>>
      /\ target' = [target EXCEPT ![t] = LocalTime[0]]
      /\ UNCHANGED <<next, piece, file, called, tm, content, now>>

\* The destructor of the task closes its file.
Delete(t) ==
  /\ pc[t] = "idle"
  /\ Go(t, "deleted")
  /\ file' = [file EXCEPT ![t] = NoFile]
  /\ UNCHANGED <<next, piece, timeVars, diskVars, now, moves, faults>>

Tick ==
  /\ now < MaxSeconds
  /\ now' = now + 1
  /\ UNCHANGED <<taskVars, diskVars, moves, faults>>

-----------------------------------------------------------------------------

Init ==
  /\ pc = [t \in Tasks |-> "idle"]
  /\ next = [t \in Tasks |-> 1]
  /\ piece = [t \in Tasks |-> 0]
  /\ file = [t \in Tasks |-> NoFile]
  /\ called = [t \in Tasks |-> 0]
  /\ tm = [t \in Tasks |-> {}]
  /\ target = [t \in Tasks |-> LocalTime[0]]
  /\ current = [p \in Paths |-> NoFile]
  /\ archive = [p \in Paths |-> [n \in Names |-> NoFile]]
  /\ content = <<>>
  /\ now = 0
  /\ moves = <<>>
  /\ faults = 0

WriteToFile(t) ==
  OpenFile(t) \/ Write(t) \/ Tell(t) \/ ReadClock(t) \/ Convert(t) \/ Format(t) \/ Move(t)

Done == (\A t \in Tasks : pc[t] = "deleted") /\ UNCHANGED vars

Next == Tick \/ Done \/ \E t \in Tasks : WriteToFile(t) \/ Delete(t)

Spec == Init /\ [][Next]_vars

-----------------------------------------------------------------------------
(* What the files keep true.                                               *)

Files == 1 .. Len(content)

Pieces == [task : Tasks, message : 1 .. Messages, piece : 1 .. MaxPieces, last : BOOLEAN]

TypeOK ==
  /\ pc \in [Tasks -> {"idle", "write", "tell", "time", "convert", "format", "move",
                       "deleted"}]
  /\ next \in [Tasks -> 1 .. Messages + 1]
  /\ piece \in [Tasks -> 0 .. MaxPieces - 1]
  /\ file \in [Tasks -> Files \cup {NoFile}]
  /\ called \in [Tasks -> Seconds]
  /\ tm \in [Tasks -> SUBSET Times]
  /\ target \in [Tasks -> Times]
  /\ current \in [Paths -> Files \cup {NoFile}]
  /\ archive \in [Paths -> [Names -> Files \cup {NoFile}]]
  /\ content \in Seq(Seq(Pieces))
  /\ now \in Seconds
  /\ moves \in Seq([path : Paths, time : Times, at : Seconds, file : Files])
  /\ faults \in 0 .. MaxFaults

Named(f) ==
  \E p \in Paths : current[p] = f \/ \E n \in Names : archive[p][n] = f

\* A file keeps a name, so that what was written to it can be found, unless two
\* moves of the same path were given the same time: two in one second, two in the hour
\* that the clock repeats, or two tasks that were in localtime together.
FoundUnlessSameTime ==
  \A f \in Files :
    \/ Named(f)
    \/ \E i, j \in DOMAIN moves :
         /\ i < j
         /\ moves[i].file = f
         /\ moves[j].path = moves[i].path
         /\ moves[j].time = moves[i].time

\* A task has the file at a path open and has not come to its ftell, or is about to
\* move what is there.
Busy(p) ==
  \E t \in Tasks :
    \/ file[t] = current[p] /\ pc[t] \in {"write", "tell"}
    \/ PathOf[t] = p /\ pc[t] \in {"time", "convert", "format", "move"}

\* A file whose length, as an int, has reached split_size_ does not stay at its path,
\* whichever task has filled it, unless a mv has failed.
MovedAsSeen ==
  \A p \in Paths :
    /\ current[p] # NoFile
    /\ content[current[p]] # <<>>
    /\ ToInt(Len(content[current[p]])) >= SplitSize
    => Busy(p) \/ faults > 0

\* f has a name that sorts before that of g; what is at the path comes last.
NamedBefore(f, g) ==
  \E p \in Paths : \E n \in Names :
    /\ archive[p][n] = f
    /\ current[p] = g \/ \E m \in Names : n < m /\ archive[p][m] = g

Earlier(a, b) == a.minute < b.minute \/ (a.minute = b.minute /\ a.second < b.second)

\* Local time has gone forward with every second so far.
ClockForward == \A r, s \in 0 .. now : r < s => Earlier(LocalTime[r], LocalTime[s])

\* Each mv has run in the second that is in its name.
MovesTimely == \A i \in DOMAIN moves : moves[i].time = LocalTime[moves[i].at]

\* The names give the order of a connection's messages: a later message is not in
\* a file with an earlier name, as long as local time goes forward and each mv runs in
\* the second of its name.
SortedByName ==
  ClockForward /\ MovesTimely =>
    \A f, g \in Files :
      NamedBefore(f, g) =>
        \A i \in DOMAIN content[f], j \in DOMAIN content[g] :
          content[f][i].task = content[g][j].task
            => content[f][i].message < content[g][j].message

\* A message is not torn: its pieces are in one file and in order, also when another
\* task moves the file away between them.  What may lie between them is of other
\* connections.
PiecesTogether ==
  \A f \in Files : \A i \in DOMAIN content[f] :
    content[f][i].piece > 1 =>
      \E h \in 1 .. i - 1 :
        /\ content[f][h] = [content[f][i] EXCEPT !.piece = @ - 1, !.last = FALSE]
        /\ \A j \in h + 1 .. i - 1 : content[f][j].task # content[f][i].task

\* Where the messages of a connection are complete: a file and a place in it.  Ahead of
\* one of them are those in older files and those further up in the same file.
Ends(t, f) == {i \in DOMAIN content[f] : content[f][i].task = t /\ content[f][i].last}
Places(t) == UNION {{f} \X Ends(t, f) : f \in Files}
Ahead(places, p) ==
  {q \in places : q[1] < p[1] \/ (q[1] = p[1] /\ q[2] < p[2])}
MessageAt(p) == content[p[1]][p[2]].message

\* The messages of a connection, as the files hold them in the order of creation: the
\* n-th has n - 1 of them ahead.
StoredFor(t) ==
  LET places == Places(t)
      Nth(n) == {q \in places : Cardinality(Ahead(places, q)) = n - 1}
  IN  [n \in 1 .. Cardinality(places) |-> CHOOSE m \in {MessageAt(p) : p \in Nth(n)} : TRUE]

\* Although connections share files and move them away from each other, each of
\* them implements the promise of LogStream: its messages come to their ends in the
\* files once, in order, or were dropped.
Stream(t) == INSTANCE LogStream
  WITH next <- next[t], stored <- StoredFor(t), open <- pc[t] # "deleted"

EachStream ==
  /\ \A t \in Tasks : Stream(t)!Init
  /\ [][\A t \in Tasks :
          \/ Stream(t)!Next
          \/ UNCHANGED <<next[t], StoredFor(t), pc[t] # "deleted">>]_vars
=============================================================================
