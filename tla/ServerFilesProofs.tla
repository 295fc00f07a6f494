-------------------------- MODULE ServerFilesProofs --------------------------
(***************************************************************************)
(* What holds of the log files of the server (ServerFiles) for any number  *)
(* of connections, paths, messages and seconds and any split size, however *)
(* the connections move their common file away from each other.            *)
(***************************************************************************)
EXTENDS ServerFiles, SequenceTheorems, FiniteSetTheorems, TLAPS

\* A task that writes has a file open, and one that moves has closed it.
ControlOK ==
  \A t \in Tasks :
    /\ pc[t] = "write" => next[t] <= Messages
    /\ pc[t] \in {"write", "tell"} => file[t] # NoFile
    /\ pc[t] \in {"time", "convert", "format", "move", "deleted"} => file[t] = NoFile
    /\ piece[t] # 0 => pc[t] = "write"

\* Path p leads to f, or has led to it.
At(p, f) == current[p] = f \/ \E s \in Names : archive[p][s] = f

\* A file belongs to one path, and only tasks of that path write to it.
OwnerInv ==
  \A f \in Files : \A p \in Paths :
    At(p, f) => /\ \A q \in Paths : At(q, f) => q = p
                /\ \A t \in Tasks : file[t] = f => PathOf[t] = p
                /\ \A i \in 1 .. Len(content[f]) : PathOf[content[f][i].task] = p

\* A file has one name only.
OneName ==
  \A p \in Paths : \A s \in Names :
    archive[p][s] # NoFile =>
      /\ archive[p][s] # current[p]
      /\ \A r \in Names : archive[p][r] = archive[p][s] => r = s

\* Task t has written to f.
Wrote(t, f) == \E i \in 1 .. Len(content[f]) : content[f][i].task = t

\* What is at a path is newer than all that was moved from there, and no task of the path
\* has seen a newer file.
NewestInv ==
  /\ \A p \in Paths : current[p] # NoFile =>
       /\ \A s \in Names : archive[p][s] <= current[p]
       /\ \A t \in Tasks : PathOf[t] = p =>
            /\ file[t] <= current[p]
            /\ \A g \in Files : g > current[p] => ~Wrote(t, g)
  /\ \A t \in Tasks : file[t] # NoFile => \A g \in Files : g > file[t] => ~Wrote(t, g)

\* Task t has written a part of its next message, and that is in f.
Begun(t, f) == pc[t] = "write" /\ file[t] = f

\* A connection's messages are in the order of the files' creation.
OrderInv ==
  \A f \in Files : \A i \in 1 .. Len(content[f]) :
    /\ \/ content[f][i].message < next[content[f][i].task]
       \/ content[f][i].message = next[content[f][i].task] /\ Begun(content[f][i].task, f)
    /\ \A g \in Files : f < g =>
         \A j \in 1 .. Len(content[g]) :
           content[f][i].task = content[g][j].task
             => content[f][i].message < content[g][j].message

\* What a task has written of a message ends with what it wrote last.
PartInv ==
  \A t \in Tasks : piece[t] # 0 =>
    \E h \in 1 .. Len(content[file[t]]) :
      /\ content[file[t]][h] = [task |-> t, message |-> next[t],
                                piece |-> piece[t], last |-> FALSE]
      /\ \A j \in h + 1 .. Len(content[file[t]]) : content[file[t]][j].task # t

\* What is under a name was moved there, and no move is of a second to come.
MoveInv ==
  /\ \A p \in Paths : \A s \in Names : archive[p][s] # NoFile =>
       \E i \in 1 .. Len(moves) :
         moves[i].path = p /\ TimeString(moves[i].time) = s /\ moves[i].file = archive[p][s]
  /\ \A i \in 1 .. Len(moves) : moves[i].at <= now

\* The names sort as the files do.
ArchiveSorted ==
  \A p \in Paths : \A r, s \in Names :
    r < s /\ archive[p][r] # NoFile /\ archive[p][s] # NoFile
      => archive[p][r] < archive[p][s]

SortedInv == ClockForward /\ MovesTimely => ArchiveSorted

\* Two moves of one path were given the same time, the first of them with f.
Overwritten(f) ==
  \E i, j \in 1 .. Len(moves) :
    /\ i < j
    /\ moves[i].file = f
    /\ moves[j].path = moves[i].path
    /\ moves[j].time = moves[i].time

FoundInv == \A f \in Files : Named(f) \/ Overwritten(f)

\* A file that has reached split_size_ and is at its path is about to be moved, or the
\* task that wrote to it last has yet to come to its ftell.
Full(f)    == Len(content[f]) > 0 /\ MustMove(Len(content[f]))
Moving(p)  == \E t \in Tasks : PathOf[t] = p /\ pc[t] \in {"time", "convert", "format", "move"}
Telling(f) ==
  \E t \in Tasks : /\ file[t] = f /\ pc[t] \in {"write", "tell"}
                   /\ content[f][Len(content[f])].task = t

MovedInv ==
  \A p \in Paths : current[p] # NoFile /\ Full(current[p])
    => Moving(p) \/ Telling(current[p]) \/ faults > 0

Inv ==
  /\ TypeOK /\ ControlOK
  /\ OwnerInv /\ OneName /\ NewestInv /\ OrderInv /\ PartInv
  /\ MoveInv /\ SortedInv /\ FoundInv /\ MovedInv

-----------------------------------------------------------------------------

\* Sequences of any set.
LEMMA ElementIn ==
  ASSUME NEW S, NEW q \in Seq(S), NEW i \in 1 .. Len(q)
  PROVE  q[i] \in S
  OBVIOUS

\* What Append adds.
LEMMA AppendEffect ==
  ASSUME NEW S, NEW q \in Seq(S), NEW x \in S
  PROVE  /\ Append(q, x) \in Seq(S)
         /\ Len(Append(q, x)) = Len(q) + 1
         /\ \A i \in 1 .. Len(q) : Append(q, x)[i] = q[i]
         /\ Append(q, x)[Len(q) + 1] = x
  OBVIOUS

\* The places of a sequence.
LEMMA DomainIs ==
  ASSUME NEW S, NEW q \in Seq(S)
  PROVE  Len(q) \in Nat /\ DOMAIN q = 1 .. Len(q)
  OBVIOUS

\* What the files hold.
LEMMA ContentIs ==
  ASSUME TypeOK
  PROVE  /\ Len(content) \in Nat
         /\ \A f \in Files :
              /\ content[f] \in Seq(Pieces)
              /\ Len(content[f]) \in Nat
              /\ DOMAIN content[f] = 1 .. Len(content[f])
              /\ \A i \in 1 .. Len(content[f]) :
                   /\ content[f][i] \in Pieces
                   /\ content[f][i].task \in Tasks
                   /\ content[f][i].message \in Int
                   /\ content[f][i].piece \in Int
  <1> DEFINE S == Seq(Pieces)
  <1>1. content \in Seq(S)
    BY DEF TypeOK, Pieces
  <1>2. Len(content) \in Nat
    BY <1>1
  <1>3. ASSUME NEW f \in Files
        PROVE  /\ content[f] \in Seq(Pieces)
               /\ Len(content[f]) \in Nat
               /\ DOMAIN content[f] = 1 .. Len(content[f])
               /\ \A i \in 1 .. Len(content[f]) :
                    /\ content[f][i] \in Pieces
                    /\ content[f][i].task \in Tasks
                    /\ content[f][i].message \in Int
                    /\ content[f][i].piece \in Int
    <2>1. content[f] \in S
      <3> HIDE DEF S
      <3> QED
        BY <1>1, ElementIn DEF Files
    <2>2. Len(content[f]) \in Nat /\ DOMAIN content[f] = 1 .. Len(content[f])
      BY <2>1, DomainIs
    <2>3. \A i \in 1 .. Len(content[f]) : content[f][i] \in Pieces
      BY <2>1, ElementIn
    <2>4. \A m \in Pieces : m.task \in Tasks /\ m.message \in Int /\ m.piece \in Int
      BY FilesConstants DEF Pieces
    <2> QED
      BY <2>1, <2>2, <2>3, <2>4
  <1> QED
    BY <1>2, <1>3

\* What a time is.
LEMMA TimesAre ==
  /\ \A s \in Seconds : LocalTime[s] \in Times
  /\ \A a, b \in Times : [minute |-> a.minute, second |-> b.second] \in Times
  /\ \A a \in Times : /\ a.minute \in Nat /\ a.second \in 0 .. 60
                      /\ a = [minute |-> a.minute, second |-> a.second]
                      /\ TimeString(a) \in Names /\ TimeString(a) \in Nat
  /\ 0 \in Seconds
  <1>1. \A s \in Seconds : /\ LocalTime[s] \in [minute : Nat, second : 0 .. 60]
                           /\ LocalTime[s].minute \in Nat /\ LocalTime[s].second \in 0 .. 60
                           /\ LocalTime[s] = [minute |-> LocalTime[s].minute,
                                              second |-> LocalTime[s].second]
    BY FilesConstants DEF Seconds
  <1>2. 0 \in Seconds
    BY FilesConstants DEF Seconds
  <1>3. \A s \in Seconds : LocalTime[s] \in Times
    BY <1>1 DEF Times
  <1>4. \A a, b \in Times : [minute |-> a.minute, second |-> b.second] \in Times
    BY DEF Times
  <1>5. ASSUME NEW a \in Times
        PROVE  /\ a.minute \in Nat /\ a.second \in 0 .. 60
               /\ a = [minute |-> a.minute, second |-> a.second]
    BY <1>1 DEF Times
  <1>6. \A a \in Times : TimeString(a) \in Names
    BY DEF Names
  <1>7. \A a \in Times : TimeString(a) \in Nat
    BY <1>5 DEF TimeString
  <1> QED
    BY <1>2, <1>3, <1>4, <1>5, <1>6, <1>7

\* The texts of different times differ, and sort as the times do.
LEMMA TimeStringOrder ==
  ASSUME NEW a \in Times, NEW b \in Times
  PROVE  /\ TimeString(a) = TimeString(b) => a = b
         /\ Earlier(a, b) => TimeString(a) < TimeString(b)
  <1>1. /\ a.minute \in Nat /\ a.second \in 0 .. 60 /\ b.minute \in Nat /\ b.second \in 0 .. 60
        /\ a = [minute |-> a.minute, second |-> a.second]
        /\ b = [minute |-> b.minute, second |-> b.second]
    BY TimesAre
  <1>2. PICK m, n \in Nat : m = a.minute /\ n = b.minute
    BY <1>1
  <1>3. PICK r, s \in 0 .. 60 : r = a.second /\ s = b.second
    BY <1>1
  <1>4. TimeString(a) = 100 * m + r /\ TimeString(b) = 100 * n + s
    BY <1>2, <1>3 DEF TimeString
  <1>5. Earlier(a, b) <=> m < n \/ (m = n /\ r < s)
    BY <1>2, <1>3 DEF Earlier
  <1>6. /\ 100 * m + r = 100 * n + s => m = n /\ r = s
        /\ m < n \/ (m = n /\ r < s) => 100 * m + r < 100 * n + s
    OBVIOUS
  <1>7. TimeString(a) = TimeString(b) => m = n /\ r = s
    BY <1>4, <1>6
  <1>8. m = n /\ r = s => a = b
    BY <1>1, <1>2, <1>3
  <1>9. Earlier(a, b) => TimeString(a) < TimeString(b)
    BY <1>4, <1>5, <1>6
  <1> QED
    BY <1>7, <1>8, <1>9

\* Numbers of files and seconds.
LEMMA Numbers ==
  ASSUME TypeOK
  PROVE  /\ Files \subseteq Int /\ Seconds \subseteq Int /\ NoFile \notin Files /\ NoFile = 0
         /\ \A f \in Files : f > 0
         /\ \A t \in Tasks : /\ file[t] \in Int /\ file[t] \in Files \cup {NoFile}
                             /\ target[t] \in Times /\ next[t] \in Int /\ PathOf[t] \in Paths
         /\ \A p \in Paths : /\ current[p] \in Int /\ current[p] \in Files \cup {NoFile}
                             /\ \A s \in Names : archive[p][s] \in Int
                                                   /\ archive[p][s] \in Files \cup {NoFile}
         /\ now \in Seconds
  BY ContentIs, FilesConstants DEF TypeOK, Files, Seconds, NoFile

\* One write(2).
Writes(t, last) ==
  /\ pc[t] = "write"
  /\ last \/ piece[t] + 1 < MaxPieces
  /\ content' = [content EXCEPT ![file[t]] =
         Append(@, [task |-> t, message |-> next[t], piece |-> piece[t] + 1, last |-> last])]
  /\ IF last
     THEN /\ next' = [next EXCEPT ![t] = @ + 1]
          /\ piece' = [piece EXCEPT ![t] = 0]
          /\ pc' = [pc EXCEPT ![t] = "tell"]
     ELSE /\ piece' = [piece EXCEPT ![t] = piece[t] + 1]
          /\ UNCHANGED <<next, pc>>
  /\ UNCHANGED <<file, timeVars, current, archive, now, moves, faults>>

\* A write is the last of its message or is not.
LEMMA WriteIs ==
  ASSUME NEW t \in Tasks, Write(t)
  PROVE  \E last \in BOOLEAN : Writes(t, last)
  BY DEF Write, Writes, Go

\* A piece is written at the end of its file.
LEMMA WriteEffect ==
  ASSUME TypeOK, ControlOK, NEW t \in Tasks, NEW last \in BOOLEAN, Writes(t, last)
  PROVE  /\ file[t] \in Files /\ next[t] \in 1 .. Messages
         /\ content' \in Seq(Seq(Pieces))
         /\ Len(content') = Len(content)
         /\ \A f \in Files : f # file[t] => content'[f] = content[f]
         /\ content'[file[t]] \in Seq(Pieces)
         /\ Len(content'[file[t]]) = Len(content[file[t]]) + 1
         /\ \A i \in 1 .. Len(content[file[t]]) : content'[file[t]][i] = content[file[t]][i]
         /\ content'[file[t]][Len(content[file[t]]) + 1] =
              [task |-> t, message |-> next[t], piece |-> piece[t] + 1, last |-> last]
  <1> DEFINE f == file[t]
             S == Seq(Pieces)
             m == [task |-> t, message |-> next[t], piece |-> piece[t] + 1, last |-> last]
             x == Append(content[f], m)
  <1>1. pc[t] = "write" /\ content' = [content EXCEPT ![f] = Append(@, m)]
    BY DEF Writes
  <1>2. f \in Files
    BY <1>1, Numbers DEF ControlOK
  <1>3. next[t] \in 1 .. Messages /\ piece[t] + 1 \in 1 .. MaxPieces
    BY <1>1, FilesConstants DEF ControlOK, TypeOK
  <1>4. m \in Pieces
    BY <1>3 DEF Pieces
  <1>5. content \in Seq(S) /\ f \in 1 .. Len(content) /\ content[f] \in Seq(Pieces)
    BY <1>2, ContentIs DEF TypeOK, Files
  <1> HIDE DEF m
  <1>6. /\ x \in S /\ Len(x) = Len(content[f]) + 1
        /\ \A i \in 1 .. Len(content[f]) : x[i] = content[f][i]
        /\ x[Len(content[f]) + 1] = m
    BY <1>4, <1>5, AppendEffect
  <1>7. content' = [content EXCEPT ![f] = x]
    BY <1>1
  <1> HIDE DEF S, x, f
  <1>8. /\ content' \in Seq(S) /\ Len(content') = Len(content)
        /\ \A g \in 1 .. Len(content) : content'[g] = IF g = f THEN x ELSE content[g]
    BY <1>5, <1>6, <1>7, ExceptSeq
  <1> QED
    BY <1>2, <1>3, <1>5, <1>6, <1>8 DEF f, S, m, Files

\* The ways in which a file is opened.
Opens(t) ==
  /\ file[t] = NoFile /\ current[PathOf[t]] # NoFile
  /\ file' = [file EXCEPT ![t] = current[PathOf[t]]]
  /\ UNCHANGED <<current, content, next>>

Creates(t) ==
  /\ file[t] = NoFile /\ current[PathOf[t]] = NoFile
  /\ file' = [file EXCEPT ![t] = Len(content) + 1]
  /\ current' = [current EXCEPT ![PathOf[t]] = Len(content) + 1]
  /\ content' = Append(content, <<>>)
  /\ UNCHANGED next

OpensNothing(t) == UNCHANGED <<file, current, content>>

\* What fopen does.
LEMMA OpenEffect ==
  ASSUME NEW t \in Tasks, OpenFile(t)
  PROVE  /\ UNCHANGED <<piece, timeVars, archive, now, moves>> /\ pc[t] = "idle"
         /\ next[t] <= Messages
         /\ \/ /\ Opens(t) \/ Creates(t) \/ (file[t] # NoFile /\ OpensNothing(t) /\ UNCHANGED next)
               /\ pc' = [pc EXCEPT ![t] = "write"]
               /\ UNCHANGED faults
            \/ /\ OpensNothing(t) /\ UNCHANGED pc /\ Fail
               /\ next' = [next EXCEPT ![t] = @ + 1]
  BY DEF OpenFile, Opens, Creates, OpensNothing, Go, Drop, Kept

\* A new file is empty.
LEMMA CreateEffect ==
  ASSUME TypeOK, NEW t \in Tasks, Creates(t)
  PROVE  /\ content' \in Seq(Seq(Pieces))
         /\ Len(content') = Len(content) + 1
         /\ \A f \in Files : content'[f] = content[f]
         /\ Len(content'[Len(content) + 1]) = 0
  <1> DEFINE S == Seq(Pieces)
             x == <<>>
  <1>1. content \in Seq(S) /\ content' = Append(content, x)
    BY DEF TypeOK, Pieces, Creates
  <1>2. x \in S /\ Len(x) = 0
    OBVIOUS
  <1> HIDE DEF S, x
  <1>3. /\ content' \in Seq(S) /\ Len(content') = Len(content) + 1
        /\ \A f \in 1 .. Len(content) : content'[f] = content[f]
        /\ content'[Len(content) + 1] = x
    BY <1>1, <1>2, AppendEffect
  <1> QED
    BY <1>2, <1>3 DEF S, Files

\* One move.
Moves(t) ==
  /\ current[PathOf[t]] # NoFile
  /\ current' = [current EXCEPT ![PathOf[t]] = NoFile]
  /\ archive' = [archive EXCEPT ![PathOf[t]] =
                   [@ EXCEPT ![TimeString(target[t])] = current[PathOf[t]]]]
  /\ moves' = Append(moves, [path |-> PathOf[t], time |-> target[t], at |-> now,
                             file |-> current[PathOf[t]]])
  /\ UNCHANGED faults

\* What mv does.
LEMMA MoveIs ==
  ASSUME NEW t \in Tasks, Move(t)
  PROVE  /\ pc[t] = "move" /\ pc' = [pc EXCEPT ![t] = "idle"]
         /\ UNCHANGED <<next, piece, file, called, tm, content, now>>
         /\ target' = [target EXCEPT ![t] = LocalTime[0]]
         /\ \/ Moves(t)
            \/ /\ UNCHANGED <<current, archive, moves>>
               /\ IF current[PathOf[t]] = NoFile THEN UNCHANGED faults ELSE Fail
  BY DEF Move, Moves, Go

\* The history of moves grows.
LEMMA MoveEffect ==
  ASSUME TypeOK, NEW t \in Tasks, Moves(t)
  PROVE  /\ moves' \in Seq([path : Paths, time : Times, at : Seconds, file : Files])
         /\ Len(moves) \in Nat /\ Len(moves') = Len(moves) + 1
         /\ DOMAIN moves = 1 .. Len(moves) /\ DOMAIN moves' = 1 .. Len(moves')
         /\ \A i \in 1 .. Len(moves) : moves'[i] = moves[i]
         /\ moves'[Len(moves) + 1].path = PathOf[t]
         /\ moves'[Len(moves) + 1].time = target[t]
         /\ moves'[Len(moves) + 1].at = now
         /\ moves'[Len(moves) + 1].file = current[PathOf[t]]
  <1> DEFINE S == [path : Paths, time : Times, at : Seconds, file : Files]
             x == [path |-> PathOf[t], time |-> target[t], at |-> now,
                   file |-> current[PathOf[t]]]
  <1>1. x \in S
    BY Numbers DEF Moves
  <1>2. moves \in Seq(S) /\ moves' = Append(moves, x)
    BY DEF TypeOK, Moves
  <1>5. x.path = PathOf[t] /\ x.time = target[t] /\ x.at = now /\ x.file = current[PathOf[t]]
    OBVIOUS
  <1> HIDE DEF S, x
  <1>3. /\ moves' \in Seq(S) /\ Len(moves') = Len(moves) + 1
        /\ \A i \in 1 .. Len(moves) : moves'[i] = moves[i]
        /\ moves'[Len(moves) + 1] = x
    BY <1>1, <1>2, AppendEffect
  <1>4. /\ Len(moves) \in Nat
        /\ DOMAIN moves = 1 .. Len(moves) /\ DOMAIN moves' = 1 .. Len(moves')
    BY <1>2, <1>3, DomainIs
  <1> QED
    BY <1>3, <1>4, <1>5 DEF S

\* The files that are there stay.
LEMMA MovesKept ==
  ASSUME NEW A, NEW B, A \subseteq B,
         moves \in Seq([path : Paths, time : Times, at : Seconds, file : A])
  PROVE  moves \in Seq([path : Paths, time : Times, at : Seconds, file : B])
  <1> DEFINE S == [path : Paths, time : Times, at : Seconds, file : A]
             T == [path : Paths, time : Times, at : Seconds, file : B]
  <1>1. S \subseteq T
    OBVIOUS
  <1> HIDE DEF S, T
  <1>2. moves \in Seq(S) => moves \in Seq(T)
    BY <1>1
  <1> QED
    BY <1>2 DEF S, T

\* No file is there at first.
LEMMA TypeInit == Init => TypeOK /\ ControlOK
  <1> SUFFICES ASSUME Init PROVE TypeOK /\ ControlOK
    OBVIOUS
  <1>1. LocalTime[0] \in Times
    BY TimesAre
  <1>2. \A p \in Paths : [n \in Names |-> NoFile] \in [Names -> Files \cup {NoFile}]
    OBVIOUS
  <1> QED
    BY <1>1, <1>2, TimesAre, FilesConstants
       DEF Init, TypeOK, ControlOK, Seconds, NoFile, Files

\* fopen.
LEMMA TypeOpen ==
  ASSUME TypeOK, ControlOK, NEW t \in Tasks, OpenFile(t)
  PROVE  TypeOK' /\ ControlOK'
  <1>0. /\ UNCHANGED <<piece, timeVars, archive, now, moves>>
        /\ pc[t] = "idle" /\ next[t] <= Messages
    BY OpenEffect
  <1>1. CASE /\ Opens(t) \/ Creates(t) \/ (file[t] # NoFile /\ OpensNothing(t) /\ UNCHANGED next)
             /\ pc' = [pc EXCEPT ![t] = "write"] /\ UNCHANGED faults
    <2>1. /\ content' \in Seq(Seq(Pieces)) /\ Files \subseteq Files'
          /\ file' \in [Tasks -> Files' \cup {NoFile}] /\ file'[t] # NoFile
          /\ \A u \in Tasks : u # t => file'[u] = file[u]
          /\ current' \in [Paths -> Files' \cup {NoFile}]
          /\ next' = next
      <3>1. CASE Opens(t)
        BY <3>1, Numbers DEF Opens, TypeOK, Files
      <3>2. CASE Creates(t)
        <4>1. /\ content' \in Seq(Seq(Pieces)) /\ Len(content') = Len(content) + 1
              /\ Len(content) \in Nat
          BY <3>2, CreateEffect, ContentIs
        <4>2. Files' = Files \cup {Len(content) + 1} /\ Len(content) + 1 # NoFile
          BY <4>1 DEF Files, NoFile
        <4> QED
          BY <3>2, <4>1, <4>2, Numbers DEF Creates, TypeOK
      <3>3. CASE file[t] # NoFile /\ OpensNothing(t) /\ UNCHANGED next
        BY <3>3 DEF OpensNothing, TypeOK, Files
      <3> QED
        BY <1>1, <3>1, <3>2, <3>3
    <2>2. moves \in Seq([path : Paths, time : Times, at : Seconds, file : Files'])
      BY <2>1, MovesKept DEF TypeOK
    <2>3. archive \in [Paths -> [Names -> Files' \cup {NoFile}]]
      BY <2>1 DEF TypeOK
    <2>4. TypeOK'
      BY <1>0, <1>1, <2>1, <2>2, <2>3 DEF TypeOK, timeVars
    <2> QED
      BY <1>0, <1>1, <2>1, <2>4 DEF ControlOK, TypeOK
  <1>2. CASE OpensNothing(t) /\ UNCHANGED pc /\ Fail /\ next' = [next EXCEPT ![t] = @ + 1]
    <2>1. next' \in [Tasks -> 1 .. Messages + 1]
      BY <1>0, <1>2, FilesConstants DEF TypeOK
    <2>2. faults' \in 0 .. MaxFaults
      BY <1>2, FilesConstants DEF Fail, TypeOK
    <2>3. TypeOK'
      BY <1>0, <1>2, <2>1, <2>2 DEF TypeOK, OpensNothing, Files, timeVars
    <2> QED
      BY <1>0, <1>2, <2>3 DEF ControlOK, OpensNothing, TypeOK
  <1> QED
    BY <1>1, <1>2, OpenEffect

\* write(2).
LEMMA TypeWrite ==
  ASSUME TypeOK, ControlOK, NEW t \in Tasks, NEW last \in BOOLEAN, Writes(t, last)
  PROVE  TypeOK' /\ ControlOK'
  <1>1. /\ UNCHANGED <<file, timeVars, current, archive, now, moves, faults>> /\ pc[t] = "write"
        /\ \/ /\ pc' = [pc EXCEPT ![t] = "tell"] /\ next' = [next EXCEPT ![t] = @ + 1]
              /\ piece' = [piece EXCEPT ![t] = 0]
           \/ /\ UNCHANGED <<next, pc>> /\ piece[t] + 1 < MaxPieces
              /\ piece' = [piece EXCEPT ![t] = piece[t] + 1]
    BY DEF Writes
  <1>2. content' \in Seq(Seq(Pieces)) /\ Files' = Files /\ next[t] \in 1 .. Messages
    BY WriteEffect DEF Files
  <1>3. next' \in [Tasks -> 1 .. Messages + 1]
    <2>1. Messages \in Nat /\ next[t] + 1 \in 1 .. Messages + 1
      BY <1>2, FilesConstants
    <2> QED
      BY <1>1, <2>1 DEF TypeOK
  <1>4. piece' \in [Tasks -> 0 .. MaxPieces - 1]
    <2>1. MaxPieces \in Nat \ {0} /\ piece \in [Tasks -> 0 .. MaxPieces - 1]
      BY FilesConstants DEF TypeOK
    <2>2. piece' = [piece EXCEPT ![t] = 0] \/
            (piece' = [piece EXCEPT ![t] = piece[t] + 1] /\ piece[t] + 1 < MaxPieces)
      BY <1>1
    <2>3. 0 \in 0 .. MaxPieces - 1
      BY <2>1
    <2>4. piece[t] + 1 < MaxPieces => piece[t] + 1 \in 0 .. MaxPieces - 1
      BY <2>1
    <2> QED
      BY <2>1, <2>2, <2>3, <2>4
  <1>5. pc' \in [Tasks -> {"idle", "write", "tell", "time", "convert", "format", "move",
                           "deleted"}]
    BY <1>1 DEF TypeOK
  <1>6. TypeOK'
    BY <1>1, <1>2, <1>3, <1>4, <1>5 DEF TypeOK, timeVars
  <1>7. ASSUME NEW u \in Tasks
        PROVE  /\ pc'[u] = "write" => next'[u] <= Messages
               /\ pc'[u] \in {"write", "tell"} => file'[u] # NoFile
               /\ pc'[u] \in {"time", "convert", "format", "move", "deleted"}
                    => file'[u] = NoFile
               /\ piece'[u] # 0 => pc'[u] = "write"
    <2>1. CASE u = t
      BY <1>1, <2>1 DEF TypeOK, ControlOK
    <2>2. CASE u # t
      BY <1>1, <2>2 DEF TypeOK, ControlOK
    <2> QED
      BY <2>1, <2>2
  <1> QED
    BY <1>6, <1>7 DEF ControlOK

\* The steps of a task from its last write to its mv, and its end: they leave the disk alone.
Between(t) == Tell(t) \/ ReadClock(t) \/ Convert(t) \/ Format(t) \/ Delete(t)

\* What they change.
LEMMA BetweenEffect ==
  ASSUME TypeOK, NEW t \in Tasks, Between(t)
  PROVE  /\ UNCHANGED <<next, piece, current, archive, content, now, moves, faults>>
         /\ \A u \in Tasks : u # t => pc'[u] = pc[u] /\ file'[u] = file[u]
         /\ \/ /\ pc[t] = "tell" /\ pc'[t] = "time" /\ file'[t] = NoFile
               /\ \E len \in DOMAIN content[file[t]] : Position(t, len) /\ MustMove(len)
            \/ /\ pc[t] = "tell" /\ pc'[t] = "idle" /\ file'[t] = file[t]
               /\ \E len \in DOMAIN content[file[t]] : Position(t, len) /\ ~MustMove(len)
            \/ /\ pc[t] \in {"time", "convert", "format"}
               /\ pc'[t] \in {"convert", "format", "move"} /\ file'[t] = file[t]
            \/ pc[t] = "idle" /\ pc'[t] = "deleted" /\ file'[t] = NoFile
         /\ file' \in [Tasks -> Files \cup {NoFile}]
         /\ pc' \in [Tasks -> {"idle", "write", "tell", "time", "convert", "format", "move",
                               "deleted"}]
  <1>1. CASE Tell(t)
    BY <1>1 DEF Tell, Go, TypeOK, diskVars
  <1>2. CASE ReadClock(t) \/ Convert(t) \/ Format(t)
    BY <1>2 DEF ReadClock, Convert, Format, Go, TypeOK, diskVars
  <1>3. CASE Delete(t)
    BY <1>3 DEF Delete, Go, TypeOK, diskVars
  <1> QED
    BY <1>1, <1>2, <1>3 DEF Between

\* The times that a task has, from the clock to the name of its file.
LEMMA TimesKept ==
  ASSUME TypeOK, NEW t \in Tasks, Between(t)
  PROVE  /\ called' \in [Tasks -> Seconds]
         /\ tm' \in [Tasks -> SUBSET Times]
         /\ target' \in [Tasks -> Times]
  <1>1. CASE Tell(t) \/ Delete(t)
    BY <1>1 DEF Tell, Delete, timeVars, TypeOK
  <1>2. CASE ReadClock(t)
    BY <1>2 DEF ReadClock, TypeOK
  <1>3. CASE Convert(t)
    <2>1. LocalTime[called[t]] \in Times /\ 0 \in Seconds
      BY TimesAre DEF TypeOK
    <2>2. tm' \in [Tasks -> SUBSET Times]
      BY <1>3, <2>1 DEF Convert, TypeOK
    <2> QED
      BY <1>3, <2>1, <2>2 DEF Convert, TypeOK
  <1>4. CASE Format(t)
    <2>1. PICK a, b \in tm[t] :
            target' = [target EXCEPT ![t] = [minute |-> a.minute, second |-> b.second]]
      BY <1>4 DEF Format
    <2>2. [minute |-> a.minute, second |-> b.second] \in Times
      BY TimesAre DEF TypeOK
    <2>3. target' \in [Tasks -> Times]
      BY <2>1, <2>2 DEF TypeOK
    <2> QED
      BY <1>4, <2>3 DEF Format, TypeOK
  <1> QED
    BY <1>1, <1>2, <1>3, <1>4 DEF Between

\* ftell, GetCurrentTimeString and the destructor.
LEMMA TypeBetween ==
  ASSUME TypeOK, ControlOK, NEW t \in Tasks, Between(t)
  PROVE  TypeOK' /\ ControlOK'
  <1>1. TypeOK'
    BY BetweenEffect, TimesKept DEF TypeOK, Files
  <1>2. ASSUME NEW u \in Tasks
        PROVE  /\ pc'[u] = "write" => next'[u] <= Messages
               /\ pc'[u] \in {"write", "tell"} => file'[u] # NoFile
               /\ pc'[u] \in {"time", "convert", "format", "move", "deleted"}
                    => file'[u] = NoFile
               /\ piece'[u] # 0 => pc'[u] = "write"
    <2>1. CASE u = t
      BY <2>1, BetweenEffect DEF ControlOK
    <2>2. CASE u # t
      BY <2>2, BetweenEffect DEF ControlOK
    <2> QED
      BY <2>1, <2>2
  <1> QED
    BY <1>1, <1>2 DEF ControlOK

\* mv.
LEMMA TypeMove ==
  ASSUME TypeOK, ControlOK, NEW t \in Tasks, Move(t)
  PROVE  TypeOK' /\ ControlOK'
  <1>1. /\ pc[t] = "move" /\ pc' = [pc EXCEPT ![t] = "idle"]
        /\ UNCHANGED <<next, piece, file, called, tm, content, now>>
        /\ target' = [target EXCEPT ![t] = LocalTime[0]]
    BY MoveIs
  <1>2. /\ current' \in [Paths -> Files \cup {NoFile}]
        /\ archive' \in [Paths -> [Names -> Files \cup {NoFile}]]
        /\ faults' \in 0 .. MaxFaults
        /\ moves' \in Seq([path : Paths, time : Times, at : Seconds, file : Files])
    <2>1. CASE Moves(t)
      <3>1. TimeString(target[t]) \in Names
        BY TimesAre, Numbers
      <3> QED
        BY <2>1, <3>1, MoveEffect, Numbers DEF Moves, TypeOK
    <2>2. CASE /\ UNCHANGED <<current, archive, moves>>
               /\ IF current[PathOf[t]] = NoFile THEN UNCHANGED faults ELSE Fail
      BY <2>2, FilesConstants DEF Fail, TypeOK
    <2> QED
      BY <2>1, <2>2, MoveIs
  <1>3. target' \in [Tasks -> Times]
    BY <1>1, TimesAre DEF TypeOK
  <1>4. TypeOK'
    BY <1>1, <1>2, <1>3 DEF TypeOK, Files
  <1> QED
    BY <1>1, <1>4 DEF TypeOK, ControlOK

\* The clock.
LEMMA TypeClock ==
  ASSUME TypeOK, ControlOK, Tick \/ UNCHANGED vars
  PROVE  TypeOK' /\ ControlOK'
  <1>1. CASE Tick
    BY <1>1, FilesConstants
       DEF Tick, TypeOK, ControlOK, taskVars, timeVars, diskVars, Files, Seconds
  <1>2. CASE UNCHANGED vars
    BY <1>2 DEF TypeOK, ControlOK, vars, taskVars, timeVars, diskVars, Files
  <1> QED
    BY <1>1, <1>2

\* A step is one of some task, of the clock, or none.
LEMMA Steps ==
  ASSUME [Next]_vars
  PROVE  \/ \E t \in Tasks : OpenFile(t) \/ Write(t) \/ Between(t) \/ Move(t)
         \/ Tick \/ UNCHANGED vars
  BY DEF Next, WriteToFile, Done, Between

\* The types hold after every step.
LEMMA TypeNext ==
  ASSUME TypeOK, ControlOK, [Next]_vars
  PROVE  TypeOK' /\ ControlOK'
  BY Steps, TypeOpen, WriteIs, TypeWrite, TypeBetween, TypeMove, TypeClock

-----------------------------------------------------------------------------

DiskInv == OwnerInv /\ OneName /\ NewestInv /\ OrderInv

\* A step that leaves the disk alone and opens no file.
Quiet ==
  /\ UNCHANGED <<current, archive, content>>
  /\ \A t \in Tasks :
       /\ file'[t] \in {file[t], NoFile}
       /\ next'[t] >= next[t]
       /\ pc[t] = "write" => pc'[t] = "write" /\ file'[t] = file[t] /\ next'[t] = next[t]

\* Such a step disturbs nothing.
LEMMA DiskQuiet ==
  ASSUME TypeOK, DiskInv, Quiet, \A t \in Tasks : next'[t] \in Int
  PROVE  DiskInv'
  <1>0. /\ Files' = Files /\ NoFile = 0 /\ \A f \in Files : f # NoFile
        /\ \A p, f : At(p, f)' <=> At(p, f)
        /\ \A t, f : Wrote(t, f)' <=> Wrote(t, f)
    BY Numbers DEF Quiet, Files, At, Wrote
  <1>1. OwnerInv'
    BY <1>0 DEF DiskInv, OwnerInv, Quiet
  <1>2. OneName'
    BY DEF DiskInv, OneName, Quiet
  <1>3. NewestInv'
    <2>1. ASSUME NEW p \in Paths, current'[p] # NoFile
          PROVE  /\ \A s \in Names : archive'[p][s] <= current'[p]
                 /\ \A t \in Tasks : PathOf[t] = p =>
                      /\ file'[t] <= current'[p]
                      /\ \A g \in Files' : g > current'[p] => ~Wrote(t, g)'
      BY <1>0, <2>1, Numbers DEF DiskInv, NewestInv, Quiet
    <2>2. \A t \in Tasks : file'[t] # NoFile => \A g \in Files' : g > file'[t] => ~Wrote(t, g)'
      BY <1>0 DEF DiskInv, NewestInv, Quiet
    <2> QED
      BY <2>1, <2>2 DEF NewestInv
  <1>4. OrderInv'
    <2> SUFFICES ASSUME NEW f \in Files, NEW i \in 1 .. Len(content[f])
                 PROVE  \/ content[f][i].message < next'[content[f][i].task]
                        \/ /\ content[f][i].message = next'[content[f][i].task]
                           /\ Begun(content[f][i].task, f)'
      BY <1>0 DEF DiskInv, OrderInv, Quiet
    <2>1. PICK u \in Tasks : u = content[f][i].task
      BY ContentIs
    <2>2. \/ content[f][i].message < next[u]
          \/ content[f][i].message = next[u] /\ Begun(u, f)
      BY <2>1 DEF DiskInv, OrderInv
    <2>3. Begun(u, f) => Begun(u, f)' /\ next'[u] = next[u]
      BY DEF Quiet, Begun
    <2> QED
      BY <2>1, <2>2, <2>3, ContentIs, Numbers DEF Quiet
  <1> QED
    BY <1>1, <1>2, <1>3, <1>4 DEF DiskInv

\* A file that is there is opened: it is the newest that the task can know.
LEMMA DiskOpens ==
  ASSUME TypeOK, DiskInv, NEW t \in Tasks, Opens(t), UNCHANGED archive,
         pc[t] = "idle", pc' = [pc EXCEPT ![t] = "write"]
  PROVE  DiskInv'
  <1>0. /\ Files' = Files
        /\ \A p, f : At(p, f)' <=> At(p, f)
        /\ \A u, f : Wrote(u, f)' <=> Wrote(u, f)
        /\ file'[t] = current[PathOf[t]] /\ PathOf[t] \in Paths
        /\ \A u \in Tasks : u # t => file'[u] = file[u]
        /\ UNCHANGED <<current, content, next>>
    BY Numbers DEF Opens, Files, At, Wrote, TypeOK
  <1>1. OwnerInv'
    <2>1. At(PathOf[t], file'[t])
      BY <1>0 DEF At
    <2>2. \A f \in Files, p \in Paths : \A u \in Tasks :
            At(p, f) /\ file'[u] = f => PathOf[u] = p
      BY <1>0, <2>1 DEF DiskInv, OwnerInv
    <2> QED
      BY <1>0, <2>2 DEF DiskInv, OwnerInv
  <1>2. OneName' /\ OrderInv'
    <2>1. OneName'
      BY <1>0 DEF DiskInv, OneName
    <2>2. \A u \in Tasks, f \in Files : Begun(u, f) => Begun(u, f)'
      BY <1>0 DEF Begun, TypeOK
    <2>3. \A f \in Files : \A i \in 1 .. Len(content[f]) : content[f][i].task \in Tasks
      BY ContentIs
    <2>4. OrderInv'
      BY <1>0, <2>2, <2>3 DEF DiskInv, OrderInv
    <2> QED
      BY <2>1, <2>4
  <1>3. NewestInv'
    <2>1. ASSUME NEW p \in Paths, current[p] # NoFile, NEW u \in Tasks, PathOf[u] = p
          PROVE  file'[u] <= current[p] /\ \A g \in Files : g > current[p] => ~Wrote(u, g)
      BY <1>0, <2>1, Numbers DEF DiskInv, NewestInv
    <2>2. ASSUME NEW u \in Tasks, file'[u] # NoFile, NEW g \in Files, g > file'[u]
          PROVE  ~Wrote(u, g)
      <3>1. CASE u = t
        BY <1>0, <2>1, <2>2, <3>1 DEF Opens
      <3>2. CASE u # t
        BY <1>0, <2>2, <3>2 DEF DiskInv, NewestInv
      <3> QED
        BY <3>1, <3>2
    <2>3. \A p \in Paths : current[p] # NoFile => \A s \in Names : archive[p][s] <= current[p]
      BY DEF DiskInv, NewestInv
    <2> QED
      BY <1>0, <2>1, <2>2, <2>3 DEF NewestInv
  <1> QED
    BY <1>1, <1>2, <1>3 DEF DiskInv

\* A new file is newer than all others, and nobody has written to it.
LEMMA DiskCreates ==
  ASSUME TypeOK, DiskInv, NEW t \in Tasks, Creates(t), UNCHANGED archive,
         pc[t] = "idle", pc' = [pc EXCEPT ![t] = "write"]
  PROVE  DiskInv'
  <1>0. PICK n : n = Len(content) + 1
    OBVIOUS
  <1>1. /\ n \in Nat /\ Len(content') = n /\ Len(content'[n]) = 0
        /\ \A f \in Files : content'[f] = content[f] /\ f < n /\ f # n /\ f \in Int /\ f > 0
        /\ Files' = Files \cup {n} /\ n \notin Files /\ n # NoFile
    BY <1>0, CreateEffect, ContentIs DEF Files, NoFile
  <1>2. /\ current'[PathOf[t]] = n /\ file'[t] = n /\ PathOf[t] \in Paths
        /\ \A p \in Paths : p # PathOf[t] => current'[p] = current[p]
        /\ \A u \in Tasks : u # t => file'[u] = file[u]
        /\ current[PathOf[t]] = NoFile /\ file[t] = NoFile
        /\ UNCHANGED next
    BY <1>0, Numbers DEF Creates, TypeOK
  <1>3. ASSUME NEW p \in Paths
        PROVE  /\ \A f \in Files : At(p, f)' => At(p, f)
               /\ At(p, n)' => p = PathOf[t]
               /\ current[p] # n
               /\ \A s \in Names : archive[p][s] # n
    <2>1. current[p] # n /\ \A s \in Names : archive[p][s] # n
      BY <1>1, Numbers
    <2>2. \A f : At(p, f)' <=> current'[p] = f \/ \E s \in Names : archive[p][s] = f
      BY DEF At
    <2>3. current'[p] = current[p] \/ (p = PathOf[t] /\ current'[p] = n)
      BY <1>2
    <2>4. \A f \in Files : At(p, f)' => At(p, f)
      BY <1>1, <2>2, <2>3 DEF At
    <2>5. At(p, n)' => p = PathOf[t]
      BY <2>1, <2>2, <2>3
    <2> QED
      BY <2>1, <2>4, <2>5
  <1>4. ASSUME NEW u \in Tasks
        PROVE  /\ file[u] # n
               /\ \A f \in Files : Wrote(u, f)' <=> Wrote(u, f)
               /\ ~Wrote(u, n)'
    <2>1. file[u] # n
      BY <1>1, Numbers
    <2>2. \A f : Wrote(u, f)' <=> \E i \in 1 .. Len(content'[f]) : content'[f][i].task = u
      BY DEF Wrote
    <2>3. ~Wrote(u, n)'
      BY <1>1, <2>2
    <2>4. \A f \in Files : Wrote(u, f)' <=> Wrote(u, f)
      BY <1>1, <2>2 DEF Wrote
    <2> QED
      BY <2>1, <2>3, <2>4
  <1>5. OwnerInv'
    <2> SUFFICES ASSUME NEW f \in Files', NEW p \in Paths, At(p, f)'
                 PROVE  /\ \A q \in Paths : At(q, f)' => q = p
                        /\ \A u \in Tasks : file'[u] = f => PathOf[u] = p
                        /\ \A i \in 1 .. Len(content'[f]) : PathOf[content'[f][i].task] = p
      BY DEF OwnerInv
    <2>1. CASE f = n
      BY <1>1, <1>2, <1>3, <1>4, <2>1
    <2>2. CASE f \in Files
      BY <1>1, <1>2, <1>3, <2>2 DEF DiskInv, OwnerInv
    <2> QED
      BY <1>1, <2>1, <2>2
  <1>6. OneName'
    <2> SUFFICES ASSUME NEW p \in Paths, NEW s \in Names, archive[p][s] # NoFile
                 PROVE  /\ archive[p][s] # current'[p]
                        /\ \A r \in Names : archive[p][r] = archive[p][s] => r = s
      BY DEF OneName
    <2>1. CASE p = PathOf[t]
      BY <1>2, <1>3, <2>1 DEF DiskInv, OneName
    <2>2. CASE p # PathOf[t]
      BY <1>2, <2>2 DEF DiskInv, OneName
    <2> QED
      BY <2>1, <2>2
  <1>7. NewestInv'
    <2>1. ASSUME NEW p \in Paths, current'[p] # NoFile, NEW s \in Names
          PROVE  archive[p][s] <= current'[p]
      <3>1. CASE p = PathOf[t]
        BY <1>1, <1>2, <3>1, Numbers
      <3>2. CASE p # PathOf[t]
        BY <1>2, <2>1, <3>2 DEF DiskInv, NewestInv
      <3> QED
        BY <3>1, <3>2
    <2>2. ASSUME NEW p \in Paths, current'[p] # NoFile, NEW u \in Tasks, PathOf[u] = p
          PROVE  file'[u] <= current'[p] /\ \A g \in Files' : g > current'[p] => ~Wrote(u, g)'
      <3>1. CASE p = PathOf[t]
        <4>1. file'[u] <= n
          <5>1. file'[u] = n \/ file'[u] = file[u]
            BY <1>2
          <5>2. file[u] \in Files \/ file[u] = 0
            BY Numbers
          <5> QED
            BY <1>1, <5>1, <5>2
        <4>2. \A g \in Files' : ~(g > n)
          BY <1>1
        <4> QED
          BY <1>2, <3>1, <4>1, <4>2
      <3>2. CASE p # PathOf[t]
        <4>1. u # t /\ current'[p] = current[p] /\ file'[u] = file[u]
          BY <1>2, <2>2, <3>2
        <4> QED
          BY <1>1, <1>4, <2>2, <4>1 DEF DiskInv, NewestInv
      <3> QED
        BY <3>1, <3>2
    <2>3. ASSUME NEW u \in Tasks, file'[u] # NoFile, NEW g \in Files', g > file'[u]
          PROVE  ~Wrote(u, g)'
      <3>1. CASE u = t
        BY <1>1, <1>2, <2>3, <3>1
      <3>2. CASE u # t
        BY <1>1, <1>2, <1>4, <2>3, <3>2 DEF DiskInv, NewestInv
      <3> QED
        BY <3>1, <3>2
    <2> QED
      BY <2>1, <2>2, <2>3 DEF NewestInv
  <1>8. OrderInv'
    <2> SUFFICES ASSUME NEW f \in Files', NEW i \in 1 .. Len(content'[f])
                 PROVE  /\ \/ content'[f][i].message < next[content'[f][i].task]
                           \/ /\ content'[f][i].message = next[content'[f][i].task]
                              /\ Begun(content[f][i].task, f)'
                        /\ \A g \in Files' : f < g => \A j \in 1 .. Len(content'[g]) :
                             content'[f][i].task = content'[g][j].task
                               => content'[f][i].message < content'[g][j].message
      BY <1>2 DEF OrderInv
    <2>1. f \in Files
      BY <1>1
    <2>2. content'[f] = content[f] /\ \A g \in Files : content'[g] = content[g]
      BY <1>1, <2>1
    <2>3. \A g \in Files' : g \in Files \/ Len(content'[g]) = 0
      BY <1>1
    <2>4. \A u \in Tasks : Begun(u, f) => Begun(u, f)'
      BY <1>2 DEF Begun, TypeOK
    <2>5. content[f][i].task \in Tasks
      BY <2>1, <2>2, ContentIs
    <2> QED
      BY <2>1, <2>2, <2>3, <2>4, <2>5 DEF DiskInv, OrderInv
  <1> QED
    BY <1>5, <1>6, <1>7, <1>8 DEF DiskInv

\* What is written has the greatest number of its connection, and goes to a file that is not
\* older than any that the connection has written to.
LEMMA DiskWrite ==
  ASSUME TypeOK, ControlOK, DiskInv, NEW t \in Tasks, NEW last \in BOOLEAN, Writes(t, last)
  PROVE  DiskInv'
  <1>0. PICK h : h = file[t]
    OBVIOUS
  <1>1. PICK n : n = Len(content[h]) + 1
    OBVIOUS
  <1>2. /\ h \in Files /\ n \in Nat /\ Len(content'[h]) = n
        /\ \A f \in Files : f # h => content'[f] = content[f]
        /\ \A i \in 1 .. Len(content[h]) : content'[h][i] = content[h][i]
        /\ content'[h][n].task = t /\ content'[h][n].message = next[t]
        /\ Files' = Files
    <2>1. /\ h \in Files /\ Len(content') = Len(content)
          /\ \A f \in Files : f # h => content'[f] = content[f]
          /\ Len(content'[h]) = n
          /\ \A i \in 1 .. Len(content[h]) : content'[h][i] = content[h][i]
          /\ content'[h][n] = [task |-> t, message |-> next[t],
                               piece |-> piece[t] + 1, last |-> last]
      BY <1>0, <1>1, WriteEffect
    <2>2. n \in Nat /\ Files' = Files
      BY <1>1, <2>1, ContentIs DEF Files
    <2>3. content'[h][n].task = t /\ content'[h][n].message = next[t]
      BY <2>1
    <2> QED
      BY <2>1, <2>2, <2>3
  <1>3. /\ UNCHANGED <<current, archive, file>> /\ pc[t] = "write"
        /\ IF last THEN next'[t] = next[t] + 1 ELSE next'[t] = next[t] /\ pc'[t] = "write"
        /\ next[t] \in Int /\ next'[t] \in Int /\ next'[t] >= next[t]
        /\ \A u \in Tasks : u # t => next'[u] = next[u] /\ pc'[u] = pc[u]
        /\ \A u \in Tasks : file'[u] \in {file[u], NoFile}
    BY Numbers DEF Writes, TypeOK
  <1>4. ASSUME NEW f \in Files, NEW i \in 1 .. Len(content'[f])
        PROVE  \/ i \in 1 .. Len(content[f]) /\ content'[f][i] = content[f][i]
               \/ f = h /\ i = n
    BY <1>1, <1>2, ContentIs
  <1>5. ASSUME NEW u \in Tasks, NEW f \in Files, Wrote(u, f)'
        PROVE  Wrote(u, f) \/ (u = t /\ f = h)
    BY <1>2, <1>4, <1>5 DEF Wrote
  <1>6. \A p, f : At(p, f)' <=> At(p, f)
    BY <1>3 DEF At
  <1>7. OwnerInv'
    <2> SUFFICES ASSUME NEW f \in Files, NEW p \in Paths, At(p, f)
                 PROVE  /\ \A q \in Paths : At(q, f) => q = p
                        /\ \A u \in Tasks : file'[u] = f => PathOf[u] = p
                        /\ \A i \in 1 .. Len(content'[f]) : PathOf[content'[f][i].task] = p
      BY <1>2, <1>6 DEF OwnerInv
    <2>1. \A u \in Tasks : file'[u] = f => PathOf[u] = p
      BY <1>3, Numbers DEF DiskInv, OwnerInv
    <2>2. f = h => PathOf[t] = p
      BY <1>0 DEF DiskInv, OwnerInv
    <2>3. ASSUME NEW i \in 1 .. Len(content'[f])
          PROVE  PathOf[content'[f][i].task] = p
      BY <1>2, <1>4, <2>2 DEF DiskInv, OwnerInv
    <2> QED
      BY <2>1, <2>3 DEF DiskInv, OwnerInv
  <1>8. OneName'
    BY <1>3 DEF DiskInv, OneName
  <1>9. NewestInv'
    <2>1. ASSUME NEW p \in Paths, current[p] # NoFile
          PROVE  /\ \A s \in Names : archive[p][s] <= current[p]
                 /\ \A u \in Tasks : PathOf[u] = p =>
                      /\ file'[u] <= current[p]
                      /\ \A g \in Files : g > current[p] => ~Wrote(u, g)'
      <3>1. \A s \in Names : archive[p][s] <= current[p]
        BY <2>1 DEF DiskInv, NewestInv
      <3>2. ASSUME NEW u \in Tasks, PathOf[u] = p
            PROVE  file[u] <= current[p] /\ \A g \in Files : g > current[p] => ~Wrote(u, g)
        BY <2>1, <3>2 DEF DiskInv, NewestInv
      <3>3. ASSUME NEW u \in Tasks, PathOf[u] = p
            PROVE  file'[u] <= current[p]
        BY <1>3, <2>1, <3>2, <3>3, Numbers
      <3>4. ASSUME NEW u \in Tasks, PathOf[u] = p, NEW g \in Files, g > current[p]
            PROVE  ~Wrote(u, g)'
        <4>1. ~Wrote(u, g)
          BY <3>2, <3>4
        <4>2. u = t => ~(g = h)
          BY <1>0, <1>2, <3>2, <3>4, Numbers
        <4> QED
          BY <1>5, <4>1, <4>2
      <3> QED
        BY <3>1, <3>3, <3>4
    <2>2. ASSUME NEW u \in Tasks, file'[u] # NoFile, NEW g \in Files, g > file'[u]
          PROVE  ~Wrote(u, g)'
      <3>1. file[u] # NoFile /\ g > file[u]
        BY <1>3, <2>2
      <3>2. ~Wrote(u, g)
        BY <3>1 DEF DiskInv, NewestInv
      <3>3. u = t => ~(g = h)
        BY <1>0, <1>2, <3>1, Numbers
      <3> QED
        BY <1>5, <3>2, <3>3
    <2> QED
      BY <1>2, <1>3, <2>1, <2>2 DEF NewestInv
  <1>10. OrderInv'
    <2> SUFFICES ASSUME NEW f \in Files, NEW i \in 1 .. Len(content'[f])
                 PROVE  /\ \/ content'[f][i].message < next'[content'[f][i].task]
                           \/ /\ content'[f][i].message = next'[content'[f][i].task]
                              /\ Begun(content[f][i].task, f)'
                        /\ \A g \in Files : f < g => \A j \in 1 .. Len(content'[g]) :
                             content'[f][i].task = content'[g][j].task
                               => content'[f][i].message < content'[g][j].message
      BY <1>2 DEF OrderInv
    <2>1. ASSUME NEW g \in Files, NEW j \in 1 .. Len(content[g])
          PROVE  /\ \/ content[g][j].message < next[content[g][j].task]
                    \/ /\ content[g][j].message = next[content[g][j].task]
                       /\ Begun(content[g][j].task, g)
                 /\ content[g][j].task \in Tasks /\ content[g][j].message \in Int
      BY ContentIs DEF DiskInv, OrderInv
    <2>2. \/ content'[f][i].message < next'[content'[f][i].task]
          \/ content'[f][i].message = next'[content'[f][i].task] /\ Begun(content[f][i].task, f)'
      <3>1. CASE i \in 1 .. Len(content[f]) /\ content'[f][i] = content[f][i]
        <4>0. PICK u \in Tasks : u = content[f][i].task
          BY <2>1, <3>1
        <4>1. next'[u] \in Int /\ next[u] \in Int /\ next'[u] >= next[u]
          BY <1>3, Numbers
        <4>2. CASE content[f][i].message < next[u]
          BY <2>1, <3>1, <4>0, <4>1, <4>2
        <4>3. CASE content[f][i].message = next[u] /\ Begun(u, f)
          <5>1. CASE u # t
            BY <1>3, <3>1, <4>0, <4>3, <5>1 DEF Begun
          <5>2. CASE u = t /\ last
            BY <1>3, <3>1, <4>0, <4>3, <5>2
          <5>3. CASE u = t /\ ~last
            BY <1>3, <3>1, <4>0, <4>3, <5>3 DEF Begun
          <5> QED
            BY <5>1, <5>2, <5>3
        <4> QED
          BY <2>1, <3>1, <4>0, <4>2, <4>3
      <3>2. CASE f = h /\ i = n
        <4>1. content'[f][i].task = t /\ content'[f][i].message = next[t]
          BY <1>2, <3>2
        <4> QED
          BY <1>0, <1>3, <3>2, <4>1 DEF Begun
      <3> QED
        BY <1>4, <3>1, <3>2
    <2>3. ASSUME NEW g \in Files, f < g, NEW j \in 1 .. Len(content'[g]),
                 content'[f][i].task = content'[g][j].task
          PROVE  content'[f][i].message < content'[g][j].message
      <3>0. file[t] # NoFile /\ f \in Int /\ g \in Int
        BY <1>0, <1>2, Numbers
      <3>1. CASE i \in 1 .. Len(content[f]) /\ content'[f][i] = content[f][i]
        <4>1. CASE j \in 1 .. Len(content[g]) /\ content'[g][j] = content[g][j]
          BY <2>3, <3>1, <4>1 DEF DiskInv, OrderInv
        <4>2. CASE g = h /\ j = n
          <5>1. content[f][i].task = t /\ content'[g][j].message = next[t]
            BY <1>2, <2>3, <3>1, <4>2
          <5>2. ~Begun(t, f)
            BY <1>0, <2>3, <3>0, <4>2 DEF Begun
          <5> QED
            BY <2>1, <3>1, <5>1, <5>2
        <4> QED
          BY <1>4, <4>1, <4>2
      <3>2. CASE f = h /\ i = n
        <4>1. ~Wrote(t, g)
          BY <1>0, <2>3, <3>0, <3>2 DEF DiskInv, NewestInv
        <4>2. j \in 1 .. Len(content[g]) /\ content'[g][j] = content[g][j]
          BY <1>4, <2>3, <3>0, <3>2
        <4> QED
          BY <1>2, <2>3, <3>2, <4>1, <4>2 DEF Wrote
      <3> QED
        BY <1>4, <3>1, <3>2
    <2> QED
      BY <2>2, <2>3
  <1> QED
    BY <1>7, <1>8, <1>9, <1>10 DEF DiskInv

\* The file at a path gets the name with the time, and the path is free.
LEMMA DiskMoves ==
  ASSUME TypeOK, DiskInv, NEW t \in Tasks, Moves(t), UNCHANGED <<next, file, content>>,
         pc[t] = "move", pc' = [pc EXCEPT ![t] = "idle"]
  PROVE  DiskInv'
  <1>0. PICK c, s, p : c = current[PathOf[t]] /\ s = TimeString(target[t]) /\ p = PathOf[t]
    OBVIOUS
  <1>1. TimeString(target[t]) \in Names
    BY Numbers, TimesAre
  <1>2. /\ p \in Paths /\ s \in Names /\ c # NoFile /\ c = current[p]
        /\ current'[p] = NoFile /\ archive'[p][s] = c
        /\ \A r \in Names : r # s => archive'[p][r] = archive[p][r]
        /\ \A q \in Paths : q # p => current'[q] = current[q] /\ archive'[q] = archive[q]
    BY <1>0, <1>1, Numbers DEF Moves, TypeOK
  <1>3. /\ Files' = Files
        /\ \A u, f : Wrote(u, f)' <=> Wrote(u, f)
    BY DEF Files, Wrote
  <1>4. ASSUME NEW q \in Paths, NEW f \in Files, At(q, f)'
        PROVE  At(q, f)
    <2>0. current'[q] = f \/ \E r \in Names : archive'[q][r] = f
      BY <1>4 DEF At
    <2>1. f # NoFile
      BY Numbers
    <2> QED
      BY <1>2, <2>0, <2>1 DEF At
  <1>5. OwnerInv'
    BY <1>3, <1>4 DEF DiskInv, OwnerInv
  <1>6. OneName'
    <2> SUFFICES ASSUME NEW q \in Paths, NEW r \in Names, archive'[q][r] # NoFile
                 PROVE  /\ archive'[q][r] # current'[q]
                        /\ \A v \in Names : archive'[q][v] = archive'[q][r] => v = r
      BY DEF OneName
    <2>1. CASE q # p
      BY <1>2, <2>1 DEF DiskInv, OneName
    <2>2. CASE q = p
      BY <1>2, <2>2 DEF DiskInv, OneName
    <2> QED
      BY <2>1, <2>2
  <1>7. NewestInv'
    <2>1. \A q \in Paths : current'[q] # NoFile =>
             current'[q] = current[q] /\ archive'[q] = archive[q]
      BY <1>2
    <2> QED
      BY <1>3, <2>1 DEF DiskInv, NewestInv
  <1>8. OrderInv'
    <2>1. \A u \in Tasks, f \in Files : Begun(u, f) => Begun(u, f)'
      BY DEF Begun, TypeOK
    <2>2. \A f \in Files : \A i \in 1 .. Len(content[f]) : content[f][i].task \in Tasks
      BY ContentIs
    <2> QED
      BY <1>3, <2>1, <2>2 DEF DiskInv, OrderInv
  <1> QED
    BY <1>5, <1>6, <1>7, <1>8 DEF DiskInv

\* The disk after every step.
LEMMA DiskNext ==
  ASSUME TypeOK, ControlOK, DiskInv, [Next]_vars
  PROVE  DiskInv'
  <1>0. \A t \in Tasks : next'[t] \in Int
    <2>1. TypeOK'
      BY TypeNext
    <2> QED
      BY <2>1, FilesConstants DEF TypeOK
  <1>1. ASSUME NEW t \in Tasks, OpenFile(t) PROVE DiskInv'
    <2>1. CASE OpensNothing(t)
      <3>1. /\ pc[t] = "idle" /\ UNCHANGED archive
            /\ \A u \in Tasks : u # t => next'[u] = next[u] /\ pc'[u] = pc[u]
            /\ next'[t] = next[t] \/ next'[t] = next[t] + 1
        BY <1>1, <2>1, OpenEffect DEF Opens, Creates, TypeOK
      <3>2. Quiet
        BY <2>1, <3>1, Numbers DEF Quiet, OpensNothing
      <3> QED
        BY <1>0, <3>2, DiskQuiet
    <2> QED
      BY <1>1, <2>1, OpenEffect, DiskOpens, DiskCreates
  <1>2. ASSUME NEW t \in Tasks, Move(t) PROVE DiskInv'
    <2>1. /\ pc[t] = "move" /\ pc' = [pc EXCEPT ![t] = "idle"]
          /\ UNCHANGED <<next, file, content>>
      BY <1>2, MoveIs
    <2>2. CASE UNCHANGED <<current, archive, moves>>
      <3>1. Quiet
        BY <2>1, <2>2, Numbers DEF Quiet, TypeOK
      <3> QED
        BY <1>0, <3>1, DiskQuiet
    <2> QED
      BY <1>2, <2>1, <2>2, MoveIs, DiskMoves
  <1>3. ASSUME NEW t \in Tasks, Between(t) PROVE DiskInv'
    <2>1. Quiet
      BY <1>3, BetweenEffect, Numbers DEF Quiet
    <2> QED
      BY <1>0, <2>1, DiskQuiet
  <1>4. CASE Tick \/ UNCHANGED vars
    <2>1. Quiet
      BY <1>4, Numbers DEF Quiet, Tick, vars, diskVars, taskVars
    <2> QED
      BY <1>0, <2>1, DiskQuiet
  <1> QED
    BY <1>1, <1>2, <1>3, <1>4, Steps, WriteIs, DiskWrite

\* What a task has written of a message stays the last of what it has written.
LEMMA PartInvNext ==
  ASSUME TypeOK, ControlOK, PartInv, [Next]_vars
  PROVE  PartInv'
  <1> SUFFICES ASSUME NEW v \in Tasks, piece'[v] # 0
               PROVE  \E h \in 1 .. Len(content'[file'[v]]) :
                        /\ content'[file'[v]][h] = [task |-> v, message |-> next'[v],
                                                    piece |-> piece'[v], last |-> FALSE]
                        /\ \A j \in h + 1 .. Len(content'[file'[v]]) :
                             content'[file'[v]][j].task # v
    BY DEF PartInv
  <1>1. CASE /\ piece'[v] = piece[v] /\ file'[v] = file[v] /\ next'[v] = next[v]
             /\ content'[file[v]] = content[file[v]]
    BY <1>1 DEF PartInv
  <1>2. ASSUME piece'[v] = piece[v] PROVE pc[v] = "write" /\ file[v] \in Files
    BY <1>2, Numbers DEF ControlOK
  <1>3. ASSUME NEW t \in Tasks, OpenFile(t)
        PROVE  /\ piece'[v] = piece[v] /\ file'[v] = file[v] /\ next'[v] = next[v]
               /\ content'[file[v]] = content[file[v]]
    <2>1. piece'[v] = piece[v] /\ t # v
      BY <1>2, <1>3, OpenEffect
    <2>2. content'[file[v]] = content[file[v]]
      BY <1>2, <1>3, <2>1, OpenEffect, CreateEffect DEF Opens, OpensNothing
    <2> QED
      BY <1>3, <2>1, <2>2, OpenEffect DEF Opens, Creates, OpensNothing, TypeOK
  <1>4. ASSUME NEW t \in Tasks, Between(t)
        PROVE  /\ piece'[v] = piece[v] /\ file'[v] = file[v] /\ next'[v] = next[v]
               /\ content'[file[v]] = content[file[v]]
    BY <1>2, <1>4, BetweenEffect
  <1>5. ASSUME (\E t \in Tasks : Move(t)) \/ Tick \/ UNCHANGED vars
        PROVE  /\ piece'[v] = piece[v] /\ file'[v] = file[v] /\ next'[v] = next[v]
               /\ content'[file[v]] = content[file[v]]
    BY <1>5, MoveIs DEF Tick, vars, taskVars, diskVars
  <1>6. ASSUME NEW t \in Tasks, NEW last \in BOOLEAN, Writes(t, last)
        PROVE  \E h \in 1 .. Len(content'[file'[v]]) :
                 /\ content'[file'[v]][h] = [task |-> v, message |-> next'[v],
                                             piece |-> piece'[v], last |-> FALSE]
                 /\ \A j \in h + 1 .. Len(content'[file'[v]]) : content'[file'[v]][j].task # v
    <2>1. PICK n : n = Len(content[file[t]]) + 1
      OBVIOUS
    <2>2. PICK e : e = [task |-> t, message |-> next[t], piece |-> piece[t] + 1, last |-> last]
      OBVIOUS
    <2>3. /\ file[t] \in Files /\ n \in Nat /\ n > 0 /\ Len(content[file[t]]) = n - 1
          /\ \A f \in Files : f # file[t] => content'[f] = content[f]
          /\ Len(content'[file[t]]) = n
          /\ \A i \in 1 .. n - 1 : content'[file[t]][i] = content[file[t]][i]
          /\ content'[file[t]][n] = e
      BY <1>6, <2>1, <2>2, WriteEffect, ContentIs
    <2>4. CASE v = t
      <3>1. ~last /\ next'[t] = next[t] /\ piece'[t] = piece[t] + 1 /\ file'[t] = file[t]
        BY <1>6, <2>4 DEF Writes, TypeOK
      <3>2. n \in 1 .. Len(content'[file[t]]) /\ \A j : j \notin n + 1 .. Len(content'[file[t]])
        BY <2>3
      <3>3. e = [task |-> v, message |-> next'[v], piece |-> piece'[v], last |-> FALSE]
        BY <2>2, <2>4, <3>1
      <3> QED
        BY <2>3, <2>4, <3>1, <3>2, <3>3
    <2>5. CASE v # t
      <3>1. piece'[v] = piece[v] /\ next'[v] = next[v] /\ file'[v] = file[v]
        BY <1>6, <2>5 DEF Writes, TypeOK
      <3>2. CASE file[v] # file[t]
        BY <1>1, <1>2, <2>3, <3>1, <3>2
      <3>3. CASE file[v] = file[t]
        <4>1. PICK h \in 1 .. Len(content[file[v]]) :
                /\ content[file[v]][h] = [task |-> v, message |-> next[v],
                                          piece |-> piece[v], last |-> FALSE]
                /\ \A j \in h + 1 .. Len(content[file[v]]) : content[file[v]][j].task # v
          BY <3>1 DEF PartInv
        <4>2. h \in 1 .. n /\ content'[file[v]][h] = content[file[v]][h]
          BY <2>3, <3>3, <4>1
        <4>3. e.task # v
          BY <2>2, <2>5
        <4>4. ASSUME NEW j \in h + 1 .. n
              PROVE  content'[file[v]][j].task # v
          <5>1. j = n \/ (j \in 1 .. n - 1 /\ j \in h + 1 .. n - 1)
            BY <2>3, <4>1
          <5> QED
            BY <2>3, <3>3, <4>1, <4>3, <5>1
        <4> QED
          BY <2>3, <3>1, <3>3, <4>1, <4>2, <4>4
      <3> QED
        BY <3>2, <3>3
    <2> QED
      BY <2>4, <2>5
  <1> QED
    BY <1>1, <1>3, <1>4, <1>5, <1>6, Steps, WriteIs

-----------------------------------------------------------------------------

\* What mv does at one path.
LEMMA MovesAt ==
  ASSUME TypeOK, NEW t \in Tasks, Moves(t),
         NEW c, NEW s, NEW p, c = current[PathOf[t]], s = TimeString(target[t]), p = PathOf[t]
  PROVE  /\ p \in Paths /\ s \in Names /\ c \in Files /\ c # NoFile /\ c = current[p]
         /\ target[t] \in Times
         /\ current'[p] = NoFile /\ archive'[p][s] = c
         /\ \A r \in Names : r # s => archive'[p][r] = archive[p][r]
         /\ \A q \in Paths : q # p => current'[q] = current[q] /\ archive'[q] = archive[q]
  <1>1. target[t] \in Times /\ s \in Names
    BY Numbers, TimesAre
  <1> QED
    BY <1>1, Numbers DEF Moves, TypeOK

\* A step that moves nothing.
LEMMA NothingMoves ==
  ASSUME TypeOK, [Next]_vars, \A t \in Tasks : Move(t) => ~Moves(t)
  PROVE  /\ UNCHANGED <<archive, moves>>
         /\ now' \in Int /\ now' >= now
  <1>1. ASSUME NEW t \in Tasks, OpenFile(t) \/ Write(t) \/ Between(t) \/ Move(t)
        PROVE  UNCHANGED <<archive, moves, now>>
    BY <1>1, MoveIs, BetweenEffect DEF OpenFile, Write
  <1>2. CASE Tick \/ UNCHANGED vars
    BY <1>2, Numbers DEF Tick, vars, taskVars, diskVars
  <1> QED
    BY <1>1, <1>2, Steps, Numbers

\* The moves so far.
LEMMA MovesAre ==
  ASSUME TypeOK
  PROVE  /\ Len(moves) \in Nat /\ DOMAIN moves = 1 .. Len(moves)
         /\ \A i \in 1 .. Len(moves) : moves[i].time \in Times /\ moves[i].at \in Seconds
  <1> DEFINE S == [path : Paths, time : Times, at : Seconds, file : Files]
  <1>1. moves \in Seq(S)
    BY DEF TypeOK
  <1>2. \A m \in S : m.time \in Times /\ m.at \in Seconds
    OBVIOUS
  <1> HIDE DEF S
  <1>3. Len(moves) \in Nat /\ DOMAIN moves = 1 .. Len(moves)
    BY <1>1, DomainIs
  <1>4. \A i \in 1 .. Len(moves) : moves[i] \in S
    BY <1>1, ElementIn
  <1> QED
    BY <1>2, <1>3, <1>4

\* What is under a name was moved there.
LEMMA MoveInvNext ==
  ASSUME TypeOK, MoveInv, [Next]_vars
  PROVE  MoveInv'
  <1>1. CASE \A t \in Tasks : Move(t) => ~Moves(t)
    <2>1. /\ UNCHANGED <<archive, moves>>
          /\ now' \in Int /\ now' >= now
      BY <1>1, NothingMoves
    <2>2. \A i \in 1 .. Len(moves) : moves[i].at \in Int /\ now \in Int
      BY MovesAre, Numbers
    <2>3. \A i \in 1 .. Len(moves) : moves[i].at <= now'
      BY <2>1, <2>2 DEF MoveInv
    <2> QED
      BY <2>1, <2>3 DEF MoveInv
  <1>2. ASSUME NEW t \in Tasks, Move(t), Moves(t) PROVE MoveInv'
    <2>0. PICK c : c = current[PathOf[t]]
      OBVIOUS
    <2>1. PICK s : s = TimeString(target[t])
      OBVIOUS
    <2>2. PICK p : p = PathOf[t]
      OBVIOUS
    <2>3. /\ UNCHANGED now /\ Len(moves) \in Nat /\ Len(moves') = Len(moves) + 1
          /\ \A i \in 1 .. Len(moves) : moves'[i] = moves[i]
          /\ moves'[Len(moves) + 1].path = p /\ TimeString(moves'[Len(moves) + 1].time) = s
          /\ moves'[Len(moves) + 1].file = c /\ moves'[Len(moves) + 1].at = now
      <3>1. UNCHANGED now
        BY <1>2, MoveIs
      <3> QED
        BY <1>2, <2>0, <2>1, <2>2, <3>1, MoveEffect
    <2>4. ASSUME NEW q \in Paths, NEW r \in Names, archive'[q][r] # NoFile
          PROVE  \E i \in 1 .. Len(moves') :
                   /\ moves'[i].path = q /\ TimeString(moves'[i].time) = r
                   /\ moves'[i].file = archive'[q][r]
      <3>1. CASE q = p /\ r = s
        <4>1. archive'[q][r] = c
          BY <1>2, <2>0, <2>1, <2>2, <3>1, MovesAt
        <4>2. Len(moves) + 1 \in 1 .. Len(moves')
          BY <2>3
        <4> QED
          BY <2>3, <3>1, <4>1, <4>2
      <3>2. CASE ~(q = p /\ r = s)
        <4>1. archive'[q][r] = archive[q][r]
          BY <1>2, <2>0, <2>1, <2>2, <3>2, MovesAt
        <4>2. PICK i \in 1 .. Len(moves) :
                /\ moves[i].path = q /\ TimeString(moves[i].time) = r
                /\ moves[i].file = archive[q][r]
          BY <2>4, <4>1 DEF MoveInv
        <4>3. i \in 1 .. Len(moves') /\ moves'[i] = moves[i]
          BY <2>3
        <4> QED
          BY <4>1, <4>2, <4>3
      <3> QED
        BY <3>1, <3>2
    <2>5. ASSUME NEW i \in 1 .. Len(moves')
          PROVE  moves'[i].at <= now
      <3>1. i \in 1 .. Len(moves) \/ i = Len(moves) + 1
        BY <2>3
      <3>2. now <= now
        BY Numbers
      <3> QED
        BY <2>3, <3>1, <3>2 DEF MoveInv
    <2> QED
      BY <2>3, <2>4, <2>5 DEF MoveInv
  <1> QED
    BY <1>1, <1>2

\* The names sort as the files do: what is moved now is newer than what was moved before,
\* and gets the last name.
LEMMA SortedInvNext ==
  ASSUME TypeOK, DiskInv, MoveInv, SortedInv, [Next]_vars
  PROVE  SortedInv'
  <1> SUFFICES ASSUME ClockForward', MovesTimely' PROVE ArchiveSorted'
    BY DEF SortedInv
  <1>0. now \in Int /\ now' \in Int /\ now' >= now
    BY NothingMoves, MoveIs, Numbers
  <1>1. ClockForward
    BY <1>0 DEF ClockForward
  <1>2. CASE \A t \in Tasks : Move(t) => ~Moves(t)
    BY <1>1, <1>2, NothingMoves DEF SortedInv, MovesTimely, ArchiveSorted
  <1>3. ASSUME NEW t \in Tasks, Move(t), Moves(t) PROVE ArchiveSorted'
    <2>0. PICK c : c = current[PathOf[t]]
      OBVIOUS
    <2>1. PICK s : s = TimeString(target[t])
      OBVIOUS
    <2>2. PICK p : p = PathOf[t]
      OBVIOUS
    <2>3. /\ Len(moves) \in Nat /\ DOMAIN moves' = 1 .. Len(moves) + 1
          /\ DOMAIN moves = 1 .. Len(moves)
          /\ \A i \in 1 .. Len(moves) : moves'[i] = moves[i]
          /\ moves'[Len(moves) + 1].time = target[t] /\ moves'[Len(moves) + 1].at = now
      <3>1. Len(moves') = Len(moves) + 1 /\ DOMAIN moves' = 1 .. Len(moves')
        BY <1>3, MoveEffect
      <3>2. DOMAIN moves' = 1 .. Len(moves) + 1
        BY <3>1
      <3> QED
        BY <1>3, <3>2, MoveEffect
    <2>4. MovesTimely /\ target[t] = LocalTime[now]
      BY <2>3 DEF MovesTimely
    <2>5. ArchiveSorted
      BY <1>1, <2>4 DEF SortedInv
    <2>6. /\ p \in Paths /\ s \in Names /\ c \in Files /\ c # NoFile /\ c = current[p]
          /\ target[t] \in Times
          /\ current'[p] = NoFile /\ archive'[p][s] = c
          /\ \A r \in Names : r # s => archive'[p][r] = archive[p][r]
          /\ \A q \in Paths : q # p => current'[q] = current[q] /\ archive'[q] = archive[q]
      BY <1>3, <2>0, <2>1, <2>2, MovesAt
    <2>7. ASSUME NEW v \in Names, archive[p][v] # NoFile
          PROVE  v \in Nat /\ s \in Nat /\ ~(s < v)
      <3>1. PICK i \in 1 .. Len(moves) : TimeString(moves[i].time) = v
        BY <2>6, <2>7 DEF MoveInv
      <3>2. /\ moves[i].time = LocalTime[moves[i].at] /\ moves[i].at <= now
            /\ moves[i].time \in Times /\ moves[i].at \in Seconds /\ now \in Seconds
        BY <2>3, <2>4, MovesAre, Numbers DEF MovesTimely, MoveInv
      <3>3. moves[i].at = now \/ (moves[i].at < now /\ moves[i].at \in 0 .. now /\ now \in 0 .. now)
        BY <3>2, FilesConstants DEF Seconds
      <3>4. moves[i].time = target[t] \/ Earlier(moves[i].time, target[t])
        BY <1>1, <2>4, <3>2, <3>3 DEF ClockForward
      <3>5. v = s \/ v < s
        BY <2>1, <2>6, <3>1, <3>2, <3>4, TimeStringOrder
      <3>6. v \in Nat /\ s \in Nat
        BY <2>1, <2>6, <3>1, <3>2, TimesAre
      <3> QED
        BY <3>5, <3>6
    <2>8. ASSUME NEW q \in Paths, NEW r \in Names, NEW v \in Names,
                 r < v, archive'[q][r] # NoFile, archive'[q][v] # NoFile
          PROVE  archive'[q][r] < archive'[q][v]
      <3>0. r # v
        <4>1. r \in Nat
          BY TimesAre DEF Names
        <4> QED
          BY <2>8, <4>1
      <3>1. CASE q # p
        BY <2>5, <2>6, <2>8, <3>1 DEF ArchiveSorted
      <3>2. CASE q = p /\ r # s /\ v # s
        BY <2>5, <2>6, <2>8, <3>2 DEF ArchiveSorted
      <3>3. CASE q = p /\ v = s
        <4>1. archive'[p][r] = archive[p][r]
          BY <2>6, <3>0, <3>3
        <4>2. archive[p][r] # c /\ archive[p][r] <= c
          BY <2>6, <2>8, <3>3, <4>1 DEF DiskInv, OneName, NewestInv
        <4> QED
          BY <2>6, <3>3, <4>1, <4>2, Numbers
      <3>4. CASE q = p /\ r = s /\ v # s
        BY <2>6, <2>8, <2>7, <3>4
      <3> QED
        BY <3>1, <3>2, <3>3, <3>4
    <2> QED
      BY <2>8 DEF ArchiveSorted
  <1> QED
    BY <1>2, <1>3

\* A file without a name was overwritten by a later move.
LEMMA FoundInvNext ==
  ASSUME TypeOK, MoveInv, FoundInv, [Next]_vars
  PROVE  FoundInv'
  <1>1. CASE \A t \in Tasks : Move(t) => ~Moves(t)
    <2>1. UNCHANGED <<archive, moves>>
      BY <1>1, NothingMoves
    <2>2. \A f : Overwritten(f)' <=> Overwritten(f)
      BY <2>1 DEF Overwritten
    <2>3. CASE Files' = Files /\ UNCHANGED current
      BY <2>1, <2>2, <2>3 DEF FoundInv, Named
    <2>4. ASSUME NEW t \in Tasks, Creates(t) PROVE FoundInv'
      <3>1. PICK n : n = Len(content) + 1
        OBVIOUS
      <3>2. PICK p : p = PathOf[t]
        OBVIOUS
      <3>3. /\ Files' = Files \cup {n} /\ p \in Paths /\ current[p] = NoFile /\ current'[p] = n
            /\ \A q \in Paths : q # p => current'[q] = current[q]
        <4>1. Files' = Files \cup {n}
          <5>1. Len(content') = n /\ n \in Nat
            BY <2>4, <3>1, CreateEffect, ContentIs
          <5> QED
            BY <3>1, <5>1, ContentIs DEF Files
        <4> QED
          BY <2>4, <3>1, <3>2, <4>1, Numbers DEF Creates, TypeOK
      <3>4. ASSUME NEW f \in Files, Named(f) PROVE Named(f)'
        <4>1. f # NoFile
          BY Numbers
        <4>2. \A q \in Paths : current[q] = f => current'[q] = f
          BY <3>3, <4>1
        <4> QED
          BY <2>1, <3>4, <4>2 DEF Named
      <3>5. Named(n)'
        <4>1. \E q \in Paths : current'[q] = n
          BY <3>3
        <4>2. \A k : (\E q \in Paths : current'[q] = k) => Named(k)'
          BY DEF Named
        <4> QED
          BY <4>1, <4>2
      <3> QED
        BY <2>2, <3>3, <3>4, <3>5 DEF FoundInv
    <2>5. ASSUME NEW t \in Tasks, OpenFile(t) \/ Write(t) \/ Between(t) \/ Move(t)
          PROVE  Creates(t) \/ (Files' = Files /\ UNCHANGED current)
      <3>1. CASE OpenFile(t)
        BY <3>1, OpenEffect DEF Opens, OpensNothing, Files
      <3>2. CASE Write(t)
        <4>1. PICK e : content' = [content EXCEPT ![file[t]] = Append(@, e)]
          BY <3>2, WriteIs DEF Writes
        <4>2. DOMAIN content' = DOMAIN content
          BY <4>1
        <4>3. content \in Seq(Seq(Pieces))
          BY DEF TypeOK
        <4> QED
          BY <3>2, <4>1, <4>2, <4>3 DEF Files, Write
      <3>3. CASE Between(t)
        BY <3>3, BetweenEffect DEF Files
      <3>4. CASE Move(t)
        BY <1>1, <3>4, MoveIs DEF Files
      <3> QED
        BY <2>5, <3>1, <3>2, <3>3, <3>4
    <2>6. CASE Tick \/ UNCHANGED vars
      BY <2>3, <2>6 DEF Tick, vars, diskVars, Files
    <2> QED
      BY <2>3, <2>4, <2>5, <2>6, Steps
  <1>2. ASSUME NEW t \in Tasks, Move(t), Moves(t) PROVE FoundInv'
    <2>0. PICK c : c = current[PathOf[t]]
      OBVIOUS
    <2>1. PICK s : s = TimeString(target[t])
      OBVIOUS
    <2>2. PICK p : p = PathOf[t]
      OBVIOUS
    <2>3. /\ p \in Paths /\ s \in Names /\ c \in Files /\ c # NoFile /\ c = current[p]
          /\ target[t] \in Times
          /\ current'[p] = NoFile /\ archive'[p][s] = c
          /\ \A r \in Names : r # s => archive'[p][r] = archive[p][r]
          /\ \A q \in Paths : q # p => current'[q] = current[q] /\ archive'[q] = archive[q]
      BY <1>2, <2>0, <2>1, <2>2, MovesAt
    <2>4. PICK n : n = Len(moves) + 1
      OBVIOUS
    <2>5. /\ Len(moves) \in Nat /\ Len(moves') = n
          /\ \A i \in 1 .. Len(moves) : moves'[i] = moves[i]
          /\ moves'[n].path = p /\ moves'[n].time = target[t]
      BY <1>2, <2>2, <2>4, MoveEffect
    <2>6. Files' = Files
      BY <1>2, MoveIs DEF Files
    <2>7. ASSUME NEW f \in Files, Overwritten(f) PROVE Overwritten(f)'
      <3>1. \A i \in 1 .. Len(moves) : i \in 1 .. Len(moves') /\ moves'[i] = moves[i]
        BY <2>4, <2>5
      <3> QED
        BY <2>7, <3>1 DEF Overwritten
    <2>8. ASSUME NEW f \in Files, NEW q \in Paths, current[q] = f PROVE Named(f)'
      <3>1. q = p \/ (q # p /\ current'[q] = f)
        BY <2>3, <2>8
      <3> QED
        BY <2>3, <2>8, <3>1 DEF Named
    <2>9. ASSUME NEW f \in Files, NEW q \in Paths, NEW r \in Names, archive[q][r] = f
          PROVE  Named(f)' \/ Overwritten(f)'
      <3>1. CASE q = p /\ r = s
        <4>1. f # NoFile
          BY Numbers
        <4>2. PICK i \in 1 .. Len(moves) :
                moves[i].path = p /\ TimeString(moves[i].time) = s /\ moves[i].file = f
          BY <2>9, <3>1, <4>1 DEF MoveInv
        <4>3. i \in 1 .. Len(moves') /\ n \in 1 .. Len(moves') /\ i < n /\ moves'[i] = moves[i]
          BY <2>4, <2>5
        <4>4. moves[i].time = target[t]
          BY <2>1, <2>3, <4>2, MovesAre, TimeStringOrder
        <4> QED
          BY <2>5, <4>2, <4>3, <4>4 DEF Overwritten
      <3>2. CASE ~(q = p /\ r = s)
        <4>1. archive'[q][r] = f
          BY <2>3, <2>9, <3>2
        <4> QED
          BY <4>1 DEF Named
      <3> QED
        BY <3>1, <3>2
    <2> QED
      BY <2>6, <2>7, <2>8, <2>9 DEF FoundInv, Named
  <1> QED
    BY <1>1, <1>2

\* Whoever brings a file to split_size_ moves what is at the path, or a mv fails.
LEMMA MovedInvNext ==
  ASSUME TypeOK, ControlOK, DiskInv, MovedInv, [Next]_vars
  PROVE  MovedInv'
  <1>0. faults \in Nat
    BY FilesConstants DEF TypeOK
  <1>1. ASSUME NEW t \in Tasks, OpenFile(t) PROVE MovedInv'
    <2>1. pc[t] = "idle" /\ \A u \in Tasks : u # t => pc'[u] = pc[u] /\ file'[u] = file[u]
      BY <1>1, OpenEffect DEF Opens, Creates, OpensNothing, TypeOK
    <2>2. \A p : Moving(p) => Moving(p)'
      BY <2>1 DEF Moving
    <2>3. \A f : Telling(f) /\ content'[f] = content[f] => Telling(f)'
      BY <2>1 DEF Telling
    <2>4. CASE Fail
      BY <1>0, <2>4 DEF Fail, MovedInv
    <2>5. CASE Opens(t) \/ OpensNothing(t)
      <3>1. UNCHANGED <<current, content>> /\ faults' >= faults
        BY <1>0, <1>1, <2>5, OpenEffect DEF Opens, OpensNothing, Fail
      <3> QED
        BY <1>0, <1>1, <2>2, <2>3, <3>1, OpenEffect DEF MovedInv, Full, Fail
    <2>6. CASE Creates(t) /\ UNCHANGED faults
      <3>1. PICK n : n = Len(content) + 1
        OBVIOUS
      <3>2. PICK p : p = PathOf[t]
        OBVIOUS
      <3>3. /\ current'[p] = n /\ Len(content'[n]) = 0
            /\ \A q \in Paths : q # p => current'[q] = current[q]
            /\ \A f \in Files : content'[f] = content[f]
        BY <2>6, <3>1, <3>2, CreateEffect, Numbers DEF Creates, TypeOK
      <3> SUFFICES ASSUME NEW q \in Paths, current'[q] # NoFile, Full(current[q])'
                   PROVE  Moving(q)' \/ Telling(current[q])' \/ faults' > 0
        BY DEF MovedInv
      <3>4. q # p
        BY <3>3 DEF Full
      <3>5. current'[q] = current[q] /\ content'[current[q]] = content[current[q]]
        BY <3>3, <3>4, Numbers
      <3>6. Full(current[q])
        BY <3>5 DEF Full
      <3>7. Telling(current[q]) => Telling(current[q])'
        BY <2>3, <3>5 DEF Telling
      <3> QED
        BY <2>2, <2>6, <3>5, <3>6, <3>7 DEF MovedInv
    <2> QED
      BY <1>1, <2>4, <2>5, <2>6, OpenEffect
  <1>2. ASSUME NEW t \in Tasks, NEW last \in BOOLEAN, Writes(t, last) PROVE MovedInv'
    <2> SUFFICES ASSUME NEW q \in Paths, current'[q] # NoFile, Full(current[q])'
                 PROVE  Moving(q)' \/ Telling(current[q])' \/ faults' > 0
      BY DEF MovedInv
    <2>1. /\ UNCHANGED <<current, file, faults>> /\ pc[t] = "write"
          /\ pc'[t] \in {"write", "tell"}
          /\ \A u \in Tasks : u # t => pc'[u] = pc[u]
      BY <1>2 DEF Writes, TypeOK
    <2>2. CASE current[q] = file[t]
      <3>1. PICK n : n = Len(content[file[t]]) + 1
        OBVIOUS
      <3>2. Len(content'[file[t]]) = n /\ content'[file[t]][n].task = t
        <4>1. content'[file[t]][n] = [task |-> t, message |-> next[t],
                                      piece |-> piece[t] + 1, last |-> last]
          BY <1>2, <3>1, WriteEffect
        <4> QED
          BY <1>2, <3>1, <4>1, WriteEffect
      <3> QED
        BY <2>1, <2>2, <3>2 DEF Telling
    <2>3. CASE current[q] # file[t]
      <3>1. content'[current[q]] = content[current[q]]
        BY <1>2, <2>1, <2>3, WriteEffect, Numbers
      <3>2. Moving(q) \/ Telling(current[q]) \/ faults > 0
        BY <2>1, <3>1 DEF MovedInv, Full
      <3>3. Moving(q) => Moving(q)'
        BY <2>1 DEF Moving
      <3>4. Telling(current[q]) => Telling(current[q])'
        BY <2>1, <3>1 DEF Telling
      <3> QED
        BY <2>1, <3>2, <3>3, <3>4
    <2> QED
      BY <2>2, <2>3
  <1>3. ASSUME NEW t \in Tasks, Between(t) PROVE MovedInv'
    <2> SUFFICES ASSUME NEW q \in Paths, current[q] # NoFile, Full(current[q])
                 PROVE  Moving(q)' \/ Telling(current[q])' \/ faults > 0
      BY <1>3, BetweenEffect DEF MovedInv, Full
    <2>1. /\ UNCHANGED <<current, content>>
          /\ \A u \in Tasks : u # t => pc'[u] = pc[u] /\ file'[u] = file[u]
      BY <1>3, BetweenEffect
    <2>2. Moving(q) => Moving(q)'
      <3>1. pc[t] \in {"time", "convert", "format"} => pc'[t] \in {"convert", "format", "move"}
        BY <1>3, BetweenEffect
      <3>2. pc[t] # "move"
        BY <1>3, BetweenEffect
      <3> QED
        BY <2>1, <3>1, <3>2 DEF Moving
    <2>3. ASSUME Telling(current[q])
          PROVE  Moving(q)' \/ Telling(current[q])'
      <3>1. PICK u \in Tasks : /\ file[u] = current[q] /\ pc[u] \in {"write", "tell"}
                               /\ content[current[q]][Len(content[current[q]])].task = u
        BY <2>3 DEF Telling
      <3>2. CASE u # t
        BY <2>1, <3>1, <3>2 DEF Telling
      <3>3. CASE u = t
        <4>1. PICK k : k = Len(content[current[q]])
          OBVIOUS
        <4>2. current[q] \in Files /\ k \in Nat /\ MustMove(k)
          BY <4>1, Numbers, ContentIs DEF Full
        <4>3. ASSUME NEW len \in DOMAIN content[file[t]], Position(t, len)
              PROVE  len = k
          <5>1. len \in 1 .. k
            BY <3>1, <3>3, <4>1, <4>3 DEF Position
          <5>2. len = k \/ \A i \in len + 1 .. k : content[file[t]][i].task # t
            BY <3>1, <3>3, <4>1, <4>3 DEF Position
          <5>3. len # k => k \in len + 1 .. k
            BY <4>2, <5>1
          <5> QED
            BY <3>1, <3>3, <4>1, <5>2, <5>3
        <4>4. pc'[t] = "time"
          BY <1>3, <3>1, <3>3, <4>2, <4>3, BetweenEffect
        <4>5. PathOf[t] = q
          <5>1. At(q, file[t]) /\ file[t] \in Files
            BY <3>1, <3>3, <4>2 DEF At
          <5> QED
            BY <5>1 DEF DiskInv, OwnerInv
        <4> QED
          BY <4>4, <4>5 DEF Moving
      <3> QED
        BY <3>2, <3>3
    <2> QED
      BY <2>2, <2>3 DEF MovedInv
  <1>4. ASSUME NEW t \in Tasks, Move(t) PROVE MovedInv'
    <2>1. /\ pc[t] = "move" /\ UNCHANGED <<content, file>>
          /\ \A u \in Tasks : u # t => pc'[u] = pc[u]
      BY <1>4, MoveIs DEF TypeOK
    <2>2. \A q : q # PathOf[t] /\ Moving(q) => Moving(q)'
      BY <2>1 DEF Moving
    <2>3. \A f : Telling(f) => Telling(f)'
      BY <2>1 DEF Telling
    <2> SUFFICES ASSUME NEW q \in Paths, current'[q] # NoFile, Full(current[q])'
                 PROVE  Moving(q)' \/ Telling(current[q])' \/ faults' > 0
      BY DEF MovedInv
    <2>4. CASE Moves(t)
      <3>1. /\ current'[PathOf[t]] = NoFile /\ faults' = faults
            /\ \A p \in Paths : p # PathOf[t] => current'[p] = current[p]
        BY <2>4, Numbers DEF Moves, TypeOK
      <3>2. q # PathOf[t] /\ current'[q] = current[q] /\ Full(current[q])
        BY <2>1, <3>1 DEF Full
      <3>3. Telling(current[q]) => Telling(current[q])'
        BY <2>1, <3>2 DEF Telling
      <3> QED
        BY <2>2, <3>1, <3>2, <3>3 DEF MovedInv
    <2>5. CASE /\ UNCHANGED <<current, archive, moves>>
               /\ IF current[PathOf[t]] = NoFile THEN UNCHANGED faults ELSE Fail
      <3>1. Full(current[q]) /\ current'[q] = current[q]
        BY <2>1, <2>5 DEF Full
      <3>2. Telling(current[q]) => Telling(current[q])'
        BY <2>1, <3>1 DEF Telling
      <3>3. CASE q = PathOf[t]
        BY <1>0, <2>5, <3>1, <3>3 DEF Fail
      <3>4. CASE q # PathOf[t]
        BY <1>0, <2>2, <2>5, <3>1, <3>2, <3>4 DEF MovedInv, Fail
      <3> QED
        BY <3>3, <3>4
    <2> QED
      BY <1>4, <2>4, <2>5, MoveIs
  <1>5. CASE Tick \/ UNCHANGED vars
    BY <1>5 DEF Tick, vars, taskVars, diskVars, MovedInv, Full, Moving, Telling
  <1> QED
    BY <1>1, <1>2, <1>3, <1>4, <1>5, Steps, WriteIs

-----------------------------------------------------------------------------

\* No file is there at first.
LEMMA InvInit == Init => Inv
  <1> SUFFICES ASSUME Init PROVE Inv
    OBVIOUS
  <1>1. TypeOK /\ ControlOK
    BY TypeInit
  <1>2. Files = {}
    BY DEF Init, Files
  <1>3. OwnerInv /\ OrderInv /\ FoundInv
    BY <1>2 DEF OwnerInv, OrderInv, FoundInv
  <1>4. OneName /\ NewestInv /\ MovedInv /\ ArchiveSorted /\ PartInv
    BY DEF Init, OneName, NewestInv, MovedInv, ArchiveSorted, PartInv
  <1>5. MoveInv
    BY DEF Init, MoveInv
  <1> QED
    BY <1>1, <1>3, <1>4, <1>5 DEF Inv, SortedInv

\* The invariant is inductive.
LEMMA InvCorrect == Spec => []Inv
  <1>1. Inv /\ [Next]_vars => Inv'
    <2> SUFFICES ASSUME Inv, [Next]_vars PROVE Inv'
      OBVIOUS
    <2>1. TypeOK' /\ ControlOK'
      BY TypeNext DEF Inv
    <2>2. DiskInv'
      BY DiskNext DEF Inv, DiskInv
    <2>3. MoveInv' /\ FoundInv'
      BY MoveInvNext, FoundInvNext DEF Inv
    <2>4. SortedInv' /\ MovedInv' /\ PartInv'
      BY SortedInvNext, MovedInvNext, PartInvNext DEF Inv, DiskInv
    <2> QED
      BY <2>1, <2>2, <2>3, <2>4 DEF Inv, DiskInv
  <1> QED
    BY InvInit, <1>1, PTL DEF Spec

\* Every variable keeps its type (process_task.cpp:206-249): no path or name leads to a
\* file that was never created.
THEOREM TypeCorrect == Spec => []TypeOK
  <1>1. Inv => TypeOK
    BY DEF Inv
  <1> QED
    BY <1>1, InvCorrect, PTL

\* What was written can be found under a name unless two moves were given one time
\* (process_task.cpp:233-237, tool_functions.cpp:144-151).
THEOREM FoundUnlessSameTimeCorrect == Spec => []FoundUnlessSameTime
  <1>1. Inv => FoundUnlessSameTime
    BY MovesAre DEF Inv, FoundInv, Overwritten, FoundUnlessSameTime
  <1> QED
    BY <1>1, InvCorrect, PTL

\* A file whose length, as an int, has reached split_size_ is moved, or a mv has failed
\* (process_task.cpp:226-248), whichever task brought it there and whichever moves it, and
\* whatever the library's ftell counts.
THEOREM MovedAsSeenCorrect == Spec => []MovedAsSeen
  <1>1. Inv => MovedAsSeen
    <2> SUFFICES ASSUME TypeOK, MovedInv, NEW p \in Paths, current[p] # NoFile,
                        content[current[p]] # <<>>,
                        ToInt(Len(content[current[p]])) >= SplitSize
                 PROVE  Busy(p) \/ faults > 0
      BY DEF Inv, MovedAsSeen
    <2> DEFINE q == content[current[p]]
    <2>1. q \in Seq(Pieces)
      BY ContentIs, Numbers
    <2>2. q # <<>>
      OBVIOUS
    <2> HIDE DEF q
    <2>3. Len(q) > 0
      BY <2>1, <2>2, EmptySeq
    <2>4. Full(current[p])
      BY <2>3 DEF Full, q, MustMove
    <2> QED
      BY <2>4 DEF MovedInv, Moving, Telling, Busy
  <1> QED
    BY <1>1, InvCorrect, PTL

\* The messages of a connection are in the order of the files' creation, and the one that
\* is being written is in one file only (process_task.cpp:214-232).
THEOREM OrderInvCorrect == Spec => []OrderInv
  <1>1. Inv => OrderInv
    BY DEF Inv
  <1> QED
    BY <1>1, InvCorrect, PTL

\* As long as local time goes forward and each mv runs in the second of its name, the names
\* give the order of a connection's messages, though a task may write to a file that another
\* has moved away (process_task.cpp:214-237, tool_functions.cpp:144-151).
THEOREM SortedByNameCorrect == Spec => []SortedByName
  <1>1. Inv => SortedByName
    <2> SUFFICES ASSUME Inv, ClockForward, MovesTimely, NEW f \in Files, NEW g \in Files,
                        NamedBefore(f, g),
                        NEW i \in DOMAIN content[f], NEW j \in DOMAIN content[g],
                        content[f][i].task = content[g][j].task
                 PROVE  content[f][i].message < content[g][j].message
      BY DEF SortedByName
    <2>1. TypeOK /\ OneName /\ NewestInv /\ OrderInv /\ ArchiveSorted
      BY DEF Inv, SortedInv
    <2>2. i \in 1 .. Len(content[f]) /\ j \in 1 .. Len(content[g])
      BY <2>1, ContentIs
    <2>3. f # NoFile /\ g # NoFile /\ f \in Int /\ g \in Int
      BY <2>1, Numbers
    <2>4. PICK p \in Paths, n \in Names :
            /\ archive[p][n] = f
            /\ current[p] = g \/ \E m \in Names : n < m /\ archive[p][m] = g
      BY DEF NamedBefore
    <2>5. f < g
      <3>1. CASE current[p] = g
        BY <2>1, <2>3, <2>4, <3>1 DEF NewestInv, OneName
      <3>2. CASE \E m \in Names : n < m /\ archive[p][m] = g
        BY <2>1, <2>3, <2>4, <3>2 DEF ArchiveSorted
      <3> QED
        BY <2>4, <3>1, <3>2
    <2> QED
      BY <2>1, <2>2, <2>5 DEF OrderInv
  <1> QED
    BY <1>1, InvCorrect, PTL

\* The piece before e.
Before(e) == [e EXCEPT !.piece = @ - 1, !.last = FALSE]

\* It is a piece of the same message.
LEMMA BeforeIs ==
  ASSUME NEW t, NEW m, NEW k \in Int, NEW last
  PROVE  Before([task |-> t, message |-> m, piece |-> k, last |-> last]) =
           [task |-> t, message |-> m, piece |-> k - 1, last |-> FALSE]
  <1>1. PICK no : no = FALSE
    BY Zenon
  <1>2. PICK r : r = [task |-> t, message |-> m, piece |-> k, last |-> last]
    OBVIOUS
  <1>3. [r EXCEPT !.piece = @ - 1] = [task |-> t, message |-> m, piece |-> k - 1, last |-> last]
    BY <1>2
  <1>4. [[task |-> t, message |-> m, piece |-> k - 1, last |-> last] EXCEPT !.last = no]
          = [task |-> t, message |-> m, piece |-> k - 1, last |-> no]
    OBVIOUS
  <1>5. Before(r) = [[r EXCEPT !.piece = @ - 1] EXCEPT !.last = no]
    BY <1>1, Zenon DEF Before
  <1> QED
    BY <1>1, <1>2, <1>3, <1>4, <1>5, Zenon

\* What is written goes behind the piece before it.
LEMMA PiecesTogetherNext ==
  ASSUME TypeOK, ControlOK, PartInv, PiecesTogether, [Next]_vars
  PROVE  PiecesTogether'
  <1>1. ASSUME NEW f \in Files, NEW i \in 1 .. Len(content[f]), content[f][i].piece > 1
        PROVE  \E h \in 1 .. i - 1 :
                 /\ content[f][h] = Before(content[f][i])
                 /\ \A j \in h + 1 .. i - 1 : content[f][j].task # content[f][i].task
    <2>1. i \in DOMAIN content[f]
      BY ContentIs
    <2> QED
      BY <1>1, <2>1, Zenon DEF PiecesTogether, Before
  <1>2. ASSUME TypeOK', NEW f \in Files', NEW i \in DOMAIN content'[f]
        PROVE  DOMAIN content'[f] = 1 .. Len(content'[f]) /\ i \in 1 .. Len(content'[f])
    <2> DEFINE S == Seq(Pieces)
    <2>1. content' \in Seq(S) /\ f \in 1 .. Len(content')
      BY <1>2 DEF TypeOK, Files
    <2>2. content'[f] \in S
      <3> HIDE DEF S
      <3> QED
        BY <2>1, ElementIn
    <2>3. DOMAIN content'[f] = 1 .. Len(content'[f])
      BY <2>2, DomainIs
    <2> QED
      BY <1>2, <2>3
  <1>3. TypeOK'
    BY TypeNext
  <1> SUFFICES ASSUME NEW f \in Files', NEW i \in 1 .. Len(content'[f]),
                      content'[f][i].piece > 1
               PROVE  \E h \in 1 .. i - 1 :
                        /\ content'[f][h] = Before(content'[f][i])
                        /\ \A j \in h + 1 .. i - 1 :
                             content'[f][j].task # content'[f][i].task
    <2> SUFFICES ASSUME NEW f \in Files', NEW i \in DOMAIN content'[f], content'[f][i].piece > 1
                 PROVE  \E h \in 1 .. i - 1 :
                          /\ content'[f][h] = Before(content'[f][i])
                          /\ \A j \in h + 1 .. i - 1 :
                               content'[f][j].task # content'[f][i].task
      BY Zenon DEF PiecesTogether, Before
    <2>1. i \in 1 .. Len(content'[f])
      BY <1>2, <1>3
    <2> QED
      BY <2>1
  <1>4. CASE f \in Files /\ content'[f] = content[f]
    BY <1>1, <1>4
  <1>5. ASSUME NEW t \in Tasks, OpenFile(t)
        PROVE  f \in Files /\ content'[f] = content[f]
    <2>1. CASE Creates(t)
      <3>1. f \in Files \/ f = Len(content) + 1
        BY <2>1, CreateEffect, ContentIs DEF Files
      <3>2. f # Len(content) + 1
        BY <2>1, CreateEffect
      <3> QED
        BY <2>1, <3>1, <3>2, CreateEffect
    <2>2. CASE Opens(t) \/ OpensNothing(t)
      BY <2>2 DEF Opens, OpensNothing, Files
    <2> QED
      BY <1>5, <2>1, <2>2, OpenEffect
  <1>6. ASSUME NEW t \in Tasks, Between(t) \/ Move(t)
        PROVE  f \in Files /\ content'[f] = content[f]
    BY <1>6, BetweenEffect, MoveIs DEF Files
  <1>7. CASE Tick \/ UNCHANGED vars
    BY <1>4, <1>7 DEF Tick, vars, diskVars, Files
  <1>8. ASSUME NEW t \in Tasks, NEW last \in BOOLEAN, Writes(t, last)
        PROVE  \E h \in 1 .. i - 1 :
                 /\ content'[f][h] = Before(content'[f][i])
                 /\ \A j \in h + 1 .. i - 1 : content'[f][j].task # content'[f][i].task
    <2>1. PICK n : n = Len(content[file[t]]) + 1
      OBVIOUS
    <2>2. PICK e : e = [task |-> t, message |-> next[t], piece |-> piece[t] + 1, last |-> last]
      OBVIOUS
    <2>3. /\ file[t] \in Files /\ n \in Nat /\ n > 0 /\ Len(content[file[t]]) = n - 1
          /\ Files' = Files
          /\ \A g \in Files : g # file[t] => content'[g] = content[g]
          /\ Len(content'[file[t]]) = n
          /\ \A k \in 1 .. n - 1 : content'[file[t]][k] = content[file[t]][k]
          /\ content'[file[t]][n] = e
      <3>1. Files' = Files
        BY <1>8, WriteEffect DEF Files
      <3>2. file[t] \in Files /\ Len(content[file[t]]) \in Nat
        BY <1>8, WriteEffect, ContentIs
      <3>3. n \in Nat /\ n > 0 /\ Len(content[file[t]]) = n - 1
        BY <2>1, <3>2
      <3> QED
        BY <1>8, <2>1, <2>2, <3>1, <3>2, <3>3, WriteEffect
    <2>4. CASE f # file[t]
      BY <1>4, <2>3, <2>4
    <2>5. CASE f = file[t] /\ i # n
      <3>1. i \in 1 .. n - 1 /\ content'[f][i] = content[f][i]
        BY <2>3, <2>5
      <3>2. PICK h \in 1 .. i - 1 :
              /\ content[f][h] = Before(content[f][i])
              /\ \A j \in h + 1 .. i - 1 : content[f][j].task # content[f][i].task
        <4>1. i \in 1 .. Len(content[f]) /\ f \in Files /\ content[f][i].piece > 1
          BY <2>3, <2>5, <3>1
        <4> QED
          BY <1>1, <4>1
      <3>3. \A k \in 1 .. i - 1 : k \in 1 .. n - 1
        BY <2>3, <3>1
      <3>4. \A k \in h + 1 .. i - 1 : k \in 1 .. i - 1
        BY <3>1, <3>2
      <3> QED
        BY <2>3, <2>5, <3>1, <3>2, <3>3, <3>4
    <2>6. CASE f = file[t] /\ i = n
      <3>1. /\ e.piece = piece[t] + 1 /\ e.task = t /\ piece[t] \in Int
            /\ Before(e) =
                 [task |-> t, message |-> next[t], piece |-> piece[t], last |-> FALSE]
        <4>1. piece[t] \in Int
          BY FilesConstants DEF TypeOK
        <4>2. (piece[t] + 1) - 1 = piece[t] /\ piece[t] + 1 \in Int
          BY <4>1
        <4>3. e.piece = piece[t] + 1 /\ e.task = t
          BY <2>2
        <4>4. Before(e) = [task |-> t, message |-> next[t],
                           piece |-> (piece[t] + 1) - 1, last |-> FALSE]
          BY <2>2, <4>2, BeforeIs
        <4> QED
          BY <4>1, <4>2, <4>3, <4>4
      <3>2. piece[t] # 0
        BY <2>3, <2>6, <3>1
      <3>3. PICK h \in 1 .. n - 1 :
              /\ content[f][h] = [task |-> t, message |-> next[t],
                                  piece |-> piece[t], last |-> FALSE]
              /\ \A j \in h + 1 .. n - 1 : content[f][j].task # t
        <4>1. PICK h \in 1 .. Len(content[file[t]]) :
                /\ content[file[t]][h] = [task |-> t, message |-> next[t],
                                          piece |-> piece[t], last |-> FALSE]
                /\ \A j \in h + 1 .. Len(content[file[t]]) : content[file[t]][j].task # t
          BY <3>2 DEF PartInv
        <4> QED
          BY <2>3, <2>6, <4>1
      <3>4. \A j \in h + 1 .. n - 1 : j \in 1 .. n - 1
        BY <2>3, <3>3
      <3>5. content'[f][i] = e /\ \A j \in 1 .. n - 1 : content'[f][j] = content[f][j]
        BY <2>3, <2>6
      <3>6. h \in 1 .. i - 1 /\ content'[f][h] = Before(content'[f][i])
        BY <2>6, <3>1, <3>3, <3>5
      <3>7. \A j \in h + 1 .. i - 1 : content'[f][j].task # content'[f][i].task
        BY <2>6, <3>1, <3>3, <3>4, <3>5
      <3> QED
        BY <3>6, <3>7
    <2> QED
      BY <2>4, <2>5, <2>6
  <1> QED
    BY <1>4, <1>5, <1>6, <1>7, <1>8, Steps, WriteIs

\* A message that takes several write(2) has its pieces in one file and in order, though
\* other tasks write to the file between them and move it away (process_task.cpp:226-227).
THEOREM PiecesTogetherCorrect == Spec => []PiecesTogether
  <1>1. Init => PiecesTogether
    BY DEF Init, PiecesTogether, Files
  <1>2. Inv /\ PiecesTogether /\ [Next]_vars => PiecesTogether'
    BY PiecesTogetherNext DEF Inv
  <1> QED
    BY <1>1, <1>2, InvCorrect, PTL DEF Spec

-----------------------------------------------------------------------------
(* The messages of a connection as a sequence.                             *)

\* Place q is ahead of place p.
Precedes(q, p) == q[1] < p[1] \/ (q[1] = p[1] /\ q[2] < p[2])

\* The message with n - 1 of them ahead.
Ranked(t, n) ==
  {MessageAt(p) : p \in {q \in Places(t) : Cardinality(Ahead(Places(t), q)) = n - 1}}

The(S) == CHOOSE m \in S : TRUE

\* StoredFor in these words.
LEMMA StoredIs ==
  ASSUME NEW t
  PROVE  StoredFor(t) = [n \in 1 .. Cardinality(Places(t)) |-> The(Ranked(t, n))]
  BY DEF StoredFor, The, Ranked

\* A message of connection t is complete at place i of f.
EndsAt(t, f, i) == content[f][i].task = t /\ content[f][i].last

\* What a place is.
LEMMA PlacesAre ==
  ASSUME TypeOK, NEW t
  PROVE  \A p : p \in Places(t) <=>
           \E f \in Files : \E i \in 1 .. Len(content[f]) : p = <<f, i>> /\ EndsAt(t, f, i)
  <1>1. \A f \in Files : DOMAIN content[f] = 1 .. Len(content[f])
    BY ContentIs
  <1> QED
    BY <1>1 DEF Places, Ends, EndsAt

\* Of two places one is ahead at most.
LEMMA PlacesOrdered ==
  ASSUME TypeOK, NEW t, NEW p \in Places(t)
  PROVE  p[1] \in Int /\ p[2] \in Int /\ ~Precedes(p, p)
  <1>1. PICK f \in Files : \E i \in 1 .. Len(content[f]) : p = <<f, i>>
    BY PlacesAre
  <1>2. PICK i \in 1 .. Len(content[f]) : p = <<f, i>>
    BY <1>1
  <1>3. f \in Int /\ i \in Int
    BY Numbers
  <1> QED
    BY <1>2, <1>3 DEF Precedes

\* Where a connection's messages stay what is stored stays.
LEMMA SameStored ==
  ASSUME NEW t, Places(t)' = Places(t), \A p \in Places(t) : MessageAt(p)' = MessageAt(p)
  PROVE  StoredFor(t)' = StoredFor(t)
  <1>1. \A p : Ahead(Places(t), p)' = Ahead(Places(t), p)
    BY DEF Ahead
  <1>2. \A n : Ranked(t, n)' = Ranked(t, n)
    BY <1>1 DEF Ranked
  <1>3. StoredFor(t)' = [n \in 1 .. Cardinality(Places(t)) |-> The(Ranked(t, n)')]
    BY StoredIs DEF StoredFor, The, Ranked
  <1> QED
    BY <1>2, <1>3, StoredIs

\* The last write of a message puts it at place new, behind all others of its connection;
\* nothing else changes its place.
Placed(t, last, new) ==
  /\ last => Places(t)' = Places(t) \cup {new}
  /\ ~last => Places(t)' = Places(t)
  /\ \A q \in Places(t) : Precedes(q, new) /\ ~Precedes(new, q)
  /\ \A u \in Tasks : \A q \in Places(u) : MessageAt(q)' = MessageAt(q)
  /\ MessageAt(new)' = next[t]
  /\ \A u \in Tasks : u # t => Places(u)' = Places(u)
  /\ new[1] \in Int /\ new[2] \in Int

\* Each write does that.
LEMMA WritePlace ==
  ASSUME TypeOK, TypeOK', ControlOK, NewestInv,
         NEW t \in Tasks, NEW last \in BOOLEAN, Writes(t, last), NEW new,
         new = <<file[t], Len(content[file[t]]) + 1>>
  PROVE  Placed(t, last, new)
  <1>1. PICK h : h = file[t]
    OBVIOUS
  <1>2. PICK n : n = Len(content[h]) + 1
    OBVIOUS
  <1>3. /\ h \in Files /\ h # NoFile /\ Files' = Files
        /\ \A f \in Files : f # h => content'[f] = content[f]
        /\ Len(content'[h]) = n
        /\ \A i \in 1 .. Len(content[h]) : content'[h][i] = content[h][i]
        /\ content'[h][n].task = t /\ content'[h][n].message = next[t]
        /\ content'[h][n].last = last
    <2>1. /\ h \in Files /\ Len(content') = Len(content)
          /\ \A f \in Files : f # h => content'[f] = content[f]
          /\ Len(content'[h]) = n
          /\ \A i \in 1 .. Len(content[h]) : content'[h][i] = content[h][i]
          /\ content'[h][n] = [task |-> t, message |-> next[t],
                               piece |-> piece[t] + 1, last |-> last]
      BY <1>1, <1>2, WriteEffect
    <2>2. Files' = Files /\ h # NoFile
      BY <2>1, Numbers DEF Files
    <2>3. /\ content'[h][n].task = t /\ content'[h][n].message = next[t]
          /\ content'[h][n].last = last
      BY <2>1
    <2> QED
      BY <2>1, <2>2, <2>3
  <1>4. h \in Int /\ n \in Nat /\ Len(content[h]) = n - 1 /\ new = <<h, n>>
    BY <1>1, <1>2, <1>3, ContentIs, Numbers
  <1>5. ASSUME NEW u, NEW f \in Files, NEW i
        PROVE  /\ i \in 1 .. Len(content'[f]) /\ EndsAt(u, f, i)'
                    => \/ i \in 1 .. Len(content[f]) /\ EndsAt(u, f, i)
                       \/ f = h /\ i = n /\ u = t /\ last
               /\ i \in 1 .. Len(content[f]) /\ EndsAt(u, f, i)
                    => i \in 1 .. Len(content'[f]) /\ EndsAt(u, f, i)'
    <2>1. CASE f # h
      BY <1>3, <2>1 DEF EndsAt
    <2>2. CASE f = h
      <3>1. i \in 1 .. n <=> i \in 1 .. Len(content[h]) \/ i = n
        BY <1>4
      <3>2. n \notin 1 .. Len(content[h])
        BY <1>4
      <3> QED
        BY <1>3, <2>2, <3>1, <3>2 DEF EndsAt
    <2> QED
      BY <2>1, <2>2
  <1>6. \A u, p : p \in Places(u)' <=> p \in Places(u) \/ (u = t /\ last /\ p = new)
    <2>1. \A u, p : p \in Places(u)' <=>
            \E f \in Files : \E i \in 1 .. Len(content'[f]) : p = <<f, i>> /\ EndsAt(u, f, i)'
      <3> DEFINE S == Seq(Pieces)
      <3>1. content' \in Seq(S)
        BY WriteEffect
      <3>2. ASSUME NEW f \in Files
            PROVE  DOMAIN content'[f] = 1 .. Len(content'[f])
        <4>1. f \in 1 .. Len(content')
          BY <1>3 DEF Files
        <4>2. content'[f] \in S
          <5> HIDE DEF S
          <5> QED
            BY <3>1, <4>1, ElementIn
        <4> QED
          BY <4>2, DomainIs
      <3> QED
        BY <1>3, <3>2 DEF Places, Ends, EndsAt
    <2>2. n \in 1 .. Len(content'[h])
      BY <1>3, <1>4
    <2>3. ASSUME NEW u, NEW p, p \in Places(u)'
          PROVE  p \in Places(u) \/ (u = t /\ last /\ p = new)
      <3>1. PICK f \in Files : \E i \in 1 .. Len(content'[f]) : p = <<f, i>> /\ EndsAt(u, f, i)'
        BY <2>1, <2>3
      <3>2. PICK i \in 1 .. Len(content'[f]) : p = <<f, i>> /\ EndsAt(u, f, i)'
        BY <3>1
      <3>3. \/ i \in 1 .. Len(content[f]) /\ EndsAt(u, f, i)
            \/ f = h /\ i = n /\ u = t /\ last
        BY <1>5, <3>2
      <3>4. CASE i \in 1 .. Len(content[f]) /\ EndsAt(u, f, i)
        BY <3>2, <3>4, PlacesAre
      <3>5. CASE f = h /\ i = n /\ u = t /\ last
        BY <1>4, <3>2, <3>5
      <3> QED
        BY <3>3, <3>4, <3>5
    <2>4. ASSUME NEW u, NEW p \in Places(u)
          PROVE  p \in Places(u)'
      <3>1. PICK f \in Files : \E i \in 1 .. Len(content[f]) : p = <<f, i>> /\ EndsAt(u, f, i)
        BY PlacesAre
      <3>2. PICK i \in 1 .. Len(content[f]) : p = <<f, i>> /\ EndsAt(u, f, i)
        BY <3>1
      <3>3. i \in 1 .. Len(content'[f]) /\ EndsAt(u, f, i)'
        BY <1>5, <3>2
      <3> QED
        BY <2>1, <3>2, <3>3
    <2>5. last => new \in Places(t)'
      <3>1. last => EndsAt(t, h, n)'
        BY <1>3 DEF EndsAt
      <3> QED
        BY <1>3, <1>4, <2>1, <2>2, <3>1
    <2> QED
      BY <2>3, <2>4, <2>5
  <1>7. \A u \in Tasks : \A q \in Places(u) : MessageAt(q)' = MessageAt(q)
    BY <1>3, PlacesAre DEF MessageAt
  <1>8. MessageAt(new)' = next[t]
    BY <1>3, <1>4 DEF MessageAt
  <1>9. ASSUME NEW q \in Places(t)
        PROVE  Precedes(q, new) /\ ~Precedes(new, q)
    <2>1. PICK f \in Files : \E i \in 1 .. Len(content[f]) : q = <<f, i>> /\ EndsAt(t, f, i)
      BY PlacesAre
    <2>2. PICK i \in 1 .. Len(content[f]) : q = <<f, i>> /\ EndsAt(t, f, i)
      BY <2>1
    <2>3. f \in Int /\ i \in Int /\ ~(f > h)
      BY <1>1, <1>3, <2>2, Numbers DEF NewestInv, Wrote, EndsAt
    <2>4. f = h => i < n
      BY <1>4, <2>2
    <2> QED
      BY <1>4, <2>2, <2>3, <2>4 DEF Precedes
  <1>10. (last => Places(t)' = Places(t) \cup {new}) /\ (~last => Places(t)' = Places(t))
    <2>1. CASE last
      <3>1. \A p : p \in Places(t)' <=> p \in Places(t) \/ p = new
        BY <1>6, <2>1
      <3> QED
        BY <2>1, <3>1
    <2>2. CASE ~last
      <3>1. \A p : p \in Places(t)' <=> p \in Places(t)
        BY <1>6, <2>2
      <3> QED
        BY <2>2, <3>1
    <2> QED
      BY <2>1, <2>2
  <1>11. ASSUME NEW u \in Tasks, u # t
         PROVE  Places(u)' = Places(u)
    <2>1. \A p : p \in Places(u)' <=> p \in Places(u)
      BY <1>6, <1>11
    <2> QED
      BY <2>1
  <1>12. new[1] \in Int /\ new[2] \in Int
    BY <1>4
  <1> QED
    BY <1>7, <1>8, <1>9, <1>10, <1>11, <1>12 DEF Placed

\* A sequence of k elements, whatever they are.
Lists(s, k) == s = [n \in 1 .. k |-> s[n]]

\* What is a sequence longer by e.
LEMMA AppendIs ==
  ASSUME NEW k \in Nat, NEW s, NEW r, NEW e, Lists(s, k), Lists(r, k + 1),
         \A n \in 1 .. k : r[n] = s[n], r[k + 1] = e
  PROVE  r = Append(s, e)
  <1> DEFINE T == {s[n] : n \in 1 .. k} \cup {e}
  <1>1. s \in Seq(T) /\ Len(s) = k
    BY DEF Lists
  <1>2. \A n \in 1 .. k + 1 : n \in 1 .. k \/ n = k + 1
    OBVIOUS
  <1>3. \A n \in 1 .. k + 1 : r[n] \in T
    BY <1>2
  <1>4. r \in Seq(T) /\ Len(r) = k + 1
    BY <1>3 DEF Lists
  <1>5. e \in T
    OBVIOUS
  <1> HIDE DEF T
  <1>6. /\ Append(s, e) \in Seq(T) /\ Len(Append(s, e)) = k + 1
        /\ \A n \in 1 .. k : Append(s, e)[n] = s[n]
        /\ Append(s, e)[k + 1] = e
    BY <1>1, <1>5, AppendEffect
  <1>7. \A n \in 1 .. k + 1 : r[n] = Append(s, e)[n]
    BY <1>2, <1>6
  <1> QED
    BY <1>4, <1>6, <1>7, SeqEqual

\* So what is stored for it grows by its message with the last write.
LEMMA WriteStored ==
  ASSUME TypeOK, TypeOK', ControlOK, NewestInv,
         NEW t \in Tasks, NEW last \in BOOLEAN, last, Writes(t, last),
         IsFiniteSet(Places(t))
  PROVE  StoredFor(t)' = Append(StoredFor(t), next[t])
  <1>1. PICK new : new = <<file[t], Len(content[file[t]]) + 1>>
    OBVIOUS
  <1>2. /\ Places(t)' = Places(t) \cup {new}
        /\ \A q \in Places(t) : Precedes(q, new) /\ ~Precedes(new, q)
        /\ \A q \in Places(t) : MessageAt(q)' = MessageAt(q)
        /\ MessageAt(new)' = next[t]
        /\ new[1] \in Int /\ new[2] \in Int
    <2>1. Placed(t, last, new)
      BY <1>1, WritePlace
    <2>2. Places(t)' = Places(t) \cup {new}
      BY <2>1 DEF Placed
    <2>3. \A q \in Places(t) : Precedes(q, new) /\ ~Precedes(new, q)
      BY <2>1 DEF Placed
    <2>4. (\A q \in Places(t) : MessageAt(q)' = MessageAt(q)) /\ MessageAt(new)' = next[t]
      BY <2>1 DEF Placed
    <2>5. new[1] \in Int /\ new[2] \in Int
      <3>1. file[t] \in Files
        BY WriteEffect
      <3>2. file[t] \in Int /\ Len(content[file[t]]) \in Nat
        BY <3>1, ContentIs, Numbers
      <3> QED
        BY <1>1, <3>2
    <2> QED
      BY <2>1, <2>2, <2>3, <2>4, <2>5
  <1>3. ~Precedes(new, new) /\ new \notin Places(t)
    BY <1>2 DEF Precedes
  <1>4. PICK k \in Nat : k = Cardinality(Places(t))
    BY FS_CardinalityType
  <1>5. Cardinality(Places(t)') = k + 1
    BY <1>2, <1>3, <1>4, FS_AddElement
  <1>6. \A p \in Places(t) : Ahead(Places(t), p)' = Ahead(Places(t), p)
    BY <1>2 DEF Ahead, Precedes
  <1>7. Ahead(Places(t), new)' = Places(t)
    BY <1>2, <1>3 DEF Ahead, Precedes
  <1>8. ASSUME NEW p \in Places(t)
        PROVE  Cardinality(Ahead(Places(t), p)) # k
    <2>1. Ahead(Places(t), p) \in SUBSET Places(t) /\ p \notin Ahead(Places(t), p)
      BY PlacesOrdered DEF Ahead, Precedes
    <2> QED
      BY <1>4, <2>1, FS_Subset
  <1>9. ASSUME NEW n \in 1 .. k
        PROVE  Ranked(t, n)' = Ranked(t, n)
    <2>1. n - 1 # k
      BY <1>4
    <2> QED
      BY <1>2, <1>4, <1>6, <1>7, <2>1 DEF Ranked
  <1>10. Ranked(t, k + 1)' = {next[t]}
    <2>1. (k + 1) - 1 = k
      OBVIOUS
    <2> QED
      BY <1>2, <1>4, <1>6, <1>7, <1>8, <2>1 DEF Ranked
  <1>11. StoredFor(t)' = [n \in 1 .. k + 1 |-> The(Ranked(t, n)')]
    BY <1>5 DEF StoredFor, The, Ranked
  <1>12. StoredFor(t) = [n \in 1 .. k |-> The(Ranked(t, n))]
    BY <1>4, StoredIs
  <1>13. The({next[t]}) = next[t]
    BY DEF The
  <1>14. PICK s : s = StoredFor(t)
    OBVIOUS
  <1>15. PICK r : r = StoredFor(t)'
    OBVIOUS
  <1>16. Lists(s, k) /\ \A n \in 1 .. k : s[n] = The(Ranked(t, n))
    BY <1>12, <1>14 DEF Lists
  <1>17. Lists(r, k + 1) /\ \A n \in 1 .. k + 1 : r[n] = The(Ranked(t, n)')
    BY <1>11, <1>15 DEF Lists
  <1>18. \A n \in 1 .. k : r[n] = s[n]
    BY <1>9, <1>16, <1>17
  <1>19. r[k + 1] = next[t]
    BY <1>10, <1>13, <1>17
  <1>20. r = Append(s, next[t])
    BY <1>16, <1>17, <1>18, <1>19, AppendIs
  <1> QED
    BY <1>14, <1>15, <1>20

\* Every other step leaves all messages where they are.
LEMMA PlacesKept ==
  ASSUME TypeOK, [Next]_vars, \A t \in Tasks : ~Write(t), NEW u \in Tasks
  PROVE  Places(u)' = Places(u) /\ StoredFor(u)' = StoredFor(u)
  <1>1. CASE content' = content
    <2>1. Places(u)' = Places(u) /\ \A p : MessageAt(p)' = MessageAt(p)
      BY <1>1 DEF Places, Ends, Files, MessageAt
    <2> QED
      BY <2>1, SameStored
  <1>2. CASE \E t \in Tasks : Creates(t)
    <2>1. PICK t \in Tasks : Creates(t)
      BY <1>2
    <2>2. PICK n : n = Len(content) + 1
      OBVIOUS
    <2>3. /\ content' \in Seq(Seq(Pieces)) /\ Len(content') = n
          /\ \A f \in Files : content'[f] = content[f]
          /\ Len(content'[n]) = 0
      BY <2>1, <2>2, CreateEffect
    <2>4. /\ n \in Nat /\ n \notin Files
          /\ \A f : f \in Files' <=> f \in Files \/ f = n
      BY <2>2, <2>3, ContentIs DEF Files
    <2>5. DOMAIN content'[n] = {}
      <3> DEFINE S == Seq(Pieces)
      <3>1. content'[n] \in S
        <4> HIDE DEF S
        <4>1. content' \in Seq(S)
          BY <2>3 DEF S
        <4>2. n \in 1 .. Len(content')
          BY <2>2, <2>3, ContentIs
        <4> QED
          BY <4>1, <4>2, ElementIn
      <3>2. DOMAIN content'[n] = 1 .. Len(content'[n])
        BY <3>1, DomainIs
      <3> QED
        BY <2>3, <3>2
    <2>6. Places(u)' = Places(u)
      <3>1. \A f \in Files : ({f} \X Ends(u, f))' = {f} \X Ends(u, f)
        BY <2>3 DEF Ends
      <3>2. ({n} \X Ends(u, n))' = {}
        BY <2>5 DEF Ends
      <3> QED
        BY <2>4, <3>1, <3>2 DEF Places
    <2>7. \A p \in Places(u) : MessageAt(p)' = MessageAt(p)
      BY <2>3, PlacesAre DEF MessageAt
    <2> QED
      BY <2>6, <2>7, SameStored
  <1>3. content' = content \/ \E t \in Tasks : Creates(t)
    <2>1. ASSUME NEW t \in Tasks, OpenFile(t)
          PROVE  content' = content \/ Creates(t)
      BY <2>1, OpenEffect DEF Opens, OpensNothing
    <2>2. ASSUME NEW t \in Tasks, Between(t) \/ Move(t)
          PROVE  content' = content
      BY <2>2, BetweenEffect, MoveIs
    <2>3. Tick \/ UNCHANGED vars => content' = content
      BY DEF Tick, vars, diskVars
    <2> QED
      BY Steps, <2>1, <2>2, <2>3
  <1> QED
    BY <1>1, <1>2, <1>3

\* A connection has finitely many messages in the files.
PlacesFinite == \A t \in Tasks : IsFiniteSet(Places(t))

\* They become one more at most.
LEMMA PlacesFiniteNext ==
  ASSUME TypeOK, TypeOK', ControlOK, NewestInv, PlacesFinite, [Next]_vars
  PROVE  PlacesFinite'
  <1> SUFFICES ASSUME NEW u \in Tasks
               PROVE  IsFiniteSet(Places(u)')
    BY DEF PlacesFinite
  <1>1. IsFiniteSet(Places(u))
    BY DEF PlacesFinite
  <1>2. CASE \A t \in Tasks : ~Write(t)
    BY <1>1, <1>2, PlacesKept
  <1>3. ASSUME NEW t \in Tasks, NEW last \in BOOLEAN, Writes(t, last)
        PROVE  IsFiniteSet(Places(u)')
    <2>1. PICK new : new = <<file[t], Len(content[file[t]]) + 1>>
      OBVIOUS
    <2>2. Placed(t, last, new)
      BY <1>3, <2>1, WritePlace
    <2>3. Places(u)' = Places(u) \/ Places(u)' = Places(u) \cup {new}
      BY <2>2 DEF Placed
    <2> QED
      BY <1>1, <2>3, FS_AddElement
  <1> QED
    BY <1>2, <1>3, WriteIs

\* Each step is, for each connection, a step of LogStream or none.
LEMMA StreamStep ==
  ASSUME TypeOK, TypeOK', ControlOK, NewestInv, PlacesFinite, [Next]_vars, NEW u \in Tasks
  PROVE  \/ Stream(u)!Next
         \/ UNCHANGED <<next[u], StoredFor(u), pc[u] # "deleted">>
  <1>1. ASSUME NEW t \in Tasks, NEW last \in BOOLEAN, Writes(t, last)
        PROVE  Stream(u)!Next \/ UNCHANGED <<next[u], StoredFor(u), pc[u] # "deleted">>
    <2>1. /\ pc[t] = "write" /\ pc'[t] \in {"write", "tell"} /\ next[t] <= Messages
          /\ IF last THEN next'[t] = next[t] + 1 ELSE next'[t] = next[t]
          /\ u # t => pc'[u] = pc[u] /\ next'[u] = next[u]
      <3>1. next = [v \in Tasks |-> next[v]] /\ pc = [v \in Tasks |-> pc[v]]
        BY DEF TypeOK
      <3>2. CASE last
        <4>1. next' = [next EXCEPT ![t] = @ + 1] /\ pc' = [pc EXCEPT ![t] = "tell"]
          BY <1>1, <3>2 DEF Writes
        <4> QED
          BY <1>1, <3>1, <3>2, <4>1 DEF Writes, ControlOK
      <3>3. CASE ~last
        BY <1>1, <3>3 DEF Writes, ControlOK
      <3> QED
        BY <3>2, <3>3
    <2>2. CASE u = t /\ last
      <3>1. StoredFor(t)' = Append(StoredFor(t), next[t])
        BY <1>1, <2>2, WriteStored DEF PlacesFinite
      <3> QED
        BY <2>1, <2>2, <3>1 DEF Stream!Next, Stream!Take
    <2>3. CASE u # t \/ ~last
      <3>1. PICK new : new = <<file[t], Len(content[file[t]]) + 1>>
        OBVIOUS
      <3>2. Placed(t, last, new)
        BY <1>1, <3>1, WritePlace
      <3>3. Places(u)' = Places(u) /\ \A q \in Places(u) : MessageAt(q)' = MessageAt(q)
        BY <2>3, <3>2 DEF Placed
      <3>4. StoredFor(u)' = StoredFor(u)
        BY <3>3, SameStored
      <3> QED
        BY <2>1, <2>3, <3>4
    <2> QED
      BY <2>2, <2>3
  <1>2. CASE \A t \in Tasks : ~Write(t)
    <2>1. StoredFor(u)' = StoredFor(u)
      BY <1>2, PlacesKept
    <2>2. ASSUME NEW t \in Tasks, OpenFile(t)
          PROVE  Stream(u)!Next \/ UNCHANGED <<next[u], StoredFor(u), pc[u] # "deleted">>
      <3>1. pc[t] = "idle" /\ next[t] <= Messages
        BY <2>2, OpenEffect
      <3>2. /\ pc'[u] # "deleted" <=> pc[u] # "deleted"
            /\ next'[u] = next[u] \/ (u = t /\ next'[u] = next[u] + 1)
        <4>1. next' = next \/ next' = [next EXCEPT ![t] = @ + 1]
          BY <2>2, OpenEffect DEF Opens, Creates
        <4>2. pc' = pc \/ pc' = [pc EXCEPT ![t] = "write"]
          BY <2>2, OpenEffect
        <4>3. pc = [v \in Tasks |-> pc[v]] /\ next = [v \in Tasks |-> next[v]]
          BY DEF TypeOK
        <4>4. pc'[u] = pc[u] \/ (u = t /\ pc'[u] = "write")
          BY <4>2, <4>3
        <4>5. next'[u] = next[u] \/ (u = t /\ next'[u] = next[u] + 1)
          BY <4>1, <4>3
        <4> QED
          BY <3>1, <4>4, <4>5
      <3> QED
        BY <2>1, <3>1, <3>2 DEF Stream!Next, Stream!Take
    <2>3. ASSUME NEW t \in Tasks, Move(t)
          PROVE  UNCHANGED <<next[u], StoredFor(u), pc[u] # "deleted">>
      <3>1. next' = next /\ (pc'[u] # "deleted" <=> pc[u] # "deleted")
        BY <2>3, MoveIs DEF TypeOK
      <3> QED
        BY <2>1, <3>1
    <2>4. ASSUME NEW t \in Tasks, Between(t)
          PROVE  Stream(u)!Next \/ UNCHANGED <<next[u], StoredFor(u), pc[u] # "deleted">>
      <3>1. /\ next' = next /\ pc[t] # "deleted"
            /\ u # t => pc'[u] = pc[u]
        BY <2>4, BetweenEffect
      <3>2. CASE u = t /\ pc'[t] = "deleted"
        BY <2>1, <3>1, <3>2 DEF Stream!Next, Stream!Close
      <3>3. CASE u # t \/ pc'[t] # "deleted"
        BY <2>1, <3>1, <3>3
      <3> QED
        BY <3>2, <3>3
    <2>5. CASE Tick \/ UNCHANGED vars
      <3>1. next' = next /\ pc' = pc
        BY <2>5 DEF Tick, vars, taskVars
      <3> QED
        BY <2>1, <3>1
    <2> QED
      BY Steps, <1>2, <2>2, <2>3, <2>4, <2>5
  <1> QED
    BY <1>1, <1>2, WriteIs

\* Before the first message.
LEMMA StreamInit ==
  ASSUME Init, NEW t \in Tasks
  PROVE  Stream(t)!Init /\ IsFiniteSet(Places(t))
  <1>1. Places(t) = {}
    BY DEF Init, Places, Files
  <1>2. IsFiniteSet(Places(t)) /\ Cardinality(Places(t)) = 0
    BY <1>1, FS_EmptySet
  <1>3. StoredFor(t) = <<>>
    BY <1>2, StoredIs
  <1> QED
    BY <1>2, <1>3 DEF Init, Stream!Init

\* Although tasks share files and move them away from each other, the messages of each
\* connection come to their ends in the files in order, each once or not at all, as
\* LogStream promises (process_task.cpp:206-249).
THEOREM EachStreamCorrect == Spec => EachStream
  <1>1. Init => PlacesFinite /\ \A t \in Tasks : Stream(t)!Init
    BY StreamInit DEF PlacesFinite
  <1>2. Spec => []PlacesFinite
    <2>1. Inv /\ Inv' /\ PlacesFinite /\ [Next]_vars => PlacesFinite'
      BY PlacesFiniteNext DEF Inv
    <2> QED
      BY <1>1, <2>1, InvCorrect, PTL DEF Spec
  <1>3. Inv /\ Inv' /\ PlacesFinite /\ [Next]_vars
          => [\A t \in Tasks :
                \/ Stream(t)!Next
                \/ UNCHANGED <<next[t], StoredFor(t), pc[t] # "deleted">>]_vars
    BY StreamStep DEF Inv
  <1> QED
    BY <1>1, <1>2, <1>3, InvCorrect, PTL DEF Spec, EachStream
=============================================================================
