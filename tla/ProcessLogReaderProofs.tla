----------------------- MODULE ProcessLogReaderProofs -----------------------
(***************************************************************************)
(* What holds of the reader (ProcessLogReader) for a log of any length, any *)
(* split size and any width of an int, whatever the application does to    *)
(* its files between two system calls.                                     *)
(***************************************************************************)
EXTENDS ProcessLogReader, SequenceTheorems, TLAPS

\* The application writes to the file it created last, and that one has the name or none.
NameInv ==
  /\ writer = created
  /\ path # NoFile => path = created

\* The bytes of each file increase, and those of a later file are greater.
ContentInv ==
  /\ \A f \in Files : f > created => Len(content[f]) = 0
  /\ \A f \in Files : Len(content[f]) <= clock
  /\ \A f \in Files : \A i \in 1 .. Len(content[f]) :
       /\ content[f][i] <= clock
       /\ \A j \in 1 .. Len(content[f]) : i < j => content[f][i] < content[f][j]
       /\ \A g \in Files : f < g =>
            \A j \in 1 .. Len(content[g]) : content[f][i] < content[g][j]

AppInv == NameInv /\ ContentInv

\* The file that is open, and the one that was moved away, while ReadNexBlock runs.
OpenInv ==
  /\ rpc \in {"compare", "move", "read"} => file # NoFile
  /\ rpc \in {"idle", "openMoved"} => file = NoFile
  /\ rpc \in {"compare", "move"} => moved = NoFile
  /\ file # NoFile /\ moved # NoFile => file = moved
  /\ file <= created /\ moved <= created

\* The reader never goes back to an older file than the one last_pos_ counts in, and
\* has read that one up to last_pos_ as long as it is the newest.
PassedInv ==
  /\ source <= created
  /\ file # NoFile => source <= file
  /\ moved # NoFile => source <= moved
  /\ source = created =>
       \A i \in 1 .. last_pos : i <= Len(content[source]) /\ content[source][i] \in Collected

\* The bytes of f after position p are newer than all of S.
Newer(f, p, S) ==
  \A i \in 1 .. Len(content[f]) : i > p => \A b \in S : b < content[f][i]

\* An int cannot tell the length of f.
Long(f) == Len(content[f]) > IntMax

\* Going on in f at last_pos_ reads nothing of S again, nor does starting again in a
\* file that has become too short; but a file whose length has become negative is
\* started again although it was read.
Ready(f, S)  == Newer(f, last_pos, S) \/ (last_pos = 0 /\ Long(f))
Shrunk(f, S) == last_pos <= Len(content[f]) \/ Newer(f, 0, S)

\* The files that ReadNexBlock may read next.
Candidates == {file, moved, path} \ {NoFile}

\* What the reader knows of the set S of bytes that it has read.
TwiceInv(S) ==
  /\ \A b \in S : b <= clock
  /\ \A f \in Candidates : Ready(f, S) /\ Shrunk(f, S)
  /\ \A f \in {file, moved} \ {NoFile} : \A g \in Files : f < g => Newer(g, 0, S)
  /\ rpc \in {"compare", "read"} /\ current_len >= 0 => Newer(file, last_pos, S)
  /\ rpc = "compare" /\ current_len < last_pos =>
       Newer(file, 0, S) \/ (current_len < 0 /\ Long(file))

\* No garbage was read, and every length tells something of its file.
Sound == Junk \notin Collected /\ LengthsTold

Increasing ==
  \A i, j \in DOMAIN collected : i < j => collected[i] < collected[j]

ReadOnce == Sound => Increasing /\ TwiceInv(Collected)

\* As long as the application leaves the files that are there alone, a length that was
\* measured is not too great, and last_pos_ is not beyond it.
Told(f) == Len(content[f]) <= IntMax

Kept ==
  /\ rpc \in {"compare", "move"} => path = file
  /\ rpc \in {"compare", "move", "read"} /\ Told(file) =>
       0 <= current_len /\ current_len <= Len(content[file])
  /\ rpc \in {"move", "read"} /\ Told(file) => last_pos <= current_len
  /\ rpc = "openMoved" /\ moved # NoFile /\ Told(moved) => last_pos <= Len(content[moved])

UntouchedInv == ~touched => Kept

-----------------------------------------------------------------------------

\* The type invariant in parts.
AppType ==
  /\ path \in Files \cup {NoFile}
  /\ writer \in Files
  /\ created \in Files
  /\ clock \in 0 .. MaxBytes
  /\ changes \in 0 .. MaxChanges
  /\ content \in [Files -> Seq(1 .. MaxBytes)]

ReaderType ==
  /\ rpc \in {"idle", "compare", "move", "openMoved", "read", "crashed"}
  /\ file \in Files \cup {NoFile}
  /\ current_len \in -(IntMax + 1) .. IntMax
  /\ last_pos \in Nat
  /\ moved \in Files \cup {NoFile}
  /\ source \in Files \cup {NoFile}

HistoryType == collected \in Seq(0 .. MaxBytes)
TouchType   == touched \in BOOLEAN

\* The parts are the whole.
LEMMA TypeParts == TypeOK <=> AppType /\ ReaderType /\ HistoryType /\ TouchType
  BY DEF TypeOK, AppType, ReaderType, HistoryType, TouchType

\* What comes out of ftell is an int: itself as long as it fits, and negative beyond that
\* up to what an unsigned int holds (process_log_reader.cpp:71).
LEMMA ToIntIs ==
  ASSUME NEW n \in Nat
  PROVE  /\ ToInt(n) \in -(IntMax + 1) .. IntMax
         /\ n <= IntMax => ToInt(n) = n
         /\ n > IntMax /\ n <= 2 * IntMax + 1 => ToInt(n) < 0
  <1> USE ReaderConstants
  <1> DEFINE m == 2 * (IntMax + 1)
             a == n + IntMax + 1
  <1>1. m \in Nat /\ m > 0 /\ a \in Nat /\ m = 2 * IntMax + 2
    OBVIOUS
  <1>2. ToInt(n) = (a % m) - (IntMax + 1)
    BY DEF ToInt
  <1> HIDE DEF m
  <1>3. a % m \in 0 .. m - 1
    BY <1>1
  <1>4. a < m => a % m = a
    BY <1>1
  <1>5. m <= a /\ a < 2 * m => a % m = a - m
    BY <1>1
  <1> QED
    BY <1>1, <1>2, <1>3, <1>4, <1>5

\* The application appends one byte to its file.
LEMMA AppendEffect ==
  ASSUME AppType, Append1
  PROVE  /\ content' \in [Files -> Seq(1 .. MaxBytes)]
         /\ \A f \in Files : f # writer => content'[f] = content[f]
         /\ Len(content'[writer]) = Len(content[writer]) + 1
         /\ \A i \in 1 .. Len(content[writer]) : content'[writer][i] = content[writer][i]
         /\ content'[writer][Len(content[writer]) + 1] = clock + 1
  <1>1. /\ content[writer] \in Seq(1 .. MaxBytes) /\ writer \in Files
        /\ clock + 1 \in 1 .. MaxBytes
        /\ content \in [Files -> Seq(1 .. MaxBytes)]
    BY ReaderConstants DEF AppType, Append1
  <1> DEFINE q == Append(content[writer], clock + 1)
  <1>2. /\ q \in Seq(1 .. MaxBytes)
        /\ Len(q) = Len(content[writer]) + 1
        /\ \A i \in 1 .. Len(content[writer]) : q[i] = content[writer][i]
        /\ q[Len(content[writer]) + 1] = clock + 1
    BY <1>1
  <1>3. content' = [content EXCEPT ![writer] = q]
    BY DEF Append1
  <1> HIDE DEF q
  <1> QED
    BY <1>1, <1>2, <1>3

\* What \o does, element by element.
LEMMA ConcatEffect ==
  ASSUME NEW S, NEW q \in Seq(S), NEW b \in Seq(S)
  PROVE  /\ q \o b \in Seq(S)
         /\ Len(q \o b) = Len(q) + Len(b)
         /\ \A i \in DOMAIN q : (q \o b)[i] = q[i]
         /\ \A i \in 1 .. Len(b) : (q \o b)[Len(q) + i] = b[i]
  OBVIOUS

\* The bytes of the block.
ByteRead(i) ==
  IF last_pos + i <= Len(content[file]) THEN content[file][last_pos + i] ELSE Junk

\* ReadBlock, when the length is not negative: what it adds to what was read
\* (process_log_reader.cpp:135-146).
LEMMA ReadEffect ==
  ASSUME AppType, ReaderType, HistoryType, ReadBlock, file # NoFile, BlockLen >= 0
  PROVE  /\ BlockLen \in Nat
         /\ collected' \in Seq(0 .. MaxBytes)
         /\ Len(collected') = Len(collected) + BlockLen
         /\ \A i \in DOMAIN collected : collected'[i] = collected[i]
         /\ \A i \in 1 .. BlockLen : collected'[Len(collected) + i] = ByteRead(i)
  <1> USE ReaderConstants
  <1>1. BlockLen \in Nat
    BY DEF BlockLen, ReaderType
  <1>2. \A i \in 1 .. BlockLen : ByteRead(i) \in 0 .. MaxBytes
    <2> SUFFICES ASSUME NEW i \in 1 .. BlockLen, last_pos + i <= Len(content[file])
                 PROVE  content[file][last_pos + i] \in 0 .. MaxBytes
      BY DEF ByteRead, Junk
    <2>1. content[file] \in Seq(1 .. MaxBytes)
      BY DEF AppType, ReaderType
    <2>2. last_pos + i \in 1 .. Len(content[file])
      BY <1>1, <2>1 DEF ReaderType
    <2>3. content[file][last_pos + i] \in 1 .. MaxBytes
      BY <2>1, <2>2
    <2> QED
      BY <2>3
  <1> DEFINE b == [i \in 1 .. BlockLen |-> ByteRead(i)]
             n == BlockLen
             S == 0 .. MaxBytes
  <1>3. /\ b \in [1 .. n -> S]
        /\ \A i \in 1 .. n : b[i] = ByteRead(i)
    BY <1>2
  <1>4. collected' = collected \o b
    <2>1. ~(BlockLen < 0)
      BY <1>1
    <2>2. collected' = collected \o
            [i \in 1 .. BlockLen |->
               IF last_pos + i <= Len(content[file]) THEN content[file][last_pos + i] ELSE Junk]
      BY <2>1, Zenon DEF ReadBlock
    <2> QED
      BY <2>2, Zenon DEF ByteRead
  <1>5. collected \in Seq(S)
    BY DEF HistoryType
  <1> HIDE DEF b, n, S
  <1>6. n \in Nat
    BY <1>1 DEF n
  <1>7. b \in Seq(S) /\ Len(b) = n
    BY <1>3, <1>6
  <1>8. /\ collected' \in Seq(S)
        /\ Len(collected') = Len(collected) + n
        /\ \A i \in DOMAIN collected : collected'[i] = collected[i]
        /\ \A i \in 1 .. n : collected'[Len(collected) + i] = b[i]
    BY <1>4, <1>5, <1>7, ConcatEffect
  <1> QED
    BY <1>1, <1>3, <1>8 DEF n, S

\* Every variable but the flag keeps its type.
LEMMA TypeNext ==
  ASSUME AppType, ReaderType, HistoryType, OpenInv, [Next]_vars
  PROVE  AppType' /\ ReaderType' /\ HistoryType'
  <1> USE ReaderConstants
  <1>1. CASE Append1
    <2>1. AppType'
      BY <1>1, AppendEffect DEF Append1, AppType
    <2> QED
      BY <1>1, <2>1 DEF Append1, readerVars, ReaderType, HistoryType
  <1>2. CASE Truncate
    <2>1. <<>> \in Seq(1 .. MaxBytes)
      OBVIOUS
    <2>2. content' \in [Files -> Seq(1 .. MaxBytes)]
      BY <1>2, <2>1 DEF Truncate, AppType
    <2>3. AppType'
      BY <1>2, <2>2 DEF Truncate, AppType
    <2> QED
      BY <1>2, <2>3 DEF Truncate, ReaderType, HistoryType, AppType
  <1>3. CASE Replace \/ Reopen
    <2>1. UNCHANGED <<content, clock, readerVars>>
      BY <1>3 DEF Replace, Reopen
    <2>2. NewFile \/ (UNCHANGED <<path, created>> /\ writer' = path /\ path # NoFile)
      BY <1>3 DEF Replace, Reopen
    <2>3. created' \in Files /\ writer' \in Files /\ path' \in Files
      BY <2>2 DEF NewFile, Files, AppType
    <2>4. changes' \in 0 .. MaxChanges
      BY <1>3 DEF Replace, Reopen, AppType
    <2> QED
      BY <2>1, <2>3, <2>4 DEF readerVars, AppType, ReaderType, HistoryType
  <1>4. CASE Open
    <2>1. path # NoFile => Len(content[path]) \in Nat
      BY DEF AppType
    <2>2. ReaderType'
      BY <1>4, <2>1, ToIntIs DEF Open, ReaderType, AppType
    <2> QED
      BY <1>4, <2>2 DEF Open, appVars, AppType, HistoryType
  <1>5. CASE Compare
    BY <1>5 DEF Compare, StartPos, Return, OpenInv, appVars, AppType, ReaderType, HistoryType
  <1>6. CASE MoveLogFile
    BY <1>6 DEF MoveLogFile, AppType, ReaderType, HistoryType
  <1>7. CASE OpenMoved
    <2>1. moved # NoFile => Len(content[moved]) \in Nat
      BY DEF AppType, ReaderType
    <2>2. ReaderType'
      BY <1>7, <2>1, ToIntIs DEF OpenMoved, Return, ReaderType, AppType
    <2> QED
      BY <1>7, <2>2 DEF OpenMoved, appVars, AppType, HistoryType
  <1>8. CASE ReadBlock
    <2>1. file # NoFile /\ BlockLen \in Int
      BY <1>8 DEF ReadBlock, OpenInv, BlockLen, ReaderType
    <2>2. HistoryType'
      <3>1. CASE BlockLen >= 0
        BY <1>8, <2>1, <3>1, ReadEffect DEF HistoryType
      <3>2. CASE BlockLen < 0
        BY <1>8, <3>2 DEF ReadBlock, HistoryType
      <3> QED
        BY <2>1, <3>1, <3>2
    <2>3. ReaderType'
      BY <1>8, <2>1 DEF ReadBlock, Return, NextPos, ReaderType
    <2> QED
      BY <1>8, <2>2, <2>3 DEF ReadBlock, appVars, AppType
  <1>9. CASE Crashed \/ UNCHANGED vars
    BY <1>9 DEF Crashed, vars, appVars, readerVars, AppType, ReaderType, HistoryType
  <1> QED
    BY <1>1, <1>2, <1>3, <1>4, <1>5, <1>6, <1>7, <1>8, <1>9
       DEF Next, Application, ReadNexBlock

\* The flag is set and cleared, and otherwise stays.
LEMMA TouchNext ==
  ASSUME TouchType, [Next]_vars
  PROVE  TouchType'
  BY DEF TouchType, Next, Application, ReadNexBlock, Append1, Truncate, Replace, Reopen, Open,
     Compare, MoveLogFile, OpenMoved, ReadBlock, Crashed, vars

-----------------------------------------------------------------------------

\* A file that the reader leaves alone.
LEMMA ReaderLeaves ==
  ASSUME Open \/ Compare \/ OpenMoved \/ ReadBlock \/ Crashed \/ UNCHANGED vars
  PROVE  UNCHANGED appVars
  BY DEF Open, Compare, OpenMoved, ReadBlock, Crashed, vars

\* Files are created one after the other.
LEMMA CreatedGrows ==
  ASSUME [Next]_vars
  PROVE  created' = created + 1 \/ created' = created
  <1>1. CASE Application
    BY <1>1 DEF Application, Append1, Truncate, Replace, Reopen, NewFile
  <1>2. CASE ~Application
    BY <1>2, ReaderLeaves DEF Next, ReadNexBlock, MoveLogFile, appVars
  <1> QED
    BY <1>1, <1>2

\* Only a new file takes the name, and the application writes to it.
LEMMA NameNext ==
  ASSUME AppType, NameInv, [Next]_vars
  PROVE  NameInv'
  <1> USE ReaderConstants
  <1>1. CASE UNCHANGED <<path, writer, created>>
    BY <1>1 DEF NameInv
  <1>2. CASE NewFile
    BY <1>2 DEF NewFile, NameInv
  <1>3. CASE Reopen
    BY <1>2, <1>3 DEF Reopen, NameInv
  <1>4. CASE MoveLogFile
    BY <1>4 DEF MoveLogFile, NameInv
  <1> QED
    BY <1>1, <1>2, <1>3, <1>4, ReaderLeaves
       DEF Next, Application, ReadNexBlock, Append1, Truncate, Replace, appVars

\* What is appended is greater than all that was written before, and goes to the last file.
LEMMA ContentNext ==
  ASSUME AppType, AppInv, [Next]_vars
  PROVE  ContentInv'
  <1> USE ReaderConstants
  <1>0. /\ \A f \in Files : Len(content[f]) \in Nat
        /\ \A f \in Files : \A i \in 1 .. Len(content[f]) : content[f][i] \in Nat
        /\ writer \in Files /\ created \in Files /\ clock \in Nat
    BY DEF AppType
  <1>1. CASE Append1
    <2> DEFINE n == Len(content[writer])
    <2>1. /\ n \in Nat /\ writer = created /\ clock' = clock + 1 /\ created' = created
      BY <1>0, <1>1 DEF AppInv, NameInv, Append1
    <2>2. /\ \A f \in Files : f # writer => content'[f] = content[f]
          /\ Len(content'[writer]) = n + 1
          /\ \A i \in 1 .. n : content'[writer][i] = content[writer][i]
          /\ content'[writer][n + 1] = clock + 1
      BY <1>1, AppendEffect
    <2>3. ASSUME NEW f \in Files, NEW i \in 1 .. Len(content'[f])
          PROVE  \/ i \in 1 .. Len(content[f]) /\ content'[f][i] = content[f][i]
                 \/ f = writer /\ i = n + 1 /\ content'[f][i] = clock + 1
      <3>1. CASE f = writer
        <4>1. i \in 1 .. n + 1
          BY <2>2, <3>1
        <4>2. i = n + 1 \/ i \in 1 .. n
          BY <2>1, <4>1
        <4> QED
          BY <2>2, <3>1, <4>2
      <3>2. CASE f # writer
        BY <2>2, <3>2
      <3> QED
        BY <3>1, <3>2
    <2>4. ASSUME NEW f \in Files, f > created' PROVE Len(content'[f]) = 0
      <3>1. f # writer /\ Len(content[f]) = 0
        BY <1>0, <2>1, <2>4 DEF AppInv, ContentInv, Files
      <3> QED
        BY <2>2, <3>1
    <2>5. ASSUME NEW f \in Files PROVE Len(content'[f]) <= clock'
      <3>1. Len(content[f]) <= clock /\ Len(content[f]) \in Nat
        BY <1>0 DEF AppInv, ContentInv
      <3>2. CASE f = writer
        BY <1>0, <2>1, <2>2, <3>1, <3>2
      <3>3. CASE f # writer
        BY <1>0, <2>1, <2>2, <3>1, <3>3
      <3> QED
        BY <3>2, <3>3
    <2> HIDE DEF n
    <2>6. ASSUME NEW f \in Files, NEW i \in 1 .. Len(content'[f])
          PROVE  /\ content'[f][i] <= clock'
                 /\ \A j \in 1 .. Len(content'[f]) : i < j => content'[f][i] < content'[f][j]
                 /\ \A g \in Files : f < g =>
                      \A j \in 1 .. Len(content'[g]) : content'[f][i] < content'[g][j]
      <3>0. \/ i \in 1 .. Len(content[f]) /\ content'[f][i] = content[f][i]
                /\ content[f][i] \in Nat /\ content[f][i] <= clock
            \/ f = writer /\ i = n + 1 /\ content'[f][i] = clock + 1
        BY <1>0, <2>3 DEF AppInv, ContentInv
      <3>1. content'[f][i] <= clock'
        BY <1>0, <2>1, <3>0
      <3>2. ASSUME NEW j \in 1 .. Len(content'[f]), i < j
            PROVE  content'[f][i] < content'[f][j]
        <4>1. \/ j \in 1 .. Len(content[f]) /\ content'[f][j] = content[f][j]
              \/ f = writer /\ j = n + 1 /\ content'[f][j] = clock + 1
          BY <2>3
        <4>2. CASE j \in 1 .. Len(content[f]) /\ content'[f][j] = content[f][j]
          <5>1. i \in 1 .. Len(content[f])
            BY <1>0, <3>2, <4>2
          <5>2. content[f][i] < content[f][j]
            BY <3>2, <4>2, <5>1 DEF AppInv, ContentInv
          <5>3. content'[f][i] = content[f][i]
            BY <2>1, <3>0, <5>1 DEF n
          <5> QED
            BY <4>2, <5>2, <5>3
        <4>3. CASE j = n + 1 /\ content'[f][j] = clock + 1
          BY <1>0, <2>1, <3>0, <3>2, <4>3
        <4> QED
          BY <4>1, <4>2, <4>3
      <3>3. ASSUME NEW g \in Files, f < g, NEW j \in 1 .. Len(content'[g])
            PROVE  content'[f][i] < content'[g][j]
        <4>1. f = writer => content'[g] = content[g] /\ Len(content[g]) = 0
          BY <2>1, <2>2, <3>3 DEF AppInv, ContentInv, Files
        <4>2. f # writer
          BY <3>3, <4>1
        <4>3. i \in 1 .. Len(content[f]) /\ content'[f][i] = content[f][i]
          BY <3>0, <4>2
        <4>4. \/ j \in 1 .. Len(content[g]) /\ content'[g][j] = content[g][j]
              \/ content'[g][j] = clock + 1
          BY <2>3
        <4>5. j \in 1 .. Len(content[g]) => content[f][i] < content[g][j]
          BY <3>3, <4>3 DEF AppInv, ContentInv
        <4>6. content[f][i] \in Nat /\ content[f][i] <= clock
          BY <1>0, <4>3 DEF AppInv, ContentInv
        <4> QED
          BY <1>0, <4>3, <4>4, <4>5, <4>6
      <3> QED
        BY <3>1, <3>2, <3>3
    <2> QED
      BY <2>4, <2>5, <2>6 DEF ContentInv
  <1>2. CASE Truncate
    <2>1. /\ UNCHANGED <<created, clock>>
          /\ \A f \in Files : content'[f] = content[f] \/ content'[f] = <<>>
      BY <1>2 DEF Truncate, AppType
    <2>2. \A f \in Files : Len(content'[f]) = 0 \/ content'[f] = content[f]
      BY <2>1
    <2>3. /\ \A f \in Files : f > created' => Len(content'[f]) = 0
          /\ \A f \in Files : Len(content'[f]) <= clock'
      BY <1>0, <2>1, <2>2 DEF AppInv, ContentInv
    <2>4. ASSUME NEW f \in Files, NEW i \in 1 .. Len(content'[f])
          PROVE  /\ content'[f][i] <= clock'
                 /\ \A j \in 1 .. Len(content'[f]) : i < j => content'[f][i] < content'[f][j]
                 /\ \A g \in Files : f < g =>
                      \A j \in 1 .. Len(content'[g]) : content'[f][i] < content'[g][j]
      <3>1. content'[f] = content[f]
        BY <2>2
      <3> QED
        BY <2>1, <2>2, <3>1 DEF AppInv, ContentInv
    <2> QED
      BY <2>3, <2>4 DEF ContentInv
  <1>3. CASE Replace \/ Reopen
    <2>1. UNCHANGED <<content, clock>> /\ created' >= created /\ created' \in Int
      <3>1. UNCHANGED <<content, clock>> /\ (created' = created + 1 \/ created' = created)
        BY <1>3 DEF Replace, Reopen, NewFile
      <3> QED
        BY <1>0, <3>1 DEF Files
    <2>2. \A f \in Files : f > created' => Len(content'[f]) = 0
      BY <1>0, <2>1 DEF AppInv, ContentInv, Files
    <2> QED
      BY <2>1, <2>2 DEF AppInv, ContentInv
  <1>4. CASE UNCHANGED <<content, created, clock>>
    BY <1>4 DEF AppInv, ContentInv
  <1> QED
    BY <1>1, <1>2, <1>3, <1>4, ReaderLeaves
       DEF Next, Application, ReadNexBlock, MoveLogFile, appVars

\* What ReadNexBlock has open and has moved.
LEMMA OpenNext ==
  ASSUME AppType, ReaderType, NameInv, OpenInv, [Next]_vars
  PROVE  OpenInv'
  <1> USE ReaderConstants
  <1>1. CASE UNCHANGED readerVars
    <2>1. created' >= created /\ created' \in Int
      BY CreatedGrows DEF AppType, Files
    <2> QED
      BY <1>1, <2>1 DEF OpenInv, readerVars, AppType, ReaderType, Files, NoFile
  <1>2. CASE Truncate
    BY <1>2 DEF Truncate, OpenInv
  <1>3. CASE Open
    BY <1>3 DEF Open, OpenInv, NameInv, appVars, AppType, ReaderType, Files, NoFile
  <1>4. CASE Compare
    BY <1>4 DEF Compare, Return, OpenInv, appVars, AppType, ReaderType, Files, NoFile
  <1>5. CASE MoveLogFile
    BY <1>5 DEF MoveLogFile, OpenInv, NameInv, AppType, ReaderType, Files, NoFile
  <1>6. CASE OpenMoved
    BY <1>6 DEF OpenMoved, Return, OpenInv, appVars, AppType, ReaderType, Files, NoFile
  <1>7. CASE ReadBlock
    <2>1. UNCHANGED <<created, moved>> /\ rpc = "read"
      BY <1>7 DEF ReadBlock, appVars
    <2>2. (rpc' = "crashed" /\ file' = file) \/ (rpc' = "idle" /\ file' = NoFile)
      BY <1>7 DEF ReadBlock, Return
    <2> QED
      BY <2>1, <2>2 DEF OpenInv, AppType, ReaderType, Files, NoFile
  <1> QED
    BY <1>1, <1>2, <1>3, <1>4, <1>5, <1>6, <1>7
       DEF Next, Application, ReadNexBlock, Append1, Replace, Reopen, Crashed, vars

\* The rest of what ReadBlock does (process_log_reader.cpp:135-148).
LEMMA ReadChanges ==
  ASSUME AppType, ReaderType, OpenInv, ReadBlock
  PROVE  /\ file \in Files /\ file <= created /\ (moved # NoFile => file = moved)
         /\ BlockLen \in Int
         /\ UNCHANGED <<appVars, moved, touched>>
         /\ \/ /\ BlockLen < 0
               /\ rpc' = "crashed"
               /\ UNCHANGED <<file, current_len, last_pos, collected, source>>
            \/ /\ BlockLen >= 0
               /\ last_pos' = last_pos + BlockLen
               /\ rpc' = "idle" /\ file' = NoFile /\ current_len' = 0
               /\ \/ source' = NoFile
                  \/ /\ last_pos + BlockLen <= Len(content[file])
                     /\ source' = source \/ (last_pos = 0 /\ source' = file)
  <1> USE ReaderConstants
  <1>1. file \in Files /\ file <= created /\ (moved # NoFile => file = moved)
    BY DEF ReadBlock, OpenInv, ReaderType
  <1>2. BlockLen \in Int
    BY DEF BlockLen, ReaderType
  <1>3. UNCHANGED <<appVars, moved, touched>>
    BY DEF ReadBlock
  <1>4. CASE BlockLen < 0
    BY <1>1, <1>2, <1>3, <1>4, Zenon DEF ReadBlock
  <1>5. CASE ~(BlockLen < 0)
    <2>1. /\ last_pos' = NextPos /\ Return
          /\ source' = IF NextPos > Len(content[file]) THEN NoFile
                       ELSE IF last_pos = 0 THEN file ELSE source
      BY <1>5, Zenon DEF ReadBlock
    <2>2. /\ last_pos' = last_pos + BlockLen
          /\ rpc' = "idle" /\ file' = NoFile /\ current_len' = 0
      BY <2>1 DEF Return, NextPos
    <2>3. Len(content[file]) \in Int /\ last_pos \in Int
      BY <1>1 DEF AppType, ReaderType
    <2>4. \/ source' = NoFile
          \/ /\ last_pos + BlockLen <= Len(content[file])
             /\ source' = source \/ (last_pos = 0 /\ source' = file)
      BY <1>2, <2>1, <2>3 DEF NextPos
    <2> QED
      BY <1>1, <1>2, <1>3, <1>5, <2>2, <2>4
  <1> QED
    BY <1>4, <1>5

-----------------------------------------------------------------------------

\* A block adds its bytes to what was read, and nothing else.
LEMMA ReadAdds ==
  ASSUME AppType, ReaderType, HistoryType, ReadBlock, file # NoFile, BlockLen >= 0
  PROVE  /\ Collected \subseteq Collected'
         /\ \A i \in 1 .. BlockLen : ByteRead(i) \in Collected'
         /\ \A b \in Collected' : b \in Collected \/ \E i \in 1 .. BlockLen : b = ByteRead(i)
  <1> DEFINE n == Len(collected)
  <1>1. /\ n \in Nat /\ DOMAIN collected = 1 .. n
        /\ BlockLen \in Nat
        /\ DOMAIN collected' = 1 .. n + BlockLen
        /\ \A i \in 1 .. n : collected'[i] = collected[i]
        /\ \A i \in 1 .. BlockLen : collected'[n + i] = ByteRead(i)
    <2>1. collected \in Seq(0 .. MaxBytes) /\ collected' \in Seq(0 .. MaxBytes)
      BY ReadEffect DEF HistoryType
    <2>2. n \in Nat /\ DOMAIN collected = 1 .. n /\ DOMAIN collected' = 1 .. Len(collected')
      BY <2>1
    <2> QED
      BY <2>2, ReadEffect
  <1> HIDE DEF n
  <1>2. Collected = {collected[i] : i \in 1 .. n}
    BY <1>1 DEF Collected
  <1>3. Collected' = {collected'[i] : i \in 1 .. n + BlockLen}
    BY <1>1 DEF Collected
  <1>4. Collected \subseteq Collected'
    <2> SUFFICES ASSUME NEW i \in 1 .. n PROVE collected[i] \in Collected'
      BY <1>2
    <2>1. i \in 1 .. n + BlockLen /\ collected'[i] = collected[i]
      BY <1>1
    <2> QED
      BY <1>3, <2>1
  <1>5. ASSUME NEW i \in 1 .. BlockLen PROVE ByteRead(i) \in Collected'
    <2>1. n + i \in 1 .. n + BlockLen /\ collected'[n + i] = ByteRead(i)
      BY <1>1
    <2> QED
      BY <1>3, <2>1
  <1>6. ASSUME NEW b \in Collected'
        PROVE  b \in Collected \/ \E i \in 1 .. BlockLen : b = ByteRead(i)
    <2>1. PICK k \in 1 .. n + BlockLen : b = collected'[k]
      BY <1>3, <1>6
    <2>2. CASE k <= n
      <3>1. k \in 1 .. n
        BY <1>1, <2>2
      <3> QED
        BY <1>1, <1>2, <2>1, <3>1
    <2>3. CASE k > n
      <3>1. k - n \in 1 .. BlockLen /\ n + (k - n) = k
        BY <1>1, <2>3
      <3>2. b = ByteRead(k - n)
        BY <1>1, <2>1, <3>1
      <3> QED
        BY <3>1, <3>2
    <2> QED
      BY <1>1, <2>2, <2>3
  <1> QED
    BY <1>4, <1>5, <1>6

\* What was read stays read.
LEMMA CollectedGrows ==
  ASSUME AppType, ReaderType, HistoryType, OpenInv, [Next]_vars
  PROVE  Collected \subseteq Collected'
  <1>1. CASE ReadBlock
    <2>1. file # NoFile /\ BlockLen \in Int
      BY <1>1, ReaderConstants DEF ReadBlock, OpenInv, BlockLen, ReaderType
    <2>2. CASE BlockLen >= 0
      BY <1>1, <2>1, <2>2, ReadAdds
    <2>3. CASE BlockLen < 0
      BY <1>1, <2>3 DEF ReadBlock, Collected
    <2> QED
      BY <2>1, <2>2, <2>3
  <1>2. CASE UNCHANGED collected
    BY <1>2 DEF Collected
  <1> QED
    BY <1>1, <1>2 DEF Next, Application, ReadNexBlock, Append1, Truncate, Replace, Reopen, Open,
       Compare, MoveLogFile, OpenMoved, Crashed, readerVars, vars

\* source and last_pos_ stay together.
LEMMA PassedNext ==
  ASSUME AppType, ReaderType, HistoryType, AppInv, OpenInv, PassedInv, [Next]_vars
  PROVE  PassedInv'
  <1> USE ReaderConstants
  <1> DEFINE Passed == source = created =>
               \A i \in 1 .. last_pos : i <= Len(content[source]) /\ content[source][i] \in Collected
  <1>0. /\ created \in Files /\ last_pos \in Nat
        /\ file \in Int /\ moved \in Int /\ source \in Int /\ created \in Int /\ NoFile = 0
        /\ \A f \in Files : Len(content[f]) \in Nat
        /\ source # NoFile => source \in Files
        /\ Collected \subseteq Collected'
    BY CollectedGrows DEF AppType, ReaderType, Files, NoFile
  <1>1. CASE Append1
    <2>1. /\ UNCHANGED <<created, file, moved, source, last_pos>>
          /\ writer \in Files
      BY <1>1 DEF Append1, readerVars, AppType
    <2>2. ASSUME NEW f \in Files, NEW i \in Nat, i >= 1, i <= Len(content[f])
          PROVE  i <= Len(content'[f]) /\ content'[f][i] = content[f][i]
      <3>1. i \in 1 .. Len(content[f])
        BY <1>0, <2>2
      <3>2. CASE f = writer
        <4>1. /\ Len(content'[f]) = Len(content[f]) + 1
              /\ \A k \in 1 .. Len(content[f]) : content'[f][k] = content[f][k]
          BY <1>1, <3>2, AppendEffect
        <4> QED
          BY <1>0, <2>2, <3>1, <4>1
      <3>3. CASE f # writer
        BY <1>1, <2>2, <3>3, AppendEffect
      <3> QED
        BY <3>2, <3>3
    <2>3. Passed'
      BY <1>0, <2>1, <2>2 DEF PassedInv
    <2> QED
      BY <1>0, <2>1, <2>3 DEF PassedInv
  <1>2. CASE Truncate
    <2>1. /\ UNCHANGED <<created, file, moved, last_pos>>
          /\ source' = IF source = writer THEN NoFile ELSE source
          /\ writer = created
      BY <1>2 DEF Truncate, AppInv, NameInv
    <2> QED
      BY <1>0, <2>1 DEF PassedInv, Files
  <1>3. CASE Replace \/ Reopen
    <2>1. /\ UNCHANGED <<content, readerVars>>
          /\ created' = created + 1 \/ created' = created
      BY <1>3 DEF Replace, Reopen, NewFile
    <2>2. created' = created + 1 => source # created'
      BY <1>0 DEF PassedInv
    <2> QED
      BY <1>0, <2>1, <2>2 DEF PassedInv, readerVars
  <1>4. CASE Open
    <2>1. /\ UNCHANGED <<created, content, source, last_pos>>
          /\ moved' = NoFile
          /\ file' = file \/ file' = created
      BY <1>4 DEF Open, appVars, AppInv, NameInv
    <2> QED
      BY <1>0, <2>1 DEF PassedInv
  <1>5. CASE Compare
    <2>1. /\ UNCHANGED <<created, content, moved>> /\ moved = NoFile
          /\ file \in Files /\ file <= created
          /\ file' = file \/ file' = NoFile
          /\ \/ last_pos' = 0 /\ source' = file
             \/ UNCHANGED <<last_pos, source>>
      BY <1>0, <1>5 DEF Compare, StartPos, Return, appVars, OpenInv, ReaderType
    <2> QED
      BY <1>0, <2>1 DEF PassedInv
  <1>6. CASE MoveLogFile
    <2>1. /\ UNCHANGED <<created, content, source, last_pos>>
          /\ file' = NoFile /\ moved' \in {moved, created, NoFile}
      BY <1>6 DEF MoveLogFile, AppInv, NameInv
    <2> QED
      BY <1>0, <2>1 DEF PassedInv
  <1>7. CASE OpenMoved
    <2>1. /\ UNCHANGED <<created, content, source, last_pos, moved>>
          /\ file' \in {moved, NoFile}
      BY <1>7 DEF OpenMoved, Return, appVars
    <2> QED
      BY <1>0, <2>1 DEF PassedInv
  <1>8. CASE ReadBlock
    <2>1. /\ UNCHANGED <<created, content, moved>>
          /\ file \in Files /\ file <= created
          /\ moved # NoFile => file = moved
          /\ BlockLen \in Int
      BY <1>8, ReadChanges DEF appVars
    <2>2. CASE BlockLen < 0
      <3>1. UNCHANGED <<file, last_pos, collected, source>>
        BY <1>8, <2>1, <2>2, ReadChanges
      <3> QED
        BY <2>1, <3>1 DEF PassedInv, Collected
    <2>3. CASE BlockLen >= 0
      <3>1. /\ last_pos' = last_pos + BlockLen
            /\ file' = NoFile
            /\ \/ source' = NoFile
               \/ /\ last_pos + BlockLen <= Len(content[file])
                  /\ source' = source \/ (last_pos = 0 /\ source' = file)
        BY <1>8, <2>1, <2>3, ReadChanges
      <3>2. source' <= created /\ (moved # NoFile => source' <= moved)
        <4>1. source <= created /\ (moved # NoFile => source <= moved) /\ 0 <= created
          BY <1>0 DEF PassedInv, Files
        <4>2. moved # NoFile => 0 <= moved
          BY <1>0, <2>1 DEF Files
        <4> QED
          BY <1>0, <2>1, <3>1, <4>1, <4>2
      <3>3. ASSUME source' = created', NEW i \in 1 .. last_pos'
            PROVE  i <= Len(content'[source']) /\ content'[source'][i] \in Collected'
        <4>1. source' = created /\ source' = file /\ source' # NoFile
          BY <1>0, <2>1, <3>1, <3>3 DEF PassedInv, Files
        <4>2. last_pos + BlockLen <= Len(content[file]) /\ (last_pos = 0 \/ source = created)
          BY <3>1, <4>1
        <4>3. i <= Len(content[file])
          BY <1>0, <2>1, <3>1, <4>2
        <4>4. CASE i <= last_pos
          <5>1. source = file /\ i \in 1 .. last_pos
            BY <1>0, <2>1, <3>1, <4>1, <4>2, <4>4
          <5> QED
            BY <1>0, <2>1, <4>1, <5>1 DEF PassedInv
        <4>5. CASE i > last_pos
          <5>1. i - last_pos \in 1 .. BlockLen /\ last_pos + (i - last_pos) = i
            BY <1>0, <2>1, <3>1, <4>5
          <5>2. ByteRead(i - last_pos) = content[file][i]
            BY <4>3, <5>1 DEF ByteRead
          <5>3. ByteRead(i - last_pos) \in Collected'
            BY <1>8, <2>1, <2>3, <5>1, ReadAdds DEF Files, NoFile
          <5> QED
            BY <2>1, <4>1, <4>3, <5>2, <5>3
        <4> QED
          BY <1>0, <2>1, <3>1, <4>4, <4>5
      <3> QED
        BY <1>0, <2>1, <3>1, <3>2, <3>3 DEF PassedInv
    <2> QED
      BY <2>1, <2>2, <2>3
  <1>9. CASE Crashed \/ UNCHANGED vars
    BY <1>9 DEF Crashed, vars, appVars, readerVars, PassedInv, Collected
  <1> QED
    BY <1>1, <1>2, <1>3, <1>4, <1>5, <1>6, <1>7, <1>8, <1>9
       DEF Next, Application, ReadNexBlock

-----------------------------------------------------------------------------

\* Lengths, and what is known of them.
LEMMA Lengths ==
  ASSUME AppType, ReaderType
  PROVE  /\ \A f \in Files : Len(content[f]) \in Nat
         /\ IntMax \in Nat /\ current_len \in Int /\ last_pos \in Nat
         /\ created \in Files /\ created \in Int /\ NoFile = 0 /\ NoFile \notin Files
         /\ file # NoFile => file \in Files
         /\ moved # NoFile => moved \in Files
         /\ path # NoFile => path \in Files
  BY ReaderConstants DEF AppType, ReaderType, Files, NoFile

\* Only Truncate and Replace can make what was measured wrong.
LEMMA KeptNext ==
  ASSUME AppType, ReaderType, AppInv, OpenInv, [Next]_vars, ~Truncate, ~Replace,
         Kept \/ Open
  PROVE  Kept'
  <1>0. /\ \A f \in Files : Len(content[f]) \in Nat
        /\ IntMax \in Nat /\ current_len \in Int /\ last_pos \in Nat
        /\ NoFile = 0
        /\ file # NoFile => file \in Files
        /\ moved # NoFile => moved \in Files
        /\ path # NoFile => path \in Files
    BY Lengths
  <1>1. ASSUME Append1, Kept PROVE Kept'
    <2>1. UNCHANGED <<path, rpc, file, current_len, last_pos, moved>>
      BY <1>1 DEF Append1, readerVars
    <2>2. ASSUME NEW f \in Files
          PROVE  Len(content[f]) <= Len(content'[f])
      <3>1. CASE f = writer
        BY <1>0, <1>1, <3>1, AppendEffect
      <3>2. CASE f # writer
        BY <1>0, <1>1, <3>2, AppendEffect
      <3> QED
        BY <3>1, <3>2
    <2>3. content' \in [Files -> Seq(1 .. MaxBytes)]
      BY <1>1, AppendEffect
    <2>4. \A f \in Files : Len(content'[f]) \in Nat
      BY <2>3
    <2>5. \A f \in Files : Told(f)' => Told(f)
      BY <1>0, <2>2, <2>4 DEF Told
    <2>6. rpc \in {"compare", "move", "read"} => file \in Files
      BY <1>0 DEF OpenInv
    <2> QED
      BY <1>0, <1>1, <2>1, <2>2, <2>4, <2>5, <2>6 DEF Kept
  <1>2. ASSUME Reopen, Kept PROVE Kept'
    <2>1. path = NoFile /\ UNCHANGED <<content, rpc, file, current_len, last_pos, moved>>
      BY <1>2 DEF Reopen, AppInv, NameInv, readerVars
    <2>2. ~(rpc \in {"compare", "move"})
      BY <1>2, <2>1 DEF Kept, OpenInv
    <2> QED
      BY <1>2, <2>1, <2>2 DEF Kept, Told
  <1>3. ASSUME Open PROVE Kept'
    <2>1. CASE path = NoFile
      BY <1>3, <2>1 DEF Open, Kept
    <2>2. CASE path # NoFile
      <3>1. /\ file' = path /\ path' = path /\ content' = content
            /\ current_len' = ToInt(Len(content[path])) /\ rpc' = "compare"
        BY <1>3, <2>2 DEF Open, appVars
      <3>2. Len(content[path]) <= IntMax => ToInt(Len(content[path])) = Len(content[path])
        BY <1>0, <2>2, ToIntIs
      <3> QED
        BY <1>0, <2>2, <3>1, <3>2 DEF Kept, Told
    <2> QED
      BY <2>1, <2>2
  <1>4. ASSUME Compare, Kept PROVE Kept'
    <2>1. /\ rpc = "compare" /\ last_pos' = StartPos /\ UNCHANGED <<path, content, moved>>
          /\ \/ rpc' = "idle"
             \/ rpc' \in {"move", "read"} /\ UNCHANGED <<file, current_len>>
      BY <1>4 DEF Compare, Return, appVars
    <2>2. Told(file) => last_pos' <= current_len
      BY <1>0, <1>4, <2>1 DEF StartPos, Kept
    <2> QED
      BY <1>4, <2>1, <2>2 DEF Kept, Told
  <1>5. ASSUME MoveLogFile, Kept PROVE Kept'
    <2>1. /\ rpc = "move" /\ UNCHANGED <<content, last_pos>>
          /\ moved' \in {path, NoFile, moved} /\ rpc' \in {"openMoved", "idle"}
      BY <1>5 DEF MoveLogFile
    <2>2. path = file /\ file # NoFile /\ moved = NoFile
      BY <1>5, <2>1 DEF Kept, OpenInv
    <2>3. Told(file) => last_pos <= Len(content[file])
      BY <1>0, <1>5, <2>1, <2>2 DEF Kept
    <2> QED
      BY <2>1, <2>2, <2>3 DEF Kept, Told
  <1>6. ASSUME OpenMoved, Kept PROVE Kept'
    <2>1. CASE moved = NoFile
      BY <1>6, <2>1 DEF OpenMoved, Return, Kept
    <2>2. CASE moved # NoFile
      <3>1. /\ rpc = "openMoved" /\ file' = moved /\ UNCHANGED <<content, last_pos>>
            /\ current_len' = ToInt(Len(content[moved])) /\ rpc' = "read"
        BY <1>6, <2>2 DEF OpenMoved, appVars
      <3>2. Len(content[moved]) <= IntMax => ToInt(Len(content[moved])) = Len(content[moved])
        BY <1>0, <2>2, ToIntIs
      <3> QED
        BY <1>0, <1>6, <2>2, <3>1, <3>2 DEF Kept, Told
    <2> QED
      BY <2>1, <2>2
  <1>7. ASSUME ReadBlock PROVE Kept'
    <2>1. rpc' \in {"idle", "crashed"}
      BY <1>7, ReadChanges
    <2> QED
      BY <2>1 DEF Kept
  <1>8. ASSUME Crashed \/ UNCHANGED vars, Kept PROVE Kept'
    BY <1>8 DEF Crashed, vars, appVars, readerVars, Kept, Told
  <1> QED
    BY <1>1, <1>2, <1>3, <1>4, <1>5, <1>6, <1>7, <1>8
       DEF Next, Application, ReadNexBlock

\* The flag tells when that was.
LEMMA UntouchedNext ==
  ASSUME TouchType, AppType, ReaderType, AppInv, OpenInv, UntouchedInv, [Next]_vars
  PROVE  UntouchedInv'
  <1>1. CASE Truncate \/ Replace
    <2>1. touched' = TRUE
      BY <1>1 DEF Truncate, Replace
    <2> QED
      BY <2>1, Zenon DEF UntouchedInv
  <1>2. CASE Open
    <2>1. ~Truncate /\ ~Replace
      BY <1>2 DEF Open, Truncate, Replace, UntouchedInv
    <2>2. Kept'
      BY <1>2, <2>1, KeptNext
    <2> QED
      BY <2>2, Zenon DEF UntouchedInv
  <1>3. CASE ~Truncate /\ ~Replace /\ ~Open
    <2>1. touched' = touched
      BY <1>3 DEF Next, Application, ReadNexBlock, Append1, Reopen, Compare, MoveLogFile,
         OpenMoved, ReadBlock, Crashed, vars
    <2>2. Kept => Kept'
      BY <1>3, KeptNext
    <2> QED
      BY <2>1, <2>2, Zenon DEF UntouchedInv
  <1> QED
    BY <1>1, <1>2, <1>3

\* An element of a sequence.
LEMMA ElementIn ==
  ASSUME NEW S, NEW q \in Seq(S), NEW m \in 1 .. Len(q)
  PROVE  q[m] \in S
  OBVIOUS

\* A step of a read that is not disturbed neither throws nor puts garbage in the block.
LEMMA ReadIsSound ==
  ASSUME AppType, ReaderType, HistoryType, OpenInv, UntouchedInv, [Next]_vars,
         ~touched', rpc = "read", Len(content[file]) <= IntMax
  PROVE  /\ rpc' # "crashed"
         /\ \A i \in DOMAIN collected' \ DOMAIN collected : collected'[i] # Junk
  <1>0. /\ \A f \in Files : Len(content[f]) \in Nat
        /\ current_len \in Int /\ last_pos \in Nat
    BY Lengths
  <1>1. CASE ReadBlock
    <2>1. touched' = touched /\ file \in Files /\ BlockLen \in Int
      BY <1>1, ReadChanges
    <2>2. Kept
      BY <2>1, Zenon DEF UntouchedInv
    <2>3. last_pos <= current_len /\ current_len <= Len(content[file])
      BY <2>2 DEF Kept, Told
    <2>4. BlockLen >= 0 /\ BlockLen <= current_len - last_pos
      BY <1>0, <2>3, ReaderConstants DEF BlockLen
    <2>5. rpc' # "crashed"
      BY <1>1, <2>1, <2>4, ReadChanges
    <2>6. ASSUME NEW k \in 1 .. BlockLen PROVE ByteRead(k) # Junk
      <3>1. last_pos + k \in 1 .. Len(content[file])
        BY <1>0, <2>1, <2>3, <2>4
      <3>2. content[file] \in Seq(1 .. MaxBytes)
        BY <2>1 DEF AppType
      <3>3. content[file][last_pos + k] \in 1 .. MaxBytes
        BY <3>1, <3>2, ElementIn
      <3>4. content[file][last_pos + k] # 0
        BY <3>3
      <3> QED
        BY <1>0, <2>1, <3>1, <3>4 DEF ByteRead, Junk
    <2>7. file # NoFile
      BY <2>1, ReaderConstants DEF Files, NoFile
    <2>8. ASSUME NEW i \in DOMAIN collected' \ DOMAIN collected
          PROVE  collected'[i] # Junk
      <3> DEFINE n == Len(collected)
      <3>1. /\ collected' \in Seq(0 .. MaxBytes) /\ collected \in Seq(0 .. MaxBytes)
            /\ Len(collected') = n + BlockLen
            /\ \A k \in 1 .. BlockLen : collected'[n + k] = ByteRead(k)
        BY <1>1, <2>4, <2>7, ReadEffect DEF HistoryType
      <3>2. n \in Nat /\ DOMAIN collected = 1 .. n /\ DOMAIN collected' = 1 .. n + BlockLen
        BY <3>1
      <3> HIDE DEF n
      <3>3. i - n \in 1 .. BlockLen /\ n + (i - n) = i
        BY <2>1, <2>8, <3>2
      <3>4. collected'[i] = ByteRead(i - n)
        BY <3>1, <3>3
      <3> QED
        BY <2>6, <3>3, <3>4
    <2> QED
      BY <2>5, <2>8
  <1>2. CASE ~ReadBlock
    <2>1. collected' = collected
      BY <1>2 DEF Next, Application, ReadNexBlock, Append1, Truncate, Replace, Reopen, Open,
         Compare, MoveLogFile, OpenMoved, Crashed, vars, readerVars
    <2>2. rpc' # "crashed"
      BY <1>2 DEF Next, Application, ReadNexBlock, Append1, Truncate, Replace, Reopen, Open,
         Compare, MoveLogFile, OpenMoved, Crashed, vars, readerVars
    <2> QED
      BY <2>1, <2>2
  <1> QED
    BY <1>1, <1>2

-----------------------------------------------------------------------------

\* The application only appends bytes that are newer than all before, or empties a file.
LEMMA ContentStill ==
  ASSUME AppType, AppInv, [Next]_vars
  PROVE  \A f \in Files :
           /\ Len(content[f]) <= Len(content'[f]) \/ Len(content'[f]) = 0
           /\ \A i \in 1 .. Len(content'[f]) :
                \/ i \in 1 .. Len(content[f]) /\ content'[f][i] = content[f][i]
                \/ content'[f][i] > clock
  <1>0. /\ \A f \in Files : Len(content[f]) \in Nat
        /\ clock \in Nat
    BY DEF AppType
  <1>1. CASE Append1
    <2> SUFFICES ASSUME NEW f \in Files
                 PROVE  /\ Len(content[f]) <= Len(content'[f])
                        /\ \A i \in 1 .. Len(content'[f]) :
                             \/ i \in 1 .. Len(content[f]) /\ content'[f][i] = content[f][i]
                             \/ content'[f][i] > clock
      OBVIOUS
    <2>1. CASE f = writer
      <3> DEFINE n == Len(content[f])
      <3>1. /\ n \in Nat /\ Len(content'[f]) = n + 1
            /\ \A i \in 1 .. n : content'[f][i] = content[f][i]
            /\ content'[f][n + 1] = clock + 1
        BY <1>0, <1>1, <2>1, AppendEffect
      <3> HIDE DEF n
      <3>2. ASSUME NEW i \in 1 .. n + 1
            PROVE  \/ i \in 1 .. n /\ content'[f][i] = content[f][i]
                   \/ content'[f][i] > clock
        <4>1. i \in 1 .. n \/ i = n + 1
          BY <3>1
        <4> QED
          BY <1>0, <3>1, <4>1
      <3> QED
        BY <3>1, <3>2 DEF n
    <2>2. CASE f # writer
      BY <1>0, <1>1, <2>2, AppendEffect
    <2> QED
      BY <2>1, <2>2
  <1>2. CASE Truncate
    <2>1. \A f \in Files : content'[f] = content[f] \/ Len(content'[f]) = 0
      BY <1>2 DEF Truncate, AppType
    <2> QED
      BY <1>0, <2>1
  <1>3. CASE UNCHANGED content
    BY <1>0, <1>3
  <1> QED
    BY <1>1, <1>2, <1>3, ReaderLeaves
       DEF Next, Application, ReadNexBlock, Replace, Reopen, MoveLogFile, appVars

\* The bytes of a file are numbers.
LEMMA Elements ==
  ASSUME NEW c \in [Files -> Seq(1 .. MaxBytes)], NEW f \in Files
  PROVE  Len(c[f]) \in Nat /\ \A i \in 1 .. Len(c[f]) : c[f][i] \in Int
  <1>1. c[f] \in Seq(1 .. MaxBytes)
    OBVIOUS
  <1> QED
    BY <1>1, ReaderConstants

\* So what was newer than S stays so.
LEMMA NewerStill ==
  ASSUME AppType, ReaderType, AppInv, [Next]_vars, UNCHANGED last_pos,
         NEW S, \A b \in S : b \in Int /\ b <= clock,
         NEW f \in Files
  PROVE  /\ Newer(f, 0, S) => Newer(f, 0, S)'
         /\ Newer(f, last_pos, S) => Newer(f, last_pos, S)'
         /\ Ready(f, S) => Ready(f, S)'
         /\ Shrunk(f, S) => Shrunk(f, S)'
         /\ Long(f) => Long(f)' \/ Newer(f, 0, S)'
  <1>0. /\ Len(content[f]) \in Nat /\ clock \in Nat /\ IntMax \in Nat /\ last_pos \in Nat
        /\ \A i \in 1 .. Len(content[f]) : content[f][i] \in Int
    <2>1. Len(content[f]) \in Nat /\ \A i \in 1 .. Len(content[f]) : content[f][i] \in Int
      BY Elements DEF AppType
    <2> QED
      BY <2>1, ReaderConstants DEF AppType, ReaderType
  <1>1. Len(content'[f]) \in Nat /\ \A i \in 1 .. Len(content'[f]) : content'[f][i] \in Int
    <2>1. content' \in [Files -> Seq(1 .. MaxBytes)]
      <3>1. CASE Append1
        BY <3>1, AppendEffect
      <3>2. CASE Truncate
        <4>1. <<>> \in Seq(1 .. MaxBytes)
          OBVIOUS
        <4> QED
          BY <3>2, <4>1 DEF Truncate, AppType
      <3>3. CASE UNCHANGED content
        BY <3>3 DEF AppType
      <3> QED
        BY <3>1, <3>2, <3>3, ReaderLeaves
           DEF Next, Application, ReadNexBlock, Replace, Reopen, MoveLogFile, appVars
    <2> QED
      BY <2>1, Elements
  <1>2. /\ Len(content[f]) <= Len(content'[f]) \/ Len(content'[f]) = 0
        /\ \A i \in 1 .. Len(content'[f]) :
             \/ i \in 1 .. Len(content[f]) /\ content'[f][i] = content[f][i]
             \/ content'[f][i] > clock
    BY ContentStill
  <1>3. ASSUME NEW p, Newer(f, p, S) PROVE Newer(f, p, S)'
    BY <1>0, <1>1, <1>2, <1>3 DEF Newer
  <1>4. Newer(f, 0, S) => Newer(f, 0, S)'
    BY <1>3
  <1>5. Newer(f, last_pos, S) => Newer(f, last_pos, S)'
    BY <1>0, <1>1, <1>2 DEF Newer
  <1>6. Long(f) => Long(f)' \/ Newer(f, 0, S)'
    BY <1>0, <1>1, <1>2 DEF Long, Newer
  <1>7. Newer(f, 0, S)' => Newer(f, last_pos, S)'
    BY <1>0, <1>1 DEF Newer
  <1>8. Ready(f, S) => Ready(f, S)'
    BY <1>5, <1>6, <1>7 DEF Ready
  <1>9. last_pos <= Len(content[f]) => last_pos' <= Len(content'[f]) \/ Newer(f, 0, S)'
    BY <1>0, <1>1, <1>2 DEF Newer
  <1>10. Shrunk(f, S) => Shrunk(f, S)'
    BY <1>4, <1>9 DEF Shrunk
  <1> QED
    BY <1>4, <1>5, <1>6, <1>8, <1>10

\* The application does not make anything old that was new.
LEMMA TwiceApplication ==
  ASSUME AppType, ReaderType, AppInv, OpenInv, [Next]_vars, NEW S, S \subseteq Int, TwiceInv(S),
         Append1 \/ Truncate \/ Replace \/ Reopen \/ Crashed \/ UNCHANGED vars
  PROVE  TwiceInv(S)'
  <1>0. /\ created \in Files /\ created \in Int /\ NoFile = 0 /\ NoFile \notin Files
        /\ file # NoFile => file \in Files
        /\ moved # NoFile => moved \in Files
        /\ path # NoFile => path \in Files
        /\ clock \in Nat /\ last_pos \in Nat /\ current_len \in Int
        /\ \A b \in S : b \in Int /\ b <= clock
    BY Lengths DEF AppType, TwiceInv
  <1>1. /\ UNCHANGED <<rpc, file, current_len, last_pos, moved>>
        /\ clock' = clock + 1 \/ clock' = clock
    BY DEF Append1, Truncate, Replace, Reopen, Crashed, vars, appVars, readerVars
  <1>2. path' = path \/ (path' = created + 1 /\ path' \in Files /\ Len(content'[path']) = 0)
    <2>1. CASE NewFile /\ UNCHANGED content
      <3>1. created + 1 \in Files /\ created + 1 > created
        BY <1>0, <2>1, ReaderConstants DEF NewFile, Files
      <3>2. Len(content[created + 1]) = 0
        BY <3>1 DEF AppInv, ContentInv
      <3> QED
        BY <2>1, <3>1, <3>2 DEF NewFile
    <2>2. CASE path' = path
      BY <2>2
    <2> QED
      BY <2>1, <2>2
         DEF Append1, Truncate, Replace, Reopen, Crashed, vars, appVars
  <1>3. ASSUME NEW f, Len(content'[f]) = 0 PROVE Ready(f, S)' /\ Shrunk(f, S)'
    <2>1. 1 .. Len(content'[f]) = {}
      BY <1>3
    <2>2. Newer(f, 0, S)' /\ Newer(f, last_pos, S)'
      BY <2>1 DEF Newer
    <2> QED
      BY <2>2 DEF Ready, Shrunk
  <1>4. \A b \in S : b <= clock'
    BY <1>0, <1>1
  <1>5. ASSUME NEW f \in Candidates'
        PROVE  Ready(f, S)' /\ Shrunk(f, S)'
    <2>1. CASE f = path' /\ Len(content'[path']) = 0
      BY <1>3, <2>1
    <2>2. CASE f \in Candidates
      <3>1. f \in Files /\ Ready(f, S) /\ Shrunk(f, S)
        BY <1>0, <2>2 DEF Candidates, TwiceInv
      <3> QED
        BY <1>0, <1>1, <3>1, NewerStill
    <2> QED
      BY <1>1, <1>2, <2>1, <2>2 DEF Candidates
  <1>6. ASSUME NEW f \in {file, moved} \ {NoFile}, NEW g \in Files, f < g
        PROVE  Newer(g, 0, S)'
    <2>1. Newer(g, 0, S)
      BY <1>6 DEF TwiceInv
    <2> QED
      BY <1>0, <1>1, <2>1, NewerStill
  <1>7. ASSUME rpc \in {"compare", "read"}, current_len >= 0
        PROVE  Newer(file, last_pos, S)'
    <2>1. file \in Files /\ Newer(file, last_pos, S)
      BY <1>0, <1>7 DEF TwiceInv, OpenInv
    <2> QED
      BY <1>0, <1>1, <2>1, NewerStill
  <1>8. ASSUME rpc = "compare", current_len < last_pos
        PROVE  Newer(file, 0, S)' \/ (current_len < 0 /\ Long(file)')
    <2>1. file \in Files /\ (Newer(file, 0, S) \/ (current_len < 0 /\ Long(file)))
      BY <1>0, <1>8 DEF TwiceInv, OpenInv
    <2> QED
      BY <1>0, <1>1, <2>1, NewerStill
  <1> QED
    BY <1>1, <1>4, <1>5, <1>6, <1>7, <1>8 DEF TwiceInv

\* What is newer stays so when nothing is written.
LEMMA NewerSame ==
  ASSUME UNCHANGED <<content, last_pos>>, NEW S, NEW f
  PROVE  /\ Newer(f, 0, S)' <=> Newer(f, 0, S)
         /\ Newer(f, last_pos, S)' <=> Newer(f, last_pos, S)
         /\ Ready(f, S)' <=> Ready(f, S)
         /\ Shrunk(f, S)' <=> Shrunk(f, S)
         /\ Long(f)' <=> Long(f)
  BY DEF Newer, Ready, Shrunk, Long

\* A file that is newer as a whole may be read from any position.
LEMMA NewIsReady ==
  ASSUME AppType, ReaderType, NEW S, NEW f \in Files, Newer(f, 0, S)
  PROVE  Newer(f, last_pos, S) /\ Ready(f, S) /\ Shrunk(f, S)
  <1>1. \A i \in 1 .. Len(content[f]) : i > 0
    OBVIOUS
  <1>2. Newer(f, last_pos, S)
    BY <1>1 DEF Newer
  <1> QED
    BY <1>2 DEF Ready, Shrunk

\* There is nothing in a file that is not created yet.
LEMMA LaterIsNew ==
  ASSUME AppInv, NEW S, NEW g \in Files, created < g
  PROVE  Newer(g, 0, S)
  <1>1. Len(content[g]) = 0
    BY ReaderConstants DEF AppInv, ContentInv, Files
  <1>2. 1 .. Len(content[g]) = {}
    BY <1>1
  <1> QED
    BY <1>2 DEF Newer

\* Open measures the file that has the name.
LEMMA TwiceOpen ==
  ASSUME AppType, ReaderType, AppInv, OpenInv, LengthsTold, NEW S, TwiceInv(S), Open
  PROVE  TwiceInv(S)'
  <1>0. /\ \A f \in Files : Len(content[f]) \in Nat
        /\ IntMax \in Nat /\ last_pos \in Nat
        /\ NoFile = 0
        /\ path # NoFile => path \in Files
    BY Lengths
  <1>1. /\ UNCHANGED <<path, content, clock, last_pos>> /\ moved' = NoFile /\ file = NoFile
        /\ \/ path = NoFile /\ file' = file /\ rpc' = "idle"
           \/ /\ path # NoFile /\ file' = path /\ rpc' = "compare"
              /\ current_len' = ToInt(Len(content[path]))
    BY DEF Open, appVars, OpenInv
  <1>2. ASSUME NEW f \in Candidates' PROVE Ready(f, S)' /\ Shrunk(f, S)'
    <2>1. f \in Candidates
      BY <1>1 DEF Candidates
    <2> QED
      BY <1>1, <2>1, NewerSame DEF TwiceInv
  <1>3. ASSUME NEW f \in {file', moved'} \ {NoFile}, NEW g \in Files, f < g
        PROVE  Newer(g, 0, S)'
    <2>1. f = created
      BY <1>1 DEF AppInv, NameInv
    <2>2. Newer(g, 0, S)
      BY <1>3, <2>1, LaterIsNew
    <2> QED
      BY <1>1, <2>2, NewerSame
  <1>4. CASE path # NoFile
    <2>1. path \in Candidates /\ path \in Files
      BY <1>0, <1>4 DEF Candidates
    <2>2. Ready(path, S) /\ Shrunk(path, S)
      BY <2>1 DEF TwiceInv
    <2>3. Len(content[path]) <= clock /\ clock <= 2 * IntMax + 1 /\ clock \in Nat
      BY <2>1 DEF AppInv, ContentInv, LengthsTold, AppType
    <2>4. /\ current_len' \in Int
          /\ ~Long(path) => current_len' = Len(content[path])
          /\ Long(path) => current_len' < 0
      BY <1>0, <1>1, <1>4, <2>1, <2>3, ToIntIs DEF Long
    <2>5. current_len' >= 0 => Newer(path, last_pos, S)
      BY <2>2, <2>4 DEF Ready
    <2>6. current_len' < last_pos => Newer(path, 0, S) \/ (current_len' < 0 /\ Long(path))
      BY <1>0, <2>1, <2>2, <2>4 DEF Shrunk
    <2>7. /\ current_len' >= 0 => Newer(path, last_pos, S)'
          /\ current_len' < last_pos' => Newer(path, 0, S)' \/ (current_len' < 0 /\ Long(path)')
      BY <1>1, <2>5, <2>6, NewerSame
    <2>8. file' = path
      BY <1>1, <1>4
    <2>9. /\ current_len' >= 0 => Newer(file, last_pos, S)'
          /\ current_len' < last_pos' => Newer(file, 0, S)' \/ (current_len' < 0 /\ Long(file)')
      BY <1>1, <2>7, <2>8 DEF Newer, Long
    <2> QED
      BY <1>1, <1>2, <1>3, <2>9 DEF TwiceInv
  <1>5. CASE path = NoFile
    BY <1>1, <1>2, <1>3, <1>5 DEF TwiceInv
  <1> QED
    BY <1>4, <1>5

\* Compare goes on at last_pos_, or at the start of a file that has become shorter.
LEMMA TwiceCompare ==
  ASSUME AppType, ReaderType, AppInv, OpenInv, NEW S, TwiceInv(S), Compare
  PROVE  TwiceInv(S)'
  <1>0. /\ \A f \in Files : Len(content[f]) \in Nat
        /\ last_pos \in Nat /\ current_len \in Int /\ created \in Int
        /\ NoFile = 0
        /\ path # NoFile => path \in Files
    BY Lengths
  <1>1. /\ rpc = "compare" /\ UNCHANGED <<path, content, clock, moved>> /\ moved = NoFile
        /\ file \in Files /\ file <= created
        /\ last_pos' = StartPos
        /\ \/ rpc' = "idle" /\ file' = NoFile
           \/ rpc' \in {"move", "read"} /\ UNCHANGED <<file, current_len>>
    BY <1>0 DEF Compare, Return, appVars, OpenInv, ReaderType
  <1>2. path # NoFile => path = file \/ (file < path /\ Newer(path, 0, S))
    <2>1. path # NoFile => path = created /\ path \in Files
      BY <1>0 DEF AppInv, NameInv
    <2>2. path # NoFile => path = file \/ file < path
      BY <1>0, <1>1, <2>1 DEF Files
    <2>3. file \in {file, moved} \ {NoFile}
      BY <1>1, ReaderConstants DEF Files, NoFile
    <2> QED
      BY <2>1, <2>2, <2>3 DEF TwiceInv
  <1>3. \A f \in Files : Newer(f, 0, S) => Newer(f, 0, S)' /\ Ready(f, S)' /\ Shrunk(f, S)'
    <2> SUFFICES ASSUME NEW f \in Files, Newer(f, 0, S)
                 PROVE  Newer(f, 0, S)' /\ Ready(f, S)' /\ Shrunk(f, S)'
      OBVIOUS
    <2>1. last_pos' \in Nat /\ \A i \in 1 .. Len(content[f]) : i > 0
      BY <1>0, <1>1 DEF StartPos
    <2>2. Newer(f, 0, S)' /\ Newer(f, last_pos, S)'
      BY <1>1, <2>1 DEF Newer
    <2> QED
      BY <2>2 DEF Ready, Shrunk
  <1>4. ASSUME NEW f, f = file
        PROVE  /\ Ready(f, S)' /\ Shrunk(f, S)'
               /\ current_len >= 0 => Newer(f, last_pos, S)'
    <2>1. CASE current_len < last_pos
      <3>1. last_pos' = 0
        BY <1>1, <2>1 DEF StartPos
      <3>2. Newer(f, 0, S) \/ (current_len < 0 /\ Long(f))
        BY <1>1, <1>4, <2>1 DEF TwiceInv
      <3>3. CASE Newer(f, 0, S)
        <4>1. Newer(f, 0, S)' /\ Newer(f, last_pos, S)'
          BY <1>1, <3>1, <3>3 DEF Newer
        <4> QED
          BY <4>1 DEF Ready, Shrunk
      <3>4. CASE current_len < 0 /\ Long(f)
        <4>1. Long(f)' /\ last_pos' <= Len(content'[f]) /\ ~(current_len >= 0)
          BY <1>0, <1>1, <1>4, <3>1, <3>4 DEF Long
        <4> QED
          BY <3>1, <4>1 DEF Ready, Shrunk
      <3> QED
        BY <3>2, <3>3, <3>4
    <2>2. CASE ~(current_len < last_pos)
      <3>1. UNCHANGED <<content, last_pos>>
        BY <1>1, <2>2 DEF StartPos
      <3>2. f \in Candidates /\ (current_len >= 0 => Newer(f, last_pos, S))
        BY <1>0, <1>1, <1>4, ReaderConstants DEF TwiceInv, Candidates, Files
      <3> QED
        BY <3>1, <3>2, NewerSame DEF TwiceInv
    <2> QED
      BY <2>1, <2>2
  <1>5. ASSUME NEW f \in Candidates' PROVE Ready(f, S)' /\ Shrunk(f, S)'
    <2>1. f = file \/ (f = path /\ path # NoFile)
      BY <1>1, <1>5 DEF Candidates
    <2>2. CASE f = file
      BY <1>4, <2>2
    <2>3. CASE f # file
      BY <1>0, <1>2, <1>3, <2>1, <2>3
    <2> QED
      BY <2>2, <2>3
  <1>6. ASSUME NEW f \in {file', moved'} \ {NoFile}, NEW g \in Files, f < g
        PROVE  Newer(g, 0, S)'
    <2>1. f \in {file, moved} \ {NoFile}
      BY <1>1, <1>6
    <2> QED
      BY <1>3, <1>6, <2>1 DEF TwiceInv
  <1>7. ASSUME rpc' \in {"compare", "read"}, current_len' >= 0
        PROVE  Newer(file, last_pos, S)'
    <2>1. UNCHANGED <<file, current_len>>
      BY <1>1, <1>7
    <2> QED
      BY <1>4, <1>7, <2>1 DEF Newer
  <1> QED
    BY <1>1, <1>5, <1>6, <1>7 DEF TwiceInv

\* What is moved is the file that has the name by then.
LEMMA TwiceMove ==
  ASSUME AppType, ReaderType, AppInv, OpenInv, NEW S, TwiceInv(S), MoveLogFile
  PROVE  TwiceInv(S)'
  <1>1. /\ UNCHANGED <<content, clock, last_pos>> /\ file' = NoFile
        /\ moved = NoFile
        /\ moved' \in {path, NoFile} /\ path' \in {path, NoFile}
        /\ rpc' \in {"openMoved", "idle"}
    BY DEF MoveLogFile, OpenInv
  <1>2. ASSUME NEW f \in Candidates' PROVE Ready(f, S)' /\ Shrunk(f, S)'
    <2>1. f \in Candidates
      BY <1>1 DEF Candidates
    <2> QED
      BY <1>1, <2>1, NewerSame DEF TwiceInv
  <1>3. ASSUME NEW f \in {file', moved'} \ {NoFile}, NEW g \in Files, f < g
        PROVE  Newer(g, 0, S)'
    <2>1. f = created
      BY <1>1 DEF AppInv, NameInv
    <2>2. Newer(g, 0, S)
      BY <1>3, <2>1, LaterIsNew
    <2> QED
      BY <1>1, <2>2, NewerSame
  <1> QED
    BY <1>1, <1>2, <1>3 DEF TwiceInv

\* The file that was moved is measured anew.
LEMMA TwiceOpenMoved ==
  ASSUME AppType, ReaderType, AppInv, OpenInv, LengthsTold, NEW S, TwiceInv(S), OpenMoved
  PROVE  TwiceInv(S)'
  <1>0. /\ \A f \in Files : Len(content[f]) \in Nat
        /\ IntMax \in Nat /\ last_pos \in Nat
        /\ moved # NoFile => moved \in Files
    BY Lengths
  <1>1. /\ UNCHANGED <<path, content, clock, last_pos, moved>> /\ file = NoFile
        /\ \/ file' = NoFile /\ rpc' = "idle"
           \/ /\ moved # NoFile /\ file' = moved /\ rpc' = "read"
              /\ current_len' = ToInt(Len(content[moved]))
    BY DEF OpenMoved, Return, appVars, OpenInv
  <1>2. ASSUME NEW f \in Candidates' PROVE Ready(f, S)' /\ Shrunk(f, S)'
    <2>1. f \in Candidates
      BY <1>1 DEF Candidates
    <2> QED
      BY <1>1, <2>1, NewerSame DEF TwiceInv
  <1>3. ASSUME NEW f \in {file', moved'} \ {NoFile}, NEW g \in Files, f < g
        PROVE  Newer(g, 0, S)'
    <2>1. f \in {file, moved} \ {NoFile}
      BY <1>1, <1>3
    <2> QED
      BY <1>1, <1>3, <2>1, NewerSame DEF TwiceInv
  <1>4. ASSUME rpc' \in {"compare", "read"}, current_len' >= 0
        PROVE  Newer(file, last_pos, S)'
    <2>1. /\ moved # NoFile /\ file' = moved
          /\ current_len' = ToInt(Len(content[moved]))
      BY <1>1, <1>4
    <2>2. moved \in Candidates /\ moved \in Files
      BY <1>0, <2>1 DEF Candidates
    <2>3. Len(content[moved]) <= clock /\ clock <= 2 * IntMax + 1 /\ clock \in Nat
      BY <2>2 DEF AppInv, ContentInv, LengthsTold, AppType
    <2>4. ~Long(moved)
      BY <1>0, <1>4, <2>1, <2>2, <2>3, ToIntIs DEF Long
    <2>5. Newer(moved, last_pos, S)
      BY <2>2, <2>4 DEF TwiceInv, Ready
    <2> QED
      BY <1>1, <2>1, <2>5 DEF Newer
  <1> QED
    BY <1>1, <1>2, <1>3, <1>4 DEF TwiceInv

\* A block of bytes that were there: what comes after it is newer than all that was read.
LEMMA TwiceRead ==
  ASSUME AppType, ReaderType, AppInv, OpenInv, ReadBlock, BlockLen >= 0,
         BlockLen > 0 => last_pos + BlockLen <= Len(content[file]),
         NEW S, S \subseteq Int, TwiceInv(S),
         NEW T, \A b \in T : b \in S \/ \E k \in 1 .. BlockLen : b = content[file][last_pos + k]
  PROVE  TwiceInv(T)'
  <1>0. /\ \A f \in Files : Len(content[f]) \in Nat
        /\ last_pos \in Nat /\ current_len \in Int /\ created \in Int /\ clock \in Nat
        /\ NoFile = 0 /\ NoFile \notin Files
        /\ path # NoFile => path \in Files
        /\ \A f \in Files : \A i \in 1 .. Len(content[f]) : content[f][i] \in Int
    <2>1. \A f \in Files : \A i \in 1 .. Len(content[f]) : content[f][i] \in Int
      BY Elements DEF AppType
    <2>2. clock \in Nat
      BY DEF AppType
    <2> QED
      BY <2>1, <2>2, Lengths
  <1>1. /\ rpc = "read" /\ UNCHANGED <<path, content, clock, moved>>
        /\ file \in Files /\ file <= created /\ (moved # NoFile => file = moved)
        /\ BlockLen \in Nat
        /\ last_pos' = last_pos + BlockLen /\ file' = NoFile /\ rpc' = "idle"
    <2>1. rpc = "read"
      BY DEF ReadBlock
    <2> QED
      BY <2>1, ReadChanges, SMT DEF appVars
  <1>2. current_len >= 0
    BY <1>0, <1>1, ReaderConstants DEF BlockLen
  <1>3. Newer(file, last_pos, S) /\ file \in Candidates /\ file \in {file, moved} \ {NoFile}
    BY <1>0, <1>1, <1>2 DEF TwiceInv, Candidates
  <1>4. ASSUME NEW b \in T
        PROVE  \/ b \in S
               \/ \E k \in 1 .. BlockLen :
                    b = content[file][last_pos + k] /\ last_pos + k \in 1 .. Len(content[file])
    BY <1>0, <1>1
  <1>5. \A b \in T : b \in Int /\ b <= clock
    <2> SUFFICES ASSUME NEW b \in T PROVE b \in Int /\ b <= clock
      OBVIOUS
    <2>1. CASE b \in S
      BY <2>1 DEF TwiceInv
    <2>2. CASE b \notin S
      BY <1>0, <1>1, <1>4, <2>2 DEF AppInv, ContentInv
    <2> QED
      BY <2>1, <2>2
  <1>6. ASSUME NEW i \in 1 .. Len(content[file]), i > last_pos + BlockLen, NEW b \in T
        PROVE  b < content[file][i]
    <2>1. CASE b \in S
      <3>1. i > last_pos
        BY <1>0, <1>1, <1>6
      <3> QED
        BY <1>3, <2>1, <3>1 DEF Newer
    <2>2. CASE b \notin S
      <3>1. PICK k \in 1 .. BlockLen :
              b = content[file][last_pos + k] /\ last_pos + k \in 1 .. Len(content[file])
        BY <1>4, <2>2
      <3>2. last_pos + k < i
        BY <1>0, <1>1, <1>6
      <3> QED
        BY <1>1, <3>1, <3>2 DEF AppInv, ContentInv
    <2> QED
      BY <2>1, <2>2
  <1>7. Newer(file, last_pos + BlockLen, T)
    BY <1>6 DEF Newer
  <1>8. ASSUME NEW g \in Files, file < g PROVE Newer(g, 0, T)
    <2> SUFFICES ASSUME NEW i \in 1 .. Len(content[g]), NEW b \in T
                 PROVE  b < content[g][i]
      BY DEF Newer
    <2>1. CASE b \in S
      <3>1. Newer(g, 0, S) /\ i > 0
        BY <1>3, <1>8 DEF TwiceInv
      <3> QED
        BY <2>1, <3>1 DEF Newer
    <2>2. CASE b \notin S
      <3>1. PICK k \in 1 .. BlockLen :
              b = content[file][last_pos + k] /\ last_pos + k \in 1 .. Len(content[file])
        BY <1>4, <2>2
      <3> QED
        BY <1>1, <1>8, <3>1 DEF AppInv, ContentInv
    <2> QED
      BY <2>1, <2>2
  <1>9. last_pos + BlockLen <= Len(content[file]) \/ Newer(file, 0, T)
    <2>1. CASE BlockLen = 0
      <3>1. T \subseteq S
        BY <1>4, <2>1
      <3>2. last_pos <= Len(content[file]) \/ Newer(file, 0, S)
        BY <1>3 DEF TwiceInv, Shrunk
      <3>3. Newer(file, 0, S) => Newer(file, 0, T)
        BY <3>1 DEF Newer
      <3> QED
        BY <1>0, <2>1, <3>2, <3>3
    <2>2. CASE BlockLen # 0
      BY <1>1, <2>2
    <2> QED
      BY <2>1, <2>2
  <1>10. ASSUME NEW f, f = file PROVE Ready(f, T)' /\ Shrunk(f, T)'
    BY <1>1, <1>7, <1>9, <1>10 DEF Ready, Shrunk, Newer
  <1>11. ASSUME NEW g \in Files, file < g
         PROVE  Newer(g, 0, T)' /\ Ready(g, T)' /\ Shrunk(g, T)'
    <2>1. last_pos' \in Nat /\ \A i \in 1 .. Len(content[g]) : i > 0
      BY <1>0, <1>1
    <2>2. Newer(g, 0, T)' /\ Newer(g, last_pos, T)'
      BY <1>1, <1>8, <1>11, <2>1 DEF Newer
    <2> QED
      BY <2>2 DEF Ready, Shrunk
  <1>12. ASSUME NEW f \in Candidates' PROVE Ready(f, T)' /\ Shrunk(f, T)'
    <2>1. f = file \/ (f = path /\ path # NoFile)
      BY <1>1, <1>12 DEF Candidates
    <2>2. f = file \/ (f \in Files /\ file < f)
      <3>1. path # NoFile => path = created /\ path \in Files
        BY <1>0 DEF AppInv, NameInv
      <3> QED
        BY <1>0, <1>1, <2>1, <3>1 DEF Files
    <2> QED
      BY <1>10, <1>11, <2>2
  <1>13. ASSUME NEW f \in {file', moved'} \ {NoFile}, NEW g \in Files, f < g
         PROVE  Newer(g, 0, T)'
    BY <1>1, <1>11, <1>13
  <1> QED
    BY <1>1, <1>5, <1>12, <1>13 DEF TwiceInv

\* When the length is negative nothing is read.
LEMMA TwiceThrown ==
  ASSUME AppType, ReaderType, OpenInv, ReadBlock, BlockLen < 0, NEW S, TwiceInv(S)
  PROVE  TwiceInv(S)'
  <1>1. UNCHANGED <<path, content, clock, moved, file, last_pos>> /\ rpc' = "crashed"
    BY ReadChanges DEF appVars
  <1>2. ASSUME NEW f \in Candidates' PROVE Ready(f, S)' /\ Shrunk(f, S)'
    <2>1. f \in Candidates
      BY <1>1 DEF Candidates
    <2> QED
      BY <1>1, <2>1, NewerSame DEF TwiceInv
  <1>3. ASSUME NEW f \in {file', moved'} \ {NoFile}, NEW g \in Files, f < g
        PROVE  Newer(g, 0, S)'
    BY <1>1, <1>3, NewerSame DEF TwiceInv
  <1> QED
    BY <1>1, <1>2, <1>3 DEF TwiceInv

\* A block is garbage or bytes that were there.
LEMMA SoundBlock ==
  ASSUME AppType, ReaderType, HistoryType, OpenInv, ReadBlock, BlockLen >= 0,
         Junk \notin Collected'
  PROVE  /\ \A k \in 1 .. BlockLen : /\ last_pos + k \in 1 .. Len(content[file])
                                     /\ ByteRead(k) = content[file][last_pos + k]
         /\ BlockLen > 0 => last_pos + BlockLen <= Len(content[file])
  <1>0. file # NoFile /\ file \in Files /\ BlockLen \in Nat /\ last_pos \in Nat
    BY ReadChanges, Lengths
  <1>1. Len(content[file]) \in Nat
    BY <1>0, Lengths
  <1>2. ASSUME NEW k \in 1 .. BlockLen
        PROVE  /\ last_pos + k \in 1 .. Len(content[file])
               /\ ByteRead(k) = content[file][last_pos + k]
    <2>1. ByteRead(k) # Junk
      BY <1>0, ReadAdds
    <2>2. last_pos + k <= Len(content[file])
      BY <2>1 DEF ByteRead
    <2> QED
      BY <1>0, <1>1, <2>2 DEF ByteRead
  <1>3. BlockLen > 0 => BlockLen \in 1 .. BlockLen
    BY <1>0
  <1> QED
    BY <1>0, <1>1, <1>2, <1>3

\* What is read is newer than what was read before.
LEMMA IncreasingRead ==
  ASSUME AppType, ReaderType, HistoryType, AppInv, OpenInv, ReadBlock, BlockLen >= 0,
         Junk \notin Collected', Increasing, TwiceInv(Collected)
  PROVE  Increasing'
  <1> DEFINE n == Len(collected)
  <1>0. /\ file \in Files /\ file # NoFile /\ BlockLen \in Nat
        /\ last_pos \in Nat /\ current_len \in Int /\ rpc = "read"
    <2>1. rpc = "read"
      BY DEF ReadBlock
    <2>2. file \in Files /\ BlockLen \in Nat
      BY ReadChanges
    <2> QED
      BY <2>1, <2>2, Lengths
  <1>1. /\ n \in Nat /\ DOMAIN collected = 1 .. n /\ DOMAIN collected' = 1 .. n + BlockLen
        /\ \A i \in 1 .. n : collected'[i] = collected[i]
        /\ \A i \in 1 .. BlockLen : collected'[n + i] = ByteRead(i)
    <2>1. /\ collected \in Seq(0 .. MaxBytes) /\ collected' \in Seq(0 .. MaxBytes)
          /\ Len(collected') = n + BlockLen
      BY <1>0, ReadEffect DEF HistoryType
    <2>2. n \in Nat /\ DOMAIN collected = 1 .. n /\ DOMAIN collected' = 1 .. Len(collected')
      BY <2>1
    <2>3. /\ \A i \in DOMAIN collected : collected'[i] = collected[i]
          /\ \A i \in 1 .. BlockLen : collected'[n + i] = ByteRead(i)
      BY <1>0, ReadEffect
    <2> QED
      BY <2>1, <2>2, <2>3
  <1> HIDE DEF n
  <1>2. \A i \in 1 .. BlockLen : /\ last_pos + i \in 1 .. Len(content[file])
                                 /\ collected'[n + i] = content[file][last_pos + i]
    BY <1>1, SoundBlock
  <1>3. Newer(file, last_pos, Collected)
    <2>1. current_len >= 0
      BY <1>0, ReaderConstants DEF BlockLen
    <2> QED
      BY <1>0, <2>1 DEF TwiceInv
  <1> SUFFICES ASSUME NEW i \in 1 .. n + BlockLen, NEW j \in 1 .. n + BlockLen, i < j
               PROVE  collected'[i] < collected'[j]
    BY <1>1 DEF Increasing
  <1>4. CASE j <= n
    <2>1. i \in 1 .. n /\ j \in 1 .. n
      BY <1>0, <1>1, <1>4
    <2> QED
      BY <1>1, <2>1 DEF Increasing
  <1>5. CASE j > n /\ i <= n
    <2>1. i \in 1 .. n /\ j - n \in 1 .. BlockLen /\ n + (j - n) = j
      BY <1>0, <1>1, <1>5
    <2>2. collected'[i] \in Collected
      BY <1>1, <2>1 DEF Collected
    <2> DEFINE k == j - n
    <2> HIDE DEF k
    <2>3. k \in 1 .. BlockLen /\ n + k = j
      BY <2>1 DEF k
    <2>4. /\ last_pos + k \in 1 .. Len(content[file])
          /\ collected'[j] = content[file][last_pos + k]
      BY <1>2, <2>3
    <2>5. last_pos + k > last_pos
      BY <1>0, <2>3
    <2> QED
      BY <1>3, <2>2, <2>4, <2>5 DEF Newer
  <1>6. CASE i > n
    <2>1. /\ i - n \in 1 .. BlockLen /\ n + (i - n) = i
          /\ j - n \in 1 .. BlockLen /\ n + (j - n) = j
          /\ last_pos + (i - n) < last_pos + (j - n)
      BY <1>0, <1>1, <1>6
    <2>2. /\ last_pos + (i - n) \in 1 .. Len(content[file])
          /\ collected'[i] = content[file][last_pos + (i - n)]
          /\ last_pos + (j - n) \in 1 .. Len(content[file])
          /\ collected'[j] = content[file][last_pos + (j - n)]
      BY <1>2, <2>1
    <2> QED
      BY <1>0, <2>1, <2>2 DEF AppInv, ContentInv
  <1> QED
    BY <1>0, <1>1, <1>4, <1>5, <1>6

\* Every step but a read leaves what is newer than S newer.
LEMMA TwiceStep ==
  ASSUME AppType, ReaderType, AppInv, OpenInv, LengthsTold, NEW S, S \subseteq Int, TwiceInv(S),
         [Next]_vars, ~ReadBlock
  PROVE  TwiceInv(S)'
  <1>1. CASE Append1 \/ Truncate \/ Replace \/ Reopen \/ Crashed \/ UNCHANGED vars
    BY <1>1, TwiceApplication
  <1>2. CASE Open
    BY <1>2, TwiceOpen
  <1>3. CASE Compare
    BY <1>3, TwiceCompare
  <1>4. CASE MoveLogFile
    BY <1>4, TwiceMove
  <1>5. CASE OpenMoved
    BY <1>5, TwiceOpenMoved
  <1> QED
    BY <1>1, <1>2, <1>3, <1>4, <1>5 DEF Next, Application, ReadNexBlock

\* TwiceInv looks only at the bytes of S.
LEMMA TwiceEqual ==
  ASSUME NEW S, Collected = S
  PROVE  TwiceInv(Collected) <=> TwiceInv(S)
  <1>1. \A f, p : Newer(f, p, Collected) <=> Newer(f, p, S)
    BY DEF Newer
  <1>2. \A f : (Ready(f, Collected) <=> Ready(f, S)) /\ (Shrunk(f, Collected) <=> Shrunk(f, S))
    BY <1>1 DEF Ready, Shrunk
  <1> QED
    BY <1>1, <1>2 DEF TwiceInv

\* The same after a step.
LEMMA TwiceEqualNext ==
  ASSUME NEW S, Collected' = S
  PROVE  TwiceInv(S)' => TwiceInv(Collected)'
  <1>1. \A f, p : Newer(f, p, S)' => Newer(f, p, Collected)'
    BY DEF Newer
  <1>2. Newer(file, last_pos, S)' => Newer(file, last_pos, Collected)'
    BY DEF Newer
  <1>3. Newer(file, 0, S)' => Newer(file, 0, Collected)'
    BY DEF Newer
  <1>4. \A f : Newer(f, last_pos, S)' => Newer(f, last_pos, Collected)'
    BY DEF Newer
  <1>5. \A f : /\ Ready(f, S)' => Ready(f, Collected)'
               /\ Shrunk(f, S)' => Shrunk(f, Collected)'
    BY <1>1, <1>4 DEF Ready, Shrunk
  <1> QED
    BY <1>1, <1>2, <1>3, <1>5 DEF TwiceInv

\* What is not sound stays so.
LEMMA SoundBefore ==
  ASSUME AppType, ReaderType, HistoryType, OpenInv, [Next]_vars, Sound'
  PROVE  Sound
  <1>1. Collected \subseteq Collected'
    BY CollectedGrows
  <1>2. clock' = clock + 1 \/ clock' = clock
    BY ReaderLeaves DEF Next, Application, ReadNexBlock, Append1, Truncate, Replace, Reopen,
       MoveLogFile, appVars
  <1>3. clock \in Nat /\ IntMax \in Nat
    BY ReaderConstants DEF AppType
  <1> QED
    BY <1>1, <1>2, <1>3 DEF Sound, LengthsTold

\* The reader reads everything once.
LEMMA ReadOnceNext ==
  ASSUME AppType, ReaderType, HistoryType, AppInv, OpenInv, ReadOnce, [Next]_vars
  PROVE  ReadOnce'
  <1> SUFFICES ASSUME Sound' PROVE Increasing' /\ TwiceInv(Collected)'
    BY DEF ReadOnce
  <1>1. Sound
    BY SoundBefore
  <1>2. Increasing /\ TwiceInv(Collected)
    BY <1>1 DEF ReadOnce
  <1>3. PICK S : S = Collected
    OBVIOUS
  <1>4. PICK T : T = Collected'
    OBVIOUS
  <1>5. TwiceInv(S) /\ S \subseteq Int /\ LengthsTold
    <2>1. S \subseteq Int
      <3>1. collected \in Seq(0 .. MaxBytes)
        BY DEF HistoryType
      <3>2. DOMAIN collected = 1 .. Len(collected)
        BY <3>1
      <3>3. \A i \in DOMAIN collected : collected[i] \in 0 .. MaxBytes
        BY <3>1, <3>2, ElementIn
      <3> QED
        BY <1>3, <3>3, ReaderConstants DEF Collected
    <2> QED
      BY <1>1, <1>2, <1>3, <2>1, TwiceEqual DEF Sound
  <1>6. CASE ReadBlock /\ BlockLen >= 0
    <2>1. Junk \notin Collected'
      BY DEF Sound
    <2>2. Increasing'
      BY <1>2, <1>6, <2>1, IncreasingRead
    <2>3. file # NoFile
      BY <1>6, ReadChanges, Lengths
    <2>4. \A b \in T : b \in S \/ \E k \in 1 .. BlockLen : b = content[file][last_pos + k]
      BY <1>3, <1>4, <1>6, <2>1, <2>3, ReadAdds, SoundBlock
    <2>5. BlockLen > 0 => last_pos + BlockLen <= Len(content[file])
      BY <1>6, <2>1, SoundBlock
    <2>6. TwiceInv(T)'
      BY <1>5, <1>6, <2>4, <2>5, TwiceRead
    <2> QED
      BY <1>4, <2>2, <2>6, TwiceEqualNext
  <1>7. CASE ReadBlock /\ ~(BlockLen >= 0)
    <2>1. BlockLen < 0 /\ UNCHANGED collected
      BY <1>7, ReadChanges
    <2>2. TwiceInv(S)'
      BY <1>5, <1>7, <2>1, TwiceThrown
    <2>3. Collected' = S
      BY <1>3, <2>1 DEF Collected
    <2> QED
      BY <1>2, <2>1, <2>2, <2>3, TwiceEqualNext DEF Increasing
  <1>8. CASE ~ReadBlock
    <2>1. UNCHANGED collected
      BY <1>8 DEF Next, Application, ReadNexBlock, Append1, Truncate, Replace, Reopen, Open,
         Compare, MoveLogFile, OpenMoved, Crashed, readerVars, vars
    <2>2. TwiceInv(S)'
      BY <1>5, <1>8, TwiceStep
    <2>3. Collected' = S
      BY <1>3, <2>1 DEF Collected
    <2> QED
      BY <1>2, <2>1, <2>2, <2>3, TwiceEqualNext DEF Increasing
  <1> QED
    BY <1>6, <1>7, <1>8

-----------------------------------------------------------------------------

Inv ==
  /\ AppType /\ ReaderType /\ HistoryType
  /\ AppInv /\ OpenInv /\ PassedInv /\ ReadOnce

\* The application has created an empty log and nothing was read.
LEMMA InitInv == Init => Inv /\ TouchType /\ UntouchedInv
  <1> SUFFICES ASSUME Init PROVE Inv /\ TouchType /\ UntouchedInv
    OBVIOUS
  <1> USE ReaderConstants
  <1>1. AppType /\ ReaderType /\ HistoryType
    BY DEF Init, AppType, ReaderType, HistoryType, Files, NoFile
  <1>2. AppInv
    BY DEF Init, AppInv, NameInv, ContentInv, Files, NoFile
  <1>3. OpenInv /\ PassedInv
    BY DEF Init, OpenInv, PassedInv, NoFile
  <1>4. Collected = {}
    BY DEF Init, Collected
  <1>5. Increasing
    BY DEF Init, Increasing
  <1>6. \A f, p : Newer(f, p, Collected)
    BY <1>4 DEF Newer
  <1>7. Candidates = {1} /\ {file, moved} \ {NoFile} = {} /\ 1 \in Files
    BY DEF Init, Candidates, NoFile, Files
  <1>8. TwiceInv(Collected)
    BY <1>4, <1>6, <1>7 DEF Init, TwiceInv, Ready, Shrunk
  <1>9. TouchType
    BY DEF Init, TouchType
  <1>10. Kept
    BY DEF Init, Kept
  <1>11. UntouchedInv
    BY <1>10, Zenon DEF UntouchedInv
  <1> QED
    BY <1>1, <1>2, <1>3, <1>5, <1>8, <1>9, <1>11 DEF Inv, ReadOnce

\* The invariant is inductive.
LEMMA ReaderInvariant == Spec => [](Inv /\ TouchType /\ UntouchedInv)
  <1>1. Inv /\ [Next]_vars => Inv'
    <2> SUFFICES ASSUME Inv, [Next]_vars PROVE Inv'
      OBVIOUS
    <2>1. AppType' /\ ReaderType' /\ HistoryType'
      BY TypeNext DEF Inv
    <2>2. AppInv'
      BY NameNext, ContentNext DEF Inv, AppInv
    <2>3. OpenInv' /\ PassedInv' /\ ReadOnce'
      BY OpenNext, PassedNext, ReadOnceNext DEF Inv, AppInv
    <2> QED
      BY <2>1, <2>2, <2>3 DEF Inv
  <1>2. TouchType /\ [Next]_vars => TouchType'
    BY TouchNext
  <1>3. Inv /\ TouchType /\ UntouchedInv /\ [Next]_vars => UntouchedInv'
    BY UntouchedNext DEF Inv
  <1> QED
    BY InitInv, <1>1, <1>2, <1>3, PTL DEF Spec

\* Every variable of the reader and of the application keeps its type, last_pos_ is never
\* negative, and a length is an int (process_log_reader.cpp:19-149).
THEOREM TypeCorrect == Spec => []TypeOK
  <1>1. Inv /\ TouchType => TypeOK
    BY TypeParts DEF Inv
  <1> QED
    BY <1>1, ReaderInvariant, PTL

\* No byte is read twice or after a newer one (process_log_reader.cpp:98-146), for any
\* split size, block size and width of an int.
THEOREM NothingTwiceCorrect == Spec => []NothingTwice
  <1>1. Inv => NothingTwice
    BY DEF Inv, ReadOnce, Sound, Increasing, NothingTwice
  <1> QED
    BY <1>1, ReaderInvariant, PTL

\* What last_pos_ has passed was read (process_log_reader.cpp:99-144).
THEOREM NothingPassedOverCorrect == Spec => []NothingPassedOver
  <1>1. Inv => NothingPassedOver
    BY DEF Inv, AppInv, NameInv, PassedInv, NothingPassedOver
  <1> QED
    BY <1>1, ReaderInvariant, PTL

\* A read fails only if the application has changed the file in the middle of the call
\* (process_log_reader.cpp:135-143).
THEOREM FailsOnlyIfTouchedCorrect == Spec => FailsOnlyIfTouched
  <1> DEFINE Step == ~touched' /\ rpc = "read" /\ Len(content[file]) <= IntMax
                       => /\ rpc' # "crashed"
                          /\ \A i \in DOMAIN collected' \ DOMAIN collected : collected'[i] # Junk
  <1>1. Inv /\ UntouchedInv /\ [Next]_vars => [Step]_vars
    BY ReadIsSound DEF Inv
  <1>2. Spec => [][Step]_vars
    BY <1>1, ReaderInvariant, PTL DEF Spec
  <1> QED
    BY <1>2 DEF FailsOnlyIfTouched
=============================================================================
