-------------------------- MODULE ProcessLogReader --------------------------
(***************************************************************************)
(* How the client follows a growing log file (process_log_reader.cpp).     *)
(*                                                                         *)
(* The application that writes the log runs beside the reader: it appends, *)
(* truncates its file, replaces it by a new one, or opens                  *)
(* process_log_path_ again.  A file that was moved away is still written   *)
(* by an application that has it open, so files are kept apart from the    *)
(* name they are found under.  The reader finds the file by its name, each *)
(* system call of ReadNexBlock is a step, and the application may move in  *)
(* between.                                                                *)
(*                                                                         *)
(* The application writes the numbers 1, 2, 3, ... so that what was read   *)
(* can be compared with what was written.                                  *)
(***************************************************************************)
EXTENDS Integers, Sequences

CONSTANTS
  SplitSize,    \* split_size_
  BlockMax,     \* g_100MB
  IntMax,       \* the greatest value of an int
  MaxBytes,     \* bound: bytes the application writes
  MaxChanges,   \* bound: truncations and replacements
  MaxFiles      \* bound: files the application creates

ASSUME ReaderConstants ==
  /\ SplitSize \in Int
  /\ BlockMax \in Nat \ {0}
  /\ IntMax \in Nat
  /\ MaxBytes \in Nat
  /\ MaxChanges \in Nat
  /\ MaxFiles \in Nat \ {0}

NoFile == 0
Junk   == 0     \* what new char[len] holds before fread
Files  == 1 .. MaxFiles

VARIABLES
  path,         \* the file at process_log_path_, or NoFile
  content,      \* the bytes of each file
  writer,       \* the file the application has open
  created,      \* files created so far
  clock,        \* bytes written so far
  changes,      \* truncations and replacements so far
  rpc,          \* where ReadNexBlock is
  file,         \* file_
  current_len,  \* current_file_len_
  last_pos,     \* last_pos_
  moved,        \* the file at new_file_path after the mv, or NoFile
  collected,    \* history: the bytes of all blocks
  source,       \* history: the file last_pos_ has counted up in from its start
  touched       \* history: path or a length went back during this ReadNexBlock

appVars    == <<path, content, writer, created, clock, changes>>
readerVars == <<rpc, file, current_len, last_pos, moved, collected, source>>
vars == <<appVars, readerVars, touched>>

-----------------------------------------------------------------------------
(* The application.                                                        *)

Append1 ==
  /\ clock < MaxBytes
  /\ clock' = clock + 1
  /\ content' = [content EXCEPT ![writer] = Append(@, clock + 1)]
  /\ UNCHANGED <<path, writer, created, changes, readerVars, touched>>

Truncate ==
  /\ changes < MaxChanges
  /\ changes' = changes + 1
  /\ content' = [content EXCEPT ![writer] = <<>>]
  /\ source' = IF source = writer THEN NoFile ELSE source
  /\ touched' = TRUE
  /\ UNCHANGED <<path, writer, created, clock, rpc, file, current_len, last_pos,
                 moved, collected>>

\* A new file takes the name; the old one is gone or has another name.
NewFile ==
  /\ created < MaxFiles
  /\ created' = created + 1
  /\ path' = created + 1
  /\ writer' = created + 1

Replace ==
  /\ path # NoFile
  /\ changes < MaxChanges
  /\ changes' = changes + 1
  /\ NewFile
  /\ touched' = TRUE
  /\ UNCHANGED <<content, clock, readerVars>>

\* fopen(process_log_path_, "a"): the application notices that the file was moved.
Reopen ==
  /\ path # writer
  /\ IF path = NoFile THEN NewFile
                      ELSE writer' = path /\ UNCHANGED <<path, created>>
  /\ UNCHANGED <<content, clock, changes, readerVars, touched>>

-----------------------------------------------------------------------------
(* ReadNexBlock.                                                           *)

Return == rpc' = "idle" /\ file' = NoFile /\ current_len' = 0

\* Mutant of ToInt: a length of any width.
ToLong(n) == n

\* current_file_len_ is an int, ftell returns a long.
ToInt(n) == ((n + IntMax + 1) % (2 * (IntMax + 1))) - (IntMax + 1)

\* Open(): kOpenFileFailed when nothing is there.
Open ==
  /\ rpc = "idle"
  /\ \/ /\ path = NoFile
        /\ UNCHANGED <<rpc, file, current_len>>
     \/ /\ path # NoFile
        /\ file' = path
        /\ current_len' = ToInt(Len(content[path]))
        /\ rpc' = "compare"
  /\ moved' = NoFile
  /\ touched' = FALSE
  /\ UNCHANGED <<appVars, last_pos, collected, source>>

\* Mutants of StartPos: a file that became shorter is not read from its start; any
\* file that has changed is.
KeepPos == last_pos
Restart == IF current_len # last_pos THEN 0 ELSE last_pos

StartPos == IF current_len < last_pos THEN 0 ELSE last_pos

\* The comparison of current_file_len_ with last_pos_ and with split_size_.
Compare ==
  /\ rpc = "compare"
  /\ last_pos' = StartPos
  /\ source' = IF StartPos = 0 THEN file ELSE source
  /\ IF current_len = StartPos THEN Return
     ELSE /\ rpc' = IF current_len >= SplitSize THEN "move" ELSE "read"
          /\ UNCHANGED <<file, current_len>>
  /\ UNCHANGED <<appVars, moved, collected, touched>>

\* MoveLogFile closes the file and runs mv on the name.  It reports a failure
\* only when the shell could not be started; mv may have failed all the same.  The
\* command has room for 255 characters: the end of a long target is cut off, and
\* then the file is not at new_file_path.
MoveLogFile ==
  /\ rpc = "move"
  /\ \/ /\ moved' \in {path, NoFile}
        /\ path' = NoFile
        /\ rpc' = "openMoved"
     \/ /\ rpc' \in {"openMoved", "idle"}
        /\ UNCHANGED <<moved, path>>
  /\ file' = NoFile
  /\ current_len' = 0
  /\ UNCHANGED <<content, writer, created, clock, changes, last_pos, collected,
                 source, touched>>

\* Open(new_file_path, true)
OpenMoved ==
  /\ rpc = "openMoved"
  /\ IF moved = NoFile THEN Return
     ELSE /\ file' = moved
          /\ current_len' = ToInt(Len(content[moved]))
          /\ rpc' = "read"
  /\ UNCHANGED <<appVars, last_pos, moved, collected, source, touched>>

\* The block: what is left of the file, at most BlockMax bytes of it.
BlockLen == IF current_len - last_pos > BlockMax THEN BlockMax
                                                 ELSE current_len - last_pos

\* Mutant of NextPos: the block was cut, the position was not.
NextPosAtEnd == current_len

NextPos == last_pos + BlockLen

\* fread into a new block.  A file that has become shorter since leaves the end
\* of the block unset; a negative length makes new[] throw.
ReadBlock ==
  /\ rpc = "read"
  /\ IF BlockLen < 0
     THEN /\ rpc' = "crashed"
          /\ UNCHANGED <<file, current_len, last_pos, collected, source>>
     ELSE /\ collected' = collected \o
               [i \in 1 .. BlockLen |->
                  IF last_pos + i <= Len(content[file])
                  THEN content[file][last_pos + i] ELSE Junk]
          /\ last_pos' = NextPos
          /\ source' = IF NextPos > Len(content[file]) THEN NoFile
                      ELSE IF last_pos = 0 THEN file ELSE source
          /\ Return
  /\ UNCHANGED <<appVars, moved, touched>>

\* The process is gone.
Crashed == rpc = "crashed" /\ UNCHANGED vars

-----------------------------------------------------------------------------

\* The application has created its log.
Init ==
  /\ path = 1
  /\ content = [f \in Files |-> <<>>]
  /\ writer = 1
  /\ created = 1
  /\ clock = 0
  /\ changes = 0
  /\ rpc = "idle"
  /\ file = NoFile
  /\ current_len = 0
  /\ last_pos = 0
  /\ moved = NoFile
  /\ collected = <<>>
  /\ source = 1
  /\ touched = FALSE

Application == rpc # "crashed" /\ (Append1 \/ Truncate \/ Replace \/ Reopen)
ReadNexBlock == Open \/ Compare \/ MoveLogFile \/ OpenMoved \/ ReadBlock

Next == Application \/ ReadNexBlock \/ Crashed

Spec == Init /\ [][Next]_vars

\* The main loop calls ReadNexBlock again and again (main.cpp:141); the application
\* promises nothing.
FairSpec == Spec /\ WF_vars(ReadNexBlock)

-----------------------------------------------------------------------------
(* What the reader keeps true.                                             *)

TypeOK ==
  /\ path \in Files \cup {NoFile}
  /\ content \in [Files -> Seq(1 .. MaxBytes)]
  /\ writer \in Files
  /\ created \in Files
  /\ clock \in 0 .. MaxBytes
  /\ changes \in 0 .. MaxChanges
  /\ rpc \in {"idle", "compare", "move", "openMoved", "read", "crashed"}
  /\ file \in Files \cup {NoFile}
  /\ current_len \in -(IntMax + 1) .. IntMax
  /\ last_pos \in Nat
  /\ moved \in Files \cup {NoFile}
  /\ collected \in Seq(0 .. MaxBytes)
  /\ source \in Files \cup {NoFile}
  /\ touched \in BOOLEAN

Collected == {collected[i] : i \in DOMAIN collected}

\* A length that an int cannot tell is negative; one that an unsigned int cannot tell
\* looks like that of a shorter file.
LengthsTold == clock <= 2 * IntMax + 1

\* "New" data, says process_log_reader.h:25: no byte is read twice and none after
\* a byte that was written later, however the file is moved, replaced and
\* truncated; unless a truncation in the middle of a call put garbage into a block,
\* after which last_pos_ is beyond what was really read, or so much was written that
\* a long file can be taken for a short one and read again.
NothingTwice ==
  Junk \notin Collected /\ LengthsTold =>
    \A i, j \in DOMAIN collected : i < j => collected[i] < collected[j]

\* What last_pos_ has passed was read: as long as the name stays with the file that
\* last_pos_ has counted in and that file is not truncated, nothing of it is missed.
NothingPassedOver ==
  path = source /\ path # NoFile
    => \A i \in 1 .. last_pos :
         i <= Len(content[path]) /\ content[path][i] \in Collected

\* A block is garbage, or its length negative, only when the application has
\* changed the file in the middle of the call, or the file is longer than an int
\* can tell.
FailsOnlyIfTouched ==
  [][~touched' /\ rpc = "read" /\ Len(content[file]) <= IntMax
       => /\ rpc' # "crashed"
          /\ \A i \in DOMAIN collected' \ DOMAIN collected : collected'[i] # Junk]_vars

\* A byte that stays in the file that last_pos_ counts in is read in the end, as
\* long as that file keeps the name and does not have to be moved: nothing is read
\* while mv fails.
Unread(b) ==
  /\ path = source /\ path # NoFile /\ Len(content[path]) < SplitSize
  /\ \E i \in DOMAIN content[path] : content[path][i] = b
  /\ b \notin Collected

EverythingIsRead == \A b \in 1 .. MaxBytes : Unread(b) ~> ~Unread(b)

\* process_log_reader.cpp:136 says that more than 100MB is divided into pieces of
\* 100MB: so what a piece leaves should be found by the next call.
DividedNotDropped ==
  [][rpc = "read" /\ current_len - last_pos > BlockMax => path' = file]_vars
=============================================================================
