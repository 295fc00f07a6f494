---------------------------- MODULE LogPipeline ----------------------------
(***************************************************************************)
(* A client as a whole: the application and its log, ReadNexBlock          *)
(* (ProcessLogReader), the main loop and its connections (LogClient), and  *)
(* what the server takes.  The loop is inside ReadNexBlock or elsewhere,   *)
(* so that a step of the reader is a step of the loop; the application and *)
(* the network move at any time.  A process that is started again knows    *)
(* nothing of the position that the old one had reached in the log.        *)
(***************************************************************************)
EXTENDS LogClient

CONSTANTS SplitSize, BlockMax, IntMax, MaxBytes, MaxChanges, MaxFiles

ASSUME ReaderConstants ==
  /\ SplitSize \in Int
  /\ BlockMax \in Nat \ {0}
  /\ IntMax \in Nat
  /\ MaxBytes \in Nat
  /\ MaxChanges \in Nat
  /\ MaxFiles \in Nat \ {0}

VARIABLES
  path, content, writer, created, clock, changes,
  rpc, file, current_len, last_pos, moved, collected, source, touched,
  text,   \* history: the bytes of each block, and the process that read it
  proc    \* the number of the process

R == INSTANCE ProcessLogReader

appVars  == <<path, content, writer, created, clock, changes>>
fileVars == <<appVars, rpc, file, current_len, last_pos, moved, collected, source,
              touched>>
allVars  == <<vars, fileVars, text, proc>>

-----------------------------------------------------------------------------

InReadNexBlock == mpc = "read"

Application == R!Application /\ UNCHANGED <<vars, text, proc>>

\* A step inside ReadNexBlock.
Reading ==
  /\ InReadNexBlock
  /\ R!ReadNexBlock
  /\ rpc' # "idle"
  /\ UNCHANGED <<vars, text, proc>>

\* ReadNexBlock returns: with a block, with nothing new, or with an error.  Open of a
\* missing file returns at once.
Returning ==
  LET bytes == SubSeq(collected', Len(collected) + 1, Len(collected'))
  IN  /\ InReadNexBlock
      /\ R!ReadNexBlock
      /\ rpc' = "idle"
      /\ mpc' = "connect"
      /\ IF bytes # <<>>
         THEN HasMore /\ ReadSome /\ text' = Append(text, [proc |-> proc, bytes |-> bytes])
         ELSE ReadNone /\ UNCHANGED text
      /\ UNCHANGED <<send_len, clientVars, netVars, serverVars, faults, proc>>

\* The rest of the loop, and the network.
Client == (ConnectToServer \/ SendToServer) /\ UNCHANGED <<fileVars, text, proc>>

Server == Network /\ UNCHANGED <<fileVars, text, proc>>

\* Mutant of NewReader: the position survives the process.
SamePosition == UNCHANGED <<last_pos, source>>

NewReader == last_pos' = 0 /\ source' = R!NoFile

\* The process is started again, also after new[] threw.
NewProcess ==
  /\ StartAgain
  /\ proc' = proc + 1
  /\ rpc' = "idle"
  /\ file' = R!NoFile
  /\ current_len' = 0
  /\ moved' = R!NoFile
  /\ NewReader
  /\ touched' = FALSE
  /\ UNCHANGED <<appVars, collected, text>>

\* The process is gone, or will never leave send.
Halted == (rpc = "crashed" \/ SendBlocks) /\ UNCHANGED allVars

PipelineInit == Init /\ R!Init /\ text = <<>> /\ proc = 1

Loop == Client \/ Reading \/ Returning

PipelineNext == Application \/ Loop \/ Server \/ NewProcess \/ Halted

\* The loop goes on for ever, and a server reads what arrives on a connection that it
\* has not forgotten (DataIsRead of TcpServer).  The application promises nothing; the
\* network fails only MaxFaults times.
PipelineSpec ==
  /\ PipelineInit
  /\ [][PipelineNext]_allVars
  /\ WF_allVars(Loop)
  /\ \A c \in Conns : WF_allVars(Deliver(c) /\ UNCHANGED <<fileVars, text, proc>>)

-----------------------------------------------------------------------------
(* What the parts keep true together.                                      *)

Bytes(n) == Range(text[n].bytes)

Stored == UNION {Bytes(received[i].block) : i \in DOMAIN received}

\* The server's log has no byte twice, though blocks are sent again and the reader
\* starts again in a file that was replaced: two blocks of one process that the
\* server has taken share nothing, unless one holds garbage or a file is too long for
\* its length to be told.
StoredOnce ==
  R!Junk \notin R!Collected /\ R!LengthsTold =>
    \A i, j \in DOMAIN received :
      LET m == received[i].block
          n == received[j].block
      IN  i # j /\ text[m].proc = text[n].proc => Bytes(m) \cap Bytes(n) = {}

\* The bytes of the named file that ReadNexBlock will come to, or has passed, without
\* a mv in between.
InLog(b) ==
  /\ path # R!NoFile /\ Len(content[path]) < SplitSize
  /\ source = path \/ last_pos = 0
  /\ b \in Range(content[path])

LostByThis(b) == \E n \in lost : text[n].proc = proc /\ b \in Bytes(n)

\* End to end: when the application has stopped writing, a time comes from which each
\* byte of the log file is in the server's log, unless this process lost it with a
\* connection, or the server forgot one.  What an earlier process lost has been
\* sent again.
Arrived(b) == b \in Stored \/ LostByThis(b)

LogArrives ==
  <>[](\/ ignored # {} \/ rpc = "crashed"
       \/ \A b \in 1 .. MaxBytes : InLog(b) => Arrived(b))
=============================================================================
