------------------------- MODULE LogPipelineProofs -------------------------
(***************************************************************************)
(* The client as a whole implements the main loop of LogClient: the        *)
(* application and the steps inside ReadNexBlock stutter, and the return   *)
(* of ReadNexBlock is one step of the loop.  So what is proved of LogClient *)
(* holds whatever the log file goes through.  With what is proved of the    *)
(* reader (ProcessLogReaderProofs) it follows that no byte of the log is   *)
(* stored twice.                                                           *)
(***************************************************************************)
EXTENDS LogPipeline, LogClientProofs

P == INSTANCE ProcessLogReaderProofs

-----------------------------------------------------------------------------

\* The return of ReadNexBlock is the loop's ReadNexBlock, with a block or without one.
LEMMA ReturningReads == Returning => ReadNexBlock
  BY DEF Returning, InReadNexBlock, ReadNexBlock, clientVars, netVars, serverVars

\* Each step of the client as a whole is a step of the main loop or of its network, or
\* changes nothing that the loop sees.
LEMMA StepOfClient == [PipelineNext]_allVars => [Next]_vars
  <1> SUFFICES ASSUME [PipelineNext]_allVars PROVE [Next]_vars
    OBVIOUS
  <1>1. CASE Application
    BY <1>1 DEF Application
  <1>2. CASE Loop
    BY <1>2, ReturningReads DEF Loop, Client, Reading, Next, MainLoop, SendToServer
  <1>3. CASE Server
    BY <1>3 DEF Server, Next
  <1>4. CASE NewProcess
    BY <1>4 DEF NewProcess, Next
  <1>5. CASE Halted \/ UNCHANGED allVars
    BY <1>5 DEF Halted, allVars
  <1> QED
    BY <1>1, <1>2, <1>3, <1>4, <1>5 DEF PipelineNext

\* So what LogClient's specification allows is all that the client as a whole does
\* (main.cpp:98-158).
LEMMA LoopImplements == PipelineSpec => Spec
  <1>1. PipelineInit => Init
    BY DEF PipelineInit
  <1> QED
    BY <1>1, StepOfClient, PTL DEF PipelineSpec, Spec

\* So each block is in one place, whole and in order, whatever the application does to
\* its log file and whenever the process is started again.
THEOREM BlocksCorrect ==
  PipelineSpec => [](TypeOK /\ ExactlyOnePlace /\ FramesWhole /\ OrderedByConnection)
  <1>1. PipelineSpec => Spec
    BY LoopImplements
  <1> QED
    BY <1>1, TypeCorrect, ExactlyOnePlaceCorrect, FramesWholeCorrect,
       OrderedByConnectionCorrect, PTL

-----------------------------------------------------------------------------

\* The bytes that this process has read.
Mine == UNION {Bytes(n) : n \in {k \in DOMAIN text : text[k].proc = proc}}

\* The bytes of each block, numbered as the main loop numbers them.
TextType ==
  /\ proc \in Nat
  /\ text \in Seq([proc : Nat, bytes : Seq(0 .. MaxBytes)])
  /\ Len(text) = read
  /\ \A n \in DOMAIN text : text[n].proc <= proc

\* The reader of this process and the bytes it has read.
ReaderInv ==
  /\ P!AppType /\ P!ReaderType /\ P!HistoryType
  /\ P!AppInv /\ P!OpenInv

\* Two blocks of one process share no byte.
Apart ==
  \A m, n \in DOMAIN text :
    m # n /\ text[m].proc = text[n].proc => Bytes(m) \cap Bytes(n) = {}

TextInv == P!Sound => P!TwiceInv(Mine) /\ Apart

-----------------------------------------------------------------------------

\* The reader of the two instances is one.
LEMMA SameReader ==
  /\ R!Application <=> P!Application
  /\ R!ReadNexBlock <=> P!ReadNexBlock
  /\ R!Init <=> P!Init
  /\ R!NoFile = P!NoFile
  /\ UNCHANGED fileVars => UNCHANGED P!vars
  <1>1. R!Application <=> P!Application
    BY DEF R!Application, P!Application, R!Append1, P!Append1, R!Truncate, P!Truncate,
       R!Replace, P!Replace, R!Reopen, P!Reopen, R!NewFile, P!NewFile, R!readerVars,
       P!readerVars, R!NoFile, P!NoFile
  <1>2. R!Open <=> P!Open
    BY DEF R!Open, P!Open, R!ToInt, P!ToInt, R!NoFile, P!NoFile, R!appVars, P!appVars
  <1>3. R!Compare <=> P!Compare
    BY DEF R!Compare, P!Compare, R!StartPos, P!StartPos, R!Return, P!Return, R!NoFile, P!NoFile,
       R!appVars, P!appVars
  <1>4. R!MoveLogFile <=> P!MoveLogFile
    BY DEF R!MoveLogFile, P!MoveLogFile, R!NoFile, P!NoFile
  <1>5. R!OpenMoved <=> P!OpenMoved
    BY DEF R!OpenMoved, P!OpenMoved, R!ToInt, P!ToInt, R!Return, P!Return, R!NoFile, P!NoFile,
       R!appVars, P!appVars
  <1>6. R!ReadBlock <=> P!ReadBlock
    BY DEF R!ReadBlock, P!ReadBlock, R!BlockLen, P!BlockLen, R!NextPos, P!NextPos, R!Return,
       P!Return, R!NoFile, P!NoFile, R!Junk, P!Junk, R!appVars, P!appVars
  <1>7. R!ReadNexBlock <=> P!ReadNexBlock
    BY <1>2, <1>3, <1>4, <1>5, <1>6 DEF R!ReadNexBlock, P!ReadNexBlock
  <1>8. R!Init <=> P!Init
    BY DEF R!Init, P!Init, R!Files, P!Files, R!NoFile, P!NoFile
  <1>9. UNCHANGED fileVars => UNCHANGED P!vars
    BY DEF fileVars, appVars, P!vars, P!appVars, P!readerVars
  <1> QED
    BY <1>1, <1>7, <1>8, <1>9 DEF R!NoFile, P!NoFile

\* Each step is one of the reader and its application, or a new process.
LEMMA StepOfReader == [PipelineNext]_allVars => [P!Next]_P!vars \/ NewProcess
  BY SameReader DEF PipelineNext, Application, Loop, Client, Reading, Returning, Server, Halted,
     allVars, P!Next

\* The reader's own invariant survives the process.
LEMMA ReaderInvNext ==
  ASSUME ReaderInv, [PipelineNext]_allVars
  PROVE  ReaderInv'
  <1>1. CASE [P!Next]_P!vars
    BY <1>1, ReaderConstants, P!TypeNext, P!NameNext, P!ContentNext, P!OpenNext
       DEF ReaderInv, P!AppInv
  <1>2. CASE NewProcess
    <2>1. /\ UNCHANGED <<path, content, writer, created, clock, changes, collected>>
          /\ rpc' = "idle" /\ file' = P!NoFile /\ current_len' = 0 /\ moved' = P!NoFile
          /\ last_pos' = 0 /\ source' = P!NoFile
      BY <1>2, SameReader DEF NewProcess, NewReader, appVars
    <2>2. P!AppType' /\ P!HistoryType'
      BY <2>1 DEF ReaderInv, P!AppType, P!HistoryType
    <2>3. P!ReaderType'
      BY <2>1, ReaderConstants DEF P!ReaderType, P!NoFile
    <2>4. P!AppInv'
      BY <2>1 DEF ReaderInv, P!AppInv, P!NameInv, P!ContentInv
    <2>5. P!OpenInv'
      BY <2>1, ReaderConstants DEF ReaderInv, P!OpenInv, P!AppType, P!Files, P!NoFile
    <2> QED
      BY <2>2, <2>3, <2>4, <2>5 DEF ReaderInv
  <1> QED
    BY <1>1, <1>2, StepOfReader

\* What SubSeq cuts out, element by element.
LEMMA SliceEffect ==
  ASSUME NEW S, NEW q \in Seq(S), NEW n \in Nat, NEW k \in Nat, Len(q) = n + k
  PROVE  /\ SubSeq(q, n + 1, Len(q)) \in Seq(S)
         /\ Len(SubSeq(q, n + 1, Len(q))) = k
         /\ \A i \in 1 .. k : SubSeq(q, n + 1, Len(q))[i] = q[n + i]
  <1>1. \A i \in n + 1 .. Len(q) : q[i] \in S
    OBVIOUS
  <1> QED
    BY <1>1

\* The two ways in which a step of the reader can end.
ReadsBlock ==
  /\ P!ReadBlock /\ P!BlockLen > 0
  /\ proc' = proc /\ read' = read + 1
  /\ \E bytes \in Seq(0 .. MaxBytes) :
       /\ text' = Append(text, [proc |-> proc, bytes |-> bytes])
       /\ Len(bytes) = P!BlockLen
       /\ \A i \in 1 .. Len(bytes) : bytes[i] = P!ByteRead(i)

ReadsNothing ==
  /\ [P!Next]_P!vars
  /\ P!ReadBlock => P!BlockLen <= 0
  /\ UNCHANGED <<text, proc, read>>

\* ReadNexBlock adds what it returns to the history, and returns nothing otherwise.
LEMMA StepOfText ==
  ASSUME ReaderInv, [PipelineNext]_allVars
  PROVE  ReadsBlock \/ ReadsNothing \/ NewProcess
  <1> USE ReaderConstants
  <1>0. P!AppType /\ P!ReaderType /\ P!HistoryType /\ P!OpenInv
    BY DEF ReaderInv
  <1>1. P!ReadBlock =>
          /\ rpc' # rpc /\ file # P!NoFile /\ P!BlockLen \in Int
          /\ P!BlockLen < 0 => rpc' = "crashed" /\ UNCHANGED collected
          /\ P!BlockLen >= 0 => rpc' = "idle"
    <2> SUFFICES ASSUME P!ReadBlock
                 PROVE  /\ rpc' # rpc /\ file # P!NoFile /\ P!BlockLen \in Int
                        /\ P!BlockLen < 0 => rpc' = "crashed" /\ UNCHANGED collected
                        /\ P!BlockLen >= 0 => rpc' = "idle"
      OBVIOUS
    <2>1. rpc = "read"
      BY DEF P!ReadBlock
    <2>2. file # P!NoFile
      BY <1>0, <2>1 DEF P!OpenInv
    <2> QED
      BY <1>0, <2>1, <2>2, P!ReadChanges
  <1>2. CASE Application
    <2>1. UNCHANGED <<text, proc, read>> /\ P!Application
      BY <1>2, SameReader DEF Application, vars, loopVars
    <2>2. rpc' = rpc
      BY <2>1 DEF P!Application, P!Append1, P!Truncate, P!Replace, P!Reopen, P!readerVars
    <2> QED
      BY <1>1, <2>1, <2>2 DEF P!Next, ReadsNothing
  <1>3. CASE Reading
    <2>1. UNCHANGED <<text, proc, read>> /\ P!ReadNexBlock /\ rpc' # "idle"
      BY <1>3, SameReader DEF Reading, vars, loopVars
    <2> QED
      BY <1>1, <2>1 DEF P!Next, ReadsNothing
  <1>4. CASE Returning
    <2> DEFINE n == Len(collected)
               bytes == SubSeq(collected', Len(collected) + 1, Len(collected'))
    <2>1. /\ P!ReadNexBlock /\ rpc' = "idle" /\ proc' = proc
          /\ \/ bytes # <<>> /\ read' = read + 1
                /\ text' = Append(text, [proc |-> proc, bytes |-> bytes])
             \/ bytes = <<>> /\ UNCHANGED <<text, read>>
      BY <1>4, SameReader DEF Returning, ReadSome, ReadNone
    <2>2. collected \in Seq(0 .. MaxBytes) /\ n \in Nat
      BY <1>0 DEF P!HistoryType
    <2>3. CASE P!ReadBlock
      <3>1. P!BlockLen >= 0 /\ P!BlockLen \in Nat
        BY <1>1, <2>1, <2>3
      <3>2. /\ collected' \in Seq(0 .. MaxBytes)
            /\ Len(collected') = n + P!BlockLen
            /\ \A i \in 1 .. P!BlockLen : collected'[n + i] = P!ByteRead(i)
        BY <1>0, <1>1, <2>3, <3>1, P!ReadEffect
      <3>3. /\ bytes \in Seq(0 .. MaxBytes) /\ Len(bytes) = P!BlockLen
            /\ \A i \in 1 .. P!BlockLen : bytes[i] = collected'[n + i]
        <4> DEFINE S == 0 .. MaxBytes
                   k == P!BlockLen
                   q == collected'
        <4>1. q \in Seq(S) /\ n \in Nat /\ k \in Nat /\ Len(q) = n + k
          BY <2>2, <3>1, <3>2
        <4>2. bytes = SubSeq(q, n + 1, Len(q))
          OBVIOUS
        <4> HIDE DEF S, k, q, n, bytes
        <4>3. /\ bytes \in Seq(S) /\ Len(bytes) = k
              /\ \A i \in 1 .. k : bytes[i] = q[n + i]
          BY <4>1, <4>2, SliceEffect
        <4> QED
          BY <4>3 DEF S, k, q
      <3> HIDE DEF bytes, n
      <3>4. \A i \in 1 .. Len(bytes) : bytes[i] = P!ByteRead(i)
        BY <3>2, <3>3
      <3>5. CASE P!BlockLen > 0
        <4>1. bytes # <<>>
          BY <3>3, <3>5
        <4> QED
          BY <2>1, <2>3, <3>3, <3>4, <3>5, <4>1 DEF ReadsBlock
      <3>6. CASE P!BlockLen = 0
        <4>1. bytes = <<>>
          BY <3>3, <3>6
        <4> QED
          BY <2>1, <3>6, <4>1 DEF P!Next, ReadsNothing
      <3>7. P!BlockLen > 0 \/ P!BlockLen = 0
        BY <3>1
      <3> QED
        BY <3>5, <3>6, <3>7
    <2>4. CASE ~P!ReadBlock
      <3>1. collected' = collected
        BY <2>1, <2>4 DEF P!ReadNexBlock, P!Open, P!Compare, P!MoveLogFile, P!OpenMoved
      <3>2. bytes = <<>>
        BY <2>2, <3>1
      <3> QED
        BY <2>1, <2>4, <3>2 DEF P!Next, ReadsNothing
    <2> QED
      BY <2>3, <2>4
  <1>5. CASE Client \/ Server \/ Halted \/ UNCHANGED allVars
    <2>1. UNCHANGED <<fileVars, text, proc, read>>
      BY <1>5 DEF Client, Server, Halted, allVars, vars, loopVars, ConnectToServer, SendToServer,
         SendPiece, SendFails, Network, Break, Deliver, Forget
    <2>2. rpc' = rpc /\ UNCHANGED P!vars
      BY <2>1, SameReader DEF fileVars
    <2> QED
      BY <1>1, <2>1, <2>2 DEF ReadsNothing
  <1> QED
    BY <1>2, <1>3, <1>4, <1>5 DEF PipelineNext, Loop

\* The blocks are numbered as they are read.
LEMMA TextTypeNext ==
  ASSUME TextType, ReaderInv, [PipelineNext]_allVars
  PROVE  TextType'
  <1> DEFINE S == [proc : Nat, bytes : Seq(0 .. MaxBytes)]
  <1>0. text \in Seq(S) /\ proc \in Nat /\ Len(text) = read
    BY DEF TextType
  <1>1. CASE ReadsBlock
    <2>1. PICK bytes \in Seq(0 .. MaxBytes) : text' = Append(text, [proc |-> proc, bytes |-> bytes])
      BY <1>1 DEF ReadsBlock
    <2>2. proc' = proc /\ read' = read + 1
      BY <1>1 DEF ReadsBlock
    <2> DEFINE x == [proc |-> proc, bytes |-> bytes]
    <2>3. x \in S /\ x.proc = proc /\ text' = Append(text, x)
      BY <1>0, <2>1
    <2> HIDE DEF x, S
    <2>4. /\ text' \in Seq(S) /\ Len(text') = Len(text) + 1
          /\ DOMAIN text' = 1 .. Len(text) + 1
          /\ \A i \in 1 .. Len(text) : text'[i] = text[i]
          /\ text'[Len(text) + 1] = x
      BY <1>0, <2>3, AppendEffect
    <2>5. Len(text) \in Nat /\ DOMAIN text = 1 .. Len(text)
      BY <1>0
    <2>6. ASSUME NEW i \in DOMAIN text' PROVE text'[i].proc <= proc
      <3>1. i \in DOMAIN text \/ i = Len(text) + 1
        BY <2>4, <2>5
      <3>2. CASE i \in DOMAIN text
        BY <2>4, <2>5, <3>2 DEF TextType
      <3>3. CASE i = Len(text) + 1
        BY <1>0, <2>3, <2>4, <3>3
      <3> QED
        BY <3>1, <3>2, <3>3
    <2> QED
      BY <1>0, <2>2, <2>4, <2>6 DEF TextType, S
  <1>2. CASE ReadsNothing
    BY <1>2 DEF ReadsNothing, TextType
  <1>3. CASE NewProcess
    <2>1. UNCHANGED <<text, read>> /\ proc' = proc + 1
      BY <1>3 DEF NewProcess, StartAgain
    <2>2. \A n \in DOMAIN text : text[n].proc \in Nat
      <3>1. DOMAIN text = 1 .. Len(text)
        BY <1>0
      <3>2. \A n \in DOMAIN text : text[n] \in S
        <4> HIDE DEF S
        <4> QED
          BY <1>0, <3>1, P!ElementIn
      <3> QED
        BY <3>2
    <2>3. \A n \in DOMAIN text : text[n].proc <= proc + 1
      BY <1>0, <2>2 DEF TextType
    <2> QED
      BY <1>0, <2>1, <2>3 DEF TextType
  <1> QED
    BY <1>1, <1>2, <1>3, StepOfText

\* TwiceInv looks only at the bytes of this process.
LEMMA MineEqual ==
  ASSUME NEW S, Mine = S
  PROVE  P!TwiceInv(Mine) <=> P!TwiceInv(S)
  <1>1. \A f, p : P!Newer(f, p, Mine) <=> P!Newer(f, p, S)
    BY DEF P!Newer
  <1>2. \A f : (P!Ready(f, Mine) <=> P!Ready(f, S)) /\ (P!Shrunk(f, Mine) <=> P!Shrunk(f, S))
    BY <1>1 DEF P!Ready, P!Shrunk
  <1> QED
    BY <1>1, <1>2 DEF P!TwiceInv

\* The same after a step.
LEMMA MineEqualNext ==
  ASSUME NEW S, Mine' = S
  PROVE  P!TwiceInv(S)' => P!TwiceInv(Mine)'
  <1>1. \A f, p : P!Newer(f, p, S)' => P!Newer(f, p, Mine)'
    BY DEF P!Newer
  <1>2. P!Newer(file, last_pos, S)' => P!Newer(file, last_pos, Mine)'
    BY DEF P!Newer
  <1>3. P!Newer(file, 0, S)' => P!Newer(file, 0, Mine)'
    BY DEF P!Newer
  <1>4. \A f : P!Newer(f, last_pos, S)' => P!Newer(f, last_pos, Mine)'
    BY DEF P!Newer
  <1>5. \A f : /\ P!Ready(f, S)' => P!Ready(f, Mine)'
               /\ P!Shrunk(f, S)' => P!Shrunk(f, Mine)'
    BY <1>1, <1>4 DEF P!Ready, P!Shrunk
  <1> QED
    BY <1>1, <1>2, <1>3, <1>5 DEF P!TwiceInv

\* The bytes of the blocks are numbers.
LEMMA MineNumbers ==
  ASSUME TextType
  PROVE  /\ \A n \in DOMAIN text : text[n].proc \in Nat /\ Bytes(n) \subseteq Int
         /\ Mine \subseteq Int
  <1> DEFINE S == [proc : Nat, bytes : Seq(0 .. MaxBytes)]
  <1>0. text \in Seq(S) /\ DOMAIN text = 1 .. Len(text)
    BY DEF TextType
  <1>1. \A n \in DOMAIN text : text[n] \in S
    <2> HIDE DEF S
    <2> QED
      BY <1>0, P!ElementIn
  <1>2. ASSUME NEW n \in DOMAIN text PROVE text[n].proc \in Nat /\ Bytes(n) \subseteq Int
    <2>1. text[n].proc \in Nat /\ text[n].bytes \in Seq(0 .. MaxBytes)
      BY <1>1
    <2>2. DOMAIN text[n].bytes = 1 .. Len(text[n].bytes)
      BY <2>1
    <2> DEFINE q == text[n].bytes
               B == 0 .. MaxBytes
    <2>3. q \in Seq(B) /\ DOMAIN q = 1 .. Len(q)
      BY <2>1, <2>2
    <2>4. B \subseteq Int
      BY ReaderConstants
    <2>5. \A i \in 1 .. Len(q) : q[i] \in B
      <3> HIDE DEF q, B
      <3> QED
        BY <2>3, P!ElementIn
    <2>6. Bytes(n) = {q[i] : i \in DOMAIN q}
      BY DEF Bytes, Range
    <2> HIDE DEF q, B
    <2>7. Bytes(n) \subseteq Int
      BY <2>3, <2>4, <2>5, <2>6
    <2> QED
      BY <2>1, <2>7
  <1> QED
    BY <1>2 DEF Mine

\* What a new block adds.
LEMMA TextGrows ==
  ASSUME TextType, ReaderInv, ReadsBlock, NEW k, k = read + 1
  PROVE  /\ DOMAIN text = 1 .. read /\ DOMAIN text' = 1 .. k /\ read \in Nat
         /\ \A n \in 1 .. read : text'[n] = text[n] /\ Bytes(n)' = Bytes(n)
         /\ text'[k].proc = proc
         /\ \A b \in Bytes(k)' : \E i \in 1 .. P!BlockLen : b = P!ByteRead(i)
         /\ \A b \in Mine' : b \in Mine \/ \E i \in 1 .. P!BlockLen : b = P!ByteRead(i)
  <1> DEFINE S == [proc : Nat, bytes : Seq(0 .. MaxBytes)]
  <1>0. text \in Seq(S) /\ proc \in Nat /\ Len(text) = read
    BY DEF TextType
  <1>1. PICK bytes \in Seq(0 .. MaxBytes) :
          /\ text' = Append(text, [proc |-> proc, bytes |-> bytes])
          /\ Len(bytes) = P!BlockLen
          /\ \A i \in 1 .. Len(bytes) : bytes[i] = P!ByteRead(i)
    BY DEF ReadsBlock
  <1> DEFINE x == [proc |-> proc, bytes |-> bytes]
  <1>2. x \in S /\ x.proc = proc /\ x.bytes = bytes /\ text' = Append(text, x)
    BY <1>0, <1>1
  <1>3. DOMAIN bytes = 1 .. Len(bytes)
    OBVIOUS
  <1> HIDE DEF x, S
  <1>4. /\ DOMAIN text' = 1 .. Len(text) + 1
        /\ \A i \in 1 .. Len(text) : text'[i] = text[i]
        /\ text'[Len(text) + 1] = x
    BY <1>0, <1>2, AppendEffect
  <1>5. Len(text) \in Nat /\ DOMAIN text = 1 .. Len(text)
    BY <1>0
  <1>6. \A n \in 1 .. read : text'[n] = text[n] /\ Bytes(n)' = Bytes(n)
    BY <1>0, <1>4 DEF Bytes
  <1>7. text'[k] = x
    BY <1>0, <1>4
  <1>8. Bytes(k)' = {bytes[i] : i \in 1 .. P!BlockLen}
    BY <1>1, <1>2, <1>3, <1>7 DEF Bytes, Range
  <1>9. \A b \in Bytes(k)' : \E i \in 1 .. P!BlockLen : b = P!ByteRead(i)
    BY <1>1, <1>8
  <1>10. ASSUME NEW b \in Mine'
         PROVE  b \in Mine \/ \E i \in 1 .. P!BlockLen : b = P!ByteRead(i)
    <2>1. PICK n \in DOMAIN text' : text'[n].proc = proc' /\ b \in Bytes(n)'
      BY DEF Mine
    <2>2. n \in 1 .. read \/ n = k
      BY <1>0, <1>4, <1>5, <2>1
    <2>3. proc' = proc
      BY DEF ReadsBlock
    <2>4. CASE n \in 1 .. read
      BY <1>0, <1>5, <1>6, <2>1, <2>3, <2>4 DEF Mine
    <2> QED
      BY <1>9, <2>1, <2>2, <2>4
  <1> QED
    BY <1>0, <1>2, <1>4, <1>5, <1>6, <1>7, <1>9, <1>10

\* What was sound before a step that a new process does not disturb.
LEMMA SoundEarlier ==
  ASSUME ReaderInv, [PipelineNext]_allVars, P!Sound'
  PROVE  P!Sound
  <1>1. CASE [P!Next]_P!vars
    BY <1>1, ReaderConstants, P!SoundBefore DEF ReaderInv
  <1>2. CASE NewProcess
    BY <1>2 DEF NewProcess, appVars, P!Sound, P!Collected, P!LengthsTold
  <1> QED
    BY <1>1, <1>2, StepOfReader

\* A block that is read shares no byte with the earlier ones of its process.
LEMMA TextInvRead ==
  ASSUME TextType, ReaderInv, ReadsBlock, P!Sound', P!TwiceInv(Mine), Apart
  PROVE  P!TwiceInv(Mine)' /\ Apart'
  <1> USE ReaderConstants
  <1>0. P!AppType /\ P!ReaderType /\ P!HistoryType /\ P!AppInv /\ P!OpenInv
    BY DEF ReaderInv
  <1>1. P!ReadBlock /\ P!BlockLen > 0 /\ P!BlockLen >= 0 /\ P!BlockLen \in Int /\ proc' = proc
    BY <1>0, P!ReadChanges DEF ReadsBlock
  <1>2. /\ P!BlockLen > 0 => last_pos + P!BlockLen <= Len(content[file])
        /\ \A i \in 1 .. P!BlockLen :
             /\ last_pos + i \in 1 .. Len(content[file])
             /\ P!ByteRead(i) = content[file][last_pos + i]
    BY <1>0, <1>1, P!SoundBlock DEF P!Sound
  <1>3. PICK k : k = read + 1
    OBVIOUS
  <1>4. /\ DOMAIN text = 1 .. read /\ DOMAIN text' = 1 .. k /\ read \in Nat
        /\ \A n \in 1 .. read : text'[n] = text[n] /\ Bytes(n)' = Bytes(n)
        /\ text'[k].proc = proc
        /\ \A b \in Bytes(k)' : \E i \in 1 .. P!BlockLen : b = P!ByteRead(i)
        /\ \A b \in Mine' : b \in Mine \/ \E i \in 1 .. P!BlockLen : b = P!ByteRead(i)
    BY <1>3, TextGrows
  <1>5. Mine \subseteq Int
    BY MineNumbers
  <1>6. PICK S : S = Mine
    OBVIOUS
  <1>7. PICK T : T = Mine'
    OBVIOUS
  <1>8. P!TwiceInv(S) /\ S \subseteq Int
    BY <1>5, <1>6, MineEqual
  <1>9. \A b \in T : b \in S \/ \E i \in 1 .. P!BlockLen : b = content[file][last_pos + i]
    BY <1>2, <1>4, <1>6, <1>7
  <1>10. P!TwiceInv(T)'
    BY <1>0, <1>1, <1>2, <1>8, <1>9, P!TwiceRead
  <1>11. P!TwiceInv(Mine)'
    BY <1>7, <1>10, MineEqualNext
  <1>12. P!Newer(file, last_pos, S)
    <2>1. rpc = "read" /\ current_len >= 0
      BY <1>0, <1>1 DEF P!ReadBlock, P!BlockLen, P!ReaderType
    <2> QED
      BY <1>8, <2>1 DEF P!TwiceInv
  <1>13. \A b \in Bytes(k)' : b \notin S
    <2> SUFFICES ASSUME NEW b \in Bytes(k)', b \in S PROVE FALSE
      OBVIOUS
    <2>1. PICK i \in 1 .. P!BlockLen : b = content[file][last_pos + i]
      BY <1>2, <1>4
    <2>2. last_pos + i \in 1 .. Len(content[file]) /\ last_pos + i > last_pos
      BY <1>0, <1>1, <1>2 DEF P!ReaderType
    <2>3. b < content[file][last_pos + i]
      BY <1>12, <2>2 DEF P!Newer
    <2> QED
      BY <1>8, <2>1, <2>3
  <1>14. ASSUME NEW n \in 1 .. read, text'[n].proc = proc
         PROVE  Bytes(n)' \cap Bytes(k)' = {}
    <2>1. Bytes(n) \subseteq S /\ Bytes(n)' = Bytes(n)
      BY <1>4, <1>6, <1>14 DEF Mine
    <2> QED
      BY <1>13, <2>1
  <1>15. Apart'
    <2> SUFFICES ASSUME NEW m \in DOMAIN text', NEW n \in DOMAIN text',
                        m # n, text'[m].proc = text'[n].proc
                 PROVE  Bytes(m)' \cap Bytes(n)' = {}
      BY DEF Apart
    <2>1. (m \in 1 .. read \/ m = k) /\ (n \in 1 .. read \/ n = k)
      BY <1>3, <1>4
    <2>2. CASE m \in 1 .. read /\ n \in 1 .. read
      BY <1>4, <2>2 DEF Apart
    <2>3. CASE m \in 1 .. read /\ n = k
      BY <1>4, <1>14, <2>3
    <2>4. CASE m = k /\ n \in 1 .. read
      BY <1>4, <1>14, <2>4
    <2> QED
      BY <2>1, <2>2, <2>3, <2>4
  <1> QED
    BY <1>11, <1>15

\* A step that returns no block.
LEMMA TextInvNothing ==
  ASSUME TextType, ReaderInv, ReadsNothing, P!Sound, P!TwiceInv(Mine), Apart
  PROVE  P!TwiceInv(Mine)' /\ Apart'
  <1> USE ReaderConstants
  <1>0. P!AppType /\ P!ReaderType /\ P!HistoryType /\ P!AppInv /\ P!OpenInv
    BY DEF ReaderInv
  <1>1. UNCHANGED <<text, proc>> /\ [P!Next]_P!vars /\ P!LengthsTold
    BY DEF ReadsNothing, P!Sound
  <1>2. PICK S : S = Mine
    OBVIOUS
  <1>3. P!TwiceInv(S) /\ S \subseteq Int
    BY <1>2, MineEqual, MineNumbers
  <1>4. P!TwiceInv(S)'
    <2>1. CASE ~P!ReadBlock
      BY <1>0, <1>1, <1>3, <2>1, P!TwiceStep
    <2>2. CASE P!ReadBlock /\ P!BlockLen < 0
      BY <1>0, <1>3, <2>2, P!TwiceThrown
    <2>3. CASE P!ReadBlock /\ P!BlockLen >= 0
      <3>1. P!BlockLen <= 0 /\ P!BlockLen \in Int
        BY <1>0, <2>3, P!ReadChanges DEF ReadsNothing
      <3>2. \A b \in S : b \in S \/ \E i \in 1 .. P!BlockLen : b = content[file][last_pos + i]
        OBVIOUS
      <3>3. ~(P!BlockLen > 0)
        BY <3>1
      <3> QED
        BY <1>0, <1>3, <2>3, <3>2, <3>3, P!TwiceRead
    <2>4. P!ReadBlock => P!BlockLen \in Int
      BY <1>0, P!ReadChanges
    <2> QED
      BY <2>1, <2>2, <2>3, <2>4
  <1>5. Mine' = S /\ Apart'
    BY <1>1, <1>2 DEF Mine, Apart, Bytes
  <1> QED
    BY <1>4, <1>5, MineEqualNext

\* A new process has read nothing.
LEMMA TextInvNew ==
  ASSUME TextType, ReaderInv, NewProcess, Apart
  PROVE  P!TwiceInv(Mine)' /\ Apart'
  <1>1. /\ UNCHANGED <<text, path, content, clock>> /\ proc' = proc + 1
        /\ rpc' = "idle" /\ file' = P!NoFile /\ moved' = P!NoFile /\ last_pos' = 0
    BY SameReader DEF NewProcess, NewReader, appVars
  <1>2. Apart'
    BY <1>1 DEF Apart, Bytes
  <1>3. Mine' = {}
    <2>1. \A n \in DOMAIN text : text[n].proc # proc + 1
      BY MineNumbers DEF TextType
    <2> QED
      BY <1>1, <2>1 DEF Mine
  <1>4. PICK S : S = {}
    OBVIOUS
  <1>5. P!TwiceInv(S)'
    BY <1>1, <1>4 DEF P!TwiceInv, P!Candidates, P!Ready, P!Shrunk, P!Newer
  <1> QED
    BY <1>2, <1>3, <1>4, <1>5, MineEqualNext

\* So it is with every step.
LEMMA TextInvNext ==
  ASSUME TextType, ReaderInv, TextInv, [PipelineNext]_allVars
  PROVE  TextInv'
  <1> SUFFICES ASSUME P!Sound' PROVE P!TwiceInv(Mine)' /\ Apart'
    BY DEF TextInv
  <1>1. P!Sound /\ P!TwiceInv(Mine) /\ Apart
    BY SoundEarlier DEF TextInv
  <1> QED
    BY <1>1, StepOfText, TextInvRead, TextInvNothing, TextInvNew

\* Before the first block nothing is stored.
LEMMA TextInit == PipelineInit => ReaderInv /\ TextType /\ TextInv
  <1> SUFFICES ASSUME PipelineInit PROVE ReaderInv /\ TextType /\ TextInv
    OBVIOUS
  <1>1. P!Init /\ Init /\ text = <<>> /\ proc = 1
    BY SameReader DEF PipelineInit
  <1>2. P!Inv
    BY <1>1, ReaderConstants, P!InitInv
  <1>3. ReaderInv
    BY <1>2 DEF P!Inv, ReaderInv
  <1>4. TextType /\ DOMAIN text = {}
    BY <1>1 DEF Init, TextType
  <1>5. Mine = {} /\ Apart
    BY <1>4 DEF Mine, Apart
  <1>6. PICK S : S = {}
    OBVIOUS
  <1>7. P!TwiceInv(S)
    <2>1. P!Candidates = {path} /\ {file, moved} \ {P!NoFile} = {} /\ rpc = "idle"
      BY <1>1 DEF P!Init, P!Candidates, P!NoFile
    <2> QED
      BY <1>6, <2>1 DEF P!TwiceInv, P!Ready, P!Shrunk, P!Newer
  <1>8. P!TwiceInv(Mine)
    BY <1>5, <1>6, <1>7, MineEqual
  <1> QED
    BY <1>3, <1>4, <1>5, <1>8 DEF TextInv

\* The invariant is inductive.
LEMMA PipelineInvariant == PipelineSpec => [](ReaderInv /\ TextType /\ TextInv)
  <1>1. ReaderInv /\ TextType /\ TextInv /\ [PipelineNext]_allVars
          => ReaderInv' /\ TextType' /\ TextInv'
    BY ReaderInvNext, TextTypeNext, TextInvNext
  <1> QED
    BY TextInit, <1>1, PTL DEF PipelineSpec

\* The blocks of one process that the server has taken share no byte, whatever the
\* application does to its log, the network to the connections, and however often a block
\* is sent again or the process started again (main.cpp:98-158,
\* process_log_reader.cpp:98-146): no block is taken twice (PlaceInv of LogClient), and no
\* two that are read have a byte in common.
THEOREM StoredOnceCorrect == PipelineSpec => []StoredOnce
  <1>1. TypeOK /\ PlaceInv /\ TextType /\ TextInv => StoredOnce
    <2> SUFFICES ASSUME TypeOK, PlaceInv, TextType, TextInv,
                        R!Junk \notin R!Collected /\ R!LengthsTold,
                        NEW i \in DOMAIN received, NEW j \in DOMAIN received,
                        i # j,
                        text[received[i].block].proc = text[received[j].block].proc
                 PROVE  Bytes(received[i].block) \cap Bytes(received[j].block) = {}
      BY DEF StoredOnce
    <2> DEFINE m == received[i].block
               n == received[j].block
    <2>1. Apart
      BY DEF TextInv, P!Sound, P!Junk, P!Collected, P!LengthsTold, R!Junk, R!Collected,
             R!LengthsTold
    <2>2. m \in Blocks /\ n \in Blocks
      <3> DEFINE S == [conn : Conns, block : Blocks]
      <3>1. received \in Seq(S) /\ i \in 1 .. Len(received) /\ j \in 1 .. Len(received)
        <4>1. received \in Seq(S)
          BY DEF TypeOK
        <4>2. DOMAIN received = 1 .. Len(received)
          <5> HIDE DEF S
          <5> QED
            BY <4>1
        <4> QED
          BY <4>1, <4>2
      <3>2. received[i] \in S /\ received[j] \in S
        <4> HIDE DEF S
        <4> QED
          BY <3>1, P!ElementIn
      <3> QED
        BY <3>2
    <2>3. IsTaken(m, i) /\ IsTaken(n, j)
      BY DEF IsTaken
    <2>4. m \in DOMAIN text /\ n \in DOMAIN text
      <3>1. m <= read /\ n <= read
        BY <2>2, <2>3 DEF PlaceInv, Somewhere
      <3>2. DOMAIN text = 1 .. read
        BY DEF TextType
      <3>3. read \in Int /\ m \in Int /\ n \in Int /\ m >= 1 /\ n >= 1
        BY <2>2, ClientConstants DEF Blocks, TypeOK
      <3> HIDE DEF m, n
      <3> QED
        BY <3>1, <3>2, <3>3
    <2>5. m # n
      BY <2>2, <2>3 DEF PlaceInv, OncePlaced
    <2> QED
      BY <2>1, <2>4, <2>5 DEF Apart
  <1>2. PipelineSpec => Spec
    BY LoopImplements
  <1> QED
    BY <1>1, <1>2, PipelineInvariant, TypeCorrect, PlaceInvCorrect, PTL
=============================================================================
