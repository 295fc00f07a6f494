-------------------------- MODULE LogClientProofs --------------------------
(***************************************************************************)
(* What holds of the client (LogClient) for any number of blocks, pieces,  *)
(* connections and failures.                                               *)
(***************************************************************************)
EXTENDS LogClient, SequenceTheorems, FiniteSetTheorems, TLAPS

\* What the main loop knows at each point.  The block it has is the last one that was
\* read, part of it is sent only in "send", and its connection is the last one opened.
LoopInv ==
  /\ mpc = "send" => new_block # NoBlock
  /\ mpc = "read" => new_block = NoBlock
  /\ new_block # NoBlock => new_block = read
  /\ send_len > 0 => mpc = "send"
  /\ socket_fd # NoConn => socket_fd = opened
  /\ \A c \in Conns : c > opened => ~up[c] /\ wire[c] = <<>> /\ partial[c] = <<>>

\* The task of a connection has the first pieces of a frame.
PartialInv(c) ==
  /\ Len(partial[c]) < FrameLen
  /\ \A i \in 1 .. Len(partial[c]) :
       partial[c][i].piece = i /\ partial[c][i].block = partial[c][1].block

\* The buffers of a connection go on where the task is, without a gap.
WireInv(c) ==
  /\ Len(wire[c]) <= Window
  /\ wire[c] # <<>> =>
       /\ wire[c][1].piece = Len(partial[c]) + 1
       /\ partial[c] # <<>> => wire[c][1].block = partial[c][1].block
  /\ \A i \in 1 .. Len(wire[c]) - 1 : Follows(wire[c][i], wire[c][i + 1])

\* What a connection has of a frame whose end is missing is what the client has sent of
\* the block that it sends.
SenderInv(c) ==
  c = socket_fd /\ up[c] =>
    IF wire[c] = <<>>
    THEN /\ send_len = Len(partial[c])
         /\ partial[c] # <<>> => partial[c][1].block = new_block
    ELSE LET p == wire[c][Len(wire[c])]
         IN  IF p.piece = FrameLen THEN send_len = 0
             ELSE send_len = p.piece /\ p.block = new_block

StreamInv == \A c \in Conns : PartialInv(c) /\ WireInv(c) /\ SenderInv(c)

\* The places of a block.
InWire(b, c, i) == i \in 1 .. Len(wire[c]) /\ wire[c][i] = Complete(b)
IsTaken(b, i)   == i \in DOMAIN received /\ received[i].block = b

\* A block that was read is somewhere.
Somewhere(b) ==
  \/ new_block = b
  \/ \E c \in Conns : \E i \in 1 .. Len(wire[c]) : InWire(b, c, i)
  \/ \E i \in DOMAIN received : IsTaken(b, i)
  \/ b \in lost

\* It is nowhere else.
OncePlaced(b) ==
  /\ new_block = b => b \notin lost
  /\ \A c \in Conns : \A i \in 1 .. Len(wire[c]) :
       InWire(b, c, i) =>
         /\ new_block # b /\ b \notin lost
         /\ \A j \in DOMAIN received : ~IsTaken(b, j)
         /\ \A d \in Conns : \A j \in 1 .. Len(wire[d]) : InWire(b, d, j) => d = c /\ j = i
  /\ \A i \in DOMAIN received :
       IsTaken(b, i) =>
         /\ new_block # b /\ b \notin lost
         /\ \A j \in DOMAIN received : IsTaken(b, j) => j = i

PlaceInv ==
  \A b \in Blocks : (Somewhere(b) <=> b <= read) /\ OncePlaced(b)

\* The server has taken b from connection c.
TakenOn(b, c, i) == i \in DOMAIN received /\ received[i] = [conn |-> c, block |-> b]

\* Block b was sent whole on connection c, and not lost with it.
Sent(b, c) ==
  \/ \E i \in 1 .. Len(wire[c]) : InWire(b, c, i)
  \/ \E i \in DOMAIN received : TakenOn(b, c, i)

\* Of two blocks that were sent on one connection the one that is ahead is the earlier one,
\* and the blocks of a later connection are later.
Ordered(a, b) ==
  /\ \A c, d \in Conns : Sent(a, c) /\ Sent(b, d) /\ c < d => a < b
  /\ \A c \in Conns : \A j \in 1 .. Len(wire[c]) :
       InWire(b, c, j) =>
         /\ \A i \in 1 .. Len(wire[c]) : InWire(a, c, i) /\ i < j => a < b
         /\ \A i \in DOMAIN received : TakenOn(a, c, i) => a < b
  /\ \A c \in Conns : \A i, j \in DOMAIN received :
       TakenOn(a, c, i) /\ TakenOn(b, c, j) /\ i < j => a < b

OrderInv ==
  /\ \A a, b \in Blocks : Ordered(a, b)
  /\ \A b \in Blocks : \A c \in Conns : Sent(b, c) => c <= opened

-----------------------------------------------------------------------------

\* The type invariant in parts.
LoopType ==
  /\ mpc \in {"connect", "send", "read"}
  /\ new_block \in Blocks \cup {NoBlock}
  /\ read \in 0 .. MaxBlocks
  /\ send_len \in 0 .. FrameLen - 1
  /\ faults \in 0 .. MaxFaults

FlagType == if_connected \in BOOLEAN

ConnType ==
  /\ socket_fd \in Conns \cup {NoConn}
  /\ opened \in 0 .. MaxConns
  /\ up \in [Conns -> BOOLEAN]

DataType ==
  /\ wire \in [Conns -> Seq(Pieces)]
  /\ partial \in [Conns -> Seq(Pieces)]
  /\ ignored \in SUBSET Conns
  /\ received \in Seq([conn : Conns, block : Blocks])
  /\ lost \in SUBSET Blocks

\* The parts are the whole.
LEMMA TypeParts == TypeOK <=> LoopType /\ FlagType /\ ConnType /\ DataType
  BY DEF TypeOK, LoopType, FlagType, ConnType, DataType

\* The client's flag takes a value of its own in ConnectToServer and ResetClient only.
LEMMA FlagNext ==
  ASSUME FlagType, [Next]_vars
  PROVE  FlagType'
  BY DEF FlagType, Next, MainLoop, SendToServer, Network, ConnectToServer, SendPiece, SendFails,
     ReadNexBlock, StartAgain, Break, Deliver, Forget, ResetClient, vars, clientVars, netVars

\* The type invariant, with what the loop has to know of its block to keep it.
LEMMA TypeNext ==
  ASSUME TypeOK, mpc = "send" => new_block # NoBlock, [Next]_vars
  PROVE  TypeOK'
  <1> USE ClientConstants
  <1>0. LoopType /\ FlagType /\ ConnType /\ DataType
    BY TypeParts
  <1> SUFFICES LoopType' /\ ConnType' /\ DataType'
    BY <1>0, FlagNext, TypeParts, PTL
  <1>1. CASE ConnectToServer
    <2>1. LoopType'
      BY <1>0, <1>1 DEF ConnectToServer, Connected, Fail, LoopType
    <2>2. ConnType'
      <3>1. CASE UNCHANGED <<socket_fd, opened, up>>
        BY <1>0, <3>1 DEF ConnType
      <3>2. CASE /\ opened < MaxConns /\ opened' = opened + 1 /\ socket_fd' = opened + 1
                 /\ up' = [up EXCEPT ![opened + 1] = TRUE]
        <4>1. opened' \in 0 .. MaxConns /\ socket_fd' \in Conns
          BY <1>0, <3>2 DEF ConnType, Conns
        <4>2. up' \in [Conns -> BOOLEAN]
          BY <1>0, <3>2 DEF ConnType
        <4> QED
          BY <4>1, <4>2 DEF ConnType
      <3>3. CASE socket_fd' = NoConn /\ UNCHANGED <<opened, up>>
        BY <1>0, <3>3 DEF ConnType
      <3> QED
        BY <1>1, <3>1, <3>2, <3>3 DEF ConnectToServer, ResetClient, clientVars
    <2>3. DataType'
      BY <1>0, <1>1 DEF ConnectToServer, DataType, serverVars
    <2> QED
      BY <2>1, <2>2, <2>3
  <1>2. CASE SendPiece
    <2>1. socket_fd \in Conns /\ [block |-> new_block, piece |-> send_len + 1] \in Pieces
      BY <1>0, <1>2 DEF SendPiece, LoopType, ConnType, Pieces
    <2>2. LoopType'
      BY <1>0, <1>2 DEF SendPiece, FrameSent, LoopType
    <2>3. ConnType'
      BY <1>0, <1>2 DEF SendPiece, ConnType, clientVars
    <2>4. wire' \in [Conns -> Seq(Pieces)] /\ lost' \in SUBSET Blocks
      <3>1. CASE up[socket_fd]
        <4> DEFINE p == [block |-> new_block, piece |-> send_len + 1]
        <4>1. UNCHANGED lost /\ wire' = [wire EXCEPT ![socket_fd] = Append(@, p)]
          BY <1>2, <3>1 DEF SendPiece, Accept
        <4> HIDE DEF p
        <4>2. Append(wire[socket_fd], p) \in Seq(Pieces)
          BY <1>0, <2>1 DEF DataType, p
        <4> QED
          BY <1>0, <4>1, <4>2 DEF DataType
      <3>2. CASE ~up[socket_fd]
        BY <1>0, <1>2, <2>1, <3>2 DEF SendPiece, Accept, DataType, Pieces
      <3> QED
        BY <3>1, <3>2
    <2>5. DataType'
      BY <1>0, <1>2, <2>4 DEF SendPiece, DataType, serverVars
    <2> QED
      BY <2>2, <2>3, <2>5
  <1>3. CASE SendFails
    <2>1. LoopType'
      BY <1>0, <1>3 DEF SendFails, Fail, LoopType
    <2>2. ConnType' /\ DataType'
      BY <1>0, <1>3 DEF SendFails, ResetClient, ConnType, DataType, netVars, serverVars
    <2> QED
      BY <2>1, <2>2
  <1>4. CASE ReadNexBlock
    <2>1. LoopType'
      BY <1>0, <1>4 DEF ReadNexBlock, HasMore, ReadSome, ReadNone, LoopType, Blocks
    <2>2. ConnType' /\ DataType'
      BY <1>0, <1>4 DEF ReadNexBlock, ConnType, DataType, clientVars, netVars, serverVars
    <2> QED
      BY <2>1, <2>2
  <1>5. CASE StartAgain
    <2>1. LoopType'
      BY <1>0, <1>5 DEF StartAgain, Fail, LoopType
    <2>2. ConnType'
      BY <1>0, <1>5 DEF StartAgain, ResetClient, ConnType
    <2>3. DataType'
      BY <1>0, <1>5 DEF StartAgain, LoopType, DataType, serverVars
    <2> QED
      BY <2>1, <2>2, <2>3
  <1>6. ASSUME NEW c \in Conns, Break(c) PROVE LoopType' /\ ConnType' /\ DataType'
    <2>1. PICK n \in 0 .. Len(wire[c]) :
            /\ wire' = [wire EXCEPT ![c] = SubSeq(@, 1, n)]
            /\ lost' = lost \cup Completed(SubSeq(wire[c], n + 1, Len(wire[c])))
      BY <1>6 DEF Break
    <2>2. wire[c] \in Seq(Pieces) /\ n \in Nat /\ Len(wire[c]) \in Nat
      BY <1>0, <2>1 DEF DataType
    <2>3. /\ SubSeq(wire[c], 1, n) \in Seq(Pieces)
          /\ SubSeq(wire[c], n + 1, Len(wire[c])) \in Seq(Pieces)
      BY <2>2
    <2>4. Completed(SubSeq(wire[c], n + 1, Len(wire[c]))) \subseteq Blocks
      BY <2>3 DEF Completed, Range, Pieces
    <2>5. LoopType' /\ ConnType'
      BY <1>0, <1>6 DEF Break, Fail, LoopType, ConnType, loopVars, clientVars
    <2>6. DataType'
      BY <1>0, <1>6, <2>1, <2>3, <2>4 DEF Break, DataType, serverVars
    <2> QED
      BY <2>5, <2>6
  <1>7. ASSUME NEW c \in Conns, Deliver(c) PROVE LoopType' /\ ConnType' /\ DataType'
    <2> DEFINE buf == Append(partial[c], Head(wire[c]))
    <2>1. wire[c] \in Seq(Pieces) /\ wire[c] # <<>> /\ partial[c] \in Seq(Pieces)
      BY <1>0, <1>7 DEF Deliver, DataType
    <2>2. Tail(wire[c]) \in Seq(Pieces) /\ buf \in Seq(Pieces)
      BY <2>1
    <2> HIDE DEF buf
    <2>3. ~(Len(buf) < FrameLen) => buf[FrameLen].block \in Blocks
      <3>1. Len(buf) \in Nat
        BY <2>2
      <3>2. ~(Len(buf) < FrameLen) => FrameLen \in 1 .. Len(buf)
        BY <3>1
      <3>3. ~(Len(buf) < FrameLen) => buf[FrameLen] \in Pieces
        BY <2>2, <3>2
      <3> QED
        BY <3>3 DEF Pieces
    <2> USE DEF buf
    <2>4. wire' \in [Conns -> Seq(Pieces)]
      BY <1>0, <1>7, <2>2 DEF Deliver, DataType
    <2> DEFINE x == [conn |-> c, block |-> buf[FrameLen].block]
    <2>5. \/ partial' = [partial EXCEPT ![c] = buf] /\ UNCHANGED received
          \/ /\ partial' = [partial EXCEPT ![c] = <<>>]
             /\ ~(Len(buf) < FrameLen)
             /\ received' = Append(received, x)
      BY <1>7 DEF Deliver
    <2>6. ~(Len(buf) < FrameLen) => x \in [conn : Conns, block : Blocks]
      BY <2>3
    <2> HIDE DEF buf, x
    <2>7. partial' \in [Conns -> Seq(Pieces)]
      <3>1. <<>> \in Seq(Pieces)
        OBVIOUS
      <3> QED
        BY <1>0, <2>2, <2>5, <3>1 DEF DataType
    <2>8. received' \in Seq([conn : Conns, block : Blocks])
      <3> DEFINE S == [conn : Conns, block : Blocks]
      <3>1. received \in Seq(S) /\ (~(Len(buf) < FrameLen) => x \in S)
        BY <1>0, <2>6 DEF DataType
      <3> HIDE DEF S
      <3>2. received' \in Seq(S)
        BY <2>5, <3>1
      <3> QED
        BY <3>2 DEF S
    <2>9. LoopType' /\ ConnType'
      BY <1>0, <1>7 DEF Deliver, LoopType, ConnType, loopVars, clientVars
    <2>10. DataType'
      BY <1>0, <1>7, <2>4, <2>7, <2>8 DEF Deliver, DataType
    <2> QED
      BY <2>9, <2>10
  <1>8. ASSUME NEW c \in Conns, Forget(c) PROVE LoopType' /\ ConnType' /\ DataType'
    <2>1. LoopType' /\ ConnType'
      BY <1>0, <1>8 DEF Forget, Fail, LoopType, ConnType, loopVars, clientVars, netVars
    <2>2. DataType'
      BY <1>0, <1>8 DEF Forget, DataType, netVars
    <2> QED
      BY <2>1, <2>2
  <1>9. CASE UNCHANGED vars
    BY <1>0, <1>9 DEF LoopType, ConnType, DataType, vars, loopVars, clientVars, netVars,
       serverVars
  <1> QED
    BY <1>1, <1>2, <1>3, <1>4, <1>5, <1>6, <1>7, <1>8, <1>9
       DEF Next, MainLoop, SendToServer, Network

\* The loop's own bookkeeping.
LEMMA LoopNext ==
  ASSUME TypeOK, LoopInv, [Next]_vars
  PROVE  LoopInv'
  <1> USE ClientConstants
  <1>1. CASE ConnectToServer
    <2>1. /\ mpc' \in {"send", "read", "connect"}
          /\ mpc' = "send" => new_block # NoBlock
          /\ mpc' = "read" => new_block = NoBlock
          /\ mpc # "send"
          /\ UNCHANGED <<new_block, read, send_len, wire, partial>>
      BY <1>1 DEF ConnectToServer, Connected, serverVars, TypeOK
    <2>2. \/ UNCHANGED <<socket_fd, opened, up>>
          \/ /\ opened' = opened + 1 /\ opened < MaxConns /\ socket_fd' = opened + 1
             /\ up' = [up EXCEPT ![opened + 1] = TRUE]
          \/ socket_fd' = NoConn /\ UNCHANGED <<opened, up>>
      BY <1>1 DEF ConnectToServer, ResetClient, clientVars
    <2>3. /\ socket_fd' # NoConn => socket_fd' = opened'
          /\ \A c \in Conns : c > opened' => ~up'[c] /\ wire[c] = <<>> /\ partial[c] = <<>>
      BY <2>2 DEF LoopInv, TypeOK, Conns
    <2>4. send_len' > 0 => mpc' = "send"
      BY <2>1 DEF LoopInv, TypeOK
    <2> QED
      BY <2>1, <2>3, <2>4 DEF LoopInv
  <1>2. CASE SendPiece
    <2>1. socket_fd \in Conns /\ socket_fd = opened
      BY <1>2 DEF SendPiece, TypeOK, LoopInv
    <2>2. \A c \in Conns : c # socket_fd => wire'[c] = wire[c]
      BY <1>2, <2>1 DEF SendPiece, Accept, TypeOK
    <2>3. \A c \in Conns : c > opened => wire'[c] = <<>>
      <3> SUFFICES ASSUME NEW c \in Conns, c > opened PROVE wire'[c] = <<>>
        OBVIOUS
      <3>1. c # socket_fd
        BY <2>1 DEF Conns
      <3> QED
        BY <2>2, <3>1 DEF LoopInv
    <2>4. /\ UNCHANGED <<read, socket_fd, opened, up, partial>>
          /\ \/ send_len' = 0 /\ new_block' = NoBlock /\ mpc' = "read"
             \/ mpc = "send" /\ UNCHANGED <<new_block, mpc>>
      BY <1>2 DEF SendPiece, clientVars, serverVars
    <2> QED
      BY <2>3, <2>4 DEF LoopInv, NoBlock
  <1>3. CASE SendFails
    BY <1>3 DEF SendFails, ResetClient, LoopInv, TypeOK, netVars, serverVars
  <1>4. CASE ReadNexBlock
    BY <1>4 DEF ReadNexBlock, HasMore, ReadSome, ReadNone, LoopInv, TypeOK, clientVars,
       netVars, serverVars, NoBlock
  <1>5. CASE StartAgain
    BY <1>5 DEF StartAgain, ResetClient, LoopInv, TypeOK, serverVars
  <1>6. ASSUME NEW c \in Conns, Break(c) PROVE LoopInv'
    <2>1. /\ up[c]
          /\ \A d \in Conns : d # c => wire'[d] = wire[d] /\ up'[d] = up[d]
          /\ UNCHANGED <<loopVars, clientVars, opened, serverVars>>
      BY <1>6 DEF Break, TypeOK
    <2> QED
      BY <2>1 DEF LoopInv, loopVars, clientVars, serverVars
  <1>7. ASSUME NEW c \in Conns, Deliver(c) PROVE LoopInv'
    <2>1. /\ wire[c] # <<>>
          /\ \A d \in Conns : d # c => wire'[d] = wire[d] /\ partial'[d] = partial[d]
          /\ UNCHANGED <<loopVars, clientVars, opened, up>>
      BY <1>7 DEF Deliver, TypeOK
    <2> QED
      BY <2>1 DEF LoopInv, loopVars, clientVars
  <1>8. ASSUME NEW c \in Conns, Forget(c) PROVE LoopInv'
    BY <1>8 DEF Forget, LoopInv, loopVars, clientVars, netVars
  <1>9. CASE UNCHANGED vars
    BY <1>9 DEF LoopInv, vars, loopVars, clientVars, netVars, serverVars
  <1> QED
    BY <1>1, <1>2, <1>3, <1>4, <1>5, <1>6, <1>7, <1>8, <1>9
       DEF Next, MainLoop, SendToServer, Network

\* How the client starts.
LEMMA InitOK == Init => TypeOK /\ LoopInv
  <1> SUFFICES ASSUME Init PROVE TypeOK /\ LoopInv
    OBVIOUS
  <1>1. LoopType
    BY ClientConstants DEF Init, LoopType
  <1>2. FlagType
    BY DEF Init, FlagType
  <1>3. ConnType
    BY ClientConstants DEF Init, ConnType
  <1>4. DataType
    BY DEF Init, DataType
  <1>5. LoopInv
    BY DEF Init, LoopInv, Conns, NoBlock, NoConn
  <1> QED
    BY <1>1, <1>2, <1>3, <1>4, <1>5, TypeParts

\* The two together are inductive.
LEMMA TypeAndLoop == Spec => [](TypeOK /\ LoopInv)
  <1>1. Init => TypeOK /\ LoopInv
    BY InitOK
  <1>2. TypeOK /\ LoopInv /\ [Next]_vars => TypeOK' /\ LoopInv'
    BY TypeNext, LoopNext DEF LoopInv
  <1> QED
    BY <1>1, <1>2, PTL DEF Spec

\* Every variable of the client and of its connections keeps its type
\* (main.cpp:98-158, tcp_client.cpp:19-109).
THEOREM TypeCorrect == Spec => []TypeOK
  BY TypeAndLoop, PTL

\* What the loop knows at each point (main.cpp:98-158, tcp_client.cpp:19-109).
THEOREM LoopInvCorrect == Spec => []LoopInv
  BY TypeAndLoop, PTL

-----------------------------------------------------------------------------

\* What Append, Tail and SubSeq do, element by element.
LEMMA AppendEffect ==
  ASSUME NEW S, NEW q \in Seq(S), NEW x \in S, NEW r, r = Append(q, x)
  PROVE  /\ r \in Seq(S) /\ Len(r) = Len(q) + 1
         /\ \A n \in 1 .. Len(q) : r[n] = q[n]
         /\ r[Len(q) + 1] = x
  OBVIOUS

\* What Tail leaves of a sequence.
LEMMA TailEffect ==
  ASSUME NEW S, NEW q \in Seq(S), q # <<>>, NEW r, r = Tail(q)
  PROVE  /\ r \in Seq(S) /\ Len(q) \in Nat \ {0} /\ Len(r) = Len(q) - 1
         /\ \A n \in 1 .. Len(q) - 1 : r[n] = q[n + 1]
         /\ Head(q) = q[1] /\ q[1] \in S
  OBVIOUS

\* What SubSeq keeps of a sequence from its start.
LEMMA PrefixEffect ==
  ASSUME NEW S, NEW q \in Seq(S), NEW n \in 0 .. Len(q), NEW r, r = SubSeq(q, 1, n)
  PROVE  r \in Seq(S) /\ Len(r) = n /\ \A i \in 1 .. n : r[i] = q[i]
  OBVIOUS

\* What each step does to the buffers, element by element.
LEMMA SendEffect ==
  ASSUME TypeOK, LoopInv, SendPiece
  PROVE  /\ socket_fd \in Conns /\ mpc = "send"
         /\ UNCHANGED <<read, socket_fd, opened, up, partial, received>>
         /\ \A d \in Conns : d # socket_fd => wire'[d] = wire[d]
         /\ \/ /\ up[socket_fd] /\ Len(wire[socket_fd]) < Window /\ lost' = lost
               /\ Len(wire'[socket_fd]) = Len(wire[socket_fd]) + 1
               /\ \A i \in 1 .. Len(wire[socket_fd]) :
                    wire'[socket_fd][i] = wire[socket_fd][i]
               /\ wire'[socket_fd][Len(wire[socket_fd]) + 1]
                    = [block |-> new_block, piece |-> send_len + 1]
            \/ /\ ~up[socket_fd] /\ wire' = wire
               /\ lost' = IF send_len + 1 = FrameLen THEN lost \cup {new_block} ELSE lost
         /\ \/ /\ send_len + 1 = FrameLen
               /\ send_len' = 0 /\ new_block' = NoBlock
            \/ /\ send_len + 1 < FrameLen
               /\ send_len' = send_len + 1 /\ new_block' = new_block
  <1> DEFINE p == [block |-> new_block, piece |-> send_len + 1]
  <1>1. socket_fd \in Conns /\ mpc = "send"
    BY DEF SendPiece, TypeOK
  <1>2. UNCHANGED <<read, socket_fd, opened, up, partial, received>>
    BY DEF SendPiece, clientVars, serverVars
  <1>3. \/ up[socket_fd] /\ Len(wire[socket_fd]) < Window /\ lost' = lost
           /\ wire' = [wire EXCEPT ![socket_fd] = Append(@, p)]
        \/ /\ ~up[socket_fd] /\ wire' = wire
           /\ lost' = IF send_len + 1 = FrameLen THEN lost \cup {new_block} ELSE lost
    BY DEF SendPiece, Accept
  <1>4. wire \in [Conns -> Seq(Pieces)]
    BY DEF TypeOK
  <1>5. \A d \in Conns : d # socket_fd => wire'[d] = wire[d]
    BY <1>3, <1>4
  <1>6. \/ /\ send_len + 1 = FrameLen
           /\ send_len' = 0 /\ new_block' = NoBlock
        \/ /\ send_len + 1 < FrameLen
           /\ send_len' = send_len + 1 /\ new_block' = new_block
    BY ClientConstants DEF SendPiece, FrameSent, TypeOK
  <1>7. ASSUME wire' = [wire EXCEPT ![socket_fd] = Append(@, p)], mpc = "send" => new_block # NoBlock
        PROVE  /\ Len(wire'[socket_fd]) = Len(wire[socket_fd]) + 1
               /\ \A i \in 1 .. Len(wire[socket_fd]) :
                    wire'[socket_fd][i] = wire[socket_fd][i]
               /\ wire'[socket_fd][Len(wire[socket_fd]) + 1] = p
    <2>1. wire'[socket_fd] = Append(wire[socket_fd], p) /\ wire[socket_fd] \in Seq(Pieces)
      BY <1>1, <1>4, <1>7
    <2>2. p \in Pieces
      BY <1>1, <1>7, ClientConstants DEF TypeOK, Pieces
    <2> QED
      BY <2>1, <2>2, AppendEffect
  <1>8. mpc = "send" => new_block # NoBlock
    BY DEF LoopInv
  <1> QED
    BY <1>1, <1>2, <1>3, <1>5, <1>6, <1>7, <1>8

\* What a connection keeps when it breaks: a prefix of what was in it.
LEMMA BreakEffect ==
  ASSUME TypeOK, NEW c \in Conns, Break(c)
  PROVE  /\ UNCHANGED <<loopVars, clientVars, opened, serverVars>>
         /\ \A d \in Conns : d # c => wire'[d] = wire[d] /\ up'[d] = up[d]
         /\ ~up'[c]
         /\ \E n \in 0 .. Len(wire[c]) :
              /\ Len(wire'[c]) = n
              /\ \A i \in 1 .. n : wire'[c][i] = wire[c][i]
              /\ \A b \in Blocks :
                   b \in lost' <=> \/ b \in lost
                                   \/ \E i \in 1 .. Len(wire[c]) :
                                        n < i /\ wire[c][i] = Complete(b)
  <1>1. /\ UNCHANGED <<loopVars, clientVars, opened, serverVars>>
        /\ up' = [up EXCEPT ![c] = FALSE]
    BY DEF Break
  <1>2. PICK n \in 0 .. Len(wire[c]) :
          /\ wire' = [wire EXCEPT ![c] = SubSeq(@, 1, n)]
          /\ lost' = lost \cup Completed(SubSeq(wire[c], n + 1, Len(wire[c])))
    BY DEF Break
  <1> DEFINE q == wire[c]
             r == SubSeq(q, n + 1, Len(q))
  <1>3. q \in Seq(Pieces) /\ Len(q) \in Nat /\ n \in Nat /\ n <= Len(q)
    BY <1>2 DEF TypeOK
  <1>4. /\ \A d \in Conns : d # c => wire'[d] = wire[d] /\ up'[d] = up[d]
        /\ ~up'[c]
        /\ wire'[c] = SubSeq(q, 1, n)
    BY <1>1, <1>2 DEF TypeOK
  <1>5. Len(wire'[c]) = n /\ \A i \in 1 .. n : wire'[c][i] = q[i]
    BY <1>3, <1>4, PrefixEffect
  <1>6. ASSUME NEW b \in Blocks
        PROVE  b \in Completed(r) <=> \E i \in 1 .. Len(q) : n < i /\ q[i] = Complete(b)
    <2>1. /\ Len(r) = Len(q) - n /\ DOMAIN r = 1 .. Len(r)
          /\ \A i \in 1 .. Len(r) : r[i] = q[n + i] /\ r[i] \in Pieces
      BY <1>3
    <2>2. b \in Completed(r) <=> \E i \in DOMAIN r : r[i].piece = FrameLen /\ r[i].block = b
      BY DEF Completed, Range
    <2>3. \A i \in 1 .. Len(r) :
            r[i] = Complete(b) <=> r[i].piece = FrameLen /\ r[i].block = b
      BY <2>1 DEF Complete, Pieces
    <2> HIDE DEF r, q
    <2>4. ASSUME NEW i \in DOMAIN r, r[i] = Complete(b)
          PROVE  n + i \in 1 .. Len(q) /\ n < n + i /\ q[n + i] = Complete(b)
      BY <1>3, <2>1, <2>4
    <2>5. ASSUME NEW i \in 1 .. Len(q), n < i, q[i] = Complete(b)
          PROVE  i - n \in 1 .. Len(r) /\ r[i - n] = Complete(b)
      <3>1. i - n \in 1 .. Len(r)
        BY <1>3, <2>1, <2>5
      <3> QED
        BY <1>3, <2>1, <2>5, <3>1
    <2> QED
      BY <2>1, <2>2, <2>3, <2>4, <2>5
  <1> QED
    BY <1>1, <1>2, <1>4, <1>5, <1>6

\* A piece goes from the connection to the task that reads it.
LEMMA DeliverEffect ==
  ASSUME TypeOK, NEW c \in Conns, Len(partial[c]) < FrameLen, Deliver(c)
  PROVE  /\ UNCHANGED <<loopVars, clientVars, opened, up, lost>>
         /\ \A d \in Conns : d # c => wire'[d] = wire[d] /\ partial'[d] = partial[d]
         /\ Len(wire[c]) \in Nat \ {0} /\ Len(wire'[c]) = Len(wire[c]) - 1
         /\ \A i \in 1 .. Len(wire[c]) - 1 : wire'[c][i] = wire[c][i + 1]
         /\ \/ /\ Len(partial[c]) + 1 < FrameLen
               /\ received' = received
               /\ Len(partial'[c]) = Len(partial[c]) + 1
               /\ \A i \in 1 .. Len(partial[c]) : partial'[c][i] = partial[c][i]
               /\ partial'[c][Len(partial[c]) + 1] = wire[c][1]
            \/ /\ Len(partial[c]) + 1 = FrameLen
               /\ received' = Append(received, [conn |-> c, block |-> wire[c][1].block])
               /\ partial'[c] = <<>>
  <1> DEFINE buf == Append(partial[c], Head(wire[c]))
  <1>1. /\ UNCHANGED <<loopVars, clientVars, opened, up, lost>>
        /\ wire[c] # <<>> /\ wire' = [wire EXCEPT ![c] = Tail(@)]
        /\ \/ /\ Len(buf) < FrameLen
              /\ partial' = [partial EXCEPT ![c] = buf] /\ received' = received
           \/ /\ ~(Len(buf) < FrameLen)
              /\ partial' = [partial EXCEPT ![c] = <<>>]
              /\ received' = Append(received, [conn |-> c, block |-> buf[FrameLen].block])
    BY DEF Deliver
  <1>2. wire[c] \in Seq(Pieces) /\ partial[c] \in Seq(Pieces)
    BY DEF TypeOK
  <1>3. wire'[c] = Tail(wire[c]) /\ \A d \in Conns : d # c => wire'[d] = wire[d]
    BY <1>1 DEF TypeOK
  <1>4. /\ Len(wire[c]) \in Nat \ {0} /\ Len(wire'[c]) = Len(wire[c]) - 1
        /\ \A i \in 1 .. Len(wire[c]) - 1 : wire'[c][i] = wire[c][i + 1]
        /\ Head(wire[c]) = wire[c][1] /\ wire[c][1] \in Pieces
    <2> DEFINE q == wire[c]
               r == wire'[c]
    <2>1. q \in Seq(Pieces) /\ q # <<>> /\ r = Tail(q)
      BY <1>1, <1>2, <1>3
    <2> HIDE DEF q, r
    <2>2. /\ Len(q) \in Nat \ {0} /\ Len(r) = Len(q) - 1
          /\ \A i \in 1 .. Len(q) - 1 : r[i] = q[i + 1]
          /\ Head(q) = q[1] /\ q[1] \in Pieces
      BY <2>1, TailEffect
    <2> QED
      BY <2>2 DEF q, r
  <1>5. /\ Len(buf) = Len(partial[c]) + 1
        /\ \A i \in 1 .. Len(partial[c]) : buf[i] = partial[c][i]
        /\ buf[Len(partial[c]) + 1] = wire[c][1]
    BY <1>2, <1>4, AppendEffect
  <1>6. Len(partial[c]) \in Nat
    BY <1>2
  <1> HIDE DEF buf
  <1>7. CASE Len(buf) < FrameLen
    <2>1. received' = received /\ partial' = [partial EXCEPT ![c] = buf]
      BY <1>1, <1>7
    <2>2. partial'[c] = buf /\ \A d \in Conns : d # c => partial'[d] = partial[d]
      BY <2>1 DEF TypeOK
    <2> QED
      BY <1>1, <1>3, <1>4, <1>5, <1>6, <1>7, <2>1, <2>2
  <1>8. CASE ~(Len(buf) < FrameLen)
    <2>1. /\ partial' = [partial EXCEPT ![c] = <<>>]
          /\ received' = Append(received, [conn |-> c, block |-> buf[FrameLen].block])
      BY <1>1, <1>8
    <2>2. partial'[c] = <<>> /\ \A d \in Conns : d # c => partial'[d] = partial[d]
      BY <2>1 DEF TypeOK
    <2>3. Len(partial[c]) + 1 = FrameLen
      BY <1>5, <1>6, <1>8, ClientConstants
    <2>4. buf[FrameLen] = wire[c][1]
      BY <1>5, <2>3
    <2> QED
      BY <1>1, <1>3, <1>4, <2>1, <2>2, <2>3, <2>4
  <1> QED
    BY <1>7, <1>8

-----------------------------------------------------------------------------

\* The pieces of a connection, step by step.
StreamInvAt(c) == PartialInv(c) /\ WireInv(c) /\ SenderInv(c)

\* A connection whose pieces do not move keeps them in order.
LEMMA StreamFrame ==
  ASSUME NEW c \in Conns, PartialInv(c), WireInv(c),
         wire'[c] = wire[c], partial'[c] = partial[c]
  PROVE  PartialInv(c)' /\ WireInv(c)'
  <1>1. PartialInv(c)'
    BY DEF PartialInv
  <1>2. WireInv(c)'
    BY DEF WireInv
  <1> QED
    BY <1>1, <1>2

\* The client's next piece follows what the connection has.
LEMMA StreamSend ==
  ASSUME TypeOK, TypeOK', LoopInv, NEW c \in Conns, StreamInvAt(c), SendPiece
  PROVE  StreamInvAt(c)'
  <1>0. PartialInv(c) /\ WireInv(c) /\ SenderInv(c)
    BY DEF StreamInvAt
  <1>1. /\ UNCHANGED <<socket_fd, up, partial>>
        /\ c # socket_fd => wire'[c] = wire[c]
        /\ ~up[socket_fd] => wire'[c] = wire[c]
    BY SendEffect
  <1>2. CASE c # socket_fd \/ ~up[socket_fd]
    BY <1>0, <1>1, <1>2, StreamFrame DEF StreamInvAt, SenderInv
  <1>3. CASE c = socket_fd /\ up[socket_fd]
    <2> DEFINE k == Len(wire[c])
               p == [block |-> new_block, piece |-> send_len + 1]
    <2>1. /\ k < Window /\ Len(wire'[c]) = k + 1
          /\ \A i \in 1 .. k : wire'[c][i] = wire[c][i]
          /\ wire'[c][k + 1] = p
          /\ \/ send_len + 1 = FrameLen /\ send_len' = 0
             \/ send_len + 1 < FrameLen /\ send_len' = send_len + 1 /\ new_block' = new_block
      BY <1>3, SendEffect
    <2>2. /\ k \in Nat /\ Len(wire'[c]) \in Nat /\ Len(partial[c]) \in Nat /\ send_len \in Nat
          /\ \A i \in 1 .. k : wire[c][i].piece \in 1 .. FrameLen
          /\ wire[c] = <<>> <=> k = 0
      <3>1. wire[c] \in Seq(Pieces) /\ wire'[c] \in Seq(Pieces) /\ partial[c] \in Seq(Pieces)
        BY DEF TypeOK
      <3>2. send_len \in Nat
        BY ClientConstants DEF TypeOK
      <3>3. \A i \in 1 .. k : wire[c][i] \in Pieces
        BY <3>1
      <3>4. \A i \in 1 .. k : wire[c][i].piece \in 1 .. FrameLen
        BY <3>3 DEF Pieces
      <3> QED
        BY <3>1, <3>2, <3>3, <3>4
    <2>3. p.piece = send_len + 1 /\ p.block = new_block
      OBVIOUS
    <2>4. wire'[c] # <<>>
      BY <2>1, <2>2
    <2> HIDE DEF k, p
    <2>5. PartialInv(c)'
      BY <1>0, <1>1 DEF PartialInv
    <2>6. k # 0 => Follows(wire[c][k], p)
      <3>1. CASE k # 0 /\ wire[c][k].piece = FrameLen
        <4>1. send_len = 0
          BY <1>0, <1>3, <2>2, <3>1 DEF SenderInv, k
        <4> QED
          BY <2>3, <3>1, <4>1, ClientConstants DEF Follows
      <3>2. CASE k # 0 /\ wire[c][k].piece # FrameLen
        <4>1. send_len = wire[c][k].piece /\ wire[c][k].block = new_block
          BY <1>0, <1>3, <2>2, <3>2 DEF SenderInv, k
        <4>2. wire[c][k].piece < FrameLen
          BY <2>2, <3>2, ClientConstants
        <4> QED
          BY <2>3, <4>1, <4>2 DEF Follows
      <3> QED
        BY <3>1, <3>2
    <2>7. k = 0 => p.piece = Len(partial[c]) + 1
                   /\ (partial[c] # <<>> => p.block = partial[c][1].block)
      BY <1>0, <1>3, <2>2, <2>3 DEF SenderInv
    <2>8. WireInv(c)'
      <3>1. Len(wire'[c]) <= Window
        BY <2>1, <2>2, ClientConstants
      <3>2. /\ wire'[c][1].piece = Len(partial[c]) + 1
            /\ partial[c] # <<>> => wire'[c][1].block = partial[c][1].block
        <4>1. k # 0 => wire'[c][1] = wire[c][1]
          BY <2>1, <2>2
        <4>2. k = 0 => wire'[c][1] = p
          BY <2>1
        <4> QED
          BY <1>0, <2>2, <2>7, <4>1, <4>2 DEF WireInv
      <3>3. ASSUME NEW i \in 1 .. Len(wire'[c]) - 1
            PROVE  Follows(wire'[c][i], wire'[c][i + 1])
        <4>1. i \in 1 .. k /\ wire'[c][i] = wire[c][i]
          BY <2>1, <2>2
        <4>2. CASE i = k
          BY <2>1, <2>6, <4>1, <4>2
        <4>3. CASE i # k
          <5>1. i \in 1 .. k - 1 /\ i + 1 \in 1 .. k
            BY <2>2, <4>1, <4>3
          <5> QED
            BY <1>0, <2>1, <4>1, <5>1 DEF WireInv, k
        <4> QED
          BY <4>2, <4>3
      <3> QED
        BY <1>1, <3>1, <3>2, <3>3 DEF WireInv, Follows
    <2>9. SenderInv(c)'
      <3>1. wire'[c][Len(wire'[c])] = p
        BY <2>1
      <3>2. IF p.piece = FrameLen THEN send_len' = 0
            ELSE send_len' = p.piece /\ p.block = new_block'
        BY <2>1, <2>2, <2>3, ClientConstants
      <3> QED
        BY <2>4, <3>1, <3>2 DEF SenderInv
    <2> QED
      BY <2>5, <2>8, <2>9 DEF StreamInvAt
  <1> QED
    BY <1>2, <1>3

\* A prefix of the buffers is left, and the connection takes no more.
LEMMA StreamBreak ==
  ASSUME TypeOK, NEW c \in Conns, StreamInvAt(c), NEW d \in Conns, Break(d)
  PROVE  StreamInvAt(c)'
  <1>0. PartialInv(c) /\ WireInv(c) /\ SenderInv(c)
    BY DEF StreamInvAt
  <1>1. /\ UNCHANGED <<send_len, new_block, socket_fd, partial>>
        /\ c # d => wire'[c] = wire[c] /\ up'[c] = up[c]
    BY BreakEffect DEF loopVars, clientVars, serverVars
  <1>2. CASE c # d
    BY <1>0, <1>1, <1>2, StreamFrame DEF StreamInvAt, SenderInv
  <1>3. CASE c = d
    <2>1. PICK n \in 0 .. Len(wire[c]) :
            Len(wire'[c]) = n /\ \A i \in 1 .. n : wire'[c][i] = wire[c][i]
      BY <1>3, BreakEffect
    <2>2. ~up'[c]
      BY <1>3, BreakEffect
    <2>3. /\ Len(wire[c]) \in Nat /\ n \in Nat /\ n <= Len(wire[c])
          /\ wire[c] = <<>> => n = 0
          /\ n = 0 => wire'[c] = <<>>
      <3>1. wire[c] \in Seq(Pieces) /\ wire'[c] \in Seq(Pieces)
        BY <1>3 DEF TypeOK, Break
      <3> QED
        BY <2>1, <3>1
    <2>4. WireInv(c)'
      <3>1. Len(wire'[c]) <= Window
        BY <1>0, <2>1, <2>3, ClientConstants DEF WireInv
      <3>2. wire'[c] # <<>> => wire[c] # <<>> /\ wire'[c][1] = wire[c][1]
        BY <2>1, <2>3
      <3>3. ASSUME NEW i \in 1 .. n - 1 PROVE Follows(wire'[c][i], wire'[c][i + 1])
        <4>1. i \in 1 .. Len(wire[c]) - 1 /\ i \in 1 .. n /\ i + 1 \in 1 .. n
          BY <2>3
        <4> QED
          BY <1>0, <2>1, <4>1 DEF WireInv
      <3> QED
        BY <1>0, <1>1, <2>1, <3>1, <3>2, <3>3 DEF WireInv
    <2>5. PartialInv(c)' /\ SenderInv(c)'
      BY <1>0, <1>1, <2>2 DEF PartialInv, SenderInv
    <2> QED
      BY <2>4, <2>5 DEF StreamInvAt
  <1> QED
    BY <1>2, <1>3

\* A piece goes from the buffers to the task, which takes a frame when it is whole.
LEMMA StreamDeliver ==
  ASSUME TypeOK, TypeOK', NEW c \in Conns, StreamInvAt(c), NEW d \in Conns, PartialInv(d),
         Deliver(d)
  PROVE  StreamInvAt(c)'
  <1>0. PartialInv(c) /\ WireInv(c) /\ SenderInv(c)
    BY DEF StreamInvAt
  <1>1. /\ UNCHANGED <<send_len, new_block, socket_fd, up>>
        /\ c # d => wire'[c] = wire[c] /\ partial'[c] = partial[c]
    BY DeliverEffect DEF PartialInv, loopVars, clientVars
  <1>2. CASE c # d
    BY <1>0, <1>1, <1>2, StreamFrame DEF StreamInvAt, SenderInv
  <1>3. CASE c = d
    <2> DEFINE n == Len(wire[c])
               k == Len(partial[c])
               h == wire[c][1]
    <2>1. /\ n \in Nat \ {0} /\ Len(wire'[c]) = n - 1
          /\ \A i \in 1 .. n - 1 : wire'[c][i] = wire[c][i + 1]
          /\ \/ /\ k + 1 < FrameLen /\ Len(partial'[c]) = k + 1
                /\ \A i \in 1 .. k : partial'[c][i] = partial[c][i]
                /\ partial'[c][k + 1] = h
             \/ k + 1 = FrameLen /\ partial'[c] = <<>>
      BY <1>0, <1>3, DeliverEffect DEF PartialInv
    <2>2. /\ k \in Nat /\ Len(<<>>) = 0
          /\ wire[c] # <<>> /\ (wire'[c] # <<>> <=> n > 1)
          /\ partial[c] # <<>> <=> k > 0
          /\ partial'[c] # <<>> <=> Len(partial'[c]) > 0
      <3>1. /\ wire[c] \in Seq(Pieces) /\ wire'[c] \in Seq(Pieces)
            /\ partial[c] \in Seq(Pieces) /\ partial'[c] \in Seq(Pieces)
        BY DEF TypeOK
      <3> QED
        BY <2>1, <3>1
    <2>3. h.piece = k + 1 /\ (k > 0 => h.block = partial[c][1].block)
      BY <1>0, <2>2 DEF WireInv
    <2>4. n > 1 => Follows(h, wire[c][2])
      <3>1. n > 1 => 1 \in 1 .. n - 1
        BY <2>1
      <3> QED
        BY <1>0, <3>1 DEF WireInv
    <2>5. n > 1 => wire'[c][1] = wire[c][2] /\ wire'[c][n - 1] = wire[c][n]
      BY <2>1
    <2> HIDE DEF n, k, h
    <2>6. /\ Len(wire'[c]) <= Window
          /\ \A i \in 1 .. Len(wire'[c]) - 1 : Follows(wire'[c][i], wire'[c][i + 1])
      <3>1. n <= Window
        BY <1>0 DEF WireInv, n
      <3>2. ASSUME NEW i \in 1 .. n - 2 PROVE Follows(wire'[c][i], wire'[c][i + 1])
        <4>1. i \in 1 .. n - 1 /\ i + 1 \in 1 .. n - 1
          BY <2>1
        <4>2. wire'[c][i] = wire[c][i + 1] /\ wire'[c][i + 1] = wire[c][i + 1 + 1]
          BY <2>1, <4>1
        <4> QED
          BY <1>0, <4>1, <4>2 DEF WireInv, n
      <3> QED
        BY <2>1, <3>1, <3>2, ClientConstants
    <2>7. CASE k + 1 < FrameLen /\ Len(partial'[c]) = k + 1
               /\ (\A i \in 1 .. k : partial'[c][i] = partial[c][i])
               /\ partial'[c][k + 1] = h
      <3>1. partial'[c][1].block = h.block
        BY <2>2, <2>3, <2>7
      <3>2. PartialInv(c)'
        <4>1. ASSUME NEW i \in 1 .. k + 1
              PROVE  partial'[c][i].piece = i /\ partial'[c][i].block = h.block
          <5>1. CASE i = k + 1
            BY <2>3, <2>7, <5>1
          <5>2. CASE i \in 1 .. k
            BY <1>0, <2>2, <2>3, <2>7, <5>2 DEF PartialInv, k
          <5> QED
            BY <2>2, <5>1, <5>2
        <4> QED
          BY <2>7, <3>1, <4>1 DEF PartialInv
      <3>3. WireInv(c)'
        <4>1. n > 1 => wire'[c][1].piece = k + 2 /\ wire'[c][1].block = h.block
          BY <2>2, <2>3, <2>4, <2>5, <2>7, ClientConstants DEF Follows
        <4> QED
          BY <2>1, <2>2, <2>6, <2>7, <3>1, <4>1 DEF WireInv
      <3>4. SenderInv(c)'
        <4>1. CASE n = 1
          BY <1>0, <1>1, <2>2, <2>3, <2>7, <3>1, <4>1, ClientConstants DEF SenderInv, n, h
        <4>2. CASE n # 1
          <5>1. n > 1
            BY <2>1, <4>2
          <5>2. wire[c] # <<>> /\ wire'[c] # <<>>
            BY <2>2, <5>1
          <5>3. wire'[c][Len(wire'[c])] = wire[c][Len(wire[c])]
            BY <2>1, <2>5, <5>1 DEF n
          <5> QED
            BY <1>0, <1>1, <5>2, <5>3 DEF SenderInv
        <4> QED
          BY <4>1, <4>2
      <3> QED
        BY <3>2, <3>3, <3>4 DEF StreamInvAt
    <2>8. CASE k + 1 = FrameLen /\ partial'[c] = <<>>
      <3>1. PartialInv(c)'
        BY <2>2, <2>8, ClientConstants DEF PartialInv
      <3>2. WireInv(c)'
        <4>1. n > 1 => wire'[c][1].piece = 1
          BY <2>2, <2>3, <2>4, <2>5, <2>8, ClientConstants DEF Follows
        <4> QED
          BY <2>1, <2>2, <2>6, <2>8, <4>1 DEF WireInv
      <3>3. SenderInv(c)'
        <4>1. CASE n = 1
          BY <1>0, <1>1, <2>2, <2>3, <2>8, <4>1 DEF SenderInv, n, h
        <4>2. CASE n # 1
          <5>1. n > 1
            BY <2>1, <4>2
          <5>2. wire[c] # <<>> /\ wire'[c] # <<>>
            BY <2>2, <5>1
          <5>3. wire'[c][Len(wire'[c])] = wire[c][Len(wire[c])]
            BY <2>1, <2>5, <5>1 DEF n
          <5> QED
            BY <1>0, <1>1, <5>2, <5>3 DEF SenderInv
        <4> QED
          BY <4>1, <4>2
      <3> QED
        BY <3>1, <3>2, <3>3 DEF StreamInvAt
    <2> QED
      BY <2>1, <2>7, <2>8
  <1> QED
    BY <1>2, <1>3

\* The loop's own steps: a frame is begun only on a connection that has no part of one.
LEMMA StreamLoop ==
  ASSUME TypeOK, TypeOK', LoopInv, NEW c \in Conns, StreamInvAt(c),
         ConnectToServer \/ SendFails \/ ReadNexBlock \/ StartAgain
  PROVE  StreamInvAt(c)'
  <1>0. PartialInv(c) /\ WireInv(c) /\ SenderInv(c)
    BY DEF StreamInvAt
  <1>1. UNCHANGED <<wire, partial>>
    BY DEF ConnectToServer, SendFails, ReadNexBlock, StartAgain, netVars, serverVars
  <1>2. PartialInv(c)' /\ WireInv(c)'
    BY <1>0, <1>1, StreamFrame
  <1>3. SenderInv(c)'
    <2>1. CASE SendFails \/ StartAgain
      <3>1. socket_fd' = NoConn
        BY <2>1 DEF SendFails, StartAgain, ResetClient
      <3> QED
        BY <3>1 DEF SenderInv, Conns, NoConn
    <2>2. CASE ConnectToServer
      <3>1. UNCHANGED <<send_len, new_block>>
        BY <2>2 DEF ConnectToServer
      <3>2. \/ UNCHANGED <<socket_fd, up>>
            \/ socket_fd' = opened + 1 /\ socket_fd' > opened
            \/ socket_fd' = NoConn
        BY <2>2 DEF ConnectToServer, ResetClient, clientVars, TypeOK
      <3>3. CASE UNCHANGED <<socket_fd, up>>
        BY <1>0, <1>1, <3>1, <3>3 DEF SenderInv
      <3>4. CASE c > opened
        <4>1. wire'[c] = <<>> /\ partial'[c] = <<>> /\ Len(<<>>) = 0
          BY <1>1, <3>4 DEF LoopInv
        <4>2. send_len' = 0
          BY <2>2, <3>1, ClientConstants DEF ConnectToServer, LoopInv, TypeOK
        <4> QED
          BY <4>1, <4>2 DEF SenderInv
      <3>5. CASE socket_fd' = NoConn
        BY <3>5 DEF SenderInv, Conns, NoConn
      <3> QED
        BY <3>2, <3>3, <3>4, <3>5 DEF SenderInv
    <2>3. CASE ReadNexBlock
      <3>1. send_len = 0 /\ UNCHANGED <<send_len, socket_fd, up>>
        BY <2>3, ClientConstants DEF ReadNexBlock, LoopInv, TypeOK, clientVars, netVars
      <3>2. wire[c] \in Seq(Pieces) /\ partial[c] \in Seq(Pieces)
        BY DEF TypeOK
      <3>3. CASE wire[c] = <<>>
        BY <1>0, <1>1, <3>1, <3>2, <3>3 DEF SenderInv
      <3>4. CASE wire[c] # <<>>
        <4>1. wire[c][Len(wire[c])] \in Pieces
          BY <3>2, <3>4
        <4>2. wire[c][Len(wire[c])].piece # 0
          BY <4>1 DEF Pieces
        <4> QED
          BY <1>0, <1>1, <3>1, <3>4, <4>2 DEF SenderInv
      <3> QED
        BY <3>3, <3>4
    <2> QED
      BY <2>1, <2>2, <2>3
  <1> QED
    BY <1>2, <1>3 DEF StreamInvAt

\* Each step of the client, the network and the server keeps the pieces in order.
LEMMA StreamNext ==
  ASSUME TypeOK, TypeOK', LoopInv, StreamInv, [Next]_vars
  PROVE  StreamInv'
  <1>0. \A c \in Conns : StreamInvAt(c)
    BY DEF StreamInv, StreamInvAt
  <1> SUFFICES ASSUME NEW c \in Conns PROVE StreamInvAt(c)'
    BY DEF StreamInv, StreamInvAt
  <1>1. CASE SendPiece
    BY <1>0, <1>1, StreamSend
  <1>2. CASE ConnectToServer \/ SendFails \/ ReadNexBlock \/ StartAgain
    BY <1>0, <1>2, StreamLoop
  <1>3. ASSUME NEW d \in Conns, Break(d) PROVE StreamInvAt(c)'
    BY <1>0, <1>3, StreamBreak
  <1>4. ASSUME NEW d \in Conns, Deliver(d) PROVE StreamInvAt(c)'
    BY <1>0, <1>4, StreamDeliver DEF StreamInvAt
  <1>5. CASE UNCHANGED vars \/ \E d \in Conns : Forget(d)
    <2>1. UNCHANGED <<wire, partial, send_len, new_block, socket_fd, up>>
      BY <1>5 DEF Forget, vars, loopVars, clientVars, netVars, serverVars
    <2> QED
      BY <1>0, <2>1 DEF StreamInvAt, PartialInv, WireInv, SenderInv
  <1> QED
    BY <1>1, <1>2, <1>3, <1>4, <1>5 DEF Next, MainLoop, SendToServer, Network

\* The inductive invariant about pieces: what the task of a connection has, what the
\* buffers have, and where the client is in its frame, fit together
\* (tcp_client.cpp:44-109, main.cpp:98-158).
THEOREM StreamInvCorrect == Spec => []StreamInv
  <1>1. Init => StreamInv
    <2> SUFFICES ASSUME Init, NEW c \in Conns PROVE StreamInvAt(c)
      BY DEF StreamInv, StreamInvAt
    <2>1. wire[c] = <<>> /\ partial[c] = <<>> /\ ~up[c] /\ Len(<<>>) = 0
      BY DEF Init
    <2> QED
      BY <2>1, ClientConstants DEF StreamInvAt, PartialInv, WireInv, SenderInv
  <1>2. TypeOK /\ TypeOK' /\ LoopInv /\ StreamInv /\ [Next]_vars => StreamInv'
    BY StreamNext
  <1> QED
    BY <1>1, <1>2, TypeCorrect, LoopInvCorrect, PTL DEF Spec

\* What reaches the task of a connection is frame after frame, each with all its pieces:
\* a block that has to be sent again is sent again from its first piece, on a connection
\* that has no part of another one (tcp_client.cpp:44-109).
THEOREM FramesWholeCorrect == Spec => []FramesWhole
  <1>1. TypeOK /\ StreamInv => FramesWhole
    <2> SUFFICES ASSUME TypeOK, StreamInv, NEW c \in Conns,
                        NEW i \in DOMAIN (partial[c] \o wire[c])
                 PROVE  LET s == partial[c] \o wire[c]
                        IN  IF i = 1 THEN s[i].piece = 1 ELSE Follows(s[i - 1], s[i])
      BY DEF FramesWhole
    <2> DEFINE q == partial[c]
               w == wire[c]
               s == q \o w
    <2>1. q \in Seq(Pieces) /\ w \in Seq(Pieces)
      BY DEF TypeOK
    <2>2. /\ Len(q) \in Nat /\ Len(w) \in Nat /\ i \in 1 .. Len(q) + Len(w)
          /\ q # <<>> <=> Len(q) > 0
          /\ w # <<>> <=> Len(w) > 0
          /\ \A j \in 1 .. Len(q) + Len(w) :
               s[j] = IF j <= Len(q) THEN q[j] ELSE w[j - Len(q)]
      <3>1. /\ s \in Seq(Pieces) /\ Len(s) = Len(q) + Len(w)
            /\ \A j \in 1 .. Len(q) + Len(w) :
                 s[j] = IF j <= Len(q) THEN q[j] ELSE w[j - Len(q)]
        <4> HIDE DEF q, w
        <4> QED
          BY <2>1, ConcatProperties
      <3>2. i \in 1 .. Len(s)
        <4>1. DOMAIN s = 1 .. Len(s)
          BY <3>1, LenProperties
        <4> QED
          BY <4>1
      <3> QED
        <4> HIDE DEF q, w, s
        <4>1. /\ Len(q) \in Nat /\ Len(w) \in Nat
              /\ q # <<>> <=> Len(q) > 0
              /\ w # <<>> <=> Len(w) > 0
          BY <2>1
        <4> QED
          BY <3>1, <3>2, <4>1
    <2>3. /\ Len(q) < FrameLen
          /\ \A j \in 1 .. Len(q) : q[j].piece = j /\ q[j].block = q[1].block
          /\ w # <<>> => /\ w[1].piece = Len(q) + 1
                         /\ q # <<>> => w[1].block = q[1].block
          /\ \A j \in 1 .. Len(w) - 1 : Follows(w[j], w[j + 1])
      BY DEF StreamInv, PartialInv, WireInv
    <2> HIDE DEF q, w, s
    <2>4. ASSUME i <= Len(q)
          PROVE  IF i = 1 THEN s[i].piece = 1 ELSE Follows(s[i - 1], s[i])
      <3>1. s[i] = q[i] /\ q[i].piece = i /\ q[i].block = q[1].block /\ i < FrameLen
        BY <2>2, <2>3, <2>4, ClientConstants
      <3>2. i # 1 => /\ i - 1 \in 1 .. Len(q) /\ s[i - 1] = q[i - 1]
                     /\ q[i - 1].piece = i - 1 /\ q[i - 1].block = q[1].block
        BY <2>2, <2>3, <2>4
      <3>3. i = 1 => s[i].piece = 1
        BY <3>1
      <3>4. ASSUME i # 1 PROVE Follows(s[i - 1], s[i])
        <4>1. i - 1 \in Nat /\ s[i - 1].piece < FrameLen /\ s[i].piece = s[i - 1].piece + 1
          BY <2>2, <3>1, <3>2, <3>4, ClientConstants
        <4> QED
          BY <3>1, <3>2, <3>4, <4>1 DEF Follows
      <3> QED
        BY <3>3, <3>4
    <2>5. ASSUME i = Len(q) + 1
          PROVE  IF i = 1 THEN s[i].piece = 1 ELSE Follows(s[i - 1], s[i])
      <3>1. s[i] = w[1] /\ w[1].piece = i /\ (i # 1 => w[1].block = q[1].block)
        BY <2>2, <2>3, <2>5
      <3>2. i # 1 => /\ i - 1 \in 1 .. Len(q) /\ s[i - 1] = q[i - 1]
                     /\ q[i - 1].piece = i - 1 /\ q[i - 1].block = q[1].block
        BY <2>2, <2>3, <2>5
      <3> QED
        BY <2>2, <2>3, <2>5, <3>1, <3>2, ClientConstants DEF Follows
    <2>6. ASSUME i > Len(q) + 1
          PROVE  IF i = 1 THEN s[i].piece = 1 ELSE Follows(s[i - 1], s[i])
      <3>1. i - 1 - Len(q) \in 1 .. Len(w) - 1 /\ i - 1 \in 1 .. Len(q) + Len(w)
        BY <2>2, <2>6
      <3>2. s[i] = w[i - Len(q)] /\ s[i - 1] = w[i - 1 - Len(q)]
        BY <2>2, <2>6, <3>1
      <3>3. Follows(w[i - 1 - Len(q)], w[i - 1 - Len(q) + 1])
        BY <2>3, <3>1
      <3>4. i - 1 - Len(q) + 1 = i - Len(q) /\ i # 1
        BY <2>2, <2>6
      <3>5. Follows(s[i - 1], s[i])
        BY <3>2, <3>3, <3>4
      <3> QED
        BY <3>4, <3>5
    <2> QED
      <3>1. i <= Len(q) \/ i = Len(q) + 1 \/ i > Len(q) + 1
        BY <2>2
      <3>2. IF i = 1 THEN s[i].piece = 1 ELSE Follows(s[i - 1], s[i])
        BY <2>4, <2>5, <2>6, <3>1
      <3> QED
        BY <3>2 DEF q, w, s
  <1> QED
    BY <1>1, TypeCorrect, StreamInvCorrect, PTL

-----------------------------------------------------------------------------

\* The places of one block, step by step.
PlaceInvAt(b) == (Somewhere(b) <=> b <= read) /\ OncePlaced(b)

\* InWire and IsTaken speak of positions only.
LEMMA PlaceDomains ==
  /\ \A b, c, i : InWire(b, c, i) => i \in 1 .. Len(wire[c])
  /\ \A b, i : IsTaken(b, i) => i \in DOMAIN received
  BY DEF InWire, IsTaken

\* Nothing of the block moves.
LEMMA PlaceStill ==
  ASSUME NEW b \in Blocks, PlaceInvAt(b),
         b <= read' <=> b <= read,
         new_block' = b <=> new_block = b,
         \A c \in Conns : \A i : InWire(b, c, i)' <=> InWire(b, c, i),
         \A i : IsTaken(b, i)' <=> IsTaken(b, i),
         b \in lost' <=> b \in lost
  PROVE  PlaceInvAt(b)'
  <1>1. /\ \A c, i : InWire(b, c, i)' => i \in 1 .. Len(wire'[c])
        /\ \A i : IsTaken(b, i)' => i \in DOMAIN received'
    BY DEF InWire, IsTaken
  <1>2. Somewhere(b)' <=> Somewhere(b)
    BY <1>1, PlaceDomains DEF Somewhere
  <1>3. OncePlaced(b)'
    BY <1>1, PlaceDomains DEF PlaceInvAt, OncePlaced
  <1> QED
    BY <1>2, <1>3 DEF PlaceInvAt

\* The block is read.
LEMMA PlaceRead ==
  ASSUME TypeOK, LoopInv, NEW b \in Blocks, PlaceInvAt(b), ReadNexBlock
  PROVE  PlaceInvAt(b)'
  <1>1. UNCHANGED <<wire, received, lost>> /\ new_block = NoBlock
    BY DEF ReadNexBlock, LoopInv, netVars, serverVars
  <1>2. /\ \A c \in Conns : \A i : InWire(b, c, i)' <=> InWire(b, c, i)
        /\ \A i : IsTaken(b, i)' <=> IsTaken(b, i)
    BY <1>1 DEF InWire, IsTaken
  <1>3. CASE read' = read /\ new_block' = NoBlock
    BY <1>1, <1>2, <1>3, PlaceStill DEF NoBlock
  <1>4. CASE read' = read + 1 /\ new_block' = read + 1 /\ b # read + 1
    <2>1. b <= read' <=> b <= read
      BY <1>4 DEF TypeOK, Blocks
    <2>2. new_block' # b /\ new_block # b
      BY <1>1, <1>4 DEF NoBlock, Blocks
    <2> QED
      BY <1>1, <1>2, <2>1, <2>2, PlaceStill
  <1>5. CASE read' = read + 1 /\ new_block' = read + 1 /\ b = read + 1
    <2>1. ~Somewhere(b) /\ b <= read' /\ new_block' = b
      BY <1>5 DEF PlaceInvAt, TypeOK, Blocks
    <2>2. /\ \A c \in Conns : \A i \in 1 .. Len(wire[c]) : ~InWire(b, c, i)
          /\ \A i \in DOMAIN received : ~IsTaken(b, i)
          /\ b \notin lost
      BY <2>1 DEF Somewhere
    <2> QED
      BY <1>1, <1>2, <2>1, <2>2 DEF PlaceInvAt, Somewhere, OncePlaced
  <1> QED
    BY <1>3, <1>4, <1>5 DEF ReadNexBlock, ReadSome, ReadNone

\* The process dies with the block.
LEMMA PlaceStartAgain ==
  ASSUME TypeOK, NEW b \in Blocks, PlaceInvAt(b), StartAgain
  PROVE  PlaceInvAt(b)'
  <1>1. /\ UNCHANGED <<read, wire, received>> /\ new_block' = NoBlock
        /\ b \in lost' <=> b \in lost \/ new_block = b
    BY DEF StartAgain, serverVars, NoBlock, Blocks
  <1>2. /\ \A c \in Conns : \A i : InWire(b, c, i)' <=> InWire(b, c, i)
        /\ \A i : IsTaken(b, i)' <=> IsTaken(b, i)
    BY <1>1 DEF InWire, IsTaken
  <1>3. new_block' # b
    BY <1>1 DEF NoBlock, Blocks
  <1> QED
    BY <1>1, <1>2, <1>3 DEF PlaceInvAt, Somewhere, OncePlaced

\* The client has sent a block whole: the connection has it, or has lost it.
LEMMA SendMoves ==
  ASSUME TypeOK, LoopInv, NEW b \in Blocks, SendPiece, up[socket_fd]
  PROVE  /\ socket_fd \in Conns /\ Len(wire[socket_fd]) \in Nat
         /\ \A c \in Conns : \A i :
              InWire(b, c, i)'
                <=> \/ InWire(b, c, i)
                    \/ /\ send_len + 1 = FrameLen /\ new_block = b
                       /\ c = socket_fd /\ i = Len(wire[socket_fd]) + 1
  <1> DEFINE n == Len(wire[socket_fd])
             whole == send_len + 1 = FrameLen /\ new_block = b
  <1>0. socket_fd \in Conns /\ n \in Nat
    BY SendEffect DEF TypeOK
  <1>1. /\ Len(wire'[socket_fd]) = n + 1
        /\ \A i \in 1 .. n : wire'[socket_fd][i] = wire[socket_fd][i]
        /\ wire'[socket_fd][n + 1] = [block |-> new_block, piece |-> send_len + 1]
        /\ \A c \in Conns : c # socket_fd => wire'[c] = wire[c]
    BY SendEffect
  <1>2. [block |-> new_block, piece |-> send_len + 1] = Complete(b) <=> whole
    BY DEF Complete
  <1> HIDE DEF whole
  <1>3. \A c \in Conns : \A i :
          InWire(b, c, i)' <=> InWire(b, c, i) \/ (whole /\ c = socket_fd /\ i = n + 1)
    <2> SUFFICES ASSUME NEW c \in Conns, NEW i
                 PROVE  InWire(b, c, i)'
                          <=> InWire(b, c, i) \/ (whole /\ c = socket_fd /\ i = n + 1)
      OBVIOUS
    <2>1. CASE c # socket_fd
      BY <1>1, <2>1 DEF InWire
    <2>2. CASE c = socket_fd /\ i \in 1 .. n
      <3>1. i # n + 1 /\ i \in 1 .. n + 1
        BY <1>0, <2>2
      <3> QED
        BY <1>1, <2>2, <3>1 DEF InWire
    <2>3. CASE c = socket_fd /\ i = n + 1
      <3>1. i \notin 1 .. n /\ i \in 1 .. n + 1
        BY <1>0, <2>3
      <3> QED
        BY <1>1, <1>2, <2>3, <3>1 DEF InWire
    <2>4. CASE c = socket_fd /\ i \notin 1 .. n + 1
      <3>1. i \notin 1 .. n /\ i # n + 1
        BY <1>0, <2>4
      <3> QED
        BY <1>1, <2>4, <3>1 DEF InWire
    <2> QED
      BY <1>0, <2>1, <2>2, <2>3, <2>4
  <1> QED
    BY <1>0, <1>3 DEF whole

\* A block that is sent whole changes places, and no other does.
LEMMA PlaceSend ==
  ASSUME TypeOK, LoopInv, NEW b \in Blocks, PlaceInvAt(b), SendPiece
  PROVE  PlaceInvAt(b)'
  <1> DEFINE n == Len(wire[socket_fd])
             whole == send_len + 1 = FrameLen /\ new_block = b
  <1>1. /\ socket_fd \in Conns /\ n \in Nat
        /\ UNCHANGED <<read, received>>
        /\ \A i : IsTaken(b, i)' <=> IsTaken(b, i)
        /\ new_block' = b <=> new_block = b /\ ~whole
    <2>1. socket_fd \in Conns /\ UNCHANGED <<read, received>>
      BY SendEffect
    <2>2. n \in Nat
      BY <2>1 DEF TypeOK
    <2>3. new_block' = b <=> new_block = b /\ ~whole
      BY SendEffect, ClientConstants DEF NoBlock, Blocks, TypeOK
    <2> QED
      BY <2>1, <2>2, <2>3 DEF IsTaken
  <1>2. CASE ~up[socket_fd]
    <2>1. /\ wire' = wire
          /\ b \in lost' <=> b \in lost \/ whole
      BY <1>2, SendEffect
    <2>2. \A c \in Conns : \A i : InWire(b, c, i)' <=> InWire(b, c, i)
      BY <2>1 DEF InWire
    <2>3. CASE ~whole
      BY <1>1, <2>1, <2>2, <2>3, PlaceStill
    <2>4. CASE whole
      BY <1>1, <2>1, <2>2, <2>4 DEF PlaceInvAt, Somewhere, OncePlaced
    <2> QED
      BY <2>3, <2>4
  <1>3. CASE up[socket_fd]
    <2>1. /\ lost' = lost
          /\ Len(wire'[socket_fd]) = n + 1
          /\ \A i \in 1 .. n : wire'[socket_fd][i] = wire[socket_fd][i]
          /\ wire'[socket_fd][n + 1] = [block |-> new_block, piece |-> send_len + 1]
          /\ \A c \in Conns : c # socket_fd => wire'[c] = wire[c]
      BY <1>3, SendEffect
    <2>2. n + 1 \in 1 .. Len(wire'[socket_fd])
      BY <1>1, <2>1
    <2>3. \A c \in Conns : \A i :
            InWire(b, c, i)' <=> InWire(b, c, i) \/ (whole /\ c = socket_fd /\ i = n + 1)
      BY <1>3, SendMoves
    <2> HIDE DEF whole
    <2>4. CASE ~whole
      BY <1>1, <2>1, <2>3, <2>4, PlaceStill
    <2>5. CASE whole
      <3>1. /\ new_block = b /\ new_block' # b
            /\ n + 1 \in 1 .. Len(wire'[socket_fd])
        BY <1>1, <2>2, <2>5 DEF whole
      <3>2. \A c \in Conns : \A i : InWire(b, c, i)' <=> c = socket_fd /\ i = n + 1
        BY <2>3, <2>5, <3>1, PlaceDomains DEF PlaceInvAt, OncePlaced
      <3>3. Somewhere(b) /\ Somewhere(b)'
        BY <1>1, <3>1, <3>2 DEF Somewhere
      <3>4. b \notin lost' /\ \A i \in DOMAIN received' : ~IsTaken(b, i)'
        BY <1>1, <2>1, <3>1 DEF PlaceInvAt, OncePlaced
      <3> QED
        BY <1>1, <3>1, <3>2, <3>3, <3>4 DEF PlaceInvAt, OncePlaced
    <2> QED
      BY <2>4, <2>5
  <1> QED
    BY <1>2, <1>3

\* The buffers are cut: what was complete in the rest is lost.
LEMMA BreakMoves ==
  ASSUME TypeOK, NEW b \in Blocks, NEW d \in Conns, Break(d)
  PROVE  \E n \in Nat :
           /\ \A c \in Conns : \A i :
                InWire(b, c, i)' <=> InWire(b, c, i) /\ (c = d => i <= n)
           /\ b \in lost' <=> \/ b \in lost
                              \/ \E i \in 1 .. Len(wire[d]) : InWire(b, d, i) /\ ~(i <= n)
  <1>1. /\ UNCHANGED <<new_block, read, received>>
        /\ \A c \in Conns : c # d => wire'[c] = wire[c]
    BY BreakEffect DEF loopVars, serverVars
  <1>2. PICK n \in 0 .. Len(wire[d]) :
          /\ Len(wire'[d]) = n
          /\ \A i \in 1 .. n : wire'[d][i] = wire[d][i]
          /\ b \in lost' <=> \/ b \in lost
                             \/ \E i \in 1 .. Len(wire[d]) :
                                  n < i /\ wire[d][i] = Complete(b)
    BY BreakEffect
  <1>3. Len(wire[d]) \in Nat /\ n \in Nat /\ n <= Len(wire[d])
    BY <1>2 DEF TypeOK
  <1>4. \A c \in Conns : \A i : InWire(b, c, i)' <=> InWire(b, c, i) /\ (c = d => i <= n)
    <2> SUFFICES ASSUME NEW c \in Conns, NEW i
                 PROVE  InWire(b, c, i)' <=> InWire(b, c, i) /\ (c = d => i <= n)
      OBVIOUS
    <2>1. CASE c # d
      BY <1>1, <2>1 DEF InWire
    <2>2. CASE c = d
      <3>1. i \in 1 .. n <=> i \in 1 .. Len(wire[d]) /\ i <= n
        BY <1>3
      <3> QED
        BY <1>2, <2>2, <3>1 DEF InWire
    <2> QED
      BY <2>1, <2>2
  <1>5. b \in lost' <=> b \in lost \/ \E i \in 1 .. Len(wire[d]) : InWire(b, d, i) /\ ~(i <= n)
    BY <1>2, <1>3 DEF InWire
  <1> QED
    BY <1>3, <1>4, <1>5

\* A block that is cut off goes from the connection to the lost ones.
LEMMA PlaceBreak ==
  ASSUME TypeOK, NEW b \in Blocks, PlaceInvAt(b), NEW d \in Conns, Break(d)
  PROVE  PlaceInvAt(b)'
  <1>1. UNCHANGED <<new_block, read, received>>
    BY BreakEffect DEF loopVars, serverVars
  <1>2. PICK n \in Nat :
           /\ \A c \in Conns : \A i :
                InWire(b, c, i)' <=> InWire(b, c, i) /\ (c = d => i <= n)
           /\ b \in lost' <=> \/ b \in lost
                              \/ \E i \in 1 .. Len(wire[d]) : InWire(b, d, i) /\ ~(i <= n)
    BY BreakMoves
  <1>3. \A i : IsTaken(b, i)' <=> IsTaken(b, i)
    BY <1>1 DEF IsTaken
  <1>4. /\ \A c, i : InWire(b, c, i)' => i \in 1 .. Len(wire'[c])
        /\ \A i : IsTaken(b, i)' => i \in DOMAIN received'
    BY DEF InWire, IsTaken
  <1>5. Somewhere(b)' <=> Somewhere(b)
    BY <1>1, <1>2, <1>3, <1>4, PlaceDomains DEF Somewhere
  <1>6. OncePlaced(b)'
    BY <1>1, <1>2, <1>3, <1>4, PlaceDomains DEF PlaceInvAt, OncePlaced
  <1> QED
    BY <1>1, <1>5, <1>6 DEF PlaceInvAt

\* A task takes the last piece of a frame, and with it the block.
LEMMA DeliverMoves ==
  ASSUME TypeOK, NEW b \in Blocks, NEW d \in Conns, PartialInv(d), WireInv(d), Deliver(d)
  PROVE  /\ Len(wire[d]) \in Nat \ {0} /\ Len(received) \in Nat
         /\ \A c \in Conns : \A i :
              InWire(b, c, i)' <=> IF c = d THEN i \in 1 .. Len(wire[d]) - 1 /\ InWire(b, d, i + 1)
                                   ELSE InWire(b, c, i)
         /\ \A i : IsTaken(b, i)' <=> IsTaken(b, i) \/ (i = Len(received) + 1 /\ InWire(b, d, 1))
         /\ \A c \in Conns : \A i :
              TakenOn(b, c, i)'
                <=> TakenOn(b, c, i) \/ (c = d /\ i = Len(received) + 1 /\ InWire(b, d, 1))
  <1> DEFINE n == Len(wire[d])
             h == wire[d][1]
             m == Len(received)
  <1>1. /\ UNCHANGED <<new_block, read, lost>>
        /\ \A c \in Conns : c # d => wire'[c] = wire[c]
        /\ n \in Nat \ {0} /\ Len(wire'[d]) = n - 1
        /\ \A i \in 1 .. n - 1 : wire'[d][i] = wire[d][i + 1]
        /\ \/ Len(partial[d]) + 1 < FrameLen /\ received' = received
           \/ /\ Len(partial[d]) + 1 = FrameLen
              /\ received' = Append(received, [conn |-> d, block |-> h.block])
    BY DeliverEffect DEF PartialInv, loopVars
  <1>2. /\ wire[d] \in Seq(Pieces) /\ wire[d] # <<>>
        /\ m \in Nat /\ DOMAIN received = 1 .. m
    BY DEF TypeOK, Deliver
  <1>3. h \in Pieces
    BY <1>1, <1>2
  <1>4. h.piece = Len(partial[d]) + 1
    BY <1>2 DEF WireInv
  <1> HIDE DEF n, h, m
  <1>5. \A c \in Conns : \A i :
          InWire(b, c, i)' <=> IF c = d THEN i \in 1 .. n - 1 /\ InWire(b, d, i + 1)
                               ELSE InWire(b, c, i)
    <2> SUFFICES ASSUME NEW c \in Conns, NEW i
                 PROVE  InWire(b, c, i)' <=> IF c = d THEN i \in 1 .. n - 1 /\ InWire(b, d, i + 1)
                                             ELSE InWire(b, c, i)
      OBVIOUS
    <2>1. CASE c # d
      BY <1>1, <2>1 DEF InWire
    <2>2. CASE c = d /\ i \in 1 .. n - 1
      <3>1. i + 1 \in 1 .. n
        BY <1>1, <2>2
      <3> QED
        BY <1>1, <2>2, <3>1 DEF InWire, n
    <2>3. CASE c = d /\ i \notin 1 .. n - 1
      BY <1>1, <2>3 DEF InWire
    <2> QED
      BY <2>1, <2>2, <2>3
  <1>6. InWire(b, d, 1) <=> h.piece = FrameLen /\ h.block = b
    BY <1>1, <1>3 DEF InWire, Complete, Pieces, h, n
  <1>7. /\ \A i : IsTaken(b, i)' <=> IsTaken(b, i) \/ (i = m + 1 /\ InWire(b, d, 1))
        /\ \A c \in Conns : \A i :
             TakenOn(b, c, i)' <=> TakenOn(b, c, i) \/ (c = d /\ i = m + 1 /\ InWire(b, d, 1))
    <2>1. CASE received' = received /\ Len(partial[d]) + 1 < FrameLen
      <3>1. ~InWire(b, d, 1)
        BY <1>4, <1>6, <2>1, ClientConstants
      <3> QED
        BY <2>1, <3>1 DEF IsTaken, TakenOn
    <2>2. CASE /\ Len(partial[d]) + 1 = FrameLen
               /\ received' = Append(received, [conn |-> d, block |-> h.block])
      <3>1. InWire(b, d, 1) <=> h.block = b
        BY <1>4, <1>6, <2>2
      <3>2. /\ DOMAIN received' = 1 .. m + 1
            /\ \A i \in 1 .. m : received'[i] = received[i]
            /\ received'[m + 1] = [conn |-> d, block |-> h.block]
        <4> DEFINE x == [conn |-> d, block |-> h.block]
                   S == [conn : Conns, block : Blocks]
        <4>1. x \in S /\ received \in Seq(S) /\ x.block = h.block
          BY <1>3 DEF TypeOK, Pieces
        <4> HIDE DEF S, x
        <4>2. /\ received' \in Seq(S) /\ Len(received') = m + 1
              /\ \A i \in 1 .. m : received'[i] = received[i]
              /\ received'[m + 1] = x
          BY <2>2, <4>1, AppendEffect DEF x, m
        <4> QED
          BY <4>1, <4>2 DEF x
      <3>3. m + 1 \notin 1 .. m /\ \A i : i \in 1 .. m + 1 <=> i \in 1 .. m \/ i = m + 1
        BY <1>2
      <3> QED
        BY <1>2, <3>1, <3>2, <3>3 DEF IsTaken, TakenOn
    <2> QED
      BY <1>1, <2>1, <2>2
  <1> QED
    BY <1>1, <1>2, <1>5, <1>7 DEF n, m

\* A block that is taken goes from the connection to the server.
LEMMA PlaceDeliver ==
  ASSUME TypeOK, NEW b \in Blocks, PlaceInvAt(b), NEW d \in Conns, PartialInv(d), WireInv(d),
         Deliver(d)
  PROVE  PlaceInvAt(b)'
  <1> DEFINE n == Len(wire[d])
             m == Len(received)
  <1>1. UNCHANGED <<new_block, read, lost>>
    BY DeliverEffect DEF PartialInv, loopVars
  <1>2. /\ n \in Nat \ {0} /\ m \in Nat
        /\ \A c \in Conns : \A i :
             InWire(b, c, i)' <=> IF c = d THEN i \in 1 .. n - 1 /\ InWire(b, d, i + 1)
                                  ELSE InWire(b, c, i)
        /\ \A i : IsTaken(b, i)' <=> IsTaken(b, i) \/ (i = m + 1 /\ InWire(b, d, 1))
    BY DeliverMoves
  <1> HIDE DEF n, m
  <1>3. /\ \A c, i : InWire(b, c, i)' => i \in 1 .. Len(wire'[c])
        /\ \A i : IsTaken(b, i)' => i \in DOMAIN received'
    BY DEF InWire, IsTaken
  <1>4. \A i \in 1 .. n : i = 1 \/ i - 1 \in 1 .. n - 1
    BY <1>2
  <1>5. Somewhere(b)' <=> Somewhere(b)
    <2>1. (\E c \in Conns : \E i : InWire(b, c, i)') \/ InWire(b, d, 1)
            <=> \E c \in Conns : \E i : InWire(b, c, i)
      <3>1. ASSUME NEW c \in Conns, NEW i, InWire(b, c, i)
            PROVE  (\E x \in Conns : \E j : InWire(b, x, j)') \/ InWire(b, d, 1)
        <4>1. CASE c # d
          BY <1>2, <3>1, <4>1
        <4>2. CASE c = d /\ i = 1
          BY <3>1, <4>2
        <4>3. CASE c = d /\ i # 1
          <5>1. i \in 1 .. n
            BY <3>1, <4>3, PlaceDomains DEF n
          <5>2. i - 1 \in 1 .. n - 1 /\ (i - 1) + 1 = i
            BY <1>4, <4>3, <5>1
          <5> QED
            BY <1>2, <3>1, <4>3, <5>2
        <4> QED
          BY <4>1, <4>2, <4>3
      <3>2. ASSUME NEW c \in Conns, NEW i, InWire(b, c, i)'
            PROVE  \E x \in Conns : \E j : InWire(b, x, j)
        BY <1>2, <3>2
      <3> QED
        BY <3>1, <3>2
    <2> QED
      BY <1>1, <1>2, <1>3, <2>1, PlaceDomains DEF Somewhere
  <1>6. OncePlaced(b)'
    <2>1. ASSUME NEW c \in Conns, NEW i, InWire(b, c, i)'
          PROVE  /\ new_block # b /\ b \notin lost /\ ~InWire(b, d, 1)
                 /\ \A j : ~IsTaken(b, j)
                 /\ \A x \in Conns : \A j : InWire(b, x, j)' => x = c /\ j = i
      <3>1. PICK y : InWire(b, c, y) /\ y = IF c = d THEN i + 1 ELSE i
        BY <1>2, <2>1
      <3>2. /\ new_block # b /\ b \notin lost
            /\ \A j : ~IsTaken(b, j)
            /\ \A x \in Conns : \A j : InWire(b, x, j) => x = c /\ j = y
        BY <3>1, PlaceDomains DEF PlaceInvAt, OncePlaced
      <3>3. c = d => i \in 1 .. n - 1
        BY <1>2, <2>1
      <3>4. ~InWire(b, d, 1)
        BY <1>2, <3>1, <3>2, <3>3
      <3>5. ASSUME NEW x \in Conns, NEW j, InWire(b, x, j)' PROVE x = c /\ j = i
        <4>1. /\ x = d => j \in 1 .. n - 1 /\ InWire(b, d, j + 1)
              /\ x # d => InWire(b, x, j)
          BY <1>2, <3>5
        <4> QED
          BY <1>2, <3>1, <3>2, <3>3, <4>1
      <3> QED
        BY <3>2, <3>4, <3>5
    <2>2. ASSUME NEW i, IsTaken(b, i)'
          PROVE  /\ new_block # b /\ b \notin lost
                 /\ \A j : IsTaken(b, j)' => j = i
      BY <1>2, <2>2, PlaceDomains DEF PlaceInvAt, OncePlaced
    <2> QED
      BY <1>1, <1>2, <2>1, <2>2 DEF PlaceInvAt, OncePlaced
  <1> QED
    BY <1>1, <1>5, <1>6 DEF PlaceInvAt

\* Each step leaves every block that was read one place.
LEMMA PlaceNext ==
  ASSUME TypeOK, LoopInv, StreamInv, PlaceInv, [Next]_vars
  PROVE  PlaceInv'
  <1>0. \A b \in Blocks : PlaceInvAt(b)
    BY DEF PlaceInv, PlaceInvAt
  <1> SUFFICES ASSUME NEW b \in Blocks PROVE PlaceInvAt(b)'
    BY DEF PlaceInv, PlaceInvAt
  <1>1. CASE SendPiece
    BY <1>0, <1>1, PlaceSend
  <1>2. CASE ReadNexBlock
    BY <1>0, <1>2, PlaceRead
  <1>3. CASE StartAgain
    BY <1>0, <1>3, PlaceStartAgain
  <1>4. ASSUME NEW d \in Conns, Break(d) PROVE PlaceInvAt(b)'
    BY <1>0, <1>4, PlaceBreak
  <1>5. ASSUME NEW d \in Conns, Deliver(d) PROVE PlaceInvAt(b)'
    BY <1>0, <1>5, PlaceDeliver DEF StreamInv
  <1>6. CASE ConnectToServer \/ SendFails \/ UNCHANGED vars \/ \E d \in Conns : Forget(d)
    <2>1. UNCHANGED <<new_block, read, wire, received, lost>>
      BY <1>6 DEF ConnectToServer, SendFails, Forget, vars, loopVars, netVars, serverVars
    <2> QED
      BY <1>0, <2>1, PlaceStill DEF InWire, IsTaken
  <1> QED
    BY <1>1, <1>2, <1>3, <1>4, <1>5, <1>6 DEF Next, MainLoop, SendToServer, Network

\* The inductive invariant about blocks: each that was read has one place.
THEOREM PlaceInvCorrect == Spec => []PlaceInv
  <1>1. Init => PlaceInv
    BY ClientConstants DEF Init, PlaceInv, Somewhere, OncePlaced, InWire, IsTaken, NoBlock,
       Blocks
  <1>2. TypeOK /\ LoopInv /\ StreamInv /\ PlaceInv /\ [Next]_vars => PlaceInv'
    BY PlaceNext
  <1> QED
    BY <1>1, <1>2, TypeCorrect, LoopInvCorrect, StreamInvCorrect, PTL DEF Spec

\* A block that was read is with the client, whole in a connection, at the server, or
\* lost with a connection or with the process, and only once (main.cpp:98-158,
\* tcp_client.cpp:44-109): what is sent again after a failure never reaches the server
\* twice.
THEOREM ExactlyOnePlaceCorrect == Spec => []ExactlyOnePlace
  <1>1. TypeOK /\ PlaceInv => ExactlyOnePlace
    <2> SUFFICES ASSUME TypeOK, PlaceInv, NEW b \in Blocks
                 PROVE  Cardinality(Places(b)) = IF b <= read THEN 1 ELSE 0
      BY DEF ExactlyOnePlace
    <2>1. PlaceInvAt(b)
      BY DEF PlaceInv, PlaceInvAt
    <2>2. \A c \in Conns : DOMAIN wire[c] = 1 .. Len(wire[c])
      BY DEF TypeOK
    <2>3. \A x : x \in WirePlaces(b) <=> \E c \in Conns : \E i : InWire(b, c, i) /\ x = <<c, i>>
      BY <2>2 DEF WirePlaces, InWire
    <2>4. \A i : i \in TakenPlaces(b) <=> IsTaken(b, i)
      BY DEF TakenPlaces, IsTaken
    <2> DEFINE W == WirePlaces(b)
               T == TakenPlaces(b)
    <2> HIDE DEF W, T
    <2>5. /\ Somewhere(b) <=> new_block = b \/ W # {} \/ T # {} \/ b \in lost
          /\ new_block = b => b \notin lost /\ W = {} /\ T = {}
          /\ W # {} => b \notin lost /\ T = {} /\ \A x, y \in W : x = y
          /\ T # {} => b \notin lost /\ \A x, y \in T : x = y
      <3>1. Somewhere(b) <=> new_block = b \/ W # {} \/ T # {} \/ b \in lost
        BY <2>3, <2>4, PlaceDomains DEF Somewhere, W, T
      <3>2. ASSUME NEW x \in W
            PROVE  b \notin lost /\ new_block # b /\ T = {} /\ \A y \in W : x = y
        BY <2>1, <2>3, <2>4, <3>2, PlaceDomains DEF PlaceInvAt, OncePlaced, W, T
      <3>3. ASSUME NEW x \in T
            PROVE  b \notin lost /\ new_block # b /\ \A y \in T : x = y
        BY <2>1, <2>4, <3>3, PlaceDomains DEF PlaceInvAt, OncePlaced, T
      <3> QED
        BY <2>1, <3>1, <3>2, <3>3 DEF PlaceInvAt, OncePlaced
    <2>6. Places(b) =      {"new_block"} \X ({b} \cap {new_block})
                      \cup {"wire"}      \X W
                      \cup {"received"}  \X T
                      \cup {"lost"}      \X ({b} \cap lost)
      BY DEF Places, W, T
    <2>7. CASE ~(b <= read)
      <3>1. Places(b) = {}
        BY <2>1, <2>5, <2>6, <2>7 DEF PlaceInvAt
      <3> QED
        BY <2>7, <3>1, FS_EmptySet
    <2>8. CASE b <= read
      <3>1. \E x : Places(b) = {x}
        <4>1. CASE new_block = b
          <5>1. Places(b) = {<<"new_block", b>>}
            BY <2>5, <2>6, <4>1
          <5> QED
            BY <5>1
        <4>2. CASE W # {}
          <5>1. PICK x : W = {x}
            BY <2>5, <4>2
          <5>2. Places(b) = {<<"wire", x>>}
            BY <2>5, <2>6, <5>1
          <5> QED
            BY <5>2
        <4>3. CASE T # {}
          <5>1. PICK x : T = {x}
            BY <2>5, <4>3
          <5>2. Places(b) = {<<"received", x>>}
            BY <2>5, <2>6, <5>1
          <5> QED
            BY <5>2
        <4>4. CASE b \in lost
          <5>1. Places(b) = {<<"lost", b>>}
            BY <2>5, <2>6, <4>4
          <5> QED
            BY <5>1
        <4> QED
          BY <2>1, <2>5, <2>8, <4>1, <4>2, <4>3, <4>4 DEF PlaceInvAt
      <3> QED
        BY <2>8, <3>1, FS_Singleton
    <2> QED
      BY <2>7, <2>8
  <1> QED
    BY <1>1, TypeCorrect, PlaceInvCorrect, PTL

-----------------------------------------------------------------------------

\* InWire and TakenOn speak of positions only.
LEMMA SentDomains ==
  /\ \A b, c, i : InWire(b, c, i) => i \in 1 .. Len(wire[c])
  /\ \A b, c, i : TakenOn(b, c, i) => i \in DOMAIN received
  BY DEF InWire, TakenOn

\* A block that was sent is older than the one that the client has, and that one was not.
LEMMA SentIsOlder ==
  ASSUME TypeOK, LoopInv, PlaceInv, NEW b \in Blocks, NEW c \in Conns, Sent(b, c)
  PROVE  new_block # NoBlock => b < new_block
  <1>1. PlaceInvAt(b)
    BY DEF PlaceInv, PlaceInvAt
  <1>2. \A i : TakenOn(b, c, i) => IsTaken(b, i)
    BY DEF TakenOn, IsTaken
  <1>3. new_block # b /\ Somewhere(b)
    BY <1>1, <1>2, PlaceDomains DEF Sent, PlaceInvAt, OncePlaced, Somewhere
  <1> QED
    BY <1>1, <1>3 DEF PlaceInvAt, LoopInv, TypeOK, Blocks

\* Order is kept by a step that sends nothing whole and takes nothing.
LEMMA OrderFewer ==
  ASSUME OrderInv, UNCHANGED received, opened \in Nat, opened' \in Nat, opened <= opened',
         \A b \in Blocks : \A c \in Conns : \A i : InWire(b, c, i)' => InWire(b, c, i)
  PROVE  OrderInv'
  <1>1. \A b, c, i : TakenOn(b, c, i)' <=> TakenOn(b, c, i)
    BY DEF TakenOn
  <1>2. \A b, c, i : /\ InWire(b, c, i)' => i \in 1 .. Len(wire'[c])
                     /\ TakenOn(b, c, i)' => i \in DOMAIN received'
    BY DEF InWire, TakenOn
  <1>3. \A b \in Blocks : \A c \in Conns : Sent(b, c)' => Sent(b, c)
    BY <1>1, SentDomains DEF Sent
  <1>4. ASSUME NEW a \in Blocks, NEW b \in Blocks PROVE Ordered(a, b)'
    <2>1. Ordered(a, b)
      BY DEF OrderInv
    <2>2. ASSUME NEW c \in Conns, NEW d \in Conns, Sent(a, c)', Sent(b, d)', c < d PROVE a < b
      BY <1>3, <2>1, <2>2 DEF Ordered
    <2>3. ASSUME NEW c \in Conns, NEW j, InWire(b, c, j)'
          PROVE  /\ \A i : InWire(a, c, i)' /\ i < j => a < b
                 /\ \A i : TakenOn(a, c, i)' => a < b
      BY <1>1, <2>1, <2>3, SentDomains DEF Ordered
    <2>4. ASSUME NEW c \in Conns, NEW i, NEW j, TakenOn(a, c, i)', TakenOn(b, c, j)', i < j
          PROVE  a < b
      BY <1>1, <2>1, <2>4, SentDomains DEF Ordered
    <2> QED
      BY <2>2, <2>3, <2>4 DEF Ordered
  <1>5. \A b \in Blocks : \A c \in Conns : Sent(b, c)' => c <= opened'
    BY <1>3 DEF OrderInv, Conns
  <1> QED
    BY <1>4, <1>5 DEF OrderInv

\* What the client sends is later than all that was sent, and on the last connection.
LEMMA OrderSend ==
  ASSUME TypeOK, LoopInv, PlaceInv, OrderInv, SendPiece
  PROVE  OrderInv'
  <1> DEFINE n == Len(wire[socket_fd])
  <1>1. UNCHANGED <<received, opened>> /\ socket_fd = opened /\ opened \in Conns
    BY SendEffect DEF LoopInv, Conns, NoConn
  <1>2. CASE ~up[socket_fd]
    <2>1. wire' = wire
      BY <1>2, SendEffect
    <2> QED
      BY <1>1, <2>1, OrderFewer DEF InWire, Conns
  <1>3. CASE up[socket_fd]
    <2>1. n \in Nat
      BY <1>1 DEF TypeOK
    <2> DEFINE New(b, c, i) == new_block = b /\ c = opened /\ i = n + 1
    <2>2. \A b \in Blocks : \A c \in Conns : \A i :
            InWire(b, c, i)' => InWire(b, c, i) \/ New(b, c, i)
      BY <1>1, <1>3, SendMoves
    <2>3. \A b, c, i : TakenOn(b, c, i)' <=> TakenOn(b, c, i)
      BY <1>1 DEF TakenOn
    <2>4. \A b, c, i : /\ InWire(b, c, i)' => i \in 1 .. Len(wire'[c])
                       /\ TakenOn(b, c, i)' => i \in DOMAIN received'
      BY DEF InWire, TakenOn
    <2>5. \A b \in Blocks : \A c \in Conns : Sent(b, c) => b < new_block
      <3>1. new_block # NoBlock
        BY DEF SendPiece, LoopInv
      <3> QED
        BY <3>1, SentIsOlder
    <2>6. \A b \in Blocks : \A c \in Conns :
            Sent(b, c)' => Sent(b, c) \/ (new_block = b /\ c = opened)
      BY <2>2, <2>3, SentDomains DEF Sent
    <2>7. \A b \in Blocks : \A c \in Conns : Sent(b, c) => c <= opened
      BY DEF OrderInv
    <2>8. new_block \in Blocks => ~(new_block < new_block)
      BY DEF Blocks
    <2>9. \A b, c, i : InWire(b, c, i) \/ TakenOn(b, c, i) => Sent(b, c)
      BY SentDomains DEF Sent
    <2>10. ASSUME NEW a \in Blocks, NEW b \in Blocks PROVE Ordered(a, b)'
      <3>1. Ordered(a, b)
        BY DEF OrderInv
      <3>2. ASSUME NEW c \in Conns, NEW d \in Conns, Sent(a, c)', Sent(b, d)', c < d
            PROVE  a < b
        BY <1>1, <2>5, <2>6, <2>7, <3>1, <3>2 DEF Ordered, Conns
      <3>3. ASSUME NEW c \in Conns, NEW j, InWire(b, c, j)', NEW i, InWire(a, c, i)', i < j
            PROVE  a < b
        <4>1. CASE InWire(b, c, j) /\ InWire(a, c, i)
          BY <3>1, <3>3, <4>1, SentDomains DEF Ordered
        <4>2. CASE New(b, c, j) /\ InWire(a, c, i)
          BY <2>5, <2>9, <4>2
        <4>3. CASE New(a, c, i)
          <5>1. c = opened /\ i = n + 1
            BY <4>3
          <5>2. j = n + 1 \/ j \in 1 .. n
            BY <1>1, <2>2, <3>3, <5>1, SentDomains
          <5> QED
            BY <2>1, <3>3, <5>1, <5>2
        <4> QED
          BY <2>2, <3>3, <4>1, <4>2, <4>3
      <3>4. ASSUME NEW c \in Conns, NEW j, InWire(b, c, j)', NEW i, TakenOn(a, c, i)'
            PROVE  a < b
        <4>1. CASE InWire(b, c, j)
          BY <2>3, <3>1, <3>4, <4>1, SentDomains DEF Ordered
        <4>2. CASE New(b, c, j)
          BY <2>3, <2>5, <2>9, <3>4, <4>2
        <4> QED
          BY <2>2, <3>4, <4>1, <4>2
      <3>5. ASSUME NEW c \in Conns, NEW i, NEW j, TakenOn(a, c, i)', TakenOn(b, c, j)', i < j
            PROVE  a < b
        BY <2>3, <3>1, <3>5, SentDomains DEF Ordered
      <3> QED
        BY <3>2, <3>3, <3>4, <3>5 DEF Ordered
    <2>11. \A b \in Blocks : \A c \in Conns : Sent(b, c)' => c <= opened'
      BY <1>1, <2>6, <2>7 DEF Conns
    <2> QED
      BY <2>10, <2>11 DEF OrderInv
  <1> QED
    BY <1>2, <1>3

\* A task takes what is first in the buffers, after what it has taken.
LEMMA OrderDeliver ==
  ASSUME TypeOK, OrderInv, NEW x \in Conns, PartialInv(x), WireInv(x), Deliver(x)
  PROVE  OrderInv'
  <1> DEFINE n == Len(wire[x])
             m == Len(received)
  <1>1. /\ n \in Nat \ {0} /\ m \in Nat /\ DOMAIN received = 1 .. m
        /\ opened' = opened
    <2>1. n \in Nat \ {0} /\ opened' = opened
      BY DeliverEffect DEF PartialInv
    <2>2. m \in Nat /\ DOMAIN received = 1 .. m
      BY DEF TypeOK
    <2> QED
      BY <2>1, <2>2
  <1>2. \A b \in Blocks :
          /\ \A c \in Conns : \A i :
               InWire(b, c, i)' <=> IF c = x THEN i \in 1 .. n - 1 /\ InWire(b, x, i + 1)
                                    ELSE InWire(b, c, i)
          /\ \A c \in Conns : \A i :
               TakenOn(b, c, i)'
                 <=> TakenOn(b, c, i) \/ (c = x /\ i = m + 1 /\ InWire(b, x, 1))
    BY DeliverMoves
  <1>3. \A b, c, i : /\ InWire(b, c, i)' => i \in 1 .. Len(wire'[c])
                     /\ TakenOn(b, c, i)' => i \in DOMAIN received'
    BY DEF InWire, TakenOn
  <1>4. \A b \in Blocks : \A c \in Conns : Sent(b, c)' => Sent(b, c)
    BY <1>2, SentDomains DEF Sent
  <1> HIDE DEF n, m
  <1>5. ASSUME NEW a \in Blocks, NEW b \in Blocks PROVE Ordered(a, b)'
    <2>1. Ordered(a, b)
      BY DEF OrderInv
    <2>2. ASSUME NEW c \in Conns, NEW d \in Conns, Sent(a, c)', Sent(b, d)', c < d PROVE a < b
      BY <1>4, <2>1, <2>2 DEF Ordered
    <2>3. ASSUME NEW c \in Conns, NEW j, InWire(b, c, j)', NEW i, InWire(a, c, i)', i < j
          PROVE  a < b
      <3>1. CASE c = x
        <4>1. i \in 1 .. n - 1 /\ j \in 1 .. n - 1 /\ InWire(b, x, j + 1) /\ InWire(a, x, i + 1)
          BY <1>2, <2>3, <3>1
        <4>2. i + 1 < j + 1
          BY <1>1, <2>3, <4>1
        <4> QED
          BY <2>1, <4>1, <4>2, SentDomains DEF Ordered
      <3>2. CASE c # x
        BY <1>2, <2>1, <2>3, <3>2, SentDomains DEF Ordered
      <3> QED
        BY <3>1, <3>2
    <2>4. ASSUME NEW c \in Conns, NEW j, InWire(b, c, j)', NEW i, TakenOn(a, c, i)'
          PROVE  a < b
      <3>1. CASE c = x
        <4>1. j \in 1 .. n - 1 /\ InWire(b, x, j + 1) /\ 1 < j + 1
          BY <1>1, <1>2, <2>4, <3>1
        <4>2. CASE TakenOn(a, x, i)
          BY <2>1, <4>1, <4>2, SentDomains DEF Ordered
        <4>3. CASE InWire(a, x, 1)
          BY <2>1, <4>1, <4>3, SentDomains DEF Ordered
        <4> QED
          BY <1>2, <2>4, <3>1, <4>2, <4>3
      <3>2. CASE c # x
        BY <1>2, <2>1, <2>4, <3>2, SentDomains DEF Ordered
      <3> QED
        BY <3>1, <3>2
    <2>5. ASSUME NEW c \in Conns, NEW i, NEW j, TakenOn(a, c, i)', TakenOn(b, c, j)', i < j
          PROVE  a < b
      <3>1. CASE TakenOn(a, c, i) /\ TakenOn(b, c, j)
        BY <2>1, <2>5, <3>1, SentDomains DEF Ordered
      <3>2. CASE TakenOn(a, c, i) /\ c = x /\ InWire(b, x, 1)
        BY <2>1, <3>2, SentDomains DEF Ordered
      <3>3. CASE i = m + 1
        <4>1. j \in 1 .. m \/ j = m + 1
          BY <1>1, <1>2, <2>5, SentDomains
        <4> QED
          BY <1>1, <2>5, <3>3, <4>1
      <3> QED
        BY <1>2, <2>5, <3>1, <3>2, <3>3
    <2> QED
      BY <2>2, <2>3, <2>4, <2>5 DEF Ordered
  <1>6. \A b \in Blocks : \A c \in Conns : Sent(b, c)' => c <= opened'
    BY <1>1, <1>4 DEF OrderInv
  <1> QED
    BY <1>5, <1>6 DEF OrderInv

\* Each step keeps the order.
LEMMA OrderNext ==
  ASSUME TypeOK, TypeOK', LoopInv, StreamInv, PlaceInv, OrderInv, [Next]_vars
  PROVE  OrderInv'
  <1>0. opened \in Nat /\ opened' \in Nat
    BY DEF TypeOK
  <1>1. CASE SendPiece
    BY <1>1, OrderSend
  <1>2. ASSUME NEW d \in Conns, Deliver(d) PROVE OrderInv'
    BY <1>2, OrderDeliver DEF StreamInv
  <1>3. ASSUME NEW d \in Conns, Break(d) PROVE OrderInv'
    <2>1. UNCHANGED <<received, opened>>
      BY <1>3, BreakEffect DEF serverVars
    <2>2. \A b \in Blocks : \A c \in Conns : \A i : InWire(b, c, i)' => InWire(b, c, i)
      BY <1>3, BreakMoves
    <2> QED
      BY <1>0, <2>1, <2>2, OrderFewer
  <1>4. CASE ConnectToServer \/ SendFails \/ ReadNexBlock \/ StartAgain \/ UNCHANGED vars
             \/ \E d \in Conns : Forget(d)
    <2>1. UNCHANGED <<wire, received>>
      BY <1>4 DEF ConnectToServer, SendFails, ReadNexBlock, StartAgain, Forget, vars, netVars,
         serverVars
    <2>2. opened <= opened'
      BY <1>0, <1>4 DEF ConnectToServer, SendFails, ReadNexBlock, StartAgain, Forget, vars,
         netVars
    <2> QED
      BY <1>0, <2>1, <2>2, OrderFewer DEF InWire
  <1> QED
    BY <1>1, <1>2, <1>3, <1>4 DEF Next, MainLoop, SendToServer, Network

\* The inductive invariant about order, in the buffers as well as at the server.
THEOREM OrderInvCorrect == Spec => []OrderInv
  <1>1. Init => OrderInv
    BY DEF Init, OrderInv, Ordered, Sent, InWire, TakenOn
  <1>2. /\ TypeOK /\ TypeOK' /\ LoopInv /\ StreamInv /\ PlaceInv /\ OrderInv /\ [Next]_vars
        => OrderInv'
    BY OrderNext
  <1> QED
    BY <1>1, <1>2, TypeCorrect, LoopInvCorrect, StreamInvCorrect, PlaceInvCorrect, PTL DEF Spec

\* The server takes the blocks of one connection in the order in which they were read from
\* the log, and those of a later connection are later ones (main.cpp:98-158,
\* tcp_client.cpp:19-109).
THEOREM OrderedByConnectionCorrect == Spec => []OrderedByConnection
  <1>1. TypeOK /\ OrderInv => OrderedByConnection
    <2> SUFFICES ASSUME TypeOK, OrderInv, NEW i \in DOMAIN received, NEW j \in DOMAIN received,
                        \/ i < j /\ received[i].conn = received[j].conn
                        \/ received[i].conn < received[j].conn
                 PROVE  received[i].block < received[j].block
      BY DEF OrderedByConnection
    <2> DEFINE c == received[i].conn
               d == received[j].conn
               a == received[i].block
               b == received[j].block
    <2>1. received[i] \in [conn : Conns, block : Blocks]
          /\ received[j] \in [conn : Conns, block : Blocks]
      <3> DEFINE S == [conn : Conns, block : Blocks]
      <3>1. received \in Seq(S)
        BY DEF TypeOK
      <3> HIDE DEF S
      <3>2. received[i] \in S /\ received[j] \in S
        BY <3>1
      <3> QED
        BY <3>2 DEF S
    <2>2. a \in Blocks /\ b \in Blocks /\ c \in Conns /\ d \in Conns
      BY <2>1
    <2>3. TakenOn(a, c, i) /\ TakenOn(b, d, j)
      BY <2>1 DEF TakenOn
    <2>4. Ordered(a, b)
      BY <2>2 DEF OrderInv
    <2> HIDE DEF a, b, c, d
    <2>5. Sent(a, c) /\ Sent(b, d)
      BY <2>3 DEF Sent
    <2>6. a < b
      BY <2>2, <2>3, <2>4, <2>5 DEF Ordered, c, d
    <2> QED
      BY <2>6 DEF a, b
  <1> QED
    BY <1>1, TypeCorrect, OrderInvCorrect, PTL
=============================================================================
