----------------------------- MODULE LogClient -----------------------------
(***************************************************************************)
(* The client: the main loop (main.cpp:98-158) over TcpClient              *)
(* (tcp_client.cpp) and the blocks that ReadNexBlock gives it.             *)
(*                                                                         *)
(* Blocks are numbered in the order in which they are read.  A block goes  *)
(* out as a frame of FrameLen pieces: each send takes as much as the       *)
(* buffers of the connection have room for.  A connection delivers a       *)
(* prefix of what was sent, and a client notices that it broke only when a *)
(* later send fails.  A server puts each connection's pieces together      *)
(* (ProcessTask), independently of the others; it may also forget a        *)
(* connection and leave it open and unread (TcpServer, TakeTask).  The     *)
(* process may be killed and started again.                                *)
(***************************************************************************)
EXTENDS Integers, Sequences, FiniteSets, Functions

CONSTANTS
  MaxBlocks,   \* bound: blocks in the log file
  FrameLen,    \* pieces of a frame
  Window,      \* pieces that the socket buffers of a connection hold
  MaxConns,    \* bound: connections the client opens
  MaxFaults    \* bound: failures of calls, connections, and of the process

ASSUME ClientConstants ==
  /\ MaxBlocks \in Nat
  /\ FrameLen \in Nat \ {0}
  /\ Window \in Nat \ {0}
  /\ MaxFaults \in Nat
  /\ MaxConns \in Nat /\ MaxConns > MaxFaults

NoBlock == 0
NoConn  == 0
Conns   == 1 .. MaxConns
Blocks  == 1 .. MaxBlocks
Pieces  == [block : Blocks, piece : 1 .. FrameLen]

VARIABLES
  mpc,            \* where the main loop is
  new_block,      \* new_block, or NoBlock for NULL
  read,           \* blocks read so far
  send_len,       \* send_len of SendToServer, in pieces
  if_connected,   \* if_connected_
  socket_fd,      \* socket_fd_: the connection, or NoConn for -1
  opened,         \* connections opened so far
  up,             \* network: the connection works
  wire,           \* network: pieces in the buffers of a connection
  partial,        \* server: pieces of the frame that a connection's task is reading
  ignored,        \* server: connections that are open and never read again
  received,       \* server: the blocks it has taken, with their connection
  lost,           \* blocks lost with a connection that broke, or with the process
  faults

loopVars   == <<mpc, new_block, read, send_len>>
clientVars == <<if_connected, socket_fd>>
netVars    == <<opened, up, wire, lost>>
serverVars == <<partial, ignored, received>>
vars == <<loopVars, clientVars, netVars, serverVars, faults>>

Fail == faults < MaxFaults /\ faults' = faults + 1

-----------------------------------------------------------------------------
(* TcpClient.                                                              *)

\* Mutants of ResetClient: if_connected_ stays; the connection stays.
ResetSocketOnly == socket_fd' = NoConn /\ UNCHANGED if_connected
ResetNothing    == UNCHANGED <<socket_fd, if_connected>>

ResetClient == socket_fd' = NoConn /\ if_connected' = FALSE

Connected == mpc' = IF new_block # NoBlock THEN "send" ELSE "read"

\* ConnectToServer asks only if_connected_: it does not see that the connection
\* has broken.  A connect that fails, or takes too long, ends in ResetClient.
ConnectToServer ==
  /\ mpc = "connect"
  /\ \/ /\ if_connected
        /\ Connected
        /\ UNCHANGED <<clientVars, opened, up, faults>>
     \/ /\ ~if_connected
        /\ opened < MaxConns
        /\ opened' = opened + 1
        /\ socket_fd' = opened + 1
        /\ up' = [up EXCEPT ![opened + 1] = TRUE]
        /\ if_connected' = TRUE
        /\ Connected
        /\ UNCHANGED faults
     \/ /\ ~if_connected
        /\ Fail
        /\ ResetClient
        /\ UNCHANGED <<mpc, opened, up>>
  /\ UNCHANGED <<new_block, read, send_len, wire, lost, serverVars>>

Broken == socket_fd = NoConn \/ ~up[socket_fd]

\* A piece goes into the buffers, if there is room.  The kernel of a client whose
\* connection has just broken may still accept it.
Accept(p) ==
  IF up[socket_fd]
  THEN /\ Len(wire[socket_fd]) < Window
       /\ wire' = [wire EXCEPT ![socket_fd] = Append(@, p)]
       /\ UNCHANGED lost
  ELSE /\ lost' = IF p.piece = FrameLen THEN lost \cup {p.block} ELSE lost
       /\ UNCHANGED wire

\* Mutants of FrameSent: the block is freed when its first piece has left; the length
\* is compared before the piece is counted.
FirstPieceSent == TRUE
OnePieceMore == send_len = FrameLen

FrameSent == send_len + 1 = FrameLen

\* A send that takes something.  After the last piece SendToServer returns kOk and
\* the main loop frees the block.
SendPiece ==
  /\ mpc = "send"
  /\ socket_fd # NoConn
  /\ Accept([block |-> new_block, piece |-> send_len + 1])
  /\ IF FrameSent
     THEN send_len' = 0 /\ new_block' = NoBlock /\ mpc' = "read"
     ELSE send_len' = send_len + 1 /\ UNCHANGED <<new_block, mpc>>
  /\ UNCHANGED <<read, clientVars, opened, up, serverVars, faults>>

\* send has no time limit: with the buffers full, nothing goes on on a connection that
\* the server has forgotten.
SendBlocks ==
  /\ mpc = "send"
  /\ socket_fd \in ignored
  /\ Len(wire[socket_fd]) = Window

\* A send that fails: SendToServer gives up and the main loop resets the client.
\* The next call begins the frame again.
SendFails ==
  /\ mpc = "send"
  /\ IF Broken THEN UNCHANGED faults ELSE Fail
  /\ ResetClient
  /\ send_len' = 0
  /\ mpc' = "connect"
  /\ UNCHANGED <<new_block, read, netVars, serverVars>>

SendToServer == SendPiece \/ SendFails

HasMore == read < MaxBlocks

\* ReadNexBlock as the main loop sees it: a block, nothing new, or a failure.
ReadSome == read' = read + 1 /\ new_block' = read + 1
ReadNone == new_block' = NoBlock /\ UNCHANGED read

ReadNexBlock ==
  /\ mpc = "read"
  /\ mpc' = "connect"
  /\ \/ HasMore /\ ReadSome
     \/ ReadNone
  /\ UNCHANGED <<send_len, clientVars, netVars, serverVars, faults>>

\* The process is killed and started again: the block it had is gone, and the kernel
\* closes its connection, which still delivers what is in it.
StartAgain ==
  /\ Fail
  /\ mpc' = "connect"
  /\ new_block' = NoBlock
  /\ send_len' = 0
  /\ ResetClient
  /\ lost' = IF new_block = NoBlock THEN lost ELSE lost \cup {new_block}
  /\ UNCHANGED <<read, opened, up, wire, serverVars>>

-----------------------------------------------------------------------------
(* The network and the server.                                             *)

Completed(pieces) == {p.block : p \in {q \in Range(pieces) : q.piece = FrameLen}}

\* A connection breaks, or the server closes it; what it has not read is lost.
Break(c) ==
  /\ up[c]
  /\ Fail
  /\ up' = [up EXCEPT ![c] = FALSE]
  /\ \E n \in 0 .. Len(wire[c]) :
       /\ wire' = [wire EXCEPT ![c] = SubSeq(@, 1, n)]
       /\ lost' = lost \cup Completed(SubSeq(wire[c], n + 1, Len(wire[c])))
  /\ UNCHANGED <<loopVars, clientVars, opened, serverVars>>

\* The task of the connection reads a piece, and has a block when that completes a
\* frame.
Deliver(c) ==
  LET buf == Append(partial[c], Head(wire[c]))
  IN  /\ wire[c] # <<>>
      /\ c \notin ignored
      /\ wire' = [wire EXCEPT ![c] = Tail(@)]
      /\ IF Len(buf) < FrameLen
         THEN partial' = [partial EXCEPT ![c] = buf] /\ UNCHANGED received
         ELSE /\ partial' = [partial EXCEPT ![c] = <<>>]
              /\ received' = Append(received, [conn |-> c, block |-> buf[FrameLen].block])
      /\ UNCHANGED <<loopVars, clientVars, opened, up, lost, ignored, faults>>

\* The server pops the task of a connection and no worker takes it.
Forget(c) ==
  /\ up[c]
  /\ c \notin ignored
  /\ Fail
  /\ ignored' = ignored \cup {c}
  /\ UNCHANGED <<loopVars, clientVars, netVars, partial, received>>

-----------------------------------------------------------------------------

Init ==
  /\ mpc = "connect"
  /\ new_block = NoBlock
  /\ read = 0
  /\ send_len = 0
  /\ if_connected = FALSE
  /\ socket_fd = NoConn
  /\ opened = 0
  /\ up = [c \in Conns |-> FALSE]
  /\ wire = [c \in Conns |-> <<>>]
  /\ partial = [c \in Conns |-> <<>>]
  /\ ignored = {}
  /\ received = <<>>
  /\ lost = {}
  /\ faults = 0

MainLoop == ConnectToServer \/ SendToServer \/ ReadNexBlock
Network  == \E c \in Conns : Break(c) \/ Deliver(c) \/ Forget(c)

Next == MainLoop \/ StartAgain \/ Network \/ (SendBlocks /\ UNCHANGED vars)

Spec == Init /\ [][Next]_vars

-----------------------------------------------------------------------------
(* What the client keeps true.                                             *)

TypeOK ==
  /\ mpc \in {"connect", "send", "read"}
  /\ new_block \in Blocks \cup {NoBlock}
  /\ read \in 0 .. MaxBlocks
  /\ send_len \in 0 .. FrameLen - 1
  /\ if_connected \in BOOLEAN
  /\ socket_fd \in Conns \cup {NoConn}
  /\ opened \in 0 .. MaxConns
  /\ up \in [Conns -> BOOLEAN]
  /\ wire \in [Conns -> Seq(Pieces)]
  /\ partial \in [Conns -> Seq(Pieces)]
  /\ ignored \in SUBSET Conns
  /\ received \in Seq([conn : Conns, block : Blocks])
  /\ lost \in SUBSET Blocks
  /\ faults \in 0 .. MaxFaults

Complete(b) == [block |-> b, piece |-> FrameLen]

\* Where b is complete in a connection, and where the server has taken it.
WirePlaces(b)  ==
  UNION {{c} \X {i \in DOMAIN wire[c] : wire[c][i] = Complete(b)} : c \in Conns}
TakenPlaces(b) == {i \in DOMAIN received : received[i].block = b}

\* Where a block may be: with the client, complete in a connection, at the server,
\* or lost.
Places(b) ==      {"new_block"} \X ({b} \cap {new_block})
             \cup {"wire"}      \X WirePlaces(b)
             \cup {"received"}  \X TakenPlaces(b)
             \cup {"lost"}      \X ({b} \cap lost)

\* A block that was read is in exactly one of these places.  So a block that is
\* sent again, after part of it left on a connection that failed, does not reach
\* the server twice, and none is freed before the kernel has all of it.
ExactlyOnePlace ==
  \A b \in Blocks : Cardinality(Places(b)) = IF b <= read THEN 1 ELSE 0

\* After p the client sends q: the next piece of the same block, or the first of one.
Follows(p, q) ==
  /\ q.piece = IF p.piece < FrameLen THEN p.piece + 1 ELSE 1
  /\ q.piece > 1 => q.block = p.block

\* What a server gets on a connection is what ProcessTask takes it to be: frames one
\* after the other, each with all its pieces, and at the end part of one at most.
FramesWhole ==
  \A c \in Conns :
    LET s == partial[c] \o wire[c]
    IN  \A i \in DOMAIN s : IF i = 1 THEN s[i].piece = 1 ELSE Follows(s[i - 1], s[i])

\* The server takes the blocks of one connection in the order in which they were
\* read, and those of a later connection are later blocks; but it may take a block
\* of a later connection first.
OrderedByConnection ==
  \A i, j \in DOMAIN received :
    \/ i < j /\ received[i].conn = received[j].conn
    \/ received[i].conn < received[j].conn
    => received[i].block < received[j].block

\* When the log has stopped growing, a time comes from which every block that was read
\* is at the server or was lost with a connection or with the process.  Only a
\* connection that the server forgets can keep a block, and then the client as
\* well: send blocks when the buffers are full.
Settled(b) == b \in lost \/ \E i \in DOMAIN received : received[i].block = b

BlocksArrive == <>[](ignored # {} \/ \A b \in 1 .. read : Settled(b))
=============================================================================
