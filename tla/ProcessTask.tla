---------------------------- MODULE ProcessTask ----------------------------
(***************************************************************************)
(* How the task of one connection cuts the byte stream into messages       *)
(* (process_task.cpp).                                                     *)
(*                                                                         *)
(* A message is a header of HeaderLen bytes, a border number and the       *)
(* length of the body, followed by the body.  recv may stop after any      *)
(* byte: with EAGAIN, and another worker continues later with what         *)
(* len_buf_ and content_buf_ hold, or with the end of the stream.  A recv  *)
(* of several bytes leaves the task as the same number of recvs of one     *)
(* byte does, so a step receives one byte.                                 *)
(*                                                                         *)
(* A byte is known by the message it belongs to and its place in it.       *)
(* Whether WriteToFile could open the log file is a choice here; what it   *)
(* does to the files is not part of this module.                           *)
(***************************************************************************)
EXTENDS Integers, Sequences

CONSTANTS
  Messages,    \* bound: messages that the client sends on the connection
  HeaderLen,   \* the 8 bytes of border number and length
  BodyLen,     \* ByteSize of each message; its fields are never all absent
  MaxFaults    \* bound: fopen calls that fail

ASSUME TaskConstants ==
  /\ Messages \in Nat
  /\ HeaderLen \in Nat \ {0}
  /\ BodyLen \in [1 .. Messages -> Nat \ {0}]
  /\ MaxFaults \in Nat

VARIABLES
  pc,             \* in epoll or the queue, in ReadHeader, in ReadContent, deleted
  message,        \* the stream: message of the next byte
  offset,         \* the stream: place of the next byte in its message
  len_buf,        \* len_buf_, the first len_buf_len_ bytes of it
  has_content,    \* content_buf_ is not NULL
  content_buf,    \* the first current_content_len_ bytes of content_buf_
  content_len,    \* content_len_
  written,        \* the messages WriteToFile has appended to the log
  misread,        \* history: bytes were taken for a header or a message and are none
  faults          \* fopen failures so far

streamVars == <<message, offset>>
bufVars    == <<len_buf, has_content, content_buf, content_len>>
vars == <<pc, streamVars, bufVars, written, misread, faults>>

-----------------------------------------------------------------------------
(* The stream.                                                             *)

Piece(m, from, n) == [i \in 1 .. n |-> <<m, from + i - 1>>]
Header(m) == Piece(m, 0, HeaderLen)
Body(m)   == Piece(m, HeaderLen, BodyLen[m])

\* recv takes the next byte.
NextByte == <<message, offset>>

Recv ==
  /\ message <= Messages
  /\ IF offset + 1 < HeaderLen + BodyLen[message]
     THEN message' = message /\ offset' = offset + 1
     ELSE message' = message + 1 /\ offset' = 0

-----------------------------------------------------------------------------

\* Mutants of DeleteContentBuf: content_len_ is left at -1; len_buf_len_ is not
\* reset.
DeleteContentBufUnset ==
  /\ has_content' = FALSE
  /\ content_buf' = <<>>
  /\ content_len' = -1
  /\ len_buf' = <<>>

DeleteContentBufOnly ==
  /\ has_content' = FALSE
  /\ content_buf' = <<>>
  /\ content_len' = 0
  /\ UNCHANGED len_buf

DeleteContentBuf ==
  /\ has_content' = FALSE
  /\ content_buf' = <<>>
  /\ content_len' = 0
  /\ len_buf' = <<>>

\* Mutant of WriteToFile: a message is written again after fflush.
WriteTwice(buf) ==
  /\ \E m \in 1 .. Messages :
       buf = Body(m) /\ written' = written \o <<m, m>>
  /\ UNCHANGED <<misread, faults>>

\* ParseFromArray, fopen and fwrite; the two failures return without a word.
WriteToFile(buf) ==
  \/ \E m \in 1 .. Messages :
       /\ buf = Body(m)
       /\ \/ written' = Append(written, m) /\ UNCHANGED faults
          \/ /\ faults < MaxFaults
             /\ faults' = faults + 1
             /\ UNCHANGED written
       /\ UNCHANGED misread
  \/ /\ \A m \in 1 .. Messages : buf # Body(m)
     /\ misread' = TRUE
     /\ UNCHANGED <<written, faults>>

\* The loop of ProcessReadTask: a header first, unless there is one already.
ReadFrom(header) == pc' = IF Len(header) < HeaderLen THEN "header" ELSE "content"

\* A worker calls ProcessReadTask.
StartReading ==
  /\ pc = "idle"
  /\ ReadFrom(len_buf)
  /\ UNCHANGED <<streamVars, bufVars, written, misread, faults>>

\* A complete header starts a body; one without the border number ends the task.
ReadHeader ==
  LET buf == Append(len_buf, NextByte)
  IN  /\ pc = "header"
      /\ Recv
      /\ \/ /\ Len(buf) < HeaderLen
            /\ len_buf' = buf
            /\ UNCHANGED <<pc, has_content, content_buf, content_len, misread>>
         \/ \E m \in 1 .. Messages :
              /\ buf = Header(m)
              /\ len_buf' = buf
              /\ has_content' = TRUE
              /\ content_buf' = <<>>
              /\ content_len' = BodyLen[m]
              /\ pc' = "content"
              /\ UNCHANGED misread
         \/ /\ Len(buf) >= HeaderLen
            /\ \A m \in 1 .. Messages : buf # Header(m)
            /\ len_buf' = <<>>
            /\ misread' = TRUE
            /\ pc' = "deleted"
            /\ UNCHANGED <<has_content, content_buf, content_len>>
      /\ UNCHANGED <<written, faults>>

\* The body is complete when content_len_ bytes have been received.
ReadContent ==
  LET buf == Append(content_buf, NextByte)
  IN  /\ pc = "content"
      /\ Len(content_buf) < content_len
      /\ Recv
      /\ \/ /\ Len(buf) < content_len
            /\ content_buf' = buf
            /\ UNCHANGED <<pc, len_buf, has_content, content_len, written,
                           misread, faults>>
         \/ /\ Len(buf) = content_len
            /\ WriteToFile(buf)
            /\ DeleteContentBuf
            /\ ReadFrom(len_buf')

\* Mutant of Eagain: the bytes of an unfinished header are not kept.
EagainForgets ==
  /\ pc \in {"header", "content"}
  /\ pc' = "idle"
  /\ len_buf' = IF has_content THEN len_buf ELSE <<>>
  /\ UNCHANGED <<streamVars, has_content, content_buf, content_len, written,
                 misread, faults>>

\* recv has nothing: the task goes back to its epoll instance.
Eagain ==
  /\ pc \in {"header", "content"}
  /\ pc' = "idle"
  /\ UNCHANGED <<streamVars, bufVars, written, misread, faults>>

\* The peer has left, recv has failed, or the server gives the connection up.
Delete ==
  /\ pc # "deleted"
  /\ pc' = "deleted"
  /\ UNCHANGED <<streamVars, bufVars, written, misread, faults>>

Deleted == pc = "deleted" /\ UNCHANGED vars

-----------------------------------------------------------------------------

Init ==
  /\ pc = "idle"
  /\ message = 1
  /\ offset = 0
  /\ len_buf = <<>>
  /\ has_content = FALSE
  /\ content_buf = <<>>
  /\ content_len = 0
  /\ written = <<>>
  /\ misread = FALSE
  /\ faults = 0

Next ==
  StartReading \/ ReadHeader \/ ReadContent \/ Eagain \/ Delete \/ Deleted

Spec == Init /\ [][Next]_vars

-----------------------------------------------------------------------------
(* What a task keeps true.                                                 *)

Bytes == Nat \X Nat

TypeOK ==
  /\ pc \in {"idle", "header", "content", "deleted"}
  /\ message \in 1 .. Messages + 1
  /\ offset \in Nat
  /\ len_buf \in Seq(Bytes)
  /\ has_content \in BOOLEAN
  /\ content_buf \in Seq(Bytes)
  /\ content_len \in Nat
  /\ written \in Seq(1 .. Messages)
  /\ misread \in BOOLEAN
  /\ faults \in 0 .. MaxFaults

\* However the stream is cut, the buffers hold exactly what has been received of
\* the current message: part of its header, or its header and part of its body.
\* This is what lets another worker continue after EAGAIN.
Framed ==
  /\ message > Messages => offset = 0
  /\ has_content =>
       /\ message <= Messages
       /\ offset \in HeaderLen .. HeaderLen + BodyLen[message] - 1
       /\ len_buf = Header(message)
       /\ content_len = BodyLen[message]
       /\ content_buf = Piece(message, HeaderLen, offset - HeaderLen)
  /\ ~has_content =>
       /\ offset < HeaderLen
       /\ len_buf = Piece(message, 0, offset)
  /\ pc = "header" => ~has_content
  /\ pc = "content" => has_content

\* The bytes of a correct client are never refused: no border check and no
\* ParseFromArray fails.
NeverMisread == ~misread

\* Every message that was read is in the log, or its fopen failed; the log has
\* them in the order of the stream and none twice.
Accounted ==
  /\ Len(written) + faults = message - 1
  /\ \A i, j \in DOMAIN written : i < j => written[i] < written[j]
  /\ \A i \in DOMAIN written : written[i] < message

\* The task implements the promise of LogStream.
Stream == INSTANCE LogStream
  WITH next <- message, stored <- written, open <- pc # "deleted"

LogStreamSpec == Stream!Spec
=============================================================================
