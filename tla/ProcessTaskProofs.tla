------------------------- MODULE ProcessTaskProofs -------------------------
(***************************************************************************)
(* Proofs about the framing of one connection, for any number of messages, *)
(* any lengths and any header length.                                      *)
(***************************************************************************)
EXTENDS ProcessTask, TLAPS

Inv == TypeOK /\ Framed /\ NeverMisread

\* A piece of a message is a sequence of bytes, and the next byte extends it.
LEMMA PieceType ==
  ASSUME NEW m \in Nat, NEW from \in Nat, NEW n \in Nat
  PROVE  Piece(m, from, n) \in Seq(Bytes) /\ Len(Piece(m, from, n)) = n
  BY DEF Piece, Bytes

\* The next byte extends the piece.
LEMMA PieceAppend ==
  ASSUME NEW m \in Nat, NEW from \in Nat, NEW n \in Nat
  PROVE  Append(Piece(m, from, n), <<m, from + n>>) = Piece(m, from, n + 1)
  <1> DEFINE s == Piece(m, from, n)
  <1> DEFINE e == <<m, from + n>>
  <1>1. s \in Seq(Bytes) /\ Len(s) = n
    BY PieceType
  <1>2. Append(s, e) = [i \in 1 .. n + 1 |-> IF i = n + 1 THEN e ELSE s[i]]
    BY <1>1
  <1>3. [i \in 1 .. n + 1 |-> IF i = n + 1 THEN e ELSE s[i]] = Piece(m, from, n + 1)
    BY DEF Piece
  <1> QED
    BY <1>2, <1>3

\* The bytes of a message tell which message it is.
LEMMA PieceOwner ==
  ASSUME NEW m, NEW k, NEW from \in Nat, NEW n \in Nat \ {0}, NEW l \in Nat \ {0},
         Piece(m, from, n) = Piece(k, from, l)
  PROVE  m = k
  <1>1. Piece(m, from, n)[1] = <<m, from>> /\ Piece(k, from, l)[1] = <<k, from>>
    BY DEF Piece
  <1> QED
    BY <1>1

\* The empty sequence.
LEMMA EmptyType == /\ <<>> \in Seq(Bytes)
                   /\ <<>> \in Seq(1 .. Messages)
                   /\ Len(<<>>) = 0
                   /\ \A m, from : Piece(m, from, 0) = <<>>
  BY DEF Piece

\* The elements of a sequence have its type.
LEMMA ElementType ==
  ASSUME NEW S, NEW s \in Seq(S), NEW i \in 1 .. Len(s)
  PROVE  s[i] \in S
  OBVIOUS

\* The buffers are right in the beginning.
LEMMA InvInit == Init => Inv
  <1> SUFFICES ASSUME Init PROVE Inv
    OBVIOUS
  <1>1. TypeOK
    <2>1. message \in 1 .. Messages + 1 /\ faults \in 0 .. MaxFaults
      BY TaskConstants DEF Init
    <2>2. len_buf \in Seq(Bytes) /\ content_buf \in Seq(Bytes)
      BY EmptyType DEF Init
    <2>3. written \in Seq(1 .. Messages)
      BY EmptyType DEF Init
    <2> QED
      BY <2>1, <2>2, <2>3 DEF Init, TypeOK
  <1>2. len_buf = Piece(message, 0, offset)
    BY EmptyType DEF Init
  <1>3. Framed
    BY <1>2, TaskConstants DEF Init, Framed
  <1> QED
    BY <1>1, <1>3 DEF Init, Inv, NeverMisread

\* A byte of a header moves the stream on within the message.
LEMMA HeaderStep ==
  ASSUME Inv, ReadHeader
  PROVE  /\ Inv'
         /\ UNCHANGED <<message, written, faults>>
         /\ pc' # "deleted"
  <1> DEFINE buf == Append(len_buf, NextByte)
  <1>1. /\ pc = "header" /\ ~has_content
        /\ message \in 1 .. Messages /\ offset \in 0 .. HeaderLen - 1
        /\ BodyLen[message] \in Nat \ {0}
        /\ message' = message /\ offset' = offset + 1
    <2>1. /\ pc = "header" /\ message <= Messages
          /\ IF offset + 1 < HeaderLen + BodyLen[message]
             THEN message' = message /\ offset' = offset + 1
             ELSE message' = message + 1 /\ offset' = 0
      BY DEF ReadHeader, Recv
    <2>2. ~has_content /\ message \in 1 .. Messages /\ offset \in 0 .. HeaderLen - 1
      BY <2>1, TaskConstants DEF Inv, TypeOK, Framed
    <2>3. BodyLen[message] \in Nat \ {0}
      BY <2>2, TaskConstants
    <2> QED
      BY <2>1, <2>2, <2>3, TaskConstants
  <1>2. buf = Piece(message, 0, offset + 1)
    <2>1. len_buf = Piece(message, 0, offset)
      BY <1>1 DEF Inv, Framed
    <2>2. NextByte = <<message, 0 + offset>>
      BY <1>1 DEF NextByte
    <2>3. message \in Nat /\ offset \in Nat
      BY <1>1, TaskConstants
    <2>4. Append(Piece(message, 0, offset), <<message, 0 + offset>>)
            = Piece(message, 0, offset + 1)
      BY <2>3, PieceAppend
    <2> QED
      BY <2>1, <2>2, <2>4
  <1>3. Len(buf) = offset + 1 /\ buf \in Seq(Bytes)
    BY <1>1, <1>2, PieceType
  <1>4. CASE Len(buf) < HeaderLen
    <2>1. /\ len_buf' = buf
          /\ UNCHANGED <<pc, has_content, content_buf, content_len, misread,
                         written, faults>>
      <3>1. \A m \in 1 .. Messages : buf # Header(m)
        <4>1. ASSUME NEW m \in 1 .. Messages PROVE Len(Header(m)) = HeaderLen
          BY PieceType, TaskConstants DEF Header
        <4> QED
          BY <1>4, <4>1, TaskConstants
      <3>2. ~(Len(buf) >= HeaderLen)
        BY <1>1, <1>3, <1>4, TaskConstants
      <3> QED
        BY <1>4, <3>1, <3>2 DEF ReadHeader
    <2>2. TypeOK'
      BY <1>1, <1>3, <2>1 DEF Inv, TypeOK
    <2>3. Framed'
      BY <1>1, <1>2, <1>3, <1>4, <2>1, TaskConstants DEF Framed
    <2> QED
      BY <1>1, <2>1, <2>2, <2>3 DEF Inv, NeverMisread
  <1>5. CASE Len(buf) >= HeaderLen
    <2>1. offset + 1 = HeaderLen
      BY <1>1, <1>3, <1>5, TaskConstants
    <2>2. buf = Header(message)
      BY <1>2, <2>1 DEF Header
    <2>3. /\ len_buf' = buf /\ has_content' = TRUE /\ content_buf' = <<>>
          /\ content_len' = BodyLen[message] /\ pc' = "content"
          /\ UNCHANGED <<misread, written, faults>>
      <3>1. \A m \in 1 .. Messages : buf = Header(m) => m = message
        BY <2>2, PieceOwner, TaskConstants DEF Header
      <3>2. ~(Len(buf) < HeaderLen)
        BY <1>1, <1>3, <1>5, TaskConstants
      <3> QED
        BY <1>1, <2>2, <3>1, <3>2 DEF ReadHeader
    <2>4. TypeOK'
      BY <1>1, <1>3, <2>3 DEF Inv, TypeOK
    <2>5. Framed'
      <3>1. /\ message' \in 1 .. Messages
            /\ offset' \in HeaderLen .. HeaderLen + BodyLen[message'] - 1
        BY <1>1, <2>1, TaskConstants
      <3>2. /\ len_buf' = Header(message')
            /\ content_len' = BodyLen[message']
        BY <1>1, <2>2, <2>3
      <3>3. content_buf' = Piece(message', HeaderLen, offset' - HeaderLen)
        <4>1. offset' - HeaderLen = 0
          BY <1>1, <2>1, TaskConstants
        <4> QED
          BY <2>3, <4>1, EmptyType
      <3> QED
        BY <2>3, <3>1, <3>2, <3>3, TaskConstants DEF Framed
    <2> QED
      BY <1>1, <2>3, <2>4, <2>5 DEF Inv, NeverMisread
  <1> QED
    BY <1>3, <1>4, <1>5, TaskConstants

\* What a byte of a body does; the last one ends the message.
LEMMA ContentStep ==
  ASSUME Inv, ReadContent
  PROVE  /\ Inv'
         /\ \/ UNCHANGED <<message, written, faults>>
            \/ /\ message \in 1 .. Messages
               /\ message' = message + 1
               /\ \/ written' = Append(written, message) /\ UNCHANGED faults
                  \/ UNCHANGED written /\ faults' = faults + 1
  <1> DEFINE buf == Append(content_buf, NextByte)
  <1>1. /\ pc = "content" /\ has_content
        /\ message \in 1 .. Messages
        /\ BodyLen[message] \in Nat \ {0}
        /\ offset \in HeaderLen .. HeaderLen + BodyLen[message] - 1
        /\ content_len = BodyLen[message]
        /\ len_buf = Header(message)
    BY TaskConstants DEF ReadContent, Inv, TypeOK, Framed
  <1> DEFINE n == offset - HeaderLen
  <1>2. buf = Piece(message, HeaderLen, n + 1)
    <2>1. content_buf = Piece(message, HeaderLen, n)
      BY <1>1 DEF Inv, Framed
    <2>2. NextByte = <<message, HeaderLen + n>> /\ n \in Nat
      BY <1>1, TaskConstants DEF NextByte
    <2>3. message \in Nat
      BY <1>1, TaskConstants
    <2>4. Append(Piece(message, HeaderLen, n), <<message, HeaderLen + n>>)
            = Piece(message, HeaderLen, n + 1)
      BY <2>2, <2>3, PieceAppend, TaskConstants
    <2> QED
      BY <2>1, <2>2, <2>4
  <1>3. Len(buf) = n + 1 /\ buf \in Seq(Bytes)
    <2>1. message \in Nat /\ n + 1 \in Nat
      BY <1>1, TaskConstants
    <2> QED
      BY <1>2, <2>1, PieceType, TaskConstants
  <1>4. CASE Len(buf) < content_len
    <2>1. /\ content_buf' = buf
          /\ UNCHANGED <<pc, len_buf, has_content, content_len, written, misread,
                         faults>>
      <3>1. ~(Len(buf) = content_len)
        BY <1>1, <1>3, <1>4, TaskConstants
      <3> QED
        BY <1>4, <3>1 DEF ReadContent
    <2>2. message' = message /\ offset' = offset + 1
      BY <1>1, <1>3, <1>4, TaskConstants DEF ReadContent, Recv
    <2>3. TypeOK'
      BY <1>1, <1>3, <2>1, <2>2, TaskConstants DEF Inv, TypeOK
    <2>4. Framed'
      BY <1>1, <1>2, <1>3, <1>4, <2>1, <2>2, TaskConstants DEF Framed, Header
    <2> QED
      BY <2>1, <2>2, <2>3, <2>4 DEF Inv, NeverMisread
  <1>5. CASE Len(buf) = content_len
    <2>1. n + 1 = BodyLen[message]
      BY <1>1, <1>3, <1>5
    <2>2. buf = Body(message)
      BY <1>2, <2>1 DEF Body
    <2>3. \A m \in 1 .. Messages : buf = Body(m) => m = message
      BY <1>1, <2>2, PieceOwner, TaskConstants DEF Body
    <2>4. /\ UNCHANGED misread
          /\ \/ written' = Append(written, message) /\ UNCHANGED faults
             \/ UNCHANGED written /\ faults < MaxFaults /\ faults' = faults + 1
      <3>1. WriteToFile(buf)
        <4>1. ~(Len(buf) < content_len)
          BY <1>1, <1>3, <1>5, TaskConstants
        <4> QED
          BY <4>1 DEF ReadContent
      <3> QED
        BY <1>1, <2>2, <2>3, <3>1 DEF WriteToFile
    <2>5. message' = message + 1 /\ offset' = 0
      BY <1>1, <2>1, TaskConstants DEF ReadContent, Recv
    <2>6. /\ has_content' = FALSE /\ content_buf' = <<>> /\ content_len' = 0
          /\ len_buf' = <<>>
      BY <1>5 DEF ReadContent, DeleteContentBuf
    <2>7. pc' = "header"
      BY <1>5, <2>6, TaskConstants DEF ReadContent, ReadFrom
    <2>8. TypeOK'
      <3>1. written' \in Seq(1 .. Messages)
        <4>1. written \in Seq(1 .. Messages)
          BY DEF Inv, TypeOK
        <4>2. Append(written, message) \in Seq(1 .. Messages)
          BY <1>1, <4>1
        <4> QED
          BY <2>4, <4>1, <4>2
      <3>2. faults' \in 0 .. MaxFaults
        BY <2>4, TaskConstants DEF Inv, TypeOK
      <3> QED
        <4>1. message' \in 1 .. Messages + 1
          BY <1>1, <2>5, TaskConstants
        <4>2. len_buf' \in Seq(Bytes) /\ content_buf' \in Seq(Bytes)
          BY <2>6, EmptyType
        <4>3. misread' \in BOOLEAN
          BY <2>4 DEF Inv, TypeOK
        <4> QED
          BY <2>5, <2>6, <2>7, <3>1, <3>2, <4>1, <4>2, <4>3 DEF TypeOK
    <2>9. Framed'
      BY <2>5, <2>6, <2>7, EmptyType, TaskConstants DEF Framed
    <2> QED
      BY <1>1, <2>4, <2>5, <2>8, <2>9 DEF Inv, NeverMisread
  <1> QED
    BY <1>1, <1>3, <1>4, <1>5, TaskConstants DEF ReadContent

\* The invariant is inductive.
LEMMA InvNext == Inv /\ [Next]_vars => Inv'
  <1> SUFFICES ASSUME Inv, [Next]_vars PROVE Inv'
    OBVIOUS
  <1>1. CASE StartReading
    <2>1. pc' = IF has_content THEN "content" ELSE "header"
      <3>1. CASE has_content
        <4>1. message \in Nat /\ len_buf = Piece(message, 0, HeaderLen)
          BY <3>1, TaskConstants DEF Inv, TypeOK, Framed, Header
        <4>2. Len(len_buf) = HeaderLen
          BY <4>1, PieceType, TaskConstants
        <4> QED
          BY <1>1, <3>1, <4>2, TaskConstants DEF StartReading, ReadFrom
      <3>2. CASE ~has_content
        <4>1. /\ message \in Nat /\ offset \in Nat /\ offset < HeaderLen
              /\ len_buf = Piece(message, 0, offset)
          BY <3>2, TaskConstants DEF Inv, TypeOK, Framed
        <4>2. Len(len_buf) = offset
          BY <4>1, PieceType
        <4> QED
          BY <1>1, <3>2, <4>1, <4>2 DEF StartReading, ReadFrom
      <3> QED
        BY <3>1, <3>2
    <2>2. UNCHANGED <<streamVars, bufVars, written, misread, faults>>
      BY <1>1 DEF StartReading
    <2> QED
      BY <2>1, <2>2 DEF Inv, TypeOK, Framed, NeverMisread, streamVars, bufVars
  <1>2. CASE Eagain
    BY <1>2 DEF Eagain, Inv, TypeOK, Framed, NeverMisread, streamVars, bufVars
  <1>3. CASE Delete
    BY <1>3 DEF Delete, Inv, TypeOK, Framed, NeverMisread, streamVars, bufVars
  <1>4. CASE UNCHANGED vars
    BY <1>4 DEF vars, Inv, TypeOK, Framed, NeverMisread, streamVars, bufVars
  <1> QED
    BY <1>1, <1>2, <1>3, <1>4, HeaderStep, ContentStep DEF Next, Deleted

\* Every variable of a task keeps its type.
THEOREM TypeCorrect == Spec => []TypeOK
  <1>1. Inv => TypeOK
    BY DEF Inv
  <1> QED
    BY <1>1, InvInit, InvNext, PTL DEF Spec

\* However recv cuts the stream, the buffers hold the part of the current message
\* that has been received (process_task.cpp:322-390).
THEOREM FramedCorrect == Spec => []Framed
  <1>1. Inv => Framed
    BY DEF Inv
  <1> QED
    BY <1>1, InvInit, InvNext, PTL DEF Spec

\* A correct client is never refused for its border number or its body
\* (process_task.cpp:341-353, 208-213).
THEOREM NeverMisreadCorrect == Spec => []NeverMisread
  <1>1. Inv => NeverMisread
    BY DEF Inv
  <1> QED
    BY <1>1, InvInit, InvNext, PTL DEF Spec

\* The bookkeeping of Accounted is kept by the last byte of a message.
LEMMA AccountedNext == Inv /\ Accounted /\ [Next]_vars => Accounted'
  <1> SUFFICES ASSUME Inv, Accounted, [Next]_vars PROVE Accounted'
    OBVIOUS
  <1>1. CASE UNCHANGED <<message, written, faults>>
    BY <1>1 DEF Accounted
  <1>2. CASE ReadContent /\ ~UNCHANGED <<message, written, faults>>
    <2>1. /\ message \in 1 .. Messages /\ message' = message + 1
          /\ \/ written' = Append(written, message) /\ UNCHANGED faults
             \/ UNCHANGED written /\ faults' = faults + 1
      BY <1>2, ContentStep
    <2>2. /\ written \in Seq(1 .. Messages) /\ faults \in 0 .. MaxFaults
          /\ Len(written) \in Nat
      BY DEF Inv, TypeOK
    <2>3. CASE written' = Append(written, message) /\ UNCHANGED faults
      <3>1. /\ Len(written') = Len(written) + 1
            /\ DOMAIN written' = 1 .. Len(written) + 1
            /\ \A i \in 1 .. Len(written) : written'[i] = written[i]
            /\ written'[Len(written) + 1] = message
            /\ DOMAIN written = 1 .. Len(written)
        BY <2>1, <2>2, <2>3
      <3>2. Len(written') + faults' = message' - 1
        BY <2>1, <2>2, <2>3, <3>1, TaskConstants DEF Accounted
      <3>3. \A i \in DOMAIN written' : written'[i] < message'
        <4>1. ASSUME NEW i \in 1 .. Len(written) + 1 PROVE written'[i] < message'
          <5>1. CASE i \in 1 .. Len(written)
            <6>1. written[i] \in 1 .. Messages /\ written[i] < message
              <7>1. written[i] \in 1 .. Messages
                BY <2>2, <5>1, ElementType
              <7>2. written[i] < message
                <8>1. i \in DOMAIN written
                  BY <3>1, <5>1
                <8> QED
                  BY <8>1 DEF Accounted
              <7> QED
                BY <7>1, <7>2
            <6> QED
              BY <2>1, <3>1, <5>1, <6>1, TaskConstants
          <5>2. CASE i = Len(written) + 1
            BY <2>1, <3>1, <5>2, TaskConstants
          <5> QED
            BY <2>2, <5>1, <5>2
        <4> QED
          BY <3>1, <4>1
      <3>4. \A i, j \in DOMAIN written' : i < j => written'[i] < written'[j]
        <4>1. ASSUME NEW i \in 1 .. Len(written) + 1, NEW j \in 1 .. Len(written) + 1, i < j
              PROVE  written'[i] < written'[j]
          <5>1. i \in 1 .. Len(written) /\ written'[i] = written[i]
            BY <2>2, <3>1, <4>1
          <5>2. CASE j = Len(written) + 1
            BY <3>1, <5>1, <5>2 DEF Accounted
          <5>3. CASE j \in 1 .. Len(written)
            BY <3>1, <4>1, <5>1, <5>3 DEF Accounted
          <5> QED
            BY <2>2, <5>2, <5>3
        <4> QED
          BY <3>1, <4>1
      <3> QED
        BY <3>2, <3>3, <3>4 DEF Accounted
    <2>4. CASE UNCHANGED written /\ faults' = faults + 1
      <3>1. Len(written') + faults' = message' - 1
        BY <2>1, <2>2, <2>4, TaskConstants DEF Accounted
      <3>2. \A i \in DOMAIN written' : written'[i] < message'
        <4>1. ASSUME NEW i \in DOMAIN written PROVE written[i] < message + 1
          <5>1. i \in 1 .. Len(written)
            BY <2>2
          <5>2. written[i] \in 1 .. Messages
            BY <2>2, <5>1, ElementType
          <5>3. written[i] < message
            BY DEF Accounted
          <5> QED
            BY <2>1, <5>2, <5>3, TaskConstants
        <4> QED
          BY <2>1, <2>4, <4>1
      <3>3. \A i, j \in DOMAIN written' : i < j => written'[i] < written'[j]
        BY <2>4 DEF Accounted
      <3> QED
        BY <3>1, <3>2, <3>3 DEF Accounted
    <2> QED
      BY <2>1, <2>3, <2>4
  <1>3. CASE ReadHeader
    BY <1>1, <1>3, HeaderStep
  <1> QED
    BY <1>1, <1>2, <1>3 DEF Next, StartReading, Eagain, Delete, Deleted, vars,
       streamVars

\* The log of a connection is the stream without the messages whose fopen failed,
\* in order and without repetition (process_task.cpp:206-224, 369-390).
THEOREM AccountedCorrect == Spec => []Accounted
  <1>1. Init => Accounted
    BY EmptyType DEF Init, Accounted
  <1> QED
    BY <1>1, AccountedNext, InvInit, InvNext, PTL DEF Spec

\* The task implements the promise of LogStream: every step is a Take, a Close or
\* a stutter of the abstract specification.
THEOREM Implements == Spec => LogStreamSpec
  <1>1. Init => Stream!Init
    BY DEF Init, Stream!Init
  <1>2. Inv /\ [Next]_vars => [Stream!Next]_<<message, written, pc # "deleted">>
    <2> SUFFICES ASSUME Inv, [Next]_vars
                 PROVE  Stream!Next \/ UNCHANGED <<message, written, pc # "deleted">>
      OBVIOUS
    <2>1. CASE ReadContent
      <3>1. pc # "deleted" /\ pc' # "deleted"
        BY <2>1 DEF ReadContent, ReadFrom
      <3> QED
        BY <2>1, <3>1, ContentStep, TaskConstants DEF Stream!Next, Stream!Take
    <2>2. CASE ReadHeader
      BY <2>2, HeaderStep DEF ReadHeader
    <2>3. CASE Delete
      BY <2>3 DEF Delete, streamVars, Stream!Next, Stream!Close
    <2> QED
      BY <2>1, <2>2, <2>3 DEF Next, StartReading, Eagain, Deleted, vars, streamVars,
         ReadFrom
  <1> QED
    BY <1>1, <1>2, InvInit, InvNext, PTL DEF Spec, LogStreamSpec, Stream!Spec
=============================================================================
