------------------------------ MODULE LogInfo ------------------------------
(***************************************************************************)
(* A block on its way from the client's memory to the server's file:       *)
(* SendToServer puts it into a power.loginfo, the generated code turns     *)
(* that into bytes and back, and WriteToFile appends it.                   *)
(*                                                                         *)
(* A byte is a number.  new char[len] leaves the block without a           *)
(* terminator, so what lies behind it in memory matters.  The wire format  *)
(* is that of protobuf: a field is a tag and a number or a text, a text is *)
(* preceded by its length, numbers are written in digits to the base Base, *)
(* the lowest first, each but the last with a mark.                        *)
(***************************************************************************)
EXTENDS Integers, Sequences, FiniteSetsExt

CONSTANTS
  Names,      \* log names: sequences of bytes other than Nul
  BlockLens,  \* lengths of blocks
  MaxBeyond,  \* bound: bytes behind a block, before the next Nul
  Base        \* the base of a varint's digits (128)

ASSUME LogInfoConstants ==
  /\ Names \subseteq Seq(Nat \ {0})
  /\ BlockLens \subseteq Nat \ {0}
  /\ MaxBeyond \in Nat
  /\ Base \in Nat \ {0, 1}

\* The place values of a varint's second to sixth digit.
Powers == <<Base, Base * Base, Base * Base * Base, Base * Base * Base * Base,
            Base * Base * Base * Base * Base>>

MaxInt == 2147483647
Room   == 18           \* three tags and three numbers of at most five digits

\* The lengths are ints, which a varint of five digits holds, and so is the size of
\* the whole: a block is a part of at most g_100MB of a file.
ASSUME LengthsAreInts ==
  \A name \in Names, n \in BlockLens :
    /\ Len(name) < Powers[5]
    /\ n + MaxBeyond < Powers[5]
    /\ Len(name) + n + MaxBeyond + Room <= MaxInt

Nul    == 0
Junk   == -1           \* a byte of memory that belongs to something else
Byte   == 256
Border == 323297739
Fields == {"log_name", "log_content", "log_len"}

VARIABLES
  step,      \* where the block is
  log_name,  \* GetLogFileName()
  buf,       \* the block; buf_len is its length
  beyond,    \* what lies behind it
  info,      \* info of SendToServer, with its _has_bits_
  send_buf,  \* send_buf, and what arrives
  pos,       \* the parser: bytes of the body it has taken
  parsed,    \* info of WriteToFile
  file       \* what was appended to the file

vars == <<step, log_name, buf, beyond, info, send_buf, pos, parsed, file>>

Empty == [has |-> {}, log_name |-> <<>>, log_content |-> <<>>, log_len |-> 0]

\* Mutant of Set: the field's bit of _has_bits_ stays.
SetWithoutBit(msg, field, value) == [msg EXCEPT ![field] = value]

Set(msg, field, value) == [msg EXCEPT ![field] = value, !.has = @ \cup {field}]

-----------------------------------------------------------------------------
(* Numbers and texts as bytes.                                             *)

\* htonl, ntohl and memcpy of an int32_t that is not negative.
ToNet(n) == <<n \div (Byte * Byte * Byte), (n \div (Byte * Byte)) % Byte,
              (n \div Byte) % Byte, n % Byte>>
ToHost(b) == ((b[1] * Byte + b[2]) * Byte + b[3]) * Byte + b[4]

Digits[n \in Nat] ==
  IF n < Base THEN <<n>> ELSE <<(n % Base) + Base>> \o Digits[n \div Base]
Varint(n) == Digits[n]

\* Mutant of VarintSize: the boundary belongs to the shorter number.
VarintSizeBelow(n) ==
  CHOOSE k \in 1 .. 5 : /\ (k = 5 \/ n <= Powers[k])
                       /\ (k = 1 \/ n > Powers[k - 1])

VarintSize(n) ==
  CHOOSE k \in 1 .. 5 : /\ (k = 5 \/ n < Powers[k])
                       /\ (k = 1 \/ n >= Powers[k - 1])

\* The number that starts behind the first p bytes, and where it ends.
VarintEnd(s, p) ==
  CHOOSE e \in p + 1 .. Len(s) : s[e] < Base /\ \A i \in p + 1 .. e - 1 : s[i] >= Base
VarintAt(s, p) ==
  LET D(i) == IF p + i <= VarintEnd(s, p) THEN s[p + i] % Base ELSE 0
  IN  D(1) + Base * (D(2) + Base * (D(3) + Base * (D(4) + Base * D(5))))

WriteString(tag, s) == <<tag>> \o Varint(Len(s)) \o s
StringSize(s) == VarintSize(Len(s)) + Len(s)

-----------------------------------------------------------------------------
(* The client.                                                             *)

\* assign(const char*): up to the first Nul in memory.
CString(memory) == SubSeq(memory, 1, Min({i \in 1 .. Len(memory) : memory[i] = Nul}) - 1)

\* Mutant of LogLen: the length of what was assigned.
LogLenOfContent == Len(CString(buf \o beyond \o <<Nul>>))

LogLen == Len(buf)

SetFields ==
  /\ step = "set"
  /\ step' = "serialize"
  /\ info' = Set(Set(Set(Empty, "log_name", CString(log_name \o <<Nul>>)),
                     "log_content", CString(buf \o beyond \o <<Nul>>)),
                 "log_len", LogLen)
  /\ UNCHANGED <<log_name, buf, beyond, send_buf, pos, parsed, file>>

ByteSize(msg) ==
    (IF "log_name" \in msg.has THEN 1 + StringSize(msg.log_name) ELSE 0)
  + (IF "log_content" \in msg.has THEN 1 + StringSize(msg.log_content) ELSE 0)
  + (IF "log_len" \in msg.has THEN 1 + VarintSize(msg.log_len) ELSE 0)

SerializeWithCachedSizes(msg) ==
     (IF "log_name" \in msg.has THEN WriteString(10, msg.log_name) ELSE <<>>)
  \o (IF "log_content" \in msg.has THEN WriteString(18, msg.log_content) ELSE <<>>)
  \o (IF "log_len" \in msg.has THEN <<24>> \o Varint(msg.log_len) ELSE <<>>)

\* The buffer has room for ByteSize; the generated code writes what it writes.
Serialize ==
  /\ step = "serialize"
  /\ step' = "parse"
  /\ send_buf' = ToNet(Border) \o ToNet(ByteSize(info)) \o SerializeWithCachedSizes(info)
  /\ UNCHANGED <<log_name, buf, beyond, info, pos, parsed, file>>

-----------------------------------------------------------------------------
(* The server: ProcessTask has taken as many bytes as the header says.     *)

content_len == ToHost(SubSeq(send_buf, 5, 8))
content_buf == SubSeq(send_buf, 9, 8 + content_len)

\* MergePartialFromCodedStream, one field for each round of its loop.  The body is a
\* client's own: with another tag, or an end inside a field, nothing could happen next.
ReadText(field) ==
  LET e == VarintEnd(content_buf, pos + 1)
      n == VarintAt(content_buf, pos + 1)
  IN  /\ e + n <= Len(content_buf)
      /\ parsed' = Set(parsed, field, SubSeq(content_buf, e + 1, e + n))
      /\ pos' = e + n

\* Mutant of ReadNumber: a number of one digit.
ReadDigit(field) ==
  /\ parsed' = Set(parsed, field, content_buf[pos + 2] % Base)
  /\ pos' = VarintEnd(content_buf, pos + 1)

ReadNumber(field) ==
  /\ parsed' = Set(parsed, field, VarintAt(content_buf, pos + 1))
  /\ pos' = VarintEnd(content_buf, pos + 1)

ParseField ==
  /\ step = "parse"
  /\ pos < content_len
  /\ LET tag == content_buf[pos + 1]
     IN  \/ tag = 10 /\ ReadText("log_name")
         \/ tag = 18 /\ ReadText("log_content")
         \/ tag = 24 /\ ReadNumber("log_len")
  /\ UNCHANGED <<step, log_name, buf, beyond, info, send_buf, file>>

IsInitialized(msg) == msg.has = Fields

\* fwrite takes log_len bytes from content.c_str(): the content, its terminator, and
\* what follows in memory.
Fwrite(content, n) ==
  [i \in 1 .. n |-> CASE i <= Len(content) -> content[i]
                      [] i = Len(content) + 1 -> Nul
                      [] OTHER -> Junk]

WriteToFile ==
  /\ step = "parse"
  /\ pos = content_len
  /\ IsInitialized(parsed)
  /\ step' = "written"
  /\ file' = Fwrite(parsed.log_content, parsed.log_len)
  /\ UNCHANGED <<log_name, buf, beyond, info, send_buf, pos, parsed>>

-----------------------------------------------------------------------------

\* A block of text, in which a byte may be Nul.
Init ==
  /\ step = "set"
  /\ log_name \in Names
  /\ \E n \in BlockLens : \E nul \in 0 .. n :
       buf = [i \in 1 .. n |-> IF i = nul THEN Nul ELSE i]
  /\ \E n \in 0 .. MaxBeyond : beyond = [i \in 1 .. n |-> Junk]
  /\ info = Empty
  /\ send_buf = <<>>
  /\ pos = 0
  /\ parsed = Empty
  /\ file = <<>>

Done == step = "written" /\ UNCHANGED vars

Next == SetFields \/ Serialize \/ ParseField \/ WriteToFile \/ Done

Spec == Init /\ [][Next]_vars

-----------------------------------------------------------------------------

Bytes == Nat \cup {Junk}
Default(field) == IF field = "log_len" THEN 0 ELSE <<>>
Message == [has : SUBSET Fields, log_name : Seq(Bytes), log_content : Seq(Bytes),
            log_len : Nat]

\* Every variable has its type, and a field without its bit has its default.
TypeOK ==
  /\ step \in {"set", "serialize", "parse", "written"}
  /\ log_name \in Names
  /\ buf \in Seq(Nat)
  /\ beyond \in Seq({Junk})
  /\ info \in Message
  /\ send_buf \in Seq(Bytes)
  /\ pos \in Nat
  /\ parsed \in Message
  /\ file \in Seq(Bytes)
  /\ \A msg \in {info, parsed} : \A f \in Fields \ msg.has : msg[f] = Default(f)

\* The server cuts the stream where the next message begins (ByteSize, which gives the
\* size of send_buf and the length in the header, is what the serialization fills),
\* and reads the fields as they were set.
FieldsArrive ==
  /\ send_buf # <<>> => Len(send_buf) = 8 + content_len
  /\ step = "written" => parsed = info

\* The server appends as many bytes as the client had in its block, and those up to the
\* first Nul are the block's, whatever lay behind it in the client's memory.
LogHoldsText ==
  step = "written" =>
    /\ Len(file) = Len(buf)
    /\ \A n \in DOMAIN buf :
         (\A i \in 1 .. n - 1 : buf[i] # Nul) => file[n] = buf[n]

\* tcp_client.cpp:146 says that the block to be sent is serialized, so what the server
\* appends should be the block.
LogHoldsBlock == step = "written" => file = buf
=============================================================================
