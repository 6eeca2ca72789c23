------------------------------ MODULE MessageIO ------------------------------
(***************************************************************************)
(* MessageWriter and MessageReader of include/citescoop/io.h: messages in  *)
(* a stream, each after its size.                                          *)
(*                                                                         *)
(* A message is the sequence of its bytes and protobuf parses any prefix   *)
(* of it into the fields the prefix holds.  A stream is its bytes and      *)
(* whether it still accepts some; neither class looks at the state of its  *)
(* stream.  The size takes HeaderSize bytes instead of four.               *)
(***************************************************************************)
EXTENDS Integers, Sequences, SequencesExt

CONSTANTS
  IntMax,     \* INT_MAX as the size of a message: protobuf writes no longer one
  ReadLimit   \* INT_MAX as a position: CodedInputStream reads no byte beyond it

ASSUME LimitsAssumption == IntMax \in Nat /\ ReadLimit \in Nat

HeaderSize == 2
Base == 4
MaxSize == Base * Base - 1

\* The size of a message that is written fits its four bytes.
ASSUME SizeAssumption == IntMax <= MaxSize

Empty == [bytes |-> << >>, good |-> TRUE]

\* htonl and ntohl: the size in network byte order.
Header(n) == << (n \div Base) % Base, n % Base >>
Size(b) == b[1] * Base + b[2]

\* What becomes of a stream some bytes are written to: it takes them all, or
\* fails after some of them; once it has failed it takes no more.
Written(s, b) ==
  IF ~ s.good THEN {s}
  ELSE { [bytes |-> s.bytes \o b, good |-> TRUE] } \cup
       { [bytes |-> s.bytes \o SubSeq(b, 1, n), good |-> FALSE] : n \in 0 .. Len(b) }

\* SerializeToOstream writes nothing of a message that is too long, and says so to
\* a caller that does not listen.
Serializable(m) == Len(m) <= IntMax
Serialized(m) == IF Serializable(m) THEN m ELSE << >>

\* Mutant: the message is written before its size.
WriteMessage_SizeLast(s, m) ==
  UNION { Written(u, Header(Len(m))) : u \in Written(s, Serialized(m)) }

\* MessageWriter::WriteMessage: the size, then the message, whatever became of
\* the size.
WriteMessage(s, m) ==
  UNION { Written(u, Serialized(m)) : u \in Written(s, Header(Len(m))) }

\* Mutant: the size is read least significant byte first.
Decoded_Swapped(b, pos) == b[pos + 2] * Base + b[pos + 1]

Decoded(b, pos) == Size(SubSeq(b, pos + 1, pos + HeaderSize))

\* What a reader gets to see of a stream.
Visible(b) == SubSeq(b, 1, Min({Len(b), ReadLimit}))

\* MessageReader::ReadMessage after pos bytes of the visible bytes b: what it
\* returns and where it is left.  ReadRaw takes what there is, and leaves size
\* uninitialised, wholly or in part, when that is not all of it.  PushLimit ignores
\* a size that is negative as an int, and the message then ends wherever protobuf
\* finds bytes that are no field of it; otherwise it ends with its size, or with
\* the bytes.
ReadMessage(b, pos) ==
  LET body  == Min({pos + HeaderSize, Len(b)})
      sizes == IF pos + HeaderSize <= Len(b) THEN { Decoded(b, pos) } ELSE 0 .. MaxSize
      ends  == UNION { IF n <= IntMax THEN { Min({body + n, Len(b)}) } ELSE body .. Len(b)
                       : n \in sizes }
  IN  { [message |-> SubSeq(b, body + 1, end), pos |-> end] : end \in ends }
=============================================================================
