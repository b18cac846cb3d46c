---------------------------- MODULE ObjectStream ----------------------------
(***************************************************************************)
(* A message of fields is written to an OutputMemoryBitStream, taken to    *)
(* the receiver and read from an InputMemoryBitStream, as in               *)
(* examples/robocat_serialization.cpp and examples/robocat_socket.cpp.     *)
(* The fields are those the Serialize methods and the headers write:       *)
(* flags, actions, integers and strings, in any order.                     *)
(*                                                                         *)
(* A number is the sequence of the bytes of a uint32_t, highest first; a   *)
(* bool and an action are small numbers.  The byte order of a machine says *)
(* how a number lies in its memory, and the two machines may differ.  A    *)
(* string is the sequence of its characters, each a byte.                  *)
(***************************************************************************)
EXTENDS MemoryBitStream, SequencesExt

CONSTANTS
    IntBytes,       \* sizeof(uint32_t): 4
    Ints,           \* the numbers that integer fields hold
    Strings,        \* the strings that are written
    BufferBytes,    \* the receiver's buffer: 1470 bytes
    MaxFields       \* bound: fields of the message

ByteOrder == {"little", "big"}
Number == [1 .. IntBytes -> Byte]

ASSUME ObjectAssumption ==
    /\ IntBytes \in Nat \ {0}
    /\ Ints \subseteq Number /\ Strings \subseteq Seq(Byte)
    /\ BufferBytes \in Nat \ {0}
    /\ MaxFields \in Nat

VARIABLES
    order,    \* the byte orders of the two machines
    out,      \* the sender's stream
    turns,    \* calls of WriteBits that the current field still has to make
    fields,   \* the fields of the message so far
    written,  \* history: the bits written
    begins,   \* history: where in written each of the fields begins
    phase,
    in,       \* the receiver's stream
    length,   \* of the string that is being read
    got       \* the fields that have been read

\* What only the sender changes, and what only the receiver does.
sent == <<out, turns, fields, written, begins>>
vars == <<order, sent, phase, in, length, got>>

----------------------------------------------------------------------------
BitOf(n, i) == (n \div 2^i) % 2
NumberOf(n) ==
    [j \in 1 .. IntBytes |->
        [i \in BitIndex |-> BitOf(n, ByteBits * (IntBytes - j) + i)]]
LengthOf(number) ==
    CHOOSE n \in 0 .. 2^(ByteBits * IntBytes) - 1 : NumberOf(n) = number
ZeroByte == [i \in BitIndex |-> 0]
LowestByte(number) == number[IntBytes]
IntBits == IntBytes * ByteBits

\* RA_Create, RA_Update, RA_Destroy are 0, 1, 2.
RA_MAX == 3
GetRequiredBits(value) ==
    CHOOSE n \in 0 .. value : 2^n > value /\ \A m \in 0 .. n - 1 : 2^m <= value
ActionBits == GetRequiredBits(RA_MAX)

\* An action has no more bits than the ActionBits lowest, which are in its
\* lowest byte.
ASSUME ActionAssumption ==
    /\ ActionBits <= ByteBits
    /\ \A action \in 0 .. RA_MAX - 1, j \in 1 .. IntBytes :
           NumberOf(action)[j] = IF j = IntBytes
                                 THEN LowBits(NumberOf(action)[j], ActionBits)
                                 ELSE ZeroByte

\* The length of a string is the number that is written for it: the code takes
\* it for a uint32_t.
ASSUME LengthAssumption ==
    \A string \in Strings : /\ Len(string) \in 0 .. 2^IntBits - 1
                            /\ LengthOf(NumberOf(Len(string))) = Len(string)

\* The bytes of a number as they lie in memory, and back.
InMemory(bytes, byteOrder) ==
    IF byteOrder = "little" THEN Reverse(bytes) ELSE bytes

\* #if IS_LITTLE_ENDIAN __builtin_bswap32
Swapped(bytes, byteOrder) ==
    IF byteOrder = "little" THEN Reverse(bytes) ELSE bytes

\* The fields a sender may write.
Field ==
    [kind : {"bool"}, value : {NumberOf(n) : n \in {0, 1}}]
        \cup [kind : {"action"}, value : {NumberOf(n) : n \in 0 .. RA_MAX - 1}]
        \cup [kind : {"int"}, value : Ints]
        \cup [kind : {"string"}, value : Strings]

Init ==
    /\ order \in [sender : ByteOrder, receiver : ByteOrder]
    /\ out = NewOutput
    /\ turns = << >>
    /\ fields = << >>
    /\ written = << >>
    /\ begins = << >>
    /\ phase = "writing"
    /\ in = NewInput(<< >>, 0)
    /\ length = -1
    /\ got = << >>

----------------------------------------------------------------------------
\* The sender.

TurnsOfNumber(number, byteOrder) ==
    Turns(Swapped(InMemory(number, byteOrder), byteOrder), IntBits)

TurnsOfField(f, byteOrder) ==
    CASE f.kind = "bool" -> <<[data |-> LowestByte(f.value), count |-> 1]>>
      [] f.kind = "action" ->
             <<[data |-> LowestByte(f.value), count |-> ActionBits]>>
      [] f.kind = "int" -> TurnsOfNumber(f.value, byteOrder)
      [] f.kind = "string" ->
             TurnsOfNumber(NumberOf(Len(f.value)), byteOrder)
                 \o Turns(f.value, Len(f.value) * ByteBits)

Write ==
    /\ phase = "writing"
    /\ turns = << >>
    /\ Len(fields) < MaxFields
    /\ \E f \in Field :
           /\ fields' = Append(fields, f)
           /\ turns' = TurnsOfField(f, order.sender)
    /\ begins' = Append(begins, Len(written))
    /\ UNCHANGED <<order, out, written, phase, in, length, got>>

WriteBits ==
    /\ phase = "writing"
    /\ turns # << >>
    /\ LET turn == Head(turns)
       IN  /\ out' = WriteByte(out, turn.data, turn.count)
           /\ written' = written \o [i \in 1 .. turn.count |-> turn.data[i - 1]]
    /\ turns' = Tail(turns)
    /\ UNCHANGED <<order, fields, begins, phase, in, length, got>>

\* In memory the whole stream is passed on, bit-exact.  A socket takes its
\* bytes, and recv returns as many as there are and the buffer holds, or less:
\* a stream keeps no message boundaries.
Transfer ==
    /\ phase = "writing"
    /\ turns = << >> /\ fields # << >>
    /\ phase' = "reading"
    /\ \/ in' = NewInput(out.mBuffer, out.mBitHead)
       \/ \E bytesReceived \in 1 .. GetByteLength(out) :
              /\ bytesReceived <= BufferBytes
              /\ in' = NewInput(out.mBuffer, bytesReceived * ByteBits)
    /\ UNCHANGED <<order, sent, length, got>>

----------------------------------------------------------------------------
\* The receiver, which reads the kinds of fields that were written.  (One that
\* gets a wrong action takes a wrong branch in ReplicationHeader::Read; what it
\* makes of the rest of a message is not modelled.)

Expects(kind) ==
    /\ phase = "reading"
    /\ Len(got) < Len(fields)
    /\ fields[Len(got) + 1].kind = kind

\* A read of bitCount bits throws, or takes them.
Throws(bitCount) ==
    /\ ReadThrows(in, bitCount)
    /\ phase' = "thrown"
    /\ UNCHANGED <<in, length, got>>

Takes(bitCount) ==
    /\ ~ReadThrows(in, bitCount)
    /\ in' = AfterRead(in, bitCount)
    /\ UNCHANGED phase

Got(kind, value) == got' = Append(got, [kind |-> kind, value |-> value])

NumberRead ==
    Swapped(InMemory(BytesRead(in, IntBits), order.receiver), order.receiver)

ReadBool ==
    /\ Expects("bool")
    /\ \/ Throws(1)
       \/ /\ Takes(1)
          /\ LET byte == ByteAt(in, in.mBitHead, 1)
             IN  Got("bool", NumberOf(IF byte # ZeroByte THEN 1 ELSE 0))
          /\ UNCHANGED length
    /\ UNCHANGED <<order, sent>>

\* The bits are read into the first byte of an enum in memory, whose other
\* bytes are 0: on a big-endian machine that is the wrong end.
ReadAction ==
    /\ Expects("action")
    /\ \/ Throws(ActionBits)
       \/ /\ Takes(ActionBits)
          /\ LET read == BytesRead(in, ActionBits)
                 memory == [i \in 1 .. IntBytes |->
                               IF i \in DOMAIN read THEN read[i] ELSE ZeroByte]
             IN  Got("action", InMemory(memory, order.receiver))
          /\ UNCHANGED length
    /\ UNCHANGED <<order, sent>>

ReadInt ==
    /\ Expects("int")
    /\ \/ Throws(IntBits)
       \/ Takes(IntBits) /\ Got("int", NumberRead) /\ UNCHANGED length
    /\ UNCHANGED <<order, sent>>

ReadStringLength ==
    /\ Expects("string") /\ length = -1
    /\ \/ Throws(IntBits)
       \/ Takes(IntBits) /\ length' = LengthOf(NumberRead) /\ UNCHANGED got
    /\ UNCHANGED <<order, sent>>

ReadString ==
    LET bitCount == length * ByteBits
    IN  /\ Expects("string") /\ length # -1
        /\ \/ Throws(bitCount)
           \/ /\ Takes(bitCount)
              /\ Got("string", BytesRead(in, bitCount))
              /\ length' = -1
        /\ UNCHANGED <<order, sent>>

Next ==
    \/ Write \/ WriteBits \/ Transfer
    \/ ReadBool \/ ReadAction \/ ReadInt \/ ReadStringLength \/ ReadString

Spec == Init /\ [][Next]_vars

----------------------------------------------------------------------------
TypeOK ==
    /\ OutputType(out)
    /\ turns \in Seq(Turn)
    /\ Len(fields) <= MaxFields
    /\ written \in Seq(Bit)
    /\ phase \in {"writing", "reading", "thrown"}
    /\ InputType(in)
    /\ length \in {-1} \cup 0 .. 2^IntBits - 1

\* Below the head the buffer holds exactly the bits that were written, at any
\* alignment and across every growth of the buffer
\* (OutputMemoryBitStream.cpp:64-102).
StreamHoldsWhatWasWritten ==
    /\ out.mBitHead = Len(written)
    /\ \A k \in 0 .. Len(written) - 1 : BitAt(out.mBuffer, k) = written[k + 1]

\* The bits that pad the last byte of a message go to the network as well:
\* none of them is memory that nobody has written
\* (OutputMemoryBitStream.cpp:40 and 83-84).
OnlyWrittenBitsAreSent ==
    \A k \in 0 .. GetByteLength(out) * ByteBits - 1 :
        BitAt(out.mBuffer, k) # Unwritten

\* How many bits a field has that has made the first n of its calls of
\* WriteBits: all but the last are for a byte each.
BitsAfter(calls, n) == IF n = 0 THEN 0 ELSE (n - 1) * ByteBits + calls[n].count

\* The first n of them lie in bits from bit begin on.
LieAt(bits, begin, calls, n) ==
    \A i \in 1 .. n, r \in BitIndex :
        r < calls[i].count =>
            bits[begin + (i - 1) * ByteBits + r + 1] = calls[i].data[r]

\* The calls of field n of the message, and how many it has made.
Calls(n) == TurnsOfField(fields[n], order.sender)
CallsMade(n) == Len(Calls(n)) - (IF n = Len(fields) THEN Len(turns) ELSE 0)

\* Where field n ends, as far as it is written.
EndOf(n) == IF n = Len(fields) THEN Len(written) ELSE begins[n + 1]

\* Why the buffer is right, and inductive: it grows by whole bytes, the calls
\* of WriteBits that remain are for at most a byte each, and what the receiver
\* has of the message is all written (OutputMemoryBitStream.cpp:50-102,
\* InputMemoryBitStream.cpp:10-17).
BufferInvariant ==
    /\ OutputType(out)
    /\ turns \in Seq(Turn)
    /\ written \in Seq(Bit)
    /\ StreamHoldsWhatWasWritten
    /\ OnlyWrittenBitsAreSent
    /\ InputBufferType(in)

\* Each field lies in the message where it begins, call after call.
LayoutInvariant ==
    /\ fields \in Seq(Field) /\ Len(fields) <= MaxFields
    /\ begins \in Seq(Nat) /\ Len(begins) = Len(fields)
    /\ fields = << >> => written = << >> /\ turns = << >>
    /\ fields # << >> => begins[1] = 0
    /\ \A n \in 1 .. Len(fields) :
           /\ CallsMade(n) \in Nat
           /\ begins[n] <= Len(written)
           /\ EndOf(n) = begins[n] + BitsAfter(Calls(n), CallsMade(n))
           /\ LieAt(written, begins[n], Calls(n), CallsMade(n))
    /\ \A i \in 1 .. Len(turns) :
           turns[i] = Calls(Len(fields))[CallsMade(Len(fields)) + i]

\* What a machine makes of a field: an action comes out of a big-endian one
\* with its bytes in the wrong order, and everything else as it was.
ReadAs(f, byteOrder) ==
    IF f.kind = "action" /\ byteOrder = "big"
    THEN [kind |-> "action", value |-> Reverse(f.value)] ELSE f

\* Where the receiver is in the message.
ReadPosition ==
    (IF Len(got) = Len(fields) THEN Len(written) ELSE begins[Len(got) + 1])
        + (IF length = -1 THEN 0 ELSE IntBits)

\* The receiver has what it read, and goes on where the next field begins, or
\* its characters do.
ReadingInvariant ==
    /\ order \in [sender : ByteOrder, receiver : ByteOrder]
    /\ phase \in {"writing", "reading", "thrown"}
    /\ in.mBitHead \in Nat /\ in.mBitHead <= in.mBitCapacity
    /\ Len(got) \in 0 .. Len(fields)
    /\ got = [i \in 1 .. Len(got) |-> ReadAs(fields[i], order.receiver)]
    /\ phase = "writing" => got = << >> /\ length = -1
    /\ phase # "writing" =>
           /\ turns = << >>
           /\ \A i \in 0 .. BytesFor(in.mBitCapacity) - 1 :
                  in.mBuffer[i] = out.mBuffer[i]
           /\ BytesFor(in.mBitCapacity) <= GetByteLength(out)
    /\ phase = "reading" => in.mBitHead = ReadPosition
    /\ phase = "thrown" => in.mBitCapacity < Len(written)
    /\ length # -1 =>
           /\ Len(got) < Len(fields) /\ fields[Len(got) + 1].kind = "string"
           /\ length = Len(fields[Len(got) + 1].value)

\* The inductive invariant of the sender, the message and the receiver.
StreamInvariant == BufferInvariant /\ LayoutInvariant /\ ReadingInvariant

\* Whatever the two machines' byte orders, and however much of the message
\* arrived, a receiver that reads the kinds of fields that were written gets the
\* first that were written, but for the actions that a big-endian machine reads
\* (InputMemoryBitStream.cpp:24-44 and 54-98, ReplicationHeader.cpp:32-42).
ReadsReturnWhatWasWritten ==
    IsPrefix(got, [n \in 1 .. Len(fields) |-> ReadAs(fields[n], order.receiver)])

\* A read fails if and only if the message was cut short: padding never makes
\* a field readable that is not all there (InputMemoryBitStream.cpp:82-85).
ThrowsExactlyWhenCut ==
    /\ phase = "thrown" => in.mBitCapacity < out.mBitHead
    /\ phase = "reading" /\ Len(got) = Len(fields) => in.mBitCapacity >= out.mBitHead
=============================================================================
