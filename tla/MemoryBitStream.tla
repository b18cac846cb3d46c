--------------------------- MODULE MemoryBitStream ---------------------------
(***************************************************************************)
(* OutputMemoryBitStream and InputMemoryBitStream: buffers that are        *)
(* written and read bit by bit.                                            *)
(*                                                                         *)
(* A stream is a record with the fields of the C++ class, and a byte is a  *)
(* function from bit numbers, 0 being the lowest, to bits.  A byte has     *)
(* ByteBits bits, 8 in the code.  Memory that malloc or realloc returned   *)
(* and nobody has written holds Unwritten bits, and whatever is computed   *)
(* from them may be Unwritten too.                                         *)
(***************************************************************************)
EXTENDS Integers, Sequences

CONSTANTS
    ByteBits,     \* bits in a byte
    InitialBytes  \* bytes a new OutputMemoryBitStream allocates: 32

ASSUME StreamAssumption ==
    /\ ByteBits \in Nat \ {0}
    /\ InitialBytes \in Nat \ {0}

BitIndex == 0 .. ByteBits - 1
Bit == {0, 1}
Unwritten == 2
Byte == [BitIndex -> Bit]
Cell == [BitIndex -> Bit \cup {Unwritten}]

FreshCell == [i \in BitIndex |-> Unwritten]

\* b << n, b >> n, and b & ~(0xFF << n), each cut to a byte.
ShiftLeft(b, n) == [i \in BitIndex |-> IF i >= n THEN b[i - n] ELSE 0]
ShiftRight(b, n) == [i \in BitIndex |-> IF i + n < ByteBits THEN b[i + n] ELSE 0]
LowBits(b, n) == [i \in BitIndex |-> IF i < n THEN b[i] ELSE 0]

\* a | b
Or(a, b) ==
    [i \in BitIndex |-> IF a[i] = 1 \/ b[i] = 1 THEN 1
                        ELSE IF a[i] = 0 /\ b[i] = 0 THEN 0 ELSE Unwritten]

\* (bits + 7) >> 3
BytesFor(bits) == (bits + ByteBits - 1) \div ByteBits

ByteOffset(head) == head \div ByteBits
BitOffset(head) == head % ByteBits

\* Bit k of a buffer.
BitAt(buffer, k) == buffer[ByteOffset(k)][BitOffset(k)]

----------------------------------------------------------------------------
\* OutputMemoryBitStream.

NewOutput ==
    [mBuffer      |-> [i \in 0 .. InitialBytes - 1 |-> FreshCell],
     mBitHead     |-> 0,
     mBitCapacity |-> InitialBytes * ByteBits]

\* Mutant: new memory takes the place of the old without its contents.
ReallocBuffer_Fresh(s, newBitCapacity) ==
    [s EXCEPT !.mBuffer = [i \in 0 .. BytesFor(newBitCapacity) - 1 |-> FreshCell],
              !.mBitCapacity = newBitCapacity]

ReallocBuffer(s, newBitCapacity) ==
    [s EXCEPT
        !.mBuffer = [i \in 0 .. BytesFor(newBitCapacity) - 1 |->
                        IF i \in DOMAIN @ THEN @[i] ELSE FreshCell],
        !.mBitCapacity = newBitCapacity]

\* Mutant: only the bits of whole bytes are counted.
Grown_ByHead(s, count) ==
    IF s.mBitCapacity <= s.mBitHead
    THEN ReallocBuffer(s, 2 * s.mBitCapacity)
    ELSE s

\* Room for count more bits.  The capacity is at least a byte, so the loop
\* that doubles it turns once at most.
Grown(s, count) ==
    IF s.mBitCapacity < s.mBitHead + count
    THEN ReallocBuffer(s, 2 * s.mBitCapacity)
    ELSE s

\* Mutant: the bits of the byte that are not yet in use are not cleared.
Joined_Uncleared(cell, data, bitOffset) == Or(cell, ShiftLeft(data, bitOffset))

\* (cell & currentMask) | (data << bitOffset)
Joined(cell, data, bitOffset) ==
    Or(LowBits(cell, bitOffset), ShiftLeft(data, bitOffset))

\* Mutant: shifted by the wrong one of two complementary distances.
Spilled_ByOffset(data, bitOffset) == ShiftRight(data, bitOffset)

\* What of data goes to the next byte.
Spilled(data, bitOffset) == ShiftRight(data, ByteBits - bitOffset)

\* WriteBits(uint8_t data, count).  What is above the count lowest bits of
\* data gets into the buffer too, beyond the new head.
WriteByte(s, data, count) ==
    LET grown == Grown(s, count)
        byteOffset == ByteOffset(s.mBitHead)
        bitOffset == BitOffset(s.mBitHead)
        bitsFree == ByteBits - bitOffset
        newCell(i) ==
            IF i = byteOffset
            THEN Joined(grown.mBuffer[i], data, bitOffset)
            ELSE IF i = byteOffset + 1 /\ bitsFree < count
                 THEN Spilled(data, bitOffset)
                 ELSE grown.mBuffer[i]
    IN  [grown EXCEPT
            !.mBuffer = [i \in DOMAIN grown.mBuffer |-> newCell(i)],
            !.mBitHead = @ + count]

GetByteLength(s) == BytesFor(s.mBitHead)

\* The calls of WriteByte that WriteBits(const void*, bitCount) makes: whole
\* bytes, and the rest from the last one.
Turn == [data : Byte, count : 1 .. ByteBits]
CountOfTurn(bitCount, i) ==
    IF i < BytesFor(bitCount) THEN ByteBits ELSE bitCount - ByteBits * (i - 1)
Turns(bytes, bitCount) ==
    [i \in 1 .. BytesFor(bitCount) |->
        [data |-> bytes[i], count |-> CountOfTurn(bitCount, i)]]

----------------------------------------------------------------------------
\* InputMemoryBitStream.

NewInput(buffer, bitCount) ==
    [mBuffer      |-> [i \in 0 .. BytesFor(bitCount) - 1 |-> buffer[i]],
     mBitHead     |-> 0,
     mBitCapacity |-> bitCount]

\* Mutant: the last bit cannot be read.
ReadThrows_OnLastBit(s, bitCount) == s.mBitHead + bitCount >= s.mBitCapacity

\* Not enough data to read.
ReadThrows(s, bitCount) == s.mBitHead + bitCount > s.mBitCapacity

\* Mutant: bits of the next field are not masked out.
ByteAt_Unmasked(s, head, count) ==
    LET byteOffset == ByteOffset(head)
        leftBits == ByteBits - BitOffset(head)
        low == ShiftRight(s.mBuffer[byteOffset], BitOffset(head))
    IN  IF leftBits < count
        THEN Or(low, ShiftLeft(s.mBuffer[byteOffset + 1], leftBits))
        ELSE low

\* The byte that ReadBits(uint8_t&, count) reads at head.
ByteAt(s, head, count) ==
    LET byteOffset == ByteOffset(head)
        leftBits == ByteBits - BitOffset(head)
        low == ShiftRight(s.mBuffer[byteOffset], BitOffset(head))
        both == IF leftBits < count
                THEN Or(low, ShiftLeft(s.mBuffer[byteOffset + 1], leftBits))
                ELSE low
    IN  LowBits(both, count)

\* The bytes that ReadBits(void*, bitCount) stores: each of its turns reads
\* where the last one ended.
BytesRead(s, bitCount) ==
    [i \in 1 .. BytesFor(bitCount) |->
        ByteAt(s, s.mBitHead + ByteBits * (i - 1), CountOfTurn(bitCount, i))]

AfterRead(s, bitCount) == [s EXCEPT !.mBitHead = @ + bitCount]

----------------------------------------------------------------------------
StreamFields == {"mBuffer", "mBitHead", "mBitCapacity"}

\* Memory comes in whole bytes.
OutputType(s) ==
    /\ DOMAIN s = StreamFields
    /\ s.mBitHead \in Nat /\ s.mBitCapacity \in Nat
    /\ s.mBitHead <= s.mBitCapacity
    /\ s.mBitCapacity >= ByteBits /\ BitOffset(s.mBitCapacity) = 0
    /\ s.mBuffer \in [0 .. BytesFor(s.mBitCapacity) - 1 -> Cell]

\* The memory a receiver has is all written.
InputBufferType(s) ==
    /\ DOMAIN s = StreamFields
    /\ s.mBitCapacity \in Nat
    /\ s.mBuffer \in [0 .. BytesFor(s.mBitCapacity) - 1 -> Byte]

InputType(s) ==
    /\ s.mBitHead \in Nat /\ s.mBitHead <= s.mBitCapacity
    /\ InputBufferType(s)
=============================================================================
