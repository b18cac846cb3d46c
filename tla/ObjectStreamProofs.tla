------------------------- MODULE ObjectStreamProofs -------------------------
(***************************************************************************)
(* Theorems about ObjectStream, for bytes of any size, any numbers,        *)
(* strings and messages, machines of any byte order, and any first size of *)
(* the buffer.  They rest on StreamInvariant; most of the work is in what  *)
(* WriteByte does to each bit of the buffer, and ByteAt makes of it.       *)
(***************************************************************************)
EXTENDS ObjectStream, SequenceTheorems, TLAPS

----------------------------------------------------------------------------
(***************************************************************************)
(* Bits and bytes.  Bit k of a buffer is bit r of byte q, for one q and    *)
(* one r: the proofs reason about those, and never about quotients.        *)
(***************************************************************************)

\* Where byte q begins.
Start(q) == q * ByteBits

LEMMA StartIsNat == \A q \in Nat : Start(q) \in Nat
BY StreamAssumption DEF Start

\* Bytes do not overlap.
LEMMA StartOrder ==
    ASSUME NEW p \in Nat, NEW q \in Nat
    PROVE  /\ p < q => Start(p) + ByteBits <= Start(q)
           /\ p <= q => Start(p) <= Start(q)
<1>1. ByteBits \in Nat /\ ByteBits >= 1
    BY StreamAssumption
<1>2. ASSUME p < q PROVE p * ByteBits + ByteBits <= q * ByteBits
    <2>1. PICK d \in Nat : q = p + 1 + d
        <3>1. q - p - 1 \in Nat /\ q = p + 1 + (q - p - 1)
            BY <1>2
        <3>2. QED
            BY <3>1
    <2>2. q * ByteBits = p * ByteBits + ByteBits + d * ByteBits
        BY <1>1, <2>1
    <2>3. d * ByteBits \in Nat /\ p * ByteBits \in Nat
        BY <1>1
    <2>4. QED
        BY <1>1, <2>2, <2>3
<1>3. p * ByteBits \in Nat
    BY <1>1
<1>4. QED
    BY <1>1, <1>2, <1>3 DEF Start

\* Every bit is in one byte,
LEMMA Position ==
    ASSUME NEW k \in Nat
    PROVE  /\ ByteOffset(k) \in Nat /\ BitOffset(k) \in BitIndex
           /\ k = Start(ByteOffset(k)) + BitOffset(k)
BY StreamAssumption DEF ByteOffset, BitOffset, BitIndex, Start

\* and every bit of a byte is where that byte has it.
LEMMA PositionOf ==
    ASSUME NEW q \in Nat, NEW r \in BitIndex
    PROVE  /\ Start(q) + r \in Nat
           /\ ByteOffset(Start(q) + r) = q
           /\ BitOffset(Start(q) + r) = r
<1>1. ByteBits \in Nat /\ ByteBits >= 1 /\ r \in Nat /\ r < ByteBits
    BY StreamAssumption DEF BitIndex
<1>2. Start(q) + r \in Nat
    BY <1>1, StartIsNat
<1> DEFINE k == Start(q) + r
<1>3. /\ ByteOffset(k) \in Nat /\ BitOffset(k) \in BitIndex
      /\ k = Start(ByteOffset(k)) + BitOffset(k)
    BY <1>2, Position
<1>4. BitOffset(k) \in Nat /\ BitOffset(k) < ByteBits
    BY <1>1, <1>3 DEF BitIndex
<1>5. ~ ByteOffset(k) < q
    BY <1>1, <1>3, <1>4, StartOrder, StartIsNat
<1>6. ~ q < ByteOffset(k)
    BY <1>1, <1>3, <1>4, StartOrder, StartIsNat
<1>7. ByteOffset(k) = q
    BY <1>3, <1>5, <1>6
<1>8. BitOffset(k) = r
    BY <1>1, <1>3, <1>4, <1>7, StartIsNat
<1>9. QED
    BY <1>2, <1>7, <1>8

\* BytesFor(n) bytes are those that begin below n.
LEMMA BytesForCounts ==
    ASSUME NEW n \in Nat
    PROVE  /\ BytesFor(n) \in Nat
           /\ \A q \in Nat : q < BytesFor(n) <=> Start(q) < n
<1>1. ByteBits \in Nat /\ ByteBits >= 1
    BY StreamAssumption
<1> DEFINE k == n + ByteBits - 1
<1>2. k \in Nat
    BY <1>1
<1>3. BytesFor(n) = ByteOffset(k)
    BY DEF BytesFor, ByteOffset
<1>4. /\ ByteOffset(k) \in Nat /\ BitOffset(k) \in BitIndex
      /\ k = Start(ByteOffset(k)) + BitOffset(k)
    BY <1>2, Position
<1>5. BitOffset(k) \in Nat /\ BitOffset(k) < ByteBits
    BY <1>1, <1>4 DEF BitIndex
<1>6. ASSUME NEW q \in Nat PROVE q < ByteOffset(k) <=> Start(q) < n
    <2>1. q < ByteOffset(k) => Start(q) + ByteBits <= Start(ByteOffset(k))
        BY <1>4, StartOrder
    <2>2. ByteOffset(k) <= q => Start(ByteOffset(k)) <= Start(q)
        BY <1>4, StartOrder
    <2>3. Start(q) \in Nat /\ Start(ByteOffset(k)) \in Nat
        BY <1>4, StartIsNat
    <2>4. QED
        BY <1>1, <1>4, <1>5, <2>1, <2>2, <2>3
<1>7. QED
    BY <1>3, <1>4, <1>6

\* Whole bytes need no rounding.
LEMMA BytesForWhole == \A n \in Nat : BytesFor(Start(n)) = n
<1> SUFFICES ASSUME NEW n \in Nat PROVE BytesFor(Start(n)) = n
    OBVIOUS
<1>1. ByteBits - 1 \in BitIndex
    BY StreamAssumption DEF BitIndex
<1>2. ByteOffset(Start(n) + (ByteBits - 1)) = n
    BY <1>1, PositionOf
<1>3. Start(n) + (ByteBits - 1) = Start(n) + ByteBits - 1
    BY StreamAssumption, StartIsNat
<1>4. QED
    BY <1>2, <1>3 DEF BytesFor, ByteOffset

----------------------------------------------------------------------------
(***************************************************************************)
(* What WriteByte does.                                                    *)
(***************************************************************************)

\* A capacity is of whole bytes, one at least.
LEMMA CapacityIsWhole ==
    ASSUME NEW s, OutputType(s)
    PROVE  \E n \in Nat : /\ n >= 1 /\ s.mBitCapacity = Start(n)
                          /\ DOMAIN s.mBuffer = 0 .. n - 1
<1> DEFINE n == ByteOffset(s.mBitCapacity)
<1>1. s.mBitCapacity \in Nat /\ s.mBitCapacity >= ByteBits
      /\ BitOffset(s.mBitCapacity) = 0
    BY DEF OutputType
<1>2. n \in Nat /\ s.mBitCapacity = Start(n)
    BY <1>1, Position, StartIsNat
<1>3. n # 0
    BY <1>1, <1>2, StreamAssumption DEF Start
<1>4. DOMAIN s.mBuffer = 0 .. n - 1
    BY <1>2, BytesForWhole DEF OutputType
<1> HIDE DEF n
<1>5. QED
    BY <1>2, <1>3, <1>4

\* ReallocBuffer makes room and keeps what was there.
LEMMA GrownFields ==
    ASSUME NEW s, OutputType(s), NEW count \in 1 .. ByteBits
    PROVE  /\ OutputType(Grown(s, count))
           /\ Grown(s, count).mBitHead = s.mBitHead
           /\ s.mBitHead + count <= Grown(s, count).mBitCapacity
           /\ \A i \in DOMAIN s.mBuffer :
                  /\ i \in DOMAIN Grown(s, count).mBuffer
                  /\ Grown(s, count).mBuffer[i] = s.mBuffer[i]
<1>1. ByteBits \in Nat /\ count \in Nat /\ count <= ByteBits
    BY StreamAssumption
<1>2. /\ DOMAIN s = StreamFields /\ s.mBitHead \in Nat /\ s.mBitCapacity \in Nat
      /\ s.mBitHead <= s.mBitCapacity /\ s.mBitCapacity >= ByteBits
      /\ s.mBuffer \in [0 .. BytesFor(s.mBitCapacity) - 1 -> Cell]
    BY DEF OutputType
<1>3. CASE ~(s.mBitCapacity < s.mBitHead + count)
    <2>1. Grown(s, count) = s
        BY <1>3 DEF Grown
    <2>2. QED
        BY <1>1, <1>2, <1>3, <2>1
<1>4. CASE s.mBitCapacity < s.mBitHead + count
    <2> DEFINE more == 2 * s.mBitCapacity
               buffer == [i \in 0 .. BytesFor(more) - 1 |->
                             IF i \in DOMAIN s.mBuffer THEN s.mBuffer[i]
                                                       ELSE FreshCell]
               middle == [s EXCEPT !.mBuffer = buffer]
    <2>1. Grown(s, count) = [middle EXCEPT !.mBitCapacity = more]
        BY <1>2, <1>4 DEF Grown, ReallocBuffer, StreamFields
    <2>2. PICK n \in Nat : /\ n >= 1 /\ s.mBitCapacity = Start(n)
                           /\ DOMAIN s.mBuffer = 0 .. n - 1
        BY CapacityIsWhole
    <2>3. more = Start(2 * n)
        BY <1>1, <2>2 DEF Start
    <2>4. BytesFor(more) = 2 * n /\ BitOffset(more) = 0
        <3>1. 2 * n \in Nat /\ 0 \in BitIndex /\ Start(2 * n) + 0 = Start(2 * n)
            BY StreamAssumption, StartIsNat DEF BitIndex
        <3>2. BitOffset(Start(2 * n) + 0) = 0
            BY <3>1, PositionOf
        <3> HIDE DEF more
        <3>3. QED
            BY <2>3, <3>1, <3>2, BytesForWhole
    <2>5. FreshCell \in Cell
        BY DEF FreshCell, Cell
    <2>6. buffer \in [0 .. BytesFor(more) - 1 -> Cell]
        BY <1>2, <2>5
    <2>7. \A i \in DOMAIN s.mBuffer : i \in DOMAIN buffer /\ buffer[i] = s.mBuffer[i]
        BY <2>2, <2>4
    <2>8. more \in Nat /\ more >= ByteBits /\ s.mBitHead + count <= more
        BY <1>1, <1>2
    <2> HIDE DEF more, buffer
    <2>9. /\ DOMAIN middle = StreamFields /\ middle.mBuffer = buffer
          /\ middle.mBitHead = s.mBitHead
        BY <1>2 DEF StreamFields
    <2> HIDE DEF middle
    <2>10. /\ DOMAIN Grown(s, count) = StreamFields
           /\ Grown(s, count).mBuffer = buffer
           /\ Grown(s, count).mBitHead = s.mBitHead
           /\ Grown(s, count).mBitCapacity = more
        BY <2>1, <2>9 DEF StreamFields
    <2>11. QED
        BY <1>1, <1>2, <2>4, <2>6, <2>7, <2>8, <2>10 DEF OutputType
<1>5. QED
    BY <1>3, <1>4
\* The bits of a byte that is joined with, or spilled to.
LEMMA JoinedBits ==
    ASSUME NEW cell \in Cell, NEW data \in Byte, NEW r \in BitIndex
    PROVE  /\ Joined(cell, data, r) \in Cell
           /\ \A j \in BitIndex :
                  Joined(cell, data, r)[j] = IF j < r THEN cell[j] ELSE data[j - r]
<1>1. ByteBits \in Nat /\ r \in Nat
    BY StreamAssumption DEF BitIndex
<1>2. \A j \in BitIndex : j \in Nat /\ (j >= r => j - r \in BitIndex)
    BY <1>1 DEF BitIndex
<1> DEFINE low == LowBits(cell, r)
           high == ShiftLeft(data, r)
<1>3. \A j \in BitIndex : low[j] = IF j < r THEN cell[j] ELSE 0
    BY DEF LowBits
<1>4. \A j \in BitIndex : high[j] = IF j >= r THEN data[j - r] ELSE 0
    BY DEF ShiftLeft
<1> HIDE DEF low, high
<1>5. \A j \in BitIndex : Or(low, high)[j] =
          IF low[j] = 1 \/ high[j] = 1 THEN 1
          ELSE IF low[j] = 0 /\ high[j] = 0 THEN 0 ELSE Unwritten
    BY DEF Or
<1>6. ASSUME NEW j \in BitIndex
      PROVE  Or(low, high)[j] = IF j < r THEN cell[j] ELSE data[j - r]
    <2>1. CASE j < r
        <3>1. low[j] = cell[j] /\ high[j] = 0
            BY <1>1, <1>2, <1>3, <1>4, <2>1
        <3>2. cell[j] \in {0, 1, 2}
            BY DEF Cell, Bit, Unwritten
        <3>3. QED
            BY <1>5, <2>1, <3>1, <3>2 DEF Unwritten
    <2>2. CASE ~(j < r)
        <3>1. low[j] = 0 /\ high[j] = data[j - r] /\ j - r \in BitIndex
            BY <1>1, <1>2, <1>3, <1>4, <2>2
        <3>2. data[j - r] \in {0, 1}
            BY <3>1 DEF Byte, Bit
        <3>3. QED
            BY <1>5, <2>2, <3>1, <3>2
    <2>3. QED
        BY <2>1, <2>2
<1>7. Joined(cell, data, r) = Or(low, high)
    BY DEF Joined, low, high
<1>8. Or(low, high) \in Cell
    BY DEF Or, Cell, Bit, Unwritten
<1>9. QED
    BY <1>6, <1>7, <1>8

LEMMA SpilledBits ==
    ASSUME NEW data \in Byte, NEW r \in BitIndex
    PROVE  /\ Spilled(data, r) \in Byte
           /\ \A j \in BitIndex :
                  Spilled(data, r)[j]
                      = IF j < r THEN data[j + (ByteBits - r)] ELSE 0
<1>1. ByteBits \in Nat /\ r \in Nat /\ r < ByteBits
    BY StreamAssumption DEF BitIndex
<1>2. \A j \in BitIndex : /\ j \in Nat
                          /\ j + (ByteBits - r) < ByteBits <=> j < r
                          /\ j < r => j + (ByteBits - r) \in BitIndex
    BY <1>1 DEF BitIndex
<1>3. \A j \in BitIndex :
          Spilled(data, r)[j] = IF j < r THEN data[j + (ByteBits - r)] ELSE 0
    BY <1>2 DEF Spilled, ShiftRight
<1>4. \A j \in BitIndex : Spilled(data, r)[j] \in Bit
    BY <1>2, <1>3 DEF Byte, Bit
<1>5. Spilled(data, r) \in Byte
    BY <1>4 DEF Spilled, ShiftRight, Byte
<1>6. QED
    BY <1>3, <1>5

\* The stream after a write: the byte at the head has the new bits above those
\* it had, the next one has what does not fit, and those before are the same.
LEMMA WriteByteFields ==
    ASSUME NEW s, OutputType(s), NEW data \in Byte, NEW count \in 1 .. ByteBits,
           NEW q, q = ByteOffset(s.mBitHead), NEW r, r = BitOffset(s.mBitHead),
           NEW t, t = WriteByte(s, data, count)
    PROVE  /\ OutputType(t)
           /\ t.mBitHead = s.mBitHead + count
           /\ \A i \in 0 .. q - 1 : t.mBuffer[i] = s.mBuffer[i]
           /\ \A j \in BitIndex :
                  t.mBuffer[q][j] = IF j < r THEN s.mBuffer[q][j] ELSE data[j - r]
           /\ ByteBits < r + count =>
                  \A j \in BitIndex : t.mBuffer[q + 1][j] =
                      IF j < r THEN data[j + (ByteBits - r)] ELSE 0
<1> DEFINE g == Grown(s, count)
           newCell(i) ==
               IF i = q THEN Joined(g.mBuffer[i], data, r)
               ELSE IF i = q + 1 /\ ByteBits - r < count THEN Spilled(data, r)
               ELSE g.mBuffer[i]
           buffer == [i \in DOMAIN g.mBuffer |-> newCell(i)]
           middle == [g EXCEPT !.mBuffer = buffer]
<1>1. /\ ByteBits \in Nat /\ ByteBits >= 1 /\ count \in Nat /\ count >= 1
      /\ count <= ByteBits /\ s.mBitHead \in Nat /\ s.mBitHead <= s.mBitCapacity
      /\ s.mBitCapacity \in Nat
    BY StreamAssumption DEF OutputType
<1>2. q \in Nat /\ r \in BitIndex /\ s.mBitHead = Start(q) + r
    BY <1>1, Position
<1>3. r \in Nat /\ r < ByteBits
    BY <1>1, <1>2 DEF BitIndex
<1>4. /\ OutputType(g) /\ g.mBitHead = s.mBitHead
      /\ s.mBitHead + count <= g.mBitCapacity
      /\ \A i \in DOMAIN s.mBuffer :
             i \in DOMAIN g.mBuffer /\ g.mBuffer[i] = s.mBuffer[i]
    BY GrownFields
<1>5. t = [middle EXCEPT !.mBitHead = @ + count]
    BY <1>4 DEF WriteByte, OutputType, StreamFields
<1> HIDE DEF g
<1>6. PICK n \in Nat : /\ n >= 1 /\ g.mBitCapacity = Start(n)
                       /\ DOMAIN g.mBuffer = 0 .. n - 1
    BY <1>4, CapacityIsWhole
<1>7. q < n
    <2>1. n <= q => Start(n) <= Start(q)
        BY <1>2, StartOrder
    <2>2. Start(n) \in Nat /\ Start(q) \in Nat
        BY <1>2, StartIsNat
    <2>3. Start(q) + r + count <= Start(n)
        BY <1>2, <1>4, <1>6
    <2>4. QED
        BY <1>1, <1>2, <1>3, <2>1, <2>2, <2>3
<1>8. ByteBits < r + count => q + 1 < n
    <2>1. ASSUME ByteBits < r + count, n <= q + 1 PROVE FALSE
        <3>1. Start(n) <= Start(q + 1)
            BY <1>2, <2>1, StartOrder
        <3>2. Start(q + 1) = Start(q) + ByteBits
            BY <1>1, <1>2 DEF Start
        <3>3. Start(n) \in Nat /\ Start(q) \in Nat
            BY <1>2, StartIsNat
        <3>4. Start(q) + r + count <= Start(n)
            BY <1>2, <1>4, <1>6
        <3>5. QED
            BY <1>1, <1>3, <2>1, <3>1, <3>2, <3>3, <3>4
    <2>2. QED
        BY <1>2, <1>6, <2>1
<1>9. \A i \in 0 .. n - 1 : g.mBuffer[i] \in Cell
    BY <1>4, <1>6 DEF OutputType
<1>10. ASSUME NEW i \in 0 .. n - 1 PROVE newCell(i) \in Cell
    <2>1. Joined(g.mBuffer[i], data, r) \in Cell
        BY <1>2, <1>9, JoinedBits
    <2>2. Spilled(data, r) \in Cell
        <3>1. Spilled(data, r) \in Byte
            BY <1>2, SpilledBits
        <3>2. QED
            BY <3>1 DEF Byte, Cell
    <2>3. QED
        BY <1>9, <2>1, <2>2
<1>11. buffer \in [DOMAIN g.mBuffer -> Cell]
    BY <1>6, <1>10
<1>12. \A i \in 0 .. n - 1 : buffer[i] = newCell(i)
    BY <1>6
<1> HIDE DEF buffer
<1>13. /\ DOMAIN middle = StreamFields /\ middle.mBuffer = buffer
       /\ middle.mBitHead = s.mBitHead /\ middle.mBitCapacity = g.mBitCapacity
    BY <1>4 DEF OutputType, StreamFields
<1> HIDE DEF middle
<1>14. /\ DOMAIN t = StreamFields /\ t.mBuffer = buffer
       /\ t.mBitHead = s.mBitHead + count /\ t.mBitCapacity = g.mBitCapacity
    BY <1>5, <1>13 DEF StreamFields
<1>15. OutputType(t)
    <2>1. /\ g.mBitCapacity \in Nat /\ g.mBitCapacity >= ByteBits
          /\ BitOffset(g.mBitCapacity) = 0
          /\ DOMAIN g.mBuffer = 0 .. BytesFor(g.mBitCapacity) - 1
        BY <1>4 DEF OutputType
    <2>2. t.mBitHead \in Nat /\ t.mBitHead <= t.mBitCapacity
        BY <1>1, <1>4, <1>14
    <2>3. t.mBuffer \in [0 .. BytesFor(t.mBitCapacity) - 1 -> Cell]
        BY <1>11, <1>14, <2>1
    <2>4. QED
        BY <1>14, <2>1, <2>2, <2>3 DEF OutputType
<1>16. ASSUME NEW i \in Nat, Start(i) < s.mBitHead
       PROVE  i \in 0 .. n - 1 /\ g.mBuffer[i] = s.mBuffer[i]
    <2>1. PICK m \in Nat : s.mBitCapacity = Start(m) /\ DOMAIN s.mBuffer = 0 .. m - 1
        BY CapacityIsWhole
    <2>2. i < m
        BY <1>1, <1>16, <2>1, StartOrder, StartIsNat
    <2>3. QED
        BY <1>4, <1>6, <2>1, <2>2
<1>17. ASSUME NEW i \in 0 .. q - 1 PROVE t.mBuffer[i] = s.mBuffer[i]
    <2>1. i \in Nat /\ i < q
        BY <1>2
    <2>2. Start(i) < s.mBitHead
        BY <1>1, <1>2, <1>3, <2>1, StartOrder, StartIsNat
    <2>3. newCell(i) = g.mBuffer[i]
        BY <1>2, <2>1
    <2>4. QED
        BY <1>12, <1>14, <1>16, <2>1, <2>2, <2>3
<1>18. ASSUME NEW j \in BitIndex
       PROVE  t.mBuffer[q][j] = IF j < r THEN s.mBuffer[q][j] ELSE data[j - r]
    <2>1. q \in 0 .. n - 1
        BY <1>2, <1>7
    <2>2. t.mBuffer[q] = Joined(g.mBuffer[q], data, r)
        BY <1>12, <1>14, <2>1
    <2>3. t.mBuffer[q][j] = IF j < r THEN g.mBuffer[q][j] ELSE data[j - r]
        BY <1>2, <1>9, <2>1, <2>2, JoinedBits
    <2>4. j < r => g.mBuffer[q] = s.mBuffer[q]
        <3>1. ASSUME j < r PROVE Start(q) < s.mBitHead
            BY <1>1, <1>2, <1>3, <3>1, StartIsNat DEF BitIndex
        <3>2. QED
            BY <1>2, <1>16, <3>1
    <2>5. QED
        BY <2>3, <2>4
<1>19. ASSUME ByteBits < r + count, NEW j \in BitIndex
       PROVE  t.mBuffer[q + 1][j] = IF j < r THEN data[j + (ByteBits - r)] ELSE 0
    <2>1. q + 1 \in 0 .. n - 1 /\ q + 1 # q /\ ByteBits - r < count
        BY <1>1, <1>2, <1>3, <1>8, <1>19
    <2>2. t.mBuffer[q + 1] = Spilled(data, r)
        BY <1>12, <1>14, <2>1
    <2>3. QED
        BY <1>2, <2>2, SpilledBits
<1>20. QED
    BY <1>14, <1>15, <1>17, <1>18, <1>19
----------------------------------------------------------------------------
(***************************************************************************)
(* What the sender keeps, byte by byte.                                    *)
(***************************************************************************)

\* Below the head, w lies in the buffer.
Holds(buffer, w, head) ==
    \A q \in Nat, r \in BitIndex :
        Start(q) + r < head => buffer[q][r] = w[Start(q) + r + 1]

\* The bytes that begin below the head are written to their last bit.
Clean(buffer, head) ==
    \A q \in Nat, r \in BitIndex : Start(q) < head => buffer[q][r] # Unwritten

\* The bits that a call of WriteByte adds.
NewBits(data, count) == [i \in 1 .. count |-> data[i - 1]]

LEMMA NewBitsFields ==
    ASSUME NEW data \in Byte, NEW count \in 1 .. ByteBits
    PROVE  /\ NewBits(data, count) \in Seq(Bit)
           /\ Len(NewBits(data, count)) = count
           /\ \A i \in 1 .. count : NewBits(data, count)[i] = data[i - 1]
<1>1. ByteBits \in Nat /\ count \in Nat /\ count <= ByteBits
    BY StreamAssumption
<1>2. \A i \in 1 .. count : i - 1 \in BitIndex
    BY <1>1 DEF BitIndex
<1>3. \A i \in 1 .. count : data[i - 1] \in Bit
    BY <1>2 DEF Byte
<1>4. QED
    BY <1>1, <1>3 DEF NewBits

\* The bits of the message with those of a call behind them.
LEMMA LongerBits ==
    ASSUME NEW w \in Seq(Bit), NEW data \in Byte, NEW count \in 1 .. ByteBits
    PROVE  LET longer == w \o NewBits(data, count)
           IN  /\ longer \in Seq(Bit)
               /\ Len(longer) = Len(w) + count
               /\ \A i \in 1 .. Len(w) : longer[i] = w[i]
               /\ \A i \in 1 .. count : longer[Len(w) + i] = data[i - 1]
<1> DEFINE new == NewBits(data, count)
           longer == w \o new
<1>1. /\ new \in Seq(Bit) /\ Len(new) = count
      /\ \A i \in 1 .. count : new[i] = data[i - 1]
    BY NewBitsFields
<1>2. count \in Nat /\ Len(w) \in Nat
    BY StreamAssumption
<1> HIDE DEF new
<1>3. longer = w \o new
    OBVIOUS
<1>4. longer \in Seq(Bit) /\ Len(longer) = Len(w) + count
    BY <1>1, <1>3, ConcatProperties
<1>5. \A i \in 1 .. Len(w) : longer[i] = w[i]
    BY <1>1, <1>2, <1>3
<1>6. \A i \in 1 .. count : longer[Len(w) + i] = new[i]
    BY <1>1, <1>2, <1>3
<1>7. QED
    BY <1>1, <1>4, <1>5, <1>6 DEF new
\* A write keeps the bits below the old head, and adds its own.
LEMMA WriteHolds ==
    ASSUME NEW s, OutputType(s), NEW data \in Byte, NEW count \in 1 .. ByteBits,
           NEW w, Holds(s.mBuffer, w, s.mBitHead),
           NEW longer,
           \A i \in 1 .. s.mBitHead : longer[i] = w[i],
           \A i \in 1 .. count : longer[s.mBitHead + i] = data[i - 1],
           NEW t, t = WriteByte(s, data, count)
    PROVE  Holds(t.mBuffer, longer, t.mBitHead)
<1> DEFINE h == s.mBitHead
           bo == ByteOffset(h)
           bf == BitOffset(h)
<1>1. /\ ByteBits \in Nat /\ ByteBits >= 1 /\ count \in Nat /\ count >= 1
      /\ count <= ByteBits /\ h \in Nat
    BY StreamAssumption DEF OutputType
<1>2. bo \in Nat /\ bf \in BitIndex /\ h = Start(bo) + bf
    BY <1>1, Position
<1>3. bf \in Nat /\ bf < ByteBits
    BY <1>1, <1>2 DEF BitIndex
<1>4. /\ \A i \in 0 .. bo - 1 : t.mBuffer[i] = s.mBuffer[i]
      /\ \A j \in BitIndex :
             t.mBuffer[bo][j] = IF j < bf THEN s.mBuffer[bo][j] ELSE data[j - bf]
      /\ ByteBits < bf + count =>
             \A j \in BitIndex : t.mBuffer[bo + 1][j] =
                 IF j < bf THEN data[j + (ByteBits - bf)] ELSE 0
    BY WriteByteFields
<1>5. /\ t.mBitHead = h + count
      /\ \A i \in 1 .. h : longer[i] = w[i]
      /\ \A i \in 1 .. count : longer[h + i] = data[i - 1]
    BY WriteByteFields
<1>6. Start(bo + 1) = Start(bo) + ByteBits
    BY <1>1, <1>2 DEF Start
<1>7. \A k \in Nat : k < h => longer[k + 1] = w[k + 1]
    BY <1>1, <1>5
<1>8. \A k \in Nat : k < count => longer[h + k + 1] = data[k]
    <2>1. ASSUME NEW k \in Nat, k < count PROVE longer[h + k + 1] = data[k]
        <3>1. k + 1 \in 1 .. count /\ h + (k + 1) = h + k + 1 /\ (k + 1) - 1 = k
            BY <1>1, <2>1
        <3>2. longer[h + (k + 1)] = data[(k + 1) - 1]
            BY <1>5, <3>1
        <3>3. QED
            BY <3>1, <3>2
    <2>2. QED
        BY <2>1
<1> HIDE DEF h, bo, bf
<1>9. \A q \in Nat, r \in BitIndex : Start(q) + r < h =>
          s.mBuffer[q][r] = w[Start(q) + r + 1]
    BY DEF Holds, h
<1>10. SUFFICES ASSUME NEW q \in Nat, NEW r \in BitIndex, Start(q) + r < h + count
                PROVE  t.mBuffer[q][r] = longer[Start(q) + r + 1]
    BY <1>5 DEF Holds
<1>11. r \in Nat /\ r < ByteBits /\ Start(q) \in Nat /\ Start(bo) \in Nat
    <2>1. r \in Nat /\ r < ByteBits
        BY <1>1 DEF BitIndex
    <2>2. QED
        BY <1>2, <2>1, StartIsNat
<1>12. CASE q < bo
    <2>1. Start(q) + ByteBits <= Start(bo)
        BY <1>2, <1>12, StartOrder
    <2>2. Start(q) + r \in Nat /\ Start(q) + r < h
        BY <1>1, <1>2, <1>3, <1>11, <2>1
    <2>3. q \in 0 .. bo - 1
        BY <1>2, <1>12
    <2>4. QED
        BY <1>4, <1>7, <1>9, <2>2, <2>3
<1>13. CASE q = bo
    <2>1. CASE r < bf
        <3>1. Start(q) + r \in Nat /\ Start(q) + r < h
            BY <1>2, <1>3, <1>11, <1>13, <2>1
        <3>2. t.mBuffer[q][r] = s.mBuffer[q][r]
            BY <1>4, <1>13, <2>1
        <3>3. QED
            BY <1>7, <1>9, <3>1, <3>2
    <2>2. CASE ~(r < bf)
        <3>1. /\ r - bf \in Nat /\ r - bf < count
              /\ h + (r - bf) + 1 = Start(q) + r + 1
            BY <1>1, <1>2, <1>3, <1>10, <1>11, <1>13, <2>2
        <3>2. t.mBuffer[q][r] = data[r - bf]
            BY <1>4, <1>13, <2>2
        <3>3. longer[h + (r - bf) + 1] = data[r - bf]
            BY <1>8, <3>1
        <3>4. QED
            BY <3>1, <3>2, <3>3
    <2>3. QED
        BY <2>1, <2>2
<1>14. CASE q = bo + 1
    <2>1. ByteBits + r < bf + count
        BY <1>1, <1>2, <1>3, <1>6, <1>10, <1>11, <1>14
    <2>2. r < bf /\ ByteBits < bf + count
        BY <1>1, <1>3, <1>11, <2>1
    <2>3. t.mBuffer[q][r] = data[r + (ByteBits - bf)]
        BY <1>4, <1>14, <2>2
    <2>4. /\ r + (ByteBits - bf) \in Nat /\ r + (ByteBits - bf) < count
          /\ h + (r + (ByteBits - bf)) + 1 = Start(q) + r + 1
        BY <1>1, <1>2, <1>3, <1>6, <1>11, <1>14, <2>1
    <2>5. longer[h + (r + (ByteBits - bf)) + 1] = data[r + (ByteBits - bf)]
        BY <1>8, <2>4
    <2>6. QED
        BY <2>3, <2>4, <2>5
<1>15. ~ bo + 1 < q
    <2>1. bo + 1 < q => Start(bo + 1) + ByteBits <= Start(q)
        BY <1>2, StartOrder
    <2>2. QED
        BY <1>1, <1>2, <1>3, <1>6, <1>10, <1>11, <2>1
<1>16. QED
    BY <1>2, <1>12, <1>13, <1>14, <1>15

\* A write leaves no bit unwritten in the bytes it touches.
LEMMA WriteIsClean ==
    ASSUME NEW s, OutputType(s), NEW data \in Byte, NEW count \in 1 .. ByteBits,
           Clean(s.mBuffer, s.mBitHead),
           NEW t, t = WriteByte(s, data, count)
    PROVE  Clean(t.mBuffer, t.mBitHead)
<1> DEFINE h == s.mBitHead
           bo == ByteOffset(h)
           bf == BitOffset(h)
<1>1. /\ ByteBits \in Nat /\ ByteBits >= 1 /\ count \in Nat /\ count >= 1
      /\ count <= ByteBits /\ h \in Nat
    BY StreamAssumption DEF OutputType
<1>2. bo \in Nat /\ bf \in BitIndex /\ h = Start(bo) + bf
    BY <1>1, Position
<1>3. bf \in Nat /\ bf < ByteBits
    BY <1>1, <1>2 DEF BitIndex
<1>4. /\ t.mBitHead = h + count
      /\ \A i \in 0 .. bo - 1 : t.mBuffer[i] = s.mBuffer[i]
      /\ \A j \in BitIndex :
             t.mBuffer[bo][j] = IF j < bf THEN s.mBuffer[bo][j] ELSE data[j - bf]
      /\ ByteBits < bf + count =>
             \A j \in BitIndex : t.mBuffer[bo + 1][j] =
                 IF j < bf THEN data[j + (ByteBits - bf)] ELSE 0
    BY WriteByteFields
<1>5. Start(bo + 1) = Start(bo) + ByteBits
    BY <1>1, <1>2 DEF Start
<1> HIDE DEF h, bo, bf
<1>6. \A q \in Nat, r \in BitIndex : Start(q) < h => s.mBuffer[q][r] # Unwritten
    BY DEF Clean, h
<1>7. \A j \in BitIndex : data[j] # Unwritten
    BY DEF Byte, Bit, Unwritten
<1>8. SUFFICES ASSUME NEW q \in Nat, NEW r \in BitIndex, Start(q) < h + count
               PROVE  t.mBuffer[q][r] # Unwritten
    BY <1>4 DEF Clean
<1>9. r \in Nat /\ r < ByteBits /\ Start(q) \in Nat /\ Start(bo) \in Nat
    BY <1>1, <1>2, StartIsNat DEF BitIndex
<1>10. CASE q < bo
    <2>1. Start(q) + ByteBits <= Start(bo)
        BY <1>2, <1>10, StartOrder
    <2>2. Start(q) < h /\ q \in 0 .. bo - 1
        BY <1>1, <1>2, <1>3, <1>9, <1>10, <2>1
    <2>3. QED
        BY <1>4, <1>6, <2>2
<1>11. CASE q = bo
    <2>1. CASE r < bf
        <3>1. Start(q) < h
            BY <1>2, <1>3, <1>9, <1>11, <2>1
        <3>2. t.mBuffer[q][r] = s.mBuffer[q][r]
            BY <1>4, <1>11, <2>1
        <3>3. QED
            BY <1>6, <3>1, <3>2
    <2>2. CASE ~(r < bf)
        <3>1. r - bf \in BitIndex
            BY <1>1, <1>3, <1>9, <2>2 DEF BitIndex
        <3>2. t.mBuffer[q][r] = data[r - bf]
            BY <1>4, <1>11, <2>2
        <3>3. QED
            BY <1>7, <3>1, <3>2
    <2>3. QED
        BY <2>1, <2>2
<1>12. CASE q = bo + 1
    <2>1. ByteBits < bf + count
        BY <1>1, <1>2, <1>3, <1>5, <1>8, <1>9, <1>12
    <2>2. t.mBuffer[q][r] = IF r < bf THEN data[r + (ByteBits - bf)] ELSE 0
        BY <1>4, <1>12, <2>1
    <2>3. r < bf => r + (ByteBits - bf) \in BitIndex
        BY <1>1, <1>3, <1>9 DEF BitIndex
    <2>4. 0 # Unwritten
        BY DEF Unwritten
    <2>5. QED
        BY <1>7, <2>2, <2>3, <2>4
<1>13. ~ bo + 1 < q
    <2>1. bo + 1 < q => Start(bo + 1) + ByteBits <= Start(q)
        BY <1>2, StartOrder
    <2>2. QED
        BY <1>1, <1>2, <1>3, <1>5, <1>8, <1>9, <2>1
<1>14. QED
    BY <1>2, <1>10, <1>11, <1>12, <1>13
\* The invariants, byte by byte.
LEMMA HoldsByByte ==
    ASSUME NEW buffer, NEW w, NEW h \in Nat
    PROVE  Holds(buffer, w, h) <=> \A k \in 0 .. h - 1 : BitAt(buffer, k) = w[k + 1]
<1>1. ASSUME Holds(buffer, w, h), NEW k \in 0 .. h - 1
      PROVE  BitAt(buffer, k) = w[k + 1]
    <2>1. k \in Nat /\ k < h
        BY <1>1
    <2>2. /\ ByteOffset(k) \in Nat /\ BitOffset(k) \in BitIndex
          /\ k = Start(ByteOffset(k)) + BitOffset(k)
        BY <2>1, Position
    <2>3. QED
        BY <1>1, <2>1, <2>2 DEF Holds, BitAt
<1>2. ASSUME \A k \in 0 .. h - 1 : BitAt(buffer, k) = w[k + 1],
             NEW q \in Nat, NEW r \in BitIndex, Start(q) + r < h
      PROVE  buffer[q][r] = w[Start(q) + r + 1]
    <2> DEFINE k == Start(q) + r
    <2>1. k \in Nat /\ ByteOffset(k) = q /\ BitOffset(k) = r
        BY PositionOf
    <2>2. k < h
        BY <1>2
    <2>3. k \in 0 .. h - 1
        BY <2>1, <2>2
    <2>4. BitAt(buffer, k) = buffer[q][r]
        BY <2>1 DEF BitAt
    <2>5. BitAt(buffer, k) = w[k + 1]
        BY <1>2, <2>3
    <2>6. QED
        BY <2>4, <2>5
<1>3. QED
    BY <1>1, <1>2 DEF Holds

LEMMA CleanByByte ==
    ASSUME NEW buffer, NEW h \in Nat
    PROVE  Clean(buffer, h)
               <=> \A k \in 0 .. BytesFor(h) * ByteBits - 1 :
                       BitAt(buffer, k) # Unwritten
<1> DEFINE n == BytesFor(h)
<1>1. n \in Nat /\ \A q \in Nat : q < n <=> Start(q) < h
    BY BytesForCounts
<1> HIDE DEF n
<1>2. ByteBits \in Nat /\ ByteBits >= 1 /\ Start(n) \in Nat
    BY <1>1, StreamAssumption, StartIsNat
<1>3. ASSUME NEW q \in Nat, NEW r \in BitIndex
      PROVE  Start(q) + r < Start(n) <=> q < n
    <2>1. r \in Nat /\ r < ByteBits /\ Start(q) \in Nat
        BY <1>2, StartIsNat DEF BitIndex
    <2>2. q < n => Start(q) + ByteBits <= Start(n)
        BY <1>1, StartOrder
    <2>3. n <= q => Start(n) <= Start(q)
        BY <1>1, StartOrder
    <2>4. QED
        BY <1>1, <1>2, <2>1, <2>2, <2>3
<1>4. ASSUME Clean(buffer, h), NEW k \in 0 .. Start(n) - 1
      PROVE  BitAt(buffer, k) # Unwritten
    <2>1. k \in Nat /\ k < Start(n)
        BY <1>2, <1>4
    <2>2. /\ ByteOffset(k) \in Nat /\ BitOffset(k) \in BitIndex
          /\ k = Start(ByteOffset(k)) + BitOffset(k)
        BY <2>1, Position
    <2>3. Start(ByteOffset(k)) < h
        BY <1>1, <1>3, <2>1, <2>2
    <2>4. QED
        BY <1>4, <2>2, <2>3 DEF Clean, BitAt
<1>5. ASSUME \A k \in 0 .. Start(n) - 1 : BitAt(buffer, k) # Unwritten,
             NEW q \in Nat, NEW r \in BitIndex, Start(q) < h
      PROVE  buffer[q][r] # Unwritten
    <2> DEFINE k == Start(q) + r
    <2>1. k \in Nat /\ ByteOffset(k) = q /\ BitOffset(k) = r
        BY PositionOf
    <2>2. k < Start(n)
        BY <1>1, <1>3, <1>5
    <2>3. k \in 0 .. Start(n) - 1
        BY <1>2, <2>1, <2>2
    <2>4. BitAt(buffer, k) = buffer[q][r]
        BY <2>1 DEF BitAt
    <2>5. QED
        BY <1>5, <2>3, <2>4
<1>6. Start(n) = BytesFor(h) * ByteBits
    BY DEF Start, n
<1>7. QED
    BY <1>4, <1>5, <1>6 DEF Clean

LEMMA InvariantByByte ==
    ASSUME OutputType(out)
    PROVE  /\ StreamHoldsWhatWasWritten
                  <=> /\ out.mBitHead = Len(written)
                      /\ Holds(out.mBuffer, written, out.mBitHead)
           /\ OnlyWrittenBitsAreSent <=> Clean(out.mBuffer, out.mBitHead)
<1>1. out.mBitHead \in Nat
    BY DEF OutputType
<1>2. QED
    BY <1>1, HoldsByByte, CleanByByte
       DEF StreamHoldsWhatWasWritten, OnlyWrittenBitsAreSent, GetByteLength

----------------------------------------------------------------------------
(***************************************************************************)
(* The calls of WriteBits that a field makes.                              *)
(***************************************************************************)

LEMMA BitsOfNumbers == \A n, i \in Nat : BitOf(n, i) \in Bit
BY DEF BitOf, Bit

LEMMA NumberIsTyped == \A n \in Nat : NumberOf(n) \in Number
<1> SUFFICES ASSUME NEW n \in Nat, NEW j \in 1 .. IntBytes, NEW i \in BitIndex
             PROVE  BitOf(n, ByteBits * (IntBytes - j) + i) \in Bit
    BY DEF NumberOf, Number, Byte
<1>1. ByteBits \in Nat /\ IntBytes - j \in Nat /\ i \in Nat
    BY StreamAssumption, ObjectAssumption DEF BitIndex
<1>2. ByteBits * (IntBytes - j) \in Nat
    BY <1>1
<1>3. QED
    BY <1>1, <1>2, BitsOfNumbers

LEMMA ReverseOf ==
    ASSUME NEW b, Len(b) = IntBytes
    PROVE  Reverse(b) = [i \in 1 .. IntBytes |-> b[(IntBytes - i) + 1]]
BY DEF Reverse

\* Swapping what a machine has in its memory gives the number again.
LEMMA SwappedBack ==
    ASSUME NEW number \in Number, NEW o
    PROVE  Swapped(InMemory(number, o), o) = number
<1>1. IntBytes \in Nat
    BY ObjectAssumption
<1>2. ASSUME NEW b \in Number
      PROVE  Reverse(b) = [i \in 1 .. IntBytes |-> b[(IntBytes - i) + 1]]
    <2>1. Len(b) = IntBytes
        BY <1>1 DEF Number
    <2>2. QED
        BY <2>1 DEF Reverse
<1>3. \A i \in 1 .. IntBytes : /\ (IntBytes - i) + 1 \in 1 .. IntBytes
                               /\ (IntBytes - ((IntBytes - i) + 1)) + 1 = i
    BY <1>1
<1>4. Reverse(number) \in Number
    BY <1>2, <1>3 DEF Number
<1>5. Reverse(Reverse(number)) = number
    <2>1. PICK back : back = Reverse(number)
        OBVIOUS
    <2>2. \A i \in 1 .. IntBytes : back[i] = number[(IntBytes - i) + 1]
        BY <1>2, <2>1
    <2>3. Reverse(back) = [i \in 1 .. IntBytes |-> back[(IntBytes - i) + 1]]
        BY <1>2, <1>4, <2>1
    <2>4. \A i \in 1 .. IntBytes : back[(IntBytes - i) + 1] = number[i]
        BY <1>3, <2>2
    <2>5. number = [i \in 1 .. IntBytes |-> number[i]]
        BY DEF Number
    <2>6. QED
        BY <2>1, <2>3, <2>4, <2>5
<1>6. QED
    BY <1>5 DEF Swapped, InMemory

LEMMA WholeTurnsCount ==
    ASSUME NEW n \in Nat, NEW i \in 1 .. n
    PROVE  /\ BytesFor(n * ByteBits) = n
           /\ CountOfTurn(n * ByteBits, i) = ByteBits
<1>1. BytesFor(n * ByteBits) = n
    BY BytesForWhole DEF Start
<1>2. i \in Nat /\ i <= n /\ ByteBits \in Nat
    BY StreamAssumption
<1>3. CASE i < n
    BY <1>1, <1>3 DEF CountOfTurn
<1>4. CASE i = n
    <2>1. CountOfTurn(n * ByteBits, n) = n * ByteBits - ByteBits * (n - 1)
        BY <1>1 DEF CountOfTurn
    <2>2. QED
        BY <1>1, <1>2, <1>4, <2>1
<1>5. QED
    BY <1>1, <1>2, <1>3, <1>4

\* The calls for whole bytes.
WholeTurn(byte) == [data |-> byte, count |-> ByteBits]

LEMMA WholeTurns ==
    ASSUME NEW bytes \in Seq(Byte)
    PROVE  /\ Turns(bytes, Len(bytes) * ByteBits) \in Seq(Turn)
           /\ Turns(bytes, Len(bytes) * ByteBits)
                  = [i \in 1 .. Len(bytes) |-> WholeTurn(bytes[i])]
<1> DEFINE n == Len(bytes)
<1>1. n \in Nat /\ DOMAIN bytes = 1 .. n /\ \A i \in 1 .. n : bytes[i] \in Byte
    BY LenProperties
<1> HIDE DEF n
<1>2. BytesFor(n * ByteBits) = n
    BY <1>1, BytesForWhole DEF Start
<1>3. \A i \in 1 .. n : CountOfTurn(n * ByteBits, i) = ByteBits
    BY <1>1, WholeTurnsCount
<1>4. ByteBits \in 1 .. ByteBits
    BY StreamAssumption
<1>5. Turns(bytes, n * ByteBits)
          = [i \in 1 .. n |-> WholeTurn(bytes[i])]
    BY <1>2, <1>3 DEF Turns, WholeTurn
<1>6. \A i \in 1 .. n : WholeTurn(bytes[i]) \in Turn
    BY <1>1, <1>4 DEF Turn, WholeTurn
<1>7. Turns(bytes, n * ByteBits) \in [1 .. n -> Turn]
    BY <1>5, <1>6
<1>8. \A q \in [1 .. n -> Turn] : q \in Seq(Turn)
    BY <1>1
<1>9. QED
    BY <1>5, <1>7, <1>8 DEF n

LEMMA TurnsOfNumberAreWhole ==
    ASSUME NEW number \in Number, NEW o
    PROVE  /\ TurnsOfNumber(number, o) \in Seq(Turn)
           /\ TurnsOfNumber(number, o)
                  = [i \in 1 .. IntBytes |-> WholeTurn(number[i])]
<1>1. Swapped(InMemory(number, o), o) = number
    BY SwappedBack
<1>2. number \in Seq(Byte) /\ Len(number) = IntBytes
    BY ObjectAssumption DEF Number
<1>3. TurnsOfNumber(number, o) = Turns(number, Len(number) * ByteBits)
    BY <1>1, <1>2 DEF TurnsOfNumber, IntBits
<1>4. QED
    BY <1>2, <1>3, WholeTurns

\* Three kinds of actions and one more value need two bits.
LEMMA ActionBitsValue == ActionBits \in 1 .. ByteBits
<1>1. 2^0 = 1 /\ 2^1 = 2 /\ 2^2 = 4 /\ 2^3 = 8
    OBVIOUS
<1> DEFINE P(n) == 2^n > 3 /\ \A m \in 0 .. n - 1 : 2^m <= 3
<1>2. P(2)
    <2>1. \A m \in 0 .. 2 - 1 : m = 0 \/ m = 1
        OBVIOUS
    <2>2. QED
        BY <1>1, <2>1
<1>3. \A n \in 0 .. 3 : P(n) => n = 2
    <2>1. \A n \in 0 .. 3 : n = 0 \/ n = 1 \/ n = 2 \/ n = 3
        OBVIOUS
    <2>2. ~ P(0) /\ ~ P(1)
        BY <1>1
    <2>3. ~ P(3)
        <3>1. 2 \in 0 .. 3 - 1
            OBVIOUS
        <3>2. QED
            BY <1>1, <3>1
    <2>4. QED
        BY <2>1, <2>2, <2>3
<1>4. ActionBits = CHOOSE n \in 0 .. 3 : P(n)
    BY DEF ActionBits, GetRequiredBits, RA_MAX
<1>5. 2 \in 0 .. 3
    OBVIOUS
<1> HIDE DEF P
<1>6. ActionBits = 2
    BY <1>2, <1>3, <1>4, <1>5
<1>7. QED
    BY <1>6, ActionAssumption, StreamAssumption

\* What kinds of fields there are.
LEMMA KindsOfFields ==
    ASSUME NEW f \in Field
    PROVE  /\ f = [kind |-> f.kind, value |-> f.value]
           /\ \/ f.kind = "bool" /\ \E n \in {0, 1} : f.value = NumberOf(n)
              \/ /\ f.kind = "action"
                 /\ \E n \in 0 .. RA_MAX - 1 : f.value = NumberOf(n)
              \/ f.kind = "int" /\ f.value \in Number
              \/ f.kind = "string" /\ f.value \in Seq(Byte) /\ f.value \in Strings
<1>1. CASE f \in [kind : {"bool"}, value : {NumberOf(n) : n \in {0, 1}}]
    BY <1>1
<1>2. CASE f \in [kind : {"action"}, value : {NumberOf(n) : n \in 0 .. RA_MAX - 1}]
    BY <1>2
<1>3. CASE f \in [kind : {"int"}, value : Ints]
    BY <1>3, ObjectAssumption
<1>4. CASE f \in [kind : {"string"}, value : Strings]
    BY <1>4, ObjectAssumption
<1>5. QED
    BY <1>1, <1>2, <1>3, <1>4 DEF Field

\* The calls of WriteBits a field makes: of a byte each, but for a call that is
\* the only one.
LEMMA CallsOfFields ==
    ASSUME NEW f \in Field, NEW o,
           NEW calls, calls = TurnsOfField(f, o)
    PROVE  /\ calls \in Seq(Turn)
           /\ f.kind = "bool" =>
                  calls = <<[data |-> LowestByte(f.value), count |-> 1]>>
           /\ f.kind = "action" =>
                  calls = <<[data |-> LowestByte(f.value), count |-> ActionBits]>>
           /\ f.kind = "int" =>
                  /\ Len(calls) = IntBytes
                  /\ \A i \in 1 .. IntBytes : calls[i] = WholeTurn(f.value[i])
           /\ f.kind = "string" =>
                  /\ Len(calls) = IntBytes + Len(f.value)
                  /\ \A i \in 1 .. IntBytes :
                         calls[i] = WholeTurn(NumberOf(Len(f.value))[i])
                  /\ \A i \in 1 .. Len(f.value) :
                         calls[IntBytes + i] = WholeTurn(f.value[i])
<1>1. \A number \in Number : LowestByte(number) \in Byte
    BY ObjectAssumption DEF LowestByte, Number
<1>2. 1 \in 1 .. ByteBits /\ IntBytes \in Nat /\ IntBytes >= 1
    BY StreamAssumption, ObjectAssumption
<1>3. CASE f.kind = "bool" /\ f.value \in Number
    BY <1>1, <1>2, <1>3 DEF TurnsOfField, Turn
<1>4. CASE f.kind = "action" /\ f.value \in Number
    BY <1>1, <1>4, ActionBitsValue DEF TurnsOfField, Turn
<1>5. CASE f.kind = "int" /\ f.value \in Number
    <2>1. calls = TurnsOfNumber(f.value, o)
        BY <1>5 DEF TurnsOfField
    <2>2. /\ calls \in Seq(Turn)
          /\ calls = [i \in 1 .. IntBytes |-> WholeTurn(f.value[i])]
        BY <1>5, <2>1, TurnsOfNumberAreWhole
    <2>3. Len(calls) = IntBytes
        BY <1>2, <2>2
    <2>4. QED
        BY <1>5, <2>2, <2>3
<1>6. CASE f.kind = "string" /\ f.value \in Seq(Byte)
    <2> DEFINE first == TurnsOfNumber(NumberOf(Len(f.value)), o)
               rest == Turns(f.value, Len(f.value) * ByteBits)
    <2>1. Len(f.value) \in Nat /\ NumberOf(Len(f.value)) \in Number
        BY <1>6, NumberIsTyped
    <2>2. /\ first \in Seq(Turn)
          /\ first = [i \in 1 .. IntBytes |-> WholeTurn(NumberOf(Len(f.value))[i])]
        BY <2>1, TurnsOfNumberAreWhole
    <2>3. /\ rest \in Seq(Turn)
          /\ rest = [i \in 1 .. Len(f.value) |-> WholeTurn(f.value[i])]
        BY <1>6, WholeTurns
    <2>4. calls = first \o rest
        BY <1>6 DEF TurnsOfField
    <2> HIDE DEF first, rest
    <2>5. Len(first) = IntBytes /\ Len(rest) = Len(f.value)
        BY <1>2, <2>1, <2>2, <2>3
    <2>6. /\ calls \in Seq(Turn) /\ Len(calls) = Len(first) + Len(rest)
          /\ \A i \in 1 .. Len(first) + Len(rest) : calls[i] =
                 IF i <= Len(first) THEN first[i] ELSE rest[i - Len(first)]
        <3>1. first \in Seq(Turn) /\ rest \in Seq(Turn)
            BY <2>2, <2>3
        <3>2. /\ first \o rest \in Seq(Turn)
              /\ Len(first \o rest) = Len(first) + Len(rest)
              /\ \A i \in 1 .. Len(first) + Len(rest) : (first \o rest)[i] =
                     IF i <= Len(first) THEN first[i] ELSE rest[i - Len(first)]
            BY <3>1, ConcatProperties
        <3>3. QED
            BY <2>4, <3>2
    <2>7. \A i \in 1 .. IntBytes : calls[i] = first[i]
        BY <1>2, <2>1, <2>5, <2>6
    <2>8. \A i \in 1 .. Len(f.value) : calls[IntBytes + i] = rest[i]
        <3>1. ASSUME NEW i \in 1 .. Len(f.value) PROVE calls[IntBytes + i] = rest[i]
            <4>1. /\ IntBytes + i \in 1 .. Len(first) + Len(rest)
                  /\ ~ IntBytes + i <= Len(first) /\ (IntBytes + i) - Len(first) = i
                BY <1>2, <2>1, <2>5
            <4>2. QED
                BY <2>6, <4>1
        <3>2. QED
            BY <3>1
    <2>9. QED
        BY <1>6, <2>2, <2>3, <2>5, <2>6, <2>7, <2>8
<1>7. \A n \in Nat : NumberOf(n) \in Number
    BY NumberIsTyped
<1>8. QED
    BY <1>3, <1>4, <1>5, <1>6, <1>7, KindsOfFields DEF RA_MAX

----------------------------------------------------------------------------
(***************************************************************************)
(* The buffers.                                                            *)
(***************************************************************************)

LEMMA BufferInit == Init => BufferInvariant
<1> SUFFICES ASSUME Init PROVE BufferInvariant
    OBVIOUS
<1>1. /\ out = NewOutput /\ turns = << >> /\ written = << >>
      /\ in = NewInput(<< >>, 0)
    BY DEF Init
<1>2. /\ ByteBits \in Nat /\ ByteBits >= 1 /\ InitialBytes \in Nat
      /\ InitialBytes >= 1
    BY StreamAssumption
<1>3. /\ InitialBytes * ByteBits = Start(InitialBytes)
      /\ BytesFor(InitialBytes * ByteBits) = InitialBytes
    BY <1>2, BytesForWhole DEF Start
<1>4. BitOffset(InitialBytes * ByteBits) = 0
    <2>1. 0 \in BitIndex /\ Start(InitialBytes) + 0 = Start(InitialBytes)
        BY <1>2, StartIsNat DEF BitIndex
    <2>2. BitOffset(Start(InitialBytes) + 0) = 0
        BY <1>2, <2>1, PositionOf
    <2>3. QED
        BY <1>3, <2>1, <2>2
<1>5. InitialBytes * ByteBits >= ByteBits
    <2>1. 1 <= InitialBytes => Start(1) <= Start(InitialBytes)
        BY <1>2, StartOrder
    <2>2. Start(1) = ByteBits
        BY <1>2 DEF Start
    <2>3. QED
        BY <1>2, <1>3, <2>1, <2>2
<1>6. FreshCell \in Cell
    BY DEF FreshCell, Cell
<1>7. /\ DOMAIN out = StreamFields /\ out.mBitHead = 0
      /\ out.mBitCapacity = InitialBytes * ByteBits
      /\ out.mBuffer \in [0 .. InitialBytes - 1 -> Cell]
    BY <1>1, <1>6 DEF NewOutput, StreamFields
<1>8. InitialBytes * ByteBits \in Nat
    BY <1>2
<1>9. OutputType(out)
    BY <1>3, <1>4, <1>5, <1>7, <1>8 DEF OutputType
<1>10. Holds(out.mBuffer, written, 0) /\ Clean(out.mBuffer, 0)
    <2>1. ASSUME NEW q \in Nat, NEW r \in BitIndex
          PROVE  ~ Start(q) < 0 /\ ~ Start(q) + r < 0
        BY StartIsNat DEF BitIndex
    <2>2. QED
        BY <2>1 DEF Holds, Clean
<1>11. Len(written) = 0
    BY <1>1
<1>12. InputBufferType(in)
    <2>1. BytesFor(0) = 0
        BY <1>2, BytesForWhole DEF Start
    <2>2. in.mBitCapacity = 0 /\ DOMAIN in = StreamFields
        BY <1>1, <2>1 DEF NewInput, StreamFields
    <2>3. in.mBuffer = [i \in 0 .. 0 - 1 |-> << >>[i]]
        BY <1>1, <2>1 DEF NewInput
    <2>4. in.mBuffer \in [0 .. 0 - 1 -> Byte]
        BY <2>3
    <2>5. QED
        BY <2>1, <2>2, <2>4 DEF InputBufferType
<1>13. turns \in Seq(Turn) /\ written \in Seq(Bit)
    BY <1>1
<1>14. QED
    BY <1>7, <1>9, <1>10, <1>11, <1>12, <1>13, InvariantByByte DEF BufferInvariant

\* Steps that write nothing.
LEMMA BufferKept ==
    ASSUME BufferInvariant, UNCHANGED <<out, written>>,
           turns' \in Seq(Turn), InputBufferType(in)'
    PROVE  BufferInvariant'
BY DEF BufferInvariant, OutputType, StreamHoldsWhatWasWritten,
       OnlyWrittenBitsAreSent

LEMMA BufferWrite == BufferInvariant /\ Write => BufferInvariant'
<1> SUFFICES ASSUME BufferInvariant, Write PROVE BufferInvariant'
    OBVIOUS
<1>1. PICK f \in Field : turns' = TurnsOfField(f, order.sender)
    BY DEF Write
<1>2. turns' \in Seq(Turn)
    BY <1>1, CallsOfFields
<1>3. UNCHANGED <<out, written, in>>
    BY DEF Write
<1>4. InputBufferType(in)'
    BY <1>3 DEF BufferInvariant, InputBufferType
<1>5. QED
    BY <1>2, <1>3, <1>4, BufferKept

LEMMA BufferWriteBits == BufferInvariant /\ WriteBits => BufferInvariant'
<1> SUFFICES ASSUME BufferInvariant, WriteBits PROVE BufferInvariant'
    OBVIOUS
<1>1. PICK turn : turn = Head(turns)
    OBVIOUS
<1>2. turn \in Turn /\ Tail(turns) \in Seq(Turn)
    <2>1. turns \in Seq(Turn) /\ turns # << >>
        BY DEF BufferInvariant, WriteBits
    <2>2. QED
        BY <1>1, <2>1, HeadTailProperties
<1>3. PICK data, count : data = turn.data /\ count = turn.count
    OBVIOUS
<1>4. data \in Byte /\ count \in 1 .. ByteBits
    BY <1>2, <1>3 DEF Turn
<1>5. /\ out' = WriteByte(out, data, count)
      /\ written' = written \o NewBits(data, count)
      /\ turns' = Tail(turns) /\ in' = in
    BY <1>1, <1>3 DEF WriteBits, NewBits
<1>6. /\ OutputType(out) /\ written \in Seq(Bit)
      /\ out.mBitHead = Len(written)
      /\ Holds(out.mBuffer, written, out.mBitHead)
      /\ Clean(out.mBuffer, out.mBitHead)
    BY InvariantByByte DEF BufferInvariant
<1>7. OutputType(out') /\ out'.mBitHead = out.mBitHead + count
    <2>1. PICK q, r : q = ByteOffset(out.mBitHead) /\ r = BitOffset(out.mBitHead)
        OBVIOUS
    <2>2. PICK s, t : s = out /\ t = WriteByte(s, data, count)
        OBVIOUS
    <2>3. OutputType(t) /\ t.mBitHead = s.mBitHead + count
        BY <1>4, <1>6, <2>1, <2>2, WriteByteFields
    <2>4. QED
        BY <1>5, <2>2, <2>3
<1>8. /\ written' \in Seq(Bit)
      /\ Len(written') = Len(written) + count
      /\ \A i \in 1 .. Len(written) : written'[i] = written[i]
      /\ \A i \in 1 .. count : written'[Len(written) + i] = data[i - 1]
    BY <1>4, <1>5, <1>6, LongerBits
<1>9. Holds(out'.mBuffer, written', out'.mBitHead)
    <2>1. /\ \A i \in 1 .. out.mBitHead : written'[i] = written[i]
          /\ \A i \in 1 .. count : written'[out.mBitHead + i] = data[i - 1]
        BY <1>6, <1>8
    <2>2. QED
        BY <1>4, <1>5, <1>6, <2>1, WriteHolds
<1>10. Clean(out'.mBuffer, out'.mBitHead)
    BY <1>4, <1>5, <1>6, WriteIsClean
<1>11. out'.mBitHead \in Nat
    BY <1>7 DEF OutputType
<1>12. StreamHoldsWhatWasWritten'
    BY <1>6, <1>7, <1>8, <1>9, <1>11, HoldsByByte DEF StreamHoldsWhatWasWritten
<1>13. OnlyWrittenBitsAreSent'
    BY <1>10, <1>11, CleanByByte DEF OnlyWrittenBitsAreSent, GetByteLength
<1>14. InputBufferType(in)'
    BY <1>5 DEF BufferInvariant, InputBufferType
<1>15. turns' \in Seq(Turn)
    BY <1>2, <1>5
<1>16. QED
    BY <1>7, <1>8, <1>12, <1>13, <1>14, <1>15 DEF BufferInvariant, OutputType

\* What is taken to the receiver is of bytes that were written whole.
LEMMA TransferredBytes ==
    ASSUME OutputType(out), Clean(out.mBuffer, out.mBitHead),
           NEW bits \in Nat, BytesFor(bits) <= BytesFor(out.mBitHead),
           NEW received, received = NewInput(out.mBuffer, bits)
    PROVE  InputBufferType(received)
<1> DEFINE n == BytesFor(bits)
<1>1. out.mBitHead \in Nat
    BY DEF OutputType
<1>2. n \in Nat /\ BytesFor(out.mBitHead) \in Nat
    BY <1>1, BytesForCounts
<1>3. /\ DOMAIN received = StreamFields
      /\ received.mBitCapacity = bits
      /\ received.mBuffer = [i \in 0 .. n - 1 |-> out.mBuffer[i]]
    BY DEF NewInput, StreamFields
<1>4. ASSUME NEW i \in 0 .. n - 1 PROVE out.mBuffer[i] \in Byte
    <2>1. i \in Nat /\ i < BytesFor(out.mBitHead)
        BY <1>2
    <2>2. Start(i) < out.mBitHead
        BY <1>1, <2>1, BytesForCounts
    <2>3. i \in DOMAIN out.mBuffer
        <3>1. PICK m \in Nat : /\ out.mBitCapacity = Start(m)
                               /\ DOMAIN out.mBuffer = 0 .. m - 1
            BY CapacityIsWhole
        <3>2. m <= i => Start(m) <= Start(i)
            BY <2>1, <3>1, StartOrder
        <3>3. Start(i) \in Nat /\ Start(m) \in Nat /\ out.mBitHead <= Start(m)
            BY <2>1, <3>1, StartIsNat DEF OutputType
        <3>4. i < m
            BY <1>1, <2>1, <2>2, <3>1, <3>2, <3>3
        <3>5. QED
            BY <2>1, <3>1, <3>4
    <2>4. out.mBuffer[i] \in Cell
        BY <2>3 DEF OutputType
    <2>5. \A r \in BitIndex : out.mBuffer[i][r] # Unwritten
        BY <2>1, <2>2 DEF Clean
    <2>6. QED
        BY <2>4, <2>5 DEF Cell, Byte
<1>5. received.mBuffer \in [0 .. n - 1 -> Byte]
    BY <1>3, <1>4
<1>6. QED
    BY <1>3, <1>5 DEF InputBufferType

LEMMA BufferTransfer == BufferInvariant /\ Transfer => BufferInvariant'
<1> SUFFICES ASSUME BufferInvariant, Transfer PROVE BufferInvariant'
    OBVIOUS
<1>1. UNCHANGED <<out, turns, written>> /\ turns' \in Seq(Turn)
    BY DEF Transfer, BufferInvariant, sent
<1>2. OutputType(out) /\ Clean(out.mBuffer, out.mBitHead)
    BY InvariantByByte DEF BufferInvariant
<1>3. out.mBitHead \in Nat /\ BytesFor(out.mBitHead) \in Nat
    BY <1>2, BytesForCounts DEF OutputType
<1>4. CASE in' = NewInput(out.mBuffer, out.mBitHead)
    <2>1. InputBufferType(in')
        BY <1>2, <1>3, <1>4, TransferredBytes
    <2>2. QED
        BY <1>1, <2>1, BufferKept DEF InputBufferType
<1>5. ASSUME NEW bytesReceived \in 1 .. GetByteLength(out),
             in' = NewInput(out.mBuffer, bytesReceived * ByteBits)
      PROVE  BufferInvariant'
    <2>1. bytesReceived \in Nat /\ bytesReceived <= BytesFor(out.mBitHead)
        BY <1>3 DEF GetByteLength
    <2>2. /\ bytesReceived * ByteBits \in Nat
          /\ BytesFor(bytesReceived * ByteBits) = bytesReceived
        BY <2>1, StartIsNat, BytesForWhole DEF Start
    <2>3. InputBufferType(in')
        BY <1>2, <1>5, <2>1, <2>2, TransferredBytes
    <2>4. QED
        BY <1>1, <2>3, BufferKept DEF InputBufferType
<1>6. QED
    BY <1>4, <1>5 DEF Transfer

\* Reading moves the head of the receiver's stream, and nothing that the
\* invariant is about.
LEMMA BufferRead ==
    ASSUME BufferInvariant, UNCHANGED <<out, turns, written>>,
           \/ in' = in
           \/ \E n : in' = AfterRead(in, n)
    PROVE  BufferInvariant'
<1>1. DOMAIN in = StreamFields
    BY DEF BufferInvariant, InputBufferType
<1>2. /\ DOMAIN in' = StreamFields
      /\ in'.mBuffer = in.mBuffer /\ in'.mBitCapacity = in.mBitCapacity
    <2>1. CASE in' = in
        BY <1>1, <2>1
    <2>2. ASSUME NEW n, in' = AfterRead(in, n)
          PROVE  /\ DOMAIN in' = StreamFields
                 /\ in'.mBuffer = in.mBuffer /\ in'.mBitCapacity = in.mBitCapacity
        BY <1>1, <2>2 DEF AfterRead, StreamFields
    <2>3. QED
        BY <2>1, <2>2
<1>3. InputBufferType(in)'
    BY <1>2 DEF BufferInvariant, InputBufferType
<1>4. turns' \in Seq(Turn)
    BY DEF BufferInvariant
<1>5. QED
    BY <1>3, <1>4, BufferKept

LEMMA BufferNext == BufferInvariant /\ [Next]_vars => BufferInvariant'
<1> SUFFICES ASSUME BufferInvariant, [Next]_vars PROVE BufferInvariant'
    OBVIOUS
<1>1. CASE Write
    BY <1>1, BufferWrite
<1>2. CASE WriteBits
    BY <1>2, BufferWriteBits
<1>3. CASE Transfer
    BY <1>3, BufferTransfer
<1>4. CASE ReadBool
    BY <1>4, BufferRead DEF ReadBool, Throws, Takes, sent
<1>5. CASE ReadAction
    BY <1>5, BufferRead DEF ReadAction, Throws, Takes, sent
<1>6. CASE ReadInt
    BY <1>6, BufferRead DEF ReadInt, Throws, Takes, sent
<1>7. CASE ReadStringLength
    BY <1>7, BufferRead DEF ReadStringLength, Throws, Takes, sent
<1>8. CASE ReadString
    BY <1>8, BufferRead DEF ReadString, Throws, Takes, sent
<1>9. CASE UNCHANGED vars
    BY <1>9, BufferRead DEF vars, sent
<1>10. QED
    BY <1>1, <1>2, <1>3, <1>4, <1>5, <1>6, <1>7, <1>8, <1>9 DEF Next
----------------------------------------------------------------------------
(***************************************************************************)
(* What a read returns.                                                    *)
(***************************************************************************)

\* A byte whose lowest count bits are those of data, and the rest 0.
LEMMA ByteAtBits ==
    ASSUME NEW s, InputBufferType(s), NEW head \in Nat, NEW count \in 1 .. ByteBits,
           head + count <= s.mBitCapacity,
           NEW r \in BitIndex
    PROVE  ByteAt(s, head, count)[r]
               = IF r < count THEN BitAt(s.mBuffer, head + r) ELSE 0
<1> DEFINE bo == ByteOffset(head)
           bf == BitOffset(head)
           left == ByteBits - bf
           low == ShiftRight(s.mBuffer[bo], bf)
           high == ShiftLeft(s.mBuffer[bo + 1], left)
           both == IF left < count THEN Or(low, high) ELSE low
<1>1. /\ ByteBits \in Nat /\ ByteBits >= 1 /\ count \in Nat /\ count >= 1
      /\ count <= ByteBits
    BY StreamAssumption
<1>2. bo \in Nat /\ bf \in BitIndex /\ head = Start(bo) + bf
    BY Position
<1>3. bf \in Nat /\ bf < ByteBits /\ left \in Nat /\ left = ByteBits - bf
    BY <1>1, <1>2 DEF BitIndex
<1>4. r \in Nat /\ r < ByteBits
    BY <1>1 DEF BitIndex
<1>5. ByteAt(s, head, count) = LowBits(both, count)
    BY DEF ByteAt
<1>6. low[r] = IF r + bf < ByteBits THEN s.mBuffer[bo][r + bf] ELSE 0
    BY DEF ShiftRight
<1>7. high[r] = IF r >= left THEN s.mBuffer[bo + 1][r - left] ELSE 0
    BY DEF ShiftLeft
<1>8. Or(low, high)[r] = IF low[r] = 1 \/ high[r] = 1 THEN 1
                         ELSE IF low[r] = 0 /\ high[r] = 0 THEN 0 ELSE Unwritten
    BY DEF Or
<1>9. LowBits(both, count)[r] = IF r < count THEN both[r] ELSE 0
    BY DEF LowBits
<1> HIDE DEF low, high
<1>10. both[r] = IF left < count THEN Or(low, high)[r] ELSE low[r]
    OBVIOUS
<1> HIDE DEF both, bo, bf, left
<1>11. \A q \in Nat, j \in BitIndex :
           Start(q) < s.mBitCapacity => s.mBuffer[q][j] \in {0, 1}
    <2>1. ASSUME NEW q \in Nat, NEW j \in BitIndex, Start(q) < s.mBitCapacity
          PROVE  s.mBuffer[q][j] \in {0, 1}
        <3>1. /\ s.mBitCapacity \in Nat
              /\ s.mBuffer \in [0 .. BytesFor(s.mBitCapacity) - 1 -> Byte]
            BY DEF InputBufferType
        <3>2. BytesFor(s.mBitCapacity) \in Nat /\ q < BytesFor(s.mBitCapacity)
            BY <2>1, <3>1, BytesForCounts
        <3>3. s.mBuffer[q] \in Byte
            BY <3>1, <3>2
        <3>4. QED
            BY <3>3 DEF Byte, Bit
    <2>2. QED
        BY <2>1
<1>12. s.mBitCapacity \in Nat /\ Start(bo) \in Nat
    BY <1>2, StartIsNat DEF InputBufferType
<1>13. CASE r < count /\ r + bf < ByteBits
    <2>1. r + bf \in BitIndex
        BY <1>1, <1>3, <1>4, <1>13 DEF BitIndex
    <2>2. Start(bo) < s.mBitCapacity
        BY <1>1, <1>2, <1>3, <1>12
    <2>3. low[r] \in {0, 1} /\ low[r] = s.mBuffer[bo][r + bf]
        BY <1>2, <1>6, <1>11, <1>13, <2>1, <2>2
    <2>4. high[r] = 0
        <3>1. ~ r >= left
            BY <1>1, <1>3, <1>4, <1>13
        <3>2. QED
            BY <1>7, <3>1
    <2>5. both[r] = low[r]
        BY <1>8, <1>10, <2>3, <2>4
    <2>6. /\ ByteOffset(Start(bo) + (r + bf)) = bo
          /\ BitOffset(Start(bo) + (r + bf)) = r + bf
        BY <1>2, <2>1, PositionOf
    <2>7. Start(bo) + (r + bf) = head + r
        BY <1>2, <1>3, <1>4, <1>12
    <2>8. BitAt(s.mBuffer, head + r) = s.mBuffer[bo][r + bf]
        BY <2>6, <2>7 DEF BitAt
    <2>9. QED
        BY <1>5, <1>9, <1>13, <2>3, <2>5, <2>8
<1>14. CASE r < count /\ ~ r + bf < ByteBits
    <2>1. r - left \in BitIndex /\ left < count /\ r >= left
        BY <1>1, <1>3, <1>4, <1>14 DEF BitIndex
    <2>2. Start(bo + 1) = Start(bo) + ByteBits
        BY <1>1, <1>2 DEF Start
    <2>3. Start(bo + 1) < s.mBitCapacity
        BY <1>1, <1>2, <1>3, <1>12, <2>1, <2>2
    <2>4. high[r] \in {0, 1} /\ high[r] = s.mBuffer[bo + 1][r - left]
        BY <1>2, <1>7, <1>11, <2>1, <2>3
    <2>5. low[r] = 0
        BY <1>6, <1>14
    <2>6. both[r] = high[r]
        BY <1>8, <1>10, <2>1, <2>4, <2>5
    <2>7. /\ ByteOffset(Start(bo + 1) + (r - left)) = bo + 1
          /\ BitOffset(Start(bo + 1) + (r - left)) = r - left
        BY <1>2, <2>1, PositionOf
    <2>8. Start(bo + 1) + (r - left) = head + r
        BY <1>1, <1>2, <1>3, <1>4, <1>12, <2>2
    <2>9. BitAt(s.mBuffer, head + r) = s.mBuffer[bo + 1][r - left]
        BY <2>7, <2>8 DEF BitAt
    <2>10. QED
        BY <1>5, <1>9, <1>14, <2>4, <2>6, <2>9
<1>15. CASE ~ r < count
    BY <1>5, <1>9, <1>15
<1>16. QED
    BY <1>13, <1>14, <1>15

LEMMA ByteAtIs ==
    ASSUME NEW s, InputBufferType(s), NEW head \in Nat, NEW count \in 1 .. ByteBits,
           head + count <= s.mBitCapacity,
           NEW data,
           \A r \in BitIndex : r < count => BitAt(s.mBuffer, head + r) = data[r]
    PROVE  ByteAt(s, head, count) = LowBits(data, count)
<1>1. \A r \in BitIndex :
          ByteAt(s, head, count)[r] = IF r < count THEN data[r] ELSE 0
    BY ByteAtBits
<1>2. ByteAt(s, head, count) = [r \in BitIndex |-> ByteAt(s, head, count)[r]]
    BY DEF ByteAt, LowBits
<1>3. QED
    BY <1>1, <1>2 DEF LowBits

\* Nothing is cut off a whole byte.
LEMMA LowBitsOfByte == \A data \in Byte : LowBits(data, ByteBits) = data
<1> SUFFICES ASSUME NEW data \in Byte PROVE LowBits(data, ByteBits) = data
    OBVIOUS
<1>1. \A r \in BitIndex : r < ByteBits
    BY StreamAssumption DEF BitIndex
<1>2. QED
    BY <1>1 DEF LowBits, Byte
----------------------------------------------------------------------------
(***************************************************************************)
(* Where the fields lie.                                                   *)
(***************************************************************************)

\* The calls of a field: one at least, and all but the last for a byte.
AreCalls(calls) ==
    /\ calls \in Seq(Turn) /\ Len(calls) >= 1
    /\ \A i \in 1 .. Len(calls) - 1 : calls[i].count = ByteBits

LEMMA CallsOfFieldsAre ==
    ASSUME NEW f \in Field, NEW o
    PROVE  AreCalls(TurnsOfField(f, o))
<1>1. PICK calls : calls = TurnsOfField(f, o)
    OBVIOUS
<1>2. IntBytes \in Nat /\ IntBytes >= 1
    BY ObjectAssumption
<1>3. calls \in Seq(Turn)
    BY <1>1, CallsOfFields
<1>4. CASE f.kind = "bool" \/ f.kind = "action"
    <2>1. Len(calls) = 1
        BY <1>1, <1>4, CallsOfFields
    <2>2. QED
        BY <1>1, <1>3, <2>1 DEF AreCalls
<1>5. CASE f.kind = "int"
    <2>1. /\ Len(calls) = IntBytes
          /\ \A i \in 1 .. IntBytes : calls[i] = WholeTurn(f.value[i])
        BY <1>1, <1>5, CallsOfFields
    <2>2. \A i \in 1 .. IntBytes : calls[i].count = ByteBits
        BY <2>1 DEF WholeTurn
    <2>3. QED
        BY <1>1, <1>2, <1>3, <2>1, <2>2 DEF AreCalls
<1>6. CASE f.kind = "string" /\ f.value \in Seq(Byte)
    <2>1. /\ Len(calls) = IntBytes + Len(f.value)
          /\ \A i \in 1 .. IntBytes : calls[i].count = ByteBits
          /\ \A i \in 1 .. Len(f.value) : calls[IntBytes + i].count = ByteBits
        <3>1. /\ Len(calls) = IntBytes + Len(f.value)
              /\ \A i \in 1 .. IntBytes :
                     calls[i] = WholeTurn(NumberOf(Len(f.value))[i])
              /\ \A i \in 1 .. Len(f.value) :
                     calls[IntBytes + i] = WholeTurn(f.value[i])
            BY <1>1, <1>6, CallsOfFields
        <3>2. \A byte : WholeTurn(byte).count = ByteBits
            BY DEF WholeTurn
        <3>3. \A i \in 1 .. IntBytes : calls[i].count = ByteBits
            BY <3>1, <3>2
        <3>4. \A i \in 1 .. Len(f.value) : calls[IntBytes + i].count = ByteBits
            BY <3>1, <3>2
        <3>5. QED
            BY <3>1, <3>3, <3>4
    <2>2. Len(f.value) \in Nat
        BY <1>6
    <2>3. ASSUME NEW i \in 1 .. Len(calls) PROVE calls[i].count = ByteBits
        <3>1. CASE i <= IntBytes
            BY <1>2, <2>1, <2>2, <3>1
        <3>2. CASE ~ i <= IntBytes
            <4>1. i - IntBytes \in 1 .. Len(f.value) /\ IntBytes + (i - IntBytes) = i
                BY <1>2, <2>1, <2>2, <3>2
            <4>2. QED
                BY <2>1, <4>1
        <3>3. QED
            BY <3>1, <3>2
    <2>4. QED
        BY <1>1, <1>2, <1>3, <2>1, <2>2, <2>3 DEF AreCalls
<1>7. QED
    BY <1>4, <1>5, <1>6, KindsOfFields

\* Call i of a field adds its bits after the i - 1 bytes of those before it.
LEMMA BitsAfterCalls ==
    ASSUME NEW calls, AreCalls(calls), NEW i \in 1 .. Len(calls)
    PROVE  /\ i \in Nat /\ calls[i].count \in 1 .. ByteBits /\ calls[i].data \in Byte
           /\ Start(i - 1) \in Nat
           /\ BitsAfter(calls, i - 1) = Start(i - 1)
           /\ BitsAfter(calls, i) = Start(i - 1) + calls[i].count
<1>1. /\ calls \in Seq(Turn) /\ Len(calls) \in Nat /\ i \in Nat /\ i >= 1
      /\ ByteBits \in Nat
    BY StreamAssumption DEF AreCalls
<1>2. calls[i] \in Turn
    BY <1>1
<1>3. calls[i].count \in 1 .. ByteBits /\ calls[i].data \in Byte
    BY <1>2 DEF Turn
<1>4. (i - 1) * ByteBits \in Nat
    BY <1>1
<1>5. BitsAfter(calls, i - 1) = (i - 1) * ByteBits
    <2>1. CASE i = 1
        BY <1>1, <2>1 DEF BitsAfter
    <2>2. CASE i # 1
        <3>1. i - 1 \in 1 .. Len(calls) - 1 /\ i - 1 # 0
            BY <1>1, <2>2
        <3>2. calls[i - 1].count = ByteBits
            BY <3>1 DEF AreCalls
        <3>3. BitsAfter(calls, i - 1) = ((i - 1) - 1) * ByteBits + ByteBits
            BY <3>1, <3>2 DEF BitsAfter
        <3>4. QED
            BY <1>1, <3>3
    <2>3. QED
        BY <2>1, <2>2
<1>6. BitsAfter(calls, i) = (i - 1) * ByteBits + calls[i].count
    BY <1>1 DEF BitsAfter
<1>7. QED
    BY <1>1, <1>3, <1>4, <1>5, <1>6 DEF Start

\* More calls add more bits.
LEMMA BitsAfterOrder ==
    ASSUME NEW calls, AreCalls(calls), NEW n \in 0 .. Len(calls), NEW i \in 1 .. n
    PROVE  /\ BitsAfter(calls, n) \in Nat
           /\ Start(i - 1) + calls[i].count <= BitsAfter(calls, n)
<1>1. /\ Len(calls) \in Nat /\ i \in Nat /\ i >= 1 /\ n \in Nat /\ i <= n
      /\ ByteBits \in Nat /\ n \in 1 .. Len(calls) /\ i \in 1 .. Len(calls)
    BY StreamAssumption DEF AreCalls
<1>2. /\ calls[n].count \in 1 .. ByteBits /\ Start(n - 1) \in Nat
      /\ BitsAfter(calls, n) = Start(n - 1) + calls[n].count
    BY <1>1, BitsAfterCalls
<1>3. calls[i].count \in 1 .. ByteBits /\ Start(i - 1) \in Nat
    BY <1>1, BitsAfterCalls
<1>4. PICK c, last, total : /\ c = calls[i].count /\ last = calls[n].count
                            /\ total = BitsAfter(calls, n)
    OBVIOUS
<1>5. CASE i = n
    BY <1>1, <1>2, <1>4, <1>5
<1>6. CASE i < n
    <2>1. i - 1 < n - 1 /\ i - 1 \in Nat /\ n - 1 \in Nat
        BY <1>1, <1>6
    <2>2. Start(i - 1) + ByteBits <= Start(n - 1)
        BY <2>1, StartOrder
    <2>3. c \in 1 .. ByteBits /\ last \in 1 .. ByteBits /\ total = Start(n - 1) + last
        BY <1>2, <1>3, <1>4
    <2>4. PICK before, prior : before = Start(i - 1) /\ prior = Start(n - 1)
        OBVIOUS
    <2>5. before \in Nat /\ prior \in Nat /\ before + ByteBits <= prior
        BY <1>2, <1>3, <2>2, <2>4
    <2>6. total \in Nat /\ before + c <= total
        BY <1>1, <2>3, <2>4, <2>5
    <2>7. QED
        BY <1>4, <2>4, <2>6
<1>7. QED
    BY <1>1, <1>5, <1>6

\* What lies in the message stays there when more is written.
LEMMA LieAtKept ==
    ASSUME NEW calls, AreCalls(calls), NEW n \in 0 .. Len(calls),
           NEW begin \in Nat, NEW w, LieAt(w, begin, calls, n),
           NEW h \in Nat, begin + BitsAfter(calls, n) <= h,
           NEW v, \A k \in 1 .. h : v[k] = w[k]
    PROVE  LieAt(v, begin, calls, n)
<1> SUFFICES ASSUME NEW i \in 1 .. n, NEW r \in BitIndex, r < calls[i].count
             PROVE  v[begin + Start(i - 1) + r + 1]
                        = w[begin + Start(i - 1) + r + 1]
    BY DEF LieAt, Start
<1>1. i \in 1 .. Len(calls)
    BY DEF AreCalls
<1>2. /\ BitsAfter(calls, n) \in Nat
      /\ Start(i - 1) + calls[i].count <= BitsAfter(calls, n)
    BY BitsAfterOrder
<1>3. Start(i - 1) \in Nat /\ calls[i].count \in 1 .. ByteBits
    BY <1>1, BitsAfterCalls
<1>4. r \in Nat
    BY StreamAssumption DEF BitIndex
<1>5. begin + Start(i - 1) + r + 1 \in 1 .. h
    <2>1. PICK c, total : c = calls[i].count /\ total = BitsAfter(calls, n)
        OBVIOUS
    <2>2. /\ c \in Nat /\ r < c /\ total \in Nat /\ Start(i - 1) + c <= total
          /\ begin + total <= h
        BY <1>2, <1>3, <2>1, StreamAssumption
    <2>3. QED
        BY <1>3, <1>4, <2>2
<1>6. QED
    BY <1>5

\* v begins with the first h bits of w, and the bits of a call follow.
Extends(v, w, h) == \A k \in 1 .. h : v[k] = w[k]
Adds(v, h, call) == \A k \in 1 .. call.count : v[h + k] = call.data[k - 1]

\* The next call of WriteBits adds to it.
LEMMA LieAtLonger ==
    ASSUME NEW calls, AreCalls(calls), NEW n \in 0 .. Len(calls) - 1,
           NEW begin \in Nat, NEW w, LieAt(w, begin, calls, n),
           NEW h, h = begin + BitsAfter(calls, n),
           NEW v, Extends(v, w, h), Adds(v, h, calls[n + 1])
    PROVE  /\ h \in Nat
           /\ LieAt(v, begin, calls, n + 1)
           /\ begin + BitsAfter(calls, n + 1) = h + calls[n + 1].count
<1> USE DEF Extends, Adds
<1>1. /\ Len(calls) \in Nat /\ n \in Nat /\ n \in 0 .. Len(calls)
      /\ n + 1 \in 1 .. Len(calls) /\ (n + 1) - 1 = n /\ ByteBits \in Nat
    BY StreamAssumption DEF AreCalls
<1>2. /\ calls[n + 1].count \in 1 .. ByteBits
      /\ Start(n) \in Nat
      /\ BitsAfter(calls, n) = Start(n)
      /\ BitsAfter(calls, n + 1) = Start(n) + calls[n + 1].count
    <2>1. PICK i : i = n + 1
        OBVIOUS
    <2>2. i \in 1 .. Len(calls) /\ i - 1 = n
        BY <1>1, <2>1
    <2>3. /\ calls[i].count \in 1 .. ByteBits /\ Start(i - 1) \in Nat
          /\ BitsAfter(calls, i - 1) = Start(i - 1)
          /\ BitsAfter(calls, i) = Start(i - 1) + calls[i].count
        BY <2>2, BitsAfterCalls
    <2>4. QED
        BY <2>1, <2>2, <2>3
<1>3. h \in Nat /\ h = begin + Start(n)
    BY <1>2
<1>4. LieAt(v, begin, calls, n)
    BY <1>1, <1>3, LieAtKept
<1>5. ASSUME NEW r \in BitIndex, r < calls[n + 1].count
      PROVE  v[begin + Start(n) + r + 1] = calls[n + 1].data[r]
    <2>1. r \in Nat
        BY <1>1 DEF BitIndex
    <2>2. r + 1 \in 1 .. calls[n + 1].count /\ (r + 1) - 1 = r
        <3>1. PICK c : c = calls[n + 1].count
            OBVIOUS
        <3>2. c \in Nat /\ r < c
            BY <1>1, <1>2, <1>5, <3>1
        <3>3. r + 1 \in 1 .. c /\ (r + 1) - 1 = r
            BY <2>1, <3>2
        <3>4. QED
            BY <3>1, <3>3
    <2>3. v[h + (r + 1)] = calls[n + 1].data[r]
        BY <2>2
    <2>4. h + (r + 1) = begin + Start(n) + r + 1
        BY <1>2, <1>3, <2>1
    <2>5. QED
        BY <2>3, <2>4
<1>6. LieAt(v, begin, calls, n + 1)
    <2> SUFFICES ASSUME NEW i \in 1 .. n + 1, NEW r \in BitIndex, r < calls[i].count
                 PROVE  v[begin + Start(i - 1) + r + 1] = calls[i].data[r]
        BY DEF LieAt, Start
    <2>1. CASE i \in 1 .. n
        BY <1>4, <2>1 DEF LieAt, Start
    <2>2. CASE i = n + 1
        BY <1>1, <1>5, <2>2
    <2>3. QED
        BY <1>1, <2>1, <2>2
<1>7. QED
    BY <1>2, <1>3, <1>6

LEMMA LayoutInit == Init => LayoutInvariant
<1> SUFFICES ASSUME Init PROVE LayoutInvariant
    OBVIOUS
<1>1. /\ fields = << >> /\ begins = << >> /\ written = << >> /\ turns = << >>
      /\ Len(fields) = 0 /\ Len(turns) = 0
    BY DEF Init
<1>2. MaxFields \in Nat
    BY ObjectAssumption
<1>3. fields \in Seq(Field) /\ begins \in Seq(Nat)
    BY <1>1
<1>4. 1 .. Len(fields) = {} /\ 1 .. Len(turns) = {}
    BY <1>1
<1>5. QED
    BY <1>1, <1>2, <1>3, <1>4 DEF LayoutInvariant

LEMMA LayoutKept ==
    ASSUME LayoutInvariant, UNCHANGED <<order, sent>>
    PROVE  LayoutInvariant'
BY DEF LayoutInvariant, sent, Calls, CallsMade, EndOf

\* The parts of the layout.
LEMMA LayoutOf ==
    ASSUME LayoutInvariant, NEW n \in 1 .. Len(fields)
    PROVE  /\ Len(fields) \in Nat /\ fields[n] \in Field
           /\ AreCalls(Calls(n)) /\ Len(Calls(n)) \in Nat
           /\ begins[n] \in Nat
           /\ CallsMade(n) \in Nat
           /\ begins[n] <= Len(written)
           /\ EndOf(n) = begins[n] + BitsAfter(Calls(n), CallsMade(n))
           /\ LieAt(written, begins[n], Calls(n), CallsMade(n))
<1>1. /\ fields \in Seq(Field) /\ begins \in Seq(Nat)
      /\ Len(begins) = Len(fields)
    BY DEF LayoutInvariant
<1>2. Len(fields) \in Nat /\ fields[n] \in Field
    BY <1>1
<1>3. begins[n] \in Nat
    BY <1>1
<1>4. AreCalls(Calls(n))
    BY <1>2, CallsOfFieldsAre DEF Calls
<1>5. Len(Calls(n)) \in Nat
    BY <1>4 DEF AreCalls
<1>6. QED
    BY <1>2, <1>3, <1>4, <1>5 DEF LayoutInvariant

LEMMA LayoutWrite ==
    ASSUME BufferInvariant, LayoutInvariant, Write
    PROVE  LayoutInvariant'
<1> DEFINE L == Len(fields)
<1>1. PICK f \in Field :
          /\ fields' = Append(fields, f)
          /\ turns' = TurnsOfField(f, order.sender)
          /\ begins' = Append(begins, Len(written))
    BY DEF Write
<1>2. turns = << >> /\ L < MaxFields /\ written' = written /\ order' = order
    BY DEF Write
<1>3. /\ fields \in Seq(Field) /\ begins \in Seq(Nat)
      /\ Len(begins) = L /\ L \in Nat
    BY DEF LayoutInvariant
<1>4. Len(written) \in Nat
    BY DEF BufferInvariant
<1> HIDE DEF L
<1>5. /\ fields' \in Seq(Field) /\ Len(fields') = L + 1
      /\ \A n \in 1 .. L : fields'[n] = fields[n]
      /\ fields'[L + 1] = f
    <2>1. PICK S : S = Field
        OBVIOUS
    <2>2. fields \in Seq(S) /\ f \in S /\ Len(fields) = L
        BY <1>1, <1>3, <2>1 DEF L
    <2>3. /\ Append(fields, f) \in Seq(S) /\ Len(Append(fields, f)) = L + 1
          /\ \A n \in 1 .. L : Append(fields, f)[n] = fields[n]
          /\ Append(fields, f)[L + 1] = f
        BY <2>2, AppendProperties
    <2>4. QED
        BY <1>1, <2>1, <2>3
<1>6. /\ begins' \in Seq(Nat) /\ Len(begins') = L + 1
      /\ \A n \in 1 .. L : begins'[n] = begins[n]
      /\ begins'[L + 1] = Len(written)
    BY <1>1, <1>3, <1>4, AppendProperties
<1>7. AreCalls(turns') /\ turns' \in Seq(Turn) /\ Len(turns') \in Nat
    BY <1>1, CallsOfFieldsAre DEF AreCalls
<1>8. \A n : Calls(n)' = TurnsOfField(fields'[n], order.sender)
    BY <1>2 DEF Calls
<1>9. ASSUME NEW n \in 1 .. L + 1
      PROVE  /\ CallsMade(n)' \in Nat
             /\ begins'[n] <= Len(written')
             /\ EndOf(n)' = begins'[n] + BitsAfter(Calls(n)', CallsMade(n)')
             /\ LieAt(written', begins'[n], Calls(n)', CallsMade(n)')
    <2>1. CASE n \in 1 .. L
        <3>1. n # L + 1 /\ n \in Nat /\ (n # L => n + 1 \in 1 .. L)
            BY <1>3, <2>1
        <3>2. Calls(n)' = Calls(n)
            BY <1>5, <1>8, <2>1 DEF Calls
        <3>3. /\ Len(Calls(n)) \in Nat /\ CallsMade(n) \in Nat
              /\ begins[n] <= Len(written)
              /\ EndOf(n) = begins[n] + BitsAfter(Calls(n), CallsMade(n))
              /\ LieAt(written, begins[n], Calls(n), CallsMade(n))
            BY <2>1, LayoutOf DEF L
        <3>4. CallsMade(n)' = CallsMade(n)
            <4>1. CallsMade(n) = Len(Calls(n))
                BY <1>2, <3>3 DEF CallsMade
            <4>2. CallsMade(n)' = Len(Calls(n)') - 0
                BY <1>5, <3>1 DEF CallsMade
            <4>3. QED
                BY <3>2, <3>3, <4>1, <4>2
        <3>5. EndOf(n)' = EndOf(n)
            <4>1. EndOf(n)' = begins'[n + 1]
                BY <1>5, <3>1 DEF EndOf
            <4>2. CASE n = L
                BY <1>6, <4>1, <4>2 DEF EndOf, L
            <4>3. CASE n # L
                BY <1>6, <3>1, <4>1, <4>3 DEF EndOf, L
            <4>4. QED
                BY <4>2, <4>3
        <3>6. begins'[n] = begins[n]
            BY <1>6, <2>1
        <3>7. QED
            BY <1>2, <3>2, <3>3, <3>4, <3>5, <3>6
    <2>2. CASE n = L + 1
        <3>1. Calls(n)' = turns'
            BY <1>1, <1>5, <1>8, <2>2
        <3>2. CallsMade(n)' = 0
            BY <1>5, <1>7, <2>2, <3>1 DEF CallsMade
        <3>3. EndOf(n)' = Len(written)
            BY <1>2, <1>5, <2>2 DEF EndOf
        <3>4. begins'[n] = Len(written)
            BY <1>6, <2>2
        <3>5. BitsAfter(turns', 0) = 0 /\ LieAt(written', begins'[n], turns', 0)
            BY DEF BitsAfter, LieAt
        <3>6. QED
            BY <1>2, <1>4, <3>1, <3>2, <3>3, <3>4, <3>5
    <2>3. QED
        BY <1>3, <2>1, <2>2
<1>10. begins'[1] = 0
    <2>1. CASE fields = << >>
        <3>1. L = 0 /\ written = << >>
            BY <2>1 DEF LayoutInvariant, L
        <3>2. QED
            BY <1>6, <3>1
    <2>2. CASE fields # << >>
        <3>1. begins[1] = 0
            BY <2>2 DEF LayoutInvariant
        <3>2. 1 \in 1 .. L
            BY <1>3, <2>2 DEF L
        <3>3. QED
            BY <1>6, <3>1, <3>2
    <2>3. QED
        BY <2>1, <2>2
<1>11. \A i \in 1 .. Len(turns') :
           turns'[i] = Calls(Len(fields))'[CallsMade(Len(fields))' + i]
    <2>1. Calls(Len(fields))' = turns'
        BY <1>1, <1>2, <1>5 DEF Calls
    <2>2. CallsMade(Len(fields))' = 0
        BY <1>7, <2>1 DEF CallsMade
    <2>3. \A i \in 1 .. Len(turns') : 0 + i = i
        BY <1>7
    <2>4. QED
        BY <2>1, <2>2, <2>3
<1>12. fields' # << >> /\ Len(fields') <= MaxFields
    BY <1>2, <1>3, <1>5, ObjectAssumption
<1>13. QED
    BY <1>2, <1>5, <1>6, <1>9, <1>10, <1>11, <1>12 DEF LayoutInvariant

LEMMA LayoutWriteBits ==
    ASSUME BufferInvariant, LayoutInvariant, WriteBits
    PROVE  LayoutInvariant'
<1>0. PICK L, h, calls, made : /\ L = Len(fields) /\ h = Len(written)
                               /\ calls = Calls(L) /\ made = CallsMade(L)
    OBVIOUS
<1>1. /\ turns \in Seq(Turn) /\ turns # << >> /\ written \in Seq(Bit)
    BY DEF BufferInvariant, WriteBits
<1>2. PICK turn : turn = Head(turns)
    OBVIOUS
<1>3. PICK data, count : data = turn.data /\ count = turn.count
    OBVIOUS
<1>4. /\ turn \in Turn /\ turn = turns[1] /\ Tail(turns) \in Seq(Turn)
      /\ Len(turns) \in Nat /\ Len(turns) >= 1
      /\ Len(Tail(turns)) = Len(turns) - 1
      /\ \A i \in 1 .. Len(Tail(turns)) : Tail(turns)[i] = turns[i + 1]
    BY <1>1, <1>2, HeadTailProperties
<1>5. data \in Byte /\ count \in 1 .. ByteBits
    BY <1>3, <1>4 DEF Turn
<1>6. /\ turns' = Tail(turns) /\ written' = written \o NewBits(data, count)
      /\ order' = order /\ fields' = fields /\ begins' = begins
    BY <1>2, <1>3 DEF WriteBits, NewBits
<1>7. /\ Len(written') = h + count
      /\ \A i \in 1 .. h : written'[i] = written[i]
      /\ \A i \in 1 .. count : written'[h + i] = data[i - 1]
      /\ h \in Nat /\ count \in Nat
    <2>1. PICK longer : longer = written \o NewBits(data, count)
        OBVIOUS
    <2>2. /\ Len(longer) = Len(written) + count
          /\ \A i \in 1 .. Len(written) : longer[i] = written[i]
          /\ \A i \in 1 .. count : longer[Len(written) + i] = data[i - 1]
        BY <1>1, <1>5, <2>1, LongerBits
    <2>3. Len(written) \in Nat /\ count \in Nat
        BY <1>1, <1>5, StreamAssumption
    <2>4. QED
        BY <1>0, <1>6, <2>1, <2>2, <2>3
<1>8. /\ fields \in Seq(Field) /\ fields # << >>
      /\ begins \in Seq(Nat) /\ Len(begins) = L /\ L \in Nat /\ L <= MaxFields
    BY <1>0, <1>1 DEF LayoutInvariant
<1>9. L \in 1 .. Len(fields)
    BY <1>0, <1>8
<1>10. /\ AreCalls(calls) /\ Len(calls) \in Nat /\ made \in Nat
       /\ begins[L] \in Nat /\ begins[L] <= h
       /\ EndOf(L) = begins[L] + BitsAfter(calls, made)
       /\ LieAt(written, begins[L], calls, made)
    BY <1>0, <1>9, LayoutOf
<1>11. made = Len(calls) - Len(turns)
    BY <1>0 DEF CallsMade
<1>12. turns[1] = calls[made + 1]
    <2>1. 1 \in 1 .. Len(turns)
        BY <1>4
    <2>2. QED
        BY <1>0, <2>1 DEF LayoutInvariant
<1>13. \A n : Calls(n)' = Calls(n)
    BY <1>6 DEF Calls
<1>14. CallsMade(L)' = made + 1
    <2>1. CallsMade(L)' = Len(calls) - Len(turns')
        BY <1>0, <1>6, <1>13 DEF CallsMade
    <2>2. QED
        BY <1>4, <1>6, <1>10, <1>11, <2>1
<1>15. \A i \in 1 .. Len(turns') : turns'[i] = calls[made + 1 + i]
    <2>1. ASSUME NEW i \in 1 .. Len(Tail(turns))
          PROVE  Tail(turns)[i] = calls[made + 1 + i]
        <3>1. i + 1 \in 1 .. Len(turns) /\ made + (i + 1) = made + 1 + i
            BY <1>4, <1>10
        <3>2. turns[i + 1] = calls[made + (i + 1)]
            BY <1>0, <3>1 DEF LayoutInvariant
        <3>3. QED
            BY <1>4, <3>1, <3>2
    <2>2. QED
        BY <1>6, <2>1
<1>16. EndOf(L) = h
    BY <1>0 DEF EndOf
<1>17. made \in 0 .. Len(calls) - 1
    BY <1>4, <1>10, <1>11
<1>18. calls[made + 1].count = count /\ calls[made + 1].data = data
    BY <1>3, <1>4, <1>12
<1>19. /\ LieAt(written', begins[L], calls, made + 1)
       /\ begins[L] + BitsAfter(calls, made + 1) = h + count
    <2>1. h = begins[L] + BitsAfter(calls, made)
        BY <1>10, <1>16
    <2>2. \A k \in 1 .. calls[made + 1].count :
              written'[h + k] = calls[made + 1].data[k - 1]
        BY <1>7, <1>18
    <2>3. calls[made + 1].count = count
        BY <1>18
    <2>4. /\ LieAt(written', begins[L], calls, made + 1)
          /\ begins[L] + BitsAfter(calls, made + 1) = h + calls[made + 1].count
        <3>1. PICK begin, w, v : begin = begins[L] /\ w = written /\ v = written'
            OBVIOUS
        <3>2. /\ AreCalls(calls) /\ begin \in Nat /\ LieAt(w, begin, calls, made)
              /\ h = begin + BitsAfter(calls, made)
              /\ Extends(v, w, h) /\ Adds(v, h, calls[made + 1])
            BY <1>7, <1>10, <2>1, <2>2, <3>1 DEF Extends, Adds
        <3>3. /\ LieAt(v, begin, calls, made + 1)
              /\ begin + BitsAfter(calls, made + 1) = h + calls[made + 1].count
            BY <1>17, <3>2, LieAtLonger
        <3>4. QED
            BY <3>1, <3>3
    <2>5. QED
        BY <2>3, <2>4
<1>20. EndOf(L)' = h + count
    BY <1>6, <1>7, <1>0 DEF EndOf
<1>21. ASSUME NEW n \in 1 .. L
       PROVE  /\ CallsMade(n)' \in Nat
              /\ begins'[n] <= Len(written')
              /\ EndOf(n)' = begins'[n] + BitsAfter(Calls(n)', CallsMade(n)')
              /\ LieAt(written', begins'[n], Calls(n)', CallsMade(n)')
    <2>1. CASE n = L
        <3>1. CallsMade(n)' \in Nat
            BY <1>10, <1>14, <2>1
        <3>2. begins'[n] <= Len(written')
            BY <1>6, <1>7, <1>10, <2>1
        <3>3. EndOf(n)' = begins'[n] + BitsAfter(Calls(n)', CallsMade(n)')
            BY <1>6, <1>13, <1>14, <1>19, <1>20, <2>1, <1>0
        <3>4. QED
            BY <1>6, <1>13, <1>14, <1>19, <2>1, <3>1, <3>2, <3>3, <1>0
    <2>2. CASE n # L
        <3>1. /\ AreCalls(Calls(n)) /\ Len(Calls(n)) \in Nat
              /\ begins[n] \in Nat /\ begins[n] <= h
              /\ EndOf(n) = begins[n] + BitsAfter(Calls(n), CallsMade(n))
              /\ LieAt(written, begins[n], Calls(n), CallsMade(n))
            BY <1>0, LayoutOf
        <3>2. CallsMade(n) = Len(Calls(n)) /\ CallsMade(n)' = CallsMade(n)
            BY <1>6, <1>13, <2>2, <3>1, <1>0 DEF CallsMade
        <3>3. EndOf(n) = begins[n + 1] /\ EndOf(n)' = begins'[n + 1]
            BY <1>6, <2>2, <1>0 DEF EndOf
        <3>4. n + 1 \in 1 .. L
            BY <1>8, <2>2
        <3>5. begins[n + 1] <= h
            BY <3>4, <1>0, LayoutOf
        <3>6. CallsMade(n) \in 0 .. Len(Calls(n))
            BY <3>1, <3>2
        <3>7. LieAt(written', begins[n], Calls(n), CallsMade(n))
            BY <1>7, <3>1, <3>3, <3>5, <3>6, LieAtKept
        <3>8. begins'[n] <= Len(written')
            BY <1>6, <1>7, <3>1
        <3>9. QED
            BY <1>6, <1>13, <3>1, <3>2, <3>3, <3>6, <3>7, <3>8
    <2>3. QED
        BY <2>1, <2>2
<1>22. /\ Len(fields') = L /\ fields' \in Seq(Field)
       /\ fields' # << >> /\ begins' \in Seq(Nat) /\ Len(begins') = L
    BY <1>6, <1>8, <1>0
<1>23. begins'[1] = 0
    BY <1>0, <1>6, <1>8 DEF LayoutInvariant
<1>24. \A i \in 1 .. Len(turns') :
           turns'[i] = Calls(Len(fields))'[CallsMade(Len(fields))' + i]
    <2>1. Calls(Len(fields))' = calls
        BY <1>6, <1>13, <1>0 DEF Calls
    <2>2. CallsMade(Len(fields))' = made + 1
        BY <1>6, <1>14, <1>0 DEF CallsMade, Calls
    <2>3. QED
        BY <1>15, <2>1, <2>2
<1>25. QED
    BY <1>8, <1>21, <1>22, <1>23, <1>24 DEF LayoutInvariant

LEMMA LayoutNext ==
    ASSUME BufferInvariant, LayoutInvariant, [Next]_vars
    PROVE  LayoutInvariant'
<1>1. CASE Write
    BY <1>1, LayoutWrite
<1>2. CASE WriteBits
    BY <1>2, LayoutWriteBits
<1>3. CASE Transfer
    BY <1>3, LayoutKept DEF Transfer
<1>4. CASE ReadBool
    BY <1>4, LayoutKept DEF ReadBool
<1>5. CASE ReadAction
    BY <1>5, LayoutKept DEF ReadAction
<1>6. CASE ReadInt
    BY <1>6, LayoutKept DEF ReadInt
<1>7. CASE ReadStringLength
    BY <1>7, LayoutKept DEF ReadStringLength
<1>8. CASE ReadString
    BY <1>8, LayoutKept DEF ReadString
<1>9. CASE UNCHANGED vars
    BY <1>9, LayoutKept DEF vars
<1>10. QED
    BY <1>1, <1>2, <1>3, <1>4, <1>5, <1>6, <1>7, <1>8, <1>9 DEF Next
----------------------------------------------------------------------------
(***************************************************************************)
(* Reading.                                                                *)
(***************************************************************************)

LEMMA Distributes == \A a, b, c \in Nat : (a + b) * c = a * c + b * c
OBVIOUS

\* How many bits a field has.
LEMMA SizeOfFields ==
    ASSUME NEW f \in Field, NEW o,
           NEW calls, calls = TurnsOfField(f, o)
    PROVE  /\ f.kind = "bool" => BitsAfter(calls, Len(calls)) = 1
           /\ f.kind = "action" => BitsAfter(calls, Len(calls)) = ActionBits
           /\ f.kind = "int" => BitsAfter(calls, Len(calls)) = IntBits
           /\ f.kind = "string" =>
                  BitsAfter(calls, Len(calls)) = IntBits + Len(f.value) * ByteBits
<1>1. IntBytes \in Nat /\ IntBytes >= 1 /\ ByteBits \in Nat /\ ByteBits >= 1
    BY ObjectAssumption, StreamAssumption
<1>2. \A m \in Nat \ {0} : (m - 1) * ByteBits + ByteBits = m * ByteBits
    BY <1>1
<1>3. AreCalls(calls)
    BY CallsOfFieldsAre
<1>4. ASSUME f.kind = "bool" PROVE BitsAfter(calls, Len(calls)) = 1
    <2>1. calls = <<[data |-> LowestByte(f.value), count |-> 1]>>
        BY <1>4, CallsOfFields
    <2>2. Len(calls) = 1 /\ calls[1].count = 1
        BY <2>1
    <2>3. QED
        BY <1>1, <2>2 DEF BitsAfter
<1>5. ASSUME f.kind = "action" PROVE BitsAfter(calls, Len(calls)) = ActionBits
    <2>1. calls = <<[data |-> LowestByte(f.value), count |-> ActionBits]>>
        BY <1>5, CallsOfFields
    <2>2. Len(calls) = 1 /\ calls[1].count = ActionBits
        BY <2>1
    <2>3. QED
        BY <1>1, <2>2, ActionBitsValue DEF BitsAfter
<1>6. ASSUME f.kind = "int" PROVE BitsAfter(calls, Len(calls)) = IntBits
    <2>1. /\ Len(calls) = IntBytes
          /\ \A i \in 1 .. IntBytes : calls[i] = WholeTurn(f.value[i])
        BY <1>6, CallsOfFields
    <2>2. calls[IntBytes].count = ByteBits
        BY <1>1, <2>1 DEF WholeTurn
    <2>3. QED
        BY <1>1, <1>2, <2>1, <2>2 DEF BitsAfter, IntBits
<1>7. ASSUME f.kind = "string"
      PROVE  BitsAfter(calls, Len(calls)) = IntBits + Len(f.value) * ByteBits
    <2>1. Len(f.value) \in Nat
        BY <1>7, KindsOfFields
    <2>2. /\ Len(calls) = IntBytes + Len(f.value)
          /\ \A i \in 1 .. IntBytes :
                 calls[i] = WholeTurn(NumberOf(Len(f.value))[i])
          /\ \A i \in 1 .. Len(f.value) :
                 calls[IntBytes + i] = WholeTurn(f.value[i])
        BY <1>7, CallsOfFields
    <2>3. PICK len : len = Len(f.value)
        OBVIOUS
    <2>4. \A byte : WholeTurn(byte).count = ByteBits
        BY DEF WholeTurn
    <2>5. calls[IntBytes + len].count = ByteBits
        <3>1. CASE len = 0
            <4>1. IntBytes \in 1 .. IntBytes /\ IntBytes + len = IntBytes
                BY <1>1, <3>1
            <4>2. QED
                BY <2>2, <2>4, <4>1
        <3>2. CASE len # 0
            <4>1. len \in 1 .. Len(f.value)
                BY <2>1, <2>3, <3>2
            <4>2. QED
                BY <2>2, <2>4, <4>1
        <3>3. QED
            BY <3>1, <3>2
    <2>6. BitsAfter(calls, Len(calls))
              = ((IntBytes + len) - 1) * ByteBits + ByteBits
        BY <1>1, <2>1, <2>2, <2>3, <2>5 DEF BitsAfter
    <2>7. (IntBytes + len) * ByteBits = IntBytes * ByteBits + len * ByteBits
        BY <1>1, <2>1, <2>3, Distributes
    <2>8. BitsAfter(calls, Len(calls)) = (IntBytes + len) * ByteBits
        <3>1. IntBytes + len \in Nat \ {0}
            BY <1>1, <2>1, <2>3
        <3>2. QED
            BY <1>2, <2>6, <3>1
    <2>9. QED
        BY <2>3, <2>7, <2>8 DEF IntBits
<1>8. QED
    BY <1>4, <1>5, <1>6, <1>7

\* When the whole message is written, each field is.
LEMMA FieldsAreWritten ==
    ASSUME BufferInvariant, LayoutInvariant, turns = << >>, NEW n \in 1 .. Len(fields)
    PROVE  /\ CallsMade(n) = Len(Calls(n))
           /\ EndOf(n) = begins[n] + BitsAfter(Calls(n), Len(Calls(n)))
           /\ EndOf(n) <= Len(written)
<1>1. /\ Len(Calls(n)) \in Nat /\ Len(fields) \in Nat /\ begins[n] <= Len(written)
      /\ EndOf(n) = begins[n] + BitsAfter(Calls(n), CallsMade(n))
    BY LayoutOf
<1>2. CallsMade(n) = Len(Calls(n))
    BY <1>1 DEF CallsMade
<1>3. EndOf(n) <= Len(written)
    <2>1. CASE n = Len(fields)
        <3>1. EndOf(n) = Len(written)
            BY <2>1 DEF EndOf
        <3>2. Len(written) \in Nat
            BY DEF BufferInvariant
        <3>3. QED
            BY <3>1, <3>2
    <2>2. CASE n # Len(fields)
        <3>1. n + 1 \in 1 .. Len(fields)
            BY <1>1, <2>2
        <3>2. QED
            BY <2>2, <3>1, LayoutOf DEF EndOf
    <2>3. QED
        BY <2>1, <2>2
<1>4. QED
    BY <1>1, <1>2, <1>3

\* The receiver has the bits of the sender's message, as far as they reach.
LEMMA ReceivedBits ==
    ASSUME BufferInvariant, ReadingInvariant, phase # "writing",
           NEW k \in Nat, k < in.mBitCapacity, k < Len(written)
    PROVE  BitAt(in.mBuffer, k) = written[k + 1]
<1>1. in.mBitCapacity \in Nat
    BY DEF BufferInvariant, InputBufferType
<1>2. BytesFor(in.mBitCapacity) \in Nat
    BY <1>1, BytesForCounts
<1>3. /\ ByteOffset(k) \in Nat /\ BitOffset(k) \in BitIndex
      /\ k = Start(ByteOffset(k)) + BitOffset(k)
    BY Position
<1>4. BitOffset(k) \in Nat /\ Start(ByteOffset(k)) \in Nat
    BY <1>3, StreamAssumption, StartIsNat DEF BitIndex
<1>5. Start(ByteOffset(k)) < in.mBitCapacity
    BY <1>1, <1>3, <1>4
<1>6. ByteOffset(k) < BytesFor(in.mBitCapacity)
    BY <1>1, <1>3, <1>5, BytesForCounts
<1>7. ByteOffset(k) \in 0 .. BytesFor(in.mBitCapacity) - 1
    BY <1>2, <1>3, <1>6
<1>8. in.mBuffer[ByteOffset(k)] = out.mBuffer[ByteOffset(k)]
    BY <1>7 DEF ReadingInvariant
<1>9. BitAt(in.mBuffer, k) = BitAt(out.mBuffer, k)
    BY <1>8 DEF BitAt
<1>10. k \in 0 .. Len(written) - 1
    <2>1. Len(written) \in Nat
        BY DEF BufferInvariant
    <2>2. QED
        BY <2>1
<1>11. BitAt(out.mBuffer, k) = written[k + 1]
    BY <1>10 DEF BufferInvariant, StreamHoldsWhatWasWritten
<1>12. QED
    BY <1>9, <1>11

\* What a call of WriteBits wrote, a read where it did so returns.
LEMMA CallIsRead ==
    ASSUME BufferInvariant, LayoutInvariant, ReadingInvariant, phase # "writing",
           NEW n \in 1 .. Len(fields), NEW i \in 1 .. Len(Calls(n)),
           NEW call, call = Calls(n)[i],
           NEW head, head = begins[n] + Start(i - 1),
           head + call.count <= in.mBitCapacity
    PROVE  ByteAt(in, head, call.count) = LowBits(call.data, call.count)
<1>1. turns = << >>
    BY DEF ReadingInvariant
<1>2. PICK calls, begin : calls = Calls(n) /\ begin = begins[n]
    OBVIOUS
<1>3. /\ AreCalls(calls) /\ Len(calls) \in Nat /\ begin \in Nat
      /\ LieAt(written, begin, calls, CallsMade(n))
    BY <1>2, LayoutOf
<1>4. /\ CallsMade(n) = Len(calls)
      /\ begin + BitsAfter(calls, Len(calls)) <= Len(written)
    BY <1>1, <1>2, FieldsAreWritten
<1>5. i \in Nat /\ call.count \in 1 .. ByteBits /\ Start(i - 1) \in Nat
    BY <1>2, <1>3, BitsAfterCalls
<1>6. /\ BitsAfter(calls, Len(calls)) \in Nat
      /\ Start(i - 1) + call.count <= BitsAfter(calls, Len(calls))
    <2>1. Len(calls) \in 0 .. Len(calls) /\ i \in 1 .. Len(calls)
        BY <1>2, <1>3
    <2>2. /\ BitsAfter(calls, Len(calls)) \in Nat
          /\ Start(i - 1) + calls[i].count <= BitsAfter(calls, Len(calls))
        BY <1>3, <2>1, BitsAfterOrder
    <2>3. QED
        BY <1>2, <2>2
<1>7. ASSUME NEW r \in BitIndex, r < call.count
      PROVE  BitAt(in.mBuffer, head + r) = call.data[r]
    <2>1. PICK c, b : c = call.count /\ b = Start(i - 1)
        OBVIOUS
    <2>2. r \in Nat /\ c \in Nat /\ b \in Nat /\ Len(written) \in Nat
        BY <1>5, <2>1, StreamAssumption DEF BitIndex, BufferInvariant
    <2>3. in.mBitCapacity \in Nat
        BY DEF BufferInvariant, InputBufferType
    <2>4. /\ head + r \in Nat /\ head + r < in.mBitCapacity
          /\ head + r < Len(written)
        <3>1. PICK t, w, m : /\ t = BitsAfter(calls, Len(calls))
                             /\ w = Len(written) /\ m = in.mBitCapacity
            OBVIOUS
        <3>2. /\ head = begin + b /\ b + c <= t /\ begin + t <= w /\ head + c <= m
              /\ r < c /\ t \in Nat /\ w \in Nat /\ m \in Nat
            BY <1>2, <1>4, <1>6, <1>7, <2>1, <2>2, <2>3, <3>1
        <3>3. head + r \in Nat /\ head + r < m /\ head + r < w
            BY <1>3, <2>2, <3>2
        <3>4. QED
            BY <3>1, <3>3
    <2>5. BitAt(in.mBuffer, head + r) = written[head + r + 1]
        BY <2>4, ReceivedBits
    <2>6. written[begin + (i - 1) * ByteBits + r + 1] = call.data[r]
        BY <1>2, <1>3, <1>4, <1>7 DEF LieAt
    <2>7. begin + (i - 1) * ByteBits + r + 1 = head + r + 1
        BY <1>2 DEF Start
    <2>8. QED
        BY <2>5, <2>6, <2>7
<1>8. InputBufferType(in) /\ head \in Nat
    BY <1>2, <1>3, <1>5 DEF BufferInvariant
<1>9. PICK c, data : c = call.count /\ data = call.data
    OBVIOUS
<1>10. ByteAt(in, head, c) = LowBits(data, c)
    <2>1. /\ InputBufferType(in) /\ head \in Nat /\ c \in 1 .. ByteBits
          /\ head + c <= in.mBitCapacity
        BY <1>5, <1>8, <1>9
    <2>2. \A r \in BitIndex : r < c => BitAt(in.mBuffer, head + r) = data[r]
        BY <1>7, <1>9
    <2>3. QED
        BY <2>1, <2>2, ByteAtIs
<1>11. QED
    BY <1>9, <1>10
\* Whole bytes that lie one after the other are read as they were written.
LEMMA BytesAreRead ==
    ASSUME BufferInvariant, LayoutInvariant, ReadingInvariant, phase # "writing",
           NEW n \in 1 .. Len(fields), NEW bytes \in Seq(Byte), NEW from \in Nat,
           from + Len(bytes) <= Len(Calls(n)),
           \A i \in 1 .. Len(bytes) : Calls(n)[from + i] = WholeTurn(bytes[i]),
           in.mBitHead = begins[n] + Start(from),
           ~ ReadThrows(in, Len(bytes) * ByteBits)
    PROVE  BytesRead(in, Len(bytes) * ByteBits) = bytes
<1> DEFINE len == Len(bytes)
<1>1. /\ len \in Nat /\ DOMAIN bytes = 1 .. len
      /\ \A i \in 1 .. len : bytes[i] \in Byte
    BY LenProperties
<1>2. ByteBits \in Nat /\ in.mBitCapacity \in Nat /\ begins[n] \in Nat
      /\ Len(Calls(n)) \in Nat
    BY StreamAssumption, LayoutOf DEF BufferInvariant, InputBufferType
<1>3. in.mBitHead + Start(len) <= in.mBitCapacity
    <2>1. in.mBitHead \in Nat /\ Start(len) \in Nat
        BY <1>1, StartIsNat DEF ReadingInvariant
    <2>2. ~ in.mBitHead + Start(len) > in.mBitCapacity
        BY DEF ReadThrows, Start
    <2>3. QED
        BY <1>2, <2>1, <2>2
<1>4. \A i \in 1 .. len : Calls(n)[from + i] = WholeTurn(bytes[i])
    OBVIOUS
<1>5. from + len <= Len(Calls(n))
    OBVIOUS
<1>6. BytesRead(in, len * ByteBits)
          = [i \in 1 .. len |-> ByteAt(in, in.mBitHead + ByteBits * (i - 1), ByteBits)]
    <2>1. /\ BytesFor(len * ByteBits) = len \/ len = 0
          /\ \A i \in 1 .. len : CountOfTurn(len * ByteBits, i) = ByteBits
        BY <1>1, WholeTurnsCount
    <2>2. BytesFor(len * ByteBits) = len
        BY <1>1, BytesForWhole DEF Start
    <2>3. QED
        BY <2>1, <2>2 DEF BytesRead
<1> HIDE DEF len
<1>7. ASSUME NEW i \in 1 .. len
      PROVE  ByteAt(in, in.mBitHead + ByteBits * (i - 1), ByteBits) = bytes[i]
    <2>1. PICK j, call, head : /\ j = from + i /\ call = Calls(n)[j]
                               /\ head = begins[n] + Start(j - 1)
        OBVIOUS
    <2>2. i \in Nat /\ i - 1 \in Nat /\ i >= 1 /\ i <= len
        BY <1>1
    <2>3. j \in 1 .. Len(Calls(n)) /\ j - 1 = from + (i - 1)
        BY <1>1, <1>2, <1>5, <2>1, <2>2
    <2>4. call.count = ByteBits /\ call.data = bytes[i]
        <3>1. \A byte : WholeTurn(byte).count = ByteBits /\ WholeTurn(byte).data = byte
            BY DEF WholeTurn
        <3>2. call = WholeTurn(bytes[i])
            BY <1>4, <2>1
        <3>3. QED
            BY <3>1, <3>2
    <2>5. Start(j - 1) = Start(from) + Start(i - 1)
        <3>1. Start(from + (i - 1)) = Start(from) + Start(i - 1)
            BY <1>2, <2>2, Distributes DEF Start
        <3>2. QED
            BY <2>3, <3>1
    <2>6. PICK begin, limit, readHead, a, b, c :
              /\ begin = begins[n] /\ limit = in.mBitCapacity /\ readHead = in.mBitHead
              /\ a = Start(from) /\ b = Start(i - 1) /\ c = Start(len)
        OBVIOUS
    <2>7. a \in Nat /\ b \in Nat /\ c \in Nat /\ b + ByteBits <= c
        <3>1. Start(from) \in Nat /\ Start(i - 1) \in Nat /\ Start(len) \in Nat
            BY <1>1, <2>2, StartIsNat
        <3>2. Start(i - 1) + ByteBits <= Start(len)
            BY <1>1, <2>2, StartOrder
        <3>3. QED
            BY <2>6, <3>1, <3>2
    <2>8. /\ begin \in Nat /\ limit \in Nat /\ readHead = begin + a
          /\ readHead + c <= limit /\ head = begin + (a + b)
        BY <1>2, <1>3, <2>1, <2>5, <2>6
    <2>9. head = readHead + b /\ head + ByteBits <= limit
        BY <1>2, <2>7, <2>8
    <2>10. ByteAt(in, head, call.count) = LowBits(call.data, call.count)
        <3>1. head + call.count <= in.mBitCapacity
            BY <2>4, <2>6, <2>9
        <3>2. QED
            BY <2>1, <2>3, <3>1, CallIsRead
    <2>11. LowBits(bytes[i], ByteBits) = bytes[i]
        BY <1>1, LowBitsOfByte
    <2>12. in.mBitHead + ByteBits * (i - 1) = head
        <3>1. Start(i - 1) = ByteBits * (i - 1)
            BY <1>2, <2>2 DEF Start
        <3>2. QED
            BY <2>6, <2>9, <3>1
    <2>13. QED
        BY <2>4, <2>10, <2>11, <2>12
<1>8. bytes = [i \in 1 .. len |-> bytes[i]]
    BY <1>1
<1>9. QED
    BY <1>6, <1>7, <1>8 DEF len

\* A number is read as it was written, whatever the byte orders.
LEMMA NumberIsRead ==
    ASSUME BufferInvariant, LayoutInvariant, ReadingInvariant, phase # "writing",
           NEW n \in 1 .. Len(fields), NEW number \in Number,
           IntBytes <= Len(Calls(n)),
           \A i \in 1 .. IntBytes : Calls(n)[i] = WholeTurn(number[i]),
           in.mBitHead = begins[n],
           ~ ReadThrows(in, IntBits)
    PROVE  NumberRead = number
<1>1. number \in Seq(Byte) /\ Len(number) = IntBytes /\ IntBytes \in Nat
    BY ObjectAssumption DEF Number
<1>2. begins[n] \in Nat /\ Start(0) = 0
    BY LayoutOf, StreamAssumption DEF Start
<1>3. in.mBitHead = begins[n] + Start(0)
    BY <1>2
<1>4. \A i \in 1 .. Len(number) : Calls(n)[0 + i] = WholeTurn(number[i])
    BY <1>1
<1>5. 0 + Len(number) <= Len(Calls(n))
    BY <1>1
<1>6. ~ ReadThrows(in, Len(number) * ByteBits)
    BY <1>1 DEF IntBits
<1>7. BytesRead(in, Len(number) * ByteBits) = number
    BY <1>1, <1>3, <1>4, <1>5, <1>6, BytesAreRead
<1>8. BytesRead(in, IntBits) = number
    BY <1>1, <1>7 DEF IntBits
<1>9. QED
    BY <1>8, SwappedBack DEF NumberRead

\* A bool is read as it was written.
LEMMA BoolIsRead ==
    ASSUME BufferInvariant, LayoutInvariant, ReadingInvariant, phase # "writing",
           NEW n \in 1 .. Len(fields), fields[n].kind = "bool",
           in.mBitHead = begins[n], ~ ReadThrows(in, 1)
    PROVE  NumberOf(IF ByteAt(in, in.mBitHead, 1) # ZeroByte THEN 1 ELSE 0)
               = fields[n].value
<1>1. /\ fields[n] \in Field /\ begins[n] \in Nat
      /\ Calls(n) = TurnsOfField(fields[n], order.sender)
    BY LayoutOf DEF Calls
<1>2. PICK b \in {0, 1} : fields[n].value = NumberOf(b)
    BY <1>1, KindsOfFields
<1>3. PICK call : call = [data |-> LowestByte(fields[n].value), count |-> 1]
    OBVIOUS
<1>4. Calls(n) = <<call>>
    BY <1>1, <1>3, CallsOfFields
<1>5. call = Calls(n)[1] /\ 1 \in 1 .. Len(Calls(n)) /\ call.count = 1
    BY <1>3, <1>4
<1>6. in.mBitHead = begins[n] + Start(1 - 1) /\ in.mBitHead + 1 <= in.mBitCapacity
    <2>1. Start(1 - 1) = 0 /\ in.mBitCapacity \in Nat
        BY StreamAssumption DEF Start, BufferInvariant, InputBufferType
    <2>2. ~ in.mBitHead + 1 > in.mBitCapacity
        BY DEF ReadThrows
    <2>3. QED
        BY <1>1, <2>1, <2>2
<1>7. ByteAt(in, in.mBitHead, 1) = LowBits(call.data, 1)
    BY <1>5, <1>6, CallIsRead
<1>8. call.data[0] = b
    <2>1. /\ IntBytes \in 1 .. IntBytes /\ 0 \in BitIndex /\ ByteBits \in Nat
          /\ IntBytes \in Nat
        BY ObjectAssumption, StreamAssumption DEF BitIndex
    <2>2. call.data = NumberOf(b)[IntBytes]
        BY <1>2, <1>3 DEF LowestByte
    <2>3. NumberOf(b)[IntBytes][0] = BitOf(b, ByteBits * (IntBytes - IntBytes) + 0)
        BY <2>1 DEF NumberOf
    <2>4. ByteBits * (IntBytes - IntBytes) + 0 = 0
        BY <2>1
    <2>5. BitOf(0, 0) = 0 /\ BitOf(1, 0) = 1
        BY DEF BitOf
    <2>6. QED
        BY <2>2, <2>3, <2>4, <2>5
<1>9. 0 \in BitIndex /\ \A r \in BitIndex : r < 1 <=> r = 0
    BY StreamAssumption DEF BitIndex
<1>10. LowBits(call.data, 1) = [r \in BitIndex |-> IF r = 0 THEN b ELSE 0]
    BY <1>8, <1>9 DEF LowBits
<1>11. LowBits(call.data, 1) # ZeroByte <=> b = 1
    <2>1. CASE b = 0
        BY <1>10, <2>1 DEF ZeroByte
    <2>2. CASE b = 1
        <3>1. LowBits(call.data, 1)[0] = 1
            BY <1>9, <1>10, <2>2
        <3>2. ZeroByte[0] = 0
            BY <1>9 DEF ZeroByte
        <3>3. QED
            BY <2>2, <3>1, <3>2
    <2>3. QED
        BY <2>1, <2>2
<1>12. QED
    BY <1>2, <1>7, <1>11

\* An action is read as it was written by a little-endian machine, and with its
\* bytes reversed by a big-endian one.
LEMMA ActionIsRead ==
    ASSUME BufferInvariant, LayoutInvariant, ReadingInvariant, phase # "writing",
           NEW n \in 1 .. Len(fields), fields[n].kind = "action",
           in.mBitHead = begins[n], ~ ReadThrows(in, ActionBits),
           NEW memory, memory = [i \in 1 .. IntBytes |->
                                    IF i \in DOMAIN BytesRead(in, ActionBits)
                                    THEN BytesRead(in, ActionBits)[i] ELSE ZeroByte]
    PROVE  ReadAs(fields[n], order.receiver)
               = [kind |-> "action", value |-> InMemory(memory, order.receiver)]
<1>1. /\ fields[n] \in Field /\ begins[n] \in Nat
      /\ Calls(n) = TurnsOfField(fields[n], order.sender)
    BY LayoutOf DEF Calls
<1>2. PICK action \in 0 .. RA_MAX - 1 : fields[n].value = NumberOf(action)
    BY <1>1, KindsOfFields
<1>3. PICK number : number = NumberOf(action)
    OBVIOUS
<1>4. PICK call : call = [data |-> LowestByte(number), count |-> ActionBits]
    OBVIOUS
<1>5. Calls(n) = <<call>>
    BY <1>1, <1>2, <1>3, <1>4, CallsOfFields
<1>6. /\ call = Calls(n)[1] /\ 1 \in 1 .. Len(Calls(n)) /\ call.count = ActionBits
      /\ call.data = number[IntBytes]
    BY <1>4, <1>5 DEF LowestByte
<1>7. /\ ActionBits \in Nat /\ ActionBits >= 1 /\ ActionBits <= ByteBits
      /\ ByteBits \in Nat /\ IntBytes \in Nat /\ IntBytes >= 1
    BY ActionBitsValue, StreamAssumption, ObjectAssumption
<1>8. /\ in.mBitHead = begins[n] + Start(1 - 1)
      /\ in.mBitHead + ActionBits <= in.mBitCapacity
    <2>1. Start(1 - 1) = 0 /\ in.mBitCapacity \in Nat
        BY StreamAssumption DEF Start, BufferInvariant, InputBufferType
    <2>2. ~ in.mBitHead + ActionBits > in.mBitCapacity
        BY DEF ReadThrows
    <2>3. QED
        BY <1>1, <1>7, <2>1, <2>2
<1>9. ByteAt(in, in.mBitHead, ActionBits) = LowBits(number[IntBytes], ActionBits)
    BY <1>6, <1>8, CallIsRead
<1>10. BytesFor(ActionBits) = 1
    <2>1. BytesFor(ActionBits) \in Nat
          /\ \A q \in Nat : q < BytesFor(ActionBits) <=> Start(q) < ActionBits
        BY <1>7, BytesForCounts
    <2>2. Start(0) = 0 /\ Start(1) = ByteBits
        BY <1>7 DEF Start
    <2>3. 0 < BytesFor(ActionBits) /\ ~ 1 < BytesFor(ActionBits)
        BY <1>7, <2>1, <2>2
    <2>4. QED
        BY <2>1, <2>3
<1>11. BytesRead(in, ActionBits)
           = [i \in 1 .. 1 |-> LowBits(number[IntBytes], ActionBits)]
    <2>1. BytesRead(in, ActionBits) = [i \in 1 .. 1 |->
              ByteAt(in, in.mBitHead + ByteBits * (i - 1), CountOfTurn(ActionBits, i))]
        BY <1>10 DEF BytesRead
    <2>2. ASSUME NEW i \in 1 .. 1
          PROVE  /\ in.mBitHead + ByteBits * (i - 1) = in.mBitHead
                 /\ CountOfTurn(ActionBits, i) = ActionBits
        <3>1. i = 1 /\ in.mBitHead \in Nat
            BY <1>1
        <3>2. ByteBits * (1 - 1) = 0
            BY <1>7
        <3>3. QED
            BY <1>7, <1>10, <3>1, <3>2 DEF CountOfTurn
    <2>3. QED
        BY <1>9, <2>1, <2>2
<1>12. number \in Number
       /\ \A j \in 1 .. IntBytes :
              number[j] = IF j = IntBytes THEN LowBits(number[j], ActionBits)
                                          ELSE ZeroByte
    BY <1>2, <1>3, ActionAssumption, NumberIsTyped DEF RA_MAX
<1>13. memory = [i \in 1 .. IntBytes |-> IF i = 1 THEN number[IntBytes] ELSE ZeroByte]
    <2>1. DOMAIN BytesRead(in, ActionBits) = 1 .. 1
        BY <1>11
    <2>2. \A i \in 1 .. IntBytes : i \in 1 .. 1 <=> i = 1
        BY <1>7
    <2>3. BytesRead(in, ActionBits)[1] = number[IntBytes]
        BY <1>7, <1>11, <1>12
    <2>4. QED
        BY <2>1, <2>2, <2>3
<1>14. Reverse(memory) = number
    <2>1. Len(memory) = IntBytes
        BY <1>7, <1>13
    <2>2. Reverse(memory) = [i \in 1 .. IntBytes |-> memory[(IntBytes - i) + 1]]
        BY <2>1, ReverseOf
    <2>3. ASSUME NEW i \in 1 .. IntBytes
          PROVE  memory[(IntBytes - i) + 1] = number[i]
        <3>1. /\ (IntBytes - i) + 1 \in 1 .. IntBytes
              /\ (IntBytes - i) + 1 = 1 <=> i = IntBytes
            BY <1>7
        <3>2. memory[(IntBytes - i) + 1]
                  = IF i = IntBytes THEN number[IntBytes] ELSE ZeroByte
            BY <1>13, <3>1
        <3>3. QED
            BY <1>12, <3>2
    <2>4. number = [i \in 1 .. IntBytes |-> number[i]]
        BY <1>12 DEF Number
    <2>5. QED
        BY <2>2, <2>3, <2>4
<1>15. memory = Reverse(number)
    <2>1. Len(number) = IntBytes
        BY <1>7, <1>12 DEF Number
    <2>2. Reverse(number) = [i \in 1 .. IntBytes |-> number[(IntBytes - i) + 1]]
        BY <2>1, ReverseOf
    <2>3. ASSUME NEW i \in 1 .. IntBytes
          PROVE  number[(IntBytes - i) + 1]
                     = IF i = 1 THEN number[IntBytes] ELSE ZeroByte
        <3>1. PICK j : j = (IntBytes - i) + 1
            OBVIOUS
        <3>2. j \in 1 .. IntBytes /\ (j = IntBytes <=> i = 1)
            BY <1>7, <3>1
        <3>3. number[j] = IF i = 1 THEN number[IntBytes] ELSE ZeroByte
            BY <1>12, <3>2
        <3>4. QED
            BY <3>1, <3>3
    <2>4. QED
        BY <1>13, <2>2, <2>3
<1>16. order.receiver \in {"little", "big"}
    BY DEF ReadingInvariant, ByteOrder
<1>17. fields[n] = [kind |-> "action", value |-> number]
    BY <1>1, <1>2, <1>3, KindsOfFields
<1>18. CASE order.receiver = "little"
    BY <1>14, <1>17, <1>18 DEF InMemory, ReadAs
<1>19. CASE order.receiver = "big"
    <2>1. order.receiver # "little"
        BY <1>19
    <2>2. InMemory(memory, order.receiver) = memory
        BY <2>1 DEF InMemory
    <2>3. fields[n].kind = "action" /\ fields[n].value = number
        BY <1>17
    <2>4. ReadAs(fields[n], order.receiver)
              = [kind |-> "action", value |-> Reverse(number)]
        BY <1>19, <2>3 DEF ReadAs
    <2>5. QED
        BY <1>15, <2>2, <2>4
<1>20. QED
    BY <1>16, <1>18, <1>19

\* Every other field is read as it was written.
LEMMA ReadAsItIs ==
    ASSUME NEW f, f.kind # "action", NEW byteOrder
    PROVE  ReadAs(f, byteOrder) = f
BY DEF ReadAs

\* Every field has begun where the receiver expects it.
LEMMA ReadingOf ==
    ASSUME BufferInvariant, LayoutInvariant, ReadingInvariant, phase = "reading",
           Len(got) < Len(fields), NEW n, n = Len(got) + 1
    PROVE  /\ n \in 1 .. Len(fields) /\ Len(got) \in Nat /\ turns = << >>
           /\ fields[n] \in Field /\ begins[n] \in Nat
           /\ in.mBitHead \in Nat /\ in.mBitCapacity \in Nat
           /\ length = -1 => in.mBitHead = begins[n]
           /\ length # -1 => in.mBitHead = begins[n] + IntBits
           /\ EndOf(n) = begins[n] + BitsAfter(Calls(n), Len(Calls(n)))
           /\ EndOf(n) <= Len(written) /\ EndOf(n) \in Nat /\ Len(written) \in Nat
<1>1. turns = << >> /\ in.mBitHead = ReadPosition /\ in.mBitHead \in Nat
      /\ Len(got) \in Nat
    BY DEF ReadingInvariant
<1>2. Len(fields) \in Nat /\ Len(written) \in Nat /\ in.mBitCapacity \in Nat
    BY DEF LayoutInvariant, BufferInvariant, InputBufferType
<1>3. n \in 1 .. Len(fields)
    BY <1>1, <1>2
<1>4. fields[n] \in Field /\ begins[n] \in Nat
    BY <1>3, LayoutOf
<1>5. in.mBitHead = begins[n] + (IF length = -1 THEN 0 ELSE IntBits)
    BY <1>1, <1>2 DEF ReadPosition
<1>6. /\ EndOf(n) = begins[n] + BitsAfter(Calls(n), Len(Calls(n)))
      /\ EndOf(n) <= Len(written)
    BY <1>1, <1>3, FieldsAreWritten
<1>7. EndOf(n) \in Nat
    <2>1. CASE n = Len(fields)
        BY <1>2, <2>1 DEF EndOf
    <2>2. CASE n # Len(fields)
        <3>1. n + 1 \in 1 .. Len(fields)
            BY <1>1, <1>2, <2>2
        <3>2. QED
            BY <2>2, <3>1, LayoutOf DEF EndOf
    <2>3. QED
        BY <2>1, <2>2
<1>8. QED
    BY <1>1, <1>2, <1>3, <1>4, <1>5, <1>6, <1>7

LEMMA ReadingInit == Init => ReadingInvariant
<1> SUFFICES ASSUME Init PROVE ReadingInvariant
    OBVIOUS
<1>1. /\ in.mBitHead = 0 /\ in.mBitCapacity = 0
    BY DEF Init, NewInput
<1>2. /\ got = << >> /\ Len(got) = 0 /\ fields = << >> /\ Len(fields) = 0
      /\ length = -1 /\ phase = "writing"
      /\ order \in [sender : ByteOrder, receiver : ByteOrder]
    BY DEF Init
<1>3. Len(got) \in 0 .. Len(fields)
      /\ got = [i \in 1 .. Len(got) |-> ReadAs(fields[i], order.receiver)]
    BY <1>2
<1>4. QED
    BY <1>1, <1>2, <1>3 DEF ReadingInvariant

LEMMA ReadingKept ==
    ASSUME ReadingInvariant, UNCHANGED <<order, sent, phase, in, length, got>>
    PROVE  ReadingInvariant'
BY DEF ReadingInvariant, ReadPosition, sent

\* The sender writes before there is anything to read.
LEMMA ReadingWriting ==
    ASSUME ReadingInvariant, LayoutInvariant', phase = "writing",
           UNCHANGED <<order, phase, in, length, got>>
    PROVE  ReadingInvariant'
<1>1. got = << >> /\ length = -1 /\ Len(got) = 0
    BY DEF ReadingInvariant
<1>2. Len(fields') \in Nat
    BY DEF LayoutInvariant
<1>3. Len(got) \in 0 .. Len(fields')
      /\ got = [i \in 1 .. Len(got) |-> ReadAs(fields'[i], order.receiver)]
    BY <1>1, <1>2
<1>4. QED
    BY <1>1, <1>2, <1>3 DEF ReadingInvariant

LEMMA ReadingTransfer ==
    ASSUME BufferInvariant, LayoutInvariant, ReadingInvariant, Transfer
    PROVE  ReadingInvariant'
<1>1. /\ got = << >> /\ length = -1 /\ Len(got) = 0 /\ turns = << >>
      /\ fields # << >> /\ phase' = "reading"
      /\ UNCHANGED <<order, out, turns, fields, written, begins, length, got>>
    BY DEF ReadingInvariant, Transfer, sent
<1>2. /\ begins[1] = 0 /\ Len(fields) \in Nat /\ Len(fields) # 0
    BY <1>1 DEF LayoutInvariant
<1>3. out.mBitHead \in Nat /\ ByteBits \in Nat
    BY StreamAssumption DEF BufferInvariant, OutputType
<1>4. PICK bits \in Nat : /\ in' = NewInput(out.mBuffer, bits)
                          /\ BytesFor(bits) <= GetByteLength(out)
    <2>1. CASE in' = NewInput(out.mBuffer, out.mBitHead)
        <3>1. BytesFor(out.mBitHead) \in Nat
            BY <1>3, BytesForCounts
        <3>2. QED
            BY <1>3, <2>1, <3>1 DEF GetByteLength
    <2>2. ASSUME NEW bytesReceived \in 1 .. GetByteLength(out),
                 in' = NewInput(out.mBuffer, bytesReceived * ByteBits)
          PROVE  /\ bytesReceived * ByteBits \in Nat
                 /\ BytesFor(bytesReceived * ByteBits) <= GetByteLength(out)
        <3>1. GetByteLength(out) \in Nat
            BY <1>3, BytesForCounts DEF GetByteLength
        <3>2. bytesReceived \in Nat /\ bytesReceived <= GetByteLength(out)
            BY <3>1
        <3>3. BytesFor(bytesReceived * ByteBits) = bytesReceived
            BY <3>2, BytesForWhole DEF Start
        <3>4. QED
            BY <1>3, <3>2, <3>3
    <2>3. QED
        BY <2>1, <2>2 DEF Transfer
<1>5. /\ in'.mBitHead = 0 /\ in'.mBitCapacity = bits
      /\ in'.mBuffer = [i \in 0 .. BytesFor(bits) - 1 |-> out.mBuffer[i]]
    BY <1>4 DEF NewInput
<1>6. ReadPosition' = 0
    BY <1>1, <1>2 DEF ReadPosition
<1>7. 0 <= bits
    OBVIOUS
<1>8. \A i \in 0 .. BytesFor(bits) - 1 : in'.mBuffer[i] = out.mBuffer[i]
    BY <1>5
<1>9. GetByteLength(out)' = GetByteLength(out)
    BY <1>1 DEF GetByteLength
<1>10. /\ order' \in [sender : ByteOrder, receiver : ByteOrder]
       /\ Len(got') \in 0 .. Len(fields')
       /\ got' = [i \in 1 .. Len(got') |-> ReadAs(fields'[i], order'.receiver)]
    BY <1>1 DEF ReadingInvariant
<1>11. QED
    BY <1>1, <1>4, <1>5, <1>6, <1>7, <1>8, <1>9, <1>10 DEF ReadingInvariant

\* A read throws where the message ends that was cut.
LEMMA ReadingThrows ==
    ASSUME BufferInvariant, LayoutInvariant, ReadingInvariant, phase = "reading",
           Len(got) < Len(fields), NEW bitCount \in Nat,
           in.mBitHead + bitCount <= EndOf(Len(got) + 1),
           Throws(bitCount), UNCHANGED <<order, sent>>
    PROVE  ReadingInvariant'
<1>1. PICK n : n = Len(got) + 1
    OBVIOUS
<1>2. /\ in.mBitHead \in Nat /\ in.mBitCapacity \in Nat
      /\ EndOf(n) <= Len(written) /\ EndOf(n) \in Nat /\ Len(written) \in Nat
    BY <1>1, ReadingOf
<1>3. in.mBitHead + bitCount > in.mBitCapacity
    BY DEF Throws, ReadThrows
<1>4. in.mBitCapacity < Len(written)
    BY <1>1, <1>2, <1>3
<1>5. /\ phase' = "thrown"
      /\ UNCHANGED <<order, out, turns, fields, written, begins, in, length, got>>
    BY DEF Throws, sent
<1>6. GetByteLength(out)' = GetByteLength(out)
    BY <1>5 DEF GetByteLength
<1>7. QED
    BY <1>4, <1>5, <1>6 DEF ReadingInvariant

\* What a read leaves of the receiver's stream.
LEMMA InputAfterRead ==
    ASSUME BufferInvariant, ReadingInvariant, NEW bitCount \in Nat, Takes(bitCount)
    PROVE  /\ in'.mBitHead = in.mBitHead + bitCount /\ in'.mBitHead \in Nat
           /\ in'.mBitHead <= in'.mBitCapacity
           /\ in'.mBitCapacity = in.mBitCapacity /\ in'.mBuffer = in.mBuffer
           /\ phase' = phase
<1>1. /\ DOMAIN in = StreamFields /\ in.mBitCapacity \in Nat /\ in.mBitHead \in Nat
    BY DEF BufferInvariant, InputBufferType, ReadingInvariant
<1>2. /\ in' = [in EXCEPT !.mBitHead = @ + bitCount] /\ phase' = phase
      /\ ~ in.mBitHead + bitCount > in.mBitCapacity
    BY DEF Takes, AfterRead, ReadThrows
<1>3. /\ in'.mBitHead = in.mBitHead + bitCount
      /\ in'.mBitCapacity = in.mBitCapacity /\ in'.mBuffer = in.mBuffer
    BY <1>1, <1>2 DEF StreamFields
<1>4. QED
    BY <1>1, <1>2, <1>3

\* A read takes a field, or what is left of it.
LEMMA ReadingTakes ==
    ASSUME BufferInvariant, LayoutInvariant, ReadingInvariant, phase = "reading",
           Len(got) < Len(fields), NEW bitCount \in Nat,
           in.mBitHead + bitCount = EndOf(Len(got) + 1),
           Takes(bitCount), length' = -1,
           got' = Append(got, ReadAs(fields[Len(got) + 1], order.receiver)),
           UNCHANGED <<order, sent>>
    PROVE  ReadingInvariant'
<1>1. PICK n : n = Len(got) + 1
    OBVIOUS
<1>2. /\ n \in 1 .. Len(fields) /\ Len(got) \in Nat /\ turns = << >>
      /\ fields[n] \in Field /\ EndOf(n) \in Nat
    BY <1>1, ReadingOf
<1>3. /\ in'.mBitHead = EndOf(n) /\ in'.mBitHead <= in'.mBitCapacity
      /\ in'.mBitCapacity = in.mBitCapacity /\ in'.mBuffer = in.mBuffer
      /\ phase' = "reading"
    BY <1>1, InputAfterRead
<1>4. PICK f : f = [i \in 1 .. n |-> ReadAs(fields[i], order.receiver)]
    OBVIOUS
<1>5. got = [i \in 1 .. Len(got) |-> f[i]]
    <2>1. got = [i \in 1 .. Len(got) |-> ReadAs(fields[i], order.receiver)]
        BY DEF ReadingInvariant
    <2>2. \A i \in 1 .. Len(got) : f[i] = ReadAs(fields[i], order.receiver)
        BY <1>1, <1>2, <1>4
    <2>3. QED
        BY <2>1, <2>2
<1>6. got' = f /\ Len(got') = n
    <2>1. PICK S : S = {f[i] : i \in 1 .. n}
        OBVIOUS
    <2>2. got \in Seq(S) /\ f[n] \in S
        BY <1>1, <1>2, <1>5, <2>1
    <2>3. /\ Append(got, f[n]) \in Seq(S) /\ Len(Append(got, f[n])) = n
          /\ \A i \in 1 .. Len(got) : Append(got, f[n])[i] = got[i]
          /\ Append(got, f[n])[n] = f[n]
        BY <1>1, <1>2, <2>2, AppendProperties
    <2>4. got' = Append(got, f[n])
        BY <1>1, <1>2, <1>4
    <2>5. \A i \in 1 .. n : got'[i] = f[i]
        BY <1>1, <1>2, <1>5, <2>3, <2>4
    <2>6. got' = [i \in 1 .. n |-> got'[i]]
        BY <1>2, <2>3, <2>4
    <2>7. QED
        BY <1>4, <2>3, <2>4, <2>5, <2>6
<1>7. UNCHANGED <<order, out, turns, fields, written, begins>>
    BY DEF sent
<1>8. ReadPosition' = EndOf(n)
    <2>1. ReadPosition' = (IF n = Len(fields) THEN Len(written) ELSE begins[n + 1]) + 0
        BY <1>6, <1>7 DEF ReadPosition
    <2>2. ReadPosition' = EndOf(n) + 0
        BY <2>1 DEF EndOf
    <2>3. QED
        BY <1>2, <2>2
<1>9. GetByteLength(out)' = GetByteLength(out)
    BY <1>7 DEF GetByteLength
<1>10. /\ order' \in [sender : ByteOrder, receiver : ByteOrder]
       /\ \A i \in 0 .. BytesFor(in'.mBitCapacity) - 1 :
              in'.mBuffer[i] = out'.mBuffer[i]
       /\ BytesFor(in'.mBitCapacity) <= GetByteLength(out)'
    BY <1>3, <1>7, <1>9 DEF ReadingInvariant
<1>11. /\ Len(got') \in 0 .. Len(fields')
       /\ got' = [i \in 1 .. Len(got') |-> ReadAs(fields'[i], order'.receiver)]
    BY <1>2, <1>4, <1>6, <1>7
<1>12. QED
    BY <1>2, <1>3, <1>7, <1>8, <1>10, <1>11 DEF ReadingInvariant

\* The field that is next.
LEMMA NextField ==
    ASSUME BufferInvariant, LayoutInvariant, ReadingInvariant, NEW kind, Expects(kind),
           NEW n, n = Len(got) + 1
    PROVE  /\ phase = "reading" /\ Len(got) < Len(fields) /\ n \in 1 .. Len(fields)
           /\ fields[n].kind = kind
           /\ fields[n] = [kind |-> kind, value |-> fields[n].value]
           /\ kind # "string" => length = -1 /\ in.mBitHead = begins[n]
           /\ EndOf(n) = begins[n] + BitsAfter(Calls(n), Len(Calls(n)))
           /\ \E f \in Field :
                  f = fields[n] /\ Calls(n) = TurnsOfField(f, order.sender)
<1>1. phase = "reading" /\ Len(got) < Len(fields) /\ fields[n].kind = kind
    BY DEF Expects
<1>2. /\ n \in 1 .. Len(fields) /\ fields[n] \in Field
      /\ length = -1 => in.mBitHead = begins[n]
      /\ EndOf(n) = begins[n] + BitsAfter(Calls(n), Len(Calls(n)))
    BY <1>1, ReadingOf
<1>3. fields[n] = [kind |-> fields[n].kind, value |-> fields[n].value]
    BY <1>2, KindsOfFields
<1>4. kind # "string" => length = -1
    BY <1>1 DEF ReadingInvariant
<1>5. Calls(n) = TurnsOfField(fields[n], order.sender)
    BY DEF Calls
<1>6. QED
    BY <1>1, <1>2, <1>3, <1>4, <1>5

LEMMA ReadingBool ==
    ASSUME BufferInvariant, LayoutInvariant, ReadingInvariant, ReadBool
    PROVE  ReadingInvariant'
<1>1. PICK n : n = Len(got) + 1
    OBVIOUS
<1>2. Expects("bool") /\ UNCHANGED <<order, sent>>
    BY DEF ReadBool
<1>3. /\ phase = "reading" /\ Len(got) < Len(fields) /\ n \in 1 .. Len(fields)
      /\ fields[n].kind = "bool"
      /\ fields[n] = [kind |-> "bool", value |-> fields[n].value]
      /\ length = -1 /\ in.mBitHead = begins[n]
      /\ EndOf(n) = begins[n] + BitsAfter(Calls(n), Len(Calls(n)))
    BY <1>1, <1>2, NextField
<1>4. BitsAfter(Calls(n), Len(Calls(n))) = 1
    BY <1>1, <1>2, <1>3, NextField, SizeOfFields
<1>5. in.mBitHead + 1 = EndOf(n) /\ EndOf(n) \in Nat
    BY <1>1, <1>3, <1>4, ReadingOf
<1>6. CASE Throws(1)
    BY <1>1, <1>2, <1>3, <1>5, <1>6, ReadingThrows
<1>7. CASE ~ Throws(1)
    <2>1. PICK value : value = NumberOf(IF ByteAt(in, in.mBitHead, 1) # ZeroByte
                                        THEN 1 ELSE 0)
        OBVIOUS
    <2>2. /\ Takes(1) /\ length' = length
          /\ got' = Append(got, [kind |-> "bool", value |-> value])
        BY <1>7, <2>1 DEF ReadBool, Got
    <2>3. value = fields[n].value
        BY <1>3, <2>1, <2>2, BoolIsRead DEF Takes
    <2>4. got' = Append(got, ReadAs(fields[n], order.receiver)) /\ length' = -1
        BY <1>3, <2>2, <2>3, ReadAsItIs
    <2>5. QED
        BY <1>1, <1>2, <1>3, <1>5, <2>2, <2>4, ReadingTakes
<1>8. QED
    BY <1>6, <1>7

LEMMA ReadingAction ==
    ASSUME BufferInvariant, LayoutInvariant, ReadingInvariant, ReadAction
    PROVE  ReadingInvariant'
<1>1. PICK n : n = Len(got) + 1
    OBVIOUS
<1>2. Expects("action") /\ UNCHANGED <<order, sent>>
    BY DEF ReadAction
<1>3. /\ phase = "reading" /\ Len(got) < Len(fields) /\ n \in 1 .. Len(fields)
      /\ fields[n].kind = "action"
      /\ fields[n] = [kind |-> "action", value |-> fields[n].value]
      /\ length = -1 /\ in.mBitHead = begins[n]
      /\ EndOf(n) = begins[n] + BitsAfter(Calls(n), Len(Calls(n)))
    BY <1>1, <1>2, NextField
<1>4. BitsAfter(Calls(n), Len(Calls(n))) = ActionBits
    BY <1>1, <1>2, <1>3, NextField, SizeOfFields
<1>5. in.mBitHead + ActionBits = EndOf(n) /\ EndOf(n) \in Nat /\ ActionBits \in Nat
    BY <1>1, <1>3, <1>4, ReadingOf, ActionBitsValue
<1>6. CASE Throws(ActionBits)
    BY <1>1, <1>2, <1>3, <1>5, <1>6, ReadingThrows
<1>7. CASE ~ Throws(ActionBits)
    <2>1. PICK memory :
              memory = [i \in 1 .. IntBytes |->
                           IF i \in DOMAIN BytesRead(in, ActionBits)
                           THEN BytesRead(in, ActionBits)[i] ELSE ZeroByte]
        OBVIOUS
    <2>2. /\ Takes(ActionBits) /\ length' = length
          /\ got' = Append(got, [kind |-> "action",
                                 value |-> InMemory(memory, order.receiver)])
        BY <1>7, <2>1 DEF ReadAction, Got
    <2>3. ReadAs(fields[n], order.receiver)
              = [kind |-> "action", value |-> InMemory(memory, order.receiver)]
        BY <1>3, <2>1, <2>2, ActionIsRead DEF Takes
    <2>4. got' = Append(got, ReadAs(fields[n], order.receiver)) /\ length' = -1
        BY <1>3, <2>2, <2>3
    <2>5. QED
        BY <1>1, <1>2, <1>3, <1>5, <2>2, <2>4, ReadingTakes
<1>8. QED
    BY <1>6, <1>7

LEMMA ReadingInt ==
    ASSUME BufferInvariant, LayoutInvariant, ReadingInvariant, ReadInt
    PROVE  ReadingInvariant'
<1>1. PICK n : n = Len(got) + 1
    OBVIOUS
<1>2. Expects("int") /\ UNCHANGED <<order, sent>>
    BY DEF ReadInt
<1>3. /\ phase = "reading" /\ Len(got) < Len(fields) /\ n \in 1 .. Len(fields)
      /\ fields[n].kind = "int"
      /\ fields[n] = [kind |-> "int", value |-> fields[n].value]
      /\ length = -1 /\ in.mBitHead = begins[n]
      /\ EndOf(n) = begins[n] + BitsAfter(Calls(n), Len(Calls(n)))
    BY <1>1, <1>2, NextField
<1>4. BitsAfter(Calls(n), Len(Calls(n))) = IntBits
    BY <1>1, <1>2, <1>3, NextField, SizeOfFields
<1>5. in.mBitHead + IntBits = EndOf(n) /\ EndOf(n) \in Nat /\ IntBits \in Nat
    BY <1>1, <1>3, <1>4, ReadingOf, ObjectAssumption, StreamAssumption DEF IntBits
<1>6. CASE Throws(IntBits)
    BY <1>1, <1>2, <1>3, <1>5, <1>6, ReadingThrows
<1>7. CASE ~ Throws(IntBits)
    <2>1. /\ Takes(IntBits) /\ length' = length
          /\ got' = Append(got, [kind |-> "int", value |-> NumberRead])
        BY <1>7 DEF ReadInt, Got
    <2>2. fields[n] \in Field
        BY <1>3, LayoutOf
    <2>3. PICK number : number = fields[n].value
        OBVIOUS
    <2>4. number \in Number
        BY <1>3, <2>2, <2>3, KindsOfFields
    <2>5. /\ Len(Calls(n)) = IntBytes
          /\ \A i \in 1 .. IntBytes : Calls(n)[i] = WholeTurn(number[i])
        BY <1>3, <2>2, <2>3, CallsOfFields DEF Calls
    <2>6. NumberRead = number
        <3>1. IntBytes <= Len(Calls(n))
            BY <2>5, ObjectAssumption
        <3>2. phase # "writing" /\ ~ ReadThrows(in, IntBits)
            BY <1>3, <2>1 DEF Takes
        <3>3. QED
            BY <1>3, <2>4, <2>5, <3>1, <3>2, NumberIsRead
    <2>7. got' = Append(got, ReadAs(fields[n], order.receiver)) /\ length' = -1
        BY <1>3, <2>1, <2>3, <2>6, ReadAsItIs
    <2>8. QED
        BY <1>1, <1>2, <1>3, <1>5, <2>1, <2>7, ReadingTakes
<1>8. QED
    BY <1>6, <1>7

\* A string and the calls that write it.
StringAt(n, string) ==
    /\ fields[n] = [kind |-> "string", value |-> string]
    /\ string \in Seq(Byte) /\ Len(string) \in Nat
    /\ EndOf(n) = begins[n] + (IntBits + Len(string) * ByteBits)
    /\ Len(Calls(n)) = IntBytes + Len(string)
    /\ \A i \in 1 .. IntBytes :
           Calls(n)[i] = WholeTurn(NumberOf(Len(string))[i])
    /\ \A i \in 1 .. Len(string) :
           Calls(n)[IntBytes + i] = WholeTurn(string[i])

LEMMA StringField ==
    ASSUME BufferInvariant, LayoutInvariant, ReadingInvariant, Expects("string"),
           NEW n, n = Len(got) + 1
    PROVE  \E string \in Strings : StringAt(n, string)
<1>1. /\ n \in 1 .. Len(fields) /\ fields[n].kind = "string"
      /\ fields[n] = [kind |-> "string", value |-> fields[n].value]
      /\ EndOf(n) = begins[n] + BitsAfter(Calls(n), Len(Calls(n)))
    BY NextField
<1>2. fields[n] \in Field
    BY <1>1, LayoutOf
<1>3. PICK string : string = fields[n].value
    OBVIOUS
<1>4. string \in Strings /\ string \in Seq(Byte)
    BY <1>1, <1>2, <1>3, KindsOfFields
<1>5. BitsAfter(Calls(n), Len(Calls(n))) = IntBits + Len(string) * ByteBits
    BY <1>1, <1>2, <1>3, SizeOfFields DEF Calls
<1>6. /\ Len(Calls(n)) = IntBytes + Len(string)
      /\ \A i \in 1 .. IntBytes :
             Calls(n)[i] = WholeTurn(NumberOf(Len(string))[i])
      /\ \A i \in 1 .. Len(string) :
             Calls(n)[IntBytes + i] = WholeTurn(string[i])
    BY <1>1, <1>2, <1>3, CallsOfFields DEF Calls
<1>7. Len(string) \in Nat
    BY <1>4
<1>8. QED
    BY <1>1, <1>3, <1>4, <1>5, <1>6, <1>7 DEF StringAt

LEMMA ReadingStringLength ==
    ASSUME BufferInvariant, LayoutInvariant, ReadingInvariant, ReadStringLength
    PROVE  ReadingInvariant'
<1>1. PICK n : n = Len(got) + 1
    OBVIOUS
<1>2. Expects("string") /\ length = -1 /\ UNCHANGED <<order, sent>>
    BY DEF ReadStringLength
<1>3. /\ phase = "reading" /\ Len(got) < Len(fields) /\ n \in 1 .. Len(fields)
    BY <1>1, <1>2, NextField
<1>4. PICK string \in Strings : StringAt(n, string)
    BY <1>1, <1>2, StringField
<1> USE DEF StringAt
<1>5. /\ in.mBitHead = begins[n] /\ begins[n] \in Nat /\ in.mBitHead \in Nat
    BY <1>1, <1>2, <1>3, ReadingOf
<1>6. /\ ByteBits \in Nat /\ IntBytes \in Nat /\ IntBits \in Nat
      /\ Len(string) * ByteBits \in Nat
    BY <1>4, ObjectAssumption, StreamAssumption DEF IntBits
<1>7. in.mBitHead + IntBits <= EndOf(n)
    BY <1>4, <1>5, <1>6
<1>8. CASE Throws(IntBits)
    BY <1>1, <1>2, <1>3, <1>6, <1>7, <1>8, ReadingThrows
<1>9. CASE ~ Throws(IntBits)
    <2>1. Takes(IntBits) /\ length' = LengthOf(NumberRead) /\ got' = got
        BY <1>9 DEF ReadStringLength
    <2>2. NumberRead = NumberOf(Len(string))
        <3>1. IntBytes <= Len(Calls(n)) /\ NumberOf(Len(string)) \in Number
            BY <1>4, <1>6, NumberIsTyped
        <3>2. phase # "writing" /\ ~ ReadThrows(in, IntBits)
            BY <1>3, <2>1 DEF Takes
        <3>3. PICK number \in Number : number = NumberOf(Len(string))
            BY <3>1
        <3>4. NumberRead = number
            BY <1>3, <1>4, <1>5, <3>1, <3>2, <3>3, NumberIsRead
        <3>5. QED
            BY <3>3, <3>4
    <2>3. length' = Len(string) /\ length' # -1
        BY <1>4, <2>1, <2>2, LengthAssumption
    <2>4. /\ in'.mBitHead = in.mBitHead + IntBits /\ in'.mBitHead \in Nat
          /\ in'.mBitHead <= in'.mBitCapacity
          /\ in'.mBitCapacity = in.mBitCapacity /\ in'.mBuffer = in.mBuffer
          /\ phase' = "reading"
        BY <1>3, <1>6, <2>1, InputAfterRead
    <2>5. UNCHANGED <<order, out, turns, fields, written, begins>>
        BY <1>2 DEF sent
    <2>6. ReadPosition' = begins[n] + IntBits
        BY <1>1, <1>3, <2>1, <2>3, <2>5 DEF ReadPosition
    <2>7. GetByteLength(out)' = GetByteLength(out)
        BY <2>5 DEF GetByteLength
    <2>8. fields'[Len(got') + 1].kind = "string"
          /\ length' = Len(fields'[Len(got') + 1].value)
        BY <1>1, <1>4, <2>1, <2>3, <2>5
    <2>9. Len(got') < Len(fields')
        BY <1>3, <2>1, <2>5
    <2>10. QED
        BY <1>3, <1>5, <2>1, <2>4, <2>5, <2>6, <2>7, <2>8, <2>9 DEF ReadingInvariant
<1>10. QED
    BY <1>8, <1>9

LEMMA ReadingString ==
    ASSUME BufferInvariant, LayoutInvariant, ReadingInvariant, ReadString
    PROVE  ReadingInvariant'
<1>1. PICK n : n = Len(got) + 1
    OBVIOUS
<1>2. Expects("string") /\ length # -1 /\ UNCHANGED <<order, sent>>
    BY DEF ReadString
<1>3. /\ phase = "reading" /\ Len(got) < Len(fields) /\ n \in 1 .. Len(fields)
    BY <1>1, <1>2, NextField
<1>4. PICK string \in Strings : StringAt(n, string)
    BY <1>1, <1>2, StringField
<1> USE DEF StringAt
<1>5. /\ in.mBitHead = begins[n] + IntBits /\ begins[n] \in Nat /\ in.mBitHead \in Nat
    BY <1>1, <1>2, <1>3, ReadingOf
<1>6. /\ ByteBits \in Nat /\ IntBytes \in Nat /\ IntBits \in Nat
      /\ Len(string) * ByteBits \in Nat
    BY <1>4, ObjectAssumption, StreamAssumption DEF IntBits
<1>7. length = Len(string)
    BY <1>1, <1>2, <1>4 DEF ReadingInvariant
<1>8. PICK bitCount \in Nat : bitCount = Len(string) * ByteBits
    BY <1>6
<1>9. in.mBitHead + bitCount = EndOf(n) /\ EndOf(n) \in Nat
    <2>1. PICK begin, head : begin = begins[n] /\ head = in.mBitHead
        OBVIOUS
    <2>2. /\ EndOf(n) = begin + (IntBits + bitCount) /\ head = begin + IntBits
          /\ begin \in Nat
        BY <1>4, <1>5, <1>8, <2>1
    <2>3. head + bitCount = begin + (IntBits + bitCount)
        BY <1>6, <2>2
    <2>4. begin + (IntBits + bitCount) \in Nat
        BY <1>6, <2>2
    <2>5. QED
        BY <2>1, <2>2, <2>3, <2>4
<1>10. CASE Throws(bitCount)
    BY <1>1, <1>2, <1>3, <1>9, <1>10, ReadingThrows
<1>11. CASE ~ Throws(bitCount)
    <2>1. /\ Takes(bitCount) /\ length' = -1
          /\ got' = Append(got, [kind |-> "string", value |-> BytesRead(in, bitCount)])
        BY <1>7, <1>8, <1>11 DEF ReadString, Got
    <2>2. BytesRead(in, bitCount) = string
        <3>1. IntBytes + Len(string) <= Len(Calls(n))
            BY <1>4, <1>6
        <3>2. phase # "writing" /\ ~ ReadThrows(in, Len(string) * ByteBits)
            BY <1>3, <1>8, <2>1 DEF Takes
        <3>3. in.mBitHead = begins[n] + Start(IntBytes)
            BY <1>5 DEF Start, IntBits
        <3>4. BytesRead(in, Len(string) * ByteBits) = string
            BY <1>3, <1>4, <1>6, <3>1, <3>2, <3>3, BytesAreRead
        <3>5. QED
            BY <1>8, <3>4
    <2>3. got' = Append(got, ReadAs(fields[n], order.receiver))
        BY <1>4, <2>1, <2>2, ReadAsItIs
    <2>4. QED
        BY <1>1, <1>2, <1>3, <1>9, <2>1, <2>3, ReadingTakes
<1>12. QED
    BY <1>10, <1>11

----------------------------------------------------------------------------
(***************************************************************************)
(* The invariant.                                                          *)
(***************************************************************************)

LEMMA StreamInit == Init => StreamInvariant
BY BufferInit, LayoutInit, ReadingInit DEF StreamInvariant

LEMMA ReadingNext ==
    ASSUME BufferInvariant, LayoutInvariant, ReadingInvariant, LayoutInvariant',
           [Next]_vars
    PROVE  ReadingInvariant'
<1>1. CASE Write
    BY <1>1, ReadingWriting DEF Write
<1>2. CASE WriteBits
    BY <1>2, ReadingWriting DEF WriteBits
<1>3. CASE Transfer
    BY <1>3, ReadingTransfer
<1>4. CASE ReadBool
    BY <1>4, ReadingBool
<1>5. CASE ReadAction
    BY <1>5, ReadingAction
<1>6. CASE ReadInt
    BY <1>6, ReadingInt
<1>7. CASE ReadStringLength
    BY <1>7, ReadingStringLength
<1>8. CASE ReadString
    BY <1>8, ReadingString
<1>9. CASE UNCHANGED vars
    BY <1>9, ReadingKept DEF vars
<1>10. QED
    BY <1>1, <1>2, <1>3, <1>4, <1>5, <1>6, <1>7, <1>8, <1>9 DEF Next

\* Whatever is written, at any alignment, and however often the buffer has to
\* grow, the invariant of the sender's stream holds, and each field lies where
\* it begins (OutputMemoryBitStream.cpp:50-102, InputMemoryBitStream.cpp:10-17).
THEOREM MessageIsHeld == Spec => [](BufferInvariant /\ LayoutInvariant)
<1>1. Init => BufferInvariant /\ LayoutInvariant
    BY BufferInit, LayoutInit
<1>2. /\ BufferInvariant /\ LayoutInvariant /\ [Next]_vars
      => (BufferInvariant /\ LayoutInvariant)'
    BY BufferNext, LayoutNext
<1>3. QED
    BY <1>1, <1>2, PTL DEF Spec

\* Below the head the buffer holds exactly the bits that were written
\* (OutputMemoryBitStream.cpp:64-102).
THEOREM WrittenBitsAreHeld == Spec => []StreamHoldsWhatWasWritten
<1>1. BufferInvariant => StreamHoldsWhatWasWritten
    BY DEF BufferInvariant
<1>2. QED
    BY <1>1, MessageIsHeld, PTL

\* No bit of memory that nobody has written is sent
\* (OutputMemoryBitStream.cpp:40 and 83-84).
THEOREM NothingUnwrittenIsSent == Spec => []OnlyWrittenBitsAreSent
<1>1. BufferInvariant => OnlyWrittenBitsAreSent
    BY DEF BufferInvariant
<1>2. QED
    BY <1>1, MessageIsHeld, PTL

\* The receiver has what its machine makes of the fields it read, and its head
\* is where the next field begins (InputMemoryBitStream.cpp:24-98).
THEOREM InvariantHolds == Spec => []StreamInvariant
<1>1. StreamInvariant /\ [Next]_vars => StreamInvariant'
    BY BufferNext, LayoutNext, ReadingNext DEF StreamInvariant
<1>2. QED
    BY <1>1, StreamInit, PTL DEF Spec

\* The streams, the calls and the length keep their types: of the length, that
\* the string's fits in the four bytes that are written for it
\* (ObjectSocketUtil and the Serialize methods write it as a uint32_t).
THEOREM TypeCorrect == Spec => []TypeOK
<1>1. StreamInvariant => TypeOK
    <2> SUFFICES ASSUME StreamInvariant PROVE TypeOK
        OBVIOUS
    <2>1. BufferInvariant /\ LayoutInvariant /\ ReadingInvariant
        BY DEF StreamInvariant
    <2>2. InputType(in)
        BY <2>1 DEF BufferInvariant, ReadingInvariant, InputType
    <2>3. length \in {-1} \cup 0 .. 2^IntBits - 1
        <3>1. CASE length = -1
            BY <3>1
        <3>2. CASE length # -1
            <4>1. PICK n : n = Len(got) + 1
                OBVIOUS
            <4>2. /\ Len(got) < Len(fields) /\ fields[n].kind = "string"
                  /\ length = Len(fields[n].value) /\ Len(got) \in Nat
                BY <2>1, <3>2, <4>1 DEF ReadingInvariant
            <4>3. Len(fields) \in Nat
                BY <2>1 DEF LayoutInvariant
            <4>4. n \in 1 .. Len(fields)
                BY <4>1, <4>2, <4>3
            <4>5. fields[n] \in Field
                BY <2>1, <4>4, LayoutOf
            <4>6. PICK string : string = fields[n].value
                OBVIOUS
            <4>7. string \in Strings /\ string \in Seq(Byte)
                BY <4>2, <4>5, <4>6, KindsOfFields
            <4>8. length = Len(string) /\ Len(string) \in Nat
                BY <4>2, <4>6, <4>7
            <4>9. QED
                BY <4>7, <4>8, LengthAssumption
        <3>3. QED
            BY <3>1, <3>2
    <2>4. QED
        BY <2>1, <2>2, <2>3
           DEF BufferInvariant, LayoutInvariant, ReadingInvariant, TypeOK
<1>2. QED
    BY <1>1, InvariantHolds, PTL

\* The fields that were read are the first that were written, but for the
\* actions that a big-endian machine read, whatever the byte orders of the two
\* machines and wherever the message was cut
\* (InputMemoryBitStream.cpp:24-44 and 54-98, ReplicationHeader.cpp:32-42).
THEOREM ReadsAreRight == Spec => []ReadsReturnWhatWasWritten
<1>1. StreamInvariant => ReadsReturnWhatWasWritten
    <2> SUFFICES ASSUME StreamInvariant PROVE ReadsReturnWhatWasWritten
        OBVIOUS
    <2>1. PICK f, n : /\ n = Len(fields)
                      /\ f = [i \in 1 .. n |-> ReadAs(fields[i], order.receiver)]
        OBVIOUS
    <2>2. /\ Len(got) \in 0 .. n /\ n \in Nat
          /\ got = [i \in 1 .. Len(got) |-> ReadAs(fields[i], order.receiver)]
        BY <2>1 DEF StreamInvariant, ReadingInvariant, LayoutInvariant
    <2>3. /\ f \in Seq({f[i] : i \in 1 .. n}) /\ Len(f) = n
          /\ got = [i \in 1 .. Len(got) |-> f[i]]
        BY <2>1, <2>2
    <2>4. SubSeq(f, 1, Len(got)) = [i \in 1 .. Len(got) |-> f[i]]
        BY <2>2, <2>3
    <2>5. IsPrefix(got, f)
        BY <2>2, <2>3, <2>4 DEF IsPrefix
    <2>6. QED
        BY <2>1, <2>5 DEF ReadsReturnWhatWasWritten
<1>2. QED
    BY <1>1, InvariantHolds, PTL

\* A read throws only when the message was cut, and a message that was cut in
\* what was written is not read to its end (InputMemoryBitStream.cpp:82-85).
THEOREM ThrowsAreRight == Spec => []ThrowsExactlyWhenCut
<1>1. StreamInvariant => ThrowsExactlyWhenCut
    <2> SUFFICES ASSUME StreamInvariant PROVE ThrowsExactlyWhenCut
        OBVIOUS
    <2>1. out.mBitHead = Len(written)
        BY DEF StreamInvariant, BufferInvariant, StreamHoldsWhatWasWritten
    <2>2. phase = "thrown" => in.mBitCapacity < Len(written)
        BY DEF StreamInvariant, ReadingInvariant
    <2>3. ASSUME phase = "reading", Len(got) = Len(fields)
          PROVE  in.mBitCapacity >= Len(written)
        <3>1. /\ in.mBitHead = ReadPosition /\ in.mBitHead <= in.mBitCapacity
              /\ length # -1 => Len(got) < Len(fields)
            BY <2>3 DEF StreamInvariant, ReadingInvariant
        <3>2. Len(fields) \in Nat /\ Len(written) \in Nat
            BY DEF StreamInvariant, LayoutInvariant, BufferInvariant
        <3>3. length = -1
            BY <2>3, <3>1, <3>2
        <3>4. in.mBitHead = Len(written) + 0
            BY <2>3, <3>1, <3>3 DEF ReadPosition
        <3>5. in.mBitCapacity \in Nat
            BY DEF StreamInvariant, BufferInvariant, InputBufferType
        <3>6. QED
            BY <3>1, <3>2, <3>4, <3>5
    <2>4. QED
        BY <2>1, <2>2, <2>3 DEF ThrowsExactlyWhenCut
<1>2. QED
    BY <1>1, InvariantHolds, PTL
=============================================================================
