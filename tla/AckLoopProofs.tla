--------------------------- MODULE AckLoopProofs ---------------------------
(***************************************************************************)
(* Theorems about the loop of ProcessAcks, for every queue of consecutive  *)
(* packets, every range and every width of sequence numbers.               *)
(***************************************************************************)
EXTENDS AckLoop, DeliveryNotificationManagerProofs

\* A remainder is below its modulus.
LEMMA ModType ==
    ASSUME NEW a \in Nat, NEW m \in Nat \ {0}
    PROVE  a % m \in 0 .. m - 1
OBVIOUS

\* Only one number below the modulus leaves a multiple of it.
LEMMA ModUnique ==
    ASSUME NEW a \in Int, NEW m \in Nat \ {0}, NEW q \in Int, NEW r \in 0 .. m - 1,
           a = m * q + r
    PROVE  a % m = r
OBVIOUS

\* Incrementing a number that wraps is wrapping the number incremented.
LEMMA ModSuccessor ==
    ASSUME NEW a \in Nat, NEW m \in Nat \ {0}
    PROVE  (IF (a % m) + 1 = m THEN 0 ELSE (a % m) + 1) = (a + 1) % m
<1> DEFINE q == a \div m
           r == a % m
<1>1. q \in Int /\ r \in 0 .. m - 1 /\ a = m * q + r
    BY ModType
<1> HIDE DEF q, r
<1>2. CASE r + 1 < m
    <2>1. a + 1 = m * q + (r + 1) /\ r + 1 \in 0 .. m - 1
        BY <1>1, <1>2
    <2>2. (a + 1) % m = r + 1
        BY <1>1, <2>1, ModUnique
    <2>3. QED
        BY <1>1, <1>2, <2>2 DEF r
<1>3. CASE r + 1 = m
    <2>1. a + 1 = m * (q + 1) + 0
        BY <1>1, <1>3
    <2>2. (a + 1) % m = 0
        BY <1>1, <2>1, ModUnique
    <2>3. QED
        BY <1>3, <2>2 DEF r
<1>4. QED
    BY <1>1, <1>2, <1>3

\* The numbers of a queue follow each other, also across the wrap.
LEMMA QueuesAreConsecutive ==
    ASSUME NEW q \in Queues
    PROVE  /\ q \in Seq(InFlightPacket)
           /\ Len(q) \in Nat
           /\ \A i \in 1 .. Len(q) - 1 :
                  q[i + 1].mSequenceNumber = NextSequenceNumber(q[i].mSequenceNumber)
<1>1. PICK n \in 0 .. MaxInFlight : \E first \in PacketSequenceNumber :
          q = [i \in 1 .. n |-> [mSequenceNumber   |-> Consecutive(first, i),
                                 mTimeDispatched   |-> 0,
                                 mTransmissionData |-> i]]
    BY DEF Queues
<1>2. PICK first \in PacketSequenceNumber :
          q = [i \in 1 .. n |-> [mSequenceNumber   |-> Consecutive(first, i),
                                 mTimeDispatched   |-> 0,
                                 mTransmissionData |-> i]]
    BY <1>1
<1>3. n \in Nat /\ first \in Nat /\ SeqMod \in Nat \ {0}
    BY LoopAssumption, ManagerAssumption DEF PacketSequenceNumber
<1>4. \A i \in 1 .. n : Consecutive(first, i) \in PacketSequenceNumber
    BY <1>3, ModType DEF Consecutive, PacketSequenceNumber
<1>5. q \in [1 .. n -> InFlightPacket]
    BY <1>2, <1>3, <1>4 DEF InFlightPacket
<1>6. q \in Seq(InFlightPacket) /\ Len(q) = n
    BY <1>3, <1>5, FunctionIsSequence
<1>7. ASSUME NEW i \in 1 .. n - 1
      PROVE  q[i + 1].mSequenceNumber = NextSequenceNumber(q[i].mSequenceNumber)
    <2>1. i \in 1 .. n /\ i + 1 \in 1 .. n /\ first + i - 1 \in Nat
        BY <1>3
    <2>2. /\ q[i].mSequenceNumber = (first + i - 1) % SeqMod
          /\ q[i + 1].mSequenceNumber = (first + (i + 1) - 1) % SeqMod
        BY <1>2, <2>1 DEF Consecutive
    <2>3. first + (i + 1) - 1 = (first + i - 1) + 1
        BY <1>3
    <2>4. NextSequenceNumber((first + i - 1) % SeqMod) = ((first + i - 1) + 1) % SeqMod
        BY <1>3, <2>1, ModSuccessor, Zenon DEF NextSequenceNumber
    <2>5. ((first + i - 1) + 1) % SeqMod = (first + (i + 1) - 1) % SeqMod
        BY <2>3, Zenon
    <2>6. QED
        BY <2>2, <2>4, <2>5, Zenon
<1>8. QED
    BY <1>3, <1>6, <1>7

\* Entry i, its number and the range in the terms the steps below need.
LEMMA LoopTypes ==
    ASSUME LoopInvariant
    PROVE  /\ queue \in Seq(InFlightPacket) /\ Len(queue) \in Nat
           /\ \A i \in 1 .. Len(queue) :
                  queue[i].mSequenceNumber \in PacketSequenceNumber
           /\ popped \in Nat /\ popped <= Len(queue)
           /\ packetToCheck \in PacketSequenceNumber
           /\ range.mStart \in Nat /\ range.mCount \in Nat /\ range.mCount >= 1
           /\ packetToCheckEnd \in Nat /\ range.mStart < packetToCheckEnd
           /\ PacketSequenceNumber \subseteq Nat
           /\ \A i \in PacketSequenceNumber :
                  NextSequenceNumber(i) \in PacketSequenceNumber
<1>1. queue \in Seq(InFlightPacket) /\ Len(queue) \in Nat
    BY DEF LoopInvariant, TypeOK
<1>2. \A i \in 1 .. Len(queue) : queue[i] \in InFlightPacket
    BY <1>1, ElementOfSeq
<1>3. \A i \in 1 .. Len(queue) : queue[i].mSequenceNumber \in PacketSequenceNumber
    BY <1>2 DEF InFlightPacket
<1>4. PacketSequenceNumber \subseteq Nat
    BY DEF PacketSequenceNumber
<1>5. /\ range.mStart \in PacketSequenceNumber
      /\ range.mCount \in Nat /\ range.mCount >= 1
    BY ManagerAssumption DEF LoopInvariant, Ranges
<1>6. range.mStart \in Nat
    BY <1>4, <1>5
<1>7. packetToCheckEnd \in Nat /\ range.mStart < packetToCheckEnd
    BY <1>5, <1>6 DEF packetToCheckEnd
<1>8. \A i \in PacketSequenceNumber : NextSequenceNumber(i) \in PacketSequenceNumber
    BY NextSequenceNumberType
<1>9. QED
    BY <1>1, <1>3, <1>4, <1>5, <1>6, <1>7, <1>8 DEF LoopInvariant, TypeOK

\* The loop starts with nothing popped.
LEMMA LoopInit == Init => LoopInvariant
<1> SUFFICES ASSUME Init PROVE LoopInvariant
    OBVIOUS
<1>1. /\ queue \in Seq(InFlightPacket) /\ Len(queue) \in Nat
      /\ \A i \in 1 .. Len(queue) - 1 :
             queue[i + 1].mSequenceNumber
                 = NextSequenceNumber(queue[i].mSequenceNumber)
    BY QueuesAreConsecutive DEF Init
<1>2. range \in AckRange /\ range \in Ranges
    BY ManagerAssumption DEF Init, Ranges, AckRange
<1>3. range.mStart \in PacketSequenceNumber
    BY <1>2 DEF AckRange
<1>4. TypeOK
    BY <1>1, <1>2, <1>3 DEF Init, TypeOK
<1>5. 0 \in 0 .. popped /\ MissedSoFar(0)
    <2>1. results = [i \in 1 .. popped |-> i > 0]
        BY DEF Init
    <2>2. QED
        BY <2>1 DEF Init, MissedSoFar
<1>6. QED
    BY <1>1, <1>2, <1>4, <1>5 DEF LoopInvariant

\* Appending one more result.
LEMMA AppendBoolean ==
    ASSUME NEW s \in Seq(BOOLEAN), NEW b \in BOOLEAN, NEW n, Len(s) = n
    PROVE  /\ Append(s, b) \in Seq(BOOLEAN)
           /\ Len(Append(s, b)) = n + 1
           /\ \A i \in 1 .. n : Append(s, b)[i] = s[i]
           /\ Append(s, b)[n + 1] = b
BY AppendProperties

\* What a turn of the loop pops is appended to the results.
LEMMA ResultsGrow ==
    ASSUME LoopInvariant, NEW missed \in 0 .. popped,
           results = [i \in 1 .. popped |-> i > missed], NEW b \in BOOLEAN
    PROVE  Append(results, b) = [i \in 1 .. popped + 1 |->
                                     IF i = popped + 1 THEN b ELSE i > missed]
<1>1. popped \in Nat
    BY LoopTypes
<1>2. results \in Seq(BOOLEAN) /\ Len(results) = popped
    BY <1>1, FunctionIsSequence
<1> DEFINE grown == [i \in 1 .. popped + 1 |->
                         IF i = popped + 1 THEN b ELSE i > missed]
<1>3. grown \in Seq(BOOLEAN) /\ Len(grown) = popped + 1
    <2>1. ASSUME NEW i \in 1 .. popped + 1
          PROVE  (IF i = popped + 1 THEN b ELSE i > missed) \in BOOLEAN
        <3>1. (i > missed) \in BOOLEAN
            BY <1>1
        <3>2. QED
            BY <3>1, Zenon
    <2>2. grown \in [1 .. popped + 1 -> BOOLEAN]
        BY <2>1, Zenon
    <2>3. QED
        BY <1>1, <2>2, FunctionIsSequence
<1>4. /\ Append(results, b) \in Seq(BOOLEAN)
      /\ Len(Append(results, b)) = popped + 1
      /\ \A i \in 1 .. popped : Append(results, b)[i] = results[i]
      /\ Append(results, b)[popped + 1] = b
    <2>1. \A s \in Seq(BOOLEAN) : Len(s) = popped =>
              /\ Append(s, b) \in Seq(BOOLEAN)
              /\ Len(Append(s, b)) = popped + 1
              /\ \A i \in 1 .. popped : Append(s, b)[i] = s[i]
              /\ Append(s, b)[popped + 1] = b
        BY AppendBoolean
    <2>2. QED
        BY <1>2, <2>1, Zenon
<1>5. \A i \in 1 .. popped + 1 : Append(results, b)[i] = grown[i]
    <2>1. ASSUME NEW i \in 1 .. popped + 1
          PROVE  Append(results, b)[i] = grown[i]
        <3>1. CASE i = popped + 1
            BY <1>4, <3>1
        <3>2. CASE i # popped + 1
            <4>1. i \in 1 .. popped
                BY <1>1, <3>2
            <4>2. Append(results, b)[i] = results[i]
                BY <1>4, <4>1
            <4>3. results[i] = (i > missed) /\ grown[i] = (i > missed)
                BY <3>2, <4>1
            <4>4. QED
                BY <4>2, <4>3
        <3>3. QED
            BY <3>1, <3>2
    <2>2. QED
        BY <2>1
<1> HIDE DEF grown
<1>6. Append(results, b) = grown
    BY <1>3, <1>4, <1>5, SeqEqual
<1>7. QED
    BY <1>6 DEF grown

\* What a turn of the loop leaves alone.
LEMMA LoopFrame ==
    ASSUME LoopInvariant, UNCHANGED <<queue, range>>,
           popped' \in 0 .. Len(queue), results' \in Seq(BOOLEAN),
           packetToCheck' \in PacketSequenceNumber,
           \E missed \in 0 .. popped' : MissedSoFar(missed)'
    PROVE  LoopInvariant'
<1>1. TypeOK'
    BY DEF LoopInvariant, TypeOK
<1>2. range' \in Ranges
    BY DEF LoopInvariant
<1>3. \A i \in 1 .. Len(queue') - 1 :
          queue'[i + 1].mSequenceNumber
              = NextSequenceNumber(queue'[i].mSequenceNumber)
    BY DEF LoopInvariant
<1>4. QED
    BY <1>1, <1>2, <1>3 DEF LoopInvariant

\* A success: the next front has the next number.
LEMMA AckedPacketKeeps ==
    ASSUME LoopInvariant, AckedPacket
    PROVE  LoopInvariant'
<1>1. PICK missed \in 0 .. popped : MissedSoFar(missed)
    BY DEF LoopInvariant
<1>2. /\ LoopCondition /\ front = packetToCheck
      /\ results' = Append(results, TRUE)
      /\ popped' = popped + 1
      /\ packetToCheck' = NextSequenceNumber(packetToCheck)
      /\ UNCHANGED <<queue, range>>
    BY DEF AckedPacket
<1>3. /\ popped < Len(queue) /\ packetToCheck < packetToCheckEnd
      /\ popped + 1 \in 1 .. Len(queue)
    BY <1>2, LoopTypes DEF LoopCondition
<1>4. results' = [i \in 1 .. popped' |-> i > missed]
    <2>1. results' = [i \in 1 .. popped + 1 |->
                          IF i = popped + 1 THEN TRUE ELSE i > missed]
        BY <1>1, <1>2, ResultsGrow DEF MissedSoFar
    <2>2. popped + 1 > missed
        BY LoopTypes
    <2>3. QED
        BY <1>2, <2>1, <2>2
<1>5. \A i \in 1 .. popped' : queue[i].mSequenceNumber < packetToCheckEnd
    <2>1. ASSUME NEW i \in 1 .. popped + 1
          PROVE  queue[i].mSequenceNumber < packetToCheckEnd
        <3>1. CASE i = popped + 1
            BY <1>2, <1>3, <3>1 DEF front
        <3>2. CASE i # popped + 1
            <4>1. i \in 1 .. popped
                BY <3>2, LoopTypes
            <4>2. QED
                BY <1>1, <4>1 DEF MissedSoFar
        <3>3. QED
            BY <3>1, <3>2
    <2>2. QED
        BY <1>2, <2>1
<1>6. queue[missed + 1].mSequenceNumber >= range.mStart
    <2>1. CASE missed = popped /\ packetToCheck = range.mStart
        BY <1>2, <2>1, LoopTypes DEF front
    <2>2. CASE missed < Len(queue) => queue[missed + 1].mSequenceNumber >= range.mStart
        BY <1>3, <2>2, LoopTypes
    <2>3. QED
        BY <1>1, <2>1, <2>2 DEF MissedSoFar
<1>7. popped' < Len(queue') => front' = packetToCheck'
    <2>1. ASSUME popped + 1 < Len(queue)
          PROVE  queue[popped + 2].mSequenceNumber = NextSequenceNumber(packetToCheck)
        <3>1. popped + 1 \in 1 .. Len(queue) - 1 /\ (popped + 1) + 1 = popped + 2
            BY <2>1, LoopTypes
        <3>2. queue[(popped + 1) + 1].mSequenceNumber
                  = NextSequenceNumber(queue[popped + 1].mSequenceNumber)
            BY <3>1 DEF LoopInvariant
        <3>3. QED
            BY <1>2, <3>1, <3>2 DEF front
    <2>2. (popped + 1) + 1 = popped + 2
        BY LoopTypes
    <2>3. QED
        BY <1>2, <2>1, <2>2 DEF front
<1>8. missed \in 0 .. popped' /\ MissedSoFar(missed)'
    <2>1. missed \in 0 .. popped'
        BY <1>2, LoopTypes
    <2>2. packetToCheckEnd' = packetToCheckEnd
        BY <1>2 DEF packetToCheckEnd
    <2>3. \A i \in 1 .. missed : queue[i].mSequenceNumber < range.mStart
        BY <1>1 DEF MissedSoFar
    <2>4. QED
        BY <1>2, <1>4, <1>5, <1>6, <1>7, <2>1, <2>2, <2>3 DEF MissedSoFar
<1>9. /\ popped' \in 0 .. Len(queue) /\ packetToCheck' \in PacketSequenceNumber
      /\ results' \in Seq(BOOLEAN)
    <2>1. results \in Seq(BOOLEAN)
        BY DEF LoopInvariant, TypeOK
    <2>2. Append(results, TRUE) \in Seq(BOOLEAN)
        BY <2>1, AppendProperties
    <2>3. QED
        BY <1>2, <1>3, <2>2, LoopTypes
<1>10. QED
    BY <1>2, <1>8, <1>9, LoopFrame

\* A failure: only entries below the range come before the first success.
LEMMA MissedPacketKeeps ==
    ASSUME LoopInvariant, MissedPacket
    PROVE  LoopInvariant'
<1>1. PICK missed \in 0 .. popped : MissedSoFar(missed)
    BY DEF LoopInvariant
<1>2. /\ LoopCondition /\ front < packetToCheck
      /\ results' = Append(results, FALSE)
      /\ popped' = popped + 1
      /\ UNCHANGED <<queue, range, packetToCheck>>
    BY DEF MissedPacket
<1>3. /\ popped < Len(queue) /\ popped + 1 \in 1 .. Len(queue)
    BY <1>2, LoopTypes DEF LoopCondition
<1>4. front \in Nat /\ packetToCheck \in Nat
    BY <1>3, LoopTypes DEF front
<1>5. missed = popped /\ packetToCheck = range.mStart
    BY <1>1, <1>2, <1>3, <1>4 DEF MissedSoFar
<1>6. results' = [i \in 1 .. popped' |-> i > missed + 1]
    <2>1. results' = [i \in 1 .. popped + 1 |->
                          IF i = popped + 1 THEN FALSE ELSE i > missed]
        BY <1>1, <1>2, ResultsGrow DEF MissedSoFar
    <2>2. ASSUME NEW i \in 1 .. popped + 1
          PROVE  (IF i = popped + 1 THEN FALSE ELSE i > missed) = (i > missed + 1)
        <3>1. (i > missed + 1) = FALSE
            BY <1>5, LoopTypes
        <3>2. i # popped + 1 => (i > missed) = FALSE
            BY <1>5, LoopTypes
        <3>3. QED
            BY <3>1, <3>2, Zenon
    <2>3. QED
        BY <1>2, <2>1, <2>2, Zenon
<1>7. \A i \in 1 .. popped + 1 :
          /\ queue[i].mSequenceNumber < range.mStart
          /\ queue[i].mSequenceNumber < packetToCheckEnd
    <2>1. ASSUME NEW i \in 1 .. popped + 1
          PROVE  queue[i].mSequenceNumber < range.mStart
        <3>1. CASE i = popped + 1
            BY <1>2, <1>5, <3>1 DEF front
        <3>2. CASE i # popped + 1
            <4>1. i \in 1 .. missed
                BY <1>5, <3>2, LoopTypes
            <4>2. QED
                BY <1>1, <4>1 DEF MissedSoFar
        <3>3. QED
            BY <3>1, <3>2
    <2>2. \A i \in 1 .. popped + 1 : queue[i].mSequenceNumber \in Nat
        BY <1>3, LoopTypes
    <2>3. QED
        BY <2>1, <2>2, LoopTypes
<1>8. missed + 1 \in 0 .. popped' /\ MissedSoFar(missed + 1)'
    <2>1. missed + 1 \in 0 .. popped' /\ missed + 1 = popped'
        BY <1>2, <1>5, LoopTypes
    <2>2. packetToCheckEnd' = packetToCheckEnd
        BY <1>2 DEF packetToCheckEnd
    <2>3. \A i \in 1 .. missed + 1 : queue'[i].mSequenceNumber < range'.mStart
        BY <1>2, <1>5, <1>7
    <2>4. \A i \in 1 .. popped' : queue'[i].mSequenceNumber < packetToCheckEnd'
        BY <1>2, <1>7, <2>2
    <2>5. packetToCheck' = range'.mStart
        BY <1>2, <1>5
    <2>6. QED
        BY <1>6, <2>1, <2>3, <2>4, <2>5, Zenon DEF MissedSoFar
<1>9. /\ popped' \in 0 .. Len(queue) /\ packetToCheck' \in PacketSequenceNumber
      /\ results' \in Seq(BOOLEAN)
    <2>1. results \in Seq(BOOLEAN)
        BY DEF LoopInvariant, TypeOK
    <2>2. Append(results, FALSE) \in Seq(BOOLEAN)
        BY <2>1, AppendProperties
    <2>3. QED
        BY <1>2, <1>3, <2>2, LoopTypes
<1>10. QED
    BY <1>2, <1>8, <1>9, LoopFrame

\* Moving on: the front entry is not below the range, and is checked next.
LEMMA NewerPacketKeeps ==
    ASSUME LoopInvariant, NewerPacket
    PROVE  LoopInvariant'
<1>1. PICK missed \in 0 .. popped : MissedSoFar(missed)
    BY DEF LoopInvariant
<1>2. /\ LoopCondition /\ front > packetToCheck
      /\ packetToCheck' = front
      /\ UNCHANGED <<queue, range, popped, results>>
    BY DEF NewerPacket
<1>3. /\ popped < Len(queue) /\ popped + 1 \in 1 .. Len(queue)
    BY <1>2, LoopTypes DEF LoopCondition
<1>4. front \in PacketSequenceNumber /\ front \in Nat /\ packetToCheck \in Nat
    BY <1>3, LoopTypes DEF front
<1>5. missed = popped /\ packetToCheck = range.mStart
    BY <1>1, <1>2, <1>3, <1>4 DEF MissedSoFar
<1>6. queue[missed + 1].mSequenceNumber >= range.mStart
    BY <1>2, <1>4, <1>5, LoopTypes DEF front
<1>7. MissedSoFar(missed)'
    <2>1. packetToCheckEnd' = packetToCheckEnd /\ front' = front
        BY <1>2 DEF packetToCheckEnd, front
    <2>2. QED
        BY <1>1, <1>2, <1>6, <2>1 DEF MissedSoFar
<1>8. /\ popped' \in 0 .. Len(queue) /\ packetToCheck' \in PacketSequenceNumber
      /\ results' \in Seq(BOOLEAN) /\ missed \in 0 .. popped'
    BY <1>2, <1>4 DEF LoopInvariant, TypeOK
<1>9. QED
    BY <1>2, <1>7, <1>8, LoopFrame

\* Every turn of the loop keeps the invariant.
THEOREM InvariantHolds == Spec => []LoopInvariant
<1>1. Init => LoopInvariant
    BY LoopInit
<1>2. LoopInvariant /\ [Next]_vars => LoopInvariant'
    <2> SUFFICES ASSUME LoopInvariant, [Next]_vars PROVE LoopInvariant'
        OBVIOUS
    <2>1. CASE AckedPacket
        BY <2>1, AckedPacketKeeps
    <2>2. CASE MissedPacket
        BY <2>2, MissedPacketKeeps
    <2>3. CASE NewerPacket
        BY <2>3, NewerPacketKeeps
    <2>4. CASE UNCHANGED vars
        BY <2>4 DEF vars, LoopInvariant, TypeOK, MissedSoFar, front, packetToCheckEnd
    <2>5. QED
        BY <2>1, <2>2, <2>3, <2>4 DEF Next
<1>3. QED
    BY <1>1, <1>2, PTL DEF Spec

\* The state of the loop stays in its type.
THEOREM TypeCorrect == Spec => []TypeOK
<1>1. LoopInvariant => TypeOK
    BY DEF LoopInvariant
<1>2. QED
    BY <1>1, InvariantHolds, PTL

\* For every queue of consecutive packets, every range and every width of
\* sequence numbers the loop does what the operator ProcessAcks says, which is
\* what DeliveryPair and its theorems use in its place
\* (DeliveryNotificationManager.cpp:137-159).
THEOREM LoopIsProcessAcks == Spec => []LoopDoesWhatProcessAcksSays
<1>1. LoopInvariant => LoopDoesWhatProcessAcksSays
    <2> SUFFICES ASSUME LoopInvariant, ~LoopCondition
                 PROVE  \E missed \in 0 .. popped :
                            /\ ProcessAcks(LoopManager, <<range>>, missed, popped)
                            /\ results = [i \in 1 .. popped |-> i > missed]
        BY DEF LoopDoesWhatProcessAcksSays
    <2>1. PICK missed \in 0 .. popped : MissedSoFar(missed)
        BY DEF LoopInvariant
    <2>2. LoopManager.mInFlightPackets = queue
        BY DEF LoopManager, NewManager
    <2>3. PopsWhileBelow(queue, packetToCheckEnd, popped)
        <3>1. ASSUME popped < Len(queue)
              PROVE  queue[popped + 1].mSequenceNumber >= packetToCheckEnd
            <4>1. packetToCheck >= packetToCheckEnd
                BY <3>1, LoopTypes DEF LoopCondition
            <4>2. packetToCheck # range.mStart
                BY <4>1, LoopTypes
            <4>3. front = packetToCheck
                BY <2>1, <3>1, <4>2 DEF MissedSoFar
            <4>4. QED
                BY <4>1, <4>3 DEF front
        <3>2. QED
            BY <2>1, <3>1 DEF PopsWhileBelow, MissedSoFar
    <2>4. PopsWhileBelow(queue, range.mStart, missed)
        <3>1. ASSUME missed < Len(queue)
              PROVE  queue[missed + 1].mSequenceNumber >= range.mStart
            <4>1. CASE missed = popped /\ packetToCheck = range.mStart
                <5>1. queue[popped + 1].mSequenceNumber >= packetToCheckEnd
                    BY <2>3, <3>1, <4>1 DEF PopsWhileBelow
                <5>2. queue[popped + 1].mSequenceNumber \in Nat
                    BY <3>1, <4>1, LoopTypes
                <5>3. QED
                    BY <4>1, <5>1, <5>2, LoopTypes
            <4>2. QED
                BY <2>1, <3>1, <4>1 DEF MissedSoFar
        <3>2. QED
            BY <2>1, <3>1 DEF PopsWhileBelow, MissedSoFar
    <2>5. ProcessAcks(LoopManager, <<range>>, missed, popped)
        <3>1. <<range>> # << >> /\ <<range>>[1] = range
            OBVIOUS
        <3>2. QED
            BY <2>2, <2>3, <2>4, <3>1 DEF ProcessAcks, packetToCheckEnd
    <2>6. QED
        BY <2>1, <2>5 DEF MissedSoFar
<1>2. QED
    BY <1>1, InvariantHolds, PTL

----------------------------------------------------------------------------
(***************************************************************************)
(* The loop ends.  That it goes on while it can is the fairness of         *)
(* LoopTerminates; that it cannot go on for ever is proved here.           *)
(***************************************************************************)

\* At most so many iterations are left: two for each entry of the queue, one that
\* moves packetToCheck to it and one that pops it, less the move that was made.
IterationsLeft ==
    2 * (Len(queue) - popped)
        - (IF popped < Len(queue) /\ front = packetToCheck THEN 1 ELSE 0)

LEMMA SomethingIsLeft ==
    ASSUME TypeOK
    PROVE  IterationsLeft \in 0 .. 2 * Len(queue)
<1>1. PICK n : n = Len(queue)
    OBVIOUS
<1>2. n \in Nat /\ popped \in 0 .. n
    BY <1>1 DEF TypeOK
<1>3. QED
    BY <1>1, <1>2 DEF IterationsLeft

LEMMA IterationCounts ==
    ASSUME TypeOK, Next
    PROVE  IterationsLeft' < IterationsLeft
<1>1. PICK n, p : n = Len(queue) /\ p = popped
    OBVIOUS
<1>2. n \in Nat /\ p \in 0 .. n /\ p < n /\ queue' = queue
    <2>1. n \in Nat /\ p \in 0 .. n
        BY <1>1 DEF TypeOK
    <2>2. LoopCondition /\ queue' = queue
        BY DEF Next, AckedPacket, MissedPacket, NewerPacket
    <2>3. QED
        BY <1>1, <2>1, <2>2 DEF LoopCondition
<1>3. CASE popped' = popped + 1
    <2>1. IterationsLeft' <= 2 * (n - (p + 1))
        BY <1>1, <1>2, <1>3 DEF IterationsLeft
    <2>2. IterationsLeft >= 2 * (n - p) - 1
        BY <1>1, <1>2 DEF IterationsLeft
    <2>3. IterationsLeft \in Int /\ IterationsLeft' \in Int
        BY <1>1, <1>2, <1>3 DEF IterationsLeft
    <2>4. QED
        BY <1>2, <2>1, <2>2, <2>3
<1>4. CASE NewerPacket
    <2>1. /\ front > packetToCheck /\ packetToCheck' = front /\ popped' = popped
          /\ front' = front
        BY <1>2, <1>4 DEF NewerPacket, front
    <2>2. front # packetToCheck
        BY <2>1 DEF TypeOK, PacketSequenceNumber
    <2>3. IterationsLeft = 2 * (n - p) - 0
        BY <1>1, <1>2, <2>2 DEF IterationsLeft
    <2>4. IterationsLeft' = 2 * (n - p) - 1
        BY <1>1, <1>2, <2>1 DEF IterationsLeft
    <2>5. QED
        BY <1>2, <2>3, <2>4
<1>5. QED
    BY <1>3, <1>4 DEF Next, AckedPacket, MissedPacket

\* The loop of ProcessAcks ends, whatever the range and the queue, though its
\* 16-bit counter may wrap below the end of the range: each iteration leaves
\* fewer, at most two for each packet in flight
\* (DeliveryNotificationManager.cpp:137-159).
THEOREM EveryIterationCounts ==
    Spec => /\ [](IterationsLeft \in 0 .. 2 * Len(queue))
            /\ [][IterationsLeft' < IterationsLeft]_vars
<1>1. TypeOK => IterationsLeft \in 0 .. 2 * Len(queue)
    BY SomethingIsLeft
<1>2. TypeOK /\ [Next]_vars => [IterationsLeft' < IterationsLeft]_vars
    BY IterationCounts
<1>3. QED
    BY <1>1, <1>2, TypeCorrect, PTL DEF Spec
============================================================================
