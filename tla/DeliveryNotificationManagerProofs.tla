----------------- MODULE DeliveryNotificationManagerProofs -----------------
(***************************************************************************)
(* What each method of a DeliveryNotificationManager does to its fields,   *)
(* proved for all managers.  DeliveryPairProofs cites these lemmas, so     *)
(* that the operators need not be expanded there.                          *)
(***************************************************************************)
EXTENDS DeliveryNotificationManager, SequenceTheorems, TLAPS

\* A function on 1 .. n is a sequence of length n.
LEMMA FunctionIsSequence ==
    ASSUME NEW S, NEW n \in Nat, NEW f \in [1 .. n -> S]
    PROVE  f \in Seq(S) /\ Len(f) = n
OBVIOUS

\* Sequence numbers stay sequence numbers when they are incremented.
LEMMA NextSequenceNumberType ==
    \A n \in PacketSequenceNumber : NextSequenceNumber(n) \in PacketSequenceNumber
BY ManagerAssumption DEF PacketSequenceNumber, NextSequenceNumber

\* A new manager is a manager, whatever its memory held.
LEMMA NewManagerType ==
    \A g \in PacketSequenceNumber : NewManager(g) \in Manager
<1>1. 1 \in PacketSequenceNumber
    BY ManagerAssumption DEF PacketSequenceNumber
<1>2. << >> \in Seq(InFlightPacket) /\ << >> \in Seq(AckRange)
    OBVIOUS
<1>3. QED
    BY <1>1, <1>2 DEF NewManager, Manager

\* Sending a packet appends exactly one entry to the in-flight queue.
LEMMA WriteSequenceNumberFields ==
    ASSUME NEW m \in Manager, NEW now \in Nat
    PROVE  LET w == WriteSequenceNumber(m, now)
               entry == [mSequenceNumber   |-> m.mNextOutgoingSequenceNumber,
                         mTimeDispatched   |-> now,
                         mTransmissionData |-> m.mDispatchedPacketCount + 1]
           IN  /\ w \in Manager
               /\ w.mNextOutgoingSequenceNumber =
                      NextSequenceNumber(m.mNextOutgoingSequenceNumber)
               /\ w.mNextExpectedSequenceNumber = m.mNextExpectedSequenceNumber
               /\ w.mDispatchedPacketCount = m.mDispatchedPacketCount + 1
               /\ w.mAckedPacketCount = m.mAckedPacketCount
               /\ w.mDroppedPacketCount = m.mDroppedPacketCount
               /\ w.mInFlightPackets = Append(m.mInFlightPackets, entry)
               /\ w.mPendingAcks = m.mPendingAcks
<1> DEFINE entry == [mSequenceNumber   |-> m.mNextOutgoingSequenceNumber,
                     mTimeDispatched   |-> now,
                     mTransmissionData |-> m.mDispatchedPacketCount + 1]
<1>1. entry \in InFlightPacket
    BY DEF Manager, InFlightPacket
<1>2. m.mInFlightPackets \in Seq(InFlightPacket)
    BY DEF Manager
<1>3. Append(m.mInFlightPackets, entry) \in Seq(InFlightPacket)
    BY <1>1, <1>2
<1>4. NextSequenceNumber(m.mNextOutgoingSequenceNumber) \in PacketSequenceNumber
    BY NextSequenceNumberType DEF Manager
<1>5. m.mDispatchedPacketCount + 1 \in Nat
    BY DEF Manager
<1>6. QED
    BY <1>3, <1>4, <1>5 DEF WriteSequenceNumber, Manager

\* What goes on the wire are ack ranges, one per pending range, with the same
\* start and a count no larger.
LEMMA AcksToWriteFields ==
    ASSUME NEW m \in Manager
    PROVE  /\ AcksToWrite(m) \in Seq(AckRange)
           /\ Len(AcksToWrite(m)) = Len(m.mPendingAcks)
           /\ \A i \in 1 .. Len(m.mPendingAcks) :
                  /\ m.mPendingAcks[i] \in AckRange
                  /\ AcksToWrite(m)[i].mStart = m.mPendingAcks[i].mStart
                  /\ AcksToWrite(m)[i].mCount <= m.mPendingAcks[i].mCount
<1>1. m.mPendingAcks \in Seq(AckRange)
    BY DEF Manager
<1>2. \A i \in 1 .. Len(m.mPendingAcks) :
          /\ m.mPendingAcks[i] \in AckRange
          /\ OnWire(m.mPendingAcks[i]) \in AckRange
          /\ OnWire(m.mPendingAcks[i]).mStart = m.mPendingAcks[i].mStart
          /\ OnWire(m.mPendingAcks[i]).mCount <= m.mPendingAcks[i].mCount
    <2> SUFFICES ASSUME NEW i \in 1 .. Len(m.mPendingAcks)
                 PROVE  /\ m.mPendingAcks[i] \in AckRange
                        /\ OnWire(m.mPendingAcks[i]) \in AckRange
                        /\ OnWire(m.mPendingAcks[i]).mStart =
                               m.mPendingAcks[i].mStart
                        /\ OnWire(m.mPendingAcks[i]).mCount <=
                               m.mPendingAcks[i].mCount
        OBVIOUS
    <2>1. m.mPendingAcks[i] \in AckRange
        BY <1>1, ElementOfSeq
    <2>2. QED
        BY <2>1, ManagerAssumption DEF OnWire, AckRange
<1>3. Len(m.mPendingAcks) \in Nat
    BY <1>1, LenProperties
<1>4. AcksToWrite(m) \in [1 .. Len(m.mPendingAcks) -> AckRange]
    BY <1>2 DEF AcksToWrite
<1>5. AcksToWrite(m) \in Seq(AckRange) /\ Len(AcksToWrite(m)) = Len(m.mPendingAcks)
    BY <1>3, <1>4, FunctionIsSequence
<1>6. QED
    BY <1>2, <1>5 DEF AcksToWrite

\* Writing the pending acks empties them and touches nothing else.
LEMMA WritePendingAcksFields ==
    ASSUME NEW m \in Manager
    PROVE  LET w == WritePendingAcks(m)
           IN  /\ w \in Manager
               /\ w.mPendingAcks = << >>
               /\ w.mNextOutgoingSequenceNumber = m.mNextOutgoingSequenceNumber
               /\ w.mNextExpectedSequenceNumber = m.mNextExpectedSequenceNumber
               /\ w.mDispatchedPacketCount = m.mDispatchedPacketCount
               /\ w.mAckedPacketCount = m.mAckedPacketCount
               /\ w.mDroppedPacketCount = m.mDroppedPacketCount
               /\ w.mInFlightPackets = m.mInFlightPackets
<1>1. << >> \in Seq(AckRange)
    OBVIOUS
<1>2. QED
    BY <1>1 DEF WritePendingAcks, Manager

\* A new pending ack is one more range, or one more packet on the last range.
LEMMA AddPendingAckFields ==
    ASSUME NEW pending \in Seq(AckRange), NEW seq \in PacketSequenceNumber
    PROVE  LET after == AddPendingAck(pending, seq)
               n == Len(pending)
           IN  /\ after \in Seq(AckRange)
               /\ \/ /\ Len(after) = n + 1
                     /\ \A i \in 1 .. n : after[i] = pending[i]
                     /\ after[n + 1] = [mStart |-> seq, mCount |-> 1]
                  \/ /\ Len(after) = n /\ n >= 1
                     /\ \A i \in 1 .. (n - 1) : after[i] = pending[i]
                     /\ seq = pending[n].mStart + pending[n].mCount
                     /\ after[n].mStart = pending[n].mStart
                     /\ after[n].mCount = pending[n].mCount + 1
<1> DEFINE n == Len(pending)
<1>1. CASE ExtendsIfAdjacent(pending, seq)
    <2> DEFINE last == pending[n]
               grown == [last EXCEPT !.mCount = @ + 1]
    <2>1. n \in Nat /\ n >= 1 /\ n \in 1 .. n
        BY <1>1, EmptySeq DEF ExtendsIfAdjacent
    <2>2. last \in AckRange
        BY <2>1, ElementOfSeq
    <2>3. grown \in AckRange /\ grown.mStart = last.mStart
              /\ grown.mCount = last.mCount + 1
        BY <2>2 DEF AckRange
    <2>4. AddPendingAck(pending, seq) = [pending EXCEPT ![n] = grown]
        BY <1>1 DEF AddPendingAck
    <2>5. /\ AddPendingAck(pending, seq) \in Seq(AckRange)
          /\ Len(AddPendingAck(pending, seq)) = n
          /\ \A j \in 1 .. n : AddPendingAck(pending, seq)[j] =
                                   IF j = n THEN grown ELSE pending[j]
        BY <2>1, <2>3, <2>4, ExceptSeq
    <2>6. seq = last.mStart + last.mCount
        BY <1>1 DEF ExtendsIfAdjacent
    <2>7. AddPendingAck(pending, seq)[n] = grown
        BY <2>1, <2>5
    <2>8. \A i \in 1 .. (n - 1) : AddPendingAck(pending, seq)[i] = pending[i]
        BY <2>1, <2>5
    <2> HIDE DEF grown
    <2>9. QED
        BY <2>1, <2>3, <2>5, <2>6, <2>7, <2>8
<1>2. CASE ~ExtendsIfAdjacent(pending, seq)
    <2>1. [mStart |-> seq, mCount |-> 1] \in AckRange
        BY DEF AckRange
    <2>2. AddPendingAck(pending, seq) = Append(pending, [mStart |-> seq, mCount |-> 1])
        BY <1>2 DEF AddPendingAck
    <2>3. QED
        BY <2>1, <2>2
<1>3. QED
    BY <1>1, <1>2

\* A packet that is not old moves the expected number past it and adds one ack.
LEMMA ProcessSequenceNumberFields ==
    ASSUME NEW m \in Manager, NEW seq \in PacketSequenceNumber, ~IsOld(m, seq)
    PROVE  LET p == ProcessSequenceNumber(m, seq)
           IN  /\ p \in Manager
               /\ p.mNextExpectedSequenceNumber = NextSequenceNumber(seq)
               /\ p.mPendingAcks = AddPendingAck(m.mPendingAcks, seq)
               /\ p.mNextOutgoingSequenceNumber = m.mNextOutgoingSequenceNumber
               /\ p.mDispatchedPacketCount = m.mDispatchedPacketCount
               /\ p.mAckedPacketCount = m.mAckedPacketCount
               /\ p.mDroppedPacketCount = m.mDroppedPacketCount
               /\ p.mInFlightPackets = m.mInFlightPackets
<1>1. NextSequenceNumber(seq) \in PacketSequenceNumber
    BY NextSequenceNumberType
<1>2. m.mPendingAcks \in Seq(AckRange)
    BY DEF Manager
<1>3. AddPendingAck(m.mPendingAcks, seq) \in Seq(AckRange)
    BY <1>2, AddPendingAckFields
<1>4. QED
    BY <1>1, <1>3 DEF ProcessSequenceNumber, Manager

\* Pops take a prefix of the in-flight queue and count each popped entry once.
LEMMA AfterPopsFields ==
    ASSUME NEW m \in Manager,
           NEW popped \in 0 .. Len(m.mInFlightPackets),
           NEW missed \in 0 .. popped
    PROVE  LET a == AfterPops(m, missed, popped)
               queue == m.mInFlightPackets
           IN  /\ a \in Manager
               /\ Len(a.mInFlightPackets) = Len(queue) - popped
               /\ \A i \in 1 .. (Len(queue) - popped) :
                      a.mInFlightPackets[i] = queue[popped + i]
               /\ a.mDroppedPacketCount + a.mAckedPacketCount =
                      m.mDroppedPacketCount + m.mAckedPacketCount + popped
               /\ a.mNextOutgoingSequenceNumber = m.mNextOutgoingSequenceNumber
               /\ a.mNextExpectedSequenceNumber = m.mNextExpectedSequenceNumber
               /\ a.mDispatchedPacketCount = m.mDispatchedPacketCount
               /\ a.mPendingAcks = m.mPendingAcks
<1> DEFINE queue == m.mInFlightPackets
           left  == SubSeq(queue, popped + 1, Len(queue))
<1>1. queue \in Seq(InFlightPacket) /\ Len(queue) \in Nat
    BY DEF Manager
<1>2. \A i \in (popped + 1) .. Len(queue) : queue[i] \in InFlightPacket
    BY <1>1, ElementOfSeq
<1>3. /\ left \in Seq(InFlightPacket)
      /\ Len(left) = Len(queue) - popped
      /\ \A i \in 1 .. (Len(queue) - popped) : left[i] = queue[popped + i]
    BY <1>1, <1>2, SubSeqProperties
<1>4. m.mDroppedPacketCount + missed \in Nat
      /\ m.mAckedPacketCount + (popped - missed) \in Nat
    BY <1>1 DEF Manager
<1>5. AfterPops(m, missed, popped) =
          [m EXCEPT !.mInFlightPackets = left,
                    !.mDroppedPacketCount = m.mDroppedPacketCount + missed,
                    !.mAckedPacketCount = m.mAckedPacketCount + (popped - missed)]
    BY DEF AfterPops
<1> DEFINE a == AfterPops(m, missed, popped)
<1> HIDE DEF left
<1>6. /\ a.mInFlightPackets = left
      /\ a.mDroppedPacketCount = m.mDroppedPacketCount + missed
      /\ a.mAckedPacketCount = m.mAckedPacketCount + (popped - missed)
      /\ a.mNextOutgoingSequenceNumber = m.mNextOutgoingSequenceNumber
      /\ a.mNextExpectedSequenceNumber = m.mNextExpectedSequenceNumber
      /\ a.mDispatchedPacketCount = m.mDispatchedPacketCount
      /\ a.mPendingAcks = m.mPendingAcks
    BY <1>5 DEF Manager
<1>7. a \in Manager
    BY <1>3, <1>4, <1>5 DEF Manager
<1> HIDE DEF a
<1>8. a.mDroppedPacketCount + a.mAckedPacketCount =
          m.mDroppedPacketCount + m.mAckedPacketCount + popped
    <2>1. m.mDroppedPacketCount \in Nat /\ m.mAckedPacketCount \in Nat
        BY DEF Manager
    <2>2. popped \in Int /\ missed \in Int
        BY <1>1
    <2>3. QED
        BY <1>6, <2>1, <2>2
<1>9. QED
    BY <1>3, <1>6, <1>7, <1>8 DEF a

\* There is one callback for each popped entry, in the order of the queue.
LEMMA CallbacksOfPopsFields ==
    ASSUME NEW m \in Manager,
           NEW popped \in 0 .. Len(m.mInFlightPackets),
           NEW missed \in 0 .. popped
    PROVE  LET c == CallbacksOfPops(m, missed, popped)
           IN  /\ c \in Seq([mTransmissionData : Nat, delivered : BOOLEAN])
               /\ Len(c) = popped
               /\ \A i \in 1 .. popped :
                      /\ c[i].mTransmissionData =
                             m.mInFlightPackets[i].mTransmissionData
                      /\ c[i].delivered = (i > missed)
<1>1. m.mInFlightPackets \in Seq(InFlightPacket) /\ Len(m.mInFlightPackets) \in Nat
    BY DEF Manager
<1>2. \A i \in 1 .. popped : m.mInFlightPackets[i] \in InFlightPacket
    BY <1>1, ElementOfSeq
<1>3. \A i \in 1 .. popped :
          [mTransmissionData |-> m.mInFlightPackets[i].mTransmissionData,
           delivered |-> i > missed]
              \in [mTransmissionData : Nat, delivered : BOOLEAN]
    BY <1>2 DEF InFlightPacket
<1>4. CallbacksOfPops(m, missed, popped)
          \in [1 .. popped -> [mTransmissionData : Nat, delivered : BOOLEAN]]
    BY <1>3 DEF CallbacksOfPops
<1>5. popped \in Nat
    BY <1>1
<1>6. CallbacksOfPops(m, missed, popped)
              \in Seq([mTransmissionData : Nat, delivered : BOOLEAN])
      /\ Len(CallbacksOfPops(m, missed, popped)) = popped
    BY <1>4, <1>5, FunctionIsSequence
<1>7. ASSUME NEW i \in 1 .. popped
      PROVE  CallbacksOfPops(m, missed, popped)[i].mTransmissionData =
                 m.mInFlightPackets[i].mTransmissionData
    BY DEF CallbacksOfPops
<1>8. ASSUME NEW i \in 1 .. popped
      PROVE  CallbacksOfPops(m, missed, popped)[i].delivered = (i > missed)
    BY DEF CallbacksOfPops
<1>9. QED
    BY <1>6, <1>7, <1>8, Zenon
============================================================================
