----------------------- MODULE DeliveryPromiseProofs -----------------------
(***************************************************************************)
(* More theorems about two endpoints that exchange packets: what acks,     *)
(* dropped packets and sweeps do, and that DeliveryPair implements         *)
(* DeliveryPromise.                                                        *)
(*                                                                         *)
(* Each says what it assumes.  That ack ranges do not wrap holds for all   *)
(* constants.  Acks are complete while no run can be cut at MaxAckRun, and *)
(* sweeps are exact once the clock has passed kAckTimeoutMs; both hold     *)
(* also when numbers wrap.  The other theorems assume NoWrap.              *)
(***************************************************************************)
EXTENDS DeliveryPairProofs

----------------------------------------------------------------------------
(***************************************************************************)
(* What a step does to the fields that acks and drops depend on.           *)
(***************************************************************************)

\* e sends d, with its pending acks in it.
Sends(e, d) ==
    /\ d \in Datagram /\ d.src = e
    /\ d.payload = manager[e].mDispatchedPacketCount + 1
    /\ d.acks = AcksToWrite(manager[e])
    /\ network' = network \cup {d}
    /\ accepted' = accepted
    /\ manager'[e].mDispatchedPacketCount = manager[e].mDispatchedPacketCount + 1
    /\ manager'[e].mNextExpectedSequenceNumber
           = manager[e].mNextExpectedSequenceNumber
    /\ manager'[e].mPendingAcks = << >>

\* e takes d and owes its peer an ack.
Takes(e, d) ==
    /\ d \in network /\ d \in Datagram /\ d.src = Peer(e)
    /\ ~IsOld(manager[e], d.seq)
    /\ Len(accepted[e]) < MaxAccepted
    /\ accepted' = [accepted EXCEPT ![e] = Append(@, d.payload)]
    /\ network' = network
    /\ manager'[e].mDispatchedPacketCount = manager[e].mDispatchedPacketCount
    /\ manager'[e].mNextExpectedSequenceNumber = NextSequenceNumber(d.seq)
    /\ manager'[e].mPendingAcks = AddPendingAck(manager[e].mPendingAcks, d.seq)

\* The fields of e that acks and drops depend on stay the same.
Rests(e) ==
    /\ manager'[e].mDispatchedPacketCount = manager[e].mDispatchedPacketCount
    /\ manager'[e].mNextExpectedSequenceNumber
           = manager[e].mNextExpectedSequenceNumber
    /\ manager'[e].mPendingAcks = manager[e].mPendingAcks

\* A step sends one datagram, takes one, or touches none of these fields.
LEMMA StepEffect ==
    ASSUME TypeOK, [Next]_vars
    PROVE  \/ \E e \in Endpoint, d \in Datagram :
                  Sends(e, d) /\ \A f \in Endpoint \ {e} : Rests(f)
           \/ \E e \in Endpoint, d \in network :
                  Takes(e, d) /\ \A f \in Endpoint \ {e} : Rests(f)
           \/ /\ UNCHANGED <<network, accepted>>
              /\ \A f \in Endpoint : Rests(f)
<1>1. ASSUME NEW e \in Endpoint, SendPacket(e)
      PROVE  \E d \in Datagram :
                 Sends(e, d) /\ \A f \in Endpoint \ {e} : Rests(f)
    <2> DEFINE m == manager[e]
               w == WriteSequenceNumber(m, now)
               d == [src     |-> e,
                     seq     |-> m.mNextOutgoingSequenceNumber,
                     payload |-> m.mDispatchedPacketCount + 1,
                     acks    |-> AcksToWrite(w)]
               p == manager'[e]
    <2>1. /\ m \in Manager /\ p \in Manager
          /\ manager' = [manager EXCEPT ![e] = p]
          /\ p.mNextExpectedSequenceNumber = m.mNextExpectedSequenceNumber
          /\ p.mDispatchedPacketCount = m.mDispatchedPacketCount + 1
          /\ p.mPendingAcks = << >>
          /\ network' = network \cup {d}
          /\ AcksToWrite(w) \in Seq(AckRange)
          /\ UNCHANGED <<now, callbacks, accepted>>
        BY <1>1, SendPacketEffect
    <2>2. AcksToWrite(w) = AcksToWrite(m)
        <3>1. w.mPendingAcks = m.mPendingAcks
            BY <2>1, WriteSequenceNumberFields DEF TypeOK
        <3>2. QED
            BY <3>1 DEF AcksToWrite
    <2>3. d \in Datagram
        BY <2>1 DEF Datagram, Manager
    <2>4. d.src = e /\ d.payload = m.mDispatchedPacketCount + 1
              /\ d.acks = AcksToWrite(m)
        BY <2>2
    <2> HIDE DEF w, d
    <2>5. Sends(e, d)
        BY <2>1, <2>3, <2>4 DEF Sends
    <2>6. \A f \in Endpoint \ {e} : manager'[f] = manager[f]
        BY <2>1 DEF TypeOK
    <2>7. QED
        BY <2>3, <2>5, <2>6 DEF Rests
<1>2. ASSUME NEW e \in Endpoint, NEW d \in network, ReceivePacket(e, d)
      PROVE  Takes(e, d) /\ \A f \in Endpoint \ {e} : Rests(f)
    <2> DEFINE m == ProcessSequenceNumber(manager[e], d.seq)
    <2>1. /\ d \in Datagram /\ d.src = Peer(e)
          /\ ~IsOld(manager[e], d.seq)
          /\ m \in Manager
          /\ accepted' = [accepted EXCEPT ![e] = Append(@, d.payload)]
          /\ \E popped \in 0 .. Len(m.mInFlightPackets) :
             \E missed \in 0 .. popped :
                 /\ ProcessAcks(m, d.acks, missed, popped)
                 /\ manager' = [manager EXCEPT ![e] = AfterPops(m, missed, popped)]
                 /\ callbacks' = [callbacks EXCEPT
                        ![e] = @ \o CallbacksOfPops(m, missed, popped)]
          /\ UNCHANGED <<network, now>>
        BY <1>2, ReceivePacketEffect
    <2>2. PICK popped \in 0 .. Len(m.mInFlightPackets) :
             \E missed \in 0 .. popped :
                 manager' = [manager EXCEPT ![e] = AfterPops(m, missed, popped)]
        BY <2>1
    <2>3. PICK missed \in 0 .. popped :
              manager' = [manager EXCEPT ![e] = AfterPops(m, missed, popped)]
        BY <2>2
    <2>4. /\ m.mNextExpectedSequenceNumber = NextSequenceNumber(d.seq)
          /\ m.mPendingAcks = AddPendingAck(manager[e].mPendingAcks, d.seq)
          /\ m.mDispatchedPacketCount = manager[e].mDispatchedPacketCount
        BY <2>1, ProcessSequenceNumberFields DEF TypeOK, Datagram
    <2> DEFINE a == AfterPops(m, missed, popped)
    <2> HIDE DEF m
    <2>5. /\ a.mNextExpectedSequenceNumber = m.mNextExpectedSequenceNumber
          /\ a.mDispatchedPacketCount = m.mDispatchedPacketCount
          /\ a.mPendingAcks = m.mPendingAcks
        BY <2>1, AfterPopsFields
    <2>6. manager'[e] = a /\ \A f \in Endpoint \ {e} : manager'[f] = manager[f]
        BY <2>3 DEF TypeOK
    <2>7. Len(accepted[e]) < MaxAccepted
        BY <1>2 DEF ReceivePacket
    <2> HIDE DEF a
    <2>8. QED
        BY <2>1, <2>4, <2>5, <2>6, <2>7 DEF Takes, Rests
<1>3. ASSUME NEW e \in Endpoint, SweepTimeouts(e)
      PROVE  UNCHANGED <<network, accepted>> /\ \A f \in Endpoint : Rests(f)
    <2> DEFINE m == manager[e]
    <2>1. PICK n \in 0 .. Len(m.mInFlightPackets) :
              manager' = [manager EXCEPT ![e] = AfterPops(m, n, n)]
        BY <1>3 DEF SweepTimeouts
    <2>2. m \in Manager /\ n \in 0 .. n
        BY DEF TypeOK, Manager
    <2> DEFINE a == AfterPops(m, n, n)
    <2>3. /\ a.mNextExpectedSequenceNumber = m.mNextExpectedSequenceNumber
          /\ a.mDispatchedPacketCount = m.mDispatchedPacketCount
          /\ a.mPendingAcks = m.mPendingAcks
        BY <2>2, AfterPopsFields
    <2>4. manager'[e] = a /\ \A f \in Endpoint \ {e} : manager'[f] = manager[f]
        BY <2>1 DEF TypeOK
    <2> HIDE DEF a
    <2>5. QED
        BY <1>3, <2>3, <2>4 DEF Rests, SweepTimeouts
<1>4. ASSUME NEW e \in Endpoint, NEW d \in network, DropOldPacket(e, d)
      PROVE  UNCHANGED vars
    BY <1>4 DEF DropOldPacket
<1>5. ASSUME Tick \/ UNCHANGED vars
      PROVE  UNCHANGED <<network, accepted>> /\ \A f \in Endpoint : Rests(f)
    BY <1>5 DEF Tick, vars, Rests
<1>6. QED
    BY <1>1, <1>2, <1>3, <1>4, <1>5 DEF Next

----------------------------------------------------------------------------
(***************************************************************************)
(* Ack ranges.                                                             *)
(***************************************************************************)

\* A range that grows by one packet ends just after that packet's number.
LEMMA AddPendingAckDoesNotWrap ==
    ASSUME NEW pending \in Seq(AckRange), NEW seq \in PacketSequenceNumber,
           \A i \in 1 .. Len(pending) :
               pending[i].mStart + pending[i].mCount <= SeqMod
    PROVE  LET after == AddPendingAck(pending, seq)
           IN  \A i \in 1 .. Len(after) :
                   after[i].mStart + after[i].mCount <= SeqMod
<1> DEFINE after == AddPendingAck(pending, seq)
           n == Len(pending)
<1>1. n \in Nat /\ seq + 1 <= SeqMod /\ seq \in Nat
    BY ManagerAssumption, LenProperties DEF PacketSequenceNumber
<1>2. \/ /\ Len(after) = n + 1
         /\ \A i \in 1 .. n : after[i] = pending[i]
         /\ after[n + 1] = [mStart |-> seq, mCount |-> 1]
      \/ /\ Len(after) = n /\ n >= 1
         /\ \A i \in 1 .. (n - 1) : after[i] = pending[i]
         /\ seq = pending[n].mStart + pending[n].mCount
         /\ after[n].mStart = pending[n].mStart
         /\ after[n].mCount = pending[n].mCount + 1
    BY AddPendingAckFields
<1> HIDE DEF after
<1>3. CASE Len(after) = n + 1 /\ (\A i \in 1 .. n : after[i] = pending[i])
               /\ after[n + 1] = [mStart |-> seq, mCount |-> 1]
    <2>1. after[n + 1].mStart + after[n + 1].mCount <= SeqMod
        BY <1>1, <1>3
    <2>2. \A i \in 1 .. n + 1 : i \in 1 .. n \/ i = n + 1
        BY <1>1
    <2>3. QED
        BY <1>3, <2>1, <2>2 DEF after
<1>4. CASE /\ Len(after) = n /\ n >= 1
           /\ \A i \in 1 .. (n - 1) : after[i] = pending[i]
           /\ seq = pending[n].mStart + pending[n].mCount
           /\ after[n].mStart = pending[n].mStart
           /\ after[n].mCount = pending[n].mCount + 1
    <2>1. pending[n] \in AckRange
        BY <1>1, <1>4, ElementOfSeq
    <2>2. pending[n].mStart \in Int /\ pending[n].mCount \in Int
        BY <2>1, ManagerAssumption DEF AckRange, PacketSequenceNumber
    <2>3. after[n].mStart + after[n].mCount <= SeqMod
        BY <1>1, <1>4, <2>2, ManagerAssumption
    <2>4. \A i \in 1 .. n : i \in 1 .. (n - 1) \/ i = n
        BY <1>1
    <2>5. \A i \in 1 .. (n - 1) : i \in 1 .. n
        BY <1>1
    <2>6. QED
        BY <1>4, <2>3, <2>4, <2>5 DEF after
<1>5. QED
    BY <1>2, <1>3, <1>4

\* No ack range runs past the largest sequence number, for every value of the
\* constants, wrapping numbers and uninitialized memory included.
THEOREM AckRangesNeverWrap == Spec => []AckRangesDoNotWrap
<1> DEFINE DoNotWrap(acks) ==
        \A i \in 1 .. Len(acks) : acks[i].mStart + acks[i].mCount <= SeqMod
<1>1. Init => AckRangesDoNotWrap
    <2> SUFFICES ASSUME Init PROVE AckRangesDoNotWrap
        OBVIOUS
    <2>1. network = {} /\ \A e \in Endpoint : manager[e].mPendingAcks = << >>
        BY DEF Init, NewManager
    <2>2. QED
        BY <2>1 DEF AckRangesDoNotWrap
<1>2. TypeOK /\ AckRangesDoNotWrap /\ [Next]_vars => AckRangesDoNotWrap'
    <2> SUFFICES ASSUME TypeOK, AckRangesDoNotWrap, [Next]_vars
                 PROVE  AckRangesDoNotWrap'
        OBVIOUS
    <2>1. /\ \A e \in Endpoint : DoNotWrap(manager[e].mPendingAcks)
          /\ \A d \in network : DoNotWrap(d.acks)
        BY DEF AckRangesDoNotWrap
    <2>2. SUFFICES /\ \A e \in Endpoint : DoNotWrap(manager'[e].mPendingAcks)
                   /\ \A d \in network' : DoNotWrap(d.acks)
        BY DEF AckRangesDoNotWrap
    <2>3. \A e \in Endpoint : manager[e] \in Manager
              /\ manager[e].mPendingAcks \in Seq(AckRange)
        BY DEF TypeOK, Manager
    <2>4. ASSUME NEW e \in Endpoint, NEW d \in Datagram, Sends(e, d),
                 \A f \in Endpoint \ {e} : Rests(f)
          PROVE  /\ \A f \in Endpoint : DoNotWrap(manager'[f].mPendingAcks)
                 /\ \A f \in network' : DoNotWrap(f.acks)
        <3>1. DoNotWrap(AcksToWrite(manager[e]))
            <4> DEFINE pending == manager[e].mPendingAcks
                       acks == AcksToWrite(manager[e])
            <4>1. /\ Len(acks) = Len(pending)
                  /\ \A i \in 1 .. Len(pending) :
                         /\ pending[i] \in AckRange /\ acks[i] \in AckRange
                         /\ acks[i].mStart = pending[i].mStart
                         /\ acks[i].mCount <= pending[i].mCount
                <5>1. /\ acks \in Seq(AckRange)
                      /\ Len(acks) = Len(pending)
                      /\ \A i \in 1 .. Len(pending) :
                             /\ pending[i] \in AckRange
                             /\ acks[i].mStart = pending[i].mStart
                             /\ acks[i].mCount <= pending[i].mCount
                    BY <2>3, AcksToWriteFields
                <5>2. QED
                    BY <5>1, ElementOfSeq
            <4>2. DoNotWrap(pending)
                BY <2>1
            <4> HIDE DEF acks, pending
            <4>3. ASSUME NEW i \in 1 .. Len(acks)
                  PROVE  acks[i].mStart + acks[i].mCount <= SeqMod
                BY <4>1, <4>2, ManagerAssumption DEF AckRange, PacketSequenceNumber
            <4>4. QED
                BY <4>3 DEF acks
        <3>2. DoNotWrap(manager'[e].mPendingAcks)
            BY <2>4 DEF Sends
        <3>3. \A f \in Endpoint \ {e} : DoNotWrap(manager'[f].mPendingAcks)
            BY <2>1, <2>4 DEF Rests
        <3>4. \A f \in network' : DoNotWrap(f.acks)
            BY <2>1, <2>4, <3>1 DEF Sends
        <3>5. QED
            BY <3>2, <3>3, <3>4
    <2>5. ASSUME NEW e \in Endpoint, NEW d \in network, Takes(e, d),
                 \A f \in Endpoint \ {e} : Rests(f)
          PROVE  /\ \A f \in Endpoint : DoNotWrap(manager'[f].mPendingAcks)
                 /\ \A f \in network' : DoNotWrap(f.acks)
        <3>1. d.seq \in PacketSequenceNumber
            BY <2>5 DEF Takes, Datagram
        <3>2. DoNotWrap(AddPendingAck(manager[e].mPendingAcks, d.seq))
            BY <2>1, <2>3, <3>1, AddPendingAckDoesNotWrap
        <3>3. DoNotWrap(manager'[e].mPendingAcks)
            BY <2>5, <3>2 DEF Takes
        <3>4. \A f \in Endpoint \ {e} : DoNotWrap(manager'[f].mPendingAcks)
            BY <2>1, <2>5 DEF Rests
        <3>5. QED
            BY <2>1, <2>5, <3>3, <3>4 DEF Takes
    <2>6. ASSUME UNCHANGED <<network, accepted>>, \A f \in Endpoint : Rests(f)
          PROVE  /\ \A f \in Endpoint : DoNotWrap(manager'[f].mPendingAcks)
                 /\ \A f \in network' : DoNotWrap(f.acks)
        BY <2>1, <2>6 DEF Rests
    <2> HIDE DEF DoNotWrap
    <2>7. QED
        BY <2>4, <2>5, <2>6, StepEffect
<1>3. QED
    BY <1>1, <1>2, TypeCorrect, PTL DEF Spec

----------------------------------------------------------------------------
(***************************************************************************)
(* Every accepted packet is acked.                                         *)
(***************************************************************************)

\* A pending ack is not lost when the next one is added.
LEMMA AddPendingAckKeeps ==
    ASSUME NEW pending \in Seq(AckRange), NEW seq \in PacketSequenceNumber
    PROVE  LET after == AddPendingAck(pending, seq)
           IN  /\ Acknowledges(after, seq)
               /\ \A s \in Int : Acknowledges(pending, s) => Acknowledges(after, s)
<1> DEFINE after == AddPendingAck(pending, seq)
           n == Len(pending)
<1>1. n \in Nat /\ seq \in Int
    BY ManagerAssumption, LenProperties DEF PacketSequenceNumber
<1>2. \A i \in 1 .. n : pending[i].mStart \in Int /\ pending[i].mCount \in Int
          /\ pending[i].mCount >= 1
    <2>1. \A i \in 1 .. n : pending[i] \in AckRange
        BY ElementOfSeq
    <2>2. QED
        BY <2>1, ManagerAssumption DEF AckRange, PacketSequenceNumber
<1>3. \/ /\ Len(after) = n + 1
         /\ \A i \in 1 .. n : after[i] = pending[i]
         /\ after[n + 1] = [mStart |-> seq, mCount |-> 1]
      \/ /\ Len(after) = n /\ n >= 1
         /\ \A i \in 1 .. (n - 1) : after[i] = pending[i]
         /\ seq = pending[n].mStart + pending[n].mCount
         /\ after[n].mStart = pending[n].mStart
         /\ after[n].mCount = pending[n].mCount + 1
    BY AddPendingAckFields
<1> HIDE DEF after, n
<1>4. CASE /\ Len(after) = n + 1
           /\ \A i \in 1 .. n : after[i] = pending[i]
           /\ after[n + 1] = [mStart |-> seq, mCount |-> 1]
    <2>1. n + 1 \in 1 .. Len(after) /\ \A i \in 1 .. n : i \in 1 .. Len(after)
        BY <1>1, <1>4
    <2>2. after[n + 1].mStart = seq /\ after[n + 1].mCount = 1
        BY <1>4
    <2>3. Acknowledges(after, seq)
        BY <1>1, <2>1, <2>2 DEF Acknowledges
    <2>4. \A s \in Int : Acknowledges(pending, s) => Acknowledges(after, s)
        BY <1>4, <2>1 DEF Acknowledges, n
    <2>5. QED
        BY <2>3, <2>4 DEF after
<1>5. CASE /\ Len(after) = n /\ n >= 1
           /\ \A i \in 1 .. (n - 1) : after[i] = pending[i]
           /\ seq = pending[n].mStart + pending[n].mCount
           /\ after[n].mStart = pending[n].mStart
           /\ after[n].mCount = pending[n].mCount + 1
    <2>1. n \in 1 .. n /\ \A i \in 1 .. n : i = n \/ i \in 1 .. (n - 1)
        BY <1>1, <1>5
    <2>2. Acknowledges(after, seq)
        <3>1. /\ seq >= after[n].mStart
              /\ seq < after[n].mStart + after[n].mCount
            BY <1>2, <1>5, <2>1
        <3>2. QED
            BY <1>5, <2>1, <3>1 DEF Acknowledges
    <2>3. ASSUME NEW s \in Int, Acknowledges(pending, s)
          PROVE  Acknowledges(after, s)
        <3>1. PICK i \in 1 .. n : /\ s >= pending[i].mStart
                                  /\ s < pending[i].mStart + pending[i].mCount
            BY <2>3 DEF Acknowledges, n
        <3>2. CASE i = n
            <4>1. s >= after[n].mStart /\ s < after[n].mStart + after[n].mCount
                BY <1>2, <1>5, <2>1, <3>1, <3>2
            <4>2. QED
                BY <1>5, <2>1, <4>1 DEF Acknowledges
        <3>3. CASE i \in 1 .. (n - 1)
            BY <1>5, <3>1, <3>3 DEF Acknowledges
        <3>4. QED
            BY <2>1, <3>2, <3>3
    <2>4. QED
        BY <2>2, <2>3 DEF after
<1>6. QED
    BY <1>3, <1>4, <1>5

\* Adding an ack makes no run longer by more than one packet.
LEMMA AddPendingAckCount ==
    ASSUME NEW pending \in Seq(AckRange), NEW seq \in PacketSequenceNumber,
           NEW k \in Nat, \A i \in 1 .. Len(pending) : pending[i].mCount <= k
    PROVE  LET after == AddPendingAck(pending, seq)
           IN  \A i \in 1 .. Len(after) : after[i].mCount <= k + 1
<1> DEFINE after == AddPendingAck(pending, seq)
           n == Len(pending)
<1>1. n \in Nat
    BY LenProperties
<1>2. \A i \in 1 .. n : pending[i].mCount \in Int
    <2>1. \A i \in 1 .. n : pending[i] \in AckRange
        BY ElementOfSeq
    <2>2. QED
        BY <2>1 DEF AckRange
<1>3. \A i \in 1 .. n : pending[i].mCount <= k
    OBVIOUS
<1>4. \/ /\ Len(after) = n + 1
         /\ \A i \in 1 .. n : after[i] = pending[i]
         /\ after[n + 1] = [mStart |-> seq, mCount |-> 1]
      \/ /\ Len(after) = n /\ n >= 1
         /\ \A i \in 1 .. (n - 1) : after[i] = pending[i]
         /\ after[n].mCount = pending[n].mCount + 1
    BY AddPendingAckFields
<1> HIDE DEF after, n
<1>5. CASE /\ Len(after) = n + 1
           /\ \A i \in 1 .. n : after[i] = pending[i]
           /\ after[n + 1] = [mStart |-> seq, mCount |-> 1]
    <2>1. \A i \in 1 .. Len(after) : i \in 1 .. n \/ i = n + 1
        BY <1>1, <1>5
    <2>2. after[n + 1].mCount <= k + 1
        BY <1>5
    <2>3. \A i \in 1 .. n : after[i].mCount <= k + 1
        BY <1>2, <1>3, <1>5
    <2>4. QED
        BY <2>1, <2>2, <2>3 DEF after
<1>6. CASE /\ Len(after) = n /\ n >= 1
           /\ \A i \in 1 .. (n - 1) : after[i] = pending[i]
           /\ after[n].mCount = pending[n].mCount + 1
    <2>1. /\ n \in 1 .. n
          /\ \A i \in 1 .. n : i = n \/ i \in 1 .. (n - 1)
          /\ \A i \in 1 .. (n - 1) : i \in 1 .. n
        BY <1>1, <1>6
    <2>2. after[n].mCount <= k + 1
        BY <1>2, <1>3, <1>6, <2>1
    <2>3. \A i \in 1 .. (n - 1) : after[i].mCount <= k + 1
        BY <1>2, <1>3, <1>6, <2>1
    <2>4. QED
        BY <1>6, <2>1, <2>2, <2>3 DEF after
<1>7. QED
    BY <1>4, <1>5, <1>6

\* Runs that are not longer than MaxAckRun are sent whole.
LEMMA ShortRunsAreSentWhole ==
    ASSUME NEW m \in Manager,
           \A i \in 1 .. Len(m.mPendingAcks) : m.mPendingAcks[i].mCount <= MaxAckRun,
           NEW s \in Int, Acknowledges(m.mPendingAcks, s)
    PROVE  Acknowledges(AcksToWrite(m), s)
<1> DEFINE pending == m.mPendingAcks
           acks == AcksToWrite(m)
<1>1. pending \in Seq(AckRange) /\ Len(pending) \in Nat
    BY DEF Manager
<1>2. \A i \in 1 .. Len(pending) : acks[i] = pending[i]
    <2>1. \A i \in 1 .. Len(pending) : pending[i] \in AckRange
        BY <1>1, ElementOfSeq
    <2>2. ASSUME NEW i \in 1 .. Len(pending)
          PROVE  OnWire(pending[i]) = pending[i]
        <3> DEFINE r == pending[i]
        <3>1. r \in AckRange /\ r.mCount <= MaxAckRun
            BY <2>1
        <3> HIDE DEF r
        <3>2. OnWire(r) = r
            BY <3>1, ManagerAssumption DEF OnWire, AckRange
        <3>3. QED
            BY <3>2 DEF r
    <2>3. QED
        BY <2>2 DEF AcksToWrite
<1>3. Len(acks) = Len(pending)
    BY AcksToWriteFields
<1>4. QED
    BY <1>2, <1>3 DEF Acknowledges

\* A payload stays in the one datagram that carries it.
LEMMA PayloadsStayDistinct ==
    ASSUME TypeOK, PayloadsAreDistinct, [Next]_vars
    PROVE  PayloadsAreDistinct'
<1>1. /\ \A d \in network : d \in Datagram
      /\ \A d \in Datagram : d.src \in Endpoint /\ d.payload \in Nat
      /\ \A e \in Endpoint : manager[e].mDispatchedPacketCount \in Nat
      /\ \A e \in Endpoint : accepted[e] \in Seq(Nat) /\ Len(accepted[e]) \in Nat
      /\ \A e \in Endpoint : \A j \in 1 .. Len(accepted[e]) : accepted[e][j] \in Nat
    <2>1. \A e \in Endpoint : accepted[e] \in Seq(Nat)
        BY DEF TypeOK
    <2>2. \A e \in Endpoint : \A j \in 1 .. Len(accepted[e]) : accepted[e][j] \in Nat
        BY <2>1, ElementOfSeq
    <2>3. QED
        BY <2>1, <2>2, LenProperties DEF TypeOK, Datagram, Manager
<1>2. ASSUME NEW e \in Endpoint, NEW d \in Datagram, Sends(e, d),
             \A f \in Endpoint \ {e} : Rests(f)
      PROVE  PayloadsAreDistinct'
    <2>1. \A f \in Endpoint : manager[f].mDispatchedPacketCount
                                  <= manager'[f].mDispatchedPacketCount
        BY <1>1, <1>2 DEF Sends, Rests
    <2>2. \A f \in Endpoint : manager'[f].mDispatchedPacketCount \in Nat
        BY <1>1, <1>2 DEF Sends, Rests
    <2>3. \A f \in network : f.src = e => f.payload < d.payload
        BY <1>1, <1>2 DEF PayloadsAreDistinct, Sends
    <2>4. \A f, g \in network' : f.src = g.src /\ f.payload = g.payload
                                     => f.seq = g.seq
        BY <1>1, <1>2, <2>3 DEF PayloadsAreDistinct, Sends
    <2>5. \A f \in network' : f.payload <= manager'[f.src].mDispatchedPacketCount
        <3>1. \A f \in network : f.payload <= manager'[f.src].mDispatchedPacketCount
            BY <1>1, <2>1, <2>2 DEF PayloadsAreDistinct
        <3>2. d.payload <= manager'[d.src].mDispatchedPacketCount
            BY <1>1, <1>2 DEF Sends
        <3>3. QED
            BY <1>2, <3>1, <3>2 DEF Sends
    <2>6. \A f \in Endpoint : \A j \in 1 .. Len(accepted[f]) :
              accepted[f][j] <= manager'[Peer(f)].mDispatchedPacketCount
        <3>1. \A f \in Endpoint : Peer(f) \in Endpoint
            BY PeerFacts
        <3>2. QED
            BY <1>1, <2>1, <2>2, <3>1 DEF PayloadsAreDistinct
    <2>7. QED
        BY <1>2, <2>4, <2>5, <2>6 DEF PayloadsAreDistinct, Sends
<1>3. ASSUME NEW e \in Endpoint, NEW d \in network, Takes(e, d),
             \A f \in Endpoint \ {e} : Rests(f)
      PROVE  PayloadsAreDistinct'
    <2>1. \A f \in Endpoint : manager'[f].mDispatchedPacketCount
                                  = manager[f].mDispatchedPacketCount
        BY <1>3 DEF Takes, Rests
    <2>2. \A f \in network' : f.payload <= manager'[f.src].mDispatchedPacketCount
        BY <1>1, <1>3, <2>1 DEF PayloadsAreDistinct, Takes
    <2>3. /\ accepted'[e] = Append(accepted[e], d.payload)
          /\ \A f \in Endpoint \ {e} : accepted'[f] = accepted[f]
        BY <1>3 DEF Takes, TypeOK
    <2>4. d.payload <= manager'[Peer(e)].mDispatchedPacketCount
        BY <1>1, <1>3, <2>1 DEF PayloadsAreDistinct, Takes
    <2>5. \A j \in 1 .. Len(accepted'[e]) :
              accepted'[e][j] <= manager'[Peer(e)].mDispatchedPacketCount
        <3>1. d.payload \in Nat
            BY <1>1
        <3>2. /\ Len(accepted'[e]) = Len(accepted[e]) + 1
              /\ \A j \in 1 .. Len(accepted[e]) : accepted'[e][j] = accepted[e][j]
              /\ accepted'[e][Len(accepted[e]) + 1] = d.payload
            BY <1>1, <2>3, <3>1, AppendProperties
        <3>3. \A j \in 1 .. Len(accepted[e]) :
                  accepted[e][j] <= manager'[Peer(e)].mDispatchedPacketCount
            BY <2>1, PeerFacts DEF PayloadsAreDistinct
        <3>4. \A j \in 1 .. Len(accepted[e]) + 1 :
                  j \in 1 .. Len(accepted[e]) \/ j = Len(accepted[e]) + 1
            BY <1>1
        <3>5. QED
            BY <2>4, <3>2, <3>3, <3>4
    <2>6. \A f \in Endpoint : \A j \in 1 .. Len(accepted'[f]) :
              accepted'[f][j] <= manager'[Peer(f)].mDispatchedPacketCount
        BY <2>1, <2>3, <2>5, PeerFacts DEF PayloadsAreDistinct
    <2>7. QED
        BY <1>3, <2>2, <2>6 DEF PayloadsAreDistinct, Takes
<1>4. ASSUME UNCHANGED <<network, accepted>>, \A f \in Endpoint : Rests(f)
      PROVE  PayloadsAreDistinct'
    BY <1>1, <1>4, PeerFacts DEF PayloadsAreDistinct, Rests
<1>5. QED
    BY <1>2, <1>3, <1>4, StepEffect

\* A run of pending acks grows by one when one more packet is accepted.
LEMMA RunsStayCovered ==
    ASSUME TypeOK, RunsAreCovered, [Next]_vars
    PROVE  RunsAreCovered'
<1>1. \A e \in Endpoint : /\ accepted[e] \in Seq(Nat) /\ Len(accepted[e]) \in Nat
                          /\ manager[e].mPendingAcks \in Seq(AckRange)
    BY LenProperties DEF TypeOK, Manager
<1>2. ASSUME NEW e \in Endpoint, NEW d \in Datagram, Sends(e, d),
             \A f \in Endpoint \ {e} : Rests(f)
      PROVE  RunsAreCovered'
    <2>1. \A i \in 1 .. Len(manager'[e].mPendingAcks) :
              manager'[e].mPendingAcks[i].mCount <= Len(accepted'[e])
        BY <1>2 DEF Sends
    <2>2. QED
        BY <1>2, <2>1 DEF RunsAreCovered, Sends, Rests
<1>3. ASSUME NEW e \in Endpoint, NEW d \in network, Takes(e, d),
             \A f \in Endpoint \ {e} : Rests(f)
      PROVE  RunsAreCovered'
    <2>1. d.payload \in Nat /\ d.seq \in PacketSequenceNumber
        BY <1>3 DEF Takes, Datagram
    <2>2. /\ accepted'[e] = Append(accepted[e], d.payload)
          /\ \A f \in Endpoint \ {e} : accepted'[f] = accepted[f]
        BY <1>3 DEF Takes, TypeOK
    <2>3. Len(accepted'[e]) = Len(accepted[e]) + 1
        BY <1>1, <2>1, <2>2, AppendProperties
    <2>4. Len(accepted'[e]) <= MaxAccepted
        BY <1>1, <1>3, <2>3, PairAssumption DEF Takes
    <2>5. \A i \in 1 .. Len(manager'[e].mPendingAcks) :
              manager'[e].mPendingAcks[i].mCount <= Len(accepted'[e])
        <3>1. \A i \in 1 .. Len(manager[e].mPendingAcks) :
                  manager[e].mPendingAcks[i].mCount <= Len(accepted[e])
            BY DEF RunsAreCovered
        <3>2. manager'[e].mPendingAcks = AddPendingAck(manager[e].mPendingAcks, d.seq)
            BY <1>3 DEF Takes
        <3>3. QED
            BY <1>1, <2>1, <2>3, <3>1, <3>2, AddPendingAckCount
    <2>6. QED
        BY <1>3, <2>2, <2>4, <2>5 DEF RunsAreCovered, Rests
<1>4. ASSUME UNCHANGED <<network, accepted>>, \A f \in Endpoint : Rests(f)
      PROVE  RunsAreCovered'
    BY <1>4 DEF RunsAreCovered, Rests
<1>5. QED
    BY <1>2, <1>3, <1>4, StepEffect

\* No run of pending acks is longer than what one range can send, so that
\* AckRange::Write cuts none (DeliveryNotificationManager.cpp:24-34).
RunsFit ==
    \A e \in Endpoint : \A i \in 1 .. Len(manager[e].mPendingAcks) :
        manager[e].mPendingAcks[i].mCount <= MaxAckRun

\* No run is that long while no endpoint accepts that many packets.
LEMMA FewRunsFit ==
    ASSUME MaxAccepted <= MaxAckRun, TypeOK, RunsAreCovered
    PROVE  RunsFit
<1> SUFFICES ASSUME NEW e \in Endpoint, NEW i \in 1 .. Len(manager[e].mPendingAcks)
             PROVE  manager[e].mPendingAcks[i].mCount <= MaxAckRun
    BY DEF RunsFit
<1>1. manager[e].mPendingAcks \in Seq(AckRange) /\ accepted[e] \in Seq(Nat)
    BY DEF TypeOK, Manager
<1>2. manager[e].mPendingAcks[i] \in AckRange /\ Len(accepted[e]) \in Nat
    BY <1>1, ElementOfSeq, LenProperties
<1>3. manager[e].mPendingAcks[i].mCount \in Int
    BY <1>2 DEF AckRange
<1>4. QED
    BY <1>2, <1>3, ManagerAssumption, PairAssumption DEF RunsAreCovered

\* An ack waits in mPendingAcks until it is in a datagram.
LEMMA AcksAreKept ==
    ASSUME RunsFit, TypeOK, PayloadsAreDistinct, EveryAcceptedPacketIsAcked,
           [Next]_vars
    PROVE  EveryAcceptedPacketIsAcked'
<1>1. /\ \A d \in network : d \in Datagram
      /\ \A d \in Datagram : /\ d.src \in Endpoint /\ d.payload \in Nat
                             /\ d.seq \in PacketSequenceNumber /\ d.seq \in Int
      /\ \A e \in Endpoint : manager[e] \in Manager
      /\ \A e \in Endpoint : manager[e].mPendingAcks \in Seq(AckRange)
      /\ \A e \in Endpoint : manager[e].mDispatchedPacketCount \in Nat
      /\ \A e \in Endpoint : accepted[e] \in Seq(Nat) /\ Len(accepted[e]) \in Nat
    BY ManagerAssumption, LenProperties
    DEF TypeOK, Datagram, Manager, PacketSequenceNumber
<1>2. ASSUME NEW e \in Endpoint, NEW d \in network,
             d.src = Peer(e), HasAccepted(e, d.payload)
      PROVE  \/ Acknowledges(manager[e].mPendingAcks, d.seq)
             \/ \E f \in network : f.src = e /\ Acknowledges(f.acks, d.seq)
    BY <1>2 DEF EveryAcceptedPacketIsAcked
<1>3. ASSUME NEW e \in Endpoint, NEW d \in Datagram, Sends(e, d),
             \A f \in Endpoint \ {e} : Rests(f)
      PROVE  EveryAcceptedPacketIsAcked'
    <2> SUFFICES ASSUME NEW a \in Endpoint, NEW g \in network',
                        g.src = Peer(a), HasAccepted(a, g.payload)'
                 PROVE  \/ Acknowledges(manager'[a].mPendingAcks, g.seq)
                        \/ \E f \in network' :
                               f.src = a /\ Acknowledges(f.acks, g.seq)
        BY DEF EveryAcceptedPacketIsAcked
    <2>1. HasAccepted(a, g.payload)
        BY <1>3 DEF HasAccepted, Sends
    <2>2. g \in network
        <3>1. SUFFICES ASSUME g = d PROVE FALSE
            BY <1>3 DEF Sends
        <3>2. PICK j \in 1 .. Len(accepted[a]) : accepted[a][j] = g.payload
            BY <2>1 DEF HasAccepted
        <3>3. g.payload <= manager[Peer(a)].mDispatchedPacketCount
            BY <3>2 DEF PayloadsAreDistinct
        <3>4. g.payload = manager[Peer(a)].mDispatchedPacketCount + 1
            BY <1>3, <3>1 DEF Sends
        <3>5. QED
            BY <1>1, <3>3, <3>4, PeerFacts
    <2>3. g.seq \in Int
        BY <1>1, <2>2
    <2>4. CASE \E f \in network : f.src = a /\ Acknowledges(f.acks, g.seq)
        BY <1>3, <2>4 DEF Sends
    <2>5. CASE Acknowledges(manager[a].mPendingAcks, g.seq)
        <3>1. CASE a = e
            <4>1. \A i \in 1 .. Len(manager[e].mPendingAcks) :
                      manager[e].mPendingAcks[i].mCount <= MaxAckRun
                BY DEF RunsFit
            <4>2. Acknowledges(AcksToWrite(manager[e]), g.seq)
                BY <1>1, <2>3, <2>5, <3>1, <4>1, ShortRunsAreSentWhole
            <4>3. QED
                BY <1>3, <3>1, <4>2 DEF Sends
        <3>2. CASE a # e
            BY <1>3, <2>5, <3>2 DEF Rests
        <3>3. QED
            BY <3>1, <3>2
    <2>6. QED
        BY <1>2, <2>1, <2>2, <2>4, <2>5
<1>4. ASSUME NEW e \in Endpoint, NEW d \in network, Takes(e, d),
             \A f \in Endpoint \ {e} : Rests(f)
      PROVE  EveryAcceptedPacketIsAcked'
    <2> SUFFICES ASSUME NEW a \in Endpoint, NEW g \in network,
                        g.src = Peer(a), HasAccepted(a, g.payload)'
                 PROVE  \/ Acknowledges(manager'[a].mPendingAcks, g.seq)
                        \/ \E f \in network' :
                               f.src = a /\ Acknowledges(f.acks, g.seq)
        BY <1>4 DEF EveryAcceptedPacketIsAcked, Takes
    <2>1. network' = network
        BY <1>4 DEF Takes
    <2>2. CASE a # e
        <3>1. accepted'[a] = accepted[a]
                  /\ manager'[a].mPendingAcks = manager[a].mPendingAcks
            BY <1>4, <2>2 DEF Takes, Rests, TypeOK
        <3>2. HasAccepted(a, g.payload)
            BY <3>1 DEF HasAccepted
        <3>3. QED
            BY <1>2, <2>1, <3>1, <3>2
    <2>3. CASE a = e
        <3> DEFINE after == AddPendingAck(manager[e].mPendingAcks, d.seq)
        <3>1. manager'[e].mPendingAcks = after
            BY <1>4 DEF Takes
        <3>2. /\ Acknowledges(after, d.seq)
              /\ \A s \in Int : Acknowledges(manager[e].mPendingAcks, s)
                                    => Acknowledges(after, s)
            BY <1>1, AddPendingAckKeeps
        <3> HIDE DEF after
        <3>3. g.payload = d.payload \/ HasAccepted(e, g.payload)
            <4>1. accepted'[e] = Append(accepted[e], d.payload)
                BY <1>4 DEF Takes, TypeOK
            <4>2. /\ Len(accepted'[e]) = Len(accepted[e]) + 1
                  /\ \A j \in 1 .. Len(accepted[e]) : accepted'[e][j] = accepted[e][j]
                  /\ accepted'[e][Len(accepted[e]) + 1] = d.payload
                BY <1>1, <4>1, AppendProperties
            <4>3. PICK j \in 1 .. Len(accepted'[e]) : accepted'[e][j] = g.payload
                BY <2>3 DEF HasAccepted
            <4>4. j \in 1 .. Len(accepted[e]) \/ j = Len(accepted[e]) + 1
                BY <1>1, <4>2
            <4>5. QED
                BY <4>2, <4>3, <4>4 DEF HasAccepted
        <3>4. CASE g.payload = d.payload
            <4>1. g.seq = d.seq
                BY <1>4, <2>3, <3>4 DEF PayloadsAreDistinct, Takes
            <4>2. QED
                BY <2>3, <3>1, <3>2, <4>1
        <3>5. CASE HasAccepted(e, g.payload)
            BY <1>1, <1>2, <2>1, <2>3, <3>1, <3>2, <3>5
        <3>6. QED
            BY <3>3, <3>4, <3>5
    <2>4. QED
        BY <2>2, <2>3
<1>5. ASSUME UNCHANGED <<network, accepted>>, \A f \in Endpoint : Rests(f)
      PROVE  EveryAcceptedPacketIsAcked'
    BY <1>5 DEF EveryAcceptedPacketIsAcked, HasAccepted, Rests
<1>6. QED
    BY <1>3, <1>4, <1>5, StepEffect

\* As long as no run of pending acks outgrows what one range can send, however
\* many packets are accepted and also when numbers wrap, the number of each is
\* pending at its receiver or in a datagram that the receiver has sent: a run that
\* is cut is the only way to lose an ack (DeliveryNotificationManager.cpp:24-34,
\* 107-124).
THEOREM OnlyCutRunsLoseAcks ==
    Spec /\ []RunsFit => []EveryAcceptedPacketIsAcked
<1> DEFINE Inv == PayloadsAreDistinct /\ EveryAcceptedPacketIsAcked
<1>1. Init => Inv
    <2> SUFFICES ASSUME Init PROVE Inv
        OBVIOUS
    <2>1. network = {} /\ \A e \in Endpoint : accepted[e] = << >>
        BY DEF Init
    <2>2. QED
        BY <2>1 DEF PayloadsAreDistinct, EveryAcceptedPacketIsAcked
<1>2. TypeOK /\ RunsFit /\ Inv /\ [Next]_vars => Inv'
    BY PayloadsStayDistinct, AcksAreKept
<1>3. Inv => EveryAcceptedPacketIsAcked
    OBVIOUS
<1>4. QED
    BY <1>1, <1>2, <1>3, TypeCorrect, PTL DEF Spec

\* While an endpoint accepts no more packets than one range can name (256 in the
\* code), the number of each is in its pending acks or in a datagram it sent,
\* also when numbers wrap.
THEOREM AcceptedIsAcked ==
    ASSUME MaxAccepted <= MaxAckRun
    PROVE  Spec => []EveryAcceptedPacketIsAcked
<1>1. Init => RunsAreCovered
    <2> SUFFICES ASSUME Init PROVE RunsAreCovered
        OBVIOUS
    <2>1. \A e \in Endpoint : accepted[e] = << >> /\ manager[e].mPendingAcks = << >>
        BY DEF Init, NewManager
    <2>2. QED
        BY <2>1, PairAssumption DEF RunsAreCovered
<1>2. TypeOK /\ RunsAreCovered /\ [Next]_vars => RunsAreCovered'
    BY RunsStayCovered
<1>3. TypeOK /\ RunsAreCovered => RunsFit
    BY FewRunsFit
<1>4. QED
    BY <1>1, <1>2, <1>3, TypeCorrect, OnlyCutRunsLoseAcks, PTL DEF Spec

----------------------------------------------------------------------------
(***************************************************************************)
(* Only packets that were overtaken are dropped.                           *)
(***************************************************************************)

\* The expected number is set by an accepted packet, to its number plus one.
LEMMA ExpectedStaysNext ==
    ASSUME NoWrap, DeliveryInvariant, ExpectedIsNext, [Next]_vars
    PROVE  ExpectedIsNext'
<1>1. TypeOK /\ DatagramsAreNumbered /\ \A e \in Endpoint : NumberedInOrder(manager[e])
    BY DEF DeliveryInvariant
<1>2. \A e \in Endpoint : accepted[e] \in Seq(Nat) /\ Len(accepted[e]) \in Nat
    BY <1>1, LenProperties DEF TypeOK
<1>3. ASSUME NEW e \in Endpoint, NEW d \in Datagram, Sends(e, d),
             \A f \in Endpoint \ {e} : Rests(f)
      PROVE  ExpectedIsNext'
    BY <1>3 DEF ExpectedIsNext, Sends, Rests
<1>4. ASSUME NEW e \in Endpoint, NEW d \in network, Takes(e, d),
             \A f \in Endpoint \ {e} : Rests(f)
      PROVE  ExpectedIsNext'
    <2>1. d.payload \in Nat /\ d.src \in Endpoint /\ d.seq = d.payload
        BY <1>1, <1>4 DEF Takes, Datagram, DatagramsAreNumbered
    <2>2. d.payload <= MaxDispatched
        <3>1. manager[d.src].mDispatchedPacketCount \in Nat
            BY <1>1, <2>1 DEF TypeOK, Manager
        <3>2. d.payload <= manager[d.src].mDispatchedPacketCount
            BY <1>1, <1>4 DEF DatagramsAreNumbered
        <3>3. manager[d.src].mDispatchedPacketCount <= MaxDispatched
            BY <1>1, <2>1 DEF NumberedInOrder
        <3>4. QED
            BY <2>1, <3>1, <3>2, <3>3, PairAssumption
    <2>3. manager'[e].mNextExpectedSequenceNumber = d.payload + 1
        <3>1. NextSequenceNumber(d.payload) = d.payload + 1
            BY <2>1, <2>2, ManagerAssumption, PairAssumption
            DEF NoWrap, NextSequenceNumber
        <3>2. QED
            BY <1>4, <2>1, <3>1 DEF Takes
    <2>4. /\ accepted'[e] = Append(accepted[e], d.payload)
          /\ \A f \in Endpoint \ {e} : accepted'[f] = accepted[f]
        BY <1>1, <1>4 DEF Takes, TypeOK
    <2>5. \E j \in 1 .. Len(accepted'[e]) : accepted'[e][j] = d.payload
        <3>1. /\ Len(accepted'[e]) = Len(accepted[e]) + 1
              /\ accepted'[e][Len(accepted[e]) + 1] = d.payload
            BY <1>2, <2>1, <2>4, AppendProperties
        <3>2. Len(accepted[e]) + 1 \in 1 .. Len(accepted'[e])
            BY <1>2, <3>1
        <3>3. QED
            BY <3>1, <3>2
    <2>6. QED
        BY <1>4, <2>3, <2>4, <2>5 DEF ExpectedIsNext, Rests
<1>5. ASSUME UNCHANGED <<network, accepted>>, \A f \in Endpoint : Rests(f)
      PROVE  ExpectedIsNext'
    BY <1>5 DEF ExpectedIsNext, Rests
<1>6. QED
    BY <1>1, <1>3, <1>4, <1>5, StepEffect

\* While no number wraps, and whatever the memory of a new manager held, a packet
\* is dropped as old only when it or a later one was accepted, or when nothing
\* was accepted yet and that memory may have held a higher number.
THEOREM OnlyOvertakenAreIgnored ==
    ASSUME NoWrap PROVE Spec => []OnlyOldPacketsAreIgnored
<1>1. Init => ExpectedIsNext
    BY DEF Init, NewManager, ExpectedIsNext
<1>2. DeliveryInvariant /\ ExpectedIsNext /\ [Next]_vars => ExpectedIsNext'
    BY ExpectedStaysNext
<1>3. DeliveryInvariant /\ ExpectedIsNext => OnlyOldPacketsAreIgnored
    <2> SUFFICES ASSUME DeliveryInvariant, ExpectedIsNext,
                        NEW e \in Endpoint, NEW d \in network,
                        IsOld(manager[e], d.seq)
                 PROVE  \/ \E j \in 1 .. Len(accepted[e]) :
                               accepted[e][j] >= d.payload
                        \/ /\ accepted[e] = << >>
                           /\ \E g \in GarbageValues : d.seq < g
        BY DEF OnlyOldPacketsAreIgnored
    <2> DEFINE expected == manager[e].mNextExpectedSequenceNumber
    <2>1. /\ expected \in Nat /\ d.payload \in Nat
          /\ \A j \in 1 .. Len(accepted[e]) : accepted[e][j] \in Nat
        <3>1. manager[e] \in Manager /\ d \in Datagram /\ accepted[e] \in Seq(Nat)
            BY DEF DeliveryInvariant, TypeOK
        <3>2. \A j \in 1 .. Len(accepted[e]) : accepted[e][j] \in Nat
            BY <3>1, ElementOfSeq
        <3>3. expected \in PacketSequenceNumber /\ d.payload \in Nat
            BY <3>1 DEF Manager, Datagram
        <3>4. QED
            BY <3>2, <3>3, ManagerAssumption DEF PacketSequenceNumber
    <2>2. d.seq = d.payload /\ d.payload < expected
        BY DEF DeliveryInvariant, DatagramsAreNumbered, IsOld
    <2>3. CASE accepted[e] = << >> /\ expected \in GarbageValues
        BY <2>2, <2>3
    <2>4. CASE \E j \in 1 .. Len(accepted[e]) : expected = accepted[e][j] + 1
        <3>1. PICK j \in 1 .. Len(accepted[e]) : expected = accepted[e][j] + 1
            BY <2>4
        <3>2. accepted[e][j] >= d.payload
            BY <2>1, <2>2, <3>1
        <3>3. QED
            BY <3>2
    <2>5. QED
        BY <2>3, <2>4 DEF ExpectedIsNext
<1>4. QED
    BY <1>1, <1>2, <1>3, InvariantHolds, PTL DEF Spec

----------------------------------------------------------------------------
(***************************************************************************)
(* A sweep takes the packets that are late, and no other.                  *)
(***************************************************************************)

\* A step lets entries leave a queue at its front, or one entry, dispatched
\* now, join at its end.
LEMMA QueueEffect ==
    ASSUME TypeOK, [Next]_vars, NEW f \in Endpoint
    PROVE  LET queue == manager[f].mInFlightPackets
               after == manager'[f].mInFlightPackets
           IN  /\ now' \in Nat /\ now' >= now
               /\ \/ \E k \in 0 .. Len(queue) :
                         /\ Len(after) = Len(queue) - k
                         /\ \A i \in 1 .. Len(queue) - k : after[i] = queue[k + i]
                  \/ /\ Len(after) = Len(queue) + 1
                     /\ \A i \in 1 .. Len(queue) : after[i] = queue[i]
                     /\ after[Len(queue) + 1].mTimeDispatched = now
<1> DEFINE Left(a, k) ==
        /\ Len(a.mInFlightPackets) = Len(manager[f].mInFlightPackets) - k
        /\ \A i \in 1 .. Len(manager[f].mInFlightPackets) - k :
               a.mInFlightPackets[i] = manager[f].mInFlightPackets[k + i]
<1> DEFINE Joined(a) ==
        /\ Len(a.mInFlightPackets) = Len(manager[f].mInFlightPackets) + 1
        /\ \A i \in 1 .. Len(manager[f].mInFlightPackets) :
               a.mInFlightPackets[i] = manager[f].mInFlightPackets[i]
        /\ a.mInFlightPackets[Len(manager[f].mInFlightPackets) + 1]
               .mTimeDispatched = now
<1>1. SUFFICES /\ now' \in Nat /\ now' >= now
               /\ \/ \E k \in 0 .. Len(manager[f].mInFlightPackets) :
                         Left(manager'[f], k)
                  \/ Joined(manager'[f])
    OBVIOUS
<1>2. /\ \A e \in Endpoint : manager[e] \in Manager
      /\ \A e \in Endpoint : /\ manager[e].mInFlightPackets \in Seq(InFlightPacket)
                             /\ Len(manager[e].mInFlightPackets) \in Nat
      /\ now \in Nat
    BY LenProperties DEF TypeOK, Manager
<1>3. ASSUME manager'[f] = manager[f]
      PROVE  0 \in 0 .. Len(manager[f].mInFlightPackets) /\ Left(manager'[f], 0)
    BY <1>2, <1>3
<1>4. ASSUME NEW e \in Endpoint, SendPacket(e)
      PROVE  /\ now' = now
             /\ f = e => Joined(manager'[f])
             /\ f # e => manager'[f] = manager[f]
    <2> DEFINE m == manager[e]
               p == manager'[e]
               entry == [mSequenceNumber   |-> m.mNextOutgoingSequenceNumber,
                         mTimeDispatched   |-> now,
                         mTransmissionData |-> m.mDispatchedPacketCount + 1]
    <2>1. /\ manager' = [manager EXCEPT ![e] = p]
          /\ p.mInFlightPackets = Append(m.mInFlightPackets, entry)
          /\ UNCHANGED <<now, callbacks, accepted>>
        BY <1>4, SendPacketEffect
    <2>2. entry \in InFlightPacket /\ entry.mTimeDispatched = now
        BY <1>2 DEF InFlightPacket, Manager
    <2> HIDE DEF entry
    <2>3. /\ Len(p.mInFlightPackets) = Len(m.mInFlightPackets) + 1
          /\ \A i \in 1 .. Len(m.mInFlightPackets) :
                 p.mInFlightPackets[i] = m.mInFlightPackets[i]
          /\ p.mInFlightPackets[Len(m.mInFlightPackets) + 1] = entry
        BY <1>2, <2>1, <2>2, AppendProperties
    <2>4. f # e => manager'[f] = manager[f]
        BY <2>1 DEF TypeOK
    <2>5. QED
        BY <2>1, <2>2, <2>3, <2>4
<1>5. ASSUME NEW e \in Endpoint, NEW m \in Manager,
             m.mInFlightPackets = manager[e].mInFlightPackets,
             NEW popped \in 0 .. Len(m.mInFlightPackets), NEW missed \in 0 .. popped,
             manager' = [manager EXCEPT ![e] = AfterPops(m, missed, popped)]
      PROVE  \E k \in 0 .. Len(manager[f].mInFlightPackets) : Left(manager'[f], k)
    <2>1. CASE f = e
        <3>1. PICK after : after = AfterPops(m, missed, popped)
            OBVIOUS
        <3>2. manager'[f] = after
            BY <1>5, <2>1, <3>1 DEF TypeOK
        <3>3. /\ Len(after.mInFlightPackets) = Len(m.mInFlightPackets) - popped
              /\ \A i \in 1 .. (Len(m.mInFlightPackets) - popped) :
                     after.mInFlightPackets[i] = m.mInFlightPackets[popped + i]
            BY <3>1, AfterPopsFields
        <3>4. m.mInFlightPackets = manager[f].mInFlightPackets
            BY <1>5, <2>1
        <3>5. Left(after, popped)
            BY <3>3, <3>4
        <3>6. popped \in 0 .. Len(manager[f].mInFlightPackets)
            BY <3>4
        <3>7. QED
            BY <3>2, <3>5, <3>6
    <2>2. CASE f # e
        <3>1. manager'[f] = manager[f]
            BY <1>5, <2>2 DEF TypeOK
        <3>2. QED
            BY <1>3, <3>1
    <2>3. QED
        BY <2>1, <2>2
<1>6. ASSUME NEW e \in Endpoint, NEW d \in network, ReceivePacket(e, d)
      PROVE  /\ now' = now
             /\ \E k \in 0 .. Len(manager[f].mInFlightPackets) : Left(manager'[f], k)
    <2> DEFINE m == ProcessSequenceNumber(manager[e], d.seq)
    <2>1. /\ m \in Manager
          /\ m.mInFlightPackets = manager[e].mInFlightPackets
          /\ UNCHANGED <<network, now>>
        BY <1>6, ReceivePacketEffect
    <2>2. PICK popped \in 0 .. Len(m.mInFlightPackets) :
              \E missed \in 0 .. popped :
                  manager' = [manager EXCEPT ![e] = AfterPops(m, missed, popped)]
        BY <1>6 DEF ReceivePacket
    <2>3. PICK missed \in 0 .. popped :
              manager' = [manager EXCEPT ![e] = AfterPops(m, missed, popped)]
        BY <2>2
    <2> HIDE DEF m, Left
    <2>4. QED
        BY <1>5, <2>1, <2>3
<1>7. ASSUME NEW e \in Endpoint, SweepTimeouts(e)
      PROVE  /\ now' = now
             /\ \E k \in 0 .. Len(manager[f].mInFlightPackets) : Left(manager'[f], k)
    <2>1. PICK n \in 0 .. Len(manager[e].mInFlightPackets) :
              manager' = [manager EXCEPT ![e] = AfterPops(manager[e], n, n)]
        BY <1>7 DEF SweepTimeouts
    <2>2. n \in 0 .. n
        BY <1>2
    <2> HIDE DEF Left
    <2>3. QED
        BY <1>2, <1>5, <1>7, <2>1, <2>2 DEF SweepTimeouts
<1>8. CASE Tick
    <2>1. now' = now + 1 /\ manager' = manager
        BY <1>8 DEF Tick
    <2> HIDE DEF Left, Joined
    <2>2. now' \in Nat /\ now' >= now
        BY <1>2, <2>1
    <2>3. QED
        BY <1>3, <2>1, <2>2
<1>9. CASE UNCHANGED vars \/ \E e \in Endpoint, d \in network : DropOldPacket(e, d)
    <2>1. UNCHANGED <<manager, now>>
        BY <1>9 DEF vars, DropOldPacket
    <2>2. QED
        BY <1>2, <1>3, <2>1
<1> HIDE DEF Left, Joined
<1>10. CASE \E e \in Endpoint : SendPacket(e)
    <2>1. PICK e \in Endpoint : SendPacket(e)
        BY <1>10
    <2>2. now' = now /\ now' \in Nat /\ now' >= now
        BY <1>2, <1>4, <2>1
    <2>3. CASE f = e
        BY <1>4, <2>1, <2>2, <2>3
    <2>4. CASE f # e
        <3>1. manager'[f] = manager[f]
            BY <1>4, <2>1, <2>4
        <3>2. QED
            BY <1>3, <2>2, <3>1
    <2>5. QED
        BY <2>3, <2>4
<1>11. CASE \E e \in Endpoint, d \in network : ReceivePacket(e, d)
    BY <1>2, <1>6, <1>11
<1>12. CASE \E e \in Endpoint : SweepTimeouts(e)
    BY <1>2, <1>7, <1>12
<1>13. \/ \E e \in Endpoint : SendPacket(e)
       \/ \E e \in Endpoint, d \in network : ReceivePacket(e, d)
       \/ \E e \in Endpoint, d \in network : DropOldPacket(e, d)
       \/ \E e \in Endpoint : SweepTimeouts(e)
       \/ Tick
       \/ UNCHANGED vars
    BY DEF Next
<1>14. QED
    BY <1>8, <1>9, <1>10, <1>11, <1>12, <1>13

\* Entries are dispatched in the order in which time passes.
LEMMA TimesStayInOrder ==
    ASSUME TypeOK, TimesAreInOrder, [Next]_vars
    PROVE  TimesAreInOrder'
<1>1. now \in Nat /\ now >= BootTime
    BY DEF TypeOK, TimesAreInOrder
<1>2. now' \in Nat /\ now' >= now
    <2>1. A \in Endpoint
        BY DEF Endpoint
    <2>2. QED
        BY <2>1, QueueEffect
<1>3. SUFFICES ASSUME NEW f \in Endpoint,
                      NEW i \in 1 .. Len(manager'[f].mInFlightPackets)
               PROVE  /\ manager'[f].mInFlightPackets[i].mTimeDispatched <= now'
                      /\ \A j \in 1 .. i :
                             manager'[f].mInFlightPackets[j].mTimeDispatched
                                 <= manager'[f].mInFlightPackets[i].mTimeDispatched
    BY <1>1, <1>2, PairAssumption DEF TimesAreInOrder
<1> DEFINE queue == manager[f].mInFlightPackets
           after == manager'[f].mInFlightPackets
           n == Len(queue)
<1>4. queue \in Seq(InFlightPacket) /\ n \in Nat
    BY LenProperties DEF TypeOK, Manager
<1>5. \A k \in 1 .. n : queue[k].mTimeDispatched \in Nat
    <2>1. \A k \in 1 .. n : queue[k] \in InFlightPacket
        BY <1>4, ElementOfSeq
    <2>2. QED
        BY <2>1 DEF InFlightPacket
<1>6. \A k \in 1 .. n : /\ queue[k].mTimeDispatched <= now
                        /\ \A j \in 1 .. k :
                               queue[j].mTimeDispatched <= queue[k].mTimeDispatched
    BY DEF TimesAreInOrder
<1>7. \/ \E k \in 0 .. n : /\ Len(after) = n - k
                           /\ \A x \in 1 .. n - k : after[x] = queue[k + x]
      \/ /\ Len(after) = n + 1
         /\ \A x \in 1 .. n : after[x] = queue[x]
         /\ after[n + 1].mTimeDispatched = now
    BY QueueEffect
<1>8. i \in 1 .. Len(after)
    BY <1>3
<1> HIDE DEF queue, after, n
<1>9. CASE \E k \in 0 .. n : /\ Len(after) = n - k
                             /\ \A x \in 1 .. n - k : after[x] = queue[k + x]
    <2>1. PICK k \in 0 .. n : /\ Len(after) = n - k
                              /\ \A x \in 1 .. n - k : after[x] = queue[k + x]
        BY <1>9
    <2>2. i \in 1 .. n - k /\ k + i \in 1 .. n
        BY <1>4, <1>8, <2>1
    <2>3. \A j \in 1 .. i : j \in 1 .. n - k /\ k + j \in 1 .. k + i
        BY <1>4, <2>2
    <2>4. after[i].mTimeDispatched <= now'
        BY <1>1, <1>2, <1>5, <1>6, <2>1, <2>2
    <2>5. \A j \in 1 .. i : after[j].mTimeDispatched <= after[i].mTimeDispatched
        BY <1>6, <2>1, <2>2, <2>3
    <2>6. QED
        BY <2>4, <2>5 DEF after
<1>10. CASE /\ Len(after) = n + 1
            /\ \A x \in 1 .. n : after[x] = queue[x]
            /\ after[n + 1].mTimeDispatched = now
    <2>1. \A j \in 1 .. n + 1 : j \in 1 .. n \/ j = n + 1
        BY <1>4
    <2>2. \A j \in 1 .. n + 1 : /\ after[j].mTimeDispatched \in Nat
                                /\ after[j].mTimeDispatched <= now
        BY <1>1, <1>5, <1>6, <1>10, <2>1
    <2>3. after[i].mTimeDispatched <= now'
        BY <1>1, <1>2, <1>8, <1>10, <2>2
    <2>4. \A j \in 1 .. i : after[j].mTimeDispatched <= after[i].mTimeDispatched
        <3>1. CASE i = n + 1
            BY <1>10, <2>2, <3>1
        <3>2. CASE i \in 1 .. n
            <4>1. \A j \in 1 .. i : j \in 1 .. n
                BY <1>4, <3>2
            <4>2. QED
                BY <1>6, <1>10, <3>2, <4>1
        <3>3. QED
            BY <1>8, <1>10, <2>1, <3>1, <3>2
    <2>5. QED
        BY <2>3, <2>4 DEF after
<1>11. QED
    BY <1>7, <1>9, <1>10

\* What a sweep takes, when entries are in the order of their times.
LEMMA SweepTakesTheLate ==
    ASSUME BootTime >= kAckTimeoutMs, TypeOK, TimesAreInOrder,
           NEW e \in Endpoint, SweepTimeouts(e)
    PROVE  LET queue == manager[e].mInFlightPackets
               left  == Len(manager'[e].mInFlightPackets)
           IN  \A i \in 1 .. Len(queue) :
                   (i <= Len(queue) - left)
                       <=> (now - queue[i].mTimeDispatched > kAckTimeoutMs)
<1> DEFINE m == manager[e]
           queue == m.mInFlightPackets
           left == Len(manager'[e].mInFlightPackets)
<1>1. PICK n \in 0 .. Len(queue) :
          /\ ProcessTimeoutPackets(m, now, n)
          /\ manager' = [manager EXCEPT ![e] = AfterPops(m, n, n)]
    BY DEF SweepTimeouts
<1>2. m \in Manager /\ queue \in Seq(InFlightPacket) /\ Len(queue) \in Nat
    BY LenProperties DEF TypeOK, Manager
<1>3. n \in Nat /\ n <= Len(queue) /\ n \in 0 .. n
    BY <1>2
<1>4. left = Len(queue) - n
    <2>1. manager'[e] = AfterPops(m, n, n)
        BY <1>1 DEF TypeOK
    <2>2. QED
        BY <1>2, <1>3, <2>1, AfterPopsFields
<1>5. /\ \A i \in 1 .. n : queue[i].mTimeDispatched < TimeoutTime(now)
      /\ n < Len(queue) => queue[n + 1].mTimeDispatched >= TimeoutTime(now)
    BY <1>1 DEF ProcessTimeoutPackets
<1>6. \A i \in 1 .. Len(queue) : queue[i].mTimeDispatched \in Nat
    <2>1. \A i \in 1 .. Len(queue) : queue[i] \in InFlightPacket
        BY <1>2, ElementOfSeq
    <2>2. QED
        BY <2>1 DEF InFlightPacket
<1>7. /\ now \in Nat /\ now >= kAckTimeoutMs
      /\ \A i \in 1 .. Len(queue) : \A j \in 1 .. i :
             queue[j].mTimeDispatched <= queue[i].mTimeDispatched
    BY PairAssumption, ManagerAssumption DEF TypeOK, TimesAreInOrder
<1>8. TimeoutTime(now) = now - kAckTimeoutMs
    BY <1>7 DEF TimeoutTime
<1> HIDE DEF queue, left, m
<1>9. ASSUME NEW i \in 1 .. Len(queue)
      PROVE  (i <= Len(queue) - left)
                 <=> (now - queue[i].mTimeDispatched > kAckTimeoutMs)
    <2>1. Len(queue) - left = n
        BY <1>2, <1>3, <1>4
    <2>2. CASE i <= n
        <3>1. i \in 1 .. n
            BY <1>3, <2>2
        <3>2. QED
            BY <1>5, <1>6, <1>7, <1>8, <2>1, <2>2, <3>1, ManagerAssumption
    <2>3. CASE ~(i <= n)
        <3>1. n < Len(queue) /\ n + 1 \in 1 .. i /\ n + 1 \in 1 .. Len(queue)
            BY <1>2, <1>3, <2>3
        <3>2. queue[i].mTimeDispatched >= now - kAckTimeoutMs
            BY <1>5, <1>6, <1>7, <1>8, <3>1, ManagerAssumption
        <3>3. QED
            BY <1>6, <1>7, <2>1, <2>3, <3>2, ManagerAssumption
    <2>4. QED
        BY <2>2, <2>3
<1>10. QED
    BY <1>9 DEF queue, left, m

\* Once the clock has passed kAckTimeoutMs, a sweep reports every packet that is
\* more than kAckTimeoutMs old, and no other, also when numbers wrap.
THEOREM SweepsAreExact ==
    ASSUME BootTime >= kAckTimeoutMs
    PROVE  Spec => SweepIsExact
<1>1. Init => TimesAreInOrder
    <2> SUFFICES ASSUME Init PROVE TimesAreInOrder
        OBVIOUS
    <2>1. now = BootTime /\ \A e \in Endpoint : manager[e].mInFlightPackets = << >>
        BY DEF Init, NewManager
    <2>2. QED
        BY <2>1, PairAssumption DEF TimesAreInOrder
<1>2. TypeOK /\ TimesAreInOrder /\ [Next]_vars => TimesAreInOrder'
    BY TimesStayInOrder
<1>3. TypeOK /\ TimesAreInOrder /\ [Next]_vars =>
          [\A e \in Endpoint :
              SweepTimeouts(e) =>
                  LET queue == manager[e].mInFlightPackets
                      left  == Len(manager'[e].mInFlightPackets)
                  IN  \A i \in 1 .. Len(queue) :
                          (i <= Len(queue) - left)
                              <=> (now - queue[i].mTimeDispatched
                                       > kAckTimeoutMs)]_vars
    BY SweepTakesTheLate
<1>4. QED
    BY <1>1, <1>2, <1>3, TypeCorrect, PTL DEF Spec, SweepIsExact

\* The parts of the invariant hold together: acks are complete, an expected
\* number follows an accepted packet, and the queue is in the order of its times
\* (DeliveryNotificationManager.cpp:83-105, 107-124, 173-185).
THEOREM BookkeepingHolds ==
    ASSUME NoWrap, MaxAccepted <= MaxAckRun
    PROVE  Spec => []BookkeepingInvariant
<1>1. Init => BookkeepingInvariant
    <2> SUFFICES ASSUME Init PROVE BookkeepingInvariant
        OBVIOUS
    <2>1. /\ network = {} /\ now = BootTime
          /\ \A e \in Endpoint :
                 /\ accepted[e] = << >>
                 /\ manager[e].mPendingAcks = << >>
                 /\ manager[e].mInFlightPackets = << >>
                 /\ manager[e].mNextExpectedSequenceNumber \in GarbageValues
        BY DEF Init, NewManager
    <2>2. PayloadsAreDistinct /\ RunsAreCovered /\ EveryAcceptedPacketIsAcked
        BY <2>1, PairAssumption
        DEF PayloadsAreDistinct, RunsAreCovered, EveryAcceptedPacketIsAcked
    <2>3. ExpectedIsNext /\ TimesAreInOrder
        BY <2>1, PairAssumption DEF ExpectedIsNext, TimesAreInOrder
    <2>4. QED
        BY <2>2, <2>3, TypeInit DEF BookkeepingInvariant
<1>2. DeliveryInvariant /\ BookkeepingInvariant /\ TypeOK' /\ [Next]_vars
      => BookkeepingInvariant'
    BY PayloadsStayDistinct, RunsStayCovered, FewRunsFit, AcksAreKept,
       ExpectedStaysNext, TimesStayInOrder DEF BookkeepingInvariant
<1>3. QED
    BY <1>1, <1>2, TypeCorrect, InvariantHolds, PTL DEF Spec

----------------------------------------------------------------------------
(***************************************************************************)
(* While no number wraps: DeliveryPair implements DeliveryPromise.  Sends  *)
(* are Dispatch, an accepted packet is Accept and a sweep GiveUp, which    *)
(* report what the step pops; the other steps leave the promise as it is.  *)
(***************************************************************************)

\* The reports of an endpoint are its callbacks without their packets.
LEMMA ReportedFields ==
    ASSUME TypeOK, NEW e \in Endpoint
    PROVE  /\ callbacks[e] \in Seq(Callback)
           /\ Len(callbacks[e]) \in Nat
           /\ Reported(e) \in Seq(BOOLEAN)
           /\ Len(Reported(e)) = Len(callbacks[e])
           /\ \A i \in 1 .. Len(callbacks[e]) :
                  Reported(e)[i] = callbacks[e][i].delivered
<1>1. callbacks[e] \in Seq(Callback) /\ Len(callbacks[e]) \in Nat
    BY LenProperties DEF TypeOK
<1>2. \A i \in 1 .. Len(callbacks[e]) : callbacks[e][i].delivered \in BOOLEAN
    <2>1. \A i \in 1 .. Len(callbacks[e]) : callbacks[e][i] \in Callback
        BY <1>1, ElementOfSeq
    <2>2. QED
        BY <2>1 DEF Callback
<1>3. Reported(e) \in [1 .. Len(callbacks[e]) -> BOOLEAN]
    BY <1>2 DEF Reported
<1>4. QED
    BY <1>1, <1>3, FunctionIsSequence DEF Reported

\* Pops that report only accepted packets as delivered are a ReportNext.
LEMMA PopsReportNext ==
    ASSUME TypeOK, EveryPacketHasOneFate, TypeOK',
           NEW e \in Endpoint, NEW m \in Manager,
           m.mInFlightPackets = manager[e].mInFlightPackets,
           NEW popped \in 0 .. Len(m.mInFlightPackets), NEW missed \in 0 .. popped,
           callbacks' = [callbacks EXCEPT
                             ![e] = @ \o CallbacksOfPops(m, missed, popped)],
           \A i \in (missed + 1) .. popped :
               HasAccepted(Peer(e), m.mInFlightPackets[i].mTransmissionData)
    PROVE  Promise!ReportNext(e)
<1> DEFINE queue == m.mInFlightPackets
           calls == callbacks[e]
           new   == CallbacksOfPops(m, missed, popped)
           fates == [i \in 1 .. popped |-> i > missed]
           n     == Len(calls)
<1>1. /\ calls \in Seq(Callback) /\ n \in Nat
      /\ Reported(e) \in Seq(BOOLEAN) /\ Len(Reported(e)) = n
      /\ \A i \in 1 .. n : Reported(e)[i] = calls[i].delivered
    BY ReportedFields
<1>2. /\ queue \in Seq(InFlightPacket) /\ Len(queue) \in Nat
      /\ popped \in Nat /\ missed \in Nat /\ popped <= Len(queue)
    BY LenProperties DEF Manager
<1>3. /\ new \in Seq(Callback) /\ Len(new) = popped
      /\ \A i \in 1 .. popped : new[i].delivered = (i > missed)
    BY CallbacksOfPopsFields DEF Callback
<1>4. /\ fates \in [1 .. popped -> BOOLEAN]
      /\ fates \in Seq(BOOLEAN) /\ Len(fates) = popped
      /\ \A i \in 1 .. popped : fates[i] = (i > missed)
    <2>1. fates \in [1 .. popped -> BOOLEAN]
        OBVIOUS
    <2>2. fates \in Seq(BOOLEAN) /\ Len(fates) = popped
        BY <1>2, <2>1, FunctionIsSequence
    <2>3. QED
        BY <2>1, <2>2
<1>5. /\ manager[e].mDispatchedPacketCount = n + Len(queue)
      /\ \A i \in 1 .. Len(queue) : queue[i].mTransmissionData = n + i
    BY DEF EveryPacketHasOneFate, OneFateEach
<1> HIDE DEF new, fates
<1>6. \A i \in 1 .. popped : fates[i] => HasAccepted(Peer(e), n + i)
    <2>1. ASSUME NEW i \in 1 .. popped, fates[i] PROVE HasAccepted(Peer(e), n + i)
        <3>1. i \in (missed + 1) .. popped /\ i \in 1 .. Len(queue)
            BY <1>2, <1>4, <2>1
        <3>2. QED
            BY <1>5, <3>1
    <2>2. QED
        BY <2>1
<1>7. /\ callbacks' \in [Endpoint -> Seq(Callback)]
      /\ callbacks'[e] = calls \o new
      /\ \A f \in Endpoint : f # e => callbacks'[f] = callbacks[f]
    BY DEF TypeOK, new
<1>8. Reported(e)' = Reported(e) \o fates
    <2>1. /\ Len(calls \o new) = n + popped
          /\ \A i \in 1 .. n + popped :
                 (calls \o new)[i] = IF i <= n THEN calls[i] ELSE new[i - n]
        <3>1. \A i \in 1 .. Len(calls) + Len(new) :
                 (calls \o new)[i] =
                     IF i <= Len(calls) THEN calls[i] ELSE new[i - Len(calls)]
            BY <1>1, <1>3, ConcatProperties
        <3>2. Len(calls \o new) = Len(calls) + Len(new)
            BY <1>1, <1>3, ConcatProperties
        <3>3. QED
            BY <1>3, <3>1, <3>2
    <2>2. /\ Reported(e) \o fates \in Seq(BOOLEAN)
          /\ Len(Reported(e) \o fates) = n + popped
          /\ \A i \in 1 .. n + popped :
                 (Reported(e) \o fates)[i] =
                     IF i <= n THEN Reported(e)[i] ELSE fates[i - n]
        <3> DEFINE old == Reported(e)
        <3>1. old \in Seq(BOOLEAN) /\ Len(old) = n
            BY <1>1
        <3> HIDE DEF old
        <3>2. /\ old \o fates \in Seq(BOOLEAN)
              /\ Len(old \o fates) = Len(old) + Len(fates)
              /\ \A i \in 1 .. Len(old) + Len(fates) :
                     (old \o fates)[i] =
                         IF i <= Len(old) THEN old[i] ELSE fates[i - Len(old)]
            BY <1>4, <3>1, ConcatProperties
        <3>3. /\ old \o fates \in Seq(BOOLEAN)
              /\ Len(old \o fates) = n + popped
              /\ \A i \in 1 .. n + popped :
                     (old \o fates)[i] = IF i <= n THEN old[i] ELSE fates[i - n]
            BY <1>4, <3>1, <3>2
        <3>4. QED
            BY <3>3 DEF old
    <2>3. /\ Reported(e)' \in Seq(BOOLEAN)
          /\ Len(Reported(e)') = Len(callbacks'[e])
          /\ \A i \in 1 .. Len(callbacks'[e]) :
                 Reported(e)'[i] = callbacks'[e][i].delivered
        <3>1. TypeOK' => (/\ Reported(e) \in Seq(BOOLEAN)
                          /\ Len(Reported(e)) = Len(callbacks[e])
                          /\ \A i \in 1 .. Len(callbacks[e]) :
                                 Reported(e)[i] = callbacks[e][i].delivered)'
            BY ReportedFields, PTL
        <3>2. QED
            BY <3>1
    <2>4. ASSUME NEW i \in 1 .. n + popped
          PROVE  Reported(e)'[i] = (Reported(e) \o fates)[i]
        <3>1. Reported(e)'[i] = (calls \o new)[i].delivered
            BY <1>7, <2>1, <2>3
        <3>2. CASE i <= n
            BY <1>1, <2>1, <2>2, <3>1, <3>2
        <3>3. CASE ~(i <= n)
            <4>1. i - n \in 1 .. popped
                BY <1>1, <1>2, <3>3
            <4>2. QED
                BY <1>3, <1>4, <2>1, <2>2, <3>1, <3>3, <4>1
        <3>4. QED
            BY <3>2, <3>3
    <2>5. Len(Reported(e)') = n + popped
        BY <1>7, <2>1, <2>3
    <2> HIDE DEF n, calls
    <2>6. QED
        BY <2>2, <2>3, <2>4, <2>5, SeqEqual
<1>9. \A f \in Endpoint : f # e => Reported(f)' = Reported(f)
    BY <1>7 DEF Reported
<1> DEFINE before == [f \in Endpoint |-> Reported(f)]
           after  == [f \in Endpoint |-> Reported(f)']
<1>10. after = [before EXCEPT ![e] = @ \o fates]
    BY <1>8, <1>9
<1>11. popped \in 0 .. manager[e].mDispatchedPacketCount - Len(Reported(e))
    BY <1>1, <1>2, <1>5
<1>12. \A i \in 1 .. popped :
           fates[i] => \E j \in 1 .. Len(accepted[Peer(e)]) :
                           accepted[Peer(e)][j] = Len(Reported(e)) + i
    BY <1>1, <1>6 DEF HasAccepted
<1> DEFINE sent == [f \in Endpoint |-> manager[f].mDispatchedPacketCount]
<1>13. sent[e] = manager[e].mDispatchedPacketCount /\ before[e] = Reported(e)
    OBVIOUS
<1> HIDE DEF n, queue, calls
<1>14. /\ popped \in 0 .. sent[e] - Len(before[e])
       /\ \A i \in 1 .. popped :
              fates[i] => Promise!HasAccepted(Promise!Peer(e), Len(before[e]) + i)
    <2>1. Promise!Peer(e) = Peer(e)
        BY DEF Promise!Peer, Peer
    <2> HIDE DEF before, sent
    <2>2. QED
        BY <1>11, <1>12, <1>13, <2>1 DEF Promise!HasAccepted
<1>15. [f \in Endpoint |-> Reported(f)]' = [before EXCEPT ![e] = before[e] \o fates]
    BY <1>10
<1>16. QED
    BY <1>4, <1>14, <1>15, Zenon DEF Promise!ReportNext
\* The promise starts with nothing dispatched, accepted or reported.
LEMMA PromiseInit == Init => Promise!Init
<1> SUFFICES ASSUME Init PROVE Promise!Init
    OBVIOUS
<1>1. \A e \in Endpoint : manager[e].mDispatchedPacketCount = 0
    BY DEF Init, NewManager
<1>2. \A e \in Endpoint : Reported(e) = << >>
    <2>1. ASSUME NEW e \in Endpoint PROVE Reported(e) = << >>
        <3>1. Len(callbacks[e]) = 0
            BY DEF Init
        <3>2. QED
            BY <3>1 DEF Reported
    <2>2. QED
        BY <2>1
<1>3. [e \in Endpoint |-> manager[e].mDispatchedPacketCount]
          = [e \in Endpoint |-> 0]
    BY <1>1
<1>4. [e \in Endpoint |-> Reported(e)] = [e \in Endpoint |-> << >>]
    BY <1>2
<1>5. accepted = [e \in Endpoint |-> << >>]
    BY DEF Init
<1>6. QED
    BY <1>3, <1>4, <1>5 DEF Promise!Init, Promise!Endpoint, Endpoint

\* A packet that is sent is a Dispatch.
LEMMA SendIsDispatch ==
    ASSUME TypeOK, NEW e \in Endpoint, SendPacket(e)
    PROVE  Promise!Dispatch(e)
<1> DEFINE sent == [f \in Endpoint |-> manager[f].mDispatchedPacketCount]
           after == [f \in Endpoint |-> manager'[f].mDispatchedPacketCount]
<1>1. /\ manager' = [manager EXCEPT ![e] = manager'[e]]
      /\ manager[e].mDispatchedPacketCount < MaxDispatched
      /\ manager'[e].mDispatchedPacketCount = manager[e].mDispatchedPacketCount + 1
      /\ UNCHANGED <<callbacks, accepted>>
    BY SendPacketEffect
<1>2. \A f \in Endpoint : f # e => manager'[f] = manager[f]
    BY <1>1 DEF TypeOK
<1>3. sent[e] = manager[e].mDispatchedPacketCount
    OBVIOUS
<1>4. after = [sent EXCEPT ![e] = sent[e] + 1]
    BY <1>1, <1>2, <1>3
<1>5. [f \in Endpoint |-> Reported(f)]' = [f \in Endpoint |-> Reported(f)]
    BY <1>1 DEF Reported
<1>6. [f \in Endpoint |-> manager[f].mDispatchedPacketCount]' = after
    OBVIOUS
<1>7. sent[e] < MaxDispatched /\ accepted' = accepted
    BY <1>1, <1>3
<1>8. QED
    BY <1>4, <1>5, <1>6, <1>7, Zenon DEF Promise!Dispatch

\* A packet that is accepted is an Accept: it is later than those before, and
\* its acks report as delivered only what its sender has accepted.
LEMMA ReceiveIsAccept ==
    ASSUME NoWrap, DeliveryInvariant, TypeOK',
           NEW e \in Endpoint, NEW d \in network, ReceivePacket(e, d)
    PROVE  Promise!Accept(e)
<1> USE DEF DeliveryInvariant
<1> DEFINE old == manager[e]
           m   == ProcessSequenceNumber(old, d.seq)
           sent == [f \in Endpoint |-> manager[f].mDispatchedPacketCount]
<1>1. /\ d \in Datagram /\ d.src = Peer(e) /\ ~IsOld(old, d.seq)
      /\ m \in Manager /\ m.mInFlightPackets = old.mInFlightPackets
      /\ accepted' = [accepted EXCEPT ![e] = Append(@, d.payload)]
    BY ReceivePacketEffect
<1>2. PICK popped \in 0 .. Len(m.mInFlightPackets) :
      \E missed \in 0 .. popped :
          /\ ProcessAcks(m, d.acks, missed, popped)
          /\ manager' = [manager EXCEPT ![e] = AfterPops(m, missed, popped)]
          /\ callbacks' = [callbacks EXCEPT
                 ![e] = @ \o CallbacksOfPops(m, missed, popped)]
    BY ReceivePacketEffect
<1>3. PICK missed \in 0 .. popped :
          /\ ProcessAcks(m, d.acks, missed, popped)
          /\ manager' = [manager EXCEPT ![e] = AfterPops(m, missed, popped)]
          /\ callbacks' = [callbacks EXCEPT
                 ![e] = @ \o CallbacksOfPops(m, missed, popped)]
    BY <1>2
<1>4. /\ d.seq \in PacketSequenceNumber /\ d.seq \in Nat /\ d.payload \in Nat
      /\ d.acks \in Seq(AckRange) /\ old \in Manager
    BY <1>1 DEF Datagram, TypeOK, PacketSequenceNumber
<1>5. /\ m.mNextOutgoingSequenceNumber = old.mNextOutgoingSequenceNumber
      /\ m.mDispatchedPacketCount = old.mDispatchedPacketCount
      /\ m.mAckedPacketCount = old.mAckedPacketCount
      /\ m.mDroppedPacketCount = old.mDroppedPacketCount
    BY <1>1, <1>4, ProcessSequenceNumberFields
<1>6. NumberedInOrder(m) /\ OneFateEach(m, callbacks[e])
      /\ callbacks[e] \in Seq(Callback)
    <2>1. NumberedInOrder(old) /\ OneFateEach(old, callbacks[e])
          /\ callbacks[e] \in Seq(Callback)
        BY DEF EveryPacketHasOneFate, TypeOK
    <2>2. OneFateEach(m, callbacks[e])
        BY <1>1, <1>4, <1>5, <2>1, FateFrame
    <2>3. QED
        BY <1>1, <1>5, <2>1, <2>2 DEF NumberedInOrder
<1> HIDE DEF m
<1>7. \A i \in (missed + 1) .. popped :
          HasAccepted(Peer(e), m.mInFlightPackets[i].mTransmissionData)
    <2>1. ASSUME NEW i \in (missed + 1) .. popped
          PROVE  HasAccepted(Peer(e), m.mInFlightPackets[i].mTransmissionData)
        <3>1. /\ 1 \in 1 .. Len(d.acks)
              /\ m.mInFlightPackets[i].mTransmissionData \in
                     d.acks[1].mStart .. (d.acks[1].mStart + d.acks[1].mCount - 1)
            BY <1>1, <1>3, <1>4, <1>6, DeliveredWasAcked
        <3>2. Honest(Peer(e), d.acks)
            BY <1>1 DEF AcksAreHonest
        <3>3. QED
            BY <3>1, <3>2 DEF Honest
    <2>2. QED
        BY <2>1
<1>8. Promise!ReportNext(e)
    BY <1>1, <1>3, <1>7, PopsReportNext
<1>9. /\ d.seq = d.payload /\ d.payload >= 1
      /\ d.payload <= manager[Peer(e)].mDispatchedPacketCount
      /\ manager[Peer(e)].mDispatchedPacketCount \in Nat
    BY <1>1, PeerFacts DEF DatagramsAreNumbered, TypeOK, Manager
<1>10. /\ d.payload \in 1 .. sent[Peer(e)]
       /\ sent[Promise!Peer(e)] = sent[Peer(e)]
    <2>1. sent[Peer(e)] = manager[Peer(e)].mDispatchedPacketCount
        BY PeerFacts
    <2>2. QED
        BY <1>4, <1>9, <2>1 DEF Promise!Peer, Peer
<1>11. \A i \in 1 .. Len(accepted[e]) : accepted[e][i] < d.payload
    <2>1. ASSUME NEW i \in 1 .. Len(accepted[e]) PROVE accepted[e][i] < d.payload
        <3>1. accepted[e][i] \in Nat
            <4>1. accepted[e] \in Seq(Nat)
                BY DEF TypeOK
            <4>2. QED
                BY <4>1, ElementOfSeq
        <3>2. accepted[e][i] < old.mNextExpectedSequenceNumber
            BY DEF AcceptedBelowExpected
        <3>3. old.mNextExpectedSequenceNumber \in Nat
            BY <1>4 DEF Manager, PacketSequenceNumber
        <3>4. ~(d.seq < old.mNextExpectedSequenceNumber)
            BY <1>1 DEF IsOld
        <3>5. QED
            BY <1>4, <1>9, <3>1, <3>2, <3>3, <3>4
    <2>2. QED
        BY <2>1
<1>12. [f \in Endpoint |-> manager[f].mDispatchedPacketCount]' = sent
    <2>1. AfterPops(m, missed, popped).mDispatchedPacketCount
              = old.mDispatchedPacketCount
        BY <1>1, <1>5, AfterPopsFields
    <2>2. \A f \in Endpoint : manager'[f].mDispatchedPacketCount
                                  = manager[f].mDispatchedPacketCount
        BY <1>3, <2>1 DEF TypeOK
    <2>3. QED
        BY <2>2
<1> HIDE DEF sent
<1>13. \E n \in 1 .. sent[Promise!Peer(e)] :
           /\ \A i \in 1 .. Len(accepted[e]) : accepted[e][i] < n
           /\ accepted' = [accepted EXCEPT ![e] = Append(@, n)]
    BY <1>1, <1>10, <1>11
<1>14. QED
    BY <1>8, <1>12, <1>13, Zenon DEF Promise!Accept, sent

\* A sweep is a GiveUp: it reports that packets failed.
LEMMA SweepIsGiveUp ==
    ASSUME DeliveryInvariant, TypeOK', NEW e \in Endpoint, SweepTimeouts(e)
    PROVE  Promise!GiveUp(e)
<1> DEFINE m == manager[e]
<1>1. PICK n \in 0 .. Len(m.mInFlightPackets) :
          /\ manager' = [manager EXCEPT ![e] = AfterPops(m, n, n)]
          /\ callbacks' = [callbacks EXCEPT ![e] = @ \o CallbacksOfPops(m, n, n)]
    BY DEF SweepTimeouts
<1>2. TypeOK /\ EveryPacketHasOneFate /\ m \in Manager
    BY DEF DeliveryInvariant, TypeOK
<1>3. n \in Nat /\ n \in 0 .. n /\ Len(m.mInFlightPackets) \in Nat
    BY <1>2, LenProperties DEF Manager
<1>4. \A i \in (n + 1) .. n :
          HasAccepted(Peer(e), m.mInFlightPackets[i].mTransmissionData)
    BY <1>3
<1>5. Promise!ReportNext(e)
    BY <1>1, <1>2, <1>3, <1>4, PopsReportNext
<1>6. [f \in Endpoint |-> manager[f].mDispatchedPacketCount]'
          = [f \in Endpoint |-> manager[f].mDispatchedPacketCount]
    <2>1. AfterPops(m, n, n).mDispatchedPacketCount = m.mDispatchedPacketCount
        BY <1>2, <1>3, AfterPopsFields
    <2>2. \A f \in Endpoint : manager'[f].mDispatchedPacketCount
                                  = manager[f].mDispatchedPacketCount
        BY <1>1, <1>2, <2>1 DEF TypeOK
    <2>3. QED
        BY <2>2
<1>7. accepted' = accepted
    BY DEF SweepTimeouts
<1>8. QED
    BY <1>5, <1>6, <1>7, Zenon DEF Promise!GiveUp

\* Every step of the pair is a step of the promise or leaves it as it is.
LEMMA PromiseStep ==
    ASSUME NoWrap, DeliveryInvariant, TypeOK', [Next]_vars
    PROVE  [Promise!Next]_Promise!vars
<1>1. Promise!Endpoint = Endpoint
    BY DEF Promise!Endpoint, Endpoint
<1>2. ASSUME NEW e \in Endpoint, SendPacket(e) PROVE Promise!Next
    BY <1>1, <1>2, SendIsDispatch DEF Promise!Next, DeliveryInvariant
<1>3. ASSUME NEW e \in Endpoint, NEW d \in network, ReceivePacket(e, d)
      PROVE  Promise!Next
    BY <1>1, <1>3, ReceiveIsAccept DEF Promise!Next
<1>4. ASSUME NEW e \in Endpoint, SweepTimeouts(e) PROVE Promise!Next
    BY <1>1, <1>4, SweepIsGiveUp DEF Promise!Next
<1>5. ASSUME UNCHANGED <<manager, callbacks, accepted>>
      PROVE  UNCHANGED Promise!vars
    BY <1>5 DEF Promise!vars, Reported
<1>6. CASE Tick \/ UNCHANGED vars
    BY <1>5, <1>6 DEF Tick, vars
<1>7. ASSUME NEW e \in Endpoint, NEW d \in network, DropOldPacket(e, d)
      PROVE  UNCHANGED Promise!vars
    BY <1>5, <1>7 DEF DropOldPacket, vars
<1>8. QED
    BY <1>2, <1>3, <1>4, <1>6, <1>7 DEF Next

\* Unless numbers wrap, the pair does what DeliveryPromise says, whatever the
\* network does and mNextExpectedSequenceNumber holds at first
\* (DeliveryNotificationManager.cpp:83-185).
THEOREM PromiseKept == ASSUME NoWrap PROVE Spec => PromiseIsKept
<1>1. Init => Promise!Init
    BY PromiseInit
<1>2. DeliveryInvariant /\ TypeOK' /\ [Next]_vars => [Promise!Next]_Promise!vars
    BY PromiseStep
<1>3. DeliveryInvariant => TypeOK
    BY DEF DeliveryInvariant
<1>4. QED
    BY <1>1, <1>2, <1>3, InvariantHolds, PTL DEF Spec, PromiseIsKept, Promise!Spec
============================================================================
