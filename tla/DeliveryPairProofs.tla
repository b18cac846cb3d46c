------------------------ MODULE DeliveryPairProofs ------------------------
(***************************************************************************)
(* Theorems about two endpoints that exchange packets.                     *)
(*                                                                         *)
(* Type correctness and EveryPacketHasOneFate hold for all constants, also *)
(* when sequence numbers wrap and whatever mNextExpectedSequenceNumber     *)
(* holds at first.  The other three theorems assume NoWrap.                *)
(***************************************************************************)
EXTENDS DeliveryPair, DeliveryNotificationManagerProofs

\* Each endpoint has one peer, the other one, and is its peer's peer.
LEMMA PeerFacts ==
    \A e \in Endpoint : Peer(e) \in Endpoint /\ Peer(e) # e /\ Peer(Peer(e)) = e
BY PairAssumption DEF Peer, Endpoint

----------------------------------------------------------------------------
(***************************************************************************)
(* What each action changes, in terms of the fields of the managers.       *)
(***************************************************************************)

\* A packet that is sent is one new in-flight entry and one new datagram.
LEMMA SendPacketEffect ==
    ASSUME TypeOK, NEW e \in Endpoint, SendPacket(e)
    PROVE  LET m == manager[e]
               p == manager'[e]
               entry == [mSequenceNumber   |-> m.mNextOutgoingSequenceNumber,
                         mTimeDispatched   |-> now,
                         mTransmissionData |-> m.mDispatchedPacketCount + 1]
           IN  /\ m \in Manager /\ p \in Manager
               /\ m.mDispatchedPacketCount < MaxDispatched
               /\ manager' = [manager EXCEPT ![e] = p]
               /\ p.mNextOutgoingSequenceNumber =
                      NextSequenceNumber(m.mNextOutgoingSequenceNumber)
               /\ p.mNextExpectedSequenceNumber = m.mNextExpectedSequenceNumber
               /\ p.mDispatchedPacketCount = m.mDispatchedPacketCount + 1
               /\ p.mAckedPacketCount = m.mAckedPacketCount
               /\ p.mDroppedPacketCount = m.mDroppedPacketCount
               /\ p.mInFlightPackets = Append(m.mInFlightPackets, entry)
               /\ p.mPendingAcks = << >>
               /\ network' = network \cup
                      {[src     |-> e,
                        seq     |-> m.mNextOutgoingSequenceNumber,
                        payload |-> m.mDispatchedPacketCount + 1,
                        acks    |-> AcksToWrite(WriteSequenceNumber(m, now))]}
               /\ AcksToWrite(WriteSequenceNumber(m, now)) \in Seq(AckRange)
               /\ UNCHANGED <<now, callbacks, accepted>>
<1> DEFINE m == manager[e]
           w == WriteSequenceNumber(m, now)
<1>1. m \in Manager /\ now \in Nat
    BY DEF TypeOK
<1>2. w \in Manager
    BY <1>1, WriteSequenceNumberFields
<1>3. /\ w.mNextOutgoingSequenceNumber =
             NextSequenceNumber(m.mNextOutgoingSequenceNumber)
      /\ w.mNextExpectedSequenceNumber = m.mNextExpectedSequenceNumber
      /\ w.mDispatchedPacketCount = m.mDispatchedPacketCount + 1
      /\ w.mAckedPacketCount = m.mAckedPacketCount
      /\ w.mDroppedPacketCount = m.mDroppedPacketCount
      /\ w.mInFlightPackets = Append(m.mInFlightPackets,
             [mSequenceNumber   |-> m.mNextOutgoingSequenceNumber,
              mTimeDispatched   |-> now,
              mTransmissionData |-> m.mDispatchedPacketCount + 1])
    BY <1>1, WriteSequenceNumberFields
<1>4. AcksToWrite(w) \in Seq(AckRange)
    BY <1>2, AcksToWriteFields
<1>5. /\ manager' = [manager EXCEPT ![e] = WritePendingAcks(w)]
      /\ m.mDispatchedPacketCount < MaxDispatched
      /\ network' = network \cup
             {[src     |-> e,
               seq     |-> m.mNextOutgoingSequenceNumber,
               payload |-> w.mDispatchedPacketCount,
               acks    |-> AcksToWrite(w)]}
      /\ UNCHANGED <<now, callbacks, accepted>>
    BY DEF SendPacket
<1>6. manager'[e] = WritePendingAcks(w)
    BY <1>5 DEF TypeOK
<1>7. /\ manager'[e] \in Manager
      /\ manager'[e].mPendingAcks = << >>
      /\ manager'[e].mNextOutgoingSequenceNumber = w.mNextOutgoingSequenceNumber
      /\ manager'[e].mNextExpectedSequenceNumber = w.mNextExpectedSequenceNumber
      /\ manager'[e].mDispatchedPacketCount = w.mDispatchedPacketCount
      /\ manager'[e].mAckedPacketCount = w.mAckedPacketCount
      /\ manager'[e].mDroppedPacketCount = w.mDroppedPacketCount
      /\ manager'[e].mInFlightPackets = w.mInFlightPackets
    BY <1>2, <1>6, WritePendingAcksFields
<1> HIDE DEF w
<1>8. QED
    BY <1>1, <1>3, <1>4, <1>5, <1>6, <1>7 DEF w

\* A packet that is accepted is acked later, and its acks pop a prefix.
LEMMA ReceivePacketEffect ==
    ASSUME TypeOK, NEW e \in Endpoint, NEW d \in network, ReceivePacket(e, d)
    PROVE  LET m == ProcessSequenceNumber(manager[e], d.seq)
           IN  /\ d \in Datagram /\ d.src = Peer(e)
               /\ ~IsOld(manager[e], d.seq)
               /\ m \in Manager
               /\ m.mInFlightPackets = manager[e].mInFlightPackets
               /\ accepted' = [accepted EXCEPT ![e] = Append(@, d.payload)]
               /\ \E popped \in 0 .. Len(m.mInFlightPackets) :
                  \E missed \in 0 .. popped :
                      /\ ProcessAcks(m, d.acks, missed, popped)
                      /\ manager' = [manager EXCEPT
                                         ![e] = AfterPops(m, missed, popped)]
                      /\ callbacks' = [callbacks EXCEPT
                             ![e] = @ \o CallbacksOfPops(m, missed, popped)]
               /\ UNCHANGED <<network, now>>
<1>1. manager[e] \in Manager /\ d \in Datagram
    BY DEF TypeOK
<1>2. d.seq \in PacketSequenceNumber
    BY <1>1 DEF Datagram
<1>3. ~IsOld(manager[e], d.seq)
    BY DEF ReceivePacket
<1>4. /\ ProcessSequenceNumber(manager[e], d.seq) \in Manager
      /\ ProcessSequenceNumber(manager[e], d.seq).mInFlightPackets
             = manager[e].mInFlightPackets
    BY <1>1, <1>2, <1>3, ProcessSequenceNumberFields
<1>5. QED
    BY <1>1, <1>3, <1>4 DEF ReceivePacket

----------------------------------------------------------------------------
(***************************************************************************)
(* Type correctness.                                                       *)
(***************************************************************************)

\* The initial state is well typed.
LEMMA TypeInit == Init => TypeOK
<1> SUFFICES ASSUME Init PROVE TypeOK
    OBVIOUS
<1>1. manager \in [Endpoint -> Manager]
    BY PairAssumption, NewManagerType DEF Init
<1>2. callbacks \in [Endpoint -> Seq(Callback)] /\ accepted \in [Endpoint -> Seq(Nat)]
    <2>1. << >> \in Seq(Callback) /\ << >> \in Seq(Nat)
        OBVIOUS
    <2>2. QED
        BY <2>1 DEF Init
<1>3. QED
    BY <1>1, <1>2, PairAssumption DEF Init, TypeOK

\* Pops on a well-typed manager leave it and the callbacks well typed.
LEMMA PopsType ==
    ASSUME TypeOK, NEW e \in Endpoint, NEW m \in Manager,
           NEW popped \in 0 .. Len(m.mInFlightPackets),
           NEW missed \in 0 .. popped,
           manager' = [manager EXCEPT ![e] = AfterPops(m, missed, popped)],
           callbacks' = [callbacks EXCEPT
                             ![e] = @ \o CallbacksOfPops(m, missed, popped)]
    PROVE  manager' \in [Endpoint -> Manager]
           /\ callbacks' \in [Endpoint -> Seq(Callback)]
<1>1. AfterPops(m, missed, popped) \in Manager
    BY AfterPopsFields
<1>2. CallbacksOfPops(m, missed, popped) \in Seq(Callback)
    BY CallbacksOfPopsFields DEF Callback
<1>3. callbacks[e] \in Seq(Callback)
    BY DEF TypeOK
<1>4. callbacks[e] \o CallbacksOfPops(m, missed, popped) \in Seq(Callback)
    BY <1>2, <1>3, ConcatProperties
<1>5. QED
    BY <1>1, <1>4 DEF TypeOK

\* Every step leaves the state well typed.
LEMMA TypeStep == TypeOK /\ [Next]_vars => TypeOK'
<1> SUFFICES ASSUME TypeOK, [Next]_vars PROVE TypeOK'
    OBVIOUS
<1>1. ASSUME NEW e \in Endpoint, SendPacket(e) PROVE TypeOK'
    <2> DEFINE d == [src     |-> e,
                     seq     |-> manager[e].mNextOutgoingSequenceNumber,
                     payload |-> manager[e].mDispatchedPacketCount + 1,
                     acks    |-> AcksToWrite(WriteSequenceNumber(manager[e], now))]
    <2>1. /\ manager[e] \in Manager
          /\ manager'[e] \in Manager
          /\ manager' = [manager EXCEPT ![e] = manager'[e]]
          /\ network' = network \cup {d}
          /\ AcksToWrite(WriteSequenceNumber(manager[e], now)) \in Seq(AckRange)
          /\ UNCHANGED <<now, callbacks, accepted>>
        BY <1>1, SendPacketEffect
    <2>2. manager[e].mNextOutgoingSequenceNumber \in PacketSequenceNumber
          /\ manager[e].mDispatchedPacketCount + 1 \in Nat
        BY <2>1 DEF Manager
    <2>3. d \in Datagram
        BY <2>1, <2>2 DEF Datagram
    <2>4. manager' \in [Endpoint -> Manager]
        BY <2>1 DEF TypeOK
    <2> HIDE DEF d
    <2>5. QED
        BY <2>1, <2>3, <2>4 DEF TypeOK
<1>2. ASSUME NEW e \in Endpoint, NEW d \in network, ReceivePacket(e, d)
      PROVE  TypeOK'
    <2> DEFINE m == ProcessSequenceNumber(manager[e], d.seq)
    <2>1. /\ d \in Datagram
          /\ m \in Manager
          /\ accepted' = [accepted EXCEPT ![e] = Append(@, d.payload)]
          /\ UNCHANGED <<network, now>>
        BY <1>2, ReceivePacketEffect
    <2>2. PICK popped \in 0 .. Len(m.mInFlightPackets) :
          \E missed \in 0 .. popped :
              /\ ProcessAcks(m, d.acks, missed, popped)
              /\ manager' = [manager EXCEPT ![e] = AfterPops(m, missed, popped)]
              /\ callbacks' = [callbacks EXCEPT
                     ![e] = @ \o CallbacksOfPops(m, missed, popped)]
        BY <1>2, ReceivePacketEffect
    <2>3. PICK missed \in 0 .. popped :
              /\ manager' = [manager EXCEPT ![e] = AfterPops(m, missed, popped)]
              /\ callbacks' = [callbacks EXCEPT
                     ![e] = @ \o CallbacksOfPops(m, missed, popped)]
        BY <2>2
    <2> HIDE DEF m
    <2>4. manager' \in [Endpoint -> Manager]
          /\ callbacks' \in [Endpoint -> Seq(Callback)]
        BY <2>1, <2>3, PopsType
    <2>5. d.payload \in Nat /\ accepted[e] \in Seq(Nat)
        BY <2>1 DEF Datagram, TypeOK
    <2>6. accepted' \in [Endpoint -> Seq(Nat)]
        BY <2>1, <2>5 DEF TypeOK
    <2>7. QED
        BY <2>1, <2>4, <2>6 DEF TypeOK
<1>3. ASSUME NEW e \in Endpoint, SweepTimeouts(e) PROVE TypeOK'
    <2>1. PICK n \in 0 .. Len(manager[e].mInFlightPackets) :
              /\ manager' = [manager EXCEPT ![e] = AfterPops(manager[e], n, n)]
              /\ callbacks' = [callbacks EXCEPT
                     ![e] = @ \o CallbacksOfPops(manager[e], n, n)]
        BY <1>3 DEF SweepTimeouts
    <2>2. UNCHANGED <<network, now, accepted>>
        BY <1>3 DEF SweepTimeouts
    <2>3. manager[e] \in Manager
        BY DEF TypeOK
    <2>4. n \in 0 .. n
        BY <2>3 DEF Manager
    <2>5. manager' \in [Endpoint -> Manager]
          /\ callbacks' \in [Endpoint -> Seq(Callback)]
        BY <2>1, <2>3, <2>4, PopsType
    <2>6. QED
        BY <2>2, <2>5 DEF TypeOK
<1>4. CASE Tick
    BY <1>4 DEF Tick, TypeOK
<1>5. ASSUME NEW e \in Endpoint, NEW d \in network, DropOldPacket(e, d)
      PROVE  TypeOK'
    BY <1>5 DEF DropOldPacket, TypeOK, vars
<1>6. CASE UNCHANGED vars
    BY <1>6 DEF TypeOK, vars
<1>7. QED
    BY <1>1, <1>2, <1>3, <1>4, <1>5, <1>6 DEF Next

\* The state of the pair stays in its type, for all values of the constants.
THEOREM TypeCorrect == Spec => []TypeOK
<1>1. Init => TypeOK
    BY TypeInit
<1>2. TypeOK /\ [Next]_vars => TypeOK'
    BY TypeStep
<1>3. QED
    BY <1>1, <1>2, PTL DEF Spec

----------------------------------------------------------------------------
(***************************************************************************)
(* Every packet has one fate.                                              *)
(***************************************************************************)

\* Pops that report what they pop keep queue, callbacks and counters in step.
LEMMA PopsKeepFate ==
    ASSUME NEW m \in Manager, NEW calls \in Seq(Callback), OneFateEach(m, calls),
           NEW popped \in 0 .. Len(m.mInFlightPackets),
           NEW missed \in 0 .. popped
    PROVE  OneFateEach(AfterPops(m, missed, popped),
                       calls \o CallbacksOfPops(m, missed, popped))
<1> DEFINE queue == m.mInFlightPackets
           a     == AfterPops(m, missed, popped)
           new   == CallbacksOfPops(m, missed, popped)
           n     == Len(calls)
<1>1. queue \in Seq(InFlightPacket) /\ Len(queue) \in Nat /\ n \in Nat
      /\ popped \in Nat
    BY DEF Manager
<1>2. /\ Len(a.mInFlightPackets) = Len(queue) - popped
      /\ \A i \in 1 .. (Len(queue) - popped) :
             a.mInFlightPackets[i] = queue[popped + i]
      /\ a.mDroppedPacketCount + a.mAckedPacketCount =
             m.mDroppedPacketCount + m.mAckedPacketCount + popped
      /\ a.mDispatchedPacketCount = m.mDispatchedPacketCount
      /\ a \in Manager
    BY AfterPopsFields
<1>3. /\ new \in Seq(Callback)
      /\ Len(new) = popped
      /\ \A i \in 1 .. popped :
             new[i].mTransmissionData = queue[i].mTransmissionData
    BY CallbacksOfPopsFields DEF Callback
<1>4. /\ Len(calls \o new) = n + popped
      /\ \A i \in 1 .. (n + popped) :
             (calls \o new)[i] = IF i <= n THEN calls[i] ELSE new[i - n]
    BY <1>3, ConcatProperties
<1>5. /\ \A i \in 1 .. n : calls[i].mTransmissionData = i
      /\ \A i \in 1 .. Len(queue) : queue[i].mTransmissionData = n + i
      /\ m.mDispatchedPacketCount = n + Len(queue)
      /\ m.mAckedPacketCount + m.mDroppedPacketCount = n
    BY DEF OneFateEach
<1> HIDE DEF a, new, n, queue
<1>6. ASSUME NEW i \in 1 .. (n + popped)
      PROVE  (calls \o new)[i].mTransmissionData = i
    <2>1. CASE i <= n
        BY <1>1, <1>4, <1>5, <2>1
    <2>2. CASE ~(i <= n)
        <3>1. i - n \in 1 .. popped /\ i - n \in 1 .. Len(queue)
            BY <1>1, <2>2 DEF queue
        <3>2. (calls \o new)[i] = new[i - n]
            BY <1>4, <2>2
        <3>3. (calls \o new)[i].mTransmissionData = n + (i - n)
            BY <1>3, <1>5, <3>1, <3>2
        <3>4. QED
            BY <1>1, <3>3
    <2>3. QED
        BY <2>1, <2>2
<1>7. ASSUME NEW i \in 1 .. Len(a.mInFlightPackets)
      PROVE  a.mInFlightPackets[i].mTransmissionData = (n + popped) + i
    <2>1. i \in 1 .. (Len(queue) - popped) /\ popped + i \in 1 .. Len(queue)
        BY <1>1, <1>2
    <2>2. a.mInFlightPackets[i].mTransmissionData = n + (popped + i)
        BY <1>2, <1>5, <2>1
    <2>3. QED
        BY <1>1, <2>2
<1>8. a.mDispatchedPacketCount = (n + popped) + Len(a.mInFlightPackets)
    BY <1>1, <1>2, <1>5
<1>9. a.mAckedPacketCount + a.mDroppedPacketCount = n + popped
    <2>1. /\ a.mAckedPacketCount \in Nat /\ a.mDroppedPacketCount \in Nat
          /\ m.mAckedPacketCount \in Nat /\ m.mDroppedPacketCount \in Nat
        BY <1>2 DEF Manager
    <2>2. QED
        BY <1>1, <1>2, <1>5, <2>1
<1>10. QED
    BY <1>4, <1>6, <1>7, <1>8, <1>9 DEF OneFateEach, a, new, n

\* A packet that is dispatched joins the queue behind the ones before it.
LEMMA SendKeepsFate ==
    ASSUME NEW m \in Manager, NEW p \in Manager, NEW calls \in Seq(Callback),
           NEW entry \in InFlightPacket,
           OneFateEach(m, calls),
           entry.mTransmissionData = m.mDispatchedPacketCount + 1,
           p.mInFlightPackets = Append(m.mInFlightPackets, entry),
           p.mDispatchedPacketCount = m.mDispatchedPacketCount + 1,
           p.mAckedPacketCount = m.mAckedPacketCount,
           p.mDroppedPacketCount = m.mDroppedPacketCount
    PROVE  OneFateEach(p, calls)
<1> DEFINE queue == m.mInFlightPackets
           n     == Len(calls)
<1>1. queue \in Seq(InFlightPacket) /\ Len(queue) \in Nat /\ n \in Nat
    BY DEF Manager
<1>2. /\ \A i \in 1 .. n : calls[i].mTransmissionData = i
      /\ \A i \in 1 .. Len(queue) : queue[i].mTransmissionData = n + i
      /\ m.mDispatchedPacketCount = n + Len(queue)
      /\ m.mAckedPacketCount + m.mDroppedPacketCount = n
    BY DEF OneFateEach
<1>3. /\ Len(p.mInFlightPackets) = Len(queue) + 1
      /\ \A i \in 1 .. Len(queue) : p.mInFlightPackets[i] = queue[i]
      /\ p.mInFlightPackets[Len(queue) + 1] = entry
    BY <1>1
<1> HIDE DEF queue, n
<1>4. ASSUME NEW i \in 1 .. Len(p.mInFlightPackets)
      PROVE  p.mInFlightPackets[i].mTransmissionData = n + i
    <2>1. CASE i = Len(queue) + 1
        BY <1>1, <1>2, <1>3, <2>1
    <2>2. CASE i # Len(queue) + 1
        <3>1. i \in 1 .. Len(queue)
            BY <1>1, <1>3, <2>2
        <3>2. QED
            BY <1>2, <1>3, <3>1
    <2>3. QED
        BY <2>1, <2>2
<1>5. p.mDispatchedPacketCount = n + Len(p.mInFlightPackets)
    BY <1>1, <1>2, <1>3
<1>6. QED
    BY <1>2, <1>4, <1>5 DEF OneFateEach, n

\* Only the queue and the counters matter to OneFateEach.
LEMMA FateFrame ==
    ASSUME NEW m \in Manager, NEW p \in Manager, NEW calls \in Seq(Callback),
           OneFateEach(m, calls),
           p.mInFlightPackets = m.mInFlightPackets,
           p.mDispatchedPacketCount = m.mDispatchedPacketCount,
           p.mAckedPacketCount = m.mAckedPacketCount,
           p.mDroppedPacketCount = m.mDroppedPacketCount
    PROVE  OneFateEach(p, calls)
BY DEF OneFateEach

\* At first nothing is dispatched and nothing is reported.
LEMMA FateInit == Init => EveryPacketHasOneFate
<1> SUFFICES ASSUME Init, NEW e \in Endpoint
             PROVE  OneFateEach(manager[e], callbacks[e])
    BY DEF EveryPacketHasOneFate
<1>1. PICK g \in GarbageValues : manager[e] = NewManager(g)
    BY DEF Init
<1>2. callbacks[e] = << >>
    BY DEF Init
<1>3. /\ manager[e].mInFlightPackets = << >>
      /\ manager[e].mDispatchedPacketCount = 0
      /\ manager[e].mAckedPacketCount = 0
      /\ manager[e].mDroppedPacketCount = 0
    BY <1>1 DEF NewManager
<1>4. QED
    BY <1>2, <1>3 DEF OneFateEach

\* Pops at one endpoint keep every endpoint's fates.
LEMMA PopsStepKeepsFate ==
    ASSUME TypeOK, EveryPacketHasOneFate, NEW e \in Endpoint,
           NEW m \in Manager, OneFateEach(m, callbacks[e]),
           NEW popped \in 0 .. Len(m.mInFlightPackets),
           NEW missed \in 0 .. popped,
           manager' = [manager EXCEPT ![e] = AfterPops(m, missed, popped)],
           callbacks' = [callbacks EXCEPT
                             ![e] = @ \o CallbacksOfPops(m, missed, popped)]
    PROVE  EveryPacketHasOneFate'
<1>1. callbacks[e] \in Seq(Callback)
    BY DEF TypeOK
<1>2. OneFateEach(AfterPops(m, missed, popped),
                  callbacks[e] \o CallbacksOfPops(m, missed, popped))
    BY <1>1, PopsKeepFate
<1>3. \A f \in Endpoint :
          /\ manager'[f] = IF f = e THEN AfterPops(m, missed, popped)
                                    ELSE manager[f]
          /\ callbacks'[f] = IF f = e
                             THEN callbacks[e] \o CallbacksOfPops(m, missed, popped)
                             ELSE callbacks[f]
    BY DEF TypeOK
<1>4. ASSUME NEW f \in Endpoint PROVE OneFateEach(manager'[f], callbacks'[f])
    <2>1. CASE f = e
        BY <1>2, <1>3, <2>1
    <2>2. CASE f # e
        BY <1>3, <2>2 DEF EveryPacketHasOneFate
    <2>3. QED
        BY <2>1, <2>2
<1>5. QED
    BY <1>4 DEF EveryPacketHasOneFate, OneFateEach

\* Every step keeps each dispatched packet either in the queue or reported once.
LEMMA FateStep ==
    TypeOK /\ EveryPacketHasOneFate /\ [Next]_vars => EveryPacketHasOneFate'
<1> SUFFICES ASSUME TypeOK, EveryPacketHasOneFate, [Next]_vars
             PROVE  EveryPacketHasOneFate'
    OBVIOUS
<1>1. ASSUME NEW e \in Endpoint, SendPacket(e) PROVE EveryPacketHasOneFate'
    <2> DEFINE m == manager[e]
               p == manager'[e]
               entry == [mSequenceNumber   |-> m.mNextOutgoingSequenceNumber,
                         mTimeDispatched   |-> now,
                         mTransmissionData |-> m.mDispatchedPacketCount + 1]
    <2>1. /\ m \in Manager /\ p \in Manager
          /\ manager' = [manager EXCEPT ![e] = p]
          /\ p.mDispatchedPacketCount = m.mDispatchedPacketCount + 1
          /\ p.mAckedPacketCount = m.mAckedPacketCount
          /\ p.mDroppedPacketCount = m.mDroppedPacketCount
          /\ p.mInFlightPackets = Append(m.mInFlightPackets, entry)
          /\ UNCHANGED callbacks
        BY <1>1, SendPacketEffect
    <2>2. entry \in InFlightPacket
        BY <2>1 DEF Manager, InFlightPacket, TypeOK
    <2>3. entry.mTransmissionData = m.mDispatchedPacketCount + 1
        OBVIOUS
    <2>4. callbacks[e] \in Seq(Callback) /\ OneFateEach(m, callbacks[e])
        BY DEF TypeOK, EveryPacketHasOneFate
    <2> HIDE DEF entry
    <2>5. OneFateEach(p, callbacks[e])
        BY <2>1, <2>2, <2>3, <2>4, SendKeepsFate
    <2>6. ASSUME NEW f \in Endpoint, f # e
          PROVE  OneFateEach(manager'[f], callbacks'[f])
        <3>1. manager'[f] = manager[f] /\ callbacks'[f] = callbacks[f]
            BY <2>1, <2>6 DEF TypeOK
        <3>2. QED
            BY <3>1 DEF EveryPacketHasOneFate
    <2>7. \A f \in Endpoint : OneFateEach(manager'[f], callbacks'[f])
        BY <2>1, <2>5, <2>6
    <2>8. QED
        BY <2>7 DEF EveryPacketHasOneFate, OneFateEach
<1>2. ASSUME NEW e \in Endpoint, NEW d \in network, ReceivePacket(e, d)
      PROVE  EveryPacketHasOneFate'
    <2> DEFINE m == ProcessSequenceNumber(manager[e], d.seq)
    <2>1. PICK popped \in 0 .. Len(m.mInFlightPackets) :
          \E missed \in 0 .. popped :
              /\ ProcessAcks(m, d.acks, missed, popped)
              /\ manager' = [manager EXCEPT ![e] = AfterPops(m, missed, popped)]
              /\ callbacks' = [callbacks EXCEPT
                     ![e] = @ \o CallbacksOfPops(m, missed, popped)]
        BY <1>2, ReceivePacketEffect
    <2>2. PICK missed \in 0 .. popped :
              /\ manager' = [manager EXCEPT ![e] = AfterPops(m, missed, popped)]
              /\ callbacks' = [callbacks EXCEPT
                     ![e] = @ \o CallbacksOfPops(m, missed, popped)]
        BY <2>1
    <2>3. /\ d.seq \in PacketSequenceNumber /\ ~IsOld(manager[e], d.seq)
          /\ manager[e] \in Manager
        BY <1>2, ReceivePacketEffect DEF Datagram, TypeOK
    <2>4. /\ m \in Manager
          /\ m.mInFlightPackets = manager[e].mInFlightPackets
          /\ m.mDispatchedPacketCount = manager[e].mDispatchedPacketCount
          /\ m.mAckedPacketCount = manager[e].mAckedPacketCount
          /\ m.mDroppedPacketCount = manager[e].mDroppedPacketCount
        BY <2>3, ProcessSequenceNumberFields
    <2>5. callbacks[e] \in Seq(Callback) /\ OneFateEach(manager[e], callbacks[e])
        BY DEF TypeOK, EveryPacketHasOneFate
    <2> HIDE DEF m
    <2>6. OneFateEach(m, callbacks[e])
        BY <2>3, <2>4, <2>5, FateFrame
    <2>7. QED
        BY <2>2, <2>4, <2>6, PopsStepKeepsFate
<1>3. ASSUME NEW e \in Endpoint, SweepTimeouts(e) PROVE EveryPacketHasOneFate'
    <2>1. PICK n \in 0 .. Len(manager[e].mInFlightPackets) :
              /\ manager' = [manager EXCEPT ![e] = AfterPops(manager[e], n, n)]
              /\ callbacks' = [callbacks EXCEPT
                     ![e] = @ \o CallbacksOfPops(manager[e], n, n)]
        BY <1>3 DEF SweepTimeouts
    <2>2. manager[e] \in Manager /\ OneFateEach(manager[e], callbacks[e])
        BY DEF TypeOK, EveryPacketHasOneFate
    <2>3. n \in 0 .. n
        BY <2>2 DEF Manager
    <2>4. QED
        BY <2>1, <2>2, <2>3, PopsStepKeepsFate
<1>4. CASE Tick
    BY <1>4 DEF Tick, EveryPacketHasOneFate, OneFateEach
<1>5. ASSUME NEW e \in Endpoint, NEW d \in network, DropOldPacket(e, d)
      PROVE  EveryPacketHasOneFate'
    BY <1>5 DEF DropOldPacket, EveryPacketHasOneFate, OneFateEach, vars
<1>6. CASE UNCHANGED vars
    BY <1>6 DEF EveryPacketHasOneFate, OneFateEach, vars
<1>7. QED
    BY <1>1, <1>2, <1>3, <1>4, <1>5, <1>6 DEF Next

\* Every dispatched packet is in the queue or was reported, once and in order,
\* and the counters agree: for all constants, also after sequence numbers wrap.
THEOREM OneFate == Spec => []EveryPacketHasOneFate
<1>1. Init => TypeOK /\ EveryPacketHasOneFate
    BY TypeInit, FateInit
<1>2. TypeOK /\ EveryPacketHasOneFate /\ [Next]_vars
          => TypeOK' /\ EveryPacketHasOneFate'
    BY TypeStep, FateStep
<1>3. QED
    BY <1>1, <1>2, PTL DEF Spec

----------------------------------------------------------------------------
(***************************************************************************)
(* While no number wraps: what the acks that are processed can deliver.    *)
(***************************************************************************)

\* Pops keep the numbers of the entries that stay.
LEMMA PopsKeepNumbers ==
    ASSUME NEW m \in Manager, NumberedInOrder(m),
           NEW popped \in 0 .. Len(m.mInFlightPackets),
           NEW missed \in 0 .. popped
    PROVE  NumberedInOrder(AfterPops(m, missed, popped))
<1> DEFINE a == AfterPops(m, missed, popped)
           queue == m.mInFlightPackets
<1>1. queue \in Seq(InFlightPacket) /\ Len(queue) \in Nat
    BY DEF Manager
<1>2. /\ Len(a.mInFlightPackets) = Len(queue) - popped
      /\ \A i \in 1 .. (Len(queue) - popped) :
             a.mInFlightPackets[i] = queue[popped + i]
      /\ a.mDispatchedPacketCount = m.mDispatchedPacketCount
      /\ a.mNextOutgoingSequenceNumber = m.mNextOutgoingSequenceNumber
    BY AfterPopsFields
<1> HIDE DEF a
<1>3. ASSUME NEW i \in 1 .. Len(a.mInFlightPackets)
      PROVE  a.mInFlightPackets[i].mSequenceNumber =
                 a.mInFlightPackets[i].mTransmissionData
    <2>1. popped + i \in 1 .. Len(queue) /\ i \in 1 .. (Len(queue) - popped)
        BY <1>1, <1>2
    <2>2. QED
        BY <1>2, <2>1 DEF NumberedInOrder
<1>4. QED
    BY <1>2, <1>3 DEF NumberedInOrder, a

\* An entry that ProcessAcks pops as a success is in a range of the packet.
LEMMA DeliveredWasAcked ==
    ASSUME NEW m \in Manager, NEW calls \in Seq(Callback),
           OneFateEach(m, calls), NumberedInOrder(m),
           NEW acks \in Seq(AckRange),
           NEW popped \in 0 .. Len(m.mInFlightPackets),
           NEW missed \in 0 .. popped,
           ProcessAcks(m, acks, missed, popped),
           NEW i \in (missed + 1) .. popped
    PROVE  /\ 1 \in 1 .. Len(acks)
           /\ m.mInFlightPackets[i].mTransmissionData \in
                  acks[1].mStart .. (acks[1].mStart + acks[1].mCount - 1)
<1> DEFINE queue == m.mInFlightPackets
           n     == Len(calls)
<1>1. /\ queue \in Seq(InFlightPacket) /\ Len(queue) \in Nat /\ n \in Nat
      /\ missed \in Nat /\ popped \in Nat /\ i \in Nat
    BY DEF Manager
<1>2. acks # << >>
    <2>1. missed < popped
        BY <1>1
    <2>2. QED
        BY <1>1, <2>1 DEF ProcessAcks
<1>3. 1 \in 1 .. Len(acks) /\ acks[1] \in AckRange
    BY <1>2, EmptySeq, ElementOfSeq
<1>4. acks[1].mStart \in Nat /\ acks[1].mCount \in Nat
    BY <1>3, ManagerAssumption DEF AckRange, PacketSequenceNumber
<1>5. /\ PopsWhileBelow(queue, acks[1].mStart, missed)
      /\ PopsWhileBelow(queue, acks[1].mStart + acks[1].mCount, popped)
    BY <1>2 DEF ProcessAcks
<1>6. \A j \in 1 .. Len(queue) : queue[j].mSequenceNumber = n + j
    BY DEF NumberedInOrder, OneFateEach
<1>7. i \in 1 .. Len(queue) /\ i \in 1 .. popped /\ missed + 1 \in 1 .. Len(queue)
    BY <1>1
<1>8. queue[i].mSequenceNumber = n + i
      /\ queue[missed + 1].mSequenceNumber = n + (missed + 1)
    BY <1>6, <1>7
<1>9. n + i < acks[1].mStart + acks[1].mCount
    BY <1>5, <1>7, <1>8 DEF PopsWhileBelow
<1>10. n + (missed + 1) >= acks[1].mStart
    <2>1. missed < Len(queue)
        BY <1>1
    <2>2. queue[missed + 1].mSequenceNumber >= acks[1].mStart
        BY <1>5, <2>1 DEF PopsWhileBelow
    <2>3. QED
        BY <1>8, <2>2
<1>11. queue[i].mTransmissionData = n + i
    BY <1>7 DEF OneFateEach
<1> HIDE DEF queue, n
<1>12. queue[i].mTransmissionData \in
           acks[1].mStart .. (acks[1].mStart + acks[1].mCount - 1)
    BY <1>1, <1>4, <1>9, <1>10, <1>11
<1>13. QED
    BY <1>3, <1>12 DEF queue

\* Pops whose successes were accepted keep DeliveredWasAccepted.
LEMMA PopsKeepDelivered ==
    ASSUME TypeOK, DeliveredWasAccepted, NEW e \in Endpoint,
           NEW m \in Manager,
           NEW popped \in 0 .. Len(m.mInFlightPackets),
           NEW missed \in 0 .. popped,
           callbacks' = [callbacks EXCEPT
                             ![e] = @ \o CallbacksOfPops(m, missed, popped)],
           \A f \in Endpoint : \A k \in Nat :
               HasAccepted(f, k) => HasAccepted(f, k)',
           \A i \in (missed + 1) .. popped :
               HasAccepted(Peer(e), m.mInFlightPackets[i].mTransmissionData)
    PROVE  DeliveredWasAccepted'
<1> DEFINE calls == callbacks[e]
           new   == CallbacksOfPops(m, missed, popped)
           n     == Len(calls)
<1>1. /\ \A f \in Endpoint : callbacks[f] \in Seq(Callback)
      /\ calls \in Seq(Callback) /\ n \in Nat
      /\ popped \in Nat /\ missed \in Nat /\ Len(m.mInFlightPackets) \in Nat
    BY DEF TypeOK, Manager
<1>2. /\ new \in Seq(Callback)
      /\ Len(new) = popped
      /\ \A i \in 1 .. popped :
             /\ new[i].mTransmissionData = m.mInFlightPackets[i].mTransmissionData
             /\ new[i].delivered = (i > missed)
    BY CallbacksOfPopsFields DEF Callback
<1>3. \A f \in Endpoint :
          callbacks'[f] = IF f = e THEN calls \o new ELSE callbacks[f]
    BY DEF TypeOK
<1> HIDE DEF calls, new
<1>4. /\ calls \o new \in Seq(Callback)
      /\ Len(calls \o new) = n + popped
      /\ \A i \in 1 .. (n + popped) :
             (calls \o new)[i] = IF i <= n THEN calls[i] ELSE new[i - n]
    BY <1>1, <1>2, ConcatProperties
<1>5. ASSUME NEW f \in Endpoint, NEW i \in 1 .. Len(callbacks[f]), NEW k \in Nat,
             callbacks[f][i].delivered, callbacks[f][i].mTransmissionData = k
      PROVE  HasAccepted(Peer(f), k)'
    <2>1. HasAccepted(Peer(f), k)
        BY <1>5 DEF DeliveredWasAccepted
    <2>2. QED
        BY <2>1, PeerFacts
<1>6. ASSUME NEW i \in 1 .. (n + popped), NEW k \in Nat,
             (calls \o new)[i].delivered, (calls \o new)[i].mTransmissionData = k
      PROVE  HasAccepted(Peer(e), k)'
    <2>1. CASE i <= n
        <3>1. (calls \o new)[i] = callbacks[e][i] /\ i \in 1 .. Len(callbacks[e])
            BY <1>1, <1>4, <2>1 DEF calls
        <3>2. QED
            BY <1>5, <1>6, <3>1
    <2>2. CASE ~(i <= n)
        <3>1. i - n \in 1 .. popped /\ (calls \o new)[i] = new[i - n]
            BY <1>1, <1>4, <2>2
        <3>2. i - n > missed
            BY <1>2, <1>6, <3>1
        <3>3. i - n \in (missed + 1) .. popped
            BY <1>1, <3>1, <3>2
        <3>4. k = m.mInFlightPackets[i - n].mTransmissionData
            BY <1>2, <1>6, <3>1
        <3>5. HasAccepted(Peer(e), k)
            BY <3>3, <3>4
        <3>6. QED
            BY <3>5, PeerFacts
    <2>3. QED
        BY <2>1, <2>2
<1>7. ASSUME NEW f \in Endpoint, NEW i \in 1 .. Len(callbacks'[f]), NEW k \in Nat,
             callbacks'[f][i].delivered, callbacks'[f][i].mTransmissionData = k
      PROVE  HasAccepted(Peer(f), k)'
    <2>1. CASE f = e
        BY <1>3, <1>4, <1>6, <1>7, <2>1
    <2>2. CASE f # e
        BY <1>3, <1>5, <1>7, <2>2
    <2>3. QED
        BY <2>1, <2>2
<1>8. \A f \in Endpoint : callbacks'[f] \in Seq(Callback)
    BY <1>1, <1>3, <1>4
<1>9. ASSUME NEW f \in Endpoint, NEW i \in 1 .. Len(callbacks'[f])
      PROVE  callbacks'[f][i].mTransmissionData \in Nat
    <2>1. callbacks'[f] \in Seq(Callback)
        BY <1>8
    <2>2. callbacks'[f][i] \in Callback
        BY <2>1, ElementOfSeq
    <2>3. QED
        BY <2>2 DEF Callback
<1>10. QED
    BY <1>7, <1>9 DEF DeliveredWasAccepted

----------------------------------------------------------------------------
(***************************************************************************)
(* While no number wraps: DeliveryInvariant is inductive.                  *)
(***************************************************************************)

\* The invariant holds at first: no packet, no ack, nothing accepted.
LEMMA InvariantInit == ASSUME NoWrap PROVE Init => DeliveryInvariant
<1> SUFFICES ASSUME Init PROVE DeliveryInvariant
    OBVIOUS
<1>1. TypeOK /\ EveryPacketHasOneFate
    BY TypeInit, FateInit
<1>2. \A e \in Endpoint : /\ manager[e].mNextOutgoingSequenceNumber = 1
                          /\ manager[e].mDispatchedPacketCount = 0
                          /\ manager[e].mInFlightPackets = << >>
                          /\ manager[e].mPendingAcks = << >>
    BY DEF Init, NewManager
<1>3. \A e \in Endpoint : NumberedInOrder(manager[e])
    BY <1>2, PairAssumption DEF NumberedInOrder
<1>4. DatagramsAreNumbered /\ AcceptedBelowExpected /\ AcceptedInOrder
      /\ DeliveredWasAccepted
    BY DEF Init, DatagramsAreNumbered, AcceptedBelowExpected, AcceptedInOrder,
           DeliveredWasAccepted
<1>5. AcksAreHonest
    BY <1>2 DEF Init, AcksAreHonest, Honest
<1>6. QED
    BY <1>1, <1>3, <1>4, <1>5 DEF DeliveryInvariant

\* Sending: the new datagram has the next number and acks what was pending.
LEMMA SendKeepsInvariant ==
    ASSUME NoWrap, DeliveryInvariant, TypeOK', EveryPacketHasOneFate',
           NEW e \in Endpoint, SendPacket(e)
    PROVE  DeliveryInvariant'
<1> USE DEF DeliveryInvariant
<1> DEFINE m == manager[e]
           p == manager'[e]
           w == WriteSequenceNumber(m, now)
           entry == [mSequenceNumber   |-> m.mNextOutgoingSequenceNumber,
                     mTimeDispatched   |-> now,
                     mTransmissionData |-> m.mDispatchedPacketCount + 1]
           d == [src     |-> e,
                 seq     |-> m.mNextOutgoingSequenceNumber,
                 payload |-> m.mDispatchedPacketCount + 1,
                 acks    |-> AcksToWrite(w)]
<1>1. /\ m \in Manager /\ p \in Manager
      /\ m.mDispatchedPacketCount < MaxDispatched
      /\ manager' = [manager EXCEPT ![e] = p]
      /\ p.mNextOutgoingSequenceNumber =
             NextSequenceNumber(m.mNextOutgoingSequenceNumber)
      /\ p.mNextExpectedSequenceNumber = m.mNextExpectedSequenceNumber
      /\ p.mDispatchedPacketCount = m.mDispatchedPacketCount + 1
      /\ p.mInFlightPackets = Append(m.mInFlightPackets, entry)
      /\ p.mPendingAcks = << >>
      /\ network' = network \cup {d}
      /\ UNCHANGED <<now, callbacks, accepted>>
    BY SendPacketEffect
<1>2. /\ m.mDispatchedPacketCount \in Nat
      /\ m.mInFlightPackets \in Seq(InFlightPacket)
      /\ Len(m.mInFlightPackets) \in Nat
      /\ m.mNextOutgoingSequenceNumber = m.mDispatchedPacketCount + 1
    BY <1>1 DEF Manager, NumberedInOrder
<1>3. \A f \in Endpoint : f # e => manager'[f] = manager[f]
    BY <1>1 DEF TypeOK
<1>4. \A f \in Endpoint : \A k : HasAccepted(f, k)' <=> HasAccepted(f, k)
    BY <1>1 DEF HasAccepted
<1>5. \A f \in Endpoint : manager'[f].mDispatchedPacketCount
                              >= manager[f].mDispatchedPacketCount
    <2>1. \A f \in Endpoint : manager[f].mDispatchedPacketCount \in Nat
        BY DEF TypeOK, Manager
    <2>2. QED
        BY <1>1, <1>3, <2>1
<1>6. NumberedInOrder(p)
    <2>1. p.mNextOutgoingSequenceNumber = p.mDispatchedPacketCount + 1
        BY <1>1, <1>2, PairAssumption, ManagerAssumption DEF NoWrap, NextSequenceNumber
    <2>2. /\ Len(p.mInFlightPackets) = Len(m.mInFlightPackets) + 1
          /\ \A i \in 1 .. Len(m.mInFlightPackets) :
                 p.mInFlightPackets[i] = m.mInFlightPackets[i]
          /\ p.mInFlightPackets[Len(m.mInFlightPackets) + 1] = entry
        BY <1>1, <1>2
    <2>3. entry.mSequenceNumber = entry.mTransmissionData
        BY <1>2
    <2>4. NumberedInOrder(m)
        OBVIOUS
    <2> HIDE DEF entry
    <2>5. ASSUME NEW i \in 1 .. Len(p.mInFlightPackets)
          PROVE  p.mInFlightPackets[i].mSequenceNumber =
                     p.mInFlightPackets[i].mTransmissionData
        <3>1. CASE i = Len(m.mInFlightPackets) + 1
            BY <2>2, <2>3, <3>1
        <3>2. CASE i # Len(m.mInFlightPackets) + 1
            <4>1. i \in 1 .. Len(m.mInFlightPackets)
                BY <1>2, <2>2, <3>2
            <4>2. QED
                BY <2>2, <2>4, <4>1 DEF NumberedInOrder
        <3>3. QED
            BY <3>1, <3>2
    <2>6. p.mDispatchedPacketCount <= MaxDispatched
        BY <1>1, <1>2, PairAssumption
    <2>7. QED
        BY <2>1, <2>5, <2>6 DEF NumberedInOrder
<1>7. \A f \in Endpoint : NumberedInOrder(manager'[f])
    BY <1>3, <1>6
<1>8. DatagramsAreNumbered'
    <2>1. ASSUME NEW f \in network
          PROVE  /\ f.seq = f.payload /\ f.payload >= 1
                 /\ f.payload <= manager'[f.src].mDispatchedPacketCount
        <3>1. f.src \in Endpoint /\ f.payload \in Nat
            BY DEF TypeOK, Datagram
        <3>2. manager[f.src].mDispatchedPacketCount \in Nat
              /\ manager'[f.src].mDispatchedPacketCount \in Nat
            BY <3>1 DEF TypeOK, Manager
        <3>3. QED
            BY <1>5, <3>1, <3>2 DEF DatagramsAreNumbered
    <2>2. /\ d.seq = d.payload /\ d.payload >= 1
          /\ d.payload <= manager'[d.src].mDispatchedPacketCount
        BY <1>1, <1>2
    <2> HIDE DEF d
    <2>3. QED
        BY <1>1, <2>1, <2>2 DEF DatagramsAreNumbered
<1>9. AcceptedBelowExpected'
    <2>1. ASSUME NEW f \in Endpoint, NEW i \in 1 .. Len(accepted[f])
          PROVE  /\ accepted[f][i] >= 1
                 /\ accepted[f][i] < manager'[f].mNextExpectedSequenceNumber
                 /\ accepted[f][i] <= manager'[Peer(f)].mDispatchedPacketCount
        <3>1. manager'[f].mNextExpectedSequenceNumber
                  = manager[f].mNextExpectedSequenceNumber
            BY <1>1, <1>3
        <3>2. accepted[f][i] \in Nat
            <4>1. accepted[f] \in Seq(Nat)
                BY DEF TypeOK
            <4>2. QED
                BY <4>1, ElementOfSeq
        <3>3. manager[Peer(f)].mDispatchedPacketCount \in Nat
              /\ manager'[Peer(f)].mDispatchedPacketCount \in Nat
            BY PeerFacts DEF TypeOK, Manager
        <3>4. QED
            BY <1>5, <3>1, <3>2, <3>3, PeerFacts DEF AcceptedBelowExpected
    <2>2. QED
        BY <1>1, <2>1 DEF AcceptedBelowExpected
<1>10. AcksAreHonest'
    <2>1. \A f \in Endpoint : Honest(f, manager[f].mPendingAcks)
          /\ \A g \in network : Honest(g.src, g.acks)
        BY DEF AcksAreHonest
    <2>2. \A g \in network : Honest(g.src, g.acks)'
        <3>1. \A g \in network : g.src \in Endpoint
            BY DEF TypeOK, Datagram
        <3>2. QED
            BY <1>4, <2>1, <3>1 DEF Honest
    <2>3. ASSUME NEW f \in Endpoint
          PROVE  Honest(f, manager[f].mPendingAcks)' 
        <3>1. CASE f = e
            BY <1>1, <3>1 DEF Honest
        <3>2. CASE f # e
            BY <1>3, <1>4, <2>1, <3>2 DEF Honest
        <3>3. QED
            BY <3>1, <3>2
    <2>4. Honest(e, AcksToWrite(w))
        <3>1. w \in Manager /\ w.mPendingAcks = m.mPendingAcks
            <4>1. now \in Nat
                BY DEF TypeOK
            <4>2. QED
                BY <1>1, <4>1, WriteSequenceNumberFields
        <3>2. /\ Len(AcksToWrite(w)) = Len(m.mPendingAcks)
              /\ AcksToWrite(w) \in Seq(AckRange)
              /\ \A i \in 1 .. Len(m.mPendingAcks) :
                     /\ m.mPendingAcks[i] \in AckRange
                     /\ AcksToWrite(w)[i].mStart = m.mPendingAcks[i].mStart
                     /\ AcksToWrite(w)[i].mCount <= m.mPendingAcks[i].mCount
            BY <3>1, AcksToWriteFields
        <3> HIDE DEF w, m
        <3>3. SUFFICES ASSUME NEW i \in 1 .. Len(m.mPendingAcks),
                              NEW s \in AcksToWrite(w)[i].mStart ..
                                  (AcksToWrite(w)[i].mStart
                                     + AcksToWrite(w)[i].mCount - 1)
                       PROVE  HasAccepted(e, s)
            BY <3>2 DEF Honest
        <3>4. /\ m.mPendingAcks[i].mStart \in Nat
              /\ m.mPendingAcks[i].mCount \in Nat
              /\ AcksToWrite(w)[i].mCount \in Nat
            <4>1. AcksToWrite(w)[i] \in AckRange
                BY <3>2, ElementOfSeq
            <4>2. QED
                BY <3>2, <4>1 DEF AckRange, PacketSequenceNumber
        <3>5. s \in m.mPendingAcks[i].mStart ..
                  (m.mPendingAcks[i].mStart + m.mPendingAcks[i].mCount - 1)
            BY <3>2, <3>4
        <3>6. Honest(e, m.mPendingAcks)
            BY <2>1 DEF m
        <3>7. QED
            BY <3>5, <3>6 DEF Honest
    <2>5. Honest(e, AcksToWrite(w)) => Honest(d.src, d.acks)
        OBVIOUS
    <2> HIDE DEF d, w
    <2>6. \A g \in network' : Honest(g.src, g.acks)'
        <3>1. d.src \in Endpoint
            BY DEF d
        <3>2. Honest(d.src, d.acks)
            BY <2>4, <2>5
        <3>3. ASSUME NEW g, g = d PROVE Honest(g.src, g.acks)'
            BY <1>4, <3>1, <3>2, <3>3 DEF Honest
        <3>4. QED
            BY <1>1, <2>2, <3>3
    <2>7. QED
        BY <2>3, <2>6 DEF AcksAreHonest
<1>11. DeliveredWasAccepted' /\ AcceptedInOrder'
    BY <1>1 DEF DeliveredWasAccepted, AcceptedInOrder, HasAccepted
<1>12. QED
    BY <1>7, <1>8, <1>9, <1>10, <1>11 DEF NumberedInOrder

\* Receiving: the packet is newer than all before it, is acked later, and what
\* its acks deliver its sender had accepted.
LEMMA ReceiveKeepsInvariant ==
    ASSUME NoWrap, DeliveryInvariant, TypeOK', EveryPacketHasOneFate',
           NEW e \in Endpoint, NEW d \in network, ReceivePacket(e, d)
    PROVE  DeliveryInvariant'
<1> USE DEF DeliveryInvariant
<1> DEFINE old == manager[e]
           m   == ProcessSequenceNumber(old, d.seq)
<1>1. /\ d \in Datagram /\ d.src = Peer(e)
      /\ ~IsOld(old, d.seq)
      /\ accepted' = [accepted EXCEPT ![e] = Append(@, d.payload)]
      /\ UNCHANGED <<network, now>>
    BY ReceivePacketEffect
<1>2. PICK popped \in 0 .. Len(m.mInFlightPackets) :
      \E missed \in 0 .. popped :
          /\ ProcessAcks(m, d.acks, missed, popped)
          /\ manager' = [manager EXCEPT ![e] = AfterPops(m, missed, popped)]
          /\ callbacks' = [callbacks EXCEPT
                 ![e] = @ \o CallbacksOfPops(m, missed, popped)]
    BY ReceivePacketEffect
<1>3. PICK missed \in 0 .. popped :
          /\ ProcessAcks(m, d.acks, missed, popped)
          /\ manager' = [manager EXCEPT ![e] = AfterPops(m, missed, popped)]
          /\ callbacks' = [callbacks EXCEPT
                 ![e] = @ \o CallbacksOfPops(m, missed, popped)]
    BY <1>2
<1>4. /\ d.seq \in PacketSequenceNumber /\ d.seq \in Nat /\ d.payload \in Nat
      /\ d.acks \in Seq(AckRange)
      /\ old \in Manager
    BY <1>1 DEF Datagram, TypeOK, PacketSequenceNumber
<1>5. /\ d.seq = d.payload /\ d.payload >= 1
      /\ d.payload <= manager[Peer(e)].mDispatchedPacketCount
      /\ d.payload <= MaxDispatched
    <2>1. /\ d.seq = d.payload /\ d.payload >= 1
          /\ d.payload <= manager[Peer(e)].mDispatchedPacketCount
        BY <1>1 DEF DatagramsAreNumbered
    <2>2. /\ manager[Peer(e)].mDispatchedPacketCount <= MaxDispatched
          /\ manager[Peer(e)].mDispatchedPacketCount \in Nat
        BY PeerFacts DEF NumberedInOrder, TypeOK, Manager
    <2>3. QED
        BY <1>4, <2>1, <2>2, PairAssumption
<1>6. /\ m \in Manager
      /\ m.mNextExpectedSequenceNumber = NextSequenceNumber(d.seq)
      /\ m.mPendingAcks = AddPendingAck(old.mPendingAcks, d.seq)
      /\ m.mNextOutgoingSequenceNumber = old.mNextOutgoingSequenceNumber
      /\ m.mDispatchedPacketCount = old.mDispatchedPacketCount
      /\ m.mAckedPacketCount = old.mAckedPacketCount
      /\ m.mDroppedPacketCount = old.mDroppedPacketCount
      /\ m.mInFlightPackets = old.mInFlightPackets
    BY <1>1, <1>4, ProcessSequenceNumberFields
<1>7. m.mNextExpectedSequenceNumber = d.seq + 1
    BY <1>4, <1>5, <1>6, PairAssumption, ManagerAssumption
       DEF NoWrap, NextSequenceNumber
<1> HIDE DEF m
<1> DEFINE a == AfterPops(m, missed, popped)
<1>8. /\ a.mNextExpectedSequenceNumber = d.seq + 1
      /\ a.mDispatchedPacketCount = old.mDispatchedPacketCount
      /\ a.mPendingAcks = m.mPendingAcks
    BY <1>6, <1>7, AfterPopsFields
<1>9. \A f \in Endpoint : manager'[f] = IF f = e THEN a ELSE manager[f]
    BY <1>3 DEF TypeOK
<1>10. NumberedInOrder(m) /\ OneFateEach(m, callbacks[e])
       /\ callbacks[e] \in Seq(Callback)
    <2>1. NumberedInOrder(old) /\ OneFateEach(old, callbacks[e])
          /\ callbacks[e] \in Seq(Callback)
        BY DEF EveryPacketHasOneFate, TypeOK
    <2>2. OneFateEach(m, callbacks[e])
        BY <1>4, <1>6, <2>1, FateFrame
    <2>3. QED
        BY <1>6, <2>1, <2>2 DEF NumberedInOrder
<1>11. NumberedInOrder(a)
    BY <1>6, <1>10, PopsKeepNumbers
<1> HIDE DEF a
<1>12. \A f \in Endpoint : manager'[f].mDispatchedPacketCount
                               = manager[f].mDispatchedPacketCount
    BY <1>8, <1>9
<1>13. (\A f \in Endpoint : NumberedInOrder(manager[f]))'
    <2>1. \A f \in Endpoint : NumberedInOrder(manager'[f])
        BY <1>9, <1>11
    <2>2. QED
        BY <2>1 DEF NumberedInOrder
<1>14. DatagramsAreNumbered'
    <2>1. \A g \in network : g.src \in Endpoint
        BY DEF TypeOK, Datagram
    <2>2. QED
        BY <1>1, <1>12, <2>1 DEF DatagramsAreNumbered
<1> DEFINE n == Len(accepted[e])
<1>15. /\ \A f \in Endpoint : accepted[f] \in Seq(Nat)
       /\ n \in Nat
       /\ \A f \in Endpoint : f # e => accepted'[f] = accepted[f]
       /\ accepted'[e] = Append(accepted[e], d.payload)
       /\ Len(accepted'[e]) = n + 1
       /\ \A i \in 1 .. n : accepted'[e][i] = accepted[e][i]
       /\ accepted'[e][n + 1] = d.payload
    <2>1. \A f \in Endpoint : accepted[f] \in Seq(Nat)
        BY DEF TypeOK
    <2>2. accepted'[e] = Append(accepted[e], d.payload)
        BY <1>1 DEF TypeOK
    <2>3. \A f \in Endpoint : f # e => accepted'[f] = accepted[f]
        BY <1>1 DEF TypeOK
    <2>4. QED
        BY <1>4, <2>1, <2>2, <2>3
<1>16. \A i \in 1 .. n :
           /\ accepted[e][i] \in Nat
           /\ accepted[e][i] < d.payload
    <2>1. ASSUME NEW i \in 1 .. n
          PROVE  accepted[e][i] \in Nat /\ accepted[e][i] < d.payload
        <3>1. accepted[e][i] \in Nat
            BY <1>15, ElementOfSeq
        <3>2. accepted[e][i] < old.mNextExpectedSequenceNumber
            BY DEF AcceptedBelowExpected
        <3>3. old.mNextExpectedSequenceNumber \in Nat
            BY <1>4 DEF Manager, PacketSequenceNumber
        <3>4. ~(d.seq < old.mNextExpectedSequenceNumber)
            BY <1>1 DEF IsOld
        <3>5. QED
            BY <1>4, <1>5, <3>1, <3>2, <3>3, <3>4
    <2>2. QED
        BY <2>1
<1>17. AcceptedBelowExpected'
    <2>1. ASSUME NEW i \in 1 .. Len(accepted'[e])
          PROVE  /\ accepted'[e][i] >= 1
                 /\ accepted'[e][i] < d.seq + 1
                 /\ accepted'[e][i] <= manager[Peer(e)].mDispatchedPacketCount
        <3>1. CASE i = n + 1
            BY <1>4, <1>5, <1>15, <3>1
        <3>2. CASE i # n + 1
            <4>1. i \in 1 .. n /\ accepted'[e][i] = accepted[e][i]
                BY <1>15, <3>2
            <4>2. QED
                BY <1>4, <1>5, <1>16, <4>1 DEF AcceptedBelowExpected
        <3>3. QED
            BY <3>1, <3>2
    <2>2. ASSUME NEW f \in Endpoint, NEW i \in 1 .. Len(accepted'[f])
          PROVE  /\ accepted'[f][i] >= 1
                 /\ accepted'[f][i] < manager'[f].mNextExpectedSequenceNumber
                 /\ accepted'[f][i] <= manager'[Peer(f)].mDispatchedPacketCount
        <3>1. CASE f = e
            BY <1>8, <1>9, <1>12, <2>1, <3>1, PeerFacts
        <3>2. CASE f # e
            BY <1>9, <1>12, <1>15, <3>2, PeerFacts DEF AcceptedBelowExpected
        <3>3. QED
            BY <3>1, <3>2
    <2>3. QED
        BY <2>2 DEF AcceptedBelowExpected
<1>18. \A f \in Endpoint : \A k : HasAccepted(f, k) => HasAccepted(f, k)'
    <2>1. ASSUME NEW k, HasAccepted(e, k) PROVE HasAccepted(e, k)'
        <3>1. PICK j \in 1 .. n : accepted[e][j] = k
            BY <2>1 DEF HasAccepted
        <3>2. j \in 1 .. Len(accepted'[e]) /\ accepted'[e][j] = k
            BY <1>15, <3>1
        <3>3. QED
            BY <3>2 DEF HasAccepted
    <2>2. QED
        BY <1>15, <2>1 DEF HasAccepted
<1>19. HasAccepted(e, d.seq)'
    <2>1. n + 1 \in 1 .. Len(accepted'[e]) /\ accepted'[e][n + 1] = d.seq
        BY <1>5, <1>15
    <2>2. QED
        BY <2>1 DEF HasAccepted
<1>20. AcksAreHonest'
    <2>1. \A f \in Endpoint : Honest(f, manager[f].mPendingAcks)
        BY DEF AcksAreHonest
    <2>2. \A g \in network' : Honest(g.src, g.acks)'
        <3>1. \A g \in network : g.src \in Endpoint /\ Honest(g.src, g.acks)
            BY DEF TypeOK, Datagram, AcksAreHonest
        <3>2. QED
            BY <1>1, <1>18, <3>1 DEF Honest
    <2>3. Honest(e, manager[e].mPendingAcks)'
        <3> DEFINE pending == old.mPendingAcks
                   after   == AddPendingAck(pending, d.seq)
                   l       == Len(pending)
        <3>1. pending \in Seq(AckRange) /\ l \in Nat
            BY <1>4 DEF Manager
        <3>2. /\ after \in Seq(AckRange)
              /\ \/ /\ Len(after) = l + 1
                    /\ \A i \in 1 .. l : after[i] = pending[i]
                    /\ after[l + 1] = [mStart |-> d.seq, mCount |-> 1]
                 \/ /\ Len(after) = l /\ l >= 1
                    /\ \A i \in 1 .. (l - 1) : after[i] = pending[i]
                    /\ d.seq = pending[l].mStart + pending[l].mCount
                    /\ after[l].mStart = pending[l].mStart
                    /\ after[l].mCount = pending[l].mCount + 1
            BY <1>4, <3>1, AddPendingAckFields
        <3>3. \A i \in 1 .. l :
                 \A s \in pending[i].mStart ..
                              (pending[i].mStart + pending[i].mCount - 1) :
                     HasAccepted(e, s)'
            BY <1>18, <2>1 DEF Honest
        <3>4. \A i \in 1 .. l : pending[i].mStart \in Nat /\ pending[i].mCount \in Nat
            <4>1. \A i \in 1 .. l : pending[i] \in AckRange
                BY <3>1, ElementOfSeq
            <4>2. QED
                BY <4>1 DEF AckRange, PacketSequenceNumber
        <3> HIDE DEF pending, after
        <3>5. ASSUME NEW i \in 1 .. Len(after),
                     NEW s \in after[i].mStart ..
                                   (after[i].mStart + after[i].mCount - 1)
              PROVE  HasAccepted(e, s)'
            <4>1. CASE i \in 1 .. l /\ after[i] = pending[i]
                BY <3>3, <4>1
            <4>2. CASE after[i] = [mStart |-> d.seq, mCount |-> 1]
                <5>1. s = d.seq
                    BY <1>4, <4>2
                <5>2. QED
                    BY <1>19, <5>1
            <4>3. CASE /\ i = l /\ l >= 1
                       /\ d.seq = pending[l].mStart + pending[l].mCount
                       /\ after[l].mStart = pending[l].mStart
                       /\ after[l].mCount = pending[l].mCount + 1
                <5>1. l \in 1 .. l /\ pending[l].mStart \in Nat
                      /\ pending[l].mCount \in Nat
                    BY <3>1, <3>4, <4>3
                <5>2. CASE s = d.seq
                    BY <1>19, <5>2
                <5>3. CASE s # d.seq
                    <6>1. s \in pending[l].mStart ..
                                    (pending[l].mStart + pending[l].mCount - 1)
                        BY <4>3, <5>1, <5>3
                    <6>2. QED
                        BY <3>3, <5>1, <6>1
                <5>4. QED
                    BY <5>2, <5>3
            <4>4. QED
                BY <3>1, <3>2, <4>1, <4>2, <4>3
        <3>6. m.mPendingAcks = after
            BY <1>6 DEF after, pending
        <3>7. \A i \in 1 .. Len(m.mPendingAcks) :
                 \A s \in m.mPendingAcks[i].mStart ..
                      (m.mPendingAcks[i].mStart + m.mPendingAcks[i].mCount - 1) :
                     HasAccepted(e, s)'
            BY <3>5, <3>6
        <3>8. manager'[e].mPendingAcks = m.mPendingAcks
            BY <1>8, <1>9
        <3>9. QED
            BY <3>7, <3>8 DEF Honest
    <2>4. ASSUME NEW f \in Endpoint
          PROVE  Honest(f, manager[f].mPendingAcks)'
        <3>1. CASE f = e
            BY <2>3, <3>1
        <3>2. CASE f # e
            BY <1>9, <1>18, <2>1, <3>2 DEF Honest
        <3>3. QED
            BY <3>1, <3>2
    <2>5. QED
        BY <2>2, <2>4 DEF AcksAreHonest
<1>21. DeliveredWasAccepted'
    <2>1. ASSUME NEW i \in (missed + 1) .. popped
          PROVE  HasAccepted(Peer(e), m.mInFlightPackets[i].mTransmissionData)
        <3>1. /\ 1 \in 1 .. Len(d.acks)
              /\ m.mInFlightPackets[i].mTransmissionData \in
                     d.acks[1].mStart .. (d.acks[1].mStart + d.acks[1].mCount - 1)
            BY <1>3, <1>4, <1>6, <1>10, DeliveredWasAcked
        <3>2. Honest(Peer(e), d.acks)
            BY <1>1 DEF AcksAreHonest
        <3>3. QED
            BY <3>1, <3>2 DEF Honest
    <2>2. \A f \in Endpoint : \A k \in Nat :
              HasAccepted(f, k) => HasAccepted(f, k)'
        BY <1>18
    <2>3. QED
        BY <1>3, <1>6, <2>1, <2>2, PopsKeepDelivered
<1>22. AcceptedInOrder'
    <2>1. ASSUME NEW i \in 1 .. (n + 1), NEW j \in 1 .. (n + 1), i < j
          PROVE  accepted'[e][i] < accepted'[e][j]
        <3>1. i \in 1 .. n
            BY <1>15, <2>1
        <3>2. CASE j = n + 1
            BY <1>15, <1>16, <3>1, <3>2
        <3>3. CASE j # n + 1
            <4>1. j \in 1 .. n
                BY <1>15, <3>3
            <4>2. QED
                BY <1>15, <2>1, <3>1, <4>1 DEF AcceptedInOrder
        <3>4. QED
            BY <3>2, <3>3
    <2>2. QED
        BY <1>15, <2>1 DEF AcceptedInOrder
<1>23. QED
    BY <1>13, <1>14, <1>17, <1>20, <1>21, <1>22

\* Giving packets up delivers nothing and keeps the rest.
LEMMA SweepKeepsInvariant ==
    ASSUME NoWrap, DeliveryInvariant, TypeOK', EveryPacketHasOneFate',
           NEW e \in Endpoint, SweepTimeouts(e)
    PROVE  DeliveryInvariant'
<1> USE DEF DeliveryInvariant
<1> DEFINE m == manager[e]
<1>1. PICK n \in 0 .. Len(m.mInFlightPackets) :
          /\ manager' = [manager EXCEPT ![e] = AfterPops(m, n, n)]
          /\ callbacks' = [callbacks EXCEPT ![e] = @ \o CallbacksOfPops(m, n, n)]
    BY DEF SweepTimeouts
<1>2. UNCHANGED <<network, now, accepted>>
    BY DEF SweepTimeouts
<1>3. m \in Manager /\ NumberedInOrder(m)
    BY DEF TypeOK
<1>4. n \in 0 .. n /\ n \in Nat
    BY <1>3 DEF Manager
<1> DEFINE a == AfterPops(m, n, n)
<1>5. /\ NumberedInOrder(a)
      /\ a.mNextExpectedSequenceNumber = m.mNextExpectedSequenceNumber
      /\ a.mDispatchedPacketCount = m.mDispatchedPacketCount
      /\ a.mPendingAcks = m.mPendingAcks
    BY <1>3, <1>4, AfterPopsFields, PopsKeepNumbers
<1> HIDE DEF a
<1>6. \A f \in Endpoint : manager'[f] = IF f = e THEN a ELSE manager[f]
    BY <1>1 DEF TypeOK, a
<1>7. \A f \in Endpoint :
          /\ NumberedInOrder(manager'[f])
          /\ manager'[f].mNextExpectedSequenceNumber
                 = manager[f].mNextExpectedSequenceNumber
          /\ manager'[f].mDispatchedPacketCount = manager[f].mDispatchedPacketCount
          /\ manager'[f].mPendingAcks = manager[f].mPendingAcks
    BY <1>5, <1>6
<1>8. (\A f \in Endpoint : NumberedInOrder(manager[f]))'
    BY <1>7 DEF NumberedInOrder
<1>9. DatagramsAreNumbered'
    <2>1. \A g \in network : g.src \in Endpoint
        BY DEF TypeOK, Datagram
    <2>2. QED
        BY <1>2, <1>7, <2>1 DEF DatagramsAreNumbered
<1>10. AcceptedBelowExpected'
    BY <1>2, <1>7, PeerFacts DEF AcceptedBelowExpected
<1>11. AcksAreHonest'
    BY <1>2, <1>7 DEF AcksAreHonest, Honest, HasAccepted
<1>12. DeliveredWasAccepted'
    <2>1. \A f \in Endpoint : \A k \in Nat :
              HasAccepted(f, k) => HasAccepted(f, k)'
        BY <1>2 DEF HasAccepted
    <2>2. \A i \in (n + 1) .. n :
              HasAccepted(Peer(e), m.mInFlightPackets[i].mTransmissionData)
        BY <1>4
    <2>3. QED
        BY <1>1, <1>3, <1>4, <2>1, <2>2, PopsKeepDelivered
<1>13. AcceptedInOrder'
    BY <1>2 DEF AcceptedInOrder
<1>14. QED
    BY <1>8, <1>9, <1>10, <1>11, <1>12, <1>13

\* The invariant is about managers, datagrams, callbacks and payloads only: a
\* step that changes none of them keeps it.
LEMMA InvariantFrame ==
    ASSUME DeliveryInvariant, UNCHANGED <<manager, network, callbacks, accepted>>,
           TypeOK', EveryPacketHasOneFate'
    PROVE  DeliveryInvariant'
BY DEF DeliveryInvariant, NumberedInOrder, DatagramsAreNumbered,
       AcceptedBelowExpected, AcksAreHonest, Honest, HasAccepted,
       DeliveredWasAccepted, AcceptedInOrder

\* Every step keeps the invariant, the step of the clock included.
LEMMA InvariantStep ==
    ASSUME NoWrap
    PROVE  DeliveryInvariant /\ [Next]_vars => DeliveryInvariant'
<1> SUFFICES ASSUME DeliveryInvariant, [Next]_vars PROVE DeliveryInvariant'
    OBVIOUS
<1>1. TypeOK' /\ EveryPacketHasOneFate'
    BY TypeStep, FateStep DEF DeliveryInvariant
<1>2. ASSUME NEW e \in Endpoint, SendPacket(e) PROVE DeliveryInvariant'
    BY <1>1, <1>2, SendKeepsInvariant
<1>3. ASSUME NEW e \in Endpoint, NEW d \in network, ReceivePacket(e, d)
      PROVE  DeliveryInvariant'
    BY <1>1, <1>3, ReceiveKeepsInvariant
<1>4. ASSUME NEW e \in Endpoint, SweepTimeouts(e) PROVE DeliveryInvariant'
    BY <1>1, <1>4, SweepKeepsInvariant
<1>5. CASE Tick
    BY <1>1, <1>5, InvariantFrame DEF Tick
<1>6. ASSUME NEW e \in Endpoint, NEW d \in network, DropOldPacket(e, d)
      PROVE  DeliveryInvariant'
    BY <1>1, <1>6, InvariantFrame DEF DropOldPacket, vars
<1>7. CASE UNCHANGED vars
    BY <1>1, <1>7, InvariantFrame DEF vars
<1>8. QED
    BY <1>2, <1>3, <1>4, <1>5, <1>6, <1>7 DEF Next

\* The parts of the invariant together, which the two theorems below use.
THEOREM InvariantHolds == ASSUME NoWrap PROVE Spec => []DeliveryInvariant
<1>1. Init => DeliveryInvariant
    BY InvariantInit
<1>2. DeliveryInvariant /\ [Next]_vars => DeliveryInvariant'
    BY InvariantStep
<1>3. QED
    BY <1>1, <1>2, PTL DEF Spec

\* Unless numbers wrap, a packet that is reported delivered was accepted by
\* the peer, whatever the network loses, repeats or reorders.
THEOREM DeliveredIsTrue == ASSUME NoWrap PROVE Spec => []DeliveredWasAccepted
<1>1. DeliveryInvariant => DeliveredWasAccepted
    BY DEF DeliveryInvariant
<1>2. QED
    BY <1>1, InvariantHolds, PTL

\* Unless numbers wrap, payloads are accepted in the order of their dispatch
\* and none twice, whatever mNextExpectedSequenceNumber holds at first.
THEOREM AcceptedOnceInOrder == ASSUME NoWrap PROVE Spec => []AcceptedInOrder
<1>1. DeliveryInvariant => AcceptedInOrder
    BY DEF DeliveryInvariant
<1>2. QED
    BY <1>1, InvariantHolds, PTL
============================================================================
