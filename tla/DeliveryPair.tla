---------------------------- MODULE DeliveryPair ----------------------------
(***************************************************************************)
(* Two endpoints that exchange packets over UDP, each with a               *)
(* DeliveryNotificationManager: the program of                             *)
(* examples/delivery_notification_socket.cpp, with its two sides free to   *)
(* send, receive and sweep timeouts in any order.                          *)
(*                                                                         *)
(* The network is the set of all datagrams ever sent.  Nothing obliges an  *)
(* endpoint to receive a datagram, and one that was received stays in the  *)
(* set: UDP may lose, delay, reorder and duplicate them.                   *)
(*                                                                         *)
(* callbacks and accepted are history variables.  The first lists the      *)
(* HandleDeliverySuccess and HandleDeliveryFailure calls an endpoint has   *)
(* made, in order; the second the payloads it has taken from its peer.     *)
(***************************************************************************)
EXTENDS DeliveryNotificationManager

CONSTANTS
    A, B,            \* the two endpoints
    GarbageValues,   \* what an uninitialized uint16_t may hold
    Sweepers,        \* the endpoints whose user keeps sweeping timeouts
    MaxDispatched,   \* bound: packets an endpoint sends
    MaxAccepted,     \* bound: packets an endpoint accepts, repeats included
    BootTime,        \* the steady clock when the program starts
    MaxTime          \* bound: the last instant of the clock

ASSUME PairAssumption ==
    /\ A # B /\ Sweepers \subseteq {A, B}
    /\ GarbageValues \subseteq PacketSequenceNumber
    /\ MaxDispatched \in Nat /\ MaxAccepted \in Nat
    /\ BootTime \in Nat /\ MaxTime \in Nat /\ MaxTime < ClockMod

VARIABLES
    manager,     \* manager[e]: the DeliveryNotificationManager of endpoint e
    network,     \* every datagram ever sent
    now,         \* Timing::GetTimeMS()
    callbacks,   \* callbacks[e]: the callbacks e has made, oldest first
    accepted     \* accepted[e]: the payloads e has accepted, oldest first

vars == <<manager, network, now, callbacks, accepted>>

Endpoint == {A, B}
Peer(e) == IF e = A THEN B ELSE A

\* The payload is named after the packet's place in its sender's order.
Datagram == [src     : Endpoint,
             seq     : PacketSequenceNumber,
             payload : Nat,
             acks    : Seq(AckRange)]

Callback == [mTransmissionData : Nat, delivered : BOOLEAN]

Init ==
    /\ manager \in [Endpoint -> {NewManager(g) : g \in GarbageValues}]
    /\ network = {}
    /\ now = BootTime
    /\ callbacks = [e \in Endpoint |-> << >>]
    /\ accepted = [e \in Endpoint |-> << >>]

----------------------------------------------------------------------------
\* SendPacket: sequence number, payload, every pending ack, one datagram.  No
\* packet is sent so late that the bound on the clock would stop its timeout.
SendPacket(e) ==
    LET m == WriteSequenceNumber(manager[e], now)
    IN  /\ manager[e].mDispatchedPacketCount < MaxDispatched
        /\ now + kAckTimeoutMs < MaxTime
        /\ manager' = [manager EXCEPT ![e] = WritePendingAcks(m)]
        /\ network' = network \cup
               {[src     |-> e,
                 seq     |-> manager[e].mNextOutgoingSequenceNumber,
                 payload |-> m.mDispatchedPacketCount,
                 acks    |-> AcksToWrite(m)]}
        /\ UNCHANGED <<now, callbacks, accepted>>

\* ReceivePacket returns at once from an old packet, acks and all.
DropOldPacket(e, d) ==
    /\ d.src = Peer(e)
    /\ IsOld(manager[e], d.seq)
    /\ UNCHANGED vars

\* Mutant: the result of ProcessSequenceNumber is not looked at.
ReceivePacket_Unchecked(e, d) ==
    LET m == ProcessSequenceNumber(manager[e], d.seq)
    IN  /\ d.src = Peer(e)
        /\ Len(accepted[e]) < MaxAccepted
        /\ accepted' = [accepted EXCEPT ![e] = Append(@, d.payload)]
        /\ \E popped \in 0 .. Len(m.mInFlightPackets) :
           \E missed \in 0 .. popped :
               /\ ProcessAcks(m, d.acks, missed, popped)
               /\ manager' = [manager EXCEPT
                                  ![e] = AfterPops(m, missed, popped)]
               /\ callbacks' = [callbacks EXCEPT
                                  ![e] = @ \o CallbacksOfPops(m, missed, popped)]
        /\ UNCHANGED <<network, now>>

\* Any other packet: its number, its payload, and then its acks.
ReceivePacket(e, d) ==
    LET m == ProcessSequenceNumber(manager[e], d.seq)
    IN  /\ d.src = Peer(e)
        /\ ~IsOld(manager[e], d.seq)
        /\ Len(accepted[e]) < MaxAccepted
        /\ accepted' = [accepted EXCEPT ![e] = Append(@, d.payload)]
        /\ \E popped \in 0 .. Len(m.mInFlightPackets) :
           \E missed \in 0 .. popped :
               /\ ProcessAcks(m, d.acks, missed, popped)
               /\ manager' = [manager EXCEPT
                                  ![e] = AfterPops(m, missed, popped)]
               /\ callbacks' = [callbacks EXCEPT
                                  ![e] = @ \o CallbacksOfPops(m, missed, popped)]
        /\ UNCHANGED <<network, now>>

\* Mutant: a late packet is reported and stays in the queue.
SweepTimeouts_WithoutPop(e) ==
    /\ \E n \in 1 .. Len(manager[e].mInFlightPackets) :
           /\ ProcessTimeoutPackets(manager[e], now, n)
           /\ callbacks' = [callbacks EXCEPT
                                ![e] = @ \o CallbacksOfPops(manager[e], n, n)]
    /\ UNCHANGED <<manager, network, now, accepted>>

SweepTimeouts(e) ==
    /\ \E n \in 0 .. Len(manager[e].mInFlightPackets) :
           /\ ProcessTimeoutPackets(manager[e], now, n)
           /\ manager' = [manager EXCEPT ![e] = AfterPops(manager[e], n, n)]
           /\ callbacks' = [callbacks EXCEPT
                                ![e] = @ \o CallbacksOfPops(manager[e], n, n)]
    /\ UNCHANGED <<network, now, accepted>>

Tick ==
    /\ now < MaxTime
    /\ now' = now + 1
    /\ UNCHANGED <<manager, network, callbacks, accepted>>

Next ==
    \/ \E e \in Endpoint :
           \/ SendPacket(e)
           \/ \E d \in network : DropOldPacket(e, d) \/ ReceivePacket(e, d)
           \/ SweepTimeouts(e)
    \/ Tick

Spec == Init /\ [][Next]_vars

(***************************************************************************)
(* The clock advances by itself.  The manager never sweeps by itself: that *)
(* the user of an endpoint goes on calling ProcessTimeoutPackets is asked  *)
(* of the Sweepers only.  (The example calls it once, on A, after a wait   *)
(* in which everything sent has become late; the game server never does.)  *)
(* Nothing is assumed of the network or of the peer.                       *)
(***************************************************************************)
Fairness == WF_vars(Tick) /\ \A e \in Sweepers : WF_vars(SweepTimeouts(e))

FairSpec == Spec /\ Fairness

----------------------------------------------------------------------------
TypeOK ==
    /\ manager \in [Endpoint -> Manager]
    /\ network \subseteq Datagram
    /\ now \in Nat
    /\ callbacks \in [Endpoint -> Seq(Callback)]
    /\ accepted \in [Endpoint -> Seq(Nat)]

\* Every packet an endpoint dispatched has exactly one fate, and fates are
\* reported in the order of dispatch: the callbacks are for packets 1 to n,
\* each once, the queue holds the packets after n, and the three counters
\* agree with them.  (ProcessAcks and ProcessTimeoutPackets both pop the same
\* queue, DeliveryNotificationManager.cpp:137-159 and 175-184.)
OneFateEach(m, calls) ==
    LET n == Len(calls)
    IN  /\ \A i \in 1 .. n : calls[i].mTransmissionData = i
        /\ \A i \in 1 .. Len(m.mInFlightPackets) :
               m.mInFlightPackets[i].mTransmissionData = n + i
        /\ m.mDispatchedPacketCount = n + Len(m.mInFlightPackets)
        /\ m.mAckedPacketCount + m.mDroppedPacketCount = n

EveryPacketHasOneFate ==
    \A e \in Endpoint : OneFateEach(manager[e], callbacks[e])

HasAccepted(e, n) == \E j \in 1 .. Len(accepted[e]) : accepted[e][j] = n

\* A packet is reported delivered only if the peer accepted it
\* (DeliveryNotificationManager.cpp:139-144, "Acked packet").
DeliveredWasAccepted ==
    \A e \in Endpoint : \A i \in 1 .. Len(callbacks[e]) :
        callbacks[e][i].delivered =>
            HasAccepted(Peer(e), callbacks[e][i].mTransmissionData)

\* However the network reorders or repeats datagrams, an endpoint takes
\* payloads in the order of dispatch and none twice
\* (DeliveryNotificationManager.cpp:97-102).
AcceptedInOrder ==
    \A e \in Endpoint : \A i, j \in 1 .. Len(accepted[e]) :
        i < j => accepted[e][i] < accepted[e][j]

\* A datagram that would be dropped as old has been overtaken: its receiver
\* has accepted it or a later one ("This is an old packet, so ignore it",
\* DeliveryNotificationManager.cpp:97-99).  A packet that nothing overtook is
\* dropped only by a receiver that has accepted nothing yet, and only below a
\* number its uninitialized memory may have held (line 68).
OnlyOldPacketsAreIgnored ==
    \A e \in Endpoint : \A d \in network :
        (d.src = Peer(e) /\ IsOld(manager[e], d.seq)) =>
            \/ \E j \in 1 .. Len(accepted[e]) : accepted[e][j] >= d.payload
            \/ accepted[e] = << >> /\ \E g \in GarbageValues : d.seq < g

Acknowledges(acks, seq) ==
    \E i \in 1 .. Len(acks) :
        seq >= acks[i].mStart /\ seq < acks[i].mStart + acks[i].mCount

\* No ack is forgotten before it is sent: the number of every packet an
\* endpoint accepted is in its pending acks or in a datagram that it sent
\* (AddPendingAck, WritePendingAcks and AckRange::Write,
\* DeliveryNotificationManager.cpp:24-34 and 107-124).
EveryAcceptedPacketIsAcked ==
    \A e \in Endpoint : \A d \in network :
        (d.src = Peer(e) /\ HasAccepted(e, d.payload)) =>
            \/ Acknowledges(manager[e].mPendingAcks, d.seq)
            \/ \E f \in network : f.src = e /\ Acknowledges(f.acks, d.seq)

\* No range runs past the largest sequence number, which ProcessAcks needs:
\* its end is the sum of a 16-bit start and a 32-bit count
\* (ExtendIfAdjacent, DeliveryNotificationManager.cpp:16-22).
AckRangesDoNotWrap ==
    LET DoNotWrap(acks) ==
            \A i \in 1 .. Len(acks) : acks[i].mStart + acks[i].mCount <= SeqMod
    IN  /\ \A e \in Endpoint : DoNotWrap(manager[e].mPendingAcks)
        /\ \A d \in network : DoNotWrap(d.acks)

\* When an endpoint accepts a packet, every packet that its acks name leaves
\* the queue ("delivery success/failure callbacks fire when acks arrive",
\* examples/delivery_notification_socket.cpp:13).
AcksAreAllProcessed ==
    [][\A e \in Endpoint : \A d \in network :
          ReceivePacket(e, d) =>
              \A i \in 1 .. Len(manager'[e].mInFlightPackets) :
                  ~Acknowledges(d.acks,
                       manager'[e].mInFlightPackets[i].mSequenceNumber)]_vars

\* A sweep stops at the first packet that is not late, and still leaves no
\* late packet behind and reports no other packet
\* (ProcessTimeoutPackets, DeliveryNotificationManager.cpp:173-185).
SweepIsExact ==
    [][\A e \in Endpoint :
          SweepTimeouts(e) =>
              LET queue == manager[e].mInFlightPackets
                  left  == Len(manager'[e].mInFlightPackets)
              IN  \A i \in 1 .. Len(queue) :
                      (i <= Len(queue) - left)
                          <=> (now - queue[i].mTimeDispatched > kAckTimeoutMs)]_vars

\* Every packet that is dispatched by an endpoint whose user keeps sweeping is
\* reported, delivered or not, even if nothing ever arrives and its peer never
\* sweeps (ProcessTimeoutPackets, DeliveryNotificationManager.cpp:173-185).
EveryPacketIsReported ==
    \A e \in Sweepers : \A n \in 1 .. MaxDispatched :
        (manager[e].mDispatchedPacketCount >= n) ~> (Len(callbacks[e]) >= n)

----------------------------------------------------------------------------
(***************************************************************************)
(* What holds while no sequence number has wrapped, and why a delivered    *)
(* packet was accepted: the parts of the inductive invariant.              *)
(***************************************************************************)
NoWrap == MaxDispatched + 1 < SeqMod

\* Sequence numbers count the packets dispatched.
NumberedInOrder(m) ==
    /\ m.mDispatchedPacketCount <= MaxDispatched
    /\ m.mNextOutgoingSequenceNumber = m.mDispatchedPacketCount + 1
    /\ \A i \in 1 .. Len(m.mInFlightPackets) :
           m.mInFlightPackets[i].mSequenceNumber =
               m.mInFlightPackets[i].mTransmissionData

DatagramsAreNumbered ==
    \A d \in network :
        /\ d.seq = d.payload
        /\ d.payload >= 1
        /\ d.payload <= manager[d.src].mDispatchedPacketCount

\* An endpoint expects a number above all it accepted.
AcceptedBelowExpected ==
    \A e \in Endpoint : \A i \in 1 .. Len(accepted[e]) :
        /\ accepted[e][i] >= 1
        /\ accepted[e][i] < manager[e].mNextExpectedSequenceNumber
        /\ accepted[e][i] <= manager[Peer(e)].mDispatchedPacketCount

\* Acks name only packets that were accepted.
Honest(e, acks) ==
    \A i \in 1 .. Len(acks) :
        \A s \in acks[i].mStart .. (acks[i].mStart + acks[i].mCount - 1) :
            HasAccepted(e, s)

AcksAreHonest ==
    /\ \A e \in Endpoint : Honest(e, manager[e].mPendingAcks)
    /\ \A d \in network : Honest(d.src, d.acks)

\* Together they are inductive (DeliveryNotificationManager.cpp:83-161): while
\* no number wraps, delivered means accepted and packets are taken in order.
DeliveryInvariant ==
    /\ TypeOK
    /\ EveryPacketHasOneFate
    /\ \A e \in Endpoint : NumberedInOrder(manager[e])
    /\ DatagramsAreNumbered
    /\ AcceptedBelowExpected
    /\ AcksAreHonest
    /\ DeliveredWasAccepted
    /\ AcceptedInOrder

----------------------------------------------------------------------------
(***************************************************************************)
(* Why acks are complete, drops are justified and sweeps exact: the parts  *)
(* of a second inductive invariant.                                        *)
(***************************************************************************)
\* A payload is in one datagram, which its sender has dispatched.
PayloadsAreDistinct ==
    /\ \A d, f \in network : d.src = f.src /\ d.payload = f.payload => d.seq = f.seq
    /\ \A d \in network : d.payload <= manager[d.src].mDispatchedPacketCount
    /\ \A e \in Endpoint : \A j \in 1 .. Len(accepted[e]) :
           accepted[e][j] <= manager[Peer(e)].mDispatchedPacketCount

\* No run of acks is longer than what was accepted.
RunsAreCovered ==
    \A e \in Endpoint :
        /\ Len(accepted[e]) <= MaxAccepted
        /\ \A i \in 1 .. Len(manager[e].mPendingAcks) :
               manager[e].mPendingAcks[i].mCount <= Len(accepted[e])

\* The expected number follows an accepted packet; before the first it is what
\* the manager's memory held.
ExpectedIsNext ==
    \A e \in Endpoint :
        \/ /\ accepted[e] = << >>
           /\ manager[e].mNextExpectedSequenceNumber \in GarbageValues
        \/ \E j \in 1 .. Len(accepted[e]) :
               manager[e].mNextExpectedSequenceNumber = accepted[e][j] + 1

\* The queue is in the order of dispatch times, which have passed.
TimesAreInOrder ==
    /\ now >= BootTime
    /\ \A e \in Endpoint :
           LET queue == manager[e].mInFlightPackets
           IN  \A i \in 1 .. Len(queue) :
                   /\ queue[i].mTimeDispatched <= now
                   /\ \A j \in 1 .. i :
                          queue[j].mTimeDispatched <= queue[i].mTimeDispatched

\* No accepted packet goes unacked, no packet is dropped that was not overtaken,
\* and what a sweep leaves is not late
\* (DeliveryNotificationManager.cpp:83-105, 107-124, 173-185).
BookkeepingInvariant ==
    /\ TypeOK
    /\ PayloadsAreDistinct
    /\ RunsAreCovered
    /\ EveryAcceptedPacketIsAcked
    /\ ExpectedIsNext
    /\ TimesAreInOrder

----------------------------------------------------------------------------
\* What a user of the managers is promised: see DeliveryPromise.
Reported(e) == [i \in 1 .. Len(callbacks[e]) |-> callbacks[e][i].delivered]

Promise ==
    INSTANCE DeliveryPromise WITH
        dispatched <- [e \in Endpoint |-> manager[e].mDispatchedPacketCount],
        accepted   <- accepted,
        reported   <- [e \in Endpoint |-> Reported(e)]

PromiseIsKept == Promise!Spec
============================================================================
