-------------------- MODULE DeliveryNotificationManager --------------------
(***************************************************************************)
(* One DeliveryNotificationManager: the bookkeeping one end of a           *)
(* connection keeps to learn which of its packets arrived.                 *)
(*                                                                         *)
(* A manager is a record with the fields of the C++ class.  Its methods    *)
(* are operators from a manager to a manager; the modules that own         *)
(* managers (DeliveryPair, GameSession) build their actions from them.     *)
(*                                                                         *)
(* Widths: a PacketSequenceNumber is a uint16_t, here a number below       *)
(* SeqMod.  The steady clock is a uint64_t, here a number below ClockMod.  *)
(* The three uint32_t packet counters are plain naturals: every model      *)
(* bounds the packets it dispatches far below 2^32.                        *)
(***************************************************************************)
EXTENDS Integers, Sequences

CONSTANTS
    SeqMod,         \* 2^16 in the code: PacketSequenceNumber wraps here
    MaxAckRun,      \* 256 in the code: the longest run one AckRange can send
    kAckTimeoutMs,  \* 1000 in the code
    ClockMod        \* 2^64 in the code: millisecond arithmetic wraps here

ASSUME ManagerAssumption ==
    /\ SeqMod \in Nat /\ SeqMod >= 2
    /\ MaxAckRun \in Nat \ {0}
    /\ kAckTimeoutMs \in Nat
    /\ ClockMod \in Nat /\ ClockMod > kAckTimeoutMs

PacketSequenceNumber == 0 .. (SeqMod - 1)

\* The increment of a uint16_t.
NextSequenceNumber(n) == IF n + 1 = SeqMod THEN 0 ELSE n + 1

(***************************************************************************)
(* mTransmissionData stands for the packet's mTransmissionDataList: every  *)
(* sender attaches one item per packet, so the item is identified by the   *)
(* packet's place in the order of dispatch.                                *)
(***************************************************************************)
InFlightPacket ==
    [mSequenceNumber : PacketSequenceNumber,
     mTimeDispatched : Nat,
     mTransmissionData : Nat]

\* mCount is a u_int32_t; it grows while consecutive packets are accepted.
AckRange == [mStart : PacketSequenceNumber, mCount : Nat \ {0}]

Manager ==
    [mNextOutgoingSequenceNumber : PacketSequenceNumber,
     mNextExpectedSequenceNumber : PacketSequenceNumber,
     mDispatchedPacketCount      : Nat,
     mAckedPacketCount           : Nat,
     mDroppedPacketCount         : Nat,
     mInFlightPackets            : Seq(InFlightPacket),
     mPendingAcks                : Seq(AckRange)]

(***************************************************************************)
(* mNextExpectedSequenceNumber has no initializer and no constructor sets  *)
(* it: a new manager starts with whatever value its memory held.           *)
(***************************************************************************)
NewManager(garbage) ==
    [mNextOutgoingSequenceNumber |-> 1,
     mNextExpectedSequenceNumber |-> garbage,
     mDispatchedPacketCount      |-> 0,
     mAckedPacketCount           |-> 0,
     mDroppedPacketCount         |-> 0,
     mInFlightPackets            |-> << >>,
     mPendingAcks                |-> << >>]

----------------------------------------------------------------------------
\* Sending.

\* The number written is m.mNextOutgoingSequenceNumber; now is GetTimeMS().
WriteSequenceNumber(m, now) ==
    [m EXCEPT
        !.mNextOutgoingSequenceNumber = NextSequenceNumber(@),
        !.mDispatchedPacketCount = @ + 1,
        !.mInFlightPackets =
            Append(@, [mSequenceNumber   |-> m.mNextOutgoingSequenceNumber,
                       mTimeDispatched   |-> now,
                       mTransmissionData |-> m.mDispatchedPacketCount + 1])]

\* Mutant: the reader takes the count-minus-one on the wire for the count.  (A
\* definition named X_Y is the definition X with a plausible bug, Y, to show that
\* a property would notice it; no specification uses it.)
OnWire_CountMinusOne(range) ==
    [range EXCEPT !.mCount = IF @ > 1 THEN @ - 1 ELSE 1]

\* AckRange::Write then AckRange::Read: the run is cut at MaxAckRun packets.
OnWire(range) ==
    [range EXCEPT !.mCount = IF @ > MaxAckRun THEN MaxAckRun ELSE @]

\* Mutant: the packet has room for one range.
AcksToWrite_FirstOnly(m) ==
    [i \in (1 .. Len(m.mPendingAcks)) \cap {1} |-> OnWire(m.mPendingAcks[i])]

\* The ranges WritePendingAcks puts in the packet: all of them.
AcksToWrite(m) == [i \in 1 .. Len(m.mPendingAcks) |-> OnWire(m.mPendingAcks[i])]

\* ... and it pops every range it wrote.
WritePendingAcks(m) == [m EXCEPT !.mPendingAcks = << >>]

----------------------------------------------------------------------------
\* Receiving.

\* Mutants: off by one in either direction.
IsOld_ByTwo(m, seq) == seq + 1 < m.mNextExpectedSequenceNumber
IsOld_OrExpected(m, seq) == seq <= m.mNextExpectedSequenceNumber

IsOld(m, seq) == seq < m.mNextExpectedSequenceNumber

\* Mutant: the sum is cut to 16 bits.
ExtendsIfAdjacent_16Bit(pending, seq) ==
    /\ pending # << >>
    /\ LET last == pending[Len(pending)]
       IN  seq = (last.mStart + last.mCount) % SeqMod

\* Only the newest range can grow.  mStart + mCount is computed in 32 bits,
\* so a run that reaches 2^16 - 1 is not extended by sequence number 0.
ExtendsIfAdjacent(pending, seq) ==
    /\ pending # << >>
    /\ LET last == pending[Len(pending)] IN seq = last.mStart + last.mCount

\* Mutant: a new range starts with the count of the default constructor.
AddPendingAck_Uncounted(pending, seq) ==
    Append(pending, [mStart |-> seq, mCount |-> 0])

AddPendingAck(pending, seq) ==
    IF ExtendsIfAdjacent(pending, seq)
    THEN [pending EXCEPT ![Len(pending)].mCount = @ + 1]
    ELSE Append(pending, [mStart |-> seq, mCount |-> 1])

\* Mutant: the next number expected is the one just received.
ProcessSequenceNumber_SameAgain(m, seq) ==
    IF IsOld(m, seq)
    THEN m
    ELSE [m EXCEPT !.mNextExpectedSequenceNumber = seq,
                   !.mPendingAcks = AddPendingAck(@, seq)]

\* The method returns ~IsOld(m, seq); an old packet leaves the manager alone.
ProcessSequenceNumber(m, seq) ==
    IF IsOld(m, seq)
    THEN m
    ELSE [m EXCEPT !.mNextExpectedSequenceNumber = NextSequenceNumber(seq),
                   !.mPendingAcks = AddPendingAck(@, seq)]

----------------------------------------------------------------------------
(***************************************************************************)
(* ProcessAcks reads ONE range, whatever the packet holds, and then loops  *)
(*                                                                         *)
(*   while (packetToCheck < packetToCheckEnd && !mInFlightPackets.empty()) *)
(*                                                                         *)
(* over a queue whose numbers are consecutive modulo SeqMod.  It pops the  *)
(* entries at the front that are below the start of the range as failures  *)
(* and then those below its end as successes.  When the end is SeqMod      *)
(* itself, a 32-bit value that the 16-bit packetToCheck can never reach,   *)
(* every entry is below it and the loop runs until the queue is empty.     *)
(* Module AckLoop has the loop one iteration at a time and shows that it   *)
(* does what these operators say.                                          *)
(***************************************************************************)
\* n entries at the front of the queue are below limit and the next is not.
PopsWhileBelow(queue, limit, n) ==
    /\ \A i \in 1 .. n : queue[i].mSequenceNumber < limit
    /\ n < Len(queue) => queue[n + 1].mSequenceNumber >= limit

\* Mutant: the end of the range is taken to be in it.
ProcessAcks_ThroughEnd(m, acks, missed, popped) ==
    IF acks = << >>
    THEN missed = 0 /\ popped = 0
    ELSE LET range == acks[1]
         IN  /\ PopsWhileBelow(m.mInFlightPackets, range.mStart, missed)
             /\ PopsWhileBelow(m.mInFlightPackets,
                               range.mStart + range.mCount + 1, popped)

\* popped entries leave the queue, the first missed of them as failures.
ProcessAcks(m, acks, missed, popped) ==
    IF acks = << >>
    THEN missed = 0 /\ popped = 0
    ELSE LET range == acks[1]
         IN  /\ PopsWhileBelow(m.mInFlightPackets, range.mStart, missed)
             /\ PopsWhileBelow(m.mInFlightPackets,
                               range.mStart + range.mCount, popped)

\* Unsigned subtraction: it wraps while the clock is below kAckTimeoutMs.
TimeoutTime(now) ==
    IF now >= kAckTimeoutMs THEN now - kAckTimeoutMs
                            ELSE ClockMod + now - kAckTimeoutMs

\* Mutants: a packet exactly kAckTimeoutMs old counts as late; the comparison
\* is the wrong way round.
ProcessTimeoutPackets_TooEarly(m, now, n) ==
    LET queue == m.mInFlightPackets
    IN  /\ \A i \in 1 .. n : queue[i].mTimeDispatched <= TimeoutTime(now)
        /\ n < Len(queue) => queue[n + 1].mTimeDispatched > TimeoutTime(now)
ProcessTimeoutPackets_Reversed(m, now, n) ==
    LET queue == m.mInFlightPackets
    IN  /\ \A i \in 1 .. n : queue[i].mTimeDispatched > TimeoutTime(now)
        /\ n < Len(queue) => queue[n + 1].mTimeDispatched <= TimeoutTime(now)

\* The loop pops from the front until it meets a packet that is not late.
ProcessTimeoutPackets(m, now, n) ==
    LET queue == m.mInFlightPackets
    IN  /\ \A i \in 1 .. n : queue[i].mTimeDispatched < TimeoutTime(now)
        /\ n < Len(queue) => queue[n + 1].mTimeDispatched >= TimeoutTime(now)

\* The manager after popped entries left, the first missed as failures.
AfterPops(m, missed, popped) ==
    [m EXCEPT
        !.mInFlightPackets = SubSeq(@, popped + 1, Len(@)),
        !.mDroppedPacketCount = @ + missed,
        !.mAckedPacketCount = @ + (popped - missed)]

\* The callbacks the pops make, in order: one per item of transmission data.
CallbacksOfPops(m, missed, popped) ==
    [i \in 1 .. popped |->
        [mTransmissionData |-> m.mInFlightPackets[i].mTransmissionData,
         delivered |-> i > missed]]
============================================================================
