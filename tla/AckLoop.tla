------------------------------ MODULE AckLoop ------------------------------
(***************************************************************************)
(* The while loop of DeliveryNotificationManager::ProcessAcks, one         *)
(* iteration per step, from any queue of consecutive in-flight packets and *)
(* any range a peer can send.  DeliveryNotificationManager states what the *)
(* whole loop does with two counts (missed and popped); here that          *)
(* statement is checked against the loop itself.                           *)
(***************************************************************************)
EXTENDS DeliveryNotificationManager

CONSTANT MaxInFlight   \* bound on the length of the queue

ASSUME LoopAssumption == MaxInFlight \in Nat

VARIABLES
    queue,          \* mInFlightPackets when the loop starts
    range,          \* the AckRange that was read
    popped,         \* how many entries have left the queue
    results,        \* the outcome of each, TRUE for HandlePacketDeliverySuccess
    packetToCheck   \* uint16_t

vars == <<queue, range, popped, results, packetToCheck>>

\* Sequence number of the i-th entry of a queue that starts at number first.
Consecutive(first, i) == (first + i - 1) % SeqMod

Queues ==
    UNION {{[i \in 1 .. n |->
               [mSequenceNumber   |-> Consecutive(first, i),
                mTimeDispatched   |-> 0,
                mTransmissionData |-> i]] : first \in PacketSequenceNumber} :
           n \in 0 .. MaxInFlight}

\* A range never runs past the largest sequence number: see AckRangesDoNotWrap
\* in DeliveryPair.
Ranges == {r \in [mStart : PacketSequenceNumber, mCount : 1 .. SeqMod] :
              r.mStart + r.mCount <= SeqMod}

packetToCheckEnd == range.mStart + range.mCount

Init ==
    /\ queue \in Queues
    /\ range \in Ranges
    /\ popped = 0
    /\ results = << >>
    /\ packetToCheck = range.mStart

LoopCondition == packetToCheck < packetToCheckEnd /\ popped < Len(queue)

front == queue[popped + 1].mSequenceNumber

AckedPacket ==
    /\ LoopCondition
    /\ front = packetToCheck
    /\ results' = Append(results, TRUE)
    /\ popped' = popped + 1
    /\ packetToCheck' = NextSequenceNumber(packetToCheck)
    /\ UNCHANGED <<queue, range>>

\* Mutant: a missed packet is reported like an acked one.
MissedPacket_AsSuccess ==
    /\ LoopCondition
    /\ front < packetToCheck
    /\ results' = Append(results, TRUE)
    /\ popped' = popped + 1
    /\ UNCHANGED <<queue, range, packetToCheck>>

MissedPacket ==
    /\ LoopCondition
    /\ front < packetToCheck
    /\ results' = Append(results, FALSE)
    /\ popped' = popped + 1
    /\ UNCHANGED <<queue, range, packetToCheck>>

\* Mutants: the loop does not move on to the next in-flight packet; it moves
\* beyond it.
NewerPacket_Stays ==
    /\ LoopCondition
    /\ front > packetToCheck
    /\ UNCHANGED vars
NewerPacket_PastFront ==
    /\ LoopCondition
    /\ front > packetToCheck
    /\ packetToCheck' = NextSequenceNumber(front)
    /\ UNCHANGED <<queue, range, popped, results>>

NewerPacket ==
    /\ LoopCondition
    /\ front > packetToCheck
    /\ packetToCheck' = front
    /\ UNCHANGED <<queue, range, popped, results>>

Next == AckedPacket \/ MissedPacket \/ NewerPacket

\* One thread runs the loop to its end: nothing can stop it half-way.
Spec == Init /\ [][Next]_vars /\ WF_vars(Next)

----------------------------------------------------------------------------
TypeOK ==
    /\ queue \in Seq(InFlightPacket)
    /\ range \in AckRange
    /\ popped \in 0 .. Len(queue)
    /\ results \in Seq(BOOLEAN)
    /\ packetToCheck \in PacketSequenceNumber

LoopManager == [NewManager(0) EXCEPT !.mInFlightPackets = queue]

\* ProcessAcks (DeliveryNotificationManager.cpp:137-159): when the loop stops
\* it has popped exactly the entries that the operator ProcessAcks says, the
\* first ones as failures and all later ones as successes.
LoopDoesWhatProcessAcksSays ==
    ~LoopCondition =>
        \E missed \in 0 .. popped :
            /\ ProcessAcks(LoopManager, <<range>>, missed, popped)
            /\ results = [i \in 1 .. popped |-> i > missed]

\* Why it is so.  Until the first success everything popped is below the range;
\* from then on, or once the loop has moved packetToCheck, it is the number of
\* the front entry, since numbers are consecutive and both wrap in 16 bits.
MissedSoFar(missed) ==
    /\ results = [i \in 1 .. popped |-> i > missed]
    /\ \A i \in 1 .. missed : queue[i].mSequenceNumber < range.mStart
    /\ \A i \in 1 .. popped : queue[i].mSequenceNumber < packetToCheckEnd
    /\ \/ missed = popped /\ packetToCheck = range.mStart
       \/ /\ missed < Len(queue) => queue[missed + 1].mSequenceNumber >= range.mStart
          /\ popped < Len(queue) => front = packetToCheck

\* Inductive: each branch of the loop keeps it, and it says at the end what
\* LoopDoesWhatProcessAcksSays does (DeliveryNotificationManager.cpp:137-159).
LoopInvariant ==
    /\ TypeOK
    /\ range \in Ranges
    /\ \A i \in 1 .. Len(queue) - 1 :
           queue[i + 1].mSequenceNumber = NextSequenceNumber(queue[i].mSequenceNumber)
    /\ \E missed \in 0 .. popped : MissedSoFar(missed)

\* The loop compares a 16-bit counter that wraps with a 32-bit end that may
\* be 2^16 (DeliveryNotificationManager.cpp:134-137), and still it ends.
LoopTerminates == <>[]~LoopCondition
============================================================================
