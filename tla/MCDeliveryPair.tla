-------------------------- MODULE MCDeliveryPair --------------------------
(***************************************************************************)
(* Values for the constants of DeliveryPair that a cfg cannot write.       *)
(***************************************************************************)
EXTENDS DeliveryPair

\* Whatever the memory may have held: cleared, the number of the first packet,
\* the number of a later one, or one no packet reaches.
AnyGarbage == PacketSequenceNumber

\* Only the number of the first packet, as if it had been initialized.
Initialized == {1}

\* The endpoint of the example that calls ProcessTimeoutPackets.
OnlyA == {A}
============================================================================
