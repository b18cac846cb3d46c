--------------------------- MODULE MCObjectStream ---------------------------
(***************************************************************************)
(* Constants for ObjectStream.                                             *)
(***************************************************************************)
EXTENDS ObjectStream

\* Bytes and numbers that no rotation, swap or shift takes to themselves.
A == [i \in BitIndex |-> BitOf(1, i)]
B == [i \in BitIndex |-> BitOf(6, i)]

TwoInts == {<<A, B>>, <<B, A>>}
ThreeStrings == {<< >>, <<B>>, <<B, A>>}
=============================================================================
