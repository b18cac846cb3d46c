---------------------------- MODULE MCSelectEcho ----------------------------
(***************************************************************************)
(* Constants for SelectEcho.                                               *)
(***************************************************************************)
EXTENDS SelectEcho

CONSTANTS c1, c2, c3

TwoClients == {c1, c2}
ThreeClients == {c1, c2, c3}
First == {c1}
None == {}

\* A client sends more than the server takes at once.
TwoThreeOne == [c \in ThreeClients |-> IF c = c1 THEN 2 ELSE IF c = c2 THEN 3 ELSE 1]
ThreeAndOne == [c \in TwoClients |-> IF c = c1 THEN 3 ELSE 1]
=============================================================================
