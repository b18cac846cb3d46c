--------------------------- MODULE MCGameSession ---------------------------
(***************************************************************************)
(* Values for the constants of GameSession that a cfg cannot write.        *)
(***************************************************************************)
EXTENDS GameSession, TLC

CONSTANTS c1, c2

TwoClients == {c1, c2}
OneClient == {c1}

\* Clients differ only in their addresses, and no liveness run uses this.
Symmetry == Permutations(Clients)

\* 2 refuses packet 1, were the result of ProcessSequenceNumber used.
SomeGarbage == {0, 2}
NoGarbage == {1}

NoFailures == {}
AnyFailure == {"socket", "bind", "sendto"}
============================================================================
