-------------------------- MODULE MCClientSession --------------------------
\* Two screens and one user, for TLC.
EXTENDS ClientSession, TLC

CONSTANTS r1, r2

Requests == {r1, r2}
Screens == Permutations(Requests)
=============================================================================
