----------------------------- MODULE MCPresence -----------------------------
\* Presence with two friends, the first with two connections, for TLC.
EXTENDS Presence, TLC

CONSTANTS u1, u2, c1, c2, c3

MCOwner == [c \in Conn |-> IF c = c3 THEN u2 ELSE u1]
MCFriends == {<<u1, u2>>, <<u2, u1>>}

\* The connections of the first user are exchangeable.
MCSymmetry == Permutations({c1, c2})
=============================================================================
