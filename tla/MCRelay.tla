------------------------------ MODULE MCRelay ------------------------------
(* Model-checking instance of Relay.                                       *)
EXTENDS Relay, FiniteSetsExt, TLC

CONSTANT TotalFrames   \* bound: frames sent over all connections together, and
                       \* one more, enough to fill a queue, until c2 connects
CONSTANTS c1, c2, c3, i1, i2, u1

FewFrames ==
  MapThenSumSet(LAMBDA c : sent[c], Conn)
    <= TotalFrames + IF pc[c2] = "idle" THEN 1 ELSE 0

\* What one running client does to the relay: it opens a connection with its
\* token and another without, both under its own id; c3 is its peer.
AppInit ==
  /\ Init
  /\ idOf = (c1 :> i1 @@ c2 :> i1 @@ c3 :> i2)
  /\ userOf = (c1 :> u1 @@ c2 :> NoUser @@ c3 :> NoUser)

\* c1 is the client's event socket: all it ever sends (dm_screen.dart:286) is of
\* a type readLoop ignores.
AppNext == Next /\ FewFrames' /\ sent'[c1] = 0

AppSpec == AppInit /\ [][AppNext]_vars /\ Fairness
=============================================================================
