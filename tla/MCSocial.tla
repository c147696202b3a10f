----------------------------- MODULE MCSocial -----------------------------
(* The tables of the server that relate users, for TLC: the friendship of  *)
(* a pair, one of whom makes two calls at a time, or the communities of    *)
(* two users, one with a plan that allows one and one with a plan that     *)
(* allows none.  The two share no row: a behaviour is about one of them,   *)
(* its subject.                                                            *)
EXTENDS Friendship, Communities, TLC

CONSTANTS a, b, a2,   \* the pair, whose names are those of their first clients
          u1, u2

VARIABLE subject

MCOwner == [c \in {a, b, a2} |-> IF c = b THEN b ELSE a]
MCPlans == [u \in User |-> IF u = u1 THEN 1 ELSE 0]
Interchangeable == Permutations(Community) \cup Permutations(Request)

MCInit ==
  /\ FriendsInit /\ Init
  /\ subject \in {"friendship", "communities"}
  /\ subject = "communities" => row.req = a

MCNext ==
  /\ \/ subject = "friendship" /\ FriendsNext /\ UNCHANGED vars
     \/ subject = "communities" /\ Next /\ UNCHANGED friendsVars
  /\ UNCHANGED subject

MCSpec == MCInit /\ [][MCNext]_<<vars, friendsVars, subject>>
=============================================================================
