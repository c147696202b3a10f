----------------------------- MODULE LossyFifo -----------------------------
(***************************************************************************)
(* What the relay promises to the programs that use it, without registry,  *)
(* queues or goroutines: every node may send numbered frames, and a frame  *)
(* reaches a node at most once, in the order of its sender, or never.      *)
(* server/router.go implements it; the protocols above the relay (file     *)
(* transfer, remote input) assume no more than this.                       *)
(***************************************************************************)
EXTENDS Naturals

CONSTANTS Node, Limit   \* Limit: bound on the frames of one sender

VARIABLES sent,   \* number of frames each node has sent
          last,   \* last[r][s]: number of the last frame of s that r received
          got,    \* how many frames each node received
          gone    \* nodes that left for good

vars == <<sent, last, got, gone>>

Init ==
  /\ sent = [s \in Node |-> 0]
  /\ last = [r \in Node |-> [s \in Node |-> 0]]
  /\ got = [r \in Node |-> 0]
  /\ gone = {}

Send(s) ==
  /\ s \notin gone
  /\ sent[s] < Limit
  /\ sent' = [sent EXCEPT ![s] = @ + 1]
  /\ UNCHANGED <<last, got, gone>>

\* r receives some frame of s later than all it received from s so far; the
\* frames in between are lost to r
Deliver(r, s) ==
  /\ r \notin gone
  /\ \E n \in last[r][s] + 1 .. sent[s] : last' = [last EXCEPT ![r][s] = n]
  /\ got' = [got EXCEPT ![r] = @ + 1]
  /\ UNCHANGED <<sent, gone>>

Leave(r) ==
  /\ r \notin gone
  /\ gone' = gone \cup {r}
  /\ UNCHANGED <<sent, last, got>>

Next == \E r \in Node : Send(r) \/ Leave(r) \/ \E s \in Node : Deliver(r, s)

Spec == Init /\ [][Next]_vars
=============================================================================
