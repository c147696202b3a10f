------------------------------ MODULE Handover ------------------------------
(***************************************************************************)
(* What a file transfer promises, without chunks, acknowledgements or      *)
(* links: an item begins, arrives intact at most once, and is reported as  *)
(* completed only after it arrived; neither is ever taken back.            *)
(* client/lib/services/file_transfer_service.dart implements it.           *)
(***************************************************************************)
CONSTANT Item

VARIABLES begun, arrived, reported

vars == <<begun, arrived, reported>>

Init == begun = {} /\ arrived = {} /\ reported = {}

Begin(i) ==
  /\ i \notin begun
  /\ begun' = begun \cup {i}
  /\ UNCHANGED <<arrived, reported>>

Arrive(i) ==
  /\ i \in begun \ arrived
  /\ arrived' = arrived \cup {i}
  /\ UNCHANGED <<begun, reported>>

Report(i) ==
  /\ i \in arrived \ reported
  /\ reported' = reported \cup {i}
  /\ UNCHANGED <<begun, arrived>>

Next == \E i \in Item : Begin(i) \/ Arrive(i) \/ Report(i)

Spec == Init /\ [][Next]_vars
=============================================================================
