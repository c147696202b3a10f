----------------------------- MODULE MCLinks -----------------------------
(* What the client keeps up over links that fail, for TLC: the event       *)
(* socket with five channels, more than the three attempts allowed here,   *)
(* or a push and a pull of two chunks.  The two share nothing: a behaviour *)
(* is about one of them, its subject, and fair to that one.                *)
EXTENDS EventSocket, FileTransfer

VARIABLE subject

links == <<socketVars, vars, subject>>

MCInit ==
  /\ SocketInit /\ Init
  /\ subject \in {"socket", "transfer"}
  /\ subject = "socket" => trouble = {}
  /\ subject = "transfer" => reachable /\ ~malformed

OfSocket(A) == subject = "socket" /\ A /\ UNCHANGED <<vars, subject>>
OfTransfer(A) == subject = "transfer" /\ A /\ UNCHANGED <<socketVars, subject>>

MCNext == OfSocket(SocketNext) \/ OfTransfer(Next)

\* The fairness of SocketFairSpec and that of FileTransfer's Spec
MCFairness ==
  /\ WF_links(OfSocket(TimerFires))
  /\ WF_links(OfSocket(Listening))
  /\ WF_links(OfSocket(Disconnected))
  /\ \A t \in Transfer : WF_links(OfTransfer(UNCHANGED trouble /\ Service(t)))

MCSpec == MCInit /\ [][MCNext]_links /\ MCFairness
=============================================================================
