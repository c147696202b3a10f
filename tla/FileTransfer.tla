---------------------------- MODULE FileTransfer ----------------------------
(***************************************************************************)
(* File transfers between the two ends of a session                        *)
(* (client/lib/services/file_transfer_service.dart).  One end sends files, *)
(* the other receives them; a transfer is a push (the sending end starts   *)
(* it) or a pull (the receiving end asks for it).  A file is acknowledged  *)
(* chunk by chunk, then as a whole after its SHA-256 was compared.         *)
(*                                                                         *)
(* Messages travel through the relay, in order and possibly lost (module   *)
(* LossyFifo).  handleSignal is not awaited by its caller, so every await  *)
(* in a handler lets other messages and the user in: what follows an await *)
(* is an action of its own, enabled by a pending task.                     *)
(***************************************************************************)
EXTENDS Naturals, Sequences

CONSTANTS Push, Pull,   \* transfers, by who starts them
          Chunks,       \* chunks of a file
          Troubles      \* sets of troubles a run may meet: "loss", the relay drops
                        \* messages; "locks", a file whose handle is still closing
                        \* may not be deletable; "disk", operations on files throw

Transfer == Push \cup Pull

ASSUME TransferAssumption ==
  /\ Push \cap Pull = {}
  /\ Chunks \in Nat \ {0}
  /\ Troubles \subseteq SUBSET {"loss", "locks", "disk"}

VARIABLES
  sq,       \* sending end: status of the queue item, "none" if there is none
  outgoing, \* sending end: keys of _outgoing
  next,     \* sending end: nextChunkIndex of the transfer's state object
  stask,    \* sending end: what a suspended handler waits for
  rq, incoming, rnext, rtask,   \* the same for the receiving end
  file,     \* the file on the receiving end: none, ".part" or in its place
  spoiled,  \* transfers with a chunk that is not the content first hashed
  toR, toS, \* messages on their way to the receiving and the sending end
  trouble   \* the troubles of this run

svars == <<sq, outgoing, next, stask, spoiled>>
rvars == <<rq, incoming, rnext, rtask, file>>
vars == <<svars, rvars, toR, toS, trouble>>

Msg(type, t, v) == [type |-> type, t |-> t, v |-> v]

Init ==
  /\ sq = [t \in Transfer |-> "none"]
  /\ rq = [t \in Transfer |-> "none"]
  /\ outgoing = {} /\ incoming = {}
  /\ next = [t \in Transfer |-> 0]
  /\ rnext = [t \in Transfer |-> 0]
  /\ stask = [t \in Transfer |-> "none"]
  /\ rtask = [t \in Transfer |-> "none"]
  /\ file = [t \in Transfer |-> "none"]
  /\ spoiled = {}
  /\ toR = <<>> /\ toS = <<>>
  /\ trouble \in Troubles

\* _sendSignal: the queue of messages after m was sent on it, or lost
Sent(q, m) == {Append(q, m)} \cup (IF "loss" \in trouble THEN {q} ELSE {})

\* _updateQueue: only an item that exists is updated
Updated(s, old) == IF old = "none" THEN old ELSE s

CanCancel(status) == status \in {"pending", "in-progress"}
Terminal == {"completed", "failed", "canceled"}

-----------------------------------------------------------------------------
(* The sending end                                                         *)

\* sendFilesToRemote, up to the await that opens the file
StartPush(t) ==
  /\ t \in Push /\ sq[t] = "none"
  /\ sq' = [sq EXCEPT ![t] = "pending"]
  /\ stask' = [stask EXCEPT ![t] = "opening"]
  /\ UNCHANGED <<outgoing, next, spoiled, rvars, toR, toS>>

\* ... and after it: the transfer is registered and offered
Offer(t) ==
  /\ t \in Push /\ stask[t] = "opening"
  /\ outgoing' = outgoing \cup {t}
  /\ stask' = [stask EXCEPT ![t] = "none"]
  /\ toR' \in Sent(toR, Msg("Init", t, 0))
  /\ UNCHANGED <<sq, next, spoiled, rvars, toS>>

Arrives(q, type, t) == q # <<>> /\ Head(q).type = type /\ Head(q).t = t

\* _handleInit for a pull: the path or the size is refused, or the file is
\* hashed and opened ...
ReceivePull(t) ==
  /\ Arrives(toS, "Init", t)
  /\ \/ /\ stask' = [stask EXCEPT ![t] = "opening"]
        /\ UNCHANGED toR
     \/ /\ toR' \in Sent(toR, Msg("InitAck", t, 0))
        /\ UNCHANGED stask
  /\ toS' = Tail(toS)
  /\ UNCHANGED <<sq, outgoing, next, spoiled, rvars>>

\* ... and then accepted
AcceptPull(t) ==
  /\ t \in Pull /\ stask[t] = "opening"
  /\ outgoing' = outgoing \cup {t}
  /\ sq' = [sq EXCEPT ![t] = "pending"]
  /\ stask' = [stask EXCEPT ![t] = "none"]
  /\ toR' \in Sent(toR, Msg("InitAck", t, 1))
  /\ UNCHANGED <<next, spoiled, rvars, toS>>

\* _handleInitAck: an accepted transfer reads its first chunk
ReceiveInitAck(t) ==
  /\ Arrives(toS, "InitAck", t)
  /\ toS' = Tail(toS)
  /\ IF t \notin outgoing THEN UNCHANGED svars
     ELSE IF Head(toS).v = 1
       THEN /\ stask' = [stask EXCEPT ![t] = "reading"]
            /\ UNCHANGED <<sq, outgoing, next, spoiled>>
       ELSE /\ outgoing' = outgoing \ {t}
            /\ sq' = [sq EXCEPT ![t] = Updated("failed", @)]
            /\ UNCHANGED <<next, stask, spoiled>>
  /\ UNCHANGED <<rvars, toR>>

\* fault: the next chunk is read ahead of the acknowledgement
ReadAhead == "reading"

\* One chunk at a time: after a chunk the sender waits
Wait == "none"

\* _sendNextChunk after its reads.  The file may have been edited since it was
\* hashed.  A cancel closed it if t left outgoing: the read then throws, or had
\* already been answered.
SendChunk(t) ==
  /\ stask[t] = "reading"
  /\ stask' = [stask EXCEPT ![t] = Wait]
  /\ \/ /\ toR' \in Sent(toR, Msg("Chunk", t, next[t]))
        /\ spoiled' \in {spoiled, spoiled \cup {t}}
     \/ t \notin outgoing /\ UNCHANGED <<toR, spoiled>>
  /\ UNCHANGED <<sq, outgoing, next, rvars, toS>>

\* ... or the file has become shorter than it was
ReadFails(t) ==
  /\ stask[t] = "reading"
  /\ stask' = [stask EXCEPT ![t] = "none"]
  /\ sq' = [sq EXCEPT ![t] = Updated("failed", @)]
  /\ toR' \in Sent(toR, Msg("Error", t, 0))
  /\ UNCHANGED <<outgoing, next, spoiled, rvars, toS>>

\* fault: one chunk too many
OneMore(n) == n > Chunks

AllAcked(n) == n >= Chunks

\* _handleChunkAck: the next chunk is read, or all were acknowledged
ReceiveChunkAck(t) ==
  /\ Arrives(toS, "ChunkAck", t)
  /\ toS' = Tail(toS)
  /\ IF t \notin outgoing \/ Head(toS).v # next[t] THEN UNCHANGED <<svars, toR>>
     ELSE /\ next' = [next EXCEPT ![t] = @ + 1]
          /\ sq' = [sq EXCEPT ![t] = Updated("in-progress", @)]
          /\ UNCHANGED <<outgoing, spoiled>>
          /\ IF AllAcked(next[t] + 1)
               THEN toR' \in Sent(toR, Msg("Complete", t, 0)) /\ UNCHANGED stask
               ELSE stask' = [stask EXCEPT ![t] = "reading"] /\ UNCHANGED toR
  /\ UNCHANGED rvars

\* _handleCompleteAck: also for a transfer that is no longer in outgoing
ReceiveCompleteAck(t) ==
  /\ Arrives(toS, "CompleteAck", t)
  /\ toS' = Tail(toS)
  /\ outgoing' = outgoing \ {t}
  /\ sq' = [sq EXCEPT ![t] = Updated(IF Head(toS).v = 1 THEN "completed" ELSE "failed", @)]
  /\ UNCHANGED <<next, stask, spoiled, rvars, toR>>

\* _handleError and _handleCancel on the sending end
SenderStopped(t) ==
  /\ Arrives(toS, "Error", t) \/ Arrives(toS, "Cancel", t)
  /\ toS' = Tail(toS)
  /\ outgoing' = outgoing \ {t}
  /\ sq' = [sq EXCEPT ![t] =
              Updated(IF Head(toS).type = "Error" THEN "failed" ELSE "canceled", @)]
  /\ UNCHANGED <<next, stask, spoiled, rvars, toR>>

\* cancelTransfer by the user of the sending end
SenderCancels(t) ==
  /\ CanCancel(sq[t])
  /\ outgoing' = outgoing \ {t}
  /\ sq' = [sq EXCEPT ![t] = "canceled"]
  /\ toR' \in Sent(toR, Msg("Cancel", t, 0))
  /\ UNCHANGED <<next, stask, spoiled, rvars, toS>>

\* Opening, hashing or reading the file throws.  Nothing catches it: the handler
\* ends there, and neither the queue nor the other end is told.
SenderThrows(t) ==
  /\ "disk" \in trouble /\ stask[t] # "none"
  /\ stask' = [stask EXCEPT ![t] = "none"]
  /\ UNCHANGED <<sq, outgoing, next, spoiled, rvars, toR, toS>>

-----------------------------------------------------------------------------
(* The receiving end                                                       *)

\* requestReceiveFromRemote: nothing is registered in incoming
StartPull(t) ==
  /\ t \in Pull /\ rq[t] = "none"
  /\ rq' = [rq EXCEPT ![t] = "pending"]
  /\ toS' \in Sent(toS, Msg("Init", t, 0))
  /\ UNCHANGED <<svars, incoming, rnext, rtask, file, toR>>

\* _handleInitAck on the end that asked for a pull: _outgoing has no entry
PullAnswered(t) ==
  /\ Arrives(toR, "InitAck", t)
  /\ toR' = Tail(toR)
  /\ UNCHANGED <<svars, rvars, toS>>

\* _handleInit: the user is asked
ReceiveOffer(t) ==
  /\ Arrives(toR, "Init", t)
  /\ toR' = Tail(toR)
  /\ rtask' = [rtask EXCEPT ![t] = "asking"]
  /\ UNCHANGED <<svars, rq, incoming, rnext, file, toS>>

\* ... refuses, or the folder cannot be created
Refuse(t) ==
  /\ rtask[t] = "asking"
  /\ rtask' = [rtask EXCEPT ![t] = "none"]
  /\ toS' \in Sent(toS, Msg("InitAck", t, 0))
  /\ UNCHANGED <<svars, rq, incoming, rnext, file, toR>>

\* ... or agrees, and the temporary file is opened ...
Approve(t) ==
  /\ rtask[t] = "asking"
  /\ rtask' = [rtask EXCEPT ![t] = "opening"]
  /\ file' = [file EXCEPT ![t] = "part"]
  /\ UNCHANGED <<svars, rq, incoming, rnext, toR, toS>>

\* ... and the transfer is registered and accepted
Accept(t) ==
  /\ rtask[t] = "opening"
  /\ rtask' = [rtask EXCEPT ![t] = "none"]
  /\ incoming' = incoming \cup {t}
  /\ rq' = [rq EXCEPT ![t] = "in-progress"]
  /\ toS' \in Sent(toS, Msg("InitAck", t, 1))
  /\ UNCHANGED <<svars, rnext, file, toR>>

\* _handleChunk: the next chunk is written, any other one is an error
ReceiveChunk(t) ==
  /\ Arrives(toR, "Chunk", t)
  /\ toR' = Tail(toR)
  /\ IF t \notin incoming THEN UNCHANGED <<rq, rtask, toS>>
     ELSE IF Head(toR).v = rnext[t]
       THEN rtask' = [rtask EXCEPT ![t] = "writing"] /\ UNCHANGED <<rq, toS>>
       ELSE /\ toS' \in Sent(toS, Msg("Error", t, 0))
            /\ rq' = [rq EXCEPT ![t] = Updated("failed", @)]
            /\ UNCHANGED rtask
  /\ UNCHANGED <<svars, incoming, rnext, file>>

\* fault: the index expected next is not advanced
Stuck(n) == n

Advanced(n) == n + 1

\* fault: the acknowledgement names the chunk expected next
NextIndex(n) == n + 1

\* Chunks are acknowledged by their own index
AckIndex(n) == n

\* ... and acknowledged once written, whatever became of the transfer
Written(t) ==
  /\ rtask[t] = "writing"
  /\ rtask' = [rtask EXCEPT ![t] = "none"]
  /\ rnext' = [rnext EXCEPT ![t] = Advanced(@)]
  /\ rq' = [rq EXCEPT ![t] = Updated("in-progress", @)]
  /\ toS' \in Sent(toS, Msg("ChunkAck", t, AckIndex(rnext[t])))
  /\ UNCHANGED <<svars, incoming, file, toR>>

\* _handleComplete: the transfer leaves incoming, its file is hashed ...
ReceiveComplete(t) ==
  /\ Arrives(toR, "Complete", t)
  /\ toR' = Tail(toR)
  /\ incoming' = incoming \ {t}
  /\ rtask' = IF t \in incoming THEN [rtask EXCEPT ![t] = "hashing"] ELSE rtask
  /\ UNCHANGED <<svars, rq, rnext, file, toS>>

\* fault: the digests are not compared
AnyDigest(t) == TRUE

\* The digest of the temporary file is the announced one
DigestMatches(t) == rnext[t] = Chunks /\ t \notin spoiled

\* ... moved into place and acknowledged ...
Finish(t) ==
  /\ rtask[t] = "hashing"
  /\ file[t] = "part" /\ DigestMatches(t)
  /\ rtask' = [rtask EXCEPT ![t] = "none"]
  /\ file' = [file EXCEPT ![t] = "final"]
  /\ rq' = [rq EXCEPT ![t] = Updated("completed", @)]
  /\ toS' \in Sent(toS, Msg("CompleteAck", t, 1))
  /\ UNCHANGED <<svars, incoming, rnext, toR>>

\* ... unless the file is gone or its content is wrong
Reject(t) ==
  /\ rtask[t] = "hashing"
  /\ ~(file[t] = "part" /\ DigestMatches(t))
  /\ rtask' = [rtask EXCEPT ![t] = "none"]
  /\ file' = [file EXCEPT ![t] = "none"]
  /\ rq' = [rq EXCEPT ![t] = Updated("failed", @)]
  /\ toS' \in Sent(toS, Msg("CompleteAck", t, 0))
  /\ UNCHANGED <<svars, incoming, rnext, toR>>

\* _IncomingTransferState.close(deleteTemp: true): the file is deleted while
\* its handle may still be closing.  Windows then refuses, deleteSync throws
\* and the rest of the caller is skipped.
Discard(t, completes) ==
  /\ incoming' = incoming \ {t}
  /\ IF t \notin incoming THEN completes /\ UNCHANGED file
     ELSE \/ completes /\ file' = [file EXCEPT ![t] = "none"]
          \/ "locks" \in trouble /\ ~completes /\ UNCHANGED file

\* _handleError and _handleCancel on the receiving end
ReceiverStopped(t) ==
  /\ Arrives(toR, "Error", t) \/ Arrives(toR, "Cancel", t)
  /\ toR' = Tail(toR)
  /\ \/ /\ Discard(t, TRUE)
        /\ rq' = [rq EXCEPT ![t] =
                    Updated(IF Head(toR).type = "Error" THEN "failed" ELSE "canceled", @)]
     \/ Discard(t, FALSE) /\ UNCHANGED rq
  /\ UNCHANGED <<svars, rnext, rtask, toS>>

\* Creating, opening, writing, hashing or moving the temporary file throws, with
\* no more notice than on the sending end
ReceiverThrows(t) ==
  /\ "disk" \in trouble /\ rtask[t] # "none"
  /\ rtask' = [rtask EXCEPT ![t] = "none"]
  /\ UNCHANGED <<svars, rq, incoming, rnext, file, toR, toS>>

\* cancelTransfer by the user of the receiving end
ReceiverCancels(t) ==
  /\ CanCancel(rq[t])
  /\ \/ /\ Discard(t, TRUE)
        /\ rq' = [rq EXCEPT ![t] = "canceled"]
        /\ toS' \in Sent(toS, Msg("Cancel", t, 0))
     \/ Discard(t, FALSE) /\ UNCHANGED <<rq, toS>>
  /\ UNCHANGED <<svars, rnext, rtask, toR>>

-----------------------------------------------------------------------------
User(t) == StartPush(t) \/ StartPull(t) \/ SenderCancels(t) \/ ReceiverCancels(t)

\* What the programs do on their own, and the user's answer to the dialog
Service(t) ==
  \/ Offer(t) \/ ReceivePull(t) \/ AcceptPull(t) \/ ReceiveInitAck(t)
  \/ SendChunk(t) \/ ReadFails(t) \/ ReceiveChunkAck(t) \/ ReceiveCompleteAck(t)
  \/ SenderStopped(t) \/ PullAnswered(t) \/ ReceiveOffer(t) \/ Refuse(t)
  \/ Approve(t) \/ Accept(t) \/ ReceiveChunk(t) \/ Written(t)
  \/ ReceiveComplete(t) \/ Finish(t) \/ Reject(t) \/ ReceiverStopped(t)
  \/ SenderThrows(t) \/ ReceiverThrows(t)

Next == UNCHANGED trouble /\ \E t \in Transfer : User(t) \/ Service(t)

\* Messages are handled, suspended handlers resume or throw, and the dialog is answered.
Fairness == \A t \in Transfer : WF_vars(UNCHANGED trouble /\ Service(t))

Spec == Init /\ [][Next]_vars /\ Fairness

-----------------------------------------------------------------------------
(* Properties                                                              *)

Status == {"none", "pending", "in-progress"} \cup Terminal
MsgSet == [type : {"Init", "InitAck", "Chunk", "ChunkAck", "Complete",
                   "CompleteAck", "Error", "Cancel"},
           t : Transfer, v : 0 .. Chunks]

\* Types of the two ends and of the links.
TypeOK ==
  /\ sq \in [Transfer -> Status] /\ rq \in [Transfer -> Status]
  /\ outgoing \subseteq Transfer /\ incoming \subseteq Transfer
  /\ next \in [Transfer -> 0 .. Chunks] /\ rnext \in [Transfer -> 0 .. Chunks]
  /\ stask \in [Transfer -> {"none", "opening", "reading"}]
  /\ rtask \in [Transfer -> {"none", "asking", "opening", "writing", "hashing"}]
  /\ file \in [Transfer -> {"none", "part", "final"}]
  /\ spoiled \subseteq Transfer
  /\ toR \in Seq(MsgSet) /\ toS \in Seq(MsgSet)
  /\ trouble \in Troubles

\* Messages of a type about t that are on a link
On(q, type, t) == {i \in 1 .. Len(q) : q[i].type = type /\ q[i].t = t}

\* A chunk that arrives while its transfer is open is the one expected: the
\* "Chunk sequence mismatch" path is never taken, whatever was lost, canceled
\* or suspended in between.
ChunksInSequence ==
  \A t \in incoming : \A i \in On(toR, "Chunk", t) : toR[i].v = rnext[t]

\* At most one chunk of a transfer is being read, travels, is being written or
\* waits for its acknowledgement to be handled: a slow receiver is not flooded.
StopAndWait ==
  \A t \in Transfer :
    LET busy == (IF stask[t] = "reading" THEN {<<"read", 0>>} ELSE {})
                  \cup (IF rtask[t] = "writing" THEN {<<"write", 0>>} ELSE {})
                  \cup {<<"chunk", i>> : i \in On(toR, "Chunk", t)}
                  \cup {<<"ack", i>> : i \in On(toS, "ChunkAck", t)}
    IN  \A a, b \in busy : a = b

\* The sending end shows "completed" only when the whole file, as hashed before
\* the first chunk, is in its place at the other end.
CompletedIsThere ==
  \A t \in Transfer :
    sq[t] = "completed" => file[t] = "final" /\ rnext[t] = Chunks /\ t \notin spoiled

\* A push the sending end shows as active comes to an end there, whoever cancels and
\* whenever, as long as the relay loses nothing, no deletion is refused and no
\* operation on a file throws: each of these leaves it active for ever.
PushEnds ==
  \A t \in Push :
    (trouble = {} /\ sq[t] \in {"pending", "in-progress"}) ~> (sq[t] \in Terminal)

\* What users are promised: a file arrives before it is reported, and a report
\* is never taken back.
Promise == INSTANCE Handover WITH
             Item <- Transfer,
             begun <- {t \in Transfer : sq[t] # "none"},
             arrived <- {t \in Transfer : file[t] = "final" /\ t \notin spoiled},
             reported <- {t \in Transfer : sq[t] = "completed"}
ImplementsHandover == Promise!Spec

\* The other end has accepted the pull and says so
Accepted(t) == \E i \in On(toR, "InitAck", t) : toR[i].v = 1

\* A session also receives files (APP_LOGIC.md:134): a pull the other end accepts
\* leaves "pending".  _handleInitAck ignores the acceptance, for want of an
\* _outgoing entry.
PullStarts == \A t \in Pull : (rq[t] = "pending" /\ Accepted(t)) ~> (rq[t] # "pending")
=============================================================================
