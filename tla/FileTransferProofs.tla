------------------------- MODULE FileTransferProofs -------------------------
(***************************************************************************)
(* Proofs about FileTransfer, for any transfers, any number of chunks and  *)
(* any troubles.                                                           *)
(*                                                                         *)
(* The argument: each transfer has one token.  It is a message of the      *)
(* hand-shake on one of the links or a suspended handler of one of the     *)
(* ends, and whoever holds it knows how far both ends have come.           *)
(***************************************************************************)
EXTENDS FileTransfer, TLAPS

Carried == {"Init", "InitAck", "Chunk", "ChunkAck", "Complete", "CompleteAck"}
Carries(m, t) == m.t = t /\ m.type \in Carried

\* The messages on a link that are the token of t, and that there is but one
Tokens(q, t) == {q[i] : i \in {j \in 1 .. Len(q) : Carries(q[j], t)}}
Once(q, t) ==
  \A i, j \in 1 .. Len(q) : Carries(q[i], t) /\ Carries(q[j], t) => i = j

\* One token
Alone(t) ==
  /\ Once(toR, t) /\ Once(toS, t)
  /\ Tokens(toR, t) # {} => Tokens(toS, t) = {} /\ stask[t] = "none" /\ rtask[t] = "none"
  /\ Tokens(toS, t) # {} => stask[t] = "none" /\ rtask[t] = "none"
  /\ stask[t] # "none" => rtask[t] = "none"

\* Both ends have acknowledged, and written, the same n chunks
Even(t, n) == t \in Push /\ next[t] = n /\ rnext[t] = n

\* What a token says, by where it is
ToReceiver(t) ==
  \A m \in Tokens(toR, t) :
    \/ m.type = "Init" /\ Even(t, 0)
    \/ m.type = "InitAck" /\ t \in Pull
    \/ m.type = "Chunk" /\ Even(t, m.v) /\ m.v < Chunks
    \/ m.type = "Complete" /\ Even(t, Chunks)
ToSender(t) ==
  \A m \in Tokens(toS, t) :
    \/ m.type = "Init" /\ t \in Pull
    \/ m.type = "InitAck" /\ Even(t, 0)
    \/ m.type = "ChunkAck" /\ t \in Push /\ next[t] = m.v /\ rnext[t] = m.v + 1
    \/ m.type = "CompleteAck" /\ t \in Push /\ (m.v = 1 => file[t] = "final")
Suspended(t) ==
  /\ stask[t] = "opening" => t \in Pull \/ Even(t, 0)
  /\ stask[t] = "reading" => Even(t, next[t]) /\ next[t] < Chunks
  /\ rtask[t] \in {"asking", "opening"} => Even(t, 0)
  /\ rtask[t] = "writing" => Even(t, next[t]) /\ next[t] < Chunks
  /\ rtask[t] = "hashing" => Even(t, Chunks) /\ t \notin incoming

\* What is left to do once the file is in its place: the last acknowledgement
Finished(t) ==
  /\ file[t] = "final" =>
       /\ rnext[t] = Chunks /\ t \notin spoiled /\ t \notin incoming
       /\ stask[t] = "none" /\ rtask[t] = "none" /\ Tokens(toR, t) = {}
       /\ \A m \in Tokens(toS, t) : m.type = "CompleteAck"
  /\ sq[t] = "completed" => file[t] = "final"

\* Nothing of a transfer exists before its user starts it
Unborn(t) ==
  (t \in Push /\ sq[t] = "none") \/ (t \in Pull /\ rq[t] = "none") =>
    /\ Tokens(toR, t) = {} /\ Tokens(toS, t) = {}
    /\ stask[t] = "none" /\ rtask[t] = "none"
    /\ next[t] = 0 /\ rnext[t] = 0 /\ file[t] # "final"

OneToken(t) ==
  Alone(t) /\ ToReceiver(t) /\ ToSender(t) /\ Suspended(t) /\ Finished(t) /\ Unborn(t)

TransferInv == TypeOK /\ \A t \in Transfer : OneToken(t)

-----------------------------------------------------------------------------
(* The links                                                               *)

\* A message of MsgSet has the fields its tokens are told by.
LEMMA MsgIsMessage ==
  ASSUME NEW type \in Carried \cup {"Error", "Cancel"}, NEW t \in Transfer,
         NEW v \in 0 .. Chunks
  PROVE  /\ Msg(type, t, v) \in MsgSet
         /\ Msg(type, t, v).type = type /\ Msg(type, t, v).t = t /\ Msg(type, t, v).v = v
BY DEF Msg, MsgSet, Carried

\* Where a message is put on a link, and what the rest of it is.
LEMMA Appended ==
  ASSUME NEW q \in Seq(MsgSet), NEW m \in MsgSet, NEW t
  PROVE  /\ Append(q, m) \in Seq(MsgSet)
         /\ ~Carries(m, t) => Tokens(Append(q, m), t) \subseteq Tokens(q, t)
         /\ ~Carries(m, t) /\ Once(q, t) => Once(Append(q, m), t)
         /\ Tokens(Append(q, m), t) \subseteq Tokens(q, t) \cup {m}
         /\ Tokens(q, t) = {} => Once(Append(q, m), t)
<1> DEFINE p == Append(q, m)
<1>1. /\ p \in Seq(MsgSet) /\ Len(p) = Len(q) + 1 /\ Len(q) \in Nat
      /\ p[Len(q) + 1] = m
      /\ \A i \in 1 .. Len(q) : p[i] = q[i]
  OBVIOUS
<1> HIDE DEF p
<1>2. \A i \in 1 .. Len(p) : i \in 1 .. Len(q) \/ i = Len(q) + 1
  BY <1>1
<1>3. ~Carries(m, t) => Tokens(p, t) \subseteq Tokens(q, t)
  BY <1>1, <1>2 DEF Tokens
<1>4. ~Carries(m, t) /\ Once(q, t) => Once(p, t)
  BY <1>1, <1>2 DEF Once
<1>5. Tokens(p, t) \subseteq Tokens(q, t) \cup {m}
  BY <1>1, <1>2 DEF Tokens
<1>6. ASSUME Tokens(q, t) = {} PROVE Once(p, t)
  <2>1. \A i \in 1 .. Len(q) : ~Carries(q[i], t)
    BY <1>6 DEF Tokens
  <2> QED BY <1>1, <1>2, <2>1 DEF Once
<1> QED BY <1>1, <1>3, <1>4, <1>5, <1>6 DEF p

\* Taking the token from a link leaves none there.
LEMMA Taken ==
  ASSUME NEW q \in Seq(MsgSet), q # <<>>, NEW t, Once(q, t)
  PROVE  /\ Head(q) \in MsgSet /\ Tail(q) \in Seq(MsgSet)
         /\ Once(Tail(q), t) /\ Tokens(Tail(q), t) \subseteq Tokens(q, t)
         /\ Carries(Head(q), t) => Head(q) \in Tokens(q, t) /\ Tokens(Tail(q), t) = {}
<1> DEFINE p == Tail(q)
<1>1. /\ p \in Seq(MsgSet) /\ Len(q) \in Nat \ {0} /\ Len(p) = Len(q) - 1
      /\ Head(q) = q[1] /\ Head(q) \in MsgSet
      /\ \A i \in 1 .. Len(p) : p[i] = q[i + 1]
  OBVIOUS
<1> HIDE DEF p
<1>2. 1 \in 1 .. Len(q) /\ \A i \in 1 .. Len(p) : i + 1 \in 1 .. Len(q) /\ i + 1 # 1
  BY <1>1
<1>3. Once(p, t)
  <2> SUFFICES ASSUME NEW i \in 1 .. Len(p), NEW j \in 1 .. Len(p),
                      Carries(p[i], t), Carries(p[j], t)
               PROVE  i = j
    BY DEF Once
  <2>1. i + 1 = j + 1
    BY <1>1, <1>2 DEF Once
  <2> QED BY <2>1, <1>1
<1>4. Tokens(p, t) \subseteq Tokens(q, t)
  BY <1>1, <1>2 DEF Tokens
<1>5. ASSUME Carries(Head(q), t) PROVE Head(q) \in Tokens(q, t) /\ Tokens(p, t) = {}
  <2>1. \A i \in 1 .. Len(p) : ~Carries(p[i], t)
    BY <1>1, <1>2, <1>5 DEF Once
  <2> QED BY <1>1, <1>2, <1>5, <2>1 DEF Tokens
<1> QED BY <1>1, <1>3, <1>4, <1>5 DEF p

\* A message sent, or lost: its transfer was without a token on that link.
LEMMA SentTokens ==
  ASSUME NEW q \in Seq(MsgSet), NEW m \in MsgSet, NEW p \in Sent(q, m), NEW t, Once(q, t)
  PROVE  /\ p \in Seq(MsgSet)
         /\ ~Carries(m, t) => Once(p, t) /\ Tokens(p, t) \subseteq Tokens(q, t)
         /\ Tokens(q, t) = {} => Once(p, t) /\ Tokens(p, t) \subseteq {m}
<1>1. p = Append(q, m) \/ p = q
  BY DEF Sent
<1>2. CASE p = Append(q, m)
  <2>1. /\ Append(q, m) \in Seq(MsgSet)
        /\ ~Carries(m, t) => Tokens(Append(q, m), t) \subseteq Tokens(q, t)
        /\ ~Carries(m, t) => Once(Append(q, m), t)
        /\ Tokens(Append(q, m), t) \subseteq Tokens(q, t) \cup {m}
    BY Appended
  <2> QED BY <1>2, <2>1, Appended
<1>3. CASE p = q
  BY <1>3
<1> QED BY <1>1, <1>2, <1>3

\* What transfer t does to a link is nothing to another transfer.
LEMMA OthersTokens ==
  ASSUME NEW q \in Seq(MsgSet), NEW p, NEW t, NEW x, x # t, Once(q, x),
         \/ p = q
         \/ \E m \in MsgSet : m.t = t /\ p \in Sent(q, m)
         \/ q # <<>> /\ Head(q).t = t /\ p = Tail(q)
  PROVE  Once(p, x) /\ Tokens(p, x) \subseteq Tokens(q, x)
<1>1. ASSUME NEW m \in MsgSet, m.t = t, p \in Sent(q, m)
      PROVE  Once(p, x) /\ Tokens(p, x) \subseteq Tokens(q, x)
  BY <1>1, SentTokens DEF Carries
<1>2. ASSUME q # <<>>, Head(q).t = t, p = Tail(q)
      PROVE  Once(p, x) /\ Tokens(p, x) \subseteq Tokens(q, x)
  <2>1. Once(Tail(q), x) /\ Tokens(Tail(q), x) \subseteq Tokens(q, x)
    BY <1>2, Taken
  <2> QED BY <1>2, <2>1
<1> QED BY <1>1, <1>2

-----------------------------------------------------------------------------
(* The steps                                                               *)

\* A step that moves no token of t, and may drop it
Fewer(t) ==
  /\ Once(toR', t) /\ Tokens(toR', t) \subseteq Tokens(toR, t)
  /\ Once(toS', t) /\ Tokens(toS', t) \subseteq Tokens(toS, t)
  /\ next'[t] = next[t] /\ rnext'[t] = rnext[t]
  /\ stask'[t] \in {stask[t], "none"} /\ rtask'[t] \in {rtask[t], "none"}
  /\ file'[t] = file[t] \/ (file[t] # "final" /\ file'[t] # "final")
  /\ t \in spoiled' => t \in spoiled
  /\ t \in incoming' => t \in incoming
  /\ sq'[t] = "none" => sq[t] = "none"
  /\ sq'[t] = "completed" => sq[t] = "completed"
  /\ rq'[t] = "none" => rq[t] = "none"

\* Such a step keeps t to its one token.
LEMMA FewerKeeps ==
  ASSUME NEW t, OneToken(t), Fewer(t)
  PROVE  OneToken(t)'
<1>1. Alone(t)'
  BY DEF OneToken, Alone, Fewer
<1>2. ToReceiver(t)'
  BY DEF OneToken, ToReceiver, Fewer, Even
<1>3. ToSender(t)'
  BY DEF OneToken, ToSender, Fewer, Even
<1>4. Suspended(t)'
  BY DEF OneToken, Suspended, Fewer, Even
<1>5. Finished(t)'
  BY DEF OneToken, Finished, Fewer
<1>6. Unborn(t)'
  BY DEF OneToken, Unborn, Fewer
<1> QED BY <1>1, <1>2, <1>3, <1>4, <1>5, <1>6 DEF OneToken

\* Links keep their type.
LEMMA LinkTyped ==
  ASSUME NEW q \in Seq(MsgSet), NEW type \in Carried \cup {"Error", "Cancel"},
         NEW t \in Transfer, NEW v \in 0 .. Chunks
  PROVE  /\ \A p \in Sent(q, Msg(type, t, v)) : p \in Seq(MsgSet)
         /\ q # <<>> => Tail(q) \in Seq(MsgSet)
<1>1. Msg(type, t, v) \in MsgSet
  BY MsgIsMessage
<1>2. Append(q, Msg(type, t, v)) \in Seq(MsgSet)
  BY <1>1
<1> QED BY <1>2 DEF Sent

\* Discarding the temporary file keeps the types.
LEMMA Discarded ==
  ASSUME TypeOK, NEW t \in Transfer, NEW b \in BOOLEAN, Discard(t, b)
  PROVE  incoming' \subseteq Transfer /\ file' \in [Transfer -> {"none", "part", "final"}]
<1>1. file \in [Transfer -> {"none", "part", "final"}] /\ incoming \subseteq Transfer
  BY DEF TypeOK
<1>2. incoming' = incoming \ {t} /\ (file' = file \/ file' = [file EXCEPT ![t] = "none"])
  BY DEF Discard
<1> QED BY <1>1, <1>2

\* Every step keeps the types; that no count exceeds Chunks is what the token says.
LEMMA TypeStep ==
  ASSUME TransferInv, NEW t \in Transfer, User(t) \/ Service(t), UNCHANGED trouble
  PROVE  TypeOK'
<1> USE TransferAssumption, LinkTyped
    DEF TransferInv, TypeOK, Updated, Status, Terminal, svars, rvars, Carried, Arrives
<1>1. CASE StartPush(t)
  BY <1>1 DEF StartPush
<1>2. CASE Offer(t)
  BY <1>2 DEF Offer
<1>3. CASE ReceivePull(t)
  <2>1. /\ stask' = stask \/ stask' = [stask EXCEPT ![t] = "opening"]
        /\ toS # <<>> /\ toS' = Tail(toS) /\ toR' \in Seq(MsgSet)
        /\ UNCHANGED <<sq, outgoing, next, spoiled, rvars>>
    BY <1>3 DEF ReceivePull
  <2> QED BY <2>1
<1>4. CASE AcceptPull(t)
  BY <1>4 DEF AcceptPull
<1>5. CASE ReceiveInitAck(t)
  <2>1. /\ sq' = sq \/ sq' = [sq EXCEPT ![t] = Updated("failed", @)]
        /\ stask' = stask \/ stask' = [stask EXCEPT ![t] = "reading"]
        /\ outgoing' \subseteq outgoing /\ toS # <<>> /\ toS' = Tail(toS)
        /\ UNCHANGED <<next, spoiled, rvars, toR>>
    BY <1>5 DEF ReceiveInitAck
  <2>2. sq' \in [Transfer -> Status] /\ stask' \in [Transfer -> {"none", "opening", "reading"}]
    BY <2>1
  <2> QED BY <2>1, <2>2
<1>6. CASE SendChunk(t)
  <2>1. spoiled' \subseteq Transfer /\ toR' \in Seq(MsgSet)
    BY <1>6 DEF SendChunk
  <2>2. stask' \in [Transfer -> {"none", "opening", "reading"}]
    BY <1>6 DEF SendChunk, Wait
  <2> QED BY <1>6, <2>1, <2>2 DEF SendChunk
<1>7. CASE ReadFails(t)
  BY <1>7 DEF ReadFails
<1>8. CASE ReceiveChunkAck(t)
  <2>1. CASE t \notin outgoing \/ Head(toS).v # next[t]
    BY <1>8, <2>1 DEF ReceiveChunkAck
  <2>2. CASE t \in outgoing /\ Head(toS).v = next[t]
    <3>1. Head(toS) \in Tokens(toS, t) /\ Head(toS).type = "ChunkAck"
      BY <1>8, Taken DEF ReceiveChunkAck, OneToken, Alone, Carries
    <3>2. rnext[t] = next[t] + 1
      BY <2>2, <3>1 DEF OneToken, ToSender
    <3>3. next[t] + 1 \in 0 .. Chunks
      BY <3>2
    <3>4. /\ next' = [next EXCEPT ![t] = @ + 1]
          /\ sq' = [sq EXCEPT ![t] = Updated("in-progress", @)]
          /\ toR' = toR \/ toR' \in Sent(toR, Msg("Complete", t, 0))
          /\ stask' = stask \/ stask' = [stask EXCEPT ![t] = "reading"]
          /\ toS # <<>> /\ toS' = Tail(toS) /\ UNCHANGED <<outgoing, spoiled, rvars>>
      BY <1>8, <2>2 DEF ReceiveChunkAck
    <3>5. next' \in [Transfer -> 0 .. Chunks]
      BY <3>3, <3>4
    <3>6. /\ sq' \in [Transfer -> Status]
          /\ stask' \in [Transfer -> {"none", "opening", "reading"}]
      BY <3>4
    <3>7. toR' \in Seq(MsgSet) /\ toS' \in Seq(MsgSet)
      BY <3>4
    <3> QED BY <3>4, <3>5, <3>6, <3>7
  <2> QED BY <2>1, <2>2
<1>9. CASE ReceiveCompleteAck(t)
  BY <1>9 DEF ReceiveCompleteAck
<1>10. CASE SenderStopped(t)
  BY <1>10 DEF SenderStopped
<1>11. CASE SenderCancels(t)
  BY <1>11 DEF SenderCancels
<1>12. CASE StartPull(t)
  BY <1>12 DEF StartPull
<1>13. CASE PullAnswered(t)
  BY <1>13 DEF PullAnswered
<1>14. CASE ReceiveOffer(t)
  BY <1>14 DEF ReceiveOffer
<1>15. CASE Refuse(t)
  BY <1>15 DEF Refuse
<1>16. CASE Approve(t)
  BY <1>16 DEF Approve
<1>17. CASE Accept(t)
  BY <1>17 DEF Accept
<1>18. CASE ReceiveChunk(t)
  <2>1. /\ rq' = rq \/ rq' = [rq EXCEPT ![t] = Updated("failed", @)]
        /\ rtask' = rtask \/ rtask' = [rtask EXCEPT ![t] = "writing"]
        /\ toS' = toS \/ toS' \in Sent(toS, Msg("Error", t, 0))
        /\ toR # <<>> /\ toR' = Tail(toR) /\ UNCHANGED <<svars, incoming, rnext, file>>
    BY <1>18 DEF ReceiveChunk
  <2>2. /\ rq' \in [Transfer -> Status]
        /\ rtask' \in [Transfer -> {"none", "asking", "opening", "writing", "hashing"}]
    BY <2>1
  <2>3. toS' \in Seq(MsgSet) /\ toR' \in Seq(MsgSet)
    BY <2>1
  <2> QED BY <2>1, <2>2, <2>3
<1>19. CASE Written(t)
  <2>1. rnext[t] + 1 \in 0 .. Chunks
    BY <1>19 DEF Written, OneToken, Suspended, Even
  <2>2. rnext' \in [Transfer -> 0 .. Chunks] /\ rq' \in [Transfer -> Status]
    BY <1>19, <2>1 DEF Written, Advanced
  <2>3. toS' \in Seq(MsgSet)
    BY <1>19 DEF Written, AckIndex
  <2> QED BY <1>19, <2>2, <2>3 DEF Written
<1>20. CASE ReceiveComplete(t)
  BY <1>20 DEF ReceiveComplete
<1>21. CASE Finish(t)
  BY <1>21 DEF Finish
<1>22. CASE Reject(t)
  BY <1>22 DEF Reject
<1>23. CASE ReceiverStopped(t)
  <2>1. incoming' \subseteq Transfer /\ file' \in [Transfer -> {"none", "part", "final"}]
    BY <1>23, Discarded DEF ReceiverStopped
  <2>2. rq' \in [Transfer -> Status]
    <3>1. \E w \in {"failed", "canceled"} : rq' = rq \/ rq' = [rq EXCEPT ![t] = Updated(w, @)]
      BY <1>23 DEF ReceiverStopped
    <3>2. ASSUME NEW w \in {"failed", "canceled"} PROVE Updated(w, rq[t]) \in Status
      OBVIOUS
    <3>3. rq \in [Transfer -> Status]
      OBVIOUS
    <3> QED
      <4> HIDE DEF Updated, TypeOK, TransferInv, Status, Terminal
      <4> QED BY <3>1, <3>2, <3>3
  <2>3. toR' \in Seq(MsgSet) /\ toS' \in Seq(MsgSet)
    BY <1>23 DEF ReceiverStopped
  <2> QED BY <1>23, <2>1, <2>2, <2>3 DEF ReceiverStopped
<1>24. CASE ReceiverCancels(t)
  <2>1. incoming' \subseteq Transfer /\ file' \in [Transfer -> {"none", "part", "final"}]
    BY <1>24, Discarded DEF ReceiverCancels
  <2>2. rq' \in [Transfer -> Status]
    <3>1. rq' = rq \/ rq' = [rq EXCEPT ![t] = "canceled"]
      BY <1>24 DEF ReceiverCancels
    <3> QED BY <3>1
  <2>3. toR' \in Seq(MsgSet) /\ toS' \in Seq(MsgSet)
    <3>1. toR' = toR /\ (toS' = toS \/ toS' \in Sent(toS, Msg("Cancel", t, 0)))
      BY <1>24 DEF ReceiverCancels
    <3> QED BY <3>1
  <2> QED BY <1>24, <2>1, <2>2, <2>3 DEF ReceiverCancels
<1>25. CASE SenderThrows(t) \/ ReceiverThrows(t)
  BY <1>25 DEF SenderThrows, ReceiverThrows
<1> QED
  BY <1>1, <1>2, <1>3, <1>4, <1>5, <1>6, <1>7, <1>8, <1>9, <1>10, <1>11, <1>12, <1>13,
     <1>14, <1>15, <1>16, <1>17, <1>18, <1>19, <1>20, <1>21, <1>22, <1>23, <1>24, <1>25
  DEF User, Service

\* What a step of t may do to a link: nothing, one message about t sent on it,
\* or one taken from it.
Touches(q, p, t) ==
  \/ p = q
  \/ \E m \in MsgSet : m.t = t /\ p \in Sent(q, m)
  \/ q # <<>> /\ Head(q).t = t /\ p = Tail(q)

\* What a step of t leaves alone of another transfer x
Elsewhere(x) ==
  /\ sq'[x] = sq[x] /\ rq'[x] = rq[x] /\ next'[x] = next[x] /\ rnext'[x] = rnext[x]
  /\ stask'[x] = stask[x] /\ rtask'[x] = rtask[x] /\ file'[x] = file[x]
  /\ x \in spoiled' <=> x \in spoiled
  /\ x \in incoming' => x \in incoming

\* A step of t touches the links so, and nothing of another transfer.
LEMMA StepTouches ==
  ASSUME TypeOK, NEW t \in Transfer, User(t) \/ Service(t)
  PROVE  /\ Touches(toR, toR', t) /\ Touches(toS, toS', t)
         /\ \A x \in Transfer \ {t} : Elsewhere(x)
<1> USE DEF Arrives, Carried
<1>1. \A type \in Carried \cup {"Error", "Cancel"}, v \in 0 .. Chunks :
        Msg(type, t, v) \in MsgSet /\ Msg(type, t, v).t = t
  BY MsgIsMessage
<1>2. {0, 1, next[t], rnext[t]} \subseteq 0 .. Chunks
  BY TransferAssumption DEF TypeOK
<1>3. Touches(toR, toR', t)
  <2> USE <1>1, <1>2 DEF Touches, svars, rvars
  <2>1. CASE StartPush(t) \/ Offer(t) \/ ReceivePull(t) \/ AcceptPull(t)
    BY <2>1 DEF StartPush, Offer, ReceivePull, AcceptPull
  <2>2. CASE ReceiveInitAck(t) \/ SendChunk(t) \/ ReadFails(t) \/ ReceiveChunkAck(t)
    BY <2>2 DEF ReceiveInitAck, SendChunk, ReadFails, ReceiveChunkAck
  <2>3. CASE ReceiveCompleteAck(t) \/ SenderStopped(t) \/ SenderCancels(t)
    BY <2>3 DEF ReceiveCompleteAck, SenderStopped, SenderCancels
  <2>4. CASE StartPull(t) \/ PullAnswered(t) \/ ReceiveOffer(t) \/ Refuse(t)
    BY <2>4 DEF StartPull, PullAnswered, ReceiveOffer, Refuse
  <2>5. CASE Approve(t) \/ Accept(t) \/ ReceiveChunk(t) \/ Written(t)
    BY <2>5 DEF Approve, Accept, ReceiveChunk, Written
  <2>6. CASE ReceiveComplete(t) \/ Finish(t) \/ Reject(t) \/ ReceiverStopped(t)
    BY <2>6 DEF ReceiveComplete, Finish, Reject, ReceiverStopped
  <2>7. CASE ReceiverCancels(t)
    BY <2>7 DEF ReceiverCancels
  <2>8. CASE SenderThrows(t) \/ ReceiverThrows(t)
    BY <2>8 DEF SenderThrows, ReceiverThrows
  <2> QED BY <2>1, <2>2, <2>3, <2>4, <2>5, <2>6, <2>7, <2>8 DEF User, Service
<1>4. Touches(toS, toS', t)
  <2> USE <1>1, <1>2 DEF Touches, svars, rvars, AckIndex
  <2>1. CASE StartPush(t) \/ Offer(t) \/ ReceivePull(t) \/ AcceptPull(t)
    BY <2>1 DEF StartPush, Offer, ReceivePull, AcceptPull
  <2>2. CASE ReceiveInitAck(t) \/ SendChunk(t) \/ ReadFails(t) \/ ReceiveChunkAck(t)
    BY <2>2 DEF ReceiveInitAck, SendChunk, ReadFails, ReceiveChunkAck
  <2>3. CASE ReceiveCompleteAck(t) \/ SenderStopped(t) \/ SenderCancels(t)
    BY <2>3 DEF ReceiveCompleteAck, SenderStopped, SenderCancels
  <2>4. CASE StartPull(t) \/ PullAnswered(t) \/ ReceiveOffer(t) \/ Refuse(t)
    BY <2>4 DEF StartPull, PullAnswered, ReceiveOffer, Refuse
  <2>5. CASE Approve(t) \/ Accept(t) \/ ReceiveChunk(t) \/ Written(t)
    BY <2>5 DEF Approve, Accept, ReceiveChunk, Written
  <2>6. CASE ReceiveComplete(t) \/ Finish(t) \/ Reject(t) \/ ReceiverStopped(t)
    BY <2>6 DEF ReceiveComplete, Finish, Reject, ReceiverStopped
  <2>7. CASE ReceiverCancels(t)
    BY <2>7 DEF ReceiverCancels
  <2>8. CASE SenderThrows(t) \/ ReceiverThrows(t)
    BY <2>8 DEF SenderThrows, ReceiverThrows
  <2> QED BY <2>1, <2>2, <2>3, <2>4, <2>5, <2>6, <2>7, <2>8 DEF User, Service
<1>5. ASSUME NEW x \in Transfer \ {t} PROVE Elsewhere(x)
  <2> USE <1>5 DEF TypeOK, Elsewhere, svars, rvars
  <2>1. CASE StartPush(t) \/ Offer(t) \/ ReceivePull(t) \/ AcceptPull(t)
    BY <2>1 DEF StartPush, Offer, ReceivePull, AcceptPull, Discard
  <2>2. CASE ReceiveInitAck(t) \/ SendChunk(t) \/ ReadFails(t) \/ ReceiveChunkAck(t)
    BY <2>2 DEF ReceiveInitAck, SendChunk, ReadFails, ReceiveChunkAck, Discard
  <2>3. CASE ReceiveCompleteAck(t) \/ SenderStopped(t) \/ SenderCancels(t)
    BY <2>3 DEF ReceiveCompleteAck, SenderStopped, SenderCancels, Discard
  <2>4. CASE StartPull(t) \/ PullAnswered(t) \/ ReceiveOffer(t) \/ Refuse(t)
    BY <2>4 DEF StartPull, PullAnswered, ReceiveOffer, Refuse, Discard
  <2>5. CASE Approve(t) \/ Accept(t) \/ ReceiveChunk(t) \/ Written(t)
    BY <2>5 DEF Approve, Accept, ReceiveChunk, Written, Discard
  <2>6. CASE ReceiveComplete(t) \/ Finish(t) \/ Reject(t) \/ ReceiverStopped(t)
    BY <2>6 DEF ReceiveComplete, Finish, Reject, ReceiverStopped, Discard
  <2>7. CASE ReceiverCancels(t)
    BY <2>7 DEF ReceiverCancels, Discard
  <2>8. CASE SenderThrows(t) \/ ReceiverThrows(t)
    BY <2>8 DEF SenderThrows, ReceiverThrows
  <2> QED BY <2>1, <2>2, <2>3, <2>4, <2>5, <2>6, <2>7, <2>8 DEF User, Service
<1> QED BY <1>3, <1>4, <1>5

\* A step of t keeps another transfer to its one token.
LEMMA OthersStep ==
  ASSUME TransferInv, NEW t \in Transfer, User(t) \/ Service(t),
         NEW x \in Transfer, x # t
  PROVE  OneToken(x)'
<1>1. TypeOK /\ OneToken(x)
  BY DEF TransferInv
<1>2. /\ toR \in Seq(MsgSet) /\ Once(toR, x)
      /\ toS \in Seq(MsgSet) /\ Once(toS, x)
  BY <1>1 DEF TypeOK, OneToken, Alone
<1>3. Touches(toR, toR', t) /\ Touches(toS, toS', t) /\ Elsewhere(x)
  BY <1>1, StepTouches
<1>4. Once(toR', x) /\ Tokens(toR', x) \subseteq Tokens(toR, x)
  BY ONLY <1>2, <1>3, OthersTokens, x # t DEF Touches
<1>5. Once(toS', x) /\ Tokens(toS', x) \subseteq Tokens(toS, x)
  BY ONLY <1>2, <1>3, OthersTokens, x # t DEF Touches
<1>6. Fewer(x)
  BY <1>3, <1>4, <1>5 DEF Fewer, Elsewhere
<1> QED BY <1>1, <1>6, FewerKeeps


\* The token of t that arrives was the only one.
LEMMA ArrivedAtReceiver ==
  ASSUME TransferInv, NEW t \in Transfer, NEW type \in Carried, Arrives(toR, type, t)
  PROVE  /\ Head(toR) \in Tokens(toR, t) /\ Head(toR).type = type
         /\ Once(Tail(toR), t) /\ Tokens(Tail(toR), t) = {}
         /\ Once(toS, t) /\ Tokens(toS, t) = {} /\ toS \in Seq(MsgSet)
         /\ stask[t] = "none" /\ rtask[t] = "none"
<1>1. toR \in Seq(MsgSet) /\ toS \in Seq(MsgSet) /\ toR # <<>> /\ Carries(Head(toR), t)
  BY DEF TransferInv, TypeOK, Arrives, Carries
<1>2. Alone(t)
  BY DEF TransferInv, OneToken
<1> QED BY <1>1, <1>2, Taken DEF Alone, Arrives

\* The same on the other link.
LEMMA ArrivedAtSender ==
  ASSUME TransferInv, NEW t \in Transfer, NEW type \in Carried, Arrives(toS, type, t)
  PROVE  /\ Head(toS) \in Tokens(toS, t) /\ Head(toS).type = type
         /\ Once(Tail(toS), t) /\ Tokens(Tail(toS), t) = {}
         /\ Once(toR, t) /\ Tokens(toR, t) = {} /\ toR \in Seq(MsgSet)
         /\ stask[t] = "none" /\ rtask[t] = "none"
<1>1. toR \in Seq(MsgSet) /\ toS \in Seq(MsgSet) /\ toS # <<>> /\ Carries(Head(toS), t)
  BY DEF TransferInv, TypeOK, Arrives, Carries
<1>2. Alone(t)
  BY DEF TransferInv, OneToken
<1> QED BY <1>1, <1>2, Taken DEF Alone, Arrives

\* A suspended handler has the token.
LEMMA Holder ==
  ASSUME TransferInv, NEW t \in Transfer, stask[t] # "none" \/ rtask[t] # "none"
  PROVE  /\ toR \in Seq(MsgSet) /\ Once(toR, t) /\ Tokens(toR, t) = {}
         /\ toS \in Seq(MsgSet) /\ Once(toS, t) /\ Tokens(toS, t) = {}
         /\ file[t] # "final" /\ sq[t] # "completed"
BY DEF TransferInv, TypeOK, OneToken, Alone, Finished

\* A token sent is the only one on its link.
LEMMA Passed ==
  ASSUME NEW q \in Seq(MsgSet), NEW t \in Transfer, Once(q, t), Tokens(q, t) = {},
         NEW type \in Carried, NEW v \in 0 .. Chunks, NEW p \in Sent(q, Msg(type, t, v))
  PROVE  /\ Once(p, t)
         /\ \A m \in Tokens(p, t) : m.type = type /\ m.v = v
<1>1. Msg(type, t, v) \in MsgSet /\ Msg(type, t, v).type = type /\ Msg(type, t, v).v = v
  BY MsgIsMessage
<1>2. Once(p, t) /\ Tokens(p, t) \subseteq {Msg(type, t, v)}
  BY <1>1, SentTokens
<1> QED BY <1>1, <1>2

\* The sending end takes, holds or passes on the token.
LEMMA SenderStep ==
  ASSUME TransferInv, TypeOK', NEW t \in Transfer,
         \/ StartPush(t) \/ Offer(t) \/ ReceivePull(t) \/ AcceptPull(t) \/ ReceiveInitAck(t)
         \/ SendChunk(t) \/ ReceiveChunkAck(t) \/ ReceiveCompleteAck(t)
  PROVE  OneToken(t)'
<1> USE TransferAssumption DEF Carried
<1>0. TypeOK /\ OneToken(t)
  BY DEF TransferInv
<1>r. toR \in Seq(MsgSet) /\ 0 \in 0 .. Chunks /\ next[t] \in 0 .. Chunks
  BY <1>0 DEF TypeOK
<1>1. CASE StartPush(t)
  <2>1. /\ Tokens(toR, t) = {} /\ Tokens(toS, t) = {} /\ Once(toR, t) /\ Once(toS, t)
        /\ rtask[t] = "none" /\ next[t] = 0 /\ rnext[t] = 0 /\ file[t] # "final"
        /\ t \in Push /\ t \notin Pull
    BY <1>0, <1>1 DEF StartPush, OneToken, Unborn, Alone
  <2>2. /\ sq'[t] = "pending" /\ stask'[t] = "opening"
        /\ UNCHANGED <<rq, next, rnext, rtask, file, toR, toS>>
    BY <1>0, <1>1 DEF StartPush, TypeOK, rvars
  <2> QED BY <2>1, <2>2
        DEF OneToken, Alone, ToReceiver, ToSender, Suspended, Finished, Unborn, Even
<1>2. CASE Offer(t)
  <2>1. /\ Tokens(toS, t) = {} /\ Once(toS, t) /\ t \in Push /\ t \notin Pull
        /\ rtask[t] = "none" /\ Even(t, 0) /\ file[t] # "final"
        /\ sq[t] # "none" /\ sq[t] # "completed"
    BY <1>0, <1>2, Holder DEF Offer, OneToken, Unborn, Suspended, Alone
  <2>2. /\ stask'[t] = "none" /\ toR' \in Sent(toR, Msg("Init", t, 0))
        /\ UNCHANGED <<sq, rq, next, rnext, rtask, file, toS>>
    BY <1>0, <1>2 DEF Offer, TypeOK, rvars
  <2>3. Once(toR', t) /\ \A m \in Tokens(toR', t) : m.type = "Init"
    BY <1>2, <2>2, Holder, Passed DEF Offer
  <2> QED BY <2>1, <2>2, <2>3
        DEF OneToken, Alone, ToReceiver, ToSender, Suspended, Finished, Unborn, Even
<1>3. CASE ReceivePull(t)
  <2>1. /\ Once(toS', t) /\ Tokens(toS', t) = {} /\ Once(toR, t) /\ Tokens(toR, t) = {}
        /\ rtask[t] = "none" /\ t \in Pull /\ t \notin Push
        /\ file[t] # "final" /\ sq[t] # "completed" /\ rq[t] # "none"
    BY <1>0, <1>3, ArrivedAtSender DEF ReceivePull, OneToken, ToSender, Finished, Unborn
  <2>2. /\ \/ stask'[t] = "opening" /\ toR' = toR
           \/ stask'[t] = "none" /\ toR' \in Sent(toR, Msg("InitAck", t, 0))
        /\ UNCHANGED <<sq, rq, next, rnext, rtask, file>>
    BY <1>0, <1>3, ArrivedAtSender DEF ReceivePull, TypeOK, rvars
  <2>3. /\ Once(toR', t) /\ \A m \in Tokens(toR', t) : m.type = "InitAck"
        /\ stask'[t] = "opening" => Tokens(toR', t) = {}
    <3>1. CASE toR' = toR
      BY <2>1, <3>1
    <3>2. CASE stask'[t] = "none" /\ toR' \in Sent(toR, Msg("InitAck", t, 0))
      BY <2>1, <3>2, <1>r, Passed
    <3> QED BY <2>2, <3>1, <3>2
  <2> QED BY <2>1, <2>2, <2>3
        DEF OneToken, Alone, ToReceiver, ToSender, Suspended, Finished, Unborn, Even
<1>4. CASE AcceptPull(t)
  <2>1. /\ Tokens(toS, t) = {} /\ Once(toS, t) /\ t \in Pull /\ t \notin Push
        /\ rtask[t] = "none" /\ file[t] # "final" /\ rq[t] # "none"
    BY <1>0, <1>4, Holder DEF AcceptPull, OneToken, Unborn, Alone
  <2>2. /\ stask'[t] = "none" /\ toR' \in Sent(toR, Msg("InitAck", t, 1)) /\ sq'[t] = "pending"
        /\ UNCHANGED <<rq, next, rnext, rtask, file, toS>>
    BY <1>0, <1>4 DEF AcceptPull, TypeOK, rvars
  <2>3. Once(toR', t) /\ \A m \in Tokens(toR', t) : m.type = "InitAck"
    BY <1>4, <2>2, Holder, Passed DEF AcceptPull
  <2> QED BY <2>1, <2>2, <2>3
        DEF OneToken, Alone, ToReceiver, ToSender, Suspended, Finished, Unborn, Even
<1>5. CASE ReceiveInitAck(t)
  <2>1. /\ Once(toS', t) /\ Tokens(toS', t) = {} /\ Once(toR, t) /\ Tokens(toR, t) = {}
        /\ rtask[t] = "none" /\ stask[t] = "none" /\ Even(t, 0) /\ t \notin Pull
        /\ file[t] # "final" /\ sq[t] # "completed" /\ sq[t] # "none"
    BY <1>0, <1>5, ArrivedAtSender
       DEF ReceiveInitAck, OneToken, ToSender, Finished, Unborn, Even
  <2>2. /\ stask'[t] = "reading" \/ stask'[t] = "none"
        /\ sq'[t] = sq[t] \/ sq'[t] = "failed"
        /\ UNCHANGED <<rq, next, rnext, rtask, file, toR>>
    BY <1>0, <1>5, <2>1 DEF ReceiveInitAck, TypeOK, Updated, svars, rvars
  <2>3. 0 < Chunks
    OBVIOUS
  <2> QED BY <2>1, <2>2, <2>3
        DEF OneToken, Alone, ToReceiver, ToSender, Suspended, Finished, Unborn, Even
<1>6. CASE SendChunk(t)
  <2>1. /\ Tokens(toS, t) = {} /\ Once(toS, t) /\ t \notin Pull
        /\ rtask[t] = "none" /\ Even(t, next[t]) /\ next[t] < Chunks
        /\ file[t] # "final" /\ sq[t] # "completed" /\ sq[t] # "none"
    BY <1>0, <1>6, Holder DEF SendChunk, OneToken, Unborn, Alone, Suspended, Even
  <2>2. /\ stask'[t] = "none"
        /\ toR' = toR \/ toR' \in Sent(toR, Msg("Chunk", t, next[t]))
        /\ UNCHANGED <<sq, rq, next, rnext, rtask, file, toS>>
    BY <1>0, <1>6 DEF SendChunk, TypeOK, rvars, Wait
  <2>3. Once(toR', t) /\ \A m \in Tokens(toR', t) : m.type = "Chunk" /\ m.v = next[t]
    <3>1. Once(toR, t) /\ Tokens(toR, t) = {}
      BY <1>6, Holder DEF SendChunk
    <3>2. CASE toR' \in Sent(toR, Msg("Chunk", t, next[t]))
      BY <1>r, <3>1, <3>2, Passed
    <3> QED BY <2>2, <3>1, <3>2
  <2> QED BY <2>1, <2>2, <2>3
        DEF OneToken, Alone, ToReceiver, ToSender, Suspended, Finished, Unborn, Even
<1>7. CASE ReceiveChunkAck(t)
  <2>1. /\ Once(toS', t) /\ Tokens(toS', t) = {} /\ Once(toR, t) /\ Tokens(toR, t) = {}
        /\ rtask[t] = "none" /\ stask[t] = "none" /\ t \in Push /\ t \notin Pull
        /\ next[t] = Head(toS).v /\ rnext[t] = next[t] + 1
        /\ file[t] # "final" /\ sq[t] # "completed" /\ sq[t] # "none"
    BY <1>0, <1>7, ArrivedAtSender
       DEF ReceiveChunkAck, OneToken, ToSender, Finished, Unborn, Even
  <2>2. CASE t \notin outgoing
    <3>1. UNCHANGED <<sq, rq, next, rnext, stask, rtask, file, toR>>
      BY <1>7, <2>2 DEF ReceiveChunkAck, svars, rvars
    <3> QED BY <2>1, <3>1
      DEF OneToken, Alone, ToReceiver, ToSender, Suspended, Finished, Unborn, Even
  <2>3. CASE t \in outgoing
    <3>1. /\ sq'[t] = "in-progress" /\ next'[t] = rnext[t]
          /\ UNCHANGED <<rq, rnext, rtask, file>>
      BY <1>0, <1>7, <2>1, <2>3 DEF ReceiveChunkAck, TypeOK, Updated, rvars
    <3>2. \/ /\ next'[t] >= Chunks
             /\ toR' \in Sent(toR, Msg("Complete", t, 0)) /\ stask' = stask
          \/ ~(next'[t] >= Chunks) /\ stask'[t] = "reading" /\ toR' = toR
      BY <1>0, <1>7, <2>1, <2>3 DEF ReceiveChunkAck, TypeOK, AllAcked
    <3>3. next'[t] \in 0 .. Chunks
      BY DEF TypeOK
    <3>4. CASE toR' \in Sent(toR, Msg("Complete", t, 0)) /\ stask' = stask /\ next'[t] >= Chunks
      <4>1. Once(toR', t) /\ \A m \in Tokens(toR', t) : m.type = "Complete"
        BY <1>r, <2>1, <3>4, Passed
      <4>2. next'[t] = Chunks
        BY <3>3, <3>4
      <4> QED BY <2>1, <3>1, <3>4, <4>1, <4>2
      DEF OneToken, Alone, ToReceiver, ToSender, Suspended, Finished, Unborn, Even
    <3>5. CASE ~(next'[t] >= Chunks) /\ stask'[t] = "reading" /\ toR' = toR
      <4>1. next'[t] < Chunks
        BY <3>3, <3>5
      <4> QED BY <2>1, <3>1, <3>5, <4>1
      DEF OneToken, Alone, ToReceiver, ToSender, Suspended, Finished, Unborn, Even
    <3> QED BY <3>2, <3>4, <3>5
  <2> QED BY <2>2, <2>3
<1>8. CASE ReceiveCompleteAck(t)
  <2>1. /\ Once(toS', t) /\ Tokens(toS', t) = {} /\ Once(toR, t) /\ Tokens(toR, t) = {}
        /\ rtask[t] = "none" /\ stask[t] = "none" /\ t \in Push /\ t \notin Pull
        /\ Head(toS).v = 1 => file[t] = "final"
        /\ sq[t] # "none"
    BY <1>0, <1>8, ArrivedAtSender DEF ReceiveCompleteAck, OneToken, ToSender, Unborn
  <2>2. /\ sq'[t] = IF Head(toS).v = 1 THEN "completed" ELSE "failed"
        /\ UNCHANGED <<rq, next, rnext, stask, rtask, file, toR, spoiled, incoming>>
    BY <1>0, <1>8, <2>1 DEF ReceiveCompleteAck, TypeOK, Updated, rvars
  <2>3. Finished(t)
    BY <1>0 DEF OneToken
  <2> QED BY <2>1, <2>2, <2>3
      DEF OneToken, Alone, ToReceiver, ToSender, Suspended, Finished, Unborn, Even
<1> QED BY <1>1, <1>2, <1>3, <1>4, <1>5, <1>6, <1>7, <1>8

\* The receiving end moves the token, or answers.
LEMMA ReceiverStep ==
  ASSUME TransferInv, TypeOK', NEW t \in Transfer,
         \/ StartPull(t) \/ ReceiveOffer(t) \/ Refuse(t) \/ Approve(t) \/ Accept(t)
         \/ ReceiveChunk(t) \/ Written(t) \/ ReceiveComplete(t) \/ Finish(t) \/ Reject(t)
  PROVE  OneToken(t)'
<1> USE TransferAssumption DEF Carried
<1>0. TypeOK /\ OneToken(t)
  BY DEF TransferInv
<1>r. /\ toS \in Seq(MsgSet) /\ 0 \in 0 .. Chunks /\ 1 \in 0 .. Chunks
      /\ next[t] \in 0 .. Chunks /\ rnext[t] \in 0 .. Chunks
  BY <1>0 DEF TypeOK
<1>1. CASE StartPull(t)
  <2>1. /\ Tokens(toR, t) = {} /\ Tokens(toS, t) = {} /\ Once(toR, t) /\ Once(toS, t)
        /\ rtask[t] = "none" /\ stask[t] = "none" /\ file[t] # "final" /\ sq[t] # "completed"
        /\ t \in Pull /\ t \notin Push
    BY <1>0, <1>1 DEF StartPull, OneToken, Unborn, Alone, Finished
  <2>2. /\ rq'[t] = "pending" /\ toS' \in Sent(toS, Msg("Init", t, 0))
        /\ UNCHANGED <<sq, next, rnext, stask, rtask, file, toR>>
    BY <1>0, <1>1 DEF StartPull, TypeOK, svars
  <2>3. Once(toS', t) /\ \A m \in Tokens(toS', t) : m.type = "Init"
    BY <1>r, <2>1, <2>2, Passed
  <2> QED BY <2>1, <2>2, <2>3
      DEF OneToken, Alone, ToReceiver, ToSender, Suspended, Finished, Unborn, Even
<1>2. CASE ReceiveOffer(t)
  <2>1. /\ Once(toR', t) /\ Tokens(toR', t) = {} /\ Once(toS, t) /\ Tokens(toS, t) = {}
        /\ stask[t] = "none" /\ Even(t, 0) /\ t \notin Pull
        /\ file[t] # "final" /\ sq[t] # "completed" /\ sq[t] # "none"
    BY <1>0, <1>2, ArrivedAtReceiver
       DEF ReceiveOffer, OneToken, ToReceiver, Finished, Unborn, Even
  <2>2. rtask'[t] = "asking" /\ UNCHANGED <<sq, rq, next, rnext, stask, file, toS>>
    BY <1>0, <1>2 DEF ReceiveOffer, TypeOK, svars
  <2> QED BY <2>1, <2>2
      DEF OneToken, Alone, ToReceiver, ToSender, Suspended, Finished, Unborn, Even
<1>3. CASE Refuse(t) \/ Accept(t)
  <2>1. /\ Tokens(toR, t) = {} /\ Once(toR, t) /\ Tokens(toS, t) = {} /\ Once(toS, t)
        /\ stask[t] = "none" /\ Even(t, 0) /\ t \notin Pull
        /\ file[t] # "final" /\ sq[t] # "completed" /\ sq[t] # "none"
    BY <1>0, <1>3, Holder DEF Refuse, Accept, OneToken, Unborn, Suspended, Alone, Even
  <2>2. /\ rtask'[t] = "none"
        /\ toS' \in Sent(toS, Msg("InitAck", t, 0)) \/ toS' \in Sent(toS, Msg("InitAck", t, 1))
        /\ UNCHANGED <<sq, next, rnext, stask, file, toR>>
    BY <1>0, <1>3 DEF Refuse, Accept, TypeOK, svars
  <2>3. Once(toS', t) /\ \A m \in Tokens(toS', t) : m.type = "InitAck"
    <3>1. CASE toS' \in Sent(toS, Msg("InitAck", t, 0))
      BY <1>r, <2>1, <3>1, Passed
    <3>2. CASE toS' \in Sent(toS, Msg("InitAck", t, 1))
      BY <1>r, <2>1, <3>2, Passed
    <3> QED BY <2>2, <3>1, <3>2
  <2> QED BY <2>1, <2>2, <2>3
      DEF OneToken, Alone, ToReceiver, ToSender, Suspended, Finished, Unborn, Even
<1>4. CASE Approve(t)
  <2>1. /\ Tokens(toR, t) = {} /\ Once(toR, t) /\ Tokens(toS, t) = {} /\ Once(toS, t)
        /\ stask[t] = "none" /\ Even(t, 0) /\ t \notin Pull
        /\ sq[t] # "completed" /\ sq[t] # "none"
    BY <1>0, <1>4, Holder DEF Approve, OneToken, Unborn, Suspended, Alone, Even
  <2>2. /\ rtask'[t] = "opening" /\ file'[t] = "part"
        /\ UNCHANGED <<sq, rq, next, rnext, stask, toR, toS>>
    BY <1>0, <1>4 DEF Approve, TypeOK, svars
  <2> QED BY <2>1, <2>2
      DEF OneToken, Alone, ToReceiver, ToSender, Suspended, Finished, Unborn, Even
<1>5. CASE ReceiveChunk(t)
  <2>1. /\ Once(toR', t) /\ Tokens(toR', t) = {} /\ Once(toS, t) /\ Tokens(toS, t) = {}
        /\ stask[t] = "none" /\ rtask[t] = "none" /\ t \in Push /\ t \notin Pull
        /\ Head(toR).v = rnext[t] /\ rnext[t] = next[t] /\ next[t] < Chunks
        /\ file[t] # "final" /\ sq[t] # "completed" /\ sq[t] # "none"
    BY <1>0, <1>5, ArrivedAtReceiver
       DEF ReceiveChunk, OneToken, ToReceiver, Finished, Unborn, Even
  <2>2. /\ rtask'[t] \in {"none", "writing"} /\ toS' = toS
        /\ UNCHANGED <<sq, next, rnext, stask, file>>
    BY <1>0, <1>5, <2>1 DEF ReceiveChunk, TypeOK, svars
  <2> QED BY <2>1, <2>2
      DEF OneToken, Alone, ToReceiver, ToSender, Suspended, Finished, Unborn, Even
<1>6. CASE Written(t)
  <2>1. /\ Tokens(toR, t) = {} /\ Once(toR, t) /\ Tokens(toS, t) = {} /\ Once(toS, t)
        /\ stask[t] = "none" /\ t \in Push /\ t \notin Pull /\ rnext[t] = next[t]
        /\ file[t] # "final" /\ sq[t] # "completed" /\ sq[t] # "none"
    BY <1>0, <1>6, Holder DEF Written, OneToken, Unborn, Suspended, Alone, Even
  <2>2. /\ rtask'[t] = "none" /\ toS' \in Sent(toS, Msg("ChunkAck", t, rnext[t]))
        /\ rnext'[t] = rnext[t] + 1
        /\ UNCHANGED <<sq, next, stask, file, toR>>
    BY <1>0, <1>6 DEF Written, TypeOK, svars, AckIndex, Advanced
  <2>3. Once(toS', t) /\ \A m \in Tokens(toS', t) : m.type = "ChunkAck" /\ m.v = rnext[t]
    BY <1>r, <2>1, <2>2, Passed
  <2> QED BY <2>1, <2>2, <2>3
      DEF OneToken, Alone, ToReceiver, ToSender, Suspended, Finished, Unborn, Even
<1>7. CASE ReceiveComplete(t)
  <2>1. /\ Once(toR', t) /\ Tokens(toR', t) = {} /\ Once(toS, t) /\ Tokens(toS, t) = {}
        /\ stask[t] = "none" /\ rtask[t] = "none" /\ Even(t, Chunks) /\ t \notin Pull
        /\ file[t] # "final" /\ sq[t] # "completed" /\ sq[t] # "none"
    BY <1>0, <1>7, ArrivedAtReceiver
       DEF ReceiveComplete, OneToken, ToReceiver, Finished, Unborn, Even
  <2>2. /\ rtask'[t] \in {"none", "hashing"} /\ t \notin incoming'
        /\ UNCHANGED <<sq, next, rnext, stask, file, toS>>
    BY <1>0, <1>7, <2>1 DEF ReceiveComplete, TypeOK, svars
  <2> QED BY <2>1, <2>2
      DEF OneToken, Alone, ToReceiver, ToSender, Suspended, Finished, Unborn, Even
<1>8. CASE Finish(t) \/ Reject(t)
  <2>1. /\ Tokens(toR, t) = {} /\ Once(toR, t) /\ Tokens(toS, t) = {} /\ Once(toS, t)
        /\ stask[t] = "none" /\ Even(t, Chunks) /\ t \notin Pull /\ t \notin incoming
        /\ sq[t] # "completed" /\ sq[t] # "none"
    BY <1>0, <1>8, Holder DEF Finish, Reject, OneToken, Unborn, Suspended, Alone, Even
  <2>2. /\ rtask'[t] = "none"
        /\ \/ /\ toS' \in Sent(toS, Msg("CompleteAck", t, 1))
              /\ file'[t] = "final" /\ t \notin spoiled
           \/ toS' \in Sent(toS, Msg("CompleteAck", t, 0)) /\ file'[t] = "none"
        /\ UNCHANGED <<sq, next, rnext, stask, spoiled, incoming, toR>>
    BY <1>0, <1>8 DEF Finish, Reject, TypeOK, svars, DigestMatches
  <2>3. /\ Once(toS', t) /\ \A m \in Tokens(toS', t) : m.type = "CompleteAck"
        /\ file'[t] = "final" \/ \A m \in Tokens(toS', t) : m.v # 1
    <3>1. CASE toS' \in Sent(toS, Msg("CompleteAck", t, 1)) /\ file'[t] = "final"
      BY <1>r, <2>1, <3>1, Passed
    <3>2. CASE toS' \in Sent(toS, Msg("CompleteAck", t, 0))
      BY <1>r, <2>1, <3>2, Passed
    <3> QED BY <2>2, <3>1, <3>2
  <2> QED BY <2>1, <2>2, <2>3
      DEF OneToken, Alone, ToReceiver, ToSender, Suspended, Finished, Unborn, Even
<1> QED BY <1>1, <1>2, <1>3, <1>4, <1>5, <1>6, <1>7, <1>8

\* Errors, cancels and ignored answers move no token; a handler that throws loses its own.
LEMMA StopStep ==
  ASSUME TransferInv, NEW t \in Transfer,
         \/ ReadFails(t) \/ SenderStopped(t) \/ SenderCancels(t) \/ PullAnswered(t)
         \/ ReceiverStopped(t) \/ ReceiverCancels(t)
         \/ SenderThrows(t) \/ ReceiverThrows(t)
  PROVE  OneToken(t)'
<1> USE DEF Arrives
<1>0. TypeOK /\ OneToken(t)
  BY DEF TransferInv
<1>1. /\ toR \in Seq(MsgSet) /\ toS \in Seq(MsgSet) /\ Once(toR, t) /\ Once(toS, t)
      /\ file[t] = "final" => t \notin incoming
  BY <1>0 DEF TypeOK, OneToken, Alone, Finished
<1>2. \A type \in {"Error", "Cancel"} :
        Msg(type, t, 0) \in MsgSet /\ ~Carries(Msg(type, t, 0), t)
  BY TransferAssumption, MsgIsMessage DEF Carries, Carried
<1>3. /\ toR # <<>> => Once(Tail(toR), t) /\ Tokens(Tail(toR), t) \subseteq Tokens(toR, t)
      /\ toS # <<>> => Once(Tail(toS), t) /\ Tokens(Tail(toS), t) \subseteq Tokens(toS, t)
  BY <1>1, Taken
<1>4. \A type \in {"Error", "Cancel"} :
        /\ \A p \in Sent(toR, Msg(type, t, 0)) :
             Once(p, t) /\ Tokens(p, t) \subseteq Tokens(toR, t)
        /\ \A p \in Sent(toS, Msg(type, t, 0)) :
             Once(p, t) /\ Tokens(p, t) \subseteq Tokens(toS, t)
  BY <1>1, <1>2, SentTokens
<1>5. CASE ReadFails(t) \/ SenderStopped(t) \/ SenderCancels(t)
  <2>1. /\ sq'[t] = "none" => sq[t] = "none"
        /\ sq'[t] = "completed" => sq[t] = "completed"
        /\ stask'[t] \in {stask[t], "none"}
        /\ UNCHANGED <<rq, next, rnext, rtask, file, spoiled, incoming>>
    BY <1>0, <1>5 DEF ReadFails, SenderStopped, SenderCancels, Updated, CanCancel, TypeOK, rvars
  <2>2. /\ Once(toR', t) /\ Tokens(toR', t) \subseteq Tokens(toR, t)
        /\ Once(toS', t) /\ Tokens(toS', t) \subseteq Tokens(toS, t)
    BY <1>1, <1>3, <1>4, <1>5 DEF ReadFails, SenderStopped, SenderCancels
  <2> QED BY <1>0, <2>1, <2>2, FewerKeeps DEF Fewer
<1>6. CASE PullAnswered(t)
  <2>1. Fewer(t)
    BY <1>1, <1>3, <1>6 DEF PullAnswered, Fewer, svars, rvars
  <2> QED BY <1>0, <2>1, FewerKeeps
<1>7. CASE ReceiverStopped(t) \/ ReceiverCancels(t)
  <2>1. /\ rq'[t] = "none" => rq[t] = "none"
        /\ t \in incoming' => t \in incoming
        /\ UNCHANGED <<sq, next, rnext, stask, rtask, spoiled>>
    BY <1>0, <1>7
       DEF ReceiverStopped, ReceiverCancels, Discard, Updated, CanCancel, TypeOK, svars
  <2>2. file'[t] = file[t] \/ (file[t] # "final" /\ file'[t] # "final")
    BY <1>0, <1>1, <1>7 DEF ReceiverStopped, ReceiverCancels, Discard, TypeOK
  <2>3. /\ Once(toR', t) /\ Tokens(toR', t) \subseteq Tokens(toR, t)
        /\ Once(toS', t) /\ Tokens(toS', t) \subseteq Tokens(toS, t)
    BY <1>1, <1>3, <1>4, <1>7 DEF ReceiverStopped, ReceiverCancels
  <2> QED BY <1>0, <2>1, <2>2, <2>3, FewerKeeps DEF Fewer
<1>8. CASE SenderThrows(t) \/ ReceiverThrows(t)
  <2>1. Fewer(t)
    BY <1>0, <1>1, <1>8 DEF SenderThrows, ReceiverThrows, Fewer, TypeOK, svars, rvars
  <2> QED BY <1>0, <2>1, FewerKeeps
<1> QED BY <1>5, <1>6, <1>7, <1>8

\* Every step keeps every transfer to its one token.
LEMMA TransferStep == TransferInv /\ [Next]_vars => TransferInv'
<1> SUFFICES ASSUME TransferInv, [Next]_vars PROVE TransferInv'
  OBVIOUS
<1>1. CASE UNCHANGED vars
  <2>1. TypeOK'
    BY <1>1 DEF vars, svars, rvars, TransferInv, TypeOK
  <2>2. ASSUME NEW t \in Transfer PROVE OneToken(t)'
    <3>1. Fewer(t)
      BY <1>1 DEF vars, svars, rvars, TransferInv, OneToken, Alone, Fewer
    <3> QED BY <3>1, FewerKeeps DEF TransferInv
  <2> QED BY <2>1, <2>2 DEF TransferInv
<1>2. ASSUME NEW t \in Transfer, User(t) \/ Service(t), UNCHANGED trouble
      PROVE  TransferInv'
  <2>1. TypeOK'
    BY <1>2, TypeStep
  <2>2. OneToken(t)'
    BY <1>2, <2>1, SenderStep, ReceiverStep, StopStep DEF User, Service
  <2>3. ASSUME NEW x \in Transfer, x # t PROVE OneToken(x)'
    BY <1>2, <2>3, OthersStep
  <2> QED BY <2>1, <2>2, <2>3 DEF TransferInv
<1> QED BY <1>1, <1>2 DEF Next

\* TransferInv is an invariant.
LEMMA TransferHolds == Spec => []TransferInv
<1>1. Init => TransferInv
  <2> SUFFICES ASSUME Init PROVE TransferInv
    OBVIOUS
  <2>1. TypeOK
    BY TransferAssumption DEF Init, TypeOK, Status
  <2>2. ASSUME NEW t \in Transfer PROVE OneToken(t)
    <3>1. /\ Tokens(toR, t) = {} /\ Tokens(toS, t) = {} /\ Once(toR, t) /\ Once(toS, t)
          /\ sq[t] = "none" /\ stask[t] = "none" /\ rtask[t] = "none" /\ file[t] = "none"
          /\ next[t] = 0 /\ rnext[t] = 0
      BY <2>2 DEF Init, Tokens, Once
    <3> QED BY <3>1
            DEF OneToken, Alone, ToReceiver, ToSender, Suspended, Finished, Unborn, Even
  <2> QED BY <2>1, <2>2 DEF TransferInv
<1> QED BY <1>1, TransferStep, PTL DEF Spec

-----------------------------------------------------------------------------
(* What follows                                                            *)

\* The two ends and the links hold values of their types.
THEOREM TypeCorrect == Spec => []TypeOK
<1>1. TransferInv => TypeOK
  BY DEF TransferInv
<1> QED BY <1>1, TransferHolds, PTL

\* A message counted by On is a token when its type is carried.
LEMMA OnIsToken ==
  ASSUME NEW q \in Seq(MsgSet), NEW type \in Carried, NEW t, NEW i \in On(q, type, t)
  PROVE  i \in 1 .. Len(q) /\ Carries(q[i], t) /\ q[i] \in Tokens(q, t) /\ q[i].type = type
BY DEF On, Carries, Tokens

\* A chunk that arrives is the expected one.
THEOREM ChunksArriveInSequence == Spec => []ChunksInSequence
<1>1. TransferInv => ChunksInSequence
  <2> SUFFICES ASSUME TransferInv, NEW t \in incoming, NEW i \in On(toR, "Chunk", t)
               PROVE  toR[i].v = rnext[t]
    BY DEF ChunksInSequence
  <2>1. t \in Transfer /\ toR \in Seq(MsgSet)
    BY DEF TransferInv, TypeOK
  <2>2. toR[i] \in Tokens(toR, t) /\ toR[i].type = "Chunk"
    BY <2>1, OnIsToken DEF Carried
  <2>3. ToReceiver(t)
    BY <2>1 DEF TransferInv, OneToken
  <2> QED BY <2>2, <2>3 DEF ToReceiver, Even
<1> QED BY <1>1, TransferHolds, PTL

\* A transfer is one chunk ahead of its acknowledgements at most.
THEOREM OneChunkAtATime == Spec => []StopAndWait
<1>1. TransferInv => StopAndWait
  <2> SUFFICES ASSUME TransferInv, NEW t \in Transfer
               PROVE  LET busy == (IF stask[t] = "reading" THEN {<<"read", 0>>} ELSE {})
                            \cup (IF rtask[t] = "writing" THEN {<<"write", 0>>} ELSE {})
                            \cup {<<"chunk", i>> : i \in On(toR, "Chunk", t)}
                            \cup {<<"ack", i>> : i \in On(toS, "ChunkAck", t)}
                      IN  \A a, b \in busy : a = b
    BY DEF StopAndWait
  <2>1. toR \in Seq(MsgSet) /\ toS \in Seq(MsgSet) /\ Alone(t)
    BY DEF TransferInv, TypeOK, OneToken
  <2>2. \A i \in On(toR, "Chunk", t) :
          i \in 1 .. Len(toR) /\ Carries(toR[i], t) /\ toR[i] \in Tokens(toR, t)
    BY <2>1, OnIsToken DEF Carried
  <2>3. \A i \in On(toS, "ChunkAck", t) :
          i \in 1 .. Len(toS) /\ Carries(toS[i], t) /\ toS[i] \in Tokens(toS, t)
    BY <2>1, OnIsToken DEF Carried
  <2>4. /\ \A i, j \in On(toR, "Chunk", t) : i = j
        /\ \A i, j \in On(toS, "ChunkAck", t) : i = j
    BY <2>1, <2>2, <2>3 DEF Alone, Once
  <2>5. /\ On(toR, "Chunk", t) # {} =>
             On(toS, "ChunkAck", t) = {} /\ stask[t] = "none" /\ rtask[t] = "none"
        /\ On(toS, "ChunkAck", t) # {} => stask[t] = "none" /\ rtask[t] = "none"
        /\ stask[t] = "reading" => rtask[t] # "writing"
    BY <2>1, <2>2, <2>3 DEF Alone
  <2> QED BY <2>4, <2>5
<1> QED BY <1>1, TransferHolds, PTL

\* What the sending end shows as completed is in its place at the other end.
THEOREM CompletedArrived == Spec => []CompletedIsThere
<1>1. TransferInv => CompletedIsThere
  BY DEF TransferInv, OneToken, Finished, CompletedIsThere
<1> QED BY <1>1, TransferHolds, PTL

-----------------------------------------------------------------------------
(* What users are promised                                                 *)

\* The last word on a transfer is CompleteAck: no Error and no Cancel follows it,
\* and none is left once the sending end shows "completed".
Stops(m, t) == m.t = t /\ m.type \in {"Error", "Cancel"}
LastWord(q, t) ==
  \A i, j \in 1 .. Len(q) :
    q[i].t = t /\ q[i].type = "CompleteAck" /\ Stops(q[j], t) => j < i
Quiet(q, t) == \A j \in 1 .. Len(q) : ~Stops(q[j], t)

Answered(t) == \E m \in Tokens(toS, t) : m.type = "CompleteAck"

Settled(t) ==
  /\ LastWord(toS, t)
  /\ file[t] = "final" \/ Answered(t) => ~CanCancel(rq[t])
  /\ file[t] = "final" => \A m \in Tokens(toS, t) : m.v = 1
  /\ sq[t] = "completed" => Quiet(toS, t)

SettledInv == \A t \in Transfer : Settled(t)

\* Messages that stop a transfer keep their place on a link.
LEMMA StopsTail ==
  ASSUME NEW q \in Seq(MsgSet), q # <<>>, NEW t
  PROVE  /\ LastWord(q, t) => LastWord(Tail(q), t)
         /\ Quiet(q, t) => Quiet(Tail(q), t)
<1> DEFINE p == Tail(q)
<1>1. /\ Len(q) \in Nat \ {0} /\ Len(p) = Len(q) - 1
      /\ \A i \in 1 .. Len(p) : p[i] = q[i + 1]
  OBVIOUS
<1> HIDE DEF p
<1>2. \A i \in 1 .. Len(p) : i + 1 \in 1 .. Len(q)
  BY <1>1
<1>3. Quiet(q, t) => Quiet(p, t)
  BY <1>1, <1>2 DEF Quiet
<1>4. ASSUME LastWord(q, t) PROVE LastWord(p, t)
  <2> SUFFICES ASSUME NEW i \in 1 .. Len(p), NEW j \in 1 .. Len(p),
                      p[i].t = t, p[i].type = "CompleteAck", Stops(p[j], t)
               PROVE  j < i
    BY DEF LastWord
  <2>1. j + 1 < i + 1
    BY <1>1, <1>2, <1>4 DEF LastWord
  <2> QED BY <2>1, <1>1
<1> QED BY <1>3, <1>4 DEF p

\* A stop that is sent where no last word waits, or another message, keeps the order.
LEMMA StopsAppend ==
  ASSUME NEW q \in Seq(MsgSet), NEW m \in MsgSet, NEW p \in Sent(q, m), NEW t,
         LastWord(q, t),
         Stops(m, t) => \A n \in Tokens(q, t) : n.type # "CompleteAck"
  PROVE  /\ LastWord(p, t)
         /\ Quiet(q, t) /\ ~Stops(m, t) => Quiet(p, t)
<1>1. CASE p = q
  BY <1>1
<1>2. CASE p = Append(q, m)
  <2>1. /\ Len(p) = Len(q) + 1 /\ Len(q) \in Nat /\ p[Len(q) + 1] = m
        /\ \A i \in 1 .. Len(q) : p[i] = q[i]
    BY <1>2
  <2>2. \A i \in 1 .. Len(p) : i \in 1 .. Len(q) \/ i = Len(q) + 1
    BY <2>1
  <2>3. Quiet(q, t) /\ ~Stops(m, t) => Quiet(p, t)
    BY <2>1, <2>2 DEF Quiet
  <2>4. Stops(m, t) => \A i \in 1 .. Len(q) : ~(q[i].t = t /\ q[i].type = "CompleteAck")
    BY DEF Tokens, Carries, Carried
  <2>5. ASSUME NEW i \in 1 .. Len(p), NEW j \in 1 .. Len(p),
               p[i].t = t, p[i].type = "CompleteAck", Stops(p[j], t)
        PROVE  j < i
    <3>1. ~Stops(m, t) \/ p[i] = m
      BY <2>1, <2>2, <2>4, <2>5
    <3>2. ~Stops(m, t)
      BY <3>1, <2>5 DEF Stops
    <3>3. j \in 1 .. Len(q) /\ p[j] = q[j]
      BY <2>1, <2>2, <2>5, <3>2
    <3>4. CASE i \in 1 .. Len(q)
      BY <2>1, <2>5, <3>3, <3>4 DEF LastWord
    <3>5. CASE i = Len(q) + 1
      BY <2>1, <3>3, <3>5
    <3> QED BY <2>2, <3>4, <3>5
  <2>6. LastWord(p, t)
    BY <2>5 DEF LastWord
  <2> QED BY <2>3, <2>6
<1> QED BY <1>1, <1>2 DEF Sent

\* Only the user of the receiving end stops a transfer from there.
LEMMA NoStop ==
  ASSUME TransferInv, NEW t \in Transfer, User(t) \/ Service(t), ~ReceiverCancels(t)
  PROVE  \/ toS' = toS
         \/ toS # <<>> /\ Head(toS).t = t /\ toS' = Tail(toS)
         \/ \E m \in MsgSet : ~Stops(m, t) /\ toS' \in Sent(toS, m)
<1> USE DEF Arrives, svars
<1>1. \A type \in Carried, v \in 0 .. Chunks :
        Msg(type, t, v) \in MsgSet /\ ~Stops(Msg(type, t, v), t)
  BY MsgIsMessage DEF Stops, Carried
<1>2. 0 \in 0 .. Chunks /\ 1 \in 0 .. Chunks /\ rnext[t] \in 0 .. Chunks
  BY TransferAssumption DEF TransferInv, TypeOK
<1>3. CASE \/ StartPush(t) \/ Offer(t) \/ ReceivePull(t) \/ AcceptPull(t)
           \/ ReceiveInitAck(t) \/ SendChunk(t) \/ ReadFails(t)
  BY <1>3 DEF StartPush, Offer, ReceivePull, AcceptPull, ReceiveInitAck, SendChunk, ReadFails
<1>4. CASE \/ ReceiveChunkAck(t) \/ ReceiveCompleteAck(t) \/ SenderStopped(t)
           \/ SenderCancels(t) \/ PullAnswered(t) \/ ReceiveOffer(t) \/ Approve(t)
           \/ ReceiveComplete(t) \/ ReceiverStopped(t)
  BY <1>4 DEF ReceiveChunkAck, ReceiveCompleteAck, SenderStopped, SenderCancels, PullAnswered,
              ReceiveOffer, Approve, ReceiveComplete, ReceiverStopped
<1>5. CASE \/ StartPull(t) \/ Refuse(t) \/ Accept(t) \/ Written(t) \/ Finish(t) \/ Reject(t)
  BY <1>1, <1>2, <1>5 DEF StartPull, Refuse, Accept, Written, Finish, Reject, AckIndex, Carried
<1>6. CASE ReceiveChunk(t)
  <2>1. Head(toR) \in Tokens(toR, t) /\ Head(toR).type = "Chunk"
    BY <1>6, ArrivedAtReceiver DEF ReceiveChunk, Carried
  <2>2. Head(toR).v = rnext[t]
    BY <2>1 DEF TransferInv, OneToken, ToReceiver, Even
  <2> QED BY <1>6, <2>2 DEF ReceiveChunk
<1>7. CASE SenderThrows(t) \/ ReceiverThrows(t)
  BY <1>7 DEF SenderThrows, ReceiverThrows
<1> QED BY <1>3, <1>4, <1>5, <1>6, <1>7 DEF User, Service

\* A step with no word for the sending end neither finishes nor reopens.
LEMMA NoAnswer ==
  ASSUME TransferInv, NEW t \in Transfer, User(t) \/ Service(t), ~ReceiverCancels(t),
         ~(StartPull(t) \/ Refuse(t) \/ Accept(t) \/ Written(t) \/ Finish(t) \/ Reject(t))
  PROVE  /\ toS' = toS \/ (toS # <<>> /\ toS' = Tail(toS))
         /\ file'[t] = "final" => file[t] = "final"
         /\ ~CanCancel(rq[t]) => ~CanCancel(rq'[t])
<1> USE DEF Arrives, svars, rvars
<1>1. TypeOK
  BY DEF TransferInv
<1>2. CASE \/ StartPush(t) \/ Offer(t) \/ ReceivePull(t) \/ AcceptPull(t)
           \/ ReceiveInitAck(t) \/ SendChunk(t) \/ ReadFails(t)
  BY <1>2 DEF StartPush, Offer, ReceivePull, AcceptPull, ReceiveInitAck, SendChunk, ReadFails
<1>3. CASE \/ ReceiveChunkAck(t) \/ ReceiveCompleteAck(t) \/ SenderStopped(t)
           \/ SenderCancels(t) \/ PullAnswered(t) \/ ReceiveOffer(t) \/ ReceiveComplete(t)
  BY <1>3 DEF ReceiveChunkAck, ReceiveCompleteAck, SenderStopped, SenderCancels, PullAnswered,
              ReceiveOffer, ReceiveComplete
<1>4. CASE Approve(t) \/ ReceiverStopped(t)
  BY <1>1, <1>4 DEF Approve, ReceiverStopped, Discard, Updated, CanCancel, TypeOK
<1>5. CASE ReceiveChunk(t)
  <2>1. Head(toR) \in Tokens(toR, t) /\ Head(toR).type = "Chunk"
    BY <1>5, ArrivedAtReceiver DEF ReceiveChunk, Carried
  <2>2. Head(toR).v = rnext[t]
    BY <2>1 DEF TransferInv, OneToken, ToReceiver, Even
  <2> QED BY <1>5, <2>2 DEF ReceiveChunk
<1>6. CASE SenderThrows(t) \/ ReceiverThrows(t)
  BY <1>6 DEF SenderThrows, ReceiverThrows
<1> QED BY <1>2, <1>3, <1>4, <1>5, <1>6 DEF User, Service

\* Where the last word is at the head of the link, no stop is left behind it.
LEMMA HeadIsLast ==
  ASSUME NEW q \in Seq(MsgSet), q # <<>>, NEW t, LastWord(q, t)
  PROVE  /\ Head(q).t = t /\ Head(q).type = "CompleteAck" => Quiet(q, t)
         /\ Quiet(q, t) => ~Stops(Head(q), t)
<1>1. Len(q) \in Nat \ {0} /\ Head(q) = q[1] /\ 1 \in 1 .. Len(q)
  OBVIOUS
<1>2. ASSUME Head(q).t = t, Head(q).type = "CompleteAck", NEW j \in 1 .. Len(q)
      PROVE  ~Stops(q[j], t)
  <2>1. Stops(q[j], t) => j < 1
    BY <1>1, <1>2 DEF LastWord
  <2> QED BY <1>1, <2>1
<1> QED BY <1>1, <1>2 DEF Quiet

\* What is settled of another transfer stays so.
LEMMA OthersSettled ==
  ASSUME TransferInv, NEW t \in Transfer, User(t) \/ Service(t),
         NEW x \in Transfer, x # t, Settled(x)
  PROVE  Settled(x)'
<1>1. /\ toS \in Seq(MsgSet) /\ LastWord(toS, x) /\ Once(toS, x)
  BY DEF TransferInv, TypeOK, OneToken, Alone, Settled
<1>2. Touches(toS, toS', t) /\ Elsewhere(x)
  BY StepTouches DEF TransferInv
<1>3. Tokens(toS', x) \subseteq Tokens(toS, x)
  BY ONLY <1>1, <1>2, OthersTokens, x # t DEF Touches
<1>4. LastWord(toS', x) /\ (Quiet(toS, x) => Quiet(toS', x))
  <2>1. ASSUME NEW m \in MsgSet, m.t = t, toS' \in Sent(toS, m)
        PROVE  LastWord(toS', x) /\ (Quiet(toS, x) => Quiet(toS', x))
    <3>1. ~Stops(m, x)
      BY <2>1 DEF Stops
    <3> QED BY ONLY <1>1, <2>1, <3>1, StopsAppend
  <2>2. ASSUME toS # <<>>, toS' = Tail(toS)
        PROVE  LastWord(toS', x) /\ (Quiet(toS, x) => Quiet(toS', x))
    BY ONLY <1>1, <2>2, StopsTail
  <2> QED BY ONLY <1>1, <1>2, <2>1, <2>2 DEF Touches
<1> QED BY <1>2, <1>3, <1>4 DEF Settled, Answered, Elsewhere

\* A step of t settles t and takes nothing back.
LEMMA SettledStep ==
  ASSUME TransferInv, NEW t \in Transfer, User(t) \/ Service(t), Settled(t), TransferInv'
  PROVE  Settled(t)'
<1>1. TypeOK /\ OneToken(t) /\ toS \in Seq(MsgSet) /\ LastWord(toS, t) /\ Once(toS, t)
  BY DEF TransferInv, TypeOK, OneToken, Alone, Settled
<1>2. CASE ReceiverCancels(t)
  <2>1. /\ file[t] # "final" /\ sq[t] # "completed"
        /\ \A m \in Tokens(toS, t) : m.type # "CompleteAck"
    BY <1>2 DEF ReceiverCancels, Settled, Answered, TransferInv, OneToken, Finished
  <2>2. file'[t] # "final" /\ sq'[t] # "completed"
    BY <1>1, <1>2, <2>1 DEF ReceiverCancels, Discard, TypeOK, svars
  <2>3. toS' = toS \/ toS' \in Sent(toS, Msg("Cancel", t, 0))
    BY <1>2 DEF ReceiverCancels
  <2>4. Msg("Cancel", t, 0) \in MsgSet /\ ~Carries(Msg("Cancel", t, 0), t)
    BY TransferAssumption, MsgIsMessage DEF Carries, Carried
  <2>5. LastWord(toS', t)
    BY ONLY <1>1, <2>1, <2>3, <2>4, StopsAppend
  <2>6. Tokens(toS', t) \subseteq Tokens(toS, t)
    BY ONLY <1>1, <2>3, <2>4, SentTokens
  <2> QED BY <2>1, <2>2, <2>5, <2>6 DEF Settled, Answered
<1>3. CASE ~ReceiverCancels(t)
  <2>1. /\ LastWord(toS', t) /\ (Quiet(toS, t) => Quiet(toS', t))
    <3>1. ASSUME toS # <<>>, toS' = Tail(toS)
          PROVE  LastWord(toS', t) /\ (Quiet(toS, t) => Quiet(toS', t))
      BY ONLY <1>1, <3>1, StopsTail
    <3>2. ASSUME NEW m \in MsgSet, ~Stops(m, t), toS' \in Sent(toS, m)
          PROVE  LastWord(toS', t) /\ (Quiet(toS, t) => Quiet(toS', t))
      BY ONLY <1>1, <3>2, StopsAppend
    <3> QED BY <1>1, <1>3, <3>1, <3>2, NoStop
  <2>2. sq'[t] = "completed" => Quiet(toS', t)
    <3>1. CASE ReceiveCompleteAck(t)
      BY <1>1, <2>1, <3>1, HeadIsLast DEF ReceiveCompleteAck, Arrives
    <3>2. CASE ~ReceiveCompleteAck(t)
      <4>1. sq'[t] = "completed" => sq[t] = "completed"
        <5> USE <1>1 DEF TypeOK, Updated, svars
        <5>1. CASE StartPush(t) \/ Offer(t) \/ ReceivePull(t) \/ AcceptPull(t)
          BY <5>1 DEF StartPush, Offer, ReceivePull, AcceptPull
        <5>2. CASE ReceiveInitAck(t) \/ SendChunk(t) \/ ReadFails(t) \/ ReceiveChunkAck(t)
          BY <5>2 DEF ReceiveInitAck, SendChunk, ReadFails, ReceiveChunkAck
        <5>3. CASE SenderStopped(t) \/ SenderCancels(t) \/ StartPull(t) \/ PullAnswered(t)
          BY <5>3 DEF SenderStopped, SenderCancels, StartPull, PullAnswered
        <5>4. CASE ReceiveOffer(t) \/ Refuse(t) \/ Approve(t) \/ Accept(t) \/ ReceiveChunk(t)
          BY <5>4 DEF ReceiveOffer, Refuse, Approve, Accept, ReceiveChunk
        <5>5. CASE \/ Written(t) \/ ReceiveComplete(t) \/ Finish(t) \/ Reject(t)
                   \/ ReceiverStopped(t)
          BY <5>5 DEF Written, ReceiveComplete, Finish, Reject, ReceiverStopped
        <5>6. CASE SenderThrows(t) \/ ReceiverThrows(t)
          BY <5>6 DEF SenderThrows, ReceiverThrows
        <5> QED BY <1>3, <3>2, <5>1, <5>2, <5>3, <5>4, <5>5, <5>6 DEF User, Service
      <4> QED BY <2>1, <4>1 DEF Settled
    <3> QED BY <3>1, <3>2
  <2>3. /\ file'[t] = "final" \/ Answered(t)' => ~CanCancel(rq'[t])
        /\ file'[t] = "final" => \A m \in Tokens(toS', t) : m.v = 1
    <3>1. CASE StartPull(t) \/ Refuse(t) \/ Accept(t) \/ Written(t)
      <4>1. file'[t] = file[t] /\ file[t] # "final"
        BY <3>1, <1>1, Holder
           DEF StartPull, Refuse, Accept, Written, OneToken, Unborn, TransferInv
      <4>2. \A m \in Tokens(toS', t) : m.type # "CompleteAck"
        <5>1. Once(toS, t) /\ Tokens(toS, t) = {}
          BY <3>1, <1>1, Holder DEF StartPull, Refuse, Accept, Written, OneToken, Unborn
        <5>2. 0 \in 0 .. Chunks /\ 1 \in 0 .. Chunks /\ rnext[t] \in 0 .. Chunks
          BY <1>1, TransferAssumption DEF TypeOK
        <5>3. \E type \in Carried \ {"CompleteAck"}, v \in 0 .. Chunks :
                toS' \in Sent(toS, Msg(type, t, v))
          BY <3>1, <5>2 DEF StartPull, Refuse, Accept, Written, AckIndex, Carried
        <5> QED BY ONLY <1>1, <5>1, <5>3, Passed
      <4> QED BY <4>1, <4>2 DEF Answered
    <3>2. CASE Finish(t) \/ Reject(t)
      <4>1. ~CanCancel(rq'[t])
        BY <3>2, <1>1 DEF Finish, Reject, CanCancel, Updated, TypeOK
      <4>2. file'[t] = "final" => \A m \in Tokens(toS', t) : m.v = 1
        <5>1. Once(toS, t) /\ Tokens(toS, t) = {}
          BY <3>2, Holder DEF Finish, Reject
        <5>2. 1 \in 0 .. Chunks
          BY TransferAssumption
        <5>3. file'[t] = "final" => toS' \in Sent(toS, Msg("CompleteAck", t, 1))
          BY <3>2, <1>1 DEF Finish, Reject, TypeOK
        <5> QED BY ONLY <1>1, <5>1, <5>2, <5>3, Passed DEF Carried
      <4> QED BY <4>1, <4>2
    <3>3. CASE ~(StartPull(t) \/ Refuse(t) \/ Accept(t) \/ Written(t) \/ Finish(t) \/ Reject(t))
      <4>1. toS' = toS \/ (toS # <<>> /\ toS' = Tail(toS))
        BY <3>3, <1>3, NoAnswer
      <4>2. Tokens(toS', t) \subseteq Tokens(toS, t)
        BY ONLY <1>1, <4>1, Taken
      <4>3. file'[t] = "final" => file[t] = "final"
        BY <3>3, <1>3, NoAnswer
      <4>4. ~CanCancel(rq[t]) => ~CanCancel(rq'[t])
        BY <3>3, <1>3, NoAnswer
      <4> QED BY <4>2, <4>3, <4>4 DEF Settled, Answered
    <3> QED BY <3>1, <3>2, <3>3
  <2> QED BY <2>1, <2>2, <2>3 DEF Settled
<1> QED BY <1>2, <1>3

\* What of a transfer the promise speaks of
Begun(t) == sq[t] # "none"
Arrived(t) == file[t] = "final" /\ t \notin spoiled
Reported(t) == sq[t] = "completed"

\* For one transfer, a step begins it, or lets it arrive, or reports it, or does
\* none of these; and it takes nothing back.
LEMMA Outcome ==
  ASSUME TransferInv, NEW t \in Transfer, User(t) \/ Service(t), Settled(t)
  PROVE  \/ Begun(t)' = Begun(t) /\ Arrived(t)' = Arrived(t) /\ Reported(t)' = Reported(t)
         \/ /\ ~Begun(t) /\ Begun(t)'
            /\ Arrived(t)' = Arrived(t) /\ Reported(t)' = Reported(t)
         \/ /\ ~Arrived(t) /\ Arrived(t)' /\ Begun(t)
            /\ Begun(t)' = Begun(t) /\ Reported(t)' = Reported(t)
         \/ /\ ~Reported(t) /\ Reported(t)' /\ Arrived(t)
            /\ Begun(t)' = Begun(t) /\ Arrived(t)' = Arrived(t)
<1> USE DEF Begun, Arrived, Reported, Arrives, svars, rvars
<1>1. TypeOK /\ OneToken(t)
  BY DEF TransferInv
<1>2. CASE StartPush(t)
  BY <1>1, <1>2 DEF StartPush, TypeOK, OneToken, Unborn
<1>3. CASE AcceptPull(t) \/ SendChunk(t) \/ ReadFails(t)
  <2>1. file[t] # "final" /\ sq[t] # "completed"
    BY <1>3, Holder DEF AcceptPull, SendChunk, ReadFails
  <2> QED BY <1>1, <1>3, <2>1 DEF AcceptPull, SendChunk, ReadFails, TypeOK, Updated
<1>4. CASE ReceiveInitAck(t) \/ ReceiveChunkAck(t)
  <2>1. file[t] # "final" /\ sq[t] # "completed"
    <3>1. \E m \in Tokens(toS, t) : m.type # "CompleteAck"
      BY <1>4, ArrivedAtSender DEF ReceiveInitAck, ReceiveChunkAck, Carried
    <3> QED BY <1>1, <3>1 DEF OneToken, Finished
  <2> QED BY <1>1, <1>4, <2>1 DEF ReceiveInitAck, ReceiveChunkAck, TypeOK, Updated
<1>5. CASE ReceiveCompleteAck(t)
  <2>1. Head(toS) \in Tokens(toS, t) /\ Head(toS).type = "CompleteAck"
    BY <1>5, ArrivedAtSender DEF ReceiveCompleteAck, Carried
  <2>2. /\ Head(toS).v = 1 <=> file[t] = "final"
        /\ sq[t] # "none"
    BY <1>1, <2>1 DEF OneToken, ToSender, Settled, Unborn
  <2>3. /\ file[t] = "final" => t \notin spoiled
        /\ sq[t] = "completed" => file[t] = "final"
    BY <1>1 DEF OneToken, Finished
  <2>4. /\ sq'[t] = IF Head(toS).v = 1 THEN "completed" ELSE "failed"
        /\ UNCHANGED <<file, spoiled>>
    BY <1>1, <1>5, <2>2 DEF ReceiveCompleteAck, TypeOK, Updated
  <2> QED BY <2>2, <2>3, <2>4
<1>6. CASE SenderStopped(t) \/ SenderCancels(t)
  <2>1. sq[t] # "completed"
    <3>1. CASE SenderCancels(t)
      BY <3>1 DEF SenderCancels, CanCancel
    <3>2. CASE SenderStopped(t)
      <4>1. toS # <<>> /\ Stops(Head(toS), t) /\ toS \in Seq(MsgSet) /\ LastWord(toS, t)
        BY <1>1, <3>2 DEF SenderStopped, Stops, TypeOK, Settled
      <4> QED BY <4>1, HeadIsLast DEF Settled
    <3> QED BY <1>6, <3>1, <3>2
  <2> QED BY <1>1, <1>6, <2>1 DEF SenderStopped, SenderCancels, TypeOK, Updated, CanCancel
<1>7. CASE Approve(t) \/ Reject(t)
  <2>1. file[t] # "final"
    BY <1>7, Holder DEF Approve, Reject
  <2> QED BY <1>1, <1>7, <2>1 DEF Approve, Reject, TypeOK
<1>8. CASE Finish(t)
  <2>1. /\ sq[t] # "none" /\ file[t] # "final"
    BY <1>1, <1>8, Holder, TransferAssumption DEF Finish, OneToken, Unborn, Suspended, Even
  <2> QED BY <1>1, <1>8, <2>1 DEF Finish, TypeOK, DigestMatches
<1>9. CASE ReceiverStopped(t) \/ ReceiverCancels(t)
  <2>1. file[t] = "final" => t \notin incoming
    BY <1>1 DEF OneToken, Finished
  <2> QED BY <1>1, <1>9, <2>1 DEF ReceiverStopped, ReceiverCancels, Discard, TypeOK
<1>10. CASE \/ Offer(t) \/ ReceivePull(t) \/ StartPull(t) \/ PullAnswered(t)
            \/ ReceiveOffer(t) \/ Refuse(t) \/ Accept(t)
  BY <1>10 DEF Offer, ReceivePull, StartPull, PullAnswered, ReceiveOffer, Refuse, Accept
<1>11. CASE ReceiveChunk(t) \/ Written(t) \/ ReceiveComplete(t)
  BY <1>11 DEF ReceiveChunk, Written, ReceiveComplete
<1>12. CASE SenderThrows(t) \/ ReceiverThrows(t)
  BY <1>12 DEF SenderThrows, ReceiverThrows
<1> QED
  BY <1>2, <1>3, <1>4, <1>5, <1>6, <1>7, <1>8, <1>9, <1>10, <1>11, <1>12 DEF User, Service

\* A step of a transfer is a step of the promise, or nothing to it.
LEMMA PromiseStep ==
  TransferInv /\ SettledInv /\ [Next]_vars => [Promise!Next]_(Promise!vars)
<1> SUFFICES ASSUME TransferInv, SettledInv, [Next]_vars
             PROVE  [Promise!Next]_(Promise!vars)
  OBVIOUS
<1> DEFINE B == {t \in Transfer : sq[t] # "none"}
           A == {t \in Transfer : file[t] = "final" /\ t \notin spoiled}
           R == {t \in Transfer : sq[t] = "completed"}
<1>1. CASE UNCHANGED vars
  BY <1>1 DEF vars, svars, rvars, Promise!vars
<1>2. ASSUME NEW t \in Transfer, User(t) \/ Service(t)
      PROVE  [Promise!Next]_(Promise!vars)
  <2>1. \A x \in Transfer \ {t} :
          (x \in B' <=> x \in B) /\ (x \in A' <=> x \in A) /\ (x \in R' <=> x \in R)
    BY <1>2, StepTouches DEF TransferInv, Elsewhere
  <2>2. \/ (t \in B' <=> t \in B) /\ (t \in A' <=> t \in A) /\ (t \in R' <=> t \in R)
        \/ t \notin B /\ t \in B' /\ (t \in A' <=> t \in A) /\ (t \in R' <=> t \in R)
        \/ t \in B \ A /\ t \in A' /\ t \in B' /\ (t \in R' <=> t \in R)
        \/ t \in A \ R /\ t \in R' /\ t \in A' /\ (t \in B' <=> t \in B)
    BY <1>2, Outcome DEF SettledInv, Begun, Arrived, Reported
  <2>3. \/ B' = B /\ A' = A /\ R' = R
        \/ t \notin B /\ B' = B \cup {t} /\ A' = A /\ R' = R
        \/ t \in B \ A /\ A' = A \cup {t} /\ B' = B /\ R' = R
        \/ t \in A \ R /\ R' = R \cup {t} /\ A' = A /\ B' = B
    BY <2>1, <2>2
  <2> QED BY <2>3 DEF Promise!Next, Promise!vars, Promise!Begin, Promise!Arrive, Promise!Report
<1> QED BY <1>1, <1>2 DEF Next

\* For the user, all of it is a hand-over: a file begins, arrives intact, and only
\* then is reported; nothing of that is ever taken back.
THEOREM TransferImplementsHandover == Spec => ImplementsHandover
<1>1. Init => Promise!Init /\ SettledInv
  <2> SUFFICES ASSUME Init PROVE Promise!Init /\ SettledInv
    OBVIOUS
  <2>1. Promise!Init
    BY DEF Init, Promise!Init
  <2>2. SettledInv
    BY DEF Init, SettledInv, Settled, LastWord, Answered, Tokens
  <2> QED BY <2>1, <2>2
<1>2. TransferInv /\ TransferInv' /\ SettledInv /\ [Next]_vars => SettledInv'
  <2> SUFFICES ASSUME TransferInv, TransferInv', SettledInv, [Next]_vars PROVE SettledInv'
    OBVIOUS
  <2>1. CASE UNCHANGED vars
    BY <2>1 DEF vars, svars, rvars, SettledInv, Settled, Answered
  <2>2. ASSUME NEW t \in Transfer, User(t) \/ Service(t), NEW x \in Transfer
        PROVE  Settled(x)'
    BY <2>2, OthersSettled, SettledStep DEF SettledInv
  <2> QED BY <2>1, <2>2 DEF Next, SettledInv
<1>3. Spec => []SettledInv
  BY <1>1, <1>2, TransferHolds, PTL DEF Spec
<1> QED BY <1>1, <1>3, TransferHolds, PromiseStep, PTL
      DEF Spec, ImplementsHandover, Promise!Spec
=============================================================================
