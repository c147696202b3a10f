-------------------------- MODULE FriendshipProofs --------------------------
(***************************************************************************)
(* The friendship of two users, for any number of calls and cancellations. *)
(* What makes Mutual inductive is that a call between its statements       *)
(* belongs to the addressee of the row, unless another call of its user    *)
(* revived the row meanwhile: that one step makes a requester of somebody  *)
(* with a call under way.                                                  *)
(***************************************************************************)
EXTENDS Friendship, TLAPS

IInv ==
  /\ FriendsTypeOK
  /\ Mutual
  /\ row.status # "none" /\ ~row.deleted => row.req \in acted
  /\ \A c \in Client : Between(c) => /\ row.req # Owner[c] \/ Owner[c] \in crossed
                                    /\ row.status # "none"
  /\ \A c \in Client : pc[c] = "block" => row.status # "none"
  /\ \A c \in Client : pc[c] = "resolve" => call[c] \in {"accept", "reject"}

LEMMA Bounds == Calls \in Nat /\ MaxCancels \in Nat
<1>1. {Calls, MaxCancels} \subseteq Nat
  BY FriendshipAssumption DEF FriendshipAssumption
<1> QED BY <1>1

LEMMA Initially == FriendsInit => IInv
<1>1. SUFFICES ASSUME FriendsInit PROVE IInv
  OBVIOUS
<1>2. 0 \in 0 .. Calls /\ 0 \in 0 .. MaxCancels
  BY Bounds
<1>3. made \in [Client -> 0 .. Calls] /\ cancels \in 0 .. MaxCancels
  BY <1>1, <1>2 DEF FriendsInit
<1>4. FriendsTypeOK
  BY <1>1, <1>3 DEF FriendsInit, FriendsTypeOK
<1> QED BY <1>1, <1>4 DEF FriendsInit, IInv, Mutual, Friends, Between

\* Two users: whoever is not the requester is the other one.
LEMMA TheOther ==
  ASSUME NEW u \in Pair, NEW v \in Pair, u # v
  PROVE  {u, v} = Pair
BY FriendshipAssumption DEF FriendshipAssumption

LEMMA Inductive == IInv /\ [FriendsNext]_friendsVars => IInv'
<1> USE FriendshipAssumption DEF FriendshipAssumption
<1>1. SUFFICES ASSUME IInv, [FriendsNext]_friendsVars PROVE IInv'
  OBVIOUS
<1>2. CASE UNCHANGED friendsVars
  BY <1>1, <1>2 DEF friendsVars, IInv, FriendsTypeOK, Mutual, Friends, Between
<1>3. ASSUME NEW c \in Client, SendRequest(c) \/ Block(c) PROVE IInv'
  <2>1. PICK k \in {"send", "block"} : Upsert(c, k)
    BY <1>3 DEF SendRequest, Block
  <2>2. FriendsTypeOK'
    <3>1. row' \in [status : {"none", "pending", "accepted", "blocked"}, req : Pair,
                    deleted : BOOLEAN]
      <4>1. Owner[c] \in Pair
        OBVIOUS
      <4>2. row' = row \/ row' = [status |-> "pending", req |-> Owner[c], deleted |-> FALSE]
        BY <2>1 DEF Upsert, Pending
      <4>3. [status |-> "pending", req |-> Owner[c], deleted |-> FALSE]
              \in [status : {"none", "pending", "accepted", "blocked"}, req : Pair,
                   deleted : BOOLEAN]
        BY <4>1
      <4>4. row \in [status : {"none", "pending", "accepted", "blocked"}, req : Pair,
                     deleted : BOOLEAN]
        BY <1>1 DEF IInv, FriendsTypeOK
      <4> QED BY <4>2, <4>3, <4>4
    <3>2. made' \in [Client -> 0 .. Calls]
      BY <1>1, <2>1, Bounds DEF Upsert, Start, IInv, FriendsTypeOK
    <3> QED BY <1>1, <2>1, <3>1, <3>2
        DEF Upsert, Start, Created, Goto, End, Acts, IInv, FriendsTypeOK
  <2>3. CASE row.status = "none" \/ row.req = Owner[c]
    <3>1. row' = [status |-> "pending", req |-> Owner[c], deleted |-> FALSE]
      BY <2>1, <2>3 DEF Upsert, Pending
    <3>2. \A d \in Client : Between(d)' => Between(d) /\ d # c
      BY <1>1, <2>1, <2>3 DEF Upsert, Start, Created, Goto, End, IInv, FriendsTypeOK, Between
    <3>3. \A d \in Client : pc'[d] = "resolve" => call'[d] \in {"accept", "reject"}
      BY <1>1, <2>1, <2>3 DEF Upsert, Start, Created, Goto, End, IInv, FriendsTypeOK
    <3> QED BY <1>1, <2>1, <2>2, <3>1, <3>2, <3>3
        DEF Upsert, Acts, IInv, Mutual, Friends, Between
  <2>4. CASE ~(row.status = "none" \/ row.req = Owner[c])
    <3>1. row' = row /\ pc' = [pc EXCEPT ![c] = "load"] /\ call' = [call EXCEPT ![c] = k]
      BY <2>1, <2>4 DEF Upsert, Start, Goto
    <3>2. acted' = acted \cup {Owner[c]} /\ crossed' = crossed
      BY <2>1 DEF Upsert, Acts
    <3> QED BY <1>1, <2>2, <2>4, <3>1, <3>2 DEF IInv, FriendsTypeOK, Mutual, Friends, Between
  <2> QED BY <2>3, <2>4
<1>4. ASSUME NEW c \in Client, LoadPair(c) PROVE IInv'
  BY <1>1, <1>4 DEF LoadPair, Created, Goto, End, IInv, FriendsTypeOK, Mutual, Friends, Between
<1>5. ASSUME NEW c \in Client, RevivePair(c) PROVE IInv'
  <2>1. row' = [status |-> "pending", req |-> Owner[c], deleted |-> FALSE]
    BY <1>5 DEF RevivePair, Revived, Pending
  <2>2. crossed \subseteq crossed' /\ crossed' \subseteq Pair
    BY <1>1, <1>5 DEF RevivePair, IInv, FriendsTypeOK
  <2>3. /\ pc' = [pc EXCEPT ![c] = "idle"] \/ pc' = [pc EXCEPT ![c] = "block"]
        /\ acted' = acted \cup {Owner[c]}
    BY <1>5 DEF RevivePair, Created, Goto, End, Acts
  <2>4. FriendsTypeOK'
    BY <1>1, <1>5, <2>1, <2>2, <2>3 DEF RevivePair, IInv, FriendsTypeOK
  <2>5. ASSUME NEW d \in Client, Between(d)', Owner[d] = Owner[c]
        PROVE  Owner[d] \in crossed'
    <3>1. d \in Client \ {c} /\ Between(d)
      BY <1>1, <2>3, <2>5 DEF Between, IInv, FriendsTypeOK
    <3> QED BY <1>5, <2>5, <3>1 DEF RevivePair
  <2> QED BY <1>1, <1>5, <2>1, <2>3, <2>4, <2>5
      DEF RevivePair, IInv, FriendsTypeOK, Mutual, Friends, Between
<1>6. ASSUME NEW c \in Client, AcceptPair(c) PROVE IInv'
  BY <1>1, <1>6, TheOther DEF AcceptPair, Created, Goto, End, Acts,
     IInv, FriendsTypeOK, Mutual, Friends, Between
<1>7. ASSUME NEW c \in Client, SetBlocked(c) PROVE IInv'
  BY <1>1, <1>7 DEF SetBlocked, Goto, End, IInv, FriendsTypeOK, Mutual, Friends, Between
<1>8. ASSUME NEW c \in Client, ResolveRead(c) PROVE IInv'
  BY <1>1, <1>8 DEF ResolveRead, Start, Goto, IInv, FriendsTypeOK, Mutual, Friends, Between
<1>9. ASSUME NEW c \in Client, ResolveWrite(c) PROVE IInv'
  BY <1>1, <1>9, TheOther DEF ResolveWrite, Resolved, Goto, End, Acts, IInv, FriendsTypeOK,
     Mutual, Friends, Between
<1>10. ASSUME NEW c \in Client, Delete(c) PROVE IInv'
  <2>1. FriendsTypeOK'
    <3>1. row' \in [status : {"none", "pending", "accepted", "blocked"}, req : Pair,
                    deleted : BOOLEAN]
      BY <1>1, <1>10 DEF Delete, IInv, FriendsTypeOK
    <3>2. made' \in [Client -> 0 .. Calls]
      BY <1>1, <1>10, Bounds DEF Delete, Start, IInv, FriendsTypeOK
    <3> QED BY <1>1, <1>10, <3>1, <3>2 DEF Delete, Start, Goto, End, IInv, FriendsTypeOK
  <2>2. /\ pc' = [pc EXCEPT ![c] = "idle"] /\ call' = [call EXCEPT ![c] = "delete"]
        /\ row'.status = row.status /\ row'.req = row.req
        /\ row'.status = "none" \/ row'.deleted
    BY <1>1, <1>10 DEF Delete, Start, Goto, End, IInv, FriendsTypeOK
  <2>3. \A d \in Client : Between(d)' /\ Owner[d] \in crossed => Owner[d] \in crossed'
    BY <1>1, <1>10, <2>2 DEF Delete, IInv, FriendsTypeOK, Between
  <2> QED BY <1>1, <2>1, <2>2, <2>3 DEF IInv, FriendsTypeOK, Mutual, Friends, Between
<1>11. ASSUME NEW c \in Client, CancelCall(c) PROVE IInv'
  BY <1>1, <1>11 DEF CancelCall, Goto, End, IInv, FriendsTypeOK, Mutual, Friends, Between
<1> QED BY <1>1, <1>2, <1>3, <1>4, <1>5, <1>6, <1>7, <1>8, <1>9, <1>10, <1>11 DEF FriendsNext

\* AreFriends (repository/friends.go:23) is true only after both users have
\* acted, whatever the number of calls, at once too, and of cancelled calls, but
\* for a user whose calls crossed in reviving the row.
THEOREM FriendshipIsMutual == FriendsSpec => []Mutual
<1>1. FriendsInit => IInv BY Initially
<1>2. IInv /\ [FriendsNext]_friendsVars => IInv' BY Inductive
<1>3. IInv => Mutual BY DEF IInv
<1> QED BY <1>1, <1>2, <1>3, PTL DEF FriendsSpec

-----------------------------------------------------------------------------
(* Two requests that cross                                                 *)

\* Nobody has done anything yet but ask the other once
Asking ==
  /\ cancels = 0
  /\ \A c \in Client : made[c] <= 1 /\ call[c] \in {"none", "send"}
  /\ \A c, d \in Client : Owner[c] = Owner[d] /\ made[c] = 1 /\ made[d] = 1 => c = d

\* The row is the request of a user who has made one
Requested(c) ==
  row.status # "none" /\ row.req = Owner[c] =>
    \E d \in Client : Owner[d] = Owner[c] /\ made[d] = 1

\* A client whose request is done and is not the row's has made it a friendship
CrossingInv ==
  /\ \A c \in Client : made[c] = 0 => call[c] = "none" /\ pc[c] = "idle"
  /\ \A c \in Client : call[c] = "none" => pc[c] = "idle"
  /\ Asking =>
       /\ ~row.deleted /\ row.status # "blocked" /\ crossed = {}
       /\ \A c \in Client :
            /\ pc[c] \in {"idle", "load", "accept"}
            /\ Requested(c)
            /\ made[c] = 1 /\ pc[c] = "idle" /\ row.status # "accepted" =>
                 row.status = "pending" /\ row.req = Owner[c]

LEMMA CrossingInit == FriendsInit => CrossingInv
<1> SUFFICES ASSUME FriendsInit PROVE CrossingInv
  OBVIOUS
<1>1. row.status = "none" /\ row.deleted = FALSE /\ crossed = {}
  BY DEF FriendsInit
<1>2. \A c \in Client : made[c] = 0 /\ call[c] = "none" /\ pc[c] = "idle"
  BY DEF FriendsInit
<1> QED BY <1>1, <1>2 DEF CrossingInv, Requested

\* A call that has been made stays made: whoever is only asking was so before.
LEMMA AskingBefore ==
  ASSUME IInv, CrossingInv, [FriendsNext]_friendsVars, Asking' PROVE Asking
<1>1. CASE UNCHANGED friendsVars
  BY <1>1 DEF friendsVars, Asking
<1>2. ASSUME NEW c \in Client, NEW k, Start(c, k), cancels' = cancels PROVE Asking
  <2>1. \A d \in Client : d # c => made'[d] = made[d] /\ call'[d] = call[d]
    BY <1>2 DEF Start, IInv, FriendsTypeOK
  <2>2. made[c] \in Nat /\ made'[c] = made[c] + 1
    BY <1>2, Bounds DEF Start, IInv, FriendsTypeOK
  <2>3. made[c] = 0 /\ call[c] = "none"
    BY <2>2 DEF Asking, CrossingInv
  <2> QED BY <1>2, <2>1, <2>3 DEF Asking
<1>3. CASE UNCHANGED <<call, made, cancels>>
  BY <1>3 DEF Asking
<1>4. ASSUME NEW c \in Client, CancelCall(c) PROVE FALSE
  BY <1>4 DEF CancelCall, Asking, IInv, FriendsTypeOK
<1> QED BY <1>1, <1>2, <1>3, <1>4 DEF FriendsNext, SendRequest, Block, Upsert, LoadPair,
    RevivePair, AcceptPair, SetBlocked, ResolveRead, ResolveWrite, Delete

Kinds == {"send", "block", "accept", "reject", "delete"}

\* One client moves: it starts a call, or goes on with one.
LEMMA OneMoves ==
  ASSUME IInv, FriendsNext
  PROVE  \E c \in Client :
           /\ \A d \in Client \ {c} : pc'[d] = pc[d]
           /\ (\E k \in Kinds : Start(c, k)) \/ (pc[c] # "idle" /\ UNCHANGED <<call, made>>)
<1>1. PICK c \in Client :
        \/ SendRequest(c) \/ Block(c) \/ LoadPair(c) \/ RevivePair(c) \/ AcceptPair(c)
        \/ SetBlocked(c) \/ ResolveRead(c) \/ ResolveWrite(c) \/ Delete(c) \/ CancelCall(c)
  BY DEF FriendsNext
<1>2. \A d \in Client \ {c} : pc'[d] = pc[d]
  BY <1>1 DEF SendRequest, Block, Upsert, LoadPair, RevivePair, AcceptPair, SetBlocked,
     ResolveRead, ResolveWrite, Delete, CancelCall, Created, Goto, End, IInv, FriendsTypeOK
<1>3. (\E k \in Kinds : Start(c, k)) \/ (pc[c] # "idle" /\ UNCHANGED <<call, made>>)
  BY <1>1 DEF SendRequest, Block, Upsert, LoadPair, RevivePair, AcceptPair, SetBlocked,
     ResolveRead, ResolveWrite, Delete, CancelCall, Kinds
<1> QED BY <1>2, <1>3

\* A client that has made no call stands still and names none.
LEMMA UnmadeNext ==
  ASSUME IInv, CrossingInv, [FriendsNext]_friendsVars, NEW d \in Client, made'[d] = 0
  PROVE  call'[d] = "none" /\ pc'[d] = "idle" /\ made[d] = 0
<1>1. CASE UNCHANGED friendsVars
  BY <1>1 DEF friendsVars, CrossingInv
<1>2. CASE FriendsNext
  <2>1. PICK c \in Client :
          /\ \A e \in Client \ {c} : pc'[e] = pc[e]
          /\ (\E k \in Kinds : Start(c, k)) \/ (pc[c] # "idle" /\ UNCHANGED <<call, made>>)
    BY <1>2, OneMoves
  <2>2. \A e \in Client : made[e] \in Nat
    BY Bounds DEF IInv, FriendsTypeOK
  <2>3. CASE \E k \in Kinds : Start(c, k)
    <3>1. /\ made'[c] = made[c] + 1
          /\ \A e \in Client \ {c} : made'[e] = made[e] /\ call'[e] = call[e]
      BY <2>3 DEF Start, IInv, FriendsTypeOK
    <3>2. d # c
      BY <2>2, <3>1
    <3> QED BY <2>1, <3>1, <3>2 DEF CrossingInv
  <2>4. CASE pc[c] # "idle" /\ UNCHANGED <<call, made>>
    BY <2>1, <2>4 DEF CrossingInv
  <2> QED BY <2>1, <2>3, <2>4
<1> QED BY <1>1, <1>2

\* A client between two statements is making some call.
LEMMA CallNext ==
  ASSUME IInv, CrossingInv, [FriendsNext]_friendsVars, NEW d \in Client, call'[d] = "none"
  PROVE  pc'[d] = "idle"
<1>1. CASE UNCHANGED friendsVars
  BY <1>1 DEF friendsVars, CrossingInv
<1>2. CASE FriendsNext
  <2>1. PICK c \in Client :
          /\ \A e \in Client \ {c} : pc'[e] = pc[e]
          /\ (\E k \in Kinds : Start(c, k)) \/ (pc[c] # "idle" /\ UNCHANGED <<call, made>>)
    BY <1>2, OneMoves
  <2>2. CASE \E k \in Kinds : Start(c, k)
    <3>1. call'[c] # "none" /\ \A e \in Client \ {c} : call'[e] = call[e]
      BY <2>2 DEF Start, IInv, FriendsTypeOK, Kinds
    <3> QED BY <2>1, <3>1 DEF CrossingInv
  <2>3. CASE pc[c] # "idle" /\ UNCHANGED <<call, made>>
    BY <2>1, <2>3 DEF CrossingInv
  <2> QED BY <2>1, <2>2, <2>3
<1> QED BY <1>1, <1>2

\* What CrossingInv says of the row while both are only asking
Plain == ~row.deleted /\ row.status # "blocked" /\ crossed = {}

\* What CrossingInv says of a client while both are only asking
Crossing(c) ==
  /\ pc[c] \in {"idle", "load", "accept"}
  /\ Requested(c)
  /\ made[c] = 1 /\ pc[c] = "idle" /\ row.status # "accepted" =>
       row.status = "pending" /\ row.req = Owner[c]

\* Whoever writes the row first waits, whoever finds it taken goes on to accept it.
LEMMA CrossingNext == IInv /\ CrossingInv /\ [FriendsNext]_friendsVars => CrossingInv'
<1> SUFFICES ASSUME IInv, CrossingInv, [FriendsNext]_friendsVars PROVE CrossingInv'
  OBVIOUS
<1>1. \A c \in Client : made'[c] = 0 => call'[c] = "none" /\ pc'[c] = "idle"
  BY UnmadeNext
<1>2. \A c \in Client : call'[c] = "none" => pc'[c] = "idle"
  BY CallNext
<1>3. ASSUME Asking'
      PROVE  Plain' /\ \A c \in Client : Crossing(c)'
  <2>1. Asking /\ Plain /\ \A c \in Client : Crossing(c)
    BY <1>3, AskingBefore DEF CrossingInv, Plain, Crossing
  <2>2. CASE UNCHANGED friendsVars
    BY <2>1, <2>2 DEF friendsVars, Plain, Crossing, Requested
  <2>3. ASSUME NEW c \in Client, SendRequest(c)
        PROVE  Plain' /\ \A d \in Client : Crossing(d)'
    <3>1. /\ pc[c] = "idle" /\ made' = [made EXCEPT ![c] = @ + 1]
          /\ made'[c] <= 1 /\ made[c] \in Nat /\ made'[c] = made[c] + 1
      BY <1>3, <2>3, Bounds DEF SendRequest, Upsert, Start, Asking, IInv, FriendsTypeOK
    <3>2. made[c] = 0 /\ made'[c] = 1
      BY <3>1
    <3>3. CASE row.status = "none" \/ row.req = Owner[c]
      <4>1. row.status = "none"
        <5>1. SUFFICES ASSUME row.status # "none" PROVE FALSE
          OBVIOUS
        <5>2. PICK d \in Client : Owner[d] = Owner[c] /\ made[d] = 1
          BY <2>1, <3>3, <5>1 DEF Crossing, Requested
        <5>3. d # c /\ made'[d] = 1
          BY <3>1, <3>2, <5>2 DEF IInv, FriendsTypeOK
        <5> QED BY <1>3, <3>2, <5>2, <5>3 DEF Asking
      <4>2. row' = [status |-> "pending", req |-> Owner[c], deleted |-> FALSE]
            /\ pc' = [pc EXCEPT ![c] = "idle"]
        BY <2>3, <3>3 DEF SendRequest, Upsert, Pending, Created, End, Goto
      <4>3. \A d \in Client \ {c} : made[d] = 0 \/ pc[d] \in {"load", "accept"}
        BY <2>1, <4>1, Bounds DEF Crossing, Asking, IInv, FriendsTypeOK
      <4>4. \A d \in Client \ {c} : pc[d] \notin {"load", "accept"}
        BY <4>1 DEF IInv, Between
      <4>5. \A d \in Client \ {c} : made'[d] = 0
        BY <3>1, <4>3, <4>4 DEF IInv, FriendsTypeOK
      <4>6. pc'[c] = "idle" /\ \A d \in Client \ {c} : pc'[d] = pc[d]
        BY <4>2 DEF IInv, FriendsTypeOK
      <4>7. Plain' /\ \A d \in Client : Requested(d)'
        BY <2>1, <2>3, <3>2, <4>2 DEF Plain, Requested, SendRequest, Upsert
      <4> QED BY <2>1, <3>2, <4>2, <4>5, <4>6, <4>7 DEF Crossing
    <3>4. CASE ~(row.status = "none" \/ row.req = Owner[c])
      <4>1. row' = row /\ crossed' = crossed /\ pc' = [pc EXCEPT ![c] = "load"]
        BY <2>3, <3>4 DEF SendRequest, Upsert, Goto
      <4>2. \A d \in Client \ {c} : made'[d] = made[d] /\ pc'[d] = pc[d]
        BY <3>1, <4>1 DEF IInv, FriendsTypeOK
      <4>3. pc'[c] = "load"
        BY <4>1 DEF IInv, FriendsTypeOK
      <4>4. \A d \in Client : made[d] = 1 => made'[d] = 1
        BY <3>2, <4>2
      <4>5. \A d \in Client : Requested(d)'
        BY <2>1, <4>1, <4>4 DEF Crossing, Requested
      <4> QED BY <2>1, <4>1, <4>2, <4>3, <4>5 DEF Plain, Crossing
    <3> QED BY <3>3, <3>4
  <2>4. ASSUME NEW c \in Client, LoadPair(c)
        PROVE  Plain' /\ \A d \in Client : Crossing(d)'
    <3>1. /\ Between(c) /\ row.req # Owner[c]
          /\ row' = row /\ made' = made /\ crossed' = crossed
      BY <2>1, <2>4 DEF LoadPair, Between, IInv, Plain
    <3>2. \/ row.status = "accepted"
          \/ row.status = "pending" /\ pc' = [pc EXCEPT ![c] = "accept"]
      BY <2>1, <2>4, <3>1 DEF LoadPair, Goto, Plain
    <3>3. \E where \in {"idle", "accept"} : pc' = [pc EXCEPT ![c] = where]
      BY <2>1, <2>4, <3>1 DEF LoadPair, Goto, End, Plain
    <3>4. \A d \in Client : Requested(d)'
      BY <2>1, <3>1 DEF Crossing, Requested
    <3> QED BY <2>1, <3>1, <3>2, <3>3, <3>4 DEF Plain, Crossing, IInv, FriendsTypeOK
  <2>5. ASSUME NEW c \in Client, AcceptPair(c)
        PROVE  Plain' /\ \A d \in Client : Crossing(d)'
    <3>1. /\ row'.status = "accepted" /\ row'.deleted = row.deleted /\ row'.req = row.req
          /\ row.status # "none" /\ made' = made /\ crossed' = crossed
      BY <2>5 DEF AcceptPair, IInv, FriendsTypeOK, Between
    <3>2. call[c] = "send"
      BY <2>1, <2>5 DEF AcceptPair, Asking, CrossingInv
    <3>3. pc' = [pc EXCEPT ![c] = "idle"]
      BY <2>5, <3>2 DEF AcceptPair, Created, End, Goto
    <3>4. \A d \in Client : Requested(d)'
      BY <2>1, <3>1 DEF Crossing, Requested
    <3> QED BY <2>1, <3>1, <3>3, <3>4 DEF Plain, Crossing, IInv, FriendsTypeOK
  <2>6. ASSUME NEW c \in Client, RevivePair(c) \/ SetBlocked(c) \/ ResolveWrite(c) PROVE FALSE
    BY <2>1, <2>6 DEF Crossing, RevivePair, SetBlocked, ResolveWrite
  <2>7. ASSUME NEW c \in Client, Block(c) \/ ResolveRead(c) \/ Delete(c) PROVE FALSE
    BY <1>3, <2>7 DEF Block, Upsert, ResolveRead, Delete, Start, Asking, IInv, FriendsTypeOK
  <2>8. ASSUME NEW c \in Client, CancelCall(c) PROVE FALSE
    BY <1>3, <2>8 DEF CancelCall, Asking, IInv, FriendsTypeOK
  <2> QED BY <2>2, <2>3, <2>4, <2>5, <2>6, <2>7, <2>8 DEF FriendsNext
<1> QED BY <1>1, <1>2, <1>3 DEF CrossingInv, Plain, Crossing

\* Both requests done and neither cancelled: if the row were not accepted, it would
\* be the request of each of two different users (friends.go:36-92).
LEMMA CrossingMeans == IInv /\ CrossingInv => CrossedRequests
<1> SUFFICES ASSUME IInv, CrossingInv, EachAskedOnce, \A c \in Client : pc[c] = "idle"
             PROVE  Friends
  BY DEF CrossedRequests
<1>1. Asking
  BY DEF Asking, EachAskedOnce
<1>2. PICK u, v \in Pair : Pair = {u, v}
  BY FriendshipAssumption DEF FriendshipAssumption
<1>3. u # v
  BY <1>2, PairAssumption DEF PairAssumption
<1>4. PICK c \in Client : Owner[c] = u /\ made[c] = 1
  BY DEF EachAskedOnce
<1>5. PICK d \in Client : Owner[d] = v /\ made[d] = 1
  BY DEF EachAskedOnce
<1>6. row.status # "accepted" => row.req = Owner[c] /\ row.req = Owner[d]
  BY <1>1, <1>4, <1>5 DEF CrossingInv
<1> QED BY <1>1, <1>3, <1>4, <1>5, <1>6 DEF CrossingInv, Friends

\* Two users who each ask the other once become friends, whatever the order of the
\* statements of their two calls.
THEOREM CrossedRequestsMeet == FriendsSpec => []CrossedRequests
<1>1. FriendsInit => IInv /\ CrossingInv
  BY Initially, CrossingInit
<1>2. IInv /\ CrossingInv /\ [FriendsNext]_friendsVars => IInv' /\ CrossingInv'
  BY Inductive, CrossingNext
<1> QED BY <1>1, <1>2, CrossingMeans, PTL DEF FriendsSpec
=============================================================================
