----------------------------- MODULE Friendship -----------------------------
(***************************************************************************)
(* Friend requests, acceptances, removals and blocks between two users:    *)
(* server/internal/handlers/friends_handler.go over                        *)
(* server/internal/repository/friends.go.  A unique index on the unordered *)
(* pair (migrations/004_social_messages.up.sql) allows the two of them one *)
(* row of the table friendships.                                           *)
(*                                                                         *)
(* A handler runs its SQL statements one by one, without a transaction:    *)
(* each is a step, and calls of both users interleave between them,        *)
(* several of one user too, from two devices or by a button pressed twice. *)
(* A call whose client goes away is cancelled at its next statement.       *)
(***************************************************************************)
EXTENDS Naturals

CONSTANTS Pair,        \* two users
          Client,      \* who makes calls for them, one at a time
          Owner,       \* the user of each client
          Calls,       \* bound: calls each client makes
          MaxCancels   \* bound: calls cancelled

ASSUME FriendshipAssumption ==
  /\ \E u, v \in Pair : Pair = {u, v}
  /\ Owner \in [Client -> Pair]
  /\ {Calls, MaxCancels} \subseteq Nat

\* The two are different, and each has a client
ASSUME PairAssumption ==
  /\ \A u, v \in Pair : Pair = {u, v} => u # v
  /\ \A u \in Pair : \E c \in Client : Owner[c] = u

VARIABLES
  row,      \* the row of the pair: status ("none" without a row), requester,
            \* deleted_at set or not
  pc,       \* the next statement of each client's call
  call,     \* which call it is
  made,     \* how many calls each client has started
  acted,    \* who has asked, accepted or blocked since the pair was last removed
  crossed,  \* history: users who revived the removed row while another call of
            \* theirs had yet to act on what it read; a removal forgets those who
            \* have no such call left
  cancels

friendsVars == <<row, pc, call, made, acted, crossed, cancels>>

FriendsInit ==
  /\ row \in [status : {"none"}, req : Pair, deleted : {FALSE}]
  /\ pc = [c \in Client |-> "idle"]
  /\ call = [c \in Client |-> "none"]
  /\ made = [c \in Client |-> 0]
  /\ acted = {} /\ crossed = {}
  /\ cancels = 0

Start(c, k) ==
  /\ pc[c] = "idle" /\ made[c] < Calls
  /\ made' = [made EXCEPT ![c] = @ + 1]
  /\ call' = [call EXCEPT ![c] = k]

Goto(c, where) == pc' = [pc EXCEPT ![c] = where]
End(c) == Goto(c, "idle")

\* CreateFriendRequest has returned the row: a request is done, a block goes on
Created(c, k) == IF k = "send" THEN End(c) ELSE Goto(c, "block")

Acts(c) == acted' = acted \cup {Owner[c]}

Pending(c) == row' = [status |-> "pending", req |-> Owner[c], deleted |-> FALSE]

\* fault: a row in the other direction is reset as well
UpsertBoth(c, k) ==
  /\ Start(c, k)
  /\ Pending(c) /\ Created(c, k)
  /\ Acts(c) /\ UNCHANGED <<crossed, cancels>>

\* INSERT ... ON CONFLICT (requester_id, addressee_id): a row in the same
\* direction is reset, one in the other direction violates the pair index
Upsert(c, k) ==
  /\ Start(c, k)
  /\ IF row.status = "none" \/ row.req = Owner[c]
     THEN Pending(c) /\ Created(c, k)
     ELSE row' = row /\ Goto(c, "load")
  /\ Acts(c) /\ UNCHANGED <<crossed, cancels>>

SendRequest(c) == Upsert(c, "send")
Block(c) == Upsert(c, "block")

\* loadFriendshipPair, and what resolveFriendRequestPair decides from it
LoadPair(c) ==
  /\ pc[c] = "load"
  /\ \/ row.deleted /\ Goto(c, "revive")
     \/ ~row.deleted /\ row.status \in {"accepted", "blocked"} /\ End(c)
     \/ /\ ~row.deleted /\ row.status = "pending"
        /\ IF row.req # Owner[c] THEN Goto(c, "accept") ELSE Created(c, call[c])
  /\ UNCHANGED <<row, call, made, acted, crossed, cancels>>

\* fault: the status of a removed row survives its revival
Unreset(c) == row' = [row EXCEPT !.req = Owner[c], !.deleted = FALSE]

Revived(c) == Pending(c)

\* A call that has read the row, as the other user's, and has yet to act on it
Between(c) == pc[c] \in {"load", "revive", "accept", "resolve"}

RevivePair(c) ==
  /\ pc[c] = "revive"
  /\ Revived(c) /\ Created(c, call[c]) /\ Acts(c)
  /\ crossed' = crossed \cup {Owner[d] : d \in {d \in Client \ {c} :
                                             Owner[d] = Owner[c] /\ Between(d)}}
  /\ UNCHANGED <<call, made, cancels>>

AcceptPair(c) ==
  /\ pc[c] = "accept"
  /\ row' = [row EXCEPT !.status = "accepted"]
  /\ Created(c, call[c]) /\ Acts(c)
  /\ UNCHANGED <<call, made, crossed, cancels>>

SetBlocked(c) ==
  /\ pc[c] = "block"
  /\ row' = [row EXCEPT !.status = "blocked"]
  /\ End(c)
  /\ UNCHANGED <<call, made, acted, crossed, cancels>>

\* ResolveFriendRequest: only the addressee, whatever the status of the row
ResolveRead(c) ==
  /\ row.status # "none" /\ ~row.deleted /\ row.req # Owner[c]
  /\ \E action \in {"accept", "reject"} : Start(c, action)
  /\ Goto(c, "resolve")
  /\ UNCHANGED <<row, acted, crossed, cancels>>

Resolved(action) == IF action = "accept" THEN "accepted" ELSE "blocked"

ResolveWrite(c) ==
  /\ pc[c] = "resolve"
  /\ row' = [row EXCEPT !.status = Resolved(call[c])]
  /\ End(c) /\ Acts(c)
  /\ UNCHANGED <<call, made, crossed, cancels>>

\* DeleteFriend, and UnblockUser, which is the same statement
Delete(c) ==
  /\ Start(c, "delete")
  /\ row' = IF row.status = "none" THEN row ELSE [row EXCEPT !.deleted = TRUE]
  /\ End(c)
  /\ acted' = {}
  /\ crossed' = crossed \cap {Owner[d] : d \in {d \in Client : Between(d)}}
  /\ UNCHANGED cancels

CancelCall(c) ==
  /\ pc[c] # "idle" /\ cancels < MaxCancels
  /\ cancels' = cancels + 1
  /\ End(c)
  /\ UNCHANGED <<row, call, made, acted, crossed>>

FriendsNext == \E c \in Client :
  \/ SendRequest(c) \/ Block(c) \/ LoadPair(c) \/ RevivePair(c) \/ AcceptPair(c)
  \/ SetBlocked(c) \/ ResolveRead(c) \/ ResolveWrite(c) \/ Delete(c) \/ CancelCall(c)

FriendsSpec == FriendsInit /\ [][FriendsNext]_friendsVars

---------------------------------------------------------------------------
(* Properties *)

\* Every variable holds a value of its kind.
FriendsTypeOK ==
  /\ row \in [status : {"none", "pending", "accepted", "blocked"}, req : Pair,
              deleted : BOOLEAN]
  /\ pc \in [Client -> {"idle", "load", "revive", "accept", "block", "resolve"}]
  /\ call \in [Client -> {"none", "send", "block", "accept", "reject", "delete"}]
  /\ acted \subseteq Pair /\ crossed \subseteq Pair
  /\ made \in [Client -> 0 .. Calls] /\ cancels \in 0 .. MaxCancels

Friends == row.status = "accepted" /\ ~row.deleted

\* AreFriends, which opens direct messages and presence, never says yes before
\* both users have acted towards each other since the pair was last removed,
\* however the statements of their calls interleave.  (Blocking counts: it goes
\* through a request, and accepts one that is waiting.)  The exception is a user
\* one of whose calls read the other's request, while another call revived the
\* row, removed meanwhile: the first then accepts what has become the user's own
\* request (friends.go:63-103, friends_handler.go:97-115), and nobody but that
\* user has acted.
Mutual == Friends => acted = Pair \/ row.req \in crossed

\* Each of the two users has asked the other once, and nothing else was called
EachAskedOnce ==
  /\ cancels = 0
  /\ \A c \in Client : made[c] \in {0, 1} /\ call[c] \in {"none", "send"}
  /\ \A u \in Pair : \E c \in Client : Owner[c] = u /\ made[c] = 1
  /\ \A c, d \in Client : Owner[c] = Owner[d] /\ made[c] = 1 /\ made[d] = 1 => c = d

\* When each of the two asks the other once, at the same time or not, they end
\* up friends: neither request is lost or left waiting.
CrossedRequests == EachAskedOnce /\ (\A c \in Client : pc[c] = "idle") => Friends
=============================================================================
