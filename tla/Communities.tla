---------------------------- MODULE Communities ----------------------------
(***************************************************************************)
(* Communities, their members and roles                                    *)
(* (server/internal/handlers/communities_handler.go over                   *)
(* server/internal/repository/communities.go), and the plan that limits    *)
(* how many a user owns (server/internal/middleware/plan.go).              *)
(*                                                                         *)
(* A handler reads roles in one statement and writes rows in a later one,  *)
(* without a transaction: a slot of req holds what a call in progress has  *)
(* read.  A call may be cut off before any statement.                      *)
(*                                                                         *)
(* Left out: names, departments, announcements and messages; is_public, so *)
(* a join by code goes either way; the expiry of bans, which no statement  *)
(* of the server compares with anything.                                   *)
(***************************************************************************)
EXTENDS Naturals, FiniteSets

CONSTANTS User, Community,
          Request,         \* slots of concurrent calls
          Granted,         \* roles that clients ask for
          MaxCommunities,  \* of each user's plan
          MaxCalls         \* bound of the calls

roleRank == [viewer |-> 0, user |-> 1, tech |-> 2, admin_sec |-> 3,
             admin |-> 4, owner |-> 5]

Role == DOMAIN roleRank

ASSUME CommunitiesAssumption ==
  /\ MaxCommunities \in [User -> Nat] /\ MaxCalls \in Nat
  /\ Granted \subseteq Role /\ IsFiniteSet(Community)
  /\ IsFiniteSet(Request) /\ Request # {}

VARIABLES
  community, \* rows of communities: live or deleted, and owner_id
  member,    \* roles in community_members; "gone" when the row is deleted
  asked,     \* rows of join_requests
  banned,    \* rows of community_bans
  req,       \* what each call in progress does next
  calls,
  \* history
  forfeit,   \* communities whose creator was banned or joined or was added
             \* again, or whose creation was cut off between its statements
  overtaken  \* communities whose owner was inserted after a call had passed
             \* its check to remove that user or change the role

history == <<forfeit, overtaken>>
vars == <<community, member, asked, banned, req, calls, history>>

Absent == [status |-> "none"]
Idle == [step |-> "idle"]

Init ==
  /\ community = [c \in Community |-> Absent]
  /\ member = [c \in Community |-> [u \in User |-> "none"]]
  /\ asked = [c \in Community |-> [u \in User |-> "none"]]
  /\ banned = [c \in Community |-> {}]
  /\ req = [r \in Request |-> Idle]
  /\ calls = 0 /\ forfeit = {} /\ overtaken = {}

Begin(r, task) ==
  /\ req[r] = Idle /\ calls < MaxCalls
  /\ req' = [req EXCEPT ![r] = task] /\ calls' = calls + 1

Then(r, step) == req' = [req EXCEPT ![r].step = step] /\ UNCHANGED calls
Done(r) == req' = [req EXCEPT ![r] = Idle] /\ UNCHANGED calls
At(r, step) == req[r].step = step

Live(c) == community[c].status = "live"

-----------------------------------------------------------------------------
(* Roles                                                                   *)

\* A role the table does not know, and no role at all, rank lowest
Rank(role) == IF role \in Role THEN roleRank[role] ELSE 0

\* fault: equals manage each other
ManagesEqual(actor, target) == Rank(actor) >= Rank(target)

canManageRole(actor, target) == Rank(actor) > Rank(target)

canPromoteTo(actor, desired) ==
  \/ actor = "owner"
  \/ actor \in {"admin", "admin_sec"} /\ Rank(desired) <= Rank("tech")

\* The roles that the handlers of bans, requests and additions let pass
Manager == {"owner", "admin", "admin_sec"}

IsMember(c, u) == member[c][u] \in Role

-----------------------------------------------------------------------------
(* Creating and deleting                                                   *)

\* CountUserCommunities
Owned(u) == {c \in Community : Live(c) /\ community[c].owner = u}

\* fault: one community more than the plan says
WithinOneMore(u) == Cardinality(Owned(u)) <= MaxCommunities[u]

\* RequireMaxCommunities, before the handler runs
WithinPlan(u) == Cardinality(Owned(u)) < MaxCommunities[u]

PostCommunity(r, u) ==
  /\ WithinPlan(u)
  /\ Begin(r, [step |-> "create", u |-> u])
  /\ UNCHANGED <<community, member, asked, banned, history>>

InsertCommunity(r, c) ==
  /\ At(r, "create") /\ community[c] = Absent
  /\ community' = [community EXCEPT ![c] = [status |-> "live", owner |-> req[r].u]]
  /\ req' = [req EXCEPT ![r] = [step |-> "owner", c |-> c, u |-> req[r].u]]
  /\ UNCHANGED <<member, asked, banned, calls, history>>

\* Calls past their check that change the role of u in c or remove u
Changing(c, u) ==
  {q \in Request : req[q].step \in {"update", "remove"} /\ req[q].c = c /\ req[q].u = u}

\* ON CONFLICT DO NOTHING: a row the creator got in between stays as it is
InsertOwner(r) ==
  /\ At(r, "owner") /\ Done(r)
  /\ LET c == req[r].c
         u == req[r].u
     IN  /\ member' = IF member[c][u] = "none"
                      THEN [member EXCEPT ![c][u] = "owner"] ELSE member
         /\ overtaken' = IF Changing(c, u) = {} THEN overtaken ELSE overtaken \cup {c}
  /\ UNCHANGED <<community, asked, banned, forfeit>>

\* DeleteCommunity, by the user in owner_id, who never changes
SoftDeleteCommunity(c) ==
  /\ Live(c)
  /\ community' = [community EXCEPT ![c].status = "deleted"]
  /\ UNCHANGED <<member, asked, banned, req, calls, history>>

-----------------------------------------------------------------------------
(* Changing a member's role, removing a member                             *)

\* UpdateCommunityMember and RemoveCommunityMember read the actor's role ...
ReadActor(r, a, c, u, what, desired) ==
  /\ community[c] # Absent
  /\ what = "update" => IsMember(c, a)
  /\ Begin(r, [step |-> "target", c |-> c, u |-> u, what |-> what,
               role |-> member[c][a], desired |-> desired])
  /\ UNCHANGED <<community, member, asked, banned, history>>

\* ... then the target's, and compare
Permitted(r, target) ==
  /\ canManageRole(req[r].role, target)
  /\ req[r].what = "update" => canPromoteTo(req[r].role, req[r].desired)

ReadTarget(r) ==
  /\ At(r, "target")
  /\ IF Permitted(r, member[req[r].c][req[r].u]) THEN Then(r, req[r].what) ELSE Done(r)
  /\ UNCHANGED <<community, member, asked, banned, history>>

UpdateMember(r) ==
  /\ At(r, "update") /\ Done(r)
  /\ LET c == req[r].c
         u == req[r].u
     IN  member' = IF IsMember(c, u)
                   THEN [member EXCEPT ![c][u] = req[r].desired] ELSE member
  /\ UNCHANGED <<community, asked, banned, history>>

Removed(c, u) ==
  IF member[c][u] = "none" THEN member ELSE [member EXCEPT ![c][u] = "gone"]

RemoveMember(r) ==
  /\ At(r, "remove") /\ Done(r)
  /\ member' = Removed(req[r].c, req[r].u)
  /\ UNCHANGED <<community, asked, banned, history>>

-----------------------------------------------------------------------------
(* Bans, additions and join requests: the actor's role is read and nothing *)
(* else of the member list                                                 *)

Forfeited(c, u) == IF community[c].owner = u THEN forfeit \cup {c} ELSE forfeit

\* "ban", "unban", "review", or "add" with the role that is asked for
CheckManager(r, a, c, u, what, desired) ==
  /\ community[c] # Absent /\ member[c][a] \in Manager
  /\ what = "review" => asked[c][u] # "none"
  /\ Begin(r, [step |-> what, c |-> c, u |-> u, desired |-> desired])
  /\ UNCHANGED <<community, member, asked, banned, history>>

\* A second row for the user is refused, and the handler returns
CreateBan(r) ==
  /\ At(r, "ban")
  /\ LET c == req[r].c
         u == req[r].u
     IN  /\ IF u \in banned[c] THEN Done(r) ELSE Then(r, "eject")
         /\ banned' = [banned EXCEPT ![c] = @ \cup {u}]
  /\ UNCHANGED <<community, member, asked, history>>

EjectBanned(r) ==
  /\ At(r, "eject") /\ Done(r)
  /\ member' = Removed(req[r].c, req[r].u)
  /\ forfeit' = Forfeited(req[r].c, req[r].u)
  /\ UNCHANGED <<community, asked, banned, overtaken>>

DeleteBan(r) ==
  /\ At(r, "unban") /\ Done(r)
  /\ banned' = [banned EXCEPT ![req[r].c] = @ \ {req[r].u}]
  /\ UNCHANGED <<community, member, asked, history>>

\* JoinCommunityByCode, the community being public
JoinPublic(r, u, c) ==
  /\ Live(c)
  /\ Begin(r, [step |-> "add", c |-> c, u |-> u, desired |-> "user"])
  /\ UNCHANGED <<community, member, asked, banned, history>>

\* AddCommunityMember: the role is set whatever row there was; bans are not read
AddMember(r) ==
  /\ At(r, "add") /\ Done(r)
  /\ member' = [member EXCEPT ![req[r].c][req[r].u] = req[r].desired]
  /\ forfeit' = Forfeited(req[r].c, req[r].u)
  /\ UNCHANGED <<community, asked, banned, overtaken>>

\* CreateJoinRequest: a request made again is pending again
RequestJoin(u, c) ==
  /\ community[c] # Absent /\ asked[c][u] # "pending"
  /\ asked' = [asked EXCEPT ![c][u] = "pending"]
  /\ UNCHANGED <<community, member, banned, req, calls, history>>

\* ReviewJoinRequest does not look at the status there is
Review(r, answer) ==
  /\ At(r, "review")
  /\ asked' = [asked EXCEPT ![req[r].c][req[r].u] = answer]
  /\ IF answer = "approved"
       THEN req' = [req EXCEPT ![r].step = "add", ![r].desired = "user"] /\ UNCHANGED calls
       ELSE Done(r)
  /\ UNCHANGED <<community, member, banned, history>>

-----------------------------------------------------------------------------
\* The client goes away, or the server stops
Cancel(r) ==
  /\ req[r] # Idle /\ Done(r)
  /\ forfeit' = IF At(r, "owner") THEN forfeit \cup {req[r].c} ELSE forfeit
  /\ UNCHANGED <<community, member, asked, banned, overtaken>>

Arrive(r) ==
  \/ \E u \in User : PostCommunity(r, u)
  \/ \E a, u \in User, c \in Community :
       \/ \E desired \in Granted :
            \/ ReadActor(r, a, c, u, "update", desired)
            \/ CheckManager(r, a, c, u, "add", desired)
       \/ ReadActor(r, a, c, u, "remove", "user")
       \/ \E what \in {"ban", "unban", "review"} : CheckManager(r, a, c, u, what, "user")
  \/ \E u \in User, c \in Community : JoinPublic(r, u, c)

Continue(r) ==
  \/ \E c \in Community : InsertCommunity(r, c)
  \/ InsertOwner(r) \/ ReadTarget(r) \/ UpdateMember(r) \/ RemoveMember(r)
  \/ CreateBan(r) \/ EjectBanned(r) \/ DeleteBan(r) \/ AddMember(r)
  \/ \E answer \in {"approved", "rejected"} : Review(r, answer)

Next ==
  \/ \E r \in Request : Arrive(r) \/ Continue(r) \/ Cancel(r)
  \/ \E c \in Community : SoftDeleteCommunity(c) \/ \E u \in User : RequestJoin(u, c)

Spec == Init /\ [][Next]_vars

-----------------------------------------------------------------------------
(* Properties                                                              *)

\* What the member list holds of a user
Held == Role \cup {"none", "gone"}

\* Calls in progress: creations, changes of a member, and the others
Creation == [step : {"create"}, u : User]
              \cup [step : {"owner"}, c : Community, u : User]
Change == [step : {"target", "update", "remove"}, c : Community, u : User,
           what : {"update", "remove"}, role : Held, desired : Role]
Write == [step : {"ban", "eject", "unban", "review", "add"},
          c : Community, u : User, desired : Role]

\* Every variable holds a value of its kind, and a call in progress holds what
\* the statements it has still to execute use.
TypeOK ==
  /\ DOMAIN req = Request
  /\ community \in [Community -> {Absent} \cup [status : {"live", "deleted"}, owner : User]]
  /\ member \in [Community -> [User -> Held]]
  /\ asked \in [Community -> [User -> {"none", "pending", "approved", "rejected"}]]
  /\ banned \in [Community -> SUBSET User]
  /\ calls \in 0 .. MaxCalls /\ forfeit \subseteq Community
  /\ overtaken \subseteq Community
  /\ \A r \in Request : req[r] \in {Idle} \cup Creation \cup Change \cup Write

\* A call that has inserted a community and not yet its owner
Creating(c) == \E r \in Request : At(r, "owner") /\ req[r].c = c

\* The user who created a community stays its owner: whatever roles change
\* while calls that read them are on their way, no change of a role and no
\* removal whose roles were read once the owner was inserted reaches the creator.
\* Three things do.  A ban, and anything that adds the creator again: the handlers
\* of these do not read the role of their target.  And the removal by a user who
\* joined between the two insertions of the creation, and then read no role of the
\* creator: it passes its check and removes the owner inserted since.
OwnerKept ==
  \A c \in Community \ (forfeit \cup overtaken) :
    \/ community[c] = Absent \/ Creating(c)
    \/ member[c][community[c].owner] = "owner"

\* A user owns at most as many communities as the plan allows, and one more for
\* each call that can be between the count and the insertion besides the first.
PlanBound ==
  \A u \in User :
    Cardinality(Owned(u)) < MaxCommunities[u] + Cardinality(Request)
=============================================================================
