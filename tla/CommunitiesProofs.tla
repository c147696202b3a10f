------------------------- MODULE CommunitiesProofs -------------------------
(* Proofs about Communities, for any users, communities, plans, concurrent *)
(* calls and bound of the calls.                                           *)
EXTENDS Communities, FiniteSetTheorems, TLAPS

USE DEF history

\* The table of roles, and that no role ranks above the owner's.
LEMMA Ranks ==
  /\ Role = {"viewer", "user", "tech", "admin_sec", "admin", "owner"}
  /\ \A role : Rank(role) \in 0 .. 5
  /\ Rank("owner") = 5
  /\ Manager \subseteq Role
<1>1. Role = {"viewer", "user", "tech", "admin_sec", "admin", "owner"}
  BY DEF Role, roleRank
<1> QED BY <1>1 DEF Rank, roleRank, Manager

\* No role manages an owner, not even another owner's.
LEMMA NobodyManagesOwner == \A role : ~canManageRole(role, "owner")
BY Ranks DEF canManageRole

\* Tables and calls start well typed, and every statement leaves them so.
LEMMA TypeInit == Init => TypeOK
BY CommunitiesAssumption DEF Init, TypeOK, Held, Idle, Creation, Change, Write

\* The step of TypeCorrect.
LEMMA TypeNext == TypeOK /\ [Next]_vars => TypeOK'
<1> SUFFICES ASSUME TypeOK, [Next]_vars PROVE TypeOK'
  OBVIOUS
<1> USE CommunitiesAssumption, Ranks DEF TypeOK, Idle, At, Creation, Change, Write
<1>0. CASE UNCHANGED vars
  BY <1>0 DEF vars
<1>1. ASSUME NEW r \in Request, NEW u \in User, PostCommunity(r, u) PROVE TypeOK'
  BY <1>1 DEF PostCommunity, Begin
<1>2. ASSUME NEW r \in Request, NEW a \in User, NEW u \in User, NEW c \in Community,
             NEW what \in {"update", "remove"}, NEW desired \in Role,
             ReadActor(r, a, c, u, what, desired)
      PROVE  TypeOK'
  <2>1. member[c][a] \in Held
    OBVIOUS
  <2> QED BY <1>2, <2>1 DEF ReadActor, Begin
<1>3. ASSUME NEW r \in Request, NEW a \in User, NEW u \in User, NEW c \in Community,
             NEW what \in {"ban", "unban", "review", "add"}, NEW desired \in Role,
             CheckManager(r, a, c, u, what, desired)
      PROVE  TypeOK'
  BY <1>3 DEF CheckManager, Begin
<1>4. ASSUME NEW r \in Request, NEW u \in User, NEW c \in Community, JoinPublic(r, u, c)
      PROVE  TypeOK'
  BY <1>4 DEF JoinPublic, Begin
<1>5. ASSUME NEW r \in Request, NEW c \in Community, InsertCommunity(r, c) PROVE TypeOK'
  BY <1>5 DEF InsertCommunity, Absent
<1>6. ASSUME NEW r \in Request, InsertOwner(r) PROVE TypeOK'
  BY <1>6 DEF InsertOwner, Done, Held
<1>7. ASSUME NEW r \in Request, ReadTarget(r) PROVE TypeOK'
  <2>1. req[r] \in Change
    BY <1>7 DEF ReadTarget
  <2>2. [req[r] EXCEPT !.step = req[r].what] \in Change
    BY <2>1
  <2>3. CASE req' = [req EXCEPT ![r].step = req[r].what]
    BY <1>7, <2>1, <2>2, <2>3 DEF ReadTarget, Then, Done
  <2>4. CASE req' = [req EXCEPT ![r] = Idle]
    BY <1>7, <2>4 DEF ReadTarget, Then, Done
  <2> QED BY <1>7, <2>3, <2>4 DEF ReadTarget, Then, Done
<1>8. ASSUME NEW r \in Request, UpdateMember(r) PROVE TypeOK'
  BY <1>8 DEF UpdateMember, Done, Held
<1>9. ASSUME NEW r \in Request, RemoveMember(r) \/ EjectBanned(r) PROVE TypeOK'
  <2>1. req[r].c \in Community /\ req[r].u \in User
    BY <1>9 DEF RemoveMember, EjectBanned
  <2>2. Removed(req[r].c, req[r].u) \in [Community -> [User -> Held]]
    BY <2>1 DEF Removed, Held
  <2> QED BY <1>9, <2>1, <2>2 DEF RemoveMember, EjectBanned, Forfeited, Done
<1>10. ASSUME NEW r \in Request, CreateBan(r) \/ DeleteBan(r) PROVE TypeOK'
  <2>1. req[r] \in Write
    BY <1>10 DEF CreateBan, DeleteBan
  <2>2. [req[r] EXCEPT !.step = "eject"] \in Write
    BY <2>1
  <2>3. banned' \in [Community -> SUBSET User]
    BY <1>10, <2>1, SMTT(30) DEF CreateBan, DeleteBan
  <2>4. req' = [req EXCEPT ![r].step = "eject"] \/ req' = [req EXCEPT ![r] = Idle]
    BY <1>10 DEF CreateBan, DeleteBan, Then, Done
  <2>5. \A q \in Request : req'[q] \in {Idle} \cup Creation \cup Change \cup Write
    <3>1. CASE req' = [req EXCEPT ![r].step = "eject"]
      BY <3>1, <2>2
    <3>2. CASE req' = [req EXCEPT ![r] = Idle]
      BY <3>2
    <3> QED BY <2>4, <3>1, <3>2
  <2> QED BY <1>10, <2>3, <2>4, <2>5 DEF CreateBan, DeleteBan, Then, Done
<1>11. ASSUME NEW r \in Request, AddMember(r) PROVE TypeOK'
  BY <1>11 DEF AddMember, Forfeited, Done, Held
<1>12. ASSUME NEW r \in Request, NEW answer \in {"approved", "rejected"}, Review(r, answer)
       PROVE  TypeOK'
  <2>0. req[r].step = "review"
    BY <1>12 DEF Review
  <2>1. req[r] \in Write
    BY <2>0
  <2>2. [req[r] EXCEPT !.step = "add", !.desired = "user"] \in Write
    BY <2>1
  <2>3. \/ req' = [req EXCEPT ![r] = [req[r] EXCEPT !.step = "add", !.desired = "user"]]
        \/ req' = [req EXCEPT ![r] = Idle]
    <3>1. CASE answer = "approved"
      BY <1>12, <3>1, <2>1 DEF Review
    <3>2. CASE answer # "approved"
      BY <1>12, <3>2 DEF Review, Done
    <3> QED BY <3>1, <3>2
  <2>4. asked' \in [Community -> [User -> {"none", "pending", "approved", "rejected"}]]
    BY <1>12, <2>1 DEF Review
  <2>5. \A q \in Request : req'[q] \in {Idle} \cup Creation \cup Change \cup Write
    <3> DEFINE t == [req[r] EXCEPT !.step = "add", !.desired = "user"]
    <3>1. CASE req' = [req EXCEPT ![r] = Idle]
      BY <3>1
    <3>2. CASE req' = [req EXCEPT ![r] = t]
      <4>1. t \in Write
        BY <2>2
      <4> HIDE DEF t
      <4> QED BY <3>2, <4>1
    <3> QED BY <2>3, <3>1, <3>2
  <2> QED BY <1>12, <2>3, <2>4, <2>5 DEF Review, Done
<1>13. ASSUME NEW r \in Request, Cancel(r) PROVE TypeOK'
  BY <1>13 DEF Cancel, Done
<1>14. ASSUME NEW c \in Community, SoftDeleteCommunity(c) PROVE TypeOK'
  <2>1. community[c] \in [status : {"live", "deleted"}, owner : User]
    BY <1>14 DEF SoftDeleteCommunity, Live, Absent
  <2>2. [community[c] EXCEPT !.status = "deleted"]
          \in [status : {"live", "deleted"}, owner : User]
    BY <2>1
  <2> QED BY <1>14, <2>2 DEF SoftDeleteCommunity
<1>15. ASSUME NEW c \in Community, NEW u \in User, RequestJoin(u, c) PROVE TypeOK'
  BY <1>15 DEF RequestJoin
<1> HIDE DEF TypeOK, Idle, At, Creation, Change, Write
<1>16. ASSUME NEW r \in Request, Arrive(r) PROVE TypeOK'
  BY <1>1, <1>2, <1>3, <1>4, <1>16 DEF Arrive
<1>17. ASSUME NEW r \in Request, Continue(r) PROVE TypeOK'
  BY <1>5, <1>6, <1>7, <1>8, <1>9, <1>10, <1>11, <1>12, <1>17 DEF Continue
<1> QED BY <1>0, <1>13, <1>14, <1>15, <1>16, <1>17 DEF Next

\* Every variable of Communities holds a value of its kind.
THEOREM TypeCorrect == Spec => []TypeOK
BY TypeInit, TypeNext, PTL DEF Spec

-----------------------------------------------------------------------------
(* The creator stays owner                                                 *)

\* Rows and calls are about communities that exist, and a call that still has to
\* insert an owner is the creator's.
Placed ==
  /\ \A r \in Request :
       req[r].step \notin {"idle", "create"} => community[req[r].c] # Absent
  /\ \A r \in Request : At(r, "owner") => community[req[r].c].owner = req[r].u
  /\ \A c \in Community, u \in User : community[c] = Absent => member[c][u] = "none"

OneCreator ==
  \A r, q \in Request : At(r, "owner") /\ At(q, "owner") /\ req[r].c = req[q].c => r = q

\* What OwnerKept says nothing of
Excepted == forfeit \cup overtaken

USE DEF Excepted

\* Until its owner is inserted a community has no row of its creator ...
NotJoined ==
  \A c \in Community \ Excepted : Creating(c) => member[c][community[c].owner] = "none"

\* ... and only then can a call have found that the creator may be changed.
NoneOvertakes ==
  \A q \in Request :
    /\ req[q].step \in {"update", "remove"}
    /\ req[q].u = community[req[q].c].owner
    => req[q].c \in Excepted \/ Creating(req[q].c)

OwnerInv == TypeOK /\ Placed /\ OneCreator /\ NotJoined /\ NoneOvertakes /\ OwnerKept

\* A call that starts, ends or goes on, and neither is a creation between its two
\* statements nor is allowed to change a role, changes nothing the invariant says.
LEMMA Harmless ==
  ASSUME OwnerInv, TypeOK', NEW r \in Request, NEW t, ~At(r, "owner"),
         req' = [req EXCEPT ![r] = t],
         t.step \notin {"owner", "update", "remove"},
         t.step \notin {"idle", "create"} => community[t.c] # Absent,
         UNCHANGED <<community, member, history>>
  PROVE  OwnerInv'
<1> USE DEF OwnerInv, At
<1>1. \A q \in Request : q # r => req'[q] = req[q]
  BY DEF TypeOK
<1>2. req'[r] = t
  BY DEF TypeOK
<1>3. Placed' /\ OneCreator'
  BY <1>1, <1>2 DEF Placed, OneCreator
<1>4. \A c \in Community : Creating(c)' <=> Creating(c)
  BY <1>1, <1>2 DEF Creating
<1>5. NotJoined' /\ OwnerKept'
  BY <1>4 DEF NotJoined, OwnerKept
<1>6. NoneOvertakes'
  BY <1>1, <1>2 DEF NoneOvertakes, Creating
<1> QED BY <1>3, <1>5, <1>6

\* The invariant holds of empty tables ...
LEMMA OwnerInit == Init => OwnerInv
<1> SUFFICES ASSUME Init PROVE OwnerInv
  OBVIOUS
<1>1. TypeOK
  BY TypeInit
<1> QED
  BY <1>1 DEF Init, OwnerInv, Placed, OneCreator, NotJoined, NoneOvertakes, OwnerKept,
              Creating, At, Idle, Absent

\* The statements that change rows preserve the invariant.
LEMMA OwnerWrites ==
  ASSUME OwnerInv, TypeOK', NEW r \in Request,
         \/ InsertOwner(r) \/ UpdateMember(r) \/ RemoveMember(r)
         \/ EjectBanned(r) \/ AddMember(r)
         \/ Cancel(r) /\ At(r, "owner")
  PROVE  OwnerInv'
<1>0. PICK c, u : c = req[r].c /\ u = req[r].u
  OBVIOUS
<1> USE <1>0
<1>1. req' = [req EXCEPT ![r] = Idle] /\ community' = community
  BY DEF InsertOwner, UpdateMember, RemoveMember, EjectBanned, AddMember, Cancel, Done
<1>2. /\ \A q \in Request : q # r => req'[q] = req[q]
      /\ req'[r].step = "idle"
  BY <1>1 DEF OwnerInv, TypeOK, Idle
<1>3. c \in Community /\ u \in User /\ community[c] # Absent
  <2>1. req[r].step \in {"owner", "update", "remove", "eject", "add"}
    BY DEF InsertOwner, UpdateMember, RemoveMember, EjectBanned, AddMember, At
  <2>2. req[r] \in Creation \cup Change \cup Write /\ req[r].step # "create"
    BY <2>1 DEF OwnerInv, TypeOK, Idle
  <2>3. c \in Community /\ u \in User
    BY <2>2 DEF Creation, Change, Write
  <2> QED BY <2>1, <2>3 DEF OwnerInv, Placed
<1>4. /\ community[c].owner \in User
      /\ \A d \in Community, v \in User : <<d, v>> # <<c, u>> => member'[d][v] = member[d][v]
      /\ Excepted \subseteq Excepted'
  <2>1. community[c].owner \in User
    BY <1>3 DEF OwnerInv, TypeOK
  <2>2. \A d \in Community, v \in User : <<d, v>> # <<c, u>> => member'[d][v] = member[d][v]
    BY <1>3 DEF InsertOwner, UpdateMember, RemoveMember, EjectBanned, AddMember, Cancel,
                Removed, OwnerInv, TypeOK
  <2>3. Excepted \subseteq Excepted'
    BY DEF InsertOwner, UpdateMember, RemoveMember, EjectBanned, AddMember, Cancel, Forfeited
  <2> QED BY <2>1, <2>2, <2>3
<1>5. Placed' /\ OneCreator'
  <2>1. OneCreator'
    BY <1>2 DEF OneCreator, OwnerInv, At
  <2>2. \A d \in Community, v \in User : community'[d] = Absent => member'[d][v] = "none"
    BY <1>1, <1>3, <1>4 DEF Placed, OwnerInv
  <2> QED BY <1>1, <1>2, <2>1, <2>2 DEF Placed, OwnerInv, At
<1>6. CASE ~At(r, "owner")
  <2>1. \A d \in Community : Creating(d)' <=> Creating(d)
    BY <1>2, <1>6 DEF Creating, At
  <2>2. NoneOvertakes'
    BY <1>1, <1>2, <1>4, <1>6 DEF NoneOvertakes, Creating, At, OwnerInv
  <2>3. \/ c \in Excepted'
        \/ u # community[c].owner
        \/ Creating(c) /\ (UpdateMember(r) \/ RemoveMember(r))
    <3>1. CASE UpdateMember(r) \/ RemoveMember(r)
      <4>1. req[r].step \in {"update", "remove"}
        BY <3>1 DEF UpdateMember, RemoveMember, At
      <4> QED BY <1>4, <3>1, <4>1 DEF NoneOvertakes, OwnerInv
    <3>2. CASE EjectBanned(r) \/ AddMember(r)
      <4>1. forfeit' = Forfeited(c, u)
        BY <3>2 DEF EjectBanned, AddMember
      <4> QED BY <4>1 DEF Forfeited
    <3> QED BY <1>6, <3>1, <3>2 DEF InsertOwner
  <2>4. Creating(c) /\ c \notin Excepted /\ u = community[c].owner
          /\ (UpdateMember(r) \/ RemoveMember(r)) => member' = member
    <3> SUFFICES ASSUME Creating(c), c \notin Excepted, u = community[c].owner,
                        UpdateMember(r) \/ RemoveMember(r)
                 PROVE  member' = member
      OBVIOUS
    <3>1. member[c][u] = "none"
      BY <1>3 DEF NotJoined, OwnerInv
    <3> QED BY <3>1, Ranks DEF UpdateMember, RemoveMember, Removed, IsMember
  <2>5. \A d \in Community \ Excepted' :
          community[d] # Absent =>
            member'[d][community[d].owner] = member[d][community[d].owner]
    <3> SUFFICES ASSUME NEW d \in Community \ Excepted', community[d] # Absent
                 PROVE  member'[d][community[d].owner] = member[d][community[d].owner]
      OBVIOUS
    <3>1. community[d].owner \in User
      BY DEF OwnerInv, TypeOK
    <3>2. CASE <<d, community[d].owner>> # <<c, u>>
      BY <1>4, <3>1, <3>2
    <3>3. CASE d = c /\ u = community[c].owner
      BY <1>4, <2>3, <2>4, <3>3
    <3> QED BY <3>2, <3>3
  <2>6. \A d \in Community : Creating(d) => community[d] # Absent
    BY DEF Creating, At, Placed, OwnerInv
  <2>7. NotJoined' /\ OwnerKept'
    BY <1>1, <1>4, <2>1, <2>5, <2>6 DEF NotJoined, OwnerKept, OwnerInv
  <2> QED BY <1>5, <2>2, <2>7 DEF OwnerInv
<1>7. CASE At(r, "owner")
  <2>1. ~Creating(c)'
    BY <1>2, <1>7 DEF Creating, At, OneCreator, OwnerInv
  <2>2. \A d \in Community : d # c => (Creating(d)' <=> Creating(d))
    BY <1>2, <1>7 DEF Creating, At
  <2>3. u = community[c].owner
    BY <1>7 DEF Placed, OwnerInv
  <2>4. c \in Excepted' \/ (member'[c][u] = "owner" /\ Changing(c, u) = {})
    <3>1. CASE InsertOwner(r)
      <4>1. c \in Excepted \/ member[c][u] = "none"
        BY <1>3, <1>7, <2>3 DEF NotJoined, Creating, OwnerInv
      <4>2. member[c][u] = "none" => member'[c][u] = "owner"
        BY <1>3, <3>1 DEF InsertOwner, OwnerInv, TypeOK
      <4>3. overtaken' = IF Changing(c, u) = {} THEN overtaken ELSE overtaken \cup {c}
        BY <3>1 DEF InsertOwner
      <4> QED BY <1>4, <4>1, <4>2, <4>3
    <3>2. CASE Cancel(r)
      <4>1. forfeit' = forfeit \cup {c}
        BY <1>7, <3>2 DEF Cancel
      <4> QED BY <4>1
    <3> QED
      BY <1>7, <3>1, <3>2 DEF UpdateMember, RemoveMember, EjectBanned, AddMember, At
  <2>5. NoneOvertakes'
    <3>1. \A q \in Request : q # r /\ req[q].c # c =>
            (Creating(req[q].c) => \E p \in Request : p # r /\ At(p, "owner")
                                                   /\ req[p].c = req[q].c)
      BY <1>7 DEF Creating
    <3>2. \A q \in Request : req[q].step \in {"update", "remove"} /\ req[q].c = c
                             /\ req[q].u = community[c].owner => c \in Excepted'
      BY <2>3, <2>4 DEF Changing
    <3> QED BY <1>1, <1>2, <1>4, <3>1, <3>2 DEF NoneOvertakes, Creating, At, OwnerInv
  <2>6. NotJoined' /\ OwnerKept'
    <3>1. \A d \in Community : d # c => member'[d] = member[d]
      BY <1>3, <1>7 DEF InsertOwner, UpdateMember, RemoveMember, EjectBanned, AddMember,
                        Cancel, At, OwnerInv, TypeOK
    <3>2. NotJoined'
      BY <1>1, <1>4, <2>1, <2>2, <3>1 DEF NotJoined, OwnerInv
    <3>3. OwnerKept'
      BY <1>1, <1>4, <2>2, <2>3, <2>4, <3>1 DEF OwnerKept, OwnerInv
    <3> QED BY <3>2, <3>3
  <2> QED BY <1>5, <2>5, <2>6 DEF OwnerInv
<1> QED BY <1>6, <1>7

\* ... and every step preserves it.
LEMMA OwnerNext == OwnerInv /\ [Next]_vars => OwnerInv'
<1> SUFFICES ASSUME OwnerInv, [Next]_vars PROVE OwnerInv'
  OBVIOUS
<1>0. TypeOK /\ TypeOK'
  BY TypeNext DEF OwnerInv
<1>1. CASE UNCHANGED vars
  BY <1>0, <1>1 DEF vars, OwnerInv, Placed, OneCreator, NotJoined, NoneOvertakes, OwnerKept,
                    Creating, At
<1>2. ASSUME NEW r \in Request, Arrive(r) PROVE OwnerInv'
  <2> DEFINE Starts(t) ==
        /\ req[r] = Idle /\ req' = [req EXCEPT ![r] = t]
        /\ t.step \notin {"owner", "update", "remove"}
        /\ t.step \notin {"idle", "create"} => community[t.c] # Absent
        /\ UNCHANGED <<community, member, history>>
  <2>1. ASSUME NEW t, Starts(t) PROVE OwnerInv'
    <3>1. ~At(r, "owner")
      BY <2>1 DEF Idle, At
    <3> QED BY <1>0, <2>1, <3>1, Harmless
  <2>2. ASSUME NEW u \in User, PostCommunity(r, u) PROVE OwnerInv'
    <3>1. Starts([step |-> "create", u |-> u])
      BY <2>2 DEF PostCommunity, Begin
    <3> QED BY <2>1, <3>1
  <2>3. ASSUME NEW a \in User, NEW u \in User, NEW c \in Community, NEW what, NEW desired,
               ReadActor(r, a, c, u, what, desired)
        PROVE  OwnerInv'
    <3>1. Starts([step |-> "target", c |-> c, u |-> u, what |-> what,
                  role |-> member[c][a], desired |-> desired])
      BY <2>3 DEF ReadActor, Begin
    <3> HIDE DEF Starts
    <3> QED BY <2>1, <3>1
  <2>4. ASSUME NEW a \in User, NEW u \in User, NEW c \in Community,
               NEW what \in {"ban", "unban", "review", "add"}, NEW desired,
               CheckManager(r, a, c, u, what, desired)
        PROVE  OwnerInv'
    <3>1. Starts([step |-> what, c |-> c, u |-> u, desired |-> desired])
      BY <2>4 DEF CheckManager, Begin
    <3> HIDE DEF Starts
    <3> QED BY <2>1, <3>1
  <2>5. ASSUME NEW u \in User, NEW c \in Community, JoinPublic(r, u, c) PROVE OwnerInv'
    <3>1. Starts([step |-> "add", c |-> c, u |-> u, desired |-> "user"])
      BY <2>5 DEF JoinPublic, Begin, Live, Absent
    <3> HIDE DEF Starts
    <3> QED BY <2>1, <3>1
  <2> HIDE DEF Starts
  <2> QED BY <1>2, <2>2, <2>3, <2>4, <2>5 DEF Arrive
<1>3. ASSUME NEW r \in Request, NEW c \in Community, InsertCommunity(r, c) PROVE OwnerInv'
  <2> DEFINE u == req[r].u
  <2>1. /\ u \in User /\ req[r].step = "create" /\ community[c] = Absent
        /\ \A q \in Request : q # r => req'[q] = req[q]
        /\ req'[r] = [step |-> "owner", c |-> c, u |-> u]
        /\ UNCHANGED <<member, history>>
    BY <1>0, <1>3 DEF InsertCommunity, At, TypeOK, Idle, Creation, Change, Write
  <2>2. /\ \A d \in Community : d # c => community'[d] = community[d]
        /\ community'[c] = [status |-> "live", owner |-> u] /\ community'[c] # Absent
    BY <1>0, <1>3 DEF InsertCommunity, TypeOK, Absent
  <2>3. \A q \in Request : req[q].step \notin {"idle", "create"} =>
          req[q].c # c /\ req[q].c \in Community
    <3> SUFFICES ASSUME NEW q \in Request, req[q].step \notin {"idle", "create"}
                 PROVE  req[q].c # c /\ req[q].c \in Community
      OBVIOUS
    <3>1. req[q].c # c
      BY <2>1 DEF OwnerInv, Placed
    <3> QED BY <1>0, <3>1 DEF TypeOK, Idle, Creation, Change, Write
  <2>4. \A v \in User : member[c][v] = "none"
    BY <2>1 DEF OwnerInv, Placed
  <2>5. Placed' /\ OneCreator'
    BY <2>1, <2>2, <2>3 DEF OwnerInv, Placed, OneCreator, At
  <2>6. \A d \in Community : Creating(d)' <=> Creating(d) \/ d = c
    BY <2>1 DEF Creating, At
  <2>7. NotJoined' /\ OwnerKept'
    BY <2>1, <2>2, <2>4, <2>6 DEF OwnerInv, NotJoined, OwnerKept
  <2>8. NoneOvertakes'
    BY <2>1, <2>2, <2>3 DEF OwnerInv, NoneOvertakes, Creating, At
  <2> QED BY <1>0, <2>5, <2>7, <2>8 DEF OwnerInv
<1>4. ASSUME NEW r \in Request, NEW t, req' = [req EXCEPT ![r] = t], ~At(r, "owner"),
             t.step \in {"idle", "eject", "add"},
             t.step # "idle" => t.c = req[r].c /\ req[r].step \notin {"idle", "create"},
             UNCHANGED <<community, member, history>>
      PROVE  OwnerInv'
  <2>1. t.step # "idle" => community[t.c] # Absent
    BY <1>4 DEF OwnerInv, Placed
  <2> QED BY <1>0, <1>4, <2>1, Harmless
<1>5. ASSUME NEW r \in Request, CreateBan(r) \/ DeleteBan(r) \/ ReadTarget(r) \/ Cancel(r),
             ~At(r, "owner"), req' = [req EXCEPT ![r] = Idle]
      PROVE  OwnerInv'
  <2>1. UNCHANGED <<community, member, history>>
    BY <1>5 DEF CreateBan, DeleteBan, ReadTarget, Cancel
  <2> QED BY <1>4, <1>5, <2>1 DEF Idle
<1>6. ASSUME NEW r \in Request, CreateBan(r), req' = [req EXCEPT ![r].step = "eject"]
      PROVE  OwnerInv'
  <2>1. req[r].step = "ban" /\ UNCHANGED <<community, member, history>>
    BY <1>6 DEF CreateBan, At
  <2>2. req[r] \in Write
    BY <1>0, <2>1, SMTT(30) DEF TypeOK, Idle, Creation, Change, Write
  <2>3. [req[r] EXCEPT !.step = "eject"].step = "eject"
        /\ [req[r] EXCEPT !.step = "eject"].c = req[r].c
    BY <2>2 DEF Write
  <2>4. req' = [req EXCEPT ![r] = [req[r] EXCEPT !.step = "eject"]]
    BY <1>6
  <2> QED BY <1>4, <2>1, <2>3, <2>4 DEF At
<1>7. ASSUME NEW r \in Request, NEW answer, Review(r, answer) PROVE OwnerInv'
  <2>1. req[r].step = "review" /\ UNCHANGED <<community, member, history>>
    BY <1>7 DEF Review, At
  <2>2. req[r] \in Write
    BY <1>0, <2>1, SMTT(30) DEF TypeOK, Idle, Creation, Change, Write
  <2> DEFINE t == [req[r] EXCEPT !.step = "add", !.desired = "user"]
  <2>3. t.step = "add" /\ t.c = req[r].c
    BY <2>2 DEF Write
  <2>4. req' = [req EXCEPT ![r] = t] \/ req' = [req EXCEPT ![r] = Idle]
    BY <1>7 DEF Review, Done
  <2> HIDE DEF t
  <2> QED BY <1>4, <2>1, <2>3, <2>4 DEF At, Idle
<1>8. ASSUME NEW r \in Request, ReadTarget(r), req' = [req EXCEPT ![r].step = req[r].what]
      PROVE  OwnerInv'
  <2> DEFINE c == req[r].c
             u == req[r].u
             t == [req[r] EXCEPT !.step = req[r].what]
  <2>1. req[r].step = "target" /\ UNCHANGED <<community, member, history>>
    BY <1>8 DEF ReadTarget, At
  <2>2. req[r] \in Change /\ c \in Community /\ u \in User
    <3>1. req[r] \in Change
      BY <1>0, <2>1 DEF TypeOK, Idle, Creation, Write
    <3> QED BY <3>1 DEF Change
  <2>3. t.c = c /\ t.u = u /\ t.step \in {"update", "remove"}
    BY <2>2 DEF Change
  <2>4. /\ \A q \in Request : q # r => req'[q] = req[q]
        /\ req'[r] = t
    BY <1>0, <1>8 DEF TypeOK
  <2>5. member[c][u] # "owner"
    <3>1. CASE Permitted(r, member[c][u])
      BY <3>1, NobodyManagesOwner DEF Permitted
    <3>2. CASE ~Permitted(r, member[c][u])
      <4>1. req' = [req EXCEPT ![r] = Idle]
        BY <1>8, <3>2 DEF ReadTarget, Done
      <4> QED BY <1>0, <2>3, <2>4, <4>1 DEF TypeOK, Idle
    <3> QED BY <3>1, <3>2
  <2>6. community[c] # Absent
    BY <2>1 DEF OwnerInv, Placed
  <2> HIDE DEF t
  <2>7. Placed' /\ OneCreator'
    BY <2>1, <2>3, <2>4, <2>6 DEF OwnerInv, Placed, OneCreator, At
  <2>8. \A d \in Community : Creating(d)' <=> Creating(d)
    BY <2>1, <2>3, <2>4 DEF Creating, At
  <2>9. NotJoined' /\ OwnerKept'
    BY <2>1, <2>8 DEF OwnerInv, NotJoined, OwnerKept
  <2>10. \/ u # community[c].owner \/ c \in Excepted
         \/ \E q \in Request : q # r /\ At(q, "owner") /\ req[q].c = c
    BY <2>1, <2>2, <2>5, <2>6 DEF OwnerInv, OwnerKept, Creating, At
  <2>11. NoneOvertakes'
    BY <2>1, <2>3, <2>4, <2>10 DEF OwnerInv, NoneOvertakes, Creating, At
  <2> QED BY <1>0, <2>7, <2>9, <2>11 DEF OwnerInv
<1>9. ASSUME NEW r \in Request, Continue(r) PROVE OwnerInv'
  <2>1. CASE InsertOwner(r) \/ UpdateMember(r) \/ RemoveMember(r) \/ EjectBanned(r)
             \/ AddMember(r)
    BY <1>0, <2>1, OwnerWrites
  <2>2. CASE ReadTarget(r) \/ CreateBan(r) \/ DeleteBan(r)
    <3>1. ~At(r, "owner")
      BY <2>2 DEF ReadTarget, CreateBan, DeleteBan, At
    <3>2. \/ req' = [req EXCEPT ![r] = Idle]
          \/ ReadTarget(r) /\ req' = [req EXCEPT ![r].step = req[r].what]
          \/ CreateBan(r) /\ req' = [req EXCEPT ![r].step = "eject"]
      BY <2>2 DEF ReadTarget, CreateBan, DeleteBan, Then, Done
    <3> QED BY <1>5, <1>6, <1>8, <2>2, <3>1, <3>2
  <2> QED BY <1>3, <1>7, <1>9, <2>1, <2>2 DEF Continue
<1>10. ASSUME NEW r \in Request, Cancel(r) PROVE OwnerInv'
  <2>1. CASE At(r, "owner")
    BY <1>0, <1>10, <2>1, OwnerWrites
  <2>2. CASE ~At(r, "owner")
    BY <1>5, <1>10, <2>2 DEF Cancel, Done
  <2> QED BY <2>1, <2>2
<1>11. ASSUME NEW c \in Community, SoftDeleteCommunity(c) PROVE OwnerInv'
  <2>1. /\ \A d \in Community : community'[d] = Absent <=> community[d] = Absent
        /\ \A d \in Community : community'[d] # Absent =>
             community'[d].owner = community[d].owner
        /\ UNCHANGED <<member, req, history>>
    <3>1. community[c].status = "live"
      BY <1>11 DEF SoftDeleteCommunity, Live
    <3>2. community[c] \in [status : {"live", "deleted"}, owner : User]
      BY <1>0, <3>1 DEF TypeOK, Absent
    <3>3. \A d \in Community : d # c => community'[d] = community[d]
      BY <1>0, <1>11 DEF SoftDeleteCommunity, TypeOK
    <3>4. community'[c] = [community[c] EXCEPT !.status = "deleted"]
      BY <1>0, <1>11 DEF SoftDeleteCommunity, TypeOK
    <3>5. /\ community'[c].status = "deleted" /\ community'[c].owner = community[c].owner
      BY <3>2, <3>4
    <3> QED BY <1>11, <3>1, <3>3, <3>5 DEF SoftDeleteCommunity, Absent
  <2>2. \A q \in Request : req[q].step \notin {"idle", "create"} =>
          req[q].c \in Community /\ community[req[q].c] # Absent
    <3>1. \A q \in Request : req[q].step \notin {"idle", "create"} => req[q].c \in Community
      BY <1>0 DEF TypeOK, Idle, Creation, Change, Write
    <3> QED BY <3>1 DEF OwnerInv, Placed
  <2>3. \A d \in Community : Creating(d)' <=> Creating(d)
    BY <2>1 DEF Creating, At
  <2>4. \A d \in Community : Creating(d) => community[d] # Absent
    BY <2>2 DEF Creating, At
  <2>5. Placed' /\ OneCreator'
    BY <2>1, <2>2 DEF OwnerInv, Placed, OneCreator, At
  <2>6. NotJoined' /\ OwnerKept'
    BY <2>1, <2>3, <2>4 DEF OwnerInv, NotJoined, OwnerKept
  <2>7. NoneOvertakes'
    BY <2>1, <2>2 DEF OwnerInv, NoneOvertakes, Creating, At
  <2> QED BY <1>0, <2>5, <2>6, <2>7 DEF OwnerInv
<1>12. ASSUME NEW c \in Community, NEW u \in User, RequestJoin(u, c) PROVE OwnerInv'
  BY <1>0, <1>12 DEF RequestJoin, OwnerInv, Placed, OneCreator, NotJoined, NoneOvertakes,
                     OwnerKept, Creating, At
<1> QED BY <1>1, <1>2, <1>9, <1>10, <1>11, <1>12 DEF Next

\* The user who created a community stays its owner, whatever calls overlap.
THEOREM OwnerStays == Spec => []OwnerKept
<1>1. OwnerInv => OwnerKept
  BY DEF OwnerInv
<1> QED BY <1>1, OwnerInit, OwnerNext, PTL DEF Spec

-----------------------------------------------------------------------------
(* The plan                                                                *)

\* Calls that have passed the plan's check and not inserted their community
Counted(u) == {r \in Request : At(r, "create") /\ req[r].u = u}

PlanInv ==
  \A u \in User :
    Cardinality(Owned(u)) + Cardinality(Counted(u))
      < MaxCommunities[u] + Cardinality(Request)

\* The sets that are counted are finite.
LEMMA Finite ==
  /\ Cardinality(Request) \in Nat \ {0}
  /\ \A S : S \subseteq Request => /\ IsFiniteSet(S) /\ Cardinality(S) \in Nat
                                   /\ Cardinality(S) <= Cardinality(Request)
  /\ \A u \in User : /\ IsFiniteSet(Owned(u)) /\ Cardinality(Owned(u)) \in Nat
                     /\ IsFiniteSet(Counted(u)) /\ Cardinality(Counted(u)) \in Nat
<1>1. IsFiniteSet(Request) /\ IsFiniteSet(Community) /\ Request # {}
  BY CommunitiesAssumption
<1>2. \A S : S \subseteq Request => /\ IsFiniteSet(S) /\ Cardinality(S) \in Nat
                                    /\ Cardinality(S) <= Cardinality(Request)
  BY <1>1, FS_Subset, FS_CardinalityType
<1>3. \A u \in User : IsFiniteSet(Owned(u)) /\ IsFiniteSet(Counted(u))
  BY <1>1, FS_Subset DEF Owned, Counted
<1> QED BY <1>1, <1>2, <1>3, FS_CardinalityType, FS_EmptySet

\* A step on which neither set grows
LEMMA Shrinks ==
  ASSUME TypeOK, PlanInv,
         \A u \in User : Owned(u)' \subseteq Owned(u) /\ Counted(u)' \subseteq Counted(u)
  PROVE  PlanInv'
<1> SUFFICES ASSUME NEW u \in User
             PROVE  (Cardinality(Owned(u)) + Cardinality(Counted(u))
                       < MaxCommunities[u] + Cardinality(Request))'
  BY DEF PlanInv
<1>1. PICK O, C : O = Owned(u)' /\ C = Counted(u)'
  OBVIOUS
<1>2. /\ Cardinality(O) \in Nat /\ Cardinality(O) <= Cardinality(Owned(u))
      /\ Cardinality(C) \in Nat /\ Cardinality(C) <= Cardinality(Counted(u))
  <2>1. O \subseteq Owned(u) /\ C \subseteq Counted(u)
    BY <1>1
  <2> QED BY <2>1, Finite, FS_Subset, FS_CardinalityType
<1>3. Cardinality(Owned(u)) + Cardinality(Counted(u))
        < MaxCommunities[u] + Cardinality(Request)
  BY DEF PlanInv
<1>4. MaxCommunities[u] \in Nat
  BY CommunitiesAssumption
<1> QED BY <1>1, <1>2, <1>3, <1>4, Finite

\* Every step preserves the strengthened bound.
LEMMA PlanNext == TypeOK /\ PlanInv /\ [Next]_vars => PlanInv'
<1> SUFFICES ASSUME TypeOK, PlanInv, [Next]_vars PROVE PlanInv'
  OBVIOUS
<1> DEFINE NewCall == \E r \in Request, u \in User : PostCommunity(r, u)
           Inserted == \E r \in Request, c \in Community : InsertCommunity(r, c)
<1>1. CASE NewCall
  <2>1. PICK r \in Request, u \in User : PostCommunity(r, u)
    BY <1>1
  <2> SUFFICES ASSUME NEW v \in User
               PROVE  (Cardinality(Owned(v)) + Cardinality(Counted(v))
                         < MaxCommunities[v] + Cardinality(Request))'
    BY DEF PlanInv
  <2>2. PICK O, C : O = Owned(v)' /\ C = Counted(v)'
    OBVIOUS
  <2>3. O = Owned(v) /\ C \subseteq Request
    BY <2>1, <2>2 DEF PostCommunity, Owned, Live, Counted
  <2>4. CASE v = u
    <3>1. Cardinality(Owned(v)) < MaxCommunities[v]
      BY <2>1, <2>4 DEF PostCommunity, WithinPlan
    <3> QED BY <2>2, <2>3, <3>1, Finite, CommunitiesAssumption
  <2>5. CASE v # u
    <3>1. C \subseteq Counted(v)
      BY <2>1, <2>2, <2>5 DEF PostCommunity, Begin, Counted, At, TypeOK
    <3>2. Cardinality(C) \in Nat /\ Cardinality(C) <= Cardinality(Counted(v))
      BY <3>1, Finite, FS_Subset, FS_CardinalityType
    <3>3. Cardinality(Owned(v)) + Cardinality(Counted(v))
            < MaxCommunities[v] + Cardinality(Request)
      BY DEF PlanInv
    <3> QED BY <2>2, <2>3, <3>2, <3>3, Finite, CommunitiesAssumption
  <2> QED BY <2>4, <2>5
<1>2. CASE Inserted
  <2>1. PICK r \in Request, c \in Community : InsertCommunity(r, c)
    BY <1>2
  <2>2. req[r].step = "create" /\ community[c] = Absent
    BY <2>1 DEF InsertCommunity, At
  <2>3. /\ \A d \in Community : d # c => community'[d] = community[d]
        /\ community'[c] = [status |-> "live", owner |-> req[r].u]
        /\ \A q \in Request : q # r => req'[q] = req[q]
        /\ req'[r].step = "owner"
    BY <2>1 DEF InsertCommunity, TypeOK
  <2> SUFFICES ASSUME NEW v \in User
               PROVE  (Cardinality(Owned(v)) + Cardinality(Counted(v))
                         < MaxCommunities[v] + Cardinality(Request))'
    BY DEF PlanInv
  <2>4. PICK O, C : O = Owned(v)' /\ C = Counted(v)'
    OBVIOUS
  <2>5. c \notin Owned(v)
    BY <2>2 DEF Owned, Live, Absent
  <2>6. CASE v = req[r].u
    <3>1. O = Owned(v) \cup {c}
      BY <2>3, <2>4, <2>6 DEF Owned, Live
    <3>2. C = Counted(v) \ {r} /\ r \in Counted(v)
      BY <2>2, <2>3, <2>4, <2>6 DEF Counted, At
    <3>3. Cardinality(O) = Cardinality(Owned(v)) + 1
      BY <2>5, <3>1, Finite, FS_AddElement
    <3>4. Cardinality(C) = Cardinality(Counted(v)) - 1
      BY <3>2, Finite, FS_RemoveElement
    <3>5. Cardinality(Owned(v)) + Cardinality(Counted(v))
            < MaxCommunities[v] + Cardinality(Request)
      BY DEF PlanInv
    <3> QED BY <2>4, <3>3, <3>4, <3>5, Finite, CommunitiesAssumption
  <2>7. CASE v # req[r].u
    <3>1. O = Owned(v)
      BY <2>2, <2>3, <2>4, <2>5, <2>7 DEF Owned, Live
    <3>2. C = Counted(v)
      BY <2>2, <2>3, <2>4, <2>7 DEF Counted, At
    <3>3. Cardinality(Owned(v)) + Cardinality(Counted(v))
            < MaxCommunities[v] + Cardinality(Request)
      BY DEF PlanInv
    <3> QED BY <2>4, <3>1, <3>2, <3>3
  <2> QED BY <2>6, <2>7
<1>3. CASE ~NewCall /\ ~Inserted
  <2>1. \A u \in User : Owned(u)' \subseteq Owned(u)
    <3>1. CASE community' = community
      BY <3>1 DEF Owned, Live
    <3>2. ASSUME NEW c \in Community, SoftDeleteCommunity(c)
          PROVE  \A u \in User : Owned(u)' \subseteq Owned(u)
      <4>1. /\ \A d \in Community : d # c => community'[d] = community[d]
            /\ community'[c].status = "deleted"
        <5>1. community[c] \in [status : {"live", "deleted"}, owner : User]
          BY <3>2 DEF SoftDeleteCommunity, Live, Absent, TypeOK
        <5> QED BY <3>2, <5>1 DEF SoftDeleteCommunity, TypeOK
      <4> QED BY <4>1 DEF Owned, Live
    <3>3. ASSUME NEW r \in Request, Arrive(r) PROVE community' = community
      <4>1. ASSUME NEW u \in User, PostCommunity(r, u) PROVE community' = community
        BY <4>1 DEF PostCommunity
      <4>2. ASSUME NEW a \in User, NEW u \in User, NEW c \in Community, NEW w, NEW d,
                   ReadActor(r, a, c, u, w, d) \/ CheckManager(r, a, c, u, w, d)
            PROVE  community' = community
        BY <4>2 DEF ReadActor, CheckManager
      <4>3. ASSUME NEW u \in User, NEW c \in Community, JoinPublic(r, u, c)
            PROVE  community' = community
        BY <4>3 DEF JoinPublic
      <4> QED BY <3>3, <4>1, <4>2, <4>3, Zenon DEF Arrive
    <3>4. ASSUME NEW r \in Request, Continue(r) \/ Cancel(r) PROVE community' = community
      BY <1>3, <3>4
      DEF Continue, InsertOwner, ReadTarget, UpdateMember, RemoveMember, CreateBan,
          EjectBanned, DeleteBan, AddMember, Review, Cancel
    <3> QED BY <3>1, <3>2, <3>3, <3>4 DEF Next, vars, RequestJoin
  <2>2. \A u \in User : Counted(u)' \subseteq Counted(u)
    <3>1. CASE req' = req
      BY <3>1 DEF Counted, At
    <3>2. ASSUME NEW r \in Request, NEW t, req' = [req EXCEPT ![r] = t], t.step # "create"
          PROVE  \A u \in User : Counted(u)' \subseteq Counted(u)
      BY <3>2 DEF Counted, At, TypeOK
    <3>3. ASSUME NEW r \in Request, Arrive(r)
          PROVE  \A u \in User : Counted(u)' \subseteq Counted(u)
      <4>1. ASSUME NEW a, NEW u, NEW c, NEW what, NEW desired,
                   ReadActor(r, a, c, u, what, desired)
            PROVE  \A v \in User : Counted(v)' \subseteq Counted(v)
        <5>1. PICK t : t = [step |-> "target", c |-> c, u |-> u, what |-> what,
                            role |-> member[c][a], desired |-> desired]
          OBVIOUS
        <5>2. req' = [req EXCEPT ![r] = t]
          BY <4>1, <5>1 DEF ReadActor, Begin
        <5>3. t.step # "create"
          BY <5>1
        <5> QED BY <3>2, <5>2, <5>3
      <4>2. ASSUME NEW a, NEW u, NEW c, NEW what \in {"ban", "unban", "review", "add"},
                   NEW desired, CheckManager(r, a, c, u, what, desired)
            PROVE  \A v \in User : Counted(v)' \subseteq Counted(v)
        <5>1. PICK t : t = [step |-> what, c |-> c, u |-> u, desired |-> desired]
          OBVIOUS
        <5>2. req' = [req EXCEPT ![r] = t]
          BY <4>2, <5>1 DEF CheckManager, Begin
        <5>3. t.step # "create"
          BY <5>1
        <5> QED BY <3>2, <5>2, <5>3
      <4>3. ASSUME NEW u, NEW c, JoinPublic(r, u, c)
            PROVE  \A v \in User : Counted(v)' \subseteq Counted(v)
        <5>1. PICK t : t = [step |-> "add", c |-> c, u |-> u, desired |-> "user"]
          OBVIOUS
        <5>2. req' = [req EXCEPT ![r] = t]
          BY <4>3, <5>1 DEF JoinPublic, Begin
        <5>3. t.step # "create"
          BY <5>1
        <5> QED BY <3>2, <5>2, <5>3
      <4> QED BY <1>3, <3>3, <4>1, <4>2, <4>3 DEF Arrive
    <3>4. ASSUME NEW r \in Request, Continue(r) \/ Cancel(r)
          PROVE  \A u \in User : Counted(u)' \subseteq Counted(u)
      <4>1. CASE req' = [req EXCEPT ![r] = Idle]
        <5>1. Idle.step # "create"
          BY DEF Idle
        <5> QED BY <3>2, <4>1, <5>1
      <4>2. CASE CreateBan(r) /\ req' = [req EXCEPT ![r].step = "eject"]
        <5>1. req[r] \in Write
          BY <4>2 DEF CreateBan, At, TypeOK, Idle, Creation, Change, Write
        <5> QED BY <4>2, <5>1 DEF Counted, At, TypeOK, Write
      <4>3. CASE ReadTarget(r) /\ req' = [req EXCEPT ![r].step = req[r].what]
        <5>1. req[r].step = "target"
          BY <4>3 DEF ReadTarget, At
        <5>2. req[r] \in Change
          BY <5>1 DEF TypeOK, Idle, Creation, Write
        <5>3. [req[r] EXCEPT !.step = req[r].what].step # "create"
          BY <5>2 DEF Change
        <5>4. req' = [req EXCEPT ![r] = [req[r] EXCEPT !.step = req[r].what]]
          BY <4>3
        <5> QED BY <3>2, <5>3, <5>4
      <4>4. ASSUME Review(r, "approved"),
                   req' = [req EXCEPT ![r].step = "add", ![r].desired = "user"]
            PROVE  \A u \in User : Counted(u)' \subseteq Counted(u)
        <5>1. req[r].step = "review"
          BY <4>4 DEF Review, At
        <5>2. req[r] \in Write
          BY <5>1 DEF TypeOK, Idle, Creation, Change
        <5>3. [req[r] EXCEPT !.step = "add", !.desired = "user"].step # "create"
          BY <5>2 DEF Write
        <5>4. req' = [req EXCEPT ![r] = [req[r] EXCEPT !.step = "add", !.desired = "user"]]
          BY <4>4
        <5> QED BY <3>2, <5>3, <5>4
      <4> QED
        BY <1>3, <3>4, <4>1, <4>2, <4>3, <4>4
        DEF Continue, InsertOwner, ReadTarget, UpdateMember, RemoveMember, CreateBan,
            EjectBanned, DeleteBan, AddMember, Review, Cancel, Then, Done
    <3> QED BY <3>1, <3>3, <3>4 DEF Next, vars, SoftDeleteCommunity, RequestJoin
  <2> QED BY <2>1, <2>2, Shrinks
<1> QED BY <1>1, <1>2, <1>3

\* Calls that overlap exceed the plan by no more than there are of them.
THEOREM PlanHolds == Spec => []PlanBound
<1>1. Init => PlanInv
  <2> SUFFICES ASSUME Init, NEW u \in User
               PROVE  Cardinality(Owned(u)) + Cardinality(Counted(u))
                        < MaxCommunities[u] + Cardinality(Request)
    BY DEF PlanInv
  <2>1. Owned(u) = {} /\ Counted(u) = {}
    BY DEF Init, Owned, Live, Counted, At, Absent, Idle
  <2> QED BY <2>1, Finite, FS_EmptySet, CommunitiesAssumption
<1>2. PlanInv => PlanBound
  <2> SUFFICES ASSUME PlanInv, NEW u \in User
               PROVE  Cardinality(Owned(u)) < MaxCommunities[u] + Cardinality(Request)
    BY DEF PlanBound
  <2>1. Cardinality(Owned(u)) + Cardinality(Counted(u))
          < MaxCommunities[u] + Cardinality(Request)
    BY DEF PlanInv
  <2> QED BY <2>1, Finite, CommunitiesAssumption
<1> QED BY <1>1, <1>2, PlanNext, TypeCorrect, PTL DEF Spec
=============================================================================
