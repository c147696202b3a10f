------------------------ MODULE RemoteControlProofs ------------------------
(***************************************************************************)
(* Remote control: how it is granted (RemoteAccess), for any users,        *)
(* invites, tokens, concurrent requests, trust and plan; and how the       *)
(* controller's keys and buttons are replayed (RemoteInput), for any keys, *)
(* buttons, sessions and bounds.                                           *)
(***************************************************************************)
EXTENDS RemoteAccess, RemoteInput, TLAPS

-----------------------------------------------------------------------------
(* Invites and sessions: tokens and statistics                             *)

\* A token that is drawn is a new one.
LEMMA FreshToken == Token \ drawn # {} => Fresh \in Token \ drawn
BY DEF Fresh

\* What statistics leave of a status.
LEMMA Statistics ==
  ASSUME NEW old \in {"active", "ended"}, NEW new \in {"active", "ended"}
  PROVE  Coalesced(old, new) \in {"active", "ended"}
         /\ (old = "ended" => Coalesced(old, new) = "ended")
BY DEF Coalesced

-----------------------------------------------------------------------------
(* Invites and sessions: types                                             *)

InviteRow == [status : {"pending", "accepted", "rejected", "expired"}, by : User, to : User,
              expires : 0 .. MaxTime, token : drawn \cup {Blank}]

Pending == {"expire", "reject", "accept", "create", "announce"}

\* A request in progress is about rows that exist.
Rows ==
  /\ \A r \in Request : req[r].step \in Pending => inv[req[r].i] # Absent
  /\ \A r \in Request : req[r].step \in {"end", "stats"} => sess[req[r].k] # Absent

TypeInv == TypeOK /\ Rows

\* Tables and requests start well typed ...
LEMMA TypeInit == Init => TypeInv
BY RemoteAccessAssumption DEF Init, TypeInv, TypeOK, Rows, Idle, Pending

\* The fields of a request, by what it does next.
LEMMA Fields ==
  ASSUME TypeOK, NEW r \in Request
  PROVE  /\ req[r].step \in {"expire", "reject"} =>
              /\ req[r] \in Answer /\ req[r].i \in Invite
         /\ req[r].step \in {"accept", "create", "announce"} =>
              /\ req[r] \in Acceptance /\ req[r].i \in Invite
              /\ req[r].k \in drawn /\ req[r].k \in Token
         /\ req[r].step = "insert" =>
              /\ req[r] \in Insertion /\ req[r].k \in Token \cup {Blank} /\ req[r].row \in Row
         /\ req[r].step \in {"end", "stats"} =>
              /\ req[r] \in Patch /\ req[r].k \in Token \cup {Blank}
         /\ req[r].step \in Pending \cup {"insert", "end", "stats", "idle"}
<1>1. req[r] \in {Idle} \cup Answer \cup Acceptance \cup Insertion \cup Patch
  BY DEF TypeOK
<1>2. drawn \subseteq Token
  BY DEF TypeOK
<1>3. CASE req[r] = Idle
  BY <1>3 DEF Idle
<1>4. CASE req[r] \in Answer
  BY <1>4 DEF Answer, Pending
<1>5. CASE req[r] \in Acceptance
  BY <1>2, <1>5 DEF Acceptance, Pending
<1>6. CASE req[r] \in Insertion
  BY <1>6 DEF Insertion
<1>7. CASE req[r] \in Patch
  BY <1>7 DEF Patch
<1> QED BY <1>1, <1>3, <1>4, <1>5, <1>6, <1>7

\* A new task in one slot, the tables' types being kept and no row lost
LEMMA TypeSlot ==
  ASSUME TypeInv, NEW r \in Request, NEW t, req' = [req EXCEPT ![r] = t],
         t \in {Idle} \cup Answer \cup Acceptance' \cup Insertion \cup Patch,
         t.step \in Pending => inv'[t.i] # Absent,
         t.step \in {"end", "stats"} => sess'[t.k] # Absent,
         \A i \in Invite : inv[i] # Absent => inv'[i] # Absent,
         \A k \in Token \cup {Blank} : sess[k] # Absent => sess'[k] # Absent,
         now' \in 0 .. MaxTime, drawn \subseteq drawn', drawn' \subseteq Token,
         inv' \in [Invite -> {Absent} \cup InviteRow'],
         sess' \in [Token \cup {Blank} -> {Absent} \cup Row],
         told' \in [Invite -> SUBSET drawn'], lost' \subseteq drawn'
  PROVE  TypeInv'
<1>1. /\ DOMAIN req = Request
      /\ \A q \in Request :
           req[q] \in {Idle} \cup Answer \cup Acceptance \cup Insertion \cup Patch
  BY DEF TypeInv, TypeOK
<1>2. Acceptance \subseteq Acceptance'
  BY DEF Acceptance
<1>3. /\ \A q \in Request : q # r => req'[q] = req[q]
      /\ req'[r] = t /\ DOMAIN req' = Request
  BY <1>1
<1>4. \A q \in Request :
        req'[q] \in {Idle} \cup Answer \cup Acceptance' \cup Insertion \cup Patch
  BY <1>1, <1>2, <1>3
<1>5. TypeOK'
  BY <1>3, <1>4 DEF TypeOK, InviteRow, Answer, Insertion, Patch, Idle, Row
<1>6. \A q \in Request : req[q].step \in Pending => req[q].i \in Invite
  BY Fields DEF TypeInv, Pending
<1>7. \A q \in Request : req[q].step \in {"end", "stats"} => req[q].k \in Token \cup {Blank}
  BY Fields DEF TypeInv
<1>8. Rows'
  BY <1>3, <1>6, <1>7 DEF TypeInv, Rows
<1> QED BY <1>5, <1>8 DEF TypeInv

\* ... and every statement leaves them so, and about rows that exist.
LEMMA TypeNext == TypeInv /\ [Next]_vars => TypeInv'
<1> SUFFICES ASSUME TypeInv, [Next]_vars PROVE TypeInv'
  OBVIOUS
<1>a. /\ now \in 0 .. MaxTime /\ drawn \subseteq Token
      /\ inv \in [Invite -> {Absent} \cup InviteRow]
      /\ sess \in [Token \cup {Blank} -> {Absent} \cup Row]
      /\ told \in [Invite -> SUBSET drawn] /\ lost \subseteq drawn
      /\ DOMAIN req = Request
  BY DEF TypeInv, TypeOK, InviteRow
<1>b. \A w \in {"pending", "accepted", "rejected", "expired"}, i \in Invite,
        x \in drawn \cup {Blank} :
        inv[i] # Absent => /\ [inv[i] EXCEPT !.status = w] \in InviteRow
                           /\ [inv[i] EXCEPT !.status = w] # Absent
                           /\ [inv[i] EXCEPT !.status = w, !.token = x] \in InviteRow
                           /\ [inv[i] EXCEPT !.status = w, !.token = x] # Absent
  <2> SUFFICES ASSUME NEW w \in {"pending", "accepted", "rejected", "expired"},
                      NEW i \in Invite, NEW x \in drawn \cup {Blank}, inv[i] # Absent
               PROVE  /\ [inv[i] EXCEPT !.status = w] \in InviteRow
                      /\ [inv[i] EXCEPT !.status = w] # Absent
                      /\ [inv[i] EXCEPT !.status = w, !.token = x] \in InviteRow
                      /\ [inv[i] EXCEPT !.status = w, !.token = x] # Absent
    OBVIOUS
  <2>1. inv[i] \in InviteRow
    BY <1>a
  <2> QED BY <2>1 DEF InviteRow, Absent
<1>c. \A w \in {"active", "ended"}, k \in Token \cup {Blank} :
        sess[k] # Absent => /\ [sess[k] EXCEPT !.status = w] \in Row
                            /\ [sess[k] EXCEPT !.status = w] # Absent
  <2> SUFFICES ASSUME NEW w \in {"active", "ended"}, NEW k \in Token \cup {Blank},
                      sess[k] # Absent
               PROVE  /\ [sess[k] EXCEPT !.status = w] \in Row
                      /\ [sess[k] EXCEPT !.status = w] # Absent
    OBVIOUS
  <2>1. sess[k] \in Row
    BY <1>a
  <2> QED BY <2>1 DEF Row, Absent
<1>d. \A row \in Row : row # Absent
  BY DEF Row, Absent
<1>e. UNCHANGED drawn => InviteRow' = InviteRow
  BY DEF InviteRow
<1>0. CASE UNCHANGED <<inv, sess, drawn, req, told, lost>> /\ now' \in 0 .. MaxTime
  BY <1>0 DEF TypeInv, TypeOK, Rows, Acceptance
<1>1. ASSUME NEW i \in Invite, NEW u \in User, NEW v \in User, CreateRemoteInvite(i, u, v)
      PROVE  TypeInv'
  <2>1. now + Lifetime \in 0 .. MaxTime
    BY <1>1, <1>a, RemoteAccessAssumption DEF CreateRemoteInvite
  <2>2. inv' = [inv EXCEPT ![i] = [status |-> "pending", by |-> u, to |-> v,
                                   expires |-> now + Lifetime, token |-> Blank]]
        /\ UNCHANGED <<now, sess, drawn, req, told, lost>>
    BY <1>1 DEF CreateRemoteInvite, ExpiresAt
  <2>3. inv' \in [Invite -> {Absent} \cup InviteRow]
    BY <1>a, <2>1, <2>2 DEF InviteRow
  <2>4. \A j \in Invite : inv[j] # Absent => inv'[j] # Absent
    BY <1>a, <2>2 DEF Absent
  <2>5. \A r \in Request : req[r].step \in Pending => req[r].i \in Invite
    BY Fields DEF TypeInv, Pending
  <2> QED BY <2>2, <2>3, <2>4, <2>5 DEF TypeInv, TypeOK, Rows, InviteRow, Acceptance
<1>2. ASSUME NEW r \in Request, NEW i \in Invite, NEW action \in {"accept", "reject"},
             ResolveRemoteInvite(r, i, action)
      PROVE  TypeInv'
  <2>1. UNCHANGED <<now, inv, sess, told, lost>> /\ inv[i] # Absent
    BY <1>2 DEF ResolveRemoteInvite
  <2>2. ASSUME NEW w \in {"expire", "reject"}, UNCHANGED drawn,
               req' = [req EXCEPT ![r] = [step |-> w, i |-> i]]
        PROVE  TypeInv'
    <3>1. PICK t : t = [step |-> w, i |-> i]
      OBVIOUS
    <3>2. t \in Answer /\ t.i = i /\ t.step \notin {"end", "stats"}
      BY <3>1 DEF Answer
    <3>3. req' = [req EXCEPT ![r] = t]
      BY <2>2, <3>1
    <3> QED BY <1>a, <1>e, <2>1, <2>2, <3>2, <3>3, TypeSlot
  <2>3. ASSUME drawn' = drawn \cup {Fresh}, Fresh \in Token,
               req' = [req EXCEPT ![r] = [step |-> "accept", i |-> i, k |-> Fresh]]
        PROVE  TypeInv'
    <3>1. PICK t : t = [step |-> "accept", i |-> i, k |-> Fresh]
      OBVIOUS
    <3>2. t \in Acceptance' /\ t.i = i /\ t.step \notin {"end", "stats"}
      BY <2>3, <3>1 DEF Acceptance
    <3>3. req' = [req EXCEPT ![r] = t]
      BY <2>3, <3>1
    <3>4. inv' \in [Invite -> {Absent} \cup InviteRow']
      BY <1>a, <2>1, <2>3 DEF InviteRow
    <3>5. /\ now' \in 0 .. MaxTime /\ drawn \subseteq drawn' /\ drawn' \subseteq Token
          /\ sess' \in [Token \cup {Blank} -> {Absent} \cup Row]
      BY <1>a, <2>1, <2>3
    <3>6. told' \in [Invite -> SUBSET drawn'] /\ lost' \subseteq drawn'
      BY <1>a, <2>1, <3>5
    <3>7. /\ inv'[t.i] # Absent
          /\ \A j \in Invite : inv[j] # Absent => inv'[j] # Absent
          /\ \A k \in Token \cup {Blank} : sess[k] # Absent => sess'[k] # Absent
      BY <2>1, <3>2
    <3> QED BY <3>2, <3>3, <3>4, <3>5, <3>6, <3>7, TypeSlot
  <2> QED BY <1>2, <2>2, <2>3, FreshToken DEF ResolveRemoteInvite, Begin
<1>3. ASSUME NEW r \in Request, NEW w \in {"expired", "rejected"},
             req[r].step \in {"expire", "reject"}, Done(r),
             inv' = [inv EXCEPT ![req[r].i].status = w],
             UNCHANGED <<now, sess, drawn, told, lost>>
      PROVE  TypeInv'
  <2>1. PICK i \in Invite : i = req[r].i
    BY <1>3, Fields DEF TypeInv
  <2>2. inv[i] # Absent
    BY <1>3, <2>1 DEF TypeInv, Rows, Pending
  <2>3. inv' = [inv EXCEPT ![i] = [inv[i] EXCEPT !.status = w]]
    BY <1>3, <2>1
  <2>4. [inv[i] EXCEPT !.status = w] \in InviteRow /\ [inv[i] EXCEPT !.status = w] # Absent
    BY <1>b, <2>2
  <2>5. /\ inv' \in [Invite -> {Absent} \cup InviteRow]
        /\ \A j \in Invite : inv[j] # Absent => inv'[j] # Absent
    BY <1>a, <2>3, <2>4
  <2>6. Idle.step \notin Pending \cup {"end", "stats"}
    BY DEF Idle, Pending
  <2> QED BY <1>3, <1>a, <1>e, <2>5, <2>6, TypeSlot DEF Done
<1>4. ASSUME NEW r \in Request, Expire(r) \/ Reject(r) PROVE TypeInv'
  BY <1>3, <1>4 DEF Expire, Reject, At
<1>5. ASSUME NEW r \in Request, Accept(r) PROVE TypeInv'
  <2>1. req[r].step = "accept" /\ UNCHANGED <<now, sess, drawn, told, lost>>
    BY <1>5 DEF Accept, At
  <2>2. /\ req[r] \in Acceptance /\ req[r].k \in drawn
        /\ req[r].i \in Invite
    BY <2>1, Fields DEF TypeInv
  <2>3. PICK t : t = [req[r] EXCEPT !.step = "create"]
    OBVIOUS
  <2>4. t \in Acceptance /\ t.i = req[r].i /\ t.step = "create"
    BY <2>2, <2>3 DEF Acceptance
  <2>5. req' = [req EXCEPT ![r] = t]
    BY <1>5, <2>3 DEF Accept, AfterAccept
  <2>6. inv[req[r].i] # Absent
    BY <2>1 DEF TypeInv, Rows, Pending
  <2>7. PICK s : s = [inv[req[r].i] EXCEPT !.status = "accepted", !.token = req[r].k]
    OBVIOUS
  <2>8. s \in InviteRow /\ s # Absent
    BY <1>b, <2>2, <2>6, <2>7
  <2>9. inv' = [inv EXCEPT ![req[r].i] = s]
    BY <1>5, <1>a, <2>2, <2>7 DEF Accept
  <2>10. /\ inv' \in [Invite -> {Absent} \cup InviteRow]
         /\ \A j \in Invite : inv[j] # Absent => inv'[j] # Absent
         /\ inv'[t.i] # Absent
    BY <1>a, <2>2, <2>4, <2>8, <2>9
  <2>11. Acceptance' = Acceptance
    BY <2>1 DEF Acceptance
  <2> QED BY <1>a, <1>e, <2>1, <2>4, <2>5, <2>10, <2>11, TypeSlot
<1>6. ASSUME NEW r \in Request, CreateAccepted(r) PROVE TypeInv'
  <2>1. req[r].step = "create" /\ UNCHANGED <<now, inv, drawn, told>>
    BY <1>6 DEF CreateAccepted, At
  <2>2. req[r] \in Acceptance /\ req[r].k \in drawn /\ req[r].i \in Invite
    BY <2>1, Fields DEF TypeInv
  <2>3. PICK t : t = [req[r] EXCEPT !.step = "announce"]
    OBVIOUS
  <2>4. t \in Acceptance /\ t.i = req[r].i /\ t.step = "announce"
    BY <2>2, <2>3 DEF Acceptance
  <2>5. req' = [req EXCEPT ![r] = t]
    BY <1>6, <2>3 DEF CreateAccepted
  <2>6. inv[req[r].i] # Absent /\ inv[req[r].i] \in InviteRow
    BY <1>a, <2>1, <2>2 DEF TypeInv, Rows, Pending
  <2>7. PICK s : s = Session(req[r].i, inv[req[r].i].by, inv[req[r].i].to)
    OBVIOUS
  <2>8. s \in Row
    BY <2>2, <2>6, <2>7 DEF Session, Row, InviteRow
  <2>9. \/ sess' = [sess EXCEPT ![req[r].k] = s] /\ UNCHANGED lost
        \/ lost' = lost \cup {req[r].k} /\ UNCHANGED sess
    BY <1>6, <2>7 DEF CreateAccepted
  <2>10. /\ sess' \in [Token \cup {Blank} -> {Absent} \cup Row]
         /\ \A k \in Token \cup {Blank} : sess[k] # Absent => sess'[k] # Absent
         /\ lost' \subseteq drawn
    BY <1>a, <1>d, <2>2, <2>8, <2>9
  <2>11. Acceptance' = Acceptance
    BY <2>1 DEF Acceptance
  <2> QED BY <1>a, <1>e, <2>1, <2>4, <2>5, <2>6, <2>10, <2>11, TypeSlot
<1>7. ASSUME NEW r \in Request, Announce(r) PROVE TypeInv'
  <2>1. req[r].step = "announce" /\ UNCHANGED <<now, inv, sess, drawn, lost>>
    BY <1>7 DEF Announce, At
  <2>2. req[r].k \in drawn /\ req[r].i \in Invite
    BY <2>1, Fields DEF TypeInv
  <2>3. told' \in [Invite -> SUBSET drawn]
    BY <1>7, <1>a, <2>2 DEF Announce
  <2>4. Idle.step \notin Pending \cup {"end", "stats"}
    BY DEF Idle, Pending
  <2> QED BY <1>7, <1>a, <1>e, <2>1, <2>3, <2>4, TypeSlot DEF Announce, Done
<1>8. CASE CleanupInvites
  <2>1. /\ inv' = [i \in Invite |-> IF inv[i].status = "pending" /\ Due(i)
                                    THEN [inv[i] EXCEPT !.status = "expired"] ELSE inv[i]]
        /\ UNCHANGED <<now, sess, drawn, req, told, lost>>
    BY <1>8 DEF CleanupInvites
  <2>2. \A i \in Invite :
          inv'[i] = inv[i] \/
            (inv[i] # Absent /\ inv'[i] = [inv[i] EXCEPT !.status = "expired"])
    <3>1. \A i \in Invite : inv[i] = Absent => inv[i].status # "pending"
      BY DEF Absent
    <3> SUFFICES ASSUME NEW i \in Invite
                 PROVE  inv'[i] = inv[i] \/
                          (inv[i] # Absent /\ inv'[i] = [inv[i] EXCEPT !.status = "expired"])
      OBVIOUS
    <3>2. inv'[i] = IF inv[i].status = "pending" /\ Due(i)
                    THEN [inv[i] EXCEPT !.status = "expired"] ELSE inv[i]
      BY <2>1
    <3> QED BY <3>1, <3>2
  <2>3. \A i \in Invite : /\ inv'[i] \in {Absent} \cup InviteRow
                          /\ inv[i] # Absent => inv'[i] # Absent
    BY <1>a, <1>b, <2>2
  <2>4. inv' \in [Invite -> {Absent} \cup InviteRow]
    BY <2>1, <2>3
  <2>5. \A r \in Request : req[r].step \in Pending => req[r].i \in Invite
    BY Fields DEF TypeInv, Pending
  <2> QED BY <2>1, <2>3, <2>4, <2>5 DEF TypeInv, TypeOK, Rows, InviteRow, Acceptance
<1>9. ASSUME NEW r \in Request, NEW u \in User, NEW v \in User,
             NEW i \in Invite \cup {NoInvite}, NEW k \in Token \cup {Blank},
             PostRemoteSession(r, u, v, i, k)
      PROVE  TypeInv'
  <2>1. PICK t : t = [step |-> "insert", k |-> k, row |-> Session(i, u, v)]
    OBVIOUS
  <2>2. t \in Insertion /\ t.step = "insert"
    BY <2>1 DEF Insertion, Session, Row
  <2>3. "insert" \notin Pending \cup {"end", "stats"}
    BY DEF Pending
  <2>4. req' = [req EXCEPT ![r] = t] /\ UNCHANGED <<now, inv, sess, drawn, told, lost>>
    BY <1>9, <2>1 DEF PostRemoteSession, Begin
  <2> QED BY <1>a, <1>e, <2>2, <2>3, <2>4, TypeSlot
<1>10. ASSUME NEW r \in Request, NEW u \in User, NEW k \in Token \cup {Blank},
              NEW w \in {"end", "stats"}, PatchRemoteSession(r, u, k, w)
       PROVE  TypeInv'
  <2>1. PICK t : t = [step |-> w, k |-> k]
    OBVIOUS
  <2>2. t \in Patch /\ t.step = w /\ t.k = k /\ w \notin Pending
    BY <2>1 DEF Patch, Pending
  <2>3. sess[k] # Absent
    BY <1>10 DEF PatchRemoteSession, Party, Absent
  <2>4. req' = [req EXCEPT ![r] = t] /\ UNCHANGED <<now, inv, sess, drawn, told, lost>>
    BY <1>10, <2>1 DEF PatchRemoteSession, Begin
  <2> QED BY <1>a, <1>e, <2>2, <2>3, <2>4, TypeSlot
<1>11. ASSUME NEW r \in Request, Done(r), UNCHANGED <<now, inv, drawn, told, lost>>,
              NEW k \in Token \cup {Blank}, NEW row \in Row,
              sess' = [sess EXCEPT ![k] = row] \/ UNCHANGED sess
       PROVE  TypeInv'
  <2>1. /\ sess' \in [Token \cup {Blank} -> {Absent} \cup Row]
        /\ \A l \in Token \cup {Blank} : sess[l] # Absent => sess'[l] # Absent
    BY <1>11, <1>a, <1>d
  <2>2. Idle.step \notin Pending \cup {"end", "stats"}
    BY DEF Idle, Pending
  <2> QED BY <1>11, <1>a, <1>e, <2>1, <2>2, TypeSlot DEF Done
<1>12. ASSUME NEW r \in Request, InsertSession(r) PROVE TypeInv'
  <2>1. req[r].k \in Token \cup {Blank} /\ req[r].row \in Row
    BY <1>12, Fields DEF TypeInv, InsertSession, At
  <2> QED BY <1>11, <1>12, <2>1 DEF InsertSession
<1>13. ASSUME NEW r \in Request, NEW sent \in {"active", "ended"},
              EndSession(r) \/ UpdateStats(r, sent)
       PROVE  TypeInv'
  <2>1. req[r].step \in {"end", "stats"}
    BY <1>13 DEF EndSession, UpdateStats, At
  <2>2. PICK k \in Token \cup {Blank} : k = req[r].k
    BY <2>1, Fields DEF TypeInv
  <2>3. sess[k] # Absent /\ sess[k] \in Row
    BY <1>a, <2>1, <2>2 DEF TypeInv, Rows
  <2>4. PICK w \in {"active", "ended"} : sess' = [sess EXCEPT ![k].status = w] \/ UNCHANGED sess
    <3>1. Coalesced(sess[k].status, sent) \in {"active", "ended"}
      BY <2>3, Statistics DEF Row
    <3> QED BY <1>13, <1>a, <2>2, <3>1 DEF EndSession, UpdateStats
  <2>5. PICK row : row = [sess[k] EXCEPT !.status = w]
    OBVIOUS
  <2>6. row \in Row
    BY <1>c, <2>3, <2>5
  <2>7. sess' = [sess EXCEPT ![k] = row] \/ UNCHANGED sess
    BY <2>4, <2>5
  <2> QED BY <1>11, <1>13, <2>6, <2>7 DEF EndSession, UpdateStats
<1>14. CASE Tick
  BY <1>0, <1>14, <1>a, RemoteAccessAssumption DEF Tick
<1>15. CASE Restart
  <2>1. \A r \in Request : req'[r] = Idle
    BY <1>15 DEF Restart
  <2> QED BY <1>15, <2>1, <1>a DEF Restart, TypeInv, TypeOK, Rows, Idle, Pending, InviteRow
<1>16. CASE UNCHANGED vars
  BY <1>0, <1>16, <1>a DEF vars
<1>17. ASSUME NEW r \in Request, Arrive(r) PROVE TypeInv'
  BY <1>2, <1>9, <1>10, <1>17 DEF Arrive
<1>18. ASSUME NEW r \in Request, Continue(r) PROVE TypeInv'
  BY <1>4, <1>5, <1>6, <1>7, <1>12, <1>13, <1>18 DEF Continue
<1> QED BY <1>1, <1>8, <1>14, <1>15, <1>16, <1>17, <1>18 DEF Next

\* Every variable of RemoteAccess holds a value of its kind.
THEOREM TypeCorrect == Spec => []TypeOK
<1>1. TypeInv => TypeOK
  BY DEF TypeInv
<1> QED BY <1>1, TypeInit, TypeNext, PTL DEF Spec

-----------------------------------------------------------------------------
(* Invites and sessions: what is announced                                 *)

Accepting == {"accept", "create"}
Holding == {"accept", "create", "announce"}

\* A token is held by one acceptance until it is announced, and until then
\* nobody else can name it.
Tokens ==
  /\ \A r \in Request : req[r].step \in Accepting => sess[req[r].k] = Absent
  /\ \A r \in Request, i \in Invite : req[r].step \in Holding => req[r].k \notin told[i]
  /\ \A r, q \in Request :
       req[r].step \in Holding /\ req[q].step \in Holding /\ r # q => req[r].k # req[q].k
  /\ \A r \in Request :
       req[r].step = "insert" /\ req[r].k # Blank => \E i \in Invite : req[r].k \in told[i]
  /\ \A k \in Token : sess[k] # Absent => k \in drawn
  /\ \A i \in Invite : told[i] # {} => inv[i] # Absent

Belongs(i, k) ==
  /\ sess[k] # Absent /\ sess[k].invite = i
  /\ sess[k].controller = inv[i].by /\ sess[k].host = inv[i].to

\* A token about to be announced, if its INSERT did not fail
Announceable ==
  \A r \in Request : req[r].step = "announce" /\ req[r].k \notin lost
                     => Belongs(req[r].i, req[r].k)

SessionInv == TypeInv /\ Tokens /\ Announceable /\ AnnouncedIsSession

\* Nothing is announced or under way.
LEMMA SessionInit == Init => SessionInv
<1> SUFFICES ASSUME Init PROVE SessionInv
  OBVIOUS
<1>1. TypeInv
  BY TypeInit
<1> QED BY <1>1, RemoteAccessAssumption
        DEF Init, SessionInv, Tokens, Announceable, AnnouncedIsSession, Idle, Accepting, Holding

\* A step that leaves tokens, sessions and parties of invites, and takes up no
\* token in the slot it changes
LEMMA Aside ==
  ASSUME SessionInv, TypeInv', UNCHANGED <<sess, drawn, told, lost>>,
         \A i \in Invite : inv[i] # Absent =>
           inv'[i] # Absent /\ inv'[i].by = inv[i].by /\ inv'[i].to = inv[i].to,
         \A q \in Request :
           \/ req'[q] = req[q]
           \/ req'[q].step \notin Holding \cup {"insert"}
           \/ req[q].step = "accept" /\ req'[q].step = "create"
                /\ req'[q].k = req[q].k /\ req'[q].i = req[q].i
           \/ req'[q].step = "insert"
                /\ (req'[q].k # Blank => \E i \in Invite : req'[q].k \in told[i])
  PROVE  SessionInv'
<1>1. Tokens'
  BY DEF SessionInv, Tokens, Accepting, Holding
<1>2. \A r \in Request :
        req[r].step = "announce" => req[r].i \in Invite /\ inv[req[r].i] # Absent
  BY Fields DEF SessionInv, TypeInv, Rows, Pending
<1>3. Announceable'
  BY <1>2 DEF SessionInv, Announceable, Belongs, Holding
<1>4. AnnouncedIsSession'
  BY DEF SessionInv, AnnouncedIsSession, Tokens
<1> QED BY <1>1, <1>3, <1>4 DEF SessionInv

\* A session that is not one of an acceptance under way is written or changed in
\* its status, and the request ends
LEMMA Written ==
  ASSUME SessionInv, TypeInv', NEW r \in Request, Done(r),
         UNCHANGED <<inv, drawn, told, lost>>, NEW k \in Token \cup {Blank},
         \A l \in Token \cup {Blank} : l # k => sess'[l] = sess[l],
         sess[k] # Absent \/ (req[r].step = "insert" /\ req[r].k = k),
         sess[k] # Absent => /\ sess'[k] # Absent /\ sess'[k].invite = sess[k].invite
                             /\ sess'[k].controller = sess[k].controller
                             /\ sess'[k].host = sess[k].host
  PROVE  SessionInv'
<1>1. /\ \A q \in Request : q # r => req'[q] = req[q]
      /\ req'[r].step = "idle"
  BY DEF Done, SessionInv, TypeInv, TypeOK, Idle
<1>2. k \in Token /\ sess[k] = Absent => \E i \in Invite : k \in told[i] \cap lost
  <2> SUFFICES ASSUME k \in Token, sess[k] = Absent
               PROVE  \E i \in Invite : k \in told[i] \cap lost
    OBVIOUS
  <2>1. PICK i \in Invite : k \in told[i]
    BY RemoteAccessAssumption DEF SessionInv, Tokens
  <2>2. k \in lost
    BY <2>1 DEF SessionInv, AnnouncedIsSession
  <2> QED BY <2>1, <2>2
<1>3. \A q \in Request : req[q].step \in Holding => req[q].k \in Token /\ req[q].i \in Invite
  BY Fields DEF SessionInv, TypeInv, Holding
<1>4. \A q \in Request : req[q].step \in Accepting => req[q].k # k
  <2> SUFFICES ASSUME NEW q \in Request, req[q].step \in Accepting, req[q].k = k PROVE FALSE
    OBVIOUS
  <2>1. k \in Token /\ sess[k] = Absent
    BY <1>3 DEF SessionInv, Tokens, Accepting, Holding
  <2> QED BY <1>2, <2>1 DEF SessionInv, Tokens, Accepting, Holding
<1>5. \A l \in Token : sess'[l] # Absent => l \in drawn
  <2>1. \A i \in Invite : told[i] \subseteq drawn
    BY DEF SessionInv, TypeInv, TypeOK
  <2> QED BY <1>2, <2>1 DEF SessionInv, Tokens
<1>6. Tokens'
  BY <1>1, <1>3, <1>4, <1>5 DEF SessionInv, Tokens, Accepting, Holding
<1>7. \A i \in Invite, l \in Token \ lost : Belongs(i, l) => Belongs(i, l)'
  BY DEF Belongs
<1>8. Announceable'
  BY <1>1, <1>3, <1>7 DEF SessionInv, Announceable, Holding, Belongs
<1>9. AnnouncedIsSession'
  <2>1. \A i \in Invite : told[i] \subseteq Token
    BY DEF SessionInv, TypeInv, TypeOK
  <2> QED BY <1>7, <2>1 DEF SessionInv, AnnouncedIsSession, Belongs
<1> QED BY <1>6, <1>8, <1>9 DEF SessionInv

\* Every statement preserves the invariant of tokens and sessions.
LEMMA SessionNext == SessionInv /\ [Next]_vars => SessionInv'
<1> SUFFICES ASSUME SessionInv, [Next]_vars PROVE SessionInv'
  OBVIOUS
<1>a. TypeInv /\ TypeInv'
  BY TypeNext DEF SessionInv
<1>b. /\ inv \in [Invite -> {Absent} \cup InviteRow]
      /\ sess \in [Token \cup {Blank} -> {Absent} \cup Row]
      /\ told \in [Invite -> SUBSET drawn] /\ drawn \subseteq Token /\ DOMAIN req = Request
  BY <1>a DEF TypeInv, TypeOK, InviteRow
<1>c. "idle" \notin Holding \cup {"insert"}
  BY DEF Holding
<1>1. ASSUME NEW i \in Invite, NEW u \in User, NEW v \in User, CreateRemoteInvite(i, u, v)
      PROVE  SessionInv'
  BY <1>1, <1>a, <1>b, Aside DEF CreateRemoteInvite
<1>2. ASSUME NEW r \in Request, NEW i \in Invite, NEW action \in {"accept", "reject"},
             ResolveRemoteInvite(r, i, action)
      PROVE  SessionInv'
  <2>1. UNCHANGED <<now, inv, sess, told, lost>> /\ inv[i] # Absent
    BY <1>2 DEF ResolveRemoteInvite
  <2>2. ASSUME NEW w \in {"expire", "reject"}, UNCHANGED drawn,
               req' = [req EXCEPT ![r] = [step |-> w, i |-> i]]
        PROVE  SessionInv'
    <3>1. /\ \A q \in Request : q # r => req'[q] = req[q]
          /\ req'[r].step \notin Holding \cup {"insert"}
      BY <1>b, <2>2 DEF Holding
    <3> QED BY <1>a, <2>1, <2>2, <3>1, Aside
  <2>3. ASSUME drawn' = drawn \cup {Fresh}, Fresh \in Token \ drawn,
               req' = [req EXCEPT ![r] = [step |-> "accept", i |-> i, k |-> Fresh]]
        PROVE  SessionInv'
    <3>1. PICK k \in Token \ drawn : k = Fresh
      BY <2>3
    <3>2. /\ \A q \in Request : q # r => req'[q] = req[q]
          /\ req'[r].step = "accept" /\ req'[r].k = k
      BY <1>b, <2>3, <3>1
    <3>3. /\ sess[k] = Absent /\ \A j \in Invite : k \notin told[j]
          /\ \A q \in Request : req[q].step \in Holding => req[q].k \in drawn
      <4>1. \A q \in Request : req[q].step \in Holding => req[q].k \in drawn
        BY <1>a, Fields DEF TypeInv, Holding
      <4> QED BY <1>b, <4>1 DEF SessionInv, Tokens
    <3>4. Tokens'
      BY <2>1, <2>3, <3>1, <3>2, <3>3 DEF SessionInv, Tokens, Accepting, Holding
    <3>5. Announceable' /\ AnnouncedIsSession'
      BY <2>1, <3>2 DEF SessionInv, Announceable, AnnouncedIsSession, Belongs
    <3> QED BY <1>a, <3>4, <3>5 DEF SessionInv
  <2> QED BY <1>2, <2>2, <2>3, FreshToken DEF ResolveRemoteInvite, Begin
<1>3. ASSUME NEW r \in Request, Expire(r) \/ Reject(r) PROVE SessionInv'
  <2>1. /\ \A q \in Request : q # r => req'[q] = req[q]
        /\ req'[r].step \notin Holding \cup {"insert"}
    BY <1>3, <1>b, <1>c DEF Expire, Reject, Done, Idle
  <2>2. PICK w : inv' = [inv EXCEPT ![req[r].i].status = w]
    BY <1>3 DEF Expire, Reject
  <2>3. \A i \in Invite : inv[i] # Absent =>
          inv'[i] # Absent /\ inv'[i].by = inv[i].by /\ inv'[i].to = inv[i].to
    <3> SUFFICES ASSUME NEW i \in Invite, inv[i] # Absent
                 PROVE  inv'[i] # Absent /\ inv'[i].by = inv[i].by /\ inv'[i].to = inv[i].to
      OBVIOUS
    <3>1. inv[i] \in InviteRow
      BY <1>b
    <3>2. inv'[i] = inv[i] \/ inv'[i] = [inv[i] EXCEPT !.status = w]
      BY <1>b, <2>2
    <3> QED BY <3>1, <3>2 DEF InviteRow, Absent
  <2> QED BY <1>3, <1>a, <2>1, <2>3, Aside DEF Expire, Reject
<1>4. ASSUME NEW r \in Request, Accept(r) PROVE SessionInv'
  <2>1. req[r].step = "accept" /\ req[r] \in Acceptance /\ req[r].i \in Invite
    BY <1>4, <1>a, Fields DEF Accept, At, TypeInv
  <2>2. [req[r] EXCEPT !.step = "create"].step = "create"
        /\ [req[r] EXCEPT !.step = "create"].k = req[r].k
        /\ [req[r] EXCEPT !.step = "create"].i = req[r].i
    BY <2>1 DEF Acceptance
  <2>3. /\ \A q \in Request : q # r => req'[q] = req[q]
        /\ req'[r] = [req[r] EXCEPT !.step = "create"]
    BY <1>4, <1>b DEF Accept, AfterAccept
  <2>4. \A i \in Invite : inv[i] # Absent =>
          inv'[i] # Absent /\ inv'[i].by = inv[i].by /\ inv'[i].to = inv[i].to
    <3> SUFFICES ASSUME NEW i \in Invite, inv[i] # Absent
                 PROVE  inv'[i] # Absent /\ inv'[i].by = inv[i].by /\ inv'[i].to = inv[i].to
      OBVIOUS
    <3>1. inv[i] \in InviteRow
      BY <1>b
    <3>2. \/ inv'[i] = inv[i]
          \/ inv'[i] = [inv[i] EXCEPT !.status = "accepted", !.token = req[r].k]
      BY <1>4, <1>b, <2>1 DEF Accept
    <3> QED BY <3>1, <3>2 DEF InviteRow, Absent
  <2> QED BY <1>4, <1>a, <2>1, <2>2, <2>3, <2>4, Aside DEF Accept
<1>5. ASSUME NEW r \in Request, CreateAccepted(r) PROVE SessionInv'
  <2>1. req[r].step = "create" /\ UNCHANGED <<now, inv, drawn, told>>
    BY <1>5 DEF CreateAccepted, At
  <2>2. PICK i \in Invite, k \in Token : /\ i = req[r].i /\ k = req[r].k /\ k \in drawn
                                         /\ req[r] \in Acceptance
    BY <1>a, <2>1, Fields DEF TypeInv
  <2>3. /\ \A q \in Request : q # r => req'[q] = req[q]
        /\ req'[r].step = "announce" /\ req'[r].k = k /\ req'[r].i = i
    BY <1>5, <1>b, <2>2 DEF CreateAccepted, Acceptance
  <2>4. /\ \A l \in Token \cup {Blank} : l # k => sess'[l] = sess[l]
        /\ \/ sess'[k] = Session(i, inv[i].by, inv[i].to) /\ lost' = lost
           \/ lost' = lost \cup {k} /\ sess' = sess
    BY <1>5, <1>b, <2>2 DEF CreateAccepted
  <2>5. /\ \A j \in Invite : k \notin told[j]
        /\ \A q \in Request : q # r /\ req[q].step \in Holding => req[q].k # k
    BY <2>1, <2>2 DEF SessionInv, Tokens, Holding
  <2>6. \A q \in Request : req[q].step \in Holding => req[q].k \in Token
    BY <1>a, Fields DEF TypeInv, Holding
  <2>7. Tokens'
    BY <2>1, <2>2, <2>3, <2>4, <2>5, <2>6 DEF SessionInv, Tokens, Accepting, Holding
  <2>8. k \in lost' \/ (sess'[k] # Absent /\ sess'[k].invite = i
                        /\ sess'[k].controller = inv[i].by /\ sess'[k].host = inv[i].to)
    BY <2>4 DEF Session, Absent
  <2>9. lost \subseteq lost'
    BY <2>4
  <2>10. Announceable'
    BY <2>1, <2>3, <2>4, <2>5, <2>6, <2>8, <2>9
    DEF SessionInv, Announceable, Belongs, Holding
  <2>11. AnnouncedIsSession'
    BY <1>b, <2>1, <2>4, <2>5, <2>9 DEF SessionInv, AnnouncedIsSession
  <2> QED BY <1>a, <2>7, <2>10, <2>11 DEF SessionInv
<1>6. ASSUME NEW r \in Request, Announce(r) PROVE SessionInv'
  <2>1. req[r].step = "announce" /\ UNCHANGED <<now, inv, sess, drawn, lost>>
    BY <1>6 DEF Announce, At
  <2>2. PICK i \in Invite, k \in Token : i = req[r].i /\ k = req[r].k
    BY <1>a, <2>1, Fields DEF TypeInv
  <2>3. /\ \A q \in Request : q # r => req'[q] = req[q]
        /\ req'[r].step \notin Holding \cup Accepting \cup {"insert", "announce"}
    BY <1>6, <1>b DEF Announce, Done, Idle, Holding, Accepting
  <2>4. /\ told'[i] = told[i] \cup {k}
        /\ \A j \in Invite : j # i => told'[j] = told[j]
    BY <1>6, <1>b, <2>2 DEF Announce
  <2>5. /\ inv[i] # Absent
        /\ \A q \in Request : q # r /\ req[q].step \in Holding => req[q].k # k
    BY <1>a, <2>1, <2>2 DEF SessionInv, Tokens, TypeInv, Rows, Holding, Pending
  <2>6. Tokens'
    BY <2>1, <2>3, <2>4, <2>5 DEF SessionInv, Tokens, Accepting, Holding
  <2>7. Announceable'
    BY <2>1, <2>3 DEF SessionInv, Announceable, Belongs
  <2>8. k \in lost \/ Belongs(i, k)
    BY <2>1, <2>2 DEF SessionInv, Announceable
  <2>9. AnnouncedIsSession'
    BY <2>1, <2>4, <2>8 DEF SessionInv, AnnouncedIsSession, Belongs
  <2> QED BY <1>a, <2>6, <2>7, <2>9 DEF SessionInv
<1>7. CASE CleanupInvites
  <2>1. UNCHANGED <<now, sess, drawn, req, told, lost>>
    BY <1>7 DEF CleanupInvites
  <2>2. \A i \in Invite : inv[i] # Absent =>
          inv'[i] # Absent /\ inv'[i].by = inv[i].by /\ inv'[i].to = inv[i].to
    <3> SUFFICES ASSUME NEW i \in Invite, inv[i] # Absent
                 PROVE  inv'[i] # Absent /\ inv'[i].by = inv[i].by /\ inv'[i].to = inv[i].to
      OBVIOUS
    <3>1. inv[i] \in InviteRow
      BY <1>b
    <3>2. inv'[i] = inv[i] \/ inv'[i] = [inv[i] EXCEPT !.status = "expired"]
      BY <1>7 DEF CleanupInvites
    <3> QED BY <3>1, <3>2 DEF InviteRow, Absent
  <2> QED BY <1>a, <2>1, <2>2, Aside
<1>8. ASSUME NEW r \in Request, NEW u \in User, NEW v \in User,
             NEW i \in Invite \cup {NoInvite}, NEW k \in Token \cup {Blank},
             PostRemoteSession(r, u, v, i, k)
      PROVE  SessionInv'
  <2>1. /\ \A q \in Request : q # r => req'[q] = req[q]
        /\ req'[r].step = "insert" /\ req'[r].k = k
        /\ UNCHANGED <<now, inv, sess, drawn, told, lost>>
    BY <1>8, <1>b DEF PostRemoteSession, Begin
  <2>2. k # Blank => \E j \in Invite : k \in told[j]
    BY <1>8 DEF PostRemoteSession
  <2> QED BY <1>a, <2>1, <2>2, Aside
<1>9. ASSUME NEW r \in Request, NEW u \in User, NEW k \in Token \cup {Blank},
             NEW w \in {"end", "stats"}, PatchRemoteSession(r, u, k, w)
      PROVE  SessionInv'
  <2>1. /\ \A q \in Request : q # r => req'[q] = req[q]
        /\ req'[r].step \notin Holding \cup {"insert"}
        /\ UNCHANGED <<now, inv, sess, drawn, told, lost>>
    BY <1>9, <1>b DEF PatchRemoteSession, Begin, Holding
  <2> QED BY <1>a, <2>1, Aside
<1>10. ASSUME NEW r \in Request, InsertSession(r) PROVE SessionInv'
  <2>1. req[r].step = "insert" /\ Done(r) /\ UNCHANGED <<now, inv, drawn, told, lost>>
    BY <1>10 DEF InsertSession, At
  <2>2. PICK k \in Token \cup {Blank} : k = req[r].k
    BY <1>a, <2>1, Fields DEF TypeInv
  <2>3. /\ \A l \in Token \cup {Blank} : l # k => sess'[l] = sess[l]
        /\ sess[k] # Absent => sess'[k] = sess[k]
    BY <1>10, <1>b, <2>2 DEF InsertSession
  <2> QED BY <1>a, <2>1, <2>2, <2>3, Written
<1>11. ASSUME NEW r \in Request, NEW sent, EndSession(r) \/ UpdateStats(r, sent)
       PROVE  SessionInv'
  <2>1. req[r].step \in {"end", "stats"} /\ Done(r) /\ UNCHANGED <<now, inv, drawn, told, lost>>
    BY <1>11 DEF EndSession, UpdateStats, At
  <2>2. PICK k \in Token \cup {Blank} : k = req[r].k
    BY <1>a, <2>1, Fields DEF TypeInv
  <2>3. sess[k] # Absent /\ sess[k] \in Row
    BY <1>a, <1>b, <2>1, <2>2 DEF TypeInv, Rows
  <2>4. PICK w : sess' = [sess EXCEPT ![k].status = w] \/ UNCHANGED sess
    BY <1>11, <2>2 DEF EndSession, UpdateStats
  <2>5. /\ \A l \in Token \cup {Blank} : l # k => sess'[l] = sess[l]
        /\ sess'[k] = [sess[k] EXCEPT !.status = w] \/ sess'[k] = sess[k]
    BY <1>b, <2>4
  <2>6. /\ sess'[k] # Absent /\ sess'[k].invite = sess[k].invite
        /\ sess'[k].controller = sess[k].controller /\ sess'[k].host = sess[k].host
    BY <2>3, <2>5 DEF Row, Absent
  <2> QED BY <1>a, <2>1, <2>3, <2>5, <2>6, Written
<1>12. CASE Tick \/ UNCHANGED vars
  <2>1. UNCHANGED <<inv, sess, drawn, req, told, lost>>
    BY <1>12 DEF Tick, vars
  <2> QED BY <1>a, <2>1, Aside
<1>13. CASE Restart
  <2>1. \A r \in Request : req'[r].step = "idle"
    BY <1>13 DEF Restart, Idle
  <2> QED BY <1>13, <1>a, <1>c, <2>1, Aside DEF Restart
<1>14. ASSUME NEW r \in Request, Arrive(r) PROVE SessionInv'
  BY <1>2, <1>8, <1>9, <1>14 DEF Arrive
<1>15. ASSUME NEW r \in Request, Continue(r) PROVE SessionInv'
  BY <1>3, <1>4, <1>5, <1>6, <1>10, <1>11, <1>15 DEF Continue
<1> QED BY <1>1, <1>7, <1>12, <1>13, <1>14, <1>15 DEF Next

\* SessionInv is an invariant.
LEMMA SessionHolds == Spec => []SessionInv
BY SessionInit, SessionNext, PTL DEF Spec

\* A token announced to the requester of an invite is the token of a session of that
\* invite.
THEOREM AnnouncedMeet == Spec => []AnnouncedIsSession
<1>1. SessionInv => AnnouncedIsSession
  BY DEF SessionInv
<1> QED BY <1>1, SessionHolds, PTL

\* An ended session stays ended.
THEOREM EndedStays == Spec => EndedForGood
<1> DEFINE A == \A k \in DOMAIN sess : sess[k].status = "ended" => sess'[k].status = "ended"
<1>1. SessionInv /\ [Next]_vars => [A]_vars
  <2> SUFFICES ASSUME SessionInv, Next, NEW k \in Token \cup {Blank}, sess[k].status = "ended"
               PROVE  sess'[k].status = "ended"
    BY DEF vars, SessionInv, TypeInv, TypeOK
  <2>1. /\ TypeInv /\ sess \in [Token \cup {Blank} -> {Absent} \cup Row]
        /\ sess[k] \in Row /\ sess[k] # Absent
    BY DEF SessionInv, TypeInv, TypeOK, Absent
  <2>2. CASE UNCHANGED sess
    BY <2>2
  <2>3. ASSUME NEW r \in Request, CreateAccepted(r) PROVE sess'[k].status = "ended"
    <3>1. req[r].step = "create"
      BY <2>3 DEF CreateAccepted, At
    <3>2. req[r].k # k
      BY <2>1, <3>1 DEF SessionInv, Tokens, Accepting
    <3> QED BY <2>1, <2>3, <3>2 DEF CreateAccepted
  <2>4. ASSUME NEW r \in Request, InsertSession(r) PROVE sess'[k].status = "ended"
    BY <2>1, <2>4 DEF InsertSession
  <2>5. ASSUME NEW r \in Request, EndSession(r) PROVE sess'[k].status = "ended"
    BY <2>1, <2>5 DEF EndSession, Row
  <2>6. ASSUME NEW r \in Request, NEW sent \in {"active", "ended"}, UpdateStats(r, sent)
        PROVE  sess'[k].status = "ended"
    <3>1. Coalesced("ended", sent) = "ended"
      BY DEF Coalesced
    <3>2. sess' = [sess EXCEPT ![req[r].k].status = Coalesced(sess[req[r].k].status, sent)]
      BY <2>6 DEF UpdateStats
    <3> QED BY <2>1, <3>1, <3>2 DEF Row
  <2>7. ASSUME NEW r \in Request, Arrive(r) PROVE UNCHANGED sess
    BY <2>7 DEF Arrive, ResolveRemoteInvite, PostRemoteSession, PatchRemoteSession
  <2>8. ASSUME NEW r \in Request, Continue(r) PROVE sess'[k].status = "ended"
    <3>1. CASE Expire(r) \/ Reject(r) \/ Accept(r) \/ Announce(r)
      BY <2>2, <3>1 DEF Expire, Reject, Accept, Announce
    <3> QED BY <2>3, <2>4, <2>5, <2>6, <2>8, <3>1 DEF Continue
  <2> QED BY <2>2, <2>7, <2>8 DEF Next, CreateRemoteInvite, CleanupInvites, Tick, Restart
<1> QED BY <1>1, SessionHolds, PTL DEF Spec, EndedForGood

-----------------------------------------------------------------------------
(* Input: keys that repeat                                                 *)

\* While the page cannot take key events, no key repeats; and what may pause a
\* session is known from its start.
KeyInv ==
  /\ may \in Sessions /\ (paused => "pause" \in may)
  /\ focus \in BOOLEAN /\ connected \in BOOLEAN /\ open \in BOOLEAN /\ paused \in BOOLEAN
  /\ ~(focus /\ connected /\ open) => repeating = {}
  /\ RepeatsAreHeld

\* Every step of the two pages keeps the repeat timers to the keys held.
THEOREM HeldRepeats == InputSpec => []RepeatsAreHeld
<1>1. InputInit => KeyInv
  BY DEF InputInit, KeyInv, RepeatsAreHeld
<1>2. KeyInv /\ [InputNext]_inputVars => KeyInv'
  <2> SUFFICES ASSUME KeyInv, [InputNext]_inputVars PROVE KeyInv'
    OBVIOUS
  <2> USE DEF KeyInv, RepeatsAreHeld, CanSend, Listening, Typing, page, host
  <2>1. CASE UNCHANGED inputVars
    BY <2>1 DEF inputVars
  <2>2. ASSUME NEW k \in Key, KeyDown(k) \/ KeyUp(k) \/ RepeatTick(k), UNCHANGED may
        PROVE  KeyInv'
    BY <2>2 DEF KeyDown, KeyUp, RepeatTick
  <2>3. CASE (LoseFocus \/ Close) /\ UNCHANGED may
    <3>1. /\ repeating' = {} /\ UNCHANGED <<held, paused, connected, may>>
          /\ focus' \in BOOLEAN /\ open' \in BOOLEAN
      BY <2>3, Zenon DEF LoseFocus, Close, DropKeys
    <3> QED BY <3>1
  <2>4. CASE RegainFocus /\ UNCHANGED may
    BY <2>4 DEF RegainFocus
  <2>9. CASE Reconnect /\ UNCHANGED may
    BY <2>9 DEF Reconnect
  <2>7. CASE TogglePause /\ UNCHANGED may
    BY <2>7 DEF TogglePause
  <2>8. CASE Reboot /\ UNCHANGED may
    BY <2>8 DEF Reboot
  <2>5. CASE (SyncModifiers \/ PointerUp \/ Deliver \/ Lose \/ SetPolicy \/ MouseSafety)
             /\ UNCHANGED may
    BY <2>5 DEF SyncModifiers, PointerUp, Deliver, Lose, SetPolicy, MouseSafety
  <2>6. ASSUME NEW b \in Button, PointerDown(b), UNCHANGED may PROVE KeyInv'
    BY <2>6 DEF PointerDown
  <2> QED BY <2>1, <2>2, <2>3, <2>4, <2>5, <2>6, <2>7, <2>8, <2>9 DEF InputNext, Step
<1>3. KeyInv => RepeatsAreHeld
  BY DEF KeyInv
<1> QED BY <1>1, <1>2, <1>3, PTL DEF InputSpec

-----------------------------------------------------------------------------
(* Input: types                                                            *)

\* What the two pages say to each other
Messages ==
  [act : {"keydown", "keyup"}, of : Key] \cup [act : {"press", "release"}, of : Button]
  \cup [act : {"sync"}, of : {{}, Generic}] \cup [act : {"reset", "end"}, of : {{}}]

InputTypeInv == InputTypeOK /\ link \in Seq(Messages)

LEMMA InputBounds == MaxGestures \in Nat /\ MaxLosses \in Nat /\ None \notin Button
<1>1. {MaxGestures, MaxLosses, LinkCap} \subseteq Nat /\ None \notin Button
  BY RemoteInputAssumption DEF RemoteInputAssumption
<1> QED BY <1>1

\* What can be sent next
Sendable(m) ==
  /\ m.act = "press" => m.of = Left \/ "right" \in may
  /\ m.act = "release" => m.of = button
  /\ m.act = "end" => "end" \in may

\* Whatever holds of what can be sent goes on holding of what is on its way.
LEMMA LinkNext ==
  ASSUME InputTypeInv, [InputNext]_inputVars, NEW S, link \in Seq(S),
         \A m \in Messages : Sendable(m) => m \in S
  PROVE  link' \in Seq(S)
<1>1. link \in Seq(S)
  OBVIOUS
<1>2. ASSUME NEW m \in S, Send(m) PROVE link' \in Seq(S)
  BY <1>1, <1>2 DEF Send
<1>3. CASE UNCHANGED link
  BY <1>1, <1>3
<1>4. CASE link # <<>> /\ link' = Tail(link)
  BY <1>1, <1>4
<1>5. ASSUME NEW k \in Key, KeyDown(k) \/ KeyUp(k) \/ RepeatTick(k)
      PROVE  link' \in Seq(S)
  <2>1. Message("keydown", k) \in S /\ Message("keyup", k) \in S
    BY DEF Message, Messages, Sendable
  <2>2. UNCHANGED link \/ Send(Message("keydown", k)) \/ Send(Message("keyup", k))
    BY <1>5 DEF KeyDown, KeyUp, RepeatTick
  <2> QED BY <1>2, <1>3, <2>1, <2>2
<1>6. ASSUME NEW b \in Button, PointerDown(b) PROVE link' \in Seq(S)
  <2>1. Message("press", b) \in S
    BY <1>6 DEF Message, Messages, Sendable, PointerDown
  <2> QED BY <1>2, <1>3, <1>6, <2>1 DEF PointerDown
<1>7. CASE PointerUp
  <2>1. button # None => Message("release", button) \in S
    BY DEF Message, Messages, Sendable, InputTypeInv, InputTypeOK
  <2> QED BY <1>2, <1>3, <1>7, <2>1 DEF PointerUp
<1>8. CASE SyncModifiers
  <2>1. Message("sync", {}) \in S /\ Message("sync", Generic) \in S
    BY DEF Message, Messages, Sendable
  <2>2. Send(Message("sync", {})) \/ Send(Message("sync", Generic))
    BY <1>8 DEF SyncModifiers
  <2> QED BY <1>2, <2>1, <2>2
<1>9. Message("reset", {}) \in S /\ ("end" \in may => Message("end", {}) \in S)
  BY DEF Message, Messages, Sendable
<1>10. CASE LoseFocus
  BY <1>2, <1>9, <1>10 DEF LoseFocus
<1>11. CASE Close
  <2>1. \/ link' = link \o <<Message("reset", {})>> \o <<Message("end", {})>>
        \/ link' = link \o <<>> \o <<Message("end", {})>>
    BY <1>11 DEF Close
  <2>2. <<Message("reset", {})>> \in Seq(S) /\ <<Message("end", {})>> \in Seq(S)
    BY <1>9, <1>11 DEF Close
  <2>3. ASSUME NEW s \in Seq(S), NEW u \in Seq(S) PROVE s \o u \in Seq(S)
    OBVIOUS
  <2>4. <<>> \in Seq(S)
    OBVIOUS
  <2>5. link \o <<Message("reset", {})>> \in Seq(S) /\ link \o <<>> \in Seq(S)
    BY <1>1, <2>2, <2>3, <2>4
  <2> QED BY <2>1, <2>2, <2>3, <2>5
<1>12. CASE Deliver \/ Lose
  BY <1>4, <1>12 DEF Deliver, Lose
<1>13. CASE RegainFocus \/ TogglePause \/ Reboot \/ Reconnect \/ SetPolicy \/ MouseSafety
  BY <1>3, <1>13 DEF RegainFocus, TogglePause, Reboot, Reconnect, SetPolicy, MouseSafety
<1>14. CASE UNCHANGED inputVars
  BY <1>3, <1>14 DEF inputVars
<1> QED BY <1>5, <1>6, <1>7, <1>8, <1>10, <1>11, <1>12, <1>13, <1>14 DEF InputNext, Step

\* The controller's page and the two users' hands
ControllerType ==
  /\ held \subseteq Key /\ pressed \subseteq Key /\ repeating \subseteq Managed
  /\ focus \in BOOLEAN /\ paused \in BOOLEAN /\ connected \in BOOLEAN /\ open \in BOOLEAN
  /\ mouse \in Button \cup {None} /\ button \in Button \cup {None}
  /\ gestures <= MaxGestures /\ gestures \in Nat

HostType ==
  /\ hosting \in BOOLEAN /\ allowed \subseteq Device /\ hostCaps \in BOOLEAN
  /\ slot \in Button \cup {None}
  /\ hostDown \subseteq Special /\ hostButtons \subseteq Button
  /\ losses <= MaxLosses /\ losses \in Nat

LEMMA ControllerTypeNext == ControllerType /\ [InputNext]_inputVars => ControllerType'
<1> SUFFICES ASSUME ControllerType, [InputNext]_inputVars PROVE ControllerType'
  OBVIOUS
<1> USE InputBounds DEF ControllerType, page, Gesture
<1>1. ASSUME NEW k \in Key, KeyDown(k) \/ KeyUp(k) \/ RepeatTick(k) PROVE ControllerType'
  BY <1>1 DEF KeyDown, KeyUp, RepeatTick
<1>2. ASSUME NEW b \in Button, PointerDown(b) PROVE ControllerType'
  <2>1. mouse' = b /\ button' \in {button, b} /\ focus' \in BOOLEAN
    BY <1>2 DEF PointerDown
  <2> QED BY <1>2, <2>1 DEF PointerDown
<1>3. CASE LoseFocus
  <2>1. /\ gestures < MaxGestures /\ gestures' = gestures + 1
        /\ focus' \in BOOLEAN /\ pressed' = {} /\ repeating' = {}
        /\ UNCHANGED <<held, mouse, paused, connected, open, button>>
    BY <1>3, Zenon DEF LoseFocus, DropKeys
  <2> QED BY <2>1
<1>7. CASE RegainFocus
  BY <1>7 DEF RegainFocus
<1>8. CASE TogglePause
  BY <1>8 DEF TogglePause
<1>9. CASE Reboot
  <2>1. /\ gestures < MaxGestures /\ gestures' = gestures + 1 /\ connected' \in BOOLEAN
        /\ UNCHANGED <<held, mouse, focus, paused, open, pressed, repeating, button>>
    BY <1>9, Zenon DEF Reboot
  <2> QED BY <2>1
<1>10. CASE Reconnect
  BY <1>10 DEF Reconnect
<1>4. CASE SyncModifiers
  BY <1>4 DEF SyncModifiers
<1>11. CASE Close
  <2>1. /\ gestures < MaxGestures /\ gestures' = gestures + 1
        /\ open' \in BOOLEAN /\ pressed' = {} /\ repeating' = {}
        /\ UNCHANGED <<held, mouse, focus, paused, connected, button>>
    BY <1>11, Zenon DEF Close, DropKeys
  <2> QED BY <2>1
<1>12. CASE PointerUp
  BY <1>12 DEF PointerUp
<1>5. CASE Deliver \/ Lose \/ SetPolicy \/ MouseSafety
  BY <1>5 DEF Deliver, Lose, SetPolicy, MouseSafety
<1>6. CASE UNCHANGED inputVars
  BY <1>6 DEF inputVars
<1> QED BY <1>1, <1>2, <1>3, <1>4, <1>5, <1>6, <1>7, <1>8, <1>9, <1>10, <1>11, <1>12
    DEF InputNext, Step

\* What the host does with a message keeps its keys special and its buttons buttons.
LEMMA HostTypeNext ==
  HostType /\ link \in Seq(Messages) /\ [InputNext]_inputVars => HostType'
<1> SUFFICES ASSUME HostType, link \in Seq(Messages), [InputNext]_inputVars PROVE HostType'
  OBVIOUS
<1> USE InputBounds DEF HostType, host
<1>1. CASE Deliver
  <2>1. Head(link) \in Messages
    BY <1>1 DEF Deliver
  <2>2. ASSUME NEW m \in Messages, HostKey(m)
        PROVE  HostType' \/ losses' # losses \/ allowed' # allowed
    <3>1. hostDown' \subseteq Special
      BY <2>2 DEF HostKey, Injected, Clicked, Housekeeping
    <3>2. hostCaps' \in BOOLEAN
      BY <2>2, Zenon DEF HostKey, StillOn
    <3> QED BY <2>2, <3>1, <3>2 DEF HostKey
  <2>3. ASSUME NEW m \in Messages, m.act \in {"press", "release"}, HostButton(m)
        PROVE  HostType' \/ losses' # losses \/ allowed' # allowed
    <3>1. m.of \in Button
      BY <2>3 DEF Messages
    <3> QED BY <2>3, <3>1 DEF HostButton
  <2>4. CASE HostEnd \/ UNCHANGED <<hosting, hostDown, hostCaps, hostButtons, slot>>
    BY <1>1, <2>4 DEF Deliver, HostEnd
  <2> QED BY <1>1, <2>1, <2>2, <2>3, <2>4 DEF Deliver
<1>2. CASE Lose \/ SetPolicy \/ MouseSafety
  <2>1. CASE Lose
    BY <2>1 DEF Lose
  <2>2. CASE SetPolicy
    BY <2>2 DEF SetPolicy
  <2>3. CASE MouseSafety
    BY <2>3 DEF MouseSafety
  <2> QED BY <1>2, <2>1, <2>2, <2>3
<1>3. ASSUME NEW k \in Key, KeyDown(k) \/ KeyUp(k) \/ RepeatTick(k) PROVE HostType'
  BY <1>3 DEF KeyDown, KeyUp, RepeatTick
<1>4. ASSUME NEW b \in Button, PointerDown(b) PROVE HostType'
  BY <1>4 DEF PointerDown
<1>5. CASE LoseFocus \/ RegainFocus \/ TogglePause \/ Reboot \/ Reconnect
  BY <1>5 DEF LoseFocus, RegainFocus, TogglePause, Reboot, Reconnect
<1>6. CASE SyncModifiers \/ Close \/ PointerUp \/ UNCHANGED inputVars
  BY <1>6 DEF SyncModifiers, Close, PointerUp, inputVars
<1> QED BY <1>1, <1>2, <1>3, <1>4, <1>5, <1>6 DEF InputNext, Step

\* What is true of every state, whatever may interrupt the session
Typed == ControllerType /\ HostType /\ link \in Seq(Messages) /\ may \in Sessions

LEMMA TypedMeans == Typed => InputTypeInv
<1> SUFFICES ASSUME Typed PROVE InputTypeInv
  BY DEF Typed
<1>1. /\ {focus, paused, connected, open, hosting, hostCaps} \subseteq BOOLEAN
      /\ allowed \subseteq Device
  BY DEF Typed, ControllerType, HostType
<1>2. {mouse, button, slot} \subseteq Button \cup {None}
  BY DEF Typed, ControllerType, HostType
<1>3. \A i \in DOMAIN link : link[i] \in Messages
  BY DEF Typed
<1>4. \A m \in Messages : m.act \in Act
  BY DEF Messages, Act
<1> QED BY <1>1, <1>2, <1>3, <1>4 DEF Typed, ControllerType, HostType, InputTypeInv, InputTypeOK

LEMMA TypedInit == InputInit => Typed
<1> SUFFICES ASSUME InputInit PROVE Typed
  OBVIOUS
<1>1. ControllerType
  <2>1. focus \in BOOLEAN /\ paused \in BOOLEAN /\ connected \in BOOLEAN /\ open \in BOOLEAN
    BY DEF InputInit
  <2> QED BY <2>1, InputBounds DEF InputInit, ControllerType
<1>2. HostType
  BY InputBounds DEF InputInit, HostType
<1> QED BY <1>1, <1>2 DEF InputInit, Typed

LEMMA TypedNext == Typed /\ [InputNext]_inputVars => Typed'
<1> SUFFICES ASSUME Typed, [InputNext]_inputVars PROVE Typed'
  OBVIOUS
<1>1. link' \in Seq(Messages)
  BY TypedMeans, LinkNext DEF Typed
<1>2. ControllerType' /\ HostType'
  BY ControllerTypeNext, HostTypeNext DEF Typed
<1>3. may' \in Sessions
  BY DEF InputNext, inputVars, Typed
<1> QED BY <1>1, <1>2, <1>3 DEF Typed

\* Every variable of RemoteInput holds a value of its kind.
THEOREM InputTypes == InputSpec => []InputTypeOK
<1>1. Typed => InputTypeOK
  BY TypedMeans DEF InputTypeInv
<1> QED BY <1>1, TypedInit, TypedNext, PTL DEF InputSpec

-----------------------------------------------------------------------------
(* Input: what a session that nothing of a kind interrupts keeps           *)

Endless == {m \in Messages : m.act # "end"}

Calm ==
  /\ "pause" \notin may => ~paused
  /\ "reboot" \notin may => connected
  /\ "focus" \notin may => focus
  /\ "policy" \notin may => allowed = Device
  /\ "end" \notin may => open /\ hosting /\ link \in Seq(Endless)

LEMMA CalmInit == InputInit => Calm
<1> SUFFICES ASSUME InputInit PROVE Calm
  OBVIOUS
<1>1. link \in Seq(Endless)
  BY DEF InputInit
<1> QED BY <1>1 DEF InputInit, Calm

LEMMA CalmNext == Typed /\ Calm /\ [InputNext]_inputVars => Calm'
<1> SUFFICES ASSUME Typed, Calm, [InputNext]_inputVars PROVE Calm'
  OBVIOUS
<1>1. UNCHANGED may
  BY DEF InputNext, inputVars
<1>2. ASSUME "pause" \notin may PROVE ~paused'
  BY <1>2, Zenon DEF Calm, InputNext, inputVars, Step, page, KeyDown, KeyUp, RepeatTick,
     LoseFocus, RegainFocus, TogglePause, Reboot, Reconnect, SyncModifiers, Close, PointerUp,
     PointerDown, Deliver, Lose, SetPolicy, MouseSafety
<1>3. ASSUME "reboot" \notin may PROVE connected'
  BY <1>3, Zenon DEF Calm, InputNext, inputVars, Step, page, KeyDown, KeyUp, RepeatTick,
     LoseFocus, RegainFocus, TogglePause, Reboot, Reconnect, SyncModifiers, Close, PointerUp,
     PointerDown, Deliver, Lose, SetPolicy, MouseSafety
<1>4. ASSUME "focus" \notin may PROVE focus'
  BY <1>4, Zenon DEF Calm, InputNext, inputVars, Step, page, KeyDown, KeyUp, RepeatTick,
     LoseFocus, RegainFocus, TogglePause, Reboot, Reconnect, SyncModifiers, Close, PointerUp,
     PointerDown, Deliver, Lose, SetPolicy, MouseSafety
<1>5. ASSUME "policy" \notin may PROVE allowed' = Device
  BY <1>5, Zenon DEF Calm, InputNext, inputVars, Step, host, KeyDown, KeyUp, RepeatTick,
     LoseFocus, RegainFocus, TogglePause, Reboot, Reconnect, SyncModifiers, Close, PointerUp,
     PointerDown, Deliver, Lose, SetPolicy, MouseSafety, HostKey, HostButton, HostEnd
<1>6. ASSUME "end" \notin may PROVE open' /\ hosting' /\ link' \in Seq(Endless)
  <2>1. link' \in Seq(Endless)
    <3>1. \A m \in Messages : Sendable(m) => m \in Endless
      BY <1>6 DEF Sendable, Endless
    <3> QED BY <1>6, <3>1, TypedMeans, LinkNext DEF Calm
  <2>2. open'
    BY <1>6, Zenon DEF Calm, InputNext, inputVars, Step, page, KeyDown, KeyUp, RepeatTick,
       LoseFocus, RegainFocus, TogglePause, Reboot, Reconnect, SyncModifiers, Close, PointerUp,
       PointerDown, Deliver, Lose, SetPolicy, MouseSafety
  <2>3. CASE Deliver
    <3>1. Head(link).act # "end" /\ hosting
      BY <1>6, <2>3 DEF Calm, Deliver, Endless
    <3> QED BY <2>1, <2>2, <2>3, <3>1, Zenon DEF Deliver, HostKey, HostButton
  <2>4. CASE ~Deliver
    BY <1>6, <2>1, <2>2, <2>4, Zenon DEF Calm, InputNext, inputVars, Step, host, KeyDown, KeyUp,
       RepeatTick, LoseFocus, RegainFocus, TogglePause, Reboot, Reconnect, SyncModifiers, Close,
       PointerUp, PointerDown, Lose, SetPolicy, MouseSafety
  <2> QED BY <2>3, <2>4
<1> QED BY <1>1, <1>2, <1>3, <1>4, <1>5, <1>6 DEF Calm

-----------------------------------------------------------------------------
(* Input: buttons                                                          *)

\* Messages of a session that uses the left button only
OneButton == {m \in Messages : m.act \in {"press", "release"} => m.of = Left}

LeftOnly ==
  "right" \notin may =>
    /\ button \in {Left, None} /\ mouse \in {Left, None}
    /\ link \in Seq(OneButton)
    /\ hostButtons \subseteq {Left}
    /\ hosting => hostButtons \subseteq {slot}

LEMMA LeftInit == InputInit => LeftOnly
<1>1. InputInit => link \in Seq(OneButton)
  BY DEF InputInit
<1> QED BY <1>1 DEF InputInit, LeftOnly

LEMMA LeftNext == Typed /\ LeftOnly /\ [InputNext]_inputVars => LeftOnly'
<1> SUFFICES ASSUME Typed, LeftOnly, [InputNext]_inputVars, "right" \notin may
             PROVE  LeftOnly'
  BY DEF LeftOnly, InputNext, inputVars
<1> USE DEF LeftOnly
<1>1. link' \in Seq(OneButton)
  <2>1. \A m \in Messages : Sendable(m) => m \in OneButton
    <3>1. \A m \in Messages : m.act = "release" => m.of \in Button
      BY DEF Messages
    <3>2. None \notin Button
      BY InputBounds
    <3> QED BY <3>1, <3>2 DEF Sendable, OneButton
  <2> QED BY <2>1, TypedMeans, LinkNext
<1>2. button' \in {Left, None} /\ mouse' \in {Left, None}
  BY Zenon DEF InputNext, inputVars, Step, KeyDown, KeyUp, RepeatTick,
     LoseFocus, RegainFocus, TogglePause, Reboot, Reconnect, SyncModifiers, Close, PointerUp,
     PointerDown, Deliver, Lose, SetPolicy, MouseSafety
<1>3. hostButtons' \subseteq {Left} /\ (hosting' => hostButtons' \subseteq {slot'})
  <2>1. CASE Deliver
    <3>1. Head(link) \in OneButton
      BY <2>1 DEF Deliver
    <3>2. CASE hosting /\ HostButton(Head(link)) /\ Head(link).act \in {"press", "release"}
      BY <3>1, <3>2 DEF HostButton, OneButton
    <3>3. CASE HostEnd \/ HostKey(Head(link))
              \/ UNCHANGED <<hosting, hostDown, hostCaps, hostButtons, slot>>
      BY <3>3 DEF HostEnd, HostKey
    <3> QED BY <2>1, <3>2, <3>3 DEF Deliver
  <2>2. CASE MouseSafety
    BY <2>2 DEF MouseSafety
  <2>3. CASE ~Deliver /\ ~MouseSafety
    <3>1. UNCHANGED <<hosting, hostButtons, slot>>
      BY <2>3, Zenon DEF InputNext, inputVars, Step, host, KeyDown, KeyUp, RepeatTick,
         LoseFocus, RegainFocus, TogglePause, Reboot, Reconnect, SyncModifiers, Close,
         PointerUp, PointerDown, Lose, SetPolicy
    <3> QED BY <3>1
  <2> QED BY <2>1, <2>2, <2>3
<1> QED BY <1>1, <1>2, <1>3

\* What a message does to the one button that is down
Follows(b, m, c) ==
  /\ m.act = "press" => b = None /\ c = m.of
  /\ m.act = "release" => b = m.of /\ c = None
  /\ m.act \notin {"press", "release"} => c = b

\* f says which button is down after each of the messages on their way
Trace(f) ==
  /\ f \in [0 .. Len(link) -> Button \cup {None}]
  /\ \A i \in 1 .. Len(link) : Follows(f[i - 1], link[i], f[i])
  /\ f[Len(link)] = button
  /\ hostButtons \subseteq {f[0]}

TwoButtons ==
  may = {"right"} => mouse = button /\ hostButtons \subseteq {slot} /\ \E f : Trace(f)

LEMMA TwoInit == InputInit => TwoButtons
<1> SUFFICES ASSUME InputInit PROVE TwoButtons
  OBVIOUS
<1>1. Len(link) = 0 /\ link = <<>>
  BY DEF InputInit
<1>2. Trace([i \in 0 .. Len(link) |-> None])
  BY <1>1 DEF InputInit, Trace
<1> QED BY <1>2 DEF InputInit, TwoButtons

\* A message sent: the button of the page is the one down after it.
LEMMA TraceSent ==
  ASSUME Typed, NEW f, Trace(f), NEW m \in Messages, link' = Append(link, m),
         Follows(button, m, button'), button' \in Button \cup {None},
         UNCHANGED hostButtons
  PROVE  \E g : Trace(g)'
<1>0. PICK g : g = [i \in 0 .. Len(link) + 1 |-> IF i = Len(link) + 1 THEN button' ELSE f[i]]
  OBVIOUS
<1>1. link \in Seq(Messages) /\ Len(link) \in Nat
  BY DEF Typed
<1>2. Len(link') = Len(link) + 1 /\ link'[Len(link) + 1] = m
  BY <1>1
<1>3. \A i \in 1 .. Len(link) : link'[i] = link[i]
  BY <1>1
<1>4. g \in [0 .. Len(link') -> Button \cup {None}]
  BY <1>0, <1>1, <1>2 DEF Trace
<1>5. ASSUME NEW i \in 1 .. Len(link') PROVE Follows(g[i - 1], link'[i], g[i])
  <2>1. CASE i = Len(link) + 1
    <3>1. g[i - 1] = button /\ g[i] = button'
      BY <1>0, <1>1, <2>1 DEF Trace
    <3> QED BY <1>2, <2>1, <3>1
  <2>2. CASE i \in 1 .. Len(link)
    <3>1. g[i - 1] = f[i - 1] /\ g[i] = f[i]
      BY <1>0, <1>1, <2>2
    <3> QED BY <1>3, <2>2, <3>1 DEF Trace
  <2> QED BY <1>1, <1>2, <2>1, <2>2
<1>6. g[Len(link')] = button' /\ g[0] = f[0]
  BY <1>0, <1>1, <1>2
<1>7. Trace(g)'
  BY <1>4, <1>5, <1>6 DEF Trace
<1> QED BY <1>7

\* The first message arrives: the next one is first.
LEMMA TraceDelivered ==
  ASSUME Typed, NEW f, Trace(f), link # <<>>, link' = Tail(link), UNCHANGED button,
         hostButtons' \subseteq {f[1]}
  PROVE  \E g : Trace(g)'
<1>0. PICK g : g = [i \in 0 .. Len(link) - 1 |-> f[i + 1]]
  OBVIOUS
<1>1. link \in Seq(Messages) /\ Len(link) \in Nat \ {0}
  BY DEF Typed
<1>2. Len(link') = Len(link) - 1 /\ \A i \in 1 .. Len(link) - 1 : link'[i] = link[i + 1]
  BY <1>1
<1>3. g \in [0 .. Len(link') -> Button \cup {None}]
  BY <1>0, <1>1, <1>2 DEF Trace
<1>4. ASSUME NEW i \in 1 .. Len(link') PROVE Follows(g[i - 1], link'[i], g[i])
  <2>1. g[i - 1] = f[i] /\ g[i] = f[i + 1]
    BY <1>0, <1>1, <1>2
  <2>2. i + 1 \in 1 .. Len(link) /\ (i + 1) - 1 = i
    BY <1>1, <1>2
  <2>3. Follows(f[i], link[i + 1], f[i + 1])
    BY <2>2 DEF Trace
  <2> QED BY <1>1, <1>2, <2>1, <2>3
<1>5. g[Len(link')] = button' /\ g[0] = f[1]
  BY <1>0, <1>1, <1>2 DEF Trace
<1>6. Trace(g)'
  BY <1>3, <1>4, <1>5 DEF Trace
<1> QED BY <1>6

LEMMA TwoNext == Typed /\ Calm /\ TwoButtons /\ [InputNext]_inputVars => TwoButtons'
<1> SUFFICES ASSUME Typed, Calm, TwoButtons, [InputNext]_inputVars, may = {"right"}
             PROVE  TwoButtons'
  BY DEF TwoButtons, InputNext, inputVars
<1>1. ~paused /\ connected /\ focus /\ open /\ hosting
  BY DEF Calm
<1>2. mouse = button /\ hostButtons \subseteq {slot}
  BY DEF TwoButtons
<1>3. PICK f : Trace(f)
  BY DEF TwoButtons
<1>4. /\ link \in Seq(Messages) /\ button \in Button \cup {None}
      /\ hostButtons \subseteq Button /\ None \notin Button
  BY InputBounds DEF Typed, ControllerType, HostType
<1>5. ASSUME UNCHANGED <<link, button, hostButtons>> PROVE \E g : Trace(g)'
  BY <1>3, <1>5 DEF Trace
<1>6. ASSUME NEW m \in Messages, Send(m), m.act \notin {"press", "release"},
             UNCHANGED <<button, hostButtons>>
      PROVE  \E g : Trace(g)'
  <2>1. link' = Append(link, m) /\ Follows(button, m, button')
    BY <1>1, <1>6 DEF Send, CanSend, Follows
  <2> QED BY <1>3, <1>4, <1>6, <2>1, TraceSent
<1>7. ASSUME NEW k \in Key, KeyDown(k) \/ KeyUp(k) \/ RepeatTick(k) PROVE TwoButtons'
  <2>1. UNCHANGED <<mouse, button, hostButtons, slot>>
    BY <1>7, Zenon DEF KeyDown, KeyUp, RepeatTick, host
  <2>2. UNCHANGED link \/ Send(Message("keydown", k)) \/ Send(Message("keyup", k))
    BY <1>7 DEF KeyDown, KeyUp, RepeatTick
  <2>3. \A a \in {"keydown", "keyup"} : Message(a, k) \in Messages /\ Message(a, k).act = a
    BY DEF Message, Messages
  <2>4. \E g : Trace(g)'
    BY <1>5, <1>6, <2>1, <2>2, <2>3
  <2> QED BY <1>2, <2>1, <2>4 DEF TwoButtons
<1>8. ASSUME NEW b \in Button, PointerDown(b) PROVE TwoButtons'
  <2>1. /\ mouse = None /\ mouse' = b /\ button' = b /\ Send(Message("press", b))
        /\ UNCHANGED <<hostButtons, slot>>
    BY <1>1, <1>8 DEF PointerDown, Listening, CanSend, host
  <2>2. /\ Message("press", b) \in Messages
        /\ Message("press", b).act = "press" /\ Message("press", b).of = b
    BY DEF Message, Messages
  <2>3. link' = Append(link, Message("press", b)) /\ Follows(button, Message("press", b), b)
    BY <1>1, <1>2, <2>1, <2>2 DEF Send, CanSend, Follows
  <2>4. \E g : Trace(g)'
    BY <1>3, <2>1, <2>2, <2>3, TraceSent
  <2> QED BY <1>2, <2>1, <2>4 DEF TwoButtons
<1>9. CASE PointerUp
  <2>1. /\ mouse # None /\ mouse' = None /\ button' = None /\ Send(Message("release", button))
        /\ UNCHANGED <<hostButtons, slot>>
    BY <1>1, <1>2, <1>9 DEF PointerUp, Listening, CanSend, host
  <2>2. /\ Message("release", button) \in Messages
        /\ Message("release", button).act = "release" /\ Message("release", button).of = button
    BY <1>2, <1>4, <2>1 DEF Message, Messages
  <2>3. /\ link' = Append(link, Message("release", button))
        /\ Follows(button, Message("release", button), None)
    BY <1>1, <2>1, <2>2 DEF Send, CanSend, Follows
  <2>4. \E g : Trace(g)'
    BY <1>3, <2>1, <2>2, <2>3, TraceSent
  <2> QED BY <1>2, <2>1, <2>4 DEF TwoButtons
<1>10. CASE SyncModifiers
  <2>1. UNCHANGED <<mouse, button, hostButtons, slot>>
    BY <1>10 DEF SyncModifiers, host
  <2>2. \E on \in {{}, Generic} : Send(Message("sync", on))
    BY <1>10 DEF SyncModifiers
  <2>3. \A on \in {{}, Generic} :
          Message("sync", on) \in Messages /\ Message("sync", on).act = "sync"
    BY DEF Message, Messages
  <2>4. \E g : Trace(g)'
    BY <1>6, <2>1, <2>2, <2>3
  <2> QED BY <1>2, <2>1, <2>4 DEF TwoButtons
<1>11. CASE Deliver
  <2> DEFINE m == Head(link)
  <2>1. link # <<>> /\ link' = Tail(link) /\ UNCHANGED <<mouse, button>>
    BY <1>11 DEF Deliver
  <2>2. m \in Messages /\ m = link[1] /\ m.act # "end" /\ 1 \in 1 .. Len(link) /\ 1 - 1 = 0
    BY <1>4, <2>1 DEF Calm, Endless
  <2>3. Follows(f[0], m, f[1]) /\ hostButtons \subseteq {f[0]}
    BY <1>3, <2>2 DEF Trace
  <2> HIDE DEF m
  <2>4. CASE m.act \in {"press", "release"} /\ HostButton(m)
    <3>1. hostButtons' \subseteq {f[1]} /\ hostButtons' \subseteq {slot'}
      BY <1>4, <2>3, <2>4 DEF Follows, HostButton, Calm, Device
    <3> QED BY <1>2, <1>3, <2>1, <3>1, TraceDelivered DEF TwoButtons
  <2>5. CASE m.act \notin {"press", "release"} /\ HostKey(m)
    <3>1. UNCHANGED <<hostButtons, slot>> /\ f[1] = f[0]
      BY <2>3, <2>5 DEF Follows, HostKey
    <3> QED BY <1>2, <1>3, <2>1, <2>3, <3>1, TraceDelivered DEF TwoButtons
  <2> QED BY <1>1, <1>11, <2>2, <2>4, <2>5 DEF Deliver, m
<1>12. CASE MouseSafety
  <2>1. hostButtons' = {} /\ UNCHANGED <<mouse, button, link>>
    BY <1>2, <1>12 DEF MouseSafety
  <2>2. \E g : Trace(g)'
    BY <1>3, <2>1 DEF Trace
  <2> QED BY <1>2, <2>1, <2>2 DEF TwoButtons
<1>13. CASE RegainFocus \/ Reconnect \/ UNCHANGED inputVars
  <2>1. UNCHANGED <<mouse, button, link, hostButtons, slot>>
    BY <1>13, Zenon DEF RegainFocus, Reconnect, inputVars, host
  <2> QED BY <1>2, <1>5, <2>1 DEF TwoButtons
<1>14. ~(LoseFocus \/ TogglePause \/ Reboot \/ Close \/ Lose \/ SetPolicy)
  BY DEF LoseFocus, TogglePause, Reboot, Close, Lose, SetPolicy
<1> QED BY <1>7, <1>8, <1>9, <1>10, <1>11, <1>12, <1>13, <1>14 DEF InputNext, Step

\* A button down on the host is the one the timer armed by its press will release
\* (remote_support_page.dart:2498-2572), in every session that uses one button,
\* whatever interrupts it, and in one that uses two and nothing interrupts.
THEOREM ButtonsAreWatched == InputSpec => []ButtonWatched
<1>1. LeftOnly /\ TwoButtons => ButtonWatched
  BY DEF LeftOnly, TwoButtons, ButtonWatched
<1> QED BY <1>1, TypedInit, TypedNext, CalmInit, CalmNext, LeftInit, LeftNext, TwoInit, TwoNext,
    PTL DEF InputSpec

-----------------------------------------------------------------------------
(* Input: keys on the host                                                 *)

\* A message about key k is the last word on it, any other changes nothing.
LEMMA WordSent ==
  ASSUME Typed, NEW m \in Messages, link' = Append(link, m), UNCHANGED hostDown, NEW k
  PROVE  WillBeDown(k)' <=>
           IF m.act \in {"keydown", "keyup"} /\ m.of = k
           THEN m.act = "keydown" ELSE WillBeDown(k)
<1>1. link \in Seq(Messages) /\ Len(link) \in Nat
  BY DEF Typed
<1>2. /\ DOMAIN link = 1 .. Len(link) /\ DOMAIN link' = 1 .. Len(link) + 1
      /\ link'[Len(link) + 1] = m /\ \A i \in 1 .. Len(link) : link'[i] = link[i]
  BY <1>1
<1>3. CASE m.act \in {"keydown", "keyup"} /\ m.of = k
  <2>1. Len(link) + 1 \in Told(k)' /\ \A j \in Told(k)' : j <= Len(link) + 1
    BY <1>1, <1>2, <1>3 DEF Told
  <2>2. \A i \in Told(k)' : Len(link) + 1 <= i => i = Len(link) + 1
    BY <1>1, <1>2 DEF Told
  <2> QED BY <1>2, <1>3, <2>1, <2>2 DEF WillBeDown
<1>4. CASE ~(m.act \in {"keydown", "keyup"} /\ m.of = k)
  <2>1. Told(k)' = Told(k)
    BY <1>1, <1>2, <1>4 DEF Told
  <2>2. \A i \in Told(k) : link'[i] = link[i]
    BY <1>2 DEF Told
  <2> QED BY <1>4, <2>1, <2>2 DEF WillBeDown
<1> QED BY <1>3, <1>4

\* The first message arrives and does what was expected of it.
LEMMA WordDelivered ==
  ASSUME Typed, link # <<>>, link' = Tail(link), NEW k,
         k \in hostDown' <=> IF Head(link).act \in {"keydown", "keyup"} /\ Head(link).of = k
                            THEN Head(link).act = "keydown" ELSE k \in hostDown
  PROVE  WillBeDown(k)' <=> WillBeDown(k)
<1>1. link \in Seq(Messages) /\ Len(link) \in Nat \ {0} /\ Head(link) = link[1]
  BY DEF Typed
<1>2. /\ DOMAIN link = 1 .. Len(link) /\ DOMAIN link' = 1 .. Len(link) - 1
      /\ \A i \in 1 .. Len(link) - 1 : link'[i] = link[i + 1]
  BY <1>1
<1>3. \A i \in Nat : i \in Told(k)' <=> i # 0 /\ i + 1 \in Told(k)
  BY <1>1, <1>2 DEF Told
<1>4. Told(k) \subseteq Nat \ {0} /\ Told(k)' \subseteq Nat \ {0}
  BY <1>1, <1>2 DEF Told
<1>5. 1 \in Told(k) <=> Head(link).act \in {"keydown", "keyup"} /\ Head(link).of = k
  BY <1>1, <1>2 DEF Told
<1>6. CASE Told(k)' = {}
  <2>1. Told(k) \subseteq {1}
    <3> SUFFICES ASSUME NEW i \in Told(k), i # 1 PROVE FALSE
      OBVIOUS
    <3>1. i - 1 \in Nat /\ i - 1 # 0 /\ (i - 1) + 1 = i
      BY <1>4
    <3> QED BY <1>3, <1>6, <3>1
  <2> QED BY <1>1, <1>5, <1>6, <2>1 DEF WillBeDown
<1>7. CASE Told(k)' # {}
  <2>1. ASSUME WillBeDown(k)' PROVE WillBeDown(k)
    <3>1. PICK i \in Told(k)' : link'[i].act = "keydown" /\ \A j \in Told(k)' : j <= i
      BY <1>7, <2>1 DEF WillBeDown
    <3>2. i + 1 \in Told(k) /\ link[i + 1].act = "keydown"
      BY <1>2, <1>3, <1>4, <3>1 DEF Told
    <3>3. ASSUME NEW j \in Told(k) PROVE j <= i + 1
      <4>1. CASE j = 1
        BY <1>4, <4>1
      <4>2. CASE j # 1
        <5>1. j - 1 \in Nat /\ j - 1 # 0 /\ (j - 1) + 1 = j
          BY <1>4, <4>2
        <5>2. j - 1 \in Told(k)'
          BY <1>3, <5>1
        <5> QED BY <1>4, <3>1, <5>2
      <4> QED BY <4>1, <4>2
    <3> QED BY <3>2, <3>3 DEF WillBeDown
  <2>2. ASSUME WillBeDown(k) PROVE WillBeDown(k)'
    <3>1. PICK j \in Told(k)' : TRUE
      BY <1>7
    <3>2. j + 1 \in Told(k)
      BY <1>3, <1>4
    <3>3. PICK i \in Told(k) : link[i].act = "keydown" /\ \A h \in Told(k) : h <= i
      BY <2>2, <3>2 DEF WillBeDown
    <3>4. j + 1 <= i
      BY <3>2, <3>3
    <3>5. i - 1 \in Nat /\ i - 1 # 0 /\ (i - 1) + 1 = i
      BY <1>4, <3>4
    <3>6. i - 1 \in Told(k)' /\ link'[i - 1].act = "keydown"
      <4>1. i - 1 \in Told(k)'
        BY <1>3, <3>5
      <4>2. i - 1 \in 1 .. Len(link) - 1
        BY <1>2, <4>1 DEF Told
      <4> QED BY <1>2, <3>3, <3>5, <4>1, <4>2
    <3>7. ASSUME NEW h \in Told(k)' PROVE h <= i - 1
      <4>1. h + 1 \in Told(k)
        BY <1>3, <1>4
      <4> QED BY <1>4, <3>3, <4>1
    <3> QED BY <3>6, <3>7 DEF WillBeDown
  <2> QED BY <2>1, <2>2
<1> QED BY <1>6, <1>7

\* What the host does with the first message to a special key other than Caps Lock
LEMMA KeyDelivered ==
  ASSUME Typed, Calm, may \subseteq {"pause", "right"}, Deliver, NEW k \in Special \ {CapsLock}
  PROVE  k \in hostDown' <=> IF Head(link).act \in {"keydown", "keyup"} /\ Head(link).of = k
                            THEN Head(link).act = "keydown" ELSE k \in hostDown
<1> DEFINE m == Head(link)
<1>1. link # <<>> /\ m \in Endless /\ m \in Messages /\ hosting /\ "keyboard" \in allowed
  BY DEF Calm, Deliver, Endless, Device
<1>2. Generic \cap Special = {}
  BY RemoteInputAssumption DEF RemoteInputAssumption
<1>3. k \in Clicked <=> k \in hostDown
  BY DEF Clicked
<1>4. \/ m.act \in {"keydown", "keyup"} /\ hostDown' = Injected(Clicked, m.of, m.act)
      \/ m.act \in {"sync", "reset"} /\ hostDown' = Housekeeping(Clicked, m.of)
      \/ m.act \in {"press", "release"} /\ hostDown' = hostDown
  BY <1>1, Zenon DEF Deliver, HostKey, HostButton, Endless
<1> HIDE DEF m
<1>5. CASE m.act \in {"keydown", "keyup"} /\ hostDown' = Injected(Clicked, m.of, m.act)
  BY <1>3, <1>5 DEF Injected, m
<1>6. CASE m.act \in {"sync", "reset"} /\ hostDown' = Housekeeping(Clicked, m.of)
  <2>1. m.of \subseteq Generic
    BY <1>1, <1>6 DEF Messages
  <2> QED BY <1>2, <1>3, <1>6, <2>1 DEF Housekeeping, m
<1>7. CASE m.act \in {"press", "release"} /\ hostDown' = hostDown
  BY <1>7 DEF m
<1> QED BY <1>4, <1>5, <1>6, <1>7

LEMMA InStepInit == InputInit => InStep
<1> SUFFICES ASSUME InputInit, NEW k PROVE WillBeDown(k) <=> k \in pressed
  BY DEF InStep
<1>1. DOMAIN link = {} /\ hostDown = {} /\ pressed = {}
  BY DEF InputInit
<1> QED BY <1>1 DEF WillBeDown, Told

LEMMA InStepNext == Typed /\ Calm /\ InStep /\ [InputNext]_inputVars => InStep'
<1> SUFFICES ASSUME Typed, Calm, InStep, [InputNext]_inputVars,
                    may \subseteq {"pause", "right"}, NEW k \in Special \ {CapsLock}
             PROVE  WillBeDown(k)' <=> k \in pressed'
  BY DEF InStep, InputNext, inputVars
<1>1. connected /\ focus /\ open /\ hosting
  BY DEF Calm
<1>2. WillBeDown(k) <=> k \in pressed
  BY DEF InStep
<1>3. ASSUME UNCHANGED <<link, hostDown>> PROVE WillBeDown(k)' <=> WillBeDown(k)
  BY <1>3 DEF WillBeDown, Told
<1>4. ASSUME NEW m \in Messages, Send(m), UNCHANGED hostDown
      PROVE  WillBeDown(k)' <=> IF m.act \in {"keydown", "keyup"} /\ m.of = k
                               THEN m.act = "keydown" ELSE WillBeDown(k)
  <2>1. link' = Append(link, m)
    BY <1>1, <1>4 DEF Send, CanSend
  <2> QED BY <1>4, <2>1, WordSent
<1>5. ASSUME NEW c \in Key, KeyDown(c) \/ KeyUp(c) \/ RepeatTick(c)
      PROVE  WillBeDown(k)' <=> k \in pressed'
  <2>1. UNCHANGED hostDown
    BY <1>5, Zenon DEF KeyDown, KeyUp, RepeatTick, host
  <2>2. \A a \in {"keydown", "keyup"} :
          /\ Message(a, c) \in Messages /\ Message(a, c).act = a /\ Message(a, c).of = c
    BY DEF Message, Messages
  <2>3. \/ Send(Message("keydown", c)) /\ pressed' = pressed \cup {c}
        \/ Send(Message("keyup", c)) /\ pressed' = pressed \ {c}
        \/ UNCHANGED <<link, pressed>>
    BY <1>5 DEF KeyDown, KeyUp, RepeatTick
  <2> QED BY <1>2, <1>3, <1>4, <2>1, <2>2, <2>3
<1>6. ASSUME NEW b \in Button, PointerDown(b) PROVE WillBeDown(k)' <=> k \in pressed'
  <2>1. UNCHANGED <<hostDown, pressed>>
    BY <1>6, Zenon DEF PointerDown, host
  <2>2. Message("press", b) \in Messages /\ Message("press", b).act = "press"
    BY DEF Message, Messages
  <2> QED BY <1>2, <1>3, <1>4, <1>6, <2>1, <2>2 DEF PointerDown
<1>7. CASE PointerUp
  <2>1. UNCHANGED <<hostDown, pressed>>
    BY <1>7, Zenon DEF PointerUp, host
  <2>2. button # None =>
          Message("release", button) \in Messages /\ Message("release", button).act = "release"
    BY DEF Message, Messages, Typed, ControllerType
  <2>3. UNCHANGED link \/ (button # None /\ Send(Message("release", button)))
    BY <1>7 DEF PointerUp
  <2> QED BY <1>2, <1>3, <1>4, <2>1, <2>2, <2>3
<1>8. CASE SyncModifiers
  <2>1. UNCHANGED <<hostDown, pressed>>
    BY <1>8, Zenon DEF SyncModifiers, host
  <2>2. \E on \in {{}, Generic} : Send(Message("sync", on))
    BY <1>8 DEF SyncModifiers
  <2>3. \A on \in {{}, Generic} :
          Message("sync", on) \in Messages /\ Message("sync", on).act = "sync"
    BY DEF Message, Messages
  <2> QED BY <1>2, <1>4, <2>1, <2>2, <2>3
<1>9. CASE Deliver
  <2>1. link # <<>> /\ link' = Tail(link) /\ pressed' = pressed
    BY <1>9 DEF Deliver
  <2> QED BY <1>2, <1>9, <2>1, KeyDelivered, WordDelivered
<1>10. CASE RegainFocus \/ TogglePause \/ Reconnect \/ SetPolicy \/ MouseSafety
            \/ UNCHANGED inputVars
  <2>1. UNCHANGED <<link, hostDown, pressed>>
    BY <1>10, Zenon DEF RegainFocus, TogglePause, Reconnect, SetPolicy, MouseSafety, inputVars,
       host
  <2> QED BY <1>2, <1>3, <2>1
<1>11. ~(LoseFocus \/ Reboot \/ Close \/ Lose)
  BY DEF LoseFocus, Reboot, Close, Lose
<1> QED BY <1>5, <1>6, <1>7, <1>8, <1>9, <1>10, <1>11 DEF InputNext, Step

\* What the host will have down is what the controller's page believes pressed
\* (remote_support_page.dart:4050-4080, keyboard_host_injection_engine.dart:89-173),
\* however many messages are on their way and however often the session pauses.
THEOREM KeysInStep == InputSpec => []InStep
BY TypedInit, TypedNext, CalmInit, CalmNext, InStepInit, InStepNext, PTL DEF InputSpec
=============================================================================
