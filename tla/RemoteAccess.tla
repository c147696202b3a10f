---------------------------- MODULE RemoteAccess ----------------------------
(***************************************************************************)
(* Invites to remote sessions and the sessions themselves, as the HTTP     *)
(* handlers keep them in the database (server/internal/handlers/           *)
(* remote_handler.go and remote_sessions_handler.go, internal/repository/  *)
(* remote.go and remote_sessions.go), the plan limit in front of one of    *)
(* the handlers (internal/middleware/plan.go) and the cleanup worker.      *)
(*                                                                         *)
(* Handlers run concurrently and use no transactions: each statement is an *)
(* action, and a handler in progress is a slot of req that holds what it   *)
(* read.  A restart of the server empties the slots.  What a session       *)
(* permits, its quality and its byte counts are left out.                  *)
(***************************************************************************)
EXTENDS Naturals, FiniteSets

CONSTANTS User, Invite,
          Token,      \* session tokens the server draws
          Blank,      \* the token of a client that sends none
          NoInvite,
          Request,    \* slots of concurrent requests
          Trusted,    \* pairs that are friends, share a community or a password
          Lifetime,   \* of an invite: two minutes
          MaxTime,    \* bound of the clock
          Limit       \* max_concurrent_sessions of the plan

ASSUME RemoteAccessAssumption ==
  /\ Trusted \subseteq User \X User
  /\ Blank \notin Token /\ NoInvite \notin Invite
  /\ Lifetime \in Nat \ {0} /\ MaxTime \in Nat /\ Limit \in Nat

VARIABLES
  now,
  inv,   \* remote_session_invites
  sess,  \* remote_sessions, by their unique session_token
  drawn, \* tokens drawn so far
  req,   \* what each request in progress does next
  told,  \* invite -> tokens announced to its requester
  lost   \* history: tokens whose INSERT failed, which the handler ignores

vars == <<now, inv, sess, drawn, req, told, lost>>

Idle == [step |-> "idle"]

Absent == [status |-> "none"]

Init ==
  /\ now = 0
  /\ inv = [i \in Invite |-> Absent]
  /\ sess = [k \in Token \cup {Blank} |-> Absent]
  /\ drawn = {}
  /\ req = [r \in Request |-> Idle]
  /\ told = [i \in Invite |-> {}] /\ lost = {}

Begin(r, task) == req[r] = Idle /\ req' = [req EXCEPT ![r] = task]
Done(r) == req' = [req EXCEPT ![r] = Idle]
At(r, step) == req[r].step = step

-----------------------------------------------------------------------------
(* Invites                                                                 *)

\* fault: the lifetime is taken in another unit
WrongUnit == now + Lifetime + MaxTime

ExpiresAt == now + Lifetime

CreateRemoteInvite(i, u, v) ==
  /\ inv[i] = Absent /\ now + Lifetime < MaxTime
  /\ u # v /\ <<u, v>> \in Trusted
  /\ inv' = [inv EXCEPT ![i] = [status |-> "pending", by |-> u, to |-> v,
                                expires |-> ExpiresAt, token |-> Blank]]
  /\ UNCHANGED <<now, sess, drawn, req, told, lost>>

\* A token not drawn before; which one makes no difference
Fresh == CHOOSE k \in Token \ drawn : TRUE

\* ResolveRemoteInvite, first part: the invite is read, its owner is the
\* caller and the time is compared.  The status it read is not.
ResolveRemoteInvite(r, i, action) ==
  /\ inv[i] # Absent
  /\ IF now > inv[i].expires
       THEN Begin(r, [step |-> "expire", i |-> i]) /\ UNCHANGED drawn
       ELSE IF action = "reject"
         THEN Begin(r, [step |-> "reject", i |-> i]) /\ UNCHANGED drawn
         ELSE /\ Token \ drawn # {}
              /\ drawn' = drawn \cup {Fresh}
              /\ Begin(r, [step |-> "accept", i |-> i, k |-> Fresh])
  /\ UNCHANGED <<now, inv, sess, told, lost>>

\* UpdateRemoteInviteStatus without a token keeps the token there is
Expire(r) ==
  /\ At(r, "expire") /\ Done(r)
  /\ inv' = [inv EXCEPT ![req[r].i].status = "expired"]
  /\ UNCHANGED <<now, sess, drawn, told, lost>>

Reject(r) ==
  /\ At(r, "reject") /\ Done(r)
  /\ inv' = [inv EXCEPT ![req[r].i].status = "rejected"]
  /\ UNCHANGED <<now, sess, drawn, told, lost>>

\* fault: the requester is told before the session exists
TellFirst == "announce"

\* After the update comes the session, then the announcement
AfterAccept == "create"

Accept(r) ==
  /\ At(r, "accept")
  /\ req' = [req EXCEPT ![r].step = AfterAccept]
  /\ inv' = [inv EXCEPT ![req[r].i].status = "accepted", ![req[r].i].token = req[r].k]
  /\ UNCHANGED <<now, sess, drawn, told, lost>>

\* A row of remote_sessions
Session(i, u, v) == [status |-> "active", invite |-> i, controller |-> u, host |-> v]

\* CreateRemoteSession of the repository, its error ignored by the caller
CreateAccepted(r) ==
  /\ At(r, "create")
  /\ req' = [req EXCEPT ![r].step = "announce"]
  /\ LET i == req[r].i
     IN  \/ /\ sess' = [sess EXCEPT ![req[r].k] = Session(i, inv[i].by, inv[i].to)]
            /\ UNCHANGED lost
         \/ lost' = lost \cup {req[r].k} /\ UNCHANGED sess
  /\ UNCHANGED <<now, inv, drawn, told>>

Announce(r) ==
  /\ At(r, "announce") /\ Done(r)
  /\ told' = [told EXCEPT ![req[r].i] = @ \cup {req[r].k}]
  /\ UNCHANGED <<now, inv, sess, drawn, lost>>

\* fault: the comparison is the other way round
NotYetDue(i) == inv[i].expires > now

Due(i) == inv[i].expires < now

\* CleanupExpiredRemoteSessionInvites, from the daily cleanup
CleanupInvites ==
  /\ \E i \in Invite : inv[i].status = "pending" /\ Due(i)
  /\ inv' = [i \in Invite |-> IF inv[i].status = "pending" /\ Due(i)
                              THEN [inv[i] EXCEPT !.status = "expired"] ELSE inv[i]]
  /\ UNCHANGED <<now, sess, drawn, req, told, lost>>

-----------------------------------------------------------------------------
(* Sessions                                                                *)

ActiveOf(u) == {k \in DOMAIN sess : sess[k].status = "active" /\ sess[k].controller = u}

\* RequireMaxConcurrentSessions: the count is compared before the handler runs
WithinPlan(u) == Cardinality(ActiveOf(u)) < Limit

\* POST /remote/sessions: the plan is checked, the invite that is named is not.
\* A client names an invite it made, and a token with the invite it came with.
PostRemoteSession(r, u, v, i, k) ==
  /\ WithinPlan(u)
  /\ i # NoInvite => inv[i] # Absent /\ inv[i].by = u
  /\ k # Blank => i # NoInvite /\ k \in told[i]
  /\ Begin(r, [step |-> "insert", k |-> k, row |-> Session(i, u, v)])
  /\ UNCHANGED <<now, inv, sess, drawn, told, lost>>

\* session_token is unique: a second row is refused
InsertSession(r) ==
  /\ At(r, "insert") /\ Done(r)
  /\ IF sess[req[r].k] = Absent
       THEN sess' = [sess EXCEPT ![req[r].k] = req[r].row]
       ELSE UNCHANGED sess
  /\ UNCHANGED <<now, inv, drawn, told, lost>>

Party(u, k) == sess[k].status # "none" /\ u \in {sess[k].controller, sess[k].host}

\* The other handlers read the session and compare its parties first
PatchRemoteSession(r, u, k, step) ==
  /\ Party(u, k)
  /\ Begin(r, [step |-> step, k |-> k])
  /\ UNCHANGED <<now, inv, sess, drawn, told, lost>>

\* EndRemoteSession; a reason outside the CHECK fails and leaves the session
EndSession(r) ==
  /\ At(r, "end") /\ Done(r)
  /\ \/ sess' = [sess EXCEPT ![req[r].k].status = "ended"]
     \/ UNCHANGED sess
  /\ UNCHANGED <<now, inv, drawn, told, lost>>

\* fault: ended_at is set to what was sent, NULL included
Overwritten(old, new) == new

\* COALESCE(new, old): statistics that bring no ended_at keep the one there is
Coalesced(old, new) == IF new = "active" THEN old ELSE new

\* UpdateRemoteSessionStats: may bring an ended_at
UpdateStats(r, sent) ==
  /\ At(r, "stats") /\ Done(r)
  /\ sess' = [sess EXCEPT ![req[r].k].status = Coalesced(@, sent)]
  /\ UNCHANGED <<now, inv, drawn, told, lost>>

-----------------------------------------------------------------------------
Tick == now < MaxTime /\ now' = now + 1 /\ UNCHANGED <<inv, sess, drawn, req, told, lost>>

Restart ==
  /\ \E r \in Request : req[r] # Idle
  /\ req' = [r \in Request |-> Idle]
  /\ UNCHANGED <<now, inv, sess, drawn, told, lost>>

Continue(r) ==
  \/ Expire(r) \/ Reject(r) \/ Accept(r) \/ CreateAccepted(r) \/ Announce(r)
  \/ InsertSession(r) \/ EndSession(r)
  \/ \E sent \in {"active", "ended"} : UpdateStats(r, sent)

Arrive(r) ==
  \/ \E i \in Invite, action \in {"accept", "reject"} : ResolveRemoteInvite(r, i, action)
  \/ \E u, v \in User, i \in Invite \cup {NoInvite}, k \in Token \cup {Blank} :
       u # v /\ PostRemoteSession(r, u, v, i, k)   \* a client asks for another user
  \/ \E u \in User, k \in Token \cup {Blank}, step \in {"end", "stats"} :
       PatchRemoteSession(r, u, k, step)

Next ==
  \/ \E i \in Invite, u, v \in User : CreateRemoteInvite(i, u, v)
  \/ \E r \in Request : Arrive(r) \/ Continue(r)
  \/ CleanupInvites \/ Tick \/ Restart

\* Time passes and the cleanup worker runs every day.
Spec == Init /\ [][Next]_vars /\ WF_vars(Tick) /\ WF_vars(CleanupInvites)

-----------------------------------------------------------------------------
(* Properties                                                              *)

Row == [status : {"active", "ended"}, invite : Invite \cup {NoInvite},
        controller : User, host : User]

\* Requests in progress: answers to an invite, acceptances, and the handlers of
\* sessions
Answer == [step : {"expire", "reject"}, i : Invite]
Acceptance == [step : {"accept", "create", "announce"}, i : Invite, k : drawn]
Insertion == [step : {"insert"}, k : Token \cup {Blank}, row : Row]
Patch == [step : {"end", "stats"}, k : Token \cup {Blank}]

\* Types of the tables and of the requests in progress.
TypeOK ==
  /\ now \in 0 .. MaxTime /\ drawn \subseteq Token
  /\ inv \in [Invite -> {Absent} \cup
               [status : {"pending", "accepted", "rejected", "expired"}, by : User, to : User,
                expires : 0 .. MaxTime, token : drawn \cup {Blank}]]
  /\ sess \in [Token \cup {Blank} -> {Absent} \cup Row]
  /\ DOMAIN req = Request
  /\ \A r \in Request : req[r] \in {Idle} \cup Answer \cup Acceptance \cup Insertion \cup Patch
  /\ told \in [Invite -> SUBSET drawn] /\ lost \subseteq drawn

\* A token announced to a requester is the token of a session of that invite,
\* between its requester and its target, however many accepts, rejections and
\* POSTs run at once: no session is announced before it is there, and no token
\* under another invite.  It is not unique: two accepts at once, which nothing
\* in remote_handler.go:157 stops, announce two sessions with a token each.
\* (The handler also announces a token whose INSERT failed.)
AnnouncedIsSession ==
  \A i \in Invite : \A k \in told[i] \ lost :
    /\ sess[k] # Absent /\ sess[k].invite = i
    /\ sess[k].controller = inv[i].by /\ sess[k].host = inv[i].to

\* An ended session never becomes active again, however late the statistics of
\* its other party arrive.
EndedForGood ==
  [][\A k \in DOMAIN sess : sess[k].status = "ended" => sess'[k].status = "ended"]_vars

\* A pending invite does not stay pending: it is answered, or the cleanup
\* expires it.
InvitesSettle ==
  \A i \in Invite : (inv[i].status = "pending") ~> (inv[i].status # "pending")
=============================================================================
