------------------------------ MODULE Presence ------------------------------
(***************************************************************************)
(* Who is shown as online (server/router.go, setPresenceAndBroadcast, and  *)
(* server/internal/ws/hub.go).  Each connection of a signed-in user starts *)
(* a goroutine when it opens and another when it is gone; each goroutine   *)
(* stores is_online, reads the user's friends and writes an event to every *)
(* connection the hub has of them.  Nothing orders these goroutines, and   *)
(* nothing keeps a user from having several connections.                   *)
(*                                                                         *)
(* The hub writes to the connection itself, which a connection's own       *)
(* writeLoop and every other publisher also do.  The websocket library     *)
(* allows one writer at a time and panics when it notices two; nothing     *)
(* recovers a panic of these goroutines, so the server stops.              *)
(***************************************************************************)
EXTENDS Naturals, FiniteSets

CONSTANTS User, Conn,
          Owner,       \* Conn -> User
          Friends,     \* pairs of users with an accepted friendship
          MaxIncidents    \* bound: sign-ins, failures of the database and restarts

ASSUME PresenceAssumption ==
  /\ Owner \in [Conn -> User]
  /\ Friends \subseteq User \X User
  /\ \A u, v \in User : <<u, v>> \in Friends => <<v, u>> \in Friends
  /\ MaxIncidents \in Nat

\* The goroutine a connection starts when it opens, and when it is gone
Job == Conn \X {"up", "down"}

VARIABLES
  conn,    \* new, open or gone
  hub,     \* the connections the hub has
  online,  \* is_online in the database
  at,      \* Job -> what the goroutine does next
  users,   \* Job -> users it has still to notify
  copied,  \* Job -> connections of the user it is notifying
  heard,   \* Conn -> User -> the last event of that user an open connection was sent
  incidents,
  claimed, \* history: users stored as online by a sign-in, or when the server
           \* stopped, and by nothing since
  overlap, \* history: users who connected with another connection open, or with a
           \* goroutine of an earlier one still running
  hasty,   \* history: users with a connection that was lost before its first
           \* goroutine had ended
  failed   \* history: users of whom a goroutine gave up, the database failing

Nothing == [u \in User |-> "nothing"]

history == <<claimed, overlap, hasty, failed>>
vars == <<conn, hub, online, at, users, copied, heard, incidents, history>>

Init ==
  /\ conn = [c \in Conn |-> "new"] /\ hub = {}
  /\ online = [u \in User |-> FALSE]
  /\ at = [j \in Job |-> "off"]
  /\ users = [j \in Job |-> {}] /\ copied = [j \in Job |-> {}]
  /\ heard = [c \in Conn |-> Nothing]
  /\ incidents = 0
  /\ claimed = {} /\ overlap = {} /\ hasty = {} /\ failed = {}

Of(u) == {c \in Conn : Owner[c] = u}
By(j) == Owner[j[1]]
Running(j) == at[j] \notin {"off", "done"}

\* A connection that is open, or whose goroutines are not over
Alive(c) == conn[c] = "open" \/ Running(<<c, "up">>) \/ Running(<<c, "down">>)

\* HandleWS: Hub.Register and the goroutine for "online"
Connect(c) ==
  /\ conn[c] = "new"
  /\ conn' = [conn EXCEPT ![c] = "open"]
  /\ hub' = hub \cup {c}
  /\ at' = [at EXCEPT ![<<c, "up">>] = "store"]
  /\ overlap' = overlap \cup {u \in {Owner[c]} : \E d \in Of(u) : Alive(d)}
  /\ UNCHANGED <<online, users, copied, heard, incidents, claimed, hasty, failed>>

\* The deferred function of readLoop: Hub.Unregister and the goroutine for
\* "offline", whatever other connections the user has
Disconnect(c) ==
  /\ conn[c] = "open"
  /\ conn' = [conn EXCEPT ![c] = "gone"]
  /\ hub' = hub \ {c}
  /\ at' = [at EXCEPT ![<<c, "down">>] = "store"]
  /\ hasty' = hasty \cup {u \in {Owner[c]} : Running(<<c, "up">>)}
  /\ heard' = [heard EXCEPT ![c] = Nothing]
  /\ UNCHANGED <<online, users, copied, incidents, claimed, overlap, failed>>

\* fault: the goroutine of a lost connection stores what the other one does
AlwaysUp(j) == TRUE

IsUp(j) == j[2] = "up"

\* SetOnlineStatus
Store(j) ==
  /\ at[j] = "store"
  /\ at' = [at EXCEPT ![j] = "list"]
  /\ online' = [online EXCEPT ![By(j)] = IsUp(j)]
  /\ claimed' = claimed \ {By(j)}
  /\ UNCHANGED <<conn, hub, users, copied, heard, incidents, overlap, hasty, failed>>

\* The user and its friends
Audience(u) == {u} \cup {v \in User : <<u, v>> \in Friends}

\* ListAcceptedFriendIDs
List(j) ==
  /\ at[j] = "list"
  /\ at' = [at EXCEPT ![j] = "publish"]
  /\ users' = [users EXCEPT ![j] = Audience(By(j))]
  /\ UNCHANGED <<conn, hub, online, copied, heard, incidents, history>>

\* Either statement fails: the goroutine returns, with nothing stored, or with
\* nobody told of what it stored
GiveUp(j) ==
  /\ at[j] \in {"store", "list"} /\ incidents < MaxIncidents
  /\ incidents' = incidents + 1
  /\ at' = [at EXCEPT ![j] = "done"]
  /\ failed' = failed \cup {By(j)}
  /\ UNCHANGED <<conn, hub, online, users, copied, heard, claimed, overlap, hasty>>

\* respondAuthTokens: a sign-in stores is_online before there is a connection
SignIn(u) ==
  /\ incidents < MaxIncidents
  /\ incidents' = incidents + 1
  /\ online' = [online EXCEPT ![u] = TRUE]
  /\ claimed' = claimed \cup {u}
  /\ UNCHANGED <<conn, hub, at, users, copied, heard, overlap, hasty, failed>>

Remaining(s, u) == s \ {u}

\* fault: the type of the event stays what it is initialised to
Unswitched(j) == "down"

\* What the goroutine tells: "user:online" or "user:offline"
Event(j) == j[2]

\* The goroutine ends after its last write.
Ending(j) == at' = IF users'[j] = {} /\ copied'[j] = {} THEN [at EXCEPT ![j] = "done"] ELSE at

\* PublishToMany and PublishToUser, the user first: the connections are copied
\* under the lock ...
Copy(j) ==
  /\ at[j] = "publish" /\ copied[j] = {}
  /\ \E u \in users[j] :
       /\ By(j) \in users[j] => u = By(j)
       /\ users' = [users EXCEPT ![j] = Remaining(@, u)]
       /\ copied' = [copied EXCEPT ![j] = hub \cap Of(u)]
  /\ Ending(j)
  /\ UNCHANGED <<conn, hub, online, heard, incidents, history>>

\* ... and written to one by one without it
Write(j, c) ==
  /\ at[j] = "publish" /\ c \in copied[j]
  /\ copied' = [copied EXCEPT ![j] = @ \ {c}]
  /\ heard' = IF conn[c] = "open" THEN [heard EXCEPT ![c][By(j)] = Event(j)] ELSE heard
  /\ UNCHANGED users /\ Ending(j)
  /\ UNCHANGED <<conn, hub, online, incidents, history>>

\* The library notices two writers in one connection, or the server is stopped:
\* the connections are lost, the database stays as it is
Panic ==
  /\ incidents < MaxIncidents
  /\ incidents' = incidents + 1
  /\ conn' = [c \in Conn |-> IF conn[c] = "open" THEN "gone" ELSE conn[c]]
  /\ hub' = {}
  /\ at' = [j \in Job |-> IF Running(j) THEN "done" ELSE at[j]]
  /\ users' = [j \in Job |-> {}] /\ copied' = [j \in Job |-> {}]
  /\ claimed' = claimed \cup {u \in User : online[u]}
  /\ heard' = [c \in Conn |-> Nothing]
  /\ UNCHANGED <<online, overlap, hasty, failed>>

Step(j) ==
  \/ Store(j) \/ List(j) \/ GiveUp(j) \/ Copy(j)
  \/ \E c \in Conn : Write(j, c)

Next ==
  \/ \E c \in Conn : Connect(c) \/ Disconnect(c)
  \/ \E j \in Job : Step(j)
  \/ \E u \in User : SignIn(u)
  \/ Panic

Spec == Init /\ [][Next]_vars

-----------------------------------------------------------------------------
(* Properties                                                              *)

Kind == {"up", "down", "nothing"}

\* Types of the tables, the hub and the goroutines.
TypeOK ==
  /\ conn \in [Conn -> {"new", "open", "gone"}] /\ hub \subseteq Conn
  /\ online \in [User -> BOOLEAN]
  /\ at \in [Job -> {"off", "store", "list", "publish", "done"}]
  /\ users \in [Job -> SUBSET User] /\ copied \in [Job -> SUBSET Conn]
  /\ heard \in [Conn -> [User -> Kind]]
  /\ incidents \in 0 .. MaxIncidents
  /\ {claimed, overlap, hasty, failed} \subseteq SUBSET User

Quiet == \A j \in Job : ~Running(j)

Connected(u) == \E c \in Of(u) : conn[c] = "open"

\* Once the goroutines have ended, and if the database has not failed them, a user
\* with a connection is stored as online, unless two of its connections overlapped;
\* one without is not, several connections or one, unless one was lost before its
\* first goroutine had ended, a sign-in came last, or the server stopped, which
\* leaves is_online as it was.
OnlineIsConnected ==
  Quiet => \A u \in User \ failed :
             /\ Connected(u) => online[u] \/ u \in overlap
             /\ online[u] => Connected(u) \/ u \in claimed \cup hasty

\* What a connection last heard of a user whose goroutines did not overlap or fail
\* is true once they have ended: no event says more than its goroutine knows, and
\* none arrives after a later one.
HeardIsTrue ==
  Quiet => \A c \in hub, u \in User \ (overlap \cup hasty \cup failed) :
             heard[c][u] # "nothing" => (heard[c][u] = "up" <=> Connected(u))

\* TESTS_EVALUATION.md:32, "Pastille mise à jour en temps réel": a user with a
\* connection is stored as online once the goroutines have ended, if the database has
\* answered them.
ConnectedIsOnline ==
  Quiet /\ failed = {} => \A u \in User : Connected(u) => online[u]
=============================================================================
