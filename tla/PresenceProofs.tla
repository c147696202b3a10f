--------------------------- MODULE PresenceProofs ---------------------------
(***************************************************************************)
(* Presence, for any users, friendships and connections, with any          *)
(* overlapping of goroutines, failures of the database and restarts.       *)
(***************************************************************************)
EXTENDS Presence, TLAPS

-----------------------------------------------------------------------------
(* The goroutines of a connection                                          *)

Up(c) == <<c, "up">>
Down(c) == <<c, "down">>

LEMMA Goroutines ==
  /\ \A c \in Conn : Up(c) \in Job /\ Down(c) \in Job
  /\ \A c, d \in Conn : /\ Up(c) # Down(d)
                        /\ Up(c) = Up(d) => c = d
                        /\ Down(c) = Down(d) => c = d
  /\ \A c \in Conn : Up(c)[1] = c /\ Up(c)[2] = "up" /\ Down(c)[1] = c /\ Down(c)[2] = "down"
  /\ \A j \in Job : j[1] \in Conn /\ (j = Up(j[1]) \/ j = Down(j[1]))
BY DEF Job, Up, Down

LEMMA Owners == \A c \in Conn : Owner[c] \in User
BY PresenceAssumption DEF PresenceAssumption

LEMMA OwnersOfJobs == \A j \in Job : By(j) \in User
BY Goroutines, Owners DEF By

-----------------------------------------------------------------------------
(* Types                                                                   *)

LEMMA TypeInit == Init => TypeOK
<1> SUFFICES ASSUME Init PROVE TypeOK
  OBVIOUS
<1>1. MaxIncidents \in Nat
  BY PresenceAssumption DEF PresenceAssumption
<1>2. incidents \in 0 .. MaxIncidents
  BY <1>1 DEF Init
<1> QED BY <1>2 DEF Init, TypeOK, Kind, Nothing

LEMMA TypeNext == TypeOK /\ [Next]_vars => TypeOK'
<1> SUFFICES ASSUME TypeOK, [Next]_vars PROVE TypeOK'
  OBVIOUS
<1> USE DEF TypeOK, history
<1>n. /\ incidents \in 0 .. MaxIncidents
      /\ incidents < MaxIncidents => incidents + 1 \in 0 .. MaxIncidents
  BY PresenceAssumption DEF PresenceAssumption
<1>e. Nothing \in [User -> Kind]
  BY DEF Nothing, Kind
<1>1. CASE UNCHANGED vars
  BY <1>1 DEF vars
<1>2. ASSUME NEW c \in Conn, Connect(c) PROVE TypeOK'
  <2>1. overlap' \subseteq User
    BY <1>2, Owners DEF Connect
  <2> QED BY <1>2, <2>1 DEF Connect
<1>3. ASSUME NEW c \in Conn, Disconnect(c) PROVE TypeOK'
  <2>1. hasty' \subseteq User
    BY <1>3, Owners DEF Disconnect
  <2>2. heard' \in [Conn -> [User -> Kind]]
    BY <1>3, <1>e DEF Disconnect
  <2> QED BY <1>3, <2>1, <2>2 DEF Disconnect
<1>5. ASSUME NEW u \in User, SignIn(u) PROVE TypeOK'
  <2>1. incidents' \in 0 .. MaxIncidents
    BY <1>5, <1>n DEF SignIn
  <2> QED BY <1>5, <2>1 DEF SignIn
<1>6. ASSUME NEW j \in Job, Store(j) PROVE TypeOK'
  <2>1. IsUp(j) \in BOOLEAN
    BY DEF IsUp
  <2>2. online' \in [User -> BOOLEAN]
    BY <1>6, <2>1, ZenonT(30) DEF Store
  <2> QED BY <1>6, <2>2 DEF Store
<1>7. ASSUME NEW j \in Job, List(j) PROVE TypeOK'
  <2>1. Audience(By(j)) \subseteq User
    BY OwnersOfJobs DEF Audience
  <2> QED BY <1>7, <2>1 DEF List
<1>8. ASSUME NEW j \in Job, GiveUp(j) PROVE TypeOK'
  <2>1. incidents' \in 0 .. MaxIncidents
    BY <1>8, <1>n DEF GiveUp
  <2> QED BY <1>8, <2>1, OwnersOfJobs DEF GiveUp
<1>9. ASSUME NEW j \in Job, Copy(j) PROVE TypeOK'
  <2>1. users' \in [Job -> SUBSET User] /\ copied' \in [Job -> SUBSET Conn]
    BY <1>9 DEF Copy, Remaining
  <2> QED BY <1>9, <2>1 DEF Copy, Ending
<1>10. ASSUME NEW j \in Job, NEW c \in Conn, Write(j, c) PROVE TypeOK'
  <2>1. j[2] \in Kind /\ By(j) \in User
    BY OwnersOfJobs DEF Job, Kind
  <2>2. heard' \in [Conn -> [User -> Kind]]
    <3>1. heard' = heard \/ heard' = [heard EXCEPT ![c][By(j)] = j[2]]
      BY <1>10 DEF Write, Event
    <3>2. [heard[c] EXCEPT ![By(j)] = j[2]] \in [User -> Kind]
      BY <2>1
    <3> QED BY <3>1, <3>2
  <2> QED BY <1>10, <2>2 DEF Write, Event, Ending
<1>11. CASE Panic
  <2>1. incidents' \in 0 .. MaxIncidents
    BY <1>11, <1>n DEF Panic
  <2>2. heard' \in [Conn -> [User -> Kind]]
    BY <1>11, <1>e DEF Panic
  <2> QED BY <1>11, <2>1, <2>2 DEF Panic
<1> QED BY <1>1, <1>2, <1>3, <1>5, <1>6, <1>7, <1>8, <1>9, <1>10, <1>11 DEF Next, Step

\* Every variable of Presence holds a value of its kind, with any overlapping of
\* goroutines, failures of the database and restarts.
THEOREM PresenceTypes == Spec => []TypeOK
BY TypeInit, TypeNext, PTL DEF Spec

-----------------------------------------------------------------------------
(* Connections and their goroutines                                        *)

\* The goroutines of a connection follow its state.
Orderly ==
  /\ hub = {c \in Conn : conn[c] = "open"}
  /\ \A c \in Conn :
       /\ conn[c] = "new" => at[Up(c)] = "off"
       /\ conn[c] # "gone" => at[Down(c)] = "off"

\* A connection that was not lost too early is told of before it is lost.
Told ==
  \A c \in Conn : conn[c] = "gone" /\ Owner[c] \notin hasty => ~Running(Up(c))

\* A user who never overlapped has one connection, and no goroutine of an earlier one
\* is left.
Single ==
  \A c, d \in Conn :
    Owner[c] = Owner[d] /\ Owner[c] \notin overlap /\ Alive(c) /\ Alive(d) => c = d

\* Connections stay, and goroutines neither begin nor begin again.
Moves ==
  /\ UNCHANGED <<conn, hub>> /\ overlap' = overlap /\ hasty' = hasty
  /\ \A k \in Job : at[k] \in {"off", "done"} => at'[k] = at[k]

\* A goroutine takes a step: it alone moves on.
LEMMA StepMoves ==
  ASSUME TypeOK, NEW j \in Job, Step(j)
  PROVE  /\ Moves /\ Running(j) /\ \A k \in Job \ {j} : at'[k] = at[k]
         /\ at'[j] \in {"list", "publish", "done"}
<1> USE DEF history, Running, Moves, TypeOK
<1>1. ASSUME NEW c \in Conn, Write(j, c)
      PROVE  /\ Moves /\ Running(j) /\ \A k \in Job \ {j} : at'[k] = at[k]
             /\ at'[j] \in {"list", "publish", "done"}
  BY <1>1 DEF Write, Event, Ending
<1>2. CASE Store(j)
  BY <1>2 DEF Store
<1>3. CASE List(j)
  BY <1>3 DEF List
<1>4. CASE GiveUp(j)
  BY <1>4 DEF GiveUp
<1>5. CASE Copy(j)
  BY <1>5 DEF Copy, Ending
<1> QED BY <1>1, <1>2, <1>3, <1>4, <1>5 DEF Step

\* A connection opens: its user has no other that is alive, unless that is an overlap.
LEMMA Opened ==
  ASSUME TypeOK, Orderly, NEW c \in Conn, Connect(c)
  PROVE  /\ conn[c] = "new" /\ conn'[c] = "open" /\ hub' = hub \cup {c}
         /\ at'[Up(c)] = "store" /\ at'[Down(c)] = "off"
         /\ \A d \in Conn \ {c} : conn'[d] = conn[d]
         /\ \A k \in Job \ {Up(c)} : at'[k] = at[k]
         /\ overlap \subseteq overlap' /\ hasty' = hasty
         /\ Owner[c] \notin overlap' => \A d \in Conn : Owner[d] = Owner[c] => ~Alive(d)
<1>1. /\ conn[c] = "new" /\ conn' = [conn EXCEPT ![c] = "open"] /\ hub' = hub \cup {c}
      /\ at' = [at EXCEPT ![Up(c)] = "store"]
      /\ overlap' = overlap \cup {u \in {Owner[c]} : \E d \in Of(u) : Alive(d)}
      /\ hasty' = hasty
  BY DEF Connect, Up
<1>2. Owner[c] \notin overlap' => \A d \in Conn : Owner[d] = Owner[c] => ~Alive(d)
  BY <1>1 DEF Of
<1>3. overlap \subseteq overlap'
  BY <1>1
<1>4. at'[Up(c)] = "store" /\ \A k \in Job \ {Up(c)} : at'[k] = at[k]
  BY <1>1, Goroutines DEF TypeOK
<1>5. at'[Down(c)] = "off"
  BY <1>1, <1>4, Goroutines DEF Orderly
<1>6. conn'[c] = "open" /\ \A d \in Conn \ {c} : conn'[d] = conn[d]
  BY <1>1 DEF TypeOK
<1> QED BY <1>1, <1>2, <1>3, <1>4, <1>5, <1>6

\* A connection ends: the goroutine it began with is over, unless it was hasty.
LEMMA Ended ==
  ASSUME TypeOK, Orderly, NEW c \in Conn, Disconnect(c)
  PROVE  /\ conn[c] = "open" /\ conn'[c] = "gone" /\ hub' = hub \ {c}
         /\ at'[Up(c)] = at[Up(c)] /\ at'[Down(c)] = "store"
         /\ \A d \in Conn \ {c} : conn'[d] = conn[d]
         /\ \A k \in Job \ {Down(c)} : at'[k] = at[k]
         /\ overlap' = overlap /\ hasty \subseteq hasty'
         /\ Owner[c] \notin hasty' => ~Running(Up(c))
<1>1. /\ conn[c] = "open" /\ conn' = [conn EXCEPT ![c] = "gone"] /\ hub' = hub \ {c}
      /\ at' = [at EXCEPT ![Down(c)] = "store"] /\ overlap' = overlap
      /\ hasty' = hasty \cup {u \in {Owner[c]} : Running(Up(c))}
  BY DEF Disconnect, Up, Down
<1>2. at'[Down(c)] = "store" /\ \A k \in Job \ {Down(c)} : at'[k] = at[k]
  BY <1>1, Goroutines DEF TypeOK
<1>3. at'[Up(c)] = at[Up(c)]
  BY <1>2, Goroutines
<1>4. conn'[c] = "gone" /\ \A d \in Conn \ {c} : conn'[d] = conn[d]
  BY <1>1 DEF TypeOK
<1>5. hasty \subseteq hasty' /\ (Owner[c] \notin hasty' => ~Running(Up(c)))
  BY <1>1
<1> QED BY <1>1, <1>2, <1>3, <1>4, <1>5

\* The server stops: nothing is open and nothing runs.
LEMMA Stopped ==
  ASSUME TypeOK, Panic
  PROVE  /\ hub' = {} /\ overlap' = overlap /\ hasty' = hasty
         /\ \A c \in Conn : /\ conn'[c] # "open"
                            /\ conn'[c] = IF conn[c] = "open" THEN "gone" ELSE conn[c]
         /\ \A k \in Job : at'[k] = (IF Running(k) THEN "done" ELSE at[k]) /\ ~Running(k)'
BY DEF Panic, TypeOK, Running

\* What becomes of connections and goroutines in any step
LEMMA Cases ==
  ASSUME TypeOK, [Next]_vars
  PROVE  \/ Moves \/ (\E c \in Conn : Connect(c)) \/ (\E c \in Conn : Disconnect(c)) \/ Panic
<1>1. ASSUME NEW u \in User, SignIn(u) PROVE Moves
  BY <1>1 DEF SignIn, Moves
<1>2. CASE UNCHANGED vars
  BY <1>2 DEF vars, history, Moves
<1> QED BY <1>1, <1>2, StepMoves DEF Next

Control == Orderly /\ Told /\ Single

LEMMA ControlNext == ASSUME TypeOK, TypeOK', Control, [Next]_vars PROVE Control'
<1>o. Orderly /\ Told /\ Single
  BY DEF Control
<1>1. CASE Moves
  <2>1. \A k \in Job : Running(k)' => Running(k)
    BY <1>1 DEF Moves, Running
  <2>2. \A c \in Conn : Alive(c)' => Alive(c)
    BY <1>1, <2>1, Goroutines DEF Moves, Alive, Up, Down
  <2>3. Orderly'
    BY <1>o, <1>1, Goroutines DEF Moves, Orderly
  <2>4. Told'
    BY <1>o, <1>1, <2>1, Goroutines DEF Moves, Told
  <2>5. Single'
    BY <1>o, <1>1, <2>2 DEF Moves, Single
  <2> QED BY <2>3, <2>4, <2>5 DEF Control
<1>2. ASSUME NEW c \in Conn, Connect(c) PROVE Control'
  <2>1. Orderly'
    BY <1>o, <1>2, Opened, Goroutines DEF Orderly
  <2>2. Told'
    <3>1. \A d \in Conn \ {c} : at'[Up(d)] = at[Up(d)]
      BY <1>o, <1>2, Opened, Goroutines
    <3> QED BY <1>o, <1>2, <3>1, Opened DEF Told, Running
  <2>3. \A d \in Conn \ {c} : Alive(d)' => Alive(d)
    BY <1>o, <1>2, Opened, Goroutines DEF Alive, Running, Up, Down
  <2>4. Single'
    BY <1>o, <1>2, <2>3, Opened DEF Single
  <2> QED BY <2>1, <2>2, <2>4 DEF Control
<1>3. ASSUME NEW c \in Conn, Disconnect(c) PROVE Control'
  <2>1. Orderly'
    BY <1>o, <1>3, Ended, Goroutines DEF Orderly
  <2>2. Told'
    <3>1. \A d \in Conn : at'[Up(d)] = at[Up(d)]
      BY <1>o, <1>3, Ended, Goroutines
    <3> QED BY <1>o, <1>3, <3>1, Ended DEF Told, Running
  <2>3. Alive(c) /\ \A d \in Conn \ {c} : Alive(d)' => Alive(d)
    BY <1>o, <1>3, Ended, Goroutines DEF Alive, Running, Up, Down
  <2>4. Single'
    BY <1>o, <1>3, <2>3, Ended DEF Single
  <2> QED BY <2>1, <2>2, <2>4 DEF Control
<1>4. CASE Panic
  <2>1. Orderly'
    BY <1>o, <1>4, Stopped, Goroutines DEF Orderly, Running
  <2>2. \A c \in Conn : ~Alive(c)' /\ ~Running(Up(c))'
    BY <1>4, Stopped, Goroutines DEF Alive, Up, Down
  <2> QED BY <2>1, <2>2 DEF Control, Told, Single
<1> QED BY <1>1, <1>2, <1>3, <1>4, Cases

\* A running goroutine that tells of a connection: which it is
LEMMA Runs ==
  ASSUME TypeOK, Control, NEW c \in Conn
  PROVE  /\ Running(Up(c)) => conn[c] # "new" /\ Alive(c)
         /\ Running(Down(c)) => conn[c] = "gone" /\ Alive(c)
         /\ Running(Up(c)) /\ Owner[c] \notin hasty => conn[c] = "open"
<1>1. conn[c] \in {"new", "open", "gone"}
  BY DEF TypeOK
<1>2. Running(Up(c)) \/ Running(Down(c)) => Alive(c)
  BY DEF Alive, Up, Down
<1> QED BY <1>1, <1>2 DEF Control, Orderly, Told, Running

-----------------------------------------------------------------------------
(* What is stored                                                          *)

\* A connected user whose connections did not overlap is stored as online, or about to be.
StoredOnline ==
  \A c \in Conn :
    conn[c] = "open" /\ Owner[c] \notin overlap \cup failed =>
      online[Owner[c]] \/ at[Up(c)] = "store"

\* A connection of u is open, or the end of one is still to be stored.
Present(u) == \E c \in Of(u) : conn[c] = "open" \/ at[Down(c)] = "store"

\* A user stored as online is present, or a sign-in or a restart stored it.
StoredOffline ==
  \A u \in User \ (hasty \cup failed) : online[u] => Present(u) \/ u \in claimed

Stored == StoredOnline /\ StoredOffline

\* Steps that store nothing
Aside ==
  /\ Moves /\ UNCHANGED <<online, claimed, failed>>
  /\ \A k \in Job : at'[k] = "store" <=> at[k] = "store"

LEMMA StoringCases ==
  ASSUME TypeOK, [Next]_vars
  PROVE  \/ Aside \/ (\E c \in Conn : Connect(c)) \/ (\E c \in Conn : Disconnect(c))
         \/ (\E j \in Job : Store(j) \/ GiveUp(j)) \/ (\E u \in User : SignIn(u)) \/ Panic
<1>1. CASE UNCHANGED vars
  BY <1>1 DEF vars, history, Moves, Aside
<1>2. ASSUME NEW j \in Job, Step(j), ~Store(j), ~GiveUp(j) PROVE Aside
  <2>1. Moves
    BY <1>2, StepMoves
  <2>2. /\ UNCHANGED <<online, claimed, failed>>
        /\ \A k \in Job : at'[k] = "store" <=> at[k] = "store"
    <3>1. ASSUME NEW c \in Conn, Write(j, c)
          PROVE  /\ UNCHANGED <<online, claimed, failed>>
                 /\ \A k \in Job : at'[k] = "store" <=> at[k] = "store"
      BY <3>1 DEF Write, Event, Ending, history, TypeOK
    <3>2. CASE List(j)
      BY <3>2 DEF List, history, TypeOK
    <3>3. CASE Copy(j)
      BY <3>3 DEF Copy, Ending, history, TypeOK
    <3> QED BY <1>2, <3>1, <3>2, <3>3 DEF Step
  <2> QED BY <2>1, <2>2 DEF Aside
<1> QED BY <1>1, <1>2 DEF Next

LEMMA StoredNext ==
  ASSUME TypeOK, TypeOK', Control, Stored, [Next]_vars PROVE Stored'
<1>o. Orderly /\ StoredOnline /\ StoredOffline
  BY DEF Control, Stored
<1>1. CASE Aside
  <2>1. StoredOnline'
    BY <1>o, <1>1, Goroutines DEF Aside, Moves, StoredOnline
  <2>2. \A u \in User : Present(u) => Present(u)'
    BY <1>1, Goroutines DEF Aside, Moves, Present, Of
  <2>3. StoredOffline'
    BY <1>o, <1>1, <2>2 DEF Aside, Moves, StoredOffline
  <2> QED BY <2>1, <2>3 DEF Stored
<1>2. ASSUME NEW c \in Conn, Connect(c) PROVE Stored'
  <2>1. UNCHANGED <<online, claimed, failed>>
    BY <1>2 DEF Connect
  <2>2. \A d \in Conn \ {c} : /\ conn'[d] = conn[d] /\ at'[Up(d)] = at[Up(d)]
                              /\ at'[Down(d)] = at[Down(d)]
    BY <1>o, <1>2, Opened, Goroutines
  <2>3. StoredOnline'
    BY <1>o, <1>2, <2>1, <2>2, Opened DEF StoredOnline
  <2>4. \A u \in User : Present(u) => Present(u)'
    BY <1>o, <1>2, <2>2, Opened DEF Present, Of
  <2>5. StoredOffline'
    BY <1>o, <1>2, <2>1, <2>4, Opened DEF StoredOffline
  <2> QED BY <2>3, <2>5 DEF Stored
<1>3. ASSUME NEW c \in Conn, Disconnect(c) PROVE Stored'
  <2>1. UNCHANGED <<online, claimed, failed>>
    BY <1>3 DEF Disconnect
  <2>2. \A d \in Conn \ {c} : /\ conn'[d] = conn[d] /\ at'[Up(d)] = at[Up(d)]
                              /\ at'[Down(d)] = at[Down(d)]
    BY <1>o, <1>3, Ended, Goroutines
  <2>3. StoredOnline'
    BY <1>o, <1>3, <2>1, <2>2, Ended DEF StoredOnline
  <2>4. \A u \in User : Present(u) => Present(u)'
    BY <1>o, <1>3, <2>2, Ended DEF Present, Of
  <2>5. StoredOffline'
    BY <1>o, <1>3, <2>1, <2>4, Ended DEF StoredOffline
  <2> QED BY <2>3, <2>5 DEF Stored
<1>4. ASSUME NEW u \in User, SignIn(u) PROVE Stored'
  <2>1. /\ online' = [online EXCEPT ![u] = TRUE] /\ claimed' = claimed \cup {u}
        /\ UNCHANGED <<conn, at, overlap, hasty, failed>>
    BY <1>4 DEF SignIn
  <2>2. /\ \A v \in User : online[v] => online'[v]
        /\ \A v \in User \ {u} : online'[v] = online[v]
    BY <2>1, Zenon DEF TypeOK
  <2>3. \A v \in User : Present(v)' <=> Present(v)
    BY <2>1 DEF Present
  <2>4. StoredOnline'
    BY <1>o, <2>1, <2>2, Owners DEF StoredOnline
  <2>5. StoredOffline'
    BY <1>o, <2>1, <2>2, <2>3 DEF StoredOffline
  <2> QED BY <2>4, <2>5 DEF Stored
<1>5. ASSUME NEW j \in Job, Store(j) PROVE Stored'
  <2>1. /\ at[j] = "store" /\ at' = [at EXCEPT ![j] = "list"]
        /\ online' = [online EXCEPT ![By(j)] = IsUp(j)] /\ claimed' = claimed \ {By(j)}
        /\ UNCHANGED <<conn, overlap, hasty, failed>>
    BY <1>5, Zenon DEF Store
  <2>2. PICK d \in Conn : By(j) = Owner[d] /\ (j = Up(d) \/ j = Down(d))
    BY Goroutines DEF By
  <2>3. Running(j) /\ \A k \in Job \ {j} : at'[k] = at[k]
    BY <2>1 DEF Running, TypeOK
  <2>4. /\ \A v \in User \ {By(j)} : online'[v] = online[v]
        /\ online'[By(j)] = IsUp(j)
    BY <2>1, OwnersOfJobs, Zenon DEF TypeOK
  <2>5. \A v \in User \ {By(j)} : Present(v) => Present(v)'
    <3>1. ASSUME NEW v \in User \ {By(j)}, NEW c \in Of(v), at[Down(c)] = "store"
          PROVE  at'[Down(c)] = "store"
      <4>1. c \in Conn /\ Down(c) # j
        BY <3>1, <2>2, Goroutines DEF Of
      <4> QED BY <2>3, <3>1, <4>1, Goroutines
    <3> QED BY <2>1, <3>1 DEF Present
  <2>6. \A c \in Conn : Owner[c] # By(j) => at'[Up(c)] = at[Up(c)]
    BY <2>2, <2>3, Goroutines
  <2>7. CASE j = Up(d)
    <3>1. online'[Owner[d]]
      BY <2>2, <2>4, <2>7, Goroutines DEF IsUp
    <3>2. StoredOnline'
      BY <1>o, <2>1, <2>2, <2>4, <2>6, <3>1, Owners DEF StoredOnline
    <3>3. Owner[d] \notin hasty => Present(Owner[d])'
      <4>1. Owner[d] \notin hasty => conn'[d] = "open"
        BY <2>1, <2>3, <2>7, Runs
      <4> QED BY <4>1 DEF Present, Of
    <3>4. StoredOffline'
      BY <1>o, <2>1, <2>2, <2>4, <2>5, <3>3 DEF StoredOffline
    <3> QED BY <3>2, <3>4 DEF Stored
  <2>8. CASE j = Down(d)
    <3>1. conn[d] = "gone" /\ Alive(d) /\ ~online'[Owner[d]]
      BY <2>2, <2>3, <2>4, <2>8, Runs, Goroutines DEF IsUp
    <3>2. \A c \in Conn : conn[c] = "open" /\ Owner[c] \notin overlap => Owner[c] # Owner[d]
      BY <3>1 DEF Control, Single, Alive
    <3>3. StoredOnline'
      BY <1>o, <2>1, <2>2, <2>4, <2>6, <3>2, Owners DEF StoredOnline
    <3>4. StoredOffline'
      BY <1>o, <2>1, <2>2, <2>4, <2>5, <3>1 DEF StoredOffline
    <3> QED BY <3>3, <3>4 DEF Stored
  <2> QED BY <2>2, <2>7, <2>8
<1>6. ASSUME NEW j \in Job, GiveUp(j) PROVE Stored'
  <2>1. /\ at' = [at EXCEPT ![j] = "done"] /\ failed' = failed \cup {By(j)}
        /\ UNCHANGED <<conn, online, claimed, overlap, hasty>>
    BY <1>6 DEF GiveUp
  <2>2. PICK d \in Conn : By(j) = Owner[d] /\ (j = Up(d) \/ j = Down(d))
    BY Goroutines DEF By
  <2>3. \A c \in Conn : Owner[c] # By(j) =>
          at'[Up(c)] = at[Up(c)] /\ at'[Down(c)] = at[Down(c)]
    BY <2>1, <2>2, Goroutines DEF TypeOK
  <2>4. StoredOnline'
    BY <1>o, <2>1, <2>3 DEF StoredOnline
  <2>5. \A v \in User \ {By(j)} : Present(v) => Present(v)'
    BY <2>1, <2>3 DEF Present, Of
  <2>6. StoredOffline'
    BY <1>o, <2>1, <2>5 DEF StoredOffline
  <2> QED BY <2>4, <2>6 DEF Stored
<1>7. CASE Panic
  <2>1. StoredOnline'
    BY <1>7, Stopped DEF StoredOnline
  <2>2. StoredOffline'
    BY <1>7 DEF Panic, StoredOffline
  <2> QED BY <2>1, <2>2 DEF Stored
<1> QED BY <1>1, <1>2, <1>3, <1>4, <1>5, <1>6, <1>7, StoringCases

-----------------------------------------------------------------------------
(* What is heard                                                           *)

\* A goroutine notifies the audience of its user and writes to what it has copied.
Audiences ==
  /\ \A j \in Job : /\ users[j] \subseteq Audience(By(j))
                    /\ \A c \in copied[j] : Owner[c] \in Audience(By(j))
  /\ \A c \in Conn, u \in User :
       heard[c][u] # "nothing" => conn[c] = "open" /\ Owner[c] \in Audience(u)

\* A goroutine has still to notify a connection.
Reaches(j, c) ==
  \/ at[j] \in {"store", "list"}
  \/ at[j] = "publish" /\ (Owner[c] \in users[j] \/ c \in copied[j])

\* A user none of whose goroutines overlapped or failed
Sober(u) == u \notin overlap \cup hasty \cup failed

\* What an open connection last heard of such a user is true, or a goroutine of that
\* user will tell it.
Heard ==
  \A c \in Conn, u \in User :
    conn[c] = "open" /\ heard[c][u] # "nothing" /\ Sober(u) =>
      \/ heard[c][u] = "up" <=> Connected(u)
      \/ \E j \in Job : By(j) = u /\ Reaches(j, c)

\* Steps that neither copy, write nor list
Unheard == UNCHANGED <<users, copied, heard>>

LEMMA AudiencesNext ==
  ASSUME TypeOK, Control, Audiences, [Next]_vars PROVE Audiences'
<1> DEFINE Notify == \A j \in Job : /\ users[j] \subseteq Audience(By(j))
                                    /\ \A c \in copied[j] : Owner[c] \in Audience(By(j))
           Hear == \A c \in Conn, u \in User :
                     heard[c][u] # "nothing" => conn[c] = "open" /\ Owner[c] \in Audience(u)
<1>o. Notify /\ Hear /\ Orderly
  BY DEF Audiences, Control
<1> SUFFICES Notify' /\ Hear'
  BY DEF Audiences
<1>1. CASE UNCHANGED vars
  BY <1>o, <1>1 DEF vars
<1>2. ASSUME NEW c \in Conn, Connect(c) PROVE Notify' /\ Hear'
  <2>1. Unheard /\ \A d \in Conn : conn[d] = "open" => conn'[d] = "open"
    BY <1>o, <1>2, Opened DEF Connect, Unheard
  <2> QED BY <1>o, <2>1 DEF Unheard
<1>3. ASSUME NEW c \in Conn, Disconnect(c) PROVE Notify' /\ Hear'
  <2>1. UNCHANGED <<users, copied>> /\ heard' = [heard EXCEPT ![c] = Nothing]
    BY <1>3 DEF Disconnect
  <2>2. \A d \in Conn \ {c} : conn'[d] = conn[d] /\ heard'[d] = heard[d]
    BY <1>o, <1>3, <2>1, Ended DEF TypeOK
  <2>3. \A u \in User : heard'[c][u] = "nothing"
    BY <2>1 DEF TypeOK, Nothing
  <2> QED BY <1>o, <2>1, <2>2, <2>3
<1>4. ASSUME NEW u \in User, SignIn(u) PROVE Notify' /\ Hear'
  BY <1>o, <1>4 DEF SignIn
<1>5. ASSUME NEW j \in Job, Store(j) \/ GiveUp(j) PROVE Notify' /\ Hear'
  BY <1>o, <1>5 DEF Store, GiveUp
<1>6. ASSUME NEW j \in Job, List(j) PROVE Notify' /\ Hear'
  <2>1. /\ UNCHANGED <<conn, copied, heard>>
        /\ users' = [users EXCEPT ![j] = Audience(By(j))]
    BY <1>6 DEF List
  <2> QED BY <1>o, <2>1 DEF TypeOK
<1>7. ASSUME NEW j \in Job, Copy(j) PROVE Notify' /\ Hear'
  <2>1. PICK u \in users[j] : /\ users' = [users EXCEPT ![j] = Remaining(@, u)]
                              /\ copied' = [copied EXCEPT ![j] = hub \cap Of(u)]
    BY <1>7 DEF Copy
  <2>2. UNCHANGED <<conn, heard>>
    BY <1>7 DEF Copy
  <2>3. /\ users'[j] \subseteq users[j] /\ copied'[j] = hub \cap Of(u)
        /\ \A k \in Job \ {j} : users'[k] = users[k] /\ copied'[k] = copied[k]
    BY <2>1 DEF Remaining, TypeOK
  <2>4. \A c \in copied'[j] : Owner[c] = u
    BY <2>3 DEF Of
  <2> QED BY <1>o, <2>1, <2>2, <2>3, <2>4
<1>8. ASSUME NEW j \in Job, NEW c \in Conn, Write(j, c) PROVE Notify' /\ Hear'
  <2>1. /\ UNCHANGED <<conn, users>> /\ c \in copied[j]
        /\ copied' = [copied EXCEPT ![j] = @ \ {c}]
        /\ heard' = IF conn[c] = "open" THEN [heard EXCEPT ![c][By(j)] = j[2]] ELSE heard
    BY <1>8 DEF Write, Event
  <2>2. \A k \in Job : copied'[k] \subseteq copied[k]
    BY <2>1 DEF TypeOK
  <2>3. ASSUME NEW d \in Conn, NEW u \in User, heard'[d][u] # "nothing"
        PROVE  conn[d] = "open" /\ Owner[d] \in Audience(u)
    <3>1. heard'[d][u] = heard[d][u] \/ (d = c /\ u = By(j) /\ conn[c] = "open")
      BY <2>1, OwnersOfJobs DEF TypeOK
    <3> QED BY <1>o, <2>1, <2>3, <3>1
  <2> QED BY <1>o, <2>1, <2>2, <2>3
<1>9. CASE Panic
  BY <1>o, <1>9 DEF Panic, Nothing
<1> QED BY <1>1, <1>2, <1>3, <1>4, <1>5, <1>6, <1>7, <1>8, <1>9 DEF Next, Step

\* A running goroutine of such a user tells what is true.
LEMMA RunsTrue ==
  ASSUME TypeOK, Control, NEW j \in Job, Running(j), Sober(By(j))
  PROVE  j[2] = "up" <=> Connected(By(j))
<1>1. PICK d \in Conn : By(j) = Owner[d] /\ (j = Up(d) \/ j = Down(d))
  BY Goroutines DEF By
<1>2. CASE j = Up(d)
  BY <1>1, <1>2, Runs, Goroutines DEF Connected, Of, Sober
<1>3. CASE j = Down(d)
  <2>1. conn[d] = "gone" /\ Alive(d)
    BY <1>3, Runs
  <2>2. \A c \in Conn : conn[c] = "open" => Owner[c] # Owner[d]
    BY <1>1, <2>1 DEF Control, Single, Alive, Sober
  <2> QED BY <1>1, <1>3, <2>2, Goroutines DEF Connected, Of
<1> QED BY <1>1, <1>2, <1>3

\* A step after which nobody has heard more, and everybody who was to hear still is
LEMMA HeardStays ==
  ASSUME Heard, UNCHANGED <<conn, heard>>, \A u \in User : Sober(u)' => Sober(u),
         \A j \in Job, c \in Conn :
           Sober(By(j))' /\ conn[c] = "open" /\ heard[c][By(j)] # "nothing" /\ Reaches(j, c)
             => Reaches(j, c)'
  PROVE  Heard'
<1>1. \A u \in User : Connected(u)' <=> Connected(u)
  BY DEF Connected
<1> QED BY <1>1 DEF Heard

\* A user stays sober only if it was.
LEMMA SoberOnce ==
  ASSUME TypeOK, Control, [Next]_vars
  PROVE  \A u \in User : Sober(u)' => Sober(u)
<1>1. overlap \subseteq overlap' /\ hasty \subseteq hasty'
  BY Cases, Opened, Ended, Stopped DEF Moves, Control
<1>2. failed \subseteq failed'
  <2>1. ASSUME NEW j \in Job, Step(j) PROVE failed \subseteq failed'
    BY <2>1 DEF Step, Store, List, GiveUp, Copy, Write, Event, history
  <2> QED BY <2>1 DEF Next, Connect, Disconnect, SignIn, Panic, vars, history
<1> QED BY <1>1, <1>2 DEF Sober

\* A connection opens or ends: what is heard of its user will be told again.
LEMMA HeardThrough ==
  ASSUME TypeOK, Control, Audiences, Heard, NEW d \in Conn, NEW e \in Job, By(e) = Owner[d],
         at'[e] = "store", \A k \in Job : at[k] # "off" => at'[k] = at[k] \/ k = e,
         UNCHANGED <<users, copied>>,
         \A c \in Conn \ {d} : conn'[c] = conn[c] /\ heard'[c] = heard[c],
         \A u \in User : heard'[d][u] = "nothing",
         \A u \in User : Sober(u)' => Sober(u)
  PROVE  Heard'
<1> SUFFICES ASSUME NEW c \in Conn, NEW u \in User, conn'[c] = "open",
                    heard'[c][u] # "nothing", Sober(u)'
             PROVE  \/ heard'[c][u] = "up" <=> Connected(u)'
                    \/ \E j \in Job : By(j) = u /\ Reaches(j, c)'
  BY DEF Heard
<1>1. c # d /\ conn[c] = "open" /\ heard'[c][u] = heard[c][u]
  OBVIOUS
<1>2. CASE u = Owner[d]
  BY <1>2 DEF Reaches
<1>3. CASE u # Owner[d]
  <2>1. Connected(u)' <=> Connected(u)
    BY <1>3 DEF Connected, Of
  <2>2. \A j \in Job : By(j) = u /\ Reaches(j, c) => Reaches(j, c)'
    BY <1>3 DEF Reaches
  <2> QED BY <1>1, <2>1, <2>2 DEF Heard
<1> QED BY <1>2, <1>3

LEMMA HeardNext ==
  ASSUME TypeOK, Control, Audiences, Heard, [Next]_vars PROVE Heard'
<1>o. Orderly /\ \A u \in User : Sober(u)' => Sober(u)
  BY SoberOnce DEF Control
<1>1. CASE UNCHANGED vars
  BY <1>o, <1>1, HeardStays DEF vars, Reaches
<1>2. ASSUME NEW d \in Conn, Connect(d) PROVE Heard'
  <2>1. UNCHANGED <<users, copied, heard>> /\ conn[d] = "new"
    BY <1>2 DEF Connect
  <2>2. Up(d) \in Job /\ By(Up(d)) = Owner[d]
    BY Goroutines DEF By
  <2>3. /\ at'[Up(d)] = "store" /\ \A k \in Job : at[k] # "off" => at'[k] = at[k] \/ k = Up(d)
        /\ \A c \in Conn \ {d} : conn'[c] = conn[c]
    BY <1>o, <1>2, Opened
  <2>4. \A u \in User : heard'[d][u] = "nothing"
    BY <2>1 DEF Audiences
  <2> QED BY <1>o, <2>1, <2>2, <2>3, <2>4, HeardThrough
<1>3. ASSUME NEW d \in Conn, Disconnect(d) PROVE Heard'
  <2>1. UNCHANGED <<users, copied>> /\ heard' = [heard EXCEPT ![d] = Nothing]
    BY <1>3 DEF Disconnect
  <2>2. Down(d) \in Job /\ By(Down(d)) = Owner[d]
    BY Goroutines DEF By
  <2>3. /\ at'[Down(d)] = "store"
        /\ \A k \in Job : at[k] # "off" => at'[k] = at[k] \/ k = Down(d)
        /\ \A c \in Conn \ {d} : conn'[c] = conn[c]
    BY <1>o, <1>3, Ended
  <2>4. /\ \A c \in Conn \ {d} : heard'[c] = heard[c]
        /\ \A u \in User : heard'[d][u] = "nothing"
    BY <2>1 DEF TypeOK, Nothing
  <2> QED BY <1>o, <2>1, <2>2, <2>3, <2>4, HeardThrough
<1>4. ASSUME NEW u \in User, SignIn(u) PROVE Heard'
  BY <1>o, <1>4, HeardStays DEF SignIn, Reaches
<1>5. ASSUME NEW j \in Job, Store(j) PROVE Heard'
  <2>1. /\ UNCHANGED <<conn, heard, users, copied>> /\ at[j] = "store"
        /\ at' = [at EXCEPT ![j] = "list"]
    BY <1>5 DEF Store
  <2>2. \A k \in Job, c \in Conn : Reaches(k, c) => Reaches(k, c)'
    BY <2>1 DEF Reaches, TypeOK
  <2> QED BY <1>o, <2>1, <2>2, HeardStays
<1>6. ASSUME NEW j \in Job, List(j) PROVE Heard'
  <2>1. /\ UNCHANGED <<conn, heard, copied>> /\ at[j] = "list"
        /\ at' = [at EXCEPT ![j] = "publish"]
        /\ users' = [users EXCEPT ![j] = Audience(By(j))]
    BY <1>6 DEF List
  <2>2. ASSUME NEW k \in Job, NEW c \in Conn, heard[c][By(k)] # "nothing", Reaches(k, c)
        PROVE  Reaches(k, c)'
    <3>1. Owner[c] \in Audience(By(k))
      BY <2>2, OwnersOfJobs DEF Audiences
    <3> QED BY <2>1, <2>2, <3>1 DEF Reaches, TypeOK
  <2> QED BY <1>o, <2>1, <2>2, HeardStays
<1>7. ASSUME NEW j \in Job, GiveUp(j) PROVE Heard'
  <2>1. /\ UNCHANGED <<conn, heard, users, copied>> /\ failed' = failed \cup {By(j)}
        /\ at' = [at EXCEPT ![j] = "done"]
    BY <1>7 DEF GiveUp
  <2>2. \A k \in Job, c \in Conn : Sober(By(k))' /\ Reaches(k, c) => Reaches(k, c)'
    BY <2>1 DEF Reaches, Sober, TypeOK
  <2> QED BY <1>o, <2>1, <2>2, HeardStays
<1>8. ASSUME NEW j \in Job, Copy(j) PROVE Heard'
  <2>1. /\ UNCHANGED <<conn, heard>> /\ at[j] = "publish" /\ copied[j] = {} /\ Ending(j)
    BY <1>8 DEF Copy
  <2>2. PICK u \in users[j] : /\ users' = [users EXCEPT ![j] = Remaining(@, u)]
                              /\ copied' = [copied EXCEPT ![j] = hub \cap Of(u)]
    BY <1>8 DEF Copy
  <2>3. /\ users'[j] = users[j] \ {u} /\ copied'[j] = hub \cap Of(u)
        /\ \A k \in Job \ {j} : users'[k] = users[k] /\ copied'[k] = copied[k] /\ at'[k] = at[k]
    BY <2>1, <2>2 DEF Remaining, Ending, TypeOK
  <2>4. ASSUME NEW c \in Conn, conn[c] = "open", Reaches(j, c) PROVE Reaches(j, c)'
    <3>1. Owner[c] \in users'[j] \/ c \in copied'[j]
      BY <1>o, <2>1, <2>3, <2>4 DEF Reaches, Orderly, Of
    <3>2. at'[j] = "publish"
      BY <2>1, <3>1 DEF Ending
    <3> QED BY <3>1, <3>2 DEF Reaches
  <2>5. \A k \in Job, c \in Conn : conn[c] = "open" /\ Reaches(k, c) => Reaches(k, c)'
    BY <2>3, <2>4 DEF Reaches
  <2> QED BY <1>o, <2>1, <2>5, HeardStays
<1>9. ASSUME NEW j \in Job, NEW e \in Conn, Write(j, e) PROVE Heard'
  <2>1. /\ UNCHANGED <<conn, users>> /\ at[j] = "publish" /\ Ending(j)
        /\ copied' = [copied EXCEPT ![j] = @ \ {e}]
        /\ heard' = IF conn[e] = "open" THEN [heard EXCEPT ![e][By(j)] = j[2]] ELSE heard
    BY <1>9 DEF Write, Event
  <2>2. \A u \in User : Connected(u)' <=> Connected(u)
    BY <2>1 DEF Connected
  <2>3. ASSUME NEW c \in Conn, NEW u \in User, conn'[c] = "open", heard'[c][u] # "nothing",
               Sober(u)'
        PROVE  \/ heard'[c][u] = "up" <=> Connected(u)'
               \/ \E k \in Job : By(k) = u /\ Reaches(k, c)'
    <3>1. CASE c = e /\ u = By(j)
      <4>1. heard'[c][u] = j[2]
        BY <2>1, <2>3, <3>1 DEF TypeOK
      <4>2. Running(j) /\ Sober(By(j))
        BY <1>o, <2>1, <2>3, <3>1 DEF Running
      <4> QED BY <2>2, <3>1, <4>1, <4>2, RunsTrue
    <3>2. CASE ~(c = e /\ u = By(j))
      <4>1. heard'[c][u] = heard[c][u]
        BY <2>1, <3>2, OwnersOfJobs DEF TypeOK
      <4>2. ASSUME NEW k \in Job, By(k) = u, Reaches(k, c) PROVE Reaches(k, c)'
        <5>1. CASE k # j
          BY <2>1, <4>2, <5>1 DEF Reaches, Ending, TypeOK
        <5>2. CASE k = j
          <6>1. Owner[c] \in users'[j] \/ c \in copied'[j]
            BY <2>1, <3>2, <4>2, <5>2 DEF Reaches, TypeOK
          <6>2. at'[j] = "publish"
            BY <2>1, <6>1 DEF Ending
          <6> QED BY <5>2, <6>1, <6>2 DEF Reaches
        <5> QED BY <5>1, <5>2
      <4> QED BY <1>o, <2>1, <2>2, <2>3, <4>1, <4>2 DEF Heard
    <3> QED BY <3>1, <3>2
  <2> QED BY <2>3 DEF Heard
<1>10. CASE Panic
  BY <1>10, Stopped DEF Heard
<1> QED BY <1>1, <1>2, <1>3, <1>4, <1>5, <1>6, <1>7, <1>8, <1>9, <1>10 DEF Next, Step

-----------------------------------------------------------------------------
(* Theorems                                                                *)

PresenceInv == TypeOK /\ Control /\ Stored /\ Audiences /\ Heard

LEMMA PresenceHolds == Spec => []PresenceInv
<1>1. Init => PresenceInv
  <2> SUFFICES ASSUME Init PROVE PresenceInv
    OBVIOUS
  <2>1. /\ \A c \in Conn : conn[c] = "new" /\ at[Up(c)] = "off" /\ at[Down(c)] = "off"
        /\ hub = {}
    BY Goroutines DEF Init
  <2>2. Control
    BY <2>1 DEF Control, Orderly, Told, Single, Alive, Running, Up, Down
  <2>3. Stored
    BY <2>1 DEF Init, Stored, StoredOnline, StoredOffline
  <2>4. Audiences
    BY DEF Init, Audiences, Nothing
  <2>5. Heard
    BY <2>1 DEF Heard
  <2> QED BY <2>2, <2>3, <2>4, <2>5, TypeInit DEF PresenceInv
<1>2. PresenceInv /\ [Next]_vars => PresenceInv'
  BY TypeNext, ControlNext, StoredNext, AudiencesNext, HeardNext DEF PresenceInv
<1> QED BY <1>1, <1>2, PTL DEF Spec

\* Once the goroutines are over, a connected user whose connections did not overlap is
\* stored as online, and a user who is stored as online is connected, overlaps or not
\* (router.go:74-93, 128-158): for any users and connections and every interleaving of
\* goroutines, sign-ins, failures of the database and restarts.
THEOREM OnlineMeansConnected == Spec => []OnlineIsConnected
<1>1. PresenceInv => OnlineIsConnected
  <2> SUFFICES ASSUME PresenceInv, Quiet, NEW u \in User \ failed
               PROVE  /\ Connected(u) => online[u] \/ u \in overlap
                      /\ online[u] => Connected(u) \/ u \in claimed \cup hasty
    BY DEF OnlineIsConnected
  <2>1. \A c \in Conn : at[Up(c)] # "store" /\ at[Down(c)] # "store"
    BY Goroutines DEF Quiet, Running
  <2>2. Connected(u) => online[u] \/ u \in overlap
    BY <2>1 DEF PresenceInv, Stored, StoredOnline, Connected, Of
  <2>3. online[u] => Connected(u) \/ u \in claimed \cup hasty
    BY <2>1 DEF PresenceInv, Stored, StoredOffline, Present, Connected, Of
  <2> QED BY <2>2, <2>3
<1> QED BY <1>1, PresenceHolds, PTL

\* What the connections of its friends last heard of a user whose goroutines neither
\* overlapped nor failed is true once they have ended (hub.go:47-77): no event is overtaken
\* by an earlier one, and none is missed by a connection that heard one before.
THEOREM HeardMeansTrue == Spec => []HeardIsTrue
<1>1. PresenceInv => HeardIsTrue
  <2> SUFFICES ASSUME PresenceInv, Quiet, NEW c \in hub,
                      NEW u \in User \ (overlap \cup hasty \cup failed),
                      heard[c][u] # "nothing"
               PROVE  heard[c][u] = "up" <=> Connected(u)
    BY DEF HeardIsTrue
  <2>1. Heard /\ Sober(u) /\ conn[c] = "open" /\ c \in Conn
    BY DEF PresenceInv, Control, Orderly, Sober
  <2>2. \A j \in Job : ~Reaches(j, c)
    BY DEF Quiet, Running, Reaches
  <2> QED BY <2>1, <2>2 DEF Heard
<1> QED BY <1>1, PresenceHolds, PTL
=============================================================================
