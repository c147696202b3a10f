---------------------------- MODULE ClientProofs ----------------------------
(***************************************************************************)
(* The client's session (ClientSession) and its socket (EventSocket), for  *)
(* any number of calls, sign-ins, tokens, restarts, channels and losses.   *)
(***************************************************************************)
EXTENDS ClientSession, EventSocket, SequenceTheorems, TLAPS

-----------------------------------------------------------------------------
(* The invariant of the session                                            *)

Operation ==
  [by : {user, "refresher"}, key : {"acc"}, val : 0 .. MaxTokens]
  \cup
  [by : {user, "refresher"}, key : {"ref"}, val : 0 .. MaxLogins]

Tokens == [acc : 0 .. MaxTokens, ref : 0 .. MaxLogins]

Counters ==
  /\ issued \in 0 .. MaxTokens /\ logins \in 0 .. MaxLogins
  /\ refresh \in [at : {"none", "asked", "granted", "denied", "store", "fallback",
                        "wipe", "wipeprefs"},
                  ref : Nat, acc : 0 .. MaxTokens]
  /\ writes \in [Stores -> Seq(Operation)]

\* Where secure storage cannot be read, it is not written to either
Steady ==
  broken => /\ ~secureOk /\ refresh.at \notin {"store", "wipe"}
            /\ pc[user] \notin {"store", "wipe"}

\* Operations under way on the store the next start reads, and those on one key
Queue == writes[Loaded]
On(key) == {i \in DOMAIN Queue : Queue[i].key = key}

\* The last operation under way on a key, if any, brings what memory holds
Catches(key) ==
  /\ On(key) = {} => key \in missed \/ stored[Loaded][key] = mem[key]
  /\ \A i \in On(key) : (\A j \in On(key) : j <= i) => Queue[i].val = mem[key]

\* The client writes to the store the next start reads
Usual == Preferred = Loaded

Catching == Usual => Catches("acc") /\ Catches("ref")

\* From the wipe of a sign-out to the next sign-in
Leaving == stage = "left" \/ pc[user] \in {"wipe", "wipeprefs"}

\* Neither the store nor an operation under way holds a refresh token.
Zeroed == stored[Loaded].ref = 0 /\ \A i \in On("ref") : Queue[i].val = 0

\* The refresh token is gone from the store, or the sign-out has yet to remove it
\* and nothing writes another one after it, or the sign-out will report a failure.
Removed ==
  \/ Zeroed
  \/ \E i \in On("ref") :
       Queue[i].by = user /\ \A j \in On("ref") : i <= j => Queue[j].val = 0
  \/ user \in failed

Gone ==
  /\ stage = "left" => pc[user] = "idle"
  /\ Leaving => mem.ref = 0
  /\ Leaving /\ Usual => Removed
  /\ stage = "left" /\ Usual => Zeroed

SessionInv == TypeOK /\ Counters /\ NobodyForgotten /\ Steady /\ Catching /\ Gone

-----------------------------------------------------------------------------
(* What is issued to the stores                                            *)

Issued(by, key, val) == [by |-> by, key |-> key, val |-> val]

LEMMA Joined ==
  ASSUME NEW S, NEW s \in Seq(S), NEW u \in Seq(S)
  PROVE  /\ Len(s \o u) = Len(s) + Len(u) /\ DOMAIN (s \o u) = 1 .. Len(s) + Len(u)
         /\ \A i \in 1 .. Len(s) : (s \o u)[i] = s[i]
         /\ \A i \in 1 .. Len(u) : (s \o u)[Len(s) + i] = u[i]
OBVIOUS

LEMMA Pieces ==
  ASSUME NEW S, NEW n \in Nat, NEW u \in [1 .. n -> S]
  PROVE  u \in Seq(S) /\ Len(u) = n
<1>1. u \in Seq(S)
  BY SeqDef
<1>2. DOMAIN u = 1 .. Len(u) /\ DOMAIN u = 1 .. n /\ Len(u) \in Nat
  BY <1>1, LenProperties
<1> QED BY <1>1, <1>2

\* One token is stored
LEMMA OpsOne ==
  ASSUME NEW by, NEW v
  PROVE  LET ops == Ops(by, <<<<"acc", v>>>>)
         IN  /\ ops \in Seq({Issued(by, "acc", v)})
             /\ Len(ops) = 1 /\ ops[1] = Issued(by, "acc", v)
<1> DEFINE ops == Ops(by, <<<<"acc", v>>>>)
           some == {Issued(by, "acc", v)}
<1>1. ops = [i \in 1 .. 1 |-> Issued(by, "acc", v)]
  BY DEF Ops, Issued
<1>2. ops \in [1 .. 1 -> some] /\ ops[1] = Issued(by, "acc", v)
  BY <1>1
<1> HIDE DEF ops, some
<1>3. ops \in Seq(some) /\ Len(ops) = 1
  BY <1>2, Pieces
<1> QED BY <1>2, <1>3 DEF ops, some

\* Both tokens are stored, the access token first
LEMMA OpsTwo ==
  ASSUME NEW by, NEW tokens
  PROVE  LET ops == Ops(by, Both(tokens))
         IN  /\ ops \in Seq({Issued(by, "acc", tokens.acc),
                             Issued(by, "ref", tokens.ref)})
             /\ Len(ops) = 2
             /\ ops[1] = Issued(by, "acc", tokens.acc)
             /\ ops[2] = Issued(by, "ref", tokens.ref)
<1> DEFINE ops == Ops(by, Both(tokens))
           some == {Issued(by, "acc", tokens.acc), Issued(by, "ref", tokens.ref)}
<1>1. Len(Both(tokens)) = 2 /\ Both(tokens)[1] = <<"acc", tokens.acc>>
      /\ Both(tokens)[2] = <<"ref", tokens.ref>>
  BY DEF Both
<1>2. ops = [i \in 1 .. 2 |-> Issued(by, Both(tokens)[i][1], Both(tokens)[i][2])]
  BY <1>1 DEF Ops, Issued
<1>3. /\ ops[1] = Issued(by, "acc", tokens.acc)
      /\ ops[2] = Issued(by, "ref", tokens.ref)
  BY <1>1, <1>2
<1>4. ops \in [1 .. 2 -> some]
  <2>1. \A i \in 1 .. 2 : i = 1 \/ i = 2
    OBVIOUS
  <2>2. \A i \in 1 .. 2 : ops[i] \in some
    BY <1>3, <2>1
  <2> HIDE DEF some
  <2> QED BY <1>2, <2>2
<1> HIDE DEF ops, some
<1>5. ops \in Seq(some) /\ Len(ops) = 2
  BY <1>4, Pieces
<1> QED BY <1>3, <1>5 DEF ops, some

\* What a store operation is appended to stays in front of it.
LEMMA Appended ==
  ASSUME NEW S, NEW s \in Seq(S), NEW T, NEW ops \in Seq(T)
  PROVE  /\ Len(s \o ops) = Len(s) + Len(ops)
         /\ DOMAIN (s \o ops) = 1 .. Len(s) + Len(ops)
         /\ \A i \in 1 .. Len(s) : (s \o ops)[i] = s[i]
         /\ \A i \in 1 .. Len(ops) : (s \o ops)[Len(s) + i] = ops[i]
<1>1. s \in Seq(S \cup T) /\ ops \in Seq(S \cup T)
  BY SeqMonotonic
<1> QED BY <1>1, Joined

LEMMA LoadedStore ==
  ASSUME TypeOK, Counters
  PROVE  /\ Loaded \in Stores /\ Queue \in Seq(Operation)
         /\ Len(Queue) \in Nat /\ DOMAIN Queue = 1 .. Len(Queue)
<1>1. Loaded \in Stores
  BY DEF Loaded, Stores
<1>2. Queue \in Seq(Operation)
  BY <1>1 DEF Queue, Counters
<1> QED BY <1>1, <1>2, LenProperties

\* What is issued elsewhere leaves the queue alone.
LEMMA PutAside ==
  ASSUME TypeOK, Counters, UNCHANGED broken, NEW by, NEW store, NEW values,
         Put(by, store, values), store # Loaded
  PROVE  Queue' = Queue
<1>1. Loaded' = Loaded /\ Loaded \in Stores
  BY LoadedStore DEF Loaded
<1> QED BY <1>1 DEF Put, Queue, Counters

LEMMA PutThere ==
  ASSUME TypeOK, Counters, UNCHANGED broken, NEW by, NEW values, Put(by, Loaded, values)
  PROVE  Queue' = Queue \o Ops(by, values)
<1>1. Loaded' = Loaded /\ Loaded \in Stores
  BY LoadedStore DEF Loaded
<1> QED BY <1>1 DEF Put, Queue, Counters

LEMMA PutOne ==
  ASSUME TypeOK, Counters, UNCHANGED broken, NEW by, NEW v,
         Put(by, Loaded, <<<<"acc", v>>>>)
  PROVE  /\ Len(Queue') = Len(Queue) + 1 /\ DOMAIN Queue' = 1 .. Len(Queue) + 1
         /\ \A i \in 1 .. Len(Queue) : Queue'[i] = Queue[i]
         /\ Queue'[Len(Queue) + 1] = Issued(by, "acc", v)
<1> DEFINE ops == Ops(by, <<<<"acc", v>>>>)
           some == {Issued(by, "acc", v)}
<1>1. /\ ops \in Seq(some)
      /\ Len(ops) = 1 /\ ops[1] = Issued(by, "acc", v)
  BY OpsOne
<1>2. Queue' = Queue \o ops /\ Queue \in Seq(Operation)
  BY PutThere, LoadedStore
<1> HIDE DEF ops, some
<1>3. /\ Len(Queue \o ops) = Len(Queue) + Len(ops)
      /\ DOMAIN (Queue \o ops) = 1 .. Len(Queue) + Len(ops)
      /\ \A i \in 1 .. Len(Queue) : (Queue \o ops)[i] = Queue[i]
      /\ \A i \in 1 .. Len(ops) : (Queue \o ops)[Len(Queue) + i] = ops[i]
  <2>1. Queue \in Seq(Operation) /\ ops \in Seq(some)
    BY <1>1, <1>2
  <2> QED BY <2>1, Appended
<1>4. 1 \in 1 .. Len(ops)
  BY <1>1
<1> QED BY <1>1, <1>2, <1>3, <1>4

LEMMA PutTwo ==
  ASSUME TypeOK, Counters, UNCHANGED broken, NEW by, NEW tokens,
         Put(by, Loaded, Both(tokens))
  PROVE  /\ Len(Queue') = Len(Queue) + 2 /\ DOMAIN Queue' = 1 .. Len(Queue) + 2
         /\ \A i \in 1 .. Len(Queue) : Queue'[i] = Queue[i]
         /\ Queue'[Len(Queue) + 1] = Issued(by, "acc", tokens.acc)
         /\ Queue'[Len(Queue) + 2] = Issued(by, "ref", tokens.ref)
<1> DEFINE ops == Ops(by, Both(tokens))
           some == {Issued(by, "acc", tokens.acc), Issued(by, "ref", tokens.ref)}
<1>1. /\ ops \in Seq(some) /\ Len(ops) = 2
      /\ ops[1] = Issued(by, "acc", tokens.acc)
      /\ ops[2] = Issued(by, "ref", tokens.ref)
  BY OpsTwo
<1>2. Queue' = Queue \o ops /\ Queue \in Seq(Operation)
  BY PutThere, LoadedStore
<1> HIDE DEF ops, some
<1>3. /\ Len(Queue \o ops) = Len(Queue) + Len(ops)
      /\ DOMAIN (Queue \o ops) = 1 .. Len(Queue) + Len(ops)
      /\ \A i \in 1 .. Len(Queue) : (Queue \o ops)[i] = Queue[i]
      /\ \A i \in 1 .. Len(ops) : (Queue \o ops)[Len(Queue) + i] = ops[i]
  <2>1. Queue \in Seq(Operation) /\ ops \in Seq(some)
    BY <1>1, <1>2
  <2> QED BY <2>1, Appended
<1>4. 1 \in 1 .. Len(ops) /\ 2 \in 1 .. Len(ops)
  BY <1>1
<1> QED BY <1>1, <1>2, <1>3, <1>4

\* Typed tokens are stored by typed operations.
LEMMA PutTyped ==
  ASSUME writes \in [Stores -> Seq(Operation)], NEW by \in {user, "refresher"},
         NEW store \in Stores, NEW tokens \in Tokens
  PROVE  /\ Put(by, store, Both(tokens)) => writes' \in [Stores -> Seq(Operation)]
         /\ Put(by, store, <<<<"acc", tokens.acc>>>>)
              => writes' \in [Stores -> Seq(Operation)]
<1>1. /\ Issued(by, "acc", tokens.acc) \in Operation
      /\ Issued(by, "ref", tokens.ref) \in Operation
  BY DEF Issued, Operation, Tokens
<1>2. Ops(by, Both(tokens)) \in Seq(Operation)
  <2>1. Ops(by, Both(tokens)) \in
          Seq({Issued(by, "acc", tokens.acc), Issued(by, "ref", tokens.ref)})
    BY OpsTwo
  <2> QED BY <1>1, <2>1, SeqMonotonic
<1>3. Ops(by, <<<<"acc", tokens.acc>>>>) \in Seq(Operation)
  <2>1. Ops(by, <<<<"acc", tokens.acc>>>>) \in Seq({Issued(by, "acc", tokens.acc)})
    BY OpsOne
  <2> QED BY <1>1, <2>1, SeqMonotonic
<1>4. ASSUME NEW ops \in Seq(Operation), writes' = [writes EXCEPT ![store] = @ \o ops]
      PROVE  writes' \in [Stores -> Seq(Operation)]
  <2>1. writes[store] \o ops \in Seq(Operation)
    BY ConcatProperties
  <2> QED BY <1>4, <2>1
<1> QED BY <1>2, <1>3, <1>4 DEF Put

-----------------------------------------------------------------------------
(* Types of the session                                                    *)

LEMMA SessionBounds ==
  /\ MaxTokens \in Nat /\ MaxLogins \in Nat
  /\ user \in Task /\ user \notin Request /\ user # "refresher"
<1>1. /\ {MaxLogins, MaxTokens, MaxRestarts, MaxFaults} \subseteq Nat
      /\ user \notin Request \cup {"refresher"}
  BY ClientSessionAssumption DEF ClientSessionAssumption
<1> QED BY <1>1 DEF Task

LEMMA SessionTypesInit == Init => TypeOK /\ Counters
<1> SUFFICES ASSUME Init PROVE TypeOK /\ Counters
  OBVIOUS
<1>1. Nobody \in Tokens
  BY SessionBounds DEF Nobody, Tokens
<1>2. mem \in Tokens /\ stored \in [Stores -> Tokens]
  BY <1>1 DEF Init, Stores
<1>3. writes \in [Stores -> Seq(Operation)]
  <2>1. <<>> \in Seq(Operation)
    OBVIOUS
  <2> QED BY <2>1 DEF Init
<1>4. Counters
  BY <1>3, SessionBounds DEF Init, Counters, NoRefresh
<1>5. refresh.at = "none"
  BY DEF Init, NoRefresh
<1>6. secureOk \in BOOLEAN
  BY DEF Init
<1> QED BY <1>2, <1>4, <1>5, <1>6 DEF Init, TypeOK, Tokens

\* The three things an answer leads to
LEMMA ReceiveCases ==
  ASSUME NEW t \in Task, Receive(t)
  PROVE  /\ pc[t] \in {"sent", "again"} /\ UNCHANGED <<stored, secureOk, carries, doing, world>>
         /\ \/ Refresh(t)
            \/ t = user /\ doing = "login" /\ Login(logins + 1) /\ UNCHANGED <<refresh, failed>>
            \/ /\ At(t, "idle") /\ stage' \in {stage, "in", "out"}
               /\ (t # user => stage' = stage) /\ (t = user => stage' # "left")
               /\ UNCHANGED <<mem, writes, failed, refresh, server>>
<1>1. PICK answer \in Answers(t) :
        IF answer = "401" /\ pc[t] = "sent" /\ mem.acc # 0
        THEN Refresh(t) \/ (refresh.at = "none" /\ mem.ref = 0 /\ Done(t, "fail"))
        ELSE Done(t, answer)
  BY DEF Receive
<1>2. Refresh(t) \/ \E a : Done(t, a)
  BY <1>1
<1>3. ASSUME NEW a, Done(t, a)
      PROVE  \/ /\ t = user /\ doing = "login" /\ Login(logins + 1)
                /\ UNCHANGED <<refresh, failed>>
             \/ /\ At(t, "idle") /\ stage' \in {stage, "in", "out"}
                /\ (t # user => stage' = stage) /\ (t = user => stage' # "left")
                /\ UNCHANGED <<mem, writes, failed, refresh, server>>
  BY <1>3 DEF Done
<1> QED BY <1>2, <1>3 DEF Receive

LEMMA SessionTypesNext == TypeOK /\ Counters /\ [Next]_vars => TypeOK' /\ Counters'
<1> SUFFICES ASSUME TypeOK, Counters, [Next]_vars PROVE TypeOK' /\ Counters'
  OBVIOUS
<1> USE SessionBounds DEF TypeOK, Counters, client, server, world
<1>1. CASE UNCHANGED vars
  BY <1>1 DEF vars
<1>2. ASSUME NEW r \in Request, Start(r) PROVE TypeOK' /\ Counters'
  BY <1>2 DEF Start, Send, At, Task
<1>3. CASE Grant
  <2>1. issued' \in 0 .. MaxTokens /\ 1 .. issued \subseteq 1 .. issued'
    BY <1>3, SMTT(30) DEF Grant
  <2>2. \/ refresh' = [refresh EXCEPT !.at = "granted", !.acc = issued + 1]
           /\ issued + 1 \in 0 .. MaxTokens
        \/ refresh' = [refresh EXCEPT !.at = "denied"]
    BY <1>3, SMTT(30) DEF Grant
  <2>3. /\ refresh'.at \in {"granted", "denied"} /\ refresh' \in [at : {"granted", "denied"},
             ref : Nat, acc : 0 .. MaxTokens]
    <3>1. refresh \in [at : {"none", "asked", "granted", "denied", "store", "fallback",
                            "wipe", "wipeprefs"},
                      ref : Nat, acc : 0 .. MaxTokens]
      OBVIOUS
    <3>2. CASE refresh' = [refresh EXCEPT !.at = "denied"]
      BY <3>1, <3>2
    <3>3. CASE refresh' = [refresh EXCEPT !.at = "granted", !.acc = issued + 1]
               /\ issued + 1 \in 0 .. MaxTokens
      BY <3>1, <3>3
    <3> QED BY <2>2, <3>2, <3>3
  <2> QED BY <1>3, <2>1, <2>3 DEF Grant
<1>4. CASE RefreshFails
  BY <1>4 DEF RefreshFails, Fail, Wake, NoRefresh, StageAfterFailure
<1>5. CASE SignIn
  BY <1>5 DEF SignIn, Send, At
<1>6. CASE SignOut
  BY <1>6 DEF SignOut, At
<1>7. CASE Revoke
  BY <1>7 DEF Revoke, At
<1>8. CASE Expire
  BY <1>8 DEF Expire
<1>9. CASE RevokeAll
  BY <1>9 DEF RevokeAll
<1>10. ASSUME NEW store \in Stores, Perform(store) PROVE TypeOK' /\ Counters'
  <2> DEFINE op == Head(writes[store])
  <2>1. op \in Operation /\ Tail(writes[store]) \in Seq(Operation)
    BY <1>10, HeadTailProperties DEF Perform
  <2>2. writes' \in [Stores -> Seq(Operation)]
    BY <1>10, <2>1 DEF Perform
  <2>3. op.by \in {user, "refresher"} /\ op.key \in Keys
    BY <2>1 DEF Operation, Keys
  <2>4. /\ \/ stored' = [stored EXCEPT ![store][op.key] = op.val] /\ failed' = failed
           \/ stored' = stored /\ failed' = failed \cup {op.by}
        /\ missed' \subseteq missed \cup {op.key}
    BY <1>10 DEF Perform, Performed, NotPerformed
  <2> HIDE DEF op
  <2>5. stored' \in [Stores -> Tokens]
    <3>1. stored \in [Stores -> Tokens]
      BY DEF Tokens
    <3>2. \/ op.key = "acc" /\ op.val \in 0 .. MaxTokens
          \/ op.key = "ref" /\ op.val \in 0 .. MaxLogins
      BY <2>1 DEF Operation
    <3>3. ASSUME NEW tokens \in Tokens PROVE [tokens EXCEPT ![op.key] = op.val] \in Tokens
      BY <3>2 DEF Tokens
    <3>4. [stored[store] EXCEPT ![op.key] = op.val] \in Tokens
      BY <1>10, <3>1, <3>3
    <3> QED BY <1>10, <2>4, <3>1, <3>4
  <2>6. failed' \subseteq {user, "refresher"} /\ missed' \subseteq Keys
    BY <2>3, <2>4
  <2> QED BY <1>10, <2>2, <2>5, <2>6 DEF Perform, Tokens
<1>11. ASSUME NEW t \in Task, Receive(t) PROVE TypeOK' /\ Counters'
  <2>1. CASE Refresh(t)
    <3>1. refresh' \in [at : {"none", "asked", "granted", "denied", "store", "fallback",
                             "wipe", "wipeprefs"},
                       ref : Nat, acc : 0 .. MaxTokens]
      BY <2>1 DEF Refresh
    <3> QED BY <1>11, <2>1, <3>1, ReceiveCases, ZenonT(30) DEF Refresh, At
  <2>2. CASE t = user /\ Login(logins + 1) /\ UNCHANGED <<refresh, failed>>
    <3>1. issued + 1 \in 1 .. MaxTokens /\ logins + 1 \in 1 .. MaxLogins
      BY <2>2 DEF Login
    <3>2. /\ mem' = [acc |-> issued + 1, ref |-> logins + 1] /\ given' = mem'
          /\ mem' \in Tokens
      BY <2>2, <3>1 DEF Login, Tokens
    <3>3. Preferred \in Stores
      BY DEF Preferred, Stores
    <3>4. writes' \in [Stores -> Seq(Operation)]
      BY <2>2, <3>2, <3>3, PutTyped DEF Login
    <3>5. /\ 1 .. issued \subseteq 1 .. issued' /\ live' \subseteq 1 .. logins'
          /\ issued' \in 0 .. MaxTokens /\ logins' \in 0 .. MaxLogins
      BY <2>2, <3>1 DEF Login
    <3>6. /\ pc' = [pc EXCEPT ![t] = "store"] \/ pc' = [pc EXCEPT ![t] = "fallback"]
          /\ UNCHANGED <<broken, missed, stored, secureOk, failed, doing, stage, refresh,
                         expired>>
      BY <1>11, <2>2, ReceiveCases DEF Login, At
    <3>7. TypeOK'
      BY <3>2, <3>5, <3>6 DEF Tokens
    <3>8. Counters'
      BY <3>4, <3>5, <3>6
    <3> QED BY <3>7, <3>8
  <2>3. CASE At(t, "idle") /\ stage' \in {stage, "in", "out"}
             /\ UNCHANGED <<mem, writes, failed, refresh, server>>
    <3>1. UNCHANGED <<stored, secureOk, doing, world>>
      BY <1>11, ReceiveCases
    <3>2. pc' = [pc EXCEPT ![t] = "idle"]
      BY <2>3 DEF At
    <3> QED BY <2>3, <3>1, <3>2
  <2> QED BY <1>11, <2>1, <2>2, <2>3, ReceiveCases
<1>12. ASSUME NEW by \in {user, "refresher"}, Clear(by) \/ ClearPrefs(by)
       PROVE  mem' \in Tokens /\ writes' \in [Stores -> Seq(Operation)]
  <2>1. Nobody \in Tokens /\ mem \in Tokens /\ Preferred \in Stores
    BY DEF Nobody, Tokens, Preferred, Stores
  <2>2. "prefs" \in Stores
    BY DEF Stores
  <2> QED BY <1>12, <2>1, <2>2, PutTyped DEF Clear, ClearPrefs
<1>13. CASE RefreshReceived
  <2>1. CASE refresh.at = "granted" /\ Save
    <3>1. mem' = [mem EXCEPT !.acc = refresh.acc] /\ mem' \in Tokens
      BY <2>1 DEF Save, Tokens
    <3>2. mem'.acc = refresh.acc /\ Preferred \in Stores
      BY <3>1 DEF Preferred, Stores
    <3>3. writes' \in [Stores -> Seq(Operation)]
      BY <2>1, <3>1, <3>2, PutTyped DEF Save
    <3> QED BY <1>13, <2>1, <3>1, <3>3, SMTT(30) DEF RefreshReceived, Tokens
  <2>2. CASE Clear("refresher")
    BY <1>12, <1>13, <2>2, SMTT(30) DEF RefreshReceived, Tokens
  <2> QED BY <1>13, <2>1, <2>2 DEF RefreshReceived
<1>14. CASE RefreshStored
  <2>1. CASE refresh.at = "store" /\ Put("refresher", "prefs", <<<<"acc", refresh.acc>>>>)
             /\ refresh' = [refresh EXCEPT !.at = "fallback"] /\ secureOk' = FALSE
             /\ UNCHANGED <<mem, pc, carries, stage>>
    <3>1. PICK tokens \in Tokens : tokens.acc = refresh.acc
      <4>1. [acc |-> refresh.acc, ref |-> 0] \in Tokens
        BY DEF Tokens
      <4> QED BY <4>1
    <3>2. writes' \in [Stores -> Seq(Operation)]
      BY <2>1, <3>1, PutTyped DEF Stores
    <3> QED BY <1>14, <2>1, <3>2 DEF RefreshStored
  <2>2. CASE (Succeed \/ Fail) /\ UNCHANGED <<mem, secureOk, writes>>
    <3>1. refresh' = NoRefresh /\ stage' \in {stage, "out"}
          /\ \A c \in Task : pc'[c] \in {pc[c], "again", "idle"}
          /\ pc' = [d \in Task |-> pc'[d]]
      BY <2>2 DEF Succeed, Fail, Wake, StageAfterFailure
    <3>2. failed' \subseteq failed /\ UNCHANGED <<stored, doing, server, world>>
      BY <1>14 DEF RefreshStored
    <3>3. \A c \in Task : pc'[c] \in {"idle", "sent", "waiting", "again", "store", "fallback",
                                    "revoke", "revoked", "wipe", "wipeprefs"}
      BY <3>1
    <3> QED BY <2>2, <3>1, <3>2, <3>3, SMTT(30) DEF NoRefresh
  <2>3. CASE ClearPrefs("refresher") /\ refresh' = [refresh EXCEPT !.at = "wipeprefs"]
             /\ UNCHANGED <<secureOk, pc, carries, stage>>
    <3>1. mem' = mem /\ writes' \in [Stores -> Seq(Operation)]
      BY <1>12, <2>3 DEF ClearPrefs
    <3>2. failed' \subseteq failed /\ UNCHANGED <<stored, doing, server, world>>
      BY <1>14 DEF RefreshStored
    <3> QED BY <2>3, <3>1, <3>2
  <2> QED BY <1>14, <2>1, <2>2, <2>3 DEF RefreshStored
<1>15. CASE SignInStored
  <2>1. given \in Tokens
    BY DEF Tokens
  <2>2. Put(user, "prefs", Both(given)) => writes' \in [Stores -> Seq(Operation)]
    BY <2>1, PutTyped DEF Stores
  <2>3. /\ writes' \in [Stores -> Seq(Operation)] /\ secureOk' \in BOOLEAN
        /\ stage' \in {stage, "out", "in"} /\ failed' \subseteq failed
        /\ pc' = [pc EXCEPT ![user] = "fallback"] \/ pc' = [pc EXCEPT ![user] = "idle"]
    BY <1>15, <2>2, ZenonT(30) DEF SignInStored, At
  <2>4. UNCHANGED <<mem, stored, doing, refresh, server, world>>
    BY <1>15 DEF SignInStored
  <2> QED BY <2>3, <2>4
<1>16. CASE Revoked
  BY <1>12, <1>16 DEF Revoked, Wipe, At, Tokens
<1>17. CASE SignOutStored
  <2>1. ClearPrefs(user) => writes' \in [Stores -> Seq(Operation)] /\ mem' = mem
    BY <1>12 DEF ClearPrefs
  <2>2. /\ writes' \in [Stores -> Seq(Operation)] /\ mem' = mem
        /\ stage' \in {stage, "left"} /\ failed' \subseteq failed
        /\ pc' = [pc EXCEPT ![user] = "wipeprefs"] \/ pc' = [pc EXCEPT ![user] = "idle"]
    BY <1>17, <2>1, ZenonT(30) DEF SignOutStored, At
  <2>3. UNCHANGED <<stored, secureOk, doing, refresh, server, world>>
    BY <1>17 DEF SignOutStored
  <2> QED BY <2>2, <2>3
<1>18. CASE Restart
  <2>1. mem' \in Tokens /\ missed' \subseteq Keys
    <3>1. Reloaded \in Tokens /\ Nobody \in Tokens
      BY DEF Reloaded, Loaded, Tokens, Stores, Nobody
    <3> QED BY <1>18, <3>1 DEF Restart, Load
  <2>2. writes' \in [Stores -> Seq(Operation)]
    <3>1. <<>> \in Seq(Operation)
      OBVIOUS
    <3> QED BY <1>18, <3>1 DEF Restart
  <2> QED BY <1>18, <2>1, <2>2 DEF Restart, NoRefresh, Tokens
<1> QED BY <1>1, <1>2, <1>3, <1>4, <1>5, <1>6, <1>7, <1>8, <1>9, <1>10, <1>11, <1>13, <1>14,
           <1>15, <1>16, <1>17, <1>18 DEF Next, RefreshStep, UserStep

-----------------------------------------------------------------------------
(* Calls that wait                                                         *)

\* A step that ends a refresh wakes everybody who waits for it.
LEMMA WaitingNext ==
  ASSUME TypeOK, Counters, NobodyForgotten, [Next]_vars PROVE NobodyForgotten'
<1> USE SessionBounds DEF NobodyForgotten, Waiting, TypeOK, Counters
<1>1. ASSUME refresh'.at # "none" PROVE NobodyForgotten'
  BY <1>1
<1>2. ASSUME NEW t \in Task, pc' = [pc EXCEPT ![t] = pc'[t]], pc'[t] # "waiting",
             refresh' = refresh
      PROVE  NobodyForgotten'
  BY <1>2
<1>3. CASE UNCHANGED <<pc, refresh>>
  BY <1>3
<1>4. CASE Succeed \/ Fail
  BY <1>4 DEF Succeed, Fail, Wake
<1>5. ASSUME NEW r \in Request, Start(r) PROVE NobodyForgotten'
  BY <1>2, <1>5 DEF Start, Send, At, Task
<1>6. ASSUME NEW t \in Task, Receive(t) PROVE NobodyForgotten'
  <2>1. CASE Refresh(t)
    BY <1>1, <2>1 DEF Refresh
  <2>2. CASE refresh' = refresh /\ \E where \in {"idle", "store", "fallback"} : At(t, where)
    BY <1>2, <2>2 DEF At
  <2> QED BY <1>6, <2>1, <2>2, ReceiveCases DEF Login
<1>7. CASE RefreshStep
  BY <1>1, <1>4, <1>7 DEF RefreshStep, Grant, RefreshFails, RefreshReceived, RefreshStored
<1>8. CASE SignIn \/ SignOut \/ UserStep
  <2>1. refresh' = refresh /\ \E where \in {"sent", "fallback", "idle", "revoke", "revoked",
                                         "wipe", "wipeprefs"} : At(user, where)
    BY <1>8 DEF SignIn, SignOut, UserStep, SignInStored, Revoke, Revoked, SignOutStored, Wipe,
       Send
  <2> QED BY <1>2, <2>1 DEF At
<1>9. CASE Restart
  BY <1>9 DEF Restart
<1>10. CASE (\E s \in Stores : Perform(s)) \/ Expire \/ RevokeAll \/ UNCHANGED vars
  BY <1>3, <1>10 DEF Perform, Expire, RevokeAll, vars, client
<1> QED BY <1>5, <1>6, <1>7, <1>8, <1>9, <1>10 DEF Next

-----------------------------------------------------------------------------
(* What the stores will hold                                               *)

LEMMA SteadyInit == Init => Steady
<1> SUFFICES ASSUME Init PROVE Steady
  OBVIOUS
<1>1. (secureOk <=> ~broken) /\ refresh.at = "none"
  BY DEF Init, NoRefresh
<1>2. pc[user] = "idle"
  BY SessionBounds DEF Init
<1> QED BY <1>1, <1>2 DEF Steady

LEMMA SteadyNext == TypeOK /\ Counters /\ Steady /\ [Next]_vars => Steady'
<1> SUFFICES ASSUME TypeOK, Counters, Steady, [Next]_vars PROVE Steady'
  OBVIOUS
<1> USE SessionBounds DEF Steady, TypeOK
<1>1. ASSUME NEW r \in Request, Start(r) PROVE Steady'
  BY <1>1 DEF Start, Send, At, world, Task
<1>2. ASSUME NEW t \in Task, Receive(t) PROVE Steady'
  <2>1. CASE Refresh(t)
    <3>1. /\ UNCHANGED <<broken, secureOk>> /\ pc' = [pc EXCEPT ![t] = "waiting"]
          /\ refresh' = refresh \/ refresh'.at = "asked"
      BY <1>2, <2>1, ReceiveCases DEF Refresh, At, world
    <3> QED BY <3>1
  <2>2. CASE t = user /\ Login(logins + 1) /\ UNCHANGED <<refresh, failed>>
    <3>1. /\ UNCHANGED <<broken, secureOk, refresh>>
          /\ pc' = [pc EXCEPT ![user] = IF secureOk THEN "store" ELSE "fallback"]
      BY <1>2, <2>2, ReceiveCases DEF Login, At, world
    <3>2. pc'[user] = IF secureOk THEN "store" ELSE "fallback"
      BY <3>1
    <3> QED BY <3>1, <3>2
  <2>3. CASE At(t, "idle") /\ UNCHANGED <<failed, refresh>>
    BY <1>2, <2>3, ReceiveCases DEF At, world
  <2> QED BY <1>2, <2>1, <2>2, <2>3, ReceiveCases
<1>3. CASE Grant
  BY <1>3, ZenonT(30) DEF Grant, world, Counters
<1>4. CASE RefreshFails
  BY <1>4 DEF RefreshFails, Fail, Wake, world, NoRefresh
<1>5. CASE RefreshReceived
  BY <1>5 DEF RefreshReceived, world, Counters
<1>6. CASE RefreshStored
  <2>1. broken' = broken
    BY <1>6 DEF RefreshStored, world
  <2>2. CASE refresh.at = "store" /\ "refresher" \in failed
    BY <1>6, <2>1, <2>2 DEF RefreshStored, Counters
  <2>3. CASE (Succeed \/ Fail) /\ UNCHANGED secureOk
    BY <2>1, <2>3 DEF Succeed, Fail, Wake, NoRefresh
  <2>4. CASE refresh' = [refresh EXCEPT !.at = "wipeprefs"] /\ UNCHANGED <<secureOk, pc>>
    BY <2>1, <2>4 DEF Counters
  <2> QED BY <1>6, <2>2, <2>3, <2>4 DEF RefreshStored
<1>7. CASE SignIn \/ SignOut \/ Revoke
  <2>1. /\ UNCHANGED <<broken, secureOk, refresh>>
        /\ \E where \in {"sent", "revoke", "revoked"} : pc' = [pc EXCEPT ![user] = where]
    BY <1>7 DEF SignIn, SignOut, Revoke, Send, At, world
  <2> QED BY <2>1
<1>8. CASE Revoked
  BY <1>8 DEF Revoked, Wipe, At, world
<1>9. CASE SignInStored
  BY <1>9 DEF SignInStored, At, world
<1>10. CASE SignOutStored
  BY <1>10 DEF SignOutStored, At, world
<1>11. CASE Restart
  BY <1>11 DEF Restart, NoRefresh
<1>12. ASSUME NEW store \in Stores, Perform(store) PROVE Steady'
  BY <1>12 DEF Perform
<1>13. CASE Expire \/ RevokeAll \/ UNCHANGED vars
  BY <1>13 DEF Expire, RevokeAll, vars, client, world
<1> QED BY <1>1, <1>2, <1>3, <1>4, <1>5, <1>6, <1>7, <1>8, <1>9, <1>10, <1>11, <1>12, <1>13
    DEF Next, RefreshStep, UserStep

\* What a step may issue where the next start reads: both tokens or one, as memory
\* now holds them, or nothing.
StorePair(by) == mem' \in Tokens /\ Put(by, Loaded, Both(mem'))
StoreAccess(v) ==
  mem' = [mem EXCEPT !.acc = v] /\ Put("refresher", Loaded, <<<<"acc", v>>>>)

StoreStep ==
  \/ mem' = mem /\ Queue' = Queue
  \/ StorePair(user) \/ StorePair("refresher")
  \/ StoreAccess(refresh.acc)

LEMMA BrokenFixed ==
  ASSUME Next PROVE UNCHANGED broken
BY Zenon DEF Next, RefreshStep, UserStep, Perform, Restart, Start, Receive, Grant, RefreshFails,
   RefreshReceived, RefreshStored, SignIn, SignOut, SignInStored, Revoke, Revoked,
   SignOutStored, Expire, RevokeAll, client, world

Performing == \E store \in Stores : Perform(store)

\* A step other than those of the stores themselves and of a start
LEMMA StorageStep ==
  ASSUME TypeOK, Counters, Steady, Usual', Next, ~Performing, ~Restart
  PROVE  Usual /\ UNCHANGED <<stored, broken, missed>> /\ StoreStep
<1>1. UNCHANGED <<stored, broken, missed>>
  BY Zenon DEF Performing, Next, RefreshStep, UserStep, Start, Receive, Grant, RefreshFails,
     RefreshReceived, RefreshStored, SignIn, SignOut, SignInStored, Revoke, Revoked,
     SignOutStored, Expire, RevokeAll, client, world
<1>2. Loaded' = Loaded
  BY <1>1 DEF Loaded
<1>3. secureOk' = secureOk \/ secureOk' = FALSE
  BY Zenon DEF Performing, Next, RefreshStep, UserStep, Start, Receive, Grant, RefreshFails,
     RefreshReceived, RefreshStored, SignIn, SignOut, SignInStored, Revoke, Revoked,
     SignOutStored, Expire, RevokeAll, client, world
<1>4. secureOk' = ~broken /\ secureOk = ~broken
  <2>1. secureOk \in BOOLEAN /\ broken \in BOOLEAN
    BY DEF TypeOK
  <2>2. (secureOk' <=> ~broken) /\ (broken => ~secureOk)
    BY <1>2, <2>1 DEF Usual, Preferred, Loaded, Steady
  <2> QED BY <1>3, <2>1, <2>2
<1>5. Usual /\ Preferred = Loaded
  BY <1>4 DEF Usual, Preferred, Loaded
<1> SUFFICES StoreStep
  BY <1>1, <1>5
<1>6. ASSUME mem' = mem, writes' = writes PROVE StoreStep
  BY <1>2, <1>6 DEF StoreStep, Queue
<1>7. ASSUME NEW by \in {user, "refresher"}, StorePair(by) PROVE StoreStep
  BY <1>7, Zenon DEF StoreStep
<1>8. ASSUME NEW by \in {user, "refresher"}, Clear(by) PROVE StoreStep
  <2>1. StorePair(by)
    BY <1>5, <1>8, SessionBounds DEF Clear, StorePair, Nobody, Tokens
  <2> QED BY <1>7, <2>1
<1>9. ASSUME NEW by, ClearPrefs(by), ~broken PROVE StoreStep
  <2>1. Put(by, "prefs", Both(Nobody)) /\ "prefs" # Loaded /\ mem' = mem
    BY <1>9 DEF ClearPrefs, Loaded
  <2>2. Queue' = Queue
    BY <1>1, <2>1, PutAside
  <2> QED BY <2>1, <2>2 DEF StoreStep
<1>10. ASSUME NEW t \in Task, Receive(t) PROVE StoreStep
  <2>1. CASE Login(logins + 1)
    <3>1. issued + 1 \in 0 .. MaxTokens /\ logins + 1 \in 0 .. MaxLogins
      BY <2>1, SessionBounds DEF Login, Counters
    <3>2. mem' \in Tokens /\ Put(user, Preferred, Both(mem'))
      BY <2>1, <3>1 DEF Login, Tokens
    <3>3. StorePair(user)
      BY <1>5, <3>2 DEF StorePair
    <3> QED BY <1>7, <3>3
  <2>2. CASE UNCHANGED <<mem, writes>>
    BY <1>6, <2>2
  <2> QED BY <1>10, <2>1, <2>2, ReceiveCases DEF Refresh
<1>11. CASE RefreshReceived
  <2>1. CASE Save
    <3>1. StoreAccess(refresh.acc)
      BY <1>5, <2>1 DEF Save, StoreAccess
    <3> QED BY <3>1, Zenon DEF StoreStep
  <2>2. CASE Clear("refresher")
    BY <1>8, <2>2
  <2> QED BY <1>11, <2>1, <2>2 DEF RefreshReceived
<1>12. CASE RefreshStored
  <2>1. ~(refresh.at = "store" /\ "refresher" \in failed)
    <3>1. SUFFICES ASSUME refresh.at = "store", "refresher" \in failed PROVE FALSE
      OBVIOUS
    <3>2. secureOk' = FALSE
      BY <1>12, <3>1 DEF RefreshStored
    <3> QED BY <1>4, <3>1, <3>2 DEF Steady
  <2>2. refresh.at = "wipe" => ~broken
    BY DEF Steady
  <2>3. UNCHANGED <<mem, writes>> \/ (refresh.at = "wipe" /\ ClearPrefs("refresher"))
    BY <1>12, <2>1 DEF RefreshStored
  <2> QED BY <1>6, <1>9, <2>2, <2>3
<1>13. CASE SignInStored
  <2>1. ~(pc[user] = "store" /\ user \in failed)
    <3>1. SUFFICES ASSUME pc[user] = "store", user \in failed PROVE FALSE
      OBVIOUS
    <3>2. secureOk' = FALSE
      BY <1>13, <3>1 DEF SignInStored
    <3> QED BY <1>4, <3>1, <3>2 DEF Steady
  <2>2. UNCHANGED <<mem, writes>>
    BY <1>13, <2>1 DEF SignInStored
  <2> QED BY <1>6, <2>2
<1>14. CASE Revoked
  BY <1>8, <1>14 DEF Revoked, Wipe
<1>15. CASE SignOutStored
  <2>1. pc[user] = "wipe" => ~broken
    BY DEF Steady
  <2>2. UNCHANGED <<mem, writes>> \/ (pc[user] = "wipe" /\ ClearPrefs(user))
    BY <1>15 DEF SignOutStored
  <2> QED BY <1>6, <1>9, <2>1, <2>2
<1>16. ASSUME NEW r \in Request, Start(r) PROVE StoreStep
  BY <1>6, <1>16 DEF Start
<1>17. CASE Grant \/ RefreshFails \/ SignIn \/ SignOut \/ Revoke \/ Expire \/ RevokeAll
  <2>1. UNCHANGED <<mem, writes>>
    BY <1>17 DEF Grant, RefreshFails, SignIn, SignOut, Revoke, Expire, RevokeAll, client
  <2> QED BY <1>6, <2>1
<1> QED BY <1>10, <1>11, <1>12, <1>13, <1>14, <1>15, <1>16, <1>17
     DEF Performing, Next, RefreshStep, UserStep

\* Operations issued in one step: the last of them on a key brings what memory holds
LEMMA Newest ==
  ASSUME TypeOK, Counters, NEW n \in Nat, UNCHANGED <<stored, broken, missed>>,
         DOMAIN Queue' = 1 .. Len(Queue) + n,
         \A i \in 1 .. Len(Queue) : Queue'[i] = Queue[i],
         NEW key, Catches(key),
         \/ /\ mem'[key] = mem[key]
            /\ \A i \in 1 .. n : Len(Queue) + i \notin On(key)'
         \/ /\ \E i \in 1 .. n : Len(Queue) + i \in On(key)'
            /\ \A i \in 1 .. n : Len(Queue) + i \in On(key)'
                                  => Queue'[Len(Queue) + i].val = mem'[key]
  PROVE  Catches(key)'
<1>1. Len(Queue) \in Nat /\ DOMAIN Queue = 1 .. Len(Queue) /\ Loaded' = Loaded
  BY LoadedStore DEF Loaded
<1>2. \A i \in DOMAIN Queue' : i \in DOMAIN Queue \/ \E j \in 1 .. n : i = Len(Queue) + j
  <2>1. ASSUME NEW i \in 1 .. Len(Queue) + n, i \notin 1 .. Len(Queue)
        PROVE  \E j \in 1 .. n : i = Len(Queue) + j
    <3>1. i - Len(Queue) \in 1 .. n /\ i = Len(Queue) + (i - Len(Queue))
      BY <1>1, <2>1
    <3> QED BY <3>1
  <2> QED BY <1>1, <2>1
<1>3. \A i \in DOMAIN Queue : i \in DOMAIN Queue' /\ (i \in On(key)' <=> i \in On(key))
  BY <1>1 DEF On
<1>4. On(key) \subseteq DOMAIN Queue /\ On(key)' \subseteq DOMAIN Queue'
  BY DEF On
<1>5. CASE /\ mem'[key] = mem[key]
           /\ \A i \in 1 .. n : Len(Queue) + i \notin On(key)'
  <2>1. On(key)' = On(key)
    BY <1>2, <1>3, <1>4, <1>5
  <2>2. \A i \in On(key) : Queue'[i] = Queue[i]
    BY <1>1, <1>4
  <2> QED BY <1>1, <1>5, <2>1, <2>2 DEF Catches
<1>6. CASE /\ \E i \in 1 .. n : Len(Queue) + i \in On(key)'
           /\ \A i \in 1 .. n : Len(Queue) + i \in On(key)'
                                 => Queue'[Len(Queue) + i].val = mem'[key]
  <2>1. ASSUME NEW i \in On(key)', \A j \in On(key)' : j <= i PROVE Queue'[i].val = mem'[key]
    <3>1. PICK j \in 1 .. n : Len(Queue) + j \in On(key)'
      BY <1>6
    <3>2. i \notin DOMAIN Queue
      BY <1>1, <2>1, <3>1
    <3>3. PICK h \in 1 .. n : i = Len(Queue) + h
      BY <1>2, <1>4, <3>2
    <3> QED BY <1>6, <3>3
  <2> QED BY <1>6, <2>1 DEF Catches
<1> QED BY <1>5, <1>6

\* What a step issues keeps the stores catching up.
LEMMA StoresCatch ==
  ASSUME TypeOK, Counters, StoreStep, UNCHANGED <<stored, broken, missed>>,
         Catches("acc"), Catches("ref")
  PROVE  Catches("acc")' /\ Catches("ref")'
<1>1. Loaded' = Loaded /\ Len(Queue) \in Nat
  BY LoadedStore DEF Loaded
<1>2. \A i \in 1 .. 2 : i = 1 \/ i = 2
  OBVIOUS
<1>3. CASE mem' = mem /\ Queue' = Queue
  BY <1>1, <1>3 DEF Catches, On
<1>4. ASSUME NEW by, StorePair(by) PROVE Catches("acc")' /\ Catches("ref")'
  <2>1. /\ DOMAIN Queue' = 1 .. Len(Queue) + 2
        /\ \A i \in 1 .. Len(Queue) : Queue'[i] = Queue[i]
        /\ Queue'[Len(Queue) + 1] = Issued(by, "acc", mem'.acc)
        /\ Queue'[Len(Queue) + 2] = Issued(by, "ref", mem'.ref)
    BY <1>1, <1>4, PutTwo DEF StorePair
  <2>2. Len(Queue) + 1 \in On("acc")' /\ Len(Queue) + 2 \notin On("acc")'
    BY <1>1, <2>1 DEF On, Issued
  <2>3. Len(Queue) + 1 \notin On("ref")' /\ Len(Queue) + 2 \in On("ref")'
    BY <1>1, <2>1 DEF On, Issued
  <2>4. /\ Queue'[Len(Queue) + 1].val = mem'["acc"]
        /\ Queue'[Len(Queue) + 2].val = mem'["ref"]
    BY <2>1 DEF Issued
  <2>5. Catches("acc")'
    BY <1>2, <2>1, <2>2, <2>4, Newest
  <2>6. Catches("ref")'
    BY <1>2, <2>1, <2>3, <2>4, Newest
  <2> QED BY <2>5, <2>6
<1>5. CASE StoreAccess(refresh.acc)
  <2>1. /\ DOMAIN Queue' = 1 .. Len(Queue) + 1
        /\ \A i \in 1 .. Len(Queue) : Queue'[i] = Queue[i]
        /\ Queue'[Len(Queue) + 1] = Issued("refresher", "acc", refresh.acc)
    BY <1>1, <1>5, PutOne DEF StoreAccess
  <2>2. Len(Queue) + 1 \in On("acc")' /\ Len(Queue) + 1 \notin On("ref")'
    BY <1>1, <2>1 DEF On, Issued
  <2>3. mem'["acc"] = refresh.acc /\ mem'["ref"] = mem["ref"]
    BY <1>5 DEF StoreAccess, TypeOK
  <2>4. Queue'[Len(Queue) + 1].val = mem'["acc"] /\ \A i \in 1 .. 1 : i = 1
    BY <2>1, <2>3 DEF Issued
  <2>5. Catches("acc")'
    BY <2>1, <2>2, <2>4, Newest
  <2>6. Catches("ref")'
    BY <2>1, <2>2, <2>3, <2>4, Newest
  <2> QED BY <2>5, <2>6
<1> QED BY <1>3, <1>4, <1>5 DEF StoreStep

\* The operations under way move up by one when the first is over.
LEMMA Shifted ==
  ASSUME TypeOK, Counters, Queue # <<>>, Queue' = Tail(Queue), UNCHANGED broken, NEW key
  PROVE  /\ On(key)' \subseteq Nat \ {0} /\ On(key) \subseteq Nat \ {0}
         /\ \A i \in On(key)' : i + 1 \in On(key) /\ Queue'[i] = Queue[i + 1]
         /\ \A i \in On(key) : i # 1 => i - 1 \in On(key)'
<1>1. /\ Len(Queue) \in Nat \ {0} /\ DOMAIN Queue = 1 .. Len(Queue)
      /\ DOMAIN Queue' = 1 .. Len(Queue) - 1
      /\ \A i \in 1 .. Len(Queue) - 1 : Queue'[i] = Queue[i + 1]
  <2>1. Queue \in Seq(Operation)
    BY LoadedStore
  <2> QED BY <2>1
<1>2. Loaded' = Loaded
  BY DEF Loaded
<1>3. On(key) \subseteq DOMAIN Queue /\ On(key)' \subseteq DOMAIN Queue'
  BY DEF On
<1>4. \A i \in On(key)' : i + 1 \in On(key) /\ Queue'[i] = Queue[i + 1]
  BY <1>1, <1>2, <1>3 DEF On
<1>5. ASSUME NEW i \in On(key), i # 1 PROVE i - 1 \in On(key)'
  <2>1. i - 1 \in 1 .. Len(Queue) - 1 /\ (i - 1) + 1 = i
    BY <1>1, <1>3, <1>5
  <2>2. Queue'[i - 1] = Queue[i]
    BY <1>1, <2>1
  <2> QED BY <1>1, <1>2, <1>5, <2>1, <2>2 DEF On
<1> QED BY <1>1, <1>3, <1>4, <1>5

\* The first operation on the store the next start reads is over, for one of its keys:
\* it was performed, or it failed, or it was on the other key.
FirstOver(key) ==
  /\ Queue # <<>> /\ Queue' = Tail(Queue)
  /\ \/ 1 \in On(key) /\ stored'[Loaded][key] = Queue[1].val
     \/ /\ 1 \in On(key) /\ stored'[Loaded][key] = stored[Loaded][key]
        /\ key \in missed' /\ Queue[1].by \in failed'
     \/ /\ 1 \notin On(key) /\ stored'[Loaded][key] = stored[Loaded][key]
        /\ (key \in missed <=> key \in missed')

LEMMA PerformCatches ==
  ASSUME TypeOK, Counters, UNCHANGED <<mem, broken>>, NEW key, Catches(key), FirstOver(key)
  PROVE  Catches(key)'
<1>1. Loaded' = Loaded /\ Queue # <<>> /\ Queue' = Tail(Queue)
  BY DEF Loaded, FirstOver
<1>2. CASE On(key)' = {}
  <2>1. \A i \in On(key) : i = 1
    BY <1>1, <1>2, Shifted
  <2>2. CASE 1 \in On(key)
    <3>1. \A j \in On(key) : j <= 1
      BY <2>1
    <3>2. Queue[1].val = mem[key]
      BY <2>2, <3>1 DEF Catches
    <3> QED BY <1>1, <1>2, <2>2, <3>2 DEF Catches, FirstOver
  <2>3. CASE 1 \notin On(key)
    <3>1. On(key) = {}
      BY <2>1, <2>3
    <3> QED BY <1>1, <1>2, <2>3, <3>1 DEF Catches, FirstOver
  <2> QED BY <2>2, <2>3
<1>3. ASSUME NEW i \in On(key)', \A j \in On(key)' : j <= i PROVE Queue'[i].val = mem'[key]
  <2>1. i + 1 \in On(key) /\ Queue'[i] = Queue[i + 1] /\ i \in Nat \ {0}
    BY <1>1, <1>3, Shifted
  <2>2. ASSUME NEW j \in On(key) PROVE j <= i + 1
    <3>1. j = 1 \/ j - 1 <= i
      BY <1>1, <1>3, Shifted
    <3>2. j \in Nat
      BY <1>1, Shifted
    <3> QED BY <2>1, <3>1, <3>2
  <2> QED BY <2>1, <2>2 DEF Catches
<1> QED BY <1>2, <1>3 DEF Catches

\* An operation that is over
LEMMA PerformCase ==
  ASSUME TypeOK, Counters, NEW store \in Stores, Perform(store)
  PROVE  /\ UNCHANGED <<mem, broken, secureOk>> /\ failed \subseteq failed'
         /\ \/ Queue' = Queue /\ stored'[Loaded] = stored[Loaded] /\ missed' = missed
            \/ \A key \in Keys : FirstOver(key)
<1> DEFINE op == Head(writes[store])
<1>1. /\ writes[store] # <<>> /\ writes' = [writes EXCEPT ![store] = Tail(@)]
      /\ UNCHANGED <<mem, broken, secureOk>> /\ failed \subseteq failed'
      /\ Performed(store, op) \/ NotPerformed(store, op)
  BY DEF Perform, Performed, NotPerformed
<1>2. Loaded' = Loaded /\ Loaded \in Stores
  BY <1>1, LoadedStore DEF Loaded
<1>3. op \in Operation
  BY <1>1, HeadTailProperties DEF Counters
<1>4. op.key \in Keys
  BY <1>3 DEF Operation, Keys
<1>5. CASE store # Loaded
  <2>1. Queue' = Queue
    BY <1>1, <1>2, <1>5 DEF Queue, Counters
  <2>2. stored'[Loaded] = stored[Loaded] /\ missed' = missed
    BY <1>1, <1>2, <1>5 DEF Performed, NotPerformed, TypeOK
  <2> QED BY <1>1, <2>1, <2>2
<1>6. CASE store = Loaded
  <2>1. Queue # <<>> /\ Queue' = Tail(Queue) /\ op = Head(Queue)
    BY <1>1, <1>2, <1>6 DEF Queue, Counters
  <2>2. Queue[1] = op /\ 1 \in DOMAIN Queue
    BY <2>1, LoadedStore
  <2>3. \A key : 1 \in On(key) <=> op.key = key
    BY <2>2 DEF On
  <2> HIDE DEF op
  <2>4. ASSUME NEW key \in Keys PROVE FirstOver(key)
    <3>1. CASE Performed(store, op)
      <4>1. stored' = [stored EXCEPT ![Loaded][op.key] = op.val]
            /\ missed' = missed \ {op.key}
        BY <1>6, <3>1 DEF Performed
      <4>2. stored \in [Stores -> Tokens]
        BY DEF TypeOK, Tokens
      <4>3. ASSUME NEW tokens \in Tokens
            PROVE  [tokens EXCEPT ![op.key] = op.val][key] = IF op.key = key THEN op.val
                                                            ELSE tokens[key]
        BY <1>4 DEF Tokens, Keys
      <4>4. stored'[Loaded][key] = IF op.key = key THEN op.val ELSE stored[Loaded][key]
        BY <1>2, <4>1, <4>2, <4>3
      <4> QED BY <2>1, <2>2, <2>3, <4>1, <4>4 DEF FirstOver
    <3>2. CASE NotPerformed(store, op)
      <4>1. stored' = stored /\ missed' = missed \cup {op.key} /\ op.by \in failed'
        BY <1>6, <3>2 DEF NotPerformed
      <4> QED BY <2>1, <2>2, <2>3, <4>1 DEF FirstOver
    <3> QED BY <1>1, <3>1, <3>2
  <2> QED BY <1>1, <2>4
<1> QED BY <1>5, <1>6

LEMMA CatchingNext ==
  TypeOK /\ Counters /\ Steady /\ Catching /\ [Next]_vars => Catching'
<1> SUFFICES ASSUME TypeOK, Counters, Steady, Catching, [Next]_vars, Usual'
             PROVE  Catches("acc")' /\ Catches("ref")'
  BY DEF Catching
<1>1. UNCHANGED broken /\ Loaded' = Loaded
  BY BrokenFixed DEF vars, world, Loaded
<1>2. ASSUME NEW store \in Stores, Perform(store) PROVE Catches("acc")' /\ Catches("ref")'
  <2>1. /\ UNCHANGED <<mem, broken, secureOk>>
        /\ \/ Queue' = Queue /\ stored'[Loaded] = stored[Loaded] /\ missed' = missed
           \/ \A key \in Keys : FirstOver(key)
    BY <1>2, PerformCase
  <2>2. Catches("acc") /\ Catches("ref")
    BY <1>1, <2>1 DEF Catching, Usual, Preferred
  <2>3. CASE Queue' = Queue /\ stored'[Loaded] = stored[Loaded] /\ missed' = missed
    BY <1>1, <2>1, <2>2, <2>3 DEF Catches, On
  <2>4. CASE \A key \in Keys : FirstOver(key)
    <3>1. FirstOver("acc") /\ FirstOver("ref")
      BY <2>4 DEF Keys
    <3> QED BY <1>1, <2>1, <2>2, <3>1, PerformCatches
  <2> QED BY <2>1, <2>3, <2>4
<1>3. CASE Restart
  <2>1. Queue' = <<>> /\ stored' = stored
    BY <1>1, <1>3, LoadedStore DEF Restart, Queue
  <2>2. \A key \in Keys : On(key)' = {}
    BY <2>1 DEF On
  <2>3. mem' = stored'[Loaded'] \/ missed' = Keys
    BY <1>1, <1>3, <2>1 DEF Restart, Load, Reloaded
  <2> QED BY <2>2, <2>3 DEF Catches, Keys
<1>4. CASE Next /\ ~Performing /\ ~Restart
  <2>1. Usual /\ UNCHANGED <<stored, broken, missed>> /\ StoreStep
    BY <1>4, StorageStep
  <2> QED BY <2>1, StoresCatch DEF Catching
<1>5. CASE UNCHANGED vars
  BY <1>5 DEF vars, client, world, Catching, Usual, Preferred, Loaded, Catches, On, Queue
<1> QED BY <1>2, <1>3, <1>4, <1>5 DEF Performing

LEMMA CatchingInit == Init => Catching
<1> SUFFICES ASSUME Init PROVE Catching
  OBVIOUS
<1>1. mem = stored[Loaded] /\ Queue = <<>>
  BY DEF Init, Loaded, Queue, Stores
<1>2. \A key \in Keys : On(key) = {}
  BY <1>1 DEF On
<1> QED BY <1>1, <1>2 DEF Catching, Catches, Keys

-----------------------------------------------------------------------------
(* Signing out                                                             *)

\* Without a refresh token in memory, none is issued to the stores.
LEMMA StoresGone ==
  ASSUME TypeOK, Counters, StoreStep, UNCHANGED <<stored, broken>>, mem'.ref = 0,
         user \in failed => user \in failed'
  PROVE  (Zeroed => Zeroed') /\ (Removed => Removed')
<1>1. Loaded' = Loaded /\ Len(Queue) \in Nat /\ DOMAIN Queue = 1 .. Len(Queue)
  BY LoadedStore DEF Loaded
<1>2. /\ \A i \in On("ref") : i \in On("ref")' /\ Queue'[i] = Queue[i]
      /\ \A i \in On("ref")' : (i \in On("ref") /\ Queue'[i] = Queue[i]) \/ Queue'[i].val = 0
  <2>1. ASSUME \A i \in 1 .. Len(Queue) : Queue'[i] = Queue[i],
               1 .. Len(Queue) \subseteq DOMAIN Queue',
               \A i \in DOMAIN Queue' \ (1 .. Len(Queue)) :
                 Queue'[i].key = "ref" => Queue'[i].val = 0
        PROVE  /\ \A i \in On("ref") : i \in On("ref")' /\ Queue'[i] = Queue[i]
               /\ \A i \in On("ref")' :
                    (i \in On("ref") /\ Queue'[i] = Queue[i]) \/ Queue'[i].val = 0
    BY <1>1, <2>1 DEF On
  <2>2. \A i \in (1 .. Len(Queue) + 2) \ (1 .. Len(Queue)) :
          i = Len(Queue) + 1 \/ i = Len(Queue) + 2
    BY <1>1
  <2>3. CASE Queue' = Queue
    BY <1>1, <2>1, <2>3
  <2>4. ASSUME NEW by, StorePair(by)
        PROVE  /\ \A i \in On("ref") : i \in On("ref")' /\ Queue'[i] = Queue[i]
               /\ \A i \in On("ref")' :
                    (i \in On("ref") /\ Queue'[i] = Queue[i]) \/ Queue'[i].val = 0
    <3>1. /\ DOMAIN Queue' = 1 .. Len(Queue) + 2
          /\ \A i \in 1 .. Len(Queue) : Queue'[i] = Queue[i]
          /\ Queue'[Len(Queue) + 1].key = "acc" /\ Queue'[Len(Queue) + 2].val = 0
      <4>1. /\ DOMAIN Queue' = 1 .. Len(Queue) + 2
            /\ \A i \in 1 .. Len(Queue) : Queue'[i] = Queue[i]
            /\ Queue'[Len(Queue) + 1] = Issued(by, "acc", mem'.acc)
            /\ Queue'[Len(Queue) + 2] = Issued(by, "ref", mem'.ref)
        BY <1>1, <2>4, PutTwo DEF StorePair
      <4> QED BY <4>1 DEF Issued
    <3>2. 1 .. Len(Queue) \subseteq 1 .. Len(Queue) + 2
      BY <1>1
    <3> QED BY <2>1, <2>2, <3>1, <3>2
  <2>5. CASE StoreAccess(refresh.acc)
    <3>1. /\ DOMAIN Queue' = 1 .. Len(Queue) + 1
          /\ \A i \in 1 .. Len(Queue) : Queue'[i] = Queue[i]
          /\ Queue'[Len(Queue) + 1].key = "acc"
      <4>1. /\ DOMAIN Queue' = 1 .. Len(Queue) + 1
            /\ \A i \in 1 .. Len(Queue) : Queue'[i] = Queue[i]
            /\ Queue'[Len(Queue) + 1] = Issued("refresher", "acc", refresh.acc)
        BY <1>1, <2>5, PutOne DEF StoreAccess
      <4> QED BY <4>1 DEF Issued
    <3>2. 1 .. Len(Queue) \subseteq 1 .. Len(Queue) + 1
          /\ \A i \in (1 .. Len(Queue) + 1) \ (1 .. Len(Queue)) : i = Len(Queue) + 1
      BY <1>1
    <3> QED BY <2>1, <3>1, <3>2
  <2> QED BY <2>3, <2>4, <2>5 DEF StoreStep
<1>3. Zeroed => Zeroed'
  BY <1>1, <1>2 DEF Zeroed
<1>4. ASSUME NEW i \in On("ref"), Queue[i].by = user,
             \A j \in On("ref") : i <= j => Queue[j].val = 0
      PROVE  Removed'
  <2>1. i \in On("ref")' /\ Queue'[i].by = user
    BY <1>2, <1>4
  <2>2. \A j \in On("ref")' : i <= j => Queue'[j].val = 0
    BY <1>2, <1>4
  <2> QED BY <2>1, <2>2 DEF Removed
<1> QED BY <1>3, <1>4 DEF Removed

LEMMA PerformGone ==
  ASSUME TypeOK, Counters, UNCHANGED broken, FirstOver("ref"), failed \subseteq failed'
  PROVE  (Zeroed => Zeroed') /\ (Removed => Removed')
<1>1. Loaded' = Loaded /\ Queue # <<>> /\ Queue' = Tail(Queue)
  BY DEF Loaded, FirstOver
<1>2. Zeroed => Zeroed'
  <2>1. SUFFICES ASSUME Zeroed PROVE Zeroed'
    OBVIOUS
  <2>2. stored'[Loaded]["ref"] = 0
    BY <2>1 DEF Zeroed, FirstOver
  <2>3. ASSUME NEW i \in On("ref")' PROVE Queue'[i].val = 0
    <3>1. i + 1 \in On("ref") /\ Queue'[i] = Queue[i + 1]
      BY <1>1, <2>3, Shifted
    <3> QED BY <2>1, <3>1 DEF Zeroed
  <2> QED BY <1>1, <2>2, <2>3 DEF Zeroed
<1>3. ASSUME NEW i \in On("ref"), Queue[i].by = user,
             \A j \in On("ref") : i <= j => Queue[j].val = 0
      PROVE  Removed'
  <2>1. \A j \in On("ref")' : j \in Nat /\ j + 1 \in On("ref") /\ Queue'[j] = Queue[j + 1]
    BY <1>1, Shifted
  <2>2. CASE i = 1
    <3>1. stored'[Loaded].ref = 0 \/ user \in failed'
      BY <1>3, <2>2 DEF FirstOver
    <3>2. ASSUME NEW j \in On("ref")' PROVE Queue'[j].val = 0
      <4>1. j \in Nat /\ j + 1 \in On("ref") /\ Queue'[j] = Queue[j + 1]
        BY <2>1
      <4>2. i <= j + 1
        BY <2>2, <4>1
      <4> QED BY <1>3, <4>1, <4>2
    <3> QED BY <1>1, <3>1, <3>2 DEF Removed, Zeroed
  <2>3. CASE i # 1
    <3>1. i - 1 \in On("ref")' /\ i \in Nat /\ (i - 1) + 1 = i
      BY <1>1, <2>3, Shifted
    <3>2. Queue'[i - 1].by = user
      <4>1. Queue'[i - 1] = Queue[(i - 1) + 1]
        BY <2>1, <3>1
      <4> QED BY <1>3, <3>1, <4>1
    <3>3. ASSUME NEW j \in On("ref")', i - 1 <= j PROVE Queue'[j].val = 0
      <4>1. j \in Nat /\ j + 1 \in On("ref") /\ Queue'[j] = Queue[j + 1]
        BY <2>1
      <4>2. i <= j + 1
        BY <3>1, <3>3, <4>1
      <4> QED BY <1>3, <4>1, <4>2
    <3> QED BY <3>1, <3>2, <3>3 DEF Removed
  <2> QED BY <2>2, <2>3
<1> QED BY <1>2, <1>3 DEF Removed

\* How a user comes to be leaving, and to have left
LEMMA LeavingStep ==
  ASSUME TypeOK, Counters, stage = "left" => pc[user] = "idle", Next
  PROVE  /\ stage' = "left" => pc'[user] = "idle"
         /\ Leaving' => ~Restart /\ (Revoked \/ (Leaving /\ mem'.ref \in {0, mem.ref}))
         /\ stage' = "left" => \/ stage = "left"
                               \/ /\ ~Busy(user) /\ user \notin failed /\ pc[user] = "wipeprefs"
                                  /\ UNCHANGED <<mem, writes, stored, broken, secureOk>>
<1> DEFINE Wanted ==
      /\ stage' = "left" => pc'[user] = "idle"
      /\ Leaving' => ~Restart /\ (Revoked \/ (Leaving /\ mem'.ref \in {0, mem.ref}))
      /\ stage' = "left" => \/ stage = "left"
                            \/ /\ ~Busy(user) /\ user \notin failed /\ pc[user] = "wipeprefs"
                               /\ UNCHANGED <<mem, writes, stored, broken, secureOk>>
<1> SUFFICES Wanted
  OBVIOUS
<1>1. user \in Task /\ user \notin Request /\ pc = [t \in Task |-> pc[t]]
  BY SessionBounds DEF TypeOK
<1>2. Restart => ~Leaving'
  BY <1>1 DEF Restart, Leaving
<1>3. ASSUME ~Leaving' PROVE Wanted
  BY <1>3 DEF Leaving
<1>4. ASSUME mem'.ref \in {0, mem.ref}, stage' = stage,
             pc'[user] = pc[user] \/ (pc[user] = "wipe" /\ pc'[user] = "wipeprefs")
      PROVE  Wanted
  BY <1>2, <1>4 DEF Leaving
<1> HIDE DEF Wanted
<1>5. CASE Restart
  BY <1>2, <1>3, <1>5
<1>6. CASE Performing \/ Grant \/ Expire \/ RevokeAll
  <2>1. mem' = mem /\ stage' = stage /\ pc' = pc
    BY <1>6 DEF Performing, Perform, Grant, Expire, RevokeAll, client
  <2> QED BY <1>4, <2>1
<1>7. ASSUME NEW r \in Request, Start(r) PROVE Wanted
  <2>1. mem' = mem /\ stage' = stage /\ pc'[user] = pc[user]
    BY <1>1, <1>7 DEF Start, Send, At
  <2> QED BY <1>4, <2>1
<1>8. ASSUME NEW t \in Task, Receive(t) PROVE Wanted
  <2>1. CASE t = user
    <3>1. pc[user] # "idle" /\ stage # "left"
      BY <1>8, <2>1, ReceiveCases
    <3>2. pc'[user] \in {"idle", "waiting", "store", "fallback"} /\ stage' # "left"
      BY <1>1, <1>8, <2>1, <3>1, ReceiveCases DEF Refresh, Login, At
    <3>3. ~Leaving'
      BY <3>2 DEF Leaving
    <3> QED BY <1>3, <3>3
  <2>2. CASE t # user
    <3>1. mem' = mem /\ stage' = stage /\ pc'[user] = pc[user]
      BY <1>1, <1>8, <2>2, ReceiveCases DEF Refresh, At
    <3> QED BY <1>4, <3>1
  <2> QED BY <2>1, <2>2
<1>9. ASSUME Succeed \/ Fail, mem' = mem PROVE Wanted
  <2>1. CASE pc[user] = "waiting"
    <3>1. pc'[user] \in {"again", "idle"} /\ stage' # "left"
      BY <1>1, <1>9, <2>1 DEF Succeed, Fail, Wake, Waiting, StageAfterFailure
    <3> QED BY <1>3, <3>1 DEF Leaving
  <2>2. CASE pc[user] # "waiting"
    <3>1. pc'[user] = pc[user] /\ stage' = stage
      BY <1>1, <1>9, <2>2 DEF Succeed, Fail, Wake, Waiting, StageAfterFailure
    <3> QED BY <1>4, <1>9, <3>1
  <2> QED BY <2>1, <2>2
<1>10. ASSUME NEW by, Clear(by) \/ ClearPrefs(by) \/ Save PROVE mem'.ref \in {0, mem.ref}
  BY <1>10 DEF Clear, ClearPrefs, Save, Nobody, TypeOK
<1>11. CASE RefreshFails
  BY <1>9, <1>11 DEF RefreshFails
<1>12. CASE RefreshReceived
  <2>1. stage' = stage /\ pc' = pc /\ mem'.ref \in {0, mem.ref}
    BY <1>10, <1>12 DEF RefreshReceived
  <2> QED BY <1>4, <2>1
<1>13. CASE RefreshStored
  <2>1. \/ (Succeed \/ Fail) /\ mem' = mem
        \/ stage' = stage /\ pc' = pc /\ mem'.ref \in {0, mem.ref}
    BY <1>10, <1>13 DEF RefreshStored
  <2> QED BY <1>4, <1>9, <2>1
<1>14. CASE SignIn \/ SignOut
  <2>1. stage' # "left" /\ pc'[user] \in {"sent", "revoke", "revoked"}
    BY <1>1, <1>14 DEF SignIn, SignOut, Send, At
  <2> QED BY <1>3, <2>1 DEF Leaving
<1>15. CASE SignInStored
  <2>1. stage # "left" /\ stage' \in {stage, "in", "out"} /\ pc'[user] \in {"fallback", "idle"}
    BY <1>1, <1>15 DEF SignInStored, At
  <2> QED BY <1>3, <2>1 DEF Leaving
<1>16. CASE Revoke
  <2>1. stage # "left" /\ stage' = stage /\ pc'[user] = "revoked"
    BY <1>1, <1>16 DEF Revoke, At
  <2> QED BY <1>3, <2>1 DEF Leaving
<1>17. CASE Revoked
  <2>1. stage # "left" /\ stage' = stage
    BY <1>17 DEF Revoked
  <2>2. stage' # "left" /\ (Leaving' => ~Restart)
    BY <1>2, <2>1
  <2>3. Leaving' => ~Restart /\ (Revoked \/ (Leaving /\ mem'.ref \in {0, mem.ref}))
    BY <1>17, <2>2
  <2> QED BY <2>2, <2>3 DEF Wanted
<1>18. CASE SignOutStored
  <2>1. CASE pc[user] = "wipe"
    <3>1. stage' = stage /\ pc'[user] = "wipeprefs" /\ mem' = mem
      BY <1>1, <1>18, <2>1 DEF SignOutStored, ClearPrefs, At
    <3> QED BY <1>3, <1>4, <2>1, <3>1
  <2>2. CASE pc[user] = "wipeprefs"
    <3>1. /\ pc'[user] = "idle" /\ ~Busy(user)
          /\ UNCHANGED <<mem, writes, stored, broken, secureOk>>
          /\ stage' = IF user \in failed THEN stage ELSE "left"
      BY <1>1, <1>18, <2>2 DEF SignOutStored, At, world
    <3> QED BY <1>2, <2>2, <3>1 DEF Leaving, Wanted
  <2> QED BY <1>18, <2>1, <2>2 DEF SignOutStored
<1> QED
  BY <1>5, <1>6, <1>7, <1>8, <1>11, <1>12, <1>13, <1>14, <1>15, <1>16, <1>17, <1>18
  DEF Performing, Next, RefreshStep, UserStep

\* While a user leaves, that one of the removals failed is not forgotten.
LEMMA FailureKept ==
  ASSUME TypeOK, Counters, stage = "left" => pc[user] = "idle", Leaving', Next, ~Restart
  PROVE  user \in failed => user \in failed'
<1> SUFFICES ASSUME user \in failed PROVE user \in failed'
  OBVIOUS
<1>1. user \in Task /\ user \notin Request /\ user # "refresher"
      /\ pc = [t \in Task |-> pc[t]]
  BY SessionBounds DEF TypeOK
<1>2. ASSUME failed \ {"refresher"} \subseteq failed' PROVE user \in failed'
  BY <1>1, <1>2
<1>3. ASSUME NEW store \in Stores, Perform(store) PROVE user \in failed'
  BY <1>3 DEF Perform, Performed, NotPerformed
<1>4. ASSUME NEW t \in Task, Receive(t) PROVE user \in failed'
  <2>1. failed' = failed
    BY <1>4, ReceiveCases DEF Refresh
  <2> QED BY <2>1
<1>5. CASE RefreshStored
  BY <1>2, <1>5 DEF RefreshStored
<1>6. CASE SignInStored
  <2>1. stage # "left" /\ stage' \in {stage, "in", "out"} /\ pc'[user] \in {"fallback", "idle"}
    BY <1>1, <1>6 DEF SignInStored, At
  <2> QED BY <2>1 DEF Leaving
<1>7. CASE SignOutStored
  <2>1. CASE pc[user] = "wipe"
    BY <1>7, <2>1 DEF SignOutStored
  <2>2. CASE pc[user] = "wipeprefs"
    <3>1. stage # "left" /\ stage' = stage /\ pc'[user] = "idle"
      BY <1>1, <1>7, <2>2 DEF SignOutStored, At
    <3> QED BY <3>1 DEF Leaving
  <2> QED BY <1>7, <2>1, <2>2 DEF SignOutStored
<1>8. ASSUME NEW r \in Request, Start(r) PROVE user \in failed'
  BY <1>8 DEF Start
<1>9. CASE Grant \/ RefreshFails \/ RefreshReceived \/ SignIn \/ SignOut \/ Revoke \/ Revoked
           \/ Expire \/ RevokeAll
  <2>1. failed' = failed
    BY <1>9 DEF Grant, RefreshFails, RefreshReceived, SignIn, SignOut, Revoke, Revoked, Expire,
       RevokeAll, client
  <2> QED BY <2>1
<1> QED BY <1>3, <1>4, <1>5, <1>6, <1>7, <1>8, <1>9 DEF Next, RefreshStep, UserStep

LEMMA GoneNext ==
  TypeOK /\ Counters /\ Steady /\ Gone /\ [Next]_vars => Gone'
<1> SUFFICES ASSUME TypeOK, Counters, Steady, Gone, [Next]_vars PROVE Gone'
  OBVIOUS
<1>1. CASE UNCHANGED vars
  <2>1. UNCHANGED <<stage, pc, mem, stored, writes, failed, broken, secureOk>>
    BY <1>1 DEF vars, client, world
  <2>2. Queue' = Queue /\ Loaded' = Loaded
    BY <2>1 DEF Queue, Loaded
  <2>3. On("ref")' = On("ref")
    BY <2>2 DEF On
  <2>4. (Zeroed' <=> Zeroed) /\ (Usual' <=> Usual) /\ (Leaving' <=> Leaving)
    BY <2>1, <2>2, <2>3 DEF Zeroed, Usual, Preferred, Leaving
  <2>5. Removed' <=> Removed
    BY <2>1, <2>2, <2>3, <2>4 DEF Removed
  <2> QED BY <2>1, <2>4, <2>5 DEF Gone
<1>2. CASE Next
  <2>1. /\ stage' = "left" => pc'[user] = "idle"
        /\ Leaving' => ~Restart /\ (Revoked \/ (Leaving /\ mem'.ref \in {0, mem.ref}))
        /\ stage' = "left" => \/ stage = "left"
                              \/ /\ ~Busy(user) /\ user \notin failed
                                 /\ pc[user] = "wipeprefs"
                                 /\ UNCHANGED <<mem, writes, stored, broken, secureOk>>
    BY <1>2, LeavingStep DEF Gone
  <2>2. UNCHANGED broken /\ Loaded' = Loaded
    BY <1>2, BrokenFixed DEF Loaded
  <2>3. Revoked => /\ Clear(user) /\ mem'.ref = 0 /\ stage' = stage /\ pc[user] # "idle"
                   /\ secureOk' = secureOk
    BY DEF Revoked, Wipe, Clear, Nobody
  <2>4. Leaving' => mem'.ref = 0
    BY <2>1, <2>3 DEF Gone
  <2>5. ASSUME Leaving, Leaving', Usual'
        PROVE  Usual /\ (Zeroed => Zeroed') /\ (Removed => Removed')
    <3>1. user \in failed => user \in failed'
      BY <1>2, <2>1, <2>5, FailureKept DEF Gone
    <3>2. ASSUME NEW store \in Stores, Perform(store)
          PROVE  Usual /\ (Zeroed => Zeroed') /\ (Removed => Removed')
      <4>1. /\ UNCHANGED <<mem, broken, secureOk>> /\ failed \subseteq failed'
            /\ \/ Queue' = Queue /\ stored'[Loaded] = stored[Loaded] /\ missed' = missed
               \/ \A key \in Keys : FirstOver(key)
        BY <3>2, PerformCase
      <4>2. Usual
        BY <2>2, <2>5, <4>1 DEF Usual, Preferred
      <4>3. CASE Queue' = Queue /\ stored'[Loaded] = stored[Loaded]
        <5>1. On("ref")' = On("ref") /\ (Zeroed => Zeroed')
          BY <2>2, <4>3 DEF On, Zeroed
        <5> QED BY <3>1, <4>2, <4>3, <5>1 DEF Removed
      <4>4. CASE FirstOver("ref")
        BY <4>1, <4>2, <4>4, PerformGone
      <4> QED BY <4>1, <4>3, <4>4 DEF Keys
    <3>3. CASE ~Performing
      <4>1. Usual /\ UNCHANGED <<stored, broken, missed>> /\ StoreStep
        BY <1>2, <2>1, <2>5, <3>3, StorageStep
      <4> QED BY <2>4, <2>5, <3>1, <4>1, StoresGone
    <3> QED BY <3>2, <3>3 DEF Performing
  <2>6. ASSUME Revoked, Usual' PROVE Removed'
    <3>1. Put(user, Loaded, Both(Nobody))
      <4>1. Preferred = Loaded
        BY <2>2, <2>3, <2>6 DEF Usual, Preferred
      <4> QED BY <2>3, <2>6, <4>1 DEF Clear
    <3>2. /\ DOMAIN Queue' = 1 .. Len(Queue) + 2
          /\ Queue'[Len(Queue) + 2] = Issued(user, "ref", Nobody.ref)
          /\ Len(Queue) \in Nat
      BY <2>2, <3>1, PutTwo, LoadedStore
    <3>3. /\ Len(Queue) + 2 \in On("ref")' /\ Queue'[Len(Queue) + 2].by = user
          /\ Queue'[Len(Queue) + 2].val = 0
      BY <3>2 DEF On, Issued, Nobody
    <3>4. ASSUME NEW j \in On("ref")', Len(Queue) + 2 <= j PROVE Queue'[j].val = 0
      <4>1. j = Len(Queue) + 2
        BY <3>2, <3>4 DEF On
      <4> QED BY <3>3, <4>1
    <3> QED BY <3>3, <3>4 DEF Removed
  <2>7. Leaving' /\ Usual' => Removed'
    BY <2>1, <2>5, <2>6 DEF Gone
  <2>8. ASSUME stage' = "left", Usual' PROVE Zeroed'
    <3>1. Leaving'
      BY <2>8 DEF Leaving
    <3>2. CASE stage = "left"
      <4>1. Leaving
        BY <3>2 DEF Leaving
      <4> QED BY <2>5, <2>8, <3>1, <3>2, <4>1 DEF Gone
    <3>3. CASE /\ ~Busy(user) /\ user \notin failed /\ pc[user] = "wipeprefs"
               /\ UNCHANGED <<mem, writes, stored, broken, secureOk>>
      <4>1. Leaving /\ Usual
        BY <2>2, <2>8, <3>3 DEF Leaving, Usual, Preferred
      <4>2. Removed
        BY <4>1 DEF Gone
      <4>3. \A i \in On("ref") : Queue[i].by # user
        BY <3>3, LoadedStore DEF Busy, On, Queue
      <4>4. Zeroed
        BY <3>3, <4>2, <4>3 DEF Removed
      <4> QED BY <2>2, <3>3, <4>4 DEF Zeroed, On, Queue
    <3> QED BY <2>1, <2>8, <3>2, <3>3
  <2> QED BY <2>1, <2>4, <2>7, <2>8 DEF Gone
<1> QED BY <1>1, <1>2

-----------------------------------------------------------------------------
(* Theorems of the session                                                 *)

LEMMA SessionHolds == Spec => []SessionInv
<1>1. Init => SessionInv
  <2>1. Init => NobodyForgotten
    BY DEF Init, NobodyForgotten, Waiting
  <2>2. Init => Gone
    BY SessionBounds DEF Init, Gone, Leaving
  <2> QED BY <2>1, <2>2, SessionTypesInit, SteadyInit, CatchingInit DEF SessionInv
<1>2. SessionInv /\ [Next]_vars => SessionInv'
  BY SessionTypesNext, WaitingNext, SteadyNext, CatchingNext, GoneNext DEF SessionInv
<1> QED BY <1>1, <1>2, PTL DEF Spec

\* Every variable of the session holds a value of its kind.
THEOREM SessionTypes == Spec => []TypeOK
<1>1. SessionInv => TypeOK
  BY DEF SessionInv
<1> QED BY <1>1, SessionHolds, PTL

\* No call waits for a refresh that is over (api_client.dart:239-336), whatever the
\* refresh ended with and whoever joined it meanwhile.
THEOREM NobodyWaitsForNothing == Spec => []NobodyForgotten
<1>1. SessionInv => NobodyForgotten
  BY DEF SessionInv
<1> QED BY <1>1, SessionHolds, PTL

\* Refreshes, sign-ins and sign-outs write the two stores in any overlapping
\* (api_client.dart:150-336): a key with no operation under way or failed holds what
\* the client holds, the token of a later refresh included, as long as the client
\* writes to the store the next start reads.
THEOREM WhatIsHeldIsStored == Spec => []Recoverable
<1>1. SessionInv => Recoverable
  <2> SUFFICES ASSUME SessionInv, Preferred = Loaded, writes[Loaded] = <<>>,
                      NEW key \in Keys \ missed
               PROVE  mem[key] = Reloaded[key]
    BY DEF Recoverable
  <2>1. On(key) = {}
    BY DEF On, Queue
  <2>2. Catches(key)
    BY DEF SessionInv, Catching, Usual, Keys
  <2> QED BY <2>1, <2>2 DEF Catches, Reloaded
<1> QED BY <1>1, SessionHolds, PTL

\* A sign-out that has ended has removed the refresh token from memory and from the store
\* the next start reads (auth_service.dart:246-265), though a refresh answered after it
\* still issued storage operations, and operations failed.
THEOREM NothingIsLeft == Spec => []LeftForGood
<1>1. SessionInv => LeftForGood
  BY DEF SessionInv, Gone, Leaving, Usual, Zeroed, LeftForGood, Reloaded
<1> QED BY <1>1, SessionHolds, PTL

-----------------------------------------------------------------------------
(* The event socket                                                        *)

SocketFlags ==
  /\ timer \in BOOLEAN /\ wanted \in BOOLEAN
  /\ overlap \in BOOLEAN /\ reachable \in BOOLEAN
  /\ valid \in BOOLEAN /\ malformed \in BOOLEAN

SocketCounts ==
  /\ channel \in 0 .. created /\ sub \in 0 .. created /\ created \in 0 .. MaxSockets
  /\ heard \subseteq 1 .. created /\ dead \subseteq 1 .. created
  /\ attempts \in 0 .. MaxAttempts /\ closing \in 0 .. MaxClosing

\* Without overlapping connects there is one channel to listen to, none while a
\* reconnection is due, and nothing at all while a disconnect is under way or
\* has been.
OneChannel ==
  /\ heard \subseteq {channel} \cap {sub}
  /\ timer => channel = 0
  /\ closing > 0 => heard = {} /\ ~timer /\ ~wanted
  /\ ~wanted => heard = {} /\ ~timer

SocketInv == SocketFlags /\ SocketCounts /\ (overlap \/ OneChannel)

\* The invariant holds of a client that has not connected.
LEMMA SocketInvInit == SocketInit => SocketInv
<1>1. SocketInit => SocketFlags
  BY DEF SocketInit, SocketFlags
<1>2. SocketInit => SocketCounts
  BY EventSocketAssumption DEF SocketInit, SocketCounts
<1>3. SocketInit => OneChannel
  BY DEF SocketInit, OneChannel
<1> QED BY <1>1, <1>2, <1>3 DEF SocketInv

\* Connecting either throws, with nothing left to listen to, or adds a channel.
LEMMA Connecting ==
  ASSUME SocketInv, NEW tried \in 0 .. MaxAttempts, NEW due \in BOOLEAN,
         wanted' \in BOOLEAN, PerformConnect(tried, due)
  PROVE  /\ SocketCounts' /\ timer' \in BOOLEAN
         /\ \/ /\ channel' = 0 /\ sub' = 0 /\ heard' = heard \ {sub}
               /\ timer' => due \/ wanted'
            \/ /\ heard' = heard \cup {channel'} /\ sub' = channel' /\ timer' = due
<1> USE EventSocketAssumption DEF SocketInv, SocketCounts
<1>1. CASE malformed
  <2>1. /\ channel' = 0 /\ sub' = 0 /\ heard' = heard \ {sub}
        /\ Retry(tried, due) /\ UNCHANGED <<dead, created, closing>>
    BY <1>1 DEF PerformConnect
  <2>2. attempts' \in 0 .. MaxAttempts
    BY <2>1 DEF Retry
  <2>4. timer' \in BOOLEAN
    <3>1. CASE wanted' /\ tried < MaxAttempts
      BY <2>1, <3>1 DEF Retry
    <3>2. CASE ~(wanted' /\ tried < MaxAttempts)
      BY <2>1, <3>2 DEF Retry
    <3> QED BY <3>1, <3>2
  <2>3. timer' => due \/ wanted'
    BY <2>1 DEF Retry
  <2> QED BY <2>1, <2>2, <2>3, <2>4
<1>2. CASE ~malformed
  <2>1. /\ created < MaxSockets /\ created' = created + 1 /\ channel' = created'
        /\ sub' = created' /\ heard' = heard \cup {created'} /\ attempts' = 0
        /\ dead' = dead \/ dead' = dead \cup {created'}
        /\ timer' = due /\ closing' = closing
    BY <1>2 DEF PerformConnect, Reset
  <2>2. created' \in 1 .. MaxSockets /\ 1 .. created \subseteq 1 .. created'
    BY <2>1
  <2>3. /\ channel' \in 0 .. created' /\ sub' \in 0 .. created'
        /\ created' \in 0 .. MaxSockets /\ attempts' \in 0 .. MaxAttempts
    BY <2>1, <2>2
  <2>4. created' \in 1 .. created'
    BY <2>2
  <2>5. heard' \subseteq 1 .. created' /\ dead' \subseteq 1 .. created'
    BY <2>1, <2>2, <2>4
  <2> QED BY <2>1, <2>3, <2>5
<1> QED BY <1>1, <1>2

\* Every step of the client and of the network preserves it.
LEMMA SocketInvNext == SocketInv /\ [SocketNext]_socketVars => SocketInv'
<1> SUFFICES ASSUME SocketInv, [SocketNext]_socketVars PROVE SocketInv'
  OBVIOUS
<1> USE EventSocketAssumption
<1>1. CASE Connect
  <2>1. /\ wanted' = TRUE /\ valid' \in BOOLEAN /\ channel = 0
        /\ overlap' = (overlap \/ timer \/ closing > 0)
        /\ PerformConnect(0, timer) /\ UNCHANGED <<closing, malformed, reachable>>
    BY <1>1 DEF Connect, PerformConnect
  <2>2. timer \in BOOLEAN /\ 0 \in 0 .. MaxAttempts /\ wanted' \in BOOLEAN
    BY <2>1 DEF SocketInv, SocketFlags
  <2>3. /\ SocketCounts' /\ timer' \in BOOLEAN
        /\ \/ channel' = 0 /\ sub' = 0 /\ heard' = heard \ {sub}
           \/ heard' = heard \cup {channel'} /\ sub' = channel' /\ timer' = timer
    BY <2>1, <2>2, Connecting
  <2>4. SocketFlags'
    BY <2>1, <2>3 DEF SocketInv, SocketFlags
  <2>5. overlap' \/ (~overlap /\ ~timer /\ ~(closing > 0))
    BY <2>1, Zenon
  <2>6. ~overlap => heard = {}
    BY <2>1 DEF SocketInv, SocketCounts, OneChannel
  <2>7. overlap' \/ OneChannel'
    BY <2>1, <2>3, <2>5, <2>6 DEF OneChannel
  <2> QED BY <2>3, <2>4, <2>7 DEF SocketInv
<1>2. CASE TimerFires
  <2>1. /\ timer /\ PerformConnect(attempts, FALSE)
        /\ UNCHANGED <<wanted, overlap, valid, closing, malformed, reachable>>
    BY <1>2 DEF TimerFires, PerformConnect
  <2>2. attempts \in 0 .. MaxAttempts /\ wanted' \in BOOLEAN
    BY <2>1 DEF SocketInv, SocketFlags, SocketCounts
  <2>3. /\ SocketCounts' /\ timer' \in BOOLEAN
        /\ \/ /\ channel' = 0 /\ sub' = 0 /\ heard' = heard \ {sub}
              /\ timer' => wanted'
           \/ heard' = heard \cup {channel'} /\ sub' = channel' /\ timer' = FALSE
    BY <2>1, <2>2, Connecting
  <2>4. SocketFlags'
    BY <2>1, <2>3 DEF SocketInv, SocketFlags
  <2>5. ~overlap => heard = {} /\ ~(closing > 0) /\ wanted
    BY <2>1 DEF SocketInv, SocketCounts, OneChannel
  <2>6. overlap' \/ OneChannel'
    BY <2>1, <2>3, <2>5 DEF OneChannel, SocketInv
  <2> QED BY <2>3, <2>4, <2>6 DEF SocketInv
<1>3. ASSUME NEW s, Lost(s) PROVE SocketInv'
  <2>1. SocketFlags'
    BY <1>3 DEF Lost, Retry, SocketInv, SocketFlags
  <2>2. SocketCounts'
    BY <1>3 DEF Lost, Retry, SocketInv, SocketCounts
  <2>3. overlap' \/ OneChannel'
    BY <1>3 DEF Lost, Retry, SocketInv, OneChannel
  <2> QED BY <2>1, <2>2, <2>3 DEF SocketInv
<1>4. CASE Disconnect \/ Disconnected
  <2>1. SocketFlags'
    BY <1>4 DEF Disconnect, Disconnected, SocketInv, SocketFlags
  <2>2. /\ heard' \subseteq heard /\ channel' \in {channel, 0}
        /\ UNCHANGED <<sub, dead, created, attempts>>
    BY <1>4 DEF Disconnect, Disconnected, CancelSub
  <2>5. closing' \in 0 .. MaxClosing
    BY <1>4 DEF Disconnect, Disconnected, SocketInv, SocketCounts
  <2>3. SocketCounts'
    BY <2>2, <2>5 DEF SocketInv, SocketCounts
  <2>4. overlap' \/ OneChannel'
    BY <1>4 DEF Disconnect, Disconnected, CancelSub, SocketInv, SocketCounts, OneChannel
  <2> QED BY <2>1, <2>3, <2>4 DEF SocketInv
<1>5. CASE TokenExpires \/ Drop \/ Return \/ UNCHANGED socketVars
  <2>1. SocketFlags'
    BY <1>5 DEF TokenExpires, Drop, Return, socketVars, SocketInv, SocketFlags
  <2>2. SocketCounts'
    BY <1>5 DEF TokenExpires, Drop, Return, socketVars, SocketInv, SocketCounts
  <2>3. overlap' \/ OneChannel'
    BY <1>5 DEF TokenExpires, Drop, Return, socketVars, SocketInv, OneChannel
  <2> QED BY <2>1, <2>2, <2>3 DEF SocketInv
<1> QED BY <1>1, <1>2, <1>3, <1>4, <1>5 DEF SocketNext, Listening

\* SocketInv is an invariant.
LEMMA SocketHolds == SocketSpec => []SocketInv
BY SocketInvInit, SocketInvNext, PTL DEF SocketSpec

\* Every variable of EventSocket holds a value of its kind.
THEOREM SocketTypes == SocketSpec => []SocketTypeOK
<1>1. SocketInv => SocketTypeOK
  BY DEF SocketInv, SocketFlags, SocketCounts, SocketTypeOK
<1> QED BY <1>1, SocketHolds, PTL

\* Events come from one channel, the current one.
THEOREM OneAtATime == SocketSpec => []OneSocket
<1>1. SocketInv => OneSocket
  BY DEF SocketInv, OneChannel, OneSocket
<1> QED BY <1>1, SocketHolds, PTL

\* After disconnect nothing is left that could deliver an event or reconnect.
THEOREM ClosedStays == SocketSpec => []StaysClosed
<1>1. SocketInv => StaysClosed
  BY DEF SocketInv, OneChannel, StaysClosed
<1> QED BY <1>1, SocketHolds, PTL
=============================================================================
