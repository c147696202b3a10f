--------------------------- MODULE ClientSession ---------------------------
(***************************************************************************)
(* The tokens of a signed-in client: ApiClient, AuthService and            *)
(* AuthController (client/lib) with the refresh tokens the server keeps    *)
(* (server/internal/handlers/auth_handler.go).                             *)
(*                                                                         *)
(* The client is one event loop: what runs between two awaits is a step.   *)
(* Requests of several screens run at once; the first to meet a 401 asks   *)
(* for a new access token, the others wait for it, and all are sent once   *)
(* more.  Signing in and out goes on meanwhile, and the application may be *)
(* closed and started again at any time.                                   *)
(*                                                                         *)
(* Tokens are numbers in the order of their issue, 0 for none: an access   *)
(* token is one issue, a refresh token the sign-in that issued it.         *)
(***************************************************************************)
EXTENDS Naturals, Sequences

CONSTANTS Request,     \* calls the screens make
          user,        \* the user signing in and out, and the restored session
          MaxLogins, MaxTokens, MaxRestarts, MaxFaults   \* bounds

ASSUME ClientSessionAssumption ==
  /\ user \notin Request \cup {"refresher"}
  /\ {MaxLogins, MaxTokens, MaxRestarts, MaxFaults} \subseteq Nat

VARIABLES
  broken,     \* the platform has no secure storage that can be read; where it
              \* has, each write may still fail, as may SharedPreferences
  mem,        \* _accessToken and _refreshToken
  stored,     \* the same two keys in "secure" storage and in "prefs"
  secureOk,   \* _secureStorageAvailable
  writes,     \* operations issued to each store and not yet performed
  failed,     \* whose operations, those they await or awaited last, have failed
  pc,         \* where each call stands
  carries,    \* the token each call was sent with
  doing,      \* what the user's call is: "login", "boot", "logout"
  refresh,    \* the refresh in flight (_isRefreshing): where it stands, the
              \* refresh token it was sent with, the access token it brings
  stage,      \* AuthState.stage: "out" or "in", "left" when out by logging out
  live,       \* server: refresh tokens that are not revoked
  expired,    \* access tokens older than their 15 minutes
  given,      \* the tokens of the last sign-in, which its setTokens still stores
              \* when others are held by then
  issued, logins, restarts, faults,
  missed      \* history: the keys for which the last operation, the read of a
              \* start included, on the store the next start reads has failed

client == <<mem, stored, secureOk, writes, failed, pc, carries, doing, refresh, stage>>
server == <<live, expired, given, issued, logins>>
world == <<broken, restarts, faults, missed>>
vars == <<client, server, world>>

Task == Request \cup {user}
Stores == {"secure", "prefs"}
Keys == {"acc", "ref"}
Nobody == [acc |-> 0, ref |-> 0]
NoRefresh == [at |-> "none", ref |-> 0, acc |-> 0]

Init ==
  /\ broken \in BOOLEAN
  /\ mem = Nobody
  /\ stored = [secure |-> Nobody, prefs |-> Nobody]
  /\ secureOk = ~broken
  /\ writes = [store \in Stores |-> <<>>] /\ failed = {} /\ missed = {}
  /\ pc = [t \in Task |-> "idle"]
  /\ carries = [t \in Task |-> 0]
  /\ doing = "login" /\ stage = "out"
  /\ refresh = NoRefresh
  /\ live = {} /\ expired = {} /\ given = Nobody
  /\ issued = 0 /\ logins = 0 /\ restarts = 0 /\ faults = 0

At(t, where) == pc' = [pc EXCEPT ![t] = where]

\* Storage operations of one caller.  Each store performs those of all callers in
\* the order they are issued to it; the two stores do not wait for each other.
Ops(by, values) ==
  [i \in 1 .. Len(values) |-> [by |-> by, key |-> values[i][1], val |-> values[i][2]]]

Put(by, store, values) == writes' = [writes EXCEPT ![store] = @ \o Ops(by, values)]

\* fault: the two tokens are stored under each other's key
Swapped(tokens) == <<<<"acc", tokens.ref>>, <<"ref", tokens.acc>>>>

Both(tokens) == <<<<"acc", tokens.acc>>, <<"ref", tokens.ref>>>>

Preferred == IF secureOk THEN "secure" ELSE "prefs"
Busy(by) == \E store \in Stores : \E i \in DOMAIN writes[store] : writes[store][i].by = by

\* The store the next start of the application reads
Loaded == IF broken THEN "prefs" ELSE "secure"
Reloaded == stored[Loaded]

Performed(store, op) ==
  /\ stored' = [stored EXCEPT ![store][op.key] = op.val]
  /\ missed' = IF store = Loaded THEN missed \ {op.key} ELSE missed
  /\ UNCHANGED <<failed, faults>>

NotPerformed(store, op) ==
  /\ faults < MaxFaults /\ faults' = faults + 1
  /\ failed' = failed \cup {op.by}
  /\ missed' = IF store = Loaded THEN missed \cup {op.key} ELSE missed
  /\ UNCHANGED stored

Perform(store) ==
  /\ writes[store] # <<>>
  /\ LET op == Head(writes[store]) IN Performed(store, op) \/ NotPerformed(store, op)
  /\ writes' = [writes EXCEPT ![store] = Tail(@)]
  /\ UNCHANGED <<mem, secureOk, pc, carries, doing, refresh, stage, server, broken, restarts>>

---------------------------------------------------------------------------
(* Calls, the refresh they share, and the retry *)

Send(t, where) == At(t, where) /\ carries' = [carries EXCEPT ![t] = mem.acc]

Start(r) ==
  /\ stage = "in" /\ pc[r] = "idle"
  /\ Send(r, "sent")
  /\ UNCHANGED <<mem, stored, secureOk, writes, failed, doing, refresh, stage, server, world>>

\* The answers a call can get; "fail" is a lost connection or a timeout
Answers(t) ==
  {"fail"} \cup IF t = user /\ doing = "login" THEN {"ok", "401"}
                ELSE IF carries[t] = 0 THEN {"401"}
                ELSE IF carries[t] \in expired THEN {"ok", "401"} ELSE {"ok"}

\* A call of the user that failed leaves it signed out
StageAfterFailure(tasks) == IF user \in tasks THEN "out" ELSE stage

\* setTokens after a sign-in
Login(n) ==
  /\ logins < MaxLogins /\ issued < MaxTokens
  /\ logins' = n /\ issued' = issued + 1 /\ live' = live \cup {n}
  /\ mem' = [acc |-> issued + 1, ref |-> n] /\ given' = mem'
  /\ Put(user, Preferred, Both(mem'))
  /\ At(user, IF secureOk THEN "store" ELSE "fallback")
  /\ UNCHANGED <<stage, expired>>

Done(t, answer) ==
  \/ /\ t = user /\ doing = "login" /\ answer = "ok" /\ Login(logins + 1)
     /\ UNCHANGED <<refresh, failed>>
  \/ /\ ~(t = user /\ doing = "login" /\ answer = "ok")
     /\ At(t, "idle")
     /\ stage' = IF t # user THEN stage ELSE IF answer = "ok" THEN "in" ELSE "out"
     /\ UNCHANGED <<mem, writes, failed, refresh, server>>

\* _refreshAccessToken: one refresh at a time, later callers wait for it
Refresh(t) ==
  /\ refresh.at # "none" \/ mem.ref # 0
  /\ At(t, "waiting")
  /\ refresh' = IF refresh.at # "none" THEN refresh
                ELSE [at |-> "asked", ref |-> mem.ref, acc |-> 0]
  /\ UNCHANGED <<mem, writes, failed, stage, server>>

\* _handleRequest: a 401 is answered by a refresh, once
Receive(t) ==
  /\ pc[t] \in {"sent", "again"}
  /\ \E answer \in Answers(t) :
       IF answer = "401" /\ pc[t] = "sent" /\ mem.acc # 0
       THEN Refresh(t) \/ (refresh.at = "none" /\ mem.ref = 0 /\ Done(t, "fail"))
       ELSE Done(t, answer)
  /\ UNCHANGED <<stored, secureOk, carries, doing, world>>

\* The refresh is over: every call waiting for it is sent again, or fails
Wake(tasks, ok) ==
  /\ pc' = [t \in Task |-> IF t \notin tasks THEN pc[t] ELSE IF ok THEN "again" ELSE "idle"]
  /\ carries' = [t \in Task |-> IF t \in tasks /\ ok THEN mem.acc ELSE carries[t]]
  /\ stage' = IF ok THEN stage ELSE StageAfterFailure(tasks)
  /\ refresh' = NoRefresh

Waiting == {t \in Task : pc[t] = "waiting"}

\* fault: a refresh that ends without an answer does not tell the completers
Forgotten == Wake(IF refresh.at \in {"asked", "granted", "denied"} THEN {} ELSE Waiting, FALSE)

Fail == Wake(Waiting, FALSE)
Succeed == Wake(Waiting, TRUE)

\* The server's answer to /auth/refresh, and a timeout or a lost connection
Grant ==
  /\ refresh.at = "asked"
  /\ \/ /\ refresh.ref \in live /\ issued < MaxTokens
        /\ issued' = issued + 1
        /\ refresh' = [refresh EXCEPT !.at = "granted", !.acc = issued + 1]
     \/ /\ refresh.ref \notin live
        /\ refresh' = [refresh EXCEPT !.at = "denied"]
        /\ UNCHANGED issued
  /\ UNCHANGED <<mem, stored, secureOk, writes, failed, pc, carries, doing, stage, live,
                 expired, given, logins, world>>

RefreshFails ==
  /\ refresh.at \in {"asked", "granted", "denied"}
  /\ Fail
  /\ UNCHANGED <<mem, stored, secureOk, writes, failed, doing, server, world>>

\* fault: the new access token is not stored
Unsaved == mem' = [mem EXCEPT !.acc = refresh.acc] /\ writes' = writes

Save == /\ mem' = [mem EXCEPT !.acc = refresh.acc]
        /\ Put("refresher", Preferred, <<<<"acc", refresh.acc>>>>)

\* fault: clearTokens leaves the refresh token
ClearAccess(by) ==
  mem' = [mem EXCEPT !.acc = 0] /\ Put(by, Preferred, <<<<"acc", 0>>>>)

\* clearTokens, up to its first await
Clear(by) == mem' = Nobody /\ Put(by, Preferred, Both(Nobody))
ClearPrefs(by) == mem' = mem /\ Put(by, "prefs", Both(Nobody))

RefreshReceived ==
  /\ \/ /\ refresh.at = "granted" /\ Save
        /\ refresh' = [refresh EXCEPT !.at = IF secureOk THEN "store" ELSE "fallback"]
     \/ /\ refresh.at = "denied" /\ Clear("refresher")
        /\ refresh' = [refresh EXCEPT !.at = IF secureOk THEN "wipe" ELSE "wipeprefs"]
  /\ UNCHANGED <<stored, secureOk, failed, pc, carries, doing, stage, server, world>>

\* An awaited storage operation has ended: what the refresh does next.  That
\* SharedPreferences failed is ignored: the refresh has succeeded.
RefreshStored ==
  /\ ~Busy("refresher") /\ failed' = failed \ {"refresher"}
  /\ \/ /\ refresh.at = "store" /\ "refresher" \in failed
        /\ secureOk' = FALSE
        /\ Put("refresher", "prefs", <<<<"acc", refresh.acc>>>>)
        /\ refresh' = [refresh EXCEPT !.at = "fallback"]
        /\ UNCHANGED <<mem, pc, carries, stage>>
     \/ /\ \/ refresh.at = "fallback"
           \/ refresh.at = "store" /\ "refresher" \notin failed
        /\ Succeed /\ UNCHANGED <<mem, secureOk, writes>>
     \/ /\ refresh.at = "wipe" /\ ClearPrefs("refresher")
        /\ refresh' = [refresh EXCEPT !.at = "wipeprefs"]
        /\ UNCHANGED <<secureOk, pc, carries, stage>>
     \/ /\ refresh.at = "wipeprefs" /\ Fail /\ UNCHANGED <<mem, secureOk, writes>>
  /\ UNCHANGED <<stored, doing, server, world>>

---------------------------------------------------------------------------
(* Signing in and out *)

SignIn ==
  /\ stage # "in" /\ pc[user] = "idle"
  /\ Send(user, "sent")
  /\ doing' = "login" /\ stage' = "out"
  /\ UNCHANGED <<mem, stored, secureOk, writes, failed, refresh, server, world>>

\* Tokens that could be stored nowhere are held by a client that is not signed in.
SignInStored ==
  /\ ~Busy(user) /\ failed' = failed \ {user}
  /\ \/ /\ pc[user] = "store" /\ user \in failed
        /\ secureOk' = FALSE
        /\ Put(user, "prefs", Both(given)) /\ At(user, "fallback") /\ UNCHANGED stage
     \/ /\ \/ pc[user] = "fallback"
           \/ pc[user] = "store" /\ user \notin failed
        /\ At(user, "idle") /\ stage' = IF user \in failed THEN "out" ELSE "in"
        /\ UNCHANGED <<secureOk, writes>>
  /\ UNCHANGED <<mem, stored, carries, doing, refresh, server, world>>

Wipe == Clear(user) /\ At(user, IF secureOk THEN "wipe" ELSE "wipeprefs")

SignOut ==
  /\ stage = "in" /\ pc[user] = "idle" /\ doing' = "logout"
  /\ At(user, IF mem.ref # 0 THEN "revoke" ELSE "revoked")
  /\ carries' = [carries EXCEPT ![user] = mem.ref]
  /\ UNCHANGED <<mem, stored, secureOk, writes, failed, refresh, stage, server, world>>

\* App.Logout on the server
Revoke ==
  /\ pc[user] = "revoke"
  /\ live' = live \ {carries[user]} /\ At(user, "revoked")
  /\ UNCHANGED <<mem, stored, secureOk, writes, failed, carries, doing, refresh, stage,
                 expired, given, issued, logins, world>>

\* The answer, or no answer: logging out is best effort
Revoked ==
  /\ pc[user] \in {"revoke", "revoked"} /\ Wipe
  /\ UNCHANGED <<stored, secureOk, failed, carries, doing, refresh, stage, server, world>>

SignOutStored ==
  /\ ~Busy(user)
  /\ \/ /\ pc[user] = "wipe"
        /\ ClearPrefs(user) /\ At(user, "wipeprefs") /\ UNCHANGED <<failed, stage>>
     \/ /\ pc[user] = "wipeprefs" /\ At(user, "idle")
        /\ stage' = IF user \in failed THEN stage ELSE "left"
        /\ failed' = failed \ {user} /\ UNCHANGED <<mem, writes>>
  /\ UNCHANGED <<stored, secureOk, carries, doing, refresh, server, world>>

\* init: what could be read of the store
Load ==
  \/ mem' = Reloaded /\ missed' = {} /\ UNCHANGED faults
  \/ /\ Loaded = "prefs" /\ faults < MaxFaults /\ faults' = faults + 1
     /\ mem' = Nobody /\ missed' = Keys

\* The application is closed and started again: init and restoreSession
Restart ==
  /\ restarts < MaxRestarts /\ restarts' = restarts + 1
  /\ Load /\ secureOk' = ~broken
  /\ writes' = [store \in Stores |-> <<>>] /\ failed' = {} /\ refresh' = NoRefresh
  /\ doing' = "boot" /\ stage' = "out"
  /\ pc' = [t \in Task |-> IF t = user /\ mem'.acc # 0 THEN "sent" ELSE "idle"]
  /\ carries' = [t \in Task |-> IF t = user THEN mem'.acc ELSE 0]
  /\ UNCHANGED <<broken, stored, server>>

---------------------------------------------------------------------------
(* The server, without the client *)

\* All tokens live equally long: they expire in the order of their issue
Expire == \E t \in (1 .. issued) \ expired :
  /\ 1 .. t - 1 \subseteq expired /\ expired' = expired \cup {t}
  /\ UNCHANGED <<client, live, given, issued, logins, world>>

\* RevokeAllRefreshTokensForUser: the password is changed elsewhere
RevokeAll ==
  /\ live # {} /\ live' = {}
  /\ UNCHANGED <<client, expired, given, issued, logins, world>>

RefreshStep == Grant \/ RefreshFails \/ RefreshReceived \/ RefreshStored
UserStep == SignInStored \/ Revoke \/ Revoked \/ SignOutStored

Next ==
  \/ (\E store \in Stores : Perform(store))
  \/ (\E r \in Request : Start(r)) \/ (\E t \in Task : Receive(t))
  \/ RefreshStep \/ SignIn \/ UserStep \/ SignOut \/ Restart \/ Expire \/ RevokeAll

Spec == Init /\ [][Next]_vars

---------------------------------------------------------------------------
(* Properties *)

\* Every variable holds a value of its kind.
TypeOK ==
  /\ broken \in BOOLEAN
  /\ mem \in [acc : 0 .. MaxTokens, ref : 0 .. MaxLogins]
  /\ stored \in [Stores -> [acc : 0 .. MaxTokens, ref : 0 .. MaxLogins]]
  /\ secureOk \in BOOLEAN
  /\ failed \subseteq {user, "refresher"} /\ missed \subseteq Keys
  /\ pc \in [Task -> {"idle", "sent", "waiting", "again", "store", "fallback",
                      "revoke", "revoked", "wipe", "wipeprefs"}]
  /\ doing \in {"login", "boot", "logout"} /\ stage \in {"out", "in", "left"}
  /\ refresh.at \in {"none", "asked", "granted", "denied", "store", "fallback",
                     "wipe", "wipeprefs"}
  /\ given \in [acc : 0 .. MaxTokens, ref : 0 .. MaxLogins]
  /\ live \subseteq 1 .. logins /\ expired \subseteq 1 .. issued

\* What the next start of the application will load is what the client holds now,
\* key by key, whenever no operation on that store is under way, whatever
\* refreshes, sign-ins and sign-outs have overlapped before.  Excepted are a key
\* whose last operation there failed (its failure is ignored by a refresh,
\* api_client.dart:293 and 303, and reported by a sign-in or a sign-out), and a
\* client that now writes to the other store, because a write to secure storage
\* failed once: its tokens go where the next start does not read.
Recoverable ==
  Preferred = Loaded /\ writes[Loaded] = <<>> =>
    \A key \in Keys \ missed : mem[key] = Reloaded[key]

\* A call that waits for a refresh has one to wait for.
NobodyForgotten == Waiting # {} => refresh.at # "none"

\* A client that has logged out never refreshes again: it holds no refresh token,
\* in memory or in the store the next start reads, though refreshes and their
\* storage operations went on when the user left, and operations failed.  (A
\* client that writes to the other store clears that one only.)
LeftForGood == stage = "left" => mem.ref = 0 /\ (Preferred = Loaded => Reloaded.ref = 0)
=============================================================================
