------------------------------ MODULE Accounts ------------------------------
(***************************************************************************)
(* One account under concurrent calls: signing in, failed logins, password *)
(* resets, e-mail codes and refresh tokens                                 *)
(* (server/internal/handlers/auth_handler.go over                          *)
(* server/internal/repository/auth.go and security.go).                    *)
(*                                                                         *)
(* A handler runs its SQL statements one by one, without a transaction:    *)
(* each is a step, and calls interleave between them.  A call stops at a   *)
(* statement that fails, and when its client goes away, which cancels the  *)
(* request's context.  ResetPassword alone goes on: it ignores that its    *)
(* code could not be marked.                                               *)
(*                                                                         *)
(* Left out: is_verified, which Register sets and nothing clears; the two- *)
(* factor branch, since the handlers that enable it are mounted without    *)
(* the middleware that would let them pass; access tokens, which are not   *)
(* stored.  Time is left open: locks, codes and tokens expire at any step. *)
(***************************************************************************)
EXTENDS Naturals, FiniteSets

CONSTANTS Call,          \* calls of multi-statement handlers, each made once
          First,         \* the password of the registration
          ResetCode, VerifyCode,   \* codes mailed, each drawn once
          LockAt, BanAt  \* failed logins that lock, and that ban: 5 and 10

None == "none"

ASSUME AccountsAssumption ==
  /\ IsFiniteSet(Call) /\ First \notin Call
  /\ None \notin ResetCode \cup VerifyCode
  /\ ResetCode \cap VerifyCode = {}
  /\ {LockAt, BanAt} \subseteq Nat /\ 0 < LockAt /\ LockAt < BanAt

Code == ResetCode \cup VerifyCode
Password == Call \cup {First}   \* a reset stores a password of its own

VARIABLES
  user,    \* row of users: password, failed_login_count, locked_until in the
           \* future or not, is_banned with the ban_reason
  code,    \* rows of password_resets and email_verifications
  token,   \* the refresh token each call has stored
  pc,      \* the next statement of each call
  kind,    \* which call it is; "wrong", "again" and "locked" are refused logins
  typed,   \* the code a call was made with
  cut,     \* the statement at which a call stopped; "code" when a reset went on
           \* although its code could not be marked
  \* history
  under,   \* the password of the account when each token was stored
  excused, \* failed logins that precede an administrator's unban
  past     \* failed logins counted before the last login that succeeded

vars == <<user, code, token, pc, kind, typed, cut, under, excused, past>>

Init ==
  /\ user = [password |-> First, failed |-> 0, locked |-> FALSE, banned |-> "no"]
  /\ code = [k \in Code |-> "free"]
  /\ token = [c \in Call |-> "none"]
  /\ pc = [c \in Call |-> "idle"]
  /\ kind = [c \in Call |-> "none"] /\ typed = [c \in Call |-> None]
  /\ cut = [c \in Call |-> "none"]
  /\ under = [c \in Call |-> None] /\ excused = {} /\ past = {}

Start(c, k, what, where) ==
  /\ pc[c] = "idle"
  /\ kind' = [kind EXCEPT ![c] = k]
  /\ typed' = [typed EXCEPT ![c] = what]
  /\ pc' = [pc EXCEPT ![c] = where]

Step(c, from, to) == pc[c] = from /\ pc' = [pc EXCEPT ![c] = to]

-----------------------------------------------------------------------------
(* Login                                                                   *)

Refused == user.banned # "no" \/ user.locked

LoginLocked(c) ==
  /\ user.banned = "no" /\ user.locked
  /\ Start(c, "locked", None, "done")
  /\ UNCHANGED <<user, code, token, cut, under, excused, past>>

\* The row is read once; the password is compared with what was read
LoginRight(c) ==
  /\ ~Refused
  /\ Start(c, "login", None, "device")
  /\ UNCHANGED <<user, code, token, cut, under, excused, past>>

LoginWrong(c) ==
  /\ ~Refused
  /\ Start(c, "wrong", None, "count")
  /\ UNCHANGED <<user, code, token, cut, under, excused, past>>

\* fault: the call sent again is sent again in its turn
AnsweredEver(d) == kind[d] \in {"wrong", "locked", "again"} /\ pc[d] = "done"

\* Answered 401: ApiClient sends the call again once, if the application holds
\* tokens it can refresh
Answered(d) == kind[d] \in {"wrong", "locked"} /\ pc[d] = "done" /\ cut[d] = "none"

LoginAgain(c) ==
  /\ ~Refused
  /\ Cardinality({d \in Call : kind[d] = "again"})
       < Cardinality({d \in Call : Answered(d)})
  /\ Start(c, "again", None, "count")
  /\ UNCHANGED <<user, code, token, cut, under, excused, past>>

\* fault: the ban waits for one failure more
VerdictLate(n) == IF n > BanAt THEN "ban" ELSE IF n >= LockAt THEN "lock" ELSE "done"

\* handleFailedLogin: one UPDATE ... RETURNING, then what its result asks for
Verdict(n) == IF n >= BanAt THEN "ban" ELSE IF n >= LockAt THEN "lock" ELSE "done"

CountFailure(c) ==
  /\ Step(c, "count", Verdict(user.failed + 1))
  /\ user' = [user EXCEPT !.failed = @ + 1]
  /\ UNCHANGED <<code, token, kind, typed, cut, under, excused, past>>

BanUser(c) ==
  /\ Step(c, "ban", "done")
  /\ user' = [user EXCEPT !.banned = "failures"]
  /\ UNCHANGED <<code, token, kind, typed, cut, under, excused, past>>

LockUser(c) ==
  /\ Step(c, "lock", "done")
  /\ user' = [user EXCEPT !.locked = TRUE]
  /\ UNCHANGED <<code, token, kind, typed, cut, under, excused, past>>

LockEnds ==
  /\ user.locked
  /\ user' = [user EXCEPT !.locked = FALSE]
  /\ UNCHANGED <<code, token, pc, kind, typed, cut, under, excused, past>>

\* UpsertDeviceSession
UpsertDevice(c) ==
  /\ Step(c, "device", "token")
  /\ UNCHANGED <<user, code, token, kind, typed, cut, under, excused, past>>

Failing == {c \in Call : kind[c] \in {"wrong", "again"}}

\* respondAuthTokens: CreateRefreshToken.  The count of failures stays as it is.
StoreToken(c) ==
  /\ Step(c, "token", "done")
  /\ token' = [token EXCEPT ![c] = "live"]
  /\ under' = [under EXCEPT ![c] = user.password]
  /\ past' = IF kind[c] = "login" THEN {d \in Failing : pc[d] # "count"} ELSE past
  /\ UNCHANGED <<user, code, kind, typed, cut, excused>>

-----------------------------------------------------------------------------
(* Codes: a password reset, and an e-mail verification, which signs in     *)

\* ForgotPassword, and ResendVerification when a minute has passed: earlier
\* codes stay valid
Mail(k) ==
  /\ code[k] = "free"
  /\ code' = [code EXCEPT ![k] = "valid"]
  /\ UNCHANGED <<user, token, pc, kind, typed, cut, under, excused, past>>

CodeExpires(k) ==
  /\ code[k] = "valid"
  /\ code' = [code EXCEPT ![k] = "over"]
  /\ UNCHANGED <<user, token, pc, kind, typed, cut, under, excused, past>>

\* fault: used_at is not looked at
AcceptsAny(k) == code[k] # "free"

Accepts(k) == code[k] = "valid"

\* fault: the tokens are revoked first, and the password stored last
RevokeFirst(from) == CASE from = "read" -> "revoke" [] from = "revoke" -> "update"
                       [] from = "update" -> "mark" [] from = "mark" -> "done"

\* The order of ResetPassword's statements
AfterReset(from) == CASE from = "read" -> "update" [] from = "update" -> "mark"
                      [] from = "mark" -> "revoke" [] from = "revoke" -> "done"

ResetRead(c, k) ==
  /\ k \in ResetCode /\ Accepts(k)
  /\ Start(c, "reset", k, AfterReset("read"))
  /\ UNCHANGED <<user, code, token, cut, under, excused, past>>

UpdatePassword(c) ==
  /\ Step(c, "update", AfterReset("update"))
  /\ user' = [user EXCEPT !.password = c]
  /\ UNCHANGED <<code, token, kind, typed, cut, under, excused, past>>

VerifyRead(c, k) ==
  /\ k \in VerifyCode /\ Accepts(k)
  /\ Start(c, "verify", k, "mark")
  /\ UNCHANGED <<user, code, token, cut, under, excused, past>>

\* MarkPasswordResetUsed, MarkEmailVerificationUsed
MarkUsed(c) ==
  /\ Step(c, "mark", IF kind[c] = "reset" THEN AfterReset("mark") ELSE "device")
  /\ code' = [code EXCEPT ![typed[c]] = "over"]
  /\ UNCHANGED <<user, token, kind, typed, cut, under, excused, past>>

\* ResetPassword ignores that its code could not be marked, and goes on
MarkFails(c) ==
  /\ kind[c] = "reset" /\ Step(c, "mark", AfterReset("mark"))
  /\ cut' = [cut EXCEPT ![c] = "code"]
  /\ UNCHANGED <<user, code, token, kind, typed, under, excused, past>>

Revoked == [d \in Call |-> IF token[d] = "live" THEN "revoked" ELSE token[d]]

RevokeTokens(c) ==
  /\ Step(c, "revoke", AfterReset("revoke"))
  /\ token' = Revoked
  /\ UNCHANGED <<user, code, kind, typed, cut, under, excused, past>>

-----------------------------------------------------------------------------
(* Calls of one statement, cancellation                                    *)

\* RevokeAllSessions
RevokeAllSessions ==
  /\ token' = Revoked
  /\ UNCHANGED <<user, code, pc, kind, typed, cut, under, excused, past>>

\* Logout, and the end of a token's thirty days
Logout(c) ==
  /\ token[c] = "live"
  /\ token' = [token EXCEPT ![c] = "revoked"]
  /\ UNCHANGED <<user, code, pc, kind, typed, cut, under, excused, past>>

AdminBanUser ==
  /\ user' = [user EXCEPT !.banned = "admin"]
  /\ UNCHANGED <<code, token, pc, kind, typed, cut, under, excused, past>>

\* The count of failures stays
AdminUnbanUser ==
  /\ user.banned # "no"
  /\ user' = [user EXCEPT !.banned = "no"]
  /\ excused' = Failing
  /\ UNCHANGED <<code, token, pc, kind, typed, cut, under, past>>

\* The client goes away before a statement that uses the request's context, or a
\* statement fails.
Cancel(c) ==
  /\ pc[c] \notin {"idle", "done"}
  /\ cut' = [cut EXCEPT ![c] = pc[c]]
  /\ pc' = [pc EXCEPT ![c] = "done"]
  /\ UNCHANGED <<user, code, token, kind, typed, under, excused, past>>

Next ==
  \/ \E c \in Call :
       \/ LoginLocked(c) \/ LoginRight(c) \/ LoginWrong(c) \/ LoginAgain(c)
       \/ CountFailure(c) \/ BanUser(c) \/ LockUser(c)
       \/ UpsertDevice(c) \/ StoreToken(c)
       \/ UpdatePassword(c) \/ MarkUsed(c) \/ MarkFails(c) \/ RevokeTokens(c)
       \/ \E k \in Code : ResetRead(c, k) \/ VerifyRead(c, k)
       \/ Logout(c) \/ Cancel(c)
  \/ \E k \in Code : Mail(k) \/ CodeExpires(k)
  \/ RevokeAllSessions \/ AdminBanUser \/ AdminUnbanUser \/ LockEnds

Spec == Init /\ [][Next]_vars

-----------------------------------------------------------------------------
(* Properties                                                              *)

Where == {"idle", "count", "lock", "ban", "device", "token", "update", "mark",
          "revoke", "done"}

Kind == {"none", "login", "wrong", "again", "locked", "reset", "verify"}

\* Every variable holds a value of its kind, and a call stands at a statement
\* of its own handler.
TypeOK ==
  /\ user \in [password : Password, failed : Nat, locked : BOOLEAN,
               banned : {"no", "failures", "admin"}]
  /\ code \in [Code -> {"free", "valid", "over"}]
  /\ token \in [Call -> {"none", "live", "revoked"}]
  /\ pc \in [Call -> Where] /\ kind \in [Call -> Kind]
  /\ typed \in [Call -> Code \cup {None}]
  /\ cut \in [Call -> Where \cup {"none", "code"}]
  /\ under \in [Call -> Password \cup {None}]
  /\ excused \subseteq Call /\ past \subseteq Call
  /\ \A c \in Call :
       /\ pc[c] \in {"update", "revoke"} => kind[c] = "reset"
       /\ pc[c] \in {"count", "lock", "ban"} => kind[c] \in {"wrong", "again"}
       /\ pc[c] = "mark" => kind[c] \in {"reset", "verify"}
       /\ kind[c] \in {"reset", "verify"} => typed[c] \in Code

Failed(c) == kind[c] \in {"wrong", "again"} /\ pc[c] = "done" /\ cut[c] = "none"

\* Failed logins are all counted, however many arrive at once: BanAt of them since
\* a login last succeeded, and since an administrator last lifted a ban, leave the
\* account banned.
FailuresBan ==
  Cardinality({c \in Call : Failed(c) /\ c \notin excused \cup past}) >= BanAt
    => user.banned # "no"

\* ARCHITECTURE.md:1065, "Réinitialiser failed_login_count" at a successful login:
\* the failures counted are those since the last one.  No handler calls
\* ResetFailedLoginCount.
CountStartsAgain == user.failed <= Cardinality(Failing \ past)

\* A user is not banned for fewer wrong entries than half of BanAt: the
\* application doubles an entry at most, and nothing else counts as a failure.
BanEarned ==
  user.banned = "failures" =>
    2 * Cardinality({c \in Call : kind[c] \in {"wrong", "locked"}}) >= BanAt

\* The reset that stored this password has yet to revoke the tokens, or was
\* cancelled before it did
Unfinished(p) == p \in Call /\ (\/ pc[p] \in {"mark", "revoke"}
                               \/ cut[p] \in {"mark", "revoke"})

\* A reset ends every session: a refresh token stored under an earlier password
\* is live only while the last reset is unfinished.  (A login that read the
\* earlier password may store its token later, under the new one.)
ResetEndsSessions ==
  \A c \in Call :
    token[c] = "live" /\ under[c] # user.password => Unfinished(user.password)

\* A code works once: after a call all of whose statements succeeded, no call accepts
\* it.
CodeSpent ==
  [][ \A c, d \in Call :
        pc[d] = "idle" /\ pc'[d] # "idle" /\ typed'[d] \in Code
          /\ typed[c] = typed'[d] /\ pc[c] = "done" => cut[c] # "none" ]_vars
=============================================================================
