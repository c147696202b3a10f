--------------------------- MODULE AccountsProofs ---------------------------
(* Proofs about Accounts, for any calls, codes and limits of failures.     *)
EXTENDS Accounts, FiniteSetTheorems, TLAPS

\* The order of ResetPassword's statements, as a table.
LEMMA ResetOrder ==
  /\ AfterReset("read") = "update" /\ AfterReset("update") = "mark"
  /\ AfterReset("mark") = "revoke" /\ AfterReset("revoke") = "done"
BY DEF AfterReset

\* The statement that follows a count, by its result.
LEMMA Verdicts ==
  ASSUME NEW n \in Nat
  PROVE  \/ Verdict(n) = "ban" /\ n >= BanAt
         \/ Verdict(n) \in {"lock", "done"} /\ n < BanAt
BY AccountsAssumption DEF Verdict

\* The account and the calls start well typed ...
LEMMA TypeInit == Init => TypeOK
BY AccountsAssumption
   DEF Init, TypeOK, Code, Password, Where, Kind, None

\* ... and every statement leaves them so.
LEMMA TypeNext == TypeOK /\ [Next]_vars => TypeOK'
<1> SUFFICES ASSUME TypeOK, [Next]_vars PROVE TypeOK'
  OBVIOUS
<1> USE DEF TypeOK, Where, Kind
<1>0. CASE UNCHANGED vars
  BY <1>0 DEF vars
<1>1. ASSUME NEW c \in Call,
             LoginLocked(c) \/ LoginRight(c) \/ LoginWrong(c) \/ LoginAgain(c)
      PROVE  TypeOK'
  BY <1>1 DEF LoginLocked, LoginRight, LoginWrong, LoginAgain, Start
<1>2. ASSUME NEW c \in Call, CountFailure(c) PROVE TypeOK'
  <2>1. Verdict(user.failed + 1) \in {"ban", "lock", "done"} /\ user.failed + 1 \in Nat
    BY Verdicts
  <2> QED BY <1>2, <2>1 DEF CountFailure, Step
<1>3. ASSUME NEW c \in Call, BanUser(c) \/ LockUser(c) \/ UpsertDevice(c) \/ StoreToken(c)
      PROVE  TypeOK'
  <2>0. CASE BanUser(c)
    BY <2>0 DEF BanUser, Step
  <2>1. CASE LockUser(c)
    <3>1. user' \in [password : Password, failed : Nat, locked : BOOLEAN,
                     banned : {"no", "failures", "admin"}]
      BY <2>1 DEF LockUser
    <3>2. pc' = [pc EXCEPT ![c] = "done"]
      BY <2>1 DEF LockUser, Step
    <3>3. UNCHANGED <<code, token, kind, typed, cut, under, excused, past>>
      BY <2>1 DEF LockUser
    <3> QED BY <3>1, <3>2, <3>3
  <2>2. CASE UpsertDevice(c)
    BY <2>2 DEF UpsertDevice, Step
  <2>3. CASE StoreToken(c)
    BY <2>3 DEF StoreToken, Step, Failing
  <2> QED BY <1>3, <2>0, <2>1, <2>2, <2>3
<1>4. ASSUME NEW c \in Call, UpdatePassword(c) \/ MarkUsed(c) \/ MarkFails(c) \/ RevokeTokens(c)
      PROVE  TypeOK'
  <2>1. CASE UpdatePassword(c)
    BY <2>1, ResetOrder DEF UpdatePassword, Step, Password
  <2>2. CASE MarkUsed(c)
    BY <2>2, ResetOrder DEF MarkUsed, Step
  <2>3. CASE RevokeTokens(c)
    BY <2>3, ResetOrder DEF RevokeTokens, Step, Revoked
  <2>4. CASE MarkFails(c)
    BY <2>4, ResetOrder DEF MarkFails, Step
  <2> QED BY <1>4, <2>1, <2>2, <2>3, <2>4
<1>5. ASSUME NEW c \in Call, NEW k \in Code, ResetRead(c, k) \/ VerifyRead(c, k)
      PROVE  TypeOK'
  BY <1>5, ResetOrder DEF ResetRead, VerifyRead, Start
<1>6. ASSUME NEW c \in Call, Logout(c) \/ Cancel(c) PROVE TypeOK'
  BY <1>6 DEF Logout, Cancel
<1>7. ASSUME NEW k \in Code, Mail(k) \/ CodeExpires(k) PROVE TypeOK'
  BY <1>7 DEF Mail, CodeExpires
<1>8. CASE RevokeAllSessions \/ AdminBanUser \/ AdminUnbanUser \/ LockEnds
  <2>1. CASE RevokeAllSessions
    BY <2>1 DEF RevokeAllSessions, Revoked
  <2>0. CASE LockEnds
    BY <2>0 DEF LockEnds
  <2>2. CASE AdminBanUser
    BY <2>2 DEF AdminBanUser
  <2>3. CASE AdminUnbanUser
    BY <2>3 DEF AdminUnbanUser, Failing
  <2> QED BY <1>8, <2>0, <2>1, <2>2, <2>3
<1> HIDE DEF TypeOK, Where, Kind
<1> QED BY <1>0, <1>1, <1>2, <1>3, <1>4, <1>5, <1>6, <1>7, <1>8 DEF Next

\* Every variable of Accounts holds a value of its kind.
THEOREM TypeCorrect == Spec => []TypeOK
BY TypeInit, TypeNext, PTL DEF Spec

-----------------------------------------------------------------------------
(* Resets and codes                                                        *)

\* A call that was cut has stopped, except a reset whose code could not be marked;
\* one that has not started holds no code, and only a reset stores a password.
Calls ==
  /\ \A c \in Call : cut[c] \notin {"none", "code"} => pc[c] = "done"
  /\ \A c \in Call :
       cut[c] = "code" => kind[c] = "reset" /\ pc[c] \in {"revoke", "done"}
  /\ \A c \in Call : pc[c] = "idle" => typed[c] = None /\ kind[c] = "none"
  /\ \A c \in Call : typed[c] \in Code => kind[c] \in {"reset", "verify"}
  /\ user.password \in Call => /\ kind[user.password] = "reset"
                               /\ pc[user.password] \notin {"idle", "update"}

\* A code is spent once a call made with it is past the statement that marks it.
Spent ==
  \A c \in Call :
    typed[c] \in Code /\ pc[c] \notin {"update", "mark"} /\ cut[c] = "none"
      => code[typed[c]] = "over"

CodeInv == TypeOK /\ Calls /\ Spent /\ ResetEndsSessions

\* Nothing has been stored, and no call has begun.
LEMMA CodeInit == Init => CodeInv
<1> SUFFICES ASSUME Init PROVE CodeInv
  OBVIOUS
<1>1. TypeOK
  BY TypeInit
<1> QED BY <1>1, AccountsAssumption
        DEF Init, CodeInv, Calls, Spent, ResetEndsSessions, Code, None

\* Every statement preserves the invariant of resets and codes.
LEMMA CodeNext == CodeInv /\ [Next]_vars => CodeInv'
<1> SUFFICES ASSUME CodeInv, [Next]_vars PROVE CodeInv'
  OBVIOUS
<1>a. TypeOK /\ TypeOK'
  BY TypeNext DEF CodeInv
<1>b. None \notin Code /\ First \notin Call
  BY AccountsAssumption DEF Code
<1> USE <1>a, <1>b DEF CodeInv, Calls, Spent, ResetEndsSessions, Unfinished
<1>0. CASE UNCHANGED vars
  BY <1>0 DEF vars
<1>1. ASSUME NEW c \in Call,
             LoginLocked(c) \/ LoginRight(c) \/ LoginWrong(c) \/ LoginAgain(c)
      PROVE  CodeInv'
  BY <1>1 DEF LoginLocked, LoginRight, LoginWrong, LoginAgain, Start, TypeOK
<1>2. ASSUME NEW c \in Call,
             CountFailure(c) \/ BanUser(c) \/ LockUser(c) \/ UpsertDevice(c) \/ StoreToken(c)
      PROVE  CodeInv'
  <2>1. \A n \in Nat : Verdict(n) \in {"ban", "lock", "done"}
    BY Verdicts
  <2>2. CASE CountFailure(c)
    BY <2>1, <2>2 DEF CountFailure, Step, TypeOK
  <2>3. CASE BanUser(c) \/ LockUser(c)
    BY <2>3 DEF BanUser, LockUser, Step, TypeOK
  <2>4. CASE UpsertDevice(c) \/ StoreToken(c)
    BY <2>4 DEF UpsertDevice, StoreToken, Step, TypeOK
  <2> QED BY <1>2, <2>2, <2>3, <2>4
<1>4. ASSUME NEW c \in Call, UpdatePassword(c) PROVE CodeInv'
  BY <1>4, ResetOrder DEF UpdatePassword, Step, TypeOK
<1>5. ASSUME NEW c \in Call, MarkUsed(c) \/ MarkFails(c) PROVE CodeInv'
  <2>1. CASE MarkUsed(c)
    BY <2>1, ResetOrder DEF MarkUsed, Step, TypeOK
  <2>2. CASE MarkFails(c)
    BY <2>2, ResetOrder DEF MarkFails, Step, TypeOK
  <2> QED BY <1>5, <2>1, <2>2
<1>6. ASSUME NEW c \in Call, RevokeTokens(c) PROVE CodeInv'
  BY <1>6, ResetOrder DEF RevokeTokens, Step, Revoked, TypeOK
<1>7. ASSUME NEW c \in Call, NEW k \in Code, ResetRead(c, k) \/ VerifyRead(c, k)
      PROVE  CodeInv'
  BY <1>7, ResetOrder DEF ResetRead, VerifyRead, Start, TypeOK
<1>8. ASSUME NEW c \in Call, Logout(c) \/ Cancel(c) PROVE CodeInv'
  <2>1. CASE Logout(c)
    BY <2>1 DEF Logout, TypeOK
  <2>2. CASE Cancel(c)
    <3>1. /\ pc[c] \notin {"idle", "done"} /\ cut' = [cut EXCEPT ![c] = pc[c]]
          /\ pc' = [pc EXCEPT ![c] = "done"] /\ pc[c] \in Where
          /\ UNCHANGED <<user, code, token, kind, typed, under, excused, past>>
      BY <2>2 DEF Cancel, TypeOK
    <3>2. cut'[c] \notin {"none", "code"}
      BY <3>1 DEF TypeOK, Where
    <3>3. Calls'
      BY <3>1, <3>2 DEF TypeOK
    <3>4. Spent'
      BY <3>1, <3>2 DEF TypeOK
    <3>5. ResetEndsSessions'
      BY <3>1 DEF TypeOK
    <3> QED BY <3>3, <3>4, <3>5
  <2> QED BY <1>8, <2>1, <2>2
<1>9. ASSUME NEW k \in Code, Mail(k) \/ CodeExpires(k) PROVE CodeInv'
  BY <1>9 DEF Mail, CodeExpires, TypeOK
<1>10. CASE RevokeAllSessions \/ AdminBanUser \/ AdminUnbanUser \/ LockEnds
  BY <1>10 DEF RevokeAllSessions, Revoked, AdminBanUser, AdminUnbanUser, LockEnds, TypeOK
<1> HIDE DEF CodeInv
<1> QED BY <1>0, <1>1, <1>2, <1>4, <1>5, <1>6, <1>7, <1>8, <1>9, <1>10 DEF Next

\* Once the last reset is finished, no session of an earlier password is left.
THEOREM ResetsEnd == Spec => []ResetEndsSessions
<1>1. CodeInv => ResetEndsSessions
  BY DEF CodeInv
<1> QED BY <1>1, CodeInit, CodeNext, PTL DEF Spec

\* After a call all of whose statements succeeded, no call accepts its code.
THEOREM CodesSpent == Spec => CodeSpent
<1> DEFINE A ==
      \A c, d \in Call :
        pc[d] = "idle" /\ pc'[d] # "idle" /\ typed'[d] \in Code
          /\ typed[c] = typed'[d] /\ pc[c] = "done" => cut[c] # "none"
<1>1. CodeInv /\ [Next]_vars => [A]_vars
  <2> SUFFICES ASSUME CodeInv, Next, NEW c \in Call, NEW d \in Call,
                      pc[d] = "idle", pc'[d] # "idle", typed'[d] \in Code,
                      typed[c] = typed'[d], pc[c] = "done"
               PROVE  cut[c] # "none"
    BY DEF vars
  <2>1. PICK e \in Call, k \in Code : ResetRead(e, k) \/ VerifyRead(e, k)
    <3> USE AccountsAssumption DEF CodeInv, Calls, TypeOK, Code
    <3>1. ASSUME NEW e \in Call,
                 LoginLocked(e) \/ LoginRight(e) \/ LoginWrong(e) \/ LoginAgain(e)
          PROVE  FALSE
      BY <3>1 DEF LoginLocked, LoginRight, LoginWrong, LoginAgain, Start
    <3>2. ASSUME typed' = typed PROVE FALSE
      BY <3>2
    <3> HIDE DEF CodeInv, Calls, TypeOK, Code
    <3> QED
      BY <3>1, <3>2
      DEF Next, CountFailure, BanUser, LockUser, UpsertDevice, StoreToken, UpdatePassword,
          MarkUsed, MarkFails, RevokeTokens, Logout, Cancel, Mail, CodeExpires,
          RevokeAllSessions, AdminBanUser, AdminUnbanUser, LockEnds
  <2>2. e = d /\ typed'[d] = k /\ code[k] = "valid"
    BY <2>1 DEF ResetRead, VerifyRead, Start, Accepts, CodeInv, TypeOK
  <2> QED BY <2>2 DEF CodeInv, Spent
<1> QED BY <1>1, CodeInit, CodeNext, PTL DEF Spec, CodeSpent

-----------------------------------------------------------------------------
(* Failed logins                                                           *)

Awaiting == {c \in Call : pc[c] = "count"}
Entered == {c \in Call : kind[c] \in {"wrong", "locked"}}
Repeats == {c \in Call : kind[c] = "again"}
Refusals == {c \in Call : Answered(c)}

\* Calls whose failure is counted, since the last success and the last unban, and
\* did not ban
Unpunished ==
  {c \in Call : /\ kind[c] \in {"wrong", "again"} /\ c \notin excused \cup past
                /\ pc[c] \in {"lock", "done"} /\ cut[c] = "none"}

\* The count is of failed logins; entries are repeated once at most; and while
\* the account is not banned fewer than BanAt failures wait for an excuse.
FailInv ==
  /\ user.failed + Cardinality(Awaiting) <= Cardinality(Failing)
  /\ Cardinality(Repeats) <= Cardinality(Refusals)
  /\ user.banned = "failures" => Cardinality(Failing) >= BanAt
  /\ \A c \in Call : pc[c] = "ban" => user.failed >= BanAt
  /\ \A c \in Call : pc[c] \in {"device", "token"} => kind[c] \in {"login", "verify"}
  /\ user.banned = "no" => /\ Cardinality(Unpunished) < BanAt
                           /\ Cardinality(Unpunished) <= user.failed

\* Sets of calls are finite, and counted by adding and removing one.
LEMMA CallSets ==
  /\ \A S : S \subseteq Call => Cardinality(S) \in Nat
  /\ \A S, T : S \subseteq T /\ T \subseteq Call => Cardinality(S) <= Cardinality(T)
  /\ \A S, c : S \subseteq Call /\ c \in Call \ S =>
       Cardinality(S \cup {c}) = Cardinality(S) + 1
  /\ \A S, c : S \subseteq Call /\ c \in S => Cardinality(S \ {c}) = Cardinality(S) - 1
<1>1. \A S : S \subseteq Call => IsFiniteSet(S)
  BY AccountsAssumption, FS_Subset
<1> QED BY <1>1, FS_CardinalityType, FS_Subset, FS_AddElement, FS_RemoveElement

\* A step on which no failure is counted, entered or lifted.
LEMMA Quiet ==
  ASSUME TypeOK, TypeOK', FailInv,
         Awaiting' \subseteq Awaiting, Failing' = Failing, Repeats' = Repeats,
         Refusals \subseteq Refusals', Unpunished' \subseteq Unpunished,
         user'.failed = user.failed, user'.banned \in {user.banned, "admin"},
         \A c \in Call : pc'[c] = "ban" => pc[c] = "ban",
         \A c \in Call : pc'[c] \in {"device", "token"} => kind'[c] \in {"login", "verify"}
  PROVE  FailInv'
<1>1. /\ Awaiting \subseteq Call /\ Failing \subseteq Call /\ Repeats \subseteq Call
      /\ Refusals' \subseteq Call /\ Unpunished \subseteq Call
  BY DEF Awaiting, Failing, Repeats, Refusals, Unpunished
<1>2. /\ Refusals \subseteq Call /\ Awaiting' \subseteq Call /\ Unpunished' \subseteq Call
  BY <1>1
<1>3. /\ Cardinality(Awaiting') <= Cardinality(Awaiting)
      /\ Cardinality(Refusals) <= Cardinality(Refusals')
      /\ Cardinality(Unpunished') <= Cardinality(Unpunished)
  BY <1>1, CallSets
<1>4. /\ Cardinality(Awaiting') \in Nat /\ Cardinality(Awaiting) \in Nat
      /\ Cardinality(Refusals) \in Nat /\ Cardinality(Refusals') \in Nat
      /\ Cardinality(Unpunished') \in Nat /\ Cardinality(Unpunished) \in Nat
      /\ Cardinality(Failing) \in Nat /\ Cardinality(Repeats) \in Nat
  BY <1>1, <1>2, CallSets
<1>5. user.failed \in Nat /\ BanAt \in Nat
  BY AccountsAssumption DEF TypeOK
<1> QED BY <1>3, <1>4, <1>5 DEF FailInv

\* Nothing has failed ...
LEMMA FailInit == Init => FailInv
<1> SUFFICES ASSUME Init PROVE FailInv
  OBVIOUS
<1>1. Awaiting = {} /\ Failing = {} /\ Repeats = {} /\ Refusals = {} /\ Unpunished = {}
  BY DEF Init, Awaiting, Failing, Repeats, Refusals, Unpunished, Answered
<1> QED BY <1>1, FS_EmptySet, AccountsAssumption DEF Init, FailInv

\* ... and every statement preserves what is said of failures.
LEMMA FailNext == TypeOK /\ Calls /\ FailInv /\ [Next]_vars => FailInv'
<1> SUFFICES ASSUME TypeOK, Calls, FailInv, [Next]_vars PROVE FailInv'
  OBVIOUS
<1>a. TypeOK'
  BY TypeNext
<1>b. /\ \A c \in Call : pc[c] = "idle" => kind[c] = "none"
      /\ \A c \in Call : cut[c] = "none" \/ pc[c] \in {"revoke", "done"}
      /\ \A c \in Call : cut[c] # "none" /\ pc[c] # "done" => kind[c] = "reset"
  BY DEF Calls
<1>c. /\ Awaiting \subseteq Call /\ Failing \subseteq Call /\ Repeats \subseteq Call
      /\ Refusals \subseteq Call /\ Unpunished \subseteq Call
      /\ Awaiting' \subseteq Call /\ Failing' \subseteq Call /\ Repeats' \subseteq Call
      /\ Refusals' \subseteq Call /\ Unpunished' \subseteq Call
  BY DEF Awaiting, Failing, Repeats, Refusals, Unpunished
<1>d. /\ Cardinality(Awaiting) \in Nat /\ Cardinality(Failing) \in Nat
      /\ Cardinality(Repeats) \in Nat /\ Cardinality(Refusals) \in Nat
      /\ Cardinality(Unpunished) \in Nat /\ Cardinality(Awaiting') \in Nat
      /\ Cardinality(Failing') \in Nat /\ Cardinality(Repeats') \in Nat
      /\ Cardinality(Refusals') \in Nat /\ Cardinality(Unpunished') \in Nat
      /\ user.failed \in Nat /\ BanAt \in Nat \ {0}
  <2>1. /\ Cardinality(Awaiting) \in Nat /\ Cardinality(Failing) \in Nat
        /\ Cardinality(Repeats) \in Nat /\ Cardinality(Refusals) \in Nat
        /\ Cardinality(Unpunished) \in Nat
    BY <1>c, CallSets
  <2>2. /\ Cardinality(Awaiting') \in Nat
        /\ Cardinality(Failing') \in Nat /\ Cardinality(Repeats') \in Nat
        /\ Cardinality(Refusals') \in Nat /\ Cardinality(Unpunished') \in Nat
    BY <1>c, CallSets
  <2> QED BY <2>1, <2>2, AccountsAssumption DEF TypeOK
<1> DEFINE Still ==
      /\ Awaiting' \subseteq Awaiting /\ Failing' = Failing /\ Repeats' = Repeats
      /\ Refusals \subseteq Refusals' /\ Unpunished' \subseteq Unpunished
      /\ user'.failed = user.failed /\ user'.banned \in {user.banned, "admin"}
      /\ \A c \in Call : pc'[c] = "ban" => pc[c] = "ban"
      /\ \A c \in Call : pc'[c] \in {"device", "token"} => kind'[c] \in {"login", "verify"}
<1>e. ASSUME Still PROVE FailInv'
  BY <1>a, <1>e, Quiet
<1>f. \A c \in Call : pc[c] \in {"device", "token"} => kind[c] \in {"login", "verify"}
  BY DEF FailInv
<1>0. CASE UNCHANGED vars
  BY <1>0, <1>e, <1>f DEF vars, Awaiting, Failing, Repeats, Refusals, Unpunished, Answered
<1>1. ASSUME NEW c \in Call, NEW k,
             LoginRight(c) \/ ResetRead(c, k) \/ VerifyRead(c, k)
      PROVE  FailInv'
  <2>1. PICK w, x : /\ w \in {"login", "reset", "verify"} /\ x \in {"device", "update", "mark"}
                    /\ (x = "device" => w = "login")
                    /\ pc[c] = "idle" /\ pc' = [pc EXCEPT ![c] = x]
                    /\ kind' = [kind EXCEPT ![c] = w]
    BY <1>1, ResetOrder DEF LoginRight, ResetRead, VerifyRead, Start
  <2>2. cut' = cut /\ user' = user /\ excused' = excused /\ past' = past
    BY <1>1 DEF LoginRight, ResetRead, VerifyRead
  <2>3. Still
    BY <1>b, <1>f, <2>1, <2>2
    DEF Awaiting, Failing, Repeats, Refusals, Unpunished, Answered, TypeOK
  <2> QED BY <1>e, <2>3
<1>2. ASSUME NEW c \in Call,
             \/ UpsertDevice(c) \/ StoreToken(c) \/ UpdatePassword(c) \/ MarkUsed(c)
             \/ MarkFails(c) \/ RevokeTokens(c)
      PROVE  FailInv'
  <2>1. /\ pc[c] \in {"device", "token", "update", "mark", "revoke"}
        /\ kind[c] \in {"login", "reset", "verify"}
    BY <1>2, <1>f DEF UpsertDevice, StoreToken, UpdatePassword, MarkUsed, MarkFails,
                      RevokeTokens, Step, TypeOK
  <2>2. PICK x : /\ x \in {"token", "done", "mark", "revoke", "device"}
                 /\ x \in {"token", "device"} => kind[c] \in {"login", "verify"}
                 /\ pc' = [pc EXCEPT ![c] = x]
    <3>1. CASE MarkUsed(c) \/ MarkFails(c)
      BY <2>1, <3>1, ResetOrder DEF MarkUsed, MarkFails, Step, TypeOK
    <3>2. CASE UpsertDevice(c) \/ StoreToken(c)
      BY <1>f, <2>1, <3>2 DEF UpsertDevice, StoreToken, Step
    <3>3. CASE UpdatePassword(c) \/ RevokeTokens(c)
      BY <3>3, ResetOrder DEF UpdatePassword, RevokeTokens, Step
    <3> QED BY <1>2, <3>1, <3>2, <3>3
  <2>3. /\ kind' = kind /\ excused' = excused
        /\ cut' = cut \/ cut' = [cut EXCEPT ![c] = "code"]
    BY <1>2 DEF UpsertDevice, StoreToken, UpdatePassword, MarkUsed, MarkFails, RevokeTokens
  <2>4. user'.failed = user.failed /\ user'.banned = user.banned
    BY <1>2 DEF UpsertDevice, StoreToken, UpdatePassword, MarkUsed, MarkFails, RevokeTokens,
                TypeOK
  <2>5. past' = past \/ past' = {d \in Failing : pc[d] # "count"}
    BY <1>2 DEF UpsertDevice, StoreToken, UpdatePassword, MarkUsed, MarkFails, RevokeTokens
  <2>6. /\ Awaiting' = Awaiting /\ Failing' = Failing /\ Repeats' = Repeats
        /\ Refusals' = Refusals
    BY <2>1, <2>2, <2>3 DEF Awaiting, Failing, Repeats, Refusals, Answered, TypeOK
  <2>7. Unpunished' \subseteq Unpunished
    <3> SUFFICES ASSUME NEW d \in Unpunished' PROVE d \in Unpunished
      OBVIOUS
    <3>1. /\ d \in Call /\ kind[d] \in {"wrong", "again"} /\ d # c
          /\ pc[d] \in {"lock", "done"} /\ cut[d] = "none" /\ d \notin excused
          /\ d \notin past'
      BY <2>1, <2>2, <2>3 DEF Unpunished, TypeOK
    <3>2. d \notin past
      BY <2>5, <3>1 DEF Failing
    <3> QED BY <3>1, <3>2 DEF Unpunished
  <2>8. /\ \A d \in Call : pc'[d] = "ban" => pc[d] = "ban"
        /\ \A d \in Call :
             pc'[d] \in {"device", "token"} => kind'[d] \in {"login", "verify"}
    BY <1>f, <2>2, <2>3 DEF TypeOK
  <2> QED BY <1>e, <2>4, <2>6, <2>7, <2>8
<1>3. ASSUME NEW c \in Call, LoginLocked(c) PROVE FailInv'
  <2>1. Still
    BY <1>b, <1>f, <1>3
    DEF LoginLocked, Start, Awaiting, Failing, Repeats, Refusals, Unpunished, Answered, TypeOK
  <2> QED BY <1>e, <2>1
<1>4. ASSUME NEW c \in Call, LoginWrong(c) \/ LoginAgain(c) PROVE FailInv'
  <2>1. PICK w : /\ w \in {"wrong", "again"}
                 /\ w = "again" => Cardinality(Repeats) < Cardinality(Refusals)
                 /\ pc[c] = "idle" /\ pc' = [pc EXCEPT ![c] = "count"]
                 /\ kind' = [kind EXCEPT ![c] = w]
    BY <1>4 DEF LoginWrong, LoginAgain, Start, Repeats, Refusals
  <2>2. cut' = cut /\ user' = user /\ excused' = excused /\ past' = past
    BY <1>4 DEF LoginWrong, LoginAgain
  <2>3. /\ Awaiting' = Awaiting \cup {c} /\ c \notin Awaiting
        /\ Failing' = Failing \cup {c} /\ c \notin Failing
        /\ Refusals' = Refusals /\ Unpunished' = Unpunished
    BY <1>b, <2>1, <2>2 DEF Awaiting, Failing, Refusals, Unpunished, Answered, TypeOK
  <2>4. /\ w = "wrong" => Repeats' = Repeats
        /\ w = "again" => Repeats' = Repeats \cup {c} /\ c \notin Repeats
    BY <1>b, <2>1 DEF Repeats, TypeOK
  <2>5. /\ Cardinality(Awaiting') = Cardinality(Awaiting) + 1
        /\ Cardinality(Failing') = Cardinality(Failing) + 1
    BY <1>c, <2>3, CallSets
  <2>6. Cardinality(Repeats') <= Cardinality(Refusals)
    <3>1. CASE w = "wrong"
      BY <2>4, <3>1 DEF FailInv
    <3>2. CASE w = "again"
      <4>1. Cardinality(Repeats') = Cardinality(Repeats) + 1
        BY <1>c, <2>4, <3>2, CallSets
      <4> QED BY <1>d, <2>1, <3>2, <4>1
    <3> QED BY <2>1, <3>1, <3>2
  <2>7. /\ \A d \in Call : pc'[d] = "ban" => pc[d] = "ban"
        /\ \A d \in Call : pc'[d] \in {"device", "token"} => kind'[d] \in {"login", "verify"}
    BY <1>f, <2>1 DEF TypeOK
  <2> QED BY <1>d, <2>2, <2>3, <2>5, <2>6, <2>7 DEF FailInv
<1>5. ASSUME NEW c \in Call, CountFailure(c) PROVE FailInv'
  <2>1. /\ pc[c] = "count" /\ kind[c] \in {"wrong", "again"}
        /\ pc' = [pc EXCEPT ![c] = Verdict(user.failed + 1)]
        /\ kind' = kind /\ cut' = cut /\ excused' = excused /\ past' = past
        /\ user'.failed = user.failed + 1 /\ user'.banned = user.banned
    BY <1>5 DEF CountFailure, Step, TypeOK
  <2>2. \/ Verdict(user.failed + 1) = "ban" /\ user.failed + 1 >= BanAt
        \/ Verdict(user.failed + 1) \in {"lock", "done"} /\ user.failed + 1 < BanAt
    BY <1>d, Verdicts
  <2>3. /\ Awaiting' = Awaiting \ {c} /\ c \in Awaiting /\ Failing' = Failing
        /\ Repeats' = Repeats /\ Refusals \subseteq Refusals'
    BY <2>1, <2>2 DEF Awaiting, Failing, Repeats, Refusals, Answered, TypeOK
  <2>4. /\ Cardinality(Awaiting') = Cardinality(Awaiting) - 1
        /\ Cardinality(Refusals) <= Cardinality(Refusals')
    BY <1>c, <2>3, CallSets
  <2>5. /\ \A d \in Call : pc'[d] = "ban" => user'.failed >= BanAt
        /\ \A d \in Call : pc'[d] \in {"device", "token"} => kind'[d] \in {"login", "verify"}
    BY <1>d, <1>f, <2>1, <2>2 DEF FailInv, TypeOK
  <2>6. user'.banned = "no" => /\ Cardinality(Unpunished') < BanAt
                               /\ Cardinality(Unpunished') <= user'.failed
    <3> SUFFICES ASSUME user.banned = "no"
                 PROVE  /\ Cardinality(Unpunished') < BanAt
                        /\ Cardinality(Unpunished') <= user.failed + 1
      BY <2>1
    <3>1. Cardinality(Unpunished) < BanAt /\ Cardinality(Unpunished) <= user.failed
      BY DEF FailInv
    <3>2. c \notin Unpunished
      BY <2>1 DEF Unpunished
    <3>3. \/ Unpunished' = Unpunished
          \/ Unpunished' = Unpunished \cup {c} /\ user.failed + 1 < BanAt
      BY <2>1, <2>2 DEF Unpunished, TypeOK
    <3>4. CASE Unpunished' = Unpunished
      BY <1>d, <3>1, <3>4
    <3>5. CASE Unpunished' = Unpunished \cup {c} /\ user.failed + 1 < BanAt
      <4>1. Cardinality(Unpunished') = Cardinality(Unpunished) + 1
        BY <1>c, <3>2, <3>5, CallSets
      <4> QED BY <1>d, <3>1, <3>5, <4>1
    <3> QED BY <3>3, <3>4, <3>5
  <2> QED BY <1>d, <2>1, <2>3, <2>4, <2>5, <2>6 DEF FailInv
<1>6. ASSUME NEW c \in Call, BanUser(c) PROVE FailInv'
  <2>1. /\ pc[c] = "ban" /\ pc' = [pc EXCEPT ![c] = "done"]
        /\ kind' = kind /\ cut' = cut /\ excused' = excused /\ past' = past
        /\ user'.failed = user.failed /\ user'.banned = "failures"
    BY <1>6 DEF BanUser, Step, TypeOK
  <2>2. Cardinality(Failing) >= BanAt
    BY <1>d, <2>1 DEF FailInv
  <2>3. /\ Awaiting' = Awaiting /\ Failing' = Failing
        /\ Repeats' = Repeats /\ Refusals \subseteq Refusals'
    BY <2>1 DEF Awaiting, Failing, Repeats, Refusals, Answered, TypeOK
  <2>4. Cardinality(Refusals) <= Cardinality(Refusals')
    BY <1>c, <2>3, CallSets
  <2>5. /\ \A d \in Call : pc'[d] = "ban" => user'.failed >= BanAt
        /\ \A d \in Call : pc'[d] \in {"device", "token"} => kind'[d] \in {"login", "verify"}
    BY <1>f, <2>1 DEF FailInv, TypeOK
  <2> QED BY <1>d, <2>1, <2>2, <2>3, <2>4, <2>5 DEF FailInv
<1>7. ASSUME NEW c \in Call, LockUser(c) \/ Cancel(c) PROVE FailInv'
  <2>1. CASE LockUser(c)
    <3>1. Still
      BY <1>f, <2>1
      DEF LockUser, Step, Awaiting, Failing, Repeats, Refusals, Unpunished, Answered, TypeOK
    <3> QED BY <1>e, <3>1
  <2>2. CASE Cancel(c)
    <3>1. Still
      BY <1>f, <2>2
      DEF Cancel, Awaiting, Failing, Repeats, Refusals, Unpunished, Answered, TypeOK, Where
    <3> QED BY <1>e, <3>1
  <2> QED BY <1>7, <2>1, <2>2
<1>8. CASE AdminUnbanUser
  <2>1. /\ excused' = Failing /\ kind' = kind /\ pc' = pc /\ cut' = cut
        /\ user'.failed = user.failed /\ user'.banned = "no"
    BY <1>8 DEF AdminUnbanUser, Failing, TypeOK
  <2>2. /\ Awaiting' = Awaiting /\ Failing' = Failing /\ Repeats' = Repeats
        /\ Refusals' = Refusals /\ Unpunished' = {}
    BY <2>1 DEF Awaiting, Failing, Repeats, Refusals, Unpunished, Answered
  <2>3. Cardinality(Unpunished') = 0
    BY <2>2, FS_EmptySet
  <2> QED BY <1>d, <2>1, <2>2, <2>3 DEF FailInv
<1>9. ASSUME UNCHANGED <<pc, kind, cut, excused, past>>, user'.failed = user.failed,
             user'.banned \in {user.banned, "admin"}
      PROVE  FailInv'
  BY <1>9, <1>e, <1>f DEF Awaiting, Failing, Repeats, Refusals, Unpunished, Answered
<1>10. ASSUME NEW c, NEW k, Logout(c) \/ Mail(k) \/ CodeExpires(k)
       PROVE  FailInv'
  BY <1>9, <1>10 DEF Logout, Mail, CodeExpires
<1>11. CASE RevokeAllSessions \/ AdminBanUser \/ LockEnds
  BY <1>9, <1>11 DEF RevokeAllSessions, AdminBanUser, LockEnds, TypeOK
<1> HIDE DEF Still
<1>12. CASE \E c \in Call :
              \/ LoginLocked(c) \/ LoginRight(c) \/ LoginWrong(c) \/ LoginAgain(c)
              \/ CountFailure(c) \/ BanUser(c) \/ LockUser(c)
              \/ UpsertDevice(c) \/ StoreToken(c)
              \/ UpdatePassword(c) \/ MarkUsed(c) \/ MarkFails(c) \/ RevokeTokens(c)
              \/ Logout(c) \/ Cancel(c)
  BY <1>1, <1>2, <1>3, <1>4, <1>5, <1>6, <1>7, <1>10, <1>12
<1>13. CASE \E c \in Call, k \in Code : ResetRead(c, k) \/ VerifyRead(c, k)
  BY <1>1, <1>13
<1>14. CASE \E k \in Code : Mail(k) \/ CodeExpires(k)
  BY <1>10, <1>14
<1> QED BY <1>0, <1>8, <1>11, <1>12, <1>13, <1>14 DEF Next

\* FailInv is an invariant: the calls are those of the invariant of codes.
LEMMA FailHolds == Spec => [](TypeOK /\ FailInv)
<1>1. Init => CodeInv /\ FailInv
  BY CodeInit, FailInit
<1>2. CodeInv /\ FailInv /\ [Next]_vars => (CodeInv /\ FailInv)'
  BY CodeNext, FailNext DEF CodeInv
<1>3. CodeInv /\ FailInv => TypeOK /\ FailInv
  BY DEF CodeInv
<1> QED BY <1>1, <1>2, <1>3, PTL DEF Spec

\* Failed logins are all counted: BanAt of them since the last success, and since
\* the last unban, leave the account banned.
THEOREM FailuresAlwaysBan == Spec => []FailuresBan
<1>1. TypeOK /\ FailInv => FailuresBan
  <2> SUFFICES ASSUME TypeOK, FailInv, user.banned = "no"
               PROVE  ~(Cardinality({c \in Call :
                                        Failed(c) /\ c \notin excused \cup past}) >= BanAt)
    BY DEF FailuresBan
  <2>1. PICK S : S = {c \in Call : Failed(c) /\ c \notin excused \cup past}
    OBVIOUS
  <2>2. S \subseteq Unpunished /\ Unpunished \subseteq Call
    BY <2>1 DEF Failed, Unpunished
  <2>3. /\ Cardinality(S) <= Cardinality(Unpunished)
        /\ Cardinality(S) \in Nat /\ Cardinality(Unpunished) \in Nat
    <3>1. S \subseteq Call
      BY <2>2
    <3> QED BY <2>2, <3>1, CallSets
  <2>4. Cardinality(Unpunished) < BanAt
    BY DEF FailInv
  <2> QED BY <2>1, <2>3, <2>4, AccountsAssumption
<1> QED BY <1>1, FailHolds, PTL

\* A ban for failures takes half of BanAt entries, and no more than the doubling
\* by the application can make of fewer.
THEOREM BansAreEarned == Spec => []BanEarned
<1>1. TypeOK /\ FailInv => BanEarned
  <2> SUFFICES ASSUME TypeOK, FailInv, user.banned = "failures"
               PROVE  2 * Cardinality(Entered) >= BanAt
    BY DEF BanEarned, Entered
  <2>1. Cardinality(Failing) >= BanAt /\ Cardinality(Repeats) <= Cardinality(Refusals)
    BY DEF FailInv
  <2> DEFINE W == {c \in Call : kind[c] = "wrong"}
  <2>2. /\ W \subseteq Call /\ Repeats \subseteq Call /\ Entered \subseteq Call
        /\ W \subseteq Entered /\ Refusals \subseteq Entered
        /\ Failing = W \cup Repeats
    BY DEF Repeats, Entered, Refusals, Answered, Failing
  <2>3. IsFiniteSet(W) /\ IsFiniteSet(Repeats) /\ Cardinality(W \cap Repeats) \in Nat
    <3>1. IsFiniteSet(W) /\ IsFiniteSet(Repeats)
      BY <2>2, AccountsAssumption, FS_Subset
    <3>2. W \cap Repeats \subseteq Call
      BY <2>2
    <3> QED BY <3>1, <3>2, CallSets
  <2>4. Cardinality(Failing) = Cardinality(W) + Cardinality(Repeats)
                               - Cardinality(W \cap Repeats)
    BY <2>2, <2>3, FS_Union
  <2>5. /\ Cardinality(W) <= Cardinality(Entered)
        /\ Cardinality(Refusals) <= Cardinality(Entered)
    BY <2>2, CallSets
  <2>6. /\ Cardinality(W) \in Nat /\ Cardinality(Entered) \in Nat
        /\ Cardinality(Refusals) \in Nat /\ Cardinality(Repeats) \in Nat
    <3>1. Refusals \subseteq Call
      BY DEF Refusals
    <3> QED BY <2>2, <3>1, CallSets
  <2> HIDE DEF W
  <2> QED BY <2>1, <2>3, <2>4, <2>5, <2>6, AccountsAssumption
<1> QED BY <1>1, FailHolds, PTL
=============================================================================
