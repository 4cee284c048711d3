------------------------------- MODULE SignIn -------------------------------
(***************************************************************************)
(* How requests get into a session: the customer's PIN, the admin's        *)
(* password and one-time code, lockouts and rate windows (auth.service.ts, *)
(* adminAuth.service.ts, lockout.service.ts, rateLimit.service.ts), and    *)
(* how admins are invited, set a password and lose their access.           *)
(*                                                                         *)
(* Users and requests are those of Sessions, which a request enters at     *)
(* "create", "savePin", "savePassword" or "sweep".  Keys of lockouts and   *)
(* windows are taken for the user they are about.                          *)
(***************************************************************************)
EXTENDS Sessions, FiniteSetsExt

CONSTANTS
  Code,                   \* one-time codes, numbered in the order of issue
  Threshold, MaxStrikes,  \* LOCKOUT.threshold; strikes until maxMs
  MaxAttempts,            \* OTP.maxAttempts
  LoginLimit, SendLimit,  \* ACCOUNT_LOGIN_LIMIT.limit, OTP.maxSendsPerHour
  Mailed                  \* codes pending at the start, with their user

VARIABLES
  lock,      \* lockouts: failed, until (none, future, past), strikes
  window,    \* windows: count, reset (absent, future, past), for each limit
  code,      \* one-time codes: state, user, attempts, age
  mem,       \* what a request holds: code, nth attempt, snapshot of a user
  invited,   \* the grant whose set-password token a user carries
  revoked,   \* users with revokedAdminAt
  linkSent,  \* grants whose invitation was mailed
  guesses,   \* history: comparisons made against a code
  usedBy,    \* history: requests a code let in
  allowed    \* history: attempts let through since the window opened

signInVars == <<lock, window, code, mem, invited, revoked, linkSent,
                guesses, usedBy, allowed>>
codeVars   == <<code, guesses, usedBy>>
adminVars  == <<invited, revoked, linkSent>>
vars == <<sessionVars, signInVars>>

ASSUME SignInConstants ==
  /\ Code \subseteq Nat
  /\ {Threshold, MaxStrikes, MaxAttempts, LoginLimit, SendLimit} \subseteq Nat \ {0}
  /\ DOMAIN Mailed \subseteq Code /\ \A c \in DOMAIN Mailed : Mailed[c] \in User
  /\ None \notin Request \cup Code
ASSUME AdminsHavePasswords ==
  \A u \in User : Account[u].role = "admin" => Account[u].secret

NoLock   == [failed |-> 0, until |-> "none", strikes |-> 0]
NoWindow == [count |-> 0, reset |-> "absent"]
Limit    == {"login", "send"}
Most(limit) == IF limit = "login" THEN LoginLimit ELSE SendLimit

tokenVars == <<token, idle, over, access, history>>

(* A statement of request r that leaves sessions and users alone. *)
Go(r, at) == Goto(r, at) /\ UNCHANGED <<user, tokenVars>>

-----------------------------------------------------------------------------
(* lockout.service.ts *)

Locked(u) == lock[u].until = "future"

(* recordFailure: an expired lock starts a new round ... *)
ResetRound(r) ==
  LET u == req[r].user
  IN  /\ req[r].at = "failed"
      /\ lock' = IF lock[u].until = "past"
                 THEN [lock EXCEPT ![u].failed = 0, ![u].until = "none"] ELSE lock
      /\ Go(r, "count")
      /\ UNCHANGED <<window, codeVars, mem, adminVars, allowed>>

(* Mutant of Reaches: the lock comes one failure late. *)
ReachesLate(n) == n > Threshold

Reaches(n) == n >= Threshold

(* ... the failure is counted ... *)
CountFailure(r) ==
  LET u == req[r].user  n == lock[u].failed + 1
  IN  /\ req[r].at = "count"
      /\ lock' = [lock EXCEPT ![u].failed = n]
      /\ Go(r, IF Reaches(n) THEN "lock" ELSE "done")
      /\ UNCHANGED <<window, codeVars, mem, adminVars, allowed>>

(* ... and the threshold locks the key, for longer with each strike.  The  *)
(* update is no upsert: a key cleared meanwhile stays cleared.             *)
LockKey(r) ==
  LET u == req[r].user
  IN  /\ req[r].at = "lock"
      /\ lock' = IF lock[u] = NoLock THEN lock
                 ELSE [lock EXCEPT ![u] =
                         [failed |-> 0, until |-> "future",
                          strikes |-> Min({@.strikes + 1, MaxStrikes})]]
      /\ Go(r, "done")
      /\ UNCHANGED <<window, codeVars, mem, adminVars, allowed>>

(* clearFailures: after a correct PIN or code, on the way into the session *)
Entry(kind) == IF kind = "pin" THEN "savePin" ELSE "create"

ClearFailures(r) ==
  /\ req[r].at = "clear"
  /\ lock' = [lock EXCEPT ![req[r].user] = NoLock]
  /\ Go(r, Entry(req[r].kind))
  /\ UNCHANGED <<window, codeVars, mem, adminVars, allowed>>

(* resetCustomerPin ends by clearing the customer's lockout; the script that *)
(* resets a super admin's password does not.                                 *)
ClearAfterReset(r) ==
  LET u == req[r].user
  IN  /\ req[r].at = "clearLock"
      /\ lock' = IF user[u].role = "super_admin" THEN lock ELSE [lock EXCEPT ![u] = NoLock]
      /\ Go(r, "done")
      /\ UNCHANGED <<window, codeVars, mem, adminVars, allowed>>

-----------------------------------------------------------------------------
(* rateLimit.service.ts *)

(* incrementWindow: one update that rolls a window whose time has passed *)
Rolled(w) == IF w.reset = "future" THEN [w EXCEPT !.count = @ + 1]
             ELSE [count |-> 1, reset |-> "future"]

(* consumeLimit: the request goes on at next, or is refused. *)
Consume(r, limit, next) ==
  LET u == req[r].user
      w == Rolled(window[limit][u])
      fits == w.count <= Most(limit)
  IN  /\ window' = [window EXCEPT ![limit][u] = w]
      /\ allowed' = [allowed EXCEPT ![limit][u] = IF fits THEN @ + 1 ELSE @]
      /\ Go(r, IF fits THEN next ELSE "done")
      /\ UNCHANGED <<lock, codeVars, mem, adminVars>>

-----------------------------------------------------------------------------
(* loginCustomer, adminLogin and changeCustomerPin, up to the comparison *)

(* A PIN change comes with an access token and perhaps a refresh token. *)
Caller(r, k) ==
  req[r].kind = "pin" =>
    /\ \E a \in access : a.user = req[r].user /\ a.aud = "customer" /\ Accepted(a)
    /\ k # None => Issued(k) /\ token[k].user = req[r].user

AssertNotLocked(r, k) ==
  LET q == req[r]
  IN  /\ q.at = "start" /\ q.kind \in {"login", "adminLogin", "pin", "verify"}
      /\ Caller(r, k) /\ (q.kind # "pin" => k = None)
      /\ req' = [req EXCEPT ![r] =
           [@ EXCEPT !.tok = k,
              !.aud = IF q.kind \in {"login", "pin"} THEN "customer" ELSE "admin",
              !.at = CASE Locked(q.user)    -> "done"
                       [] q.kind = "verify" -> "newest"
                       [] OTHER             -> "limit"]]
      /\ UNCHANGED <<user, tokenVars, signInVars>>

AccountLimit(r) == req[r].at = "limit" /\ Consume(r, "login", "compare")

(* The user is read and the secret compared: right or wrong. *)
CompareSecret(r, right) ==
  LET q == req[r]
      ok == right /\ user[q.user].secret /\ (q.kind # "pin" => MayHold(q.user, q.aud))
  IN  /\ q.at = "compare"
      /\ req' = [req EXCEPT ![r] =
           [@ EXCEPT !.tv = user[q.user].tv,
              !.at = CASE ~ok                   -> "failed"
                       [] q.kind = "adminLogin" -> "cooldown"
                       [] OTHER                 -> "clear"]]
      /\ UNCHANGED <<user, tokenVars, signInVars>>

-----------------------------------------------------------------------------
(* One-time codes: adminLogin, adminResendOtp and issueOtp *)

Pending(u) == {c \in Code : /\ code[c].state = "pending" /\ code[c].user = u
                            /\ code[c].age # "expired"}
Newest(u)   == {c \in Pending(u) : \A d \in Pending(u) : d <= c}
JustSent(u) == \E c \in Newest(u) : code[c].age = "new"

Cooldown(r) ==
  /\ req[r].at = "cooldown"
  /\ Go(r, IF JustSent(req[r].user) THEN "done" ELSE "cap")
  /\ UNCHANGED signInVars

Resend(r) ==
  LET u == req[r].user
  IN  /\ req[r].at = "start" /\ req[r].kind = "resend"
      /\ Go(r, IF Pending(u) = {} \/ JustSent(u) THEN "done" ELSE "addressee")
      /\ UNCHANGED signInVars

Addressee(r) ==
  /\ req[r].at = "addressee"
  /\ Go(r, IF MayHold(req[r].user, "admin") THEN "cap" ELSE "done")
  /\ UNCHANGED signInVars

SendCap(r) == req[r].at = "cap" /\ Consume(r, "send", "dropOld")

Drop(cs) == code' = [c \in Code |-> IF c \in cs THEN [code[c] EXCEPT !.state = "gone"]
                                    ELSE code[c]]

CodesOf(u) == {c \in Code : code[c].user = u /\ code[c].state # "unused"}

DropOldCodes(r) ==
  /\ req[r].at = "dropOld" /\ Drop(CodesOf(req[r].user)) /\ Go(r, "insertCode")
  /\ UNCHANGED <<lock, window, mem, adminVars, guesses, usedBy, allowed>>

InsertCode(r) ==
  /\ req[r].at = "insertCode"
  /\ \E c \in Code :
       /\ code[c].state = "unused"
       /\ \A d \in Code : code[d].state = "unused" => c <= d
       /\ code' = [code EXCEPT ![c] = [state |-> "pending", user |-> req[r].user,
                                       attempts |-> 0, age |-> "new"]]
       /\ mem' = [mem EXCEPT ![r].code = c]
  /\ Go(r, "mailCode")
  /\ UNCHANGED <<lock, window, adminVars, guesses, usedBy, allowed>>

(* Delivered, or not: then the code is removed. *)
MailCode(r) ==
  /\ req[r].at = "mailCode" /\ \E at \in {"done", "unsend"} : Go(r, at)
  /\ UNCHANGED signInVars

RemoveUnsent(r) ==
  /\ req[r].at = "unsend" /\ Drop({mem[r].code}) /\ Go(r, "done")
  /\ UNCHANGED <<lock, window, mem, adminVars, guesses, usedBy, allowed>>

-----------------------------------------------------------------------------
(* adminVerifyOtp *)

FindCode(r) ==
  /\ req[r].at = "newest"
  /\ \/ Pending(req[r].user) = {} /\ Go(r, "failed") /\ UNCHANGED mem
     \/ \E c \in Newest(req[r].user) :
          mem' = [mem EXCEPT ![r].code = c] /\ Go(r, "attempt")
  /\ UNCHANGED <<lock, window, codeVars, adminVars, allowed>>

(* Mutant of Attemptable: the cap on attempts is left out of the filter. *)
AttemptableUncapped(c) == code[c].state = "pending"

Attemptable(c) == code[c].state = "pending" /\ code[c].attempts < MaxAttempts

(* The attempt is counted before the comparison. *)
CountAttempt(r) ==
  LET c == mem[r].code
  IN  /\ req[r].at = "attempt"
      /\ IF Attemptable(c)
         THEN /\ code' = [code EXCEPT ![c].attempts = @ + 1]
              /\ mem' = [mem EXCEPT ![r].nth = code[c].attempts + 1]
              /\ Go(r, "check")
         ELSE UNCHANGED <<code, mem>> /\ Go(r, "failed")
      /\ UNCHANGED <<lock, window, adminVars, guesses, usedBy, allowed>>

(* The last wrong attempt burns the code. *)
CheckCode(r, right) ==
  LET c == mem[r].code
  IN  /\ req[r].at = "check"
      /\ guesses' = [guesses EXCEPT ![c] = @ + 1]
      /\ IF ~right /\ mem[r].nth >= MaxAttempts THEN Drop({c}) ELSE UNCHANGED code
      /\ Go(r, IF right THEN "consume" ELSE "failed")
      /\ UNCHANGED <<lock, window, mem, adminVars, usedBy, allowed>>

(* Mutant of Consumable: the filter on consumedAt is left out. *)
ConsumableAgain(c) == code[c].state \in {"pending", "consumed"}

Consumable(c) == code[c].state = "pending"

ConsumeCode(r) ==
  LET c == mem[r].code
  IN  /\ req[r].at = "consume"
      /\ IF Consumable(c)
         THEN /\ code' = [code EXCEPT ![c].state = "consumed"]
              /\ usedBy' = [usedBy EXCEPT ![c] = @ \cup {r}]
              /\ Go(r, "staff")
         ELSE UNCHANGED <<code, usedBy>> /\ Go(r, "failed")
      /\ UNCHANGED <<lock, window, mem, adminVars, guesses, allowed>>

FindStaff(r) ==
  LET u == req[r].user
  IN  /\ req[r].at = "staff"
      /\ req' = [req EXCEPT ![r] =
           [@ EXCEPT !.tv = user[u].tv,
                     !.at = IF MayHold(u, "admin") THEN "clear" ELSE "failed"]]
      /\ UNCHANGED <<user, tokenVars, signInVars>>

-----------------------------------------------------------------------------
(* grantAccess, setPassword and revokeAccess *)

(* A new address, or an account whose admin access was revoked. *)
LoadGrant(r) ==
  LET u == req[r].user
      again == user[u].role = "customer" /\ u \in revoked
  IN  /\ req[r].at = "start" /\ req[r].kind = "grant"
      /\ mem' = [mem EXCEPT ![r].snap = IF again THEN user[u].active ELSE None]
      /\ Go(r, IF again \/ user[u].role = "absent" THEN "saveGrant" ELSE "done")
      /\ UNCHANGED <<lock, window, codeVars, adminVars, allowed>>

SaveGrant(r) ==
  LET u == req[r].user
      new == mem[r].snap = None
  IN  /\ req[r].at = "saveGrant"
      /\ IF new /\ user[u].role # "absent"   \* created meanwhile: duplicate key
         THEN Go(r, "done") /\ UNCHANGED invited
         ELSE /\ user' = [user EXCEPT ![u] = [@ EXCEPT !.role = "admin", !.active = TRUE,
                                                       !.secret = FALSE]]
              /\ invited' = [invited EXCEPT ![u] = r]
              /\ Goto(r, "mailInvite")
              /\ UNCHANGED tokenVars
      /\ UNCHANGED <<lock, window, codeVars, mem, revoked, linkSent, allowed>>

MailInvite(r, sent) ==
  /\ req[r].at = "mailInvite"
  /\ linkSent' = IF sent THEN linkSent \cup {r} ELSE linkSent
  /\ Go(r, IF sent THEN "done" ELSE "rollback")
  /\ UNCHANGED <<lock, window, codeVars, mem, invited, revoked, allowed>>

(* Mutant of Restored: the rollback leaves the role. *)
RestoredFlagOnly(u, snap) == [user[u] EXCEPT !.active = snap # None /\ snap]

(* Mutant of Restored: the whole document is put back, as it was loaded. *)
RestoredWhole(u, snap) ==
  [user[u] EXCEPT !.role = IF snap = None THEN "deleted" ELSE "customer",
                  !.active = snap # None /\ snap, !.tv = 0]

(* The account as it was, or none. *)
Restored(u, snap) ==
  IF snap = None THEN [user[u] EXCEPT !.role = "deleted", !.active = FALSE]
  ELSE [user[u] EXCEPT !.role = "customer", !.active = snap]

RollbackGrant(r) ==
  LET u == req[r].user
  IN  /\ req[r].at = "rollback"
      /\ user' = [user EXCEPT ![u] = Restored(u, mem[r].snap)]
      /\ invited' = [invited EXCEPT ![u] = None]
      /\ Goto(r, "done")
      /\ UNCHANGED <<tokenVars, lock, window, codeVars, mem, revoked, linkSent, allowed>>

(* The link in the mail leads to the account that carries its token. *)
FindInvite(r) ==
  LET u == req[r].user
  IN  /\ req[r].at = "start" /\ req[r].kind = "setPassword"
      /\ invited[u] \in linkSent /\ user[u].role = "admin" /\ user[u].active
      /\ req' = [req EXCEPT ![r] = [@ EXCEPT !.tv = user[u].tv, !.at = "savePassword"]]
      /\ mem' = [mem EXCEPT ![r].snap = u \in revoked]
      /\ UNCHANGED <<user, tokenVars, lock, window, codeVars, adminVars, allowed>>

(* revokedAdminAt is only written back to null if it was loaded set. *)
UseInvite(r) ==
  LET u == req[r].user
  IN  /\ SavePassword(r)
      /\ invited' = [invited EXCEPT ![u] = None]
      /\ revoked' = IF mem[r].snap = TRUE THEN revoked \ {u} ELSE revoked
      /\ UNCHANGED <<lock, window, codeVars, mem, linkSent, allowed>>

LoadRevoke(r) ==
  /\ req[r].at = "start" /\ req[r].kind = "revoke"
  /\ Go(r, IF user[req[r].user].role = "admin" THEN "saveRevoke" ELSE "done")
  /\ UNCHANGED signInVars

SaveRevoke(r) ==
  LET u == req[r].user
  IN  /\ req[r].at = "saveRevoke"
      /\ user' = [user EXCEPT ![u] =
           IF @.role = "deleted" THEN @
           ELSE [@ EXCEPT !.role = "customer", !.active = FALSE, !.secret = FALSE]]
      /\ invited' = [invited EXCEPT ![u] = None]
      /\ revoked' = revoked \cup {u}
      /\ Goto(r, "sweep")
      /\ UNCHANGED <<tokenVars, lock, window, codeVars, mem, linkSent, allowed>>

DropCodes(r) ==
  /\ req[r].at = "dropCodes" /\ Drop(CodesOf(req[r].user)) /\ Go(r, "done")
  /\ UNCHANGED <<lock, window, mem, adminVars, guesses, usedBy, allowed>>

-----------------------------------------------------------------------------
(* Time, and the cleanup cron *)

LockEnds(u) ==
  /\ Locked(u) /\ lock' = [lock EXCEPT ![u].until = "past"]
  /\ UNCHANGED <<window, codeVars, mem, adminVars, allowed>>

(* runCleanup: a lockout a week after its last failure *)
CleanLockout(u) ==
  /\ ~Locked(u) /\ lock[u] # NoLock
  /\ \A r \in Request : req[r].user = u => req[r].at \notin {"failed", "count", "lock"}
  /\ lock' = [lock EXCEPT ![u] = NoLock]
  /\ UNCHANGED <<window, codeVars, mem, adminVars, allowed>>

WindowPasses(limit, u) ==
  /\ window[limit][u].reset = "future"
  /\ window' = [window EXCEPT ![limit][u].reset = "past"]
  /\ allowed' = [allowed EXCEPT ![limit][u] = 0]
  /\ UNCHANGED <<lock, codeVars, mem, adminVars>>

(* Mutant of Cleanable: the comparison with now is the wrong way round. *)
CleanableEarly(w) == w.reset = "future"

Cleanable(w) == w.reset = "past"

CleanWindow(limit, u) ==
  /\ Cleanable(window[limit][u])
  /\ window' = [window EXCEPT ![limit][u] = NoWindow]
  /\ UNCHANGED <<lock, codeVars, mem, adminVars, allowed>>

CodeAges(c) ==
  /\ code[c].state = "pending" /\ code[c].age # "expired"
  /\ code' = [code EXCEPT ![c].age = IF @ = "new" THEN "old" ELSE "expired"]
  /\ UNCHANGED <<lock, window, mem, adminVars, guesses, usedBy, allowed>>

CleanCode(c) ==
  /\ code[c].state = "consumed" \/ (code[c].state = "pending" /\ code[c].age = "expired")
  /\ Drop({c})
  /\ UNCHANGED <<lock, window, mem, adminVars, guesses, usedBy, allowed>>

Clock ==
  \/ \E u \in User : \/ LockEnds(u) \/ CleanLockout(u)
                     \/ \E limit \in Limit : WindowPasses(limit, u) \/ CleanWindow(limit, u)
  \/ \E c \in Code : CodeAges(c) \/ CleanCode(c)

-----------------------------------------------------------------------------
SignInStep(r) ==
  \/ ResetRound(r) \/ CountFailure(r) \/ LockKey(r) \/ ClearFailures(r)
  \/ ClearAfterReset(r)
  \/ \E k \in Token \cup {None} : AssertNotLocked(r, k)
  \/ AccountLimit(r) \/ \E right \in BOOLEAN : CompareSecret(r, right) \/ CheckCode(r, right)
  \/ Cooldown(r) \/ Resend(r) \/ Addressee(r) \/ SendCap(r)
  \/ DropOldCodes(r) \/ InsertCode(r) \/ MailCode(r) \/ RemoveUnsent(r)
  \/ FindCode(r) \/ CountAttempt(r) \/ ConsumeCode(r) \/ FindStaff(r)
  \/ LoadGrant(r) \/ SaveGrant(r) \/ \E sent \in BOOLEAN : MailInvite(r, sent)
  \/ RollbackGrant(r) \/ FindInvite(r) \/ UseInvite(r)
  \/ LoadRevoke(r) \/ SaveRevoke(r) \/ DropCodes(r)

SessionOnly(r) ==
  /\ SessionStep(r) /\ req[r].at # "savePassword"
  /\ UNCHANGED signInVars

Init ==
  /\ SessionInit
  /\ lock = [u \in User |-> NoLock]
  /\ window = [l \in Limit |-> [u \in User |-> NoWindow]]
  /\ code = [c \in Code |->
       [state |-> IF c \in DOMAIN Mailed THEN "pending" ELSE "unused",
        user |-> IF c \in DOMAIN Mailed THEN Mailed[c] ELSE None,
        attempts |-> 0, age |-> "new"]]
  /\ mem = [r \in Request |-> [code |-> None, nth |-> 0, snap |-> None]]
  /\ invited = [u \in User |-> None] /\ linkSent = {}
  /\ revoked = {u \in User : Account[u].role = "customer" /\ ~Account[u].active}
  /\ guesses = [c \in Code |-> 0] /\ usedBy = [c \in Code |-> {}]
  /\ allowed = [l \in Limit |-> [u \in User |-> 0]]

Next ==
  \/ \E r \in Request : SignInStep(r) \/ SessionOnly(r)
  \/ Time /\ UNCHANGED signInVars
  \/ Clock /\ UNCHANGED sessionVars

Spec == Init /\ [][Next]_vars

-----------------------------------------------------------------------------
TypeOK ==
  /\ SessionTypeOK
  /\ lock \in [User -> [failed : 0 .. Threshold + Cardinality(Request),
                        until : {"none", "future", "past"}, strikes : 0 .. MaxStrikes]]
  /\ window \in [Limit -> [User -> [count : Nat, reset : {"absent", "future", "past"}]]]
  /\ code \in [Code -> [state : {"unused", "pending", "consumed", "gone"},
                        user : User \cup {None}, attempts : 0 .. MaxAttempts,
                        age : {"new", "old", "expired"}]]
  /\ \A r \in Request : /\ mem[r].code \in Code \cup {None} /\ mem[r].nth \in 0 .. MaxAttempts
                        /\ mem[r].snap \in BOOLEAN \cup {None}
  /\ invited \in [User -> Request \cup {None}]
  /\ revoked \subseteq User /\ linkSent \subseteq Request

(* "count the attempt BEFORE comparing (atomic) so parallel guesses cannot *)
(* exceed the cap" (adminVerifyOtp, adminAuth.service.ts:92).               *)
CodeGuessesBounded == \A c \in Code : guesses[c] <= MaxAttempts

(* A code lets one request in at most, whoever else guessed it, issued a    *)
(* newer one or revoked the admin meanwhile (adminAuth.service.ts:100).     *)
OneSessionPerCode == \A c \in Code : Cardinality(usedBy[c]) <= 1

(* Failures never pile up past the threshold unless the request that        *)
(* reached it is about to lock the key (recordFailure).                     *)
FailuresLock ==
  \A u \in User : lock[u].failed >= Threshold =>
    \E r \in Request : req[r].user = u /\ req[r].at \in {"lock", "crashed"}

(* Within one window at most the limit of attempts, or of mails, gets       *)
(* through, however the attempts and the cleanup cron interleave.           *)
WindowLimits ==
  \A l \in Limit, u \in User :
    window[l][u].reset = "future" => allowed[l][u] <= Most(l)

(* "roll back so a failed invite never leaves a half-created admin"         *)
(* (grantAccess): an admin with no password was mailed the link to set it,  *)
(* or the grant that made it is still running or was killed.                *)
NoHalfCreatedAdmin ==
  \A u \in User : user[u].role = "admin" /\ ~user[u].secret =>
    /\ invited[u] # None
    /\ invited[u] \in linkSent \/ req[invited[u]].at \in {"mailInvite", "rollback", "crashed"}

=============================================================================
