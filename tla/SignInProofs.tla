---------------------------- MODULE SignInProofs ----------------------------
(***************************************************************************)
(* Proofs about SignIn, for any number of users, codes and requests: it    *)
(* implements Sessions, whose theorems therefore hold of the whole; codes  *)
(* are guessed and used within their limits, failures lock, windows hold   *)
(* their limit, and invited admins get their link.                         *)
(***************************************************************************)
EXTENDS SignIn, SessionsProofs, FiniteSetTheorems

-----------------------------------------------------------------------------
(* SignIn implements Sessions                                              *)

(* The statements of a request that may still enter a session.             *)
Waiting == {"start", "limit", "compare", "clear", "cooldown", "cap", "dropOld",
            "insertCode", "mailCode", "unsend", "newest", "attempt", "check",
            "consume", "staff", "addressee", "saveGrant", "mailInvite", "rollback",
            "saveRevoke"}

(* There it holds no family, and no later version than its user has.       *)
Approaching ==
  \A r \in Request : req[r].at \in Waiting =>
    req[r].fam = None /\ NoLater(req[r].user, req[r].tv)

Remembers(m) == DOMAIN m = {"code", "nth", "snap"} /\ m.snap \in BOOLEAN \cup {None}

Memory == DOMAIN mem = Request /\ \A r \in Request : Remembers(mem[r])

(* Request r becomes q by a statement of SignIn.                           *)
Advance(r, q) ==
  /\ req[r].at \notin Critical
  /\ q \in ReqDoc /\ req' = [req EXCEPT ![r] = q]
  /\ q.user = req[r].user /\ q.fam = req[r].fam
  /\ q.tv \in {req[r].tv, user[req[r].user].tv}
  /\ q.at \in Critical => q.at \in {"create", "savePin", "savePassword", "sweep"}
  /\ q.at \in Critical \cup Waiting => req[r].at \in Waiting
  /\ UNCHANGED tokenVars

(* Its writes of users leave their versions alone.                         *)
Edited == user' \in [User -> UserDoc] /\ \A u \in User : user'[u].tv = user[u].tv

LEMMA GoAdvances ==
  ASSUME Typed, NEW r \in Request, NEW at \in Statement, Goto(r, at), UNCHANGED tokenVars,
         req[r].at \notin Critical,
         at \in Critical => at \in {"create", "savePin", "savePassword", "sweep"},
         at \in Critical \cup Waiting => req[r].at \in Waiting
  PROVE  \E q \in ReqDoc : Advance(r, q)
<1> DEFINE q == [req[r] EXCEPT !.at = at]
<1>1. req[r] \in ReqDoc
  BY DEF Typed, SessionTypeOK
<1>2. q \in ReqDoc /\ q.at = at /\ q.user = req[r].user /\ q.fam = req[r].fam /\ q.tv = req[r].tv
  BY <1>1 DEF ReqDoc
<1>3. req' = [req EXCEPT ![r] = q]
  BY DEF Goto
<1> HIDE DEF q
<1> QED BY <1>2, <1>3 DEF Advance

LEMMA SameUsersEdited ==
  ASSUME Typed, user' = user
  PROVE  Edited
BY DEF Edited, Typed, SessionTypeOK

(* Lockouts, windows and codes: where a request goes from there.           *)
LEMMA LockAdvances ==
  ASSUME Typed, NEW r \in Request,
         \/ ResetRound(r) \/ CountFailure(r) \/ LockKey(r) \/ ClearFailures(r)
         \/ ClearAfterReset(r) \/ AccountLimit(r) \/ SendCap(r)
         \/ Cooldown(r) \/ Resend(r) \/ Addressee(r)
  PROVE  Edited /\ \E q \in ReqDoc : Advance(r, q)
<1>1. \E at \in Statement :
        /\ Go(r, at) /\ req[r].at \notin Critical
        /\ at \in Critical => at \in {"create", "savePin", "savePassword", "sweep"}
        /\ at \in Critical \cup Waiting => req[r].at \in Waiting
  <2>1. CASE ResetRound(r)
    BY <2>1 DEF ResetRound, Statement, Critical, Waiting
  <2>2. CASE CountFailure(r)
    BY <2>2 DEF CountFailure, Statement, Critical, Waiting
  <2>3. CASE LockKey(r)
    BY <2>3 DEF LockKey, Statement, Critical, Waiting
  <2>4. CASE ClearFailures(r)
    BY <2>4 DEF ClearFailures, Entry, Statement, Critical, Waiting
  <2>5. CASE ClearAfterReset(r)
    BY <2>5 DEF ClearAfterReset, Statement, Critical, Waiting
  <2>6. CASE AccountLimit(r)
    BY <2>6 DEF AccountLimit, Consume, Statement, Critical, Waiting
  <2>7. CASE SendCap(r)
    BY <2>7 DEF SendCap, Consume, Statement, Critical, Waiting
  <2>8. CASE Cooldown(r)
    BY <2>8 DEF Cooldown, Statement, Critical, Waiting
  <2>9. CASE Resend(r)
    BY <2>9 DEF Resend, Statement, Critical, Waiting
  <2>10. CASE Addressee(r)
    BY <2>10 DEF Addressee, Statement, Critical, Waiting
  <2> QED BY <2>1, <2>2, <2>3, <2>4, <2>5, <2>6, <2>7, <2>8, <2>9, <2>10
<1> QED BY <1>1, GoAdvances, SameUsersEdited DEF Go

LEMMA CodeAdvances ==
  ASSUME Typed, NEW r \in Request,
         \/ DropOldCodes(r) \/ InsertCode(r) \/ MailCode(r) \/ RemoveUnsent(r)
         \/ FindCode(r) \/ CountAttempt(r) \/ \E right \in BOOLEAN : CheckCode(r, right)
         \/ ConsumeCode(r) \/ DropCodes(r)
  PROVE  Edited /\ \E q \in ReqDoc : Advance(r, q)
<1>1. \E at \in Statement :
        /\ Go(r, at) /\ req[r].at \notin Critical
        /\ at \notin Critical /\ (at \in Waiting => req[r].at \in Waiting)
  <2>1. CASE DropOldCodes(r)
    BY <2>1 DEF DropOldCodes, Statement, Critical, Waiting
  <2>2. CASE InsertCode(r)
    BY <2>2 DEF InsertCode, Statement, Critical, Waiting
  <2>3. CASE MailCode(r)
    BY <2>3 DEF MailCode, Statement, Critical, Waiting
  <2>4. CASE RemoveUnsent(r)
    BY <2>4 DEF RemoveUnsent, Statement, Critical, Waiting
  <2>5. CASE FindCode(r)
    BY <2>5 DEF FindCode, Statement, Critical, Waiting
  <2>6. CASE CountAttempt(r)
    BY <2>6 DEF CountAttempt, Statement, Critical, Waiting
  <2>7. ASSUME NEW right \in BOOLEAN, CheckCode(r, right)
        PROVE  /\ Go(r, IF right THEN "consume" ELSE "failed") /\ req[r].at = "check"
    BY <2>7 DEF CheckCode
  <2>8. CASE \E right \in BOOLEAN : CheckCode(r, right)
    BY <2>7, <2>8 DEF Statement, Critical, Waiting
  <2>9. CASE ConsumeCode(r)
    BY <2>9 DEF ConsumeCode, Statement, Critical, Waiting
  <2>10. CASE DropCodes(r)
    BY <2>10 DEF DropCodes, Statement, Critical, Waiting
  <2> QED BY <2>1, <2>2, <2>3, <2>4, <2>5, <2>6, <2>8, <2>9, <2>10
<1> QED BY <1>1, GoAdvances, SameUsersEdited DEF Go

(* The statements that read a user: with the version they read.            *)
LEMMA ReadAdvances ==
  ASSUME Typed, NEW r \in Request,
         \/ \E k \in Token \cup {None} : AssertNotLocked(r, k)
         \/ \E right \in BOOLEAN : CompareSecret(r, right)
         \/ FindStaff(r) \/ FindInvite(r)
  PROVE  Edited /\ \E q \in ReqDoc : Advance(r, q)
<1>0. /\ req[r] \in ReqDoc /\ user[req[r].user].tv \in Nat
  BY DEF Typed, SessionTypeOK, ReqDoc, UserDoc
<1>1. ASSUME NEW k \in Token \cup {None}, AssertNotLocked(r, k)
      PROVE  UNCHANGED <<user, tokenVars>> /\ \E q \in ReqDoc : Advance(r, q)
  <2> DEFINE aud == IF req[r].kind \in {"login", "pin"} THEN "customer" ELSE "admin"
             at == CASE Locked(req[r].user)    -> "done"
                     [] req[r].kind = "verify" -> "newest"
                     [] OTHER                  -> "limit"
  <2>0. aud \in Audience /\ at \in {"done", "newest", "limit"}
    BY DEF Audience
  <2>1. req' = [req EXCEPT ![r] = [req[r] EXCEPT !.tok = k, !.aud = aud, !.at = at]]
    BY <1>1 DEF AssertNotLocked
  <2> HIDE DEF aud, at
  <2> DEFINE q == [req[r] EXCEPT !.tok = k, !.aud = aud, !.at = at]
  <2>2. /\ q \in ReqDoc /\ q.at = at /\ q.user = req[r].user /\ q.fam = req[r].fam
        /\ q.tv = req[r].tv
    BY <1>0, <2>0 DEF ReqDoc, Statement, Critical
  <2> HIDE DEF q
  <2>3. req[r].at = "start" /\ UNCHANGED <<user, tokenVars>>
    BY <1>1 DEF AssertNotLocked
  <2>4. Advance(r, q)
    BY <2>0, <2>1, <2>2, <2>3 DEF q, Advance, Critical, Waiting
  <2> QED BY <2>2, <2>3, <2>4
<1>2. ASSUME NEW at \in {"failed", "cooldown", "clear", "savePassword"},
             req' = [req EXCEPT ![r] = [req[r] EXCEPT !.tv = user[req[r].user].tv, !.at = at]],
             req[r].at \in Waiting \ Critical, UNCHANGED tokenVars
      PROVE  \E q \in ReqDoc : Advance(r, q)
  <2> DEFINE q == [req[r] EXCEPT !.tv = user[req[r].user].tv, !.at = at]
  <2>1. /\ q \in ReqDoc /\ q.at = at /\ q.user = req[r].user /\ q.fam = req[r].fam
        /\ q.tv = user[req[r].user].tv
    BY <1>0 DEF ReqDoc, Statement, Critical
  <2> HIDE DEF q
  <2>2. Advance(r, q)
    BY <1>2, <2>1 DEF q, Advance, Critical, Waiting
  <2> QED BY <2>1, <2>2
<1>3. ASSUME NEW right \in BOOLEAN, CompareSecret(r, right)
      PROVE  UNCHANGED <<user, tokenVars>> /\ \E q \in ReqDoc : Advance(r, q)
  <2> DEFINE ok == /\ right /\ user[req[r].user].secret
                   /\ req[r].kind # "pin" => MayHold(req[r].user, req[r].aud)
             at == CASE ~ok -> "failed"
                     [] req[r].kind = "adminLogin" -> "cooldown"
                     [] OTHER -> "clear"
  <2>0. at \in {"failed", "cooldown", "clear"}
    OBVIOUS
  <2>1. req' = [req EXCEPT ![r] = [req[r] EXCEPT !.tv = user[req[r].user].tv, !.at = at]]
    BY <1>3 DEF CompareSecret
  <2> HIDE DEF at
  <2>2. req[r].at = "compare" /\ UNCHANGED <<user, tokenVars>>
    BY <1>3 DEF CompareSecret
  <2>3. req[r].at \in Waiting \ Critical
    BY <2>2 DEF Waiting, Critical
  <2> QED BY <1>2, <2>0, <2>1, <2>2, <2>3
<1>4. CASE FindStaff(r)
  <2>1. PICK at \in {"failed", "clear"} :
          req' = [req EXCEPT ![r] = [req[r] EXCEPT !.tv = user[req[r].user].tv, !.at = at]]
    BY <1>4 DEF FindStaff
  <2>2. req[r].at = "staff" /\ UNCHANGED <<user, tokenVars>>
    BY <1>4 DEF FindStaff
  <2>3. req[r].at \in Waiting \ Critical
    BY <2>2 DEF Waiting, Critical
  <2> QED BY <1>2, <2>1, <2>2, <2>3, SameUsersEdited
<1>5. CASE FindInvite(r)
  <2>1. req' = [req EXCEPT ![r] = [req[r] EXCEPT !.tv = user[req[r].user].tv,
                                                 !.at = "savePassword"]]
    BY <1>5 DEF FindInvite
  <2>2. req[r].at = "start" /\ UNCHANGED <<user, tokenVars>>
    BY <1>5 DEF FindInvite
  <2>3. req[r].at \in Waiting \ Critical
    BY <2>2 DEF Waiting, Critical
  <2> QED BY <1>2, <2>1, <2>2, <2>3, SameUsersEdited
<1> QED BY <1>1, <1>3, <1>4, <1>5, SameUsersEdited

(* The edits of grantAccess and revokeAccess: none writes tokenVersion.    *)
LEMMA AccessAdvances ==
  ASSUME Typed, Memory, NEW r \in Request,
         \/ LoadGrant(r) \/ SaveGrant(r) \/ \E sent \in BOOLEAN : MailInvite(r, sent)
         \/ RollbackGrant(r) \/ LoadRevoke(r) \/ SaveRevoke(r)
  PROVE  Edited /\ \E q \in ReqDoc : Advance(r, q)
<1>0. /\ req[r].user \in User /\ user \in [User -> UserDoc]
      /\ mem[r].snap \in BOOLEAN \cup {None}
  BY DEF Typed, SessionTypeOK, ReqDoc, Memory, Remembers
<1>1. ASSUME NEW d \in UserDoc, d.tv = user[req[r].user].tv,
             user' = [user EXCEPT ![req[r].user] = d]
      PROVE  Edited
  BY <1>0, <1>1 DEF Edited
<1>2. Edited
  <2>1. CASE SaveGrant(r) /\ user' # user
    <3> DEFINE d == [user[req[r].user] EXCEPT !.role = "admin", !.active = TRUE, !.secret = FALSE]
    <3>1. user' = [user EXCEPT ![req[r].user] = d]
      BY <2>1 DEF SaveGrant, Go
    <3>2. d \in UserDoc /\ d.tv = user[req[r].user].tv
      BY <1>0, ZenonT(40) DEF UserDoc, Role
    <3> QED BY <1>1, <3>1, <3>2
  <2>2. CASE RollbackGrant(r)
    <3>1. Restored(req[r].user, mem[r].snap) \in UserDoc
          /\ Restored(req[r].user, mem[r].snap).tv = user[req[r].user].tv
      <4>1. CASE mem[r].snap = None
        BY <1>0, <4>1 DEF Restored, UserDoc, Role
      <4>2. CASE mem[r].snap \in BOOLEAN /\ mem[r].snap # None
        BY <1>0, <4>2, ZenonT(40) DEF Restored, UserDoc, Role
      <4> QED BY <1>0, <4>1, <4>2
    <3> QED BY <1>1, <2>2, <3>1 DEF RollbackGrant
  <2>3. CASE SaveRevoke(r)
    <3> DEFINE e == user[req[r].user]
               d == IF e.role = "deleted" THEN e
                    ELSE [e EXCEPT !.role = "customer", !.active = FALSE, !.secret = FALSE]
    <3>1. user' = [user EXCEPT ![req[r].user] = d]
      BY <2>3 DEF SaveRevoke
    <3>2. d \in UserDoc /\ d.tv = user[req[r].user].tv
      BY <1>0 DEF UserDoc, Role
    <3> QED BY <1>1, <3>1, <3>2
  <2>4. CASE user' = user
    BY <2>4, SameUsersEdited
  <2> QED BY <2>1, <2>2, <2>3, <2>4 DEF LoadGrant, MailInvite, LoadRevoke, Go
<1>3. \E at \in Statement :
        /\ Goto(r, at) /\ UNCHANGED tokenVars /\ req[r].at \notin Critical
        /\ at \in Critical => at \in {"create", "savePin", "savePassword", "sweep"}
        /\ at \in Critical \cup Waiting => req[r].at \in Waiting
  <2>1. CASE LoadGrant(r)
    BY <2>1 DEF LoadGrant, Go, Statement, Critical, Waiting
  <2>2. CASE SaveGrant(r)
    BY <2>2 DEF SaveGrant, Go, Statement, Critical, Waiting
  <2>3. ASSUME NEW sent \in BOOLEAN, MailInvite(r, sent)
        PROVE  /\ Goto(r, IF sent THEN "done" ELSE "rollback") /\ UNCHANGED tokenVars
               /\ req[r].at = "mailInvite"
    BY <2>3 DEF MailInvite, Go
  <2>4. CASE \E sent \in BOOLEAN : MailInvite(r, sent)
    BY <2>3, <2>4 DEF Statement, Critical, Waiting
  <2>5. CASE RollbackGrant(r)
    BY <2>5 DEF RollbackGrant, Statement, Critical, Waiting
  <2>6. CASE LoadRevoke(r)
    BY <2>6 DEF LoadRevoke, Go, Statement, Critical, Waiting
  <2>7. CASE SaveRevoke(r)
    BY <2>7 DEF SaveRevoke, Statement, Critical, Waiting
  <2> QED BY <2>1, <2>2, <2>4, <2>5, <2>6, <2>7
<1> QED BY <1>2, <1>3, GoAdvances

LEMMA SignInAdvances ==
  ASSUME Typed, Memory, NEW r \in Request, SignInStep(r)
  PROVE  UseInvite(r) \/ (Edited /\ \E q \in ReqDoc : Advance(r, q))
BY LockAdvances, CodeAdvances, ReadAdvances, AccessAdvances DEF SignInStep

LEMMA AdvanceElsewhere ==
  ASSUME Typed, Approaching, NEW r \in Request, NEW q \in ReqDoc, Advance(r, q), Edited
  PROVE  Elsewhere(r)
<1>1. req'[r] = q /\ q.user \in User
  BY DEF Advance, Typed, SessionTypeOK, ReqDoc
<1>2. q.at \in Critical => q.fam = None /\ (q.tv <= user[q.user].tv \/ q.user \in clobbered)
  <2> SUFFICES ASSUME q.at \in Critical
               PROVE  q.fam = None /\ (q.tv <= user[q.user].tv \/ q.user \in clobbered)
    OBVIOUS
  <2>1. req[r].fam = None /\ NoLater(req[r].user, req[r].tv)
    BY DEF Advance, Approaching
  <2>2. user[q.user].tv \in Nat
    BY <1>1 DEF Typed, SessionTypeOK, UserDoc
  <2> QED BY <2>1, <2>2 DEF Advance, NoLater
<1> QED BY <1>1, <1>2 DEF Advance, Edited, Elsewhere, tokenVars, history

LEMMA NextImplements ==
  ASSUME Typed, Approaching, Memory, [Next]_vars
  PROVE  [SessionNext]_sessionVars
<1>1. ASSUME NEW r \in Request, SignInStep(r) PROVE SessionNext
  <2>1. CASE UseInvite(r)
    BY <2>1 DEF UseInvite, SessionStep, SessionNext
  <2>2. CASE Edited /\ \E q \in ReqDoc : Advance(r, q)
    BY <2>2, AdvanceElsewhere DEF SessionNext
  <2> QED BY <1>1, <2>1, <2>2, SignInAdvances
<1>2. ASSUME NEW r \in Request, SessionOnly(r) PROVE SessionNext
  BY <1>2 DEF SessionOnly, SessionNext
<1>3. CASE Time /\ UNCHANGED signInVars
  BY <1>3 DEF SessionNext
<1>4. CASE UNCHANGED sessionVars
  BY <1>4
<1> QED BY <1>1, <1>2, <1>3, <1>4 DEF Next, vars

(* What the statements of Sessions do to a request, and to versions.       *)
Outcome == Critical \cup {"done", "crashed", "saveReset", "dropCodes", "clearLock"}

LEMMA SessionStepMoves ==
  ASSUME Typed, NEW r \in Request, SessionStep(r)
  PROVE  /\ \A s \in Request \ {r} : req'[s] = req[s]
         /\ req'[r].user = req[r].user
         /\ req'[r].at \in Outcome
<1>0. req \in [Request -> ReqDoc] /\ req[r] \in ReqDoc
  BY DEF Typed, SessionTypeOK
<1>1. ASSUME NEW k \in Token, PresentToken(r, k) \/ Logout(r, k)
      PROVE  /\ \A s \in Request \ {r} : req'[s] = req[s]
             /\ req'[r].user = req[r].user /\ req'[r].at \in Outcome
  <2>1. PICK at \in {"owner", "burn"} :
          req' = [req EXCEPT ![r] = [req[r] EXCEPT !.tok = k, !.fam = token[k].fam,
                                                   !.aud = token[k].aud, !.at = at]]
    BY <1>1 DEF PresentToken, Logout
  <2> QED BY <1>0, <2>1 DEF ReqDoc, Outcome, Critical
<1>2. CASE CheckOwner(r) \/ SavePin(r) \/ FindKeep(r)
  <2>1. CASE CheckOwner(r)
    <3>1. PICK at \in {"claim", "burn"}, n \in {user[req[r].user].tv} :
            req' = [req EXCEPT ![r] = [req[r] EXCEPT !.tv = n, !.at = at]]
      BY <2>1 DEF CheckOwner
    <3> QED BY <1>0, <3>1 DEF ReqDoc, Outcome, Critical
  <2>2. CASE SavePin(r)
    <3>1. PICK n \in {req[r].tv + 1} :
            req' = [req EXCEPT ![r] = [req[r] EXCEPT !.tv = n, !.at = "findKeep"]]
      BY <2>2 DEF SavePin
    <3> QED BY <1>0, <3>1 DEF ReqDoc, Outcome, Critical
  <2>3. CASE FindKeep(r)
    <3> DEFINE k == req[r].tok
               f == IF k # None /\ Live(k) /\ token[k].user = req[r].user
                    THEN token[k].fam ELSE None
    <3>1. req' = [req EXCEPT ![r] = [req[r] EXCEPT !.at = "sweepOthers", !.fam = f]]
      BY <2>3 DEF FindKeep
    <3> HIDE DEF f
    <3> QED BY <1>0, <3>1 DEF ReqDoc, Outcome, Critical
  <2> QED BY <1>2, <2>1, <2>2, <2>3
<1>3. ASSUME NEW at \in Outcome, Goto(r, at)
      PROVE  /\ \A s \in Request \ {r} : req'[s] = req[s]
             /\ req'[r].user = req[r].user /\ req'[r].at \in Outcome
  BY <1>0, <1>3 DEF Goto, ReqDoc
<1>4. CASE \/ Claim(r) \/ Burn(r) \/ Create(r) \/ SweepOthers(r) \/ SavePassword(r)
           \/ Sweep(r) \/ Increment(r) \/ LoadReset(r) \/ SaveReset(r) \/ Crash(r)
  <2>1. \E at \in Outcome : Goto(r, at)
    BY <1>4 DEF Claim, Burn, Create, SweepOthers, SavePassword, Sweep, Increment,
                AfterRevokeAll, LoadReset, SaveReset, Crash, Outcome, Critical
  <2> QED BY <1>3, <2>1
<1> QED BY <1>1, <1>2, <1>4 DEF SessionStep

LEMMA VersionsRise ==
  ASSUME Typed, NEW r \in Request, SessionStep(r),
         NEW u \in User, NEW n \in Nat, NoLater(u, n)
  PROVE  NoLater(u, n)'
<1>0. /\ user \in [User -> UserDoc] /\ req[r] \in ReqDoc /\ req[r].user \in User
      /\ req[r].tv \in Nat /\ user[u].tv \in Nat /\ user[req[r].user].tv \in Nat
  BY DEF Typed, SessionTypeOK, ReqDoc, UserDoc
<1>1. CASE UNCHANGED <<user, clobbered>>
  BY <1>1 DEF NoLater
<1>2. CASE SavePin(r) \/ SavePassword(r) \/ Increment(r)
  <2>1. PICK m \in Nat :
          /\ user'[req[r].user].tv = m
          /\ \A v \in User \ {req[r].user} : user'[v] = user[v]
          /\ \/ m > user[req[r].user].tv /\ clobbered' = clobbered
             \/ clobbered' = clobbered \cup {req[r].user}
    <3>1. CASE SavePin(r)
      BY <1>0, <3>1 DEF SavePin, Bump, UserDoc
    <3>2. CASE SavePassword(r)
      BY <1>0, <3>2 DEF SavePassword, Bump, UserDoc
    <3>3. CASE Increment(r)
      BY <1>0, <3>3 DEF Increment, Raised, UserDoc
    <3> QED BY <1>2, <3>1, <3>2, <3>3
  <2> QED BY <1>0, <2>1 DEF NoLater
<1>3. CASE SaveReset(r)
  BY <1>0, <1>3 DEF SaveReset, NoLater, UserDoc, history
<1> QED BY <1>1, <1>2, <1>3 DEF SessionStep, PresentToken, Logout, CheckOwner, Claim, Burn,
           Create, FindKeep, SweepOthers, Sweep, LoadReset, Crash, history

LEMMA StepApproaching ==
  ASSUME Typed, Approaching, Memory, [Next]_vars
  PROVE  Approaching'
<1>0. \A s \in Request : req[s].user \in User /\ req[s].tv \in Nat
  BY DEF Typed, SessionTypeOK, ReqDoc
<1>1. CASE UNCHANGED <<req, user, clobbered>>
  BY <1>1 DEF Approaching, NoLater
<1>2. ASSUME NEW r \in Request, NEW q \in ReqDoc, Advance(r, q), Edited PROVE Approaching'
  <2>1. \A s \in Request : req'[s] = IF s = r THEN q ELSE req[s]
    BY <1>2 DEF Advance, Typed, SessionTypeOK
  <2>2. /\ clobbered' = clobbered /\ \A u \in User : user'[u].tv = user[u].tv
        /\ \A u \in User : user[u].tv \in Nat
    BY <1>2 DEF Advance, Edited, tokenVars, history, Typed, SessionTypeOK, UserDoc
  <2>3. q.at \in Waiting => q.fam = None /\ NoLater(q.user, q.tv)
    BY <1>0, <1>2, <2>2 DEF Advance, Approaching, NoLater
  <2>4. ASSUME NEW s \in Request, req'[s].at \in Waiting
        PROVE  req'[s].fam = None /\ NoLater(req[s].user, req[s].tv)'
    <3>1. CASE s = r
      <4>1. q.user \in User
        BY DEF ReqDoc
      <4> QED BY <2>1, <2>2, <2>3, <2>4, <3>1, <4>1 DEF NoLater
    <3>2. CASE s # r
      <4>1. req[s].fam = None /\ NoLater(req[s].user, req[s].tv)
        BY <2>1, <2>4, <3>2 DEF Approaching
      <4> QED BY <1>0, <2>1, <2>2, <3>2, <4>1 DEF NoLater
    <3> QED BY <3>1, <3>2
  <2> QED BY <2>4 DEF Approaching
<1>3. ASSUME NEW r \in Request, SessionStep(r) PROVE Approaching'
  <2>1. /\ \A s \in Request \ {r} : req'[s] = req[s]
        /\ req'[r].at \notin Waiting
    BY <1>3, SessionStepMoves DEF Outcome, Critical, Waiting
  <2>2. ASSUME NEW s \in Request \ {r}, NoLater(req[s].user, req[s].tv)
        PROVE  NoLater(req[s].user, req[s].tv)'
    <3> DEFINE u == req[s].user
               n == req[s].tv
    <3>1. u \in User /\ n \in Nat /\ NoLater(u, n)
      BY <1>0, <2>2
    <3>2. u \in clobbered' \/ n <= user'[u].tv
      <4> HIDE DEF u, n
      <4> QED BY <1>3, <3>1, VersionsRise DEF NoLater
    <3>3. req'[s] = req[s]
      BY <2>1
    <3> QED BY <3>2, <3>3 DEF NoLater
  <2>3. ASSUME NEW s \in Request, req'[s].at \in Waiting
        PROVE  req'[s].fam = None /\ NoLater(req[s].user, req[s].tv)'
    <3>1. s # r /\ req'[s] = req[s]
      BY <2>1, <2>3
    <3>2. req[s].fam = None /\ NoLater(req[s].user, req[s].tv)
      BY <2>3, <3>1 DEF Approaching
    <3> QED BY <2>2, <3>1, <3>2
  <2> QED BY <2>3 DEF Approaching
<1>4. ASSUME NEW r \in Request, SignInStep(r) PROVE Approaching'
  <2>1. CASE UseInvite(r)
    BY <1>3, <2>1 DEF UseInvite, SessionStep
  <2> QED BY <1>2, <1>4, <2>1, SignInAdvances
<1>5. CASE Time
  BY <1>1, <1>5 DEF Time, TokenIdles, SessionExpires, CleanTokens, history
<1> QED BY <1>1, <1>3, <1>4, <1>5 DEF Next, SessionOnly, vars, sessionVars

(* What a request remembers, one field at a time.                          *)
LEMMA RememberFields ==
  ASSUME Memory, NEW r \in Request, NEW x
  PROVE  /\ mem' = [mem EXCEPT ![r].code = x] \/ mem' = [mem EXCEPT ![r].nth = x]
              => Memory'
         /\ mem' = [mem EXCEPT ![r].snap = x] /\ x \in BOOLEAN \cup {None}
              => Memory' /\ \A s \in Request : mem'[s].code = mem[s].code
         /\ mem' = [mem EXCEPT ![r].nth = x]
              => \A s \in Request : mem'[s].code = mem[s].code
         /\ mem' = [mem EXCEPT ![r].code = x]
              => mem'[r].code = x /\ \A s \in Request \ {r} : mem'[s] = mem[s]
BY DEF Memory, Remembers

LEMMA StepMemory ==
  ASSUME Typed, Memory, [Next]_vars
  PROVE  Memory'
<1>1. CASE mem' = mem
  BY <1>1 DEF Memory
<1>2. ASSUME NEW r \in Request, SignInStep(r), mem' # mem PROVE Memory'
  <2>1. CASE InsertCode(r) \/ FindCode(r) \/ CountAttempt(r)
    BY <1>2, <2>1, RememberFields DEF InsertCode, FindCode, CountAttempt
  <2>2. CASE LoadGrant(r)
    <3>1. user[req[r].user].active \in BOOLEAN
      BY DEF Typed, SessionTypeOK, ReqDoc, UserDoc
    <3> QED BY <2>2, <3>1, RememberFields DEF LoadGrant
  <2>3. CASE FindInvite(r)
    <3> DEFINE b == req[r].user \in revoked
    <3>1. b \in BOOLEAN
      OBVIOUS
    <3>2. mem' = [mem EXCEPT ![r].snap = b]
      BY <2>3 DEF FindInvite
    <3> HIDE DEF b
    <3> QED BY <3>1, <3>2, RememberFields
  <2>4. ASSUME NEW right \in BOOLEAN, CompareSecret(r, right) \/ CheckCode(r, right)
        PROVE  mem' = mem
    BY <2>4 DEF CompareSecret, CheckCode, signInVars
  <2>5. ASSUME NEW k \in Token \cup {None}, AssertNotLocked(r, k) PROVE mem' = mem
    BY <2>5 DEF AssertNotLocked, signInVars
  <2>6. CASE \/ ResetRound(r) \/ CountFailure(r) \/ LockKey(r) \/ ClearFailures(r)
             \/ ClearAfterReset(r) \/ AccountLimit(r) \/ SendCap(r)
             \/ Cooldown(r) \/ Resend(r) \/ Addressee(r) \/ DropOldCodes(r)
    BY <1>2, <2>6 DEF ResetRound, CountFailure, LockKey, ClearFailures, ClearAfterReset,
       AccountLimit, SendCap, Consume, Cooldown, Resend, Addressee, DropOldCodes, signInVars
  <2>7. CASE \/ MailCode(r) \/ RemoveUnsent(r) \/ ConsumeCode(r) \/ FindStaff(r)
             \/ SaveGrant(r) \/ \E sent \in BOOLEAN : MailInvite(r, sent)
             \/ RollbackGrant(r) \/ UseInvite(r) \/ LoadRevoke(r) \/ SaveRevoke(r)
             \/ DropCodes(r)
    BY <1>2, <2>7 DEF MailCode, RemoveUnsent, ConsumeCode, FindStaff, SaveGrant, MailInvite,
       RollbackGrant, UseInvite, LoadRevoke, SaveRevoke, DropCodes, signInVars
  <2> QED BY <1>2, <2>1, <2>2, <2>3, <2>4, <2>5, <2>6, <2>7 DEF SignInStep
<1>3. CASE Clock
  BY <1>1, <1>3 DEF Clock, LockEnds, CleanLockout, WindowPasses, CleanWindow, CodeAges, CleanCode
<1> QED BY <1>1, <1>2, <1>3 DEF Next, SessionOnly, vars, signInVars

LEMMA SpecImplements == Spec => SessionSpec /\ [](Typed /\ Approaching /\ Memory)
<1>1. Init => SessionInit /\ Typed /\ Approaching /\ Memory
  <2> SUFFICES ASSUME Init PROVE Typed /\ Approaching /\ Memory
    BY DEF Init
  <2>1. Typed
    BY InitTyped DEF Init
  <2>2. Approaching
    <3>1. PICK w \in Workload : Begin(w)
      BY DEF Init, SessionInit
    <3>2. \A r \in Request : req[r].fam = None /\ req[r].tv = 0 /\ req[r].user \in User
      BY <2>1, <3>1 DEF Begin, Typed, SessionTypeOK, ReqDoc
    <3> QED BY <3>2 DEF Approaching, NoLater, Init, SessionInit
  <2>3. Memory
    BY DEF Init, Memory, Remembers
  <2> QED BY <2>1, <2>2, <2>3
<1>2. Typed /\ Approaching /\ Memory /\ [Next]_vars
        => [SessionNext]_sessionVars /\ Typed' /\ Approaching' /\ Memory'
  BY NextImplements, StepTyped, StepApproaching, StepMemory
<1> QED BY <1>1, <1>2, PTL DEF Spec, SessionSpec

(* Every behaviour of the requests that sign in is one of Sessions: they   *)
(* enter it with no family and with the version they have read, and never  *)
(* write a tokenVersion themselves.                                        *)
THEOREM SignInImplementsSessions == Spec => SessionSpec
BY SpecImplements, PTL

(* What Sessions promises holds with logins, codes, lockouts, invitations  *)
(* and revocations around it: one live token a session, no live token in   *)
(* an ended one, and no killed access token accepted.                      *)
THEOREM SessionsHoldInSignIn == Spec => [](OneLiveToken /\ EndedStaysEnded /\ KilledStaysKilled)
BY SignInImplementsSessions, SessionsHaveOneToken, SessionsStayEnded, KilledTokensStayKilled, PTL

-----------------------------------------------------------------------------
(* One-time codes.  A guess is counted before it is made: the guesses made *)
(* and those about to be made are no more than the attempts.               *)

CodeDoc == [state : {"unused", "pending", "consumed", "gone"}, user : User \cup {None},
            attempts : 0 .. MaxAttempts, age : {"new", "old", "expired"}]

Checking(c) == {r \in Request : req[r].at = "check" /\ mem[r].code = c}

Unmet(c) == /\ guesses[c] = 0 /\ usedBy[c] = {}
            /\ \A r \in Request : mem[r].code # c

Counted(c) ==
  /\ IsFiniteSet(Checking(c))
  /\ guesses[c] + Cardinality(Checking(c)) <= code[c].attempts
  /\ code[c].state = "unused" => Unmet(c)
  /\ code[c].state = "pending" => usedBy[c] = {}
  /\ usedBy[c] = {} \/ \E r \in Request : usedBy[c] = {r}

CodesTyped == /\ code \in [Code -> CodeDoc] /\ guesses \in [Code -> Nat]
              /\ usedBy \in [Code -> SUBSET Request]

Codes == CodesTyped /\ \A c \in Code : Counted(c)

LEMMA InitCodes == Init => Codes
<1> SUFFICES ASSUME Init PROVE Codes
  OBVIOUS
<1>1. /\ MaxAttempts \in Nat
      /\ \A c \in DOMAIN Mailed : Mailed[c] \in User
  BY SignInConstants
<1>2. \A c \in Code : code[c] = [state |-> IF c \in DOMAIN Mailed THEN "pending" ELSE "unused",
                                 user |-> IF c \in DOMAIN Mailed THEN Mailed[c] ELSE None,
                                 attempts |-> 0, age |-> "new"]
  BY DEF Init
<1>3. \A c \in Code : code[c] \in CodeDoc
  <2>1. ASSUME NEW st \in {"pending", "unused"}, NEW u \in User \cup {None}
        PROVE  [state |-> st, user |-> u, attempts |-> 0, age |-> "new"] \in CodeDoc
    BY <1>1 DEF CodeDoc
  <2> TAKE c \in Code
  <2> DEFINE st == IF c \in DOMAIN Mailed THEN "pending" ELSE "unused"
             u  == IF c \in DOMAIN Mailed THEN Mailed[c] ELSE None
  <2>2. st \in {"pending", "unused"} /\ u \in User \cup {None}
    BY <1>1
  <2>3. code[c] = [state |-> st, user |-> u, attempts |-> 0, age |-> "new"]
    BY <1>2
  <2> HIDE DEF st, u
  <2> QED BY <2>1, <2>2, <2>3
<1>4. CodesTyped
  BY <1>3 DEF Init, CodesTyped
<1>5. \A r \in Request : req[r].at = "start"
  BY DEF Init, SessionInit, Begin
<1>6. ASSUME NEW c \in Code PROVE Counted(c)
  <2>1. Checking(c) = {}
    BY <1>5 DEF Checking
  <2>2. guesses[c] = 0 /\ usedBy[c] = {} /\ code[c].attempts = 0
    BY <1>2 DEF Init
  <2>3. \A r \in Request : mem[r].code # c
    BY SignInConstants, <1>6 DEF Init
  <2> QED BY <2>1, <2>2, <2>3, FS_EmptySet DEF Counted, Unmet
<1> QED BY <1>4, <1>6 DEF Codes

(* A code that no new request is about to check, that was not guessed or   *)
(* used, and whose state is the same or past using.                        *)
LEMMA Uncounted ==
  ASSUME NEW c \in Code, Counted(c), Checking(c)' \subseteq Checking(c),
         CodesTyped,
         code'[c].attempts = code[c].attempts,
         guesses'[c] = guesses[c], usedBy'[c] = usedBy[c],
         code'[c].state \in {code[c].state, "gone"},
         code'[c].state = "unused" => \A r \in Request : mem'[r].code # c
  PROVE  Counted(c)'
<1>1. /\ IsFiniteSet(Checking(c)')
      /\ Cardinality(Checking(c)') <= Cardinality(Checking(c))
      /\ Cardinality(Checking(c)') \in Nat /\ Cardinality(Checking(c)) \in Nat
  BY FS_Subset, FS_CardinalityType DEF Counted
<1>2. guesses[c] \in Nat /\ code[c].attempts \in Nat
  BY SignInConstants DEF CodesTyped, CodeDoc
<1>3. guesses'[c] + Cardinality(Checking(c)') <= code'[c].attempts
  BY <1>1, <1>2 DEF Counted
<1>4. /\ code'[c].state = "unused" => Unmet(c)'
      /\ code'[c].state = "pending" => usedBy'[c] = {}
      /\ usedBy'[c] = {} \/ \E r \in Request : usedBy'[c] = {r}
  BY DEF Counted, Unmet
<1> QED BY <1>1, <1>3, <1>4 DEF Counted

(* A step that neither counts, makes nor rewards a guess.                  *)
Settles ==
  /\ UNCHANGED <<guesses, usedBy>>
  /\ code' \in [Code -> CodeDoc]
  /\ \A c \in Code : /\ code'[c].attempts = code[c].attempts
                     /\ code'[c].state \in {code[c].state, "gone"}
  /\ \A s \in Request :
       \/ mem'[s].code = mem[s].code /\ (req'[s].at = "check" => req[s].at = "check")
       \/ /\ mem'[s].code \in Code /\ code[mem'[s].code].state # "unused"
          /\ req'[s].at # "check"

LEMMA SettledCodes ==
  ASSUME Codes, Settles
  PROVE  Codes'
<1>1. CodesTyped'
  BY DEF Codes, CodesTyped, Settles
<1>2. ASSUME NEW c \in Code PROVE Counted(c)'
  <2>1. Counted(c) /\ CodesTyped
    BY DEF Codes
  <2>2. Checking(c)' \subseteq Checking(c)
    BY DEF Checking, Settles
  <2>3. code'[c].state = "unused" => \A s \in Request : mem'[s].code # c
    BY <2>1 DEF Settles, Counted, Unmet
  <2> QED BY <2>1, <2>2, <2>3, Uncounted DEF Settles
<1> QED BY <1>1, <1>2 DEF Codes

(* deleteMany and deleteOne: the documents that are left are as they were. *)
LEMMA DroppedCodes ==
  ASSUME CodesTyped, NEW cs, Drop(cs)
  PROVE  /\ code' \in [Code -> CodeDoc]
         /\ \A c \in Code : /\ code'[c].attempts = code[c].attempts
                            /\ code'[c].state \in {code[c].state, "gone"}
<1>1. ASSUME NEW d \in CodeDoc
      PROVE  [d EXCEPT !.state = "gone"] \in CodeDoc
  BY DEF CodeDoc
<1>2. \A c \in Code : code'[c] = IF c \in cs THEN [code[c] EXCEPT !.state = "gone"] ELSE code[c]
  BY DEF Drop
<1>3. \A c \in Code : code'[c] \in CodeDoc
  BY <1>1, <1>2 DEF CodesTyped
<1>4. code' \in [Code -> CodeDoc]
  BY <1>3 DEF Drop
<1>5. ASSUME NEW c \in Code
      PROVE  code'[c].attempts = code[c].attempts /\ code'[c].state \in {code[c].state, "gone"}
  <2>1. code[c] \in CodeDoc
    BY DEF CodesTyped
  <2> QED BY <1>2, <2>1 DEF CodeDoc
<1> QED BY <1>4, <1>5

(* The next code, which nobody has met, starts with no attempts.           *)
LEMMA InsertCodes ==
  ASSUME Typed, Memory, Codes, NEW r \in Request, InsertCode(r)
  PROVE  Codes'
<1>0. req[r].user \in User /\ req'[r].at = "mailCode" /\ req[r].at = "insertCode"
      /\ \A s \in Request \ {r} : req'[s] = req[s]
  BY DEF InsertCode, Go, Goto, Typed, SessionTypeOK, ReqDoc
<1>1. PICK c \in Code :
        /\ code[c].state = "unused"
        /\ code' = [code EXCEPT ![c] = [state |-> "pending", user |-> req[r].user,
                                        attempts |-> 0, age |-> "new"]]
        /\ mem' = [mem EXCEPT ![r].code = c]
  BY DEF InsertCode
<1>2. UNCHANGED <<guesses, usedBy>>
  BY DEF InsertCode
<1>3. mem'[r].code = c /\ \A s \in Request \ {r} : mem'[s] = mem[s]
  BY <1>1, RememberFields
<1>4. CodesTyped'
  <2>1. [state |-> "pending", user |-> req[r].user, attempts |-> 0, age |-> "new"] \in CodeDoc
    BY <1>0, SignInConstants DEF CodeDoc
  <2> QED BY <1>1, <1>2, <2>1 DEF Codes, CodesTyped
<1>5. ASSUME NEW d \in Code PROVE Counted(d)'
  <2>0. Counted(d) /\ CodesTyped
    BY DEF Codes
  <2>1. CASE d = c
    <3>1. Unmet(c)
      BY <1>1, <2>0, <2>1 DEF Counted
    <3>2. Checking(c)' = {}
      BY <1>0, <1>3, <3>1 DEF Checking, Unmet
    <3>3. code'[c].attempts = 0 /\ code'[c].state = "pending"
      BY <1>1 DEF Codes, CodesTyped
    <3>4. guesses'[c] = 0 /\ usedBy'[c] = {}
      BY <1>2, <3>1 DEF Unmet
    <3> QED BY <2>1, <3>2, <3>3, <3>4, FS_EmptySet DEF Counted
  <2>2. CASE d # c
    <3>1. code'[d] = code[d]
      BY <1>1, <2>2 DEF Codes, CodesTyped
    <3>2. Checking(d)' \subseteq Checking(d)
      BY <1>0, <1>3, <2>2 DEF Checking
    <3>3. code'[d].state = "unused" => \A s \in Request : mem'[s].code # d
      BY <1>3, <2>0, <2>2, <3>1 DEF Counted, Unmet
    <3> QED BY <1>2, <2>0, <3>1, <3>2, <3>3, Uncounted
  <2> QED BY <2>1, <2>2
<1> QED BY <1>4, <1>5 DEF Codes

(* An attempt passes the cap before it may guess; the guess then made was  *)
(* counted with it.                                                        *)
LEMMA CountAttempts ==
  ASSUME Typed, Memory, Codes, NEW r \in Request, CountAttempt(r)
  PROVE  Codes'
<1> DEFINE c == mem[r].code
<1>0. /\ req[r].at = "attempt" /\ UNCHANGED <<guesses, usedBy>>
      /\ req \in [Request -> ReqDoc] /\ CodesTyped
  BY DEF CountAttempt, Codes, Typed, SessionTypeOK
<1>1. CASE Attemptable(c) /\ c \in Code
  <2>1. /\ code' = [code EXCEPT ![c].attempts = @ + 1]
        /\ mem' = [mem EXCEPT ![r].nth = code[c].attempts + 1] /\ Goto(r, "check")
    BY <1>1 DEF CountAttempt, Go
  <2>0. code[c] \in CodeDoc
    BY <1>0, <1>1 DEF CodesTyped
  <2>2. code[c] \in CodeDoc /\ code[c].attempts + 1 \in 0 .. MaxAttempts
    <3>1. code[c].attempts \in 0 .. MaxAttempts /\ code[c].attempts < MaxAttempts
      BY <1>1, <2>0 DEF CodeDoc, Attemptable
    <3>2. MaxAttempts \in Nat
      BY SignInConstants
    <3> HIDE DEF c
    <3> QED BY <2>0, <3>1, <3>2
  <2>3. /\ code' \in [Code -> CodeDoc]
        /\ \A d \in Code : code'[d].state = code[d].state
        /\ code'[c].attempts = code[c].attempts + 1
        /\ \A d \in Code \ {c} : code'[d] = code[d]
    BY <1>0, <1>1, <2>1, <2>2 DEF CodesTyped, CodeDoc
  <2>4. \A s \in Request : mem'[s].code = mem[s].code
    BY <2>1, RememberFields
  <2>5. req'[r].at = "check" /\ \A s \in Request \ {r} : req'[s] = req[s]
    BY <1>0, <2>1 DEF Goto, ReqDoc
  <2>6. CodesTyped'
    BY <1>0, <2>3 DEF CodesTyped
  <2>7. ASSUME NEW d \in Code PROVE Counted(d)'
    <3>0. Counted(d)
      BY DEF Codes
    <3>1. code'[d].state = "unused" => \A s \in Request : mem'[s].code # d
      BY <2>3, <2>4, <3>0 DEF Counted, Unmet
    <3>2. CASE d = c
      <4>1. Checking(d)' = Checking(d) \cup {r} /\ r \notin Checking(d)
        BY <1>0, <2>4, <2>5, <3>2 DEF Checking
      <4>2. IsFiniteSet(Checking(d)) /\ Cardinality(Checking(d)) \in Nat
        BY <3>0, <3>2, FS_CardinalityType DEF Counted
      <4>3. /\ IsFiniteSet(Checking(d)')
            /\ Cardinality(Checking(d)') = Cardinality(Checking(d)) + 1
        BY <4>1, <4>2, FS_AddElement
      <4>4. guesses[d] \in Nat /\ code[d].attempts \in Nat
        BY <1>0, <1>1, <2>2, <3>2 DEF CodesTyped, CodeDoc
      <4>5. guesses'[d] + Cardinality(Checking(d)') <= code'[d].attempts
        BY <1>0, <2>3, <3>0, <3>2, <4>2, <4>3, <4>4 DEF Counted
      <4>6. code'[d].state = "pending" /\ code[d].state = "pending"
        BY <1>1, <2>3, <3>2 DEF Attemptable
      <4>7. usedBy'[d] = {}
        BY <1>0, <3>0, <3>2, <4>6 DEF Counted
      <4> QED BY <4>3, <4>5, <4>6, <4>7 DEF Counted
    <3>3. CASE d # c
      <4>1. Checking(d)' \subseteq Checking(d)
        BY <2>4, <2>5, <3>3 DEF Checking
      <4> QED BY <1>0, <2>3, <3>0, <3>1, <3>3, <4>1, Uncounted
    <3> QED BY <3>2, <3>3
  <2> QED BY <2>6, <2>7 DEF Codes
<1>2. CASE ~(Attemptable(c) /\ c \in Code)
  <2>1. code' = code
    BY <1>0, <1>2 DEF CountAttempt, CodesTyped
  <2>2. \A s \in Request : mem'[s].code = mem[s].code
    <3>1. CASE mem' = mem
      BY <3>1
    <3>2. CASE mem' = [mem EXCEPT ![r].nth = code[c].attempts + 1]
      BY <3>2, RememberFields
    <3> QED BY <3>1, <3>2 DEF CountAttempt
  <2>3. ASSUME NEW d \in Code PROVE Counted(d)'
    <3>0. Counted(d)
      BY DEF Codes
    <3>1. Checking(d)' \subseteq Checking(d)
      <4>1. CASE Goto(r, "check") /\ c \notin Code
        BY <1>0, <2>2, <4>1 DEF Goto, Checking
      <4>2. CASE Goto(r, "failed")
        BY <1>0, <2>2, <4>2 DEF Goto, Checking, ReqDoc
      <4> QED BY <1>2, <4>1, <4>2 DEF CountAttempt, Go
    <3>2. code'[d].state = "unused" => \A s \in Request : mem'[s].code # d
      BY <2>1, <2>2, <3>0 DEF Counted, Unmet
    <3> QED BY <1>0, <2>1, <3>0, <3>1, <3>2, Uncounted
  <2> QED BY <1>0, <2>1, <2>3 DEF Codes, CodesTyped
<1> QED BY <1>1, <1>2

LEMMA CheckCodes ==
  ASSUME Typed, Memory, Codes, NEW r \in Request, NEW right \in BOOLEAN, CheckCode(r, right)
  PROVE  Codes'
<1> DEFINE c == mem[r].code
<1>0. /\ req[r].at = "check" /\ UNCHANGED <<mem, usedBy>>
      /\ guesses' = [guesses EXCEPT ![c] = @ + 1]
      /\ code' = code \/ Drop({c})
      /\ req \in [Request -> ReqDoc] /\ CodesTyped
  BY DEF CheckCode, Codes, Typed, SessionTypeOK
<1>1. req'[r].at # "check" /\ \A s \in Request \ {r} : req'[s] = req[s]
  BY <1>0 DEF CheckCode, Go, Goto, ReqDoc
<1>2. /\ code' \in [Code -> CodeDoc]
      /\ \A d \in Code : /\ code'[d].attempts = code[d].attempts
                         /\ code'[d].state \in {code[d].state, "gone"}
  BY <1>0, DroppedCodes DEF CodesTyped
<1>3. CodesTyped'
  <2>1. \A d \in Code : guesses'[d] \in Nat
    BY <1>0 DEF CodesTyped
  <2>2. DOMAIN guesses' = Code /\ guesses' = [d \in DOMAIN guesses' |-> guesses'[d]]
    BY <1>0 DEF CodesTyped
  <2>3. guesses' \in [Code -> Nat]
    BY <2>1, <2>2
  <2> QED BY <1>0, <1>2, <2>3 DEF CodesTyped
<1>4. ASSUME NEW d \in Code PROVE Counted(d)'
  <2>0. Counted(d)
    BY DEF Codes
  <2>1. code'[d].state = "unused" => \A s \in Request : mem'[s].code # d
    BY <1>0, <1>2, <2>0 DEF Counted, Unmet
  <2>2. CASE d = c
    <3>1. Checking(d)' = Checking(d) \ {r} /\ r \in Checking(d)
      BY <1>0, <1>1, <2>2 DEF Checking
    <3>2. IsFiniteSet(Checking(d)) /\ Cardinality(Checking(d)) \in Nat
      BY <2>0, FS_CardinalityType DEF Counted
    <3>3. /\ IsFiniteSet(Checking(d)')
          /\ Cardinality(Checking(d)') = Cardinality(Checking(d)) - 1
      BY <3>1, <3>2, FS_RemoveElement
    <3>4. guesses[d] \in Nat /\ guesses'[d] = guesses[d] + 1 /\ code[d].attempts \in Nat
      BY <1>0, <2>2, SignInConstants DEF CodesTyped, CodeDoc
    <3>5. guesses'[d] + Cardinality(Checking(d)') <= code'[d].attempts
      BY <1>2, <2>0, <3>2, <3>3, <3>4 DEF Counted
    <3>6. code'[d].state # "unused"
      BY <1>0, <2>1, <2>2
    <3> QED BY <1>0, <1>2, <2>0, <3>3, <3>5, <3>6 DEF Counted
  <2>3. CASE d # c
    <3>1. Checking(d)' \subseteq Checking(d)
      BY <1>0, <1>1 DEF Checking
    <3>2. guesses'[d] = guesses[d]
      BY <1>0, <2>3 DEF CodesTyped
    <3> QED BY <1>0, <1>2, <2>0, <2>1, <3>1, <3>2, Uncounted
  <2> QED BY <2>2, <2>3
<1> QED BY <1>3, <1>4 DEF Codes

(* The filter on consumedAt lets one request use the code.                 *)
LEMMA ConsumeCodes ==
  ASSUME Typed, Memory, Codes, NEW r \in Request, ConsumeCode(r)
  PROVE  Codes'
<1>0. /\ req[r].at = "consume" /\ UNCHANGED <<mem, guesses>>
      /\ req \in [Request -> ReqDoc] /\ CodesTyped
  BY DEF ConsumeCode, Codes, Typed, SessionTypeOK
<1>1. req'[r].at # "check" /\ \A s \in Request \ {r} : req'[s] = req[s]
  BY <1>0 DEF ConsumeCode, Go, Goto, ReqDoc
<1>2. \A d \in Code : Checking(d)' \subseteq Checking(d)
  BY <1>0, <1>1 DEF Checking
<1>3. CASE UNCHANGED <<code, usedBy>>
  <2>1. Settles
    BY <1>0, <1>1, <1>3 DEF Settles, CodesTyped
  <2> QED BY <2>1, SettledCodes
<1>4. CASE /\ Consumable(mem[r].code)
           /\ code' = [code EXCEPT ![mem[r].code].state = "consumed"]
           /\ usedBy' = [usedBy EXCEPT ![mem[r].code] = @ \cup {r}]
  <2>1. ASSUME NEW d \in Code, d # mem[r].code
        PROVE  code'[d] = code[d] /\ usedBy'[d] = usedBy[d]
    BY <1>0, <1>4, <2>1 DEF CodesTyped
  <2>2. ASSUME NEW d \in Code, d = mem[r].code
        PROVE  /\ code'[d] = [code[d] EXCEPT !.state = "consumed"] /\ code[d].state = "pending"
               /\ usedBy'[d] = usedBy[d] \cup {r}
    BY <1>0, <1>4, <2>2 DEF CodesTyped, Consumable
  <2>3. \A d \in CodeDoc : /\ [d EXCEPT !.state = "consumed"] \in CodeDoc
                           /\ [d EXCEPT !.state = "consumed"].attempts = d.attempts
                           /\ [d EXCEPT !.state = "consumed"].state = "consumed"
    BY DEF CodeDoc
  <2>4. \A d \in Code : code'[d] \in CodeDoc /\ usedBy'[d] \in SUBSET Request
    <3> TAKE d \in Code
    <3>1. code[d] \in CodeDoc /\ usedBy[d] \in SUBSET Request
      BY <1>0 DEF CodesTyped
    <3>2. CASE d = mem[r].code
      <4>1. [code[d] EXCEPT !.state = "consumed"] \in CodeDoc
        BY <2>3, <3>1
      <4> QED BY <2>2, <3>1, <3>2, <4>1
    <3>3. CASE d # mem[r].code
      BY <2>1, <3>1, <3>3
    <3> QED BY <3>2, <3>3
  <2>5. CodesTyped'
    <3>1. /\ DOMAIN code' = Code /\ code' = [d \in DOMAIN code' |-> code'[d]]
          /\ DOMAIN usedBy' = Code /\ usedBy' = [d \in DOMAIN usedBy' |-> usedBy'[d]]
      BY <1>0, <1>4 DEF CodesTyped
    <3>2. code' \in [Code -> CodeDoc] /\ usedBy' \in [Code -> SUBSET Request]
      BY <2>4, <3>1
    <3> QED BY <1>0, <3>2 DEF CodesTyped
  <2>6. ASSUME NEW d \in Code PROVE Counted(d)'
    <3>0. Counted(d) /\ code[d] \in CodeDoc
      BY <1>0 DEF Codes, CodesTyped
    <3>1. CASE d # mem[r].code
      <4>1. code'[d].state = "unused" => \A s \in Request : mem'[s].code # d
        BY <1>0, <2>1, <3>0, <3>1 DEF Counted, Unmet
      <4> QED BY <1>0, <1>2, <2>1, <3>0, <3>1, <4>1, Uncounted
    <3>2. CASE d = mem[r].code
      <4>1. code'[d].state = "consumed" /\ code'[d].attempts = code[d].attempts
        BY <2>2, <2>3, <3>0, <3>2
      <4>2. usedBy'[d] = {r}
        BY <2>2, <3>0, <3>2 DEF Counted
      <4>3. Checking(d)' = Checking(d)
        BY <1>0, <1>1 DEF Checking
      <4> QED BY <1>0, <3>0, <4>1, <4>2, <4>3 DEF Counted
    <3> QED BY <3>1, <3>2
  <2> QED BY <2>5, <2>6 DEF Codes
<1> QED BY <1>3, <1>4 DEF ConsumeCode

LEMMA SettlingSteps ==
  ASSUME Typed, Memory, Codes, NEW r \in Request, SignInStep(r),
         ~InsertCode(r), ~CountAttempt(r), ~ConsumeCode(r),
         \A right \in BOOLEAN : ~CheckCode(r, right)
  PROVE  Settles
<1>0. CodesTyped /\ req \in [Request -> ReqDoc]
  BY DEF Codes, Typed, SessionTypeOK
<1>1. ASSUME req'[r].at # "check", \A s \in Request \ {r} : req'[s] = req[s],
             UNCHANGED codeVars, \A s \in Request : mem'[s].code = mem[s].code
      PROVE  Settles
  BY <1>0, <1>1 DEF Settles, codeVars, CodesTyped
<1>2. ASSUME NEW at \in Statement \ {"check"}, Goto(r, at)
      PROVE  req'[r].at # "check" /\ \A s \in Request \ {r} : req'[s] = req[s]
  BY <1>0, <1>2 DEF Goto, ReqDoc
<1>3. CASE \/ ResetRound(r) \/ CountFailure(r) \/ LockKey(r) \/ ClearFailures(r)
           \/ ClearAfterReset(r)
  <2>1. \E at \in Statement \ {"check"} : Goto(r, at)
    BY <1>3 DEF ResetRound, CountFailure, LockKey, ClearFailures, ClearAfterReset, Entry,
                Go, Statement, Critical
  <2>2. UNCHANGED codeVars /\ UNCHANGED mem
    BY <1>3 DEF ResetRound, CountFailure, LockKey, ClearFailures, ClearAfterReset
  <2> QED BY <1>1, <1>2, <2>1, <2>2
<1>4. CASE AccountLimit(r) \/ SendCap(r) \/ Cooldown(r) \/ Resend(r) \/ Addressee(r)
  <2>1. \E at \in Statement \ {"check"} : Goto(r, at)
    BY <1>4 DEF AccountLimit, SendCap, Consume, Cooldown, Resend, Addressee,
                Go, Statement, Critical
  <2>2. UNCHANGED codeVars /\ UNCHANGED mem
    BY <1>4 DEF AccountLimit, SendCap, Consume, Cooldown, Resend, Addressee, signInVars, codeVars
  <2> QED BY <1>1, <1>2, <2>1, <2>2
<1>5. CASE MailCode(r) \/ LoadRevoke(r) \/ \E sent \in BOOLEAN : MailInvite(r, sent)
  <2>1. \E at \in Statement \ {"check"} : Goto(r, at)
    BY <1>5 DEF MailCode, LoadRevoke, MailInvite, Go, Statement, Critical
  <2>2. UNCHANGED codeVars /\ UNCHANGED mem
    BY <1>5 DEF MailCode, LoadRevoke, MailInvite, signInVars, codeVars
  <2> QED BY <1>1, <1>2, <2>1, <2>2
<1>6. CASE SaveGrant(r) \/ RollbackGrant(r) \/ SaveRevoke(r)
  <2>1. \E at \in Statement \ {"check"} : Goto(r, at)
    BY <1>6 DEF SaveGrant, RollbackGrant, SaveRevoke, Go, Statement, Critical
  <2>2. UNCHANGED codeVars /\ UNCHANGED mem
    BY <1>6 DEF SaveGrant, RollbackGrant, SaveRevoke
  <2> QED BY <1>1, <1>2, <2>1, <2>2
<1>7. CASE UseInvite(r)
  <2>1. \E at \in Statement \ {"check"} : Goto(r, at)
    BY <1>7 DEF UseInvite, SavePassword, Statement, Critical
  <2>2. UNCHANGED codeVars /\ UNCHANGED mem
    BY <1>7 DEF UseInvite
  <2> QED BY <1>1, <1>2, <2>1, <2>2
<1>8. CASE DropOldCodes(r) \/ RemoveUnsent(r) \/ DropCodes(r)
  <2>1. \E at \in Statement \ {"check"} : Goto(r, at)
    BY <1>8 DEF DropOldCodes, RemoveUnsent, DropCodes, Go, Statement, Critical
  <2>2. UNCHANGED <<guesses, usedBy, mem>> /\ \E cs : Drop(cs)
    BY <1>8 DEF DropOldCodes, RemoveUnsent, DropCodes
  <2> QED BY <1>0, <1>2, <2>1, <2>2, DroppedCodes DEF Settles
<1>9. CASE FindCode(r)
  <2>1. \E at \in Statement \ {"check"} : Goto(r, at)
    BY <1>9 DEF FindCode, Go, Statement, Critical
  <2>2. UNCHANGED codeVars
    BY <1>9 DEF FindCode
  <2>3. CASE mem' = mem
    BY <1>1, <1>2, <2>1, <2>2, <2>3
  <2>4. ASSUME NEW c \in Newest(req[r].user), mem' = [mem EXCEPT ![r].code = c]
        PROVE  Settles
    <3>1. c \in Code /\ code[c].state # "unused"
      BY <2>4 DEF Newest, Pending
    <3>2. mem'[r].code = c /\ \A s \in Request \ {r} : mem'[s] = mem[s]
      BY <2>4, RememberFields
    <3> QED BY <1>0, <1>2, <2>1, <2>2, <3>1, <3>2 DEF Settles, codeVars, CodesTyped
  <2> QED BY <1>9, <2>3, <2>4 DEF FindCode
<1>10. CASE LoadGrant(r) \/ FindInvite(r)
  <2>1. req'[r].at # "check" /\ \A s \in Request \ {r} : req'[s] = req[s]
    <3>1. CASE LoadGrant(r)
      <4>1. \E at \in Statement \ {"check"} : Goto(r, at)
        BY <3>1 DEF LoadGrant, Go, Statement, Critical
      <4> QED BY <1>2, <4>1
    <3>2. CASE FindInvite(r)
      BY <1>0, <3>2 DEF FindInvite, ReqDoc
    <3> QED BY <1>10, <3>1, <3>2
  <2>2. \E x : mem' = [mem EXCEPT ![r].snap = x]
    BY <1>10 DEF LoadGrant, FindInvite
  <2>3. \A s \in Request : mem'[s].code = mem[s].code
    BY <2>2 DEF Memory, Remembers
  <2>4. UNCHANGED codeVars
    BY <1>10 DEF LoadGrant, FindInvite
  <2> QED BY <1>1, <2>1, <2>3, <2>4
<1>11. ASSUME NEW k \in Token \cup {None}, AssertNotLocked(r, k) PROVE Settles
  <2>1. req'[r].at # "check" /\ \A s \in Request \ {r} : req'[s] = req[s]
    BY <1>0, <1>11 DEF AssertNotLocked, ReqDoc
  <2> QED BY <1>1, <1>11, <2>1 DEF AssertNotLocked, signInVars, codeVars
<1>12. ASSUME NEW right \in BOOLEAN, CompareSecret(r, right) PROVE Settles
  <2>1. req'[r].at # "check" /\ \A s \in Request \ {r} : req'[s] = req[s]
    BY <1>0, <1>12 DEF CompareSecret, ReqDoc
  <2> QED BY <1>1, <1>12, <2>1 DEF CompareSecret, signInVars, codeVars
<1>13. CASE FindStaff(r)
  <2>1. req'[r].at # "check" /\ \A s \in Request \ {r} : req'[s] = req[s]
    BY <1>0, <1>13 DEF FindStaff, ReqDoc
  <2> QED BY <1>1, <1>13, <2>1 DEF FindStaff, signInVars, codeVars
<1> QED BY <1>3, <1>4, <1>5, <1>6, <1>7, <1>8, <1>9, <1>10, <1>11, <1>12, <1>13 DEF SignInStep

LEMMA StepCodes ==
  ASSUME Typed, Memory, Codes, [Next]_vars
  PROVE  Codes'
<1>1. ASSUME NEW r \in Request, SignInStep(r) PROVE Codes'
  BY <1>1, InsertCodes, CountAttempts, CheckCodes, ConsumeCodes, SettlingSteps, SettledCodes
<1>2. ASSUME NEW r \in Request, SessionOnly(r) PROVE Codes'
  <2>1. req'[r].at # "check" /\ \A s \in Request \ {r} : req'[s] = req[s]
    BY <1>2, SessionStepMoves DEF SessionOnly, Outcome, Critical
  <2>2. Settles
    BY <1>2, <2>1 DEF SessionOnly, signInVars, Settles, Codes, CodesTyped
  <2> QED BY <2>2, SettledCodes
<1>3. ASSUME UNCHANGED <<req, mem, guesses, usedBy>>,
             UNCHANGED code \/ \E c \in Code : CodeAges(c) \/ CleanCode(c)
      PROVE  Codes'
  <2>1. /\ code' \in [Code -> CodeDoc]
        /\ \A c \in Code : /\ code'[c].attempts = code[c].attempts
                           /\ code'[c].state \in {code[c].state, "gone"}
    <3>1. CASE UNCHANGED code
      BY <3>1 DEF Codes, CodesTyped
    <3>2. ASSUME NEW c \in Code, CodeAges(c)
          PROVE  \E a \in {"old", "expired"} : code' = [code EXCEPT ![c].age = a]
      BY <3>2 DEF CodeAges
    <3>3. ASSUME NEW c \in Code, NEW a \in {"old", "expired"}, code' = [code EXCEPT ![c].age = a]
          PROVE  /\ code' \in [Code -> CodeDoc]
                 /\ \A d \in Code : code'[d].attempts = code[d].attempts
                                    /\ code'[d].state = code[d].state
      BY <3>3 DEF Codes, CodesTyped, CodeDoc
    <3>4. CASE \E c \in Code : CleanCode(c)
      BY <3>4, DroppedCodes DEF CleanCode, Codes
    <3> QED BY <1>3, <3>1, <3>2, <3>3, <3>4
  <2>2. Settles
    BY <1>3, <2>1 DEF Settles
  <2> QED BY <2>2, SettledCodes
<1>4. CASE Time /\ UNCHANGED signInVars
  BY <1>3, <1>4 DEF Time, TokenIdles, SessionExpires, CleanTokens, signInVars
<1>5. CASE Clock /\ UNCHANGED sessionVars
  BY <1>3, <1>5 DEF Clock, LockEnds, CleanLockout, WindowPasses, CleanWindow, CodeAges, CleanCode,
                    codeVars, sessionVars
<1>6. CASE UNCHANGED vars
  BY <1>3, <1>6 DEF vars, sessionVars, signInVars
<1> QED BY <1>1, <1>2, <1>4, <1>5, <1>6 DEF Next

LEMMA CodesHold == Spec => []Codes
<1>1. Codes /\ Typed /\ Memory /\ [Next]_vars => Codes'
  BY StepCodes
<1> QED BY <1>1, InitCodes, SpecImplements, PTL DEF Spec

(* "count the attempt BEFORE comparing (atomic) so parallel guesses cannot *)
(* exceed the cap" (adminVerifyOtp): however many requests guess.           *)
THEOREM GuessesBounded == Spec => []CodeGuessesBounded
<1>1. Codes => CodeGuessesBounded
  <2> SUFFICES ASSUME Codes, NEW c \in Code PROVE guesses[c] <= MaxAttempts
    BY DEF CodeGuessesBounded
  <2>1. /\ guesses[c] \in Nat /\ code[c].attempts \in 0 .. MaxAttempts
        /\ IsFiniteSet(Checking(c)) /\ guesses[c] + Cardinality(Checking(c)) <= code[c].attempts
    BY DEF Codes, CodesTyped, CodeDoc, Counted
  <2>2. Cardinality(Checking(c)) \in Nat /\ MaxAttempts \in Nat
    BY <2>1, FS_CardinalityType, SignInConstants
  <2> QED BY <2>1, <2>2
<1> QED BY <1>1, CodesHold, PTL

(* A code lets one request in at most (adminVerifyOtp).                     *)
THEOREM CodesLetOneIn == Spec => []OneSessionPerCode
<1>1. Codes => OneSessionPerCode
  <2> SUFFICES ASSUME Codes, NEW c \in Code PROVE Cardinality(usedBy[c]) <= 1
    BY DEF OneSessionPerCode
  <2>1. usedBy[c] = {} \/ \E r \in Request : usedBy[c] = {r}
    BY DEF Codes, Counted
  <2>2. CASE usedBy[c] = {}
    BY <2>2, FS_EmptySet
  <2>3. ASSUME NEW r \in Request, usedBy[c] = {r} PROVE Cardinality(usedBy[c]) <= 1
    BY <2>3, FS_Singleton
  <2> QED BY <2>1, <2>2, <2>3
<1> QED BY <1>1, CodesHold, PTL

-----------------------------------------------------------------------------
(* Rate windows: what was let through while a window is open is counted in *)
(* it, and nothing is remembered of a closed one.                          *)

WindowDoc == [count : Nat, reset : {"absent", "future", "past"}]

Fits(l, w, n) == IF w.reset = "future" THEN n <= w.count /\ n <= Most(l) ELSE n = 0

Windows ==
  /\ window \in [Limit -> [User -> WindowDoc]] /\ allowed \in [Limit -> [User -> Nat]]
  /\ \A l \in Limit, u \in User : Fits(l, window[l][u], allowed[l][u])

LEMMA WindowWritten ==
  ASSUME Windows, NEW l \in Limit, NEW u \in User, NEW w \in WindowDoc, NEW n \in Nat,
         Fits(l, w, n),
         window' = [window EXCEPT ![l][u] = w], allowed' = [allowed EXCEPT ![l][u] = n]
  PROVE  Windows'
<1>1. /\ window' \in [Limit -> [User -> WindowDoc]] /\ allowed' \in [Limit -> [User -> Nat]]
  BY DEF Windows
<1>2. ASSUME NEW m \in Limit, NEW v \in User
      PROVE  Fits(m, window'[m][v], allowed'[m][v])
  <2>1. CASE m = l /\ v = u
    BY <2>1 DEF Windows
  <2>2. CASE ~(m = l /\ v = u)
    <3>1. window'[m][v] = window[m][v] /\ allowed'[m][v] = allowed[m][v]
      BY <2>2 DEF Windows
    <3> QED BY <3>1 DEF Windows
  <2> QED BY <2>1, <2>2
<1> QED BY <1>1, <1>2 DEF Windows, Fits, Most

LEMMA ConsumeWindows ==
  ASSUME Typed, Windows, NEW r \in Request, NEW l \in Limit, NEW next, Consume(r, l, next)
  PROVE  Windows'
<1> DEFINE u == req[r].user
           w == Rolled(window[l][u])
           n == IF w.count <= Most(l) THEN allowed[l][u] + 1 ELSE allowed[l][u]
<1>1. u \in User /\ Most(l) \in Nat \ {0}
  BY SignInConstants DEF Typed, SessionTypeOK, ReqDoc, Most
<1>2. window' = [window EXCEPT ![l][u] = w] /\ allowed' = [allowed EXCEPT ![l][u] = n]
  BY DEF Consume
<1>3. /\ window[l][u] \in WindowDoc /\ allowed[l][u] \in Nat
      /\ Fits(l, window[l][u], allowed[l][u])
  BY <1>1 DEF Windows
<1>4. w \in WindowDoc /\ w.reset = "future"
      /\ w.count = IF window[l][u].reset = "future" THEN window[l][u].count + 1 ELSE 1
  BY <1>3 DEF Rolled, WindowDoc
<1>5. w.count \in Nat /\ window[l][u].count \in Nat
  BY <1>3, <1>4 DEF WindowDoc
<1>6. n \in Nat /\ n <= w.count /\ n <= Most(l)
  <2> HIDE DEF w, u
  <2> QED BY <1>1, <1>3, <1>4, <1>5 DEF Fits
<1>7. Fits(l, w, n)
  BY <1>4, <1>6 DEF Fits
<1> HIDE DEF w, n, u
<1> QED BY <1>1, <1>2, <1>4, <1>6, <1>7, WindowWritten

LEMMA StepWindows ==
  ASSUME Typed, Windows, [Next]_vars
  PROVE  Windows'
<1>1. CASE UNCHANGED <<window, allowed>>
  BY <1>1 DEF Windows
<1>2. ASSUME NEW r \in Request, SignInStep(r) PROVE Windows'
  <2>1. CASE AccountLimit(r) \/ SendCap(r)
    BY <2>1, ConsumeWindows DEF AccountLimit, SendCap, Limit
  <2>2. CASE UseInvite(r)
    BY <1>1, <2>2 DEF UseInvite
  <2>3. CASE \/ ResetRound(r) \/ CountFailure(r) \/ LockKey(r) \/ ClearFailures(r)
             \/ ClearAfterReset(r) \/ Cooldown(r) \/ Resend(r) \/ Addressee(r)
             \/ \E k \in Token \cup {None} : AssertNotLocked(r, k)
             \/ \E right \in BOOLEAN : CompareSecret(r, right) \/ CheckCode(r, right)
    BY <1>1, <2>3 DEF ResetRound, CountFailure, LockKey, ClearFailures, ClearAfterReset,
       Cooldown, Resend, Addressee, AssertNotLocked, CompareSecret, CheckCode, signInVars
  <2>4. CASE \/ DropOldCodes(r) \/ InsertCode(r) \/ MailCode(r) \/ RemoveUnsent(r)
             \/ FindCode(r) \/ CountAttempt(r) \/ ConsumeCode(r) \/ FindStaff(r)
    BY <1>1, <2>4 DEF DropOldCodes, InsertCode, MailCode, RemoveUnsent, FindCode,
       CountAttempt, ConsumeCode, FindStaff, signInVars
  <2>5. CASE \/ LoadGrant(r) \/ SaveGrant(r) \/ \E sent \in BOOLEAN : MailInvite(r, sent)
             \/ RollbackGrant(r) \/ FindInvite(r) \/ LoadRevoke(r) \/ SaveRevoke(r)
             \/ DropCodes(r)
    BY <1>1, <2>5 DEF LoadGrant, SaveGrant, MailInvite, RollbackGrant, FindInvite,
       LoadRevoke, SaveRevoke, DropCodes, signInVars
  <2> QED BY <1>2, <2>1, <2>2, <2>3, <2>4, <2>5 DEF SignInStep
<1>3. ASSUME NEW l \in Limit, NEW u \in User, WindowPasses(l, u) PROVE Windows'
  <2>1. [window[l][u] EXCEPT !.reset = "past"] \in WindowDoc
        /\ [window[l][u] EXCEPT !.reset = "past"].reset = "past"
    <3>1. window[l][u] \in WindowDoc
      BY DEF Windows
    <3> QED BY <3>1, SMTT(30) DEF WindowDoc
  <2>2. window' = [window EXCEPT ![l][u] = [window[l][u] EXCEPT !.reset = "past"]]
        /\ allowed' = [allowed EXCEPT ![l][u] = 0]
    BY <1>3 DEF WindowPasses, Windows
  <2> QED BY <2>1, <2>2, WindowWritten DEF Fits
<1>4. ASSUME NEW l \in Limit, NEW u \in User, CleanWindow(l, u) PROVE Windows'
  <2>1. allowed[l][u] = 0
    BY <1>4 DEF CleanWindow, Cleanable, Windows, Fits
  <2>2. NoWindow \in WindowDoc /\ NoWindow.reset # "future"
    BY DEF NoWindow, WindowDoc
  <2>3. window' = [window EXCEPT ![l][u] = NoWindow]
        /\ allowed' = [allowed EXCEPT ![l][u] = 0]
    BY <1>4, <2>1 DEF CleanWindow, Windows
  <2> QED BY <2>2, <2>3, WindowWritten DEF Fits
<1>5. CASE Clock
  BY <1>1, <1>3, <1>4, <1>5 DEF Clock, LockEnds, CleanLockout, CodeAges, CleanCode
<1> QED BY <1>1, <1>2, <1>5 DEF Next, SessionOnly, vars, signInVars

LEMMA WindowsStay == Spec => []Windows
<1>1. Init => Windows
  <2> SUFFICES ASSUME Init PROVE Windows
    OBVIOUS
  <2>1. NoWindow \in WindowDoc /\ NoWindow.reset = "absent"
    BY DEF NoWindow, WindowDoc
  <2> QED BY <2>1 DEF Init, Windows, Fits
<1>2. Windows /\ Typed /\ [Next]_vars => Windows'
  BY StepWindows
<1> QED BY <1>1, <1>2, SpecImplements, PTL DEF Spec

(* Within one window at most the limit gets through, however requests and  *)
(* the cleanup cron interleave (consumeLimit, incrementWindow).             *)
THEOREM WindowsHold == Spec => []WindowLimits
<1>1. Windows => WindowLimits
  BY DEF Windows, Fits, WindowLimits
<1> QED BY <1>1, WindowsStay, PTL

-----------------------------------------------------------------------------
(* Lockouts: a key at the threshold has a request that is about to lock it, *)
(* or was killed there.                                                     *)

LockDoc(k) == DOMAIN k = {"failed", "until", "strikes"} /\ k.failed \in Nat

Locking(u) == \E r \in Request : req[r].user = u /\ req[r].at \in {"lock", "crashed"}

Lockouts ==
  /\ lock = [u \in User |-> lock[u]] /\ \A u \in User : LockDoc(lock[u])
  /\ \A u \in User : lock[u].failed >= Threshold => Locking(u)

(* A request keeps its user, and leaves "lock" by locking or by a crash;   *)
(* a killed one stays.                                                     *)
LEMMA SignInMoves ==
  ASSUME Typed, Memory, NEW r \in Request, SignInStep(r)
  PROVE  /\ \A s \in Request \ {r} : req'[s] = req[s]
         /\ req'[r].user = req[r].user
         /\ req[r].at # "crashed"
         /\ req[r].at = "lock" => LockKey(r)
         /\ req[r].at = "mailInvite" => \E sent \in BOOLEAN : MailInvite(r, sent)
         /\ req[r].at = "rollback" => RollbackGrant(r)
<1>0. req \in [Request -> ReqDoc] /\ req[r] \in ReqDoc
  BY DEF Typed, SessionTypeOK
<1>1. (\A s \in Request \ {r} : req'[s] = req[s]) /\ req'[r].user = req[r].user
  <2>1. CASE UseInvite(r)
    BY <1>0, <2>1 DEF UseInvite, SavePassword, Goto, ReqDoc
  <2>2. CASE \E q \in ReqDoc : Advance(r, q)
    BY <1>0, <2>2 DEF Advance
  <2> QED BY <2>1, <2>2, SignInAdvances
<1>2. \/ LockKey(r) \/ RollbackGrant(r) \/ \E sent \in BOOLEAN : MailInvite(r, sent)
      \/ req[r].at \notin {"lock", "mailInvite", "rollback", "crashed"}
  <2>1. CASE \/ ResetRound(r) \/ CountFailure(r) \/ ClearFailures(r)
             \/ ClearAfterReset(r) \/ AccountLimit(r) \/ SendCap(r)
             \/ Cooldown(r) \/ Resend(r) \/ Addressee(r)
             \/ \E k \in Token \cup {None} : AssertNotLocked(r, k)
             \/ \E right \in BOOLEAN : CompareSecret(r, right) \/ CheckCode(r, right)
    BY <2>1 DEF ResetRound, CountFailure, ClearFailures, ClearAfterReset, AccountLimit, SendCap,
       Cooldown, Resend, Addressee, AssertNotLocked, CompareSecret, CheckCode
  <2>2. CASE \/ DropOldCodes(r) \/ InsertCode(r) \/ MailCode(r) \/ RemoveUnsent(r)
             \/ FindCode(r) \/ CountAttempt(r) \/ ConsumeCode(r) \/ FindStaff(r)
    BY <2>2 DEF DropOldCodes, InsertCode, MailCode, RemoveUnsent, FindCode,
       CountAttempt, ConsumeCode, FindStaff
  <2>3. CASE \/ LoadGrant(r) \/ SaveGrant(r) \/ FindInvite(r) \/ UseInvite(r)
             \/ LoadRevoke(r) \/ SaveRevoke(r) \/ DropCodes(r)
    BY <2>3 DEF LoadGrant, SaveGrant, FindInvite, UseInvite, SavePassword,
       LoadRevoke, SaveRevoke, DropCodes
  <2> QED BY <2>1, <2>2, <2>3 DEF SignInStep
<1>3. /\ LockKey(r) => req[r].at = "lock"
      /\ RollbackGrant(r) => req[r].at = "rollback"
      /\ \A sent \in BOOLEAN : MailInvite(r, sent) => req[r].at = "mailInvite"
  BY DEF LockKey, RollbackGrant, MailInvite
<1> QED BY <1>1, <1>2, <1>3

LEMMA SessionStepLeaves ==
  ASSUME NEW r \in Request, SessionStep(r)
  PROVE  /\ req[r].at # "crashed"
         /\ req[r].at \in {"lock", "mailInvite", "rollback"} => Crash(r)
BY DEF SessionStep, PresentToken, Logout, CheckOwner, Claim, Burn, Create, SavePin, FindKeep,
       SweepOthers, SavePassword, Sweep, Increment, LoadReset, SaveReset, Crash

(* Request r writes the lockout of its user, and is not at "lock".         *)
LEMMA LockWritten ==
  ASSUME Typed, Lockouts, NEW r \in Request, NEW k, LockDoc(k),
         \A s \in Request \ {r} : req'[s] = req[s],
         req'[r].user = req[r].user, req[r].at # "crashed",
         lock' = [lock EXCEPT ![req[r].user] = k],
         k.failed >= Threshold => req'[r].at = "lock",
         req[r].at = "lock" => k.failed < Threshold
  PROVE  Lockouts'
<1>0. req[r].user \in User /\ Threshold \in Nat
  BY SignInConstants DEF Typed, SessionTypeOK, ReqDoc
<1>1. /\ lock' = [u \in User |-> lock'[u]] /\ lock'[req[r].user] = k
      /\ \A u \in User \ {req[r].user} : lock'[u] = lock[u]
  BY <1>0 DEF Lockouts
<1>2. \A u \in User : LockDoc(lock'[u])
  BY <1>1 DEF Lockouts
<1>3. ASSUME NEW u \in User, lock'[u].failed >= Threshold PROVE Locking(u)'
  <2>1. CASE u = req[r].user
    BY <1>1, <1>3, <2>1 DEF Locking
  <2>2. CASE u # req[r].user
    BY <1>1, <1>3, <2>2 DEF Lockouts, Locking
  <2> QED BY <2>1, <2>2
<1> QED BY <1>1, <1>2, <1>3 DEF Lockouts, LockDoc

LEMMA StepLockouts ==
  ASSUME Typed, Memory, Lockouts, [Next]_vars
  PROVE  Lockouts'
<1>0. Threshold \in Nat \ {0} /\ req \in [Request -> ReqDoc]
  BY SignInConstants DEF Typed, SessionTypeOK
<1>1. ASSUME UNCHANGED lock, \A s \in Request : /\ req'[s].user = req[s].user
                                                /\ req[s].at \in {"lock", "crashed"} =>
                                                     req'[s].at \in {"lock", "crashed"}
      PROVE  Lockouts'
  <2>1. \A u \in User : Locking(u) => Locking(u)'
    BY <1>1 DEF Locking
  <2> QED BY <1>1, <2>1 DEF Lockouts, LockDoc
<1>2. NoLock.failed = 0 /\ LockDoc(NoLock)
  BY DEF NoLock, LockDoc
<1>3. ASSUME NEW r \in Request, SignInStep(r), NEW k, LockDoc(k), k.failed = 0,
             lock' = [lock EXCEPT ![req[r].user] = k]
      PROVE  Lockouts'
  <2>1. /\ \A s \in Request \ {r} : req'[s] = req[s]
        /\ req'[r].user = req[r].user /\ req[r].at # "crashed"
    BY <1>3, SignInMoves
  <2>2. ~(k.failed >= Threshold) /\ k.failed < Threshold
    BY <1>0, <1>3
  <2> QED BY <1>3, <2>1, <2>2, LockWritten
<1>4. ASSUME NEW r \in Request, SignInStep(r) PROVE Lockouts'
  <2> DEFINE u == req[r].user
  <2>0. u \in User /\ LockDoc(lock[u]) /\ DOMAIN lock = User
    BY DEF Typed, SessionTypeOK, ReqDoc, Lockouts
  <2>1. /\ \A s \in Request \ {r} : req'[s] = req[s]
        /\ req'[r].user = req[r].user /\ req[r].at # "crashed"
        /\ req[r].at = "lock" => LockKey(r)
    BY <1>4, SignInMoves
  <2>2. CASE UNCHANGED lock /\ req[r].at # "lock"
    BY <1>1, <2>1, <2>2
  <2>3. CASE lock' = [lock EXCEPT ![u] = NoLock] 
    BY <1>2, <1>4, <1>3, <2>3
  <2>4. CASE ResetRound(r) /\ lock' # lock
    <3> DEFINE k == [lock[u] EXCEPT !.failed = 0, !.until = "none"]
    <3>1. lock' = [lock EXCEPT ![u] = k] /\ req[r].at = "failed"
      BY <2>0, <2>4 DEF ResetRound
    <3>2. LockDoc(k) /\ k.failed = 0
      BY <2>0 DEF LockDoc
    <3> HIDE DEF k
    <3> QED BY <1>4, <1>3, <3>1, <3>2
  <2>5. CASE CountFailure(r)
    <3> DEFINE k == [lock[u] EXCEPT !.failed = lock[u].failed + 1]
    <3>1. lock' = [lock EXCEPT ![u] = k] /\ req[r].at = "count"
      BY <2>0, <2>5 DEF CountFailure
    <3>2. LockDoc(k) /\ k.failed = lock[u].failed + 1
      BY <2>0 DEF LockDoc
    <3>3. k.failed >= Threshold => req'[r].at = "lock"
      BY <1>0, <2>5, <3>2 DEF CountFailure, Reaches, Go, Goto, ReqDoc
    <3> HIDE DEF k
    <3> QED BY <2>1, <3>1, <3>2, <3>3, LockWritten
  <2>6. CASE LockKey(r) /\ lock[u] # NoLock
    <3> DEFINE k == [failed |-> 0, until |-> "future",
                     strikes |-> Min({lock[u].strikes + 1, MaxStrikes})]
    <3>1. lock' = [lock EXCEPT ![u] = k]
      BY <2>0, <2>6 DEF LockKey
    <3>2. LockDoc(k) /\ k.failed = 0
      BY DEF LockDoc
    <3> HIDE DEF k
    <3> QED BY <1>4, <1>3, <3>1, <3>2
  <2>7. CASE LockKey(r) /\ lock[u] = NoLock
    <3>1. lock' = [lock EXCEPT ![u] = NoLock]
      BY <2>0, <2>7 DEF LockKey, Lockouts
    <3> QED BY <1>2, <1>4, <1>3, <3>1
  <2>8. CASE ResetRound(r) \/ ClearFailures(r) \/ ClearAfterReset(r)
    BY <2>2, <2>3, <2>4, <2>8 DEF ResetRound, ClearFailures, ClearAfterReset
  <2>9. CASE \/ AccountLimit(r) \/ SendCap(r) \/ Cooldown(r) \/ Resend(r) \/ Addressee(r)
             \/ \E k \in Token \cup {None} : AssertNotLocked(r, k)
             \/ \E right \in BOOLEAN : CompareSecret(r, right) \/ CheckCode(r, right)
    BY <2>2, <2>9 DEF AccountLimit, SendCap, Consume, Cooldown, Resend, Addressee, AssertNotLocked,
       CompareSecret, CheckCode, signInVars
  <2>10. CASE \/ DropOldCodes(r) \/ InsertCode(r) \/ MailCode(r) \/ RemoveUnsent(r)
              \/ FindCode(r) \/ CountAttempt(r) \/ ConsumeCode(r) \/ FindStaff(r)
    BY <2>2, <2>10 DEF DropOldCodes, InsertCode, MailCode, RemoveUnsent, FindCode,
       CountAttempt, ConsumeCode, FindStaff, signInVars
  <2>11. CASE \/ LoadGrant(r) \/ SaveGrant(r) \/ \E sent \in BOOLEAN : MailInvite(r, sent)
              \/ RollbackGrant(r) \/ FindInvite(r) \/ UseInvite(r)
              \/ LoadRevoke(r) \/ SaveRevoke(r) \/ DropCodes(r)
    BY <2>2, <2>11 DEF LoadGrant, SaveGrant, MailInvite, RollbackGrant, FindInvite, UseInvite,
       SavePassword, LoadRevoke, SaveRevoke, DropCodes, signInVars
  <2> QED BY <1>4, <2>5, <2>6, <2>7, <2>8, <2>9, <2>10, <2>11 DEF SignInStep
<1>5. ASSUME NEW r \in Request, SessionOnly(r) PROVE Lockouts'
  <2>1. SessionStep(r) /\ UNCHANGED lock
    BY <1>5 DEF SessionOnly, signInVars
  <2>2. req[r].at = "lock" => req'[r].at = "crashed"
    BY <1>0, <2>1, SessionStepLeaves DEF Crash, Goto, ReqDoc
  <2> QED BY <1>1, <2>1, <2>2, SessionStepMoves, SessionStepLeaves
<1>6. ASSUME NEW u \in User, LockEnds(u) \/ CleanLockout(u), UNCHANGED req PROVE Lockouts'
  <2>0. LockDoc(lock[u]) /\ DOMAIN lock = User
    BY DEF Lockouts
  <2>1. PICK k : /\ lock' = [lock EXCEPT ![u] = k] /\ LockDoc(k)
                 /\ k.failed = lock[u].failed \/ k.failed = 0
    <3>1. CASE LockEnds(u)
      <4>1. /\ lock' = [lock EXCEPT ![u] = [lock[u] EXCEPT !.until = "past"]]
            /\ LockDoc([lock[u] EXCEPT !.until = "past"])
            /\ [lock[u] EXCEPT !.until = "past"].failed = lock[u].failed
        BY <2>0, <3>1 DEF LockEnds, LockDoc
      <4> QED BY <4>1
    <3>2. CASE CleanLockout(u)
      BY <1>2, <3>2 DEF CleanLockout
    <3> QED BY <1>6, <3>1, <3>2
  <2>2. \A v \in User : LockDoc(lock'[v]) /\ (lock'[v].failed >= Threshold => Locking(v))
    BY <1>0, <2>0, <2>1 DEF Lockouts
  <2>3. \A v \in User : Locking(v)' = Locking(v)
    BY <1>6 DEF Locking
  <2> QED BY <2>0, <2>1, <2>2, <2>3 DEF Lockouts, LockDoc
<1>7. CASE UNCHANGED <<lock, req>>
  BY <1>1, <1>7
<1>8. CASE Clock /\ UNCHANGED sessionVars
  BY <1>6, <1>7, <1>8 DEF Clock, WindowPasses, CleanWindow, CodeAges, CleanCode, sessionVars
<1>9. CASE Time /\ UNCHANGED signInVars
  BY <1>7, <1>9 DEF Time, TokenIdles, SessionExpires, CleanTokens, signInVars
<1> QED BY <1>4, <1>5, <1>7, <1>8, <1>9 DEF Next, vars, sessionVars, signInVars

(* Failures never pile up past the threshold unless the request that       *)
(* reached it is about to lock the key (recordFailure).                     *)
THEOREM FailuresLockKeys == Spec => []FailuresLock
<1>1. Init => Lockouts
  BY SignInConstants DEF Init, Lockouts, NoLock, LockDoc
<1>2. Lockouts /\ Typed /\ Memory /\ [Next]_vars => Lockouts'
  BY StepLockouts
<1>3. Lockouts => FailuresLock
  BY DEF Lockouts, Locking, FailuresLock
<1> QED BY <1>1, <1>2, <1>3, SpecImplements, PTL DEF Spec

-----------------------------------------------------------------------------
(* Invitations: an account carries the token of a grant that is about it,  *)
(* and an admin without a password that of one that mailed it, is still    *)
(* running or was killed.                                                  *)

Half(u)     == user[u].role = "admin" /\ ~user[u].secret
Inviting(r) == r \in linkSent \/ req[r].at \in {"mailInvite", "rollback", "crashed"}

Invited(u) ==
  /\ invited[u] # None => invited[u] \in Request /\ req[invited[u]].user = u
  /\ Half(u) => invited[u] # None /\ Inviting(invited[u])

Invitations == DOMAIN invited = User /\ \A u \in User : Invited(u)

(* Grants that were mailed, running or killed remain so, unless they roll  *)
(* back; accounts that did not become half-created keep their token.       *)
LEMMA InvitationsKept ==
  ASSUME Invitations, DOMAIN invited' = User,
         \A s \in Request : /\ req'[s].user = req[s].user
                            /\ Inviting(s) => Inviting(s)',
         \A u \in User : /\ invited'[u] \in {invited[u], None}
                         /\ Half(u)' => Half(u) /\ invited'[u] = invited[u]
  PROVE  Invitations'
<1>1. ASSUME NEW u \in User PROVE Invited(u)'
  <2>1. Invited(u)
    BY DEF Invitations
  <2> QED BY <2>1 DEF Invited
<1> QED BY <1>1 DEF Invitations

LEMMA SessionStepInvitations ==
  ASSUME Typed, Invitations, NEW r \in Request, SessionOnly(r)
  PROVE  Invitations'
<1>0. /\ user \in [User -> UserDoc] /\ req \in [Request -> ReqDoc]
      /\ SessionStep(r) /\ UNCHANGED <<invited, linkSent>>
  BY DEF Typed, SessionTypeOK, SessionOnly, signInVars
<1>1. /\ \A s \in Request \ {r} : req'[s] = req[s]
      /\ req'[r].user = req[r].user /\ req[r].at # "crashed"
  BY <1>0, SessionStepMoves, SessionStepLeaves
<1>2. req[r].at \in {"mailInvite", "rollback"} => req'[r].at = "crashed"
  BY <1>0, SessionStepLeaves DEF Crash, Goto, ReqDoc
<1>3. \A s \in Request : req'[s].user = req[s].user /\ (Inviting(s) => Inviting(s)')
  BY <1>0, <1>1, <1>2 DEF Inviting
<1>4. \A u \in User : Half(u)' => Half(u)
  <2>1. CASE user' = user
    BY <2>1 DEF Half
  <2>2. CASE SavePin(r) \/ Increment(r)
    BY <1>0, <2>2 DEF SavePin, Increment, Half, UserDoc
  <2>3. CASE SaveReset(r)
    BY <1>0, <2>3 DEF SaveReset, Half, UserDoc
  <2>4. ~SavePassword(r)
    BY DEF SessionOnly, SavePassword
  <2> QED BY <1>0, <2>1, <2>2, <2>3, <2>4 DEF SessionStep, PresentToken, Logout, CheckOwner,
             Claim, Burn, Create, FindKeep, SweepOthers, Sweep, LoadReset, Crash
<1> QED BY <1>0, <1>3, <1>4, InvitationsKept DEF Invitations

LEMMA SignInInvitations ==
  ASSUME Typed, Memory, Invitations, NEW r \in Request, SignInStep(r)
  PROVE  Invitations'
<1>0. PICK u \in User :
        /\ u = req[r].user /\ DOMAIN invited = User
        /\ user \in [User -> UserDoc] /\ req \in [Request -> ReqDoc]
  BY DEF Typed, SessionTypeOK, ReqDoc, Invitations
<1>1. /\ \A s \in Request \ {r} : req'[s] = req[s]
      /\ req'[r].user = req[r].user /\ req[r].at # "crashed"
      /\ req[r].at = "mailInvite" => \E sent \in BOOLEAN : MailInvite(r, sent)
      /\ req[r].at = "rollback" => RollbackGrant(r)
  BY SignInMoves
<1>2. ASSUME UNCHANGED <<user, invited, linkSent>>, req[r].at \notin {"mailInvite", "rollback"}
      PROVE  Invitations'
  <2>1. \A s \in Request : req'[s].user = req[s].user /\ (Inviting(s) => Inviting(s)')
    BY <1>1, <1>2 DEF Inviting
  <2>2. \A v \in User : Half(v)' => Half(v)
    BY <1>2 DEF Half
  <2> QED BY <1>0, <1>2, <2>1, <2>2, InvitationsKept
<1>3. ASSUME NEW sent \in BOOLEAN, MailInvite(r, sent) PROVE Invitations'
  <2>1. UNCHANGED <<user, invited>> /\ linkSent \subseteq linkSent'
        /\ Inviting(r)'
    BY <1>0, <1>3 DEF MailInvite, Go, Goto, Inviting, ReqDoc
  <2>2. \A s \in Request : req'[s].user = req[s].user /\ (Inviting(s) => Inviting(s)')
    BY <1>1, <2>1 DEF Inviting
  <2>3. \A v \in User : Half(v)' => Half(v)
    BY <2>1 DEF Half
  <2> QED BY <1>0, <2>1, <2>2, <2>3, InvitationsKept
<1>4. CASE SaveGrant(r) /\ invited' = [invited EXCEPT ![u] = r] /\ Goto(r, "mailInvite")
  <2>1. /\ req'[r].at = "mailInvite"
        /\ UNCHANGED linkSent /\ req[r].at = "saveGrant"
        /\ \A v \in User \ {u} : user'[v] = user[v]
    BY <1>0, <1>4 DEF SaveGrant, Go, Goto, ReqDoc
  <2>2. \A s \in Request : Inviting(s) => Inviting(s)'
    BY <1>1, <2>1 DEF Inviting
  <2>3. ASSUME NEW v \in User PROVE Invited(v)'
    <3>0. Invited(v)
      BY DEF Invitations
    <3>1. CASE v = u
      BY <1>0, <1>1, <1>4, <2>1, <3>1, SignInConstants DEF Invited, Inviting
    <3>2. CASE v # u
      BY <1>0, <1>1, <1>4, <2>1, <2>2, <3>0, <3>2 DEF Invited, Half
    <3> QED BY <3>1, <3>2
  <2> QED BY <1>0, <1>4, <2>3 DEF Invitations
(* The writes that end an invitation leave no half-created admin behind.   *)
<1>5. ASSUME ~Half(u)', \A v \in User \ {u} : user'[v] = user[v],
             invited' = [invited EXCEPT ![u] = None], UNCHANGED linkSent
      PROVE  Invitations'
  <2>1. ASSUME NEW v \in User PROVE Invited(v)'
    <3>0. Invited(v)
      BY DEF Invitations
    <3>1. CASE v = u
      BY <1>0, <1>5, <3>1 DEF Invited
    <3>2. CASE v # u
      <4>1. invited'[v] = invited[v] /\ (Half(v)' => Half(v))
        BY <1>0, <1>5, <3>2 DEF Half
      <4>2. invited[v] # None => invited[v] \in Request \ {r}
        BY <1>0, <3>0, <3>2 DEF Invited
      <4>3. \A s \in Request \ {r} : req'[s] = req[s] /\ (Inviting(s) => Inviting(s)')
        BY <1>1, <1>5 DEF Inviting
      <4> QED BY <3>0, <4>1, <4>2, <4>3 DEF Invited
    <3> QED BY <3>1, <3>2
  <2> QED BY <1>0, <1>5, <2>1 DEF Invitations
<1>6. CASE RollbackGrant(r)
  <2> DEFINE d == Restored(u, mem[r].snap)
  <2>1. user' = [user EXCEPT ![u] = d]
        /\ invited' = [invited EXCEPT ![u] = None] /\ UNCHANGED linkSent
    BY <1>0, <1>6 DEF RollbackGrant
  <2>2. d.role # "admin"
    BY <1>0 DEF Restored, UserDoc
  <2>3. ~Half(u)' /\ \A v \in User \ {u} : user'[v] = user[v]
    <3>1. user'[u] = d /\ \A v \in User \ {u} : user'[v] = user[v]
      BY <1>0, <2>1
    <3> HIDE DEF d
    <3> QED BY <1>1, <2>2, <3>1 DEF Half
  <2> QED BY <1>5, <2>1, <2>3
<1>7. CASE UseInvite(r)
  <2>1. ~Half(u)' /\ \A v \in User \ {u} : user'[v] = user[v]
    BY <1>0, <1>1, <1>7 DEF UseInvite, SavePassword, Half, UserDoc
  <2> QED BY <1>0, <1>5, <1>7, <2>1 DEF UseInvite
<1>8. CASE SaveRevoke(r)
  <2>1. ~Half(u)' /\ \A v \in User \ {u} : user'[v] = user[v]
    BY <1>0, <1>1, <1>8 DEF SaveRevoke, Half, UserDoc
  <2> QED BY <1>0, <1>5, <1>8, <2>1 DEF SaveRevoke
<1>9. CASE SaveGrant(r)
  <2>1. req[r].at = "saveGrant" /\ UNCHANGED linkSent
    BY <1>9 DEF SaveGrant
  <2>2. CASE UNCHANGED <<user, invited>>
    BY <1>2, <2>1, <2>2
  <2> QED BY <1>0, <1>4, <1>9, <2>2 DEF SaveGrant, Go
<1>10. CASE \/ ResetRound(r) \/ CountFailure(r) \/ LockKey(r) \/ ClearFailures(r)
            \/ ClearAfterReset(r) \/ AccountLimit(r) \/ SendCap(r)
            \/ Cooldown(r) \/ Resend(r) \/ Addressee(r)
            \/ \E k \in Token \cup {None} : AssertNotLocked(r, k)
            \/ \E right \in BOOLEAN : CompareSecret(r, right) \/ CheckCode(r, right)
  BY <1>2, <1>10 DEF ResetRound, CountFailure, LockKey, ClearFailures, ClearAfterReset, AccountLimit,
     SendCap, Consume, Cooldown, Resend, Addressee, AssertNotLocked, CompareSecret, CheckCode,
     Go, signInVars, adminVars
<1>11. CASE \/ DropOldCodes(r) \/ InsertCode(r) \/ MailCode(r) \/ RemoveUnsent(r)
            \/ FindCode(r) \/ CountAttempt(r) \/ ConsumeCode(r) \/ FindStaff(r)
            \/ LoadGrant(r) \/ FindInvite(r) \/ LoadRevoke(r) \/ DropCodes(r)
  BY <1>2, <1>11 DEF DropOldCodes, InsertCode, MailCode, RemoveUnsent, FindCode, CountAttempt,
     ConsumeCode, FindStaff, LoadGrant, FindInvite, LoadRevoke, DropCodes,
     Go, signInVars, adminVars
<1> QED BY <1>3, <1>4, <1>6, <1>7, <1>8, <1>9, <1>10, <1>11 DEF SignInStep

LEMMA StepInvitations ==
  ASSUME Typed, Memory, Invitations, [Next]_vars
  PROVE  Invitations'
<1>1. CASE UNCHANGED <<user, req, invited, linkSent>>
  BY <1>1 DEF Invitations, Invited, Half, Inviting
<1>2. CASE Time /\ UNCHANGED signInVars
  BY <1>1, <1>2 DEF Time, TokenIdles, SessionExpires, CleanTokens, signInVars
<1>3. CASE Clock /\ UNCHANGED sessionVars
  BY <1>1, <1>3 DEF Clock, LockEnds, CleanLockout, WindowPasses, CleanWindow, CodeAges, CleanCode,
                    adminVars, sessionVars
<1> QED BY <1>1, <1>2, <1>3, SignInInvitations, SessionStepInvitations
        DEF Next, vars, sessionVars, signInVars

(* "roll back so a failed invite never leaves a half-created admin"        *)
(* (grantAccess): an admin with no password was mailed the link to set it, *)
(* or the grant that made it is still running or was killed.               *)
THEOREM InvitesRollBack == Spec => []NoHalfCreatedAdmin
<1>1. Init => Invitations
  <2> SUFFICES ASSUME Init PROVE Invitations
    OBVIOUS
  <2>1. \A u \in User : ~Half(u)
    BY AdminsHavePasswords DEF Init, SessionInit, Half
  <2> QED BY <2>1 DEF Init, Invitations, Invited
<1>2. Invitations /\ Typed /\ Memory /\ [Next]_vars => Invitations'
  BY StepInvitations
<1>3. Invitations => NoHalfCreatedAdmin
  BY DEF Invitations, Invited, Half, Inviting, NoHalfCreatedAdmin
<1> QED BY <1>1, <1>2, <1>3, SpecImplements, PTL DEF Spec

-----------------------------------------------------------------------------
(* Types.  A request counts one failure at most, on its way out: a count    *)
(* is bounded by the requests that are past it.                             *)

Past     == {"lock", "done", "crashed"}
Leavers  == {r \in Request : req[r].at \in Past}

KeyDoc   == [failed : Nat, until : {"none", "future", "past"}, strikes : 0 .. MaxStrikes]

Keys ==
  /\ lock \in [User -> KeyDoc]
  /\ \A u \in User : lock[u].failed <= Cardinality(Leavers)

Minds ==
  \A r \in Request : /\ mem[r].code \in Code \cup {None} /\ mem[r].nth \in 0 .. MaxAttempts
                     /\ req[r].at = "attempt" => mem[r].code \in Code

Accounts ==
  /\ invited \in [User -> Request \cup {None}]
  /\ revoked \subseteq User /\ linkSent \subseteq Request

(* A request that has left never comes back, and a failure is counted by    *)
(* one that leaves.                                                         *)
LEMMA SignInLeaves ==
  ASSUME Typed, NEW r \in Request, SignInStep(r)
  PROVE  /\ req[r].at \in Past => req'[r].at \in Past
         /\ CountFailure(r) => req[r].at \notin Past /\ req'[r].at \in Past
<1>0. req \in [Request -> ReqDoc]
  BY DEF Typed, SessionTypeOK
<1>1. LockKey(r) => req'[r].at \in Past
  BY <1>0 DEF LockKey, Go, Goto, Past, ReqDoc
<1>2. CountFailure(r) => req[r].at \notin Past /\ req'[r].at \in Past
  BY <1>0 DEF CountFailure, Go, Goto, Past, ReqDoc
<1>3. LockKey(r) \/ req[r].at \notin Past
  <2>1. CASE \/ ResetRound(r) \/ CountFailure(r) \/ ClearFailures(r)
             \/ ClearAfterReset(r) \/ AccountLimit(r) \/ SendCap(r)
             \/ Cooldown(r) \/ Resend(r) \/ Addressee(r)
    BY <2>1 DEF ResetRound, CountFailure, ClearFailures, ClearAfterReset, AccountLimit, SendCap,
       Cooldown, Resend, Addressee, Past
  <2>4. ASSUME NEW k \in Token \cup {None}, AssertNotLocked(r, k) PROVE req[r].at \notin Past
    BY <2>4 DEF AssertNotLocked, Past
  <2>5. ASSUME NEW right \in BOOLEAN, CompareSecret(r, right) \/ CheckCode(r, right)
        PROVE  req[r].at \notin Past
    BY <2>5 DEF CompareSecret, CheckCode, Past
  <2>2. CASE \/ DropOldCodes(r) \/ InsertCode(r) \/ MailCode(r) \/ RemoveUnsent(r)
             \/ FindCode(r) \/ CountAttempt(r) \/ ConsumeCode(r) \/ FindStaff(r)
    BY <2>2 DEF DropOldCodes, InsertCode, MailCode, RemoveUnsent, FindCode,
       CountAttempt, ConsumeCode, FindStaff, Past
  <2>3. CASE \/ LoadGrant(r) \/ SaveGrant(r) \/ \E sent \in BOOLEAN : MailInvite(r, sent)
             \/ RollbackGrant(r) \/ FindInvite(r) \/ UseInvite(r)
             \/ LoadRevoke(r) \/ SaveRevoke(r) \/ DropCodes(r)
    BY <2>3 DEF LoadGrant, SaveGrant, MailInvite, RollbackGrant, FindInvite, UseInvite,
       SavePassword, LoadRevoke, SaveRevoke, DropCodes, Past
  <2> QED BY <2>1, <2>2, <2>3, <2>4, <2>5 DEF SignInStep
<1> QED BY <1>1, <1>2, <1>3

LEMMA SessionLeaves ==
  ASSUME Typed, NEW r \in Request, SessionStep(r), req[r].at \in Past
  PROVE  req'[r].at \in Past
<1>1. Crash(r)
  <2>1. ASSUME NEW k \in Token PROVE ~PresentToken(r, k) /\ ~Logout(r, k)
    BY DEF Past, PresentToken, Logout
  <2>2. ~(CheckOwner(r) \/ Claim(r) \/ Burn(r) \/ Create(r) \/ SavePin(r) \/ FindKeep(r))
    BY DEF Past, CheckOwner, Claim, Burn, Create, SavePin, FindKeep
  <2>3. ~(SweepOthers(r) \/ SavePassword(r) \/ Sweep(r) \/ Increment(r) \/ LoadReset(r) \/ SaveReset(r))
    BY DEF Past, SweepOthers, SavePassword, Sweep, Increment, LoadReset, SaveReset
  <2> QED BY <2>1, <2>2, <2>3 DEF SessionStep
<1> QED BY <1>1 DEF Crash, Goto, Past, Typed, SessionTypeOK, ReqDoc

(* The requests that have left only grow, by one when a failure is counted. *)
LEMMA LeaversGrow ==
  ASSUME IsFiniteSet(Request), Typed, Memory, [Next]_vars
  PROVE  /\ Cardinality(Leavers) \in Nat /\ Cardinality(Leavers)' \in Nat
         /\ Cardinality(Leavers) <= Cardinality(Leavers)'
         /\ \A r \in Request : SignInStep(r) /\ CountFailure(r)
              => Cardinality(Leavers) + 1 <= Cardinality(Leavers)'
<1>1. \A s \in Request : req[s].at \in Past => req'[s].at \in Past
  <2>1. ASSUME NEW r \in Request, SignInStep(r)
        PROVE  \A s \in Request : req[s].at \in Past => req'[s].at \in Past
    BY <2>1, SignInMoves, SignInLeaves
  <2>2. ASSUME NEW r \in Request, SessionOnly(r)
        PROVE  \A s \in Request : req[s].at \in Past => req'[s].at \in Past
    BY <2>2, SessionStepMoves, SessionLeaves DEF SessionOnly
  <2>3. CASE UNCHANGED req
    BY <2>3
  <2>4. CASE Time
    BY <2>3, <2>4 DEF Time, TokenIdles, SessionExpires, CleanTokens
  <2> QED BY <2>1, <2>2, <2>3, <2>4 DEF Next, vars, sessionVars
<1>2. IsFiniteSet(Leavers) /\ IsFiniteSet(Leavers') /\ Leavers \subseteq Leavers'
  BY <1>1, FS_Subset DEF Leavers
<1>3. ASSUME NEW r \in Request, SignInStep(r), CountFailure(r)
      PROVE  Cardinality(Leavers) + 1 <= Cardinality(Leavers')
  <2>1. r \notin Leavers /\ r \in Leavers'
    BY <1>3, SignInLeaves DEF Leavers
  <2>2. Leavers \cup {r} \subseteq Leavers'
    BY <1>2, <2>1
  <2>3. IsFiniteSet(Leavers \cup {r}) /\ Cardinality(Leavers \cup {r}) = Cardinality(Leavers) + 1
    BY <1>2, <2>1, FS_AddElement
  <2>4. Cardinality(Leavers \cup {r}) <= Cardinality(Leavers')
    BY <1>2, <2>2, FS_Subset
  <2> QED BY <2>3, <2>4
<1> QED BY <1>2, <1>3, FS_Subset, FS_CardinalityType

LEMMA StrikesCapped ==
  ASSUME NEW n \in 0 .. MaxStrikes
  PROVE  Min({n + 1, MaxStrikes}) \in 0 .. MaxStrikes
<1>1. MaxStrikes \in Nat \ {0}
  BY SignInConstants
<1>2. CASE n < MaxStrikes
  <2>1. \A y \in {n + 1, MaxStrikes} : n + 1 <= y
    BY <1>1, <1>2
  <2>2. \A x \in {n + 1, MaxStrikes} : (\A y \in {n + 1, MaxStrikes} : x <= y) => x = n + 1
    BY <1>1, <1>2
  <2>3. Min({n + 1, MaxStrikes}) = n + 1
    BY <2>1, <2>2 DEF Min
  <2> QED BY <1>1, <1>2, <2>3
<1>3. CASE n = MaxStrikes
  <2>1. \A y \in {n + 1, MaxStrikes} : MaxStrikes <= y
    BY <1>1, <1>3
  <2>2. \A x \in {n + 1, MaxStrikes} : (\A y \in {n + 1, MaxStrikes} : x <= y) => x = MaxStrikes
    BY <1>1, <1>3
  <2>3. Min({n + 1, MaxStrikes}) = MaxStrikes
    BY <2>1, <2>2 DEF Min
  <2> QED BY <1>1, <2>3
<1> QED BY <1>1, <1>2, <1>3

LEMMA StepKeys ==
  ASSUME IsFiniteSet(Request), Typed, Memory, Keys, [Next]_vars
  PROVE  Keys'
<1> DEFINE n == Cardinality(Leavers)
           m == Cardinality(Leavers)'
<1>0. /\ n \in Nat /\ m \in Nat /\ n <= m
      /\ \A r \in Request : SignInStep(r) /\ CountFailure(r) => n + 1 <= m
  BY LeaversGrow
<1>1. /\ lock \in [User -> KeyDoc]
      /\ \A u \in User : lock[u] \in KeyDoc /\ lock[u].failed <= n
  BY DEF Keys
<1>2. ASSUME lock' \in [User -> KeyDoc], \A u \in User : lock'[u].failed <= m
      PROVE  Keys'
  BY <1>2 DEF Keys
<1> HIDE DEF n, m
<1>3. \A u \in User : lock[u].failed <= m
  BY <1>0, <1>1 DEF KeyDoc
<1>4. CASE UNCHANGED lock
  BY <1>1, <1>2, <1>3, <1>4
<1>5. ASSUME NEW u \in User, NEW k \in KeyDoc, lock' = [lock EXCEPT ![u] = k], k.failed <= m
      PROVE  Keys'
  BY <1>1, <1>2, <1>3, <1>5
<1>6. NoLock \in KeyDoc /\ NoLock.failed <= m
  BY <1>0, SignInConstants DEF NoLock, KeyDoc
<1>7. ASSUME NEW r \in Request, SignInStep(r), ~UNCHANGED lock PROVE Keys'
  <2> DEFINE u == req[r].user
  <2>0. u \in User
    BY DEF Typed, SessionTypeOK, ReqDoc
  <2> HIDE DEF u
  <2>1. CASE ResetRound(r)
    <3> DEFINE k == [lock[u] EXCEPT !.failed = 0, !.until = "none"]
    <3>1. lock' = [lock EXCEPT ![u] = k]
      BY <1>1, <1>7, <2>0, <2>1 DEF ResetRound, u
    <3>2. k \in KeyDoc /\ k.failed = 0
      BY <1>1, <2>0 DEF KeyDoc
    <3> HIDE DEF k
    <3>3. k.failed <= m
      BY <1>0, <3>2
    <3> QED BY <1>5, <2>0, <3>1, <3>2, <3>3
  <2>2. CASE CountFailure(r)
    <3> DEFINE c == lock[u].failed + 1
               k == [lock[u] EXCEPT !.failed = c]
    <3>1. lock' = [lock EXCEPT ![u] = k]
      BY <1>1, <2>0, <2>2 DEF CountFailure, u
    <3>2. k \in KeyDoc /\ k.failed = c
      BY <1>1, <2>0 DEF KeyDoc
    <3>3. c <= m
      BY <1>0, <1>1, <1>7, <2>0, <2>2 DEF KeyDoc
    <3> HIDE DEF k, c
    <3> QED BY <1>5, <2>0, <3>1, <3>2, <3>3
  <2>3. CASE LockKey(r)
    <3> DEFINE x == Min({lock[u].strikes + 1, MaxStrikes})
               k == [failed |-> 0, until |-> "future", strikes |-> x]
    <3>1. lock' = [lock EXCEPT ![u] = k]
      BY <1>1, <1>7, <2>0, <2>3 DEF LockKey, u
    <3>2. x \in 0 .. MaxStrikes
      BY <1>1, <2>0, StrikesCapped DEF KeyDoc
    <3> HIDE DEF x
    <3>3. k \in KeyDoc /\ k.failed = 0
      BY <3>2 DEF KeyDoc
    <3> HIDE DEF k
    <3>4. k.failed <= m
      BY <1>0, <3>3
    <3> QED BY <1>5, <2>0, <3>1, <3>3, <3>4
  <2>4. CASE ClearFailures(r) \/ ClearAfterReset(r)
    <3>1. lock' = [lock EXCEPT ![u] = NoLock]
      BY <1>7, <2>4 DEF ClearFailures, ClearAfterReset, u
    <3> QED BY <1>5, <1>6, <2>0, <3>1
  <2>5. CASE AccountLimit(r) \/ SendCap(r) \/ Cooldown(r) \/ Resend(r) \/ Addressee(r)
    BY <1>4, <2>5 DEF AccountLimit, SendCap, Consume, Cooldown, Resend, Addressee, signInVars
  <2>8. ASSUME NEW k \in Token \cup {None}, AssertNotLocked(r, k) PROVE Keys'
    BY <1>4, <2>8 DEF AssertNotLocked, signInVars
  <2>9. ASSUME NEW right \in BOOLEAN, CompareSecret(r, right) \/ CheckCode(r, right) PROVE Keys'
    BY <1>4, <2>9 DEF CompareSecret, CheckCode, signInVars
  <2>6. CASE \/ DropOldCodes(r) \/ InsertCode(r) \/ MailCode(r) \/ RemoveUnsent(r)
             \/ FindCode(r) \/ CountAttempt(r) \/ ConsumeCode(r) \/ FindStaff(r)
    BY <1>4, <2>6 DEF DropOldCodes, InsertCode, MailCode, RemoveUnsent, FindCode,
       CountAttempt, ConsumeCode, FindStaff, signInVars
  <2>7. CASE \/ LoadGrant(r) \/ SaveGrant(r) \/ \E sent \in BOOLEAN : MailInvite(r, sent)
             \/ RollbackGrant(r) \/ FindInvite(r) \/ UseInvite(r)
             \/ LoadRevoke(r) \/ SaveRevoke(r) \/ DropCodes(r)
    BY <1>4, <2>7 DEF LoadGrant, SaveGrant, MailInvite, RollbackGrant, FindInvite, UseInvite,
       LoadRevoke, SaveRevoke, DropCodes, signInVars
  <2> QED BY <1>7, <2>1, <2>2, <2>3, <2>4, <2>5, <2>6, <2>7, <2>8, <2>9 DEF SignInStep
<1>8. ASSUME NEW u \in User, LockEnds(u) PROVE Keys'
  <2> DEFINE k == [lock[u] EXCEPT !.until = "past"]
  <2>1. lock' = [lock EXCEPT ![u] = k]
    BY <1>1, <1>8 DEF LockEnds
  <2>2. k \in KeyDoc /\ k.failed = lock[u].failed
    BY <1>1 DEF KeyDoc
  <2> HIDE DEF k
  <2> QED BY <1>3, <1>5, <2>1, <2>2
<1>9. ASSUME NEW u \in User, CleanLockout(u) PROVE Keys'
  BY <1>5, <1>6, <1>9 DEF CleanLockout
<1>10. CASE Clock
  BY <1>4, <1>8, <1>9, <1>10 DEF Clock, WindowPasses, CleanWindow, CodeAges, CleanCode
<1> QED BY <1>4, <1>7, <1>10 DEF Next, SessionOnly, vars, signInVars

(* A request is at "attempt" with a code it has found.                      *)
LEMMA StepMinds ==
  ASSUME Typed, Memory, Codes, Minds, [Next]_vars
  PROVE  Minds'
<1>0. req \in [Request -> ReqDoc]
  BY DEF Typed, SessionTypeOK
<1>1. ASSUME UNCHANGED mem, \A s \in Request : req'[s].at = "attempt" => req[s].at = "attempt"
      PROVE  Minds'
  BY <1>1 DEF Minds
<1>2. ASSUME NEW r \in Request, SignInStep(r) PROVE Minds'
  <2>1. \A s \in Request \ {r} : req'[s] = req[s]
    BY <1>2, SignInMoves
  <2>2. CASE UNCHANGED mem /\ req'[r].at # "attempt"
    BY <1>1, <2>1, <2>2
  <2>3. CASE InsertCode(r)
    <3>1. PICK c \in Code : mem' = [mem EXCEPT ![r].code = c]
      BY <2>3 DEF InsertCode
    <3>2. req'[r].at = "mailCode"
      BY <1>0, <2>3 DEF InsertCode, Go, Goto, ReqDoc
    <3>3. mem'[r].code = c /\ mem'[r].nth = mem[r].nth /\ \A s \in Request \ {r} : mem'[s] = mem[s]
      BY <3>1 DEF Memory, Remembers
    <3> QED BY <2>1, <3>2, <3>3 DEF Minds
  <2>4. CASE FindCode(r) /\ mem' # mem
    <3>1. PICK c \in Newest(req[r].user) : mem' = [mem EXCEPT ![r].code = c]
      BY <2>4 DEF FindCode
    <3>2. c \in Code
      BY DEF Newest, Pending
    <3>3. mem'[r].code = c /\ mem'[r].nth = mem[r].nth /\ \A s \in Request \ {r} : mem'[s] = mem[s]
      BY <3>1 DEF Memory, Remembers
    <3> QED BY <2>1, <3>2, <3>3 DEF Minds
  <2>5. CASE FindCode(r) /\ mem' = mem
    <3>1. CASE req'[r].at = "attempt"
      <4>1. PICK c \in Newest(req[r].user) : mem' = [mem EXCEPT ![r].code = c]
        BY <1>0, <2>5, <3>1 DEF FindCode, Go, Goto, ReqDoc
      <4>2. c \in Code
        BY DEF Newest, Pending
      <4>3. mem'[r].code = c
        BY <4>1 DEF Memory, Remembers
      <4> QED BY <2>1, <2>5, <4>2, <4>3 DEF Minds
    <3> QED BY <2>2, <2>5, <3>1
  <2>6. CASE CountAttempt(r)
    <3> DEFINE c == mem[r].code
    <3>1. c \in Code /\ req'[r].at # "attempt"
      BY <1>0, <2>6 DEF CountAttempt, Go, Goto, ReqDoc, Minds
    <3>2. CASE UNCHANGED mem
      BY <2>2, <3>1, <3>2
    <3>3. CASE Attemptable(c)
      <4> DEFINE n == code[c].attempts + 1
      <4>1. mem' = [mem EXCEPT ![r].nth = n]
        BY <2>6, <3>3 DEF CountAttempt
      <4>2. n \in 0 .. MaxAttempts
        <5>1. code[c].attempts \in 0 .. MaxAttempts
          BY <3>1 DEF Codes, CodesTyped, CodeDoc
        <5>2. code[c].attempts < MaxAttempts /\ MaxAttempts \in Nat
          BY <3>3, SignInConstants DEF Attemptable
        <5> HIDE DEF c
        <5> QED BY <5>1, <5>2
      <4> HIDE DEF n
      <4>3. mem'[r].code = c /\ mem'[r].nth = n /\ \A s \in Request \ {r} : mem'[s] = mem[s]
        BY <4>1 DEF Memory, Remembers
      <4> QED BY <2>1, <3>1, <4>2, <4>3 DEF Minds
    <3> QED BY <2>6, <3>2, <3>3 DEF CountAttempt
  <2>7. CASE LoadGrant(r) \/ FindInvite(r)
    <3>1. PICK x : mem' = [mem EXCEPT ![r].snap = x]
      BY <2>7 DEF LoadGrant, FindInvite
    <3>2. \A s \in Request : mem'[s].code = mem[s].code /\ mem'[s].nth = mem[s].nth
      BY <3>1 DEF Memory, Remembers
    <3>3. req'[r].at # "attempt"
      <4>1. CASE LoadGrant(r)
        BY <1>0, <4>1 DEF LoadGrant, Go, Goto, ReqDoc
      <4>2. CASE FindInvite(r)
        BY <1>0, <4>2 DEF FindInvite, ReqDoc
      <4> QED BY <2>7, <4>1, <4>2
    <3> QED BY <2>1, <3>2, <3>3 DEF Minds
  <2>8. CASE \/ ResetRound(r) \/ CountFailure(r) \/ LockKey(r) \/ ClearFailures(r) \/ ClearAfterReset(r)
    BY <1>0, <2>2, <2>8 DEF ResetRound, CountFailure, LockKey, ClearFailures, ClearAfterReset, Entry,
       Go, Goto, ReqDoc
  <2>9. CASE AccountLimit(r) \/ SendCap(r) \/ Cooldown(r) \/ Resend(r) \/ Addressee(r)
    BY <1>0, <2>2, <2>9 DEF AccountLimit, SendCap, Consume, Cooldown, Resend, Addressee, signInVars,
       Go, Goto, ReqDoc
  <2>10. ASSUME NEW k \in Token \cup {None}, AssertNotLocked(r, k) PROVE Minds'
    BY <1>0, <2>2, <2>10 DEF AssertNotLocked, signInVars, ReqDoc
  <2>11. ASSUME NEW right \in BOOLEAN, CompareSecret(r, right) PROVE Minds'
    BY <1>0, <2>2, <2>11 DEF CompareSecret, signInVars, ReqDoc
  <2>12. ASSUME NEW right \in BOOLEAN, CheckCode(r, right) PROVE Minds'
    BY <1>0, <2>2, <2>12 DEF CheckCode, Go, Goto, ReqDoc
  <2>13. CASE DropOldCodes(r) \/ MailCode(r) \/ RemoveUnsent(r) \/ ConsumeCode(r)
    BY <1>0, <2>2, <2>13 DEF DropOldCodes, MailCode, RemoveUnsent, ConsumeCode, signInVars,
       Go, Goto, ReqDoc
  <2>14. CASE FindStaff(r)
    BY <1>0, <2>2, <2>14 DEF FindStaff, signInVars, ReqDoc
  <2>15. CASE SaveGrant(r) \/ RollbackGrant(r) \/ UseInvite(r) \/ SaveRevoke(r)
    BY <1>0, <2>2, <2>15 DEF SaveGrant, RollbackGrant, UseInvite, SavePassword, SaveRevoke,
       Go, Goto, ReqDoc
  <2>16. ASSUME NEW sent \in BOOLEAN, MailInvite(r, sent) PROVE Minds'
    BY <1>0, <2>2, <2>16 DEF MailInvite, Go, Goto, ReqDoc
  <2>17. CASE LoadRevoke(r) \/ DropCodes(r)
    BY <1>0, <2>2, <2>17 DEF LoadRevoke, DropCodes, signInVars, Go, Goto, ReqDoc
  <2> QED BY <1>2, <2>3, <2>4, <2>5, <2>6, <2>7, <2>8, <2>9, <2>10, <2>11, <2>12, <2>13, <2>14,
             <2>15, <2>16, <2>17 DEF SignInStep
<1>3. ASSUME NEW r \in Request, SessionOnly(r) PROVE Minds'
  <2>1. SessionStep(r) /\ UNCHANGED mem
    BY <1>3 DEF SessionOnly, signInVars
  <2>2. "attempt" \notin Outcome
    BY DEF Outcome, Critical
  <2> QED BY <1>1, <2>1, <2>2, SessionStepMoves
<1>4. CASE UNCHANGED <<mem, req>>
  BY <1>1, <1>4
<1>5. CASE Time /\ UNCHANGED signInVars
  BY <1>4, <1>5 DEF Time, TokenIdles, SessionExpires, CleanTokens, signInVars
<1>6. CASE Clock /\ UNCHANGED sessionVars
  BY <1>4, <1>6 DEF Clock, LockEnds, CleanLockout, WindowPasses, CleanWindow, CodeAges, CleanCode,
     sessionVars
<1> QED BY <1>2, <1>3, <1>4, <1>5, <1>6 DEF Next, vars, sessionVars, signInVars

LEMMA StepAccounts ==
  ASSUME Typed, Accounts, [Next]_vars
  PROVE  Accounts'
<1>1. CASE UNCHANGED adminVars
  BY <1>1 DEF Accounts, adminVars
<1>2. ASSUME NEW r \in Request, SignInStep(r) PROVE Accounts'
  <2>0. req[r].user \in User
    BY DEF Typed, SessionTypeOK, ReqDoc
  <2>1. CASE SaveGrant(r) \/ RollbackGrant(r) \/ UseInvite(r)
    BY <2>0, <2>1 DEF SaveGrant, RollbackGrant, UseInvite, Accounts
  <2>2. CASE SaveRevoke(r)
    BY <2>0, <2>2 DEF SaveRevoke, Accounts
  <2>3. ASSUME NEW sent \in BOOLEAN, MailInvite(r, sent) PROVE Accounts'
    BY <2>3 DEF MailInvite, Accounts
  <2>4. CASE \/ ResetRound(r) \/ CountFailure(r) \/ LockKey(r) \/ ClearFailures(r) \/ ClearAfterReset(r)
             \/ AccountLimit(r) \/ SendCap(r) \/ Cooldown(r) \/ Resend(r) \/ Addressee(r)
    BY <1>1, <2>4 DEF ResetRound, CountFailure, LockKey, ClearFailures, ClearAfterReset, AccountLimit,
       SendCap, Consume, Cooldown, Resend, Addressee, signInVars, adminVars
  <2>5. ASSUME NEW k \in Token \cup {None}, AssertNotLocked(r, k) PROVE Accounts'
    BY <1>1, <2>5 DEF AssertNotLocked, signInVars, adminVars
  <2>6. ASSUME NEW right \in BOOLEAN, CompareSecret(r, right) \/ CheckCode(r, right) PROVE Accounts'
    BY <1>1, <2>6 DEF CompareSecret, CheckCode, signInVars, adminVars
  <2>7. CASE \/ DropOldCodes(r) \/ InsertCode(r) \/ MailCode(r) \/ RemoveUnsent(r)
             \/ FindCode(r) \/ CountAttempt(r) \/ ConsumeCode(r) \/ FindStaff(r)
    BY <1>1, <2>7 DEF DropOldCodes, InsertCode, MailCode, RemoveUnsent, FindCode,
       CountAttempt, ConsumeCode, FindStaff, signInVars, adminVars
  <2>8. CASE LoadGrant(r) \/ FindInvite(r) \/ LoadRevoke(r) \/ DropCodes(r)
    BY <1>1, <2>8 DEF LoadGrant, FindInvite, LoadRevoke, DropCodes, signInVars, adminVars
  <2> QED BY <1>2, <2>1, <2>2, <2>3, <2>4, <2>5, <2>6, <2>7, <2>8 DEF SignInStep
<1>3. CASE Clock
  BY <1>1, <1>3 DEF Clock, LockEnds, CleanLockout, WindowPasses, CleanWindow, CodeAges, CleanCode,
     adminVars
<1> QED BY <1>1, <1>2, <1>3 DEF Next, SessionOnly, vars, signInVars, adminVars

(* Lockouts, windows, codes, what requests remember and the admin accounts  *)
(* keep their types (lockout.service.ts, adminAuth.service.ts), and of      *)
(* finitely many requests each counts one failure at most.                  *)
THEOREM SignInTyped ==
  ASSUME IsFiniteSet(Request)
  PROVE  Spec => []TypeOK
<1>1. Init => Keys /\ Minds /\ Accounts
  <2> SUFFICES ASSUME Init PROVE Keys /\ Minds /\ Accounts
    OBVIOUS
  <2>1. IsFiniteSet(Leavers)
    BY FS_Subset DEF Leavers
  <2>2. 0 <= Cardinality(Leavers)
    BY <2>1, FS_CardinalityType
  <2>3. NoLock \in KeyDoc /\ NoLock.failed = 0
    BY SignInConstants DEF NoLock, KeyDoc
  <2>4. Keys
    BY <2>2, <2>3 DEF Init, Keys
  <2>5. \A r \in Request : req[r].at = "start"
    BY DEF Init, SessionInit, Begin
  <2>6. Minds
    BY <2>5, SignInConstants DEF Init, Minds
  <2>7. Accounts
    BY DEF Init, Accounts
  <2> QED BY <2>4, <2>6, <2>7
<1>2. Keys /\ Minds /\ Accounts /\ Typed /\ Memory /\ Codes /\ [Next]_vars => (Keys /\ Minds /\ Accounts)'
  BY StepKeys, StepMinds, StepAccounts
<1>3. Keys /\ Minds /\ Accounts /\ Typed /\ Memory /\ Codes /\ Windows => TypeOK
  <2> SUFFICES ASSUME Keys, Minds, Accounts, Typed, Memory, Codes, Windows PROVE TypeOK
    OBVIOUS
  <2> DEFINE bound == Threshold + Cardinality(Request)
  <2>1. \A u \in User : lock[u].failed \in 0 .. bound
    <3>1. Cardinality(Leavers) <= Cardinality(Request) /\ Cardinality(Leavers) \in Nat
          /\ Cardinality(Request) \in Nat
      BY FS_Subset, FS_CardinalityType DEF Leavers
    <3>2. \A u \in User : lock[u].failed \in Nat /\ lock[u].failed <= Cardinality(Leavers)
      BY DEF Keys, KeyDoc
    <3> QED BY <3>1, <3>2, SignInConstants
  <2> HIDE DEF bound
  <2>2. lock \in [User -> [failed : 0 .. bound, until : {"none", "future", "past"}, strikes : 0 .. MaxStrikes]]
    BY <2>1 DEF Keys, KeyDoc
  <2>3. SessionTypeOK
    BY DEF Typed
  <2>4. window \in [Limit -> [User -> [count : Nat, reset : {"absent", "future", "past"}]]]
    BY DEF Windows, WindowDoc
  <2>5. code \in [Code -> [state : {"unused", "pending", "consumed", "gone"},
                           user : User \cup {None}, attempts : 0 .. MaxAttempts,
                           age : {"new", "old", "expired"}]]
    BY DEF Codes, CodesTyped, CodeDoc
  <2>6. \A r \in Request : /\ mem[r].code \in Code \cup {None} /\ mem[r].nth \in 0 .. MaxAttempts
                           /\ mem[r].snap \in BOOLEAN \cup {None}
    BY DEF Minds, Memory, Remembers
  <2> QED BY <2>2, <2>3, <2>4, <2>5, <2>6 DEF TypeOK, Accounts, bound
<1> QED BY <1>1, <1>2, <1>3, SpecImplements, CodesHold, WindowsStay, PTL DEF Spec

=============================================================================
