------------------------------ MODULE Sessions ------------------------------
(***************************************************************************)
(* token.service.ts and the requests that end sessions: refresh tokens     *)
(* rotate within a family, access tokens carry the tokenVersion of the     *)
(* user they were signed for, and a password or PIN change, a reset or a   *)
(* revocation ends what a user holds.                                      *)
(*                                                                         *)
(* Requests run concurrently, one statement of MongoDB at a time.  The     *)
(* services of SignIn share the users and the requests; Elsewhere is all   *)
(* that this module relies on about their steps.                           *)
(***************************************************************************)
EXTENDS Integers, FiniteSets

CONSTANTS
  User, Token, Request, None,
  Account,   \* the users at the start: role, active, secret
  Workload,  \* what the requests ask for, and the sessions at the start
  Ageing,    \* tokens that may outlive the idle time or their session
  Killable   \* requests that may be killed

VARIABLES
  user,      \* users: role, active, tv (tokenVersion), secret (a hash is set)
  token,     \* refresh tokens: state, user, fam, aud
  idle,      \* tokens issued longer ago than the admin idle time
  over,      \* families whose session has reached its maximum
  access,    \* access tokens issued: user, aud, tv
  req,       \* requests: kind, at, user, aud, tok, fam, tv
  ended,     \* history: families ended while none of their refreshes inserted
  killed,    \* history: access tokens outstanding when tokenVersion was set
  clobbered  \* history: users whose tokenVersion a stale write did not raise

sessionVars == <<user, token, idle, over, access, req, ended, killed, clobbered>>
history     == <<ended, killed, clobbered>>

Role     == {"customer", "admin", "super_admin", "absent", "deleted"}
Audience == {"customer", "admin"}
Kind     == {"refresh", "login", "logout", "pin", "reset", "verify", "adminLogin",
             "resend", "grant", "setPassword", "revoke", "none"}
Job      == [kind : Kind, user : User]
Session  == [user : User, aud : Audience]

(* Statements of this module; a request between others may hold no claim. *)
Critical == {"owner", "claim", "burn", "create", "savePin", "findKeep",
             "sweepOthers", "savePassword", "sweep", "bump"}

(* Every statement a request may be at, those of SignIn included. *)
Statement ==
  Critical \cup {"start", "done", "crashed", "saveReset", "dropCodes", "clearLock",
               "limit", "lock", "compare", "failed", "clear", "cooldown", "cap",
               "dropOld", "insertCode", "mailCode", "unsend", "newest", "attempt",
               "count", "check", "consume", "staff", "addressee", "saveGrant",
               "mailInvite", "rollback", "saveRevoke"}

ASSUME NoneIsNoToken == None \notin Token
ASSUME AccountType ==
  Account \in [User -> [role : Role, active : BOOLEAN, secret : BOOLEAN]]
ASSUME WorkloadType ==
  \A w \in Workload :
    /\ w.job \in [Request -> Job]
    /\ DOMAIN w.opened \subseteq Token
    /\ \A k \in DOMAIN w.opened : w.opened[k] \in Session

TokenDoc  == [state : {"unused", "live", "revoked", "deleted"},
              user : User \cup {None}, fam : Token, aud : Audience]
UserDoc   == [role : Role, active : BOOLEAN, tv : Nat, secret : BOOLEAN]
AccessDoc == [user : User, aud : Audience, tv : Nat]
ReqDoc    == [kind : Kind, at : Statement, user : User, aud : Audience,
              tok : Token \cup {None}, fam : Token \cup {None}, tv : Nat]

-----------------------------------------------------------------------------
(* Tokens and families *)

Issued(k) == token[k].state # "unused"
Live(k)   == token[k].state = "live"

(* A refresh of the family has claimed its token and not inserted the next. *)
Inserting(f) == \E r \in Request : req[r].at = "create" /\ req[r].fam = f

(* The live tokens among ks are revoked, to end the families fs. *)
Revoke(ks, fs) ==
  /\ token' = [k \in Token |->
                 IF k \in ks /\ Live(k) THEN [token[k] EXCEPT !.state = "revoked"]
                 ELSE token[k]]
  /\ ended' = ended \cup {f \in fs : ~Inserting(f)}

FamiliesOf(u)   == {f \in Token : Issued(f) /\ token[f].fam = f /\ token[f].user = u}

FamilyOf(f)     == {k \in Token : Issued(k) /\ token[k].fam = f}

(* Mutant of TokensOf: only the customer's sessions are swept. *)
TokensOfAudience(u) ==
  {k \in Token : Issued(k) /\ token[k].user = u /\ token[k].aud = "customer"}

TokensOf(u)     == {k \in Token : Issued(k) /\ token[k].user = u}

Goto(r, at) == req' = [req EXCEPT ![r].at = at]

(* The role an audience asks for, as authenticate and the rotation read it. *)
MayHold(u, aud) ==
  /\ user[u].active
  /\ IF aud = "admin" THEN user[u].role \in {"admin", "super_admin"}
     ELSE user[u].role = "customer"

(* Mutant of Accepted: the version in the token is not compared. *)
AcceptedAnyVersion(a) == MayHold(a.user, a.aud)

(* authenticate: whether an access token is good for another request *)
Accepted(a) == MayHold(a.user, a.aud) /\ a.tv = user[a.user].tv

(* A new tokenVersion, by $inc or by save() of a loaded document: n. *)
Bump(u, n) ==
  /\ killed' = killed \cup {a \in access : a.user = u}
  /\ clobbered' = IF n > user[u].tv THEN clobbered ELSE clobbered \cup {u}

-----------------------------------------------------------------------------
(* rotateRefreshToken *)

(* The token is looked up.  Past the maximum its signature has expired too. *)
PresentToken(r, k) ==
  /\ req[r].at = "start" /\ req[r].kind = "refresh"
  /\ token[k].state \in {"live", "revoked"}
  /\ token[k].user = req[r].user /\ token[k].fam \notin over
  /\ req' = [req EXCEPT ![r] =
       [@ EXCEPT !.tok = k, !.fam = token[k].fam, !.aud = token[k].aud,
          !.at = IF Live(k) /\ ~(token[k].aud = "admin" /\ k \in idle)
                 THEN "owner" ELSE "burn"]]
  /\ UNCHANGED <<user, token, idle, over, access, history>>

(* The user is read; the access token will be signed from this document. *)
CheckOwner(r) ==
  LET q == req[r]
  IN  /\ q.at = "owner"
      /\ req' = [req EXCEPT ![r] =
           [@ EXCEPT !.tv = user[q.user].tv,
              !.at = IF MayHold(q.user, q.aud) THEN "claim" ELSE "burn"]]
      /\ UNCHANGED <<user, token, idle, over, access, history>>

(* Mutant of Claimable: the claim does not ask for revokedAt null. *)
ClaimableAlways(k) == TRUE

(* The filter of the claim. *)
Claimable(k) == Live(k)

(* One request can claim a token; the other burns the family. *)
Claim(r) ==
  LET k == req[r].tok
  IN  /\ req[r].at = "claim"
      /\ IF Claimable(k)
         THEN /\ token' = [token EXCEPT ![k].state = "revoked"]
              /\ Goto(r, "create")
         ELSE UNCHANGED token /\ Goto(r, "burn")
      /\ UNCHANGED <<user, idle, over, access, history>>

Burn(r) ==
  /\ req[r].at = "burn" /\ Revoke(FamilyOf(req[r].fam), {req[r].fam}) /\ Goto(r, "done")
  /\ UNCHANGED <<user, idle, over, access, killed, clobbered>>

(* createRefresh, for a rotation or for a new session (issueSession), and   *)
(* signAccessToken from the user document the request has loaded.  Ids are  *)
(* random: a token or family that has not been issued.                      *)
Create(r) ==
  LET q == req[r]
      k == CHOOSE x \in Token : ~Issued(x)
  IN  /\ q.at = "create" /\ \E x \in Token : ~Issued(x)
      /\ token' = [token EXCEPT ![k] =
           [state |-> "live", user |-> q.user, aud |-> q.aud,
            fam |-> IF q.fam = None THEN k ELSE q.fam]]
      /\ access' = access \cup {[user |-> q.user, aud |-> q.aud, tv |-> q.tv]}
      /\ Goto(r, "done")
      /\ UNCHANGED <<user, idle, over, history>>

(* revokeByRawToken: logout *)
Logout(r, k) ==
  /\ req[r].at = "start" /\ req[r].kind = "logout"
  /\ token[k].state \in {"live", "revoked"} /\ token[k].user = req[r].user
  /\ req' = [req EXCEPT ![r] =
       [@ EXCEPT !.tok = k, !.fam = token[k].fam, !.aud = token[k].aud, !.at = "burn"]]
  /\ UNCHANGED <<user, token, idle, over, access, history>>

-----------------------------------------------------------------------------
(* changeCustomerPin, from the save on; the document was loaded before. *)

(* tokenVersion is written as the loaded value plus one. *)
SavePin(r) ==
  LET u == req[r].user  n == req[r].tv + 1
  IN  /\ req[r].at = "savePin"
      /\ user' = [user EXCEPT ![u].tv = n]
      /\ Bump(u, n)
      /\ req' = [req EXCEPT ![r] = [@ EXCEPT !.tv = n, !.at = "findKeep"]]
      /\ UNCHANGED <<token, idle, over, access, ended>>

(* The caller's own family, if the token it sent is still live. *)
FindKeep(r) ==
  LET k == req[r].tok
  IN  /\ req[r].at = "findKeep"
      /\ req' = [req EXCEPT ![r] =
           [@ EXCEPT !.at = "sweepOthers",
              !.fam = IF k # None /\ Live(k) /\ token[k].user = req[r].user
                      THEN token[k].fam ELSE None]]
      /\ UNCHANGED <<user, token, idle, over, access, history>>

SweepOthers(r) ==
  LET q == req[r]
  IN  /\ q.at = "sweepOthers"
      /\ Revoke({k \in TokensOf(q.user) : token[k].fam # q.fam}, FamiliesOf(q.user) \ {q.fam})
      /\ access' = access \cup {[user |-> q.user, aud |-> "customer", tv |-> q.tv]}
      /\ Goto(r, "done")
      /\ UNCHANGED <<user, idle, over, killed, clobbered>>

(* setPassword, from the save on *)
SavePassword(r) ==
  LET u == req[r].user  n == req[r].tv + 1
  IN  /\ req[r].at = "savePassword"
      /\ user' = [user EXCEPT ![u] = [@ EXCEPT !.tv = n, !.secret = TRUE]]
      /\ Bump(u, n)
      /\ Goto(r, "done")
      /\ UNCHANGED <<token, idle, over, access, ended>>

(* revokeAllForUser: the sweep, then the increment *)
Sweep(r) ==
  /\ req[r].at = "sweep" /\ Revoke(TokensOf(req[r].user), FamiliesOf(req[r].user)) /\ Goto(r, "bump")
  /\ UNCHANGED <<user, idle, over, access, killed, clobbered>>

(* Mutant of Raised: the version only changes when a session was swept. *)
RaisedIfLive(u) ==
  IF \E k \in Token : Live(k) /\ token[k].user = u THEN user[u].tv + 1 ELSE user[u].tv

Raised(u) == user[u].tv + 1

(* After revokeAllForUser: revokeAccess drops codes, a reset clears locks. *)
AfterRevokeAll(r) == IF req[r].kind = "revoke" THEN "dropCodes" ELSE "clearLock"

Increment(r) ==
  LET u == req[r].user
  IN  /\ req[r].at = "bump"
      /\ user' = [user EXCEPT ![u].tv = Raised(u)]
      /\ killed' = killed \cup {a \in access : a.user = u}
      /\ Goto(r, AfterRevokeAll(r))
      /\ UNCHANGED <<token, idle, over, access, ended, clobbered>>

(* resetCustomerPin and seed-super-admin --reset-password: the hash is     *)
(* saved (a customer is activated too), then everything is revoked.        *)
LoadReset(r) ==
  /\ req[r].at = "start" /\ req[r].kind = "reset"
  /\ user[req[r].user].role \in {"customer", "super_admin"}
  /\ Goto(r, "saveReset")
  /\ UNCHANGED <<user, token, idle, over, access, history>>

SaveReset(r) ==
  LET u == req[r].user
  IN  /\ req[r].at = "saveReset"
      /\ user' = [user EXCEPT ![u].secret = TRUE,
                             ![u].active = @ \/ user[u].role # "super_admin"]
      /\ Goto(r, "sweep")
      /\ UNCHANGED <<token, idle, over, access, history>>

-----------------------------------------------------------------------------
(* Time, and the cleanup cron.  A killed request never goes on. *)

TokenIdles(k) ==
  /\ k \in Ageing /\ Live(k) /\ token[k].aud = "admin" /\ k \notin idle
  /\ idle' = idle \cup {k}
  /\ UNCHANGED <<user, token, over, access, req, history>>

SessionExpires(f) ==
  /\ f \in Ageing /\ Issued(f) /\ token[f].fam = f /\ f \notin over
  /\ over' = over \cup {f}
  /\ UNCHANGED <<user, token, idle, access, req, history>>

(* runCleanup deletes refresh tokens a day after they expired. *)
CleanTokens ==
  /\ \E k \in Token : Issued(k) /\ token[k].fam \in over /\ token[k].state # "deleted"
  /\ token' = [k \in Token |->
                 IF Issued(k) /\ token[k].fam \in over
                 THEN [token[k] EXCEPT !.state = "deleted"] ELSE token[k]]
  /\ UNCHANGED <<user, idle, over, access, req, history>>

Crash(r) ==
  /\ r \in Killable /\ req[r].at \notin {"start", "done", "crashed"}
  /\ Goto(r, "crashed")
  /\ UNCHANGED <<user, token, idle, over, access, history>>

SessionStep(r) ==
  \/ \E k \in Token : PresentToken(r, k) \/ Logout(r, k)
  \/ CheckOwner(r) \/ Claim(r) \/ Burn(r) \/ Create(r)
  \/ SavePin(r) \/ FindKeep(r) \/ SweepOthers(r) \/ SavePassword(r)
  \/ Sweep(r) \/ Increment(r) \/ LoadReset(r) \/ SaveReset(r)
  \/ Crash(r)

Time ==
  \/ \E k \in Token : TokenIdles(k) \/ SessionExpires(k)
  \/ CleanTokens

(* What the services outside this module may do: a request of theirs       *)
(* enters a statement of this module with the tokenVersion it has just     *)
(* read and no family, and no document's tokenVersion is written.          *)
Elsewhere(r) ==
  /\ req[r].at \notin Critical
  /\ req'[r] \in ReqDoc /\ req' = [req EXCEPT ![r] = req'[r]]
  /\ req'[r].at \in Critical =>
       /\ req'[r].at \in {"create", "savePin", "savePassword", "sweep"}
       /\ req'[r].fam = None
       /\ req'[r].tv <= user[req'[r].user].tv \/ req'[r].user \in clobbered
  /\ user' \in [User -> UserDoc]
  /\ \A u \in User : user'[u].tv = user[u].tv
  /\ UNCHANGED <<token, idle, over, access, history>>

-----------------------------------------------------------------------------
Begin(w) ==
  /\ token = [k \in Token |->
       IF k \in DOMAIN w.opened
       THEN [state |-> "live", user |-> w.opened[k].user, fam |-> k, aud |-> w.opened[k].aud]
       ELSE [state |-> "unused", user |-> None, fam |-> k, aud |-> "customer"]]
  /\ access = {[user |-> w.opened[k].user, aud |-> w.opened[k].aud, tv |-> 0] :
                 k \in DOMAIN w.opened}
  /\ req = [r \in Request |->
              [kind |-> w.job[r].kind, at |-> "start", user |-> w.job[r].user,
               aud |-> "customer", tok |-> None, fam |-> None, tv |-> 0]]

SessionInit ==
  /\ user = [u \in User |-> [role |-> Account[u].role, active |-> Account[u].active,
                             tv |-> 0, secret |-> Account[u].secret]]
  /\ \E w \in Workload : Begin(w)
  /\ idle = {} /\ over = {} /\ ended = {} /\ killed = {} /\ clobbered = {}

SessionNext == (\E r \in Request : SessionStep(r) \/ Elsewhere(r)) \/ Time
SessionSpec == SessionInit /\ [][SessionNext]_sessionVars

-----------------------------------------------------------------------------
SessionTypeOK ==
  /\ user \in [User -> UserDoc]
  /\ token \in [Token -> TokenDoc]
  /\ idle \subseteq Token /\ over \subseteq Token /\ ended \subseteq Token
  /\ access \subseteq AccessDoc /\ killed \subseteq access
  /\ req \in [Request -> ReqDoc]
  /\ clobbered \subseteq User

(* A session has one live refresh token at most, however its refreshes,    *)
(* replays and logouts overlap (rotateRefreshToken, token.service.ts:144).  *)
OneLiveToken ==
  \A j, k \in Token : Live(j) /\ Live(k) /\ token[j].fam = token[k].fam => j = k

(* A session that a logout, a replayed token, a PIN change, a reset or a    *)
(* revocation ended never has a live token again, unless a refresh that had *)
(* claimed its token was still to insert the next one.                      *)
EndedStaysEnded == \A k \in Token : Live(k) => token[k].fam \notin ended

(* "Instant revocation": an access token outstanding when its user's        *)
(* tokenVersion is set is refused from then on, whatever is saved later,    *)
(* unless a save of an older document put the version back.                 *)
KilledStaysKilled ==
  \A a \in killed : a.user \notin clobbered => ~Accepted(a)

=============================================================================
