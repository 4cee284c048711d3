--------------------------- MODULE SessionsProofs ---------------------------
(***************************************************************************)
(* Proofs about Sessions, for any number of users, tokens and requests:    *)
(* types, one live token per session, ended sessions stay ended, and       *)
(* revoked access tokens stay refused.                                     *)
(***************************************************************************)
EXTENDS Sessions, TLAPS

-----------------------------------------------------------------------------
(* Types                                                                   *)

(* The statements that work on a token know it, and its family.            *)
Bound(q) ==
  /\ q.at \in {"owner", "claim"} => q.tok \in Token
  /\ q.at \in {"owner", "claim", "burn"} => q.fam \in Token

Typed == SessionTypeOK /\ \A r \in Request : Bound(req[r])

(* The sessions and the requests a workload starts with are well formed.   *)
LEMMA InitTyped == SessionInit => Typed
<1> SUFFICES ASSUME SessionInit PROVE Typed
  OBVIOUS
<1>1. PICK w \in Workload : Begin(w)
  BY DEF SessionInit
<1>2. user \in [User -> UserDoc]
  BY AccountType DEF SessionInit, UserDoc
<1>3. token \in [Token -> TokenDoc]
  BY <1>1, WorkloadType DEF Begin, TokenDoc, Session, Audience
<1>4. access \subseteq AccessDoc
  BY <1>1, WorkloadType DEF Begin, AccessDoc, Session, Audience
<1>5. req \in [Request -> ReqDoc]
  BY <1>1, WorkloadType DEF Begin, ReqDoc, Job, Audience, Statement
<1>6. \A r \in Request : Bound(req[r])
  BY <1>1 DEF Begin, Bound
<1> QED BY <1>2, <1>3, <1>4, <1>5, <1>6 DEF Typed, SessionTypeOK, SessionInit

(* A request moves on: the new request is typed and bound.                *)
LEMMA MoveTyped ==
  ASSUME Typed, NEW r \in Request, NEW q \in ReqDoc, Bound(q),
         req' = [req EXCEPT ![r] = q]
  PROVE  /\ req' \in [Request -> ReqDoc]
         /\ \A s \in Request : Bound(req'[s])
BY DEF Typed, SessionTypeOK

(* A statement that needs no token, or one after a claim, changes nothing  *)
(* else in the request.                                                    *)
LEMMA GotoTyped ==
  ASSUME Typed, NEW r \in Request, NEW at \in Statement, Goto(r, at),
         \/ at \notin {"owner", "claim", "burn"}
         \/ at = "burn" /\ req[r].at = "claim"
  PROVE  /\ req' \in [Request -> ReqDoc]
         /\ \A s \in Request : Bound(req'[s])
<1> DEFINE q == [req[r] EXCEPT !.at = at]
<1>1. q \in ReqDoc
  BY DEF Typed, SessionTypeOK, ReqDoc
<1>2. Bound(q)
  BY DEF Typed, SessionTypeOK, ReqDoc, Bound
<1>3. req' = [req EXCEPT ![r] = q]
  BY DEF Goto
<1> QED BY <1>1, <1>2, <1>3, MoveTyped

(* Revoking keeps the documents' schema, and ends families only.           *)
LEMMA RevokeTyped ==
  ASSUME Typed, NEW ks, NEW fs \in SUBSET Token, Revoke(ks, fs)
  PROVE  token' \in [Token -> TokenDoc] /\ ended' \subseteq Token
BY DEF Typed, SessionTypeOK, Revoke, TokenDoc, Live

(* A step of rotateRefreshToken or of a logout keeps the types.            *)
LEMMA RotationTyped ==
  ASSUME Typed, NEW r \in Request,
         \/ \E k \in Token : PresentToken(r, k) \/ Logout(r, k)
         \/ CheckOwner(r) \/ Claim(r) \/ Burn(r)
  PROVE  Typed'
<1>0. req[r] \in ReqDoc /\ req[r].user \in User
  BY DEF Typed, SessionTypeOK, ReqDoc
<1>1. ASSUME NEW k \in Token, PresentToken(r, k) PROVE Typed'
  <2> DEFINE at == IF Live(k) /\ ~(token[k].aud = "admin" /\ k \in idle)
                   THEN "owner" ELSE "burn"
             q == [req[r] EXCEPT !.tok = k, !.fam = token[k].fam,
                                 !.aud = token[k].aud, !.at = at]
  <2>1. at \in {"owner", "burn"}
    OBVIOUS
  <2>2. req' = [req EXCEPT ![r] = q]
    BY <1>1 DEF PresentToken
  <2>3. token[k].fam \in Token /\ token[k].aud \in Audience
    BY DEF Typed, SessionTypeOK, TokenDoc
  <2> HIDE DEF at
  <2>4. q \in ReqDoc /\ Bound(q)
    BY <1>0, <2>1, <2>3 DEF ReqDoc, Statement, Critical, Bound
  <2>5. req' \in [Request -> ReqDoc] /\ \A s \in Request : Bound(req'[s])
    BY <2>2, <2>4, MoveTyped
  <2> QED BY <1>1, <2>5 DEF Typed, SessionTypeOK, PresentToken, history
<1>2. ASSUME NEW k \in Token, Logout(r, k) PROVE Typed'
  <2> DEFINE q == [req[r] EXCEPT !.tok = k, !.fam = token[k].fam,
                                 !.aud = token[k].aud, !.at = "burn"]
  <2>1. req' = [req EXCEPT ![r] = q]
    BY <1>2 DEF Logout
  <2>2. q \in ReqDoc /\ Bound(q)
    BY ZenonT(30), <1>0 DEF Typed, SessionTypeOK, TokenDoc, ReqDoc, Statement, Critical, Bound
  <2>3. req' \in [Request -> ReqDoc] /\ \A s \in Request : Bound(req'[s])
    BY <2>1, <2>2, MoveTyped
  <2> QED BY <1>2, <2>3 DEF Typed, SessionTypeOK, Logout, history
<1>3. CASE CheckOwner(r)
  <2> DEFINE at == IF MayHold(req[r].user, req[r].aud) THEN "claim" ELSE "burn"
             q == [req[r] EXCEPT !.tv = user[req[r].user].tv, !.at = at]
  <2>1. at \in {"claim", "burn"}
    OBVIOUS
  <2>2. req' = [req EXCEPT ![r] = q]
    BY <1>3 DEF CheckOwner
  <2>3. user[req[r].user].tv \in Nat
    BY <1>0 DEF Typed, SessionTypeOK, UserDoc
  <2>4. req[r].tok \in Token /\ req[r].fam \in Token
    BY <1>3 DEF Typed, Bound, CheckOwner
  <2> HIDE DEF at
  <2>5. q \in ReqDoc /\ Bound(q)
    BY <1>0, <2>1, <2>3, <2>4 DEF ReqDoc, Statement, Critical, Bound
  <2>6. req' \in [Request -> ReqDoc] /\ \A s \in Request : Bound(req'[s])
    BY <2>2, <2>5, MoveTyped
  <2> QED BY <1>3, <2>6 DEF Typed, SessionTypeOK, CheckOwner, history
<1>4. CASE Claim(r)
  <2>1. token' \in [Token -> TokenDoc]
    BY <1>4 DEF Typed, SessionTypeOK, Claim, TokenDoc
  <2>2. PICK at \in {"create", "burn"} : Goto(r, at)
    BY <1>4 DEF Claim
  <2>3. req' \in [Request -> ReqDoc] /\ \A s \in Request : Bound(req'[s])
    BY <1>4, <2>2, GotoTyped DEF Claim, Statement, Critical
  <2> QED BY <1>4, <2>1, <2>3 DEF Typed, SessionTypeOK, Claim, history
<1>5. CASE Burn(r)
  <2>1. {req[r].fam} \in SUBSET Token
    BY <1>5 DEF Typed, Bound, Burn
  <2>2. token' \in [Token -> TokenDoc] /\ ended' \subseteq Token
    BY <1>5, <2>1, RevokeTyped DEF Burn
  <2>3. req' \in [Request -> ReqDoc] /\ \A s \in Request : Bound(req'[s])
    BY <1>5, GotoTyped DEF Burn, Statement, Critical
  <2> QED BY <1>5, <2>2, <2>3 DEF Typed, SessionTypeOK, Burn
<1> QED BY <1>1, <1>2, <1>3, <1>4, <1>5

(* Inserting a token keeps the types.                                      *)
LEMMA CreateTyped ==
  ASSUME Typed, NEW r \in Request, Create(r)
  PROVE  Typed'
<1> DEFINE k == CHOOSE x \in Token : ~Issued(x)
           q == req[r]
<1>1. k \in Token
  BY DEF Create
<1>2. q \in ReqDoc
  BY DEF Typed, SessionTypeOK
<1> HIDE DEF k
<1>3. /\ token' = [token EXCEPT ![k] =
           [state |-> "live", user |-> q.user, aud |-> q.aud,
            fam |-> IF q.fam = None THEN k ELSE q.fam]]
      /\ access' = access \cup {[user |-> q.user, aud |-> q.aud, tv |-> q.tv]}
      /\ Goto(r, "done")
      /\ UNCHANGED <<user, idle, over, history>>
  BY DEF Create, k
<1>4. token' \in [Token -> TokenDoc]
  BY <1>1, <1>2, <1>3 DEF Typed, SessionTypeOK, TokenDoc, ReqDoc
<1>5. access' \subseteq AccessDoc
  BY <1>2, <1>3 DEF Typed, SessionTypeOK, AccessDoc, ReqDoc
<1>6. req' \in [Request -> ReqDoc] /\ \A s \in Request : Bound(req'[s])
  BY <1>3, GotoTyped DEF Statement
<1> QED BY <1>3, <1>4, <1>5, <1>6 DEF Typed, SessionTypeOK, history

(* PIN and password changes, resets and revocations keep the types.        *)
LEMMA RevocationTyped ==
  ASSUME Typed, NEW r \in Request,
         \/ SavePin(r) \/ FindKeep(r) \/ SweepOthers(r) \/ SavePassword(r)
         \/ Sweep(r) \/ Increment(r) \/ LoadReset(r) \/ SaveReset(r) \/ Crash(r)
  PROVE  Typed'
<1>0. req[r] \in ReqDoc /\ req[r].user \in User /\ req[r].tv \in Nat
  BY DEF Typed, SessionTypeOK, ReqDoc
<1>1. CASE SavePin(r)
  <2> DEFINE n == req[r].tv + 1
             q == [req[r] EXCEPT !.tv = n, !.at = "findKeep"]
  <2>1. req' = [req EXCEPT ![r] = q]
    BY <1>1 DEF SavePin
  <2>2. n \in Nat
    BY <1>0
  <2> HIDE DEF n
  <2>3. q \in ReqDoc /\ Bound(q)
    BY ZenonT(30), <1>0, <2>2 DEF ReqDoc, Statement, Critical, Bound
  <2>4. req' \in [Request -> ReqDoc] /\ \A s \in Request : Bound(req'[s])
    BY <2>1, <2>3, MoveTyped
  <2>5. user' \in [User -> UserDoc]
    BY <1>0, <1>1 DEF Typed, SessionTypeOK, SavePin, UserDoc
  <2> QED BY <1>0, <1>1, <2>4, <2>5 DEF Typed, SessionTypeOK, SavePin, Bump
<1>2. CASE FindKeep(r)
  BY ZenonT(30), <1>0, <1>2 DEF Typed, SessionTypeOK, Bound, FindKeep, ReqDoc, Statement, Critical, TokenDoc, history
<1>3. CASE SweepOthers(r)
  <2>1. token' \in [Token -> TokenDoc] /\ ended' \subseteq Token
    BY <1>3, RevokeTyped DEF SweepOthers, FamiliesOf
  <2>2. req' \in [Request -> ReqDoc] /\ \A s \in Request : Bound(req'[s])
    BY <1>3, GotoTyped DEF SweepOthers, Statement, Critical
  <2>3. access' \subseteq AccessDoc
    BY <1>0, <1>3 DEF Typed, SessionTypeOK, SweepOthers, AccessDoc, Audience
  <2> QED BY <1>3, <2>1, <2>2, <2>3 DEF Typed, SessionTypeOK, SweepOthers
<1>4. CASE SavePassword(r)
  <2>1. req' \in [Request -> ReqDoc] /\ \A s \in Request : Bound(req'[s])
    BY <1>4, GotoTyped DEF SavePassword, Statement, Critical
  <2> DEFINE n == req[r].tv + 1
             d == [user[req[r].user] EXCEPT !.tv = n, !.secret = TRUE]
  <2>2. user' = [user EXCEPT ![req[r].user] = d]
    BY <1>4 DEF SavePassword
  <2>3. n \in Nat
    BY <1>0
  <2> HIDE DEF n
  <2>4. d \in UserDoc
    BY <1>0, <2>3 DEF Typed, SessionTypeOK, UserDoc
  <2> HIDE DEF d
  <2>5. user' \in [User -> UserDoc]
    BY <2>2, <2>4 DEF Typed, SessionTypeOK
  <2> QED BY <1>0, <1>4, <2>1, <2>5 DEF Typed, SessionTypeOK, SavePassword, Bump
<1>5. CASE Sweep(r)
  <2>1. token' \in [Token -> TokenDoc] /\ ended' \subseteq Token
    BY <1>5, RevokeTyped DEF Sweep, FamiliesOf
  <2>2. req' \in [Request -> ReqDoc] /\ \A s \in Request : Bound(req'[s])
    BY <1>5, GotoTyped DEF Sweep, Statement, Critical
  <2> QED BY <1>5, <2>1, <2>2 DEF Typed, SessionTypeOK, Sweep
<1>6. CASE Increment(r)
  <2>1. req' \in [Request -> ReqDoc] /\ \A s \in Request : Bound(req'[s])
    BY <1>6, GotoTyped DEF Increment, AfterRevokeAll, Statement
  <2> QED BY <1>0, <1>6, <2>1 DEF Typed, SessionTypeOK, Increment, Raised, UserDoc
<1>7. CASE LoadReset(r)
  <2>1. req' \in [Request -> ReqDoc] /\ \A s \in Request : Bound(req'[s])
    BY <1>7, GotoTyped DEF LoadReset, Statement, Critical
  <2> QED BY <1>7, <2>1 DEF Typed, SessionTypeOK, LoadReset, history
<1>8. CASE SaveReset(r)
  <2>1. req' \in [Request -> ReqDoc] /\ \A s \in Request : Bound(req'[s])
    BY <1>8, GotoTyped DEF SaveReset, Statement, Critical
  <2> QED BY ZenonT(30), <1>0, <1>8, <2>1 DEF Typed, SessionTypeOK, SaveReset, UserDoc, history
<1>9. CASE Crash(r)
  <2>1. req' \in [Request -> ReqDoc] /\ \A s \in Request : Bound(req'[s])
    BY <1>9, GotoTyped DEF Crash, Statement, Critical
  <2> QED BY <1>9, <2>1 DEF Typed, SessionTypeOK, Crash, history
<1> QED BY <1>1, <1>2, <1>3, <1>4, <1>5, <1>6, <1>7, <1>8, <1>9

(* Time, the cron and the other services keep the types.                   *)
LEMMA OthersTyped ==
  ASSUME Typed, Time \/ \E r \in Request : Elsewhere(r)
  PROVE  Typed'
<1>1. CASE Time
  BY SMTT(30), <1>1 DEF Typed, SessionTypeOK, Time, TokenIdles, SessionExpires,
              CleanTokens, TokenDoc, history
<1>2. ASSUME NEW r \in Request, Elsewhere(r) PROVE Typed'
  BY <1>2 DEF Typed, SessionTypeOK, Bound, Elsewhere, Critical, history
<1> QED BY <1>1, <1>2

LEMMA StepTyped == Typed /\ [SessionNext]_sessionVars => Typed'
<1> SUFFICES ASSUME Typed, [SessionNext]_sessionVars PROVE Typed'
  OBVIOUS
<1>1. CASE UNCHANGED sessionVars
  BY <1>1 DEF Typed, SessionTypeOK, sessionVars
<1>2. ASSUME NEW r \in Request, SessionStep(r) PROVE Typed'
  BY <1>2, RotationTyped, CreateTyped, RevocationTyped DEF SessionStep
<1>3. CASE Time \/ \E r \in Request : Elsewhere(r)
  BY <1>3, OthersTyped
<1> QED BY <1>1, <1>2, <1>3 DEF SessionNext

(* Documents, tokens and requests keep their schema, whatever runs.        *)
THEOREM SessionsTyped == SessionSpec => []SessionTypeOK
<1>1. SessionSpec => []Typed
  BY InitTyped, StepTyped, PTL DEF SessionSpec
<1>2. Typed => SessionTypeOK
  BY DEF Typed
<1> QED BY <1>1, <1>2, PTL

-----------------------------------------------------------------------------
(* Families.  A family is named after its first token; the request that    *)
(* has claimed the live token of a family is the only one to insert the    *)
(* next, and nobody inserts into a family that has ended.                  *)

Root(f) == f \in Token /\ Issued(f) /\ token[f].fam = f

Holds(q) ==
  /\ q.at \in {"owner", "claim"} => Issued(q.tok) /\ token[q.tok].fam = q.fam
  /\ q.at \in {"owner", "claim", "burn"} \/ (q.at = "create" /\ q.fam # None)
       => Root(q.fam) /\ token[q.fam].user = q.user

Rooted ==
  \A k \in Token : Issued(k) => /\ Root(token[k].fam)
                                /\ token[k].user = token[token[k].fam].user

SoleInserter ==
  \A r \in Request : req[r].at = "create" /\ req[r].fam # None =>
    /\ \A k \in Token : Live(k) => token[k].fam # req[r].fam
    /\ \A s \in Request : req[s].at = "create" /\ req[s].fam = req[r].fam => s = r

EndedAreRoots == \A f \in ended : Root(f) /\ ~Inserting(f)

Families ==
  /\ Rooted
  /\ \A r \in Request : Holds(req[r])
  /\ SoleInserter
  /\ EndedAreRoots
  /\ OneLiveToken
  /\ EndedStaysEnded

(* The sessions at the start are families of one token.                    *)
LEMMA InitFamilies == SessionInit => Families
<1> SUFFICES ASSUME SessionInit PROVE Families
  OBVIOUS
<1>1. PICK w \in Workload : Begin(w)
  BY DEF SessionInit
<1>2. \A k \in Token : token[k].fam = k
  BY <1>1 DEF Begin
<1>3. \A r \in Request : req[r].at = "start"
  BY <1>1 DEF Begin
<1>4. ended = {}
  BY DEF SessionInit
<1> QED BY <1>2, <1>3, <1>4 DEF Families, Rooted, Root, Holds, SoleInserter,
           EndedAreRoots, OneLiveToken, EndedStaysEnded, Live

(* Tokens only lose their life: what most statements do at most.           *)
Fade ==
  \A k \in Token : /\ token'[k].fam = token[k].fam
                   /\ token'[k].user = token[k].user
                   /\ Issued(k)' <=> Issued(k)
                   /\ Live(k)' => Live(k)

(* What a request may have become without inserting a token: it inserts    *)
(* next for a new family, or for the family whose live token it claimed.   *)
Claimed(r) ==
  /\ req[r].at = "claim" /\ req'[r].fam = req[r].fam
  /\ Live(req[r].tok) /\ token'[req[r].tok].state # "live"

LEMMA FadeFamilies ==
  ASSUME Typed, Typed', Families, Fade, NEW r,
         \A s \in Request : s # r => req'[s] = req[s],
         r \in Request =>
           \/ req'[r] = req[r]
           \/ /\ Holds(req[r])'
              /\ req'[r].at = "create" => req'[r].fam = None \/ Claimed(r),
         \/ ended' = ended
         \/ /\ r \in Request => req'[r].at # "create"
            /\ \A f \in ended' \ ended :
                 /\ Root(f) /\ ~Inserting(f)
                 /\ \A k \in Token : Live(k)' => token[k].fam # f
  PROVE  Families'
<1>1. Rooted'
  BY DEF Families, Fade, Rooted, Root, Typed, SessionTypeOK, TokenDoc
<1>2. \A f : Root(f) => Root(f)' /\ token'[f].user = token[f].user
  BY DEF Fade, Root
<1>3. \A s \in Request : Holds(req[s])'
  <2> SUFFICES ASSUME NEW s \in Request PROVE Holds(req[s])'
    OBVIOUS
  <2>1. CASE req'[s] = req[s]
    <3>1. req[s].at \in {"owner", "claim"} => req[s].tok \in Token
      BY DEF Typed, Bound
    <3>2. Holds(req[s])
      BY DEF Families
    <3> QED BY <1>2, <2>1, <3>1, <3>2 DEF Holds, Fade
  <2>2. CASE req'[s] # req[s]
    BY <2>2
  <2> QED BY <2>1, <2>2
<1>4. SoleInserter'
  <2> SUFFICES ASSUME NEW s \in Request, req'[s].at = "create", req'[s].fam # None
               PROVE  /\ \A k \in Token : Live(k)' => token'[k].fam # req'[s].fam
                      /\ \A t \in Request :
                           req'[t].at = "create" /\ req'[t].fam = req'[s].fam => t = s
    BY DEF SoleInserter
  <2>1. \A t \in Request : req'[t].at = "create" /\ req'[t].fam # None =>
          \/ req'[t] = req[t]
          \/ t = r /\ Claimed(r)
    <3> SUFFICES ASSUME NEW t \in Request, req'[t].at = "create",
                        req'[t].fam # None, req'[t] # req[t]
                 PROVE  t = r /\ Claimed(r)
      OBVIOUS
    <3>1. t = r
      OBVIOUS
    <3>2. req'[r].at = "create" => req'[r].fam = None \/ Claimed(r)
      BY <3>1
    <3> QED BY <3>1, <3>2
  <2>2. ASSUME r \in Request, Claimed(r)
        PROVE  /\ \A k \in Token : Live(k)' => token'[k].fam # req'[r].fam
               /\ \A t \in Request :
                    req[t].at = "create" => req[t].fam # req'[r].fam
    <3>1. /\ req[r].tok \in Token /\ Live(req[r].tok)
          /\ token[req[r].tok].fam = req'[r].fam
          /\ req'[r].fam \in Token
      BY <2>2 DEF Claimed, Families, Holds, Typed, Bound
    <3>2. \A k \in Token : Live(k)' => token'[k].fam # req'[r].fam
      BY <2>2, <3>1 DEF Claimed, Families, OneLiveToken, Fade, Live
    <3>3. \A t \in Request : req[t].at = "create" => req[t].fam # req'[r].fam
      BY <3>1, NoneIsNoToken DEF Families, SoleInserter
    <3> QED BY <3>2, <3>3
  <2>3. CASE req'[s] = req[s]
    <3>1. \A k \in Token : Live(k)' => token'[k].fam # req'[s].fam
      BY <2>3 DEF Families, SoleInserter, Fade
    <3>2. ASSUME NEW t \in Request, req'[t].at = "create", req'[t].fam = req'[s].fam
          PROVE  t = s
      BY <2>1, <2>2, <2>3, <3>2 DEF Families, SoleInserter
    <3> QED BY <3>1, <3>2
  <2>4. CASE req'[s] # req[s]
    <3>1. s = r /\ Claimed(r)
      BY <2>1, <2>4
    <3>2. ASSUME NEW t \in Request, req'[t].at = "create", req'[t].fam = req'[s].fam
          PROVE  t = s
      BY <2>1, <2>2, <3>1, <3>2
    <3> QED BY <2>2, <3>1, <3>2
  <2> QED BY <2>3, <2>4
<1>5. EndedAreRoots' /\ EndedStaysEnded'
  <2>1. ASSUME NEW f \in ended', NEW s \in Request, req'[s].at = "create"
        PROVE  req'[s].fam # f
    <3>0. f \in Token
      BY DEF Typed, SessionTypeOK
    <3>1. CASE req'[s] = req[s]
      BY <2>1, <3>1 DEF Families, EndedAreRoots, Inserting
    <3>2. CASE req'[s] # req[s]
      <4>1. s = r /\ ended' = ended
        BY <2>1, <3>2
      <4>2. CASE req'[s].fam = None
        BY <3>0, <4>2, NoneIsNoToken
      <4>3. CASE Claimed(r)
        BY <4>1, <4>3 DEF Claimed, Families, Holds, EndedStaysEnded, Typed, Bound
      <4> QED BY <2>1, <3>2, <4>1, <4>2, <4>3
    <3> QED BY <3>1, <3>2
  <2>2. \A f \in ended' : Root(f)'
    BY <1>2 DEF Families, EndedAreRoots
  <2>3. \A k \in Token : Live(k)' => token'[k].fam \notin ended'
    BY DEF Families, EndedStaysEnded, Fade
  <2> QED BY <2>1, <2>2, <2>3 DEF EndedAreRoots, EndedStaysEnded, Inserting
<1>6. OneLiveToken'
  BY DEF Families, OneLiveToken, Fade
<1> QED BY <1>1, <1>3, <1>4, <1>5, <1>6 DEF Families

(* Inserting a token: nobody else inserts into its family, and no token of *)
(* the family is live.                                                     *)
LEMMA CreateFamilies ==
  ASSUME Typed, Typed', Families, NEW r \in Request, Create(r)
  PROVE  Families'
<1> DEFINE k == CHOOSE x \in Token : ~Issued(x)
           q == req[r]
           f == IF q.fam = None THEN k ELSE q.fam
<1>1. k \in Token /\ ~Issued(k)
  BY DEF Create
<1>2. /\ q.at = "create"
      /\ token' = [token EXCEPT ![k] =
           [state |-> "live", user |-> q.user, aud |-> q.aud, fam |-> f]]
      /\ req' = [req EXCEPT ![r].at = "done"]
      /\ ended' = ended
  BY DEF Create, Goto, history
<1> HIDE DEF k
<1>3. /\ token'[k].state = "live" /\ token'[k].user = q.user /\ token'[k].fam = f
      /\ \A j \in Token : j # k => token'[j] = token[j]
  BY <1>1, <1>2 DEF Typed, SessionTypeOK
<1>4. /\ req'[r].at = "done"
      /\ \A s \in Request : s # r => req'[s] = req[s]
  BY <1>2 DEF Typed, SessionTypeOK, ReqDoc
<1>5. \A g : Root(g) => g # k /\ Root(g)' /\ token'[g].user = token[g].user
  BY <1>1, <1>3 DEF Root, Issued
<1>6. q.fam # None => Root(q.fam) /\ token[q.fam].user = q.user
  BY <1>2 DEF Families, Holds
<1>7. /\ f \in Token /\ token'[f].state # "unused" /\ token'[f].fam = f
      /\ token'[f].user = q.user
  <2>1. CASE q.fam = None
    BY <1>1, <1>3, <2>1 DEF Root, Issued
  <2>2. CASE q.fam # None
    <3>1. f = q.fam /\ f # k /\ f \in Token
      BY <1>5, <1>6, <2>2 DEF Root
    <3>2. token'[f] = token[f]
      BY <1>3, <3>1
    <3> QED BY <1>6, <2>2, <3>1, <3>2 DEF Root, Issued
  <2> QED BY <2>1, <2>2
<1>8. Rooted'
  <2> SUFFICES ASSUME NEW j \in Token, Issued(j)'
               PROVE  /\ Root(token[j].fam)'
                      /\ token'[j].user = token'[token'[j].fam].user
    BY DEF Rooted
  <2>1. CASE j = k
    <3>1. token'[j].fam = f /\ token'[j].user = q.user
      BY <1>3, <2>1
    <3> HIDE DEF f
    <3> QED BY <1>7, <3>1 DEF Root, Issued
  <2>2. CASE j # k
    <3>1. token'[j] = token[j] /\ Issued(j)
      BY <1>3, <2>2 DEF Issued
    <3>2. Root(token[j].fam) /\ token[j].user = token[token[j].fam].user
      BY <3>1 DEF Families, Rooted
    <3>3. Root(token[j].fam)'
      BY <1>5, <3>1, <3>2 DEF Root, Issued
    <3> QED BY <1>5, <3>1, <3>2, <3>3
  <2> QED BY <2>1, <2>2
<1>9. \A s \in Request : Holds(req[s])'
  <2> SUFFICES ASSUME NEW s \in Request PROVE Holds(req[s])'
    OBVIOUS
  <2>1. CASE s = r
    BY <1>4, <2>1 DEF Holds
  <2>2. CASE s # r
    <3>1. req'[s] = req[s] /\ Holds(req[s])
      BY <1>4, <2>2 DEF Families
    <3>2. req[s].at \in {"owner", "claim"} => req[s].tok \in Token
      BY DEF Typed, Bound
    <3> QED BY <1>1, <1>3, <1>5, <3>1, <3>2 DEF Holds, Issued
  <2> QED BY <2>1, <2>2
<1>10. ASSUME NEW s \in Request, req'[s].at = "create", req'[s].fam # None
       PROVE  s # r /\ req[s] = req'[s] /\ Root(req[s].fam) /\ req[s].fam # f
  <2>1. s # r /\ req[s] = req'[s]
    BY <1>4, <1>10
  <2>2. Root(req[s].fam)
    BY <1>10, <2>1 DEF Families, Holds
  <2>3. req[s].fam # f
    BY <1>2, <1>5, <1>10, <2>1, <2>2 DEF Families, SoleInserter
  <2> QED BY <2>1, <2>2, <2>3
<1>11. SoleInserter'
  BY <1>3, <1>10 DEF Families, SoleInserter, Live
<1>12. \A g \in ended : g # f
  BY <1>2, <1>5 DEF Families, EndedAreRoots, Inserting
<1>13. EndedAreRoots'
  <2>1. ASSUME NEW g \in ended', NEW s \in Request, req'[s].at = "create"
        PROVE  req'[s].fam # g
    BY <1>2, <1>4, <2>1 DEF Families, EndedAreRoots, Inserting
  <2> QED BY <1>2, <1>5, <2>1 DEF Families, EndedAreRoots, Inserting
<1>14. EndedStaysEnded'
  BY <1>2, <1>3, <1>12 DEF Families, EndedStaysEnded, Live
<1>15. \A j \in Token : Live(j) => token[j].fam # f
  BY <1>1, <1>2 DEF Families, Rooted, Root, SoleInserter, Live, Issued
<1>16. OneLiveToken'
  BY <1>3, <1>15 DEF Families, OneLiveToken, Live
<1> QED BY <1>8, <1>9, <1>11, <1>13, <1>14, <1>16 DEF Families

(* Revoking the tokens of a set of families ends each of them.             *)
LEMMA RevokeFades ==
  ASSUME Typed, Families, NEW ks, NEW fs, Revoke(ks, fs),
         \A f \in fs : Root(f),
         \A f \in fs, k \in Token : Live(k) /\ token[k].fam = f => k \in ks
  PROVE  /\ Fade
         /\ \A f \in ended' \ ended :
              /\ Root(f) /\ ~Inserting(f)
              /\ \A k \in Token : Live(k)' => token[k].fam # f
<1>1. \A k \in Token :
        token'[k] = IF k \in ks /\ Live(k) THEN [token[k] EXCEPT !.state = "revoked"]
                    ELSE token[k]
  BY DEF Revoke
<1>2. \A k \in Token : token[k] \in TokenDoc
  BY DEF Typed, SessionTypeOK
<1>3. Fade
  <2> SUFFICES ASSUME NEW k \in Token
               PROVE  /\ token'[k].fam = token[k].fam
                      /\ token'[k].user = token[k].user
                      /\ Issued(k)' <=> Issued(k)
                      /\ Live(k)' => Live(k)
    BY DEF Fade
  <2>1. CASE k \in ks /\ Live(k)
    BY <1>1, <1>2, <2>1 DEF TokenDoc, Issued, Live
  <2>2. CASE ~(k \in ks /\ Live(k))
    BY <1>1, <2>2 DEF Issued, Live
  <2> QED BY <2>1, <2>2
<1>4. \A k \in Token : Live(k)' => Live(k) /\ k \notin ks
  BY <1>1, <1>2 DEF TokenDoc, Live
<1> QED BY <1>3, <1>4 DEF Revoke

(* Most statements only move the request to one that holds no claim.       *)
LEMMA PlainStepFamilies ==
  ASSUME Typed, Typed', Families, NEW r \in Request,
         \/ SavePin(r) \/ FindKeep(r) \/ SavePassword(r) \/ Increment(r)
         \/ LoadReset(r) \/ SaveReset(r) \/ Crash(r)
  PROVE  Families'
<1>1. /\ token' = token /\ ended' = ended
      /\ \A s \in Request : s # r => req'[s] = req[s]
      /\ req'[r].at \notin {"owner", "claim", "burn", "create"}
  <2>0. req[r] \in ReqDoc
    BY DEF Typed, SessionTypeOK
  <2>1. CASE SavePin(r)
    BY <2>0, <2>1 DEF Typed, SessionTypeOK, SavePin, ReqDoc
  <2>2. CASE FindKeep(r)
    BY <2>0, <2>2 DEF Typed, SessionTypeOK, FindKeep, ReqDoc, history
  <2>3. CASE SavePassword(r)
    BY <2>0, <2>3 DEF Typed, SessionTypeOK, SavePassword, Goto, ReqDoc
  <2>4. CASE Increment(r)
    BY <2>0, <2>4 DEF Typed, SessionTypeOK, Increment, AfterRevokeAll, Goto, ReqDoc
  <2>5. CASE LoadReset(r)
    BY <2>0, <2>5 DEF Typed, SessionTypeOK, LoadReset, Goto, ReqDoc, history
  <2>6. CASE SaveReset(r)
    BY <2>0, <2>6 DEF Typed, SessionTypeOK, SaveReset, Goto, ReqDoc, history
  <2>7. CASE Crash(r)
    BY <2>0, <2>7 DEF Typed, SessionTypeOK, Crash, Goto, ReqDoc, history
  <2> QED BY <2>1, <2>2, <2>3, <2>4, <2>5, <2>6, <2>7
<1>2. Fade
  BY <1>1 DEF Fade, Issued, Live
<1>3. Holds(req[r])'
  BY <1>1 DEF Holds
<1> QED BY <1>1, <1>2, <1>3, FadeFamilies

(* rotateRefreshToken up to the claim, and a logout.                       *)
LEMMA RotationFamilies ==
  ASSUME Typed, Typed', Families, NEW r \in Request,
         \/ \E k \in Token : PresentToken(r, k) \/ Logout(r, k)
         \/ CheckOwner(r) \/ Claim(r)
  PROVE  Families'
<1>0. req[r] \in ReqDoc
  BY DEF Typed, SessionTypeOK
<1>1. ASSUME NEW k \in Token, PresentToken(r, k) \/ Logout(r, k) PROVE Families'
  <2>1. /\ token' = token /\ ended' = ended
        /\ \A s \in Request : s # r => req'[s] = req[s]
        /\ req'[r].at \in {"owner", "burn"} /\ req'[r].user = req[r].user
        /\ req'[r].tok = k /\ req'[r].fam = token[k].fam
    <3>1. CASE PresentToken(r, k)
      BY <1>0, <3>1 DEF Typed, SessionTypeOK, PresentToken, ReqDoc, history
    <3>2. CASE Logout(r, k)
      BY <1>0, <3>2 DEF Typed, SessionTypeOK, Logout, ReqDoc, history
    <3> QED BY <1>1, <3>1, <3>2
  <2>2. Issued(k) /\ token[k].user = req[r].user
    BY <1>1 DEF PresentToken, Logout, Issued
  <2>3. Root(token[k].fam) /\ token[token[k].fam].user = req[r].user
    BY <2>2 DEF Families, Rooted
  <2>4. Fade
    BY <2>1 DEF Fade, Issued, Live
  <2>5. Holds(req[r])'
    BY <2>1, <2>2, <2>3 DEF Holds, Root, Issued
  <2> QED BY <2>1, <2>4, <2>5, FadeFamilies
<1>2. CASE CheckOwner(r)
  <2>1. /\ token' = token /\ ended' = ended
        /\ \A s \in Request : s # r => req'[s] = req[s]
        /\ req[r].at = "owner" /\ req'[r].at \in {"claim", "burn"}
        /\ req'[r].user = req[r].user
        /\ req'[r].tok = req[r].tok /\ req'[r].fam = req[r].fam
    BY <1>0, <1>2 DEF Typed, SessionTypeOK, CheckOwner, ReqDoc, history
  <2>2. Fade
    BY <2>1 DEF Fade, Issued, Live
  <2>3. Holds(req[r])
    BY DEF Families
  <2>4. Holds(req[r])'
    BY <2>1, <2>3 DEF Holds, Root, Issued
  <2> QED BY <2>1, <2>2, <2>4, FadeFamilies
<1>3. CASE Claim(r)
  <2>1. /\ ended' = ended
        /\ \A s \in Request : s # r => req'[s] = req[s]
        /\ req[r].at = "claim" /\ req'[r].at \in {"create", "burn"}
        /\ req'[r].user = req[r].user
        /\ req'[r].tok = req[r].tok /\ req'[r].fam = req[r].fam
    BY <1>0, <1>3 DEF Typed, SessionTypeOK, Claim, Goto, ReqDoc, history
  <2>2. req[r].tok \in Token
    BY <2>1 DEF Typed, Bound
  <2>3. Holds(req[r])
    BY DEF Families
  <2>4. CASE Live(req[r].tok)
    <3>1. token' = [token EXCEPT ![req[r].tok].state = "revoked"]
      BY <1>3, <2>4 DEF Claim, Claimable
    <3>2. \A k \in Token : token[k] \in TokenDoc
      BY DEF Typed, SessionTypeOK
    <3>3. /\ token'[req[r].tok] = [token[req[r].tok] EXCEPT !.state = "revoked"]
          /\ \A k \in Token : k # req[r].tok => token'[k] = token[k]
      BY <2>2, <3>1 DEF Typed, SessionTypeOK
    <3>4. /\ token'[req[r].tok].state = "revoked"
          /\ token'[req[r].tok].fam = token[req[r].tok].fam
          /\ token'[req[r].tok].user = token[req[r].tok].user
      BY <2>2, <3>2, <3>3 DEF TokenDoc
    <3>5. Fade
      BY <2>4, <3>3, <3>4 DEF Fade, Issued, Live
    <3>6. Holds(req[r])'
      BY <2>1, <2>3, <3>5 DEF Holds, Root, Fade, Issued
    <3>7. Claimed(r)
      BY <2>1, <2>4, <3>4 DEF Claimed
    <3> QED BY <2>1, <3>5, <3>6, <3>7, FadeFamilies
  <2>5. CASE ~Live(req[r].tok)
    <3>1. token' = token /\ req'[r].at = "burn"
      BY <1>0, <1>3, <2>5 DEF Claim, Claimable, Goto, Typed, SessionTypeOK, ReqDoc
    <3>2. Fade
      BY <3>1 DEF Fade, Issued, Live
    <3>3. Holds(req[r])'
      BY <2>1, <2>3, <3>1 DEF Holds, Root, Issued
    <3> QED BY <2>1, <3>1, <3>2, <3>3, FadeFamilies
  <2> QED BY <2>4, <2>5
<1> QED BY <1>1, <1>2, <1>3

(* Burning a family, and the sweeps of a user's families.                  *)
LEMMA SweepFamilies ==
  ASSUME Typed, Typed', Families, NEW r \in Request,
         Burn(r) \/ Sweep(r) \/ SweepOthers(r)
  PROVE  Families'
<1>1. PICK ks, fs : /\ Revoke(ks, fs)
                    /\ \A f \in fs : Root(f)
                    /\ \A f \in fs, k \in Token :
                         Live(k) /\ token[k].fam = f => k \in ks
  <2>1. CASE Burn(r)
    <3>1. Root(req[r].fam)
      BY <2>1 DEF Burn, Families, Holds
    <3> QED BY <2>1, <3>1 DEF Burn, FamilyOf, Issued, Live
  <2>2. CASE Sweep(r)
    <3>1. \A f \in FamiliesOf(req[r].user) : Root(f) /\ token[f].user = req[r].user
      BY DEF FamiliesOf, Root
    <3>2. \A f \in FamiliesOf(req[r].user), k \in Token :
            Live(k) /\ token[k].fam = f => k \in TokensOf(req[r].user)
      BY <3>1 DEF Families, Rooted, TokensOf, Issued, Live
    <3> QED BY <2>2, <3>1, <3>2 DEF Sweep
  <2>3. CASE SweepOthers(r)
    <3> DEFINE fs == FamiliesOf(req[r].user) \ {req[r].fam}
               ks == {k \in TokensOf(req[r].user) : token[k].fam # req[r].fam}
    <3>1. \A f \in fs : Root(f) /\ token[f].user = req[r].user
      BY DEF FamiliesOf, Root
    <3>2. \A f \in fs, k \in Token : Live(k) /\ token[k].fam = f => k \in ks
      BY <3>1 DEF Families, Rooted, TokensOf, Issued, Live
    <3>3. Revoke(ks, fs)
      BY <2>3 DEF SweepOthers
    <3> HIDE DEF ks, fs
    <3> QED BY <3>1, <3>2, <3>3
  <2> QED BY <2>1, <2>2, <2>3
<1>2. /\ Fade
      /\ \A f \in ended' \ ended :
           /\ Root(f) /\ ~Inserting(f)
           /\ \A k \in Token : Live(k)' => token[k].fam # f
  BY <1>1, RevokeFades
<1>3. /\ \A s \in Request : s # r => req'[s] = req[s]
      /\ req'[r].at \in {"done", "bump"}
  BY DEF Burn, Sweep, SweepOthers, Goto, Typed, SessionTypeOK, ReqDoc
<1>4. Holds(req[r])'
  BY <1>3 DEF Holds
<1> QED BY <1>2, <1>3, <1>4, FadeFamilies

(* Time, the cron and the other services end no family and start none.     *)
LEMMA OthersFamilies ==
  ASSUME Typed, Typed', Families, Time \/ \E r \in Request : Elsewhere(r)
  PROVE  Families'
<1>1. CASE Time
  <2>1. req' = req /\ ended' = ended
    BY <1>1 DEF Time, TokenIdles, SessionExpires, CleanTokens, history
  <2>2. Fade
    <3>1. CASE token' = token
      BY <3>1 DEF Fade, Issued, Live
    <3>2. CASE CleanTokens
      <4>1. \A k \in Token :
              token'[k] = IF Issued(k) /\ token[k].fam \in over
                          THEN [token[k] EXCEPT !.state = "deleted"] ELSE token[k]
        BY <3>2 DEF CleanTokens
      <4>2. \A k \in Token : token[k] \in TokenDoc
        BY DEF Typed, SessionTypeOK
      <4> QED BY <4>1, <4>2 DEF Fade, Issued, Live, TokenDoc
    <3> QED BY <1>1, <3>1, <3>2 DEF Time, TokenIdles, SessionExpires
  <2> QED BY <2>1, <2>2, FadeFamilies
<1>2. ASSUME NEW r \in Request, Elsewhere(r) PROVE Families'
  <2>1. /\ token' = token /\ ended' = ended
        /\ \A s \in Request : s # r => req'[s] = req[s]
        /\ req'[r].at \notin {"owner", "claim", "burn"}
        /\ req'[r].at = "create" => req'[r].fam = None
    BY <1>2 DEF Elsewhere, Critical, Typed, SessionTypeOK, history
  <2>2. Fade
    BY <2>1 DEF Fade, Issued, Live
  <2>3. Holds(req[r])'
    BY <2>1 DEF Holds
  <2> QED BY <2>1, <2>2, <2>3, FadeFamilies
<1> QED BY <1>1, <1>2

LEMMA StepFamilies ==
  Typed /\ Typed' /\ Families /\ [SessionNext]_sessionVars => Families'
<1> SUFFICES ASSUME Typed, Typed', Families, [SessionNext]_sessionVars
             PROVE  Families'
  OBVIOUS
<1>1. CASE UNCHANGED sessionVars
  BY <1>1 DEF sessionVars, Families, Rooted, Root, Holds, SoleInserter,
              EndedAreRoots, Inserting, OneLiveToken, EndedStaysEnded, Issued, Live
<1>2. ASSUME NEW r \in Request, SessionStep(r) PROVE Families'
  BY <1>2, PlainStepFamilies, RotationFamilies, SweepFamilies, CreateFamilies
     DEF SessionStep
<1>3. CASE Time \/ \E r \in Request : Elsewhere(r)
  BY <1>3, OthersFamilies
<1> QED BY <1>1, <1>2, <1>3 DEF SessionNext

LEMMA SpecFamilies == SessionSpec => [](Typed /\ Families)
<1>1. SessionInit => Typed /\ Families
  BY InitTyped, InitFamilies
<1>2. Typed /\ Families /\ [SessionNext]_sessionVars => Typed' /\ Families'
  BY StepTyped, StepFamilies
<1> QED BY <1>1, <1>2, PTL DEF SessionSpec

(* A session has one live refresh token at most, however many requests     *)
(* refresh, replay and end it (rotateRefreshToken).                        *)
THEOREM SessionsHaveOneToken == SessionSpec => []OneLiveToken
<1>1. Families => OneLiveToken
  BY DEF Families
<1> QED BY <1>1, SpecFamilies, PTL

(* No token is live in a session that was ended (revokeFamily, the sweeps  *)
(* of a PIN change, a reset and a revocation).                             *)
THEOREM SessionsStayEnded == SessionSpec => []EndedStaysEnded
<1>1. Families => EndedStaysEnded
  BY DEF Families
<1> QED BY <1>1, SpecFamilies, PTL

-----------------------------------------------------------------------------
(* Versions.  No token carries, and no request will sign or save, a later  *)
(* tokenVersion than its user has, unless a stale save put the user's back.*)

NoLater(u, n) == u \in clobbered \/ n <= user[u].tv

(* The statements whose request holds a tokenVersion it has read.          *)
Signing == {"claim", "create", "savePin", "findKeep", "sweepOthers", "savePassword"}

Versions ==
  /\ \A a \in access : NoLater(a.user, a.tv)
  /\ \A r \in Request : req[r].at \in Signing => NoLater(req[r].user, req[r].tv)
  /\ \A a \in killed : a.user \in clobbered \/ a.tv < user[a.user].tv

LEMMA InitVersions == SessionInit => Versions
<1> SUFFICES ASSUME SessionInit PROVE Versions
  OBVIOUS
<1>1. PICK w \in Workload : Begin(w)
  BY DEF SessionInit
<1>2. \A u \in User : user[u].tv = 0
  BY DEF SessionInit
<1>3. \A a \in access : a.user \in User /\ a.tv = 0
  BY <1>1, WorkloadType DEF Begin, Session
<1>4. \A r \in Request : req[r].at = "start"
  BY <1>1 DEF Begin
<1>5. killed = {}
  BY DEF SessionInit
<1> QED BY <1>2, <1>3, <1>4, <1>5 DEF Versions, NoLater, Signing

(* What a step of a request does to versions: it lowers none but a         *)
(* clobbered user's, and the tokens it kills are those it outdates.        *)
Rises ==
  /\ clobbered \subseteq clobbered'
  /\ \A u \in User : u \in clobbered' \/ user[u].tv <= user'[u].tv
  /\ \A a \in killed' \ killed :
       a \in access /\ (a.user \in clobbered' \/ user[a.user].tv < user'[a.user].tv)

LEMMA RisingVersions ==
  ASSUME Typed, Typed', Versions, Rises, NEW r \in Request,
         \A a \in access' \ access : NoLater(a.user, a.tv)',
         \A s \in Request : s # r => req'[s] = req[s],
         req'[r].at \in Signing => NoLater(req[r].user, req[r].tv)'
  PROVE  Versions'
<1>1. /\ \A u \in User : user[u].tv \in Nat /\ user'[u].tv \in Nat
      /\ \A a \in access \cup access' \cup killed \cup killed' :
           a.user \in User /\ a.tv \in Nat
      /\ \A s \in Request : req[s].user \in User /\ req[s].tv \in Nat
  BY DEF Typed, SessionTypeOK, UserDoc, AccessDoc, ReqDoc
<1>2. ASSUME NEW u \in User, NEW n \in Nat, NoLater(u, n) PROVE NoLater(u, n)'
  BY <1>1, <1>2 DEF NoLater, Rises
<1>3. \A a \in access' : NoLater(a.user, a.tv)'
  <2> TAKE a \in access'
  <2>1. CASE a \in access
    <3>1. NoLater(a.user, a.tv)
      BY <2>1 DEF Versions
    <3> QED BY <1>1, <2>1, <3>1 DEF NoLater, Rises
  <2> QED BY <2>1
<1>4. \A s \in Request : req'[s].at \in Signing => NoLater(req[s].user, req[s].tv)'
  <2> TAKE s \in Request
  <2>1. CASE s # r
    <3>1. req'[s] = req[s]
      BY <2>1
    <3>2. req[s].at \in Signing => NoLater(req[s].user, req[s].tv)
      BY DEF Versions
    <3> QED BY <1>1, <3>1, <3>2 DEF NoLater, Rises
  <2> QED BY <2>1
<1>5. \A a \in killed' : a.user \in clobbered' \/ a.tv < user'[a.user].tv
  <2> TAKE a \in killed'
  <2>1. CASE a \in killed
    <3>1. a.user \in clobbered \/ a.tv < user[a.user].tv
      BY <2>1 DEF Versions
    <3> QED BY <1>1, <3>1 DEF Rises
  <2>2. CASE a \notin killed
    <3>1. /\ a \in access
          /\ a.user \in clobbered' \/ user[a.user].tv < user'[a.user].tv
      BY <2>2 DEF Rises
    <3>2. NoLater(a.user, a.tv)
      BY <3>1 DEF Versions
    <3> QED BY <1>1, <3>1, <3>2 DEF NoLater, Rises
  <2> QED BY <2>1, <2>2
<1> QED BY <1>3, <1>4, <1>5 DEF Versions, Signing

(* A step that writes no version and signs nothing.                        *)
LEMMA PlainVersions ==
  ASSUME Typed, Typed', Versions, NEW r \in Request,
         UNCHANGED <<access, killed, clobbered>>,
         \A u \in User : user'[u].tv = user[u].tv,
         \A s \in Request : s # r => req'[s] = req[s],
         req'[r].at \in Signing => NoLater(req[r].user, req[r].tv)'
  PROVE  Versions'
<1>1. \A u \in User : user[u].tv \in Nat
  BY DEF Typed, SessionTypeOK, UserDoc
<1>2. Rises
  BY <1>1 DEF Rises
<1> QED BY <1>2, RisingVersions

(* The statements of a rotation, a logout and a reset, and those that end  *)
(* families: a rotation reads the version it will sign.                    *)
LEMMA ReadersVersions ==
  ASSUME Typed, Typed', Versions, NEW r \in Request,
         \/ \E k \in Token : PresentToken(r, k) \/ Logout(r, k)
         \/ CheckOwner(r) \/ Claim(r) \/ Burn(r) \/ FindKeep(r) \/ Sweep(r)
         \/ LoadReset(r) \/ SaveReset(r) \/ Crash(r)
  PROVE  Versions'
<1>0. /\ req[r] \in ReqDoc /\ req'[r] \in ReqDoc
      /\ req[r].user \in User /\ user[req[r].user].tv \in Nat
  BY DEF Typed, SessionTypeOK, ReqDoc, UserDoc
<1>1. /\ UNCHANGED <<access, killed, clobbered>>
      /\ \A s \in Request : s # r => req'[s] = req[s]
  BY DEF PresentToken, Logout, CheckOwner, Claim, Burn, FindKeep, Sweep, LoadReset,
         SaveReset, Crash, Goto, history, Typed, SessionTypeOK
<1>2. \A u \in User : user'[u].tv = user[u].tv
  <2>1. CASE SaveReset(r)
    BY <1>0, <2>1 DEF SaveReset, Typed, SessionTypeOK, UserDoc
  <2>2. CASE user' = user
    BY <2>2
  <2> QED BY <2>1, <2>2 DEF PresentToken, Logout, CheckOwner, Claim, Burn,
             FindKeep, Sweep, LoadReset, Crash
<1>3. req[r].at \in Signing => NoLater(req[r].user, req[r].tv)
  BY DEF Versions
<1>4. req'[r].at \in Signing => NoLater(req[r].user, req[r].tv)'
  <2>1. CASE CheckOwner(r)
    <3>1. /\ req'[r].user = req[r].user /\ req'[r].tv = user[req[r].user].tv
          /\ user' = user
      BY <1>0, <2>1 DEF CheckOwner, Typed, SessionTypeOK, ReqDoc
    <3> QED BY <1>0, <3>1 DEF NoLater
  <2>2. CASE Claim(r)
    <3>1. req[r].at = "claim" /\ req'[r].user = req[r].user /\ req'[r].tv = req[r].tv
      BY <1>0, <2>2 DEF Claim, Goto, Typed, SessionTypeOK, ReqDoc
    <3> QED BY <1>0, <1>1, <1>2, <1>3, <3>1 DEF NoLater, Signing
  <2>3. CASE FindKeep(r)
    <3>1. req[r].at = "findKeep" /\ req'[r].user = req[r].user /\ req'[r].tv = req[r].tv
      BY <1>0, <2>3 DEF FindKeep, Typed, SessionTypeOK, ReqDoc
    <3> QED BY <1>0, <1>1, <1>2, <1>3, <3>1 DEF NoLater, Signing
  <2>4. ASSUME NEW k \in Token, PresentToken(r, k) PROVE req'[r].at \notin Signing
    BY <1>0, <2>4 DEF PresentToken, Typed, SessionTypeOK, ReqDoc, Signing
  <2>5. ASSUME NEW k \in Token, Logout(r, k) PROVE req'[r].at \notin Signing
    BY <1>0, <2>5 DEF Logout, Typed, SessionTypeOK, ReqDoc, Signing
  <2>6. CASE Burn(r) \/ Sweep(r) \/ LoadReset(r) \/ SaveReset(r) \/ Crash(r)
    BY <1>0, <2>6 DEF Burn, Sweep, LoadReset, SaveReset, Crash, Goto, Typed,
                      SessionTypeOK, ReqDoc, Signing
  <2> QED BY <2>1, <2>2, <2>3, <2>4, <2>5, <2>6
<1> QED BY <1>1, <1>2, <1>4, PlainVersions

(* New access tokens carry the version their request has read.             *)
LEMMA SignersVersions ==
  ASSUME Typed, Typed', Versions, NEW r \in Request, Create(r) \/ SweepOthers(r)
  PROVE  Versions'
<1>0. /\ req[r] \in ReqDoc /\ req[r].user \in User /\ req[r].tv \in Nat
      /\ \A u \in User : user[u].tv \in Nat
  BY DEF Typed, SessionTypeOK, ReqDoc, UserDoc
<1>1. PICK aud \in Audience :
        /\ access' = access \cup {[user |-> req[r].user, aud |-> aud, tv |-> req[r].tv]}
        /\ UNCHANGED <<user, killed, clobbered>> /\ Goto(r, "done")
        /\ req[r].at \in Signing
  <2>1. req[r].aud \in Audience
    BY <1>0 DEF ReqDoc
  <2> QED BY <2>1 DEF Create, SweepOthers, Audience, Signing, history
<1>2. NoLater(req[r].user, req[r].tv)
  BY <1>1 DEF Versions
<1>3. \A a \in access' \ access : NoLater(a.user, a.tv)'
  BY <1>1, <1>2 DEF NoLater
<1>4. /\ \A s \in Request : s # r => req'[s] = req[s]
      /\ req'[r].at = "done"
  BY <1>0, <1>1 DEF Goto, Typed, SessionTypeOK, ReqDoc
<1>5. Rises
  BY <1>0, <1>1 DEF Rises
<1> QED BY <1>3, <1>4, <1>5, RisingVersions DEF Signing

(* The three writes of tokenVersion: each outdates every access token of   *)
(* its user, or writes a version that is no later and clobbers it.         *)
LEMMA WritersVersions ==
  ASSUME Typed, Typed', Versions, NEW r \in Request,
         SavePin(r) \/ SavePassword(r) \/ Increment(r)
  PROVE  Versions'
<1>0. /\ req[r] \in ReqDoc /\ req[r].user \in User /\ req[r].tv \in Nat
      /\ user \in [User -> UserDoc] /\ \A v \in User : user[v].tv \in Nat
      /\ \A a \in access : a.user \in User
  BY DEF Typed, SessionTypeOK, ReqDoc, UserDoc, AccessDoc
<1> DEFINE u == req[r].user
<1>1. PICK n \in Nat :
        /\ user'[u].tv = n /\ \A v \in User : v # u => user'[v] = user[v]
        /\ killed' = killed \cup {a \in access : a.user = u}
        /\ clobbered' = IF n > user[u].tv THEN clobbered ELSE clobbered \cup {u}
  <2>1. CASE SavePin(r)
    <3>1. req[r].tv + 1 \in Nat
      BY <1>0
    <3> QED BY <1>0, <2>1, <3>1 DEF SavePin, Bump, UserDoc
  <2>2. CASE SavePassword(r)
    <3>1. req[r].tv + 1 \in Nat
      BY <1>0
    <3> QED BY <1>0, <2>2, <3>1 DEF SavePassword, Bump, UserDoc
  <2>3. CASE Increment(r)
    <3>1. user[u].tv + 1 \in Nat /\ user[u].tv + 1 > user[u].tv
      BY <1>0
    <3> QED BY <1>0, <2>3, <3>1 DEF Increment, Raised, UserDoc
  <2> QED BY <2>1, <2>2, <2>3
<1>2. Rises
  BY <1>0, <1>1 DEF Rises
<1>3. /\ \A s \in Request : s # r => req'[s] = req[s]
      /\ req'[r].at \in Signing => SavePin(r)
  BY <1>0 DEF SavePin, SavePassword, Increment, Goto, AfterRevokeAll, Signing,
              Typed, SessionTypeOK, ReqDoc
<1>4. access' = access
  BY DEF SavePin, SavePassword, Increment
<1>5. ASSUME SavePin(r) PROVE NoLater(req[r].user, req[r].tv)'
  <2>1. req'[r].user = u /\ req'[r].tv = req[r].tv + 1
    BY <1>0, <1>5 DEF SavePin, Typed, SessionTypeOK, ReqDoc
  <2>2. user'[u].tv = req[r].tv + 1
    BY <1>0, <1>5 DEF SavePin, UserDoc
  <2> QED BY <1>0, <2>1, <2>2 DEF NoLater
<1> QED BY <1>2, <1>3, <1>4, <1>5, RisingVersions

LEMMA StepVersions ==
  Typed /\ Typed' /\ Versions /\ [SessionNext]_sessionVars => Versions'
<1> SUFFICES ASSUME Typed, Typed', Versions, [SessionNext]_sessionVars
             PROVE  Versions'
  OBVIOUS
<1>1. CASE UNCHANGED <<user, access, req, killed, clobbered>>
  BY <1>1 DEF Versions, NoLater
<1>2. ASSUME NEW r \in Request, SessionStep(r) PROVE Versions'
  BY <1>2, ReadersVersions, SignersVersions, WritersVersions DEF SessionStep
<1>3. ASSUME NEW r \in Request, Elsewhere(r) PROVE Versions'
  <2>1. /\ UNCHANGED <<access, killed, clobbered>>
        /\ \A u \in User : user'[u].tv = user[u].tv
        /\ \A s \in Request : s # r => req'[s] = req[s]
    BY <1>3 DEF Elsewhere, Typed, SessionTypeOK, history
  <2>2. req'[r].at \in Signing => NoLater(req[r].user, req[r].tv)'
    <3>1. req'[r].user \in User
      BY DEF Typed, SessionTypeOK, ReqDoc
    <3> QED BY <1>3, <2>1, <3>1 DEF Elsewhere, Critical, Signing, NoLater
  <2> QED BY <2>1, <2>2, PlainVersions
<1>4. CASE Time
  BY <1>1, <1>4 DEF Time, TokenIdles, SessionExpires, CleanTokens, history
<1>5. CASE UNCHANGED sessionVars
  BY <1>1, <1>5 DEF sessionVars
<1> QED BY <1>2, <1>3, <1>4, <1>5 DEF SessionNext

(* "Instant revocation": an access token outstanding when its user's       *)
(* tokenVersion was set (PIN change, setPassword, revokeAllForUser) is     *)
(* never accepted again, unless a save of an older document lowered or     *)
(* repeated the version.                                                   *)
THEOREM KilledTokensStayKilled == SessionSpec => []KilledStaysKilled
<1>1. SessionInit => Typed /\ Versions
  BY InitTyped, InitVersions
<1>2. Typed /\ Versions /\ [SessionNext]_sessionVars => Typed' /\ Versions'
  BY StepTyped, StepVersions
<1>3. Typed /\ Versions => KilledStaysKilled
  <2> SUFFICES ASSUME Typed, Versions, NEW a \in killed, a.user \notin clobbered
               PROVE  ~Accepted(a)
    BY DEF KilledStaysKilled
  <2>1. a.tv < user[a.user].tv
    BY DEF Versions
  <2>2. a.tv \in Nat /\ user[a.user].tv \in Nat
    BY DEF Typed, SessionTypeOK, AccessDoc, UserDoc
  <2> QED BY <2>1, <2>2 DEF Accepted
<1> QED BY <1>1, <1>2, <1>3, PTL DEF SessionSpec

=============================================================================
