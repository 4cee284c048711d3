--------------------------- MODULE SettingsProofs ---------------------------
(***************************************************************************)
(* Proofs about Settings and its Cache, for any number of requests,        *)
(* instances, sections and secrets: types, what explains a stale cached    *)
(* value, that a key change leaves every secret readable, and that racing  *)
(* updates act as if one after the other.                                  *)
(***************************************************************************)
EXTENDS Settings, TLAPS

-----------------------------------------------------------------------------
(* Types of the cache                                                      *)

ReqDoc == [kind : Kind, what : View \cup Source \cup {None},
           at : Place, val : Nat, todo : SUBSET Task]

(* What holds of a request q wherever it is, when the counts are n.        *)
Right(q, n) ==
  /\ q.kind = "read"  => q.what \in View
  /\ q.kind = "write" => q.what \in Source
  /\ q.at = "store"  => q.kind = "read" /\ q.val <= n[q.what]
  /\ q.at = "commit" => q.kind = "write"
  /\ q.todo # {} => q.at \in {"commit", "invalidate", "audit"}
  /\ \A t \in q.todo : t.cmd # "del" => t.view \in Indexed

CacheTyped ==
  /\ data \in [View -> Nat]
  /\ cached \in [View -> Nat \cup {None}]
  /\ \A v \in View : cached[v] # None => cached[v] <= data[v]
  /\ tracked \subseteq Indexed /\ cooling \subseteq Instance
  /\ req \in [Request -> ReqDoc]
  /\ \A r \in Request : Right(req[r], data)
  /\ excused \subseteq {v \in View : cached[v] # None}

LEMMA CacheTypeCorrect == CacheTyped => CacheTypeOK
BY DEF CacheTyped, CacheTypeOK, ReqDoc

LEMMA CacheInitTyped == CacheInit => CacheTyped
<1> SUFFICES ASSUME CacheInit PROVE CacheTyped
  OBVIOUS
<1>1. PICK w \in Workload :
        /\ cached = [v \in View |-> IF v \in w.warm THEN 0 ELSE None]
        /\ req = [r \in Request |-> [kind |-> w.job[r].kind, what |-> w.job[r].what,
                                     at |-> "start", val |-> 0, todo |-> {}]]
  BY DEF CacheInit
<1>2. req \in [Request -> ReqDoc]
  BY <1>1, CacheWorkload DEF ReqDoc, Job, Place
<1>3. \A r \in Request : Right(req[r], data)
  BY <1>1, CacheWorkload DEF Right
<1> QED BY <1>1, <1>2, <1>3 DEF CacheInit, CacheTyped

(* A request becomes q, and commits only ever raise the counts.            *)
LEMMA CacheMoves ==
  ASSUME CacheTyped, NEW r \in Request, NEW q \in ReqDoc, Right(q, data'),
         req' = [req EXCEPT ![r] = q],
         data' \in [View -> Nat], \A v \in View : data[v] <= data'[v],
         cached' \in [View -> Nat \cup {None}],
         \A v \in View : cached'[v] # None => cached'[v] <= data'[v],
         tracked' \subseteq Indexed, cooling' \subseteq Instance,
         excused' \subseteq {v \in View : cached'[v] # None}
  PROVE  CacheTyped'
<1>1. req' \in [Request -> ReqDoc]
  BY DEF CacheTyped
<1>2. \A s \in Request : Right(req'[s], data')
  <2> TAKE s \in Request
  <2>1. CASE s = r
    BY <2>1 DEF CacheTyped
  <2>2. CASE s # r
    <3>1. req'[s] = req[s] /\ Right(req[s], data) /\ req[s] \in ReqDoc
      BY <2>2 DEF CacheTyped
    <3>2. req[s].at = "store" => req[s].val <= data'[req[s].what]
      BY <3>1 DEF CacheTyped, Right, ReqDoc
    <3> QED BY <3>1, <3>2 DEF Right
  <2> QED BY <2>1, <2>2
<1> QED BY <1>1, <1>2 DEF CacheTyped

(* A request moves on and leaves the cache and the database alone.         *)
LEMMA CacheGoesOn ==
  ASSUME CacheTyped, NEW r \in Request, NEW q \in ReqDoc, Right(q, data'),
         req' = [req EXCEPT ![r] = q], UNCHANGED <<data, cached, tracked>>,
         cooling' \in {cooling, cooling \cup {Host[r]}},
         excused' \subseteq {v \in View : cached[v] # None}
  PROVE  CacheTyped'
<1>1. \A v \in View : data[v] <= data'[v]
  BY DEF CacheTyped
<1>2. Host[r] \in Instance
  BY HostType
<1> QED BY <1>1, <1>2, CacheMoves DEF CacheTyped

(* The statements of a read.                                               *)
LEMMA ReadTyped ==
  ASSUME CacheTyped, NEW r \in Request,
         Get(r) \/ Load(r) \/ Store(r) \/ ReadWithout(r)
  PROVE  CacheTyped'
<1>0. req[r] \in ReqDoc /\ Right(req[r], data) /\ req[r].kind = "read" /\ req[r].what \in View
  BY DEF CacheTyped, Right, Get, Load, Store, ReadWithout
<1>1. CASE Get(r) \/ ReadWithout(r)
  <2>1. PICK at \in {"done", "load"} : req' = [req EXCEPT ![r].at = at]
    BY <1>1 DEF Get, ReadWithout
  <2> DEFINE q == [req[r] EXCEPT !.at = at]
  <2>2. q \in ReqDoc /\ q.kind = "read" /\ q.what = req[r].what /\ q.at = at /\ q.todo = req[r].todo
    BY <1>0 DEF ReqDoc, Place
  <2>3. req' = [req EXCEPT ![r] = q]
    BY <2>1
  <2> HIDE DEF q
  <2>4. req[r].todo = {}
    BY <1>0, <1>1 DEF Right, Get, ReadWithout
  <2>5. Right(q, data')
    BY <1>0, <2>2, <2>4 DEF Right
  <2> QED BY <1>1, <2>2, <2>3, <2>5, CacheGoesOn DEF Get, ReadWithout, CacheTyped
<1>2. CASE Load(r)
  <2> DEFINE q == [req[r] EXCEPT !.val = data[req[r].what], !.at = "store"]
  <2>1. data[req[r].what] \in Nat
    BY <1>0 DEF CacheTyped
  <2>2. /\ q \in ReqDoc /\ q.kind = "read" /\ q.what = req[r].what /\ q.at = "store"
        /\ q.val = data[req[r].what] /\ q.todo = req[r].todo
    BY <1>0, <2>1 DEF ReqDoc, Place
  <2>3. req' = [req EXCEPT ![r] = q]
    BY <1>2 DEF Load
  <2> HIDE DEF q
  <2>4. req[r].todo = {} /\ data' = data
    BY <1>0, <1>2 DEF Right, Load
  <2>5. Right(q, data')
    BY <1>0, <2>1, <2>2, <2>4 DEF Right
  <2> QED BY <1>2, <2>2, <2>3, <2>5, CacheGoesOn DEF Load, CacheTyped
<1>3. CASE Store(r)
  <2> DEFINE q == [req[r] EXCEPT !.at = "done"]
             v == req[r].what
  <2>1. /\ q \in ReqDoc /\ q.kind = "read" /\ q.what = req[r].what /\ q.at = "done"
        /\ q.todo = req[r].todo
    BY <1>0 DEF ReqDoc, Place
  <2>2. req' = [req EXCEPT ![r] = q] /\ UNCHANGED <<data, cooling>>
    BY <1>3 DEF Store
  <2> HIDE DEF q
  <2>3. req[r].todo = {} /\ req[r].val <= data[v] /\ req[r].val \in Nat
    BY <1>0, <1>3 DEF Right, Store, ReqDoc
  <2>4. Right(q, data')
    BY <1>0, <2>1, <2>3 DEF Right
  <2>5. cached' = [cached EXCEPT ![v] = req[r].val]
    BY <1>3 DEF Store
  <2>6. req[r].val # None
    BY <2>3, NoneIsNoView
  <2>7. /\ cached' \in [View -> Nat \cup {None}]
        /\ \A x \in View : cached'[x] # None => cached'[x] <= data'[x]
        /\ excused' \subseteq {x \in View : cached'[x] # None}
        /\ tracked' \subseteq Indexed
    BY <1>0, <1>3, <2>2, <2>3, <2>5, <2>6 DEF CacheTyped, Store
  <2>8. data' \in [View -> Nat] /\ \A x \in View : data[x] <= data'[x]
    BY <2>2 DEF CacheTyped
  <2> QED BY <2>1, <2>2, <2>4, <2>7, <2>8, CacheMoves DEF CacheTyped
<1> QED BY <1>1, <1>2, <1>3

(* What a commit changes, and what it sends, are keys of public reads.     *)
LEMMA TasksType ==
  ASSUME NEW s \in Source
  PROVE  /\ Tasks(s) \subseteq Task
         /\ \A t \in Tasks(s) : t.cmd # "del" => t.view \in Indexed
         /\ Shows(s) \subseteq View
BY DEF Tasks, Task, Command, Invalidated, Shows, Source, View, Indexed, Catalogue

(* A commit raises the counts of its views.                                *)
LEMMA CommitRaises ==
  ASSUME CacheTyped, NEW vs \in SUBSET View, NEW r \in Request, NEW q, Commit(vs, r, q)
  PROVE  /\ data' \in [View -> Nat] /\ \A v \in View : data[v] <= data'[v]
         /\ \A v \in View : cached[v] # None => cached[v] <= data'[v]
         /\ req' = [req EXCEPT ![r] = q]
<1>1. \A v \in View : cached[v] # None => cached[v] \in Nat
  BY DEF CacheTyped
<1> QED BY <1>1 DEF CacheTyped, Commit

(* The statements of a write, up to its commit.                            *)
LEMMA WriteTyped ==
  ASSUME CacheTyped, NEW r \in Request, Write(r) \/ MoveStock(r) \/ CommitStock(r)
  PROVE  CacheTyped'
<1>0. /\ req[r] \in ReqDoc /\ Right(req[r], data)
      /\ req[r].kind = "write" /\ req[r].what \in Source
  BY DEF CacheTyped, Right, Write, MoveStock, CommitStock
<1> DEFINE s == req[r].what
<1>1. /\ Tasks(s) \subseteq Task
      /\ \A t \in Tasks(s) : t.cmd # "del" => t.view \in Indexed
      /\ Shows(s) \subseteq View
  BY <1>0, TasksType
<1>2. ASSUME NEW at \in {"commit", "invalidate"}
      PROVE  LET q == [req[r] EXCEPT !.at = at, !.todo = Tasks(s)]
             IN  q \in ReqDoc /\ Right(q, data')
  <2> DEFINE todo == Tasks(s)
             q == [req[r] EXCEPT !.at = at, !.todo = todo]
  <2>1. todo \in SUBSET Task /\ \A t \in todo : t.cmd # "del" => t.view \in Indexed
    BY <1>1
  <2> HIDE DEF todo
  <2>2. /\ q \in ReqDoc /\ q.kind = "write" /\ q.what = s /\ q.at = at /\ q.todo = todo
    BY <1>0, <2>1 DEF ReqDoc, Place
  <2> HIDE DEF q
  <2>3. Right(q, data')
    BY <1>0, <2>1, <2>2 DEF Right
  <2> QED BY <2>2, <2>3 DEF q, todo
<1>3. CASE Write(r)
  <2> DEFINE q == [req[r] EXCEPT !.at = "invalidate", !.todo = Tasks(s)]
  <2>1. Commit(Shows(s), r, q) /\ UNCHANGED <<cached, tracked, cooling, excused>>
    BY <1>3 DEF Write
  <2>2. q \in ReqDoc /\ Right(q, data')
    BY <1>2
  <2> HIDE DEF q
  <2> QED BY <1>1, <2>1, <2>2, CommitRaises, CacheMoves DEF CacheTyped
<1>4. CASE MoveStock(r)
  <2> DEFINE q == [req[r] EXCEPT !.at = "commit", !.todo = Tasks(s)]
  <2>1. req' = [req EXCEPT ![r] = q] /\ UNCHANGED <<data, cached, tracked, cooling, excused>>
    BY <1>4 DEF MoveStock
  <2>2. q \in ReqDoc /\ Right(q, data')
    BY <1>2
  <2> HIDE DEF q
  <2> QED BY <2>1, <2>2, CacheGoesOn DEF CacheTyped
<1>5. CASE CommitStock(r)
  <2> DEFINE q == [req[r] EXCEPT !.at = "invalidate"]
  <2>1. Commit(Shows(s), r, q) /\ UNCHANGED <<cached, tracked, cooling>>
    BY <1>5 DEF CommitStock
  <2>2. /\ q \in ReqDoc /\ q.kind = "write" /\ q.what = s /\ q.at = "invalidate"
        /\ q.todo = req[r].todo
    BY <1>0 DEF ReqDoc, Place
  <2> HIDE DEF q
  <2>3. Right(q, data')
    BY <1>0, <2>2 DEF Right
  <2>4. excused' \subseteq {v \in View : cached'[v] # None}
    BY <1>1, <1>5, <2>1 DEF CommitStock, Missed, CacheTyped
  <2>5. /\ data' \in [View -> Nat] /\ \A v \in View : data[v] <= data'[v]
        /\ \A v \in View : cached'[v] # None => cached'[v] <= data'[v]
        /\ req' = [req EXCEPT ![r] = q]
    BY <1>1, <2>1, CommitRaises
  <2>6. /\ cached' \in [View -> Nat \cup {None}]
        /\ tracked' \subseteq Indexed /\ cooling' \subseteq Instance
    BY <2>1 DEF CacheTyped
  <2> QED BY <2>2, <2>3, <2>4, <2>5, <2>6, CacheMoves
<1> QED BY <1>3, <1>4, <1>5

(* The invalidations of a write.                                           *)
LEMMA InvalidationTyped ==
  ASSUME CacheTyped, NEW r \in Request,
         (\E t \in req[r].todo : Send(r, t) \/ GiveUp(r, t)) \/ Finish(r) \/ Crash(r)
  PROVE  CacheTyped'
<1>0. req[r] \in ReqDoc /\ Right(req[r], data)
  BY DEF CacheTyped
<1>1. ASSUME NEW t \in req[r].todo, Send(r, t) PROVE CacheTyped'
  <2> DEFINE v == t.view
             next == CASE t.cmd = "members" -> {IF v \in tracked THEN "delete" ELSE "unindex"}
                       [] t.cmd = "delete"  -> {"unindex"}
                       [] OTHER             -> {}
             removes == t.cmd \in {"delete", "del"}
             todo == (req[r].todo \ {t}) \cup {[view |-> v, cmd |-> c] : c \in next}
             q == [req[r] EXCEPT !.todo = todo]
  <2>1. t \in Task /\ (t.cmd # "del" => v \in Indexed) /\ Sending(r)
    BY <1>0, <1>1 DEF ReqDoc, Right, Send
  <2>2. next \subseteq {"delete", "unindex"} /\ (next # {} => t.cmd # "del")
    OBVIOUS
  <2> HIDE DEF next
  <2>3. todo \in SUBSET Task /\ \A x \in todo : x.cmd # "del" => x.view \in Indexed
    BY <1>0, <2>1, <2>2 DEF ReqDoc, Task, Command, Right
  <2>4. req' = [req EXCEPT ![r] = q]
    BY <1>1 DEF Send, next
  <2>5. /\ cached' = IF removes THEN [cached EXCEPT ![v] = None] ELSE cached
        /\ excused' = IF removes THEN excused \ {v} ELSE excused
        /\ tracked' = IF t.cmd = "unindex" THEN tracked \ {v} ELSE tracked
        /\ UNCHANGED <<data, cooling>>
    BY <1>1 DEF Send
  <2> HIDE DEF todo
  <2>6. /\ q \in ReqDoc /\ q.kind = req[r].kind /\ q.what = req[r].what /\ q.at = req[r].at
        /\ q.todo = todo
    BY <1>0, <2>3 DEF ReqDoc
  <2> HIDE DEF q
  <2>7. Right(q, data')
    BY <1>0, <2>1, <2>3, <2>6 DEF Right, Sending
  <2>8. /\ cached' \in [View -> Nat \cup {None}]
        /\ \A x \in View : cached'[x] # None => cached'[x] <= data'[x]
        /\ tracked' \subseteq Indexed
        /\ excused' \subseteq {x \in View : cached'[x] # None}
    BY <2>5 DEF CacheTyped
  <2>9. data' \in [View -> Nat] /\ \A x \in View : data[x] <= data'[x]
    BY <2>5 DEF CacheTyped
  <2> QED BY <2>4, <2>5, <2>6, <2>7, <2>8, <2>9, CacheMoves DEF CacheTyped
<1>2. ASSUME NEW at \in Place, NEW todo \in SUBSET req[r].todo,
             at = req[r].at \/ (at \in {"done", "killed"} /\ todo = {})
      PROVE  LET q == [req[r] EXCEPT !.at = at, !.todo = todo]
             IN  q \in ReqDoc /\ Right(q, data)
  <2> DEFINE q == [req[r] EXCEPT !.at = at, !.todo = todo]
  <2>1. /\ q \in ReqDoc /\ q.kind = req[r].kind /\ q.what = req[r].what /\ q.at = at
        /\ q.todo = todo /\ q.val = req[r].val
    BY <1>0, <1>2 DEF ReqDoc
  <2> HIDE DEF q
  <2>2. Right(q, data)
    BY <1>0, <1>2, <2>1 DEF Right
  <2> QED BY <2>1, <2>2 DEF q
<1>3. ASSUME NEW t \in req[r].todo, GiveUp(r, t) PROVE CacheTyped'
  <2> DEFINE q == [req[r] EXCEPT !.at = req[r].at, !.todo = req[r].todo \ {t}]
  <2>1. q \in ReqDoc /\ Right(q, data)
    <3> DEFINE todo == req[r].todo \ {t}
    <3>1. todo \in SUBSET Task /\ todo \subseteq req[r].todo
      BY <1>0 DEF ReqDoc
    <3> HIDE DEF todo
    <3> DEFINE x == [req[r] EXCEPT !.at = req[r].at, !.todo = todo]
    <3>2. /\ x \in ReqDoc /\ x.kind = req[r].kind /\ x.what = req[r].what
          /\ x.at = req[r].at /\ x.val = req[r].val /\ x.todo = todo
      BY <1>0, <3>1 DEF ReqDoc
    <3> HIDE DEF x
    <3>3. Right(x, data)
      BY <1>0, <3>1, <3>2 DEF Right
    <3> QED BY <3>2, <3>3 DEF x, todo
  <2>2. req' = [req EXCEPT ![r] = q]
    BY <1>0, <1>3 DEF GiveUp, ReqDoc
  <2>3. data' = data /\ excused' \subseteq {v \in View : cached[v] # None}
    BY <1>0, <1>3 DEF GiveUp, Missed, CacheTyped, ReqDoc, Task
  <2> HIDE DEF q
  <2>4. UNCHANGED <<data, cached, tracked>> /\ cooling' = cooling \cup {Host[r]}
    BY <1>3 DEF GiveUp
  <2> QED BY <2>1, <2>2, <2>3, <2>4, CacheGoesOn
<1>4. CASE Finish(r)
  <2> DEFINE q == [req[r] EXCEPT !.at = "done", !.todo = req[r].todo]
  <2>1. q \in ReqDoc /\ Right(q, data)
    BY <1>2, <1>4 DEF Finish, Place
  <2>2. req' = [req EXCEPT ![r] = q]
    BY <1>0, <1>4 DEF Finish, ReqDoc
  <2>3. data' = data /\ excused' \subseteq {v \in View : cached[v] # None}
    BY <1>4 DEF Finish, CacheTyped
  <2>4. UNCHANGED <<data, cached, tracked, cooling>>
    BY <1>4 DEF Finish
  <2> HIDE DEF q
  <2> QED BY <2>1, <2>2, <2>3, <2>4, CacheGoesOn
<1>5. CASE Crash(r)
  <2> DEFINE q == [req[r] EXCEPT !.at = "killed", !.todo = {}]
  <2>1. q \in ReqDoc /\ Right(q, data)
    BY <1>2 DEF Place
  <2>2. req' = [req EXCEPT ![r] = q]
    BY <1>5 DEF Crash
  <2>3. data' = data /\ excused' \subseteq {v \in View : cached[v] # None}
    BY <1>0, <1>5 DEF Crash, Missed, CacheTyped, ReqDoc, Task
  <2>4. UNCHANGED <<data, cached, tracked, cooling>>
    BY <1>5 DEF Crash
  <2> HIDE DEF q
  <2> QED BY <2>1, <2>2, <2>3, <2>4, CacheGoesOn
<1> QED BY <1>1, <1>3, <1>4, <1>5

LEMMA CacheTimeTyped == ASSUME CacheTyped, CacheTime PROVE CacheTyped'
BY DEF CacheTyped, CacheTime, Expire, CooldownEnds

LEMMA CacheStepTyped ==
  ASSUME CacheTyped, NEW r \in Request, CacheStep(r) \/ Crash(r)
  PROVE  CacheTyped'
BY ReadTyped, WriteTyped, InvalidationTyped DEF CacheStep

-----------------------------------------------------------------------------
(* Types of the settings                                                   *)

BackupDoc == [config : [Section -> Writer], version : Nat]

DocsTyped ==
  /\ doc \in SettingsDoc
  /\ backup = None \/ backup \in BackupDoc
  /\ stage \in {"old", "both", "new"} /\ {rotated, late} \subseteq BOOLEAN
  /\ form \in [Request -> FormDoc]
  /\ truth \in [config : [Section -> Writer], secrets : [Secret -> Writer \cup {None}]]
  /\ torn \subseteq Section \cup Secret

Typed == CacheTyped /\ DocsTyped

(* The key rings a deployment can have. *)
Rings == {<<1>>, <<2, 1>>, <<2>>}

LEMMA SealedType ==
  ASSUME NEW by \in Writer, NEW ring \in Rings
  PROVE  /\ Sealed(by, ring) \in SealedDoc /\ Sealed(by, ring) # None
         /\ Sealed(by, ring).by = by
BY NoneIsNoSecret DEF Sealed, SealedDoc, Key, Rings

LEMMA PlainType ==
  ASSUME NEW secrets \in [Secret -> SealedDoc \cup {None}]
  PROVE  Plain(secrets) \in [Secret -> Writer \cup {None}]
BY DEF Plain, SealedDoc

LEMMA MergedType ==
  ASSUME NEW config \in [Section -> Writer], NEW r \in Request
  PROVE  Merged(config, r) \in [Section -> Writer]
BY DEF Merged, Writer

LEMMA NextSecretsType ==
  ASSUME NEW secrets \in [Secret -> SealedDoc \cup {None}], NEW r \in Request,
         NEW ring \in Rings
  PROVE  NextSecrets(secrets, r, ring) \in [Secret -> SealedDoc \cup {None}]
<1>1. Sealed(r, ring) \in SealedDoc
  BY SealedType DEF Writer
<1> QED BY <1>1 DEF NextSecrets

LEMMA RingType ==
  ASSUME NEW st PROVE Ring(st) \in Rings
BY DEF Ring, Rings

LEMMA InitTyped == Init => Typed
<1> SUFFICES ASSUME Init PROVE Typed
  OBVIOUS
<1>1. CacheTyped
  BY CacheInitTyped DEF Init
<1>2. Initial \in SettingsDoc /\ Initial.config \in [Section -> Writer]
      /\ Initial.secrets \in [Secret -> SealedDoc \cup {None}]
  BY InitialType DEF SettingsDoc
<1>3. form \in [Request -> FormDoc]
  BY <1>2 DEF Init, FormDoc
<1>4. truth \in [config : [Section -> Writer], secrets : [Secret -> Writer \cup {None}]]
  BY <1>2, PlainType DEF Init
<1>5. DocsTyped
  BY <1>2, <1>3, <1>4 DEF Init, DocsTyped
<1> QED BY <1>1, <1>5 DEF Typed

(* A request for the settings goes from one place to another.              *)
LEMMA ToTyped ==
  ASSUME CacheTyped, NEW r \in Request, NEW at \in {"start", "form", "cas", "rewrite", "done"},
         req[r].at \in {"start", "form", "cas", "rewrite"}, To(r, at),
         UNCHANGED <<data, cached, tracked, cooling, excused>>
  PROVE  CacheTyped'
<1> DEFINE q == [req[r] EXCEPT !.at = at]
<1>1. req[r] \in ReqDoc /\ Right(req[r], data) /\ req[r].todo = {}
  BY DEF CacheTyped, Right
<1>2. /\ q \in ReqDoc /\ q.kind = req[r].kind /\ q.what = req[r].what
      /\ q.at = at /\ q.todo = {}
  BY <1>1 DEF ReqDoc, Place
<1>3. req' = [req EXCEPT ![r] = q]
  BY DEF To
<1> HIDE DEF q
<1>4. Right(q, data')
  BY <1>1, <1>2 DEF Right
<1>5. excused' \subseteq {v \in View : cached[v] # None}
  BY DEF CacheTyped
<1> QED BY <1>2, <1>3, <1>4, <1>5, CacheGoesOn

(* What an update or a rotation reads, and whom a change overtakes.        *)
LEMMA FormType ==
  ASSUME DocsTyped, NEW r \in Request
  PROVE  /\ form[r] \in FormDoc /\ form[r].read \in SettingsDoc
         /\ form[r].ring \in Rings
         /\ form[r].read.secrets \in [Secret -> SealedDoc \cup {None}]
         /\ form[r].read.config \in [Section -> Writer]
         /\ form[r].read.version \in Nat /\ form[r].torn \subseteq Section \cup Secret
BY DEF DocsTyped, FormDoc, SettingsDoc, Rings

LEMMA OvertakenType ==
  ASSUME DocsTyped, NEW at, NEW parts \in SUBSET (Section \cup Secret)
  PROVE  Overtaken(at, parts) \in [Request -> FormDoc]
<1> SUFFICES ASSUME NEW r \in Request
             PROVE  [form[r] EXCEPT !.torn = @ \cup parts] \in FormDoc
  BY DEF Overtaken, DocsTyped
<1> QED BY FormType DEF FormDoc

LEMMA TouchedType ==
  ASSUME NEW r \in Request PROVE Touched(r) \subseteq Section \cup Secret
BY PatchType DEF Touched, PatchDoc

(* The end of a rotation, which marks the updates it is ahead of.          *)
LEMMA RotationEndsType ==
  ASSUME DocsTyped, RotationEnds
  PROVE  /\ form' \in [Request -> FormDoc] /\ rotated' \in BOOLEAN /\ late' \in BOOLEAN
         /\ \A x \in Request : /\ form'[x].read = form[x].read /\ form'[x].ring = form[x].ring
                               /\ form'[x].torn = form[x].torn
                               /\ req[x].at = "cas" => form'[x].behind
<1>1. ASSUME NEW x \in Request
      PROVE  /\ form[x] \in FormDoc /\ [form[x] EXCEPT !.behind = TRUE] \in FormDoc
             /\ form'[x] = IF req[x].at = "cas" THEN [form[x] EXCEPT !.behind = TRUE]
                           ELSE form[x]
  BY FormType DEF RotationEnds, FormDoc
<1> QED BY <1>1 DEF RotationEnds, FormDoc

(* The two reads: of an update, and of a rotation.                         *)
LEMMA LoadTyped ==
  ASSUME Typed, NEW r \in Request, OpenForm(r) \/ LoadUpdate(r) \/ LoadRotation(r)
  PROVE  Typed'
<1>1. CacheTyped'
  <2>1. PICK at \in {"form", "cas", "done", "rewrite"} : To(r, at)
    BY DEF OpenForm, LoadUpdate, LoadRotation
  <2>2. /\ req[r].at \in {"start", "form"}
        /\ UNCHANGED <<data, cached, tracked, cooling, excused>>
    BY DEF OpenForm, LoadUpdate, LoadRotation, Idle
  <2> QED BY <2>1, <2>2, ToTyped DEF Typed
<1>2. form[r] \in FormDoc /\ doc \in SettingsDoc /\ doc.version \in Nat
  BY FormType DEF Typed, DocsTyped, SettingsDoc
<1>3. Ring(stage) \in Rings /\ (stage = "old") \in BOOLEAN
  BY RingType
<1>4. /\ [form[r] EXCEPT !.seen = doc.version] \in FormDoc
      /\ [form[r] EXCEPT !.read = doc, !.ring = Ring(stage),
                         !.behind = (stage = "old"), !.torn = {}] \in FormDoc
      /\ [form[r] EXCEPT !.read = doc, !.torn = {}] \in FormDoc
  BY <1>2, <1>3 DEF FormDoc, Rings
<1>5. CASE LoadRotation(r) /\ RotationEnds
  <2>1. /\ form' \in [Request -> FormDoc] /\ rotated' \in BOOLEAN /\ late' \in BOOLEAN
        /\ UNCHANGED <<doc, backup, stage, truth, torn>>
    BY <1>5, RotationEndsType DEF LoadRotation, Typed
  <2> QED BY <1>1, <2>1 DEF Typed, DocsTyped
<1>6. CASE /\ form' \in [Request -> FormDoc]
           /\ UNCHANGED <<doc, backup, stage, rotated, late, truth, torn>>
  BY <1>1, <1>6 DEF Typed, DocsTyped
<1>7. CASE OpenForm(r) \/ LoadUpdate(r)
  BY <1>4, <1>6, <1>7 DEF OpenForm, LoadUpdate, Typed, DocsTyped
<1>8. CASE LoadRotation(r) /\ ~RotationEnds
  BY <1>4, <1>6, <1>8 DEF LoadRotation, Typed, DocsTyped
<1> QED BY <1>5, <1>7, <1>8

(* What a commit of an update writes.                                      *)
LEMMA UpdateWrites ==
  ASSUME Typed, NEW r \in Request, CommitUpdate(r), Matches(r)
  PROVE  LET f == form[r]
             secrets == NextSecrets(f.read.secrets, r, f.ring)
         IN  /\ doc' = [exists |-> TRUE, version |-> f.read.version + 1,
                        config |-> Merged(f.read.config, r), secrets |-> secrets]
             /\ truth'.config = Merged(truth.config, r)
             /\ \A s \in Secret :
                  truth'.secrets[s] = CASE Patch[r].secrets[s] = "keep"  -> truth.secrets[s]
                                        [] Patch[r].secrets[s] = "clear" -> None
                                        [] OTHER                         -> r
             /\ torn' = (torn \ Touched(r)) \cup (f.torn \ Touched(r))
             /\ late' = (late \/ f.behind)
             /\ form' = Overtaken("rewrite", Touched(r) \cap Secret)
             /\ truth' \in [config : [Section -> Writer], secrets : [Secret -> Writer \cup {None}]]
             /\ secrets \in [Secret -> SealedDoc \cup {None}]
<1> DEFINE f == form[r]
           secrets == NextSecrets(f.read.secrets, r, f.ring)
           before == [s \in Secret |-> IF truth.secrets[s] = None THEN None
                                       ELSE [by |-> truth.secrets[s], key |-> 1]]
           after == NextSecrets(before, r, f.ring)
<1>1. /\ doc' = [exists |-> TRUE, version |-> f.read.version + 1,
                 config |-> Merged(f.read.config, r), secrets |-> secrets]
      /\ truth' = [config |-> Merged(truth.config, r), secrets |-> Plain(after)]
      /\ torn' = (torn \ Touched(r)) \cup (f.torn \ Touched(r))
      /\ late' = (late \/ f.behind)
      /\ form' = Overtaken("rewrite", Touched(r) \cap Secret)
  BY DEF CommitUpdate
<1>2. /\ truth.secrets \in [Secret -> Writer \cup {None}]
      /\ truth.config \in [Section -> Writer]
  BY DEF Typed, DocsTyped
<1>3. before \in [Secret -> SealedDoc \cup {None}]
  BY <1>2 DEF SealedDoc, Key
<1>4. f.ring \in Rings /\ secrets \in [Secret -> SealedDoc \cup {None}]
  BY FormType, NextSecretsType DEF Typed
<1>5. \A s \in Secret : Plain(before)[s] = truth.secrets[s]
  <2> TAKE s \in Secret
  <2>1. CASE truth.secrets[s] = None
    BY <2>1 DEF Plain
  <2>2. CASE truth.secrets[s] # None
    <3>1. before[s] = [by |-> truth.secrets[s], key |-> 1]
      BY <2>2
    <3>2. before[s] # None
      BY <1>2, <2>2, <3>1, NoneIsNoSecret DEF SealedDoc, Key
    <3> HIDE DEF before
    <3> QED BY <3>1, <3>2 DEF Plain
  <2> QED BY <2>1, <2>2
<1>6. Sealed(r, f.ring) # None /\ Sealed(r, f.ring).by = r
  BY <1>4, SealedType DEF Writer
<1> HIDE DEF before, f
<1>7. after \in [Secret -> SealedDoc \cup {None}]
  BY <1>3, <1>4, NextSecretsType
<1>8. \A s \in Secret :
        Plain(after)[s] = CASE Patch[r].secrets[s] = "keep"  -> truth.secrets[s]
                            [] Patch[r].secrets[s] = "clear" -> None
                            [] OTHER                         -> r
  <2> TAKE s \in Secret
  <2>1. after[s] = CASE Patch[r].secrets[s] = "keep"  -> before[s]
                     [] Patch[r].secrets[s] = "clear" -> None
                     [] OTHER                         -> Sealed(r, f.ring)
    BY DEF NextSecrets
  <2> HIDE DEF after
  <2>2. /\ Plain(after)[s] = (IF after[s] = None THEN None ELSE after[s].by)
        /\ Plain(before)[s] = (IF before[s] = None THEN None ELSE before[s].by)
    BY DEF Plain
  <2> QED BY <1>5, <1>6, <2>1, <2>2
<1>9. Plain(after) \in [Secret -> Writer \cup {None}]
  BY <1>7, PlainType
<1>10. Merged(truth.config, r) \in [Section -> Writer]
  BY <1>2, MergedType
<1> HIDE DEF after, secrets
<1>11. truth' \in [config : [Section -> Writer], secrets : [Secret -> Writer \cup {None}]]
  BY <1>1, <1>9, <1>10
<1>12. truth'.config = Merged(truth.config, r) /\ truth'.secrets = Plain(after)
  BY <1>1
<1> QED BY <1>1, <1>4, <1>8, <1>11, <1>12 DEF f, secrets

(* The compare-and-set of an update, and its audit row.                    *)
LEMMA UpdateTyped ==
  ASSUME Typed, NEW r \in Request, CommitUpdate(r) \/ AuditUpdate(r)
  PROVE  Typed'
<1>0. /\ req[r] \in ReqDoc /\ Right(req[r], data)
      /\ req[r].kind = "update"
  BY DEF Typed, CacheTyped, CommitUpdate, AuditUpdate
<1>1. CASE CommitUpdate(r) /\ Matches(r)
  <2> DEFINE todo == Tasks("settings")
             q == [req[r] EXCEPT !.at = "audit", !.todo = todo]
  <2>1. /\ Commit({"settings"}, r, q)
        /\ UNCHANGED <<cached, tracked, cooling, excused, backup, stage, rotated>>
    BY <1>1 DEF CommitUpdate
  <2>2. /\ todo \in SUBSET Task /\ \A t \in todo : t.cmd # "del" => t.view \in Indexed
        /\ {"settings"} \in SUBSET View
    BY TasksType DEF Source, View
  <2> HIDE DEF todo
  <2>3. /\ q \in ReqDoc /\ q.kind = "update" /\ q.at = "audit" /\ q.todo = todo
    BY <1>0, <2>2 DEF ReqDoc, Place
  <2> HIDE DEF q
  <2>4. Right(q, data')
    BY <2>2, <2>3 DEF Right
  <2>5. /\ data' \in [View -> Nat] /\ \A v \in View : data[v] <= data'[v]
        /\ \A v \in View : cached'[v] # None => cached'[v] <= data'[v]
        /\ req' = [req EXCEPT ![r] = q]
    BY <2>1, <2>2, CommitRaises DEF Typed
  <2>6. CacheTyped'
    BY <2>1, <2>3, <2>4, <2>5, CacheMoves DEF Typed, CacheTyped
  <2>7. /\ form[r].read.version + 1 \in Nat
        /\ Merged(form[r].read.config, r) \in [Section -> Writer]
        /\ form[r].torn \subseteq Section \cup Secret
    BY FormType, MergedType DEF Typed
  <2>8. Touched(r) \cap Secret \subseteq Section \cup Secret
    OBVIOUS
  <2>9. /\ form' = Overtaken("rewrite", Touched(r) \cap Secret)
        /\ truth' \in [config : [Section -> Writer], secrets : [Secret -> Writer \cup {None}]]
        /\ torn' = (torn \ Touched(r)) \cup (form[r].torn \ Touched(r))
        /\ late' \in BOOLEAN
    BY <1>1, UpdateWrites DEF Typed, DocsTyped
  <2>10. form' \in [Request -> FormDoc]
    BY <2>8, <2>9, OvertakenType DEF Typed
  <2>11. doc' \in SettingsDoc
    <3> DEFINE secrets == NextSecrets(form[r].read.secrets, r, form[r].ring)
               config == Merged(form[r].read.config, r)
               n == form[r].read.version + 1
    <3>1. doc' = [exists |-> TRUE, version |-> n, config |-> config, secrets |-> secrets]
      BY <1>1 DEF CommitUpdate
    <3>2. secrets \in [Secret -> SealedDoc \cup {None}]
      BY FormType, NextSecretsType DEF Typed
    <3> HIDE DEF secrets, config, n
    <3>3. config \in [Section -> Writer] /\ n \in Nat
      BY <2>7 DEF config, n
    <3> QED BY <3>1, <3>2, <3>3 DEF SettingsDoc
  <2>12. torn' \subseteq Section \cup Secret
    BY <2>7, <2>9 DEF Typed, DocsTyped
  <2> QED BY <2>1, <2>6, <2>9, <2>10, <2>11, <2>12 DEF Typed, DocsTyped
<1>2. CASE CommitUpdate(r) /\ ~Matches(r)
  <2>1. /\ To(r, "done") /\ req[r].at = "cas"
        /\ UNCHANGED <<data, cached, tracked, cooling, excused,
                       doc, backup, stage, rotated, late, form, truth, torn>>
    BY <1>2 DEF CommitUpdate
  <2>2. CacheTyped'
    BY <2>1, ToTyped DEF Typed
  <2> QED BY <2>1, <2>2 DEF Typed, DocsTyped
<1>3. CASE AuditUpdate(r)
  <2> DEFINE q == [req[r] EXCEPT !.at = "invalidate"]
  <2>1. /\ q \in ReqDoc /\ q.kind = "update" /\ q.at = "invalidate" /\ q.todo = req[r].todo
    BY <1>0 DEF ReqDoc, Place
  <2>2. /\ req' = [req EXCEPT ![r] = q]
        /\ UNCHANGED <<data, cached, tracked, cooling, excused, settingsOnly>>
    BY <1>3 DEF AuditUpdate, To
  <2> HIDE DEF q
  <2>3. Right(q, data')
    BY <1>0, <2>1 DEF Right
  <2>4. CacheTyped'
    BY <2>1, <2>2, <2>3, CacheGoesOn DEF Typed, CacheTyped
  <2> QED BY <2>2, <2>4 DEF Typed, DocsTyped, settingsOnly
<1> QED BY <1>1, <1>2, <1>3

(* A rotation writes back every secret it has read.                        *)
LEMMA RewriteTyped ==
  ASSUME Typed, NEW r \in Request, RewriteSecrets(r)
  PROVE  Typed'
<1> DEFINE f == form[r]
           secrets == [s \in Secret |-> IF f.read.secrets[s] = None THEN None
                                        ELSE Sealed(f.read.secrets[s].by, ScriptRing)]
<1>1. /\ f.read.secrets \in [Secret -> SealedDoc \cup {None}]
      /\ ScriptRing \in Rings /\ f.torn \subseteq Section \cup Secret
  BY FormType DEF Typed, ScriptRing, Rings
<1>2. \A s \in Secret : f.read.secrets[s] # None =>
        Sealed(f.read.secrets[s].by, ScriptRing) \in SealedDoc
  BY <1>1, SealedType DEF SealedDoc
<1>3. secrets \in [Secret -> SealedDoc \cup {None}]
  BY <1>2
<1>4. doc' = [doc EXCEPT !.secrets = secrets] /\ torn' = torn \cup f.torn
  BY DEF RewriteSecrets
<1>5. CacheTyped'
  BY ToTyped DEF Typed, RewriteSecrets
<1> HIDE DEF secrets
<1>6. doc' \in SettingsDoc
  BY <1>3, <1>4 DEF Typed, DocsTyped, SettingsDoc
<1>7. form' \in [Request -> FormDoc] /\ rotated' \in BOOLEAN /\ late' \in BOOLEAN
  BY RotationEndsType DEF Typed, RewriteSecrets
<1> QED BY <1>1, <1>4, <1>5, <1>6, <1>7 DEF Typed, DocsTyped, RewriteSecrets

(* The deployments of a key change, and a backup.                          *)
LEMMA KeyTyped == ASSUME Typed, DeployBoth \/ DeployNew PROVE Typed'
BY DEF Typed, DocsTyped, DeployBoth, DeployNew, cacheVars, CacheTyped

LEMMA BackupTyped ==
  ASSUME Typed, NEW r \in Request, TakeBackup(r)
  PROVE  Typed'
<1>1. CacheTyped'
  BY ToTyped DEF Typed, TakeBackup, Idle
<1>2. [config |-> doc.config, version |-> doc.version] \in BackupDoc
  BY DEF Typed, DocsTyped, SettingsDoc, BackupDoc
<1> QED BY <1>1, <1>2 DEF Typed, DocsTyped, TakeBackup

LEMMA RestoreTyped ==
  ASSUME Typed, NEW r \in Request, Restore(r)
  PROVE  Typed'
<1> DEFINE q == [req[r] EXCEPT !.at = "done"]
<1>0. req[r] \in ReqDoc /\ Right(req[r], data) /\ req[r].todo = {}
  BY DEF Typed, CacheTyped, Right, Restore, Idle
<1>1. Commit(View, r, q) /\ UNCHANGED <<cached, tracked, cooling, backup, stage, rotated, late>>
  BY DEF Restore
<1>2. /\ q \in ReqDoc /\ q.kind = req[r].kind /\ q.what = req[r].what
      /\ q.at = "done" /\ q.todo = {}
  BY <1>0 DEF ReqDoc, Place
<1> HIDE DEF q
<1>3. Right(q, data')
  BY <1>0, <1>2 DEF Right
<1>4. /\ data' \in [View -> Nat] /\ \A v \in View : data[v] <= data'[v]
      /\ \A v \in View : cached'[v] # None => cached'[v] <= data'[v]
      /\ req' = [req EXCEPT ![r] = q]
  BY <1>1, CommitRaises DEF Typed
<1>5. excused' \subseteq {v \in View : cached'[v] # None}
  BY <1>1 DEF Restore, Missed, Typed, CacheTyped
<1>6. CacheTyped'
  BY <1>1, <1>2, <1>3, <1>4, <1>5, CacheMoves DEF Typed, CacheTyped
<1>7. backup \in BackupDoc
  BY DEF Restore, Typed, DocsTyped
<1>8. doc' \in SettingsDoc
  BY <1>7 DEF Restore, Typed, DocsTyped, SettingsDoc, BackupDoc
<1>9. truth' \in [config : [Section -> Writer], secrets : [Secret -> Writer \cup {None}]]
  BY <1>7 DEF Restore, Typed, DocsTyped, BackupDoc
<1>10. form' \in [Request -> FormDoc]
  BY OvertakenType DEF Restore, Typed
<1> QED BY <1>1, <1>6, <1>8, <1>9, <1>10 DEF Typed, DocsTyped, Restore

LEMMA StepTyped == Typed /\ [Next]_settingsVars => Typed'
<1> SUFFICES ASSUME Typed, [Next]_settingsVars PROVE Typed'
  OBVIOUS
<1>1. CASE UNCHANGED settingsVars
  BY <1>1 DEF settingsVars, cacheVars, settingsOnly, Typed, DocsTyped, CacheTyped
<1>2. ASSUME NEW r \in Request, CacheStep(r) \/ Crash(r), UNCHANGED settingsOnly
      PROVE  Typed'
  BY <1>2, CacheStepTyped DEF Typed, DocsTyped, settingsOnly
<1>3. ASSUME NEW r \in Request, SettingsStep(r) PROVE Typed'
  BY <1>3, LoadTyped, UpdateTyped, RewriteTyped, BackupTyped, RestoreTyped
     DEF SettingsStep
<1>4. CASE CacheTime /\ UNCHANGED settingsOnly
  BY <1>4, CacheTimeTyped DEF Typed, DocsTyped, settingsOnly
<1>5. CASE DeployBoth \/ DeployNew
  BY <1>5, KeyTyped
<1> QED BY <1>1, <1>2, <1>3, <1>4, <1>5 DEF Next

LEMMA SpecTyped == Spec => []Typed
BY InitTyped, StepTyped, PTL DEF Spec

(* The settings document, its backup, the forms and the cache keep their   *)
(* shape, and no cached value is ahead of the database.                    *)
THEOREM SettingsTypeCorrect == Spec => []TypeOK
<1>1. Typed => TypeOK
  <2> SUFFICES ASSUME Typed PROVE TypeOK
    OBVIOUS
  <2>1. CacheTypeOK
    BY CacheTypeCorrect DEF Typed
  <2>2. DocsTyped
    BY DEF Typed
  <2> QED BY <2>1, <2>2 DEF TypeOK, DocsTyped, BackupDoc
<1> QED BY <1>1, SpecTyped, PTL

-----------------------------------------------------------------------------
(* Every secret stays readable through a key change.  Before a run of the  *)
(* script has ended the old deployment has seen and sealed nothing but the *)
(* old key; from then on, as long as nobody behind it has committed, the   *)
(* document and whoever may commit hold nothing but the new one.           *)

Fresh(secrets) == \A s \in Secret : secrets[s] # None => secrets[s].key = 2

Aged(secrets) == \A s \in Secret : secrets[s] # None => secrets[s].key = 1

(* An update about to commit would write the key k. *)
Holds(r, k) ==
  /\ form[r].ring[1] = k
  /\ \A s \in Secret :
       form[r].read.secrets[s] # None => form[r].read.secrets[s].key = k

OldOnly ==
  /\ Aged(doc.secrets)
  /\ \A r \in Request : req[r].at = "cas" => Holds(r, 1)

NewOnly ==
  /\ Fresh(doc.secrets)
  /\ \A r \in Request : req[r].at = "cas" => form[r].behind \/ Holds(r, 2)

Rotating ==
  /\ ~rotated => stage # "new"
  /\ ~rotated /\ stage = "old" => OldOnly
  /\ rotated /\ ~late => NewOnly

LEMMA RotatingReadable == Typed /\ Rotating => SecretsReadable
<1> SUFFICES ASSUME Typed, Rotating PROVE SecretsReadable
  OBVIOUS
<1>0. /\ \A s \in Secret : doc.secrets[s] # None => doc.secrets[s].key \in {1, 2}
      /\ stage \in {"old", "both", "new"}
  BY DEF Typed, DocsTyped, SettingsDoc, SealedDoc, Key
<1>2. ASSUME ~rotated, stage # "both" PROVE Opens(doc.secrets, Ring(stage))
  <2>1. stage = "old" /\ Aged(doc.secrets)
    BY <1>0, <1>2 DEF Rotating, OldOnly
  <2> QED BY <2>1 DEF Aged, Opens, Readable, Ring
<1>3. ASSUME rotated, ~late PROVE Opens(doc.secrets, <<2>>)
  <2>1. Fresh(doc.secrets)
    BY <1>3 DEF Rotating, NewOnly
  <2> QED BY <2>1 DEF Fresh, Opens, Readable
<1>4. ~rotated \/ stage = "both" => Opens(doc.secrets, Ring(stage))
  <2>1. CASE stage = "both"
    <3>1. Ring(stage) = <<2, 1>>
      BY <2>1 DEF Ring
    <3>2. Ring(stage)[1] = 2 /\ Ring(stage)[2] = 1 /\ {1, 2} \subseteq DOMAIN Ring(stage)
      BY <3>1
    <3> QED BY <1>0, <3>2 DEF Opens, Readable
  <2> QED BY <1>2, <2>1
<1> QED BY <1>3, <1>4 DEF SecretsReadable

(* A step that leaves the deployment and the script alone: who is about to *)
(* commit was before, or has just loaded the document, behind it if the    *)
(* deployment knows the old key alone; the document holds what one of them *)
(* held that is not behind, or one is late.                                *)
LEMMA RotatingKept ==
  ASSUME Typed, Rotating, stage' = stage, rotated' = rotated,
         \A r \in Request : req'[r].at = "cas" =>
           \/ /\ req[r].at = "cas" /\ form'[r].ring = form[r].ring
              /\ form'[r].read = form[r].read /\ form'[r].behind = form[r].behind
           \/ /\ form'[r].ring = Ring(stage) /\ form'[r].read = doc
              /\ form'[r].behind = (stage = "old"),
         \/ doc'.secrets = doc.secrets /\ late' = late
         \/ \E r \in Request :
              /\ req[r].at = "cas" /\ (late \/ form[r].behind => late')
              /\ \A s \in Secret : doc'.secrets[s] # None =>
                   \/ doc'.secrets[s] = form[r].read.secrets[s]
                   \/ doc'.secrets[s].key = form[r].ring[1]
  PROVE  Rotating'
<1>0. late => late'
  OBVIOUS
<1>1. ASSUME ~rotated, stage = "old" PROVE OldOnly'
  <2>1. OldOnly /\ Ring(stage)[1] = 1
    BY <1>1 DEF Rotating, Ring
  <2>2. Aged(doc.secrets)'
    BY <2>1 DEF OldOnly, Holds, Aged
  <2>3. \A r \in Request : (req[r].at = "cas")' => Holds(r, 1)'
    BY <2>1 DEF OldOnly, Holds, Aged
  <2> QED BY <2>2, <2>3 DEF OldOnly
<1>2. ASSUME rotated, ~late' PROVE NewOnly'
  <2>1. NewOnly
    BY <1>0, <1>2 DEF Rotating
  <2>2. stage # "old" => Ring(stage)[1] = 2
    BY DEF Ring
  <2>3. Fresh(doc.secrets)'
    BY <1>2, <2>1 DEF NewOnly, Holds, Fresh
  <2>4. ASSUME NEW r \in Request, req'[r].at = "cas", ~form'[r].behind PROVE Holds(r, 2)'
    <3>1. CASE /\ req[r].at = "cas" /\ form'[r].ring = form[r].ring
               /\ form'[r].read = form[r].read /\ form'[r].behind = form[r].behind
      <4>1. Holds(r, 2)
        BY <2>1, <2>4, <3>1 DEF NewOnly
      <4> QED BY <3>1, <4>1 DEF Holds
    <3>2. CASE /\ form'[r].ring = Ring(stage) /\ form'[r].read = doc
               /\ form'[r].behind = (stage = "old")
      <4>1. Ring(stage)[1] = 2
        BY <2>2, <2>4, <3>2
      <4> QED BY <2>1, <3>2, <4>1 DEF NewOnly, Holds, Fresh
    <3> QED BY <2>4, <3>1, <3>2
  <2> QED BY <2>3, <2>4 DEF NewOnly
<1> QED BY <1>1, <1>2 DEF Rotating

(* The end of a rotation: nobody about to commit is ahead of it.           *)
LEMMA RotatingEnds ==
  ASSUME Typed, RotationEnds, Fresh(doc'.secrets),
         \A r \in Request : req'[r].at = "cas" => req[r].at = "cas"
  PROVE  Rotating'
<1>1. \A r \in Request : req'[r].at = "cas" => form'[r].behind
  BY RotationEndsType DEF Typed
<1> QED BY <1>1 DEF RotationEnds, Rotating, NewOnly, Fresh

(* A change that overtakes others leaves what they have read.              *)
LEMMA OvertakingKeeps ==
  ASSUME Typed, NEW at, NEW parts, form' = Overtaken(at, parts)
  PROVE  \A x \in Request : /\ form'[x].ring = form[x].ring
                            /\ form'[x].read = form[x].read
                            /\ form'[x].behind = form[x].behind
                            /\ form'[x].torn = IF req[x].at = at THEN form[x].torn \cup parts
                                               ELSE form[x].torn
<1> TAKE x \in Request
<1>1. form[x] \in FormDoc
  BY FormType DEF Typed
<1>2. form'[x] = IF req[x].at = at THEN [form[x] EXCEPT !.torn = form[x].torn \cup parts]
                 ELSE form[x]
  BY DEF Overtaken
<1> QED BY <1>1, <1>2 DEF FormDoc

(* What a request's move does to the others: nothing.                      *)
LEMMA OthersStay ==
  ASSUME Typed, NEW r \in Request, NEW at, To(r, at)
  PROVE  \A x \in Request : req'[x].at = IF x = r THEN at ELSE req[x].at
<1>1. req \in [Request -> ReqDoc]
  BY DEF Typed, CacheTyped
<1> QED BY <1>1 DEF To, ReqDoc

(* What a commit makes of the places: only its request moves.              *)
LEMMA CommitPlaces ==
  ASSUME Typed, NEW r \in Request, NEW vs, NEW at, NEW todo,
         Commit(vs, r, [req[r] EXCEPT !.at = at, !.todo = todo])
  PROVE  \A x \in Request : req'[x].at = IF x = r THEN at ELSE req[x].at
<1>1. req \in [Request -> ReqDoc]
  BY DEF Typed, CacheTyped
<1> QED BY <1>1 DEF Commit, ReqDoc

LEMMA RestorePlaces ==
  ASSUME Typed, NEW r \in Request, Restore(r)
  PROVE  \A x \in Request : req'[x].at = IF x = r THEN "done" ELSE req[x].at
<1>1. req \in [Request -> ReqDoc]
  BY DEF Typed, CacheTyped
<1>2. req' = [req EXCEPT ![r] = [req[r] EXCEPT !.at = "done"]]
  BY DEF Restore, Commit
<1> QED BY <1>1, <1>2 DEF ReqDoc

(* The reads and writes of the cache bring nobody to a write of settings.  *)
LEMMA CachePlaces ==
  ASSUME Typed, \/ \E r \in Request : CacheStep(r) \/ Crash(r)
                \/ CacheTime
  PROVE  \A x \in Request : req'[x].at \in {"cas", "rewrite"} => req'[x].at = req[x].at
<1>0. req \in [Request -> ReqDoc]
  BY DEF Typed, CacheTyped
<1>1. CASE CacheTime
  BY <1>1 DEF CacheTime, Expire, CooldownEnds
<1>2. ASSUME NEW r \in Request, CacheStep(r) \/ Crash(r)
      PROVE  \A x \in Request : req'[x].at \in {"cas", "rewrite"} => req'[x].at = req[x].at
  <2>1. CASE Get(r) \/ Load(r) \/ Store(r) \/ ReadWithout(r)
    BY <1>0, <2>1 DEF Get, Load, Store, ReadWithout, ReqDoc
  <2>2. CASE Write(r) \/ MoveStock(r) \/ CommitStock(r)
    BY <1>0, <2>2 DEF Write, MoveStock, CommitStock, Commit, ReqDoc
  <2>3. CASE Finish(r) \/ Crash(r)
    BY <1>0, <2>3 DEF Finish, Crash, ReqDoc
  <2>4. ASSUME NEW t \in req[r].todo, Send(r, t) \/ GiveUp(r, t)
        PROVE  \A x \in Request : req'[x].at = req[x].at
    <3>1. PICK todo : req' = [req EXCEPT ![r].todo = todo]
      BY <2>4 DEF Send, GiveUp
    <3> QED BY <1>0, <3>1 DEF ReqDoc
  <2> QED BY <1>2, <2>1, <2>2, <2>3, <2>4 DEF CacheStep
<1> QED BY <1>1, <1>2

(* The compare-and-set writes what was read or sealed.                     *)
LEMMA UpdateRotating ==
  ASSUME Typed, Rotating, NEW r \in Request, CommitUpdate(r)
  PROVE  Rotating'
<1>0. req[r].at = "cas" /\ UNCHANGED <<stage, rotated>>
  BY DEF CommitUpdate
<1>1. CASE Matches(r)
  <2> DEFINE f == form[r]
             secrets == NextSecrets(f.read.secrets, r, f.ring)
  <2>1. /\ doc' = [exists |-> TRUE, version |-> f.read.version + 1,
                   config |-> Merged(f.read.config, r), secrets |-> secrets]
        /\ form' = Overtaken("rewrite", Touched(r) \cap Secret)
        /\ Commit({"settings"}, r, [req[r] EXCEPT !.at = "audit", !.todo = Tasks("settings")])
        /\ late \/ f.behind => late'
    BY <1>1 DEF CommitUpdate
  <2>2. \A x \in Request : req'[x].at = IF x = r THEN "audit" ELSE req[x].at
    BY <2>1, CommitPlaces
  <2>3. \A x \in Request : /\ form'[x].ring = form[x].ring /\ form'[x].read = form[x].read
                           /\ form'[x].behind = form[x].behind
    <3>1. PICK parts : form' = Overtaken("rewrite", parts)
      BY <2>1
    <3> QED BY <3>1, OvertakingKeeps
  <2>4. Sealed(r, f.ring).key = f.ring[1]
    BY DEF Sealed
  <2>5. \A s \in Secret : secrets[s] # None =>
          secrets[s] = f.read.secrets[s] \/ secrets[s].key = f.ring[1]
    BY <2>4 DEF NextSecrets
  <2> HIDE DEF secrets
  <2>6. doc'.secrets = secrets
    BY <2>1
  <2>7. \A x \in Request : req'[x].at = "cas" => req[x].at = "cas"
    BY <2>2
  <2> QED BY <1>0, <2>1, <2>3, <2>5, <2>6, <2>7, RotatingKept
<1>2. CASE ~Matches(r)
  <2>1. To(r, "done") /\ UNCHANGED <<doc, form, late>>
    BY <1>2 DEF CommitUpdate
  <2>2. \A x \in Request : req'[x].at = "cas" => req[x].at = "cas"
    BY <2>1, OthersStay
  <2> QED BY <1>0, <2>1, <2>2, RotatingKept
<1> QED BY <1>1, <1>2

(* A rotation writes every secret under the new key.                       *)
LEMMA RewriteRotating ==
  ASSUME Typed, Rotating, NEW r \in Request, RewriteSecrets(r)
  PROVE  Rotating'
<1> DEFINE f == form[r]
           secrets == [s \in Secret |-> IF f.read.secrets[s] = None THEN None
                                        ELSE Sealed(f.read.secrets[s].by, ScriptRing)]
<1>1. /\ doc' = [doc EXCEPT !.secrets = secrets] /\ To(r, "start") /\ RotationEnds
  BY DEF RewriteSecrets
<1>2. \A s \in Secret : secrets[s] # None => secrets[s].key = 2
  BY DEF Sealed, ScriptRing
<1> HIDE DEF secrets
<1>3. doc'.secrets = secrets
  BY <1>1 DEF Typed, DocsTyped, SettingsDoc
<1>4. \A x \in Request : req'[x].at = "cas" => req[x].at = "cas"
  BY <1>1, OthersStay
<1>5. Fresh(doc'.secrets)
  BY <1>2, <1>3 DEF Fresh
<1> QED BY <1>1, <1>4, <1>5, RotatingEnds

(* Whoever loads the document loads it with the deployment's keys.         *)
LEMMA LoadRotating ==
  ASSUME Typed, Rotating, NEW r \in Request, OpenForm(r) \/ LoadUpdate(r)
  PROVE  Rotating'
<1>0. UNCHANGED <<doc, stage, rotated, late>>
  BY DEF OpenForm, LoadUpdate
<1>1. form \in [Request -> FormDoc]
  BY DEF Typed, DocsTyped
<1>2. CASE OpenForm(r)
  <2>1. To(r, "form") /\ form' = [form EXCEPT ![r].seen = doc.version]
    BY <1>2 DEF OpenForm
  <2>2. \A x \in Request : /\ form'[x].ring = form[x].ring /\ form'[x].read = form[x].read
                           /\ form'[x].behind = form[x].behind
    BY <1>1, <2>1 DEF FormDoc
  <2>3. \A x \in Request : req'[x].at = "cas" => req[x].at = "cas"
    BY <2>1, OthersStay
  <2> QED BY <1>0, <2>2, <2>3, RotatingKept
<1>3. CASE LoadUpdate(r) /\ form[r].seen = doc.version
  <2>1. /\ To(r, "cas")
        /\ form' = [form EXCEPT ![r] = [@ EXCEPT !.read = doc, !.ring = Ring(stage),
                                          !.behind = (stage = "old"), !.torn = {}]]
    BY <1>3 DEF LoadUpdate
  <2>2. /\ form'[r].ring = Ring(stage) /\ form'[r].read = doc
        /\ form'[r].behind = (stage = "old")
    BY <1>1, <2>1 DEF FormDoc
  <2>3. \A x \in Request : x # r => form'[x] = form[x]
    BY <1>1, <2>1
  <2>4. \A x \in Request : x # r => (req'[x].at = "cas" => req[x].at = "cas")
    BY <2>1, OthersStay
  <2> QED BY <1>0, <2>2, <2>3, <2>4, RotatingKept
<1>4. CASE LoadUpdate(r) /\ form[r].seen # doc.version
  <2>1. To(r, "done") /\ form' = form
    BY <1>4 DEF LoadUpdate
  <2>2. \A x \in Request : req'[x].at = "cas" => req[x].at = "cas"
    BY <2>1, OthersStay
  <2> QED BY <1>0, <2>1, <2>2, RotatingKept
<1> QED BY <1>2, <1>3, <1>4

(* A rotation that finds every secret under the new key ends with it.      *)
LEMMA LoadRotationRotating ==
  ASSUME Typed, Rotating, NEW r \in Request, LoadRotation(r)
  PROVE  Rotating'
<1> DEFINE old == {s \in Secret : doc.secrets[s] # None /\ ~IsCurrentKey(doc.secrets[s], ScriptRing)}
<1>1. CASE old = {} /\ To(r, "done") /\ RotationEnds
  <2>1. Fresh(doc'.secrets)
    BY <1>1 DEF LoadRotation, Fresh, IsCurrentKey, ScriptRing
  <2>2. \A x \in Request : req'[x].at = "cas" => req[x].at = "cas"
    BY <1>1, OthersStay
  <2> QED BY <1>1, <2>1, <2>2, RotatingEnds
<1>2. CASE /\ To(r, "rewrite") /\ UNCHANGED <<rotated, late>>
           /\ form' = [form EXCEPT ![r] = [@ EXCEPT !.read = doc, !.torn = {}]]
  <2>1. \A x \in Request : req'[x].at = "cas" => req[x].at = "cas" /\ x # r
    BY <1>2, OthersStay
  <2>2. \A x \in Request : x # r => form'[x] = form[x]
    BY <1>2 DEF Typed, DocsTyped
  <2>3. UNCHANGED <<doc, stage>>
    BY DEF LoadRotation
  <2> QED BY <1>2, <2>1, <2>2, <2>3, RotatingKept
<1> QED BY <1>1, <1>2 DEF LoadRotation

LEMMA StepRotating == Typed /\ Rotating /\ [Next]_settingsVars => Rotating'
<1> SUFFICES ASSUME Typed, Rotating, [Next]_settingsVars PROVE Rotating'
  OBVIOUS
<1>1. CASE UNCHANGED settingsVars
  BY <1>1 DEF settingsVars, cacheVars, settingsOnly, Rotating, OldOnly, NewOnly,
              Aged, Fresh, Holds
<1>2. CASE ((\E r \in Request : CacheStep(r) \/ Crash(r)) \/ CacheTime)
           /\ UNCHANGED settingsOnly
  <2>1. \A x \in Request : req'[x].at = "cas" => req[x].at = "cas"
    BY <1>2, CachePlaces
  <2> QED BY <1>2, <2>1, RotatingKept DEF settingsOnly
<1>3. ASSUME NEW r \in Request, SettingsStep(r) PROVE Rotating'
  <2>1. CASE AuditUpdate(r)
    <3>1. To(r, "invalidate") /\ UNCHANGED settingsOnly
      BY <2>1 DEF AuditUpdate
    <3>2. \A x \in Request : req'[x].at = "cas" => req[x].at = "cas"
      BY <3>1, OthersStay
    <3> QED BY <3>1, <3>2, RotatingKept DEF settingsOnly
  <2>2. CASE TakeBackup(r)
    <3>1. To(r, "done") /\ UNCHANGED <<doc, stage, rotated, late, form>>
      BY <2>2 DEF TakeBackup
    <3>2. \A x \in Request : req'[x].at = "cas" => req[x].at = "cas"
      BY <3>1, OthersStay
    <3> QED BY <3>1, <3>2, RotatingKept
  <2>3. CASE Restore(r)
    <3>1. /\ form' = Overtaken("cas", Section \cup Secret)
          /\ UNCHANGED <<stage, rotated, late>>
          /\ doc' = [doc EXCEPT !.exists = TRUE, !.config = backup.config,
                                !.version = backup.version]
      BY <2>3 DEF Restore
    <3>2. doc'.secrets = doc.secrets
      BY <3>1 DEF Typed, DocsTyped, SettingsDoc
    <3>3. \A x \in Request : /\ form'[x].ring = form[x].ring /\ form'[x].read = form[x].read
                             /\ form'[x].behind = form[x].behind
      <4>1. PICK parts : form' = Overtaken("cas", parts)
        BY <3>1
      <4> QED BY <4>1, OvertakingKeeps
    <3>4. \A x \in Request : req'[x].at = "cas" => req[x].at = "cas"
      BY <2>3, RestorePlaces
    <3> QED BY <3>1, <3>2, <3>3, <3>4, RotatingKept
  <2> QED BY <1>3, <2>1, <2>2, <2>3, UpdateRotating, RewriteRotating, LoadRotating,
             LoadRotationRotating DEF SettingsStep
<1>4. CASE DeployBoth \/ DeployNew
  BY <1>4 DEF DeployBoth, DeployNew, Rotating, NewOnly, Fresh, Holds, cacheVars
<1> QED BY <1>1, <1>2, <1>3, <1>4 DEF Next

(* However updates, runs of the script and deployments meet in a key       *)
(* change, the deployment reads every secret until a run has ended, and    *)
(* from then on the new key alone does, until an update commits that was   *)
(* behind that run (secretBox.ts, rotate-settings-key.ts:5-11).            *)
THEOREM SecretsStayReadable == Spec => []SecretsReadable
<1>1. Init => Rotating
  BY InitialOldKey DEF Init, CacheInit, Rotating, OldOnly, Aged
<1>2. Typed /\ Rotating /\ [Next]_settingsVars => Rotating'
  BY StepRotating
<1> QED BY <1>1, <1>2, RotatingReadable, SpecTyped, PTL DEF Spec

-----------------------------------------------------------------------------
(* The document is what the committed updates and restores make of it one  *)
(* after the other.  Whoever is about to write has read the truth, outside *)
(* the parts that changed meanwhile, or its compare-and-set will fail.     *)

(* The settings d show the truth, outside the given parts. *)
Shown(d, parts) ==
  /\ \A s \in Section \ parts : d.config[s] = truth.config[s]
  /\ \A s \in Secret \ parts : Plain(d.secrets)[s] = truth.secrets[s]

(* An update about to commit: a restore came between, or another update    *)
(* did and it will not match, or what it has read is still the truth.      *)
CasRight(r) ==
  \/ doc.exists /\ Section \cup Secret \subseteq form[r].torn
  \/ doc.exists /\ form[r].read.version < doc.version
  \/ doc.version = form[r].read.version /\ Shown(form[r].read, torn \cup form[r].torn)

RewriteRight(r) ==
  \A s \in Secret \ (torn \cup form[r].torn) :
    Plain(form[r].read.secrets)[s] = truth.secrets[s]

Serial ==
  /\ UpdatesSerial
  /\ \A r \in Request : req[r].at = "cas" => CasRight(r)
  /\ \A r \in Request : req[r].at = "rewrite" => RewriteRight(r)

(* A step that leaves the document and the truth: who writes afterwards    *)
(* wrote before, or has just loaded the document.                          *)
LEMMA SerialKept ==
  ASSUME Typed, Serial, UNCHANGED <<doc, truth, torn>>,
         \A x \in Request : req'[x].at \in {"cas", "rewrite"} =>
           \/ /\ req'[x].at = req[x].at /\ form'[x].read = form[x].read
              /\ form'[x].torn = form[x].torn
           \/ form'[x].read = doc /\ form'[x].torn = {}
  PROVE  Serial'
<1>1. UpdatesSerial'
  BY DEF Serial, UpdatesSerial
<1>2. Shown(doc, torn) /\ doc \in SettingsDoc
  BY DEF Serial, UpdatesSerial, Shown, Typed, DocsTyped
<1>3. ASSUME NEW x \in Request, req'[x].at = "cas" PROVE CasRight(x)'
  <2>1. CASE form'[x].read = doc /\ form'[x].torn = {}
    BY <1>2, <2>1 DEF CasRight, Shown
  <2>2. CASE /\ req'[x].at = req[x].at /\ form'[x].read = form[x].read
             /\ form'[x].torn = form[x].torn
    <3>1. CasRight(x)
      BY <1>3, <2>2 DEF Serial
    <3> QED BY <2>2, <3>1 DEF CasRight, Shown
  <2> QED BY <1>3, <2>1, <2>2
<1>4. ASSUME NEW x \in Request, req'[x].at = "rewrite" PROVE RewriteRight(x)'
  <2>1. CASE form'[x].read = doc /\ form'[x].torn = {}
    BY <1>2, <2>1 DEF RewriteRight, Shown
  <2>2. CASE /\ req'[x].at = req[x].at /\ form'[x].read = form[x].read
             /\ form'[x].torn = form[x].torn
    <3>1. RewriteRight(x)
      BY <1>4, <2>2 DEF Serial
    <3> QED BY <2>2, <3>1 DEF RewriteRight
  <2> QED BY <1>4, <2>1, <2>2
<1> QED BY <1>1, <1>3, <1>4 DEF Serial

(* What an update makes of a document and of the truth at once.            *)
LEMMA UpdateShown ==
  ASSUME Typed, NEW r \in Request, CommitUpdate(r), Matches(r)
  PROVE  LET f == form[r]
         IN  /\ \A s \in Section :
                  /\ s \in Touched(r) => doc'.config[s] = truth'.config[s]
                  /\ s \notin Touched(r) => /\ doc'.config[s] = f.read.config[s]
                                            /\ truth'.config[s] = truth.config[s]
             /\ \A s \in Secret :
                  /\ s \in Touched(r) => Plain(doc'.secrets)[s] = truth'.secrets[s]
                  /\ s \notin Touched(r) =>
                       /\ Plain(doc'.secrets)[s] = Plain(f.read.secrets)[s]
                       /\ truth'.secrets[s] = truth.secrets[s]
<1> DEFINE f == form[r]
           secrets == NextSecrets(f.read.secrets, r, f.ring)
<1>1. /\ doc' = [exists |-> TRUE, version |-> f.read.version + 1,
                 config |-> Merged(f.read.config, r), secrets |-> secrets]
      /\ truth'.config = Merged(truth.config, r)
      /\ \A s \in Secret :
           truth'.secrets[s] = CASE Patch[r].secrets[s] = "keep"  -> truth.secrets[s]
                                 [] Patch[r].secrets[s] = "clear" -> None
                                 [] OTHER                         -> r
  BY UpdateWrites
<1>2. Sealed(r, f.ring) # None /\ Sealed(r, f.ring).by = r
  BY FormType, SealedType DEF Typed, Writer
<1>3. ASSUME NEW s \in Section
      PROVE  /\ s \in Touched(r) => doc'.config[s] = truth'.config[s]
             /\ s \notin Touched(r) => /\ doc'.config[s] = f.read.config[s]
                                       /\ truth'.config[s] = truth.config[s]
  <2>1. s \in Touched(r) <=> s \in Patch[r].sections
    BY PartsDistinct DEF Touched
  <2>2. /\ doc'.config[s] = IF s \in Patch[r].sections THEN r ELSE f.read.config[s]
        /\ truth'.config[s] = IF s \in Patch[r].sections THEN r ELSE truth.config[s]
    BY <1>1 DEF Merged
  <2> QED BY <2>1, <2>2
<1>4. ASSUME NEW s \in Secret
      PROVE  /\ s \in Touched(r) => Plain(doc'.secrets)[s] = truth'.secrets[s]
             /\ s \notin Touched(r) => /\ Plain(doc'.secrets)[s] = Plain(f.read.secrets)[s]
                                       /\ truth'.secrets[s] = truth.secrets[s]
  <2>1. s \in Touched(r) <=> Patch[r].secrets[s] # "keep"
    BY PartsDistinct, PatchType DEF Touched, PatchDoc
  <2>2. secrets[s] = CASE Patch[r].secrets[s] = "keep"  -> f.read.secrets[s]
                       [] Patch[r].secrets[s] = "clear" -> None
                       [] OTHER                         -> Sealed(r, f.ring)
    BY DEF NextSecrets
  <2> HIDE DEF secrets, f
  <2>3. /\ Plain(doc'.secrets)[s] = (IF secrets[s] = None THEN None ELSE secrets[s].by)
        /\ Plain(f.read.secrets)[s]
             = (IF f.read.secrets[s] = None THEN None ELSE f.read.secrets[s].by)
    BY <1>1 DEF Plain
  <2> QED BY <1>1, <1>2, <2>1, <2>2, <2>3
<1> QED BY <1>3, <1>4 DEF f

(* The compare-and-set.                                                    *)
LEMMA UpdateSerial ==
  ASSUME Typed, Serial, NEW r \in Request, CommitUpdate(r)
  PROVE  Serial'
<1>1. CASE ~Matches(r)
  <2>1. To(r, "done") /\ UNCHANGED <<doc, truth, torn, form>>
    BY <1>1 DEF CommitUpdate
  <2>2. \A x \in Request : req'[x].at \in {"cas", "rewrite"} => req'[x].at = req[x].at
    BY <2>1, OthersStay
  <2> QED BY <2>1, <2>2, SerialKept
<1>2. CASE Matches(r)
  <2> DEFINE f == form[r]
             T == Touched(r)
  <2>1. /\ Commit({"settings"}, r, [req[r] EXCEPT !.at = "audit", !.todo = Tasks("settings")])
        /\ req[r].at = "cas"
    BY <1>2 DEF CommitUpdate
  <2>2. \A x \in Request : req'[x].at = IF x = r THEN "audit" ELSE req[x].at
    BY <2>1, CommitPlaces
  <2>3. /\ doc'.exists /\ doc'.version = f.read.version + 1
        /\ torn' = (torn \ T) \cup (f.torn \ T)
        /\ form' = Overtaken("rewrite", T \cap Secret)
    BY <1>2, UpdateWrites
  <2>4. \A x \in Request : /\ form'[x].read = form[x].read
                           /\ form'[x].torn = IF req[x].at = "rewrite"
                                              THEN form[x].torn \cup (T \cap Secret)
                                              ELSE form[x].torn
    <3> DEFINE parts == T \cap Secret
    <3>1. form' = Overtaken("rewrite", parts)
      BY <2>3
    <3> HIDE DEF parts
    <3>2. \A x \in Request : /\ form'[x].read = form[x].read
                             /\ form'[x].torn = IF req[x].at = "rewrite"
                                                THEN form[x].torn \cup parts
                                                ELSE form[x].torn
      BY <3>1, OvertakingKeeps
    <3> QED BY <3>2 DEF parts
  <2>5. /\ \A s \in Section :
             /\ s \in T => doc'.config[s] = truth'.config[s]
             /\ s \notin T => /\ doc'.config[s] = f.read.config[s]
                              /\ truth'.config[s] = truth.config[s]
        /\ \A s \in Secret :
             /\ s \in T => Plain(doc'.secrets)[s] = truth'.secrets[s]
             /\ s \notin T => /\ Plain(doc'.secrets)[s] = Plain(f.read.secrets)[s]
                              /\ truth'.secrets[s] = truth.secrets[s]
    BY <1>2, UpdateShown
  <2> HIDE DEF T
  <2>6. CasRight(r) /\ doc.version \in Nat /\ f.read.version \in Nat
    BY <2>1, FormType DEF Serial, Typed, DocsTyped, SettingsDoc
  <2>7. doc.version = f.read.version
    BY <1>2, <2>6 DEF Matches, CasRight
  <2>8. Section \cup Secret \subseteq f.torn \/ Shown(f.read, torn \cup f.torn)
    BY <2>6, <2>7 DEF CasRight
  <2>9. UpdatesSerial'
    <3>1. ASSUME NEW s \in Section, s \notin torn' PROVE doc'.config[s] = truth'.config[s]
      <4>1. CASE s \in T
        BY <2>5, <4>1
      <4>2. CASE s \notin T
        <5>1. s \notin torn /\ s \notin f.torn
          BY <2>3, <3>1, <4>2
        <5>2. f.read.config[s] = truth.config[s]
          BY <2>8, <5>1 DEF Shown
        <5> QED BY <2>5, <4>2, <5>2
      <4> QED BY <4>1, <4>2
    <3>2. ASSUME NEW s \in Secret, s \notin torn'
          PROVE  Plain(doc'.secrets)[s] = truth'.secrets[s]
      <4>1. CASE s \in T
        BY <2>5, <4>1
      <4>2. CASE s \notin T
        <5>1. s \notin torn /\ s \notin f.torn
          BY <2>3, <3>2, <4>2
        <5>2. Plain(f.read.secrets)[s] = truth.secrets[s]
          BY <2>8, <5>1 DEF Shown
        <5> QED BY <2>5, <4>2, <5>2
      <4> QED BY <4>1, <4>2
    <3> QED BY <3>1, <3>2 DEF UpdatesSerial
  <2>10. ASSUME NEW x \in Request, req'[x].at = "cas" PROVE CasRight(x)'
    <3>1. req[x].at = "cas" /\ x # r
      BY <2>2, <2>10
    <3>2. CasRight(x) /\ form'[x].read = form[x].read /\ form'[x].torn = form[x].torn
      BY <2>4, <3>1 DEF Serial
    <3>3. form[x].read.version \in Nat /\ doc'.version = doc.version + 1
      BY <2>3, <2>7, FormType DEF Typed
    <3>4. CASE Section \cup Secret \subseteq form[x].torn
      BY <2>3, <3>2, <3>4 DEF CasRight
    <3>5. CASE form[x].read.version <= doc.version
      <4>1. form'[x].read.version < doc'.version
        BY <2>6, <3>2, <3>3, <3>5
      <4> QED BY <2>3, <4>1 DEF CasRight
    <3>6. (Section \cup Secret \subseteq form[x].torn) \/ form[x].read.version <= doc.version
      BY <2>6, <3>2, <3>3 DEF CasRight
    <3> QED BY <3>4, <3>5, <3>6
  <2>11. ASSUME NEW x \in Request, req'[x].at = "rewrite" PROVE RewriteRight(x)'
    <3>1. req[x].at = "rewrite" /\ RewriteRight(x)
      BY <2>2, <2>11 DEF Serial
    <3>2. form'[x].read = form[x].read /\ form'[x].torn = form[x].torn \cup (T \cap Secret)
      BY <2>4, <3>1
    <3> SUFFICES ASSUME NEW s \in Secret, s \notin torn', s \notin form'[x].torn
                 PROVE  Plain(form'[x].read.secrets)[s] = truth'.secrets[s]
      BY DEF RewriteRight
    <3>3. s \notin T /\ s \notin form[x].torn
      BY <3>2
    <3>4. s \notin torn
      BY <2>3, <3>3
    <3>5. Plain(form[x].read.secrets)[s] = truth.secrets[s]
      BY <3>1, <3>3, <3>4 DEF RewriteRight
    <3> QED BY <2>5, <3>2, <3>3, <3>5
  <2> QED BY <2>9, <2>10, <2>11 DEF Serial
<1> QED BY <1>1, <1>2

(* A rotation writes back the secrets it has read, under another key.      *)
LEMMA RewriteSerial ==
  ASSUME Typed, Serial, NEW r \in Request, RewriteSecrets(r)
  PROVE  Serial'
<1> DEFINE f == form[r]
           secrets == [s \in Secret |-> IF f.read.secrets[s] = None THEN None
                                        ELSE Sealed(f.read.secrets[s].by, ScriptRing)]
<1>1. /\ req[r].at = "rewrite" /\ doc' = [doc EXCEPT !.secrets = secrets]
      /\ torn' = torn \cup f.torn /\ To(r, "start") /\ RotationEnds /\ UNCHANGED truth
  BY DEF RewriteSecrets
<1>0. \A x \in Request : form'[x].read = form[x].read /\ form'[x].torn = form[x].torn
  BY <1>1, RotationEndsType DEF Typed
<1>2. /\ ScriptRing \in Rings /\ f.read.secrets \in [Secret -> SealedDoc \cup {None}]
  BY FormType DEF Typed, ScriptRing, Rings
<1>3. \A s \in Secret : Plain(secrets)[s] = Plain(f.read.secrets)[s]
  <2> TAKE s \in Secret
  <2>1. Plain(f.read.secrets)[s]
          = (IF f.read.secrets[s] = None THEN None ELSE f.read.secrets[s].by)
    BY DEF Plain
  <2>2. CASE f.read.secrets[s] = None
    BY <2>1, <2>2 DEF Plain
  <2>3. CASE f.read.secrets[s] # None
    <3>1. f.read.secrets[s].by \in Writer
      BY <1>2, <2>3 DEF SealedDoc
    <3>2. /\ Sealed(f.read.secrets[s].by, ScriptRing) # None
          /\ Sealed(f.read.secrets[s].by, ScriptRing).by = f.read.secrets[s].by
      BY <1>2, <3>1, SealedType
    <3>3. secrets[s] = Sealed(f.read.secrets[s].by, ScriptRing)
      BY <2>3
    <3> HIDE DEF secrets, f
    <3> QED BY <2>1, <2>3, <3>2, <3>3 DEF Plain
  <2> QED BY <2>2, <2>3
<1> HIDE DEF secrets
<1>4. /\ doc'.secrets = secrets /\ doc'.config = doc.config
      /\ doc'.version = doc.version /\ doc'.exists = doc.exists
  BY <1>1 DEF Typed, DocsTyped, SettingsDoc
<1>5. RewriteRight(r)
  BY <1>1 DEF Serial
<1>6. UpdatesSerial'
  BY <1>1, <1>3, <1>4, <1>5 DEF Serial, UpdatesSerial, RewriteRight
<1>7. \A x \in Request : req'[x].at \in {"cas", "rewrite"} => req'[x].at = req[x].at
  BY <1>1, OthersStay
<1>8. ASSUME NEW x \in Request, req'[x].at = "cas" PROVE CasRight(x)'
  <2>1. CasRight(x)
    BY <1>7, <1>8 DEF Serial
  <2> QED BY <1>0, <1>1, <1>4, <2>1 DEF CasRight, Shown
<1>9. ASSUME NEW x \in Request, req'[x].at = "rewrite" PROVE RewriteRight(x)'
  <2>1. RewriteRight(x)
    BY <1>7, <1>9 DEF Serial
  <2> QED BY <1>0, <1>1, <2>1 DEF RewriteRight
<1> QED BY <1>6, <1>8, <1>9 DEF Serial

(* A restore overtakes every update between its read and its write.        *)
LEMMA RestoreSerial ==
  ASSUME Typed, Serial, NEW r \in Request, Restore(r)
  PROVE  Serial'
<1>1. /\ doc' = [doc EXCEPT !.exists = TRUE, !.config = backup.config,
                            !.version = backup.version]
      /\ truth' = [truth EXCEPT !.config = backup.config]
      /\ torn' = torn \ Section
  BY DEF Restore
<1>2. /\ doc'.exists /\ doc'.config = backup.config /\ doc'.secrets = doc.secrets
      /\ truth'.config = backup.config /\ truth'.secrets = truth.secrets
  BY <1>1 DEF Typed, DocsTyped, SettingsDoc
<1>3. \A x \in Request : /\ form'[x].read = form[x].read
                         /\ form'[x].torn = IF req[x].at = "cas"
                                            THEN form[x].torn \cup (Section \cup Secret)
                                            ELSE form[x].torn
  <2> DEFINE parts == Section \cup Secret
  <2>1. form' = Overtaken("cas", parts)
    BY DEF Restore
  <2> HIDE DEF parts
  <2>2. \A x \in Request : /\ form'[x].read = form[x].read
                           /\ form'[x].torn = IF req[x].at = "cas" THEN form[x].torn \cup parts
                                              ELSE form[x].torn
    BY <2>1, OvertakingKeeps
  <2> QED BY <2>2 DEF parts
<1>4. \A x \in Request : req'[x].at \in {"cas", "rewrite"} => req'[x].at = req[x].at
  BY RestorePlaces
<1>5. \A s \in Secret : s \in torn' <=> s \in torn
  BY <1>1, PartsDistinct
<1>6. UpdatesSerial'
  BY <1>2, <1>5 DEF Serial, UpdatesSerial
<1>7. ASSUME NEW x \in Request, req'[x].at = "cas" PROVE CasRight(x)'
  <2>1. Section \cup Secret \subseteq form'[x].torn
    BY <1>3, <1>4, <1>7
  <2> QED BY <1>2, <2>1 DEF CasRight
<1>8. ASSUME NEW x \in Request, req'[x].at = "rewrite" PROVE RewriteRight(x)'
  <2>1. /\ RewriteRight(x) /\ form'[x].read = form[x].read
        /\ form'[x].torn = form[x].torn
    BY <1>3, <1>4, <1>8 DEF Serial
  <2> QED BY <1>2, <1>5, <2>1 DEF RewriteRight
<1> QED BY <1>6, <1>7, <1>8 DEF Serial

(* Who loads the document to write it loads what the truth shows.          *)
LEMMA LoadSerial ==
  ASSUME Typed, Serial, NEW r \in Request, OpenForm(r) \/ LoadUpdate(r) \/ LoadRotation(r)
  PROVE  Serial'
<1>1. form \in [Request -> FormDoc]
  BY DEF Typed, DocsTyped
<1>2. UNCHANGED <<doc, truth, torn>>
  BY DEF OpenForm, LoadUpdate, LoadRotation
<1>3. PICK at : To(r, at)
  BY DEF OpenForm, LoadUpdate, LoadRotation
<1>4. \A x \in Request : req'[x].at = IF x = r THEN at ELSE req[x].at
  BY <1>3, OthersStay
<1>5. CASE RotationEnds /\ To(r, "done")
  <2>1. \A x \in Request : form'[x].read = form[x].read /\ form'[x].torn = form[x].torn
    BY <1>5, RotationEndsType DEF Typed
  <2>2. \A x \in Request : req'[x].at \in {"cas", "rewrite"} => req'[x].at = req[x].at
    BY <1>5, OthersStay
  <2> QED BY <1>2, <2>1, <2>2, SerialKept
<1>6. ASSUME NEW new, form' = [form EXCEPT ![r] = new],
             To(r, "form") \/ (new.read = doc /\ new.torn = {})
      PROVE  Serial'
  <2>1. \A x \in Request : form'[x] = IF x = r THEN new ELSE form[x]
    BY <1>1, <1>6
  <2>2. req'[r].at \in {"cas", "rewrite"} => form'[r].read = doc /\ form'[r].torn = {}
    BY <1>6, <2>1, OthersStay
  <2> QED BY <1>2, <1>4, <2>1, <2>2, SerialKept
<1>7. CASE OpenForm(r)
  <2>1. PICK new : form' = [form EXCEPT ![r] = new]
    BY <1>7 DEF OpenForm
  <2> QED BY <1>6, <1>7, <2>1 DEF OpenForm
<1>8. CASE LoadUpdate(r) /\ form[r].seen = doc.version
  <2> DEFINE new == [form[r] EXCEPT !.read = doc, !.ring = Ring(stage),
                                    !.behind = (stage = "old"), !.torn = {}]
  <2>1. form' = [form EXCEPT ![r] = new]
    BY <1>8 DEF LoadUpdate
  <2>2. new.read = doc /\ new.torn = {}
    BY FormType DEF Typed, FormDoc
  <2> HIDE DEF new
  <2> QED BY <1>6, <2>1, <2>2
<1>9. CASE LoadUpdate(r) /\ form[r].seen # doc.version
  <2>1. To(r, "done") /\ form' = form
    BY <1>9 DEF LoadUpdate
  <2>2. \A x \in Request : req'[x].at \in {"cas", "rewrite"} => req'[x].at = req[x].at
    BY <2>1, OthersStay
  <2> QED BY <1>2, <2>1, <2>2, SerialKept
<1>10. CASE LoadRotation(r) /\ ~(RotationEnds /\ To(r, "done"))
  <2> DEFINE new == [form[r] EXCEPT !.read = doc, !.torn = {}]
  <2>1. form' = [form EXCEPT ![r] = new]
    BY <1>10 DEF LoadRotation
  <2>2. new.read = doc /\ new.torn = {}
    BY FormType DEF Typed, FormDoc
  <2> HIDE DEF new
  <2> QED BY <1>6, <2>1, <2>2
<1> QED BY <1>5, <1>7, <1>8, <1>9, <1>10

LEMMA StepSerial == Typed /\ Serial /\ [Next]_settingsVars => Serial'
<1> SUFFICES ASSUME Typed, Serial, [Next]_settingsVars PROVE Serial'
  OBVIOUS
<1>1. CASE UNCHANGED settingsVars
  BY <1>1, SerialKept DEF settingsVars, cacheVars, settingsOnly
<1>2. CASE ((\E r \in Request : CacheStep(r) \/ Crash(r)) \/ CacheTime)
           /\ UNCHANGED settingsOnly
  <2>1. \A x \in Request : req'[x].at \in {"cas", "rewrite"} => req'[x].at = req[x].at
    BY <1>2, CachePlaces
  <2> QED BY <1>2, <2>1, SerialKept DEF settingsOnly
<1>3. ASSUME NEW r \in Request, SettingsStep(r) PROVE Serial'
  <2>1. CASE AuditUpdate(r) \/ TakeBackup(r)
    <3>1. PICK at \in {"invalidate", "done"} : To(r, at)
      BY <2>1 DEF AuditUpdate, TakeBackup
    <3>2. \A x \in Request : req'[x].at \in {"cas", "rewrite"} => req'[x].at = req[x].at
      BY <3>1, OthersStay
    <3>3. UNCHANGED <<doc, truth, torn, form>>
      BY <2>1 DEF AuditUpdate, TakeBackup, settingsOnly
    <3> QED BY <3>2, <3>3, SerialKept
  <2> QED BY <1>3, <2>1, LoadSerial, UpdateSerial, RewriteSerial, RestoreSerial
          DEF SettingsStep
<1>4. CASE DeployBoth \/ DeployNew
  <2>1. UNCHANGED <<doc, truth, torn, form, req>>
    BY <1>4 DEF DeployBoth, DeployNew, cacheVars
  <2> QED BY <2>1, SerialKept
<1> QED BY <1>1, <1>2, <1>3, <1>4 DEF Next

(* The document is what the committed updates and restores make of it one  *)
(* after the other, however the updates race ("two racing writers cannot   *)
(* both succeed", settings.service.ts:164), rotations and restores being   *)
(* the two writes that may be torn.                                        *)
THEOREM UpdatesAreSerial == Spec => []UpdatesSerial
<1>1. Init => Serial
  <2> SUFFICES ASSUME Init PROVE Serial
    OBVIOUS
  <2>1. UpdatesSerial
    BY DEF Init, UpdatesSerial
  <2>2. \A r \in Request : req[r].at = "start"
    BY DEF Init, CacheInit
  <2> QED BY <2>1, <2>2 DEF Serial
<1>2. Typed /\ Serial /\ [Next]_settingsVars => Serial'
  BY StepSerial
<1>3. Serial => UpdatesSerial
  BY DEF Serial
<1> QED BY <1>1, <1>2, <1>3, SpecTyped, PTL DEF Spec

-----------------------------------------------------------------------------
(* What explains a stale value in the cache.  The property is inductive:   *)
(* each step makes a value stale with its deletion on the way, or marks it *)
(* as missed.                                                              *)

(* What a step may do to a cached view: drop or refresh it, explain it, or *)
(* leave it and its explanation.                                           *)
Handled(v) ==
  \/ cached'[v] = None \/ cached'[v] = data'[v]
  \/ v \in excused' \/ Deleting(v)'
  \/ /\ cached'[v] = cached[v] /\ data'[v] = data[v]
     /\ Deleting(v) => v \in Indexed /\ v \notin tracked'
     /\ v \in excused => v \in excused'
     /\ v \notin tracked => v \notin tracked'

LEMMA StaleKept ==
  ASSUME Typed', StaleExplained, \A v \in View : Handled(v)
  PROVE  StaleExplained'
<1> SUFFICES ASSUME NEW v \in View, cached'[v] # None, cached'[v] < data'[v]
             PROVE  Deleting(v)' \/ v \in excused' \/ (v \in Indexed /\ v \notin tracked')
  BY DEF StaleExplained
<1>1. cached'[v] # data'[v]
  <2>1. cached'[v] \in Nat /\ data'[v] \in Nat
    BY DEF Typed, CacheTyped
  <2> QED BY <2>1
<1> QED BY <1>1 DEF Handled, StaleExplained

(* A step that leaves the cache alone and every task where it was.         *)
LEMMA TasksStay ==
  ASSUME \A x \in Request : req[x].todo \subseteq req'[x].todo,
         NEW v \in View, cached'[v] = cached[v], data'[v] = data[v],
         v \in excused => v \in excused', v \notin tracked => v \notin tracked'
  PROVE  Handled(v)
<1>1. Deleting(v) => Deleting(v)'
  BY DEF Deleting
<1> QED BY <1>1 DEF Handled

LEMMA MoveHandled ==
  ASSUME Typed, NEW r \in Request, NEW at, To(r, at),
         UNCHANGED <<data, cached, tracked, excused>>
  PROVE  \A v \in View : Handled(v)
<1>1. \A x \in Request : req'[x].todo = req[x].todo
  BY DEF Typed, CacheTyped, ReqDoc, To
<1> QED BY <1>1, TasksStay

LEMMA ReadHandled ==
  ASSUME Typed, NEW r \in Request, Get(r) \/ Load(r) \/ Store(r) \/ ReadWithout(r)
  PROVE  \A v \in View : Handled(v)
<1>1. req \in [Request -> ReqDoc]
  BY DEF Typed, CacheTyped
<1>2. \A x \in Request : req'[x].todo = req[x].todo
  <2>1. CASE Get(r) \/ Store(r) \/ ReadWithout(r)
    <3>1. PICK at : req' = [req EXCEPT ![r].at = at]
      BY <2>1 DEF Get, Store, ReadWithout
    <3> QED BY <1>1, <3>1 DEF ReqDoc
  <2>2. CASE Load(r)
    <3>1. PICK val : req' = [req EXCEPT ![r] = [req[r] EXCEPT !.val = val, !.at = "store"]]
      BY <2>2 DEF Load
    <3> QED BY <1>1, <3>1 DEF ReqDoc
  <2> QED BY <2>1, <2>2
<1>3. CASE Get(r) \/ Load(r) \/ ReadWithout(r)
  BY <1>2, <1>3, TasksStay DEF Get, Load, ReadWithout
<1>4. CASE Store(r)
  <2> TAKE v \in View
  <2>1. CASE v = req[r].what
    <3>1. cached'[v] = req[r].val /\ data' = data
      BY <1>4, <2>1 DEF Store, Typed, CacheTyped
    <3>2. req[r].val \in Nat /\ data[v] \in Nat /\ req[r].val <= data[v]
      BY <1>4, <2>1 DEF Store, Typed, CacheTyped, ReqDoc, Right
    <3>3. CASE req[r].val < data[v]
      BY <1>4, <2>1, <3>3 DEF Store, Handled
    <3>4. CASE req[r].val = data[v]
      BY <3>1, <3>4 DEF Handled
    <3> QED BY <3>2, <3>3, <3>4
  <2>2. CASE v # req[r].what
    <3>1. /\ cached'[v] = cached[v] /\ data' = data
          /\ v \in excused => v \in excused'
          /\ v \notin tracked => v \notin tracked'
      BY <1>4, <2>2 DEF Store, Typed, CacheTyped
    <3> QED BY <1>2, <3>1, TasksStay
  <2> QED BY <2>1, <2>2
<1> QED BY <1>3, <1>4

(* A commit sends the deletion of everything it changed.                   *)
LEMMA CommitHandled ==
  ASSUME Typed, NEW r \in Request, NEW at, NEW s \in Source, req[r].todo = {},
         Commit(Shows(s), r, [req[r] EXCEPT !.at = at, !.todo = Tasks(s)]),
         UNCHANGED <<cached, tracked, excused>>
  PROVE  \A v \in View : Handled(v)
<1>1. req \in [Request -> ReqDoc]
  BY DEF Typed, CacheTyped
<1>2. /\ req'[r].todo = Tasks(s) /\ \A x \in Request : x # r => req'[x] = req[x]
  BY <1>1 DEF Commit, ReqDoc
<1>3. \A x \in Request : req[x].todo \subseteq req'[x].todo
  BY <1>2
<1> TAKE v \in View
<1>4. CASE v \in Shows(s)
  <2>1. v \in Invalidated(s)
    BY <1>4 DEF Shows, Invalidated
  <2> DEFINE t == [view |-> v, cmd |-> IF v \in Indexed THEN "members" ELSE "del"]
  <2>2. t \in Tasks(s) /\ t.view = v /\ t.cmd # "unindex"
    BY <2>1 DEF Tasks
  <2>3. Deleting(v)'
    BY <1>2, <2>2 DEF Deleting
  <2> QED BY <2>3 DEF Handled
<1>5. CASE v \notin Shows(s)
  <2>1. data'[v] = data[v]
    BY <1>5 DEF Commit
  <2> QED BY <1>3, <2>1, TasksStay
<1> QED BY <1>4, <1>5

LEMMA WriteHandled ==
  ASSUME Typed, NEW r \in Request, Write(r) \/ MoveStock(r) \/ CommitStock(r)
  PROVE  \A v \in View : Handled(v)
<1>1. /\ req \in [Request -> ReqDoc] /\ Right(req[r], data)
      /\ req[r].kind = "write" /\ req[r].what \in Source
  BY DEF Typed, CacheTyped, Right, Write, MoveStock, CommitStock
<1>2. CASE Write(r)
  <2>1. req[r].todo = {}
    BY <1>1, <1>2 DEF Write, Right
  <2> QED BY <1>1, <1>2, <2>1, CommitHandled DEF Write
<1>3. CASE MoveStock(r)
  <2>1. req[r].todo = {}
    BY <1>1, <1>3 DEF MoveStock, Right
  <2>2. \A x \in Request : req[x].todo \subseteq req'[x].todo
    BY <1>1, <1>3, <2>1 DEF MoveStock
  <2> QED BY <1>3, <2>2, TasksStay DEF MoveStock
<1>4. CASE CommitStock(r)
  <2>1. \A x \in Request : req'[x].todo = req[x].todo
    BY <1>1, <1>4 DEF CommitStock, Commit, ReqDoc
  <2>2. /\ cached' = cached /\ tracked' = tracked /\ excused \subseteq excused'
        /\ \A v \in Shows(req[r].what) : cached[v] # None => v \in excused'
        /\ \A v \in View : v \notin Shows(req[r].what) => data'[v] = data[v]
    BY <1>4 DEF CommitStock, Commit, Missed
  <2> TAKE v \in View
  <2>3. CASE v \in Shows(req[r].what)
    BY <2>2, <2>3 DEF Handled
  <2>4. CASE v \notin Shows(req[r].what)
    BY <2>1, <2>2, <2>4, TasksStay
  <2> QED BY <2>3, <2>4
<1> QED BY <1>2, <1>3, <1>4

(* The commands of an invalidation: only the last one, which deletes the   *)
(* index, may pass a value by, and that one is out of its index then.      *)
LEMMA InvalidationHandled ==
  ASSUME Typed, NEW r \in Request,
         (\E t \in req[r].todo : Send(r, t) \/ GiveUp(r, t)) \/ Finish(r) \/ Crash(r)
  PROVE  \A v \in View : Handled(v)
<1>1. /\ req \in [Request -> ReqDoc] /\ Right(req[r], data) /\ req[r] \in ReqDoc
  BY DEF Typed, CacheTyped
<1>2. CASE Finish(r)
  <2>1. \A x \in Request : req'[x].todo = req[x].todo
    BY <1>1, <1>2 DEF Finish, ReqDoc
  <2> QED BY <1>2, <2>1, TasksStay DEF Finish
<1>3. CASE Crash(r)
  <2>1. /\ \A x \in Request : x # r => req'[x] = req[x]
        /\ \A t \in req[r].todo : cached[t.view] # None /\ t.view \in View => t.view \in excused'
        /\ excused \subseteq excused' /\ UNCHANGED <<data, cached, tracked>>
    BY <1>1, <1>3 DEF Crash, Missed
  <2> TAKE v \in View
  <2>2. CASE \E t \in req[r].todo : t.view = v
    BY <2>1, <2>2 DEF Handled
  <2>3. CASE ~\E t \in req[r].todo : t.view = v
    <3>1. Deleting(v) => Deleting(v)'
      BY <2>1, <2>3 DEF Deleting
    <3> QED BY <2>1, <3>1 DEF Handled
  <2> QED BY <2>2, <2>3
<1>4. ASSUME NEW t \in req[r].todo, GiveUp(r, t) PROVE \A v \in View : Handled(v)
  <2>1. /\ \A x \in Request : x # r => req'[x] = req[x]
        /\ req'[r].todo = req[r].todo \ {t}
        /\ t.view \in View => (cached[t.view] # None => t.view \in excused')
        /\ excused \subseteq excused' /\ UNCHANGED <<data, cached, tracked>>
    BY <1>1, <1>4 DEF GiveUp, Missed, ReqDoc
  <2> TAKE v \in View
  <2>2. CASE v = t.view
    BY <2>1, <2>2 DEF Handled
  <2>3. CASE v # t.view
    <3>1. Deleting(v) => Deleting(v)'
      BY <2>1, <2>3 DEF Deleting
    <3> QED BY <2>1, <3>1 DEF Handled
  <2> QED BY <2>2, <2>3
<1>5. ASSUME NEW t \in req[r].todo, Send(r, t) PROVE \A v \in View : Handled(v)
  <2> DEFINE w == t.view
             next == CASE t.cmd = "members" -> {IF w \in tracked THEN "delete" ELSE "unindex"}
                       [] t.cmd = "delete"  -> {"unindex"}
                       [] OTHER             -> {}
  <2>1. t \in Task /\ (t.cmd # "del" => w \in Indexed)
    BY <1>1 DEF ReqDoc, Right
  <2>2. /\ \A x \in Request : x # r => req'[x] = req[x]
        /\ req'[r].todo = (req[r].todo \ {t}) \cup {[view |-> w, cmd |-> c] : c \in next}
        /\ data' = data
    BY <1>1, <1>5 DEF Send, ReqDoc
  <2>3. /\ cached' = IF t.cmd \in {"delete", "del"} THEN [cached EXCEPT ![w] = None] ELSE cached
        /\ excused' = IF t.cmd \in {"delete", "del"} THEN excused \ {w} ELSE excused
        /\ tracked' = IF t.cmd = "unindex" THEN tracked \ {w} ELSE tracked
    BY <1>5 DEF Send
  <2> TAKE v \in View
  <2>4. CASE v # w
    <3>1. Deleting(v) => Deleting(v)'
      BY <2>2, <2>4 DEF Deleting
    <3>2. cached'[v] = cached[v] /\ (v \in excused => v \in excused')
          /\ (v \notin tracked => v \notin tracked')
      BY <2>3, <2>4 DEF Typed, CacheTyped
    <3> QED BY <2>2, <3>1, <3>2 DEF Handled
  <2>5. CASE v = w /\ t.cmd \in {"delete", "del"}
    BY <2>3, <2>5 DEF Handled, Typed, CacheTyped
  <2>6. CASE v = w /\ t.cmd = "members" /\ w \in tracked
    <3>1. "delete" \in next
      BY <2>6
    <3> HIDE DEF next
    <3>2. [view |-> v, cmd |-> "delete"] \in req'[r].todo
      BY <2>2, <2>6, <3>1
    <3>3. Deleting(v)'
      BY <3>2 DEF Deleting
    <3> QED BY <3>3 DEF Handled
  <2>7. CASE v = w /\ (t.cmd = "unindex" \/ (t.cmd = "members" /\ w \notin tracked))
    <3>1. /\ cached' = cached /\ excused' = excused /\ w \notin tracked'
          /\ w \in Indexed /\ (v \notin tracked => v \notin tracked')
      BY <2>1, <2>3, <2>7
    <3> QED BY <2>2, <2>7, <3>1 DEF Handled
  <2>8. t.cmd \in {"members", "delete", "unindex", "del"}
    BY <2>1 DEF Task, Command
  <2>9. \/ v # w
        \/ v = w /\ t.cmd \in {"delete", "del"}
        \/ v = w /\ t.cmd = "members" /\ w \in tracked
        \/ v = w /\ (t.cmd = "unindex" \/ (t.cmd = "members" /\ w \notin tracked))
    BY <2>8
  <2> HIDE DEF next, w
  <2> QED BY <2>4, <2>5, <2>6, <2>7, <2>9
<1> QED BY <1>2, <1>3, <1>4, <1>5

LEMMA UpdateHandled ==
  ASSUME Typed, NEW r \in Request, CommitUpdate(r)
  PROVE  \A v \in View : Handled(v)
<1>1. CASE Matches(r)
  <2>1. /\ Commit({"settings"}, r, [req[r] EXCEPT !.at = "audit", !.todo = Tasks("settings")])
        /\ UNCHANGED <<cached, tracked, excused>> /\ req[r].at = "cas"
    BY <1>1 DEF CommitUpdate
  <2>2. req[r].todo = {}
    BY <2>1 DEF Typed, CacheTyped, Right
  <2>3. Shows("settings") = {"settings"} /\ "settings" \in Source
    BY DEF Shows, Source
  <2> QED BY <2>1, <2>2, <2>3, CommitHandled
<1>2. CASE ~Matches(r)
  <2>1. To(r, "done") /\ UNCHANGED <<data, cached, tracked, excused>>
    BY <1>2 DEF CommitUpdate
  <2> QED BY <2>1, MoveHandled
<1> QED BY <1>1, <1>2

(* A restore changes every view, and marks every cached one as missed.     *)
LEMMA RestoreHandled ==
  ASSUME NEW r \in Request, Restore(r)
  PROVE  \A v \in View : Handled(v)
<1>1. cached' = cached /\ \A v \in View : cached[v] # None => v \in excused'
  BY DEF Restore, Missed
<1> QED BY <1>1 DEF Handled

LEMMA TimeHandled ==
  ASSUME Typed, CacheTime
  PROVE  \A v \in View : Handled(v)
<1>1. ASSUME NEW w \in View, Expire(w) PROVE \A v \in View : Handled(v)
  <2> TAKE v \in View
  <2>1. CASE v = w
    BY <1>1, <2>1 DEF Expire, Handled, Typed, CacheTyped
  <2>2. CASE v # w
    <3>1. /\ cached'[v] = cached[v] /\ (v \in excused => v \in excused')
          /\ UNCHANGED <<data, tracked, req>>
      BY <1>1, <2>2 DEF Expire, Typed, CacheTyped
    <3> QED BY <3>1, TasksStay
  <2> QED BY <2>1, <2>2
<1>2. ASSUME NEW i \in Instance, CooldownEnds(i) PROVE \A v \in View : Handled(v)
  BY <1>2, TasksStay DEF CooldownEnds
<1> QED BY <1>1, <1>2 DEF CacheTime

LEMMA StepHandled ==
  ASSUME Typed, [Next]_settingsVars
  PROVE  \A v \in View : Handled(v)
<1>1. CASE UNCHANGED cacheVars
  BY <1>1, TasksStay DEF cacheVars
<1>2. ASSUME NEW r \in Request, CacheStep(r) \/ Crash(r)
      PROVE  \A v \in View : Handled(v)
  BY <1>2, ReadHandled, WriteHandled, InvalidationHandled DEF CacheStep
<1>3. ASSUME NEW r \in Request, SettingsStep(r)
      PROVE  \A v \in View : Handled(v)
  <2>1. CASE OpenForm(r)
    BY <2>1, MoveHandled DEF OpenForm
  <2>2. CASE LoadUpdate(r)
    <3>1. PICK at : To(r, at)
      BY <2>2 DEF LoadUpdate
    <3> QED BY <2>2, <3>1, MoveHandled DEF LoadUpdate
  <2>3. CASE AuditUpdate(r)
    BY <2>3, MoveHandled DEF AuditUpdate
  <2>4. CASE LoadRotation(r)
    <3>1. PICK at : To(r, at)
      BY <2>4 DEF LoadRotation
    <3> QED BY <2>4, <3>1, MoveHandled DEF LoadRotation
  <2>5. CASE RewriteSecrets(r)
    BY <2>5, MoveHandled DEF RewriteSecrets
  <2>6. CASE TakeBackup(r)
    BY <2>6, MoveHandled DEF TakeBackup
  <2> QED BY <1>3, <2>1, <2>2, <2>3, <2>4, <2>5, <2>6, UpdateHandled, RestoreHandled
          DEF SettingsStep
<1>4. CASE DeployBoth \/ DeployNew
  BY <1>1, <1>4 DEF DeployBoth, DeployNew
<1> QED BY <1>1, <1>2, <1>3, <1>4, TimeHandled DEF Next, settingsVars

(* A cached value older than the database has its deletion on the way, has *)
(* missed it, or has dropped out of its index (cacheAside.ts, and the      *)
(* services' calls of invalidate.ts), wherever the requests fail or stop.  *)
THEOREM StaleIsExplained == Spec => []StaleExplained
<1>1. Init => StaleExplained
  <2> SUFFICES ASSUME Init PROVE StaleExplained
    OBVIOUS
  <2>1. \A v \in View : data[v] = 0 /\ (cached[v] = None \/ cached[v] = 0)
    BY DEF Init, CacheInit
  <2> QED BY <2>1 DEF StaleExplained
<1>2. Typed /\ Typed' /\ StaleExplained /\ [Next]_settingsVars => StaleExplained'
  BY StepHandled, StaleKept
<1> QED BY <1>1, <1>2, SpecTyped, PTL DEF Spec

=============================================================================
