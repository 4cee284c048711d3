------------------------------- MODULE Cache -------------------------------
(***************************************************************************)
(* src/src/cache: the cache-aside of the public reads in Redis, and the    *)
(* invalidations that the services send after (or, for stock, before) a    *)
(* commit.  One key stands for the keys of a view.                         *)
(*                                                                         *)
(* Redis executes one command at a time; the invalidations of one request  *)
(* run concurrently.  A command may fail, which disables the cache for the *)
(* instance for a while, and a function may be killed anywhere.            *)
(***************************************************************************)
EXTENDS Integers, FiniteSets

CONSTANTS
  Request, Instance, None,
  Host,      \* the function instance that serves a request
  Workload   \* what the requests ask for, and the views cached at the start

VARIABLES
  data,     \* view: number of commits that changed what it shows
  cached,   \* view: the number the cached value was read at, or None
  tracked,  \* views whose key is a member of their index set
  cooling,  \* instances that have disabled Redis
  req,      \* requests: kind, what, at, val, todo
  excused   \* history: cached views that missed an invalidation

cacheVars == <<data, cached, tracked, cooling, req, excused>>

Catalogue == {"products", "product"}   \* product lists, product details
Indexed   == Catalogue \cup {"reviews"}
View      == Indexed \cup {"categories", "settings"}
Source    == {"product", "stock", "category", "review", "settings"}

Command == {"members", "delete", "unindex", "del"}
Task    == [view : View, cmd : Command]
Kind    == {"read", "write", "update", "rotate", "backup", "restore", "none"}
Job     == [kind : Kind, what : View \cup Source \cup {None}]

(* Where a request may be, the places of Settings included. *)
Place == {"start", "load", "store", "commit", "invalidate", "done", "killed",
          "form", "cas", "audit", "rewrite"}

ASSUME NoneIsNoView    == None \notin View \cup Source \cup Int
ASSUME HostType        == Host \in [Request -> Instance]
ASSUME CacheWorkload   ==
  \A w \in Workload :
    /\ w.job \in [Request -> Job] /\ w.warm \subseteq View
    /\ \A r \in Request : /\ w.job[r].kind = "read"  => w.job[r].what \in View
                          /\ w.job[r].kind = "write" => w.job[r].what \in Source

-----------------------------------------------------------------------------
(* What a source's commit changes in the public payloads. *)
Shows(s) ==
  CASE s = "category" -> {"categories"} \cup Catalogue
    [] s = "review"   -> {"reviews"} \cup Catalogue
    [] s = "settings" -> {"settings"}
    [] OTHER          -> Catalogue

(* Mutant of Invalidated: a category change leaves the product payloads. *)
InvalidatedOwnOnly(s) == IF s = "category" THEN {"categories"} ELSE Shows(s)

(* The views invalidate.ts wipes for it: an index set, or a single key. *)
Invalidated(s) ==
  CASE s = "category" -> {"categories"} \cup Catalogue
    [] s = "review"   -> {"reviews"} \cup Catalogue
    [] s = "settings" -> {"settings"}
    [] OTHER          -> Catalogue

Tasks(s) == {[view |-> v, cmd |-> IF v \in Indexed THEN "members" ELSE "del"] :
               v \in Invalidated(s)}

(* Mutant of Lifetime: the keys are set without EX. *)
LifetimeNever(v) == 0

(* CacheTtl, in seconds; 0 would be for ever. *)
Lifetime(v) == 3600

Healthy(r) == Host[r] \notin cooling

(* Commits change the views vs; done is what request r becomes. *)
Commit(vs, r, done) ==
  /\ data' = [v \in View |-> IF v \in vs THEN data[v] + 1 ELSE data[v]]
  /\ req' = [req EXCEPT ![r] = done]

Missed(vs) == {v \in vs : cached[v] # None}

-----------------------------------------------------------------------------
(* cacheGetOrSet *)

Get(r) ==
  LET q == req[r]
  IN  /\ q.kind = "read" /\ q.at = "start" /\ Healthy(r)
      /\ req' = [req EXCEPT ![r].at = IF cached[q.what] # None THEN "done" ELSE "load"]
      /\ UNCHANGED <<data, cached, tracked, cooling, excused>>

(* The loader, at its first read of the database. *)
Load(r) ==
  LET q == req[r]
  IN  /\ q.kind = "read" /\ q.at = "load"
      /\ req' = [req EXCEPT ![r] = [q EXCEPT !.val = data[q.what], !.at = "store"]]
      /\ UNCHANGED <<data, cached, tracked, cooling, excused>>

(* MULTI SET EX, SADD: at once. *)
Store(r) ==
  LET q == req[r]
      v == q.what
  IN  /\ q.kind = "read" /\ q.at = "store" /\ Healthy(r)
      /\ cached' = [cached EXCEPT ![v] = q.val]
      /\ tracked' = IF v \in Indexed THEN tracked \cup {v} ELSE tracked
      /\ excused' = IF q.val < data[v] THEN excused \cup {v} ELSE excused \ {v}
      /\ req' = [req EXCEPT ![r].at = "done"]
      /\ UNCHANGED <<data, cooling>>

(* A read's command fails, or Redis is disabled: on to the database. *)
ReadWithout(r) ==
  LET q == req[r]
  IN  /\ q.kind = "read" /\ q.at \in {"start", "store"}
      /\ req' = [req EXCEPT ![r].at = IF q.at = "start" THEN "load" ELSE "done"]
      /\ cooling' = cooling \cup {Host[r]}
      /\ UNCHANGED <<data, cached, tracked, excused>>

-----------------------------------------------------------------------------
(* Writers: a commit, then the invalidations. *)

Write(r) ==
  LET q == req[r]
  IN  /\ q.kind = "write" /\ q.at = "start" /\ q.what # "stock"
      /\ Commit(Shows(q.what), r, [q EXCEPT !.at = "invalidate", !.todo = Tasks(q.what)])
      /\ UNCHANGED <<cached, tracked, cooling, excused>>

(* reserveStock and releaseStock start them, and do not wait, before the *)
(* transaction they run in commits.                                      *)
MoveStock(r) ==
  LET q == req[r]
  IN  /\ q.kind = "write" /\ q.at = "start" /\ q.what = "stock"
      /\ req' = [req EXCEPT ![r] = [q EXCEPT !.at = "commit", !.todo = Tasks(q.what)]]
      /\ UNCHANGED <<data, cached, tracked, cooling, excused>>

CommitStock(r) ==
  LET q == req[r]
  IN  /\ q.at = "commit"
      /\ Commit(Shows(q.what), r, [q EXCEPT !.at = "invalidate"])
      /\ excused' = excused \cup Missed(Shows(q.what))
      /\ UNCHANGED <<cached, tracked, cooling>>

Sending(r) == req[r].at \in {"invalidate", "commit"}

(* The command of a task, and the one that follows in cacheInvalidateIndex: *)
(* SMEMBERS, DEL of the members it found, DEL of the index.                 *)
Send(r, t) ==
  LET q == req[r]
      v == t.view
      next == CASE t.cmd = "members" -> {IF v \in tracked THEN "delete" ELSE "unindex"}
                [] t.cmd = "delete"  -> {"unindex"}
                [] OTHER             -> {}
      removes == t.cmd \in {"delete", "del"}
  IN  /\ Sending(r) /\ t \in q.todo /\ Healthy(r)
      /\ cached' = IF removes THEN [cached EXCEPT ![v] = None] ELSE cached
      /\ excused' = IF removes THEN excused \ {v} ELSE excused
      /\ tracked' = IF t.cmd = "unindex" THEN tracked \ {v} ELSE tracked
      /\ req' = [req EXCEPT ![r].todo = (@ \ {t}) \cup {[view |-> v, cmd |-> c] : c \in next}]
      /\ UNCHANGED <<data, cooling>>

(* withClient: the task is given up, and Redis disabled on the instance. *)
GiveUp(r, t) ==
  /\ Sending(r) /\ t \in req[r].todo
  /\ req' = [req EXCEPT ![r].todo = @ \ {t}]
  /\ cooling' = cooling \cup {Host[r]}
  /\ excused' = excused \cup Missed({t.view})
  /\ UNCHANGED <<data, cached, tracked>>

Finish(r) ==
  /\ req[r].at = "invalidate" /\ req[r].todo = {}
  /\ req' = [req EXCEPT ![r].at = "done"]
  /\ UNCHANGED <<data, cached, tracked, cooling, excused>>

(* The function is killed; a transaction that has not committed aborts. *)
Crash(r) ==
  /\ req[r].at \notin {"start", "done", "killed"}
  /\ req' = [req EXCEPT ![r] = [@ EXCEPT !.at = "killed", !.todo = {}]]
  /\ excused' = excused \cup Missed({t.view : t \in req[r].todo})
  /\ UNCHANGED <<data, cached, tracked, cooling>>

-----------------------------------------------------------------------------
(* Time: a key expires (an index set does not); a cooldown ends. *)

Expire(v) ==
  /\ cached[v] # None /\ Lifetime(v) # 0
  /\ cached' = [cached EXCEPT ![v] = None]
  /\ excused' = excused \ {v}
  /\ UNCHANGED <<data, tracked, cooling, req>>

CooldownEnds(i) ==
  /\ i \in cooling /\ cooling' = cooling \ {i}
  /\ UNCHANGED <<data, cached, tracked, req, excused>>

CacheStep(r) ==
  \/ Get(r) \/ Load(r) \/ Store(r) \/ ReadWithout(r)
  \/ Write(r) \/ MoveStock(r) \/ CommitStock(r)
  \/ \E t \in req[r].todo : Send(r, t) \/ GiveUp(r, t)
  \/ Finish(r)

CacheTime ==
  \/ \E v \in View : Expire(v)
  \/ \E i \in Instance : CooldownEnds(i)

CacheInit ==
  /\ data = [v \in View |-> 0]
  /\ \E w \in Workload :
       /\ cached = [v \in View |-> IF v \in w.warm THEN 0 ELSE None]
       /\ req = [r \in Request |-> [kind |-> w.job[r].kind, what |-> w.job[r].what,
                                    at |-> "start", val |-> 0, todo |-> {}]]
  /\ tracked = {v \in Indexed : cached[v] # None}
  /\ cooling = {} /\ excused = {}

-----------------------------------------------------------------------------
CacheTypeOK ==
  /\ data \in [View -> Nat]
  /\ \A v \in View : cached[v] # None => cached[v] \in 0..data[v]
  /\ tracked \subseteq Indexed /\ cooling \subseteq Instance
  /\ req \in [Request -> [kind : Kind, what : View \cup Source \cup {None},
                          at : Place, val : Nat, todo : SUBSET Task]]
  /\ excused \subseteq {v \in View : cached[v] # None}

Deleting(v) == \E r \in Request : \E t \in req[r].todo :
                 t.view = v /\ t.cmd # "unindex"

(* A value older than the database stays in the cache only when a deletion  *)
(* of it is on its way, its key has dropped out of the index (a fill between *)
(* the two DELs of cacheInvalidateIndex, cacheAside.ts:76), or it missed its *)
(* invalidation: filled by a read that began before the commit, or the       *)
(* command failed, was cut off, or came before the commit.                   *)
StaleExplained ==
  \A v \in View : cached[v] # None /\ cached[v] < data[v] =>
    Deleting(v) \/ v \in excused \/ (v \in Indexed /\ v \notin tracked)

(* Whatever failed or raced, the public reads end up showing the database.  *)
EventuallyFresh ==
  <>[](\A v \in View : cached[v] # None => cached[v] = data[v])

=============================================================================
