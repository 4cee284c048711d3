------------------------------ MODULE Settings ------------------------------
(***************************************************************************)
(* settings.service.ts with the cache it invalidates: one document with a  *)
(* version, its integration secrets encrypted under a ring of keys, the    *)
(* update at an expected version, the re-encryption of                     *)
(* rotate-settings-key.ts, and the backup and restore of backup.service.ts *)
(* (whose transaction also overwrites what every other view shows).        *)
(***************************************************************************)
EXTENDS Cache

CONSTANTS
  Section,   \* parts of the config a patch may touch
  Secret,    \* SECRET_PATHS
  Patch,     \* what each update asks for
  Initial    \* the document at the start

VARIABLES
  doc,       \* exists, version, config: section -> writer, secrets: [by, key]
  backup,    \* the last backup taken: config and version, or None
  stage,     \* the deployment's keys: "old", "both", "new"
  rotated,   \* a run of the rotation script has ended
  late,      \* history: since then an update committed that was behind it
  form,      \* update and rotation requests: what they have read
  truth,     \* history: config and secrets as the committed changes made them
  torn       \* history: sections and secrets two non-serial changes met on

settingsOnly == <<doc, backup, stage, rotated, late, form, truth, torn>>
settingsVars == <<cacheVars, settingsOnly>>

Writer == Request \cup {"seed"}
Key    == {1, 2}
SealedDoc == [by : Writer, key : Key]
PatchDoc ==
  [sections : SUBSET Section, secrets : [Secret -> {"keep", "clear", "set"}]]
SettingsDoc ==
  [exists : BOOLEAN, version : Nat, config : [Section -> Writer],
   secrets : [Secret -> SealedDoc \cup {None}]]
FormDoc ==
  [seen : Nat, ring : {<<1>>, <<2, 1>>, <<2>>}, behind : BOOLEAN,
   read : SettingsDoc, torn : SUBSET (Section \cup Secret)]

ASSUME PatchType    == Patch \in [Request -> PatchDoc]
ASSUME InitialType  == Initial \in SettingsDoc
ASSUME PartsDistinct == Section \cap Secret = {}
ASSUME NoneIsNoSecret == None \notin SealedDoc
ASSUME InitialOldKey == \A s \in Secret : Initial.secrets[s] # None => Initial.secrets[s].key = 1

-----------------------------------------------------------------------------
(* secretBox.ts: a ring of keys, the current one first *)

(* Mutant of Ring: while both keys are known the old one comes first. *)
RingOldFirst(st) == CASE st = "old" -> <<1>> [] st = "both" -> <<1, 2>> [] OTHER -> <<2>>

(* SETTINGS_ENCRYPTION_KEY, then SETTINGS_ENCRYPTION_KEY_PREVIOUS *)
Ring(st) == CASE st = "old" -> <<1>> [] st = "both" -> <<2, 1>> [] OTHER -> <<2>>

(* The script adds OLD_SETTINGS_ENCRYPTION_KEY to its own ring. *)
ScriptRing == <<2, 1>>

Sealed(by, ring) == [by |-> by, key |-> ring[1]]

Readable(c, ring) == \E i \in DOMAIN ring : ring[i] = c.key

(* Mutant of IsCurrentKey: any key of the ring passes for the current one. *)
IsCurrentKeyAny(c, ring) == Readable(c, ring)

IsCurrentKey(c, ring) == c.key = ring[1]

Plain(secrets) == [s \in Secret |-> IF secrets[s] = None THEN None ELSE secrets[s].by]

(* toAdmin, getSecret and getDecryptedSecrets throw on one they cannot read. *)
Opens(secrets, ring) ==
  \A s \in {x \in Secret : secrets[x] # None} : Readable(secrets[s], ring)

Idle(r) == req[r].at = "start"
To(r, at) == req' = [req EXCEPT ![r].at = at]

(* These parts change between the read and the write of requests at that step. *)
Overtaken(at, parts) ==
  [x \in Request |-> IF req[x].at = at THEN [form[x] EXCEPT !.torn = @ \cup parts]
                     ELSE form[x]]

-----------------------------------------------------------------------------
(* updateSettings *)

(* The admin app opens the settings (getAdminSettings) and keeps the version. *)
OpenForm(r) ==
  /\ req[r].kind = "update" /\ Idle(r) /\ Opens(doc.secrets, Ring(stage))
  /\ form' = [form EXCEPT ![r].seen = doc.version]
  /\ To(r, "form")
  /\ UNCHANGED <<data, cached, tracked, cooling, excused,
                 doc, backup, stage, rotated, late, truth, torn>>

(* The PATCH: the document is read and the version compared.  A deployment  *)
(* that knows the old key alone is behind the rotation.                     *)
LoadUpdate(r) ==
  /\ req[r].kind = "update" /\ req[r].at = "form"
  /\ IF form[r].seen = doc.version
     THEN /\ form' = [form EXCEPT ![r] =
                        [@ EXCEPT !.read = doc, !.ring = Ring(stage),
                                  !.behind = (stage = "old"), !.torn = {}]]
          /\ To(r, "cas")
     ELSE UNCHANGED form /\ To(r, "done")
  /\ UNCHANGED <<data, cached, tracked, cooling, excused,
                 doc, backup, stage, rotated, late, truth, torn>>

(* deepMerge of the patch into the config that was read *)
Merged(config, r) ==
  [s \in Section |-> IF s \in Patch[r].sections THEN r ELSE config[s]]

(* A mask that comes back leaves a secret unchanged; "" clears it. *)
NextSecrets(secrets, r, ring) ==
  [s \in Secret |-> CASE Patch[r].secrets[s] = "keep"  -> secrets[s]
                      [] Patch[r].secrets[s] = "clear" -> None
                      [] OTHER                         -> Sealed(r, ring)]

Touched(r) == Patch[r].sections \cup {s \in Secret : Patch[r].secrets[s] # "keep"}

(* Mutant of Matches: the filter is the id alone. *)
MatchesId(r) == doc.exists

(* The filter of the compare-and-set, or else the upsert's insert, which   *)
(* E11000 refuses when the document exists.                                *)
Matches(r) == ~doc.exists \/ doc.version = form[r].read.version

CommitUpdate(r) ==
  LET f == form[r]
      secrets == NextSecrets(f.read.secrets, r, f.ring)
  IN  /\ req[r].kind = "update" /\ req[r].at = "cas"
      /\ IF Matches(r)
         THEN /\ doc' = [exists |-> TRUE, version |-> f.read.version + 1,
                         config |-> Merged(f.read.config, r), secrets |-> secrets]
              /\ truth' = [config |-> Merged(truth.config, r),
                           secrets |-> Plain(NextSecrets(
                             [s \in Secret |-> IF truth.secrets[s] = None THEN None
                                               ELSE [by |-> truth.secrets[s], key |-> 1]],
                             r, f.ring))]
              /\ torn' = (torn \ Touched(r)) \cup (f.torn \ Touched(r))
              /\ late' = (late \/ f.behind)
              /\ form' = Overtaken("rewrite", Touched(r) \cap Secret)
              /\ Commit({"settings"}, r, [req[r] EXCEPT !.at = "audit", !.todo = Tasks("settings")])
         ELSE /\ To(r, "done") /\ UNCHANGED <<doc, truth, torn, late, data, form>>
      /\ UNCHANGED <<cached, tracked, cooling, excused, backup, stage, rotated>>

(* recordAudit, which never fails its caller; then the invalidation. *)
AuditUpdate(r) ==
  /\ req[r].kind = "update" /\ req[r].at = "audit"
  /\ To(r, "invalidate")
  /\ UNCHANGED <<data, cached, tracked, cooling, excused, settingsOnly>>

-----------------------------------------------------------------------------
(* rotate-settings-key.ts: reencryptSecrets with the keys of the script,    *)
(* whatever the deployment knows by then.                                   *)

(* The operator has the script's answer: what was read before is behind it. *)
RotationEnds ==
  /\ rotated' = TRUE /\ late' = FALSE
  /\ form' = [x \in Request |-> IF req[x].at = "cas" THEN [form[x] EXCEPT !.behind = TRUE]
                                ELSE form[x]]

LoadRotation(r) ==
  LET old == {s \in Secret : doc.secrets[s] # None /\ ~IsCurrentKey(doc.secrets[s], ScriptRing)}
  IN  /\ req[r].kind = "rotate" /\ Idle(r)
      /\ Opens(doc.secrets, ScriptRing)
      /\ \/ old = {} /\ To(r, "done") /\ RotationEnds
         \/ /\ old # {} /\ To(r, "rewrite")
            /\ form' = [form EXCEPT ![r] = [@ EXCEPT !.read = doc, !.torn = {}]]
            /\ UNCHANGED <<rotated, late>>
      /\ UNCHANGED <<data, cached, tracked, cooling, excused, doc, backup, stage, truth, torn>>

(* All secrets are written back, whatever the version is now. *)
RewriteSecrets(r) ==
  LET f == form[r]
  IN  /\ req[r].kind = "rotate" /\ req[r].at = "rewrite"
      /\ doc' = [doc EXCEPT !.secrets =
                   [s \in Secret |-> IF f.read.secrets[s] = None THEN None
                                     ELSE Sealed(f.read.secrets[s].by, ScriptRing)]]
      /\ torn' = torn \cup f.torn
      /\ To(r, "start")
      /\ RotationEnds
      /\ UNCHANGED <<data, cached, tracked, cooling, excused, backup, stage, truth>>

(* Deployments.  The new key with the old one in *_PREVIOUS (secretBox.ts)  *)
(* may come at any time, or never; step 3 of the script's instructions, the *)
(* new key alone, once a run has ended.                                     *)
DeployBoth ==
  /\ stage = "old" /\ stage' = "both"
  /\ UNCHANGED <<cacheVars, doc, backup, rotated, late, form, truth, torn>>

DeployNew ==
  /\ stage # "new" /\ rotated /\ stage' = "new"
  /\ UNCHANGED <<cacheVars, doc, backup, rotated, late, form, truth, torn>>

-----------------------------------------------------------------------------
(* backup.service.ts: config and version are dumped, never a secret. *)

TakeBackup(r) ==
  /\ req[r].kind = "backup" /\ Idle(r) /\ doc.exists
  /\ backup' = [config |-> doc.config, version |-> doc.version]
  /\ To(r, "done")
  /\ UNCHANGED <<data, cached, tracked, cooling, excused,
                 doc, stage, rotated, late, form, truth, torn>>

(* One transaction over every collection; no cache is invalidated. *)
Restore(r) ==
  /\ req[r].kind = "restore" /\ Idle(r) /\ backup # None
  /\ doc' = [doc EXCEPT !.exists = TRUE, !.config = backup.config, !.version = backup.version]
  /\ truth' = [truth EXCEPT !.config = backup.config]
  /\ torn' = torn \ Section
  /\ form' = Overtaken("cas", Section \cup Secret)
  /\ Commit(View, r, [req[r] EXCEPT !.at = "done"])
  /\ excused' = excused \cup Missed(View)
  /\ UNCHANGED <<cached, tracked, cooling, backup, stage, rotated, late>>

-----------------------------------------------------------------------------
SettingsStep(r) ==
  \/ OpenForm(r) \/ LoadUpdate(r) \/ CommitUpdate(r) \/ AuditUpdate(r)
  \/ LoadRotation(r) \/ RewriteSecrets(r)
  \/ TakeBackup(r) \/ Restore(r)

Init ==
  /\ CacheInit
  /\ doc = Initial /\ backup = None /\ stage = "old" /\ rotated = FALSE /\ late = FALSE
  /\ form = [r \in Request |-> [seen |-> 0, ring |-> <<1>>, behind |-> FALSE, read |-> Initial, torn |-> {}]]
  /\ truth = [config |-> Initial.config, secrets |-> Plain(Initial.secrets)]
  /\ torn = {}

Next ==
  \/ \E r \in Request :
       \/ (CacheStep(r) \/ Crash(r)) /\ UNCHANGED settingsOnly
       \/ SettingsStep(r)
  \/ CacheTime /\ UNCHANGED settingsOnly
  \/ DeployBoth \/ DeployNew

Spec == Init /\ [][Next]_settingsVars

(* A request runs on until it ends or is killed; a key expires. *)
Fairness ==
  /\ \A r \in Request : WF_settingsVars(CacheStep(r) /\ UNCHANGED settingsOnly)
  /\ \A r \in Request : WF_settingsVars(SettingsStep(r))
  /\ \A v \in View : WF_settingsVars(Expire(v) /\ UNCHANGED settingsOnly)

FairSpec == Spec /\ Fairness

-----------------------------------------------------------------------------
TypeOK ==
  /\ CacheTypeOK
  /\ doc \in SettingsDoc
  /\ backup = None \/ backup \in [config : [Section -> Writer], version : Nat]
  /\ stage \in {"old", "both", "new"} /\ {rotated, late} \subseteq BOOLEAN
  /\ form \in [Request -> FormDoc]
  /\ truth \in [config : [Section -> Writer], secrets : [Secret -> Writer \cup {None}]]
  /\ torn \subseteq Section \cup Secret

(* The document is what the committed updates and restores make of it one  *)
(* after the other: an update that commits carries every change committed  *)
(* before it ("two racing writers cannot both succeed",                    *)
(* settings.service.ts:164).  Where an update came between a rotation's    *)
(* read and write, or a restore between an update's, the parts are torn.    *)
UpdatesSerial ==
  /\ \A s \in Section \ torn : doc.config[s] = truth.config[s]
  /\ \A s \in Secret \ torn : Plain(doc.secrets)[s] = truth.secrets[s]

(* No update, rotation or deployment of a key change leaves a secret that    *)
(* nobody can read.  Until a run of the script has ended the deployment      *)
(* reads them all, and with both keys it always does; from that end on the   *)
(* new key alone reads them all ("afterwards the OLD key is no longer        *)
(* needed", tests/settings.test.ts:228), unless an update commits that had   *)
(* read before it, or in a deployment that still knew the old key alone.     *)
SecretsReadable ==
  /\ ~rotated \/ stage = "both" => Opens(doc.secrets, Ring(stage))
  /\ rotated /\ ~late => Opens(doc.secrets, <<2>>)

=============================================================================
