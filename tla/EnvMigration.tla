---------------------------- MODULE EnvMigration ----------------------------
(***************************************************************************)
(* Migration 0003 on the operator's .env, with the `up` or `migrate` it     *)
(* belongs to: Ctx.build, check, snapshot, the edits of .env one file write *)
(* each, the record, render and the start.  A command may be killed in any  *)
(* place, in a write of .env too.  Env.rename truncates the file and writes *)
(* it again.  Env.set and Env.unset move a new file over it, by a rename or  *)
(* by a copy: python-dotenv >= 1.0 admits both.                             *)
(*                                                                         *)
(* An .env is a function from the keys it holds to their values.  REST      *)
(* stands for the lines 0003 has no business with; `check` demands some of  *)
(* them.  Values are what the CMS or the migration tell apart.  One command *)
(* runs at a time; the operator edits nothing but what Restore says.        *)
(***************************************************************************)
EXTENDS Naturals, Sequences, SequencesExt

CONSTANTS
    Envs,         \* the .env files installations bring along
    Oddities,     \* sets of old keys that do not sit on exactly one KEY= line
    MaxKills      \* bound: commands killed

COMPOSE_FILE == "COMPOSE_FILE"
OLD_CLASS == "NEOPS_LOGGER_CLASS"
LOG_CLASS == "NEOPS_LOG_CLASS"
LOG_BACKEND == "NEOPS_LOG_BACKEND"
LOG_URL == "NEOPS_LOG_URL"
OLD_ENABLED == "EXECUTION_LOG_RETENTION_ENABLED"
NEW_ENABLED == "NEOPS_LOG_RETENTION_ENABLED"
OLD_DAYS == "EXECUTION_LOG_RETENTION_DAYS"
RETENTION == "NEOPS_LOG_RETENTION"
REST == "REST"
OldKeys == {OLD_CLASS, OLD_ENABLED, OLD_DAYS}
Keys == OldKeys \cup
    {COMPOSE_FILE, LOG_CLASS, LOG_BACKEND, LOG_URL, NEW_ENABLED, RETENTION, REST}

BASE_FILE == "compose.yaml"
GRAFANA == "compose.grafana.yaml"
METRICS == "compose.metrics.yaml"
LOGS == "compose.logs.yaml"

Blank == ""
Optimized == "OptimizedDbLogger"
PREVIOUS_DEFAULT_HORIZON == "90d"
Horizons == {"7d", "14d", "90d", "120d"}

(* f"{days}d" *)
WithUnit(days) == days \o "d"

(* The last says of strings what no prover knows: one with a unit is not blank *)
ASSUME EnvAssumption ==
    /\ \A e \in Envs :
         /\ e = [k \in DOMAIN e |-> e[k]]
         /\ DOMAIN e \subseteq Keys /\ REST \in DOMAIN e
         /\ COMPOSE_FILE \in DOMAIN e => e[COMPOSE_FILE] \in Seq(STRING)
         /\ OLD_DAYS \in DOMAIN e => WithUnit(e[OLD_DAYS]) # Blank
    /\ \A o \in Oddities : o \subseteq OldKeys
    /\ MaxKills \in Nat

VARIABLES
    disk,         \* .env
    odd,          \* which of its old keys are duplicated, quoted or spaced
    mem,          \* Env.values of the command at work
    files,        \* Scenario.files of the command, computed by Ctx.build
    cmd, pc,      \* the command at work and where it is
    recorded,     \* 0003 is recorded in state.json
    snaps,        \* backups/pre-migrate-*: a copy of .env and of state.json each
    generated,    \* what `render` left of Grafana's files in generated/
    stack,        \* the .env the containers were last started with
    first,        \* history: the .env before the upgrade
    torn,         \* history: a kill left a truncated .env, not restored yet
    kills

vars == <<disk, odd, mem, files, cmd, pc, recorded, snaps, generated, stack, first, torn, kills>>

Nothing == [k \in {} |-> Blank]
NoGrafana == [grafana |-> FALSE, source |-> "none"]
Places == {"idle", "check", "migrate", "overlay", "class", "dropClass", "backend", "enabled",
           "dropEnabled", "retention", "dropDays", "record", "render", "compose"}

TypeOK ==
    /\ \A e \in {disk, mem, stack} : DOMAIN e \subseteq Keys
    /\ odd \in Oddities
    /\ cmd \in {"none", "migrate", "up"}
    /\ pc \in Places
    /\ (cmd = "none") = (pc = "idle")
    /\ recorded \in BOOLEAN
    /\ \A s \in snaps : DOMAIN s.env \subseteq Keys /\ s.recorded \in BOOLEAN
    /\ generated \in [grafana : BOOLEAN, source : {"none", "victorialogs", "loki"}]
    /\ first \in Envs
    /\ torn \in BOOLEAN
    /\ kills \in 0..MaxKills

-----------------------------------------------------------------------------
(* Env: `k in values` and is_set, "blank values count as unset" *)
Holds(e, k) == k \in DOMAIN e
IsSet(e, k) == Holds(e, k) /\ e[k] # Blank

(* set_key: every line of the key gets the value, or a new line is appended *)
SetKey(e, k, v) == [j \in DOMAIN e \cup {k} |-> IF j = k THEN v ELSE e[j]]
UnsetKey(e, k) == [j \in DOMAIN e \ {k} |-> e[j]]

(* Scenario.from_env *)
FilesOf(e) == IF Holds(e, COMPOSE_FILE) THEN e[COMPOSE_FILE] ELSE <<BASE_FILE>>
Has(fs, f) == Contains(fs, f)

(* mutant: only compose.grafana.yaml counts *)
RunsGrafanaOverlayOnly(fs) == Has(fs, GRAFANA)

(* Scenario.runs_grafana: compose.metrics.yaml carries a complete grafana still *)
RunsGrafana(fs) == Has(fs, GRAFANA) \/ Has(fs, METRICS)

(* rules.log_backend *)
LogBackend(e, fs) ==
    IF Has(fs, LOGS) THEN "victorialogs"
    ELSE IF IsSet(e, LOG_BACKEND) THEN e[LOG_BACKEND] ELSE "db"

(* env.bool, by which the CMS reads the toggle: True, ok and 2 stand for the *)
(* three ways to be on                                                       *)
EnvBool(v) == v \in {"True", "ok", "2"}
CmsOn(e, k) == Holds(e, k) /\ EnvBool(e[k])

-----------------------------------------------------------------------------
Init ==
    /\ first \in Envs
    /\ odd \in Oddities
    /\ disk = first
    /\ mem = Nothing
    /\ files = <<>>
    /\ cmd = "none"
    /\ pc = "idle"
    /\ recorded = FALSE
    /\ snaps = {}
    /\ generated = NoGrafana
    /\ stack = Nothing
    /\ torn = FALSE
    /\ kills = 0

AtRest == cmd' = "none" /\ pc' = "idle" /\ mem' = Nothing /\ files' = <<>>

(* Where the command is, the last change of .env being complete *)
At(place) == pc = place /\ disk = mem

Goto(place) == pc' = place /\ UNCHANGED <<cmd, mem, files>>

(* Ctx.build: .env and with it the Scenario are read once *)
Begin(c) ==
    /\ pc = "idle"
    /\ cmd' = c
    /\ pc' = IF c = "up" THEN "check" ELSE "migrate"
    /\ mem' = disk
    /\ files' = FilesOf(disk)
    /\ UNCHANGED <<disk, odd, recorded, snaps, generated, stack, first, torn, kills>>

(* mutant: check demands what 0003 is going to add *)
OverlaysAcceptedStrictly(fs) ==
    /\ Head(fs) = BASE_FILE
    /\ (Has(fs, LOGS) \/ Has(fs, METRICS)) => Has(fs, GRAFANA)

(* _overlay_problems; metrics without grafana is one of warnings() only *)
OverlaysAccepted(fs) ==
    /\ Head(fs) = BASE_FILE
    /\ Has(fs, LOGS) => Has(fs, GRAFANA)

(* _log_backend_problems *)
LogBackendAccepted(e, fs) ==
    IsSet(e, LOG_BACKEND) =>
        /\ e[LOG_BACKEND] \in {"victorialogs", "loki", "db"}
        /\ Has(fs, LOGS) \/ e[LOG_BACKEND] = "db" \/ IsSet(e, LOG_URL)

(* _log_retention_problems *)
LogRetentionAccepted(e) == IsSet(e, RETENTION) => e[RETENTION] \in Horizons

(* problems(): the keys demanded, the overlays, the backend, the retention *)
Accepted(e, fs) ==
    /\ Holds(e, REST)
    /\ OverlaysAccepted(fs)
    /\ LogBackendAccepted(e, fs)
    /\ LogRetentionAccepted(e)

Check ==
    /\ pc = "check"
    /\ Accepted(mem, files)
    /\ Goto("migrate")
    /\ UNCHANGED <<disk, odd, recorded, snaps, generated, stack, first, torn, kills>>

Blocked ==
    /\ pc = "check"
    /\ ~Accepted(mem, files)
    /\ AtRest
    /\ UNCHANGED <<disk, odd, recorded, snaps, generated, stack, first, torn, kills>>

(* mutant: the end of `migrate` is taken for its next step *)
AfterMigrationsGoesOn == IF cmd = "up" THEN Goto("render") ELSE Goto("idle")

AfterMigrations == IF cmd = "up" THEN Goto("render") ELSE AtRest

NothingPending ==
    /\ At("migrate")
    /\ recorded
    /\ AfterMigrations
    /\ UNCHANGED <<disk, odd, recorded, snaps, generated, stack, first, torn, kills>>

(* mutant: a snapshot replaces the one before it *)
SnapshotReplaces ==
    /\ At("migrate")
    /\ ~recorded
    /\ snaps' = {[env |-> disk, recorded |-> recorded]}
    /\ Goto("overlay")
    /\ UNCHANGED <<disk, odd, recorded, generated, stack, first, torn, kills>>

(* mutant: recorded before it ran *)
SnapshotRecords ==
    /\ At("migrate")
    /\ ~recorded
    /\ snaps' = snaps \cup {[env |-> disk, recorded |-> recorded]}
    /\ recorded' = TRUE
    /\ Goto("overlay")
    /\ UNCHANGED <<disk, odd, generated, stack, first, torn, kills>>

(* snapshot(): a directory of its own each second.  That two runs within one *)
(* second share it, and the later one overwrites the copies of the earlier,  *)
(* is left out: every copy is kept.                                          *)
Snapshot ==
    /\ At("migrate")
    /\ ~recorded
    /\ snaps' = snaps \cup {[env |-> disk, recorded |-> recorded]}
    /\ Goto("overlay")
    /\ UNCHANGED <<disk, odd, recorded, generated, stack, first, torn, kills>>

-----------------------------------------------------------------------------
(* One change of .env and of Env.values.  A write in place, or a copy, first *)
(* truncates .env; meanwhile .env differs from Env.values.                   *)
Change(e, place) ==
    /\ mem' = e
    /\ pc' = place
    /\ UNCHANGED <<odd, files, cmd, recorded, snaps, generated, stack, first, torn, kills>>

InPlaceChange(e, place) == Change(e, place) /\ disk' = Nothing
MovedChange(e, place) == Change(e, place) /\ disk' \in {e, IF e = mem THEN e ELSE Nothing}

Rewrite ==
    /\ pc # "idle"
    /\ disk # mem
    /\ disk' = mem
    /\ UNCHANGED <<odd, mem, files, cmd, pc, recorded, snaps, generated, stack, first, torn, kills>>

(* files.insert(files.index(METRICS), GRAFANA) *)
WithGrafana(fs) ==
    LET m == CHOOSE i \in DOMAIN fs : fs[i] = METRICS
    IN  SubSeq(fs, 1, m - 1) \o <<GRAFANA>> \o SubSeq(fs, m, Len(fs))

LacksGrafana(fs) == Has(fs, METRICS) /\ ~Has(fs, GRAFANA)

(* _add_grafana_overlay *)
AddGrafanaOverlay ==
    /\ At("overlay")
    /\ LET fs == FilesOf(mem)
       IN  MovedChange(IF LacksGrafana(fs) THEN SetKey(mem, COMPOSE_FILE, WithGrafana(fs)) ELSE mem,
                 "class")

(* _move and Env.rename.  In place when `old` sits on one KEY= line and     *)
(* nothing has the name `new`; else, unless the operator has set `new`,     *)
(* `new` gets the value.  Either way `old` is unset in the step after.      *)
InPlace(old, new) == IsSet(mem, old) /\ ~Holds(mem, new) /\ old \notin odd
Copies(old, new) == IsSet(mem, old) /\ ~IsSet(mem, new) /\ ~InPlace(old, new)

Move(old, new, place) ==
    \/ InPlace(old, new) /\ InPlaceChange(SetKey(UnsetKey(mem, old), new, mem[old]), place)
    \/ Copies(old, new) /\ MovedChange(SetKey(mem, new, mem[old]), place)
    \/ ~InPlace(old, new) /\ ~Copies(old, new) /\ MovedChange(mem, place)

(* _move_logger_class: only OptimizedDbLogger has a successor *)
IsOptimized(e) == Holds(e, OLD_CLASS) /\ e[OLD_CLASS] = Optimized

MoveLoggerClass ==
    /\ At("class")
    /\ IF IsOptimized(mem) THEN Move(OLD_CLASS, LOG_CLASS, "dropClass")
                           ELSE MovedChange(mem, "dropClass")

DropClass == At("dropClass") /\ MovedChange(UnsetKey(mem, OLD_CLASS), "backend")

SetBackend ==
    /\ At("backend")
    /\ MovedChange(IF IsSet(mem, LOG_BACKEND) THEN mem ELSE SetKey(mem, LOG_BACKEND, "db"), "enabled")

MoveEnabled == At("enabled") /\ Move(OLD_ENABLED, NEW_ENABLED, "dropEnabled")

DropEnabled == At("dropEnabled") /\ MovedChange(UnsetKey(mem, OLD_ENABLED), "retention")

(* mutant: Env.flag, which knows fewer words than the CMS *)
FlagReadsAsOn(v) == v = "True"

(* _cms_reads_as_on: an integer other than 0 or one of CMS_TRUE_STRINGS *)
CmsReadsAsOn(v) == v \in {"True", "ok", "2"}

(* _previous_horizon *)
PreviousHorizon(e) ==
    IF IsSet(e, OLD_DAYS) THEN WithUnit(e[OLD_DAYS])
    ELSE IF Holds(e, NEW_ENABLED) /\ CmsReadsAsOn(e[NEW_ENABLED]) THEN PREVIOUS_DEFAULT_HORIZON ELSE Blank

(* _carry_retention_over *)
CarryRetentionOver ==
    /\ At("retention")
    /\ MovedChange(IF PreviousHorizon(mem) # Blank /\ ~IsSet(mem, RETENTION)
               THEN SetKey(mem, RETENTION, PreviousHorizon(mem)) ELSE mem,
             "dropDays")

DropDays == At("dropDays") /\ MovedChange(UnsetKey(mem, OLD_DAYS), "record")

(* record_applied and State.save *)
Record ==
    /\ At("record")
    /\ recorded' = TRUE
    /\ AfterMigrations
    /\ UNCHANGED <<disk, odd, snaps, generated, stack, first, torn, kills>>
-----------------------------------------------------------------------------
(* grafana_log_datasources: the store Grafana can read, which a VictoriaLogs *)
(* elsewhere is not                                                          *)
DataSource(backend, fs) ==
    CASE Has(fs, LOGS) -> "victorialogs"
      [] ~Has(fs, LOGS) /\ backend = "loki" -> "loki"
      [] OTHER -> "none"

(* render() with the Scenario from before the migrations, _remove_stale included *)
Render ==
    /\ At("render")
    /\ generated' = IF RunsGrafana(files)
                      THEN [grafana |-> TRUE,
                            source |-> DataSource(LogBackend(mem, files), files)]
                      ELSE NoGrafana
    /\ Goto("compose")
    /\ UNCHANGED <<disk, odd, recorded, snaps, stack, first, torn, kills>>

(* docker compose reads .env, and COMPOSE_FILE in it, by itself *)
Start ==
    /\ At("compose")
    /\ stack' = disk
    /\ AtRest
    /\ UNCHANGED <<disk, odd, recorded, snaps, generated, first, torn, kills>>

Kill ==
    /\ pc # "idle"
    /\ kills < MaxKills
    /\ kills' = kills + 1
    /\ torn' = (torn \/ disk # mem)
    /\ AtRest
    /\ UNCHANGED <<disk, odd, recorded, snaps, generated, stack, first>>

(* The operator, whom check tells that .env lacks everything, puts back both *)
(* files of a snapshot that has them                                         *)
Restore ==
    /\ pc = "idle"
    /\ ~Holds(disk, REST)
    /\ \E s \in snaps :
         /\ Holds(s.env, REST)
         /\ disk' = s.env
         /\ recorded' = s.recorded
    /\ torn' = FALSE
    /\ UNCHANGED <<odd, mem, files, cmd, pc, snaps, generated, stack, first, kills>>

Apply ==
    \/ AddGrafanaOverlay \/ MoveLoggerClass \/ DropClass \/ SetBackend \/ MoveEnabled
    \/ DropEnabled \/ CarryRetentionOver \/ DropDays \/ Rewrite

Progress == Check \/ Blocked \/ NothingPending \/ Snapshot \/ Apply \/ Record \/ Render \/ Start

Next == (\E c \in {"migrate", "up"} : Begin(c)) \/ Progress \/ Kill \/ Restore

Spec == Init /\ [][Next]_vars

(* A command runs on, and the operator repeats `up` and restores .env when   *)
(* check refuses it, in spite of other commands in between.                  *)
FairSpec ==
    /\ Spec
    /\ WF_vars(Progress)
    /\ SF_vars(Begin("up"))
    /\ SF_vars(Restore)
-----------------------------------------------------------------------------
(* What docs/30-operations.md says of 0003, key by key *)
EnabledAfter(e) == IF IsSet(e, NEW_ENABLED) \/ ~IsSet(e, OLD_ENABLED) THEN NEW_ENABLED ELSE OLD_ENABLED

NewValue(e, k) ==
    CASE k = COMPOSE_FILE /\ LacksGrafana(FilesOf(e)) -> WithGrafana(FilesOf(e))
      [] k = LOG_CLASS /\ ~IsSet(e, k) /\ IsOptimized(e) -> Optimized
      [] k = LOG_BACKEND /\ ~IsSet(e, k) -> "db"
      [] k = NEW_ENABLED /\ EnabledAfter(e) = OLD_ENABLED -> e[OLD_ENABLED]
      [] k = RETENTION /\ ~IsSet(e, k) /\ IsSet(e, OLD_DAYS) -> WithUnit(e[OLD_DAYS])
      [] k = RETENTION /\ ~IsSet(e, k) /\ ~IsSet(e, OLD_DAYS) /\ CmsOn(e, EnabledAfter(e)) -> "90d"
      [] OTHER -> IF Holds(e, k) THEN e[k] ELSE Blank

Migrated(e) ==
    [k \in {k \in Keys \ OldKeys : Holds(e, k) \/ NewValue(e, k) # Blank} |-> NewValue(e, k)]

(* IDEMPOTENT, "may a crashed run simply be re-run?" (migrations/README.md): *)
(* once 0003 is recorded, .env is what an undisturbed run would have made of *)
(* the operator's file, wherever earlier runs were cut off.  A kill that     *)
(* leaves a truncated .env is the exception, until the operator restores a   *)
(* snapshot.                                                                 *)
RerunEndsAsUndisturbed == recorded /\ ~torn => disk = Migrated(first)

(* The same kill never leaves the operator without his settings: the copy    *)
(* of an .env from which 0003 gets where it should, and of a state.json that *)
(* lets it run again, outlives the runs on the truncated file.               *)
LostIsRecoverable ==
    torn => \E s \in snaps :
                /\ ~s.recorded
                /\ Holds(s.env, REST)
                /\ Migrated(s.env) = Migrated(first)

(* Days after which the previous CMS, and the one started last, delete an    *)
(* execution; Forever if they never do.                                      *)
Forever == 10000
DaysOf(horizon) ==
    CASE horizon = "7d" -> 7 [] horizon = "14d" -> 14 [] horizon = "90d" -> 90 [] horizon = "120d" -> 120
OldHorizon(e) ==
    IF ~CmsOn(e, OLD_ENABLED) THEN Forever
    ELSE IF IsSet(e, OLD_DAYS) THEN DaysOf(WithUnit(e[OLD_DAYS])) ELSE 90
NewHorizon(e) ==
    IF ~CmsOn(e, NEW_ENABLED) THEN Forever
    ELSE IF IsSet(e, RETENTION) THEN DaysOf(e[RETENTION]) ELSE 30

(* "The upgrade never shortens it" (0003's docstring): no CMS is started     *)
(* that deletes executions earlier than the previous release did, on any     *)
(* path through kills and retries, unless the operator chose the new keys.   *)
RetentionNotShortened ==
    DOMAIN stack # {} /\ ~IsSet(first, NEW_ENABLED) /\ ~IsSet(first, RETENTION)
        => NewHorizon(stack) >= OldHorizon(first)

(* `up` renders with the Scenario from before 0003 and compose starts with   *)
(* the COMPOSE_FILE from after it; yet Grafana, whenever it is started, has  *)
(* its two files, its datasource is the store the engine writes to, or none  *)
(* where that is not one it can read, and its overlay precedes that of the   *)
(* metrics, as compose.metrics.yaml demands.                                 *)
GrafanaAsStarted ==
    LET fs == FilesOf(stack)
    IN  DOMAIN stack # {} =>
            /\ Has(fs, GRAFANA) =>
                   generated.grafana /\ generated.source = DataSource(LogBackend(stack, fs), fs)
            /\ Has(fs, METRICS) =>
                   \E i, j \in DOMAIN fs : i < j /\ fs[i] = GRAFANA /\ fs[j] = METRICS

(* Whatever is cut off and whatever the operator runs in between, repeating  *)
(* `up` ends with the stack started on the migrated .env: check does not     *)
(* refuse the .env of the previous release before 0003 had its chance.       *)
UpgradeEnds == <>[](recorded /\ disk = Migrated(first) /\ stack = disk)
=============================================================================
