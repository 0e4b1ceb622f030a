-------------------------------- MODULE Backup --------------------------------
(***************************************************************************)
(* `./neops backup [--keep N]` (backup.py), the migration of .env that may  *)
(* run beside it, and the restore that docs/30-operations.md describes.     *)
(*                                                                         *)
(* Several backups may run at once (a nightly one and the operator's).  An  *)
(* archive is the second in which its backup began.  Any step may fail      *)
(* (pg_dump above all) or be the last before a kill.                        *)
(*                                                                         *)
(* Of .env only the number of migrations it has gone through is modelled,   *)
(* of state.json the number it records, and of secrets and certs that they  *)
(* are copied after .env.  A file is copied in one step; that a copy may    *)
(* meet .env while it is truncated is left out.  A directory is removed file *)
(* by file, in any order.                                                    *)
(***************************************************************************)
EXTENDS Naturals, FiniteSets, FiniteSetsExt

CONSTANTS
    Procs,
    Databases,      \* numbered in the order of DATABASES
    Migrations,     \* how many deployment migrations there are
    MaxClock,       \* bound: seconds
    MaxKeep,        \* bound: the largest N of --keep N
    MaxOverlaps,    \* bound: backups that begin while another runs
    MaxFaults       \* bound: commands that fail or are killed

ASSUME BackupAssumption ==
    /\ Databases \subseteq Nat
    /\ IsFiniteSet(Databases)
    /\ {Migrations, MaxClock, MaxKeep, MaxOverlaps, MaxFaults} \subseteq Nat

VARIABLES
    env,            \* .env: the migrations it has gone through
    recorded,       \* state.json: the migrations it records
    clock,
    archives,       \* backups/: what each directory contains
    pc,             \* each backup: next step,
    keep,           \*   --keep,
    applied,        \*   ctx.state as loaded when the command began,
    stamp,          \*   the archive it writes,
    todo, dumped,   \*   _dump_databases: running and not dumped yet, dumped
    doomed,         \*   prune: what it has found and not removed yet
    migrating,      \* a `migrate` has changed .env and not recorded it yet
    shared,         \* history: archives that more than one backup has written
    robbed,         \* history: archives pruned while a backup was writing them
    overtaken,      \* history: backups that found a later one when they pruned
    overlaps, faults

backupVars == <<pc, keep, applied, stamp, todo, dumped, doomed>>
migrateVars == <<recorded, migrating>>
history == <<shared, robbed, overtaken>>
vars == <<env, clock, archives, backupVars, migrateVars, history, overlaps, faults>>

Missing == Migrations + 1
NoManifest == [applied |-> Missing, dumps |-> {}]

(* mutant: .env is not accounted for *)
EmptyArchiveUnkept == [dumps |-> {}, manifest |-> NoManifest]

EmptyArchive == [dumps |-> {}, env |-> Missing, manifest |-> NoManifest]

Archive ==
    [dumps : SUBSET Databases, env : 0..Missing,
     manifest : [applied : 0..Missing, dumps : SUBSET Databases]]

TypeOK ==
    /\ env \in 0..Migrations
    /\ recorded \in 0..Migrations
    /\ clock \in 0..MaxClock
    /\ DOMAIN archives \subseteq 0..MaxClock
    /\ \A s \in DOMAIN archives : archives[s] \in Archive
    /\ pc \in [Procs -> {"idle", "dump", "copyEnv", "copySecrets", "manifest",
                         "list", "remove"}]
    /\ keep \in [Procs -> 0..MaxKeep]
    /\ applied \in [Procs -> 0..Migrations]
    /\ stamp \in [Procs -> 0..MaxClock]
    /\ todo \in [Procs -> SUBSET Databases]
    /\ dumped \in [Procs -> SUBSET Databases]
    /\ doomed \in [Procs -> SUBSET (0..MaxClock)]
    /\ migrating \in BOOLEAN
    /\ shared \cup robbed \subseteq 0..MaxClock
    /\ overtaken \subseteq Procs
    /\ overlaps \in 0..MaxOverlaps
    /\ faults \in 0..MaxFaults

Init ==
    /\ env = 0
    /\ recorded = 0
    /\ clock = 0
    /\ archives = [s \in {} |-> EmptyArchive]
    /\ pc = [p \in Procs |-> "idle"]
    /\ keep = [p \in Procs |-> 0]
    /\ applied = [p \in Procs |-> 0]
    /\ stamp = [p \in Procs |-> 0]
    /\ todo = [p \in Procs |-> {}]
    /\ dumped = [p \in Procs |-> {}]
    /\ doomed = [p \in Procs |-> {}]
    /\ migrating = FALSE
    /\ shared = {}
    /\ robbed = {}
    /\ overtaken = {}
    /\ overlaps = 0
    /\ faults = 0
-----------------------------------------------------------------------------
Goto(p, place) == pc' = [pc EXCEPT ![p] = place]

(* What a command knows is gone with it *)
End(p) ==
    /\ Goto(p, "idle")
    /\ keep' = [keep EXCEPT ![p] = 0]
    /\ applied' = [applied EXCEPT ![p] = 0]
    /\ stamp' = [stamp EXCEPT ![p] = 0]
    /\ todo' = [todo EXCEPT ![p] = {}]
    /\ dumped' = [dumped EXCEPT ![p] = {}]
    /\ doomed' = [doomed EXCEPT ![p] = {}]
    /\ overtaken' = overtaken \ {p}

Contents(s) == IF s \in DOMAIN archives THEN archives[s] ELSE EmptyArchive

(* backups/ with the files of one archive as given *)
With(s, contents) ==
    [t \in DOMAIN archives \cup {s} |-> IF t = s THEN contents ELSE archives[t]]

(* Ctx.build loads state.json first; then _stamp, mkdir(exist_ok=True), and  *)
(* the running databases, asked for once                                     *)
Begin(p) ==
    /\ pc[p] = "idle"
    /\ IF \A q \in Procs : pc[q] = "idle"
         THEN UNCHANGED overlaps
         ELSE overlaps < MaxOverlaps /\ overlaps' = overlaps + 1
    /\ \E n \in 0..MaxKeep : keep' = [keep EXCEPT ![p] = n]
    /\ applied' = [applied EXCEPT ![p] = recorded]
    /\ stamp' = [stamp EXCEPT ![p] = clock]
    /\ archives' = With(clock, Contents(clock))
    /\ shared' = IF clock \in DOMAIN archives THEN shared \cup {clock} ELSE shared
    /\ \E running \in SUBSET Databases :
         /\ todo' = [todo EXCEPT ![p] = running]
         /\ Goto(p, IF running = {} THEN "copyEnv" ELSE "dump")
    /\ UNCHANGED <<env, clock, dumped, doomed, migrateVars, robbed, overtaken, faults>>

(* pg_dump and write_bytes, which fails in a directory that is gone *)
Dump(p) ==
    /\ pc[p] = "dump"
    /\ stamp[p] \in DOMAIN archives
    /\ LET d == Min(todo[p])
       IN  /\ archives' = [archives EXCEPT ![stamp[p]].dumps = @ \cup {d}]
           /\ todo' = [todo EXCEPT ![p] = @ \ {d}]
           /\ dumped' = [dumped EXCEPT ![p] = @ \cup {d}]
    /\ Goto(p, IF Cardinality(todo[p]) = 1 THEN "copyEnv" ELSE "dump")
    /\ UNCHANGED <<env, clock, keep, applied, stamp, doomed, migrateVars, history, overlaps, faults>>

(* _private_copy creates the archive anew if it is gone *)
CopyEnv(p) ==
    /\ pc[p] = "copyEnv"
    /\ archives' = With(stamp[p], [Contents(stamp[p]) EXCEPT !.env = env])
    /\ Goto(p, "copySecrets")
    /\ UNCHANGED <<env, clock, keep, applied, stamp, todo, dumped, doomed,
                   migrateVars, history, overlaps, faults>>

CopySecrets(p) ==
    /\ pc[p] = "copySecrets"
    /\ archives' = With(stamp[p], Contents(stamp[p]))
    /\ Goto(p, "manifest")
    /\ UNCHANGED <<env, clock, keep, applied, stamp, todo, dumped, doomed,
                   migrateVars, history, overlaps, faults>>

(* mutant: state.json is read again for the manifest *)
ManifestReadLate(p) == [applied |-> recorded, dumps |-> dumped[p]]

(* mutant: every database is listed *)
ManifestListsAll(p) == [applied |-> applied[p], dumps |-> Databases]

(* _manifest: from ctx.state, and from what the command remembers to have dumped *)
Manifest(p) == [applied |-> applied[p], dumps |-> dumped[p]]

WriteManifest(p) ==
    /\ pc[p] = "manifest"
    /\ stamp[p] \in DOMAIN archives
    /\ archives' = [archives EXCEPT ![stamp[p]].manifest = Manifest(p)]
    /\ IF keep[p] > 0
         THEN Goto(p, "list")
              /\ UNCHANGED <<keep, applied, stamp, todo, dumped, doomed, overtaken>>
         ELSE End(p)
    /\ UNCHANGED <<env, clock, migrateVars, shared, robbed, overlaps, faults>>

(* write_bytes and write_text do not create the directory *)
Robbed(p) ==
    /\ pc[p] \in {"dump", "manifest"}
    /\ stamp[p] \notin DOMAIN archives
    /\ End(p)
    /\ UNCHANGED <<env, clock, archives, migrateVars, shared, robbed, overlaps, faults>>
-----------------------------------------------------------------------------
(* mutant: the oldest ones are kept *)
OutdatedReversed(p) ==
    {s \in DOMAIN archives : Cardinality({t \in DOMAIN archives : t < s}) >= keep[p]}

(* prune: sorted(...)[:-keep] *)
Outdated(p) ==
    {s \in DOMAIN archives : Cardinality({t \in DOMAIN archives : t > s}) >= keep[p]}

List(p) ==
    /\ pc[p] = "list"
    /\ doomed' = [doomed EXCEPT ![p] = Outdated(p)]
    /\ overtaken' = IF \E s \in DOMAIN archives : s > stamp[p]
                      THEN overtaken \cup {p} ELSE overtaken
    /\ Goto(p, "remove")
    /\ UNCHANGED <<env, clock, archives, keep, applied, stamp, todo, dumped,
                   migrateVars, shared, robbed, overlaps, faults>>

WritingTo(s) ==
    {p \in Procs : pc[p] \in {"dump", "copyEnv", "copySecrets", "manifest"} /\ stamp[p] = s}

Robs(s) == robbed' = IF WritingTo(s) # {} THEN robbed \cup {s} ELSE robbed

(* What may be left of an archive after the next file of it is unlinked *)
Fewer(contents) ==
    ({[contents EXCEPT !.env = Missing], [contents EXCEPT !.manifest = NoManifest]}
     \cup {[contents EXCEPT !.dumps = @ \ {d}] : d \in contents.dumps}) \ {contents}

(* rmtree goes through the files in no order, from the oldest archive on *)
Unlink(p) ==
    /\ pc[p] = "remove"
    /\ doomed[p] # {}
    /\ LET s == Min(doomed[p])
       IN  /\ s \in DOMAIN archives
           /\ \E contents \in Fewer(archives[s]) : archives' = [archives EXCEPT ![s] = contents]
           /\ Robs(s)
    /\ UNCHANGED <<env, clock, pc, keep, applied, stamp, todo, dumped, doomed,
                   migrateVars, shared, overtaken, overlaps, faults>>

(* and ends with rmdir *)
Remove(p) ==
    /\ pc[p] = "remove"
    /\ doomed[p] # {}
    /\ LET s == Min(doomed[p])
       IN  /\ s \in DOMAIN archives
           /\ archives[s] = EmptyArchive
           /\ archives' = [t \in DOMAIN archives \ {s} |-> archives[t]]
           /\ doomed' = [doomed EXCEPT ![p] = @ \ {s}]
           /\ Robs(s)
    /\ UNCHANGED <<env, clock, pc, keep, applied, stamp, todo, dumped,
                   migrateVars, shared, overtaken, overlaps, faults>>

(* Nothing is left to remove, or rmtree raises, for which another backup is  *)
(* reason enough that removes a file first or writes one: no guard           *)
Pruned(p) ==
    /\ pc[p] = "remove"
    /\ End(p)
    /\ UNCHANGED <<env, clock, archives, migrateVars, shared, robbed, overlaps, faults>>

Abort(p) ==
    /\ pc[p] # "idle"
    /\ faults < MaxFaults
    /\ faults' = faults + 1
    /\ End(p)
    /\ UNCHANGED <<env, clock, archives, migrateVars, shared, robbed, overlaps>>
-----------------------------------------------------------------------------
(* `migrate` (module EnvMigration has its steps): .env is changed, unless it *)
(* has gone through the migration, and then the migration is recorded        *)
MigrateApplies ==
    /\ ~migrating
    /\ recorded < Migrations
    /\ env' = Max({env, recorded + 1})
    /\ migrating' = TRUE
    /\ UNCHANGED <<clock, archives, backupVars, recorded, history, overlaps, faults>>

MigrateRecords ==
    /\ migrating
    /\ recorded' = recorded + 1
    /\ migrating' = FALSE
    /\ UNCHANGED <<env, clock, archives, backupVars, history, overlaps, faults>>

MigrateKilled ==
    /\ migrating
    /\ faults < MaxFaults
    /\ faults' = faults + 1
    /\ migrating' = FALSE
    /\ UNCHANGED <<env, recorded, clock, archives, backupVars, history, overlaps>>

(* The operator puts an archive's .env back, and forgets what its manifest   *)
(* does not list as applied; that takes more than a second                   *)
Restore ==
    /\ clock < MaxClock
    /\ clock' = clock + 1
    /\ \A p \in Procs : pc[p] = "idle"
    /\ ~migrating
    /\ \E s \in DOMAIN archives :
         /\ archives[s].manifest # NoManifest
         /\ archives[s].env # Missing
         /\ env' = archives[s].env
         /\ recorded' = Min({recorded, archives[s].manifest.applied})
    /\ UNCHANGED <<archives, backupVars, migrating, history, overlaps, faults>>

Tick ==
    /\ clock < MaxClock
    /\ clock' = clock + 1
    /\ UNCHANGED <<env, archives, backupVars, migrateVars, history, overlaps, faults>>

BackupStep(p) ==
    \/ Begin(p) \/ Dump(p) \/ CopyEnv(p) \/ CopySecrets(p)
    \/ WriteManifest(p) \/ Robbed(p) \/ List(p) \/ Unlink(p) \/ Remove(p) \/ Pruned(p)
    \/ Abort(p)

Next ==
    \/ \E p \in Procs : BackupStep(p)
    \/ MigrateApplies \/ MigrateRecords \/ MigrateKilled
    \/ Restore \/ Tick

Spec == Init /\ [][Next]_vars
-----------------------------------------------------------------------------
(* "so that ./neops migrate and the next upgrade apply them to the restored *)
(* .env again" (docs/30-operations.md): whatever ran beside the backup, a   *)
(* restored .env has gone through every migration state.json records, so    *)
(* none is skipped.                                                          *)
RestoredIsMigrated == recorded <= env

Described(s) == archives[s].manifest # NoManifest

(* Two backups in one second may leave a dump the last one does not list *)
Truthful(s) ==
    /\ archives[s].manifest.dumps \subseteq archives[s].dumps
    /\ s \notin shared => archives[s].manifest.dumps = archives[s].dumps
    /\ archives[s].env # Missing

(* The oldest archive, with a newer one that --keep counts in its place *)
Expired(s) ==
    /\ \A t \in DOMAIN archives \ robbed : s <= t
    /\ \E t \in DOMAIN archives : t > s

(* A manifest names the dumps its archive holds, and all of them: restore    *)
(* empties the databases that have a dump and loads what the manifest lists. *)
(* A prune cut off in the middle may leave a manifest whose dumps or .env    *)
(* are gone, but in the oldest archive only, and never in the only one; one  *)
(* that was pruned under its writer promises nothing.                        *)
ManifestTruthful ==
    \A s \in DOMAIN archives \ robbed : Described(s) => Truthful(s) \/ Expired(s)

Complete(s) ==
    /\ s \in DOMAIN archives
    /\ Described(s)
    /\ archives[s].manifest.dumps \subseteq archives[s].dumps
    /\ archives[s].env # Missing

(* `--keep N` counts directories, those of failed backups included, and yet  *)
(* it never costs the newest complete archive: the one of which the first    *)
(* file goes has a newer complete one that stays.  Only a backup that finds  *)
(* one begun after it may prune what will turn out to have been the last,    *)
(* its own included; and an archive that was pruned under its writer, and    *)
(* completed all the same, may go again.                                     *)
NewestCompleteKept ==
    [][\A s \in DOMAIN archives \ robbed :
          Complete(s) /\ ~Complete(s)' =>
              \/ \E t \in DOMAIN archives' : t > s /\ Complete(t)'
              \/ \E p \in overtaken : Unlink(p)]_vars
=============================================================================
