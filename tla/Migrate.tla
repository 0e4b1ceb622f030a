------------------------------- MODULE Migrate -------------------------------
(***************************************************************************)
(* Deployment migrations, neops_compose/migrate.py: `./neops migrate` (also *)
(* the first state change of `install` and `up`) applies every migration    *)
(* that state.json does not record, in order; `./neops migrate --fake NAME` *)
(* records one without running it.  Processes may be killed at any step, an *)
(* apply() may raise, and nothing keeps two CLIs from running at once.      *)
(***************************************************************************)
EXTENDS StateFile

CONSTANTS
    Idempotent,     \* the migrations that declare IDEMPOTENT = True
    Stamps,         \* names of snapshot directories, one per second
    NoStamp,        \* no snapshot
    SameSecond,     \* TRUE: two snapshots may fall into one second
    CanFake,        \* TRUE: the operator may use --fake
    MaxKills,       \* bound: processes killed (SIGKILL, SIGINT, power loss)
    MaxFails        \* bound: exceptions raised by apply()

ASSUME MigrateAssumption ==
    /\ Idempotent \subseteq Migrations
    /\ NoStamp \notin Stamps
    /\ SameSecond \in BOOLEAN
    /\ CanFake \in BOOLEAN
    /\ MaxKills \in Nat
    /\ MaxFails \in Nat

VARIABLES
    pc,             \* pc[p]: where process p is
    held,           \* held[p]: the snapshot `snap` of p's apply_all
    effect,         \* effect[m]: how far the installation carries m's changes
    damaged,        \* history: non-idempotent migrations run on their own leftovers
    fakedEver,      \* history: migrations some --fake recorded
    marker,         \* marker[m]: the snapshot NAME.failed names, NoStamp without the file
    snaps,          \* snaps[s]: the effects in the .env copied to snapshot s
    lastStamp,      \* the directory the latest snapshot went to
    kills, fails    \* faults so far

vars == <<disk, tmp, fd, mem, pc, held, effect, damaged, fakedEver, marker,
          snaps, lastStamp, kills, fails>>

Effect == [Migrations -> {"none", "partial", "done"}]
Places == {"idle", "snapshot", "next", "apply", "mark", "record",
           "open", "write", "replace", "fake"}

TypeOK ==
    /\ FileTypeOK
    /\ pc \in [Procs -> Places]
    /\ held \in [Procs -> Stamps \cup {NoStamp}]
    /\ effect \in Effect
    /\ damaged \subseteq Migrations
    /\ fakedEver \subseteq Migrations
    /\ marker \in [Migrations -> Stamps \cup {NoStamp}]
    /\ snaps \in [Stamps -> Effect]
    /\ lastStamp \in Stamps \cup {NoStamp}
    /\ kills \in 0..MaxKills
    /\ fails \in 0..MaxFails

Untouched == [m \in Migrations |-> "none"]

Init ==
    /\ FileInit
    /\ pc = [p \in Procs |-> "idle"]
    /\ held = [p \in Procs |-> NoStamp]
    /\ effect = Untouched
    /\ damaged = {}
    /\ fakedEver = {}
    /\ marker = [m \in Migrations |-> NoStamp]
    /\ snaps = [s \in Stamps |-> Untouched]
    /\ lastStamp = NoStamp
    /\ kills = 0
    /\ fails = 0

Goto(p, place) == pc' = [pc EXCEPT ![p] = place]

-----------------------------------------------------------------------------
(* pending(): discovered and not recorded as applied *)
Pending(s) == Migrations \ s.applied

(* mutant: discover() does not sort *)
IsNextUnsorted(p, m) == m \in Pending(mem[p])

(* The loop variable of apply_all.  todo is computed once, but it shrinks   *)
(* exactly as mem[p].applied grows, so its head is the least pending name.  *)
IsNext(p, m) ==
    /\ m \in Pending(mem[p])
    /\ \A k \in Pending(mem[p]) : m <= k

(* `if not todo: return []`; a dry run ends there as well *)
Start(p) ==
    /\ pc[p] = "idle"
    /\ Load(p)
    /\ Goto(p, IF Pending(disk.val) = {} THEN "idle" ELSE "snapshot")
    /\ UNCHANGED <<held, effect, damaged, fakedEver, marker, snaps, lastStamp, kills, fails>>

StartRefused(p) ==
    /\ pc[p] = "idle"
    /\ LoadFails(p)
    /\ UNCHANGED <<pc, held, effect, damaged, fakedEver, marker, snaps, lastStamp, kills, fails>>

(* mutant: a stamp that comes round again *)
FreshStampReused(s) == s # lastStamp

(* A stamp that no marker and no running process names stands for a second  *)
(* of its own; what an older run left under that name is referred to by     *)
(* nothing.  The directory of the running second is written over.           *)
FreshStamp(s) ==
    /\ s # lastStamp
    /\ \A m \in Migrations : marker[m] # s
    /\ \A p \in Procs : held[p] # s

(* snapshot(): taken before any failure marker is looked at *)
Snapshot(p) ==
    /\ pc[p] = "snapshot"
    /\ \E s \in Stamps :
         /\ \/ FreshStamp(s) /\ s = CHOOSE t \in Stamps : FreshStamp(t)
            \/ SameSecond /\ s = lastStamp
         /\ snaps' = [snaps EXCEPT ![s] = effect]
         /\ held' = [held EXCEPT ![p] = s]
         /\ lastStamp' = s
    /\ Goto(p, "next")
    /\ UNCHANGED <<fileVars, effect, damaged, fakedEver, marker, kills, fails>>

(* The loop ran out: apply_all returns *)
Finished(p) ==
    /\ pc[p] = "next"
    /\ Pending(mem[p]) = {}
    /\ Goto(p, "idle")
    /\ held' = [held EXCEPT ![p] = NoStamp]
    /\ UNCHANGED <<fileVars, effect, damaged, fakedEver, marker, snaps, lastStamp, kills, fails>>

(* mutant: the marker is written and never read *)
BlockedNever(m) == FALSE

(* A failure marker stands in the way of a migration that is not idempotent *)
Blocked(m) == marker[m] # NoStamp /\ m \notin Idempotent

(* "failed earlier and is not idempotent": MigrationError *)
Refuse(p) ==
    /\ pc[p] = "next"
    /\ \E m \in Migrations : IsNext(p, m) /\ Blocked(m)
    /\ Goto(p, "idle")
    /\ held' = [held EXCEPT ![p] = NoStamp]
    /\ UNCHANGED <<fileVars, effect, damaged, fakedEver, marker, snaps, lastStamp, kills, fails>>

(* m.apply(ctx) starts to change the installation *)
BeginApply(p) ==
    /\ pc[p] = "next"
    /\ \E m \in Migrations :
         /\ IsNext(p, m)
         /\ ~Blocked(m)
         /\ effect' = [effect EXCEPT ![m] = IF @ = "none" THEN "partial" ELSE @]
         /\ damaged' = IF effect[m] # "none" /\ m \notin Idempotent
                         THEN damaged \cup {m} ELSE damaged
    /\ Goto(p, "apply")
    /\ UNCHANGED <<fileVars, held, fakedEver, marker, snaps, lastStamp, kills, fails>>

(* m.apply(ctx) returns *)
EndApply(p) ==
    /\ pc[p] = "apply"
    /\ \E m \in Migrations :
         /\ IsNext(p, m)
         /\ effect' = [effect EXCEPT ![m] = "done"]
    /\ Goto(p, "record")
    /\ UNCHANGED <<fileVars, held, damaged, fakedEver, marker, snaps, lastStamp, kills, fails>>

(* mutant: the exception is logged and the loop goes on *)
FailApplySwallowed(p) ==
    /\ pc[p] = "apply"
    /\ fails < MaxFails
    /\ fails' = fails + 1
    /\ Goto(p, "record")
    /\ UNCHANGED <<fileVars, held, effect, damaged, fakedEver, marker, snaps, lastStamp, kills>>

(* m.apply(ctx) raises *)
FailApply(p) ==
    /\ pc[p] = "apply"
    /\ fails < MaxFails
    /\ fails' = fails + 1
    /\ Goto(p, "mark")
    /\ UNCHANGED <<fileVars, held, effect, damaged, fakedEver, marker, snaps, lastStamp, kills>>

(* `except Exception`: NAME.failed names this run's snapshot *)
WriteMarker(p) ==
    /\ pc[p] = "mark"
    /\ \E m \in Migrations :
         /\ IsNext(p, m)
         /\ marker' = [marker EXCEPT ![m] = held[p]]
    /\ Goto(p, "idle")
    /\ held' = [held EXCEPT ![p] = NoStamp]
    /\ UNCHANGED <<fileVars, effect, damaged, fakedEver, snaps, lastStamp, kills, fails>>

(* mutant: record_applied() forgotten *)
RecordNothing(p) ==
    /\ pc[p] = "record"
    /\ Goto(p, "open")
    /\ UNCHANGED <<fileVars, held, effect, damaged, fakedEver, marker, snaps, lastStamp, kills, fails>>

(* marker.unlink(); state.record_applied(): the copy in memory only *)
RecordApplied(p) ==
    /\ pc[p] = "record"
    /\ \E m \in Migrations :
         /\ IsNext(p, m)
         /\ marker' = [marker EXCEPT ![m] = NoStamp]
         /\ mem' = [mem EXCEPT ![p] = [applied |-> @.applied \cup {m}, faked |-> @.faked]]
    /\ Goto(p, "open")
    /\ UNCHANGED <<disk, tmp, fd, held, effect, damaged, fakedEver, snaps, lastStamp, kills, fails>>
-----------------------------------------------------------------------------
(* state.save(paths.state_file), three steps; fake() ends with it as well   *)
SaveOpen(p) ==
    /\ pc[p] = "open"
    /\ OpenTmp(p)
    /\ Goto(p, "write")
    /\ UNCHANGED <<held, effect, damaged, fakedEver, marker, snaps, lastStamp, kills, fails>>

SaveWrite(p) ==
    /\ pc[p] = "write"
    /\ WriteTmp(p)
    /\ Goto(p, "replace")
    /\ UNCHANGED <<held, effect, damaged, fakedEver, marker, snaps, lastStamp, kills, fails>>

(* A process without a snapshot is a fake(), which ends with its save *)
SaveReplace(p) ==
    /\ pc[p] = "replace"
    /\ Replace(p)
    /\ Goto(p, IF held[p] = NoStamp THEN "idle" ELSE "next")
    /\ UNCHANGED <<held, effect, damaged, fakedEver, marker, snaps, lastStamp, kills, fails>>

SaveFails(p) ==
    /\ pc[p] = "replace"
    /\ ReplaceFails(p)
    /\ Goto(p, "idle")
    /\ held' = [held EXCEPT ![p] = NoStamp]
    /\ UNCHANGED <<effect, damaged, fakedEver, marker, snaps, lastStamp, kills, fails>>
-----------------------------------------------------------------------------
(* `migrate --fake NAME`: the State is loaded before the prompt is answered *)
StartFake(p) ==
    /\ CanFake
    /\ pc[p] = "idle"
    /\ Load(p)
    /\ Goto(p, "fake")
    /\ UNCHANGED <<held, effect, damaged, fakedEver, marker, snaps, lastStamp, kills, fails>>

(* The operator confirms a name that mem[p] does not record as applied *)
Fake(p) ==
    /\ pc[p] = "fake"
    /\ \E m \in Pending(mem[p]) :
         /\ mem' = [mem EXCEPT ![p] = [applied |-> @.applied \cup {m},
                                       faked |-> @.faked \cup {m}]]
         /\ fakedEver' = fakedEver \cup {m}
    /\ Goto(p, "open")
    /\ UNCHANGED <<disk, tmp, fd, held, effect, damaged, marker, snaps, lastStamp, kills, fails>>

(* The operator types something else, or the name is already applied *)
FakeRefused(p) ==
    /\ pc[p] = "fake"
    /\ Goto(p, "idle")
    /\ UNCHANGED <<fileVars, held, effect, damaged, fakedEver, marker, snaps, lastStamp, kills, fails>>
-----------------------------------------------------------------------------
(* SIGKILL, SIGINT (KeyboardInterrupt is no Exception), power loss *)
Kill(p) ==
    /\ pc[p] # "idle"
    /\ kills < MaxKills
    /\ kills' = kills + 1
    /\ CloseAll(p)
    /\ Goto(p, "idle")
    /\ held' = [held EXCEPT ![p] = NoStamp]
    /\ UNCHANGED <<effect, damaged, fakedEver, marker, snaps, lastStamp, fails>>

(* The operator follows the message of MigrationError: undoes the unfinished *)
(* changes by hand from the snapshot, then removes the marker                *)
Repair(m) ==
    /\ \A p \in Procs : pc[p] = "idle"
    /\ marker[m] # NoStamp
    /\ m \notin disk.val.applied
    /\ effect' = [effect EXCEPT ![m] = IF @ = "partial" THEN "none" ELSE @]
    /\ marker' = [marker EXCEPT ![m] = NoStamp]
    /\ UNCHANGED <<fileVars, pc, held, damaged, fakedEver, snaps, lastStamp, kills, fails>>

(* What a running process does without anybody's help *)
Progress(p) ==
    \/ Snapshot(p) \/ Finished(p) \/ Refuse(p) \/ BeginApply(p) \/ EndApply(p)
    \/ WriteMarker(p) \/ RecordApplied(p)
    \/ SaveOpen(p) \/ SaveWrite(p) \/ SaveReplace(p) \/ SaveFails(p)

Operator(p) ==
    Start(p) \/ StartRefused(p) \/ StartFake(p) \/ Fake(p) \/ FakeRefused(p)

Next ==
    \/ \E p \in Procs : Progress(p) \/ Operator(p) \/ FailApply(p) \/ Kill(p)
    \/ \E m \in Migrations : Repair(m)

Spec == Init /\ [][Next]_vars

(* A command that was started runs on, and the operator does what the CLI   *)
(* asks for: answers its prompt, and in spite of other commands in between  *)
(* (strong fairness) runs migrate again and repairs what a marker names.    *)
FairSpec ==
    /\ Spec
    /\ \A p \in Procs :
         WF_vars(Progress(p)) /\ SF_vars(Start(p)) /\ WF_vars(Fake(p) \/ FakeRefused(p))
    /\ \A m \in Migrations : SF_vars(Repair(m))
-----------------------------------------------------------------------------
(* state.json never records a migration as applied that did not run to its  *)
(* end: crashes, exceptions, lost updates and two CLIs notwithstanding, the *)
(* only way to skip one is --fake, and then the same file says so.          *)
RecordedImpliesRan ==
    \A m \in disk.val.applied \ disk.val.faked : effect[m] = "done"

(* "in order" (migrations/README.md): a migration touches the installation  *)
(* only after every earlier one ran to its end or was faked, even when the  *)
(* process works from a State that another CLI has made stale.              *)
InOrder ==
    \A m \in Migrations : effect[m] # "none" =>
        \A k \in 1..(m - 1) : effect[k] = "done" \/ k \in fakedEver

(* IDEMPOTENT, "may a crashed run simply be re-run?" (migrations/README.md): *)
(* a migration that is not idempotent never runs on what an earlier run of   *)
(* itself left behind, over any number of runs, failures and repairs.  The   *)
(* `except Exception` of apply_all sees to it unless a run is killed.        *)
FailedWaitsForRepair == kills = 0 => damaged = {}

(* The snapshot a failure marker names holds the .env from before the failed *)
(* migration, which is what "repair by hand using the snapshot" needs: later *)
(* runs take snapshots of the half-migrated .env before they are refused.    *)
MarkerNamesCleanSnapshot ==
    \A m \in Migrations \ Idempotent :
        marker[m] # NoStamp /\ kills = 0 => snaps[marker[m]][m] = "none"

(* "Applied once" (migrations/README.md): a CLI that is never killed does    *)
(* not run a migration again that already ran to its end.                    *)
AppliedOnce ==
    [][\A m \in Migrations : \A p \in Procs :
         (kills = 0 /\ pc[p] = "next" /\ pc'[p] = "apply" /\ IsNext(p, m))
           => effect[m] # "done"]_vars

Done == {m \in Migrations : effect[m] = "done"}

Ledger == INSTANCE MigrationLedger
    WITH done <- Done,
         faked <- fakedEver,
         recorded <- disk.val.applied

(* For a single CLI state.json is a ledger of migrations: it gets one entry  *)
(* at a time, of a migration that ran or was faked, and never loses one,     *)
(* whatever is killed between loading and saving it; nothing runs before its *)
(* turn.  An unreadable state.json (StateError) would have lost all entries. *)
ImplementsLedger == Ledger!LedgerSpec

(* Once the faults stop, running the CLI and repairing what it asks for     *)
(* brings every migration into state.json: no marker, no snapshot and no    *)
(* half-written state.tmp blocks the installation for good.                 *)
EventuallyAllRecorded == <>[](disk.val.applied = Migrations)
=============================================================================
