----------------------------- MODULE BackupProofs -----------------------------
(***************************************************************************)
(* What module Backup promises for any number of backups at once, any       *)
(* databases, migrations, --keep and bounds.                                *)
(***************************************************************************)
EXTENDS Backup, FiniteSetTheorems, WellFoundedInduction, TLAPS

(* p still writes to its archive *)
Writing(p) == pc[p] \in {"dump", "copyEnv", "copySecrets", "manifest"}

(* What a command leaves behind is gone when the next one begins; a prune   *)
(* is asked for, and finds what it removes, before it removes it; `migrate`  *)
(* goes on only while something is left to record                           *)
Stages ==
    /\ migrating => recorded < Migrations
    /\ \A p \in Procs :
        /\ pc[p] = "idle" => dumped[p] = {}
        /\ pc[p] = "dump" => todo[p] # {}
        /\ pc[p] \in {"list", "remove"} => keep[p] > 0
        /\ pc[p] # "remove" => doomed[p] = {}

(* Nothing is named after a second that has not come yet *)
Past ==
    /\ DOMAIN archives \cup robbed \subseteq 0..clock
    /\ \A p \in Procs : stamp[p] \in 0..clock /\ doomed[p] \subseteq 0..clock

(* state.json is behind .env; what a backup loaded is behind both; and so   *)
(* is every manifest behind the .env it was archived with, whichever of two *)
(* backups in one second wrote which of the two                             *)
Behind ==
    /\ recorded <= env
    /\ migrating => recorded < env
    /\ \A p \in Procs :
         /\ Writing(p) => applied[p] <= recorded
         /\ pc[p] \in {"copySecrets", "manifest"} /\ stamp[p] \in DOMAIN archives =>
                applied[p] <= archives[stamp[p]].env
    /\ \A s \in DOMAIN archives : Described(s) =>
         /\ archives[s].manifest.applied <= archives[s].env
         /\ s = clock \/ (\E p \in Procs : Writing(p) /\ stamp[p] = s) =>
                archives[s].manifest.applied <= recorded

(* An archive that was not pruned under its writer holds what the writer    *)
(* remembers, and a second writer is known                                  *)
Remembered ==
    /\ \A p \in Procs : Writing(p) /\ stamp[p] \notin robbed =>
         /\ stamp[p] \in DOMAIN archives
         /\ dumped[p] \subseteq archives[stamp[p]].dumps
         /\ pc[p] \in {"copySecrets", "manifest"} => archives[stamp[p]].env # Missing
         /\ stamp[p] \notin shared =>
                archives[stamp[p]].dumps = dumped[p] /\ ~Described(stamp[p])
    /\ \A p, q \in Procs :
         p # q /\ Writing(p) /\ Writing(q) /\ stamp[p] = stamp[q] => stamp[p] \in shared \cup robbed

(* The newest archive there has been is never pruned: all that was, or is   *)
(* going to be, is older                                                    *)
NewestStays ==
    \/ DOMAIN archives = {} /\ robbed = {} /\ \A p \in Procs : doomed[p] = {}
    \/ \E m \in DOMAIN archives :
         /\ \A t \in DOMAIN archives : t <= m
         /\ \A s \in robbed : s < m
         /\ \A p \in Procs : \A s \in doomed[p] : s < m

(* A prune goes from the oldest up *)
OldestFirst ==
    \A p \in Procs : \A d \in doomed[p] : \A s \in DOMAIN archives \ robbed :
        s < d => s \in doomed[p]

(* A backup that is about to prune has its own archive, or is overtaken *)
OwnArchive ==
    \A p \in Procs : pc[p] = "list" =>
        \/ stamp[p] \in DOMAIN archives \ robbed /\ Described(stamp[p])
        \/ \E t \in DOMAIN archives : t > stamp[p]

(* What one that was not overtaken removes has a newer one that is complete *)
Replaced ==
    \A p \in Procs : pc[p] = "remove" /\ p \notin overtaken =>
        \A s \in doomed[p] : s \in DOMAIN archives \ robbed =>
            \E t \in DOMAIN archives \ robbed : t > s /\ Described(t)

Pruning == NewestStays /\ OldestFirst /\ OwnArchive /\ Replaced

BInv == TypeOK /\ Stages /\ Past /\ Behind /\ ManifestTruthful /\ Remembered /\ Pruning
-----------------------------------------------------------------------------
(* Numbers that there are have a smallest one *)
LEMMA LeastOf ==
    ASSUME NEW S, S \subseteq Nat, S # {}
    PROVE  Min(S) \in S /\ \A y \in S : Min(S) <= y
<1> DEFINE Less == {r \in Nat \X Nat : r[1] < r[2]}
<1>1. Less = OpToRel(<, Nat)
  BY DEF OpToRel
<1>2. IsWellFoundedOn(Less, Nat)
  BY <1>1, NatLessThanWellFounded
<1>3. \A x, y \in Nat : y < x => <<y, x>> \in Less
  OBVIOUS
<1> HIDE DEF Less
<1>4. PICK x \in S : \A y \in S : ~(<<y, x>> \in Less)
  BY <1>2, WFMin
<1>5. \A y \in S : ~(y < x)
  BY <1>3, <1>4
<1>6. \A y \in S : x <= y
  BY <1>5
<1> QED
  BY <1>6 DEF Min

(* Of two numbers, the smaller and the larger *)
LEMMA OfTwo ==
    ASSUME NEW a \in Nat, NEW b \in Nat
    PROVE  /\ Min({a, b}) \in {a, b} /\ Min({a, b}) <= a /\ Min({a, b}) <= b
           /\ Max({a, b}) \in {a, b} /\ Max({a, b}) >= a /\ Max({a, b}) >= b
<1>1. Min({a, b}) \in {a, b} /\ \A y \in {a, b} : Min({a, b}) <= y
  <2>1. {a, b} \subseteq Nat /\ {a, b} # {}
    OBVIOUS
  <2> QED
    BY ONLY <2>1, LeastOf
<1>2. \E x \in {a, b} : \A y \in {a, b} : x >= y
  <2>1. CASE a >= b
    BY <2>1
  <2>2. CASE ~(a >= b)
    BY <2>2
  <2> QED
    BY <2>1, <2>2
<1>3. Max({a, b}) \in {a, b} /\ \A y \in {a, b} : Max({a, b}) >= y
  BY <1>2 DEF Max
<1> QED
  BY <1>1, <1>3

(* One archive is written, the others stay as they are *)
Writes(s, c) ==
    /\ DOMAIN archives' = DOMAIN archives \cup {s}
    /\ archives'[s] = c
    /\ \A t \in DOMAIN archives : t # s => archives'[t] = archives[t]

(* backups/ with one archive given anew *)
LEMMA Written ==
    ASSUME NEW s, NEW c, archives' = With(s, c)
    PROVE  Writes(s, c)
BY DEF With, Writes

(* What the file helpers return, and that no archive is taken for another *)
LEMMA ArchiveType ==
    ASSUME TypeOK
    PROVE  /\ EmptyArchive \in Archive
           /\ \A s : Contents(s) \in Archive
           /\ \A s \in DOMAIN archives : Contents(s) = archives[s]
           /\ \A s : s \notin DOMAIN archives => Contents(s) = EmptyArchive
           /\ Migrations \in Nat /\ Missing = Migrations + 1 /\ env # Missing
           /\ NoManifest.applied = Missing /\ NoManifest.dumps = {}
<1>1. Migrations \in Nat /\ Missing = Migrations + 1 /\ Missing \in 0..Missing
  BY BackupAssumption DEF Missing
<1>2. EmptyArchive \in Archive
  BY <1>1 DEF EmptyArchive, Archive, NoManifest
<1>3. NoManifest.applied = Missing /\ NoManifest.dumps = {}
  BY DEF NoManifest
<1>4. env # Missing /\ \A s \in DOMAIN archives : archives[s] \in Archive
  BY <1>1 DEF TypeOK
<1> QED
  BY <1>1, <1>2, <1>3, <1>4 DEF Contents

(* Begin makes the directory of its second, unless it is there *)
LEMMA BeginWrites ==
    ASSUME TypeOK, NEW p \in Procs, Begin(p)
    PROVE  Writes(clock, Contents(clock))
<1>1. archives' = With(clock, Contents(clock))
  BY DEF Begin
<1> QED
  BY <1>1, Written

(* Dump adds the dump of one running database that has none yet *)
LEMMA DumpWrites ==
    ASSUME TypeOK, Stages, NEW p \in Procs, Dump(p)
    PROVE  \E d \in Databases :
              /\ d \in todo[p]
              /\ stamp[p] \in DOMAIN archives
              /\ Writes(stamp[p], [archives[stamp[p]] EXCEPT !.dumps = @ \cup {d}])
              /\ todo' = [todo EXCEPT ![p] = @ \ {d}]
              /\ dumped' = [dumped EXCEPT ![p] = @ \cup {d}]
              /\ pc' = [pc EXCEPT ![p] = "dump"] \/ pc' = [pc EXCEPT ![p] = "copyEnv"]
              /\ pc'[p] = "dump" => todo'[p] # {}
<1> DEFINE d == Min(todo[p])
<1>1. todo \in [Procs -> SUBSET Databases] /\ pc \in [Procs -> {"idle", "dump", "copyEnv",
          "copySecrets", "manifest", "list", "remove"}]
  BY DEF TypeOK
<1>2. todo[p] # {} /\ todo[p] \subseteq Nat
  BY <1>1, BackupAssumption DEF Stages, Dump
<1>3. d \in todo[p] /\ d \in Databases
  BY <1>1, <1>2, LeastOf
<1>4. /\ stamp[p] \in DOMAIN archives
      /\ archives' = [archives EXCEPT ![stamp[p]].dumps = @ \cup {d}]
      /\ todo' = [todo EXCEPT ![p] = @ \ {d}]
      /\ dumped' = [dumped EXCEPT ![p] = @ \cup {d}]
      /\ pc' = [pc EXCEPT ![p] = IF Cardinality(todo[p]) = 1 THEN "copyEnv" ELSE "dump"]
  BY DEF Dump, Goto
<1>5. Cardinality(todo[p]) # 1 => todo[p] \ {d} # {}
  <2>1. todo[p] \ {d} = {} => todo[p] = {d}
    BY <1>3
  <2> HIDE DEF d
  <2> QED
    BY <2>1, FS_Singleton
<1> HIDE DEF d
<1>6. Writes(stamp[p], [archives[stamp[p]] EXCEPT !.dumps = @ \cup {d}])
  BY <1>4 DEF Writes
<1>7. pc'[p] = "dump" => todo'[p] # {}
  BY <1>1, <1>4, <1>5
<1> QED
  BY <1>3, <1>4, <1>6, <1>7

(* What the later steps of a backup write, each to its own archive *)
LEMMA CopyWrites ==
    ASSUME TypeOK, NEW p \in Procs
    PROVE  /\ CopyEnv(p) => Writes(stamp[p], [Contents(stamp[p]) EXCEPT !.env = env])
           /\ CopySecrets(p) => Writes(stamp[p], Contents(stamp[p]))
           /\ WriteManifest(p) =>
                Writes(stamp[p], [archives[stamp[p]] EXCEPT !.manifest = Manifest(p)])
<1>1. CopyEnv(p) => Writes(stamp[p], [Contents(stamp[p]) EXCEPT !.env = env])
  <2> DEFINE c == [Contents(stamp[p]) EXCEPT !.env = env]
  <2>1. CopyEnv(p) => archives' = With(stamp[p], c)
    BY DEF CopyEnv
  <2> HIDE DEF c
  <2>2. CopyEnv(p) => Writes(stamp[p], c)
    BY <2>1, Written
  <2> QED
    BY <2>2 DEF c
<1>2. CopySecrets(p) => Writes(stamp[p], Contents(stamp[p]))
  BY Written DEF CopySecrets
<1>3. WriteManifest(p) =>
        Writes(stamp[p], [archives[stamp[p]] EXCEPT !.manifest = Manifest(p)])
  BY DEF WriteManifest, Writes
<1> QED
  BY <1>1, <1>2, <1>3

(* Recording an archive that is of the type keeps all of them of the type *)
LEMMA WritesType ==
    ASSUME TypeOK, NEW s \in 0..MaxClock, NEW c \in Archive, Writes(s, c)
    PROVE  DOMAIN archives' \subseteq 0..MaxClock /\ \A t \in DOMAIN archives' : archives'[t] \in Archive
BY DEF Writes, TypeOK

(* A command that ends leaves every table of the commands of its type *)
LEMMA EndType ==
    ASSUME TypeOK, Stages, NEW p \in Procs, End(p)
    PROVE  /\ pc' \in [Procs -> {"idle", "dump", "copyEnv", "copySecrets", "manifest",
                                 "list", "remove"}]
           /\ keep' \in [Procs -> 0..MaxKeep]
           /\ applied' \in [Procs -> 0..Migrations]
           /\ stamp' \in [Procs -> 0..MaxClock]
           /\ todo' \in [Procs -> SUBSET Databases]
           /\ dumped' \in [Procs -> SUBSET Databases]
           /\ doomed' \in [Procs -> SUBSET (0..MaxClock)]
           /\ overtaken' \subseteq Procs
           /\ UNCHANGED migrateVars => Stages'
<1>1. {} \in SUBSET Databases /\ {} \in SUBSET (0..MaxClock)
      /\ 0 \in 0..MaxKeep /\ 0 \in 0..Migrations /\ 0 \in 0..MaxClock
  BY BackupAssumption
<1>2. /\ pc' = [pc EXCEPT ![p] = "idle"]
      /\ keep' = [keep EXCEPT ![p] = 0]
      /\ applied' = [applied EXCEPT ![p] = 0]
      /\ stamp' = [stamp EXCEPT ![p] = 0]
      /\ todo' = [todo EXCEPT ![p] = {}]
      /\ dumped' = [dumped EXCEPT ![p] = {}]
      /\ doomed' = [doomed EXCEPT ![p] = {}]
      /\ overtaken' = overtaken \ {p}
  BY DEF End, Goto
<1> QED
  BY <1>1, <1>2 DEF TypeOK, Stages, migrateVars

(* What Unlink takes away: one file of the oldest archive that p has found *)
LEMMA Unlinked ==
    ASSUME TypeOK, NEW p \in Procs, Unlink(p)
    PROVE  /\ pc[p] = "remove"
           /\ UNCHANGED <<env, clock, pc, keep, applied, stamp, todo, dumped, doomed,
                          migrateVars, shared, overtaken, overlaps, faults>>
           /\ \E x \in DOMAIN archives :
                /\ x \in doomed[p] /\ \A y \in doomed[p] : x <= y
                /\ DOMAIN archives' = DOMAIN archives
                /\ \A t \in DOMAIN archives : t # x => archives'[t] = archives[t]
                /\ archives'[x] \in Archive
                /\ archives'[x].env \in {archives[x].env, Missing}
                /\ archives'[x].manifest \in {archives[x].manifest, NoManifest}
                /\ robbed \subseteq robbed' /\ robbed' \subseteq robbed \cup {x}
                /\ \A q \in Procs : Writing(q) /\ stamp[q] = x => x \in robbed'
<1> DEFINE x == Min(doomed[p])
<1>1. doomed[p] # {} /\ doomed[p] \subseteq Nat
  BY BackupAssumption DEF Unlink, TypeOK
<1>2. x \in doomed[p] /\ \A y \in doomed[p] : x <= y
  BY <1>1, LeastOf
<1>3. x \in DOMAIN archives /\ Robs(x)
  BY DEF Unlink
<1>4. PICK contents \in Fewer(archives[x]) : archives' = [archives EXCEPT ![x] = contents]
  BY DEF Unlink
<1> HIDE DEF x
<1>5. /\ DOMAIN archives' = DOMAIN archives /\ archives'[x] = contents
      /\ \A t \in DOMAIN archives : t # x => archives'[t] = archives[t]
  BY <1>3, <1>4
<1>6. /\ archives[x] \in Archive /\ Missing \in 0..Missing
      /\ NoManifest \in [applied : 0..Missing, dumps : SUBSET Databases]
  BY <1>3, ArchiveType DEF TypeOK, NoManifest
<1>7. /\ contents \in Archive
      /\ contents.env \in {archives[x].env, Missing}
      /\ contents.manifest \in {archives[x].manifest, NoManifest}
  <2>1. CASE contents = [archives[x] EXCEPT !.env = Missing]
    BY <1>6, <2>1 DEF Archive
  <2>2. CASE contents = [archives[x] EXCEPT !.manifest = NoManifest]
    BY <1>6, <2>2 DEF Archive
  <2>3. CASE \E d \in archives[x].dumps : contents = [archives[x] EXCEPT !.dumps = @ \ {d}]
    BY <1>6, <2>3 DEF Archive
  <2> QED
    BY <1>4, <2>1, <2>2, <2>3 DEF Fewer
<1>8. /\ robbed \subseteq robbed' /\ robbed' \subseteq robbed \cup {x}
      /\ \A q \in Procs : Writing(q) /\ stamp[q] = x => x \in robbed'
  BY <1>3 DEF Robs, WritingTo, Writing
<1>9. /\ pc[p] = "remove"
      /\ UNCHANGED <<env, clock, pc, keep, applied, stamp, todo, dumped, doomed,
                     migrateVars, shared, overtaken, overlaps, faults>>
  BY DEF Unlink
<1> QED
  BY <1>2, <1>3, <1>5, <1>7, <1>8, <1>9

(* Before the first backup *)
LEMMA InitType == Init => TypeOK /\ Stages
<1>1. {} \in SUBSET Databases /\ {} \in SUBSET (0..MaxClock)
      /\ 0 \in 0..MaxKeep /\ 0 \in 0..Migrations /\ 0 \in 0..MaxClock
      /\ 0 \in 0..MaxOverlaps /\ 0 \in 0..MaxFaults
  BY BackupAssumption
<1>2. ASSUME Init PROVE DOMAIN archives = {} /\ {} \subseteq Procs
  BY <1>2 DEF Init
<1>3. ASSUME Init PROVE TypeOK
  BY <1>1, <1>2, <1>3, BackupAssumption DEF Init, TypeOK
<1> QED
  BY <1>3 DEF Init, Stages

(* Every step leaves each variable of its type, and the stages in order *)
LEMMA NextType == TypeOK /\ Stages /\ [Next]_vars => TypeOK' /\ Stages'
<1> SUFFICES ASSUME TypeOK, Stages, [Next]_vars PROVE TypeOK' /\ Stages'
  OBVIOUS
<1> DEFINE Places == {"idle", "dump", "copyEnv", "copySecrets", "manifest", "list", "remove"}
<1> USE DEF backupVars, migrateVars, history
<1>1. /\ pc \in [Procs -> Places] /\ keep \in [Procs -> 0..MaxKeep]
      /\ applied \in [Procs -> 0..Migrations] /\ stamp \in [Procs -> 0..MaxClock]
      /\ todo \in [Procs -> SUBSET Databases] /\ dumped \in [Procs -> SUBSET Databases]
      /\ doomed \in [Procs -> SUBSET (0..MaxClock)]
      /\ clock \in 0..MaxClock /\ env \in 0..Migrations
  BY DEF TypeOK
<1>2. ASSUME NEW p \in Procs, Begin(p) PROVE TypeOK' /\ Stages'
  <2>1. DOMAIN archives' \subseteq 0..MaxClock /\ \A t \in DOMAIN archives' : archives'[t] \in Archive
    BY <1>1, <1>2, ArchiveType, BeginWrites, WritesType
  <2>2. /\ keep' \in [Procs -> 0..MaxKeep]
        /\ applied' \in [Procs -> 0..Migrations]
        /\ stamp' \in [Procs -> 0..MaxClock]
        /\ shared' \cup robbed' \subseteq 0..MaxClock
        /\ overlaps' \in 0..MaxOverlaps
        /\ UNCHANGED <<env, clock, dumped, doomed, recorded, migrating, robbed, overtaken, faults>>
    BY <1>1, <1>2, BackupAssumption DEF Begin, TypeOK
  <2>3. PICK running \in SUBSET Databases :
          /\ todo' = [todo EXCEPT ![p] = running]
          /\ pc' = [pc EXCEPT ![p] = IF running = {} THEN "copyEnv" ELSE "dump"]
    BY <1>2 DEF Begin, Goto
  <2>4. TypeOK'
    BY <1>1, <2>1, <2>2, <2>3 DEF TypeOK
  <2>5. pc[p] = "idle"
    BY <1>2 DEF Begin
  <2>6. \A q \in Procs : q # p => pc'[q] = pc[q] /\ todo'[q] = todo[q] /\ keep'[q] = keep[q]
    BY <1>1, <1>2, <2>3 DEF Begin
  <2>7. pc'[p] \in {"copyEnv", "dump"} /\ (pc'[p] = "dump" => todo'[p] # {})
    BY <1>1, <2>3
  <2> QED
    BY <2>2, <2>4, <2>5, <2>6, <2>7 DEF Stages
<1>3. ASSUME NEW p \in Procs, Dump(p) PROVE TypeOK' /\ Stages'
  <2>1. PICK d \in Databases :
              /\ d \in todo[p]
              /\ stamp[p] \in DOMAIN archives
              /\ Writes(stamp[p], [archives[stamp[p]] EXCEPT !.dumps = @ \cup {d}])
              /\ todo' = [todo EXCEPT ![p] = @ \ {d}]
              /\ dumped' = [dumped EXCEPT ![p] = @ \cup {d}]
              /\ pc' = [pc EXCEPT ![p] = "dump"] \/ pc' = [pc EXCEPT ![p] = "copyEnv"]
              /\ pc'[p] = "dump" => todo'[p] # {}
    BY <1>3, DumpWrites
  <2>2. [archives[stamp[p]] EXCEPT !.dumps = @ \cup {d}] \in Archive
    BY <2>1 DEF TypeOK, Archive
  <2>3. DOMAIN archives' \subseteq 0..MaxClock /\ \A t \in DOMAIN archives' : archives'[t] \in Archive
    BY <1>1, <2>1, <2>2, WritesType
  <2>4. UNCHANGED <<env, clock, keep, applied, stamp, doomed, migrateVars, history, overlaps, faults>>
    BY <1>3 DEF Dump
  <2>5. pc[p] = "dump"
    BY <1>3 DEF Dump
  <2> QED
    BY <1>1, <2>1, <2>3, <2>4, <2>5 DEF TypeOK, Stages
<1>4. ASSUME NEW p \in Procs, CopyEnv(p) \/ CopySecrets(p) PROVE TypeOK' /\ Stages'
  <2>1. DOMAIN archives' \subseteq 0..MaxClock /\ \A t \in DOMAIN archives' : archives'[t] \in Archive
    <3>1. env \in 0..Missing
      BY <1>1, ArchiveType
    <3>2. [Contents(stamp[p]) EXCEPT !.env = env] \in Archive
      BY <3>1, ArchiveType DEF Archive
    <3> QED
      BY <1>1, <1>4, <3>2, ArchiveType, CopyWrites, WritesType
  <2>2. /\ UNCHANGED <<env, clock, keep, applied, stamp, todo, dumped, doomed,
                       migrateVars, history, overlaps, faults>>
        /\ pc' = [pc EXCEPT ![p] = "copySecrets"] \/ pc' = [pc EXCEPT ![p] = "manifest"]
        /\ pc[p] \in {"copyEnv", "copySecrets"}
    BY <1>4 DEF CopyEnv, CopySecrets, Goto
  <2> QED
    BY <1>1, <2>1, <2>2 DEF TypeOK, Stages
<1>5. ASSUME NEW p \in Procs, WriteManifest(p) PROVE TypeOK' /\ Stages'
  <2>1. DOMAIN archives' \subseteq 0..MaxClock /\ \A t \in DOMAIN archives' : archives'[t] \in Archive
    <3>1. Manifest(p) \in [applied : 0..Missing, dumps : SUBSET Databases]
      BY <1>1, ArchiveType DEF Manifest
    <3>2. stamp[p] \in DOMAIN archives /\ archives[stamp[p]] \in Archive
      BY <1>5 DEF WriteManifest, TypeOK
    <3>3. [archives[stamp[p]] EXCEPT !.manifest = Manifest(p)] \in Archive
      BY <3>1, <3>2 DEF Archive
    <3> QED
      BY <1>1, <1>5, <3>3, CopyWrites, WritesType
  <2>2. UNCHANGED <<env, clock, migrateVars, shared, robbed, overlaps, faults>>
    BY <1>5 DEF WriteManifest
  <2>3. CASE End(p)
    BY <2>1, <2>2, <2>3, EndType DEF TypeOK
  <2>4. CASE keep[p] > 0 /\ Goto(p, "list")
               /\ UNCHANGED <<keep, applied, stamp, todo, dumped, doomed, overtaken>>
    <3>1. pc[p] = "manifest"
      BY <1>5 DEF WriteManifest
    <3> QED
      BY <1>1, <2>1, <2>2, <2>4, <3>1 DEF TypeOK, Stages, Goto
  <2> QED
    BY <1>5, <2>3, <2>4 DEF WriteManifest
<1>6. ASSUME NEW p \in Procs, Robbed(p) \/ Pruned(p) PROVE TypeOK' /\ Stages'
  BY <1>6, EndType DEF Robbed, Pruned, TypeOK
<1>7. ASSUME NEW p \in Procs, Abort(p) PROVE TypeOK' /\ Stages'
  BY <1>7, EndType, BackupAssumption DEF Abort, TypeOK
<1>8. ASSUME NEW p \in Procs, List(p) PROVE TypeOK' /\ Stages'
  <2>1. Outdated(p) \subseteq 0..MaxClock
    BY DEF Outdated, TypeOK
  <2>2. /\ doomed' = [doomed EXCEPT ![p] = Outdated(p)]
        /\ pc' = [pc EXCEPT ![p] = "remove"] /\ pc[p] = "list"
        /\ overtaken' \subseteq overtaken \cup {p}
        /\ UNCHANGED <<env, clock, archives, keep, applied, stamp, todo, dumped,
                       migrateVars, shared, robbed, overlaps, faults>>
    BY <1>8 DEF List, Goto
  <2> QED
    BY <1>1, <2>1, <2>2 DEF TypeOK, Stages
<1>9. ASSUME NEW p \in Procs, Remove(p) PROVE TypeOK' /\ Stages'
  <2>1. PICK s \in DOMAIN archives :
          /\ archives' = [t \in DOMAIN archives \ {s} |-> archives[t]]
          /\ doomed' = [doomed EXCEPT ![p] = @ \ {s}]
          /\ robbed' \subseteq robbed \cup {s}
    BY <1>9 DEF Remove, Robs
  <2>2. /\ pc[p] = "remove"
        /\ UNCHANGED <<env, clock, pc, keep, applied, stamp, todo, dumped,
                       migrateVars, shared, overtaken, overlaps, faults>>
    BY <1>9 DEF Remove
  <2> QED
    BY <1>1, <2>1, <2>2 DEF TypeOK, Stages
<1>10. ASSUME MigrateApplies \/ MigrateRecords \/ MigrateKilled PROVE TypeOK' /\ Stages'
  <2>1. UNCHANGED <<clock, archives, backupVars, history, overlaps>>
    BY <1>10 DEF MigrateApplies, MigrateRecords, MigrateKilled
  <2>2. CASE MigrateApplies
    <3>1. env' \in 0..Migrations
      <4>1. /\ env \in Nat /\ recorded + 1 \in Nat /\ recorded + 1 <= Migrations /\ env <= Migrations
            /\ env' = Max({env, recorded + 1}) /\ Migrations \in Nat
        BY <2>2, BackupAssumption DEF MigrateApplies, TypeOK
      <4>2. env' \in {env, recorded + 1}
        BY <4>1, OfTwo
      <4> QED
        BY <4>1, <4>2
    <3> QED
      BY <2>1, <2>2, <3>1 DEF MigrateApplies, TypeOK, Stages
  <2>3. CASE MigrateRecords
    <3>1. recorded' \in 0..Migrations
      BY <2>3, BackupAssumption DEF MigrateRecords, TypeOK, Stages
    <3> QED
      BY <2>1, <2>3, <3>1 DEF MigrateRecords, TypeOK, Stages
  <2>4. CASE MigrateKilled
    <3>1. faults' \in 0..MaxFaults /\ migrating' = FALSE /\ UNCHANGED <<env, recorded>>
      BY <2>4, BackupAssumption DEF MigrateKilled, TypeOK
    <3>2. Stages'
      BY <2>1, <3>1 DEF Stages
    <3> QED
      BY <2>1, <3>1, <3>2 DEF TypeOK
  <2> QED
    BY <1>10, <2>2, <2>3, <2>4
<1>11. ASSUME Restore PROVE TypeOK' /\ Stages'
  <2>1. PICK s \in DOMAIN archives :
          /\ archives[s].env # Missing
          /\ env' = archives[s].env
          /\ recorded' = Min({recorded, archives[s].manifest.applied})
    BY <1>11 DEF Restore
  <2>2. archives[s].env \in 0..Missing /\ archives[s].manifest.applied \in Nat /\ recorded \in 0..Migrations
    BY DEF TypeOK, Archive
  <2>3. env' \in 0..Migrations
    BY <2>1, <2>2, ArchiveType
  <2>4. recorded' \in 0..Migrations
    BY <2>1, <2>2, OfTwo, BackupAssumption
  <2>5. UNCHANGED <<archives, backupVars, migrating, history, overlaps, faults>> /\ clock' \in 0..MaxClock
       /\ ~migrating
    BY <1>11, BackupAssumption DEF Restore, TypeOK
  <2> QED
    BY <2>3, <2>4, <2>5 DEF TypeOK, Stages
<1>12. ASSUME Tick PROVE TypeOK' /\ Stages'
  BY <1>12, BackupAssumption DEF Tick, TypeOK, Stages
<1>13. CASE UNCHANGED vars
  BY <1>13 DEF vars, TypeOK, Stages
<1>14. ASSUME NEW p \in Procs, Unlink(p) PROVE TypeOK' /\ Stages'
  <2>1. UNCHANGED <<env, clock, pc, keep, applied, stamp, todo, dumped, doomed,
                    migrateVars, shared, overtaken, overlaps, faults>>
    BY <1>14, Unlinked
  <2>2. PICK x \in DOMAIN archives :
          /\ DOMAIN archives' = DOMAIN archives
          /\ \A t \in DOMAIN archives : t # x => archives'[t] = archives[t]
          /\ archives'[x] \in Archive
          /\ robbed' \subseteq robbed \cup {x}
    BY <1>14, Unlinked
  <2> QED
    BY <1>1, <2>1, <2>2 DEF TypeOK, Stages
<1> QED
  BY <1>2, <1>3, <1>4, <1>5, <1>6, <1>7, <1>8, <1>9, <1>10, <1>11, <1>12, <1>13, <1>14
  DEF Next, BackupStep

(* What a command that ended, or was cut off, leaves of itself *)
LEMMA Ended ==
    ASSUME TypeOK, NEW p \in Procs, End(p)
    PROVE  /\ pc'[p] = "idle" /\ stamp'[p] = 0 /\ dumped'[p] = {} /\ doomed'[p] = {}
           /\ overtaken' = overtaken \ {p}
           /\ \A q \in Procs : q # p =>
                /\ pc'[q] = pc[q] /\ stamp'[q] = stamp[q] /\ applied'[q] = applied[q]
                /\ dumped'[q] = dumped[q] /\ doomed'[q] = doomed[q]
BY DEF End, Goto, TypeOK

(* Who begins a backup, and where *)
LEMMA Begun ==
    ASSUME TypeOK, NEW p \in Procs, Begin(p)
    PROVE  /\ pc[p] = "idle" /\ pc'[p] \in {"dump", "copyEnv"}
           /\ stamp'[p] = clock /\ applied'[p] = recorded
           /\ \A q \in Procs : q # p =>
                pc'[q] = pc[q] /\ stamp'[q] = stamp[q] /\ applied'[q] = applied[q]
           /\ UNCHANGED <<env, clock, dumped, doomed, migrateVars, robbed, overtaken>>
<1>1. PICK running \in SUBSET Databases :
        pc' = [pc EXCEPT ![p] = IF running = {} THEN "copyEnv" ELSE "dump"]
  BY DEF Begin, Goto
<1> QED
  BY <1>1 DEF Begin, TypeOK

(* The steps that write to one archive, and what they leave as it is *)
WritesOnly(p) == Dump(p) \/ CopyEnv(p) \/ CopySecrets(p) \/ WriteManifest(p)

(* The steps that write touch the archive of their process and nothing else *)
LEMMA WriteStep ==
    ASSUME TypeOK, Stages, NEW p \in Procs, WritesOnly(p)
    PROVE  /\ Writing(p)
           /\ DOMAIN archives' = DOMAIN archives \cup {stamp[p]}
           /\ \A t \in DOMAIN archives : t # stamp[p] => archives'[t] = archives[t]
           /\ \A q \in Procs : q # p =>
                /\ pc'[q] = pc[q] /\ stamp'[q] = stamp[q] /\ applied'[q] = applied[q]
                /\ dumped'[q] = dumped[q] /\ doomed'[q] = doomed[q]
           /\ UNCHANGED <<env, clock, migrateVars, shared, robbed>>
           /\ \/ pc'[p] = "idle" /\ stamp'[p] = 0 /\ doomed'[p] = {}
              \/ /\ pc'[p] # "idle" /\ pc'[p] # "remove"
                 /\ stamp'[p] = stamp[p] /\ applied'[p] = applied[p] /\ doomed'[p] = doomed[p]
                 /\ UNCHANGED overtaken
<1>1. CASE Dump(p)
  <2>1. PICK d \in Databases : Writes(stamp[p], [archives[stamp[p]] EXCEPT !.dumps = @ \cup {d}])
    BY <1>1, DumpWrites
  <2>2. /\ UNCHANGED <<env, clock, keep, applied, stamp, doomed, migrateVars, history, overlaps, faults>>
        /\ pc[p] = "dump"
        /\ pc' = [pc EXCEPT ![p] = "dump"] \/ pc' = [pc EXCEPT ![p] = "copyEnv"]
    BY <1>1, DumpWrites DEF Dump
  <2>3. \A q \in Procs : q # p => dumped'[q] = dumped[q]
    BY <1>1 DEF Dump, TypeOK
  <2>4. pc'[p] \in {"dump", "copyEnv"} /\ \A q \in Procs : q # p => pc'[q] = pc[q]
    BY <2>2 DEF TypeOK
  <2>5. UNCHANGED <<applied, stamp, doomed, overtaken>>
    BY <2>2 DEF history
  <2> QED
    BY <2>1, <2>2, <2>3, <2>4, <2>5 DEF Writes, history, Writing
<1>2. CASE CopyEnv(p) \/ CopySecrets(p)
  <2>1. PICK c : Writes(stamp[p], c)
    BY <1>2, CopyWrites
  <2> QED
    BY <1>2, <2>1 DEF CopyEnv, CopySecrets, Goto, Writes, history, TypeOK, Writing
<1>3. CASE WriteManifest(p)
  <2>1. Writes(stamp[p], [archives[stamp[p]] EXCEPT !.manifest = Manifest(p)])
    BY <1>3, CopyWrites
  <2>2. UNCHANGED <<env, clock, migrateVars, shared, robbed>> /\ pc[p] = "manifest"
    BY <1>3 DEF WriteManifest
  <2>3. CASE End(p)
    BY <2>1, <2>2, <2>3, Ended DEF Writes, Writing
  <2>4. CASE Goto(p, "list") /\ UNCHANGED <<keep, applied, stamp, todo, dumped, doomed, overtaken>>
    BY <2>1, <2>2, <2>4 DEF Goto, Writes, TypeOK, Writing
  <2> QED
    BY <1>3, <2>3, <2>4 DEF WriteManifest
<1> QED
  BY <1>1, <1>2, <1>3 DEF WritesOnly

(* The clock never goes back *)
LEMMA PastStep ==
    ASSUME TypeOK, Stages, Past, [Next]_vars
    PROVE  Past'
<1>1. clock \in Nat /\ clock' \in Nat /\ clock <= clock'
  <2>1. clock' \in {clock, clock + 1}
    BY DEF Next, BackupStep, Begin, Dump, CopyEnv, CopySecrets, WriteManifest, Robbed, List,
           Unlink, Remove, Pruned, Abort, MigrateApplies, MigrateRecords, MigrateKilled, Restore, Tick, vars
  <2> QED
    BY <2>1, BackupAssumption DEF TypeOK
<1>2. ASSUME NEW p \in Procs, Begin(p) PROVE Past'
  BY <1>1, <1>2, Begun, BeginWrites DEF Past, Writes
<1>3. ASSUME NEW p \in Procs, WritesOnly(p) PROVE Past'
  <2>1. /\ DOMAIN archives' = DOMAIN archives \cup {stamp[p]}
        /\ \A q \in Procs : q # p => stamp'[q] = stamp[q] /\ doomed'[q] = doomed[q]
        /\ stamp'[p] \in {0, stamp[p]} /\ doomed'[p] \in {{}, doomed[p]}
        /\ UNCHANGED <<clock, robbed>>
    BY <1>3, WriteStep
  <2> QED
    BY <1>1, <2>1 DEF Past
<1>4. ASSUME NEW p \in Procs, Robbed(p) \/ Pruned(p) \/ Abort(p) PROVE Past'
  <2>1. End(p) /\ UNCHANGED <<clock, archives, robbed>>
    BY <1>4 DEF Robbed, Pruned, Abort
  <2> QED
    BY <1>1, <2>1, Ended DEF Past
<1>5. ASSUME NEW p \in Procs, List(p) PROVE Past'
  <2>1. Outdated(p) \subseteq DOMAIN archives
    BY DEF Outdated
  <2> QED
    BY <1>5, <2>1 DEF List, Past, TypeOK
<1>6. ASSUME NEW p \in Procs, Remove(p) PROVE Past'
  BY <1>6 DEF Remove, Robs, Past, TypeOK
<1>7. CASE MigrateApplies \/ MigrateRecords \/ MigrateKilled \/ Restore \/ Tick \/ UNCHANGED vars
  <2>1. UNCHANGED <<archives, backupVars, history>>
    BY <1>7 DEF MigrateApplies, MigrateRecords, MigrateKilled, Restore, Tick, vars
  <2> QED
    BY <1>1, <2>1 DEF backupVars, history, Past
<1>8. ASSUME NEW p \in Procs, Unlink(p) PROVE Past'
  BY <1>8, Unlinked DEF Past
<1> QED
  BY <1>2, <1>3, <1>4, <1>5, <1>6, <1>7, <1>8 DEF Next, BackupStep, WritesOnly

(* The parts of an archive after each step that writes to it *)
LEMMA DumpParts ==
    ASSUME TypeOK, Stages, NEW p \in Procs, Dump(p)
    PROVE  /\ stamp[p] \in DOMAIN archives /\ pc[p] = "dump"
           /\ pc'[p] \in {"dump", "copyEnv"}
           /\ archives'[stamp[p]].env = archives[stamp[p]].env
           /\ archives'[stamp[p]].manifest = archives[stamp[p]].manifest
           /\ \E d \in Databases :
                /\ archives'[stamp[p]].dumps = archives[stamp[p]].dumps \cup {d}
                /\ dumped'[p] = dumped[p] \cup {d}
<1>1. PICK d \in Databases :
              /\ d \in todo[p]
              /\ stamp[p] \in DOMAIN archives
              /\ Writes(stamp[p], [archives[stamp[p]] EXCEPT !.dumps = @ \cup {d}])
              /\ dumped' = [dumped EXCEPT ![p] = @ \cup {d}]
              /\ pc' = [pc EXCEPT ![p] = "dump"] \/ pc' = [pc EXCEPT ![p] = "copyEnv"]
  BY DumpWrites
<1>2. archives'[stamp[p]] = [archives[stamp[p]] EXCEPT !.dumps = @ \cup {d}]
  BY <1>1 DEF Writes
<1>3. pc[p] = "dump" /\ pc'[p] \in {"dump", "copyEnv"} /\ dumped'[p] = dumped[p] \cup {d}
  BY <1>1 DEF Dump, TypeOK
<1>4. archives[stamp[p]] \in Archive
  BY <1>1 DEF TypeOK
<1> QED
  BY <1>1, <1>2, <1>3, <1>4 DEF Archive

(* ... the copy of .env: the only part that it changes *)
LEMMA CopyEnvParts ==
    ASSUME TypeOK, NEW p \in Procs, CopyEnv(p)
    PROVE  /\ pc[p] = "copyEnv" /\ pc'[p] = "copySecrets" /\ dumped'[p] = dumped[p]
           /\ archives'[stamp[p]].env = env
           /\ archives'[stamp[p]].manifest = Contents(stamp[p]).manifest
           /\ archives'[stamp[p]].dumps = Contents(stamp[p]).dumps
<1>1. archives'[stamp[p]] = [Contents(stamp[p]) EXCEPT !.env = env]
  BY CopyWrites DEF Writes
<1>2. Contents(stamp[p]) \in Archive
  BY ArchiveType
<1> QED
  BY <1>1, <1>2 DEF CopyEnv, Goto, Archive, TypeOK

(* ... the copies of secrets and certs: no part that is modelled *)
LEMMA CopySecretsParts ==
    ASSUME TypeOK, NEW p \in Procs, CopySecrets(p)
    PROVE  /\ pc[p] = "copySecrets" /\ pc'[p] = "manifest" /\ dumped'[p] = dumped[p]
           /\ archives'[stamp[p]] = Contents(stamp[p])
<1>1. archives'[stamp[p]] = Contents(stamp[p])
  BY CopyWrites DEF Writes
<1> QED
  BY <1>1 DEF CopySecrets, Goto, TypeOK

(* ... the manifest: from what the command remembers *)
LEMMA ManifestParts ==
    ASSUME TypeOK, NEW p \in Procs, WriteManifest(p)
    PROVE  /\ stamp[p] \in DOMAIN archives /\ pc[p] = "manifest" /\ pc'[p] \in {"list", "idle"}
           /\ archives'[stamp[p]].env = archives[stamp[p]].env
           /\ archives'[stamp[p]].manifest.applied = applied[p]
           /\ archives'[stamp[p]].manifest.dumps = dumped[p]
           /\ archives'[stamp[p]].dumps = archives[stamp[p]].dumps
<1>1. archives'[stamp[p]] = [archives[stamp[p]] EXCEPT !.manifest = Manifest(p)]
  BY CopyWrites DEF Writes
<1>2. stamp[p] \in DOMAIN archives /\ pc[p] = "manifest"
  BY DEF WriteManifest
<1>3. pc'[p] \in {"list", "idle"}
  BY DEF WriteManifest, End, Goto, TypeOK
<1>4. archives[stamp[p]] \in Archive
  BY <1>2 DEF TypeOK
<1> QED
  BY <1>1, <1>2, <1>3, <1>4 DEF Archive, Manifest

(* Behind is inductive: a manifest is written from what was loaded before *)
(* .env was copied, and .env changes before the record of it does         *)
LEMMA BehindStep ==
    ASSUME TypeOK, Stages, Past, Behind, [Next]_vars
    PROVE  Behind'
<1>1. TypeOK' /\ Stages' /\ Past'
  BY NextType, PastStep
<1>2. /\ \A s \in DOMAIN archives : archives[s].manifest.applied \in Nat /\ archives[s].env \in 0..Missing
      /\ \A s \in DOMAIN archives' : archives'[s].manifest.applied \in Nat /\ archives'[s].env \in 0..Missing
      /\ recorded \in Nat /\ env \in 0..Migrations /\ clock \in Nat
      /\ Migrations \in Nat /\ Missing = Migrations + 1
      /\ applied \in [Procs -> 0..Migrations]
  BY <1>1, ArchiveType DEF TypeOK, Archive
<1>3. ASSUME NEW p \in Procs, Begin(p) PROVE Behind'
  <2>1. \A s \in DOMAIN archives' :
          archives'[s].manifest # NoManifest => s \in DOMAIN archives /\ archives'[s] = archives[s]
    <3>1. Writes(clock, Contents(clock)) /\ EmptyArchive.manifest = NoManifest
      BY <1>3, BeginWrites DEF EmptyArchive
    <3> QED
      BY <3>1, ArchiveType DEF Writes
  <2>2. \A s \in DOMAIN archives : archives'[s] = archives[s]
    <3>1. Writes(clock, Contents(clock))
      BY <1>3, BeginWrites
    <3> QED
      BY <3>1, ArchiveType DEF Writes
  <2>3. clock \notin DOMAIN archives => archives'[clock].env = Missing
    <3>1. Writes(clock, Contents(clock)) /\ EmptyArchive.env = Missing
      BY <1>3, BeginWrites DEF EmptyArchive
    <3> QED
      BY <3>1, ArchiveType DEF Writes
  <2>4. /\ pc[p] = "idle" /\ pc'[p] \in {"dump", "copyEnv"}
        /\ stamp'[p] = clock /\ applied'[p] = recorded
        /\ \A q \in Procs : q # p =>
             pc'[q] = pc[q] /\ stamp'[q] = stamp[q] /\ applied'[q] = applied[q]
        /\ UNCHANGED <<env, clock, recorded, migrating>>
        /\ DOMAIN archives' = DOMAIN archives \cup {clock}
    BY <1>3, Begun, BeginWrites DEF migrateVars, Writes
  <2>5. \A q \in Procs : Writing(q)' => applied'[q] <= recorded'
    BY <1>2, <2>4 DEF Behind, Writing
  <2>6. \A q \in Procs : pc'[q] \in {"copySecrets", "manifest"} /\ stamp'[q] \in DOMAIN archives' =>
           applied'[q] <= archives'[stamp'[q]].env
    BY <1>2, <2>2, <2>3, <2>4 DEF Behind
  <2>7. \A s \in DOMAIN archives' : Described(s)' =>
         /\ archives'[s].manifest.applied <= archives'[s].env
         /\ s = clock' \/ (\E q \in Procs : Writing(q)' /\ stamp'[q] = s) =>
                archives'[s].manifest.applied <= recorded'
    BY <2>1, <2>4 DEF Behind, Described, Writing
  <2> QED
    BY <2>4, <2>5, <2>6, <2>7 DEF Behind
<1>4. ASSUME NEW p \in Procs, WritesOnly(p) PROVE Behind'
  <2>1. /\ Writing(p)
        /\ DOMAIN archives' = DOMAIN archives \cup {stamp[p]}
        /\ \A t \in DOMAIN archives : t # stamp[p] => archives'[t] = archives[t]
        /\ \A q \in Procs : q # p =>
             pc'[q] = pc[q] /\ stamp'[q] = stamp[q] /\ applied'[q] = applied[q]
        /\ UNCHANGED <<env, clock, recorded, migrating>>
        /\ Writing(p)' => stamp'[p] = stamp[p] /\ applied'[p] = applied[p]
    BY <1>4, WriteStep DEF migrateVars, Writing
  <2>2. applied[p] <= recorded /\ recorded <= env
    BY <2>1 DEF Behind
  <2>3. \A q \in Procs : Writing(q)' => Writing(q) /\ stamp'[q] = stamp[q] /\ applied'[q] = applied[q]
    BY <2>1 DEF Writing
  <2>4. /\ archives'[stamp[p]].manifest # NoManifest =>
             archives'[stamp[p]].manifest.applied <= recorded
        /\ archives'[stamp[p]].manifest # NoManifest =>
             archives'[stamp[p]].manifest.applied <= archives'[stamp[p]].env
    <3>1. stamp[p] \notin DOMAIN archives => Contents(stamp[p]).manifest = NoManifest
      BY ArchiveType DEF EmptyArchive
    <3>2. stamp[p] \in DOMAIN archives => Contents(stamp[p]) = archives[stamp[p]]
      BY ArchiveType
    <3>3. CASE Dump(p)
      BY <2>1, <3>3, DumpParts DEF Behind, Described
    <3>4. CASE CopyEnv(p)
      BY <1>2, <2>1, <2>2, <3>1, <3>2, <3>4, CopyEnvParts DEF Behind, Described
    <3>5. CASE CopySecrets(p)
      BY <2>1, <3>1, <3>2, <3>5, CopySecretsParts DEF Behind, Described
    <3>6. CASE WriteManifest(p)
      <4>1. /\ stamp[p] \in DOMAIN archives /\ pc[p] = "manifest"
            /\ archives'[stamp[p]].env = archives[stamp[p]].env
            /\ archives'[stamp[p]].manifest.applied = applied[p]
        BY <3>6, ManifestParts
      <4>2. applied[p] <= archives[stamp[p]].env
        BY <4>1 DEF Behind
      <4> QED
        BY <2>2, <4>1, <4>2
    <3> QED
      BY <1>4, <3>3, <3>4, <3>5, <3>6 DEF WritesOnly
  <2>5. \A q \in Procs : pc'[q] \in {"copySecrets", "manifest"} /\ stamp'[q] \in DOMAIN archives' =>
           applied'[q] <= archives'[stamp'[q]].env
    <3> SUFFICES ASSUME NEW q \in Procs, pc'[q] \in {"copySecrets", "manifest"},
                        stamp'[q] \in DOMAIN archives'
                 PROVE  applied'[q] <= archives'[stamp'[q]].env
      OBVIOUS
    <3>1. Writing(q) /\ stamp'[q] = stamp[q] /\ applied'[q] = applied[q]
      BY <2>3 DEF Writing
    <3>2. CASE stamp[q] # stamp[p]
      <4>1. stamp'[q] \in DOMAIN archives => pc'[q] = pc[q] /\ archives'[stamp'[q]] = archives[stamp'[q]]
        BY <2>1, <3>1, <3>2
      <4> QED
        BY <2>1, <3>1, <3>2, <4>1 DEF Behind
    <3>3. CASE stamp[q] = stamp[p]
      <4>1. applied[q] \in 0..Migrations /\ applied[q] <= recorded
        BY <1>2, <3>1 DEF Behind
      <4>2. /\ stamp[p] \in DOMAIN archives => Contents(stamp[p]) = archives[stamp[p]]
            /\ stamp[p] \notin DOMAIN archives => Contents(stamp[p]).env = Missing
        BY ArchiveType DEF EmptyArchive
      <4>3. q # p => pc[q] \in {"copySecrets", "manifest"}
        BY <2>1
      <4>4. CASE Dump(p)
        <5>1. q # p /\ stamp[p] \in DOMAIN archives /\ archives'[stamp[p]].env = archives[stamp[p]].env
          BY <4>4, DumpParts
        <5> QED
          BY <3>1, <3>3, <4>3, <5>1 DEF Behind
      <4>5. CASE CopyEnv(p)
        <5>1. archives'[stamp[p]].env = env
          BY <4>5, CopyEnvParts
        <5> QED
          BY <1>2, <2>2, <3>1, <3>3, <4>1, <5>1
      <4>6. CASE CopySecrets(p)
        <5>1. archives'[stamp[p]] = Contents(stamp[p]) /\ pc[p] = "copySecrets"
          BY <4>6, CopySecretsParts
        <5> QED
          BY <1>2, <3>1, <3>3, <4>1, <4>2, <4>3, <5>1 DEF Behind
      <4>7. CASE WriteManifest(p)
        <5>1. q # p /\ stamp[p] \in DOMAIN archives /\ archives'[stamp[p]].env = archives[stamp[p]].env
          BY <4>7, ManifestParts
        <5> QED
          BY <3>1, <3>3, <4>3, <5>1 DEF Behind
      <4> QED
        BY <1>4, <4>4, <4>5, <4>6, <4>7 DEF WritesOnly
    <3> QED
      BY <3>2, <3>3
  <2>6. \A s \in DOMAIN archives' : Described(s)' =>
         /\ archives'[s].manifest.applied <= archives'[s].env
         /\ s = clock' \/ (\E q \in Procs : Writing(q)' /\ stamp'[q] = s) =>
                archives'[s].manifest.applied <= recorded'
    <3> SUFFICES ASSUME NEW s \in DOMAIN archives', archives'[s].manifest # NoManifest
                 PROVE  /\ archives'[s].manifest.applied <= archives'[s].env
                        /\ s = clock' \/ (\E q \in Procs : Writing(q)' /\ stamp'[q] = s) =>
                               archives'[s].manifest.applied <= recorded'
      BY DEF Described
    <3>1. CASE s = stamp[p]
      BY <2>1, <2>4, <3>1
    <3>2. CASE s # stamp[p]
      BY <2>1, <2>3, <3>2 DEF Behind, Described
    <3> QED
      BY <3>1, <3>2
  <2> QED
    BY <2>1, <2>3, <2>5, <2>6 DEF Behind
<1>5. ASSUME NEW p \in Procs, Robbed(p) \/ Pruned(p) \/ Abort(p) PROVE Behind'
  <2>1. End(p) /\ UNCHANGED <<env, recorded, migrating, clock, archives>>
    BY <1>5 DEF Robbed, Pruned, Abort, migrateVars
  <2> QED
    BY <2>1, Ended DEF Behind, Writing, Described
<1>6. ASSUME NEW p \in Procs, List(p) PROVE Behind'
  <2>1. /\ UNCHANGED <<env, recorded, migrating, clock, archives, stamp, applied>>
        /\ pc' = [pc EXCEPT ![p] = "remove"]
    BY <1>6 DEF List, Goto, migrateVars
  <2>2. \A q \in Procs : q # p => pc'[q] = pc[q]
    BY <2>1 DEF TypeOK
  <2>3. pc'[p] = "remove"
    BY <2>1 DEF TypeOK
  <2> QED
    BY <2>1, <2>2, <2>3 DEF Behind, Writing, Described
<1>7. ASSUME NEW p \in Procs, Remove(p) PROVE Behind'
  <2>1. /\ UNCHANGED <<env, recorded, migrating, clock, stamp, applied, pc>>
        /\ DOMAIN archives' \subseteq DOMAIN archives
        /\ \A s \in DOMAIN archives' : archives'[s] = archives[s]
    BY <1>7 DEF Remove, migrateVars
  <2> QED
    BY <2>1 DEF Behind, Writing, Described
<1>8. CASE MigrateApplies
  <2>1. UNCHANGED <<recorded, clock, archives, pc, stamp, applied>>
    BY <1>8 DEF MigrateApplies, backupVars
  <2>2. env <= env' /\ recorded < env' /\ env' \in Nat
    BY <1>2, <1>8, OfTwo DEF MigrateApplies
  <2> QED
    BY <1>2, <2>1, <2>2 DEF Behind, Writing, Described
<1>9. CASE MigrateRecords
  <2>1. UNCHANGED <<env, clock, archives, pc, stamp, applied>> /\ migrating' = FALSE
        /\ recorded' = recorded + 1 /\ recorded < env
    BY <1>9 DEF MigrateRecords, backupVars, Behind
  <2> QED
    BY <1>2, <2>1 DEF Behind, Writing, Described
<1>10. CASE MigrateKilled \/ UNCHANGED vars
  <2>1. /\ UNCHANGED <<env, recorded, clock, archives, pc, stamp, applied>>
        /\ migrating' => migrating
    BY <1>10 DEF MigrateKilled, vars, backupVars, migrateVars
  <2> QED
    BY <2>1 DEF Behind, Writing, Described
<1>11. CASE Tick
  <2>1. UNCHANGED <<env, recorded, migrating, archives, pc, stamp, applied>> /\ clock' = clock + 1
    BY <1>11 DEF Tick, backupVars, migrateVars
  <2>2. clock' \notin DOMAIN archives
    BY <1>2, <2>1 DEF Past
  <2> QED
    BY <2>1, <2>2 DEF Behind, Writing, Described
(* Nobody is writing, and no archive is of the new second *)
<1>12. CASE Restore
  <2>1. UNCHANGED <<archives, pc, stamp, applied>> /\ clock' = clock + 1 /\ migrating' = FALSE
    BY <1>12 DEF Restore, backupVars
  <2>2. \A q \in Procs : pc'[q] = "idle"
    BY <1>12, <2>1 DEF Restore
  <2>3. clock' \notin DOMAIN archives
    BY <1>2, <2>1 DEF Past
  <2>4. recorded' <= env'
    <3>1. PICK s \in DOMAIN archives :
            /\ Described(s)
            /\ env' = archives[s].env
            /\ recorded' = Min({recorded, archives[s].manifest.applied})
      BY <1>12 DEF Restore, Described
    <3>2. recorded' <= archives[s].manifest.applied
      BY <1>2, <3>1, OfTwo
    <3> QED
      BY <1>1, <1>2, <3>1, <3>2 DEF Behind, TypeOK
  <2>5. \A s \in DOMAIN archives' : Described(s)' => archives'[s].manifest.applied <= archives'[s].env
    BY <2>1 DEF Behind, Described
  <2> QED
    BY <2>1, <2>2, <2>3, <2>4, <2>5 DEF Behind, Writing
(* A manifest that is left beside no .env at all is not ahead of it *)
<1>13. ASSUME NEW p \in Procs, Unlink(p) PROVE Behind'
  <2>1. UNCHANGED <<env, recorded, migrating, clock, stamp, applied, pc>>
    BY <1>13, Unlinked DEF migrateVars
  <2>2. PICK x \in DOMAIN archives :
          /\ DOMAIN archives' = DOMAIN archives
          /\ \A t \in DOMAIN archives : t # x => archives'[t] = archives[t]
          /\ archives'[x].env \in {archives[x].env, Missing}
          /\ archives'[x].manifest \in {archives[x].manifest, NoManifest}
    BY <1>13, Unlinked
  <2>3. \A s \in DOMAIN archives :
          /\ archives'[s].env \in {archives[s].env, Missing}
          /\ archives'[s].manifest # NoManifest => archives'[s].manifest = archives[s].manifest
    BY <2>2
  <2>4. \A q \in Procs : applied[q] <= Missing
    BY <1>2
  <2>5. \A q \in Procs : pc'[q] \in {"copySecrets", "manifest"} /\ stamp'[q] \in DOMAIN archives' =>
           applied'[q] <= archives'[stamp'[q]].env
    BY <2>1, <2>2, <2>3, <2>4 DEF Behind
  <2>6. \A s \in DOMAIN archives : Described(s) => archives[s].manifest.applied <= Missing
    BY <1>2 DEF Behind
  <2>7. \A s \in DOMAIN archives' : archives'[s].manifest # NoManifest =>
         /\ archives'[s].manifest.applied <= archives'[s].env
         /\ s = clock' \/ (\E q \in Procs : Writing(q)' /\ stamp'[q] = s) =>
                archives'[s].manifest.applied <= recorded'
    BY <2>1, <2>2, <2>3, <2>6 DEF Behind, Writing, Described
  <2> QED
    BY <2>1, <2>5, <2>7 DEF Behind, Writing, Described
<1> QED
  BY <1>3, <1>4, <1>5, <1>6, <1>7, <1>8, <1>9, <1>10, <1>11, <1>12, <1>13
  DEF Next, BackupStep, WritesOnly

(* What --keep N spares: there is something newer than all that is outdated, *)
(* and what is older than an outdated archive is outdated                    *)
LEMMA OutdatedIsOld ==
    ASSUME TypeOK, NEW p \in Procs, keep[p] > 0, NEW d \in Outdated(p)
    PROVE  /\ d \in DOMAIN archives
           /\ \E u \in DOMAIN archives : u > d
           /\ \A s \in DOMAIN archives : s < d => s \in Outdated(p)
<1> DEFINE Newer(s) == {t \in DOMAIN archives : t > s}
<1>1. /\ DOMAIN archives \subseteq 0..MaxClock /\ MaxClock \in Nat
      /\ keep[p] \in Nat /\ d \in DOMAIN archives /\ Cardinality(Newer(d)) >= keep[p]
  BY BackupAssumption DEF TypeOK, Outdated
<1>2. IsFiniteSet(0..MaxClock)
  BY <1>1, FS_Interval
<1>3. IsFiniteSet(DOMAIN archives)
  BY <1>1, <1>2, FS_Subset
<1>4. \A s : IsFiniteSet(Newer(s)) /\ Cardinality(Newer(s)) \in Nat
  <2> TAKE s
  <2>1. Newer(s) \subseteq DOMAIN archives
    OBVIOUS
  <2>2. IsFiniteSet(Newer(s))
    BY ONLY <1>3, <2>1, FS_Subset
  <2> QED
    BY <2>2, FS_CardinalityType
<1>5. \E u \in DOMAIN archives : u > d
  <2>1. Newer(d) # {}
    BY <1>1, <1>4, FS_EmptySet
  <2> QED
    BY <2>1
<1>6. ASSUME NEW s \in DOMAIN archives, s < d PROVE s \in Outdated(p)
  <2>1. Newer(d) \subseteq Newer(s)
    BY <1>1, <1>6
  <2>2. Cardinality(Newer(d)) <= Cardinality(Newer(s))
    BY <1>4, <2>1, FS_Subset
  <2>3. Cardinality(Newer(s)) >= keep[p]
    BY <1>1, <1>4, <2>2
  <2> QED
    BY <2>3 DEF Outdated
<1> QED
  BY <1>1, <1>5, <1>6

(* NewestStays is inductive: a prune spares the newest it lists, and what  *)
(* comes later is newer or had been pruned under its writer               *)
LEMMA NewestStaysStep ==
    ASSUME TypeOK, Stages, Past, Remembered, NewestStays, [Next]_vars
    PROVE  NewestStays'
<1>1. /\ clock \in Nat /\ DOMAIN archives \subseteq Nat /\ robbed \subseteq Nat
      /\ \A q \in Procs : doomed[q] \subseteq Nat
  BY BackupAssumption DEF TypeOK
<1>2. ASSUME NEW p \in Procs, Begin(p) PROVE NewestStays'
  <2>0. Writes(clock, Contents(clock))
    BY <1>2, BeginWrites
  <2>1. /\ UNCHANGED <<doomed, robbed>>
        /\ DOMAIN archives' = DOMAIN archives \cup {clock}
    BY <1>2, <2>0, Begun DEF Writes
  <2>2. CASE DOMAIN archives = {}
    BY <1>1, <2>1, <2>2 DEF NewestStays
  <2>3. CASE DOMAIN archives # {}
    BY <1>1, <2>1, <2>3 DEF NewestStays, Past
  <2> QED
    BY <2>2, <2>3
(* An archive that is written though it is gone was robbed: it is not the newest *)
<1>3. ASSUME NEW p \in Procs, WritesOnly(p) PROVE NewestStays'
  <2>1. /\ DOMAIN archives' = DOMAIN archives \cup {stamp[p]}
        /\ UNCHANGED robbed
        /\ \A q \in Procs : q # p => doomed'[q] = doomed[q]
        /\ doomed'[p] \in {{}, doomed[p]}
        /\ Writing(p)
    BY <1>3, WriteStep
  <2>2. stamp[p] \in DOMAIN archives \/ stamp[p] \in robbed
    BY <2>1 DEF Remembered
  <2>3. PICK m \in DOMAIN archives :
             /\ \A t \in DOMAIN archives : t <= m
             /\ \A s \in robbed : s < m
             /\ \A q \in Procs : \A s \in doomed[q] : s < m
    BY <2>2 DEF NewestStays
  <2>4. stamp[p] <= m
    <3>1. m \in Nat /\ stamp[p] \in Nat
      BY <1>1, <2>2
    <3>2. stamp[p] <= m \/ stamp[p] < m
      BY <2>2, <2>3
    <3> QED
      BY ONLY <3>1, <3>2
  <2>5. m \in DOMAIN archives' /\ \A t \in DOMAIN archives' : t <= m
    BY <2>1, <2>3, <2>4
  <2>6. \A q \in Procs : \A s \in doomed'[q] : s < m
    <3>1. \A q \in Procs : doomed'[q] \subseteq doomed[q]
      BY <2>1
    <3> QED
      BY <2>3, <3>1
  <2> QED
    BY <2>1, <2>3, <2>5, <2>6 DEF NewestStays
<1>4. ASSUME NEW p \in Procs, Robbed(p) \/ Pruned(p) \/ Abort(p) PROVE NewestStays'
  <2>1. End(p) /\ UNCHANGED <<archives, robbed>>
    BY <1>4 DEF Robbed, Pruned, Abort
  <2> QED
    BY <2>1, Ended DEF NewestStays
<1>5. ASSUME NEW p \in Procs, List(p) PROVE NewestStays'
  <2>1. /\ UNCHANGED <<archives, robbed>> /\ pc[p] = "list" /\ keep[p] > 0
        /\ doomed' = [doomed EXCEPT ![p] = Outdated(p)]
    BY <1>5 DEF List, Stages
  <2>2. doomed'[p] = Outdated(p) /\ \A q \in Procs : q # p => doomed'[q] = doomed[q]
    BY <2>1 DEF TypeOK
  <2>3. \A d \in Outdated(p) : d \in DOMAIN archives /\ \E u \in DOMAIN archives : u > d
    BY <2>1, OutdatedIsOld
  <2>4. CASE DOMAIN archives = {}
    <3>1. Outdated(p) = {}
      BY <2>3, <2>4
    <3> QED
      BY <2>1, <2>2, <2>4, <3>1 DEF NewestStays
  <2>5. CASE DOMAIN archives # {}
    <3>1. PICK m \in DOMAIN archives :
             /\ \A t \in DOMAIN archives : t <= m
             /\ \A s \in robbed : s < m
             /\ \A q \in Procs : \A s \in doomed[q] : s < m
      BY <2>5 DEF NewestStays
    <3>2. \A d \in Outdated(p) : d < m
      BY <1>1, <2>3, <3>1
    <3>3. \A q \in Procs : \A s \in doomed'[q] : s < m
      BY <2>2, <3>1, <3>2
    <3> QED
      BY <2>1, <3>1, <3>3 DEF NewestStays
  <2> QED
    BY <2>4, <2>5
<1>6. ASSUME NEW p \in Procs, Remove(p) PROVE NewestStays'
  <2>1. PICK x \in DOMAIN archives :
          /\ x \in doomed[p]
          /\ DOMAIN archives' = DOMAIN archives \ {x}
          /\ robbed' \subseteq robbed \cup {x}
          /\ doomed' = [doomed EXCEPT ![p] = @ \ {x}]
    <3>1. doomed[p] # {} /\ doomed[p] \subseteq Nat
      BY <1>1, <1>6 DEF Remove
    <3>2. Min(doomed[p]) \in doomed[p]
      BY <3>1, LeastOf
    <3> QED
      BY <1>6, <3>2 DEF Remove, Robs
  <2>2. \A q \in Procs : doomed'[q] \subseteq doomed[q]
    BY <2>1 DEF TypeOK
  <2>3. PICK m \in DOMAIN archives :
             /\ \A t \in DOMAIN archives : t <= m
             /\ \A s \in robbed : s < m
             /\ \A q \in Procs : \A s \in doomed[q] : s < m
    BY <2>1 DEF NewestStays
  <2>4. m \in DOMAIN archives' /\ x < m
    BY <1>1, <2>1, <2>3
  <2> QED
    BY <2>1, <2>2, <2>3, <2>4 DEF NewestStays
<1>7. CASE MigrateApplies \/ MigrateRecords \/ MigrateKilled \/ Restore \/ Tick \/ UNCHANGED vars
  <2>1. UNCHANGED <<archives, doomed, robbed>>
    BY <1>7 DEF MigrateApplies, MigrateRecords, MigrateKilled, Restore, Tick, vars, backupVars, history
  <2> QED
    BY <2>1 DEF NewestStays
<1>8. ASSUME NEW p \in Procs, Unlink(p) PROVE NewestStays'
  <2>1. PICK x \in DOMAIN archives :
          /\ x \in doomed[p]
          /\ DOMAIN archives' = DOMAIN archives
          /\ robbed' \subseteq robbed \cup {x}
    BY <1>8, Unlinked
  <2>2. UNCHANGED doomed
    BY <1>8, Unlinked
  <2>3. PICK m \in DOMAIN archives :
             /\ \A t \in DOMAIN archives : t <= m
             /\ \A s \in robbed : s < m
             /\ \A q \in Procs : \A s \in doomed[q] : s < m
    BY <2>1 DEF NewestStays
  <2> QED
    BY <2>1, <2>2, <2>3 DEF NewestStays
<1> QED
  BY <1>2, <1>3, <1>4, <1>5, <1>6, <1>7, <1>8 DEF Next, BackupStep, WritesOnly

(* OldestFirst is inductive: what is listed is downward closed, and removed *)
(* from below                                                               *)
LEMMA OldestFirstStep ==
    ASSUME TypeOK, Stages, Past, Remembered, OldestFirst, [Next]_vars
    PROVE  OldestFirst'
<1>1. /\ clock \in Nat /\ DOMAIN archives \subseteq Nat
      /\ \A q \in Procs : doomed[q] \subseteq Nat
  BY BackupAssumption DEF TypeOK
<1>2. ASSUME NEW p \in Procs, Begin(p) PROVE OldestFirst'
  <2>0. Writes(clock, Contents(clock))
    BY <1>2, BeginWrites
  <2>1. /\ UNCHANGED <<doomed, robbed>>
        /\ DOMAIN archives' = DOMAIN archives \cup {clock}
    BY <1>2, <2>0, Begun DEF Writes
  <2>2. \A q \in Procs : \A d \in doomed[q] : ~(clock < d)
    BY <1>1 DEF Past
  <2> QED
    BY <2>1, <2>2 DEF OldestFirst
<1>3. ASSUME NEW p \in Procs, WritesOnly(p) PROVE OldestFirst'
  <2>1. /\ DOMAIN archives' = DOMAIN archives \cup {stamp[p]}
        /\ UNCHANGED robbed
        /\ \A q \in Procs : q # p => doomed'[q] = doomed[q]
        /\ doomed'[p] \in {{}, doomed[p]}
        /\ Writing(p)
    BY <1>3, WriteStep
  <2>2. stamp[p] \in DOMAIN archives \/ stamp[p] \in robbed
    BY <2>1 DEF Remembered
  <2> QED
    BY <2>1, <2>2 DEF OldestFirst
<1>4. ASSUME NEW p \in Procs, Robbed(p) \/ Pruned(p) \/ Abort(p) PROVE OldestFirst'
  <2>1. End(p) /\ UNCHANGED <<archives, robbed>>
    BY <1>4 DEF Robbed, Pruned, Abort
  <2> QED
    BY <2>1, Ended DEF OldestFirst
<1>5. ASSUME NEW p \in Procs, List(p) PROVE OldestFirst'
  <2>1. /\ UNCHANGED <<archives, robbed>> /\ pc[p] = "list" /\ keep[p] > 0
        /\ doomed' = [doomed EXCEPT ![p] = Outdated(p)]
    BY <1>5 DEF List, Stages
  <2>2. doomed'[p] = Outdated(p) /\ \A q \in Procs : q # p => doomed'[q] = doomed[q]
    BY <2>1 DEF TypeOK
  <2>3. \A d \in Outdated(p) : \A s \in DOMAIN archives : s < d => s \in Outdated(p)
    BY <2>1, OutdatedIsOld
  <2> QED
    BY <2>1, <2>2, <2>3 DEF OldestFirst
<1>6. ASSUME NEW p \in Procs, Remove(p) PROVE OldestFirst'
  <2>1. PICK x \in DOMAIN archives :
          /\ DOMAIN archives' = DOMAIN archives \ {x}
          /\ robbed \subseteq robbed'
          /\ doomed' = [doomed EXCEPT ![p] = @ \ {x}]
    BY <1>6 DEF Remove, Robs
  <2>2. doomed'[p] = doomed[p] \ {x} /\ \A q \in Procs : q # p => doomed'[q] = doomed[q]
    BY <2>1 DEF TypeOK
  <2> QED
    BY <2>1, <2>2 DEF OldestFirst
<1>7. CASE MigrateApplies \/ MigrateRecords \/ MigrateKilled \/ Restore \/ Tick \/ UNCHANGED vars
  <2>1. UNCHANGED <<archives, doomed, robbed>>
    BY <1>7 DEF MigrateApplies, MigrateRecords, MigrateKilled, Restore, Tick, vars, backupVars, history
  <2> QED
    BY <2>1 DEF OldestFirst
<1>8. ASSUME NEW p \in Procs, Unlink(p) PROVE OldestFirst'
  BY <1>8, Unlinked DEF OldestFirst
<1> QED
  BY <1>2, <1>3, <1>4, <1>5, <1>6, <1>7, <1>8 DEF Next, BackupStep, WritesOnly

(* What Remove takes away, and that it was the oldest that p has found *)
LEMMA Removed ==
    ASSUME TypeOK, NEW p \in Procs, Remove(p)
    PROVE  \E x \in DOMAIN archives :
              /\ x \in doomed[p] /\ \A y \in doomed[p] : x <= y
              /\ DOMAIN archives' = DOMAIN archives \ {x}
              /\ \A t \in DOMAIN archives' : archives'[t] = archives[t]
              /\ robbed \subseteq robbed' /\ robbed' \subseteq robbed \cup {x}
              /\ doomed' = [doomed EXCEPT ![p] = @ \ {x}]
              /\ pc[p] = "remove" /\ UNCHANGED <<pc, stamp, overtaken>>
<1>1. doomed[p] # {} /\ doomed[p] \subseteq Nat
  BY BackupAssumption DEF Remove, TypeOK
<1>2. Min(doomed[p]) \in doomed[p] /\ \A y \in doomed[p] : Min(doomed[p]) <= y
  BY <1>1, LeastOf
<1> QED
  BY <1>2 DEF Remove, Robs

(* One writer's view of its archive *)
Holds(p) ==
    Writing(p) /\ stamp[p] \notin robbed =>
         /\ stamp[p] \in DOMAIN archives
         /\ dumped[p] \subseteq archives[stamp[p]].dumps
         /\ pc[p] \in {"copySecrets", "manifest"} => archives[stamp[p]].env # Missing
         /\ stamp[p] \notin shared =>
                archives[stamp[p]].dumps = dumped[p] /\ ~Described(stamp[p])

(* One archive's manifest *)
Listed(s) == Described(s) => Truthful(s) \/ Expired(s)

OneWriter ==
    \A p, q \in Procs :
        p # q /\ Writing(p) /\ Writing(q) /\ stamp[p] = stamp[q] => stamp[p] \in shared \cup robbed

(* Remembered and ManifestTruthful, one process and one archive at a time *)
LEMMA RememberedParts ==
    /\ Remembered <=> (\A p \in Procs : Holds(p)) /\ OneWriter
    /\ ManifestTruthful <=> \A s \in DOMAIN archives \ robbed : Listed(s)
BY DEF Remembered, Holds, OneWriter, ManifestTruthful, Listed, Described

(* What has expired stays so, while it is there: no older archive comes, but *)
(* under a writer that was robbed of it, and the newest stays               *)
LEMMA ExpiredStays ==
    ASSUME TypeOK, Stages, Past, Remembered, NewestStays, [Next]_vars,
           NEW s \in DOMAIN archives \ robbed, Expired(s)
    PROVE  Expired(s)'
<1>1. /\ clock \in Nat /\ DOMAIN archives \subseteq Nat /\ s <= clock
      /\ \A q \in Procs : doomed[q] \subseteq Nat
  BY BackupAssumption DEF TypeOK, Past
<1>2. /\ \A t \in DOMAIN archives \ robbed : s <= t
      /\ \E t \in DOMAIN archives : t > s
  BY DEF Expired
<1>3. ASSUME NEW p \in Procs, Begin(p) PROVE Expired(s)'
  <2>1. DOMAIN archives' = DOMAIN archives \cup {clock} /\ UNCHANGED robbed
    BY <1>3, BeginWrites, Begun DEF Writes
  <2> QED
    BY <1>1, <1>2, <2>1 DEF Expired
<1>4. ASSUME NEW p \in Procs, WritesOnly(p) PROVE Expired(s)'
  <2>1. DOMAIN archives' = DOMAIN archives \cup {stamp[p]} /\ UNCHANGED robbed /\ Writing(p)
    BY <1>4, WriteStep
  <2>2. stamp[p] \in DOMAIN archives \/ stamp[p] \in robbed
    BY <2>1 DEF Remembered
  <2> QED
    BY <1>2, <2>1, <2>2 DEF Expired
<1>5. ASSUME NEW p \in Procs, Unlink(p) PROVE Expired(s)'
  <2>1. DOMAIN archives' = DOMAIN archives /\ robbed \subseteq robbed'
    BY <1>5, Unlinked
  <2> QED
    BY <1>2, <2>1 DEF Expired
<1>6. ASSUME NEW p \in Procs, Remove(p) PROVE Expired(s)'
  <2>1. PICK x \in DOMAIN archives :
          /\ x \in doomed[p]
          /\ DOMAIN archives' = DOMAIN archives \ {x}
          /\ robbed \subseteq robbed'
    BY <1>6, Removed
  <2>2. PICK m \in DOMAIN archives : (\A t \in DOMAIN archives : t <= m) /\ x < m
    BY <2>1 DEF NewestStays
  <2>3. m \in DOMAIN archives' /\ m > s
    BY <1>1, <1>2, <2>1, <2>2
  <2>4. \A t \in DOMAIN archives' \ robbed' : s <= t
    BY <1>2, <2>1
  <2> QED
    BY <2>3, <2>4 DEF Expired
<1>7. ASSUME UNCHANGED <<archives, robbed>> PROVE Expired(s)'
  BY <1>2, <1>7 DEF Expired
<1>8. ASSUME NEW p \in Procs, Robbed(p) \/ Pruned(p) \/ Abort(p) \/ List(p)
      PROVE  UNCHANGED <<archives, robbed>>
  BY <1>8 DEF Robbed, Pruned, Abort, List
<1>9. MigrateApplies \/ MigrateRecords \/ MigrateKilled \/ Restore \/ Tick \/ UNCHANGED vars
        => UNCHANGED <<archives, robbed>>
  BY DEF MigrateApplies, MigrateRecords, MigrateKilled, Restore, Tick, vars, history
<1> QED
  BY <1>3, <1>4, <1>5, <1>6, <1>7, <1>8, <1>9 DEF Next, BackupStep, WritesOnly

(* The two are inductive together: only the one writer of an archive adds *)
(* to it, a second writer is noted when it begins, and what a prune takes   *)
(* files of has expired                                                     *)
LEMMA RememberedStep ==
    ASSUME TypeOK, Stages, Past, Remembered, ManifestTruthful, NewestStays, OldestFirst,
           [Next]_vars
    PROVE  Remembered' /\ ManifestTruthful'
<1>0. SUFFICES /\ \A q \in Procs : Holds(q)'
               /\ OneWriter'
               /\ \A s \in DOMAIN archives' \ robbed' : Listed(s)'
  BY RememberedParts DEF Remembered, Holds, OneWriter, ManifestTruthful, Listed, Described
<1>1. /\ \A q \in Procs : Holds(q)
      /\ OneWriter
      /\ \A s \in DOMAIN archives \ robbed : Listed(s)
  BY RememberedParts
<1>e. \A s \in DOMAIN archives \ robbed : Expired(s) => Expired(s)'
  BY ExpiredStays
<1> DEFINE Goal == /\ \A q \in Procs : Holds(q)'
                   /\ OneWriter'
                   /\ \A s \in DOMAIN archives' \ robbed' : Listed(s)'
<1>2. ASSUME NEW p \in Procs, Begin(p) PROVE Goal
  <2>1. /\ pc[p] = "idle" /\ pc'[p] \in {"dump", "copyEnv"} /\ stamp'[p] = clock
        /\ dumped'[p] = {}
        /\ \A q \in Procs : q # p => pc'[q] = pc[q] /\ stamp'[q] = stamp[q]
        /\ UNCHANGED <<dumped, robbed>>
    BY <1>2, Begun DEF Stages
  <2>2. shared' = IF clock \in DOMAIN archives THEN shared \cup {clock} ELSE shared
    BY <1>2 DEF Begin
  <2>3. Writes(clock, Contents(clock))
    BY <1>2, BeginWrites
  <2>4. /\ \A s \in DOMAIN archives : archives'[s] = archives[s]
        /\ DOMAIN archives' = DOMAIN archives \cup {clock}
    BY <2>3, ArchiveType DEF Writes
  <2>5. clock \notin DOMAIN archives =>
          archives'[clock].dumps = {} /\ archives'[clock].manifest = NoManifest
    <3>1. clock \notin DOMAIN archives => archives'[clock] = EmptyArchive
      BY <2>3, ArchiveType DEF Writes
    <3> QED
      BY <3>1 DEF EmptyArchive
  <2>6. ASSUME NEW q \in Procs, q # p PROVE Holds(q)'
    BY <1>1, <2>1, <2>2, <2>4, <2>6 DEF Holds, Writing, Described
  <2>7. Holds(p)'
    BY <2>1, <2>2, <2>4, <2>5 DEF Holds, Described
  <2>8. OneWriter'
    BY <1>1, <2>1, <2>2 DEF OneWriter, Holds, Writing
  <2>9. \A s \in DOMAIN archives' \ robbed' : Listed(s)'
    BY <1>1, <1>e, <2>1, <2>2, <2>4, <2>5 DEF Listed, Truthful, Described
  <2> QED
    BY <2>6, <2>7, <2>8, <2>9
<1>3. ASSUME NEW p \in Procs, WritesOnly(p) PROVE Goal
  <2>1. /\ Writing(p)
        /\ DOMAIN archives' = DOMAIN archives \cup {stamp[p]}
        /\ \A t \in DOMAIN archives : t # stamp[p] => archives'[t] = archives[t]
        /\ \A q \in Procs : q # p =>
             pc'[q] = pc[q] /\ stamp'[q] = stamp[q] /\ dumped'[q] = dumped[q]
        /\ UNCHANGED <<shared, robbed>>
        /\ Writing(p)' => stamp'[p] = stamp[p]
    BY <1>3, WriteStep DEF Writing
  <2>2. OneWriter'
    BY <1>1, <2>1 DEF OneWriter, Writing
  <2>3. \A s \in DOMAIN archives' \ robbed' : s # stamp[p] => Listed(s)'
    BY <1>1, <1>e, <2>1 DEF Listed, Truthful, Described
  <2>4. \A q \in Procs : q # p /\ stamp[q] # stamp[p] => Holds(q)'
    BY <1>1, <2>1 DEF Holds, Writing, Described
  <2>5. CASE stamp[p] \in robbed
    BY <2>1, <2>2, <2>3, <2>4, <2>5 DEF Holds
  <2>6. CASE stamp[p] \notin robbed
    <3>0. PICK a : a = stamp[p]
      OBVIOUS
    <3>1. /\ a \in DOMAIN archives /\ dumped[p] \subseteq archives[a].dumps
          /\ pc[p] \in {"copySecrets", "manifest"} => archives[a].env # Missing
          /\ a \notin shared =>
                archives[a].dumps = dumped[p] /\ archives[a].manifest = NoManifest
          /\ Contents(a) = archives[a]
      BY <1>1, <2>1, <2>6, <3>0, ArchiveType DEF Holds, Described
    (* a second writer is known *)
    <3>2. \A q \in Procs : q # p /\ Writing(q) /\ stamp[q] = a => a \in shared
      BY <1>1, <2>1, <2>6, <3>0 DEF OneWriter
    <3>3. /\ archives'[a].env \in {archives[a].env, env}
          /\ archives[a].dumps \subseteq archives'[a].dumps
          /\ dumped'[p] \subseteq archives'[a].dumps \/ ~Writing(p)'
          /\ a \notin shared /\ Writing(p)' =>
               archives'[a].dumps = dumped'[p] /\ archives'[a].manifest = NoManifest
          /\ pc'[p] \in {"copySecrets", "manifest"} => archives'[a].env # Missing
          /\ archives'[a].manifest = archives[a].manifest
             \/ /\ archives'[a].manifest.dumps = dumped[p]
                /\ archives'[a].dumps = archives[a].dumps
                /\ archives'[a].env = archives[a].env /\ archives[a].env # Missing
                /\ ~Writing(p)'
      <4>1. CASE Dump(p)
        BY <3>0, <3>1, <4>1, DumpParts
      <4>2. CASE CopyEnv(p)
        BY <3>0, <3>1, <4>2, CopyEnvParts, ArchiveType
      <4>3. CASE CopySecrets(p)
        BY <3>0, <3>1, <4>3, CopySecretsParts
      <4>4. CASE WriteManifest(p)
        BY <3>0, <3>1, <4>4, ManifestParts DEF Writing
      <4> QED
        BY <1>3, <4>1, <4>2, <4>3, <4>4 DEF WritesOnly
    <3>4. Holds(p)'
      BY <2>1, <3>0, <3>1, <3>3 DEF Holds, Described
    <3>5. \A q \in Procs : q # p /\ stamp[q] = a => Holds(q)'
      BY <1>1, <2>1, <3>0, <3>1, <3>2, <3>3, ArchiveType DEF Holds, Writing, Described
    <3>6. Listed(a)'
      <4>1. Listed(a) /\ (Expired(a) => Expired(a)')
        BY <1>1, <1>e, <2>6, <3>0, <3>1
      <4>2. env # Missing
        BY ArchiveType
      <4>3. CASE archives'[a].manifest = archives[a].manifest
        BY <2>1, <3>1, <3>3, <4>1, <4>2, <4>3 DEF Listed, Truthful, Described
      <4>4. CASE archives'[a].manifest # archives[a].manifest
        BY <2>1, <3>1, <3>3, <4>4 DEF Listed, Truthful, Described
      <4> QED
        BY <4>3, <4>4
    <3>7. \A q \in Procs : Holds(q)'
      BY <2>4, <3>0, <3>4, <3>5
    <3>8. \A s \in DOMAIN archives' \ robbed' : Listed(s)'
      BY <2>3, <3>0, <3>6
    <3> QED
      BY <2>2, <3>7, <3>8
  <2> QED
    BY <2>5, <2>6
<1>4. ASSUME NEW p \in Procs, Robbed(p) \/ Pruned(p) \/ Abort(p) PROVE Goal
  <2>1. End(p) /\ UNCHANGED <<archives, shared, robbed>>
    BY <1>4 DEF Robbed, Pruned, Abort
  <2> QED
    BY <1>1, <1>e, <2>1, Ended DEF Holds, OneWriter, Listed, Truthful, Writing, Described
<1>5. ASSUME NEW p \in Procs, List(p) PROVE Goal
  <2>1. UNCHANGED <<archives, shared, robbed, stamp, dumped>> /\ pc' = [pc EXCEPT ![p] = "remove"]
    BY <1>5 DEF List, Goto
  <2>2. pc'[p] = "remove" /\ \A q \in Procs : q # p => pc'[q] = pc[q]
    BY <2>1 DEF TypeOK
  <2> QED
    BY <1>1, <1>e, <2>1, <2>2 DEF Holds, OneWriter, Listed, Truthful, Writing, Described
(* An archive that goes while it is written is robbed, and says so *)
<1>6. ASSUME NEW p \in Procs, Remove(p) PROVE Goal
  <2>1. PICK x \in DOMAIN archives :
          /\ archives' = [t \in DOMAIN archives \ {x} |-> archives[t]]
          /\ robbed' = IF WritingTo(x) # {} THEN robbed \cup {x} ELSE robbed
    BY <1>6 DEF Remove, Robs
  <2>2. UNCHANGED <<pc, stamp, dumped, shared>>
    BY <1>6 DEF Remove
  <2>3. /\ DOMAIN archives' = DOMAIN archives \ {x}
        /\ \A t \in DOMAIN archives' : archives'[t] = archives[t]
        /\ robbed \subseteq robbed'
        /\ \A q \in Procs : Writing(q) /\ stamp[q] = x => x \in robbed'
    BY <2>1 DEF WritingTo, Writing
  <2> QED
    BY <1>1, <1>e, <2>2, <2>3 DEF Holds, OneWriter, Listed, Truthful, Writing, Described
<1>7. CASE MigrateApplies \/ MigrateRecords \/ MigrateKilled \/ Restore \/ Tick \/ UNCHANGED vars
  <2>1. UNCHANGED <<archives, pc, stamp, dumped, shared, robbed>>
    BY <1>7 DEF MigrateApplies, MigrateRecords, MigrateKilled, Restore, Tick, vars, backupVars, history
  <2> QED
    BY <1>1, <1>e, <2>1 DEF Holds, OneWriter, Listed, Truthful, Writing, Described
(* What a prune takes a file of is the oldest that it may, and not the newest *)
<1>8. ASSUME NEW p \in Procs, Unlink(p) PROVE Goal
  <2>1. UNCHANGED <<pc, stamp, dumped, shared>>
    BY <1>8, Unlinked
  <2>2. PICK x \in DOMAIN archives :
          /\ x \in doomed[p] /\ \A y \in doomed[p] : x <= y
          /\ DOMAIN archives' = DOMAIN archives
          /\ \A t \in DOMAIN archives : t # x => archives'[t] = archives[t]
          /\ robbed \subseteq robbed'
          /\ \A q \in Procs : Writing(q) /\ stamp[q] = x => x \in robbed'
    BY <1>8, Unlinked
  <2>3. \A q \in Procs : Holds(q)'
    BY <1>1, <2>1, <2>2 DEF Holds, Writing, Described
  <2>4. OneWriter'
    BY <1>1, <2>1, <2>2 DEF OneWriter, Writing
  <2>5. \A s \in DOMAIN archives' \ robbed' : s # x => Listed(s)'
    BY <1>1, <1>e, <2>1, <2>2 DEF Listed, Truthful, Described
  <2>6. ASSUME x \notin robbed' PROVE Expired(x)'
    <3>1. DOMAIN archives \subseteq Nat
      BY BackupAssumption DEF TypeOK
    <3>2. \A t \in DOMAIN archives \ robbed : x <= t
      BY <2>2, <3>1 DEF OldestFirst
    <3>3. \E t \in DOMAIN archives : t > x
      BY <2>2, <3>1 DEF NewestStays
    <3>4. Expired(x)
      BY <3>2, <3>3 DEF Expired
    <3> QED
      BY <1>e, <2>2, <2>6, <3>4
  <2> QED
    BY <2>2, <2>3, <2>4, <2>5, <2>6 DEF Listed
<1> QED
  BY <1>2, <1>3, <1>4, <1>5, <1>6, <1>7, <1>8 DEF Next, BackupStep, WritesOnly

(* An archive that has a manifest keeps one, until files of it are removed *)
LEMMA DescribedStays ==
    ASSUME TypeOK, Stages, [Next]_vars, \A p \in Procs : ~Unlink(p),
           NEW t \in DOMAIN archives, t \in DOMAIN archives',
           archives[t].manifest # NoManifest
    PROVE  archives'[t].manifest # NoManifest
<1>1. ASSUME NEW p \in Procs, Begin(p) PROVE archives'[t].manifest # NoManifest
  <2>1. Writes(clock, Contents(clock))
    BY <1>1, BeginWrites
  <2> QED
    BY <2>1, ArchiveType DEF Writes
<1>2. ASSUME NEW p \in Procs, WritesOnly(p) PROVE archives'[t].manifest # NoManifest
  <2>1. t # stamp[p] => archives'[t] = archives[t]
    BY <1>2, WriteStep
  <2>2. ASSUME t = stamp[p] PROVE archives'[t].manifest # NoManifest
    <3>1. Contents(t) = archives[t]
      BY ArchiveType
    <3>2. CASE Dump(p)
      BY <2>2, <3>2, DumpParts
    <3>3. CASE CopyEnv(p)
      BY <2>2, <3>1, <3>3, CopyEnvParts
    <3>4. CASE CopySecrets(p)
      BY <2>2, <3>1, <3>4, CopySecretsParts
    <3>5. CASE WriteManifest(p)
      <4>1. archives'[t].manifest.applied = applied[p]
        BY <2>2, <3>5, ManifestParts
      <4>2. applied[p] # NoManifest.applied
        BY ArchiveType DEF TypeOK
      <4> QED
        BY <4>1, <4>2
    <3> QED
      BY <1>2, <3>2, <3>3, <3>4, <3>5 DEF WritesOnly
  <2> QED
    BY <2>1, <2>2
<1>3. ASSUME NEW p \in Procs, Remove(p) PROVE archives'[t].manifest # NoManifest
  BY <1>3, Removed
<1>4. ASSUME UNCHANGED archives PROVE archives'[t].manifest # NoManifest
  BY <1>4
<1>5. ASSUME NEW p \in Procs, Robbed(p) \/ Pruned(p) \/ Abort(p) \/ List(p) PROVE UNCHANGED archives
  BY <1>5 DEF Robbed, Pruned, Abort, List
<1>6. MigrateApplies \/ MigrateRecords \/ MigrateKilled \/ Restore \/ Tick \/ UNCHANGED vars
        => UNCHANGED archives
  BY DEF MigrateApplies, MigrateRecords, MigrateKilled, Restore, Tick, vars
<1> QED
  BY <1>1, <1>2, <1>3, <1>4, <1>5, <1>6 DEF Next, BackupStep, WritesOnly

(* OwnArchive is inductive: the archive just described is gone only where a *)
(* newer one was                                                            *)
LEMMA OwnArchiveStep ==
    ASSUME TypeOK, Stages, Past, Remembered, NewestStays, OwnArchive, [Next]_vars
    PROVE  OwnArchive'
<1>1. /\ clock \in Nat /\ DOMAIN archives \subseteq Nat /\ robbed \subseteq Nat
      /\ \A q \in Procs : doomed[q] \subseteq Nat /\ stamp[q] \in Nat
  BY BackupAssumption DEF TypeOK
<1>0. ASSUME NEW p \in Procs, Unlink(p) PROVE OwnArchive'
  <2>1. UNCHANGED <<pc, stamp>>
    BY <1>0, Unlinked
  <2>2. PICK x \in DOMAIN archives :
          /\ x \in doomed[p]
          /\ DOMAIN archives' = DOMAIN archives
          /\ \A t \in DOMAIN archives : t # x => archives'[t] = archives[t]
          /\ robbed' \subseteq robbed \cup {x}
    BY <1>0, Unlinked
  <2>3. PICK m \in DOMAIN archives' : x < m
    BY <2>2 DEF NewestStays
  <2> QED
    BY <2>1, <2>2, <2>3 DEF OwnArchive, Described
<1> SUFFICES ASSUME \A p \in Procs : ~Unlink(p) PROVE OwnArchive'
  BY <1>0
<1>2. \A t \in DOMAIN archives : t \in DOMAIN archives' /\ archives[t].manifest # NoManifest =>
        archives'[t].manifest # NoManifest
  BY DescribedStays
(* Of a process that was there already: nothing is pruned but under a newer one *)
<1>3. ASSUME NEW q \in Procs, pc[q] = "list", stamp'[q] = stamp[q],
             DOMAIN archives \subseteq DOMAIN archives', UNCHANGED robbed
      PROVE  \/ stamp'[q] \in DOMAIN archives' \ robbed' /\ archives'[stamp'[q]].manifest # NoManifest
             \/ \E t \in DOMAIN archives' : t > stamp'[q]
  BY <1>2, <1>3 DEF OwnArchive, Described
<1>4. ASSUME NEW p \in Procs, Begin(p) PROVE OwnArchive'
  <2>1. Writes(clock, Contents(clock))
    BY <1>4, BeginWrites
  <2>2. DOMAIN archives \subseteq DOMAIN archives'
    BY <2>1 DEF Writes
  <2>3. /\ UNCHANGED robbed
        /\ pc'[p] \in {"dump", "copyEnv"}
        /\ \A q \in Procs : q # p => pc'[q] = pc[q] /\ stamp'[q] = stamp[q]
    BY <1>4, Begun
  <2> QED
    BY <1>3, <2>2, <2>3 DEF OwnArchive, Described
<1>5. ASSUME NEW p \in Procs, WritesOnly(p) PROVE OwnArchive'
  <2>1. /\ DOMAIN archives' = DOMAIN archives \cup {stamp[p]}
        /\ UNCHANGED robbed
        /\ \A q \in Procs : q # p => pc'[q] = pc[q] /\ stamp'[q] = stamp[q]
        /\ pc'[p] = "list" => stamp'[p] = stamp[p]
    BY <1>5, WriteStep
  <2>2. ASSUME pc'[p] = "list"
        PROVE  \/ stamp[p] \in DOMAIN archives' \ robbed' /\ archives'[stamp[p]].manifest # NoManifest
               \/ \E t \in DOMAIN archives' : t > stamp[p]
    <3>1. WriteManifest(p)
      BY <1>5, <2>2, DumpParts, CopyEnvParts, CopySecretsParts DEF WritesOnly
    <3>2. stamp[p] \in DOMAIN archives /\ archives'[stamp[p]].manifest.applied = applied[p]
      BY <3>1, ManifestParts
    <3>3. applied[p] # NoManifest.applied
      BY ArchiveType DEF TypeOK
    <3>4. CASE stamp[p] \in robbed
      BY <1>1, <2>1, <3>2, <3>4 DEF NewestStays
    <3>5. CASE stamp[p] \notin robbed
      BY <2>1, <3>2, <3>3, <3>5
    <3> QED
      BY <3>4, <3>5
  <2> QED
    BY <1>3, <2>1, <2>2 DEF OwnArchive, Described
<1>6. ASSUME NEW p \in Procs, Robbed(p) \/ Pruned(p) \/ Abort(p) PROVE OwnArchive'
  <2>1. End(p) /\ UNCHANGED <<archives, robbed>>
    BY <1>6 DEF Robbed, Pruned, Abort
  <2> QED
    BY <2>1, Ended DEF OwnArchive, Described
<1>7. ASSUME NEW p \in Procs, List(p) PROVE OwnArchive'
  <2>1. UNCHANGED <<archives, robbed, stamp>> /\ pc' = [pc EXCEPT ![p] = "remove"]
    BY <1>7 DEF List, Goto
  <2>2. pc'[p] = "remove" /\ \A q \in Procs : q # p => pc'[q] = pc[q]
    BY <2>1 DEF TypeOK
  <2> QED
    BY <2>1, <2>2 DEF OwnArchive, Described
<1>8. ASSUME NEW p \in Procs, Remove(p) PROVE OwnArchive'
  <2>1. PICK x \in DOMAIN archives :
          /\ x \in doomed[p]
          /\ DOMAIN archives' = DOMAIN archives \ {x}
          /\ robbed' \subseteq robbed \cup {x}
          /\ UNCHANGED <<pc, stamp>>
    BY <1>8, Removed
  <2>2. PICK m \in DOMAIN archives :
             /\ \A t \in DOMAIN archives : t <= m
             /\ \A q \in Procs : \A s \in doomed[q] : s < m
    BY <2>1 DEF NewestStays
  <2>3. m \in DOMAIN archives' /\ x < m
    BY <1>1, <2>1, <2>2
  <2> SUFFICES ASSUME NEW q \in Procs, pc[q] = "list"
               PROVE  \/ /\ stamp[q] \in DOMAIN archives' \ robbed'
                         /\ archives'[stamp[q]].manifest # NoManifest
                      \/ \E t \in DOMAIN archives' : t > stamp[q]
    BY <2>1 DEF OwnArchive, Described
  <2>4. CASE stamp[q] \in DOMAIN archives \ robbed /\ Described(stamp[q])
    BY <1>1, <1>2, <2>1, <2>3, <2>4 DEF Described
  <2>5. CASE \E t \in DOMAIN archives : t > stamp[q]
    BY <1>1, <2>1, <2>3, <2>5
  <2> QED
    BY <2>4, <2>5 DEF OwnArchive
<1>9. CASE MigrateApplies \/ MigrateRecords \/ MigrateKilled \/ Restore \/ Tick \/ UNCHANGED vars
  <2>1. UNCHANGED <<archives, pc, stamp, robbed>>
    BY <1>9 DEF MigrateApplies, MigrateRecords, MigrateKilled, Restore, Tick, vars, backupVars, history
  <2> QED
    BY <2>1 DEF OwnArchive, Described
<1> QED
  BY <1>4, <1>5, <1>6, <1>7, <1>8, <1>9 DEF Next, BackupStep, WritesOnly

(* Replaced is inductive: a replacement of what is still to be removed is    *)
(* removed by nobody, for that one would have found the older one and first *)
LEMMA ReplacedStep ==
    ASSUME TypeOK, Stages, Past, Remembered, Pruning, [Next]_vars
    PROVE  Replaced'
<1>1. /\ clock \in Nat /\ DOMAIN archives \subseteq Nat /\ robbed \subseteq Nat
      /\ \A q \in Procs : doomed[q] \subseteq Nat /\ stamp[q] \in Nat
  BY BackupAssumption DEF TypeOK
<1>3. Replaced /\ OldestFirst /\ OwnArchive
  BY DEF Pruning
(* What replaces an older one loses no file to somebody who has not removed that *)
<1>0. ASSUME NEW p \in Procs, Unlink(p) PROVE Replaced'
  <2>1. UNCHANGED <<pc, doomed, overtaken>>
    BY <1>0, Unlinked
  <2>2. PICK x \in DOMAIN archives :
          /\ x \in doomed[p] /\ \A y \in doomed[p] : x <= y
          /\ DOMAIN archives' = DOMAIN archives
          /\ \A t \in DOMAIN archives : t # x => archives'[t] = archives[t]
          /\ robbed \subseteq robbed' /\ robbed' \subseteq robbed \cup {x}
    BY <1>0, Unlinked
  <2> SUFFICES ASSUME NEW q \in Procs, pc[q] = "remove", q \notin overtaken,
                      NEW s \in doomed[q], s \in DOMAIN archives \ robbed
               PROVE  \E t \in DOMAIN archives' \ robbed' : t > s /\ archives'[t].manifest # NoManifest
    BY <2>1, <2>2 DEF Replaced, Described
  <2>3. PICK t \in DOMAIN archives \ robbed : t > s /\ archives[t].manifest # NoManifest
    BY <1>3 DEF Replaced, Described
  <2>4. t # x
    <3> SUFFICES ASSUME t = x PROVE FALSE
      OBVIOUS
    <3>1. s < x
      BY <1>1, <2>3
    <3>2. s \in doomed[p]
      BY <1>3, <2>2, <3>1 DEF OldestFirst
    <3> QED
      BY <1>1, <2>2, <3>1, <3>2
  <2> QED
    BY <2>2, <2>3, <2>4
<1> SUFFICES ASSUME \A p \in Procs : ~Unlink(p) PROVE Replaced'
  BY <1>0
<1>2. \A t \in DOMAIN archives : t \in DOMAIN archives' /\ archives[t].manifest # NoManifest =>
        archives'[t].manifest # NoManifest
  BY DescribedStays
(* Nothing that was found comes back unless it was robbed: the second is over *)
<1>4. ASSUME NEW q \in Procs, pc[q] = "remove", q \notin overtaken, doomed'[q] \subseteq doomed[q],
             DOMAIN archives \subseteq DOMAIN archives', UNCHANGED robbed,
             \A s \in DOMAIN archives' \ DOMAIN archives : s \in robbed \/ s \notin doomed[q]
      PROVE  \A s \in doomed'[q] : s \in DOMAIN archives' \ robbed' =>
               \E t \in DOMAIN archives' \ robbed' : t > s /\ archives'[t].manifest # NoManifest
  BY <1>2, <1>3, <1>4 DEF Replaced, Described
<1>5. ASSUME NEW p \in Procs, Begin(p) PROVE Replaced'
  <2>1. Writes(clock, Contents(clock))
    BY <1>5, BeginWrites
  <2>2. DOMAIN archives' = DOMAIN archives \cup {clock}
    BY <2>1 DEF Writes
  <2>3. /\ UNCHANGED <<doomed, robbed, overtaken>>
        /\ pc'[p] \in {"dump", "copyEnv"}
        /\ \A q \in Procs : q # p => pc'[q] = pc[q]
    BY <1>5, Begun
  <2>4. ASSUME NEW q \in Procs, clock \notin DOMAIN archives PROVE clock \notin doomed[q]
    BY <1>1, <1>3, <2>4 DEF NewestStays, Past, Pruning
  <2> QED
    BY <1>4, <2>2, <2>3, <2>4 DEF Replaced, Described
<1>6. ASSUME NEW p \in Procs, WritesOnly(p) PROVE Replaced'
  <2>1. /\ DOMAIN archives' = DOMAIN archives \cup {stamp[p]}
        /\ UNCHANGED robbed
        /\ \A q \in Procs : q # p => pc'[q] = pc[q] /\ doomed'[q] = doomed[q]
        /\ Writing(p) /\ pc'[p] # "remove"
    BY <1>6, WriteStep
  <2>2. stamp[p] \in DOMAIN archives \/ stamp[p] \in robbed
    BY <2>1 DEF Remembered
  <2>3. overtaken' = overtaken \/ overtaken' = overtaken \ {p}
    BY <1>6 DEF WritesOnly, Dump, CopyEnv, CopySecrets, WriteManifest, End, history
  <2> QED
    BY <1>4, <2>1, <2>2, <2>3 DEF Replaced, Described
<1>7. ASSUME NEW p \in Procs, Robbed(p) \/ Pruned(p) \/ Abort(p) PROVE Replaced'
  <2>1. End(p) /\ UNCHANGED <<archives, robbed>>
    BY <1>7 DEF Robbed, Pruned, Abort
  <2> QED
    BY <1>3, <2>1, Ended DEF Replaced, Described
<1>8. ASSUME NEW p \in Procs, List(p) PROVE Replaced'
  <2>1. /\ UNCHANGED <<archives, robbed, stamp>> /\ pc[p] = "list" /\ keep[p] > 0
        /\ doomed' = [doomed EXCEPT ![p] = Outdated(p)]
        /\ pc' = [pc EXCEPT ![p] = "remove"]
        /\ overtaken' = IF \E s \in DOMAIN archives : s > stamp[p]
                          THEN overtaken \cup {p} ELSE overtaken
    BY <1>8 DEF List, Stages, Goto
  <2>2. /\ doomed'[p] = Outdated(p)
        /\ \A q \in Procs : q # p => doomed'[q] = doomed[q] /\ pc'[q] = pc[q]
    BY <2>1 DEF TypeOK
  <2>3. ASSUME p \notin overtaken'
        PROVE  \A s \in Outdated(p) :
                 \E t \in DOMAIN archives \ robbed : t > s /\ archives[t].manifest # NoManifest
    <3>1. \A s \in DOMAIN archives : ~(s > stamp[p])
      BY <2>1, <2>3
    <3>2. stamp[p] \in DOMAIN archives \ robbed /\ archives[stamp[p]].manifest # NoManifest
      BY <1>3, <2>1, <3>1 DEF OwnArchive, Described
    <3>3. \A d \in Outdated(p) : d \in DOMAIN archives /\ \E u \in DOMAIN archives : u > d
      BY <2>1, OutdatedIsOld
    <3> QED
      BY <1>1, <3>1, <3>2, <3>3
  <2>4. ASSUME NEW q \in Procs, q # p, pc'[q] = "remove", q \notin overtaken'
        PROVE  \A s \in doomed'[q] : s \in DOMAIN archives' \ robbed' =>
                 \E t \in DOMAIN archives' \ robbed' : t > s /\ archives'[t].manifest # NoManifest
    BY <1>3, <2>1, <2>2, <2>4 DEF Replaced, Described
  <2> QED
    BY <2>1, <2>2, <2>3, <2>4 DEF Replaced, Described
(* What replaces an older one is removed by nobody who has not removed that *)
<1>9. ASSUME NEW p \in Procs, Remove(p) PROVE Replaced'
  <2>1. PICK x \in DOMAIN archives :
          /\ x \in doomed[p] /\ \A y \in doomed[p] : x <= y
          /\ DOMAIN archives' = DOMAIN archives \ {x}
          /\ robbed \subseteq robbed' /\ robbed' \subseteq robbed \cup {x}
          /\ doomed' = [doomed EXCEPT ![p] = @ \ {x}]
          /\ UNCHANGED <<pc, overtaken>>
    BY <1>9, Removed
  <2>2. \A q \in Procs : doomed'[q] \subseteq doomed[q]
    BY <2>1 DEF TypeOK
  <2> SUFFICES ASSUME NEW q \in Procs, pc[q] = "remove", q \notin overtaken,
                      NEW s \in doomed'[q], s \in DOMAIN archives' \ robbed'
               PROVE  \E t \in DOMAIN archives' \ robbed' : t > s /\ archives'[t].manifest # NoManifest
    BY <2>1 DEF Replaced, Described
  <2>3. s \in doomed[q] /\ s \in DOMAIN archives \ robbed /\ s # x
    BY <2>1, <2>2
  <2>4. PICK t \in DOMAIN archives \ robbed : t > s /\ archives[t].manifest # NoManifest
    BY <1>3, <2>3 DEF Replaced, Described
  <2>5. t # x
    <3> SUFFICES ASSUME t = x PROVE FALSE
      OBVIOUS
    <3>1. s < x
      BY <1>1, <2>3, <2>4
    <3>2. s \in doomed[p]
      BY <1>3, <2>1, <2>3, <3>1 DEF OldestFirst
    <3> QED
      BY <1>1, <2>1, <2>3, <3>1, <3>2
  <2> QED
    BY <1>2, <2>1, <2>4, <2>5
<1>10. CASE MigrateApplies \/ MigrateRecords \/ MigrateKilled \/ Restore \/ Tick \/ UNCHANGED vars
  <2>1. UNCHANGED <<archives, pc, doomed, robbed, overtaken>>
    BY <1>10 DEF MigrateApplies, MigrateRecords, MigrateKilled, Restore, Tick, vars, backupVars, history
  <2> QED
    BY <1>3, <2>1 DEF Replaced, Described
<1> QED
  BY <1>5, <1>6, <1>7, <1>8, <1>9, <1>10 DEF Next, BackupStep, WritesOnly
-----------------------------------------------------------------------------
(* Before the first backup there is nothing to be wrong about *)
LEMMA InitBInv == Init => BInv
<1> SUFFICES ASSUME Init PROVE BInv
  OBVIOUS
<1>1. TypeOK /\ Stages
  BY InitType
<1>2. /\ DOMAIN archives = {} /\ robbed = {} /\ recorded = 0 /\ env = 0 /\ clock = 0
      /\ migrating = FALSE /\ overtaken = {}
      /\ \A p \in Procs : pc[p] = "idle" /\ stamp[p] = 0 /\ doomed[p] = {}
  BY DEF Init
<1>3. Past /\ Behind
  BY <1>2 DEF Past, Behind, Writing
<1>4. ManifestTruthful /\ Remembered
  BY <1>2 DEF ManifestTruthful, Remembered, Writing
<1>5. Pruning
  BY <1>2 DEF Pruning, NewestStays, OldestFirst, OwnArchive, Replaced
<1> QED
  BY <1>1, <1>3, <1>4, <1>5 DEF BInv

(* Every step of every backup, of `migrate` and of a restore *)
LEMMA NextBInv == BInv /\ [Next]_vars => BInv'
<1> SUFFICES ASSUME BInv, [Next]_vars PROVE BInv'
  OBVIOUS
<1>1. /\ TypeOK /\ Stages /\ Past /\ Behind /\ ManifestTruthful /\ Remembered /\ Pruning
      /\ NewestStays /\ OldestFirst /\ OwnArchive
  BY DEF BInv, Pruning
<1>2. TypeOK' /\ Stages'
  BY <1>1, NextType
<1>3. Past' /\ Behind'
  BY <1>1, PastStep, BehindStep
<1>4. ManifestTruthful' /\ Remembered'
  BY <1>1, RememberedStep
<1>5. NewestStays' /\ OldestFirst' /\ OwnArchive' /\ Replaced'
  BY <1>1, NewestStaysStep, OldestFirstStep, OwnArchiveStep, ReplacedStep
<1> QED
  BY <1>2, <1>3, <1>4, <1>5 DEF BInv, Pruning

(* The invariant of the specification *)
THEOREM Inductive == Spec => []BInv
<1>1. Init => BInv
  BY InitBInv
<1>2. BInv /\ [Next]_vars => BInv'
  BY NextBInv
<1> QED
  BY <1>1, <1>2, PTL DEF Spec

(* Every variable keeps its type: what a prune removes is a second that was, *)
(* and an archive holds dumps of known databases only                        *)
THEOREM TypeCorrect == Spec => []TypeOK
<1>1. BInv => TypeOK
  BY DEF BInv
<1> QED
  BY <1>1, Inductive, PTL

(* After a restore, whatever ran beside the backup that made the archive, no *)
(* migration is recorded that the restored .env has not gone through         *)
THEOREM RestoreSafe == Spec => []RestoredIsMigrated
<1>1. BInv => RestoredIsMigrated
  BY DEF BInv, Behind, RestoredIsMigrated
<1> QED
  BY <1>1, Inductive, PTL

(* The manifest of an archive that was not pruned under its writer lists the *)
(* dumps it holds, and a .env is beside it, whatever was cut off, a prune    *)
(* included: that leaves an untrue manifest in the oldest archive at most,   *)
(* and only while there is a newer archive                                   *)
THEOREM ManifestsTrue == Spec => []ManifestTruthful
<1>1. BInv => ManifestTruthful
  BY DEF BInv
<1> QED
  BY <1>1, Inductive, PTL

(* The step of NewestCompleteKept *)
Kept ==
    \A s \in DOMAIN archives \ robbed :
        Complete(s) /\ ~Complete(s)' =>
            \/ \E t \in DOMAIN archives' : t > s /\ Complete(t)'
            \/ \E p \in overtaken : Unlink(p)

(* No backup spoils a complete archive by writing to it once more *)
LEMMA WritingKeeps ==
    ASSUME BInv, [Next]_vars, NEW p \in Procs, WritesOnly(p),
           NEW s \in DOMAIN archives \ robbed, Complete(s)
    PROVE  Complete(s)'
<1>1. TypeOK /\ Stages /\ Remembered
  BY DEF BInv
<1>2. /\ s \in DOMAIN archives' /\ Writing(p)
      /\ s # stamp[p] => archives'[s] = archives[s]
  BY <1>1, WriteStep
<1>3. ASSUME s = stamp[p] PROVE Complete(s)'
  <2>1. /\ archives[s].manifest # NoManifest /\ archives[s].env # Missing
        /\ archives[s].manifest.dumps \subseteq archives[s].dumps
        /\ dumped[p] \subseteq archives[s].dumps
        /\ Contents(s) = archives[s] /\ env # Missing
        /\ applied[p] # NoManifest.applied
    BY <1>1, <1>2, <1>3, ArchiveType DEF Complete, Described, Remembered, TypeOK
  <2>2. /\ archives'[s].manifest # NoManifest /\ archives'[s].env # Missing
        /\ archives'[s].manifest.dumps \subseteq archives'[s].dumps
    <3>1. CASE Dump(p)
      BY <1>1, <1>3, <2>1, <3>1, DumpParts
    <3>2. CASE CopyEnv(p)
      BY <1>1, <1>3, <2>1, <3>2, CopyEnvParts
    <3>3. CASE CopySecrets(p)
      BY <1>1, <1>3, <2>1, <3>3, CopySecretsParts
    <3>4. CASE WriteManifest(p)
      BY <1>1, <1>3, <2>1, <3>4, ManifestParts
    <3> QED
      BY <3>1, <3>2, <3>3, <3>4 DEF WritesOnly
  <2> QED
    BY <1>2, <2>2 DEF Complete, Described
<1> QED
  BY <1>2, <1>3 DEF Complete, Described

(* Only a prune takes a file away; and the archive it takes the first one of *)
(* has a newer one that is complete, unless the pruning backup had been      *)
(* overtaken                                                                 *)
LEMMA KeptStep == BInv /\ [Next]_vars => Kept
<1> SUFFICES ASSUME BInv, [Next]_vars,
                    NEW s \in DOMAIN archives \ robbed, Complete(s), ~Complete(s)'
             PROVE  \/ \E t \in DOMAIN archives' : t > s /\ Complete(t)'
                    \/ \E p \in overtaken : Unlink(p)
  BY DEF Kept
<1>1. TypeOK /\ Stages /\ ManifestTruthful /\ Replaced
  BY DEF BInv, Pruning
<1>2. ~(s \in DOMAIN archives' /\ archives'[s] = archives[s])
  BY DEF Complete, Described
<1>3. ASSUME NEW p \in Procs, Begin(p) \/ WritesOnly(p) PROVE FALSE
  <2>1. CASE Begin(p)
    BY <1>1, <1>2, <2>1, BeginWrites, ArchiveType DEF Writes
  <2>2. CASE WritesOnly(p)
    BY <2>2, WritingKeeps
  <2> QED
    BY <1>3, <2>1, <2>2
(* What rmdir removes is not an archive any more *)
<1>4. ASSUME NEW p \in Procs, Remove(p) PROVE FALSE
  <2>1. PICK x \in DOMAIN archives :
          /\ archives[x] = EmptyArchive
          /\ archives' = [t \in DOMAIN archives \ {x} |-> archives[t]]
    BY <1>4 DEF Remove
  <2>2. s # x
    BY <2>1 DEF Complete, Described, EmptyArchive
  <2> QED
    BY <1>2, <2>1, <2>2
<1>5. PICK p \in Procs : Unlink(p)
  <2>1. ASSUME NEW p \in Procs, Robbed(p) \/ Pruned(p) \/ Abort(p) \/ List(p) PROVE FALSE
    BY <1>2, <2>1 DEF Robbed, Pruned, Abort, List
  <2>2. ASSUME MigrateApplies \/ MigrateRecords \/ MigrateKilled \/ Restore \/ Tick \/ UNCHANGED vars
        PROVE  FALSE
    BY <1>2, <2>2 DEF MigrateApplies, MigrateRecords, MigrateKilled, Restore, Tick, vars
  <2> QED
    BY <1>3, <1>4, <2>1, <2>2 DEF Next, BackupStep, WritesOnly
<1>6. PICK x \in DOMAIN archives :
        /\ x \in doomed[p]
        /\ DOMAIN archives' = DOMAIN archives
        /\ \A t \in DOMAIN archives : t # x => archives'[t] = archives[t]
  BY <1>1, <1>5, Unlinked
<1>7. s = x /\ pc[p] = "remove"
  BY <1>2, <1>5, <1>6 DEF Unlink
<1>8. ASSUME p \notin overtaken PROVE \E t \in DOMAIN archives' : t > s /\ Complete(t)'
  <2>1. PICK t \in DOMAIN archives \ robbed : t > s /\ Described(t)
    BY <1>1, <1>6, <1>7, <1>8 DEF Replaced
  <2>2. s \in Nat /\ t \in Nat
    BY <1>1, BackupAssumption DEF TypeOK
  <2>3. ~Expired(t)
    BY <2>1, <2>2 DEF Expired
  <2>4. Complete(t)
    BY <1>1, <2>1, <2>3 DEF ManifestTruthful, Truthful, Complete
  <2>5. t \in DOMAIN archives' /\ archives'[t] = archives[t]
    BY <1>6, <1>7, <2>1, <2>2
  <2> QED
    BY <2>1, <2>4, <2>5 DEF Complete, Described
<1> QED
  BY <1>5, <1>8

(* `--keep N` does not cost the newest complete archive, however many backups *)
(* prune at once and wherever one is cut off, unless the one that prunes had  *)
(* been overtaken by a later                                                  *)
THEOREM NewestKept == Spec => NewestCompleteKept
<1>1. BInv /\ [Next]_vars => [Kept]_vars
  BY KeptStep
<1>2. Spec => [][Kept]_vars
  BY <1>1, Inductive, PTL DEF Spec
<1> QED
  BY <1>2 DEF NewestCompleteKept, Kept
=============================================================================
