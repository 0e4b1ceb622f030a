---------------------------- MODULE MigrateProofs ----------------------------
(***************************************************************************)
(* What module Migrate promises for every number of migrations, any set of  *)
(* CLI processes, any set of idempotent migrations and any bound on faults. *)
(* Second part: what holds as long as one CLI runs at a time.  Migrate      *)
(* implements the ledger of module MigrationLedger, a migration that failed *)
(* waits for the repair, its marker names a clean snapshot, and no          *)
(* migration runs again that ran to its end.                                *)
(***************************************************************************)
EXTENDS Migrate, TLAPS

(* Each action of a process keeps the types; the step lemma puts them       *)
(* together.                                                                *)
LEMMA InitType == Init => TypeOK
BY NAssumption, MigrateAssumption
DEF Init, TypeOK, FileInit, FileTypeOK, File, State, Absent, FreshState, Untouched,
    Effect, Places, Migrations

(* The steps of a save keep the files of their types *)
LEMMA FilesType ==
    ASSUME TypeOK, NEW p \in Procs
    PROVE  /\ Load(p) => FileTypeOK'
           /\ LoadFails(p) => FileTypeOK'
           /\ OpenTmp(p) => FileTypeOK'
           /\ WriteTmp(p) => FileTypeOK'
           /\ Replace(p) => FileTypeOK'
           /\ ReplaceFails(p) => FileTypeOK'
           /\ CloseAll(p) => FileTypeOK'
<1>1. Load(p) => FileTypeOK'
  BY DEF TypeOK, FileTypeOK, File, State, Load
<1>2. LoadFails(p) \/ ReplaceFails(p) => FileTypeOK'
  BY DEF TypeOK, FileTypeOK, LoadFails, ReplaceFails, fileVars
<1>3. OpenTmp(p) => FileTypeOK'
  BY DEF TypeOK, FileTypeOK, File, State, OpenTmp, Torn, FreshState
<1>4. WriteTmp(p) => FileTypeOK'
  <2> SUFFICES ASSUME TypeOK, WriteTmp(p) PROVE FileTypeOK'
    OBVIOUS
  <2>1. \A f \in File : Overwritten(f, p) \subseteq File
    BY DEF TypeOK, FileTypeOK, File, State, Overwritten, Whole, Torn, FreshState
  <2> QED
    BY <2>1 DEF TypeOK, FileTypeOK, WriteTmp
<1>5. Replace(p) => FileTypeOK'
  BY DEF TypeOK, FileTypeOK, File, State, Replace, Absent, FreshState, Renamed
<1>6. CloseAll(p) => FileTypeOK'
  BY DEF TypeOK, FileTypeOK, CloseAll
<1> QED
  BY <1>1, <1>2, <1>3, <1>4, <1>5, <1>6

(* Every step keeps the types *)
LEMMA NextType == TypeOK /\ [Next]_vars => TypeOK'
<1> SUFFICES ASSUME TypeOK, [Next]_vars PROVE TypeOK'
  OBVIOUS
<1> USE DEF TypeOK
<1>1. ASSUME NEW p \in Procs, Progress(p) PROVE TypeOK'
  <2>1. CASE Snapshot(p)
    BY <2>1 DEF Snapshot, Goto, Places, FileTypeOK, fileVars, Effect
  <2>2. CASE Finished(p) \/ Refuse(p)
    BY <2>2 DEF Finished, Refuse, Goto, Places, FileTypeOK, fileVars
  <2>3. CASE BeginApply(p)
    <3> PICK m \in Migrations :
           /\ effect' = [effect EXCEPT ![m] = IF @ = "none" THEN "partial" ELSE @]
           /\ damaged' = IF effect[m] # "none" /\ m \notin Idempotent
                           THEN damaged \cup {m} ELSE damaged
      BY <2>3 DEF BeginApply
    <3> QED
      BY <2>3 DEF BeginApply, Goto, Places, FileTypeOK, fileVars, Effect
  <2>4. CASE EndApply(p)
    BY <2>4 DEF EndApply, Goto, Places, FileTypeOK, fileVars, Effect
  <2>5. CASE WriteMarker(p)
    BY <2>5 DEF WriteMarker, Goto, Places, FileTypeOK, fileVars
  <2>6. CASE RecordApplied(p)
    <3> PICK m \in Migrations :
           /\ marker' = [marker EXCEPT ![m] = NoStamp]
           /\ mem' = [mem EXCEPT ![p] = [applied |-> @.applied \cup {m}, faked |-> @.faked]]
      BY <2>6 DEF RecordApplied
    <3>1. mem' \in [Procs -> State]
      BY DEF FileTypeOK, State
    <3> QED
      BY <2>6, <3>1 DEF RecordApplied, Goto, Places, FileTypeOK
  <2>7. CASE SaveOpen(p)
    BY <2>7, FilesType DEF SaveOpen, Goto, Places
  <2>8. CASE SaveWrite(p)
    BY <2>8, FilesType DEF SaveWrite, Goto, Places
  <2>9. CASE SaveReplace(p)
    BY <2>9, FilesType DEF SaveReplace, Goto, Places
  <2>10. CASE SaveFails(p)
    BY <2>10, FilesType DEF SaveFails, Goto, Places
  <2> QED
    BY <1>1, <2>1, <2>2, <2>3, <2>4, <2>5, <2>6, <2>7, <2>8, <2>9, <2>10 DEF Progress
<1>2. ASSUME NEW p \in Procs, Operator(p) PROVE TypeOK'
  <2>1. CASE Start(p)
    BY <2>1, FilesType DEF Start, Goto, Places
  <2>2. CASE StartRefused(p)
    BY <2>2, FilesType DEF StartRefused
  <2>3. CASE StartFake(p)
    BY <2>3, FilesType DEF StartFake, Goto, Places
  <2>4. CASE Fake(p)
    <3> PICK m \in Pending(mem[p]) :
           /\ mem' = [mem EXCEPT ![p] = [applied |-> @.applied \cup {m},
                                         faked |-> @.faked \cup {m}]]
           /\ fakedEver' = fakedEver \cup {m}
      BY <2>4 DEF Fake
    <3>1. m \in Migrations
      BY DEF Pending
    <3>2. mem' \in [Procs -> State]
      BY <3>1 DEF FileTypeOK, State
    <3> QED
      BY <2>4, <3>1, <3>2 DEF Fake, Goto, Places, FileTypeOK
  <2>5. CASE FakeRefused(p)
    BY <2>5 DEF FakeRefused, Goto, Places, FileTypeOK, fileVars
  <2> QED
    BY <1>2, <2>1, <2>2, <2>3, <2>4, <2>5 DEF Operator
<1>3. ASSUME NEW p \in Procs, FailApply(p) PROVE TypeOK'
  BY <1>3, MigrateAssumption DEF FailApply, Goto, Places, FileTypeOK, fileVars
<1>4. ASSUME NEW p \in Procs, Kill(p) PROVE TypeOK'
  BY <1>4, FilesType, MigrateAssumption DEF Kill, Goto, Places
<1>5. ASSUME NEW m \in Migrations, Repair(m) PROVE TypeOK'
  BY <1>5 DEF Repair, FileTypeOK, fileVars, Effect
<1>6. CASE UNCHANGED vars
  BY <1>6 DEF vars, FileTypeOK
<1> QED
  BY <1>1, <1>2, <1>3, <1>4, <1>5, <1>6 DEF Next

(* Every variable keeps its type: in particular every state.json and every  *)
(* State in memory is a record of migrations that exist.                    *)
THEOREM TypeCorrect == Spec => []TypeOK
BY InitType, NextType, PTL DEF Spec

-----------------------------------------------------------------------------
(* A State object, on disk or in a process, is sound when each migration it *)
(* records ran to its end or is recorded as faked by the same State.        *)
Sound(s) == \A m \in s.applied \ s.faked : effect[m] = "done"

(* Every --fake a State records is one the operator confirmed *)
FakesKnown(s) == s.faked \subseteq fakedEver

StatesSound ==
    /\ Sound(disk.val) /\ FakesKnown(disk.val)
    /\ Sound(tmp.val) /\ FakesKnown(tmp.val)
    /\ \A p \in Procs : Sound(mem[p]) /\ FakesKnown(mem[p])

(* A process that is about to record a migration has seen it end *)
RecordsWhatRan ==
    \A p \in Procs : pc[p] = "record" =>
        \A m \in Migrations : IsNext(p, m) => effect[m] = "done"

(* The inductive invariant.  RecordedImpliesRan alone says nothing of the   *)
(* copies in memory and in state.tmp that become state.json later; InOrder  *)
(* needs that the State a process works from, stale or not, is sound.       *)
IInv == TypeOK /\ StatesSound /\ RecordsWhatRan /\ InOrder

(* No step undoes what ran to its end, and no --fake is forgotten *)
Grows ==
    /\ \A m \in Migrations : effect[m] = "done" => effect'[m] = "done"
    /\ fakedEver \subseteq fakedEver'

(* What ran to its end or was faked stays so *)
LEMMA StepGrows == TypeOK /\ [Next]_vars => Grows
<1> SUFFICES ASSUME TypeOK, [Next]_vars PROVE Grows
  OBVIOUS
<1> USE DEF Grows, TypeOK, Effect
<1>1. ASSUME NEW p \in Procs, Progress(p) PROVE Grows
  BY <1>1 DEF Progress, Snapshot, Finished, Refuse, BeginApply, EndApply, WriteMarker,
              RecordApplied, SaveOpen, SaveWrite, SaveReplace, SaveFails
<1>2. ASSUME NEW p \in Procs, Operator(p) PROVE Grows
  BY <1>2 DEF Operator, Start, StartRefused, StartFake, Fake, FakeRefused
<1>3. ASSUME NEW p \in Procs, FailApply(p) \/ Kill(p) PROVE Grows
  BY <1>3 DEF FailApply, Kill
<1>4. ASSUME NEW m \in Migrations, Repair(m) PROVE Grows
  BY <1>4 DEF Repair
<1>5. CASE UNCHANGED vars
  BY <1>5 DEF vars
<1> QED
  BY <1>1, <1>2, <1>3, <1>4, <1>5 DEF Next

(* A State that was sound stays sound, wherever it is copied to *)
LEMMA SoundStable ==
    ASSUME Grows, NEW s \in State
    PROVE  /\ Sound(s) => Sound(s)'
           /\ FakesKnown(s) => FakesKnown(s)'
BY DEF Grows, Sound, FakesKnown, State

(* Before the least pending migration everything ran or was faked *)
LEMMA EarlierOnes ==
    ASSUME TypeOK, StatesSound, NEW p \in Procs, NEW m \in Migrations, IsNext(p, m),
           NEW k \in 1..(m - 1)
    PROVE  effect[k] = "done" \/ k \in fakedEver
<1>1. k \in Migrations /\ ~(m <= k)
  BY NAssumption DEF Migrations
<1>2. k \in mem[p].applied
  BY <1>1 DEF IsNext, Pending
<1> QED
  BY <1>2 DEF StatesSound, Sound, FakesKnown

(* Where the States after a step come from: they are copies of earlier ones, *)
(* but for the two places that add a migration to a State in memory          *)
LEMMA StatesFlow ==
    ASSUME TypeOK, [Next]_vars
    PROVE  LET Known == {disk.val, tmp.val, FreshState} \cup {mem[q] : q \in Procs}
           IN  /\ disk'.val \in Known
               /\ tmp'.val \in Known
               /\ \A q \in Procs : mem'[q] \in Known \/ RecordApplied(q) \/ Fake(q)
<1> DEFINE Known == {disk.val, tmp.val, FreshState} \cup {mem[q] : q \in Procs}
<1> DEFINE Flow == /\ disk'.val \in Known
                   /\ tmp'.val \in Known
                   /\ \A q \in Procs : mem'[q] \in Known \/ RecordApplied(q) \/ Fake(q)
<1> SUFFICES Flow
  OBVIOUS
<1> USE DEF TypeOK, FileTypeOK
<1>1. UNCHANGED fileVars => Flow
  BY DEF fileVars
<1>2. ASSUME NEW p \in Procs PROVE Load(p) \/ LoadFails(p) => Flow
  BY <1>1 DEF Load, LoadFails
<1>3. ASSUME NEW p \in Procs PROVE OpenTmp(p) => Flow
  BY DEF OpenTmp, Torn
<1>4. ASSUME NEW p \in Procs PROVE WriteTmp(p) => Flow
  BY DEF WriteTmp, Overwritten, Whole, Torn
<1>5. ASSUME NEW p \in Procs PROVE Replace(p) \/ ReplaceFails(p) \/ CloseAll(p) => Flow
  BY <1>1 DEF Replace, ReplaceFails, CloseAll, Absent
<1>6. ASSUME NEW p \in Procs, RecordApplied(p) \/ Fake(p) PROVE Flow
  <2>1. disk' = disk /\ tmp' = tmp /\ \A q \in Procs \ {p} : mem'[q] = mem[q]
    BY <1>6 DEF RecordApplied, Fake
  <2> QED
    BY <2>1, <1>6
<1>7. ASSUME NEW p \in Procs, Progress(p) PROVE Flow
  BY <1>1, <1>3, <1>4, <1>5, <1>6, <1>7
  DEF Progress, Snapshot, Finished, Refuse, BeginApply, EndApply, WriteMarker,
      SaveOpen, SaveWrite, SaveReplace, SaveFails
<1>8. ASSUME NEW p \in Procs, Operator(p) PROVE Flow
  BY <1>1, <1>2, <1>6, <1>8 DEF Operator, Start, StartRefused, StartFake, FakeRefused
<1>9. ASSUME NEW p \in Procs, FailApply(p) \/ Kill(p) PROVE Flow
  BY <1>1, <1>5, <1>9 DEF FailApply, Kill
<1>10. ASSUME NEW m \in Migrations, Repair(m) PROVE Flow
  BY <1>1, <1>10 DEF Repair
<1>11. CASE UNCHANGED vars
  BY <1>1, <1>11 DEF vars, fileVars
<1> QED
  BY <1>7, <1>8, <1>9, <1>10, <1>11 DEF Next

(* Nothing is recorded in a fresh installation *)
LEMMA InitInv == Init => IInv
<1> SUFFICES ASSUME Init PROVE IInv
  OBVIOUS
<1>1. TypeOK
  BY InitType
<1>2. StatesSound
  BY DEF Init, FileInit, StatesSound, Sound, FakesKnown, Absent, FreshState
<1>3. RecordsWhatRan /\ InOrder
  BY DEF Init, RecordsWhatRan, InOrder, Untouched
<1> QED
  BY <1>1, <1>2, <1>3 DEF IInv

(* Every State there is, on disk or in memory, records what ran *)
LEMMA StatesStep == IInv /\ [Next]_vars => StatesSound'
<1> SUFFICES ASSUME IInv, [Next]_vars PROVE StatesSound'
  OBVIOUS
<1> DEFINE Known == {disk.val, tmp.val, FreshState} \cup {mem[q] : q \in Procs}
<1>1. TypeOK /\ Grows
  BY StepGrows DEF IInv
<1>2. \A s \in Known : s \in State /\ Sound(s) /\ FakesKnown(s)
  BY <1>1 DEF IInv, StatesSound, TypeOK, FileTypeOK, File, State, FreshState, Sound, FakesKnown
<1>3. \A s \in Known : Sound(s)' /\ FakesKnown(s)'
  BY <1>1, <1>2, SoundStable
<1>4. ASSUME NEW q \in Procs, RecordApplied(q)
      PROVE  Sound(mem[q])' /\ FakesKnown(mem[q])'
  <2>1. PICK m \in Migrations :
           /\ IsNext(q, m)
           /\ mem' = [mem EXCEPT ![q] = [applied |-> @.applied \cup {m}, faked |-> @.faked]]
    BY <1>4 DEF RecordApplied
  <2>2. effect[m] = "done" /\ effect' = effect /\ fakedEver' = fakedEver
    BY <1>4, <2>1 DEF RecordApplied, IInv, RecordsWhatRan
  <2>3. mem'[q] = [applied |-> mem[q].applied \cup {m}, faked |-> mem[q].faked]
    BY <1>1, <2>1 DEF TypeOK, FileTypeOK
  <2> QED
    BY <2>2, <2>3 DEF IInv, StatesSound, Sound, FakesKnown
<1>5. ASSUME NEW q \in Procs, Fake(q)
      PROVE  Sound(mem[q])' /\ FakesKnown(mem[q])'
  <2>1. PICK m \in Pending(mem[q]) :
           /\ mem' = [mem EXCEPT ![q] = [applied |-> @.applied \cup {m},
                                         faked |-> @.faked \cup {m}]]
           /\ fakedEver' = fakedEver \cup {m}
           /\ effect' = effect
    BY <1>5 DEF Fake
  <2>2. mem'[q] = [applied |-> mem[q].applied \cup {m}, faked |-> mem[q].faked \cup {m}]
    BY <1>1, <2>1 DEF TypeOK, FileTypeOK
  <2> QED
    BY <2>1, <2>2 DEF IInv, StatesSound, Sound, FakesKnown
<1>6. /\ disk'.val \in Known
      /\ tmp'.val \in Known
      /\ \A q \in Procs : mem'[q] \in Known \/ RecordApplied(q) \/ Fake(q)
  BY <1>1, StatesFlow
<1>7. Sound(disk.val)' /\ FakesKnown(disk.val)'
  BY <1>3, <1>6 DEF Sound, FakesKnown
<1>8. Sound(tmp.val)' /\ FakesKnown(tmp.val)'
  BY <1>3, <1>6 DEF Sound, FakesKnown
<1>9. ASSUME NEW q \in Procs PROVE Sound(mem[q])' /\ FakesKnown(mem[q])'
  BY <1>3, <1>4, <1>5, <1>6 DEF Sound, FakesKnown
<1> QED
  BY <1>7, <1>8, <1>9 DEF StatesSound

(* What a process is about to record ran to its end *)
LEMMA RecordsStep == IInv /\ [Next]_vars => RecordsWhatRan'
<1> SUFFICES ASSUME IInv, [Next]_vars,
                    NEW p \in Procs, pc'[p] = "record",
                    NEW m \in Migrations, IsNext(p, m)'
             PROVE  effect'[m] = "done"
  BY DEF RecordsWhatRan
<1> USE DEF TypeOK
<1>1. TypeOK /\ Grows
  BY StepGrows DEF IInv
<1>2. CASE EndApply(p)
  <2>1. mem' = mem
    BY <1>2 DEF EndApply, fileVars
  <2>2. IsNext(p, m)
    BY <2>1 DEF IsNext, Pending
  <2>3. PICK k \in Migrations : IsNext(p, k) /\ effect' = [effect EXCEPT ![k] = "done"]
    BY <1>2 DEF EndApply
  <2>4. k = m
    BY <2>2, <2>3, NAssumption DEF IsNext, Pending, Migrations
  <2> QED
    BY <1>1, <2>3, <2>4 DEF Effect
<1>3. CASE ~EndApply(p)
  <2>1. pc[p] = "record" /\ mem'[p] = mem[p]
    <3> USE <1>1 DEF FileTypeOK, Goto, fileVars, Load, LoadFails, OpenTmp, WriteTmp, Replace,
                     ReplaceFails, CloseAll
    <3>1. ASSUME NEW q \in Procs, Progress(q) PROVE pc[p] = "record" /\ mem'[p] = mem[p]
      BY <1>3, <3>1
      DEF Progress, Snapshot, Finished, Refuse, BeginApply, EndApply, WriteMarker,
          RecordApplied, SaveOpen, SaveWrite, SaveReplace, SaveFails
    <3>2. ASSUME NEW q \in Procs, Operator(q) PROVE pc[p] = "record" /\ mem'[p] = mem[p]
      BY <3>2 DEF Operator, Start, StartRefused, StartFake, Fake, FakeRefused
    <3>3. ASSUME NEW q \in Procs, FailApply(q) \/ Kill(q)
          PROVE pc[p] = "record" /\ mem'[p] = mem[p]
      BY <3>3 DEF FailApply, Kill
    <3>4. ASSUME NEW k \in Migrations, Repair(k) PROVE pc[p] = "record" /\ mem'[p] = mem[p]
      BY <3>4 DEF Repair
    <3>5. CASE UNCHANGED vars
      BY <3>5 DEF vars
    <3> QED
      BY <3>1, <3>2, <3>3, <3>4, <3>5 DEF Next
  <2>2. IsNext(p, m)
    BY <2>1 DEF IsNext, Pending
  <2> QED
    BY <1>1, <2>1, <2>2 DEF IInv, RecordsWhatRan, Grows
<1> QED
  BY <1>2, <1>3

(* No migration touches the installation before its turn *)
LEMMA OrderStep == IInv /\ [Next]_vars => InOrder'
<1> SUFFICES ASSUME IInv, [Next]_vars,
                    NEW m \in Migrations, effect'[m] # "none", NEW k \in 1..(m - 1)
             PROVE  effect'[k] = "done" \/ k \in fakedEver'
  BY DEF InOrder
<1>1. TypeOK /\ Grows /\ StatesSound
  BY StepGrows DEF IInv
<1>2. k \in Migrations
  BY NAssumption DEF Migrations
<1>3. SUFFICES effect[k] = "done" \/ k \in fakedEver
  BY <1>1, <1>2 DEF Grows
<1>4. CASE effect[m] # "none"
  BY <1>4 DEF IInv, InOrder
<1>5. CASE effect[m] = "none"
  <2>1. \E p \in Procs : IsNext(p, m)
    <3> USE <1>1, <1>5 DEF TypeOK, Effect
    <3>1. ASSUME NEW p \in Procs, Progress(p) PROVE IsNext(p, m)
      BY <3>1 DEF Progress, Snapshot, Finished, Refuse, BeginApply, EndApply, WriteMarker,
                  RecordApplied, SaveOpen, SaveWrite, SaveReplace, SaveFails
    <3>2. ASSUME NEW p \in Procs, Operator(p) PROVE FALSE
      BY <3>2 DEF Operator, Start, StartRefused, StartFake, Fake, FakeRefused
    <3>3. ASSUME NEW p \in Procs, FailApply(p) \/ Kill(p) PROVE FALSE
      BY <3>3 DEF FailApply, Kill
    <3>4. ASSUME NEW j \in Migrations, Repair(j) PROVE FALSE
      BY <3>4 DEF Repair
    <3>5. CASE UNCHANGED vars
      BY <3>5 DEF vars
    <3> QED
      BY <3>1, <3>2, <3>3, <3>4, <3>5 DEF Next
  <2> QED
    BY <1>1, <2>1, EarlierOnes
<1> QED
  BY <1>4, <1>5

(* The induction itself, over every action of Next *)
THEOREM Inductive == Spec => []IInv
<1>1. IInv /\ [Next]_vars => IInv'
  BY NextType, StatesStep, RecordsStep, OrderStep DEF IInv
<1> QED
  BY <1>1, InitInv, PTL DEF Spec

(* state.json records a migration as applied only if it ran to its end or   *)
(* the same file says it was faked, for any number of CLIs and faults.      *)
THEOREM RecordedRan == Spec => []RecordedImpliesRan
<1>1. IInv => RecordedImpliesRan
  BY DEF IInv, StatesSound, Sound, RecordedImpliesRan
<1> QED
  BY <1>1, Inductive, PTL

(* Migrations take effect in the order of their numbers, for any number of  *)
(* CLIs, stale States and faults.                                           *)
THEOREM AppliedInOrder == Spec => []InOrder
<1>1. IInv => InOrder
  BY DEF IInv
<1> QED
  BY <1>1, Inductive, PTL
-----------------------------------------------------------------------------
(* The refinement holds for one CLI only: of two that loaded the same State, *)
(* the second save takes the entries of the first out again                  *)
OneCli == \A p, q \in Procs : p = q

(* A State in memory that has something state.json has not: one migration,  *)
(* which ran or was faked                                                   *)
OneAhead(s) ==
    \E m \in Done \cup fakedEver :
        m \notin disk.val.applied /\ s.applied = disk.val.applied \cup {m}

(* How far the save of a State has come when no other CLI interferes *)
MemoryFollows ==
    \A p \in Procs :
        /\ pc[p] \in {"snapshot", "next", "apply", "mark", "record", "fake"} =>
               mem[p].applied = disk.val.applied
        /\ pc[p] \in {"open", "write", "replace"} => OneAhead(mem[p])

SaveInHand ==
    \A p \in Procs :
        /\ pc[p] = "write" => fd[p] = "tmp" /\ tmp = Torn
        /\ pc[p] # "write" => fd[p] = "closed"
        /\ pc[p] = "replace" => tmp = Whole(mem[p])

Alone == MemoryFollows /\ SaveInHand

(* Nothing is in memory and no save is under way *)
LEMMA AloneInit == Init => Alone
BY DEF Init, FileInit, Alone, MemoryFollows, SaveInHand

(* While state.json stays, whoever was one ahead is so still *)
LEMMA AheadStable ==
    ASSUME TypeOK, Grows, disk' = disk, NEW s \in State, OneAhead(s)
    PROVE  OneAhead(s)'
BY DEF TypeOK, Grows, OneAhead, Done

(* Without another CLI a write goes into the state.tmp that was opened for  *)
(* it, and a rename moves what was written there                             *)
LEMMA SaveSteps ==
    ASSUME TypeOK, SaveInHand, NEW p \in Procs
    PROVE  /\ SaveWrite(p) => disk' = disk /\ tmp' = Whole(mem[p]) /\ fd'[p] = "closed"
           /\ SaveReplace(p) => disk' = Whole(mem[p])
<1>1. SaveWrite(p) => disk' = disk /\ tmp' = Whole(mem[p]) /\ fd'[p] = "closed"
  <2> SUFFICES ASSUME SaveWrite(p)
               PROVE disk' = disk /\ tmp' = Whole(mem[p]) /\ fd'[p] = "closed"
    OBVIOUS
  <2>1. fd[p] = "tmp" /\ tmp = Torn
    BY DEF SaveInHand, SaveWrite
  <2>2. Overwritten(tmp, p) = {Whole(mem[p])}
    BY <2>1 DEF Overwritten, Torn
  <2> QED
    BY <2>1, <2>2 DEF SaveWrite, WriteTmp, TypeOK, FileTypeOK
<1>2. SaveReplace(p) => disk' = Whole(mem[p])
  BY DEF SaveReplace, Replace, SaveInHand
<1> QED
  BY <1>1, <1>2

(* Nobody else saves between a load and a save, so what a process works     *)
(* from is what state.json holds                                            *)
LEMMA MemoryStep ==
    ASSUME OneCli, IInv, Alone, [Next]_vars
    PROVE  MemoryFollows'
<1>1. TypeOK /\ Grows
  BY StepGrows DEF IInv
<1>2. \A q \in Procs : mem[q] \in State
  BY <1>1 DEF TypeOK, FileTypeOK
<1>3. ASSUME disk' = disk, mem' = mem,
             \A q \in Procs :
                \/ pc'[q] \in {pc[q], "idle"}
                \/ {pc[q], pc'[q]} \subseteq {"snapshot", "next", "apply", "mark", "record", "fake"}
                \/ {pc[q], pc'[q]} \subseteq {"open", "write", "replace"}
      PROVE  MemoryFollows'
  <2> SUFFICES ASSUME NEW q \in Procs
               PROVE  /\ pc'[q] \in {"snapshot", "next", "apply", "mark", "record", "fake"} =>
                            mem'[q].applied = disk'.val.applied
                      /\ pc'[q] \in {"open", "write", "replace"} => OneAhead(mem[q])'
    BY DEF MemoryFollows
  <2>1. OneAhead(mem[q]) => OneAhead(mem[q])'
    BY <1>1, <1>2, <1>3, AheadStable DEF OneAhead
  <2> QED
    BY <2>1, <1>3 DEF Alone, MemoryFollows
<1>4. ASSUME NEW p \in Procs, Progress(p) PROVE MemoryFollows'
  <2> USE <1>1 DEF TypeOK, Goto, fileVars
  <2>1. \A q \in Procs : q = p
    BY DEF OneCli
  <2>2. CASE Snapshot(p) \/ BeginApply(p) \/ EndApply(p) \/ Finished(p) \/ Refuse(p) \/ WriteMarker(p)
    <3>1. disk' = disk /\ mem' = mem
      BY <2>2 DEF Snapshot, BeginApply, EndApply, Finished, Refuse, WriteMarker
    <3> QED
      BY <1>3, <2>1, <2>2, <3>1
      DEF Snapshot, BeginApply, EndApply, Finished, Refuse, WriteMarker
  <2>3. CASE SaveOpen(p) \/ SaveFails(p)
    BY <1>3, <2>1, <2>3 DEF SaveOpen, OpenTmp, SaveFails, ReplaceFails
  <2>4. CASE SaveWrite(p)
    <3>1. disk' = disk
      BY <2>4, SaveSteps DEF Alone
    <3> QED
      BY <1>3, <2>1, <2>4, <3>1 DEF SaveWrite, WriteTmp
  <2>5. CASE SaveReplace(p)
    <3>1. disk' = Whole(mem[p]) /\ mem' = mem
      BY <2>5, SaveSteps DEF Alone, SaveReplace, Replace
    <3>2. pc'[p] \in {"idle", "next"}
      BY <2>5 DEF SaveReplace
    <3> QED
      BY <2>1, <3>1, <3>2 DEF MemoryFollows, Whole
  <2>6. CASE RecordApplied(p)
    <3>1. PICK m \in Migrations :
             /\ IsNext(p, m)
             /\ mem' = [mem EXCEPT ![p] = [applied |-> @.applied \cup {m}, faked |-> @.faked]]
      BY <2>6 DEF RecordApplied
    <3>2. /\ pc[p] = "record" /\ pc'[p] = "open"
          /\ disk' = disk /\ effect' = effect /\ fakedEver' = fakedEver
      BY <2>6 DEF RecordApplied
    <3>3. mem'[p].applied = disk.val.applied \cup {m} /\ m \notin disk.val.applied
      BY <3>1, <3>2 DEF Alone, MemoryFollows, IsNext, Pending, FileTypeOK
    <3>4. effect[m] = "done"
      BY <3>1, <3>2 DEF IInv, RecordsWhatRan
    <3>5. OneAhead(mem[p])'
      BY <3>2, <3>3, <3>4 DEF OneAhead, Done
    <3> QED
      BY <2>1, <3>2, <3>5 DEF MemoryFollows
  <2> QED
    BY <1>4, <2>2, <2>3, <2>4, <2>5, <2>6 DEF Progress
<1>5. ASSUME NEW p \in Procs, Operator(p) PROVE MemoryFollows'
  <2> USE <1>1 DEF TypeOK, Goto, fileVars
  <2>1. \A q \in Procs : q = p
    BY DEF OneCli
  <2>2. CASE Start(p) \/ StartFake(p)
    <3>1. mem'[p] = disk.val /\ disk' = disk /\ pc'[p] \in {"idle", "snapshot", "fake"}
      BY <2>2 DEF Start, StartFake, Load, FileTypeOK
    <3> QED
      BY <2>1, <3>1 DEF MemoryFollows
  <2>3. CASE StartRefused(p) \/ FakeRefused(p)
    BY <1>3, <2>1, <2>3 DEF StartRefused, LoadFails, FakeRefused
  <2>4. CASE Fake(p)
    <3>1. PICK m \in Pending(mem[p]) :
             /\ mem' = [mem EXCEPT ![p] = [applied |-> @.applied \cup {m},
                                           faked |-> @.faked \cup {m}]]
             /\ fakedEver' = fakedEver \cup {m}
      BY <2>4 DEF Fake
    <3>2. pc[p] = "fake" /\ pc'[p] = "open" /\ disk' = disk /\ effect' = effect
      BY <2>4 DEF Fake
    <3>3. mem'[p].applied = disk.val.applied \cup {m} /\ m \notin disk.val.applied
      BY <3>1, <3>2 DEF Alone, MemoryFollows, Pending, FileTypeOK
    <3>4. OneAhead(mem[p])'
      BY <3>1, <3>2, <3>3 DEF OneAhead
    <3> QED
      BY <2>1, <3>2, <3>4 DEF MemoryFollows
  <2> QED
    BY <1>5, <2>2, <2>3, <2>4 DEF Operator
<1>6. ASSUME NEW p \in Procs, FailApply(p) \/ Kill(p) PROVE MemoryFollows'
  <2>1. \A q \in Procs : q = p
    BY DEF OneCli
  <2> QED
    BY <1>1, <1>3, <1>6, <2>1 DEF FailApply, Kill, Goto, fileVars, CloseAll, TypeOK
<1>7. ASSUME NEW m \in Migrations, Repair(m) PROVE MemoryFollows'
  BY <1>3, <1>7 DEF Repair, fileVars
<1>8. CASE UNCHANGED vars
  BY <1>3, <1>8 DEF vars
<1> QED
  BY <1>4, <1>5, <1>6, <1>7, <1>8 DEF Next

(* The three steps of a save leave state.tmp as the next one expects it; a  *)
(* kill closes the descriptor                                                *)
LEMMA SaveStep ==
    ASSUME OneCli, TypeOK, SaveInHand, [Next]_vars
    PROVE  SaveInHand'
<1>1. \A p, q \in Procs : q = p
  BY DEF OneCli
<1> USE DEF SaveInHand, Goto, TypeOK
<1>2. ASSUME UNCHANGED fileVars,
             \A p \in Procs : pc'[p] = pc[p] \/ {pc[p], pc'[p]} \cap {"write", "replace"} = {}
      PROVE  SaveInHand'
  BY <1>2 DEF fileVars
<1>3. ASSUME NEW p \in Procs, Progress(p) PROVE SaveInHand'
  <2>1. CASE Snapshot(p) \/ Finished(p) \/ Refuse(p) \/ BeginApply(p) \/ EndApply(p) \/ WriteMarker(p)
    BY <1>1, <1>2, <2>1
    DEF Snapshot, Finished, Refuse, BeginApply, EndApply, WriteMarker
  <2>2. CASE RecordApplied(p)
    BY <1>1, <2>2 DEF RecordApplied
  <2>3. CASE SaveOpen(p)
    BY <1>1, <2>3 DEF SaveOpen, OpenTmp, FileTypeOK
  <2>4. CASE SaveWrite(p)
    <3>1. tmp' = Whole(mem[p]) /\ fd'[p] = "closed" /\ mem' = mem
      BY <2>4, SaveSteps DEF SaveWrite, WriteTmp
    <3>2. pc'[p] = "replace"
      BY <2>4 DEF SaveWrite
    <3> QED
      BY <1>1, <3>1, <3>2
  <2>5. CASE SaveReplace(p)
    BY <1>1, <2>5 DEF SaveReplace, Replace, Renamed, FileTypeOK
  <2>6. CASE SaveFails(p)
    BY <1>1, <2>6 DEF SaveFails, ReplaceFails, fileVars
  <2> QED
    BY <1>3, <2>1, <2>2, <2>3, <2>4, <2>5, <2>6 DEF Progress
<1>4. ASSUME NEW p \in Procs, Operator(p) PROVE SaveInHand'
  BY <1>1, <1>4 DEF Operator, Start, StartRefused, StartFake, Fake, FakeRefused,
                    Load, LoadFails, fileVars
<1>5. ASSUME NEW p \in Procs, FailApply(p) \/ Kill(p) PROVE SaveInHand'
  BY <1>1, <1>5 DEF FailApply, Kill, CloseAll, FileTypeOK, fileVars
<1>6. ASSUME NEW m \in Migrations, Repair(m) PROVE SaveInHand'
  BY <1>6 DEF Repair, fileVars
<1>7. CASE UNCHANGED vars
  BY <1>7 DEF vars
<1> QED
  BY <1>3, <1>4, <1>5, <1>6, <1>7 DEF Next

(* The end of an apply() completes, a --fake declares, the rename enters;   *)
(* every other step, faults and repairs included, leaves the ledger alone    *)
LEMMA LedgerStep ==
    ASSUME OneCli, IInv, Alone, [Next]_vars
    PROVE  [Ledger!LedgerNext]_<<Done, fakedEver, disk.val.applied>>
<1> DEFINE Stutter == Done' = Done /\ fakedEver' = fakedEver
                      /\ disk'.val.applied = disk.val.applied
<1>1. SUFFICES Stutter \/ Ledger!LedgerNext
  OBVIOUS
<1>2. TypeOK /\ StatesSound
  BY DEF IInv
<1>3. UNCHANGED <<disk, effect, fakedEver>> => Stutter
  BY DEF Done
<1>4. ASSUME NEW p \in Procs, Progress(p) PROVE Stutter \/ Ledger!LedgerNext
  <2>1. CASE EndApply(p)
    <3>1. PICK m \in Migrations : IsNext(p, m) /\ effect' = [effect EXCEPT ![m] = "done"]
      BY <2>1 DEF EndApply
    <3>2. \A k \in 1..(m - 1) : k \in Done \cup fakedEver
      <4> TAKE k \in 1..(m - 1)
      <4>1. k \in Migrations
        BY NAssumption DEF Migrations
      <4> QED
        BY <1>2, <3>1, <4>1, EarlierOnes DEF Done
    <3>3. Done' = Done \cup {m}
      BY <1>2, <3>1 DEF Done, TypeOK, Effect
    <3>4. fakedEver' = fakedEver /\ disk' = disk
      BY <2>1 DEF EndApply, fileVars
    <3> QED
      BY <3>2, <3>3, <3>4 DEF Ledger!LedgerNext, Ledger!Complete, Migrations
  <2>2. CASE SaveReplace(p)
    <3>1. disk' = Whole(mem[p]) /\ OneAhead(mem[p])
      BY <1>2, <2>2, SaveSteps DEF Alone, MemoryFollows, SaveReplace
    <3>2. effect' = effect /\ fakedEver' = fakedEver
      BY <2>2 DEF SaveReplace
    <3>3. PICK m \in Done \cup fakedEver :
             m \notin disk.val.applied /\ disk'.val.applied = disk.val.applied \cup {m}
      BY <3>1 DEF OneAhead, Whole
    <3>4. m \in Migrations
      BY <1>2 DEF Done, TypeOK
    <3> QED
      BY <3>2, <3>3, <3>4 DEF Ledger!LedgerNext, Ledger!Enter, Migrations, Done
  <2>3. CASE BeginApply(p)
    <3>1. Done' = Done
      BY <1>2, <2>3 DEF BeginApply, Done, TypeOK, Effect
    <3> QED
      BY <2>3, <3>1 DEF BeginApply, fileVars
  <2>4. CASE SaveWrite(p)
    BY <1>2, <1>3, <2>4, SaveSteps DEF Alone, SaveWrite
  <2> QED
    BY <1>3, <1>4, <2>1, <2>2, <2>3, <2>4
    DEF Progress, Snapshot, Finished, Refuse, WriteMarker, RecordApplied, SaveOpen, OpenTmp,
        SaveFails, ReplaceFails, fileVars
<1>5. ASSUME NEW p \in Procs, Operator(p) PROVE Stutter \/ Ledger!LedgerNext
  <2>1. CASE Fake(p)
    <3>1. PICK m \in Pending(mem[p]) : fakedEver' = fakedEver \cup {m}
      BY <2>1 DEF Fake
    <3>2. effect' = effect /\ disk' = disk
      BY <2>1 DEF Fake
    <3>3. m \in Migrations /\ m \notin disk.val.applied
      BY <2>1 DEF Fake, Pending, Alone, MemoryFollows
    <3> QED
      BY <3>1, <3>2, <3>3 DEF Ledger!LedgerNext, Ledger!Declare, Migrations, Done
  <2> QED
    BY <1>3, <1>5, <2>1
    DEF Operator, Start, StartRefused, StartFake, FakeRefused, Load, LoadFails, fileVars
<1>6. ASSUME NEW p \in Procs, FailApply(p) \/ Kill(p) PROVE Stutter
  BY <1>3, <1>6 DEF FailApply, Kill, CloseAll, fileVars
<1>7. ASSUME NEW m \in Migrations, Repair(m) PROVE Stutter
  <2>1. Done' = Done
    BY <1>2, <1>7 DEF Repair, Done, TypeOK, Effect
  <2> QED
    BY <1>7, <2>1 DEF Repair, fileVars
<1>8. CASE UNCHANGED vars
  BY <1>3, <1>8 DEF vars
<1> QED
  BY <1>4, <1>5, <1>6, <1>7, <1>8 DEF Next

(* One CLI at a time, state.json is the ledger migrations/README.md         *)
(* describes: entries come one by one, of migrations that ran or were faked, *)
(* in their order, and no kill, exception or repair loses one.               *)
THEOREM LedgerImplemented ==
    ASSUME OneCli
    PROVE  Spec => ImplementsLedger
<1>1. Init => Ledger!LedgerInit
  BY DEF Init, FileInit, Absent, FreshState, Untouched, Done, Ledger!LedgerInit
<1>2. Alone /\ IInv /\ [Next]_vars => Alone'
  BY MemoryStep, SaveStep DEF Alone, IInv
<1>3. Alone /\ IInv /\ [Next]_vars => [Ledger!LedgerNext]_<<Done, fakedEver, disk.val.applied>>
  BY LedgerStep
<1> QED
  BY <1>1, <1>2, <1>3, AloneInit, Inductive, PTL DEF Spec, ImplementsLedger, Ledger!LedgerSpec
-----------------------------------------------------------------------------
(* A run of apply_all holds its snapshot from the moment it is taken until  *)
(* the command ends, and fake() holds none                                  *)
HeldShape ==
    \A p \in Procs :
        /\ pc[p] \in {"next", "apply", "mark", "record"} => held[p] # NoStamp
        /\ pc[p] \in {"idle", "snapshot", "fake"} => held[p] = NoStamp

(* What a run leaves behind when nobody was killed: a migration that began   *)
(* and is not recorded has its marker, or is being dealt with right now      *)
Leftovers ==
    kills = 0 =>
        /\ \A m \in Migrations \ Idempotent :
              effect[m] = "partial" /\ m \notin disk.val.applied /\ marker[m] = NoStamp =>
                  \E p \in Procs : pc[p] \in {"apply", "mark"} /\ IsNext(p, m)
        /\ \A m \in Migrations :
              effect[m] = "done" /\ m \notin disk.val.applied =>
                  \E p \in Procs :
                      \/ pc[p] = "record" /\ IsNext(p, m)
                      \/ pc[p] \in {"open", "write", "replace"} /\ m \in mem[p].applied
        /\ damaged = {}

(* The snapshot in hand, and each one a marker names, is older than what it  *)
(* is to undo; what is being applied has no marker                           *)
CleanSnapshots ==
    kills = 0 =>
        \A m \in Migrations \ Idempotent :
            /\ marker[m] # NoStamp => snaps[marker[m]][m] = "none"
            /\ \A p \in Procs :
                  held[p] # NoStamp /\ m \notin mem[p].applied /\ marker[m] = NoStamp
                      => snaps[held[p]][m] = "none"
            /\ \A p \in Procs :
                  pc[p] \in {"apply", "mark"} /\ IsNext(p, m) => marker[m] = NoStamp

(* Every way back to idle lets go of the snapshot *)
LEMMA HeldStep == TypeOK /\ HeldShape /\ [Next]_vars => HeldShape'
<1> SUFFICES ASSUME TypeOK, HeldShape, [Next]_vars, NEW q \in Procs
             PROVE  /\ pc'[q] \in {"next", "apply", "mark", "record"} => held'[q] # NoStamp
                    /\ pc'[q] \in {"idle", "snapshot", "fake"} => held'[q] = NoStamp
  BY DEF HeldShape
<1> USE MigrateAssumption DEF HeldShape, TypeOK, Goto
<1>1. ASSUME NEW p \in Procs, Progress(p)
      PROVE  /\ pc'[q] \in {"next", "apply", "mark", "record"} => held'[q] # NoStamp
             /\ pc'[q] \in {"idle", "snapshot", "fake"} => held'[q] = NoStamp
  BY <1>1 DEF Progress, Snapshot, Finished, Refuse, BeginApply, EndApply, WriteMarker,
              RecordApplied, SaveOpen, SaveWrite, SaveReplace, SaveFails
<1>2. ASSUME NEW p \in Procs, Operator(p)
      PROVE  /\ pc'[q] \in {"next", "apply", "mark", "record"} => held'[q] # NoStamp
             /\ pc'[q] \in {"idle", "snapshot", "fake"} => held'[q] = NoStamp
  BY <1>2 DEF Operator, Start, StartRefused, StartFake, Fake, FakeRefused
<1>3. ASSUME NEW p \in Procs, FailApply(p) \/ Kill(p)
      PROVE  /\ pc'[q] \in {"next", "apply", "mark", "record"} => held'[q] # NoStamp
             /\ pc'[q] \in {"idle", "snapshot", "fake"} => held'[q] = NoStamp
  BY <1>3 DEF FailApply, Kill
<1>4. ASSUME NEW m \in Migrations, Repair(m)
      PROVE  pc' = pc /\ held' = held
  BY <1>4 DEF Repair
<1>5. CASE UNCHANGED vars
  BY <1>5 DEF vars
<1> QED
  BY <1>1, <1>2, <1>3, <1>4, <1>5 DEF Next

(* A single CLI that looks for its next migration, or takes the snapshot,    *)
(* finds nothing half done that a marker does not name                       *)
LEMMA NothingLeft ==
    ASSUME OneCli, TypeOK, MemoryFollows, Leftovers, kills = 0,
           NEW p \in Procs, pc[p] \in {"snapshot", "next"},
           NEW m \in Pending(mem[p])
    PROVE  /\ effect[m] # "done"
           /\ m \notin Idempotent /\ marker[m] = NoStamp => effect[m] = "none"
<1>1. m \in Migrations /\ m \notin disk.val.applied
  BY DEF Pending, MemoryFollows
<1>2. \A q \in Procs : pc[q] \notin {"apply", "mark", "record", "open", "write", "replace"}
  BY DEF OneCli
<1>3. effect[m] \in {"none", "partial", "done"}
  BY <1>1 DEF TypeOK, Effect
<1> QED
  BY <1>1, <1>2, <1>3 DEF Leftovers

(* What an attempt that failed left behind stays until the repair *)
LEMMA LeftoversStep ==
    ASSUME OneCli, IInv, Alone, HeldShape, Leftovers, [Next]_vars
    PROVE  Leftovers'
<1>1. SUFFICES ASSUME kills' = 0 PROVE Leftovers'
  BY DEF Leftovers
<1>t. TypeOK
  BY DEF IInv
<1>2. ASSUME NEW p \in Procs, NEW q \in Procs PROVE p = q
  BY DEF OneCli
<1>3. ASSUME kills = 0,
             UNCHANGED <<disk, mem, effect, marker, damaged>>,
             \A q \in Procs :
                \/ pc'[q] = pc[q]
                \/ {pc[q], pc'[q]} \subseteq {"apply", "mark"}
                \/ {pc[q], pc'[q]} \subseteq {"open", "write", "replace"}
                \/ pc[q] \in {"idle", "snapshot", "next", "fake"}
      PROVE  Leftovers'
  BY <1>3 DEF Leftovers, IsNext, Pending
<1>4. ASSUME NEW p \in Procs, Progress(p) PROVE Leftovers'
  <2> USE <1>t DEF TypeOK, Goto, fileVars
  <2>0. kills = 0
    BY <1>1, <1>4 DEF Progress, Snapshot, Finished, Refuse, BeginApply, EndApply, WriteMarker,
                      RecordApplied, SaveOpen, SaveWrite, SaveReplace, SaveFails
  <2>1. CASE Snapshot(p) \/ Finished(p) \/ Refuse(p)
    BY <1>3, <2>0, <2>1 DEF Snapshot, Finished, Refuse
  <2>2. CASE BeginApply(p)
    <3>1. PICK m \in Migrations :
             /\ IsNext(p, m)
             /\ ~Blocked(m)
             /\ effect' = [effect EXCEPT ![m] = IF @ = "none" THEN "partial" ELSE @]
             /\ damaged' = IF effect[m] # "none" /\ m \notin Idempotent
                             THEN damaged \cup {m} ELSE damaged
      BY <2>2 DEF BeginApply
    <3>2. UNCHANGED <<disk, mem, marker, kills>> /\ pc[p] = "next" /\ pc'[p] = "apply"
      BY <2>2 DEF BeginApply
    <3>3. effect[m] # "none" => m \in Idempotent
      BY <2>0, <3>1, <3>2, NothingLeft DEF Alone, IsNext, Blocked
    <3>4. damaged' = {}
      BY <2>0, <3>1, <3>3 DEF Leftovers
    <3>5. IsNext(p, m)'
      BY <3>1, <3>2 DEF IsNext, Pending
    <3>6. \A k \in Migrations \ {m} : effect'[k] = effect[k]
      BY <3>1 DEF Effect
    <3>7. effect'[m] = "done" => effect[m] = "done"
      BY <3>1 DEF Effect
    <3>8. \A q \in Procs : pc[q] = "next"
      BY <1>2, <3>2
    <3> QED
      BY <2>0, <3>2, <3>4, <3>5, <3>6, <3>7, <3>8 DEF Leftovers
  <2>3. CASE EndApply(p)
    <3>1. PICK m \in Migrations : IsNext(p, m) /\ effect' = [effect EXCEPT ![m] = "done"]
      BY <2>3 DEF EndApply
    <3>2. UNCHANGED <<disk, mem, marker, kills, damaged>> /\ pc[p] = "apply" /\ pc'[p] = "record"
      BY <2>3 DEF EndApply
    <3>3. IsNext(p, m)'
      BY <3>1, <3>2 DEF IsNext, Pending
    <3>4. \A k \in Migrations : IsNext(p, k) => k = m
      BY <3>1, NAssumption DEF IsNext, Pending, Migrations
    <3>5. effect'[m] = "done" /\ \A k \in Migrations \ {m} : effect'[k] = effect[k]
      BY <3>1 DEF Effect
    <3> QED
      BY <1>2, <2>0, <3>2, <3>3, <3>4, <3>5 DEF Leftovers
  <2>4. CASE WriteMarker(p)
    <3>1. PICK m \in Migrations : IsNext(p, m) /\ marker' = [marker EXCEPT ![m] = held[p]]
      BY <2>4 DEF WriteMarker
    <3>2. UNCHANGED <<disk, mem, effect, kills, damaged>> /\ pc[p] = "mark"
      BY <2>4 DEF WriteMarker
    <3>3. marker'[m] # NoStamp /\ \A k \in Migrations \ {m} : marker'[k] = marker[k]
      BY <3>1, <3>2 DEF HeldShape
    <3>4. \A k \in Migrations : IsNext(p, k) => k = m
      BY <3>1, NAssumption DEF IsNext, Pending, Migrations
    <3> QED
      BY <1>2, <2>0, <3>2, <3>3, <3>4 DEF Leftovers
  <2>5. CASE RecordApplied(p)
    <3>1. PICK m \in Migrations :
             /\ IsNext(p, m)
             /\ marker' = [marker EXCEPT ![m] = NoStamp]
             /\ mem' = [mem EXCEPT ![p] = [applied |-> @.applied \cup {m}, faked |-> @.faked]]
      BY <2>5 DEF RecordApplied
    <3>2. UNCHANGED <<disk, effect, kills, damaged>> /\ pc[p] = "record" /\ pc'[p] = "open"
      BY <2>5 DEF RecordApplied
    <3>3. effect[m] = "done"
      BY <3>1, <3>2 DEF IInv, RecordsWhatRan
    <3>4. \A k \in Migrations : IsNext(p, k) => k = m
      BY <3>1, NAssumption DEF IsNext, Pending, Migrations
    <3>5. \A k \in Migrations \ {m} : marker'[k] = marker[k]
      BY <3>1
    <3>6. m \in mem'[p].applied
      BY <3>1 DEF FileTypeOK
    <3> QED
      BY <1>2, <2>0, <3>2, <3>3, <3>4, <3>5, <3>6 DEF Leftovers
  <2>6. CASE SaveOpen(p)
    BY <1>3, <2>0, <2>6 DEF SaveOpen, OpenTmp
  <2>7. CASE SaveWrite(p)
    <3>1. disk' = disk
      BY <2>7, SaveSteps DEF Alone
    <3> QED
      BY <1>3, <2>0, <2>7, <3>1 DEF SaveWrite, WriteTmp
  <2>8. CASE SaveReplace(p)
    <3>1. disk' = Whole(mem[p]) /\ OneAhead(mem[p])
      BY <2>8, SaveSteps DEF Alone, MemoryFollows, SaveReplace
    <3>2. UNCHANGED <<mem, effect, marker, damaged, kills>> /\ pc[p] = "replace"
      BY <2>8 DEF SaveReplace, Replace
    <3>3. disk'.val.applied = mem[p].applied /\ disk.val.applied \subseteq mem[p].applied
      BY <3>1 DEF Whole, OneAhead
    <3> QED
      BY <1>2, <2>0, <3>2, <3>3 DEF Leftovers
  <2>9. CASE SaveFails(p)
    BY <2>9 DEF SaveFails, ReplaceFails, Alone, SaveInHand, Whole
  <2> QED
    BY <1>4, <2>1, <2>2, <2>3, <2>4, <2>5, <2>6, <2>7, <2>8, <2>9 DEF Progress
<1>5. ASSUME NEW p \in Procs, Operator(p) PROVE Leftovers'
  <2> USE <1>t DEF TypeOK, Goto, fileVars
  <2>0. /\ kills = 0
        /\ pc[p] \in {"idle", "fake"}
        /\ UNCHANGED <<disk, effect, marker, damaged>>
    BY <1>1, <1>5 DEF Operator, Start, StartRefused, StartFake, Fake, FakeRefused, Load, LoadFails
  <2>1. \A q \in Procs : pc[q] \in {"idle", "fake"}
    BY <1>2, <2>0
  <2> QED
    BY <2>0, <2>1 DEF Leftovers
<1>6. ASSUME NEW p \in Procs, FailApply(p) PROVE Leftovers'
  BY <1>1, <1>3, <1>6, <1>t DEF FailApply, fileVars, Goto, TypeOK
<1>7. ASSUME NEW p \in Procs, Kill(p) PROVE FALSE
  BY <1>1, <1>7, <1>t DEF Kill, TypeOK
<1>8. ASSUME NEW m \in Migrations, Repair(m) PROVE Leftovers'
  <2>1. /\ UNCHANGED <<disk, mem, damaged, kills, pc>>
        /\ \A q \in Procs : pc[q] = "idle"
    BY <1>8 DEF Repair, fileVars
  <2>2. /\ effect'[m] # "partial"
        /\ effect'[m] = "done" => effect[m] = "done"
        /\ \A k \in Migrations \ {m} : effect'[k] = effect[k] /\ marker'[k] = marker[k]
    BY <1>8, <1>t DEF Repair, TypeOK, Effect
  <2> QED
    BY <1>1, <2>1, <2>2 DEF Leftovers
<1>9. CASE UNCHANGED vars
  BY <1>1, <1>3, <1>9 DEF vars
<1> QED
  BY <1>4, <1>5, <1>6, <1>7, <1>8, <1>9 DEF Next

(* A snapshot holds what state.json and the installation were before its migration *)
LEMMA SnapshotsStep ==
    ASSUME OneCli, ~SameSecond, IInv, Alone, HeldShape, Leftovers, CleanSnapshots, [Next]_vars
    PROVE  CleanSnapshots'
<1>1. SUFFICES ASSUME kills' = 0, NEW m \in Migrations \ Idempotent
               PROVE  /\ marker'[m] # NoStamp => snaps'[marker'[m]][m] = "none"
                      /\ \A p \in Procs :
                            held'[p] # NoStamp /\ m \notin mem'[p].applied /\ marker'[m] = NoStamp
                                => snaps'[held'[p]][m] = "none"
                      /\ \A p \in Procs :
                            pc'[p] \in {"apply", "mark"} /\ IsNext(p, m)' => marker'[m] = NoStamp
  BY DEF CleanSnapshots
<1> DEFINE Goal ==
       /\ marker'[m] # NoStamp => snaps'[marker'[m]][m] = "none"
       /\ \A p \in Procs :
             held'[p] # NoStamp /\ m \notin mem'[p].applied /\ marker'[m] = NoStamp
                 => snaps'[held'[p]][m] = "none"
       /\ \A p \in Procs :
             pc'[p] \in {"apply", "mark"} /\ IsNext(p, m)' => marker'[m] = NoStamp
<1>t. TypeOK
  BY DEF IInv
<1>2. ASSUME NEW p \in Procs, NEW q \in Procs PROVE p = q
  BY DEF OneCli
<1>3. ASSUME kills = 0, UNCHANGED <<marker, snaps>>,
             \A q \in Procs :
                /\ held'[q] \in {held[q], NoStamp}
                /\ held[q] # NoStamp => mem'[q] = mem[q]
                /\ pc'[q] \in {"apply", "mark"} => pc[q] \in {"apply", "mark"} /\ mem'[q] = mem[q]
      PROVE  Goal
  BY <1>3 DEF CleanSnapshots, IsNext, Pending
<1>4. ASSUME NEW p \in Procs, Progress(p) PROVE Goal
  <2> USE <1>t DEF TypeOK, Goto, fileVars
  <2>0. kills = 0
    BY <1>1, <1>4 DEF Progress, Snapshot, Finished, Refuse, BeginApply, EndApply, WriteMarker,
                      RecordApplied, SaveOpen, SaveWrite, SaveReplace, SaveFails
  <2>1. CASE Snapshot(p)
    <3>1. PICK s \in Stamps :
             /\ FreshStamp(s)
             /\ snaps' = [snaps EXCEPT ![s] = effect]
             /\ held' = [held EXCEPT ![p] = s]
      BY <2>1 DEF Snapshot
    <3>2. UNCHANGED <<mem, marker>> /\ pc[p] = "snapshot"
      BY <2>1 DEF Snapshot
    <3>3. marker'[m] # NoStamp => snaps'[marker'[m]][m] = "none"
      <4>1. marker[m] # s /\ marker[m] \in Stamps \cup {NoStamp}
        BY <3>1 DEF FreshStamp
      <4> QED
        BY <2>0, <3>1, <3>2, <4>1 DEF CleanSnapshots
    <3>4. snaps'[held'[p]] = effect
      BY <3>1
    <3>5. m \notin mem[p].applied /\ marker[m] = NoStamp => effect[m] = "none"
      BY <2>0, <3>2, NothingLeft DEF Alone, Pending
    <3>6. \A q \in Procs : pc'[q] = "next"
      BY <1>2, <2>1 DEF Snapshot
    <3> QED
      BY <1>2, <3>2, <3>3, <3>4, <3>5, <3>6
  <2>2. CASE Finished(p) \/ Refuse(p)
    BY <1>3, <2>0, <2>2 DEF Finished, Refuse
  <2>3. CASE BeginApply(p)
    <3>1. PICK k \in Migrations : IsNext(p, k) /\ ~Blocked(k)
      BY <2>3 DEF BeginApply
    <3>2. UNCHANGED <<mem, marker, snaps, held>>
      BY <2>3 DEF BeginApply
    <3>3. IsNext(p, m)' => m = k
      BY <3>1, <3>2, NAssumption DEF IsNext, Pending, Migrations
    <3> QED
      BY <1>2, <2>0, <3>1, <3>2, <3>3 DEF CleanSnapshots, Blocked
  <2>31. CASE EndApply(p)
    BY <1>3, <2>0, <2>31 DEF EndApply
  <2>4. CASE WriteMarker(p)
    <3>1. PICK k \in Migrations : IsNext(p, k) /\ marker' = [marker EXCEPT ![k] = held[p]]
      BY <2>4 DEF WriteMarker
    <3>2. /\ UNCHANGED <<snaps, mem>> /\ held' = [held EXCEPT ![p] = NoStamp]
          /\ pc[p] = "mark"
      BY <2>4 DEF WriteMarker
    <3>3. \A q \in Procs : held'[q] = NoStamp
      BY <1>2, <3>2
    <3>4. \A q \in Procs : pc'[q] = "idle"
      BY <1>2, <2>4 DEF WriteMarker
    <3>5. CASE m = k
      <4>1. held[p] # NoStamp /\ m \notin mem[p].applied /\ marker[m] = NoStamp
        BY <2>0, <3>1, <3>2, <3>5 DEF HeldShape, CleanSnapshots, IsNext, Pending
      <4> QED
        BY <2>0, <3>1, <3>2, <3>3, <3>4, <3>5, <4>1 DEF CleanSnapshots
    <3>6. CASE m # k
      BY <2>0, <3>1, <3>2, <3>3, <3>4, <3>6 DEF CleanSnapshots
    <3> QED
      BY <3>5, <3>6
  <2>5. CASE RecordApplied(p)
    <3>1. PICK k \in Migrations :
             /\ marker' = [marker EXCEPT ![k] = NoStamp]
             /\ mem' = [mem EXCEPT ![p] = [applied |-> @.applied \cup {k}, faked |-> @.faked]]
      BY <2>5 DEF RecordApplied
    <3>2. UNCHANGED <<snaps, held>>
      BY <2>5 DEF RecordApplied
    <3>3. mem'[p].applied = mem[p].applied \cup {k}
      BY <3>1 DEF FileTypeOK
    <3>4. \A q \in Procs : pc'[q] = "open"
      BY <1>2, <2>5 DEF RecordApplied
    <3> QED
      BY <1>2, <2>0, <3>1, <3>2, <3>3, <3>4 DEF CleanSnapshots
  <2>6. CASE SaveOpen(p) \/ SaveWrite(p) \/ SaveReplace(p) \/ SaveFails(p)
    <3>1. mem' = mem
      BY <2>6 DEF SaveOpen, OpenTmp, SaveWrite, WriteTmp, SaveReplace, Replace,
                  SaveFails, ReplaceFails
    <3> QED
      BY <1>3, <2>0, <2>6, <3>1 DEF SaveOpen, SaveWrite, SaveReplace, SaveFails
  <2> QED
    BY <1>4, <2>1, <2>2, <2>3, <2>31, <2>4, <2>5, <2>6 DEF Progress
<1>5. ASSUME NEW p \in Procs, Operator(p) PROVE Goal
  <2>1. pc[p] \in {"idle", "fake"} /\ kills = 0 /\ UNCHANGED <<marker, snaps, held>>
    BY <1>1, <1>5 DEF Operator, Start, StartRefused, StartFake, Fake, FakeRefused
  <2>2. \A q \in Procs : held[q] = NoStamp /\ pc'[q] \notin {"apply", "mark"}
    <3>1. pc'[p] \in {"idle", "snapshot", "fake", "open"}
      BY <1>5, <1>t, <2>1 DEF Operator, Start, StartRefused, StartFake, Fake, FakeRefused, Goto, TypeOK
    <3> QED
      BY <1>2, <2>1, <3>1 DEF HeldShape
  <2> QED
    BY <1>3, <2>1, <2>2
<1>6. ASSUME NEW p \in Procs, FailApply(p) PROVE Goal
  BY <1>1, <1>3, <1>6, <1>t DEF FailApply, fileVars, Goto, TypeOK
<1>7. ASSUME NEW p \in Procs, Kill(p) PROVE FALSE
  BY <1>1, <1>7, <1>t DEF Kill, TypeOK
<1>8. ASSUME NEW k \in Migrations, Repair(k) PROVE Goal
  <2>1. /\ kills = 0 /\ UNCHANGED <<snaps, held, pc>>
        /\ \A q \in Procs : held[q] = NoStamp /\ pc[q] = "idle"
    BY <1>1, <1>8 DEF Repair, HeldShape
  <2>2. marker'[m] \in {marker[m], NoStamp}
    BY <1>8, <1>t DEF Repair, TypeOK
  <2> QED
    BY <2>1, <2>2 DEF CleanSnapshots
<1>9. CASE UNCHANGED vars
  BY <1>1, <1>3, <1>9 DEF vars
<1> QED
  BY <1>4, <1>5, <1>6, <1>7, <1>8, <1>9 DEF Next

(* What holds of one CLI at a time, all together *)
LEMMA AloneAlways == ASSUME OneCli PROVE Spec => [](IInv /\ Alone /\ HeldShape /\ Leftovers)
<1>1. Init => HeldShape /\ Leftovers
  BY DEF Init, HeldShape, Leftovers, Untouched
<1>2. IInv /\ Alone /\ HeldShape /\ Leftovers /\ [Next]_vars => Alone' /\ HeldShape' /\ Leftovers'
  BY MemoryStep, SaveStep, HeldStep, LeftoversStep DEF Alone, IInv
<1> QED
  BY <1>1, <1>2, AloneInit, Inductive, PTL DEF Spec

(* With one CLI at a time no migration that is not idempotent runs on its    *)
(* own leftovers, after any number of exceptions, fakes and repairs, unless  *)
(* some run was killed.                                                      *)
THEOREM RepairAwaited == ASSUME OneCli PROVE Spec => []FailedWaitsForRepair
<1>1. Leftovers => FailedWaitsForRepair
  BY DEF Leftovers, FailedWaitsForRepair
<1> QED
  BY <1>1, AloneAlways, PTL

(* With one CLI at a time, and no two snapshots in one second, each failure  *)
(* marker names a snapshot from before the changes it is to undo.            *)
THEOREM SnapshotsClean ==
    ASSUME OneCli, ~SameSecond
    PROVE  Spec => []MarkerNamesCleanSnapshot
<1>1. Init => CleanSnapshots
  BY DEF Init, CleanSnapshots, Untouched
<1>2. IInv /\ Alone /\ HeldShape /\ Leftovers /\ CleanSnapshots /\ [Next]_vars => CleanSnapshots'
  BY SnapshotsStep
<1>3. CleanSnapshots => MarkerNamesCleanSnapshot
  BY DEF CleanSnapshots, MarkerNamesCleanSnapshot
<1> QED
  BY <1>1, <1>2, <1>3, AloneAlways, PTL DEF Spec

(* With one CLI at a time, and as long as nothing is killed, no migration    *)
(* that ran to its end is run again, recorded or not.                        *)
THEOREM RunsOnce == ASSUME OneCli PROVE Spec => AppliedOnce
<1> DEFINE Again == \A m \in Migrations : \A p \in Procs :
                       (kills = 0 /\ pc[p] = "next" /\ pc'[p] = "apply" /\ IsNext(p, m))
                         => effect[m] # "done"
<1>1. IInv /\ Alone /\ HeldShape /\ Leftovers => Again
  BY NothingLeft DEF IInv, Alone, IsNext
<1> QED
  BY <1>1, AloneAlways, PTL DEF AppliedOnce
=============================================================================
