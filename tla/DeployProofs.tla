----------------------------- MODULE DeployProofs -----------------------------
(***************************************************************************)
(* What module Deploy promises for any releases of neops-core and           *)
(* Elasticsearch, any of them with unreadable tags or index stamps, and any *)
(* number of repins and faults.                                             *)
(***************************************************************************)
EXTENDS Deploy, TLAPS

(* The containers and images of an empty host are of their types *)
LEMMA NothingTypes == /\ NoContainers \in Containers
                      /\ NoIndex \in Index
                      /\ NoLastUp \in LastUp
<1>1. NoContainers \in Containers
  BY DEF NoContainers, Containers
<1>2. NoIndex \in Index
  BY DEF NoIndex, Index
<1>3. NoLastUp \in LastUp
  BY <1>1 DEF NoLastUp, LastUp
<1> QED
  BY <1>1, <1>2, <1>3

(* Types hold on an empty host *)
LEMMA InitType == Init => TypeOK
<1> SUFFICES ASSUME Init PROVE TypeOK
  OBVIOUS
<1>1. repins \in 0..MaxRepins /\ faults \in 0..MaxFaults
  BY DeployAssumption DEF Init
<1> QED
  BY <1>1, NothingTypes DEF Init, TypeOK

(* What the steps of a start compute has its type *)
LEMMA ValueTypes ==
    ASSUME TypeOK
    PROVE  /\ Migrated \in Cores \cup {0}
           /\ Created \in Index
           /\ [running EXCEPT !.es = pinned.es] \in Containers
           /\ pinned \in Containers
           /\ BuiltBy(running) \in Index
           /\ [BuiltBy(running) EXCEPT !.whole = FALSE] \in Index
           /\ [images |-> running, doctor_ok |-> FALSE] \in LastUp
           /\ [lastUp EXCEPT !.doctor_ok = TRUE] \in LastUp
BY DEF TypeOK, Migrated, Created, BuiltBy, Images, Containers, Index, LastUp

(* ... and whatever command, fault or repin follows *)
LEMMA NextType == TypeOK /\ [Next]_vars => TypeOK'
<1> SUFFICES ASSUME TypeOK, [Next]_vars PROVE TypeOK'
  OBVIOUS
<1> USE DEF TypeOK, Started, cliVars
<1>1. CASE Repin
  BY <1>1, DeployAssumption DEF Repin, Excuses
<1>2. CASE Down
  BY <1>2 DEF Down, NoContainers, Containers
<1>3. CASE Install
  BY <1>3 DEF Install, Excuses
<1>4. ASSUME NEW allowed \in BOOLEAN, Up(allowed) PROVE TypeOK'
  BY <1>4 DEF Up
<1>5. CASE Guard
  BY <1>5 DEF Guard, Unguarded, Excuses
<1>6. CASE CmsInit \/ CmsUp \/ EnsureToken
  BY <1>6, ValueTypes DEF CmsInit, CmsUp, EnsureToken
<1>7. CASE RefreshIndex \/ RecordUp
  BY <1>7, ValueTypes DEF RefreshIndex, RecordUp
<1>8. CASE DoctorOk \/ DoctorFails
  BY <1>8, ValueTypes DEF DoctorOk, DoctorFails
<1>9. CASE Abort
  <2>1. /\ running' \in Containers
        /\ db' \in Cores \cup {0}
        /\ index' \in Index
    BY <1>9, ValueTypes DEF Abort, CutInit, CutRefresh
  <2>2. faults' \in 0..MaxFaults
    BY <1>9, DeployAssumption DEF Abort
  <2> QED
    BY <1>9, <2>1, <2>2 DEF Abort
<1>10. CASE UNCHANGED vars
  BY <1>10 DEF vars
<1> QED
  BY <1>1, <1>2, <1>3, <1>4, <1>5, <1>6, <1>7, <1>8, <1>9, <1>10 DEF Next, Progress

(* Every variable keeps its type: what runs, what the index was built by    *)
(* and what last_up names are releases that exist.                          *)
THEOREM TypeCorrect == Spec => []TypeOK
BY InitType, NextType, PTL DEF Spec
-----------------------------------------------------------------------------
Starting == {"init", "containers", "token", "index", "record"}

(* Where a running command stands *)
CommandShape ==
    /\ pc \in Starting => unrecorded
    /\ pc \in Starting \cup {"guard"} => loaded = lastUp
    /\ pc \in Started => running = pinned
    /\ pc \in {"doctor", "done"} => ~unrecorded

(* The database is no newer than what the next guard compares with: the     *)
(* recorded core, or after a failed start the images it will be retried on  *)
GuardCompares ==
    excuse = {} =>
        /\ ~unrecorded => db <= lastUp.images.cms
        /\ unrecorded => db <= pinned.cms /\ lastUp.images.cms <= pinned.cms

(* The inductive invariant for the guard and the record *)
IInv ==
    /\ TypeOK
    /\ CommandShape
    /\ RecordedIsDeployed
    /\ GuardCompares

(* On an empty host no command is at work and there is nothing to compare *)
LEMMA InitInv == Init => IInv
<1> SUFFICES ASSUME Init PROVE IInv
  OBVIOUS
<1>1. CommandShape
  BY DEF Init, CommandShape, Starting, Started
<1>2. RecordedIsDeployed
  BY DEF Init, RecordedIsDeployed
<1>3. GuardCompares
  BY DEF Init, GuardCompares, NoLastUp, NoContainers
<1> QED
  BY <1>1, <1>2, <1>3, InitType DEF IInv

(* The order of releases, as the arithmetic of the numbers that name them *)
LEMMA CoresAreNumbers ==
    ASSUME TypeOK
    PROVE  /\ db \in Nat /\ pinned.cms \in Nat \ {0}
           /\ running.cms \in Nat /\ lastUp.images.cms \in Nat
<1>1. Cores \subseteq Nat \ {0}
  BY DeployAssumption
<1>2. db \in Cores \cup {0} /\ pinned \in Images /\ running \in Containers /\ lastUp \in LastUp
  BY DEF TypeOK
<1>3. pinned.cms \in Cores /\ running.cms \in Cores \cup {0}
  BY <1>2 DEF Images, Containers
<1>4. lastUp.images.cms \in Cores \cup {0}
  BY <1>2 DEF LastUp, Containers
<1>5. Cores \cup {0} \subseteq Nat
  BY <1>1
<1>6. db \in Nat /\ running.cms \in Nat /\ lastUp.images.cms \in Nat
  BY <1>2, <1>3, <1>4, <1>5, Zenon
<1>7. pinned.cms \in Nat \ {0}
  BY <1>1, <1>3, Zenon
<1> QED
  BY <1>6, <1>7, Zenon

(* Commands keep to their shape, and what was recorded is what runs *)
LEMMA ShapeStep == IInv /\ [Next]_vars => CommandShape' /\ RecordedIsDeployed'
<1> SUFFICES ASSUME IInv, [Next]_vars PROVE CommandShape' /\ RecordedIsDeployed'
  OBVIOUS
<1> USE DEF IInv, CommandShape, RecordedIsDeployed, Starting, Started, cliVars
<1>1. CASE Repin \/ Down
  BY <1>1 DEF Repin, Down
<1>2. CASE Install \/ \E allowed \in BOOLEAN : Up(allowed)
  BY <1>2 DEF Install, Up
<1>3. CASE Guard
  BY <1>3 DEF Guard
<1>4. CASE CmsInit \/ CmsUp \/ EnsureToken
  BY <1>4 DEF CmsInit, CmsUp, EnsureToken
<1>5. CASE RefreshIndex \/ RecordUp
  BY <1>5 DEF RefreshIndex, RecordUp
<1>6. CASE DoctorOk \/ DoctorFails
  BY <1>6 DEF DoctorOk, DoctorFails, TypeOK, LastUp
<1>7. CASE Abort
  <2>1. pc \in {"init", "containers"} \/ running' = running
    BY <1>7 DEF Abort, CutRefresh
  <2>2. pc' = "idle" /\ lastUp' = lastUp /\ unrecorded' = unrecorded
    BY <1>7 DEF Abort
  <2> QED
    BY <2>1, <2>2
<1>8. CASE UNCHANGED vars
  BY <1>8 DEF vars
<1> QED
  BY <1>1, <1>2, <1>3, <1>4, <1>5, <1>6, <1>7, <1>8 DEF Next, Progress

(* The database is no newer than what the next guard compares with *)
LEMMA CompareStep == IInv /\ [Next]_vars => GuardCompares'
<1> SUFFICES ASSUME IInv, [Next]_vars, excuse' = {}
             PROVE  /\ ~unrecorded' => db' <= lastUp'.images.cms
                    /\ unrecorded' => db' <= pinned'.cms /\ lastUp'.images.cms <= pinned'.cms
  BY DEF GuardCompares
<1>t. TypeOK /\ CommandShape /\ RecordedIsDeployed /\ GuardCompares
  BY DEF IInv
<1>n. /\ db \in Nat /\ pinned.cms \in Nat \ {0}
      /\ running.cms \in Nat /\ lastUp.images.cms \in Nat
  BY <1>t, CoresAreNumbers
<1>0. excuse = {}
  <2> USE DEF cliVars
  <2>1. excuse \subseteq excuse'
    BY DEF Next, Progress, Repin, Down, Install, Up, Guard, CmsInit, CmsUp, EnsureToken,
           RefreshIndex, RecordUp, DoctorOk, DoctorFails, Abort, vars
  <2> QED
    BY <2>1
<1>c. /\ ~unrecorded => db <= lastUp.images.cms
      /\ unrecorded => db <= pinned.cms /\ lastUp.images.cms <= pinned.cms
  BY <1>0, <1>t DEF GuardCompares
<1> USE DEF cliVars
<1>1. CASE Repin
  BY <1>1, <1>c, <1>0 DEF Repin
<1>2. CASE Down
  BY <1>2, <1>c DEF Down
<1>3. CASE Install
  <2>1. lastUp = NoLastUp
    BY <1>3 DEF Install
  <2>2. lastUp.images.cms = 0
    BY <2>1 DEF NoLastUp, NoContainers
  <2> QED
    BY <1>3, <1>c, <1>n, <2>2 DEF Install
<1>4. ASSUME NEW allowed \in BOOLEAN, Up(allowed)
      PROVE  /\ ~unrecorded' => db' <= lastUp'.images.cms
             /\ unrecorded' => db' <= pinned'.cms /\ lastUp'.images.cms <= pinned'.cms
  BY <1>4, <1>c DEF Up
<1>5. CASE Guard
  <2>1. UNCHANGED <<pinned, db, lastUp>> /\ loaded = lastUp
    BY <1>5, <1>t DEF Guard, CommandShape, Starting
  <2>2. CASE Refused
    BY <1>5, <1>c, <2>1, <2>2 DEF Guard
  <2>3. CASE ~Refused
    <3>1. Unguarded = {}
      BY <1>5, <2>3 DEF Guard
    <3>2. ~allow /\ {loaded.images.cms, pinned.cms} \cap Unreadable = {}
      BY <3>1 DEF Unguarded
    <3>3. loaded = NoLastUp \/ ~(pinned.cms < loaded.images.cms)
      BY <2>3, <3>2 DEF Refused, IsDowngrade
    <3>4. lastUp.images.cms <= pinned.cms
      <4>1. CASE loaded = NoLastUp
        BY <1>n, <2>1, <4>1 DEF NoLastUp, NoContainers
      <4>2. CASE ~(pinned.cms < loaded.images.cms)
        BY <1>n, <2>1, <4>2
      <4> QED
        BY <3>3, <4>1, <4>2
    <3>5. unrecorded'
      BY <1>5, <2>3 DEF Guard
    <3> QED
      BY <1>c, <1>n, <2>1, <3>4, <3>5
  <2> QED
    BY <2>2, <2>3
<1>6. CASE CmsInit
  <2>1. unrecorded
    BY <1>6, <1>t DEF CmsInit, CommandShape, Starting
  <2> QED
    BY <1>6, <1>c, <1>n, <2>1 DEF CmsInit, Migrated
<1>7. CASE CmsUp \/ EnsureToken \/ RefreshIndex
  BY <1>7, <1>c DEF CmsUp, EnsureToken, RefreshIndex
<1>8. CASE RecordUp
  <2>1. unrecorded /\ running = pinned
    BY <1>8, <1>t DEF RecordUp, CommandShape, Starting, Started
  <2>2. lastUp'.images = running /\ ~unrecorded' /\ db' = db
    BY <1>8 DEF RecordUp
  <2> QED
    BY <1>c, <2>1, <2>2
<1>9. CASE DoctorOk \/ DoctorFails
  <2>1. lastUp'.images = lastUp.images
    BY <1>9, <1>t DEF DoctorOk, DoctorFails, TypeOK, LastUp
  <2> QED
    BY <1>9, <1>c, <2>1 DEF DoctorOk, DoctorFails
<1>10. CASE Abort
  <2>1. UNCHANGED <<pinned, lastUp, unrecorded>>
    BY <1>10 DEF Abort
  <2>2. db' = db \/ (pc = "init" /\ db' = Migrated)
    BY <1>10 DEF Abort, CutInit, CutRefresh
  <2>3. pc = "init" => unrecorded
    BY <1>t DEF CommandShape, Starting
  <2> QED
    BY <1>c, <1>n, <2>1, <2>2, <2>3 DEF Migrated
<1>11. CASE UNCHANGED vars
  BY <1>11, <1>c DEF vars
<1> QED
  BY <1>1, <1>2, <1>3, <1>4, <1>5, <1>6, <1>7, <1>8, <1>9, <1>10, <1>11 DEF Next, Progress

(* The induction over every action of Next *)
THEOREM Inductive == Spec => []IInv
<1>1. IInv /\ [Next]_vars => IInv'
  BY NextType, ShapeStep, CompareStep DEF IInv
<1> QED
  BY <1>1, InitInv, PTL DEF Spec

(* While every failed start is retried with its images, `install` is left   *)
(* to the first start, tags are versions and --allow-downgrade is not used, *)
(* no core ever starts on the database of a newer one.                      *)
THEOREM GuardSound == Spec => []GuardHolds
<1>1. IInv => GuardHolds
  <2> SUFFICES ASSUME IInv, pc \in Started, excuse = {} PROVE running.cms >= db
    BY DEF GuardHolds
  <2>1. /\ db \in Nat /\ running.cms \in Nat /\ running = pinned
        /\ ~unrecorded => db <= lastUp.images.cms
        /\ unrecorded => db <= pinned.cms
    BY CoresAreNumbers DEF IInv, CommandShape, GuardCompares
  <2>2. ~unrecorded /\ running # NoContainers => lastUp.images = running
    BY DEF IInv, RecordedIsDeployed
  <2>3. running # NoContainers
    BY <2>1, CoresAreNumbers DEF IInv, NoContainers
  <2> QED
    BY <2>1, <2>2, <2>3
<1> QED
  BY <1>1, Inductive, PTL

(* Whenever no start is waiting to be recorded, last_up names the images of *)
(* the containers, so the next guard and the next index refresh compare     *)
(* with what is deployed.                                                   *)
THEOREM RecordSound == Spec => []RecordedIsDeployed
<1>1. IInv => RecordedIsDeployed
  BY DEF IInv
<1> QED
  BY <1>1, Inductive, PTL
-----------------------------------------------------------------------------
Whole(images) == index = BuiltBy(images)

(* What a start has to go by when it decides about the index.  As long as   *)
(* every failed start was retried with its images, the index is what the    *)
(* recorded images built, or what the first start, not recorded yet, made;  *)
(* only a start with other images than the recorded ones is free to leave   *)
(* something else behind, and that one rebuilds.                             *)
IndexInv ==
    /\ pc \in {"containers", "token", "index"} => index # NoIndex
    /\ pc \in {"record", "doctor", "done"} =>
           (running.cms \in Deciding \/ "repinned" \notin excuse => Whole(running))
    /\ "repinned" \notin excuse =>
           /\ lastUp = NoLastUp => index = NoIndex \/ (unrecorded /\ Whole(pinned))
           /\ lastUp # NoLastUp /\ (unrecorded => pinned = lastUp.images)
                => Whole(lastUp.images)

(* A start that comes to the refresh with the recorded images, or is the    *)
(* first, finds the index it needs and leaves it alone                      *)
LEMMA RefreshDecides ==
    ASSUME IInv, IndexInv, pc = "index"
    PROVE  /\ Rebuilds \/ "repinned" \in excuse \/ Whole(running)
           /\ running.cms \in Deciding => Rebuilds \/ Whole(running)
           /\ Rebuilds /\ "repinned" \notin excuse =>
                lastUp # NoLastUp /\ unrecorded /\ pinned # lastUp.images
<1>1. loaded = lastUp /\ running = pinned /\ unrecorded
  BY DEF IInv, CommandShape, Starting, Started
<1>2. running.cms \in Deciding => Rebuilds \/ Whole(running)
  BY DEF Rebuilds, Whole
<1>3. CASE "repinned" \notin excuse /\ (lastUp = NoLastUp \/ pinned = lastUp.images)
  <2>1. Whole(running)
    BY <1>1, <1>3 DEF IndexInv, Whole
  <2> QED
    BY <1>1, <1>2, <1>3, <2>1 DEF Rebuilds, ImagesMoved, Whole
<1>4. CASE "repinned" \notin excuse /\ lastUp # NoLastUp /\ pinned # lastUp.images
  BY <1>1, <1>2, <1>4 DEF Rebuilds, ImagesMoved
<1> QED
  BY <1>2, <1>3, <1>4

(* What the index was built by is known as far as the next start depends on it *)
LEMMA IndexStep == IInv /\ IndexInv /\ [Next]_vars => IndexInv'
<1> SUFFICES ASSUME IInv, IndexInv, [Next]_vars PROVE IndexInv'
  OBVIOUS
<1>t. TypeOK /\ CommandShape
  BY DEF IInv
<1> USE DEF IndexInv, Whole, cliVars
<1>1. CASE Repin
  BY <1>1 DEF Repin
<1>2. CASE Down
  BY <1>2 DEF Down
<1>3. CASE Install
  BY <1>3 DEF Install
<1>4. ASSUME NEW allowed \in BOOLEAN, Up(allowed) PROVE IndexInv'
  BY <1>4 DEF Up
<1>5. CASE Guard
  BY <1>5 DEF Guard, Unguarded
<1>6. CASE CmsInit
  BY <1>6, <1>t DEF CmsInit, Created, BuiltBy, NoIndex, CommandShape, Starting
<1>7. CASE CmsUp \/ EnsureToken
  BY <1>7 DEF CmsUp, EnsureToken
<1>8. CASE RefreshIndex
  BY <1>8, RefreshDecides DEF RefreshIndex
<1>9. CASE RecordUp
  <2>1. running = pinned /\ pinned \in Images
    BY <1>9, <1>t DEF RecordUp, CommandShape, Started, TypeOK
  <2>2. lastUp' = [images |-> running, doctor_ok |-> FALSE]
    BY <1>9 DEF RecordUp
  <2>3. lastUp' # NoLastUp
    BY <2>1, <2>2, DeployAssumption DEF NoLastUp, NoContainers, Images
  <2>4. UNCHANGED <<running, index, excuse>> /\ pc = "record" /\ pc' = "doctor"
    BY <1>9 DEF RecordUp
  <2>5. lastUp'.images = running
    BY <2>2
  <2>6. "repinned" \notin excuse => index' = BuiltBy(lastUp'.images)
    BY <2>4, <2>5
  <2>7. running.cms \in Deciding => index' = BuiltBy(running')
    BY <2>4
  <2> QED
    BY <2>3, <2>4, <2>5, <2>6, <2>7
<1>10. CASE DoctorOk \/ DoctorFails
  <2>1. running = pinned /\ ~unrecorded /\ pinned \in Images
    BY <1>10, <1>t DEF DoctorOk, DoctorFails, CommandShape, Started, TypeOK
  <2>2. lastUp.images = running /\ running.cms # 0
    BY <2>1, DeployAssumption DEF IInv, RecordedIsDeployed, NoContainers, Images
  <2>3. lastUp'.images = lastUp.images
    BY <1>10, <1>t DEF DoctorOk, DoctorFails, TypeOK, LastUp
  <2>4. lastUp # NoLastUp /\ lastUp' # NoLastUp
    BY <2>2, <2>3 DEF NoLastUp, NoContainers
  <2>5. UNCHANGED <<running, index, excuse>> /\ pc = "doctor" /\ pc' \in {"idle", "done"}
    BY <1>10 DEF DoctorOk, DoctorFails
  <2>6. "repinned" \notin excuse => index' = BuiltBy(lastUp'.images)
    BY <2>2, <2>3, <2>5
  <2>7. running.cms \in Deciding => index' = BuiltBy(running')
    BY <2>5
  <2> QED
    BY <2>2, <2>3, <2>4, <2>5, <2>6, <2>7
<1>11. CASE Abort
  <2>1. UNCHANGED <<pinned, lastUp, unrecorded, excuse>> /\ pc' = "idle"
    BY <1>11 DEF Abort
  <2>2. CASE pc = "index"
    BY <1>11, <2>1, <2>2, RefreshDecides DEF Abort, CutRefresh
  <2>3. CASE pc = "init"
    <3>1. index' \in {index, Created} /\ unrecorded
      BY <1>11, <1>t, <2>3 DEF Abort, CutInit, CommandShape, Starting
    <3> QED
      BY <2>1, <3>1 DEF Created
  <2>4. CASE pc \notin {"init", "index"}
    BY <1>11, <2>1, <2>4 DEF Abort
  <2> QED
    BY <2>2, <2>3, <2>4
<1>12. CASE UNCHANGED vars
  BY <1>12 DEF vars
<1> QED
  BY <1>1, <1>2, <1>3, <1>4, <1>5, <1>6, <1>7, <1>8, <1>9, <1>10, <1>11, <1>12 DEF Next, Progress

(* For any releases and any interleaving of failed starts, an index that    *)
(* does not match the running core and Elasticsearch is never what a start  *)
(* without an error leaves, if the core decides itself or every failed      *)
(* start was retried with the images it failed on.                          *)
THEOREM IndexSound == Spec => []IndexMatchesAfterRetry
<1>1. Init => IndexInv
  BY DEF Init, IndexInv, NoIndex, NoLastUp
<1>2. IInv /\ IndexInv => IndexMatchesAfterRetry
  BY DEF IndexInv, Whole, IndexMatchesAfterRetry, IndexMatches
<1> QED
  BY <1>1, <1>2, IndexStep, Inductive, PTL DEF Spec
=============================================================================
