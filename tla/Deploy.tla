-------------------------------- MODULE Deploy --------------------------------
(***************************************************************************)
(* `./neops install` and `./neops up` (neops_compose/workflow.py) as far as *)
(* they decide which neops-core runs on which database and search index:    *)
(* the downgrade guard, the start of the stack, the index refresh of        *)
(* search_index.py and the record of a start in state.json (last_up).       *)
(*                                                                         *)
(* One CLI at a time.  Any step may be cut off (docker compose fails, the   *)
(* CLI is killed), and what docker was asked for may or may not have        *)
(* happened by then.  Between two commands the operator may pin other       *)
(* images (git pull, git checkout, an edit of .env).                        *)
(*                                                                         *)
(* Keys, secrets, rendering and deployment migrations change nothing        *)
(* modelled here; ensure_engine_token is one step that can be cut off       *)
(* (module EngineToken has its steps).                                      *)
(***************************************************************************)
EXTENDS Naturals

CONSTANTS
    Cores,          \* releases of neops-core, numbered in their order
    Elastics,       \* releases of Elasticsearch
    Unreadable,     \* the cores pinned by a tag that is no version number
    Deciding,       \* the cores with `elastic_index --rebuild-if-stale`
    MaxRepins,      \* bound: how often other images are pinned
    MaxFaults       \* bound: steps cut off

ASSUME DeployAssumption ==
    /\ Cores \subseteq Nat \ {0}
    /\ Elastics \subseteq Nat \ {0}
    /\ Unreadable \subseteq Cores
    /\ Deciding \subseteq Cores
    /\ MaxRepins \in Nat
    /\ MaxFaults \in Nat

VARIABLES
    pinned,         \* the images the compose files and .env name
    running,        \* the images of the containers, 0 while there is none
    db,             \* the newest core whose Django migrations the database has
    index,          \* the images that built the search index, and whether it is whole
    lastUp,         \* state.last_up
    pc, allow,      \* the CLI: next step, --allow-downgrade
    loaded,         \* the CLI: last_up as State.load read it
    unrecorded,     \* history: a start began and has not been recorded
    excuse,         \* history: what the operator did that voids a guarantee
    repins, faults

vars == <<pinned, running, db, index, lastUp, pc, allow, loaded,
          unrecorded, excuse, repins, faults>>

Images == [cms : Cores, es : Elastics]
Containers == [cms : Cores \cup {0}, es : Elastics \cup {0}]
NoContainers == [cms |-> 0, es |-> 0]

Index == [cms : Cores \cup {0}, es : Elastics \cup {0}, whole : BOOLEAN]
NoIndex == [cms |-> 0, es |-> 0, whole |-> FALSE]

LastUp == [images : Containers, doctor_ok : BOOLEAN]
NoLastUp == [images |-> NoContainers, doctor_ok |-> FALSE]

Excuses == {"allowed", "reinstalled", "repinned", "unreadable"}
Started == {"token", "index", "record", "doctor", "done"}

TypeOK ==
    /\ pinned \in Images
    /\ running \in Containers
    /\ db \in Cores \cup {0}
    /\ index \in Index
    /\ lastUp \in LastUp
    /\ pc \in Started \cup {"idle", "guard", "init", "containers"}
    /\ allow \in BOOLEAN
    /\ loaded \in LastUp
    /\ unrecorded \in BOOLEAN
    /\ excuse \subseteq Excuses
    /\ repins \in 0..MaxRepins
    /\ faults \in 0..MaxFaults

Init ==
    /\ pinned \in Images
    /\ running = NoContainers
    /\ db = 0
    /\ index = NoIndex
    /\ lastUp = NoLastUp
    /\ pc = "idle"
    /\ allow = FALSE
    /\ loaded = NoLastUp
    /\ unrecorded = FALSE
    /\ excuse = {}
    /\ repins = 0
    /\ faults = 0

cliVars == <<allow, loaded>>
-----------------------------------------------------------------------------
(* The operator pins other images; `repinned` when the last start failed *)
Repin ==
    /\ pc \in {"idle", "done"}
    /\ repins < MaxRepins
    /\ repins' = repins + 1
    /\ \E images \in Images \ {pinned} : pinned' = images
    /\ pc' = "idle"
    /\ excuse' = IF unrecorded THEN excuse \cup {"repinned"} ELSE excuse
    /\ UNCHANGED <<running, db, index, lastUp, cliVars, unrecorded, faults>>

(* ./neops down *)
Down ==
    /\ pc \in {"idle", "done"}
    /\ running # NoContainers
    /\ running' = NoContainers
    /\ pc' = "idle"
    /\ UNCHANGED <<pinned, db, index, lastUp, cliVars, unrecorded, excuse, repins, faults>>

(* install(): everything up() does but the guard *)
Install ==
    /\ pc \in {"idle", "done"}
    /\ allow' = FALSE
    /\ loaded' = lastUp
    /\ excuse' = IF lastUp # NoLastUp THEN excuse \cup {"reinstalled"} ELSE excuse
    /\ unrecorded' = TRUE
    /\ pc' = "init"
    /\ UNCHANGED <<pinned, running, db, index, lastUp, repins, faults>>

Up(allowed) ==
    /\ pc \in {"idle", "done"}
    /\ allow' = allowed
    /\ loaded' = lastUp
    /\ pc' = "guard"
    /\ UNCHANGED <<pinned, running, db, index, lastUp, unrecorded, excuse, repins, faults>>

(* mutant: the tags are compared the other way round *)
IsUpgrade(previous, current) ==
    /\ {previous, current} \cap Unreadable = {}
    /\ current > previous

(* is_downgrade(): a tag that is no version number is never one *)
IsDowngrade(previous, current) ==
    /\ {previous, current} \cap Unreadable = {}
    /\ current < previous

(* mutant: --allow-downgrade is not looked at *)
RefusedAlways == loaded # NoLastUp /\ IsDowngrade(loaded.images.cms, pinned.cms)

(* guard_downgrade(): nothing to compare before the first recorded start *)
Refused ==
    /\ loaded # NoLastUp
    /\ ~allow
    /\ IsDowngrade(loaded.images.cms, pinned.cms)

(* history only: why this start has no guard *)
Unguarded ==
    (IF allow THEN {"allowed"} ELSE {}) \cup
    (IF {loaded.images.cms, pinned.cms} \cap Unreadable # {} THEN {"unreadable"} ELSE {})

(* _guard_downgrade() raises Downgrade, or up() goes on to start the stack *)
Guard ==
    /\ pc = "guard"
    /\ IF Refused
         THEN pc' = "idle" /\ UNCHANGED <<unrecorded, excuse>>
         ELSE /\ pc' = "init"
              /\ unrecorded' = TRUE
              /\ excuse' = excuse \cup Unguarded
    /\ UNCHANGED <<pinned, running, db, index, lastUp, cliVars, repins, faults>>
-----------------------------------------------------------------------------
(* docker compose up, in the order of depends_on: Elasticsearch, cms-init,  *)
(* cms.  Django does not undo what a newer core migrated, and               *)
(* `elastic_index --create` leaves an index that exists as it is.           *)
Migrated == IF db < pinned.cms THEN pinned.cms ELSE db

BuiltBy(images) == [cms |-> images.cms, es |-> images.es, whole |-> TRUE]

Created == IF index = NoIndex THEN BuiltBy(pinned) ELSE index

CmsInit ==
    /\ pc = "init"
    /\ running' = [running EXCEPT !.es = pinned.es]
    /\ db' = Migrated
    /\ index' = Created
    /\ pc' = "containers"
    /\ UNCHANGED <<pinned, lastUp, cliVars, unrecorded, excuse, repins, faults>>

CmsUp ==
    /\ pc = "containers"
    /\ running' = pinned
    /\ pc' = "token"
    /\ UNCHANGED <<pinned, db, index, lastUp, cliVars, unrecorded, excuse, repins, faults>>

(* ensure_engine_token and the second compose.up() *)
EnsureToken ==
    /\ pc = "token"
    /\ pc' = "index"
    /\ UNCHANGED <<pinned, running, db, index, lastUp, cliVars, unrecorded, excuse, repins, faults>>

(* mutant: only the core is compared *)
CoreMoved == loaded # NoLastUp /\ loaded.images.cms # running.cms

(* images_moved() *)
ImagesMoved == loaded # NoLastUp /\ loaded.images # running

(* What refresh() runs: a core that decides itself rebuilds what carries no *)
(* stamp of its own, an older one is told to rebuild when the images moved  *)
Rebuilds ==
    IF running.cms \in Deciding THEN index # BuiltBy(running) ELSE ImagesMoved

RefreshIndex ==
    /\ pc = "index"
    /\ index' = IF Rebuilds THEN BuiltBy(running) ELSE index
    /\ pc' = "record"
    /\ UNCHANGED <<pinned, running, db, lastUp, cliVars, unrecorded, excuse, repins, faults>>

(* mutant: the start is recorded once doctor is content *)
RecordNothing ==
    /\ pc = "record"
    /\ pc' = "doctor"
    /\ unrecorded' = FALSE
    /\ UNCHANGED <<pinned, running, db, index, lastUp, cliVars, excuse, repins, faults>>

(* mutant: record_up() leaves the result of doctor out *)
RecordNoVerdict ==
    /\ pc = "record"
    /\ lastUp' = [images |-> running]
    /\ unrecorded' = FALSE
    /\ pc' = "doctor"
    /\ UNCHANGED <<pinned, running, db, index, cliVars, excuse, repins, faults>>

(* _finish(): record_up(images, doctor_ok=False), saved before doctor runs *)
RecordUp ==
    /\ pc = "record"
    /\ lastUp' = [images |-> running, doctor_ok |-> FALSE]
    /\ unrecorded' = FALSE
    /\ pc' = "doctor"
    /\ UNCHANGED <<pinned, running, db, index, cliVars, excuse, repins, faults>>

(* doctor finds no failure: record_doctor(True), saved *)
DoctorOk ==
    /\ pc = "doctor"
    /\ lastUp' = [lastUp EXCEPT !.doctor_ok = TRUE]
    /\ pc' = "done"
    /\ UNCHANGED <<pinned, running, db, index, cliVars, unrecorded, excuse, repins, faults>>

DoctorFails ==
    /\ pc = "doctor"
    /\ pc' = "idle"
    /\ UNCHANGED <<pinned, running, db, index, lastUp, cliVars, unrecorded, excuse, repins, faults>>
-----------------------------------------------------------------------------
(* A step is cut off.  compose up gets as far as some prefix of its order;  *)
(* a rebuild is broken off in the middle, or goes on inside the container.  *)
CutInit ==
    \/ UNCHANGED <<running, db, index>>
    \/ running' = [running EXCEPT !.es = pinned.es] /\ UNCHANGED <<db, index>>
    \/ running' = [running EXCEPT !.es = pinned.es] /\ db' = Migrated /\ UNCHANGED index
    \/ running' = [running EXCEPT !.es = pinned.es] /\ db' = Migrated /\ index' = Created

CutRefresh ==
    /\ UNCHANGED <<running, db>>
    /\ \/ UNCHANGED index
       \/ Rebuilds /\ index' = [BuiltBy(running) EXCEPT !.whole = FALSE]
       \/ Rebuilds /\ index' = BuiltBy(running)

Abort ==
    /\ pc \notin {"idle", "done"}
    /\ faults < MaxFaults
    /\ faults' = faults + 1
    /\ pc' = "idle"
    /\ CASE pc = "init" -> CutInit
         [] pc = "containers" -> running' \in {running, pinned} /\ UNCHANGED <<db, index>>
         [] pc = "index" -> CutRefresh
         [] OTHER -> UNCHANGED <<running, db, index>>
    /\ UNCHANGED <<pinned, lastUp, cliVars, unrecorded, excuse, repins>>

Progress ==
    \/ Guard \/ CmsInit \/ CmsUp \/ EnsureToken \/ RefreshIndex \/ RecordUp
    \/ DoctorOk \/ DoctorFails

Next ==
    \/ Repin \/ Down \/ Install
    \/ \E allowed \in BOOLEAN : Up(allowed)
    \/ Progress \/ Abort

Spec == Init /\ [][Next]_vars

(* A command that was started goes on; the operator keeps running `up`, in  *)
(* the end with --allow-downgrade.                                          *)
FairSpec == Spec /\ WF_vars(Progress) /\ SF_vars(Up(TRUE))
-----------------------------------------------------------------------------
(* "Downgrading the CMS is refused" (README.md): no start puts a core on a  *)
(* database that a newer core has migrated, over any sequence of starts,    *)
(* failed starts, retries and pins, as long as a failed start is retried    *)
(* with the images it failed on, `install` is left to the first start, and  *)
(* every tag is a version number.                                           *)
GuardHolds == pc \in Started /\ excuse = {} => running.cms >= db

(* images_moved() (search_index.py): a start that ends without an error     *)
(* leaves an index built by the core and the Elasticsearch that run.        *)
IndexMatches == pc = "done" => index = BuiltBy(running)

(* The index of a core that decides itself always matches after a start     *)
(* without an error, whatever was cut off before; that of an older core     *)
(* does if every failed start was retried with the images it failed on.     *)
IndexMatchesAfterRetry ==
    running.cms \in Deciding \/ "repinned" \notin excuse => IndexMatches

(* "the next up must compare against what is deployed now" (_finish): once  *)
(* a start is recorded, and whatever doctor or a kill does afterwards,      *)
(* last_up names the images of the containers.                              *)
RecordedIsDeployed ==
    ~unrecorded /\ running # NoContainers => lastUp.images = running

(* Once the faults and the repins stop, repeated starts end with one that   *)
(* state.json records, also when doctor fails every time.                   *)
EventuallyRecorded == <>[](lastUp # NoLastUp /\ lastUp.images = pinned)
=============================================================================
