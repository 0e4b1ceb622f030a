----------------------------- MODULE EngineToken -----------------------------
(***************************************************************************)
(* The engine's CMS API key, neops_compose/token.py, with the callers that  *)
(* move it: `./neops token`, `rotate token`, `rotate secret-key`            *)
(* (rotate.py) and the start of the stack (workflow._start).                *)
(*                                                                         *)
(* A token is a StaticAPIKey row of the CMS database, named by its id and   *)
(* signed with the DJANGO_SECRET_KEY of the CMS that minted it.  The CMS    *)
(* accepts it while the row exists and the CMS still runs with that secret  *)
(* key.  It lives in data/secrets/engine.env, and the engine container      *)
(* carries the copy it was created with.                                    *)
(*                                                                         *)
(* Every step may be cut off: docker compose exits with an error, or the    *)
(* CLI is killed while what it asked docker for goes on.  CLIs do not       *)
(* exclude each other.  state.json's list of issued keys is written and     *)
(* read by nothing here, so it is left out.                                 *)
(***************************************************************************)
EXTENDS Naturals, FiniteSets

CONSTANTS
    Procs,          \* concurrent CLI processes
    Commands,       \* the commands the operator uses
    MaxRotations,   \* bound: `rotate token` and `rotate secret-key` commands
    MaxMints,       \* bound: no command is started once this many rows were created
    MaxFaults,      \* bound: steps cut off, by an error or a kill
    CanGlitch       \* TRUE: the check script may fail inside a CMS that answers

ASSUME TokenAssumption ==
    /\ Commands \subseteq {"token", "rotate", "secret", "up", "down"}
    /\ MaxRotations \in Nat
    /\ MaxMints \in Nat
    /\ MaxFaults \in Nat
    /\ CanGlitch \in BOOLEAN

VARIABLES
    envKey,         \* DJANGO_SECRET_KEY in .env, numbered from 1
    cmsKey,         \* the key the running CMS uses, 0 while it is down
    rows,           \* ids of the StaticAPIKey rows in the CMS database
    minted,         \* rows ever created; ids are never reused
    engineEnv,      \* the token in engine.env
    engine,         \* the token of the running engine container
    pc, cmd,        \* per process: next step, command
    old, new,       \* per process: the token it found in engine.env, the token to install
    rotations, faults

vars == <<envKey, cmsKey, rows, minted, engineEnv, engine, pc, cmd, old, new,
          rotations, faults>>

(* engine.env missing or empty; an engine that does not run *)
NoToken == [id |-> 0, key |-> 0]

(* The places where one `docker compose` command is under way *)
ComposeSteps == {"recreateCore", "start", "check", "mint", "engine", "upAgain", "revoke"}
Places == ComposeSteps \cup {"idle", "done", "setKey", "readOld", "truncate", "write"}

Token == [id : Nat, key : Nat]

TypeOK ==
    /\ envKey \in Nat \ {0}
    /\ cmsKey \in 0..envKey
    /\ minted \in Nat
    /\ rows \subseteq 1..minted
    /\ engineEnv \in Token
    /\ engine \in Token
    /\ pc \in [Procs -> Places]
    /\ cmd \in [Procs -> Commands \cup {"none"}]
    /\ old \in [Procs -> Token]
    /\ new \in [Procs -> Token]
    /\ rotations \in 0..MaxRotations
    /\ faults \in 0..MaxFaults

Init ==
    /\ envKey = 1
    /\ cmsKey = 0
    /\ rows = {}
    /\ minted = 0
    /\ engineEnv = NoToken
    /\ engine = NoToken
    /\ pc = [p \in Procs |-> "idle"]
    /\ cmd = [p \in Procs |-> "none"]
    /\ old = [p \in Procs |-> NoToken]
    /\ new = [p \in Procs |-> NoToken]
    /\ rotations = 0
    /\ faults = 0

Goto(p, place) == pc' = [pc EXCEPT ![p] = place]

(* What get_api_key_entry() accepts *)
Valid(t) == t.id \in rows /\ t.key = cmsKey

-----------------------------------------------------------------------------
(* mutant: the core image makes up a key of its own at every start *)
UpCmsOwnKey ==
    /\ cmsKey' = envKey + 1
    /\ UNCHANGED engine

(* docker compose up.  A CMS whose environment changed is recreated, as a   *)
(* service asked for or as a dependency of one; so is an engine whose       *)
(* engine.env changed.  The engine does not become healthy without a token. *)
UpCms ==
    /\ cmsKey' = envKey
    /\ UNCHANGED engine

UpAll ==
    /\ engineEnv # NoToken
    /\ cmsKey' = envKey
    /\ engine' = engineEnv

(* What an `up` that fails or is cut off may have done so far *)
UpPartly ==
    /\ cmsKey' \in {cmsKey, envKey, 0}
    /\ engine' \in {engine, engineEnv, NoToken}

-----------------------------------------------------------------------------
FirstStep(c) ==
    CASE c \in {"token", "rotate"} -> "readOld"
      [] c = "secret" -> "setKey"
      [] c = "up" -> "start"

Rotates(c) == c \in {"rotate", "secret"}

Run(p, c) ==
    /\ pc[p] \in {"idle", "done"}
    /\ c # "down"
    /\ minted < MaxMints
    /\ Rotates(c) => rotations < MaxRotations
    /\ rotations' = IF Rotates(c) THEN rotations + 1 ELSE rotations
    /\ cmd' = [cmd EXCEPT ![p] = c]
    /\ old' = [old EXCEPT ![p] = NoToken]
    /\ new' = [new EXCEPT ![p] = NoToken]
    /\ Goto(p, FirstStep(c))
    /\ UNCHANGED <<envKey, cmsKey, rows, minted, engineEnv, engine, faults>>

(* ./neops down *)
Down(p) ==
    /\ "down" \in Commands
    /\ pc[p] \in {"idle", "done"}
    /\ cmsKey' = 0
    /\ engine' = NoToken
    /\ Goto(p, "idle")
    /\ UNCHANGED <<envKey, rows, minted, engineEnv, cmd, old, new, rotations, faults>>

(* rotate.secret_key: .env first, then the containers of the core *)
SetKey(p) ==
    /\ pc[p] = "setKey"
    /\ envKey' = envKey + 1
    /\ Goto(p, "recreateCore")
    /\ UNCHANGED <<cmsKey, rows, minted, engineEnv, engine, cmd, old, new, rotations, faults>>

RecreateCore(p) ==
    /\ pc[p] = "recreateCore"
    /\ UpCms
    /\ Goto(p, "readOld")
    /\ UNCHANGED <<envKey, rows, minted, engineEnv, cmd, old, new, rotations, faults>>

(* rotate_engine_token mints at once, ensure_engine_token checks first *)
AfterRead(p) == IF Rotates(cmd[p]) THEN "mint" ELSE "check"

(* mutant: the token that was found is not remembered *)
ReadOldNothing(p) ==
    /\ pc[p] = "readOld"
    /\ Goto(p, AfterRead(p))
    /\ UNCHANGED <<envKey, cmsKey, rows, minted, engineEnv, engine, cmd, old, new, rotations, faults>>

(* rotate_engine_token: old = read_engine_token(), and ensure_engine_token: *)
(* existing = read_engine_token(); engine.env may change before it is used   *)
ReadOld(p) ==
    /\ pc[p] = "readOld"
    /\ old' = [old EXCEPT ![p] = engineEnv]
    /\ Goto(p, AfterRead(p))
    /\ UNCHANGED <<envKey, cmsKey, rows, minted, engineEnv, engine, cmd, new, rotations, faults>>

(* mutant: everything is started whether or not there is a token to check *)
StartWithoutCmsFirst(p) ==
    /\ pc[p] = "start"
    /\ UpAll
    /\ Goto(p, "readOld")
    /\ UNCHANGED <<envKey, rows, minted, engineEnv, cmd, old, new, rotations, faults>>

(* workflow._start: the CMS alone while there is no token, else everything *)
Start(p) ==
    /\ pc[p] = "start"
    /\ IF engineEnv = NoToken THEN UpCms ELSE UpAll
    /\ Goto(p, "readOld")
    /\ UNCHANGED <<envKey, rows, minted, engineEnv, cmd, old, new, rotations, faults>>

(* mutant: a token the CMS refuses is kept *)
CheckPresenceOnly(p) ==
    /\ pc[p] = "check"
    /\ Goto(p, IF old[p] = NoToken THEN "mint" ELSE "done")
    /\ UNCHANGED <<envKey, cmsKey, rows, minted, engineEnv, engine, cmd, old, new, rotations, faults>>

(* ensure_engine_token: a token that is there and VALID ends it *)
Check(p) ==
    /\ pc[p] = "check"
    /\ old[p] = NoToken \/ cmsKey # 0
    /\ Goto(p, IF old[p] # NoToken /\ Valid(old[p]) THEN "done" ELSE "mint")
    /\ UNCHANGED <<envKey, cmsKey, rows, minted, engineEnv, engine, cmd, old, new, rotations, faults>>

(* _CHECK_SCRIPT prints INVALID for every exception, a lost database        *)
(* connection included                                                      *)
CheckGlitch(p) ==
    /\ CanGlitch
    /\ pc[p] = "check"
    /\ old[p] # NoToken
    /\ cmsKey # 0
    /\ faults < MaxFaults
    /\ faults' = faults + 1
    /\ Goto(p, "mint")
    /\ UNCHANGED <<envKey, cmsKey, rows, minted, engineEnv, engine, cmd, old, new, rotations>>

(* The CMS is down: exec fails, TokenCheckUnavailable or no such user *)
CmsDown(p) ==
    /\ cmsKey = 0
    /\ \/ pc[p] = "check" /\ old[p] # NoToken
       \/ pc[p] = "mint"
    /\ Goto(p, "idle")
    /\ UNCHANGED <<envKey, cmsKey, rows, minted, engineEnv, engine, cmd, old, new, rotations, faults>>

(* generate_api_key in the CMS: a row, and a token signed with the CMS's key *)
CreateRow ==
    /\ minted' = minted + 1
    /\ rows' = rows \cup {minted + 1}

Mint(p) ==
    /\ pc[p] = "mint"
    /\ cmsKey # 0
    /\ CreateRow
    /\ new' = [new EXCEPT ![p] = [id |-> minted + 1, key |-> cmsKey]]
    /\ Goto(p, "truncate")
    /\ UNCHANGED <<envKey, cmsKey, engineEnv, engine, cmd, old, rotations, faults>>

(* _install: write_secret() of engine.env, O_TRUNC and then the bytes *)
Truncate(p) ==
    /\ pc[p] = "truncate"
    /\ engineEnv' = NoToken
    /\ Goto(p, "write")
    /\ UNCHANGED <<envKey, cmsKey, rows, minted, engine, cmd, old, new, rotations, faults>>

Write(p) ==
    /\ pc[p] = "write"
    /\ engineEnv' = new[p]
    /\ Goto(p, "engine")
    /\ UNCHANGED <<envKey, cmsKey, rows, minted, engine, cmd, old, new, rotations, faults>>

(* Where _install returns to: _start, rotate_engine_token or the CLI *)
AfterInstall(p) ==
    CASE cmd[p] = "up" -> "upAgain"
      [] Rotates(cmd[p]) /\ old[p] # NoToken -> "revoke"
      [] OTHER -> "done"

(* mutant: the engine is restarted, not recreated: its environment stays *)
RestartEngine(p) ==
    /\ pc[p] = "engine"
    /\ cmsKey' = envKey
    /\ engine' = engine
    /\ Goto(p, AfterInstall(p))
    /\ UNCHANGED <<envKey, rows, minted, engineEnv, cmd, old, new, rotations, faults>>

(* _install: compose.up("engine", force_recreate=True) *)
RecreateEngine(p) ==
    /\ pc[p] = "engine"
    /\ UpAll
    /\ Goto(p, AfterInstall(p))
    /\ UNCHANGED <<envKey, rows, minted, engineEnv, cmd, old, new, rotations, faults>>

(* _start: the second compose.up() after a token was minted *)
UpAgain(p) ==
    /\ pc[p] = "upAgain"
    /\ UpAll
    /\ Goto(p, "done")
    /\ UNCHANGED <<envKey, rows, minted, engineEnv, cmd, old, new, rotations, faults>>

(* mutant: engine.env is read again for the key to revoke *)
RevokeCurrent(p) ==
    /\ pc[p] = "revoke"
    /\ rows' = rows \ {engineEnv.id}
    /\ Goto(p, "done")
    /\ UNCHANGED <<envKey, cmsKey, minted, engineEnv, engine, cmd, old, new, rotations, faults>>

(* rotate_engine_token: revoke(old), or the warning that it failed *)
Revoke(p) ==
    /\ pc[p] = "revoke"
    /\ rows' = IF cmsKey = 0 THEN rows ELSE rows \ {old[p].id}
    /\ Goto(p, "done")
    /\ UNCHANGED <<envKey, cmsKey, minted, engineEnv, engine, cmd, old, new, rotations, faults>>

(* revoke() raises: logged, the command succeeds all the same *)
RevokeFails(p) ==
    /\ pc[p] = "revoke"
    /\ faults < MaxFaults
    /\ faults' = faults + 1
    /\ Goto(p, "done")
    /\ UNCHANGED <<envKey, cmsKey, rows, minted, engineEnv, engine, cmd, old, new, rotations>>

(* The step in hand ends the command, by an error of docker compose or      *)
(* because the CLI is killed.  What docker was asked for may have happened. *)
Abort(p) ==
    /\ pc[p] \notin {"idle", "done"}
    /\ faults < MaxFaults
    /\ faults' = faults + 1
    /\ IF pc[p] \in {"recreateCore", "start", "engine", "upAgain"}
         THEN UpPartly ELSE UNCHANGED <<cmsKey, engine>>
    /\ \/ UNCHANGED <<rows, minted>>
       \/ pc[p] = "mint" /\ cmsKey # 0 /\ CreateRow
       \/ pc[p] = "revoke" /\ rows' = rows \ {old[p].id} /\ UNCHANGED minted
    /\ Goto(p, "idle")
    /\ UNCHANGED <<envKey, engineEnv, cmd, old, new, rotations>>

(* `up --wait` on an engine.env that another CLI has just truncated *)
NoTokenToStart(p) ==
    /\ pc[p] \in {"engine", "upAgain"}
    /\ engineEnv = NoToken
    /\ UpPartly
    /\ Goto(p, "idle")
    /\ UNCHANGED <<envKey, rows, minted, engineEnv, cmd, old, new, rotations, faults>>

Progress(p) ==
    \/ SetKey(p) \/ RecreateCore(p) \/ ReadOld(p) \/ Start(p) \/ Check(p)
    \/ CmsDown(p) \/ Mint(p) \/ Truncate(p) \/ Write(p) \/ RecreateEngine(p)
    \/ UpAgain(p) \/ Revoke(p) \/ NoTokenToStart(p)

Fault(p) == CheckGlitch(p) \/ RevokeFails(p) \/ Abort(p)

Next ==
    \E p \in Procs :
        \/ Progress(p)
        \/ Fault(p)
        \/ Down(p)
        \/ \E c \in Commands : Run(p, c)

Spec == Init /\ [][Next]_vars

(* A command that was started goes on, and the operator keeps running `up` *)
FairSpec ==
    /\ Spec
    /\ \A p \in Procs : WF_vars(Progress(p)) /\ SF_vars(Run(p, "up"))
-----------------------------------------------------------------------------
(* The token in engine.env always names a row of the CMS: no kill, no error *)
(* and no two rotations at once revoke the key the next start would use.    *)
TokenOnDiskIsLive == engineEnv # NoToken => engineEnv.id \in rows

(* Nor do they revoke the key the engine is running on: rotation revokes    *)
(* the old key only once every engine that could carry it is replaced.      *)
EngineKeyNotRevoked == engine # NoToken => engine.id \in rows

(* With one CLI, `up` and `rotate secret-key` that end without an error     *)
(* leave an engine the CMS accepts, whatever was cut off before them; so    *)
(* does `rotate token`, unless the CMS that signed the token was not yet    *)
(* running with the DJANGO_SECRET_KEY in .env.                              *)
SuccessMeansAuthenticated ==
    \A p \in Procs : pc[p] = "done" =>
        /\ cmd[p] \in {"up", "secret"} => engine = engineEnv /\ Valid(engine)
        /\ cmd[p] = "rotate" => engine = engineEnv /\ (Valid(engine) \/ new[p].key # envKey)

(* Keys nobody uses come from interruptions only, and each interruption     *)
(* leaves two at most: one minted and never installed, and the one it was   *)
(* to replace.                                                              *)
OrphansBounded ==
    (\A p \in Procs : pc[p] \in {"idle", "done"}) =>
        Cardinality(rows \ {engineEnv.id}) <= 2 * faults

(* However the earlier commands ended, an operator who keeps running `up`   *)
(* gets an engine that the CMS accepts.                                     *)
EngineRecovers == []<>(engine # NoToken /\ Valid(engine))
=============================================================================
