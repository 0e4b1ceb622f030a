--------------------------------- MODULE Rotate ---------------------------------
(***************************************************************************)
(* Secrets that several parties hold: the JWT key pair, the self-signed      *)
(* certificate, the Keycloak client secret and the database passwords.      *)
(* `./neops up` makes the missing ones (workflow.keys) and starts the        *)
(* containers; `./neops rotate` replaces one, moving every holder to the new *)
(* value in turn (rotate.py, secrets.py).  Containers read when they start:  *)
(* the environment of their creation, and the files as they are then.        *)
(*                                                                         *)
(* One CLI at a time.  A command may be killed in any step, which then has   *)
(* happened, not happened or half happened.                                 *)
(*                                                                         *)
(* Left out: the certificate's hostnames; the core services besides cms-init *)
(* and cms; the admin password; the keys of EngineToken; a render cut off;   *)
(* a write of .env cut off, which EnvMigration has: it is done here or not;  *)
(* containers that restart while a command is at work.                       *)
(***************************************************************************)
EXTENDS Naturals

CONSTANTS
    Values,         \* values of a secret; one that nobody holds any more is free for reuse
    Absent, Torn,   \* a file that does not exist; one that was opened but not written
    Directory,      \* what docker puts in place of a file it is to mount and does not find
    Databases,      \* the databases whose password is modelled
    Scenarios,      \* sets of secrets that a deployment has; the JWT pair is in each
    MaxFaults       \* bound: interruptions

KeyFiles == {"priv", "pub", "client", "ca", "key", "cert"}
Secrets == {"jwt", "tls", "client"} \cup Databases
Commands == Secrets \cup {"up", "keys"}

ASSUME RotateAssumption ==
    /\ Values \subseteq Nat
    /\ Values \cap {Absent, Torn, Directory} = {}
    /\ Absent # Torn /\ Absent # Directory /\ Torn # Directory
    /\ Databases \subseteq {"cms", "engine", "keycloak"}
    /\ Scenarios \subseteq {s \in SUBSET Secrets : "jwt" \in s}
    /\ MaxFaults \in Nat

VARIABLES
    scenario,       \* one of Scenarios; JWT pair and passwords there are in each
    file,           \* data/secrets: the JWT pair, keycloak-client.env, the CA and the leaf
    rendered,       \* whether generated/ is there
    env, role,      \* each database's password in .env and in Postgres
    keycloak, providers, seeded,    \* the client secret in Keycloak, as rendered (providers.json, realm.json), in the CMS
    running,        \* the services that are up; of the others nothing is loaded
    password,       \* the password in the environment of a database's client
    sign, verify,   \* the private key the CMS has loaded, the public key the engine has
    served,         \* the key and the certificate the proxy has loaded
    command, pc,    \* the CLI: "up", "keys" or the secret it rotates; its next step
    new,            \* the value it has made
    todo,           \* services compose has still to start
    faults,
    interrupted     \* history: secrets of which a change did not come to its end

files == <<file, providers, rendered>>
values == <<env, role, keycloak, seeded>>
loaded == <<running, password, sign, verify, served>>
cli == <<command, pc, new, todo>>
history == <<scenario, faults, interrupted>>
vars == <<files, values, loaded, cli, history>>

Services ==
    {"cms", "engine"} \cup {s \in {"keycloak"} : "client" \in scenario}
                      \cup {s \in {"traefik"} : "tls" \in scenario}

Held == Values \cup {Absent}
Content == Values \cup {Absent, Torn, Directory}

TypeOK ==
    /\ scenario \in Scenarios
    /\ file \in [KeyFiles -> Content]
    /\ env \in [Databases -> Values]
    /\ role \in [Databases -> Held]
    /\ keycloak \in Held /\ seeded \in Held /\ providers \in Held /\ rendered \in BOOLEAN
    /\ running \subseteq Services /\ todo \subseteq Services \cup {"cms-init"}
    /\ password \in [Databases -> Held]
    /\ sign \in Content /\ verify \in Held
    /\ served \in [{"key", "cert"} -> Content]
    /\ command \in Commands
    /\ pc \in {"idle", "done", "ensure_jwt", "ensure_client", "ensure_tls", "unlink_priv", "unlink_pub",
               "alter", "env", "update", "render", "seed", "plan", "recreate"} \cup KeyFiles
    /\ new \in Held
    /\ faults \in 0..MaxFaults
    /\ interrupted \subseteq Secrets

(* A checkout that nothing was started in; .env has its passwords *)
Init ==
    /\ scenario \in Scenarios
    /\ file = [f \in KeyFiles |-> Absent]
    /\ \E v \in Values : env = [d \in Databases |-> v] /\ \A w \in Values : v <= w
    /\ role = [d \in Databases |-> Absent]
    /\ keycloak = Absent /\ providers = Absent /\ seeded = Absent /\ rendered = FALSE
    /\ running = {} /\ password = [d \in Databases |-> Absent]
    /\ sign = Absent /\ verify = Absent /\ served = [f \in {"key", "cert"} |-> Absent]
    /\ command = "up" /\ pc = "idle" /\ new = Absent /\ todo = {}
    /\ faults = 0 /\ interrupted = {}
-----------------------------------------------------------------------------
(* Who holds which value of a secret *)
Holders(x) ==
    CASE x = "jwt" -> {file["priv"], file["pub"], sign, verify}
      [] x = "tls" -> {file["ca"], file["key"], file["cert"], served["key"], served["cert"]}
      [] x = "client" -> {file["client"], keycloak, providers, seeded}
      [] OTHER -> {env[x], role[x], password[x]}

Agree(x) == \E v \in Values : Holders(x) \subseteq {v, Absent}

(* mutant: what is made is empty *)
FreshEmpty(x) == {Absent}

(* A value made anew: of those in nobody's hands the least, as all are alike *)
Fresh(x) ==
    LET free == Values \ Holders(x)
    IN  {v \in free : \A w \in free : v <= w}

Exists(f) == file[f] # Absent

Goto(step) == pc' = step /\ UNCHANGED <<command, todo>>

(* The command ends, with an error *)
Fail ==
    /\ pc' = "idle"
    /\ todo' = {}
    /\ new' = Absent
    /\ interrupted' = interrupted \cup ({command} \cap Secrets)
    /\ UNCHANGED <<command, faults, scenario>>
-----------------------------------------------------------------------------
FirstStep(c) ==
    CASE c \in {"up", "keys"} -> "ensure_jwt"
      [] c = "jwt" -> "unlink_priv"
      [] c = "tls" -> "ca"
      [] c = "client" -> "client"
      [] OTHER -> "alter"

(* pg_hba.conf of the postgres image: only over the network a client needs    *)
(* the password, which is held by the role                                   *)
Connects(via, p, held) == via = "socket" \/ p = held

(* _db_password_checks() of each Postgres that is there, by psql inside its    *)
(* container                                                                 *)
PasswordsAccepted == \A d \in Databases : role[d] # Absent => Connects("socket", env[d], role[d])

Begin(c) ==
    /\ pc \in {"idle", "done"}
    /\ c = "up" => PasswordsAccepted
    /\ command' = c
    /\ pc' = FirstStep(c)
    /\ new' \in IF c \in {"tls", "client"} THEN Fresh(c) ELSE {Absent}
    /\ UNCHANGED <<files, values, loaded, todo, history>>

(* mutant: rotate.jwt() removes the private key only *)
UnlinkPrivate ==
    /\ pc = "unlink_priv"
    /\ file' = [file EXCEPT !["priv"] = Absent]
    /\ Goto("ensure_jwt")
    /\ UNCHANGED <<new, history, providers, rendered, values, loaded>>

(* rotate.jwt(): a directory cannot be unlinked *)
Unlink ==
    /\ pc \in {"unlink_priv", "unlink_pub"}
    /\ LET f == IF pc = "unlink_priv" THEN "priv" ELSE "pub"
       IN  IF file[f] = Directory
             THEN Fail /\ UNCHANGED file
             ELSE /\ file' = [file EXCEPT ![f] = Absent]
                  /\ Goto(IF f = "priv" THEN "unlink_pub" ELSE "ensure_jwt")
                  /\ UNCHANGED <<new, history>>
    /\ UNCHANGED <<providers, rendered, values, loaded>>

(* ensure_jwt(): both are kept, or both made *)
EnsureJwt ==
    /\ pc = "ensure_jwt"
    /\ IF Exists("priv") /\ Exists("pub")
         THEN Goto("ensure_client") /\ UNCHANGED new
         ELSE Goto("priv") /\ new' \in Fresh("jwt")
    /\ UNCHANGED <<files, values, loaded, history>>

(* mutant: a secret that is there is not kept *)
EnsureClientAnew ==
    /\ pc = "ensure_client"
    /\ IF "client" \notin scenario
         THEN Goto("ensure_tls") /\ UNCHANGED new
         ELSE Goto("client") /\ new' \in Fresh("client")
    /\ UNCHANGED <<files, values, loaded, history>>

(* ensure_keycloak_client_secret(): an empty file counts as none *)
EnsureClient ==
    /\ pc = "ensure_client"
    /\ IF "client" \notin scenario \/ file["client"] \in Values
         THEN Goto("ensure_tls") /\ UNCHANGED new
         ELSE Goto("client") /\ new' \in Fresh("client")
    /\ UNCHANGED <<files, values, loaded, history>>

AfterKeys == IF command = "up" THEN "render" ELSE "done"

(* _selfsigned_keys(): a certificate that cannot be parsed raises *)
EnsureTls ==
    /\ pc = "ensure_tls"
    /\ CASE "tls" \notin scenario \/ file["cert"] \in Values ->
              Goto(AfterKeys) /\ UNCHANGED <<new, history>>
         [] "tls" \in scenario /\ file["cert"] = Absent ->
              Goto("ca") /\ new' \in Fresh("tls") /\ UNCHANGED history
         [] OTHER -> Fail
    /\ UNCHANGED <<files, values, loaded>>

(* The next write, or the step after the last one *)
AfterWrite(f) ==
    CASE f = "priv" -> "pub"
      [] f = "pub" -> IF command = "jwt" THEN "plan" ELSE "ensure_client"
      [] f = "client" -> IF command = "client" THEN "update" ELSE "ensure_tls"
      [] f = "ca" -> "key"
      [] f = "key" -> "cert"
      [] f = "cert" -> IF command = "tls" THEN "plan" ELSE AfterKeys

(* write_secret(); the directory docker made cannot be opened *)
WriteFile ==
    /\ pc \in KeyFiles
    /\ IF file[pc] = Directory
         THEN Fail /\ UNCHANGED file
         ELSE /\ file' = [file EXCEPT ![pc] = new]
              /\ Goto(AfterWrite(pc))
              /\ UNCHANGED <<new, history>>
    /\ UNCHANGED <<providers, rendered, values, loaded>>

(* mutant: the role is altered over a connection that asks for the password *)
AlterWithPassword ==
    /\ pc = "alter"
    /\ IF role[command] # env[command]
         THEN Fail /\ UNCHANGED role
         ELSE \E v \in Fresh(command) :
                /\ role' = [role EXCEPT ![command] = v]
                /\ new' = v
                /\ Goto("env")
                /\ UNCHANGED history
    /\ UNCHANGED <<files, env, keycloak, seeded, loaded>>

(* rotate.db_password(): ALTER ROLE, connected as the check is, then .env    *)
Alter ==
    /\ pc = "alter"
    /\ IF role[command] = Absent \/ ~Connects("socket", env[command], role[command])
         THEN Fail /\ UNCHANGED role
         ELSE \E v \in Fresh(command) :
                /\ role' = [role EXCEPT ![command] = v]
                /\ new' = v
                /\ Goto("env")
                /\ UNCHANGED history
    /\ UNCHANGED <<files, env, keycloak, seeded, loaded>>

SetEnv ==
    /\ pc = "env"
    /\ env' = [env EXCEPT ![command] = new]
    /\ Goto("plan")
    /\ UNCHANGED <<files, role, keycloak, seeded, loaded, new, history>>

(* rotate.keycloak_client(): Keycloak is told, providers.json rendered, the  *)
(* CMS told.  Keycloak and the CMS have to run.                              *)
Update ==
    /\ pc = "update"
    /\ IF "keycloak" \notin running
         THEN Fail /\ UNCHANGED keycloak
         ELSE keycloak' = new /\ Goto("render") /\ UNCHANGED <<new, history>>
    /\ UNCHANGED <<files, env, role, seeded, loaded>>

Render ==
    /\ pc = "render"
    /\ providers' = file["client"]
    /\ rendered' = TRUE
    /\ Goto(IF command = "client" THEN "seed" ELSE "plan")
    /\ UNCHANGED <<file, values, loaded, new, history>>

Seed ==
    /\ pc = "seed"
    /\ IF "cms" \notin running
         THEN Fail /\ UNCHANGED seeded
         ELSE seeded' = providers /\ Goto("done") /\ new' = Absent /\ UNCHANGED history
    /\ UNCHANGED <<files, env, role, keycloak, loaded>>
-----------------------------------------------------------------------------
(* mutant: rotate.jwt() recreates the CMS only *)
ForcedSigner ==
    CASE command = "up" -> {}
      [] command = "jwt" -> {"cms"}
      [] command = "tls" -> {"traefik"}
      [] OTHER -> {command}

(* docker compose: the services a command names and those they depend on *)
Forced ==
    CASE command = "up" -> {}
      [] command = "jwt" -> {"cms", "engine"}
      [] command = "tls" -> {"traefik"}
      [] OTHER -> {command}

Needs(s) ==
    (Services \cup {"cms-init"}) \cap
    CASE s = "keycloak" -> {}
      [] s = "cms-init" -> {"keycloak"}
      [] s = "cms" -> {"keycloak", "cms-init"}
      [] OTHER -> {"keycloak", "cms-init", "cms"}

Concerned ==
    IF command = "up" THEN Services \cup {"cms-init"} ELSE UNION {Needs(s) \cup {s} : s \in Forced}

(* mutant: a container that runs is kept whatever its environment *)
OutdatedMissing(s) == s \in Forced \/ s \notin running

(* Created anew or started again: forced, not running (cms-init never is,     *)
(* once it has ended), or with another environment than before               *)
Outdated(s) ==
    \/ s \in Forced
    \/ s \notin running
    \/ s \in Databases /\ password[s] # env[s]

(* compose reads generated/, which has to be there *)
Plan ==
    /\ pc = "plan"
    /\ IF ~rendered
         THEN Fail
         ELSE /\ pc' = "recreate"
              /\ todo' = {s \in Concerned : Outdated(s)}
              /\ UNCHANGED <<command, new, history>>
    /\ UNCHANGED <<files, values, loaded>>

(* The first start of a Postgres takes the password of .env *)
RoleOf(d) == IF role[d] = Absent THEN env[d] ELSE role[d]

PubMounted == IF Exists("pub") THEN file["pub"] ELSE Directory

(* With the password p in its environment a service becomes healthy: nobody  *)
(* without its database, nor the engine without a key                        *)
Healthy(s, p) ==
    /\ s \in Databases => Connects("network", p, RoleOf(s))
    /\ s = "engine" => PubMounted \in Values

(* What containers have loaded when those in up run and s has just started.  *)
(* The first start of Keycloak imports the realm; the CMS seeds its          *)
(* providers the first time, and may again.                                  *)
Loaded(owner, up, s, value, before) ==
    IF owner \notin up THEN Absent ELSE IF owner = s THEN value ELSE before

Containers(up, s, p) ==
    /\ running' = up
    /\ password' = [d \in Databases |-> Loaded(d, up, s, p, password[d])]
    /\ sign' = Loaded("cms", up, s, file["priv"], sign)
    /\ verify' = Loaded("engine", up, s, PubMounted, verify)
    /\ served' = [f \in {"key", "cert"} |-> Loaded("traefik", up, s, file[f], served[f])]
    /\ keycloak' = IF s = "keycloak" /\ keycloak = Absent THEN providers ELSE keycloak
    /\ seeded' \in IF s = "cms" /\ s \in up /\ "client" \in scenario
                     THEN {providers} \cup ({seeded} \ {Absent})
                     ELSE {seeded}
    /\ role' = IF s \in Databases THEN [role EXCEPT ![s] = RoleOf(s)] ELSE role
    /\ file' = IF s = "engine" THEN [file EXCEPT !["pub"] = PubMounted] ELSE file
    /\ UNCHANGED <<env, providers, rendered>>

(* cms-init migrates the CMS database with the password of .env *)
CmsInit ==
    /\ pc = "recreate"
    /\ "cms-init" \in todo
    /\ Needs("cms-init") \cap todo = {}
    /\ IF "cms" \in Databases => Connects("network", env["cms"], RoleOf("cms"))
         THEN /\ todo' = todo \ {"cms-init"}
              /\ UNCHANGED <<files, values, loaded, command, pc, new, history>>
         ELSE /\ \E gone \in SUBSET todo : Containers(running \ gone, "none", Absent)
              /\ Fail

Start(s) ==
    /\ pc = "recreate"
    /\ s \in todo
    /\ Needs(s) \cap todo = {}
    /\ LET p == IF s \in Databases THEN env[s] ELSE Absent
       IN  IF Healthy(s, p)
             THEN /\ Containers(running \cup {s}, s, p)
                  /\ todo' = todo \ {s}
                  /\ UNCHANGED <<command, pc, new, history>>
             ELSE /\ \E gone \in SUBSET todo : Containers(running \ (gone \cup {s}), s, p)
                  /\ Fail

Started ==
    /\ pc = "recreate"
    /\ todo = {}
    /\ new' = Absent
    /\ Goto("done")
    /\ UNCHANGED <<files, values, loaded, history>>

(* ./neops restart, a reboot: the containers stay as they were created *)
Restart(s) ==
    /\ pc \in {"idle", "done"}
    /\ s \in running
    /\ LET p == IF s \in Databases THEN password[s] ELSE Absent
       IN  Containers(IF Healthy(s, p) THEN running ELSE running \ {s}, s, p)
    /\ UNCHANGED <<cli, history>>
-----------------------------------------------------------------------------
(* What the step under way may have done when the command is cut off *)
HalfDone ==
    \/ UNCHANGED <<files, values, loaded>>
    \/ /\ pc \in KeyFiles /\ file[pc] # Directory
       /\ file' = [file EXCEPT ![pc] = Torn]
       /\ UNCHANGED <<providers, rendered, values, loaded>>
    \/ /\ pc = "alter" /\ role[command] # Absent
       /\ \E v \in Fresh(command) : role' = [role EXCEPT ![command] = v]
       /\ UNCHANGED <<files, env, keycloak, seeded, loaded>>
    \/ /\ pc = "update" /\ "keycloak" \in running
       /\ keycloak' = new
       /\ UNCHANGED <<files, env, role, seeded, loaded>>
    \/ /\ pc = "recreate"
       /\ \E gone \in SUBSET todo : Containers(running \ gone, "none", Absent)

(* The secret whose holders a step of the command moves *)
AtStake ==
    CASE command \in Secrets -> {command}
      [] command \notin Secrets /\ pc \in {"priv", "pub"} -> {"jwt"}
      [] command \notin Secrets /\ pc \in {"ca", "key", "cert"} -> {"tls"}
      [] command \notin Secrets /\ pc \in {"client", "render"} -> {"client"}
      [] OTHER -> {}

(* The command is killed, or what it called failed *)
Interrupt ==
    /\ pc \notin {"idle", "done"}
    /\ faults < MaxFaults
    /\ HalfDone
    /\ pc' = "idle"
    /\ todo' = {}
    /\ new' = Absent
    /\ faults' = faults + 1
    /\ interrupted' = interrupted \cup AtStake
    /\ UNCHANGED <<command, scenario>>

(* The operator removes a directory docker made and runs `./neops keys`      *)
Repair ==
    /\ pc \in {"idle", "done"}
    /\ \E f \in KeyFiles :
        /\ file[f] = Directory
        /\ file' = [file EXCEPT ![f] = Absent]
    /\ command' = "keys"
    /\ pc' = FirstStep("keys")
    /\ UNCHANGED <<providers, rendered, values, loaded, new, todo, history>>

Step ==
    \/ Unlink \/ EnsureJwt \/ EnsureClient \/ EnsureTls \/ WriteFile
    \/ Alter \/ SetEnv \/ Update \/ Render \/ Seed \/ Plan
    \/ CmsInit \/ (\E s \in Services : Start(s)) \/ Started

Next ==
    \/ \E c \in scenario \cup {"up", "keys"} : Begin(c)
    \/ Step
    \/ \E s \in Services : Restart(s)
    \/ Interrupt
    \/ Repair

(* A command goes on; the operator tries `up`, `rotate jwt` and the rotation  *)
(* of what else the scenario has again and again, and repairs.               *)
Spec ==
    /\ Init /\ [][Next]_vars
    /\ WF_vars(Step) /\ SF_vars(Repair)
    /\ SF_vars(Begin("up")) /\ SF_vars(Begin("jwt"))
    /\ SF_vars(\E c \in scenario \ {"jwt"} : Begin(c))
-----------------------------------------------------------------------------
AtRest == pc \in {"idle", "done"}

(* All holders of a secret have the same value, unless a rotation of this    *)
(* very secret was cut off: no other command, failed or not, and no restart  *)
(* of a container drives them apart.                                         *)
OthersAgree == AtRest => \A x \in (scenario \cup Databases \cup {"jwt"}) \ interrupted : Agree(x)

(* "./neops rotate <what> is the only sanctioned way to change a secret"     *)
(* (docs/30-operations.md): one that ends without an error has moved all     *)
(* holders, whatever was left of earlier attempts.                           *)
RotationComplete ==
    pc = "done" /\ command \in Secrets => Agree(command) /\ Absent \notin Holders(command)

(* After an `up` that succeeds every client that runs has the password of     *)
(* .env, and the CMS one that Postgres accepts, although `up` neither alters a role nor     *)
(* forces a container to be created anew.  Of the other databases only        *)
(* OthersAgree holds: an engine that runs is not asked to log in again.       *)
UpServes ==
    pc = "done" /\ command = "up" =>
        /\ \A d \in Databases : password[d] \in {env[d], Absent}
        /\ "cms" \in Databases => role["cms"] = env["cms"]

(* "check notices a mismatch and names it" (README.md, of the database        *)
(* passwords): an `up` that is past its check finds in .env what Postgres has. *)
MismatchNoticed ==
    command = "up" /\ pc = "ensure_jwt" => \A d \in Databases : role[d] \in {env[d], Absent}

(* The pair on disk consists of two whole keys that are not of one pair only *)
(* after two interruptions: ensure_jwt() keeps a pair it finds.              *)
MixedPairTakesTwo ==
    AtRest /\ {file["priv"], file["pub"]} \subseteq Values /\ file["priv"] # file["pub"]
        => faults >= 2

(* Once the faults are over, retrying ends with a stack in which every secret *)
(* is one value.                                                             *)
AllWell == AtRest /\ running = Services /\ \A x \in scenario : Agree(x)
Recovers == []<>AllWell
=============================================================================
