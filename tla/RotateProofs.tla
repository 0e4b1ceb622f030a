----------------------------- MODULE RotateProofs -----------------------------
(***************************************************************************)
(* What module Rotate promises for any values, databases, scenarios and any *)
(* number of interruptions.                                                 *)
(***************************************************************************)
EXTENDS Rotate, TLAPS

(* Which command is where *)
Course ==
    /\ command \in scenario \cup {"up", "keys"}
    /\ pc \in {"unlink_priv", "unlink_pub"} => command = "jwt"
    /\ pc \in {"ensure_jwt", "priv", "pub"} => command \in {"jwt", "up", "keys"}
    /\ pc \in {"ensure_client", "ensure_tls"} => command \in {"up", "keys"}
    /\ pc = "client" => command \in {"client", "up", "keys"} /\ "client" \in scenario
    /\ pc \in {"ca", "key", "cert"} => command \in {"tls", "up", "keys"} /\ "tls" \in scenario
    /\ pc \in {"alter", "env"} => command \in Databases
    /\ pc \in {"update", "seed"} => command = "client"
    /\ pc = "render" => command \in {"up", "client"}
    /\ pc \in {"plan", "recreate"} => command \in {"up", "jwt", "tls"} \cup Databases
    /\ pc # "recreate" => todo = {}

(* Docker puts a directory in place of the public key only; nobody has a      *)
(* client secret where there is no Keycloak                                   *)
Files ==
    /\ \A f \in KeyFiles : file[f] = Directory => f = "pub"
    /\ "client" \notin scenario => file["client"] = Absent

(* What has been made is whole until all of it is written *)
Making ==
    /\ pc \in KeyFiles \cup {"env", "update"} => new \in Values
    /\ pc = "unlink_pub" => file["priv"] = Absent
    /\ command = "jwt" /\ pc = "ensure_jwt" => file["priv"] = Absent /\ file["pub"] = Absent
    /\ pc = "pub" => file["priv"] = new
    /\ pc \in {"key", "cert"} => file["ca"] = new
    /\ pc = "cert" => file["key"] = new
    /\ pc = "env" => role[command] = new
    /\ command = "client" /\ pc \in {"update", "render", "seed"} =>
         /\ file["client"] \in Values
         /\ pc = "update" => new = file["client"]
         /\ pc \in {"render", "seed"} => keycloak = file["client"]
         /\ pc = "seed" => providers = file["client"]
    /\ pc \in {"ensure_tls", "ca", "key", "cert", "render"} /\ command \in {"up", "keys"}
       /\ "client" \in scenario => file["client"] \in Values

(* A container that does not run has nothing loaded; one that runs has a role; *)
(* and who has a role is a service                                             *)
Loads ==
    /\ \A d \in Databases : d \notin running => password[d] = Absent
    /\ \A d \in Databases : d \in running => role[d] # Absent
    /\ \A d \in Databases : role[d] # Absent => d \in Services
    /\ "cms" \notin running => sign = Absent
    /\ "engine" \notin running => verify = Absent
    /\ "traefik" \notin running => served["key"] = Absent /\ served["cert"] = Absent

(* The pair on disk, and how many interruptions a missing or mixed one takes *)
Pair ==
    /\ pc = "priv" => ~(Exists("priv") /\ Exists("pub"))
    /\ pc = "pub" /\ file["pub"] \in Values => faults >= 1
    /\ ~Exists("priv") /\ file["pub"] \in Values /\ pc # "unlink_pub" => faults >= 1
    /\ {file["priv"], file["pub"]} \subseteq Values /\ file["priv"] # file["pub"] /\ pc # "pub"
          => faults >= 2

(* What a rotation has done to files and roles before it recreates containers *)
Rotated ==
    pc \in {"plan", "recreate", "done"} =>
        /\ command = "jwt" => file["priv"] = file["pub"] /\ file["priv"] \in Values
        /\ command = "tls" =>
             file["ca"] = file["key"] /\ file["ca"] = file["cert"] /\ file["ca"] \in Values
        /\ command \in Databases => role[command] = env[command]
        /\ command = "client" /\ pc = "done" =>
             /\ file["client"] \in Values
             /\ keycloak = file["client"] /\ providers = file["client"] /\ seeded = file["client"]

(* s runs with what there is now *)
Current(s) ==
    /\ s \in running
    /\ s = "cms" => sign = file["priv"]
    /\ s = "engine" => verify = file["pub"] /\ file["pub"] \in Values
    /\ s = "traefik" => served["key"] = file["key"] /\ served["cert"] = file["cert"]
    /\ s \in Databases => password[s] = env[s] /\ role[s] = env[s]

Recreated ==
    pc \in {"recreate", "done"} /\ command \in {"jwt", "tls"} \cup Databases =>
        \A s \in Forced \ todo : Current(s)

(* What an `up` has asked for when it goes on *)
Served ==
    pc \in {"recreate", "done"} /\ command = "up" =>
        /\ \A d \in Databases \ todo : password[d] \in {env[d], Absent}
        /\ "cms" \in Databases =>
             /\ "cms-init" \notin todo => RoleOf("cms") = env["cms"]
             /\ "cms" \notin todo => role["cms"] # Absent

(* Nothing runs before anything is rendered *)
Unrendered ==
    ~rendered => /\ running = {}
                 /\ pc \notin {"seed", "recreate"}
                 /\ pc = "render" => command = "up"

(* A secret of which no change is under way, and none was cut off *)
Moving(x) == command = x /\ ~AtRest
Undisturbed(x) == ~(x \in interrupted \/ Moving(x))

(* Its holders agree: on a value that is there, or as nobody has one yet *)
WholeJwt ==
    /\ file["priv"] \in Values /\ file["pub"] = file["priv"]
    /\ {sign, verify} \subseteq {file["priv"], Absent}
    /\ pc \notin {"priv", "pub"}

NoJwt ==
    /\ file["priv"] = (IF pc = "pub" THEN new ELSE Absent) /\ file["pub"] = Absent
    /\ sign = Absent /\ verify = Absent
    /\ ~rendered
    /\ command \in {"up", "keys"} => pc \in {"idle", "done", "ensure_jwt", "priv", "pub"}

WholeTls ==
    /\ file["ca"] \in Values /\ file["key"] = file["ca"] /\ file["cert"] = file["ca"]
    /\ {served["key"], served["cert"]} \subseteq {file["ca"], Absent}
    /\ pc \notin {"ca", "key", "cert"}

NoTls ==
    /\ file["ca"] = (IF pc \in {"key", "cert"} THEN new ELSE Absent)
    /\ file["key"] = (IF pc = "cert" THEN new ELSE Absent)
    /\ file["cert"] = Absent
    /\ served["key"] = Absent /\ served["cert"] = Absent
    /\ ~rendered /\ pc # "render"

SettledClient ==
    /\ file["client"] \in Held
    /\ {keycloak, providers, seeded} \subseteq {file["client"], Absent}
    /\ pc = "client" => file["client"] = Absent

SettledDb(d) == {role[d], password[d]} \subseteq {env[d], Absent}

Settled ==
    /\ Values # {}
    /\ Undisturbed("jwt") => WholeJwt \/ NoJwt
    /\ "tls" \in scenario /\ Undisturbed("tls") => WholeTls \/ NoTls
    /\ "client" \in scenario /\ Undisturbed("client") => SettledClient
    /\ \A d \in Databases : Undisturbed(d) => SettledDb(d)
-----------------------------------------------------------------------------
(* The names of files, secrets and services *)
LEMMA Names ==
    /\ KeyFiles = {"priv", "pub", "client", "ca", "key", "cert"}
    /\ Databases \subseteq {"cms", "engine", "keycloak"}
    /\ Values \cap {Absent, Torn, Directory} = {}
    /\ Absent # Torn /\ Absent # Directory /\ Torn # Directory
    /\ \A x \in Scenarios : x \subseteq {"jwt", "tls", "client"} \cup Databases /\ "jwt" \in x
    /\ MaxFaults \in Nat
BY RotateAssumption DEF KeyFiles, Secrets

(* The services there are *)
LEMMA ServicesAre ==
    /\ {"cms", "engine"} \subseteq Services /\ Services \subseteq {"cms", "engine", "keycloak", "traefik"}
    /\ "keycloak" \in Services <=> "client" \in scenario
    /\ "traefik" \in Services <=> "tls" \in scenario
BY DEF Services

(* What the start of a container leaves of what was loaded *)
LEMMA ContainersDo ==
    ASSUME TypeOK, NEW up, NEW s, NEW p, Containers(up, s, p)
    PROVE  /\ running' = up
           /\ \A d \in Databases : password'[d] =
                 IF d \notin up THEN Absent ELSE IF d = s THEN p ELSE password[d]
           /\ sign' = IF "cms" \notin up THEN Absent ELSE IF s = "cms" THEN file["priv"] ELSE sign
           /\ verify' = IF "engine" \notin up THEN Absent ELSE IF s = "engine" THEN PubMounted ELSE verify
           /\ \A f \in {"key", "cert"} : served'[f] =
                 IF "traefik" \notin up THEN Absent ELSE IF s = "traefik" THEN file[f] ELSE served[f]
           /\ keycloak' = IF s = "keycloak" /\ keycloak = Absent THEN providers ELSE keycloak
           /\ seeded' \in {seeded, providers}
           /\ \A d \in Databases : role'[d] = IF d = s THEN RoleOf(d) ELSE role[d]
           /\ \A f \in KeyFiles : file'[f] = IF f = "pub" /\ s = "engine" THEN PubMounted ELSE file[f]
           /\ UNCHANGED <<env, providers, rendered>>
<1>1. /\ running' = up
      /\ sign' = IF "cms" \notin up THEN Absent ELSE IF s = "cms" THEN file["priv"] ELSE sign
      /\ verify' = IF "engine" \notin up THEN Absent ELSE IF s = "engine" THEN PubMounted ELSE verify
      /\ keycloak' = IF s = "keycloak" /\ keycloak = Absent THEN providers ELSE keycloak
      /\ UNCHANGED <<env, providers, rendered>>
  BY DEF Containers, Loaded
<1>2. \A d \in Databases : password'[d] =
         IF d \notin up THEN Absent ELSE IF d = s THEN p ELSE password[d]
  BY DEF Containers, Loaded
<1>3. \A f \in {"key", "cert"} : served'[f] =
         IF "traefik" \notin up THEN Absent ELSE IF s = "traefik" THEN file[f] ELSE served[f]
  BY DEF Containers, Loaded
<1>4. seeded' \in {seeded, providers}
  BY DEF Containers
<1>5. \A d \in Databases : role'[d] = IF d = s THEN RoleOf(d) ELSE role[d]
  BY DEF Containers, TypeOK
<1>6. \A f \in KeyFiles : file'[f] = IF f = "pub" /\ s = "engine" THEN PubMounted ELSE file[f]
  BY DEF Containers, TypeOK, KeyFiles
<1> QED
  BY <1>1, <1>2, <1>3, <1>4, <1>5, <1>6

(* ... and that all of it is of its type *)
LEMMA ContainersType ==
    ASSUME TypeOK, NEW up \in SUBSET Services, NEW s, NEW p \in Held, Containers(up, s, p),
           s = "engine" /\ s \in up => PubMounted \in Values
    PROVE  /\ running' \subseteq Services
           /\ password' \in [Databases -> Held]
           /\ sign' \in Content /\ verify' \in Held /\ served' \in [{"key", "cert"} -> Content]
           /\ keycloak' \in Held /\ seeded' \in Held
           /\ role' \in [Databases -> Held]
           /\ file' \in [KeyFiles -> Content]
<1>0. Values \subseteq Content /\ Absent \in Held /\ Absent \in Content /\ Values \subseteq Held
      /\ Directory \in Content
  BY DEF Content, Held
<1>1. file \in [KeyFiles -> Content] /\ PubMounted \in Content /\ file["priv"] \in Content
  BY <1>0 DEF TypeOK, PubMounted, KeyFiles
<1>2. \A d \in Databases : RoleOf(d) \in Held
  BY <1>0 DEF RoleOf, TypeOK
<1>3. password' \in [Databases -> Held]
  <2>1. password' = [d \in Databases |-> Loaded(d, up, s, p, password[d])]
    BY DEF Containers
  <2>2. \A d \in Databases : Loaded(d, up, s, p, password[d]) \in Held
    BY <1>0 DEF Loaded, TypeOK
  <2> QED
    BY <2>1, <2>2
<1>4. served' \in [{"key", "cert"} -> Content]
  <2>1. served' = [f \in {"key", "cert"} |-> Loaded("traefik", up, s, file[f], served[f])]
    BY DEF Containers
  <2>2. \A f \in {"key", "cert"} : Loaded("traefik", up, s, file[f], served[f]) \in Content
    BY <1>0, <1>1 DEF Loaded, TypeOK, KeyFiles
  <2> QED
    BY <2>1, <2>2
<1>5. sign' \in Content /\ verify' \in Held
  BY <1>0, <1>1, ContainersDo DEF TypeOK
<1>6. keycloak' \in Held /\ seeded' \in Held /\ running' \subseteq Services
  BY ContainersDo DEF TypeOK
<1>7. role' \in [Databases -> Held]
  BY <1>2 DEF Containers, TypeOK
<1>8. file' \in [KeyFiles -> Content]
  BY <1>1 DEF Containers
<1> QED
  BY <1>3, <1>4, <1>5, <1>6, <1>7, <1>8

(* Of the services that ran, and perhaps s, those in `up` do; s if it is well *)
Shaken(up, s, p) ==
    /\ Containers(up, s, p)
    /\ up \in SUBSET Services /\ up \subseteq running \cup {s}
    /\ s \in Services \cup {"none"}
    /\ s \in up => s \in Services /\ Healthy(s, p)
    /\ p \in Held
    /\ UNCHANGED <<env, providers, rendered, scenario>>

(* The password with which s is started: that of .env for a new container *)
Given(s) == IF s \in Databases THEN env[s] ELSE Absent
Kept(s) == IF s \in Databases THEN password[s] ELSE Absent

(* The steps that start or stop containers *)
LEMMA Shakes ==
    ASSUME TypeOK
    PROVE  /\ \A gone \in SUBSET todo : Containers(running \ gone, "none", Absent) /\ UNCHANGED scenario =>
                Shaken(running \ gone, "none", Absent)
           /\ \A s \in Services : Start(s) =>
                /\ pc = "recreate" /\ s \in todo
                /\ \/ /\ Shaken(running \cup {s}, s, Given(s))
                      /\ todo' = todo \ {s} /\ UNCHANGED <<command, pc, new, history>>
                   \/ \E up : s \notin up /\ Shaken(up, s, Given(s)) /\ Fail
           /\ \A s \in Services : Restart(s) =>
                /\ pc \in {"idle", "done"} /\ s \in running
                /\ UNCHANGED <<cli, history>>
                /\ \/ Shaken(running, s, Kept(s))
                   \/ ~Healthy(s, Kept(s)) /\ Shaken(running \ {s}, s, Kept(s))
<1>0. Absent \in Held /\ Values \subseteq Held
  BY DEF Held
<1>1. running \subseteq Services /\ "none" \notin Services /\ \A s : Given(s) \in Held /\ Kept(s) \in Held
  BY <1>0, ServicesAre DEF TypeOK, Given, Kept
<1>2. \A up, s, p : Containers(up, s, p) => UNCHANGED <<env, providers, rendered>>
  BY DEF Containers
<1>3. ASSUME NEW gone \in SUBSET todo, Containers(running \ gone, "none", Absent), UNCHANGED scenario
      PROVE  Shaken(running \ gone, "none", Absent)
  BY <1>0, <1>1, <1>2, <1>3 DEF Shaken
<1>4. ASSUME NEW s \in Services, Start(s)
      PROVE     /\ pc = "recreate" /\ s \in todo
                /\ \/ /\ Shaken(running \cup {s}, s, Given(s))
                      /\ todo' = todo \ {s} /\ UNCHANGED <<command, pc, new, history>>
                   \/ \E up : s \notin up /\ Shaken(up, s, Given(s)) /\ Fail
  <2>1. /\ pc = "recreate" /\ s \in todo
        /\ IF Healthy(s, Given(s))
             THEN /\ Containers(running \cup {s}, s, Given(s))
                  /\ todo' = todo \ {s}
                  /\ UNCHANGED <<command, pc, new, history>>
             ELSE /\ \E gone \in SUBSET todo : Containers(running \ (gone \cup {s}), s, Given(s))
                  /\ Fail
    BY <1>4 DEF Start, Given
  <2>2. CASE Healthy(s, Given(s))
    <3>1. UNCHANGED scenario
      BY <2>1, <2>2 DEF history
    <3> QED
      BY <1>1, <1>2, <2>1, <2>2, <3>1 DEF Shaken
  <2>3. CASE ~Healthy(s, Given(s))
    <3>1. PICK gone \in SUBSET todo : Containers(running \ (gone \cup {s}), s, Given(s))
      BY <2>1, <2>3
    <3>2. Fail /\ UNCHANGED scenario
      BY <2>1, <2>3 DEF Fail
    <3>3. Shaken(running \ (gone \cup {s}), s, Given(s))
      BY <1>1, <1>2, <3>1, <3>2 DEF Shaken
    <3> QED
      BY <2>1, <3>2, <3>3
  <2> QED
    BY <2>1, <2>2, <2>3
<1>5. ASSUME NEW s \in Services, Restart(s)
      PROVE     /\ pc \in {"idle", "done"} /\ s \in running
                /\ UNCHANGED <<cli, history>>
                /\ \/ Shaken(running, s, Kept(s))
                   \/ ~Healthy(s, Kept(s)) /\ Shaken(running \ {s}, s, Kept(s))
  <2>1. /\ pc \in {"idle", "done"} /\ s \in running
        /\ Containers(IF Healthy(s, Kept(s)) THEN running ELSE running \ {s}, s, Kept(s))
        /\ UNCHANGED <<cli, history>>
    BY <1>5 DEF Restart, Kept
  <2>2. UNCHANGED scenario
    BY <2>1 DEF history
  <2>3. CASE Healthy(s, Kept(s))
    BY <1>1, <1>2, <2>1, <2>2, <2>3 DEF Shaken
  <2>4. CASE ~Healthy(s, Kept(s))
    BY <1>1, <1>2, <2>1, <2>2, <2>4 DEF Shaken
  <2> QED
    BY <2>1, <2>3, <2>4
<1> QED
  BY <1>3, <1>4, <1>5

(* What they leave is of its type *)
LEMMA ShakenType ==
    ASSUME TypeOK, NEW up, NEW s, NEW p, Shaken(up, s, p)
    PROVE  /\ running' \subseteq Services'
           /\ password' \in [Databases -> Held]
           /\ sign' \in Content /\ verify' \in Held /\ served' \in [{"key", "cert"} -> Content]
           /\ keycloak' \in Held /\ seeded' \in Held /\ providers' \in Held /\ rendered' \in BOOLEAN
           /\ env' \in [Databases -> Values] /\ role' \in [Databases -> Held]
           /\ file' \in [KeyFiles -> Content]
           /\ scenario' = scenario /\ Services' = Services
<1>1. UNCHANGED <<env, providers, rendered, scenario>>
  BY DEF Shaken
<1>2. Services' = Services
  BY <1>1 DEF Services
<1>3. s = "engine" /\ s \in up => PubMounted \in Values
  BY DEF Shaken, Healthy
<1>4. up \in SUBSET Services /\ p \in Held /\ Containers(up, s, p)
  BY DEF Shaken
<1> QED
  BY <1>1, <1>2, <1>3, <1>4, ContainersType DEF TypeOK

(* A value made anew is one *)
LEMMA FreshIs == \A x : \A v \in Fresh(x) : v \in Values /\ v \notin Holders(x)
BY DEF Fresh

(* What a command that fails leaves of itself *)
LEMMA FailType ==
    ASSUME TypeOK, Fail
    PROVE  /\ pc' = "idle" /\ todo' = {} /\ new' = Absent
           /\ UNCHANGED <<command, faults, scenario>>
           /\ interrupted \subseteq interrupted' /\ (command \in Secrets => command \in interrupted')
           /\ interrupted' \subseteq Secrets /\ new' \in Held
BY DEF Fail, TypeOK, Held

(* The steps of a command, by what they change: files, a role and .env,      *)
(* Keycloak, what is rendered, what the CMS was told                         *)
LEMMA Writes ==
    ASSUME TypeOK, Course
    PROVE  /\ Unlink \/ WriteFile =>
                UNCHANGED <<providers, rendered, values, loaded, scenario, faults>>
                /\ file' \in [KeyFiles -> Content]
           /\ EnsureJwt \/ EnsureClient \/ EnsureTls \/ Plan =>
                UNCHANGED <<files, values, loaded, scenario, faults>>
           /\ SetEnv => /\ UNCHANGED <<files, role, keycloak, seeded, loaded, history>>
                        /\ env' = [env EXCEPT ![command] = new]
           /\ Alter => UNCHANGED <<files, env, keycloak, seeded, loaded, scenario, faults>>
<1>1. ASSUME Unlink PROVE UNCHANGED <<providers, rendered, values, loaded, scenario, faults>>
                /\ file' \in [KeyFiles -> Content]
  BY <1>1 DEF Unlink, Fail, Goto, history, TypeOK, Content
<1>2. ASSUME WriteFile PROVE UNCHANGED <<providers, rendered, values, loaded, scenario, faults>>
                /\ file' \in [KeyFiles -> Content]
  <2>1. new \in Content
    BY DEF TypeOK, Held, Content
  <2> QED
    BY <1>2, <2>1 DEF WriteFile, Fail, Goto, history, TypeOK
<1>3. ASSUME EnsureJwt \/ EnsureClient \/ EnsureTls \/ Plan
      PROVE  UNCHANGED <<files, values, loaded, scenario, faults>>
  BY <1>3 DEF EnsureJwt, EnsureClient, EnsureTls, Plan, Fail, history
<1>4. ASSUME SetEnv
      PROVE /\ UNCHANGED <<files, role, keycloak, seeded, loaded, history>>
            /\ env' = [env EXCEPT ![command] = new]
  BY <1>4 DEF SetEnv
<1>5. ASSUME Alter PROVE UNCHANGED <<files, env, keycloak, seeded, loaded, scenario, faults>>
  BY <1>5 DEF Alter, Fail, history
<1> QED
  BY <1>1, <1>2, <1>3, <1>4, <1>5

(* Every step leaves each variable of its type *)
LEMMA TypesStep ==
    ASSUME TypeOK, Course, Files, Making, Loads, Rotated, [Next]_vars
    PROVE  TypeOK'
<1> DEFINE Places == {"idle", "done", "ensure_jwt", "ensure_client", "ensure_tls", "unlink_priv",
                      "unlink_pub", "alter", "env", "update", "render", "seed", "plan", "recreate"}
                       \cup KeyFiles
<1> USE Names DEF files, values, loaded, cli, history, Goto
<1>0. /\ scenario \in Scenarios
      /\ file \in [KeyFiles -> Content]
      /\ env \in [Databases -> Values] /\ role \in [Databases -> Held]
      /\ keycloak \in Held /\ seeded \in Held /\ providers \in Held /\ rendered \in BOOLEAN
      /\ running \subseteq Services /\ todo \subseteq Services \cup {"cms-init"}
      /\ password \in [Databases -> Held]
      /\ sign \in Content /\ verify \in Held
      /\ served \in [{"key", "cert"} -> Content]
      /\ command \in Commands
      /\ pc \in Places
      /\ new \in Held
      /\ faults \in 0..MaxFaults
      /\ interrupted \subseteq Secrets
      /\ Absent \in Held /\ Values \subseteq Held /\ Held \subseteq Content /\ Torn \in Content
      /\ scenario \subseteq Secrets
  BY DEF TypeOK, Held, Content, Secrets
<1>1. UNCHANGED scenario => Services' = Services
  BY DEF Services
(* A step that touches neither containers nor what they load *)
<1>2. ASSUME UNCHANGED <<scenario, loaded>>,
             file' \in [KeyFiles -> Content],
             env' \in [Databases -> Values], role' \in [Databases -> Held],
             keycloak' \in Held, seeded' \in Held, providers' \in Held, rendered' \in BOOLEAN,
             todo' \subseteq Services \cup {"cms-init"},
             command' \in Commands, pc' \in Places, new' \in Held,
             faults' \in 0..MaxFaults, interrupted' \subseteq Secrets
      PROVE  TypeOK'
  BY <1>0, <1>1, <1>2 DEF TypeOK
<1>3. ASSUME NEW up, NEW s, NEW p, Shaken(up, s, p),
             todo' \subseteq Services \cup {"cms-init"},
             command' \in Commands, pc' \in Places, new' \in Held,
             faults' \in 0..MaxFaults, interrupted' \subseteq Secrets
      PROVE  TypeOK'
  BY <1>0, <1>3, ShakenType DEF TypeOK
<1>4. Fail => /\ pc' \in Places /\ todo' \subseteq Services \cup {"cms-init"} /\ new' \in Held
              /\ command' \in Commands /\ faults' \in 0..MaxFaults /\ interrupted' \subseteq Secrets
              /\ scenario' = scenario
  BY <1>0, FailType
<1>5. ASSUME NEW c \in scenario \cup {"up", "keys"}, Begin(c) PROVE TypeOK'
  <2>1. FirstStep(c) \in Places
    BY DEF FirstStep, KeyFiles
  <2>2. c \in Commands
    BY <1>0 DEF Commands
  <2>3. new' \in Held
    BY <1>0, <1>5, FreshIs DEF Begin
  <2>4. /\ UNCHANGED <<files, values, loaded, todo, history>>
        /\ command' = c /\ pc' = FirstStep(c)
    BY <1>5 DEF Begin
  <2> QED
    BY <1>0, <1>2, <2>1, <2>2, <2>3, <2>4
<1>6. ASSUME Unlink PROVE TypeOK'
  <2>1. file' \in [KeyFiles -> Content] /\ UNCHANGED <<providers, rendered, values, loaded, scenario, faults>>
    BY <1>6, Writes
  <2>2. Fail \/ (pc' \in Places /\ UNCHANGED <<command, todo, new, history>>)
    BY <1>6 DEF Unlink
  <2> QED
    BY <1>0, <1>2, <1>4, <2>1, <2>2
<1>7. ASSUME WriteFile PROVE TypeOK'
  <2>1. file' \in [KeyFiles -> Content] /\ UNCHANGED <<providers, rendered, values, loaded, scenario, faults>>
    BY <1>7, Writes
  <2>2. pc \in KeyFiles => AfterWrite(pc) \in Places
    BY DEF AfterWrite, AfterKeys, KeyFiles
  <2>3. Fail \/ (pc' \in Places /\ UNCHANGED <<command, todo, new, history>>)
    BY <1>7, <2>2 DEF WriteFile
  <2> QED
    BY <1>0, <1>2, <1>4, <2>1, <2>3
<1>8. ASSUME EnsureJwt \/ EnsureClient \/ EnsureTls PROVE TypeOK'
  <2>1. UNCHANGED <<files, values, loaded, scenario, faults>>
    BY <1>8, Writes
  <2>2. AfterKeys \in Places /\ {"ensure_client", "priv", "ensure_tls", "client", "ca"} \subseteq Places
    BY DEF AfterKeys, KeyFiles
  <2>3. CASE EnsureJwt
    <3>1. pc' \in Places /\ new' \in Held /\ UNCHANGED <<command, todo, interrupted>>
      BY <1>0, <2>2, <2>3, FreshIs DEF EnsureJwt
    <3> QED
      BY <1>0, <1>2, <2>1, <3>1
  <2>4. CASE EnsureClient
    <3>1. pc' \in Places /\ new' \in Held /\ UNCHANGED <<command, todo, interrupted>>
      BY <1>0, <2>2, <2>4, FreshIs DEF EnsureClient
    <3> QED
      BY <1>0, <1>2, <2>1, <3>1
  <2>5. CASE EnsureTls
    <3>1. Fail \/ (pc' \in Places /\ new' \in Held /\ UNCHANGED <<command, todo, interrupted>>)
      BY <1>0, <2>2, <2>5, FreshIs DEF EnsureTls
    <3> QED
      BY <1>0, <1>2, <1>4, <2>1, <3>1
  <2> QED
    BY <1>8, <2>3, <2>4, <2>5
<1>9. ASSUME Alter PROVE TypeOK'
  <2>1. UNCHANGED <<files, env, keycloak, seeded, loaded, scenario, faults>>
    BY <1>9, Writes
  <2>2. \/ Fail /\ UNCHANGED role
        \/ \E v \in Values : /\ role' = [role EXCEPT ![command] = v] /\ new' = v /\ pc' = "env"
                             /\ UNCHANGED <<command, todo, history>>
    BY <1>9, FreshIs DEF Alter
  <2>3. role' \in [Databases -> Held]
    BY <1>0, <2>2
  <2> QED
    BY <1>0, <1>2, <1>4, <2>1, <2>2, <2>3
<1>10. ASSUME SetEnv PROVE TypeOK'
  <2>1. UNCHANGED <<files, role, keycloak, seeded, loaded, history>> /\ env' = [env EXCEPT ![command] = new]
    BY <1>10, Writes
  <2>2. pc = "env" /\ pc' = "plan" /\ UNCHANGED <<command, todo, new>>
    BY <1>10 DEF SetEnv
  <2>3. env' \in [Databases -> Values]
    BY <1>0, <2>1, <2>2 DEF Making
  <2> QED
    BY <1>0, <1>2, <2>1, <2>2, <2>3
<1>11. ASSUME Update PROVE TypeOK'
  <2>1. UNCHANGED <<files, env, role, seeded, loaded>>
    BY <1>11 DEF Update
  <2>2. (Fail /\ UNCHANGED keycloak) \/ (keycloak' = new /\ pc' = "render" /\ UNCHANGED <<command, todo, new, history>>)
    BY <1>11 DEF Update
  <2> QED
    BY <1>0, <1>2, <1>4, <2>1, <2>2
<1>12. ASSUME Render PROVE TypeOK'
  <2>1. /\ pc = "render" /\ providers' = file["client"] /\ rendered' = TRUE /\ pc' \in {"seed", "plan"}
        /\ UNCHANGED <<file, values, loaded, new, history, command, todo>>
    BY <1>12 DEF Render
  <2>2. file["client"] \in Held
    BY <1>0, <2>1 DEF Course, Files, Making
  <2> QED
    BY <1>0, <1>2, <2>1, <2>2
<1>13. ASSUME Seed PROVE TypeOK'
  <2>1. UNCHANGED <<files, env, role, keycloak, loaded>>
    BY <1>13 DEF Seed
  <2>2. \/ Fail /\ UNCHANGED seeded
        \/ seeded' = providers /\ pc' = "done" /\ new' = Absent /\ UNCHANGED <<command, todo, history>>
    BY <1>13 DEF Seed
  <2> QED
    BY <1>0, <1>2, <1>4, <2>1, <2>2
<1>14. ASSUME Plan PROVE TypeOK'
  <2>1. UNCHANGED <<files, values, loaded, scenario, faults>> /\ pc = "plan"
    BY <1>14, Writes DEF Plan
  <2>2. Fail \/ (pc' = "recreate" /\ todo' \subseteq Concerned /\ UNCHANGED <<command, new, history>>)
    BY <1>14 DEF Plan
  <2>3. Concerned \subseteq Services \cup {"cms-init"}
    <3>1. \A s : Needs(s) \subseteq Services \cup {"cms-init"}
      BY DEF Needs
    <3>2. Forced \subseteq Services
      <4>1. command \in {"up", "jwt", "tls"} \cup Databases
        BY <2>1 DEF Course
      <4>2. command = "tls" => "traefik" \in Services
        BY ServicesAre DEF Course
      <4>3. command \in Databases => command \in Services
        <5> SUFFICES ASSUME command \in Databases PROVE command \in Services
          OBVIOUS
        <5>1. role[command] = env[command] /\ env[command] \in Values
          BY <1>0, <2>1 DEF Rotated
        <5> QED
          BY <5>1 DEF Loads
      <4> QED
        BY <4>1, <4>2, <4>3, ServicesAre DEF Forced
    <3> QED
      BY <3>1, <3>2 DEF Concerned
  <2> QED
    BY <1>0, <1>2, <1>4, <2>1, <2>2, <2>3
<1>15. ASSUME CmsInit PROVE TypeOK'
  <2>1. \/ todo' = todo \ {"cms-init"} /\ UNCHANGED <<files, values, loaded, command, pc, new, history>>
        \/ Fail /\ \E gone \in SUBSET todo : Containers(running \ gone, "none", Absent)
    BY <1>15 DEF CmsInit
  <2>2. CASE todo' = todo \ {"cms-init"} /\ UNCHANGED <<files, values, loaded, command, pc, new, history>>
    BY <1>0, <1>2, <2>2
  <2>3. CASE Fail /\ \E gone \in SUBSET todo : Containers(running \ gone, "none", Absent)
    BY <1>3, <1>4, <2>3, Shakes
  <2> QED
    BY <2>1, <2>2, <2>3
<1>16. ASSUME NEW s \in Services, Start(s) PROVE TypeOK'
  <2>1. \/ /\ Shaken(running \cup {s}, s, Given(s))
           /\ todo' = todo \ {s} /\ UNCHANGED <<command, pc, new, history>>
        \/ \E up : s \notin up /\ Shaken(up, s, Given(s)) /\ Fail
    BY <1>16, Shakes
  <2> QED
    BY <1>0, <1>3, <1>4, <2>1
<1>17. ASSUME Started PROVE TypeOK'
  BY <1>0, <1>2, <1>17 DEF Started
<1>18. ASSUME NEW s \in Services, Restart(s) PROVE TypeOK'
  <2>1. /\ UNCHANGED <<cli, history>>
        /\ \/ Shaken(running, s, Kept(s))
           \/ Shaken(running \ {s}, s, Kept(s))
    BY <1>18, Shakes
  <2> QED
    BY <1>0, <1>3, <2>1
<1>19. ASSUME Interrupt PROVE TypeOK'
  <2>1. /\ HalfDone /\ pc' = "idle" /\ todo' = {} /\ new' = Absent /\ faults' = faults + 1
        /\ interrupted' = interrupted \cup AtStake /\ UNCHANGED <<command, scenario>> /\ faults < MaxFaults
    BY <1>19 DEF Interrupt
  <2>2. faults' \in 0..MaxFaults
    BY <1>0, <2>1
  <2>3. AtStake \subseteq Secrets
    BY DEF AtStake, Secrets
  <2>4. CASE UNCHANGED <<files, values, loaded>>
    BY <1>0, <1>2, <2>1, <2>2, <2>3, <2>4
  <2>5. CASE /\ pc \in KeyFiles /\ file[pc] # Directory
             /\ file' = [file EXCEPT ![pc] = Torn]
             /\ UNCHANGED <<providers, rendered, values, loaded>>
    BY <1>0, <1>2, <2>1, <2>2, <2>3, <2>5
  <2>6. CASE /\ \E v \in Fresh(command) : role' = [role EXCEPT ![command] = v]
             /\ UNCHANGED <<files, env, keycloak, seeded, loaded>>
    <3>1. role' \in [Databases -> Held]
      BY <1>0, <2>6, FreshIs
    <3> QED
      BY <1>0, <1>2, <2>1, <2>2, <2>3, <2>6, <3>1
  <2>7. CASE keycloak' = new /\ UNCHANGED <<files, env, role, seeded, loaded>>
    BY <1>0, <1>2, <2>1, <2>2, <2>3, <2>7
  <2>8. CASE \E gone \in SUBSET todo : Containers(running \ gone, "none", Absent)
    BY <1>0, <1>3, <2>1, <2>2, <2>3, <2>8, Shakes
  <2> QED
    BY <2>1, <2>4, <2>5, <2>6, <2>7, <2>8 DEF HalfDone
<1>20. ASSUME Repair PROVE TypeOK'
  <2>1. PICK f \in KeyFiles : file' = [file EXCEPT ![f] = Absent]
    BY <1>20 DEF Repair
  <2>2. command' = "keys" /\ pc' = "ensure_jwt"
    BY <1>20 DEF Repair, FirstStep
  <2>3. UNCHANGED <<providers, rendered, values, loaded, new, todo, history>>
    BY <1>20 DEF Repair
  <2>4. "keys" \in Commands /\ file' \in [KeyFiles -> Content]
    BY <1>0, <2>1 DEF Commands
  <2> QED
    BY <1>0, <1>2, <2>2, <2>3, <2>4
<1>21. ASSUME UNCHANGED vars PROVE TypeOK'
  BY <1>0, <1>2, <1>21 DEF vars
<1> QED
  BY <1>5, <1>6, <1>7, <1>8, <1>9, <1>10, <1>11, <1>12, <1>13, <1>14, <1>15, <1>16, <1>17, <1>18,
     <1>19, <1>20, <1>21 DEF Next, Step

(* Every command keeps to its own steps *)
LEMMA CourseStep ==
    ASSUME TypeOK, Course, Making, [Next]_vars
    PROVE  Course'
<1> USE Names DEF files, values, loaded, cli, history, Goto
<1>0. /\ scenario \in Scenarios /\ scenario \subseteq {"jwt", "tls", "client"} \cup Databases
      /\ command \in scenario \cup {"up", "keys"}
  BY DEF TypeOK, Course
<1>1. ASSUME pc' = "idle", todo' = {}, UNCHANGED <<command, scenario>> PROVE Course'
  BY <1>1 DEF Course, KeyFiles
<1>2. Fail => Course'
  BY <1>1, FailType
<1>3. ASSUME NEW c \in scenario \cup {"up", "keys"}, Begin(c) PROVE Course'
  <2>1. /\ UNCHANGED <<scenario, todo>> /\ command' = c /\ pc' = FirstStep(c) /\ pc \in {"idle", "done"}
    BY <1>3 DEF Begin
  <2>2. todo = {}
    BY <2>1 DEF Course
  <2>3. c = "jwt" => pc' = "unlink_priv"
    BY <2>1 DEF FirstStep
  <2>4. c = "tls" => pc' = "ca"
    BY <2>1 DEF FirstStep
  <2>5. c = "client" => pc' = "client"
    BY <2>1 DEF FirstStep
  <2>6. c \in {"up", "keys"} => pc' = "ensure_jwt"
    BY <2>1 DEF FirstStep
  <2>7. c \in Databases => pc' = "alter"
    BY <2>1 DEF FirstStep
  <2> QED
    BY <1>0, <2>1, <2>2, <2>3, <2>4, <2>5, <2>6, <2>7 DEF Course
<1>4. ASSUME Unlink PROVE Course'
  <2>1. \/ Fail
        \/ /\ pc \in {"unlink_priv", "unlink_pub"} /\ pc' \in {"unlink_pub", "ensure_jwt"}
           /\ UNCHANGED <<command, todo, scenario>>
    BY <1>4 DEF Unlink
  <2> QED
    BY <1>2, <2>1 DEF Course
<1>5. ASSUME EnsureJwt PROVE Course'
  <2>1. /\ pc = "ensure_jwt" /\ UNCHANGED <<command, todo, scenario>>
        /\ pc' = "priv" \/ (pc' = "ensure_client" /\ Exists("priv"))
    BY <1>5 DEF EnsureJwt
  <2>2. pc' = "ensure_client" => command \in {"up", "keys"}
    BY <2>1 DEF Course, Making, Exists
  <2> QED
    BY <2>1, <2>2 DEF Course
<1>6. ASSUME EnsureClient PROVE Course'
  <2>1. /\ pc = "ensure_client" /\ UNCHANGED <<command, todo, scenario>>
        /\ pc' = "ensure_tls" \/ (pc' = "client" /\ "client" \in scenario)
    BY <1>6 DEF EnsureClient
  <2> QED
    BY <2>1 DEF Course
<1>7. ASSUME EnsureTls PROVE Course'
  <2>1. \/ Fail
        \/ /\ UNCHANGED <<command, todo, scenario>>
           /\ pc' = AfterKeys \/ (pc' = "ca" /\ "tls" \in scenario)
    BY <1>7 DEF EnsureTls
  <2>2. pc = "ensure_tls"
    BY <1>7 DEF EnsureTls
  <2> QED
    BY <1>2, <2>1, <2>2 DEF Course, AfterKeys
<1>8. ASSUME WriteFile PROVE Course'
  <2>1. Fail \/ (pc' = AfterWrite(pc) /\ UNCHANGED <<command, todo, scenario>>)
    BY <1>8 DEF WriteFile
  <2>2. pc \in KeyFiles
    BY <1>8 DEF WriteFile
  <2>3. pc = "priv" => AfterWrite(pc) = "pub"
    BY DEF AfterWrite
  <2>4. pc = "pub" => AfterWrite(pc) = IF command = "jwt" THEN "plan" ELSE "ensure_client"
    BY DEF AfterWrite
  <2>5. pc = "client" => AfterWrite(pc) = IF command = "client" THEN "update" ELSE "ensure_tls"
    BY DEF AfterWrite
  <2>6. pc = "ca" => AfterWrite(pc) = "key"
    BY DEF AfterWrite
  <2>7. pc = "key" => AfterWrite(pc) = "cert"
    BY DEF AfterWrite
  <2>8. pc = "cert" => AfterWrite(pc) = IF command = "tls" THEN "plan"
                                          ELSE IF command = "up" THEN "render" ELSE "done"
    BY DEF AfterWrite, AfterKeys
  <2> QED
    BY <1>0, <1>2, <2>1, <2>2, <2>3, <2>4, <2>5, <2>6, <2>7, <2>8 DEF Course
<1>9. ASSUME Alter \/ SetEnv PROVE Course'
  <2>1. \/ Fail
        \/ /\ pc \in {"alter", "env"} /\ pc' \in {"env", "plan"}
           /\ UNCHANGED <<command, todo, scenario>>
    BY <1>9 DEF Alter, SetEnv
  <2> QED
    BY <1>2, <2>1 DEF Course
<1>10. ASSUME Update \/ Seed PROVE Course'
  <2>1. \/ Fail
        \/ /\ pc \in {"update", "seed"} /\ pc' \in {"render", "done"}
           /\ UNCHANGED <<command, todo, scenario>>
    BY <1>10 DEF Update, Seed
  <2> QED
    BY <1>2, <2>1 DEF Course
<1>11. ASSUME Render PROVE Course'
  <2>1. /\ pc = "render" /\ pc' = IF command = "client" THEN "seed" ELSE "plan"
        /\ UNCHANGED <<command, todo, scenario>>
    BY <1>11 DEF Render
  <2> QED
    BY <2>1 DEF Course
<1>12. ASSUME Plan PROVE Course'
  <2>1. Fail \/ (pc = "plan" /\ pc' = "recreate" /\ UNCHANGED <<command, scenario>>)
    BY <1>12 DEF Plan
  <2> QED
    BY <1>2, <2>1 DEF Course
<1>13. ASSUME CmsInit PROVE Course'
  <2>1. Fail \/ (pc = "recreate" /\ UNCHANGED <<command, scenario, pc>>)
    BY <1>13 DEF CmsInit
  <2> QED
    BY <1>2, <2>1 DEF Course
<1>14. ASSUME NEW s \in Services, Start(s) PROVE Course'
  <2>1. Fail \/ (pc = "recreate" /\ UNCHANGED <<command, scenario, pc>>)
    BY <1>14, Shakes
  <2> QED
    BY <1>2, <2>1 DEF Course
<1>15. ASSUME Started PROVE Course'
  BY <1>15 DEF Started, Course, KeyFiles
<1>16. ASSUME NEW s \in Services, Restart(s) PROVE Course'
  <2>1. UNCHANGED <<command, scenario, pc, todo>>
    BY <1>16, Shakes
  <2> QED
    BY <2>1 DEF Course
<1>17. ASSUME Interrupt PROVE Course'
  BY <1>1, <1>17 DEF Interrupt
<1>18. ASSUME Repair PROVE Course'
  <2>1. command' = "keys" /\ pc' = "ensure_jwt" /\ UNCHANGED <<todo, scenario>> /\ pc \in {"idle", "done"}
    BY <1>18 DEF Repair, FirstStep
  <2> QED
    BY <2>1 DEF Course
<1>19. ASSUME UNCHANGED vars PROVE Course'
  BY <1>19 DEF vars, Course
<1> QED
  BY <1>3, <1>4, <1>5, <1>6, <1>7, <1>8, <1>9, <1>10, <1>11, <1>12, <1>13, <1>14, <1>15, <1>16, <1>17,
     <1>18, <1>19 DEF Next, Step

(* The steps that leave all files as they are *)
LEMMA FilesStay ==
    ASSUME TypeOK, [Next]_vars
    PROVE  \/ UNCHANGED <<file, scenario>>
           \/ Unlink \/ WriteFile
           \/ \E s \in Services : Start(s) \/ Restart(s)
           \/ CmsInit \/ Interrupt \/ Repair
<1> USE DEF files, values, loaded, cli, history, Goto, Fail
<1>1. ASSUME NEW c, Begin(c) PROVE UNCHANGED <<file, scenario>>
  BY <1>1 DEF Begin
<1>2. ASSUME EnsureJwt \/ EnsureClient \/ EnsureTls \/ Plan PROVE UNCHANGED <<file, scenario>>
  BY <1>2 DEF EnsureJwt, EnsureClient, EnsureTls, Plan
<1>3. ASSUME Alter \/ SetEnv \/ Update \/ Render \/ Seed \/ Started PROVE UNCHANGED <<file, scenario>>
  BY <1>3 DEF Alter, SetEnv, Update, Render, Seed, Started
<1> QED
  BY <1>1, <1>2, <1>3 DEF Next, Step, vars

(* What a start of containers does to the files: the engine wants the public *)
(* key, and docker makes a directory where there is none                      *)
LEMMA ShakenFiles ==
    ASSUME TypeOK, NEW up, NEW s, NEW p, Shaken(up, s, p)
    PROVE  /\ \A f \in KeyFiles : f # "pub" => file'[f] = file[f]
           /\ file'["pub"] = file["pub"] \/ (file["pub"] = Absent /\ file'["pub"] = Directory)
           /\ s # "engine" => file'["pub"] = file["pub"]
           /\ scenario' = scenario
<1>1. Containers(up, s, p) /\ scenario' = scenario
  BY DEF Shaken
<1> QED
  BY <1>1, ContainersDo DEF PubMounted, Exists, KeyFiles

(* Containers start or stop *)
Shaking == \E up, s, p : Shaken(up, s, p)

(* The steps that shake containers, and what else an interruption may do *)
LEMMA ShakingSteps ==
    ASSUME TypeOK
    PROVE  /\ CmsInit => Shaking \/ UNCHANGED <<files, values, loaded, scenario>>
           /\ \A s \in Services : Start(s) \/ Restart(s) => Shaking
           /\ Interrupt =>
                \/ UNCHANGED <<files, values, loaded>>
                \/ /\ pc \in KeyFiles /\ file[pc] # Directory
                   /\ file' = [file EXCEPT ![pc] = Torn]
                   /\ UNCHANGED <<providers, rendered, values, loaded>>
                \/ /\ pc = "alter" /\ role[command] # Absent
                   /\ \E v \in Fresh(command) : role' = [role EXCEPT ![command] = v]
                   /\ UNCHANGED <<files, env, keycloak, seeded, loaded>>
                \/ /\ pc = "update"
                   /\ keycloak' = new
                   /\ UNCHANGED <<files, env, role, seeded, loaded>>
                \/ pc = "recreate" /\ \E gone \in SUBSET todo : Shaken(running \ gone, "none", Absent)
<1>1. ASSUME CmsInit PROVE Shaking \/ UNCHANGED <<files, values, loaded, scenario>>
  <2>1. \/ UNCHANGED <<files, values, loaded, history>>
        \/ Fail /\ \E gone \in SUBSET todo : Containers(running \ gone, "none", Absent)
    BY <1>1 DEF CmsInit
  <2> QED
    BY <2>1, Shakes DEF Shaking, Fail, history
<1>2. ASSUME NEW s \in Services, Start(s) \/ Restart(s) PROVE Shaking
  BY <1>2, Shakes DEF Shaking
<1>3. ASSUME Interrupt, pc = "recreate", NEW gone \in SUBSET todo, Containers(running \ gone, "none", Absent)
      PROVE  Shaken(running \ gone, "none", Absent)
  <2>1. UNCHANGED scenario
    BY <1>3 DEF Interrupt
  <2> QED
    BY <1>3, <2>1, Shakes
<1> QED
  BY <1>1, <1>2, <1>3 DEF Interrupt, HalfDone

(* Only the public key may be a directory, and no secret comes from nowhere *)
LEMMA FilesStep ==
    ASSUME TypeOK, Course, Files, Making, [Next]_vars
    PROVE  Files'
<1> USE Names DEF files, values, loaded, cli, history
<1>0. file \in [KeyFiles -> Content]
  BY DEF TypeOK
<1>1. ASSUME UNCHANGED <<file, scenario>> PROVE Files'
  BY <1>1 DEF Files
<1>2. ASSUME Unlink PROVE Files'
  <2>1. /\ \E f \in {"priv", "pub"} : file' \in {file, [file EXCEPT ![f] = Absent]}
        /\ UNCHANGED scenario
    BY <1>2 DEF Unlink, Fail, Goto
  <2> QED
    BY <1>0, <2>1 DEF Files
<1>3. ASSUME WriteFile PROVE Files'
  <2>1. /\ pc \in KeyFiles /\ file' \in {file, [file EXCEPT ![pc] = new]}
        /\ UNCHANGED scenario
    BY <1>3 DEF WriteFile, Fail, Goto
  <2>2. new \in Values /\ (pc = "client" => "client" \in scenario)
    BY <2>1 DEF Making, Course
  <2> QED
    BY <1>0, <2>1, <2>2 DEF Files
<1>4. ASSUME Shaking PROVE Files'
  BY <1>4, ShakenFiles DEF Shaking, Files
<1>5. ASSUME Interrupt PROVE Files'
  <2>1. UNCHANGED scenario
    BY <1>5 DEF Interrupt
  <2>2. ASSUME pc \in KeyFiles, file' = [file EXCEPT ![pc] = Torn] PROVE Files'
    <3>1. pc = "client" => "client" \in scenario
      BY DEF Course
    <3> QED
      BY <1>0, <2>1, <2>2, <3>1 DEF Files
  <2> QED
    BY <1>1, <1>4, <1>5, <2>1, <2>2, ShakingSteps DEF Shaking
<1>6. ASSUME Repair PROVE Files'
  <2>1. PICK f \in KeyFiles : file' = [file EXCEPT ![f] = Absent]
    BY <1>6 DEF Repair
  <2>2. UNCHANGED scenario
    BY <1>6 DEF Repair
  <2> QED
    BY <1>0, <2>1, <2>2 DEF Files
<1> QED
  BY <1>1, <1>2, <1>3, <1>4, <1>5, <1>6, FilesStay, ShakingSteps

(* Where a command begins, and where it goes on after a file is written *)
LEMMA Order ==
    /\ \A c : c \in {"up", "keys"} => FirstStep(c) = "ensure_jwt"
    /\ FirstStep("jwt") = "unlink_priv" /\ FirstStep("tls") = "ca" /\ FirstStep("client") = "client"
    /\ \A c \in Databases : FirstStep(c) = "alter"
    /\ AfterWrite("priv") = "pub"
    /\ AfterWrite("pub") = IF command = "jwt" THEN "plan" ELSE "ensure_client"
    /\ AfterWrite("client") = IF command = "client" THEN "update" ELSE "ensure_tls"
    /\ AfterWrite("ca") = "key" /\ AfterWrite("key") = "cert"
    /\ AfterWrite("cert") = IF command = "tls" THEN "plan" ELSE AfterKeys
    /\ AfterKeys = IF command = "up" THEN "render" ELSE "done"
<1>1. /\ \A c : c \in {"up", "keys"} => FirstStep(c) = "ensure_jwt"
      /\ FirstStep("jwt") = "unlink_priv" /\ FirstStep("tls") = "ca" /\ FirstStep("client") = "client"
  BY DEF FirstStep
<1>2. \A c \in Databases : FirstStep(c) = "alter"
  BY Names DEF FirstStep
<1>3. /\ AfterWrite("priv") = "pub"
      /\ AfterWrite("pub") = IF command = "jwt" THEN "plan" ELSE "ensure_client"
      /\ AfterWrite("client") = IF command = "client" THEN "update" ELSE "ensure_tls"
  BY DEF AfterWrite
<1>4. /\ AfterWrite("ca") = "key" /\ AfterWrite("key") = "cert"
      /\ AfterWrite("cert") = IF command = "tls" THEN "plan" ELSE AfterKeys
  BY DEF AfterWrite
<1> QED
  BY <1>1, <1>2, <1>3, <1>4 DEF AfterKeys

(* Writing one file changes that one *)
LEMMA Written ==
    ASSUME TypeOK, Course, Files, Making, WriteFile
    PROVE  /\ pc \in KeyFiles /\ UNCHANGED <<providers, rendered, values, loaded, scenario, faults>>
           /\ \/ Fail /\ pc = "pub" /\ file["pub"] = Directory /\ file' = file
              \/ /\ file[pc] # Directory /\ pc' = AfterWrite(pc) /\ new \in Values
                 /\ file' = [file EXCEPT ![pc] = new]
                 /\ \A f \in KeyFiles : file'[f] = IF f = pc THEN new ELSE file[f]
                 /\ UNCHANGED <<command, todo, new, interrupted>>
<1>1. pc \in KeyFiles /\ UNCHANGED <<providers, rendered, values, loaded, scenario, faults>>
  BY Writes DEF WriteFile
<1>2. new \in Values
  BY <1>1 DEF Making
<1>3. file[pc] = Directory => pc = "pub"
  BY <1>1 DEF Files
<1>4. CASE file[pc] = Directory
  BY <1>1, <1>3, <1>4 DEF WriteFile
<1>5. CASE file[pc] # Directory
  <2>1. file' = [file EXCEPT ![pc] = new] /\ pc' = AfterWrite(pc) /\ UNCHANGED <<command, todo, new, history>>
    BY <1>5 DEF WriteFile, Goto
  <2>2. \A f \in KeyFiles : file'[f] = IF f = pc THEN new ELSE file[f]
    BY <1>1, <2>1 DEF TypeOK
  <2> QED
    BY <1>1, <1>2, <1>5, <2>1, <2>2 DEF history
<1> QED
  BY <1>4, <1>5

(* ... and so does removing one *)
LEMMA Unlinked ==
    ASSUME TypeOK, Unlink
    PROVE  /\ UNCHANGED <<providers, rendered, values, loaded, scenario, faults>>
           /\ \/ /\ Fail /\ file' = file /\ pc \in {"unlink_priv", "unlink_pub"}
                 /\ pc = "unlink_pub" => file["pub"] = Directory
              \/ /\ pc = "unlink_priv" /\ pc' = "unlink_pub"
                 /\ \A f \in KeyFiles : file'[f] = IF f = "priv" THEN Absent ELSE file[f]
                 /\ UNCHANGED <<command, todo, new, interrupted>>
              \/ /\ pc = "unlink_pub" /\ pc' = "ensure_jwt"
                 /\ \A f \in KeyFiles : file'[f] = IF f = "pub" THEN Absent ELSE file[f]
                 /\ UNCHANGED <<command, todo, new, interrupted>>
<1>1. UNCHANGED <<providers, rendered, values, loaded, scenario, faults>> /\ pc \in {"unlink_priv", "unlink_pub"}
  BY DEF Unlink, Fail, history
<1>2. CASE pc = "unlink_priv"
  <2>1. \/ Fail /\ file' = file
        \/ /\ file' = [file EXCEPT !["priv"] = Absent] /\ pc' = "unlink_pub"
           /\ UNCHANGED <<command, todo, new, history>>
    BY <1>2 DEF Unlink, Goto
  <2> QED
    BY <1>1, <1>2, <2>1 DEF TypeOK, history
<1>3. CASE pc = "unlink_pub"
  <2>1. \/ Fail /\ file' = file /\ file["pub"] = Directory
        \/ /\ file' = [file EXCEPT !["pub"] = Absent] /\ pc' = "ensure_jwt"
           /\ UNCHANGED <<command, todo, new, history>>
    BY <1>3 DEF Unlink, Goto
  <2> QED
    BY <1>1, <1>3, <2>1 DEF TypeOK, history
<1> QED
  BY <1>1, <1>2, <1>3

(* The three steps that make what is missing *)
LEMMA Ensured ==
    ASSUME TypeOK
    PROVE  /\ EnsureJwt =>
                /\ pc = "ensure_jwt" /\ UNCHANGED <<files, values, loaded, history, command, todo>>
                /\ \/ Exists("priv") /\ Exists("pub") /\ pc' = "ensure_client" /\ UNCHANGED new
                   \/ /\ ~(Exists("priv") /\ Exists("pub")) /\ pc' = "priv"
                      /\ new' \in Fresh("jwt") /\ new' \in Values
           /\ EnsureClient =>
                /\ pc = "ensure_client" /\ UNCHANGED <<files, values, loaded, history, command, todo>>
                /\ \/ /\ "client" \notin scenario \/ file["client"] \in Values
                      /\ pc' = "ensure_tls" /\ UNCHANGED new
                   \/ /\ "client" \in scenario /\ file["client"] \notin Values
                      /\ pc' = "client" /\ new' \in Values
           /\ EnsureTls =>
                /\ pc = "ensure_tls" /\ UNCHANGED <<files, values, loaded, scenario, faults>>
                /\ \/ Fail
                   \/ /\ "tls" \notin scenario \/ file["cert"] \in Values
                      /\ pc' = AfterKeys /\ UNCHANGED <<new, history, command, todo>>
                   \/ /\ "tls" \in scenario /\ file["cert"] = Absent
                      /\ pc' = "ca" /\ new' \in Values /\ UNCHANGED <<history, command, todo>>
<1>1. ASSUME EnsureJwt
      PROVE     /\ pc = "ensure_jwt" /\ UNCHANGED <<files, values, loaded, history, command, todo>>
                /\ \/ Exists("priv") /\ Exists("pub") /\ pc' = "ensure_client" /\ UNCHANGED new
                   \/ /\ ~(Exists("priv") /\ Exists("pub")) /\ pc' = "priv"
                      /\ new' \in Fresh("jwt") /\ new' \in Values
  BY <1>1, FreshIs DEF EnsureJwt, Goto
<1>2. ASSUME EnsureClient
      PROVE     /\ pc = "ensure_client" /\ UNCHANGED <<files, values, loaded, history, command, todo>>
                /\ \/ /\ "client" \notin scenario \/ file["client"] \in Values
                      /\ pc' = "ensure_tls" /\ UNCHANGED new
                   \/ /\ "client" \in scenario /\ file["client"] \notin Values
                      /\ pc' = "client" /\ new' \in Values
  BY <1>2, FreshIs DEF EnsureClient, Goto
<1>3. ASSUME EnsureTls
      PROVE     /\ pc = "ensure_tls" /\ UNCHANGED <<files, values, loaded, scenario, faults>>
                /\ \/ Fail
                   \/ /\ "tls" \notin scenario \/ file["cert"] \in Values
                      /\ pc' = AfterKeys /\ UNCHANGED <<new, history, command, todo>>
                   \/ /\ "tls" \in scenario /\ file["cert"] = Absent
                      /\ pc' = "ca" /\ new' \in Values /\ UNCHANGED <<history, command, todo>>
  BY <1>3, FreshIs DEF EnsureTls, Goto, Fail, history
<1> QED
  BY <1>1, <1>2, <1>3

(* What is being made stays whole *)
LEMMA MakingStep ==
    ASSUME TypeOK, Course, Files, Making, [Next]_vars
    PROVE  Making'
<1> USE Names DEF files, values, loaded, cli, history
<1>0. scenario \in Scenarios /\ file \in [KeyFiles -> Content]
  BY DEF TypeOK
<1>1. ASSUME pc' \in {"idle", "done", "plan", "recreate", "alter", "unlink_priv", "ensure_client"} PROVE Making'
  BY <1>1 DEF Making
<1>2. Fail => Making'
  BY <1>1, FailType
<1>3. ASSUME NEW c \in scenario \cup {"up", "keys"}, Begin(c) PROVE Making'
  <2>1. /\ command' = c /\ pc' = FirstStep(c) /\ UNCHANGED scenario
        /\ new' \in IF c \in {"tls", "client"} THEN Fresh(c) ELSE {Absent}
    BY <1>3 DEF Begin
  <2>2. c \in {"tls", "client"} => new' \in Values
    BY <2>1, FreshIs
  <2> QED
    BY <1>0, <2>1, <2>2, Order DEF Making
<1>4. ASSUME Unlink PROVE Making'
  <2>1. Fail \/ pc \in {"unlink_priv", "unlink_pub"}
    BY <1>4, Unlinked
  <2> QED
    BY <1>2, <1>4, <2>1, Unlinked DEF Making, Course
<1>5. ASSUME EnsureJwt PROVE Making'
  BY <1>1, <1>5, Ensured DEF Making
<1>6. ASSUME EnsureClient PROVE Making'
  BY <1>6, Ensured DEF Making, Course
<1>7. ASSUME EnsureTls PROVE Making'
  <2>1. \/ Fail
        \/ /\ pc = "ensure_tls" /\ UNCHANGED <<command, file, scenario>>
           /\ pc' \in {"render", "done"} \/ (pc' = "ca" /\ new' \in Values)
    BY <1>7, Ensured, Order
  <2> QED
    BY <1>1, <1>2, <2>1 DEF Making, Course
<1>8. ASSUME WriteFile PROVE Making'
  <2>1. CASE Fail
    BY <1>2, <2>1
  <2>2. CASE ~Fail
    <3>1. /\ pc \in KeyFiles /\ pc' = AfterWrite(pc) /\ new \in Values
          /\ \A f \in KeyFiles : file'[f] = IF f = pc THEN new ELSE file[f]
          /\ UNCHANGED <<scenario, command, todo, new, keycloak, providers>>
      BY <1>8, <2>2, Written
    <3>2. CASE pc \in {"priv", "pub"}
      BY <1>1, <3>1, <3>2, Order DEF Making, Course
    <3>3. CASE pc = "client"
      <4>1. /\ pc' = IF command = "client" THEN "update" ELSE "ensure_tls"
            /\ file'["client"] = new
        BY <3>1, <3>3, Order
      <4> QED
        BY <3>1, <3>3, <4>1 DEF Making, Course
    <3>4. CASE pc \in {"ca", "key"}
      BY <3>1, <3>4, Order DEF Making, Course
    <3>5. CASE pc = "cert"
      BY <1>1, <3>1, <3>5, Order DEF Making, Course
    <3> QED
      BY <3>1, <3>2, <3>3, <3>4, <3>5
  <2> QED
    BY <2>1, <2>2
<1>9. ASSUME Alter PROVE Making'
  <2>1. /\ pc = "alter"
        /\ \/ Fail
           \/ \E v \in Values : /\ role' = [role EXCEPT ![command] = v] /\ new' = v /\ pc' = "env"
                                /\ UNCHANGED <<command, todo>>
    BY <1>9, FreshIs DEF Alter, Goto
  <2>2. command \in Databases /\ role \in [Databases -> Held]
    BY <2>1 DEF Course, TypeOK
  <2> QED
    BY <1>2, <2>1, <2>2 DEF Making
<1>10. ASSUME SetEnv \/ Plan \/ CmsInit \/ Started \/ Seed PROVE Making'
  <2>1. Fail \/ pc' \in {"plan", "recreate", "done"}
    BY <1>10 DEF SetEnv, Plan, CmsInit, Started, Seed, Goto
  <2> QED
    BY <1>1, <1>2, <2>1
<1>11. ASSUME Update PROVE Making'
  <2>1. \/ Fail
        \/ /\ pc = "update" /\ keycloak' = new /\ pc' = "render"
           /\ UNCHANGED <<command, file, scenario>>
    BY <1>11 DEF Update, Goto
  <2> QED
    BY <1>2, <2>1 DEF Making, Course
<1>12. ASSUME Render PROVE Making'
  <2>1. /\ pc = "render" /\ providers' = file["client"]
        /\ pc' = IF command = "client" THEN "seed" ELSE "plan"
        /\ UNCHANGED <<command, file, scenario, keycloak>>
    BY <1>12 DEF Render, Goto
  <2> QED
    BY <1>1, <2>1 DEF Making
<1>13. ASSUME NEW s \in Services, Start(s) PROVE Making'
  <2>1. Fail \/ pc' = "recreate"
    BY <1>13, Shakes
  <2> QED
    BY <1>1, <1>2, <2>1
<1>14. ASSUME NEW s \in Services, Restart(s) PROVE Making'
  <2>1. pc' \in {"idle", "done"}
    BY <1>14, Shakes
  <2> QED
    BY <1>1, <2>1
<1>15. ASSUME Interrupt PROVE Making'
  BY <1>1, <1>15 DEF Interrupt
<1>16. ASSUME Repair PROVE Making'
  <2>1. command' = "keys" /\ pc' = "ensure_jwt"
    BY <1>16, Order DEF Repair
  <2> QED
    BY <2>1 DEF Making
<1>17. ASSUME UNCHANGED vars PROVE Making'
  BY <1>17 DEF vars, Making
<1> QED
  BY <1>3, <1>4, <1>5, <1>6, <1>7, <1>8, <1>9, <1>10, <1>11, <1>12, <1>13, <1>14, <1>15, <1>16, <1>17
     DEF Next, Step

(* What the other steps do to what is loaded and to the roles: only a password *)
(* that is rotated changes, in Postgres                                        *)
LEMMA Unshaken ==
    ASSUME TypeOK, Course, [Next]_vars
    PROVE  \/ Shaking /\ (pc = "recreate" \/ running # {})
           \/ UNCHANGED <<running, password, sign, verify, served, role, scenario>>
           \/ /\ UNCHANGED <<running, password, sign, verify, served, scenario>>
              /\ pc = "alter" /\ command \in Databases /\ role[command] # Absent
              /\ \E v \in Values : role' = [role EXCEPT ![command] = v]
<1> DEFINE Still == UNCHANGED <<running, password, sign, verify, served, role, scenario>>
<1> USE DEF files, values, loaded, cli, history
<1>1. ASSUME NEW c, Begin(c) PROVE Still
  BY <1>1 DEF Begin
<1>2. ASSUME Unlink \/ EnsureJwt \/ EnsureClient \/ EnsureTls \/ Plan PROVE Still
  BY <1>2 DEF Unlink, EnsureJwt, EnsureClient, EnsureTls, Plan, Fail
<1>3. ASSUME WriteFile \/ SetEnv \/ Update \/ Render \/ Seed \/ Started \/ Repair PROVE Still
  BY <1>3 DEF WriteFile, SetEnv, Update, Render, Seed, Started, Repair, Fail
<1>4. ASSUME Alter
      PROVE  \/ Still
             \/ /\ UNCHANGED <<running, password, sign, verify, served, scenario>>
                /\ pc = "alter" /\ command \in Databases /\ role[command] # Absent
                /\ \E v \in Values : role' = [role EXCEPT ![command] = v]
  BY <1>4, FreshIs DEF Alter, Fail, Course
<1>5. ASSUME Interrupt
      PROVE  \/ Shaking /\ pc = "recreate"
             \/ Still
             \/ /\ UNCHANGED <<running, password, sign, verify, served, scenario>>
                /\ pc = "alter" /\ command \in Databases /\ role[command] # Absent
                /\ \E v \in Values : role' = [role EXCEPT ![command] = v]
  <2>1. UNCHANGED scenario
    BY <1>5 DEF Interrupt
  <2> QED
    BY <1>5, <2>1, ShakingSteps, FreshIs DEF Shaking, Course
<1>6. ASSUME CmsInit PROVE Still \/ (Shaking /\ pc = "recreate")
  BY <1>6, ShakingSteps DEF CmsInit
<1>7. ASSUME NEW s \in Services, Start(s) \/ Restart(s)
      PROVE  Shaking /\ (pc = "recreate" \/ running # {})
  BY <1>7, ShakingSteps DEF Start, Restart
<1> QED
  BY <1>1, <1>2, <1>3, <1>4, <1>5, <1>6, <1>7 DEF Next, Step, vars

(* What runs has a role, and what does not has nothing loaded *)
LEMMA LoadsStep ==
    ASSUME TypeOK, Course, Loads, [Next]_vars
    PROVE  Loads'
<1> USE Names
<1>1. ASSUME UNCHANGED <<running, password, sign, verify, served, role, scenario>> PROVE Loads'
  BY <1>1 DEF Loads, Services
<1>2. ASSUME UNCHANGED <<running, password, sign, verify, served, scenario>>, role[command] # Absent,
             NEW v \in Values, role' = [role EXCEPT ![command] = v]
      PROVE  Loads'
  <2>1. \A d \in Databases : role'[d] # Absent <=> role[d] # Absent
    BY <1>2 DEF TypeOK
  <2> QED
    BY <1>2, <2>1 DEF Loads, Services
<1>3. ASSUME NEW up, NEW s, NEW p, Shaken(up, s, p) PROVE Loads'
  <2>1. /\ up \subseteq running \cup {s} /\ s \in Services \cup {"none"} /\ "none" \notin Databases
        /\ Containers(up, s, p) /\ Services' = Services
    BY <1>3, ShakenType DEF Shaken
  <2>2. /\ running' = up
        /\ \A d \in Databases : d \notin up => password'[d] = Absent
        /\ "cms" \notin up => sign' = Absent
        /\ "engine" \notin up => verify' = Absent
        /\ "traefik" \notin up => served'["key"] = Absent /\ served'["cert"] = Absent
        /\ \A d \in Databases : role'[d] = IF d = s THEN RoleOf(d) ELSE role[d]
    BY <2>1, ContainersDo
  <2>3. \A d \in Databases : RoleOf(d) # Absent
    BY DEF RoleOf, TypeOK
  <2> QED
    BY <2>1, <2>2, <2>3 DEF Loads
<1> QED
  BY <1>1, <1>2, <1>3, Unshaken DEF Shaking

(* A rotation stays done, whatever containers start or stop *)
LEMMA RotatedStep ==
    ASSUME TypeOK, Course, Files, Making, Rotated, [Next]_vars
    PROVE  Rotated'
<1> USE Names DEF files, values, loaded, cli, history
<1>0. /\ file \in [KeyFiles -> Content] /\ env \in [Databases -> Values] /\ role \in [Databases -> Held]
      /\ scenario \in Scenarios /\ Absent \notin Values
  BY DEF TypeOK
<1>1. ASSUME pc' \notin {"plan", "recreate", "done"} PROVE Rotated'
  BY <1>1 DEF Rotated
<1>2. Fail => Rotated'
  BY <1>1, FailType
<1>3. ASSUME command' \in {"up", "keys"} PROVE Rotated'
  BY <1>3 DEF Rotated
<1>4. ASSUME NEW c \in scenario \cup {"up", "keys"}, Begin(c) PROVE Rotated'
  BY <1>0, <1>1, <1>4, Order DEF Begin
<1>5. ASSUME Unlink PROVE Rotated'
  BY <1>1, <1>2, <1>5, Unlinked
<1>6. ASSUME EnsureJwt \/ EnsureClient \/ EnsureTls PROVE Rotated'
  BY <1>1, <1>2, <1>3, <1>6, Ensured DEF Course
<1>7. ASSUME WriteFile PROVE Rotated'
  <2>1. CASE Fail
    BY <1>2, <2>1
  <2>2. CASE ~Fail
    <3>1. /\ pc \in KeyFiles /\ pc' = AfterWrite(pc) /\ new \in Values
          /\ \A f \in KeyFiles : file'[f] = IF f = pc THEN new ELSE file[f]
          /\ UNCHANGED command
      BY <1>7, <2>2, Written
    <3>2. CASE pc \in {"priv", "client", "ca", "key"}
      BY <1>1, <3>1, <3>2, Order
    <3>3. CASE pc = "pub"
      BY <1>1, <3>1, <3>3, Order DEF Making, Rotated
    <3>4. CASE pc = "cert"
      <4>1. command \in {"tls", "up", "keys"}
        BY <3>4 DEF Course
      <4> QED
        BY <1>3, <3>1, <3>4, <4>1 DEF Making, Rotated
    <3> QED
      BY <3>1, <3>2, <3>3, <3>4
  <2> QED
    BY <2>1, <2>2
<1>8. ASSUME Alter \/ Update PROVE Rotated'
  <2>1. Fail \/ pc' \in {"env", "render"}
    BY <1>8 DEF Alter, Update, Goto
  <2> QED
    BY <1>1, <1>2, <2>1
<1>9. ASSUME SetEnv PROVE Rotated'
  <2>1. /\ pc = "env" /\ env' = [env EXCEPT ![command] = new] /\ UNCHANGED <<role, command>>
    BY <1>9 DEF SetEnv, Goto
  <2>2. command \in Databases /\ role[command] = new
    BY <2>1 DEF Course, Making
  <2> QED
    BY <1>0, <2>1, <2>2 DEF Rotated
<1>10. ASSUME Render PROVE Rotated'
  <2>1. /\ pc = "render" /\ UNCHANGED command
        /\ pc' = IF command = "client" THEN "seed" ELSE "plan"
    BY <1>10 DEF Render, Goto
  <2> QED
    BY <1>1, <1>3, <2>1 DEF Course
<1>11. ASSUME Seed PROVE Rotated'
  <2>1. /\ pc = "seed"
        /\ Fail \/ (seeded' = providers /\ UNCHANGED <<file, keycloak, providers, command>>)
    BY <1>11 DEF Seed, Goto
  <2> QED
    BY <1>2, <2>1 DEF Rotated, Making, Course
<1>12. ASSUME UNCHANGED <<file, role, env, keycloak, providers, seeded, command>>,
             pc \in {"plan", "recreate", "done"}, pc' = "done" => pc = "done" \/ command # "client"
      PROVE  Rotated'
  BY <1>12 DEF Rotated
<1>13. ASSUME NEW up, NEW s, NEW p, Shaken(up, s, p), UNCHANGED <<command, pc>> PROVE Rotated'
  <2> SUFFICES ASSUME pc \in {"plan", "recreate", "done"} PROVE Rotated'
    BY <1>1, <1>13
  <2>1. /\ \A f \in KeyFiles : f # "pub" => file'[f] = file[f]
        /\ file["pub"] # Absent => file'["pub"] = file["pub"]
    BY <1>13, ShakenFiles
  <2>2. Containers(up, s, p)
    BY <1>13 DEF Shaken
  <2>3. /\ keycloak' = IF s = "keycloak" /\ keycloak = Absent THEN providers ELSE keycloak
        /\ seeded' \in {seeded, providers} /\ UNCHANGED <<env, providers>>
        /\ \A d \in Databases : role'[d] = IF d = s THEN RoleOf(d) ELSE role[d]
    BY <2>2, ContainersDo
  <2>4. command \in Databases => role'[command] = env[command]
    BY <1>0, <2>3 DEF Rotated, RoleOf
  <2> QED
    BY <1>0, <1>13, <2>1, <2>3, <2>4 DEF Rotated, KeyFiles
<1>14. ASSUME Plan PROVE Rotated'
  <2>1. \/ Fail
        \/ pc = "plan" /\ pc' = "recreate"
           /\ UNCHANGED <<file, role, env, keycloak, providers, seeded, command>>
    BY <1>14 DEF Plan
  <2> QED
    BY <1>2, <1>12, <2>1
<1>15. ASSUME CmsInit PROVE Rotated'
  <2>1. \/ Fail
        \/ pc = "recreate" /\ UNCHANGED <<pc, file, role, env, keycloak, providers, seeded, command>>
    BY <1>15 DEF CmsInit
  <2> QED
    BY <1>2, <1>12, <2>1
<1>16. ASSUME NEW s \in Services, Start(s) PROVE Rotated'
  BY <1>2, <1>13, <1>16, Shakes
<1>17. ASSUME Started PROVE Rotated'
  <2>1. pc = "recreate" /\ UNCHANGED <<file, role, env, keycloak, providers, seeded, command>>
    BY <1>17 DEF Started, Goto
  <2> QED
    BY <1>12, <2>1 DEF Course
<1>18. ASSUME NEW s \in Services, Restart(s) PROVE Rotated'
  BY <1>13, <1>18, Shakes
<1>19. ASSUME Interrupt PROVE Rotated'
  BY <1>1, <1>19 DEF Interrupt
<1>20. ASSUME Repair PROVE Rotated'
  BY <1>3, <1>20 DEF Repair
<1>21. ASSUME UNCHANGED vars PROVE Rotated'
  BY <1>21 DEF vars, Rotated
<1> QED
  BY <1>4, <1>5, <1>6, <1>7, <1>8, <1>9, <1>10, <1>11, <1>14, <1>15, <1>16, <1>17, <1>18, <1>19,
     <1>20, <1>21 DEF Next, Step

(* It takes one interruption to leave a public key alone, and a second one for *)
(* two keys of different pairs                                                *)
LEMMA PairStep ==
    ASSUME TypeOK, Course, Files, Making, Pair, [Next]_vars
    PROVE  Pair'
<1> USE Names DEF files, values, loaded, cli, history
<1>0. /\ faults \in Nat /\ file \in [KeyFiles -> Content]
      /\ Absent \notin Values /\ Torn \notin Values /\ Directory \notin Values
  BY DEF TypeOK
<1>1. ASSUME UNCHANGED <<file, faults>>, pc' \notin {"priv", "pub"}, pc \notin {"pub", "unlink_pub"}
      PROVE  Pair'
  BY <1>1 DEF Pair, Exists
<1>2. ASSUME NEW c \in scenario \cup {"up", "keys"}, Begin(c) PROVE Pair'
  <2>1. pc' \notin {"priv", "pub"}
    <3>1. scenario \subseteq {"jwt", "tls", "client"} \cup Databases
      BY DEF TypeOK
    <3> QED
      BY <1>2, <3>1, Order DEF Begin
  <2> QED
    BY <1>1, <1>2, <2>1 DEF Begin
<1>3. ASSUME Unlink PROVE Pair'
  <2>0. UNCHANGED faults
    BY <1>3, Unlinked
  <2>1. CASE Fail
    BY <1>0, <1>3, <2>0, <2>1, FailType, Unlinked DEF Pair, Exists
  <2>2. CASE ~Fail
    <3>1. \/ /\ pc' = "unlink_pub" /\ file'["priv"] = Absent
          \/ /\ pc' = "ensure_jwt" /\ file'["pub"] = Absent
      BY <1>3, <2>2, Unlinked DEF KeyFiles
    <3> QED
      BY <1>0, <2>0, <3>1 DEF Pair, Exists
  <2> QED
    BY <2>1, <2>2
<1>4. ASSUME EnsureJwt PROVE Pair'
  <2>1. /\ pc = "ensure_jwt" /\ UNCHANGED <<file, faults>>
        /\ pc' = "ensure_client" \/ (pc' = "priv" /\ ~(Exists("priv") /\ Exists("pub")))
    BY <1>4, Ensured
  <2> QED
    BY <1>1, <2>1 DEF Pair, Exists
<1>5. ASSUME EnsureClient \/ EnsureTls PROVE Pair'
  <2>1. /\ pc \in {"ensure_client", "ensure_tls"} /\ UNCHANGED <<file, faults>>
        /\ pc' \in {"idle", "ensure_tls", "client", "ca", "render", "done"}
    BY <1>5, Ensured, Order, FailType
  <2> QED
    BY <1>1, <2>1
<1>6. ASSUME WriteFile PROVE Pair'
  <2>0. pc \in KeyFiles /\ UNCHANGED faults
    BY <1>6, Written
  <2>1. CASE Fail
    <3>1. pc' = "idle" /\ file["pub"] = Directory /\ file' = file
      BY <1>6, <2>1, FailType, Written
    <3> QED
      BY <1>0, <2>0, <3>1 DEF Pair
  <2>2. CASE ~Fail
    <3>1. /\ pc' = AfterWrite(pc) /\ new \in Values
          /\ \A f \in KeyFiles : file'[f] = IF f = pc THEN new ELSE file[f]
      BY <1>6, <2>2, Written
    <3>2. CASE pc = "priv"
      <4>1. pc' = "pub" /\ file'["priv"] = new /\ file'["pub"] = file["pub"]
        BY <3>1, <3>2, Order DEF KeyFiles
      <4>2. file["pub"] \in Values => faults >= 1
        BY <1>0, <3>2 DEF Pair, Exists
      <4> QED
        BY <1>0, <2>0, <3>1, <4>1, <4>2 DEF Pair, Exists
    <3>3. CASE pc = "pub"
      <4>1. pc' \in {"plan", "ensure_client"} /\ file'["pub"] = new /\ file'["priv"] = new
        BY <3>1, <3>3, Order DEF KeyFiles, Making
      <4> QED
        BY <1>0, <3>1, <4>1 DEF Pair, Exists
    <3>4. CASE pc \in {"client", "ca", "key", "cert"}
      <4>1. file'["pub"] = file["pub"] /\ file'["priv"] = file["priv"]
        BY <3>1, <3>4 DEF KeyFiles
      <4>2. pc' \notin {"priv", "pub"}
        BY <3>1, <3>4, Order
      <4> QED
        BY <2>0, <3>4, <4>1, <4>2 DEF Pair, Exists
    <3> QED
      BY <2>0, <3>2, <3>3, <3>4
  <2> QED
    BY <2>1, <2>2
<1>7. ASSUME Alter \/ SetEnv \/ Update \/ Render \/ Seed \/ Plan \/ Started PROVE Pair'
  <2>1. /\ pc \in {"alter", "env", "update", "render", "seed", "plan", "recreate"}
        /\ pc' \in {"idle", "env", "plan", "render", "seed", "recreate", "done"}
        /\ UNCHANGED <<file, faults>>
    BY <1>7 DEF Alter, SetEnv, Update, Render, Seed, Plan, Started, Goto, Fail
  <2> QED
    BY <1>1, <2>1
<1>8. ASSUME NEW up, NEW s, NEW p, Shaken(up, s, p), UNCHANGED faults,
             pc \notin {"pub", "unlink_pub"}, pc' \notin {"priv", "pub"}
      PROVE  Pair'
  <2>1. /\ file'["priv"] = file["priv"]
        /\ file'["pub"] \in {file["pub"], Directory}
    BY <1>8, ShakenFiles DEF KeyFiles
  <2> QED
    BY <1>0, <1>8, <2>1 DEF Pair, Exists
<1>9. ASSUME CmsInit PROVE Pair'
  <2>1. /\ pc = "recreate" /\ pc' \in {"recreate", "idle"} /\ UNCHANGED faults
        /\ Shaking \/ UNCHANGED file
    BY <1>9, ShakingSteps DEF CmsInit, Fail
  <2> QED
    BY <1>1, <1>8, <2>1 DEF Shaking
<1>10. ASSUME NEW s \in Services, Start(s) PROVE Pair'
  <2>1. pc = "recreate" /\ pc' \in {"recreate", "idle"} /\ UNCHANGED faults /\ Shaking
    BY <1>10, Shakes, FailType DEF Shaking
  <2> QED
    BY <1>8, <2>1 DEF Shaking
<1>11. ASSUME NEW s \in Services, Restart(s) PROVE Pair'
  <2>1. pc \in {"idle", "done"} /\ UNCHANGED <<pc, faults>> /\ Shaking
    BY <1>11, Shakes DEF Shaking
  <2> QED
    BY <1>8, <2>1 DEF Shaking
<1>12. ASSUME Interrupt PROVE Pair'
  <2>1. pc' = "idle" /\ faults' = faults + 1
    BY <1>12 DEF Interrupt
  <2>2. ASSUME UNCHANGED file PROVE Pair'
    <3>1. file["priv"] # file["pub"] /\ {file["priv"], file["pub"]} \subseteq Values => faults >= 1
      BY <1>0 DEF Pair
    <3> QED
      BY <1>0, <2>1, <2>2, <3>1 DEF Pair, Exists
  <2>3. ASSUME pc \in KeyFiles, file' = [file EXCEPT ![pc] = Torn] PROVE Pair'
    <3>1. \A f \in KeyFiles : file'[f] = IF f = pc THEN Torn ELSE file[f]
      BY <1>0, <2>3
    <3>2. pc # "pub" /\ {file["priv"], file["pub"]} \subseteq Values /\ file["priv"] # file["pub"]
            => faults >= 2
      BY DEF Pair
    <3> QED
      BY <1>0, <2>1, <2>3, <3>1, <3>2 DEF Pair, Exists, KeyFiles
  <2>4. ASSUME NEW up, NEW s, NEW p, Shaken(up, s, p), pc = "recreate" PROVE Pair'
    <3>1. /\ file'["priv"] = file["priv"]
          /\ file'["pub"] \in {file["pub"], Directory}
      BY <2>4, ShakenFiles DEF KeyFiles
    <3> QED
      BY <1>0, <2>1, <2>4, <3>1 DEF Pair, Exists
  <2> QED
    BY <1>12, <2>2, <2>3, <2>4, ShakingSteps
<1>13. ASSUME Repair PROVE Pair'
  <2>1. PICK f \in KeyFiles : file[f] = Directory /\ file' = [file EXCEPT ![f] = Absent]
    BY <1>13 DEF Repair
  <2>2. file'["pub"] = Absent
    BY <1>0, <2>1 DEF Files
  <2>3. pc' = "ensure_jwt"
    BY <1>13, Order DEF Repair
  <2> QED
    BY <1>0, <2>2, <2>3 DEF Pair
<1>14. ASSUME UNCHANGED vars PROVE Pair'
  BY <1>14 DEF vars, Pair, Exists
<1> QED
  BY <1>2, <1>3, <1>4, <1>5, <1>6, <1>7, <1>9, <1>10, <1>11, <1>12, <1>13, <1>14 DEF Next, Step

(* A service that runs with what there is goes on to when another is started *)
LEMMA CurrentStays ==
    ASSUME TypeOK, NEW up, NEW s, NEW p, Shaken(up, s, p), NEW t \in up, t # s, Current(t)
    PROVE  Current(t)'
<1>1. Containers(up, s, p)
  BY DEF Shaken
<1>2. running' = up /\ env' = env
  BY <1>1, ContainersDo
<1>3. t = "cms" => (sign = file["priv"] => sign' = file'["priv"])
  BY <1>1, ContainersDo, ShakenFiles DEF KeyFiles
<1>4. t = "engine" => verify' = verify /\ file'["pub"] = file["pub"]
  BY <1>1, ContainersDo, ShakenFiles
<1>5. t = "traefik" => /\ served'["key"] = served["key"] /\ served'["cert"] = served["cert"]
                       /\ file'["key"] = file["key"] /\ file'["cert"] = file["cert"]
  BY <1>1, ContainersDo, ShakenFiles DEF KeyFiles
<1>6. t \in Databases => password'[t] = password[t] /\ role'[t] = role[t]
  BY <1>1, ContainersDo
<1> QED
  BY <1>2, <1>3, <1>4, <1>5, <1>6 DEF Current

(* ... and one that is started with the password of .env, and becomes healthy, *)
(* runs with what there is                                                    *)
LEMMA CurrentNow ==
    ASSUME TypeOK, Files, NEW up, NEW s, NEW p, Shaken(up, s, p), s \in up,
           s \in Databases => p = env[s]
    PROVE  Current(s)'
<1>1. Containers(up, s, p) /\ Healthy(s, p)
  BY DEF Shaken
<1>2. running' = up /\ env' = env
  BY <1>1, ContainersDo
<1>3. s = "cms" => sign' = file["priv"] /\ file'["priv"] = file["priv"]
  BY <1>1, ContainersDo, ShakenFiles DEF KeyFiles
<1>4. s = "engine" => verify' = PubMounted /\ file'["pub"] = PubMounted /\ PubMounted \in Values
  BY <1>1, ContainersDo DEF Healthy, KeyFiles
<1>5. s = "traefik" => /\ served'["key"] = file["key"] /\ served'["cert"] = file["cert"]
                       /\ file'["key"] = file["key"] /\ file'["cert"] = file["cert"]
  BY <1>1, ContainersDo, ShakenFiles DEF KeyFiles
<1>6. s \in Databases => password'[s] = p /\ role'[s] = RoleOf(s) /\ p = RoleOf(s)
  BY <1>1, ContainersDo DEF Healthy, Connects
<1> QED
  BY <1>2, <1>3, <1>4, <1>5, <1>6 DEF Current

(* What a rotation recreates has loaded the new value, and keeps it *)
LEMMA RecreatedStep ==
    ASSUME TypeOK, Course, Files, Making, Rotated, Recreated, [Next]_vars
    PROVE  Recreated'
<1> USE Names DEF files, values, loaded, cli, history
<1>0. command \in scenario \cup {"up", "keys"} /\ scenario \subseteq {"jwt", "tls", "client"} \cup Databases
  BY DEF TypeOK, Course
<1>1. ASSUME pc' \notin {"recreate", "done"} PROVE Recreated'
  BY <1>1 DEF Recreated
<1>2. Fail => Recreated'
  BY <1>1, FailType
<1>3. ASSUME command' \in {"up", "keys", "client"} PROVE Recreated'
  BY <1>3 DEF Recreated
<1>4. ASSUME NEW c \in scenario \cup {"up", "keys"}, Begin(c) PROVE Recreated'
  BY <1>0, <1>1, <1>4, Order DEF Begin
<1>5. ASSUME Unlink PROVE Recreated'
  BY <1>1, <1>2, <1>5, Unlinked
<1>6. ASSUME EnsureJwt \/ EnsureClient \/ EnsureTls PROVE Recreated'
  BY <1>1, <1>2, <1>3, <1>6, Ensured DEF Course
<1>7. ASSUME WriteFile PROVE Recreated'
  <2>1. pc \in KeyFiles /\ (Fail \/ (pc' = AfterWrite(pc) /\ UNCHANGED command))
    BY <1>7, Written
  <2>2. pc = "cert" => command \in {"tls", "up", "keys"}
    BY DEF Course
  <2>3. pc' = AfterWrite(pc) => pc' \notin {"recreate", "done"} \/ command \in {"up", "keys"}
    BY <2>1, <2>2, Order
  <2> QED
    BY <1>1, <1>2, <1>3, <2>1, <2>3
<1>8. ASSUME Alter \/ SetEnv \/ Update \/ Render PROVE Recreated'
  <2>1. Fail \/ pc' \in {"env", "plan", "render", "seed"}
    BY <1>8 DEF Alter, SetEnv, Update, Render, Goto
  <2> QED
    BY <1>1, <1>2, <2>1
<1>9. ASSUME Seed PROVE Recreated'
  <2>1. Fail \/ UNCHANGED command
    BY <1>9 DEF Seed, Goto
  <2>2. command = "client"
    BY <1>9 DEF Seed, Course
  <2> QED
    BY <1>2, <1>3, <2>1, <2>2
<1>10. ASSUME Plan PROVE Recreated'
  <2>1. CASE Fail
    BY <1>2, <2>1
  <2>2. CASE ~Fail /\ command # "up"
    <3>1. todo' = {s \in Concerned : Outdated(s)} /\ UNCHANGED command
      BY <1>10, <2>2 DEF Plan
    <3>2. Concerned = UNION {Needs(s) \cup {s} : s \in Forced}
      BY <2>2 DEF Concerned
    <3>3. Forced \subseteq todo' /\ Forced' = Forced
      BY <3>1, <3>2 DEF Outdated, Forced
    <3> QED
      BY <3>3 DEF Recreated
  <2>3. CASE ~Fail /\ command = "up"
    BY <1>3, <1>10, <2>3 DEF Plan
  <2> QED
    BY <2>1, <2>2, <2>3
<1>11. UNCHANGED command => Forced' = Forced
  BY DEF Forced
<1>12. ASSUME CmsInit PROVE Recreated'
  <2>1. CASE Fail
    BY <1>2, <2>1
  <2>2. CASE ~Fail
    <3>1. /\ pc = "recreate" /\ todo' = todo \ {"cms-init"}
          /\ UNCHANGED <<files, values, loaded, command, pc>>
      BY <1>12, <2>2 DEF CmsInit
    <3>2. "cms-init" \notin Forced
      BY <1>0 DEF Forced
    <3>3. \A s : Current(s) => Current(s)'
      BY <3>1 DEF Current
    <3> QED
      BY <1>11, <3>1, <3>2, <3>3 DEF Recreated
  <2> QED
    BY <2>1, <2>2
<1>13. ASSUME NEW s \in Services, Start(s) PROVE Recreated'
  <2>1. CASE Fail
    BY <1>2, <2>1
  <2>2. CASE ~Fail
    <3>1. /\ pc = "recreate" /\ Shaken(running \cup {s}, s, Given(s))
          /\ todo' = todo \ {s} /\ UNCHANGED <<command, pc>>
      BY <1>13, <2>2, Shakes
    <3>2. Current(s)'
      BY <3>1, CurrentNow DEF Given
    <3>3. \A t : Current(t) => Current(t)'
      <4> SUFFICES ASSUME NEW t, Current(t), t # s PROVE Current(t)'
        BY <3>2
      <4>1. t \in running \cup {s}
        BY DEF Current
      <4> QED
        BY <3>1, <4>1, CurrentStays
    <3> QED
      BY <1>11, <3>1, <3>2, <3>3 DEF Recreated
  <2> QED
    BY <2>1, <2>2
<1>14. ASSUME Started PROVE Recreated'
  <2>1. pc = "recreate" /\ UNCHANGED <<files, values, loaded, command, todo>>
    BY <1>14 DEF Started, Goto
  <2>2. \A s : Current(s) => Current(s)'
    BY <2>1 DEF Current
  <2> QED
    BY <1>11, <2>1, <2>2 DEF Recreated
<1>15. ASSUME NEW s \in Services, Restart(s) PROVE Recreated'
  <2>1. /\ pc \in {"idle", "done"} /\ s \in running /\ UNCHANGED <<command, pc, todo>>
        /\ \/ Shaken(running, s, Kept(s))
           \/ ~Healthy(s, Kept(s)) /\ Shaken(running \ {s}, s, Kept(s))
    BY <1>15, Shakes
  <2> SUFFICES ASSUME pc = "done", NEW t \in Forced \ todo, Current(t) PROVE Current(t)'
    BY <1>1, <1>11, <2>1 DEF Recreated
  <2>2. CASE t # s
    <3>1. t \in running
      BY DEF Current
    <3> QED
      BY <2>1, <2>2, <3>1, CurrentStays
  <2>3. CASE t = s
    <3>1. s \in Databases => Kept(s) = env[s] /\ RoleOf(s) = env[s]
      BY <2>3 DEF Current, Kept, RoleOf
    <3>2. s = "engine" => PubMounted \in Values
      BY <2>3 DEF Current, PubMounted, Exists
    <3>3. Healthy(s, Kept(s))
      BY <3>1, <3>2 DEF Healthy, Connects
    <3> QED
      BY <2>1, <2>3, <3>1, <3>3, CurrentNow
  <2> QED
    BY <2>2, <2>3
<1>16. ASSUME Interrupt \/ Repair PROVE Recreated'
  <2>1. pc' \in {"idle", "ensure_jwt"}
    BY <1>16, Order DEF Interrupt, Repair
  <2> QED
    BY <1>1, <2>1
<1>17. ASSUME UNCHANGED vars PROVE Recreated'
  BY <1>17 DEF vars, Recreated, Forced, Current
<1> QED
  BY <1>4, <1>5, <1>6, <1>7, <1>8, <1>9, <1>10, <1>12, <1>13, <1>14, <1>15, <1>16, <1>17
     DEF Next, Step

(* Passwords and roles after containers start or stop *)
LEMMA ShakenDb ==
    ASSUME TypeOK, NEW up, NEW s, NEW p, Shaken(up, s, p), NEW d \in Databases
    PROVE  /\ env'[d] = env[d]
           /\ password'[d] = IF d \notin up THEN Absent ELSE IF d = s THEN p ELSE password[d]
           /\ role'[d] = IF d = s THEN RoleOf(d) ELSE role[d]
           /\ RoleOf(d)' = RoleOf(d) /\ RoleOf(d) # Absent
<1>1. Containers(up, s, p) /\ env' = env
  BY DEF Shaken
<1>2. /\ password'[d] = IF d \notin up THEN Absent ELSE IF d = s THEN p ELSE password[d]
      /\ role'[d] = IF d = s THEN RoleOf(d) ELSE role[d]
  BY <1>1, ContainersDo
<1>3. RoleOf(d) # Absent
  BY Names DEF RoleOf, TypeOK
<1> QED
  BY <1>1, <1>2, <1>3 DEF RoleOf

(* What an `up` has started goes on with the password of .env *)
LEMMA ServedStep ==
    ASSUME TypeOK, Course, Files, Making, Loads, Served, [Next]_vars
    PROVE  Served'
<1> USE Names DEF files, values, loaded, cli, history
<1>0. command \in scenario \cup {"up", "keys"} /\ scenario \subseteq {"jwt", "tls", "client"} \cup Databases
  BY DEF TypeOK, Course
<1>1. ASSUME pc' \notin {"recreate", "done"} \/ command' # "up" PROVE Served'
  BY <1>1 DEF Served
<1>2. Fail => Served'
  BY <1>1, FailType
<1>3. ASSUME NEW c \in scenario \cup {"up", "keys"}, Begin(c) PROVE Served'
  BY <1>0, <1>1, <1>3, Order DEF Begin
<1>4. ASSUME Unlink PROVE Served'
  BY <1>1, <1>2, <1>4, Unlinked
<1>5. ASSUME EnsureJwt \/ EnsureClient \/ EnsureTls PROVE Served'
  BY <1>1, <1>2, <1>5, Ensured, Order
<1>6. ASSUME WriteFile PROVE Served'
  <2>1. pc \in KeyFiles /\ (Fail \/ (pc' = AfterWrite(pc) /\ UNCHANGED command))
    BY <1>6, Written
  <2>2. pc' = AfterWrite(pc) => pc' \notin {"recreate", "done"} \/ command # "up"
    BY <2>1, Order
  <2> QED
    BY <1>1, <1>2, <2>1, <2>2
<1>7. ASSUME Alter \/ SetEnv \/ Update \/ Render \/ Seed PROVE Served'
  <2>1. Fail \/ pc' \in {"env", "plan", "render", "seed"} \/ (pc = "seed" /\ UNCHANGED command)
    BY <1>7 DEF Alter, SetEnv, Update, Render, Seed, Goto
  <2> QED
    BY <1>1, <1>2, <2>1 DEF Course
<1>8. ASSUME Plan PROVE Served'
  <2>1. CASE Fail \/ command # "up"
    BY <1>1, <1>2, <1>8, <2>1 DEF Plan
  <2>2. CASE ~Fail /\ command = "up"
    <3>1. /\ todo' = {s \in Services \cup {"cms-init"} : Outdated(s)}
          /\ UNCHANGED <<env, role, password>>
      BY <1>8, <2>2 DEF Plan, Concerned
    <3>2. ASSUME NEW d \in Databases \ todo' PROVE password'[d] \in {env'[d], Absent}
      <4>1. d \notin Services => password[d] = Absent
        BY DEF Loads, TypeOK
      <4> QED
        BY <3>1, <3>2, <4>1 DEF Outdated
    <3>3. "cms-init" \in todo'
      BY <3>1, ServicesAre DEF Outdated, TypeOK
    <3>4. "cms" \in Databases /\ "cms" \notin todo' => role["cms"] # Absent
      BY <3>1, ServicesAre DEF Outdated, Loads
    <3> QED
      BY <3>1, <3>2, <3>3, <3>4 DEF Served
  <2> QED
    BY <2>1, <2>2
<1>9. ASSUME CmsInit PROVE Served'
  <2>1. CASE Fail
    BY <1>2, <2>1
  <2>2. CASE ~Fail
    <3>1. /\ pc = "recreate" /\ todo' = todo \ {"cms-init"}
          /\ UNCHANGED <<env, role, password, command, pc>>
          /\ "cms" \in Databases => env["cms"] = RoleOf("cms")
      BY <1>9, <2>2 DEF CmsInit, Connects
    <3>2. "cms-init" \notin Databases /\ \A d : RoleOf(d)' = RoleOf(d)
      BY <3>1 DEF RoleOf
    <3> QED
      BY <3>1, <3>2 DEF Served
  <2> QED
    BY <2>1, <2>2
<1>10. ASSUME NEW s \in Services, Start(s) PROVE Served'
  <2>1. CASE Fail
    BY <1>2, <2>1
  <2>2. CASE ~Fail
    <3>1. /\ pc = "recreate" /\ Shaken(running \cup {s}, s, Given(s))
          /\ todo' = todo \ {s} /\ UNCHANGED <<command, pc>>
      BY <1>10, <2>2, Shakes
    <3>2. "cms-init" # s
      BY ServicesAre
    <3> SUFFICES ASSUME command = "up" PROVE Served'
      BY <3>1 DEF Served
    <3>3. ASSUME NEW d \in Databases \ todo' PROVE password'[d] \in {env'[d], Absent}
      <4>1. d # s => password[d] \in {env[d], Absent}
        BY <3>1, <3>3 DEF Served
      <4> QED
        BY <3>1, <3>3, <4>1, ShakenDb DEF Given
    <3>4. ASSUME "cms" \in Databases PROVE /\ "cms-init" \notin todo' => RoleOf("cms")' = env'["cms"]
                                           /\ "cms" \notin todo' => role'["cms"] # Absent
      <4>1. /\ env'["cms"] = env["cms"] /\ RoleOf("cms")' = RoleOf("cms") /\ RoleOf("cms") # Absent
            /\ role'["cms"] = IF "cms" = s THEN RoleOf("cms") ELSE role["cms"]
        BY <3>1, <3>4, ShakenDb
      <4> QED
        BY <3>1, <3>2, <3>4, <4>1 DEF Served
    <3> QED
      BY <3>3, <3>4 DEF Served
  <2> QED
    BY <2>1, <2>2
<1>11. ASSUME Started PROVE Served'
  <2>1. pc = "recreate" /\ UNCHANGED <<env, role, password, command, todo>>
    BY <1>11 DEF Started, Goto
  <2> QED
    BY <2>1 DEF Served, RoleOf
<1>12. ASSUME NEW s \in Services, Restart(s) PROVE Served'
  <2>1. /\ UNCHANGED <<command, pc, todo>>
        /\ \/ Shaken(running, s, Kept(s))
           \/ Shaken(running \ {s}, s, Kept(s))
    BY <1>12, Shakes
  <2> SUFFICES ASSUME pc \in {"recreate", "done"}, command = "up" PROVE Served'
    BY <2>1 DEF Served
  <2>2. ASSUME NEW d \in Databases \ todo' PROVE password'[d] \in {env'[d], Absent}
    <3>1. password[d] \in {env[d], Absent}
      BY <2>1, <2>2 DEF Served
    <3>2. PICK up : Shaken(up, s, Kept(s))
      BY <2>1
    <3>3. /\ env'[d] = env[d]
          /\ password'[d] = IF d \notin up THEN Absent ELSE IF d = s THEN Kept(s) ELSE password[d]
      BY <3>2, ShakenDb
    <3>4. d = s => Kept(s) = password[d]
      BY DEF Kept
    <3> QED
      BY <3>1, <3>3, <3>4
  <2>3. ASSUME "cms" \in Databases PROVE /\ "cms-init" \notin todo' => RoleOf("cms")' = env'["cms"]
                                         /\ "cms" \notin todo' => role'["cms"] # Absent
    <3>1. /\ env'["cms"] = env["cms"] /\ RoleOf("cms")' = RoleOf("cms") /\ RoleOf("cms") # Absent
          /\ role'["cms"] = IF "cms" = s THEN RoleOf("cms") ELSE role["cms"]
      BY <2>1, <2>3, ShakenDb
    <3> QED
      BY <2>1, <2>3, <3>1 DEF Served
  <2> QED
    BY <2>2, <2>3 DEF Served
<1>13. ASSUME Interrupt \/ Repair PROVE Served'
  <2>1. pc' \in {"idle", "ensure_jwt"}
    BY <1>13, Order DEF Interrupt, Repair
  <2> QED
    BY <1>1, <2>1
<1>14. ASSUME UNCHANGED vars PROVE Served'
  BY <1>14 DEF vars, Served, RoleOf
<1> QED
  BY <1>3, <1>4, <1>5, <1>6, <1>7, <1>8, <1>9, <1>10, <1>11, <1>12, <1>13, <1>14 DEF Next, Step

(* Without anything rendered nothing starts *)
LEMMA UnrenderedStep ==
    ASSUME TypeOK, Course, Unrendered, [Next]_vars
    PROVE  Unrendered'
<1> USE Names DEF files, values, loaded, cli, history
<1>0. command \in scenario \cup {"up", "keys"} /\ scenario \subseteq {"jwt", "tls", "client"} \cup Databases
  BY DEF TypeOK, Course
<1>1. ASSUME UNCHANGED <<rendered, running>>, pc' \notin {"seed", "recreate", "render"} PROVE Unrendered'
  BY <1>1 DEF Unrendered
<1>2. ASSUME NEW c \in scenario \cup {"up", "keys"}, Begin(c) PROVE Unrendered'
  BY <1>0, <1>1, <1>2, Order DEF Begin
<1>3. ASSUME Unlink \/ EnsureJwt \/ EnsureClient PROVE Unrendered'
  <2>1. /\ UNCHANGED <<rendered, running>>
        /\ pc' \in {"idle", "unlink_pub", "ensure_jwt", "ensure_client", "priv", "ensure_tls", "client"}
    BY <1>3, Unlinked, Ensured, FailType
  <2> QED
    BY <1>1, <2>1
<1>4. ASSUME EnsureTls PROVE Unrendered'
  <2>1. /\ UNCHANGED <<rendered, running>>
        /\ pc' \in {"idle", "ca", "done"} \/ (pc' = "render" /\ command' = "up")
    BY <1>4, Ensured, Order, FailType
  <2> QED
    BY <1>1, <2>1 DEF Unrendered
<1>5. ASSUME WriteFile PROVE Unrendered'
  <2>1. /\ UNCHANGED <<rendered, running>> /\ pc \in KeyFiles
        /\ Fail \/ (pc' = AfterWrite(pc) /\ UNCHANGED command)
    BY <1>5 DEF WriteFile, Goto
  <2>2. pc' \in {"idle", "pub", "plan", "ensure_client", "update", "ensure_tls", "key", "cert", "done"}
        \/ (pc' = "render" /\ command' = "up")
    BY <2>1, Order, FailType
  <2> QED
    BY <1>1, <2>1, <2>2 DEF Unrendered
<1>6. ASSUME Alter \/ SetEnv PROVE Unrendered'
  <2>1. UNCHANGED <<rendered, running>> /\ pc' \in {"idle", "env", "plan"}
    BY <1>6 DEF Alter, SetEnv, Fail, Goto
  <2> QED
    BY <1>1, <2>1
<1>7. ASSUME Update PROVE Unrendered'
  <2>1. UNCHANGED <<rendered, running>> /\ (pc' = "idle" \/ running # {})
    BY <1>7 DEF Update, Fail
  <2> QED
    BY <1>1, <2>1 DEF Unrendered
<1>8. ASSUME Render PROVE Unrendered'
  BY <1>8 DEF Render, Unrendered
<1>9. ASSUME Seed \/ Started PROVE Unrendered'
  <2>1. UNCHANGED <<rendered, running>> /\ pc' \in {"idle", "done"}
    BY <1>9 DEF Seed, Started, Fail, Goto
  <2> QED
    BY <1>1, <2>1
<1>10. ASSUME Plan PROVE Unrendered'
  <2>1. UNCHANGED <<rendered, running>> /\ (pc' = "idle" \/ rendered)
    BY <1>10 DEF Plan, Fail
  <2> QED
    BY <1>1, <2>1 DEF Unrendered
<1>12. ASSUME CmsInit \/ (\E s \in Services : Start(s)) PROVE Unrendered'
  <2>1. pc = "recreate" /\ UNCHANGED rendered
    BY <1>12 DEF CmsInit, Start, Containers
  <2> QED
    BY <2>1 DEF Unrendered
<1>13. ASSUME NEW s \in Services, Restart(s) PROVE Unrendered'
  <2>1. s \in running /\ UNCHANGED rendered
    BY <1>13 DEF Restart, Containers
  <2> QED
    BY <2>1 DEF Unrendered
<1>14. ASSUME Interrupt PROVE Unrendered'
  <2>1. pc' = "idle" /\ UNCHANGED rendered /\ (UNCHANGED running \/ pc = "recreate")
    BY <1>14 DEF Interrupt, HalfDone, Containers
  <2> QED
    BY <1>1, <2>1 DEF Unrendered
<1>15. ASSUME Repair PROVE Unrendered'
  <2>1. pc' = "ensure_jwt" /\ UNCHANGED <<rendered, running>>
    BY <1>15, Order DEF Repair
  <2> QED
    BY <1>1, <2>1
<1>16. ASSUME UNCHANGED vars PROVE Unrendered'
  BY <1>16 DEF vars, Unrendered
<1> QED
  BY <1>2, <1>3, <1>4, <1>5, <1>6, <1>7, <1>8, <1>9, <1>10, <1>12, <1>13, <1>14, <1>15, <1>16
     DEF Next, Step

(* Which step changes which file *)
LEMMA FilesMove ==
    ASSUME TypeOK, Course, Files, Making, [Next]_vars, NEW f \in KeyFiles
    PROVE  \/ file'[f] = file[f]
           \/ pc = f /\ (WriteFile \/ Interrupt)
           \/ Unlink /\ f \in {"priv", "pub"}
           \/ /\ f = "pub" /\ {file[f], file'[f]} \subseteq {Absent, Directory}
              /\ pc = "recreate" \/ running # {} \/ file[f] = Directory
<1> DEFINE Mounted == /\ f = "pub" /\ {file[f], file'[f]} \subseteq {Absent, Directory}
                      /\ pc = "recreate" \/ running # {} \/ file[f] = Directory
<1> USE Names DEF files, values, loaded, cli, history
<1>1. ASSUME Unlink \/ WriteFile
      PROVE  \/ file'[f] = file[f]
             \/ pc = f /\ WriteFile
             \/ Unlink /\ f \in {"priv", "pub"}
  BY <1>1, Unlinked, Written
<1>2. ASSUME Shaking, pc = "recreate" \/ running # {} PROVE file'[f] = file[f] \/ Mounted
  BY <1>2, ShakenFiles DEF Shaking
<1>3. ASSUME Interrupt PROVE (pc = f /\ Interrupt) \/ file'[f] = file[f] \/ Mounted
  <2>1. ASSUME file' = [file EXCEPT ![pc] = Torn], pc # f PROVE file'[f] = file[f]
    BY <2>1 DEF TypeOK
  <2> QED
    BY <1>2, <1>3, <2>1, ShakingSteps DEF Shaking
<1>4. ASSUME Repair PROVE file'[f] = file[f] \/ Mounted
  <2>1. PICK g \in KeyFiles : file[g] = Directory /\ file' = [file EXCEPT ![g] = Absent]
    BY <1>4 DEF Repair
  <2> QED
    BY <2>1 DEF Files, TypeOK
<1>5. CmsInit => UNCHANGED file \/ (Shaking /\ pc = "recreate")
  BY ShakingSteps DEF CmsInit
<1>6. \A s \in Services : Start(s) \/ Restart(s) => Shaking /\ (pc = "recreate" \/ running # {})
  BY ShakingSteps DEF Start, Restart
<1> QED
  BY <1>1, <1>2, <1>3, <1>4, <1>5, <1>6, FilesStay

(* What is rendered, only Render changes *)
LEMMA RenderedBy == [Next]_vars => Render \/ UNCHANGED <<providers, rendered>>
<1> USE DEF files, values, loaded, cli, history
<1>1. \A c : Begin(c) => UNCHANGED <<providers, rendered>>
  BY DEF Begin
<1>2. Unlink \/ EnsureJwt \/ EnsureClient \/ EnsureTls \/ WriteFile => UNCHANGED <<providers, rendered>>
  BY DEF Unlink, EnsureJwt, EnsureClient, EnsureTls, WriteFile
<1>3. Alter \/ SetEnv \/ Update \/ Seed \/ Plan \/ Started \/ Repair => UNCHANGED <<providers, rendered>>
  BY DEF Alter, SetEnv, Update, Seed, Plan, Started, Repair
<1>4. CmsInit \/ Interrupt => UNCHANGED <<providers, rendered>>
  BY DEF CmsInit, Interrupt, HalfDone, Containers
<1>5. \A s : Start(s) \/ Restart(s) => UNCHANGED <<providers, rendered>>
  BY DEF Start, Restart, Containers
<1> QED
  BY <1>1, <1>2, <1>3, <1>4, <1>5 DEF Next, Step, vars

(* Which steps there are where *)
LEMMA Whither ==
    ASSUME TypeOK, [Next]_vars
    PROVE  /\ pc \notin {"idle", "done"} => command' = command
           /\ pc \in {"idle", "done"} =>
                (pc' = pc /\ command' = command) \/ Repair \/ \E c \in scenario \cup {"up", "keys"} : Begin(c)
           /\ pc = "ensure_jwt" => EnsureJwt \/ Interrupt \/ UNCHANGED vars
           /\ pc \in KeyFiles => WriteFile \/ Interrupt \/ UNCHANGED vars
<1> USE Names DEF files, values, loaded, cli, history
<1>1. \A c : Begin(c) => pc \in {"idle", "done"}
  BY DEF Begin
<1>2. Unlink \/ EnsureClient \/ EnsureTls
        => pc \in {"unlink_priv", "unlink_pub", "ensure_client", "ensure_tls"} /\ command' = command
  BY Unlinked, Ensured, FailType
<1>3. EnsureJwt => pc = "ensure_jwt" /\ command' = command
  BY Ensured
<1>4. WriteFile => pc \in KeyFiles /\ command' = command
  BY DEF WriteFile, Fail, Goto
<1>5. Alter \/ SetEnv \/ Update \/ Render \/ Seed \/ Plan \/ CmsInit \/ Started
        => pc \in {"alter", "env", "update", "render", "seed", "plan", "recreate"} /\ command' = command
  BY DEF Alter, SetEnv, Update, Render, Seed, Plan, CmsInit, Started, Fail, Goto
<1>6. \A s \in Services : Start(s) => pc = "recreate" /\ command' = command
  BY Shakes, FailType
<1>7. \A s \in Services : Restart(s) => pc \in {"idle", "done"} /\ pc' = pc /\ command' = command
  BY Shakes
<1>8. Interrupt => pc \notin {"idle", "done"} /\ command' = command
  BY DEF Interrupt
<1>9. Repair => pc \in {"idle", "done"}
  BY DEF Repair
<1>10. UNCHANGED vars => UNCHANGED <<pc, command>>
  BY DEF vars
<1> QED
  BY <1>1, <1>2, <1>3, <1>4, <1>5, <1>6, <1>7, <1>8, <1>9, <1>10 DEF Next, Step

(* Which step leads to which *)
LEMMA Enters ==
    ASSUME TypeOK, Course, [Next]_vars
    PROVE  /\ pc' \in {"priv", "pub"} => EnsureJwt \/ (WriteFile /\ pc = "priv") \/ UNCHANGED vars
           /\ pc' \in {"ca", "key", "cert"} =>
                EnsureTls \/ (WriteFile /\ pc \in {"ca", "key"}) \/ Begin("tls") \/ UNCHANGED vars
           /\ pc' = "client" => EnsureClient \/ Begin("client") \/ UNCHANGED vars
           /\ pc' = "render" => EnsureTls \/ (WriteFile /\ pc = "cert") \/ Update \/ UNCHANGED vars
<1> DEFINE Others == {"priv", "pub", "ca", "key", "cert", "client", "render"}
<1> USE Names DEF files, values, loaded, cli, history
<1>0. scenario \subseteq {"jwt", "tls", "client"} \cup Databases
  BY DEF TypeOK
<1>1. ASSUME NEW c \in scenario \cup {"up", "keys"}, Begin(c)
      PROVE  \/ pc' \notin Others
             \/ Begin("tls") /\ pc' = "ca"
             \/ Begin("client") /\ pc' = "client"
  <2>1. pc' = FirstStep(c)
    BY <1>1 DEF Begin
  <2>2. c \in {"up", "keys", "jwt"} \cup Databases => pc' \in {"ensure_jwt", "unlink_priv", "alter"}
    BY <2>1, Order
  <2>3. CASE c = "tls"
    BY <1>1, <2>1, <2>3, Order
  <2>4. CASE c = "client"
    BY <1>1, <2>1, <2>4, Order
  <2> QED
    BY <1>0, <2>2, <2>3, <2>4
<1>2. ASSUME Unlink \/ Alter \/ SetEnv \/ Render \/ Seed \/ Plan \/ Started \/ CmsInit
      PROVE  pc' \notin Others
  <2>1. CmsInit => pc' \in {"idle", "recreate"}
    BY DEF CmsInit, Fail
  <2>2. Unlink => pc' \notin Others
    BY Unlinked, FailType
  <2>3. Alter \/ SetEnv \/ Render \/ Seed \/ Plan \/ Started => pc' \notin Others
    BY DEF Alter, SetEnv, Render, Seed, Plan, Started, Fail, Goto
  <2> QED
    BY <1>2, <2>1, <2>2, <2>3
<1>3. /\ EnsureJwt => pc' \in {"ensure_client", "priv"}
      /\ EnsureClient => pc' \in {"ensure_tls", "client"}
      /\ EnsureTls => pc' \in {"idle", "ca", "render", "done"}
  BY Ensured, Order, FailType
<1>4. Update => pc' \in {"idle", "render"}
  BY DEF Update, Fail, Goto
<1>5. ASSUME WriteFile
      PROVE  /\ pc' \in {"priv", "pub"} => pc = "priv"
             /\ pc' \in {"ca", "key", "cert"} => pc \in {"ca", "key"}
             /\ pc' = "render" => pc = "cert" \/ pc = "render"
             /\ pc' # "client"
  <2>1. pc \in KeyFiles /\ pc' \in {"idle", AfterWrite(pc)}
    BY <1>5 DEF WriteFile, Fail, Goto
  <2>2. AfterWrite("client") \in {"update", "ensure_tls"} /\ AfterWrite("pub") \in {"plan", "ensure_client"}
        /\ AfterWrite("priv") = "pub" /\ AfterWrite("ca") = "key" /\ AfterWrite("key") = "cert"
        /\ AfterWrite("cert") \in {"plan", "render", "done"}
    BY Order
  <2> QED
    BY <2>1, <2>2
<1>6. ASSUME NEW s \in Services, Start(s) \/ Restart(s) PROVE pc' \notin Others
  <2>1. pc' \in {"idle", "done", "recreate"}
    BY <1>6, Shakes, FailType
  <2> QED
    BY <2>1
<1>7. ASSUME Interrupt \/ Repair PROVE pc' \notin Others
  BY <1>7, Order DEF Interrupt, Repair
<1>8. WriteFile => pc # "render"
  BY DEF WriteFile
<1> QED
  BY <1>1, <1>2, <1>3, <1>4, <1>5, <1>6, <1>7, <1>8 DEF Next, Step

(* A change comes to its end without an error in two places; one that does not *)
(* come to it is remembered                                                    *)
LEMMA Ends ==
    ASSUME TypeOK, Course, [Next]_vars, NEW x \in Secrets, Undisturbed(x)'
    PROVE  /\ Undisturbed(x) \/ (command = x /\ (Started \/ Seed) /\ pc' = "done" /\ command' = x)
           /\ Interrupt => x \notin AtStake
<1> USE Names DEF files, values, loaded, cli, history
<1>1. interrupted \subseteq interrupted'
  <2>1. Fail \/ UNCHANGED interrupted \/ Interrupt
    <3>1. \A c : Begin(c) => UNCHANGED interrupted
      BY DEF Begin
    <3>2. Unlink \/ EnsureJwt \/ EnsureClient \/ EnsureTls \/ WriteFile => Fail \/ UNCHANGED interrupted
      BY DEF Unlink, EnsureJwt, EnsureClient, EnsureTls, WriteFile
    <3>3. Alter \/ SetEnv \/ Update \/ Render \/ Seed \/ Plan \/ CmsInit \/ Started
            => Fail \/ UNCHANGED interrupted
      BY DEF Alter, SetEnv, Update, Render, Seed, Plan, CmsInit, Started
    <3>4. \A s : Start(s) \/ Restart(s) => Fail \/ UNCHANGED interrupted
      BY DEF Start, Restart
    <3>5. Repair => UNCHANGED interrupted
      BY DEF Repair
    <3> QED
      BY <3>1, <3>2, <3>3, <3>4, <3>5 DEF Next, Step, vars
  <2>2. Interrupt => interrupted' = interrupted \cup AtStake
    BY DEF Interrupt
  <2> QED
    BY <2>1, <2>2, FailType
<1>2. x \notin interrupted
  BY <1>1 DEF Undisturbed
<1>3. Interrupt => x \notin AtStake
  BY DEF Interrupt, Undisturbed
<1>4. ASSUME Moving(x) PROVE command = x /\ (Started \/ Seed) /\ pc' = "done" /\ command' = x
  <2>1. command = x /\ pc \notin {"idle", "done"} /\ command \in Secrets /\ x \notin {"up", "keys"}
    BY <1>4 DEF Moving, AtRest, Secrets
  <2>2. ~Fail
    BY <2>1, FailType DEF Undisturbed
  <2>3. ~Interrupt
    BY <1>3, <2>1 DEF AtStake
  <2>4. command' = x /\ pc' \notin {"idle", "done"} => FALSE
    BY DEF Undisturbed, Moving, AtRest
  <2>5. ~(Repair \/ UNCHANGED vars) /\ \A c : ~Begin(c) /\ ~Restart(c)
    BY <2>1, <2>4 DEF Begin, Restart, Repair, vars
  <2>6. Unlink \/ EnsureJwt \/ EnsureClient => pc' \notin {"idle", "done"} /\ command' = x
    BY <2>1, <2>2, Unlinked, Ensured
  <2>7. ~(EnsureTls \/ WriteFile)
    <3>1. ASSUME EnsureTls PROVE FALSE
      BY <2>1, <3>1, Ensured DEF Course
    <3>2. ASSUME WriteFile PROVE FALSE
      <4>1. pc \in KeyFiles /\ pc' = AfterWrite(pc) /\ command' = command
        BY <2>2, <3>2 DEF WriteFile, Goto
      <4>2. pc = "cert" => command = "tls"
        BY <2>1 DEF Course
      <4>3. AfterWrite(pc) \notin {"idle", "done"}
        BY <4>1, <4>2, Order
      <4> QED
        BY <2>1, <2>4, <4>1, <4>3
    <3> QED
      BY <3>1, <3>2
  <2>8. Alter \/ SetEnv \/ Update \/ Render \/ Plan \/ CmsInit
          => pc' \notin {"idle", "done"} /\ command' = x
    BY <2>1, <2>2 DEF Alter, SetEnv, Update, Render, Plan, CmsInit, Goto
  <2>9. \A s \in Services : Start(s) => pc' \notin {"idle", "done"} /\ command' = x
    BY <2>1, <2>2, Shakes
  <2>10. Started \/ Seed
    BY <2>3, <2>4, <2>5, <2>6, <2>7, <2>8, <2>9 DEF Next, Step
  <2>11. pc' = "done" /\ command' = command
    BY <2>2, <2>10 DEF Started, Seed, Goto
  <2> QED
    BY <2>1, <2>10, <2>11
<1> QED
  BY <1>2, <1>3, <1>4 DEF Undisturbed

(* A key pair that is whole or not there at all stays so, unless its rotation *)
(* or its making is cut off                                                   *)
LEMMA JwtStep ==
    ASSUME TypeOK, Course, Files, Making, Rotated, Recreated, Unrendered, [Next]_vars,
           Undisturbed("jwt") => WholeJwt \/ NoJwt, Undisturbed("jwt")'
    PROVE  (WholeJwt \/ NoJwt)'
<1> USE Names DEF files, values, loaded, cli, history
<1>0. /\ Absent \notin Values /\ Directory \notin Values /\ "jwt" \in Secrets
      /\ file \in [KeyFiles -> Content] /\ {"priv", "pub"} \subseteq KeyFiles
  BY DEF TypeOK, Secrets, KeyFiles
<1>1. \/ Undisturbed("jwt")
      \/ command = "jwt" /\ (Started \/ Seed) /\ pc' = "done" /\ command' = "jwt"
  BY <1>0, Ends
<1>2. CASE ~Undisturbed("jwt")
  <2>1. command = "jwt" /\ Started /\ pc' = "done"
    BY <1>1, <1>2 DEF Seed, Course
  <2>2. pc = "recreate" /\ todo = {} /\ UNCHANGED <<file, sign, verify>>
    BY <2>1 DEF Started
  <2>3. Current("cms") /\ Current("engine")
    BY <2>1, <2>2 DEF Recreated, Forced
  <2>4. file["priv"] = file["pub"] /\ file["priv"] \in Values
    BY <2>1, <2>2 DEF Rotated
  <2> QED
    BY <2>1, <2>2, <2>3, <2>4 DEF Current, WholeJwt
<1> SUFFICES ASSUME Undisturbed("jwt") PROVE (WholeJwt \/ NoJwt)'
  BY <1>2
<1>3. ~Unlink
  BY DEF Unlink, Undisturbed, Moving, AtRest, Course
<1>4. pc \in {"priv", "pub"} => ~Interrupt /\ command \in {"up", "keys"}
  <2>1. pc \in {"priv", "pub"} => command \in {"up", "keys"}
    BY DEF Undisturbed, Moving, AtRest, Course
  <2>2. pc \in {"priv", "pub"} /\ command \in {"up", "keys"} => "jwt" \in AtStake
    BY DEF AtStake, Secrets
  <2> QED
    BY <1>0, <2>1, <2>2, Ends
<1>5. CASE WholeJwt
  <2>1. file'["priv"] = file["priv"] /\ file'["pub"] = file["pub"]
    BY <1>0, <1>3, <1>5, FilesMove DEF WholeJwt
  <2>2. pc' \notin {"priv", "pub"}
    <3>1. EnsureJwt => pc' = "ensure_client"
      BY <1>0, <1>5, Ensured DEF WholeJwt, Exists
    <3> QED
      BY <1>5, <3>1, Enters DEF WholeJwt, vars
  <2>3. {sign', verify'} \subseteq {file["priv"], Absent}
    <3>1. CASE UNCHANGED <<sign, verify>>
      BY <1>5, <3>1 DEF WholeJwt
    <3>2. ASSUME NEW up, NEW s, NEW p, Shaken(up, s, p) PROVE {sign', verify'} \subseteq {file["priv"], Absent}
      <4>1. /\ sign' \in {Absent, file["priv"], sign}
            /\ verify' \in {Absent, PubMounted, verify}
        BY <3>2, ContainersDo DEF Shaken
      <4>2. PubMounted = file["pub"]
        BY <1>0, <1>5 DEF WholeJwt, PubMounted, Exists
      <4> QED
        BY <1>5, <4>1, <4>2 DEF WholeJwt
    <3> QED
      BY <3>1, <3>2, Unshaken DEF Shaking
  <2> QED
    BY <1>5, <2>1, <2>2, <2>3 DEF WholeJwt
<1>6. CASE NoJwt
  <2>0. /\ file["pub"] = Absent /\ sign = Absent /\ verify = Absent /\ ~rendered
        /\ file["priv"] = IF pc = "pub" THEN new ELSE Absent
    BY <1>6 DEF NoJwt
  <2>1. UNCHANGED <<sign, verify>>
    BY <2>0, Unshaken DEF Unrendered
  <2>2. CASE pc = "pub" /\ WriteFile
    <3>1. /\ new \in Values /\ pc' = AfterWrite("pub")
          /\ \A f \in KeyFiles : file'[f] = IF f = "pub" THEN new ELSE file[f]
      BY <1>0, <2>0, <2>2, Written
    <3>2. pc' \notin {"priv", "pub"} /\ file'["pub"] = new /\ file'["priv"] = new
      BY <1>0, <2>0, <2>2, <3>1, Order
    <3> QED
      BY <2>0, <2>1, <3>1, <3>2 DEF WholeJwt
  <2>3. CASE pc = "priv" /\ WriteFile
    <3>1. /\ pc' = "pub" /\ UNCHANGED <<new, command, rendered>>
          /\ \A f \in KeyFiles : file'[f] = IF f = "priv" THEN new ELSE file[f]
      BY <1>0, <1>3, <2>3, Written, Order
    <3>2. file'["priv"] = new /\ file'["pub"] = Absent
      BY <1>0, <2>0, <3>1
    <3> QED
      BY <2>0, <2>1, <3>1, <3>2 DEF NoJwt
  <2>4. CASE UNCHANGED vars
    BY <1>6, <2>4 DEF vars, NoJwt
  <2>5. CASE ~(WriteFile /\ pc \in {"priv", "pub"}) /\ ~UNCHANGED vars
    <3>1. file'["priv"] = file["priv"]
      BY <1>0, <1>3, <1>4, <2>5, FilesMove
    <3>2. file'["pub"] = Absent
      BY <1>0, <1>3, <1>4, <2>0, <2>5, FilesMove DEF Unrendered
    <3>3. ~rendered'
      BY <1>6, <2>0, RenderedBy DEF Render, Unrendered, NoJwt
    <3>4. pc # "pub"
      BY <1>0, <1>4, <2>5, Whither
    <3>5. pc' # "pub"
      BY <2>5, Ensured, Enters
    <3>6. ASSUME command' \in {"up", "keys"} PROVE pc' \in {"idle", "done", "ensure_jwt", "priv", "pub"}
      <4>1. CASE pc \in {"idle", "done"}
        BY <3>6, <4>1, Whither, Order DEF Repair, Begin
      <4>2. CASE pc = "ensure_jwt"
        BY <1>0, <2>0, <2>5, <4>2, Whither, Ensured DEF Exists, Interrupt
      <4>3. pc \notin {"idle", "done", "ensure_jwt", "priv", "pub"} => FALSE
        BY <1>6, <3>6, Whither DEF NoJwt
      <4>4. pc \in {"priv", "pub"} => FALSE
        BY <1>0, <1>4, <2>5, Whither
      <4> QED
        BY <4>1, <4>2, <4>3, <4>4
    <3> QED
      BY <2>0, <2>1, <3>1, <3>2, <3>3, <3>4, <3>5, <3>6 DEF NoJwt
  <2> QED
    BY <2>2, <2>3, <2>4, <2>5
<1> QED
  BY <1>5, <1>6

(* The same of the certificate *)
LEMMA TlsStep ==
    ASSUME TypeOK, Course, Files, Making, Rotated, Recreated, Unrendered, [Next]_vars,
           "tls" \in scenario, Undisturbed("tls") => WholeTls \/ NoTls, Undisturbed("tls")'
    PROVE  (WholeTls \/ NoTls)'
<1> USE Names DEF files, values, loaded, cli, history
<1>0. /\ Absent \notin Values /\ "tls" \in Secrets
      /\ file \in [KeyFiles -> Content] /\ {"ca", "key", "cert"} \subseteq KeyFiles
  BY DEF TypeOK, Secrets, KeyFiles
<1>1. \/ Undisturbed("tls")
      \/ command = "tls" /\ (Started \/ Seed) /\ pc' = "done" /\ command' = "tls"
  BY <1>0, Ends
<1>2. CASE ~Undisturbed("tls")
  <2>1. command = "tls" /\ Started /\ pc' = "done"
    BY <1>1, <1>2 DEF Seed, Course
  <2>2. pc = "recreate" /\ todo = {} /\ UNCHANGED <<file, served>>
    BY <2>1 DEF Started
  <2>3. Current("traefik")
    BY <2>1, <2>2 DEF Recreated, Forced
  <2>4. file["ca"] = file["key"] /\ file["ca"] = file["cert"] /\ file["ca"] \in Values
    BY <2>1, <2>2 DEF Rotated
  <2> QED
    BY <2>1, <2>2, <2>3, <2>4 DEF Current, WholeTls
<1> SUFFICES ASSUME Undisturbed("tls") PROVE (WholeTls \/ NoTls)'
  BY <1>2
<1>3. pc \in {"ca", "key", "cert"} => ~Interrupt /\ command \in {"up", "keys"}
  <2>1. pc \in {"ca", "key", "cert"} => command \in {"up", "keys"}
    BY DEF Undisturbed, Moving, AtRest, Course
  <2>2. pc \in {"ca", "key", "cert"} /\ command \in {"up", "keys"} => "tls" \in AtStake
    BY DEF AtStake, Secrets
  <2> QED
    BY <1>0, <2>1, <2>2, Ends
<1>4. ~Begin("tls")
  BY Order DEF Begin, Undisturbed, Moving, AtRest
<1>5. \A f \in {"ca", "key", "cert"} : file'[f] = file[f] \/ (pc = f /\ WriteFile)
  BY <1>0, <1>3, FilesMove
<1>6. CASE WholeTls
  <2>1. /\ file'["ca"] = file["ca"] /\ file'["key"] = file["key"] /\ file'["cert"] = file["cert"]
    BY <1>5, <1>6 DEF WholeTls
  <2>2. pc' \notin {"ca", "key", "cert"}
    <3>1. EnsureTls => pc' # "ca"
      BY <1>0, <1>6, Ensured, Order, FailType DEF WholeTls
    <3>2. EnsureTls => pc' \in {"idle", "ca", "render", "done"}
      BY Ensured, Order, FailType
    <3> QED
      BY <1>4, <1>6, <3>1, <3>2, Enters DEF WholeTls, vars
  <2>3. {served'["key"], served'["cert"]} \subseteq {file["ca"], Absent}
    <3>1. CASE UNCHANGED served
      BY <1>6, <3>1 DEF WholeTls
    <3>2. ASSUME NEW up, NEW s, NEW p, Shaken(up, s, p)
          PROVE  {served'["key"], served'["cert"]} \subseteq {file["ca"], Absent}
      <4>1. \A f \in {"key", "cert"} : served'[f] \in {Absent, file[f], served[f]}
        BY <3>2, ContainersDo DEF Shaken
      <4> QED
        BY <1>6, <4>1 DEF WholeTls
    <3> QED
      BY <3>1, <3>2, Unshaken DEF Shaking
  <2> QED
    BY <1>6, <2>1, <2>2, <2>3 DEF WholeTls
<1>7. CASE NoTls
  <2>0. /\ served["key"] = Absent /\ served["cert"] = Absent /\ ~rendered /\ pc # "render"
        /\ file["ca"] = IF pc \in {"key", "cert"} THEN new ELSE Absent
        /\ file["key"] = IF pc = "cert" THEN new ELSE Absent
        /\ file["cert"] = Absent
    BY <1>7 DEF NoTls
  <2>1. UNCHANGED served
    BY <2>0, Unshaken DEF Unrendered
  <2>2. ~rendered'
    BY <2>0, RenderedBy DEF Render
  <2>3. ASSUME pc \in {"ca", "key", "cert"}, WriteFile PROVE (WholeTls \/ NoTls)'
    <3>1. /\ new \in Values /\ pc' = AfterWrite(pc) /\ UNCHANGED <<new, command>>
          /\ \A f \in KeyFiles : file'[f] = IF f = pc THEN new ELSE file[f]
      BY <2>3, Written
    <3>2. CASE pc = "ca"
      BY <1>0, <2>0, <2>1, <2>2, <3>1, <3>2, Order DEF NoTls
    <3>3. CASE pc = "key"
      BY <1>0, <2>0, <2>1, <2>2, <3>1, <3>3, Order DEF NoTls
    <3>4. CASE pc = "cert"
      <4>1. pc' \in {"render", "done", "plan"}
        BY <3>1, <3>4, Order
      <4>2. file'["ca"] = new /\ file'["key"] = new /\ file'["cert"] = new
        BY <1>0, <2>0, <3>1, <3>4
      <4> QED
        BY <2>0, <2>1, <3>1, <4>1, <4>2 DEF WholeTls
    <3> QED
      BY <2>3, <3>2, <3>3, <3>4
  <2>4. CASE UNCHANGED vars
    BY <1>7, <2>4 DEF vars, NoTls
  <2>5. CASE ~(pc \in {"ca", "key", "cert"} /\ WriteFile) /\ ~UNCHANGED vars
    <3>1. pc \notin {"ca", "key", "cert"}
      BY <1>0, <1>3, <2>5, Whither
    <3>2. file'["ca"] = Absent /\ file'["key"] = Absent /\ file'["cert"] = Absent
      BY <1>5, <2>0, <3>1
    <3>3. pc' \notin {"key", "cert"}
      BY <1>4, <2>5, <3>1, Order, Ensured, FailType, Enters
    <3>4. pc' # "render"
      <4>1. EnsureTls => pc' # "render"
        BY <1>0, <2>0, Ensured, FailType
      <4>2. Update => pc' # "render"
        BY <2>0 DEF Update, Unrendered, Fail
      <4> QED
        BY <2>5, <4>1, <4>2, Enters
    <3> QED
      BY <2>0, <2>1, <2>2, <3>1, <3>2, <3>3, <3>4 DEF NoTls
  <2> QED
    BY <2>3, <2>4, <2>5
<1> QED
  BY <1>6, <1>7

(* ... of the client secret *)
LEMMA ClientStep ==
    ASSUME TypeOK, Course, Files, Making, [Next]_vars,
           "client" \in scenario, Undisturbed("client") => SettledClient, Undisturbed("client")'
    PROVE  SettledClient'
<1> USE Names DEF files, values, loaded, cli, history
<1>0. /\ Absent \notin Values /\ "client" \in Secrets /\ Absent \in Held /\ Values \subseteq Held
      /\ file \in [KeyFiles -> Content] /\ "client" \in KeyFiles
  BY DEF TypeOK, Secrets, KeyFiles, Held
<1>1. \/ Undisturbed("client")
      \/ command = "client" /\ (Started \/ Seed) /\ pc' = "done" /\ command' = "client"
  BY <1>0, Ends
<1>2. CASE ~Undisturbed("client")
  <2>1. command = "client" /\ Seed /\ pc' = "done"
    BY <1>1, <1>2 DEF Started, Course
  <2>2. pc = "seed" /\ UNCHANGED <<file, keycloak, providers>> /\ seeded' = providers
    BY <2>1 DEF Seed, Fail
  <2> QED
    BY <1>0, <2>1, <2>2 DEF Making, SettledClient
<1> SUFFICES ASSUME Undisturbed("client") PROVE SettledClient'
  BY <1>2
<1>3. /\ file["client"] \in Held
      /\ {keycloak, providers, seeded} \subseteq {file["client"], Absent}
      /\ pc = "client" => file["client"] = Absent
  BY DEF SettledClient
<1>4. pc = "client" => ~Interrupt /\ command \in {"up", "keys"}
  <2>1. pc = "client" => command \in {"up", "keys"}
    BY DEF Undisturbed, Moving, AtRest, Course
  <2>2. pc = "client" /\ command \in {"up", "keys"} => "client" \in AtStake
    BY DEF AtStake, Secrets
  <2> QED
    BY <1>0, <2>1, <2>2, Ends
<1>5. pc \notin {"update", "seed"} /\ ~Begin("client")
  BY Order DEF Undisturbed, Moving, AtRest, Course, Begin
<1>6. file'["client"] = file["client"] \/ (pc = "client" /\ WriteFile)
  BY <1>0, <1>4, FilesMove
<1>7. /\ keycloak' \in {keycloak, providers}
      /\ seeded' \in {seeded, providers}
  <2>1. \A c : Begin(c) => UNCHANGED <<keycloak, seeded>>
    BY DEF Begin
  <2>2. Unlink \/ EnsureJwt \/ EnsureClient \/ EnsureTls \/ WriteFile \/ Alter \/ SetEnv \/ Render \/ Plan
        \/ Started \/ Repair => UNCHANGED <<keycloak, seeded>>
    BY DEF Unlink, EnsureJwt, EnsureClient, EnsureTls, WriteFile, Alter, SetEnv, Render, Plan, Started, Repair
  <2>3. ~(Update \/ Seed)
    BY <1>5 DEF Update, Seed
  <2>4. Shaking => keycloak' \in {keycloak, providers} /\ seeded' \in {seeded, providers}
    BY ContainersDo DEF Shaking, Shaken
  <2>5. Interrupt => UNCHANGED <<keycloak, seeded>> \/ Shaking
    BY <1>5, ShakingSteps DEF Shaking
  <2> QED
    BY <2>1, <2>2, <2>3, <2>4, <2>5, ShakingSteps DEF Next, Step, vars
<1>8. providers' = providers \/ (Render /\ providers' = file["client"])
  BY RenderedBy DEF Render
<1>9. CASE pc = "client" /\ WriteFile
  <2>1. /\ file'["client"] = new /\ new \in Values /\ UNCHANGED <<keycloak, seeded, providers>>
        /\ pc' = AfterWrite("client")
    BY <1>0, <1>9, Written
  <2> QED
    BY <1>0, <1>3, <1>9, <2>1, Order DEF SettledClient
<1>10. CASE ~(pc = "client" /\ WriteFile)
  <2>1. file'["client"] = file["client"]
    BY <1>6, <1>10
  <2>2. ASSUME pc' = "client" PROVE file["client"] = Absent
    <3>1. EnsureClient => file["client"] = Absent
      BY <1>3, <2>2, Ensured DEF Held
    <3> QED
      BY <1>3, <1>5, <2>2, <3>1, Enters DEF vars
  <2> QED
    BY <1>3, <1>7, <1>8, <2>1, <2>2 DEF SettledClient
<1> QED
  BY <1>9, <1>10

(* ... and of a database password *)
LEMMA DbStep ==
    ASSUME TypeOK, Course, Files, Making, Rotated, Recreated, [Next]_vars, NEW d \in Databases,
           Undisturbed(d) => SettledDb(d), Undisturbed(d)'
    PROVE  SettledDb(d)'
<1> USE Names DEF files, values, loaded, cli, history
<1>0. /\ d \in Secrets /\ d \notin {"none", "client", "up", "keys"}
      /\ env \in [Databases -> Values] /\ role \in [Databases -> Held]
  BY DEF TypeOK, Secrets
<1>1. \/ Undisturbed(d)
      \/ command = d /\ (Started \/ Seed) /\ pc' = "done" /\ command' = d
  BY <1>0, Ends
<1>2. CASE ~Undisturbed(d)
  <2>1. command = d /\ Started
    BY <1>0, <1>1, <1>2 DEF Seed, Course
  <2>2. pc = "recreate" /\ todo = {} /\ UNCHANGED <<env, role, password>>
    BY <2>1 DEF Started
  <2>3. Current(d)
    BY <2>1, <2>2 DEF Recreated, Forced
  <2> QED
    BY <2>2, <2>3 DEF Current, SettledDb
<1> SUFFICES ASSUME Undisturbed(d) PROVE SettledDb(d)'
  BY <1>2
<1>3. {role[d], password[d]} \subseteq {env[d], Absent}
  BY DEF SettledDb
<1>4. pc \in {"alter", "env"} => command \in Databases /\ command # d
  BY DEF Undisturbed, Moving, AtRest, Course
<1>5. ASSUME env'[d] = env[d], role'[d] = role[d], password'[d] = password[d] PROVE SettledDb(d)'
  BY <1>3, <1>5 DEF SettledDb
<1>6. ASSUME NEW up, NEW s, NEW p, Shaken(up, s, p), d = s => p \in {env[d], password[d]}
      PROVE  SettledDb(d)'
  <2>1. /\ env'[d] = env[d]
        /\ password'[d] = IF d \notin up THEN Absent ELSE IF d = s THEN p ELSE password[d]
        /\ role'[d] = IF d = s THEN RoleOf(d) ELSE role[d]
    BY <1>6, ShakenDb
  <2>2. role'[d] \in {env[d], Absent}
    BY <1>3, <2>1 DEF RoleOf
  <2>3. password'[d] \in {env[d], Absent}
    BY <1>3, <1>6, <2>1
  <2> QED
    BY <2>1, <2>2, <2>3 DEF SettledDb
<1>7. ASSUME NEW c, Begin(c) PROVE SettledDb(d)'
  BY <1>5, <1>7 DEF Begin
<1>8. ASSUME Unlink \/ EnsureJwt \/ EnsureClient \/ EnsureTls \/ WriteFile \/ Update \/ Render \/ Seed
             \/ Plan \/ Started \/ Repair \/ UNCHANGED vars
      PROVE  SettledDb(d)'
  <2>1. UNCHANGED <<env, role, password>>
    BY <1>8 DEF Unlink, EnsureJwt, EnsureClient, EnsureTls, WriteFile, Update, Render, Seed, Plan, Started,
                Repair, vars
  <2> QED
    BY <1>5, <2>1
<1>9. ASSUME UNCHANGED <<env, password>>, pc = "alter", NEW v, role' = [role EXCEPT ![command] = v]
      PROVE  SettledDb(d)'
  <2>1. role'[d] = role[d]
    BY <1>0, <1>4, <1>9
  <2> QED
    BY <1>5, <1>9, <2>1
<1>10. ASSUME Alter PROVE SettledDb(d)'
  <2>1. /\ pc = "alter" /\ UNCHANGED <<env, password>>
        /\ UNCHANGED role \/ \E v : role' = [role EXCEPT ![command] = v]
    BY <1>10 DEF Alter
  <2> QED
    BY <1>5, <1>9, <2>1
<1>11. ASSUME SetEnv PROVE SettledDb(d)'
  <2>1. pc = "env" /\ env' = [env EXCEPT ![command] = new] /\ UNCHANGED <<role, password>>
    BY <1>11 DEF SetEnv
  <2>2. env'[d] = env[d]
    BY <1>0, <1>4, <2>1
  <2> QED
    BY <1>5, <2>1, <2>2
<1>12. ASSUME CmsInit PROVE SettledDb(d)'
  <2>1. \/ UNCHANGED <<env, role, password>>
        \/ Fail /\ \E gone \in SUBSET todo : Containers(running \ gone, "none", Absent)
    BY <1>12 DEF CmsInit
  <2>2. \/ UNCHANGED <<env, role, password>>
        \/ \E gone \in SUBSET todo : Shaken(running \ gone, "none", Absent)
    BY <2>1, Shakes, FailType
  <2> QED
    BY <1>0, <1>5, <1>6, <2>2
<1>13. ASSUME NEW s \in Services, Start(s) PROVE SettledDb(d)'
  <2>1. \E up : Shaken(up, s, Given(s))
    BY <1>13, Shakes
  <2>2. d = s => Given(s) = env[d]
    BY DEF Given
  <2> QED
    BY <1>6, <2>1, <2>2
<1>14. ASSUME NEW s \in Services, Restart(s) PROVE SettledDb(d)'
  <2>1. \E up : Shaken(up, s, Kept(s))
    BY <1>14, Shakes
  <2>2. d = s => Kept(s) = password[d]
    BY DEF Kept
  <2> QED
    BY <1>6, <2>1, <2>2
<1>15. ASSUME Interrupt PROVE SettledDb(d)'
  <2>1. \/ UNCHANGED <<env, role, password>>
        \/ pc = "alter" /\ UNCHANGED <<env, password>> /\ \E v : role' = [role EXCEPT ![command] = v]
        \/ \E gone \in SUBSET todo : Shaken(running \ gone, "none", Absent)
    BY <1>15, ShakingSteps
  <2> QED
    BY <1>0, <1>5, <1>6, <1>9, <2>1
<1> QED
  BY <1>7, <1>8, <1>10, <1>11, <1>12, <1>13, <1>14, <1>15 DEF Next, Step

(* A deployment has the secrets it has *)
LEMMA ScenarioStays == TypeOK /\ [Next]_vars => scenario' = scenario
<1> SUFFICES ASSUME TypeOK, [Next]_vars PROVE scenario' = scenario
  OBVIOUS
<1>1. CASE UNCHANGED <<file, scenario>>
  BY <1>1
<1>2. Unlink \/ WriteFile \/ Interrupt \/ Repair => scenario' = scenario
  BY DEF Unlink, WriteFile, Interrupt, Repair, Fail, history
<1>3. Shaking => scenario' = scenario
  BY DEF Shaking, Shaken
<1>4. CmsInit => scenario' = scenario
  BY DEF CmsInit, Fail, history
<1>5. \A s \in Services : Start(s) \/ Restart(s) => scenario' = scenario
  BY <1>3, ShakingSteps
<1> QED
  BY <1>1, <1>2, <1>4, <1>5, FilesStay

(* A secret that is settled is one value *)
LEMMA SettledAgree ==
    ASSUME TypeOK, Settled, AtRest, NEW x \in (scenario \cup Databases \cup {"jwt"}) \ interrupted
    PROVE  Agree(x)
<1> USE Names
<1>0. x \in {"jwt", "tls", "client"} \cup Databases /\ Undisturbed(x) /\ Values # {}
  BY DEF TypeOK, Undisturbed, Moving, Settled
<1>1. CASE x = "jwt"
  <2>1. WholeJwt \/ NoJwt
    BY <1>0, <1>1 DEF Settled
  <2>2. CASE WholeJwt
    BY <1>1, <2>2 DEF WholeJwt, Agree, Holders
  <2>3. CASE NoJwt
    <3>1. Holders(x) = {Absent}
      BY <1>1, <2>3 DEF NoJwt, AtRest, Holders
    <3> QED
      BY <1>0, <3>1 DEF Agree
  <2> QED
    BY <2>1, <2>2, <2>3
<1>2. CASE x = "tls"
  <2>1. WholeTls \/ NoTls
    BY <1>0, <1>2 DEF Settled
  <2>2. CASE WholeTls
    BY <1>2, <2>2 DEF WholeTls, Agree, Holders
  <2>3. CASE NoTls
    <3>1. Holders(x) = {Absent}
      BY <1>2, <2>3 DEF NoTls, AtRest, Holders
    <3> QED
      BY <1>0, <3>1 DEF Agree
  <2> QED
    BY <2>1, <2>2, <2>3
<1>3. CASE x = "client"
  <2>1. SettledClient
    BY <1>0, <1>3 DEF Settled
  <2>2. Holders(x) \subseteq {file["client"], Absent} /\ file["client"] \in Values \cup {Absent}
    BY <1>3, <2>1 DEF SettledClient, Holders, Held
  <2> QED
    BY <1>0, <2>2 DEF Agree
<1>4. CASE x \in Databases
  <2>1. SettledDb(x) /\ env[x] \in Values
    BY <1>0, <1>4 DEF Settled, TypeOK
  <2>2. Holders(x) = {env[x], role[x], password[x]}
    BY <1>4 DEF Holders
  <2> QED
    BY <2>1, <2>2 DEF SettledDb, Agree
<1> QED
  BY <1>0, <1>1, <1>2, <1>3, <1>4
-----------------------------------------------------------------------------
RInv ==
    /\ TypeOK /\ Course /\ Files /\ Making /\ Loads /\ Pair /\ Rotated /\ Recreated /\ Served
    /\ Unrendered /\ Settled

(* Before anything was started *)
LEMMA InitInv == Init => RInv
<1> SUFFICES ASSUME Init PROVE RInv
  OBVIOUS
<1>0. 0 \in 0..MaxFaults /\ "up" \in Commands
  BY Names DEF Commands
<1> USE Names DEF Init
<1>1. PICK v \in Values : env = [d \in Databases |-> v]
  OBVIOUS
<1>2. TypeOK
  <2>1. env \in [Databases -> Values]
    BY <1>1
  <2>2. Absent \in Held /\ Absent \in Content
    BY DEF Held, Content
  <2>3. /\ file \in [KeyFiles -> Content] /\ role \in [Databases -> Held]
        /\ password \in [Databases -> Held] /\ served \in [{"key", "cert"} -> Content]
    BY <2>2
  <2>4. scenario \in Scenarios /\ running \subseteq Services /\ todo \subseteq Services \cup {"cms-init"}
        /\ interrupted \subseteq Secrets /\ faults \in 0..MaxFaults /\ rendered \in BOOLEAN
        /\ command \in Commands /\ pc = "idle"
    BY <1>0
  <2>5. {keycloak, providers, seeded, verify, new} \subseteq Held /\ sign \in Content
    BY <2>2
  <2> HIDE DEF Init
  <2> QED
    BY <2>1, <2>3, <2>4, <2>5 DEF TypeOK
<1>3. Course
  BY DEF Course
<1>4. Files /\ Pair
  BY DEF Files, Pair, Exists
<1>5. Making /\ Rotated /\ Recreated /\ Served /\ Unrendered
  BY DEF Making, Rotated, Recreated, Served, Unrendered, KeyFiles
<1>6. Loads
  BY DEF Loads
<1>7. Settled
  <2>1. NoJwt
    BY DEF NoJwt, KeyFiles
  <2>2. NoTls
    BY DEF NoTls, KeyFiles
  <2>3. SettledClient
    BY DEF SettledClient, KeyFiles, Held
  <2>4. \A d \in Databases : SettledDb(d)
    BY DEF SettledDb
  <2> QED
    BY <1>1, <2>1, <2>2, <2>3, <2>4 DEF Settled
<1> QED
  BY <1>2, <1>3, <1>4, <1>5, <1>6, <1>7 DEF RInv

(* ... and whatever is done then *)
LEMMA StepInv == RInv /\ [Next]_vars => RInv'
<1> SUFFICES ASSUME RInv, [Next]_vars PROVE RInv'
  OBVIOUS
<1> USE DEF RInv
<1>1. TypeOK'
  BY TypesStep
<1>2. Course' /\ Files' /\ Making'
  BY CourseStep, FilesStep, MakingStep
<1>3. Loads' /\ Pair' /\ Unrendered'
  BY LoadsStep, PairStep, UnrenderedStep
<1>4. Rotated' /\ Recreated' /\ Served'
  BY RotatedStep, RecreatedStep, ServedStep
<1>5. Settled'
  <2>1. scenario' = scenario
    BY ScenarioStays
  <2>2. Undisturbed("jwt")' => (WholeJwt \/ NoJwt)'
    BY JwtStep DEF Settled
  <2>3. "tls" \in scenario /\ Undisturbed("tls")' => (WholeTls \/ NoTls)'
    BY TlsStep DEF Settled
  <2>4. "client" \in scenario /\ Undisturbed("client")' => SettledClient'
    BY ClientStep DEF Settled
  <2>5. \A d \in Databases : Undisturbed(d)' => SettledDb(d)'
    BY DbStep DEF Settled
  <2> QED
    BY <2>1, <2>2, <2>3, <2>4, <2>5 DEF Settled
<1> QED
  BY <1>1, <1>2, <1>3, <1>4, <1>5

(* The invariant from which the rest follows *)
THEOREM Inductive == Spec => []RInv
<1>1. Init => RInv
  BY InitInv
<1>2. RInv /\ [Next]_vars => RInv'
  BY StepInv
<1> QED
  BY <1>1, <1>2, PTL DEF Spec

(* Every variable keeps to its type: the key the engine verifies with and the   *)
(* client secret in Keycloak and in the CMS are whole values or none, although  *)
(* a command that is cut off leaves torn files, and docker directories          *)
THEOREM TypeCorrect == Spec => []TypeOK
<1>1. RInv => TypeOK
  BY DEF RInv
<1> QED
  BY <1>1, Inductive, PTL

(* Two whole keys of different pairs take two interruptions *)
THEOREM PairSound == Spec => []MixedPairTakesTwo
<1>1. RInv => MixedPairTakesTwo
  BY DEF RInv, Pair, MixedPairTakesTwo, AtRest
<1> QED
  BY <1>1, Inductive, PTL

(* A rotation that ends without an error has moved all holders *)
THEOREM RotationSound == Spec => []RotationComplete
<1>1. RInv => RotationComplete
  <2> SUFFICES ASSUME RInv, pc = "done", command \in Secrets
               PROVE  Agree(command) /\ Absent \notin Holders(command)
    BY DEF RotationComplete
  <2> USE Names DEF RInv
  <2>1. todo = {} /\ command \in {"jwt", "tls", "client"} \cup Databases
    BY DEF Course, Secrets
  <2>2. CASE command = "jwt"
    <3>1. Current("cms") /\ Current("engine")
      BY <2>1, <2>2 DEF Recreated, Forced
    <3>2. Holders("jwt") = {file["priv"]} /\ file["priv"] \in Values
      BY <2>2, <3>1 DEF Rotated, Current, Holders
    <3> QED
      BY <2>2, <3>2 DEF Agree
  <2>3. CASE command = "tls"
    <3>1. Current("traefik")
      BY <2>1, <2>3 DEF Recreated, Forced
    <3>2. Holders("tls") = {file["ca"]} /\ file["ca"] \in Values
      BY <2>3, <3>1 DEF Rotated, Current, Holders
    <3> QED
      BY <2>3, <3>2 DEF Agree
  <2>4. CASE command = "client"
    <3>1. Holders("client") = {file["client"]} /\ file["client"] \in Values
      BY <2>4 DEF Rotated, Holders
    <3> QED
      BY <2>4, <3>1 DEF Agree
  <2>5. CASE command \in Databases
    <3>1. Current(command)
      BY <2>1, <2>5 DEF Recreated, Forced
    <3>2. Holders(command) = {env[command]} /\ env[command] \in Values
      BY <2>5, <3>1 DEF Current, Holders, TypeOK
    <3> QED
      BY <2>5, <3>2 DEF Agree
  <2> QED
    BY <2>1, <2>2, <2>3, <2>4, <2>5
<1> QED
  BY <1>1, Inductive, PTL

(* After an `up` that succeeds, what runs has the password of .env *)
THEOREM UpSound == Spec => []UpServes
<1>1. RInv => UpServes
  <2> SUFFICES ASSUME RInv, pc = "done", command = "up"
               PROVE  /\ \A d \in Databases : password[d] \in {env[d], Absent}
                      /\ "cms" \in Databases => role["cms"] = env["cms"]
    BY DEF UpServes
  <2>1. todo = {}
    BY DEF RInv, Course
  <2> QED
    BY <2>1 DEF RInv, Served, RoleOf
<1> QED
  BY <1>1, Inductive, PTL

(* Unless its own rotation was cut off, all holders of a secret have the same *)
(* value whenever no command runs                                            *)
THEOREM AgreeSound == Spec => []OthersAgree
<1>1. RInv => OthersAgree
  BY SettledAgree DEF RInv, OthersAgree
<1> QED
  BY <1>1, Inductive, PTL
=============================================================================
