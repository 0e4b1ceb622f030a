--------------------------------- MODULE Proxy ---------------------------------
(***************************************************************************)
(* The bundled Traefik while the operator edits .env: `./neops up` checks   *)
(* .env, renders generated/traefik/ and has docker compose start the        *)
(* container; `./neops render` only renders.  Traefik watches dynamic.yml   *)
(* and reads traefik.yml when it starts.  docker compose recreates the      *)
(* container when its ports, mounts or image changed, and does not look     *)
(* into the files it mounts: each on its own, so that a file that is        *)
(* removed and written anew is not seen until the container starts again.   *)
(*                                                                         *)
(* A command may be killed between two of its writes.  One CLI at a time;   *)
(* .env is not edited while it runs.                                        *)
(***************************************************************************)
EXTENDS Routing

CONSTANTS
    Examples,       \* .env files to start from, those of examples/
    EditedUrls,     \* the values the parts of a URL are edited to: a set of Url
    MaxEdits        \* bound: edits of .env

ASSUME ProxyAssumption ==
    /\ Examples \subseteq Env
    /\ EditedUrls \subseteq Url
    /\ MaxEdits \in Nat

VARIABLES
    env, edits,     \* .env
    static,         \* generated/traefik/traefik.yml
    routers,        \* generated/traefik/dynamic.yml, {} when there is none
    container,      \* Traefik's: what compose created it from, what it has read,
                    \*   whether the files it mounts are those of generated/
    command, pc     \* the CLI

vars == <<env, edits, static, routers, container, command, pc>>

Visible == [http : Ports, https : Ports \cup {0}, monitor : Ports \cup {0},
            tls : {"files", "acme", "none"}]
Static == [entrypoints : SUBSET {"web", "websecure", "monitor"}, redirect : Ports \cup {0},
           acme : BOOLEAN, trusted : BOOLEAN]
RouterType == [service : Keys, host : Hosts, prefix : Paths,
               entrypoint : {"web", "websecure", "monitor"}, priority : {1, 10, 100}]

Container == [visible : Visible, created : Static, read : Static,
              routers : SUBSET RouterType, mounted : BOOLEAN]

NoFile == [absent |-> TRUE]
NoContainer == [absent |-> TRUE]

TypeOK ==
    /\ env \in Env
    /\ edits \in 0..MaxEdits
    /\ static \in Static \cup {NoFile}
    /\ routers \subseteq RouterType
    /\ container \in Container \cup {NoContainer}
    /\ command \in {"up", "render"}
    /\ pc \in {"idle", "static", "dynamic", "compose", "done"}

Init ==
    /\ env \in Examples
    /\ edits = 0
    /\ static = NoFile
    /\ routers = {}
    /\ container = NoContainer
    /\ command = "up"
    /\ pc = "idle"
-----------------------------------------------------------------------------
(* The operator edits one value of .env *)
EditUrl(k) ==
    \E part \in {"scheme", "host", "port", "path"}, u \in EditedUrls :
        env' = [env EXCEPT !.url[k][part] = u[part]]

EditOverlays == \E o \in Overlays :
    env' = [env EXCEPT !.overlays = IF o \in @ THEN @ \ {o} ELSE @ \cup {o}]

EditValue ==
    \/ \E p \in Ports : \/ env' = [env EXCEPT !.http = p]
                        \/ env' = [env EXCEPT !.https = p]
    \/ \E p \in Ports \cup {0} : env' = [env EXCEPT !.monitor = p]
    \/ env' = [env EXCEPT !.trusted = ~@]
    \/ env' = [env EXCEPT !.grafana_set = ~@]

Edit ==
    /\ pc \in {"idle", "done"}
    /\ edits < MaxEdits
    /\ edits' = edits + 1
    /\ (\E k \in Keys : EditUrl(k)) \/ EditOverlays \/ EditValue
    /\ pc' = "idle"
    /\ UNCHANGED <<static, routers, container, command>>
-----------------------------------------------------------------------------
(* up() goes no further than check() while there are problems *)
Up ==
    /\ pc \in {"idle", "done"}
    /\ Accepted(env)
    /\ command' = "up"
    /\ pc' = "static"
    /\ UNCHANGED <<env, edits, static, routers, container>>

(* ./neops render checks nothing *)
Render ==
    /\ pc \in {"idle", "done"}
    /\ command' = "render"
    /\ pc' = "static"
    /\ UNCHANGED <<env, edits, static, routers, container>>

(* render(): traefik.yml, then dynamic.yml; both go when Traefik does,       *)
(* whether or not its container does (_remove_stale)                         *)
WriteStatic ==
    /\ pc = "static"
    /\ static' = IF Traefik(env) THEN StaticConfig(env) ELSE static
    /\ pc' = "dynamic"
    /\ UNCHANGED <<env, edits, routers, container, command>>

(* A dynamic.yml that is overwritten is in force at once, one that is        *)
(* unlinked stays in force as it was                                         *)
Watching(c) ==
    CASE c = NoContainer \/ ~c.mounted -> c
      [] c # NoContainer /\ c.mounted /\ Traefik(env) -> [c EXCEPT !.routers = Routers(env)]
      [] OTHER -> [c EXCEPT !.mounted = FALSE]

WriteDynamic ==
    /\ pc = "dynamic"
    /\ IF Traefik(env)
         THEN routers' = Routers(env) /\ UNCHANGED static
         ELSE routers' = {} /\ static' = NoFile
    /\ container' = Watching(container)
    /\ pc' = IF command = "up" THEN "compose" ELSE "idle"
    /\ UNCHANGED <<env, edits, command>>

(* mutant: the ports of the overlays, not those of ports.yaml *)
ComposeSeesNoMonitor(e) ==
    [http |-> e.http, https |-> IF Secure(e) THEN e.https ELSE 0, tls |-> Tls(e)]

(* mutant: the ports alone, not the volumes *)
ComposeSeesPorts(e) ==
    [http |-> e.http,
     https |-> IF Secure(e) THEN e.https ELSE 0,
     monitor |-> IF MonitorEntryPoint(e) THEN MonitorPort(e) ELSE 0,
     tls |-> "none"]

(* what compose knows of the traefik service: the ports and volumes of the   *)
(* overlays and of generated/traefik/ports.yaml                              *)
ComposeSees(e) ==
    [http |-> e.http,
     https |-> IF Secure(e) THEN e.https ELSE 0,
     monitor |-> IF MonitorEntryPoint(e) THEN MonitorPort(e) ELSE 0,
     tls |-> Tls(e)]

(* compose.up().  A container that no overlay names any more is left alone. *)
ComposeUp ==
    /\ pc = "compose"
    /\ container' =
         IF Traefik(env) /\ (container = NoContainer \/ container.visible # ComposeSees(env))
           THEN [visible |-> ComposeSees(env), created |-> static, read |-> static,
                 routers |-> routers, mounted |-> TRUE]
           ELSE container
    /\ pc' = "done"
    /\ UNCHANGED <<env, edits, static, routers, command>>

Kill ==
    /\ pc \in {"dynamic", "compose"}
    /\ pc' = "idle"
    /\ UNCHANGED <<env, edits, static, routers, container, command>>

(* compose.down(), orphans included; the files stay *)
Down ==
    /\ pc \in {"idle", "done"}
    /\ container' = NoContainer
    /\ pc' = "idle"
    /\ UNCHANGED <<env, edits, static, routers, command>>

(* Traefik starts again in its container, which mounts the two files by name *)
(* and needs both: ./neops restart, a reboot, a crash                        *)
Restart ==
    /\ container # NoContainer
    /\ static # NoFile
    /\ routers # {}
    /\ container' = [container EXCEPT !.read = static, !.routers = routers, !.mounted = TRUE]
    /\ UNCHANGED <<env, edits, static, routers, command, pc>>

Next ==
    \/ Edit \/ Up \/ Render \/ WriteStatic \/ WriteDynamic \/ ComposeUp \/ Down \/ Kill \/ Restart

Spec == Init /\ [][Next]_vars
-----------------------------------------------------------------------------
(* The services one of which answers a request for this URL's origin *)
Served(url, path) ==
    LET e == EntryPointAt(env, url.port)
    IN  IF e \in container.read.entrypoints
          THEN Answering(container.routers, e, url.host, path)
          ELSE {}

(* `up` has ended without an error, and Traefik was not restarted before,    *)
(* under this container, on a traefik.yml that no `up` had come to           *)
UpDone == pc = "done" /\ Traefik(env) /\ container.read = container.created

(* "`.env` declares the browser-facing URL of every entry point"             *)
(* (docs/20-scenarios.md): what `check` accepts and the operator is careful  *)
(* about is served: after `up` every request of a service under its public   *)
(* URL is answered by this service and no other, however .env came about and *)
(* whatever was rendered or cut off before, unless a render without the      *)
(* overlay has removed the files under the container.                        *)
ReachesOwn ==
    UpDone /\ container.mounted /\ Careful(env) =>
        \A k \in PublicUrls(env), p \in Paths :
            Belongs(env, k, p) /\ WholeSegments(env, p) => Served(env.url[k], p) = {k}

(* An edit that changes the entry points, the redirect to HTTPS or the       *)
(* certificate resolver changes something that compose sees as well          *)
(* (_entrypoints against the ports of the overlays), so that the container   *)
(* is recreated and reads them.                                              *)
EntryPointsInForce ==
    UpDone =>
        /\ container.read.entrypoints = EntryPoints(env)
        /\ container.read.redirect = StaticConfig(env).redirect
        /\ container.read.acme = StaticConfig(env).acme

(* "Run this after every `git pull` or `.env` edit" (docs/30-operations.md): *)
(* after `up` Traefik runs with the traefik.yml rendered from .env.          *)
StaticInForce == UpDone => container.read = StaticConfig(env)
=============================================================================
