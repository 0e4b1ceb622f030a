-------------------------------- MODULE Routing --------------------------------
(***************************************************************************)
(* From .env to routers: the checks on COMPOSE_FILE and the public URLs     *)
(* (rules.py, scenario.py, urls.py) and the configuration of the bundled    *)
(* Traefik (traefik_model.py), as operators on one .env.                    *)
(*                                                                         *)
(* A path is the sequence of its segments.  A segment is a name; of its     *)
(* text only this matters: whether one begins with another, as              *)
(* administration does with admin.                                          *)
(*                                                                         *)
(* Left out: how a URL is parsed, middlewares, the router that answers the  *)
(* engine's worker routes, the overlays metrics and logs, and every check   *)
(* that is not about routing (passwords, OIDC values, log store).           *)
(***************************************************************************)
EXTENDS Naturals, SequencesExt

CONSTANTS
    Hosts,          \* hostnames
    Ports,          \* TCP ports
    Paths,          \* paths of URLs and of requests
    Extends,        \* pairs of segments: the text of the first begins with that of the second
    CorePrefixes,   \* CORE_PREFIXES of routes.py, those the instance tells apart
    WebReserved     \* WEB_RESERVED_PATHS

(* The last: what a reserved path is under is reserved; those of core that   *)
(* are not of one segment are under the web client's /auth (routes.py)       *)
ASSUME RoutingAssumption ==
    /\ Ports \subseteq Nat \ {0}
    /\ {80, 8443} \subseteq Ports
    /\ <<>> \in Paths
    /\ \A p \in Paths : p \in Seq(STRING)
    /\ CorePrefixes \cup WebReserved \subseteq Paths \ {<<>>}
    /\ \A r \in CorePrefixes \cup WebReserved, p \in Paths \ {<<>>} :
         IsPrefix(p, r) => \E s \in CorePrefixes \cup WebReserved : IsPrefix(s, p)

Overlays == {"expose", "traefik", "shared-host", "tls-files", "tls-acme", "oidc",
             "keycloak", "grafana"}
BaseUrls == {"web", "cms", "engine", "workflows"}
Keys == BaseUrls \cup {"keycloak", "grafana"}

Url == [scheme : {"http", "https"}, host : Hosts, port : Ports, path : Paths]

(* .env: COMPOSE_FILE, NEOPS_<key>_URL (grafana's may be unset), the three   *)
(* ports (0 for a NEOPS_MONITOR_PORT that is unset), NEOPS_TRUSTED_PROXY_IPS *)
Env == [overlays : SUBSET Overlays, url : [Keys -> Url], grafana_set : BOOLEAN,
        http : Ports, https : Ports, monitor : Ports \cup {0}, trusted : BOOLEAN]
-----------------------------------------------------------------------------
Traefik(env) == "traefik" \in env.overlays
Shared(env) == "shared-host" \in env.overlays
Secure(env) == env.overlays \cap {"tls-files", "tls-acme"} # {}
Tls(env) ==
    CASE "tls-files" \in env.overlays -> "files"
      [] "tls-files" \notin env.overlays /\ "tls-acme" \in env.overlays -> "acme"
      [] OTHER -> "none"

(* public_urls() *)
PublicUrls(env) ==
    BaseUrls
      \cup {k \in {"keycloak"} : "keycloak" \in env.overlays}
      \cup {k \in {"grafana"} : "grafana" \in env.overlays /\ env.grafana_set}

(* the URLs that may have a path *)
PrefixedUrls(env) == PublicUrls(env) \ {"web", "cms"}

SameOrigin(a, b) == a.scheme = b.scheme /\ a.host = b.host /\ a.port = b.port

(* monitor_entrypoint_wanted(): on the web hostname, on another origin *)
MonitorEntryPoint(env) ==
    /\ Shared(env)
    /\ env.url["workflows"].host = env.url["web"].host
    /\ ~SameOrigin(env.url["workflows"], env.url["web"])

MonitorPort(env) == IF env.monitor = 0 THEN 8443 ELSE env.monitor
PublicPort(env) == IF Secure(env) THEN env.https ELSE env.http

(* _tls_terminated_upstream() *)
BehindProxy(env) == env.trusted /\ ~Secure(env)
-----------------------------------------------------------------------------
(* _under(): whole segments *)
Under(path, prefix) == IsPrefix(prefix, path)

OverlayProblem(env) ==
    \/ env.overlays \cap {"expose", "traefik"} = {}
    \/ {"expose", "traefik"} \subseteq env.overlays
    \/ {"tls-files", "tls-acme"} \subseteq env.overlays
    \/ env.overlays \cap {"tls-files", "tls-acme", "shared-host"} # {} /\ ~Traefik(env)
    \/ "keycloak" \in env.overlays /\ "oidc" \notin env.overlays

AcmePortProblem(env) == Tls(env) = "acme" /\ env.http # 80

TrustedProxyProblem(env) == env.trusted /\ ~Traefik(env)

CmsProblem(env) ==
    LET cms == env.url["cms"]
        shares == SameOrigin(cms, env.url["web"])
    IN  \/ cms.path # <<>>
        \/ shares /\ ~Shared(env) /\ Traefik(env)
        \/ ~shares /\ Shared(env)

(* mutant: the reserved paths alone, not what is under them *)
ReservedExactly(env) ==
    \E k \in PrefixedUrls(env) : env.url[k].path \in CorePrefixes \cup WebReserved

ReservedPath(env) ==
    \E k \in PrefixedUrls(env), r \in CorePrefixes \cup WebReserved : Under(env.url[k].path, r)

(* _prefix_collisions() *)
PrefixCollision(env) ==
    \E a, b \in {k \in PrefixedUrls(env) : env.url[k].path # <<>>} :
        /\ a # b
        /\ SameOrigin(env.url[a], env.url[b])
        /\ Under(env.url[a].path, env.url[b].path)

PathProblem(env) ==
    \/ ReservedPath(env)
    \/ \E k \in PrefixedUrls(env) : SameOrigin(env.url[k], env.url["web"]) /\ env.url[k].path = <<>>
    \/ PrefixCollision(env)
    \/ /\ Traefik(env) /\ ~Shared(env)
       /\ \E k \in PublicUrls(env) \ {"cms"} : env.url[k].path # <<>>

UpstreamProxyProblem(env) ==
    \/ \E k \in PublicUrls(env) : env.url[k].scheme # env.url["web"].scheme
    \/ MonitorEntryPoint(env)
    \/ env.monitor # 0

MonitorPortProblem(env) ==
    IF SameOrigin(env.url["workflows"], env.url["web"]) \/ env.url["workflows"].host # env.url["web"].host
      THEN env.monitor # 0
      ELSE \/ MonitorPort(env) = PublicPort(env)
           \/ env.url["workflows"].port # MonitorPort(env)

TraefikProblem(env) ==
    /\ Traefik(env)
    /\ \/ \E k \in PublicUrls(env) : env.url[k].scheme # IF Secure(env) THEN "https" ELSE "http"
       \/ \E k \in PublicUrls(env) :
            /\ ~(k = "workflows" /\ MonitorEntryPoint(env))
            /\ env.url[k].port # PublicPort(env)
       \/ Shared(env) /\ MonitorPortProblem(env)

(* problems() finds none *)
Accepted(env) ==
    /\ ~OverlayProblem(env) /\ ~AcmePortProblem(env) /\ ~TrustedProxyProblem(env)
    /\ ~CmsProblem(env) /\ ~PathProblem(env)
    /\ IF BehindProxy(env) THEN ~UpstreamProxyProblem(env) ELSE ~TraefikProblem(env)
-----------------------------------------------------------------------------
(* build_traefik().  A router takes the requests for its host under its     *)
(* prefix (the empty one is a rule without PathPrefix).                      *)
EntryPoint(env) == IF Secure(env) THEN "websecure" ELSE "web"

Router(env, service, url, priority) ==
    [service |-> service, host |-> url.host, prefix |-> url.path,
     entrypoint |-> EntryPoint(env), priority |-> priority]

CmsRouters(env) ==
    IF Shared(env)
      THEN {[Router(env, "cms", env.url["web"], 100) EXCEPT !.prefix = c] : c \in CorePrefixes}
      ELSE {Router(env, "cms", env.url["cms"], 10)}

MonitorRouter(env) ==
    [Router(env, "workflows", env.url["workflows"], 10)
       EXCEPT !.entrypoint = IF MonitorEntryPoint(env) THEN "monitor" ELSE @]

Routers(env) ==
    {Router(env, "web", env.url["web"], 1), Router(env, "engine", env.url["engine"], 10), MonitorRouter(env)}
      \cup CmsRouters(env)
      \cup {Router(env, k, env.url[k], 10) : k \in PublicUrls(env) \cap {"keycloak", "grafana"}}

(* _entrypoints() *)
EntryPoints(env) ==
    {"web"} \cup {e \in {"websecure"} : Secure(env)} \cup {e \in {"monitor"} : MonitorEntryPoint(env)}

(* static_config(): what Traefik reads when it starts, and only then.  The   *)
(* redirect of the web entry point names a port, 0 for none.                 *)
StaticConfig(env) ==
    [entrypoints |-> EntryPoints(env),
     redirect |-> IF Secure(env) THEN env.https ELSE 0,
     acme |-> Tls(env) = "acme",
     trusted |-> env.trusted]
-----------------------------------------------------------------------------
(* Traefik.  PathPrefix compares characters, not segments; of the routers    *)
(* that match one of the highest priority answers, any if there are several. *)
LiteralPrefix(prefix, path) ==
    \/ IsPrefix(prefix, path)
    \/ /\ prefix # <<>> /\ Len(prefix) <= Len(path)
       /\ IsPrefix(Front(prefix), path)
       /\ <<path[Len(prefix)], Last(prefix)>> \in Extends

Answering(routers, entrypoint, host, path) ==
    LET matching == {r \in routers : /\ r.entrypoint = entrypoint
                                     /\ r.host = host
                                     /\ LiteralPrefix(r.prefix, path)}
    IN  {r.service : r \in {m \in matching : \A n \in matching : n.priority <= m.priority}}

(* The entry point behind a port of a public URL.  An upstream proxy sends   *)
(* everything to NEOPS_HTTP_PORT.                                            *)
EntryPointAt(env, port) ==
    CASE BehindProxy(env) -> "web"
      [] ~BehindProxy(env) /\ MonitorEntryPoint(env) /\ port = MonitorPort(env) -> "monitor"
      [] OTHER -> EntryPoint(env)
-----------------------------------------------------------------------------
(* Whose a request is, from docs/20-scenarios.md: a service has what is     *)
(* under its URL, in shared-host mode the CMS has core's prefixes, and the   *)
(* web client has its reserved paths and the rest of its origin.             *)
Core(env, path) == Shared(env) /\ \E c \in CorePrefixes : Under(path, c)
Reserved(path) == \E r \in WebReserved : Under(path, r)

Belongs(env, k, path) ==
    LET own == Under(path, env.url[k].path)
        others == {s \in PrefixedUrls(env) : /\ SameOrigin(env.url[s], env.url["web"])
                                             /\ Under(path, env.url[s].path)}
    IN  CASE k = "web" -> own /\ ~Core(env, path) /\ (Reserved(path) \/ others = {})
          [] k = "cms" -> IF Shared(env) THEN Core(env, path) ELSE own
          [] OTHER -> own

(* What `check` leaves to the operator.  Apart from web and CMS in           *)
(* shared-host mode no two services have the same origin unless both have a  *)
(* prefix, and behind an upstream proxy one hostname is one origin.          *)
OwnOrigins(env) ==
    \A a, b \in PublicUrls(env) \ {"web"} :
        a # b /\ SameOrigin(env.url[a], env.url[b]) /\ env.url[a].path = <<>>
          => a = "cms" /\ Shared(env) /\ env.url[b].path # <<>>

OneOriginPerHost(env) ==
    \A a, b \in PublicUrls(env) :
        env.url[a].host = env.url[b].host => SameOrigin(env.url[a], env.url[b])

Careful(env) ==
    /\ OwnOrigins(env)
    /\ BehindProxy(env) => OneOriginPerHost(env)

(* No prefix is one of this path in its characters alone *)
WholeSegments(env, path) ==
    \A q \in {env.url[k].path : k \in PublicUrls(env)} \cup CorePrefixes :
        LiteralPrefix(q, path) => Under(path, q)
=============================================================================
