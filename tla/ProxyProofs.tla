------------------------------ MODULE ProxyProofs ------------------------------
(***************************************************************************)
(* That `up` leaves Traefik with the entry points of .env and with routers  *)
(* that bring each request to the service whose it is (Proxy.tla), for      *)
(* every set of hosts, ports, paths and examples and any number of edits.   *)
(* What compose sees of the service determines the entry points, the        *)
(* redirect and the resolver; so a container that compose need not recreate *)
(* was created from a traefik.yml with the same ones; and one whose files   *)
(* were not removed under it has the routers last written.  Of the routers  *)
(* of an accepted .env that take one request, the first in priority is the  *)
(* right one: two services that meet on one origin have prefixes neither of *)
(* which is under the other, nor under a reserved path.                     *)
(***************************************************************************)
EXTENDS Proxy, SequenceTheorems, TLAPS

(* The two files and the container are what some .env makes of them *)
CreatedAsSeen(c) ==
    /\ c.created.entrypoints =
         {"web"} \cup {e \in {"websecure"} : c.visible.https # 0}
                 \cup {e \in {"monitor"} : c.visible.monitor # 0}
    /\ c.created.redirect = c.visible.https
    /\ c.created.acme = (c.visible.tls = "acme")

ContainerAsSeen == container # NoContainer => CreatedAsSeen(container)

(* The command at work has rendered .env as it is *)
Rendered == pc \in {"dynamic", "compose"} /\ Traefik(env) => static = StaticConfig(env)

UpToDate ==
    pc = "done" /\ Traefik(env) =>
        container # NoContainer /\ container.visible = ComposeSees(env)

Inv == TypeOK /\ ContainerAsSeen /\ Rendered /\ UpToDate

(* What a traefik.yml and a compose file are, for every .env *)
LEMMA ConfigType ==
    ASSUME NEW e \in Env
    PROVE  /\ StaticConfig(e) \in Static
           /\ ComposeSees(e) \in Visible
  <1>1. 8443 \in Ports /\ Ports \subseteq Nat \ {0}
    BY RoutingAssumption DEF RoutingAssumption
  <1>2. e.http \in Ports /\ e.https \in Ports /\ e.monitor \in Ports \cup {0} /\ e.trusted \in BOOLEAN
    BY DEF Env
  <1>3. MonitorPort(e) \in Ports
    BY <1>1, <1>2 DEF MonitorPort
  <1>4. Tls(e) \in {"files", "acme", "none"}
    BY DEF Tls
  <1>5. EntryPoints(e) \subseteq {"web", "websecure", "monitor"}
    BY DEF EntryPoints
  <1>6. (Tls(e) = "acme") \in BOOLEAN
    OBVIOUS
  <1> QED
    BY <1>2, <1>3, <1>4, <1>5, <1>6 DEF StaticConfig, ComposeSees, Static, Visible

(* Routers are routers of the services *)
LEMMA RoutersType ==
    ASSUME NEW e \in Env
    PROVE  Routers(e) \subseteq RouterType
  <1>1. \A k \in Keys : e.url[k] \in Url
    BY DEF Env
  <1>2. CorePrefixes \subseteq Paths
    BY RoutingAssumption DEF RoutingAssumption
  <1>3. \A k, s \in Keys, p \in {1, 10, 100} : Router(e, s, e.url[k], p) \in RouterType
    BY <1>1 DEF Router, RouterType, Url, EntryPoint
  <1>4. MonitorRouter(e) \in RouterType
    <2>1. Router(e, "workflows", e.url["workflows"], 10) \in RouterType
      BY <1>3 DEF Keys, BaseUrls
    <2> QED
      BY <2>1 DEF MonitorRouter, RouterType
  <1>5. CmsRouters(e) \subseteq RouterType
    <2>1. /\ Router(e, "cms", e.url["web"], 100) \in RouterType
          /\ Router(e, "cms", e.url["cms"], 10) \in RouterType
      BY <1>3 DEF Keys, BaseUrls
    <2>2. \A c \in CorePrefixes :
            [Router(e, "cms", e.url["web"], 100) EXCEPT !.prefix = c] \in RouterType
      BY <2>1, <1>2 DEF RouterType
    <2> QED
      BY <2>1, <2>2 DEF CmsRouters
  <1>6. /\ Router(e, "web", e.url["web"], 1) \in RouterType
        /\ Router(e, "engine", e.url["engine"], 10) \in RouterType
    BY <1>3 DEF Keys, BaseUrls
  <1>7. {Router(e, k, e.url[k], 10) : k \in PublicUrls(e) \cap {"keycloak", "grafana"}} \subseteq RouterType
    BY <1>3 DEF Keys
  <1> QED
    BY <1>4, <1>5, <1>6, <1>7 DEF Routers

(* A part of a URL taken from another URL leaves a URL *)
LEMMA EditedEnv ==
    ASSUME env \in Env,
           (\E k \in Keys : EditUrl(k)) \/ EditOverlays \/ EditValue
    PROVE  env' \in Env
  <1>1. ASSUME NEW k \in Keys, EditUrl(k)
        PROVE  env' \in Env
    <2>1. PICK part \in {"scheme", "host", "port", "path"}, u \in EditedUrls :
            env' = [env EXCEPT !.url[k][part] = u[part]]
      BY <1>1 DEF EditUrl
    <2>2. u \in Url /\ env.url \in [Keys -> Url]
      BY ProxyAssumption DEF ProxyAssumption, Env
    <2>3. [env.url[k] EXCEPT ![part] = u[part]] \in Url
      BY <2>2 DEF Url
    <2>4. [env.url EXCEPT ![k] = [env.url[k] EXCEPT ![part] = u[part]]] \in [Keys -> Url]
      BY <2>2, <2>3
    <2> QED
      BY <2>1, <2>4 DEF Env
  <1>2. CASE EditOverlays
    BY <1>2 DEF EditOverlays, Env
  <1>3. CASE EditValue
    BY <1>3 DEF EditValue, Env
  <1> QED
    BY <1>1, <1>2, <1>3

(* What the watcher does to a container leaves what compose knows of it *)
LEMMA WatchingKeeps ==
    ASSUME NEW c \in Container \cup {NoContainer}, env \in Env
    PROVE  /\ Watching(c) \in Container \cup {NoContainer}
           /\ Watching(c) # NoContainer =>
                /\ c # NoContainer
                /\ Watching(c).visible = c.visible /\ Watching(c).created = c.created
  <1>1. Routers(env) \subseteq RouterType
    BY RoutersType
  <1>2. CASE c = NoContainer \/ ~c.mounted
    BY <1>2 DEF Watching
  <1>3. CASE c # NoContainer /\ c.mounted
    <2>1. Watching(c) \in {[c EXCEPT !.routers = Routers(env)], [c EXCEPT !.mounted = FALSE]}
      BY <1>3 DEF Watching
    <2> QED
      BY <1>1, <1>3, <2>1 DEF Container
  <1> QED
    BY <1>2, <1>3

(* What compose sees tells the entry points *)
LEMMA SeenDetermines ==
    ASSUME NEW e \in Env
    PROVE  /\ EntryPoints(e) =
                {"web"} \cup {x \in {"websecure"} : ComposeSees(e).https # 0}
                        \cup {x \in {"monitor"} : ComposeSees(e).monitor # 0}
           /\ StaticConfig(e).entrypoints = EntryPoints(e)
           /\ StaticConfig(e).redirect = ComposeSees(e).https
           /\ StaticConfig(e).acme = (ComposeSees(e).tls = "acme")
  <1>1. 8443 \in Ports /\ 0 \notin Ports
    BY RoutingAssumption DEF RoutingAssumption
  <1>2. e.https \in Ports /\ e.monitor \in Ports \cup {0}
    BY DEF Env
  <1>3. e.https # 0 /\ MonitorPort(e) # 0
    BY <1>1, <1>2 DEF MonitorPort
  <1>4. ComposeSees(e).https # 0 <=> Secure(e)
    BY <1>3 DEF ComposeSees
  <1>5. ComposeSees(e).monitor # 0 <=> MonitorEntryPoint(e)
    BY <1>3 DEF ComposeSees
  <1>6. EntryPoints(e) =
                {"web"} \cup {x \in {"websecure"} : ComposeSees(e).https # 0}
                        \cup {x \in {"monitor"} : ComposeSees(e).monitor # 0}
    BY <1>4, <1>5, Zenon DEF EntryPoints
  <1>7. /\ StaticConfig(e).redirect = ComposeSees(e).https
        /\ StaticConfig(e).acme = (ComposeSees(e).tls = "acme")
        /\ StaticConfig(e).entrypoints = EntryPoints(e)
    BY DEF StaticConfig, ComposeSees
  <1> QED
    BY <1>6, <1>7
-----------------------------------------------------------------------------
(* The invariant holds before anything is rendered *)
THEOREM InitInv == Init => Inv
  <1> SUFFICES ASSUME Init PROVE Inv
    OBVIOUS
  <1>1. TypeOK
    BY ProxyAssumption DEF Init, TypeOK, ProxyAssumption
  <1> QED
    BY <1>1 DEF Init, Inv, ContainerAsSeen, Rendered, UpToDate

(* ... and whatever is edited, rendered, killed or started then *)
THEOREM StepInv == Inv /\ [Next]_vars => Inv'
  <1> SUFFICES ASSUME Inv, [Next]_vars PROVE Inv'
    OBVIOUS
  <1> USE DEF Inv
  <1>e. env \in Env
    BY DEF TypeOK
  <1>1. CASE Edit
    <2>1. env' \in Env
      BY <1>1, <1>e, EditedEnv DEF Edit
    <2>2. edits' \in 0..MaxEdits
      <3>1. MaxEdits \in Nat /\ edits \in 0..MaxEdits /\ edits < MaxEdits /\ edits' = edits + 1
        BY <1>1, ProxyAssumption DEF Edit, TypeOK, ProxyAssumption
      <3> HIDE DEF Inv
      <3> QED
        BY <3>1
    <2>3. UNCHANGED <<static, routers, container, command>> /\ pc' = "idle"
      BY <1>1 DEF Edit
    <2>4. TypeOK'
      BY <2>1, <2>2, <2>3 DEF TypeOK
    <2> QED
      BY <2>3, <2>4 DEF ContainerAsSeen, CreatedAsSeen, Rendered, UpToDate
  <1>2. CASE Up
    BY <1>2 DEF Up, TypeOK, ContainerAsSeen, Rendered, UpToDate
  <1>3. CASE Render
    BY <1>3 DEF Render, TypeOK, ContainerAsSeen, Rendered, UpToDate
  <1>4. CASE WriteStatic
    <2>1. static' \in Static \cup {NoFile}
      BY <1>4, <1>e, ConfigType DEF WriteStatic, TypeOK
    <2>2. TypeOK'
      BY <1>4, <2>1 DEF WriteStatic, TypeOK
    <2>3. Rendered'
      BY <1>4 DEF WriteStatic, Rendered
    <2> QED
      BY <1>4, <2>2, <2>3 DEF WriteStatic, ContainerAsSeen, UpToDate
  <1>5. CASE WriteDynamic
    <2>1. routers' \subseteq RouterType /\ static' \in Static \cup {NoFile}
      BY <1>5, <1>e, RoutersType DEF WriteDynamic, TypeOK
    <2>2. container' = Watching(container)
      BY <1>5 DEF WriteDynamic
    <2>3. TypeOK'
      <3>1. container' \in Container \cup {NoContainer}
        BY <2>2, <1>e, WatchingKeeps DEF TypeOK
      <3> QED
        BY <1>5, <2>1, <3>1 DEF WriteDynamic, TypeOK
    <2>4. Rendered'
      BY <1>5 DEF WriteDynamic, Rendered
    <2>5. ContainerAsSeen'
      BY <2>2, <1>e, WatchingKeeps DEF TypeOK, ContainerAsSeen, CreatedAsSeen
    <2> QED
      BY <1>5, <2>3, <2>4, <2>5 DEF WriteDynamic, UpToDate
  <1>6. CASE ComposeUp
    <2>1. CASE Traefik(env) /\ (container = NoContainer \/ container.visible # ComposeSees(env))
      <3>1. static = StaticConfig(env) /\ static \in Static /\ ComposeSees(env) \in Visible
        BY <1>6, <2>1, <1>e, ConfigType DEF ComposeUp, Rendered
      <3>2. container' = [visible |-> ComposeSees(env), created |-> static, read |-> static,
                          routers |-> routers, mounted |-> TRUE]
        BY <1>6, <2>1 DEF ComposeUp
      <3>3. container' \in Container
        BY <3>1, <3>2 DEF Container, TypeOK
      <3>4. /\ container'.visible = ComposeSees(env)
            /\ container'.created = StaticConfig(env)
        BY <3>1, <3>2
      <3>5. container' # NoContainer
        BY <3>2 DEF NoContainer
      <3>6. CreatedAsSeen(container')
        BY <3>4, <1>e, SeenDetermines DEF CreatedAsSeen
      <3>7. TypeOK'
        BY <1>6, <3>3 DEF ComposeUp, TypeOK
      <3>8. ContainerAsSeen'
        BY <3>6 DEF ContainerAsSeen, CreatedAsSeen
      <3>9. env' = env /\ pc' = "done" /\ ComposeSees(env)' = ComposeSees(env)
        BY <1>6 DEF ComposeUp, ComposeSees
      <3> QED
        BY <3>4, <3>5, <3>7, <3>8, <3>9 DEF Rendered, UpToDate
    <2>2. CASE ~(Traefik(env) /\ (container = NoContainer \/ container.visible # ComposeSees(env)))
      <3>1. container' = container /\ pc' = "done" /\ env' = env /\ UNCHANGED <<edits, static, routers, command>>
        BY <1>6, <2>2 DEF ComposeUp
      <3>2. UpToDate'
        BY <2>2, <3>1 DEF UpToDate, ComposeSees, Traefik
      <3> QED
        BY <3>1, <3>2 DEF TypeOK, ContainerAsSeen, CreatedAsSeen, Rendered
    <2> QED
      BY <2>1, <2>2
  <1>7. CASE Kill
    BY <1>7 DEF Kill, TypeOK, ContainerAsSeen, Rendered, UpToDate
  <1>8. CASE Restart
    <2>1. container \in Container /\ static \in Static /\ routers \subseteq RouterType
      BY <1>8 DEF Restart, TypeOK
    <2>2. /\ container' \in Container
          /\ container'.visible = container.visible
          /\ container'.created = container.created
      BY <1>8, <2>1 DEF Restart, Container
    <2>3. container' # NoContainer
      BY <1>8, <2>1 DEF Restart, NoContainer, Container
    <2>4. CreatedAsSeen(container)
      BY <1>8 DEF Restart, ContainerAsSeen
    <2>5. ContainerAsSeen'
      BY <2>2, <2>4 DEF ContainerAsSeen, CreatedAsSeen
    <2>6. UpToDate'
      BY <1>8, <2>2, <2>3 DEF Restart, UpToDate, ComposeSees
    <2>7. TypeOK'
      BY <1>8, <2>2 DEF Restart, TypeOK
    <2> QED
      BY <1>8, <2>5, <2>6, <2>7 DEF Restart, Rendered
  <1>9. CASE Down
    BY <1>9 DEF Down, TypeOK, ContainerAsSeen, Rendered, UpToDate
  <1>10. CASE UNCHANGED vars
    BY <1>10 DEF vars, TypeOK, ContainerAsSeen, CreatedAsSeen, Rendered, UpToDate
  <1> QED
    BY <1>1, <1>2, <1>3, <1>4, <1>5, <1>6, <1>7, <1>8, <1>9, <1>10 DEF Next

(* The invariant from which the entry points follow *)
THEOREM Invariant == Spec => []Inv
  BY InitInv, StepInv, PTL DEF Spec

(* Every variable keeps its type *)
THEOREM TypeCorrect == Spec => []TypeOK
  <1>1. Inv => TypeOK
    BY DEF Inv
  <1> QED
    BY <1>1, Invariant, PTL

(* After `up` the running Traefik has the entry points, the redirect and the *)
(* resolver that .env asks for, whatever was edited, rendered, cut off or    *)
(* restarted before                                                          *)
THEOREM EntryPointsSound == Spec => []EntryPointsInForce
  <1>1. Inv => EntryPointsInForce
    <2> SUFFICES ASSUME Inv, UpDone
                 PROVE  /\ container.read.entrypoints = EntryPoints(env)
                        /\ container.read.redirect = StaticConfig(env).redirect
                        /\ container.read.acme = StaticConfig(env).acme
      BY DEF EntryPointsInForce
    <2>1. container # NoContainer /\ container.visible = ComposeSees(env) /\ container.read = container.created
      BY DEF Inv, UpDone, UpToDate
    <2>2. CreatedAsSeen(container)
      BY <2>1 DEF Inv, ContainerAsSeen
    <2>3. env \in Env
      BY DEF Inv, TypeOK
    <2> QED
      BY <2>1, <2>2, <2>3, SeenDetermines DEF CreatedAsSeen
  <1> QED
    BY <1>1, Invariant, PTL
-----------------------------------------------------------------------------
(* Whose a request is: the routers of an accepted .env *)

(* Two prefixes of one path: one is under the other *)
LEMMA Comparable ==
    ASSUME NEW p \in Paths, NEW a \in Paths, NEW b \in Paths, Under(p, a), Under(p, b)
    PROVE  Under(a, b) \/ Under(b, a)
  <1>1. /\ p \in Seq(STRING) /\ a \in Seq(STRING) /\ b \in Seq(STRING)
        /\ Len(p) \in Nat /\ Len(a) \in Nat /\ Len(b) \in Nat
    <2>1. p \in Seq(STRING) /\ a \in Seq(STRING) /\ b \in Seq(STRING)
      BY RoutingAssumption DEF RoutingAssumption
    <2> QED
      BY <2>1
  <1>2. ASSUME NEW s \in Seq(STRING), NEW t \in Seq(STRING)
        PROVE  IsPrefix(s, t) <=> Len(s) <= Len(t) /\ \A i \in 1..Len(s) : s[i] = t[i]
    <2>1. CASE Len(s) <= Len(t)
      <3>1. /\ SubSeq(s, 1, Len(s)) \in Seq(STRING) /\ Len(SubSeq(s, 1, Len(s))) = Len(s)
            /\ \A i \in 1..Len(s) : SubSeq(s, 1, Len(s))[i] = s[i]
        OBVIOUS
      <3>2. /\ SubSeq(t, 1, Len(s)) \in Seq(STRING) /\ Len(SubSeq(t, 1, Len(s))) = Len(s)
            /\ \A i \in 1..Len(s) : SubSeq(t, 1, Len(s))[i] = t[i]
        BY <2>1
      <3>3. SubSeq(s, 1, Len(s)) = SubSeq(t, 1, Len(s)) <=> \A i \in 1..Len(s) : s[i] = t[i]
        <4>1. ASSUME \A i \in 1..Len(s) : s[i] = t[i]
              PROVE  SubSeq(s, 1, Len(s)) = SubSeq(t, 1, Len(s))
          BY <3>1, <3>2, <4>1, SeqEqual
        <4>2. ASSUME SubSeq(s, 1, Len(s)) = SubSeq(t, 1, Len(s))
              PROVE  \A i \in 1..Len(s) : s[i] = t[i]
          BY <3>1, <3>2, <4>2, Zenon
        <4> QED
          BY <4>1, <4>2
      <3> QED
        BY <2>1, <3>3 DEF IsPrefix
    <2> QED
      BY <2>1 DEF IsPrefix
  <1>3. /\ Len(a) <= Len(p) /\ \A i \in 1..Len(a) : a[i] = p[i]
        /\ Len(b) <= Len(p) /\ \A i \in 1..Len(b) : b[i] = p[i]
    BY <1>1, <1>2 DEF Under
  <1>4. CASE Len(b) <= Len(a)
    <2>1. \A i \in 1..Len(b) : b[i] = a[i]
      BY <1>1, <1>3, <1>4
    <2> QED
      BY <1>1, <1>2, <1>4, <2>1 DEF Under
  <1>5. CASE Len(a) <= Len(b)
    <2>1. \A i \in 1..Len(a) : a[i] = b[i]
      BY <1>1, <1>3, <1>5
    <2> QED
      BY <1>1, <1>2, <1>5, <2>1 DEF Under
  <1> QED
    BY <1>1, <1>4, <1>5

(* The entry point of a service's router *)
Door(e, k) == IF k = "workflows" /\ MonitorEntryPoint(e) THEN "monitor" ELSE EntryPoint(e)

(* An .env whose `up` goes on, and an operator who is careful *)
GoodEnv(e) ==
    e \in Env /\ Traefik(e) /\ Accepted(e) /\ Careful(e)

(* An own URL per public service *)
LEMMA UrlsType ==
    ASSUME NEW e \in Env
    PROVE  /\ PublicUrls(e) \subseteq Keys
           /\ \A k \in Keys : e.url[k] \in Url /\ e.url[k].path \in Paths
           /\ {"web", "cms", "engine", "workflows"} \subseteq PublicUrls(e)
  BY DEF PublicUrls, Keys, BaseUrls, Env, Url

(* Traefik waits for a service's requests where its URL sends them *)
LEMMA DoorOfUrl ==
    ASSUME NEW e, GoodEnv(e), NEW k \in PublicUrls(e)
    PROVE  /\ EntryPointAt(e, e.url[k].port) = Door(e, k)
           /\ Door(e, k) \in EntryPoints(e)
  <1>1. Door(e, k) \in EntryPoints(e)
    BY DEF Door, EntryPoints, EntryPoint
  <1>2. CASE BehindProxy(e)
    BY <1>1, <1>2 DEF GoodEnv, Accepted, UpstreamProxyProblem, BehindProxy, EntryPointAt, Door, EntryPoint
  <1>3. CASE ~BehindProxy(e) /\ ~MonitorEntryPoint(e)
    BY <1>1, <1>3 DEF EntryPointAt, Door
  <1>4. CASE ~BehindProxy(e) /\ MonitorEntryPoint(e)
    <2>1. /\ MonitorPort(e) # PublicPort(e)
          /\ e.url["workflows"].port = MonitorPort(e)
          /\ k # "workflows" => e.url[k].port = PublicPort(e)
      BY <1>4 DEF GoodEnv, Accepted, TraefikProblem, MonitorPortProblem, MonitorEntryPoint
    <2> QED
      BY <1>1, <1>4, <2>1 DEF EntryPointAt, Door
  <1> QED
    BY <1>2, <1>3, <1>4

(* Whatever comes through one entry point for one host is for one origin *)
LEMMA SameDoor ==
    ASSUME NEW e, GoodEnv(e), NEW a \in PublicUrls(e), NEW b \in PublicUrls(e),
           Door(e, a) = Door(e, b), e.url[a].host = e.url[b].host
    PROVE  SameOrigin(e.url[a], e.url[b])
  <1>1. CASE BehindProxy(e)
    BY <1>1 DEF GoodEnv, Careful, OneOriginPerHost
  <1>2. CASE ~BehindProxy(e)
    <2>1. ~TraefikProblem(e) /\ Traefik(e)
      BY <1>2 DEF GoodEnv, Accepted
    <2>2. e.url[a].scheme = e.url[b].scheme
      BY <2>1 DEF TraefikProblem
    <2>3. EntryPoint(e) # "monitor"
      BY DEF EntryPoint
    <2>4. e.url[a].port = e.url[b].port
      BY <2>1, <2>3 DEF TraefikProblem, Door
    <2> QED
      BY <2>2, <2>4 DEF SameOrigin
  <1> QED
    BY <1>1, <1>2

(* A service but the CMS in shared-host mode has one router, for its URL *)
OwnRouter(e, k) ==
    [service |-> k, host |-> e.url[k].host, prefix |-> e.url[k].path, entrypoint |-> Door(e, k),
     priority |-> IF k = "web" THEN 1 ELSE 10]

CoreRouter(e, c) ==
    [service |-> "cms", host |-> e.url["web"].host, prefix |-> c, entrypoint |-> EntryPoint(e),
     priority |-> 100]

(* Routers, service by service *)
LEMMA RoutersAre ==
    ASSUME NEW e
    PROVE  Routers(e) =
             {OwnRouter(e, k) : k \in {s \in PublicUrls(e) : s # "cms" \/ ~Shared(e)}}
               \cup {CoreRouter(e, c) : c \in {d \in CorePrefixes : Shared(e)}}
  <1>1. /\ Router(e, "web", e.url["web"], 1) = OwnRouter(e, "web")
        /\ Router(e, "engine", e.url["engine"], 10) = OwnRouter(e, "engine")
        /\ Router(e, "cms", e.url["cms"], 10) = OwnRouter(e, "cms")
        /\ \A k \in {"keycloak", "grafana"} : Router(e, k, e.url[k], 10) = OwnRouter(e, k)
    BY DEF Router, OwnRouter, Door
  <1>2. MonitorRouter(e) = OwnRouter(e, "workflows")
    BY DEF MonitorRouter, Router, OwnRouter, Door
  <1>3. \A c \in CorePrefixes :
          [Router(e, "cms", e.url["web"], 100) EXCEPT !.prefix = c] = CoreRouter(e, c)
    BY DEF Router, CoreRouter
  <1>4. PublicUrls(e) = BaseUrls \cup (PublicUrls(e) \cap {"keycloak", "grafana"})
    BY DEF PublicUrls, BaseUrls
  <1>5. {Router(e, k, e.url[k], 10) : k \in PublicUrls(e) \cap {"keycloak", "grafana"}}
          = {OwnRouter(e, k) : k \in PublicUrls(e) \cap {"keycloak", "grafana"}}
    BY <1>1
  <1>6. CmsRouters(e) = {OwnRouter(e, k) : k \in {s \in {"cms"} : ~Shared(e)}}
                          \cup {CoreRouter(e, c) : c \in {d \in CorePrefixes : Shared(e)}}
    <2>1. CASE Shared(e)
      <3>1. CmsRouters(e) = {CoreRouter(e, c) : c \in CorePrefixes}
        BY <1>3, <2>1 DEF CmsRouters
      <3> QED
        BY <2>1, <3>1
    <2>2. CASE ~Shared(e)
      BY <1>1, <2>2 DEF CmsRouters
    <2> QED
      BY <2>1, <2>2
  <1>7. {s \in PublicUrls(e) : s # "cms" \/ ~Shared(e)}
          = {"web", "engine", "workflows"} \cup {s \in {"cms"} : ~Shared(e)}
              \cup (PublicUrls(e) \cap {"keycloak", "grafana"})
    BY <1>4 DEF BaseUrls
  <1> HIDE DEF OwnRouter
  <1>8. Routers(e) =
          {OwnRouter(e, "web"), OwnRouter(e, "engine"), OwnRouter(e, "workflows")}
            \cup CmsRouters(e)
            \cup {OwnRouter(e, k) : k \in PublicUrls(e) \cap {"keycloak", "grafana"}}
    BY <1>1, <1>2, <1>5 DEF Routers
  <1> QED
    BY <1>6, <1>7, <1>8

(* Of two services on one origin that have a prefix and no reserved one, a   *)
(* path is under one only; and nothing prefixed reaches into reserved paths  *)
LEMMA NoneOther ==
    ASSUME NEW e, GoodEnv(e), NEW p \in Paths,
           NEW k \in PublicUrls(e), NEW s \in PublicUrls(e), s # k,
           k \notin {"web", "cms"}, s # "web", s # "cms" \/ ~Shared(e),
           SameOrigin(e.url[k], e.url[s]), Under(p, e.url[k].path), Under(p, e.url[s].path)
    PROVE  FALSE
  <1>1. s # "cms" => s \in PrefixedUrls(e)
    BY DEF PrefixedUrls
  <1>2. k \in PrefixedUrls(e)
    BY DEF PrefixedUrls
  <1>3. SameOrigin(e.url[s], e.url[k])
    BY DEF SameOrigin
  <1>4. ~CmsProblem(e) /\ ~PrefixCollision(e) /\ OwnOrigins(e)
    BY DEF GoodEnv, Accepted, PathProblem, Careful
  <1>5. e.url[s].path # <<>>
    BY <1>3, <1>4 DEF OwnOrigins
  <1>6. s # "cms"
    BY <1>4, <1>5 DEF CmsProblem
  <1>7. e.url[k].path # <<>>
    BY <1>4, <1>6 DEF OwnOrigins
  <1>8. e.url[k].path \in Paths /\ e.url[s].path \in Paths
    BY UrlsType DEF GoodEnv
  <1>9. Under(e.url[k].path, e.url[s].path) \/ Under(e.url[s].path, e.url[k].path)
    BY <1>8, Comparable
  <1> QED
    BY <1>1, <1>2, <1>3, <1>4, <1>5, <1>6, <1>7, <1>9 DEF PrefixCollision

LEMMA NotReserved ==
    ASSUME NEW e, GoodEnv(e), NEW p \in Paths, NEW k \in PublicUrls(e), k \notin {"web", "cms"},
           NEW r \in CorePrefixes \cup WebReserved,
           SameOrigin(e.url[k], e.url["web"]), Under(p, e.url[k].path), Under(p, r)
    PROVE  FALSE
  <1>1. k \in PrefixedUrls(e)
    BY DEF PrefixedUrls
  <1>2. ~ReservedPath(e) /\ e.url[k].path # <<>>
    BY <1>1 DEF GoodEnv, Accepted, PathProblem
  <1>3. e.url[k].path \in Paths /\ r \in Paths
    BY UrlsType, RoutingAssumption DEF GoodEnv, RoutingAssumption
  <1>4. CASE Under(e.url[k].path, r)
    BY <1>1, <1>2, <1>4 DEF ReservedPath
  <1>5. CASE Under(r, e.url[k].path)
    <2>1. PICK q \in CorePrefixes \cup WebReserved : IsPrefix(q, e.url[k].path)
      BY <1>2, <1>3, <1>5, RoutingAssumption DEF Under, RoutingAssumption
    <2> QED
      BY <1>1, <1>2, <2>1 DEF ReservedPath, Under
  <1> QED
    BY <1>3, <1>4, <1>5, Comparable

(* Of the routers that take a request, the one with the highest priority is  *)
(* that of the service whose request it is                                   *)
LEMMA Rivals ==
    ASSUME NEW e, GoodEnv(e), NEW p \in Paths, NEW k \in PublicUrls(e), Belongs(e, k, p),
           k # "cms" \/ ~Shared(e),
           NEW s \in PublicUrls(e), s # k, s # "cms" \/ ~Shared(e),
           Door(e, s) = Door(e, k), e.url[s].host = e.url[k].host, Under(p, e.url[s].path)
    PROVE  s = "web"
  <1> SUFFICES ASSUME s # "web" PROVE FALSE
    OBVIOUS
  <1>1. SameOrigin(e.url[s], e.url[k]) /\ SameOrigin(e.url[k], e.url[s])
    BY SameDoor DEF SameOrigin
  <1>2. ~CmsProblem(e) /\ Traefik(e)
    BY DEF GoodEnv, Accepted
  <1>3. CASE k = "web"
    <2>1. s # "cms"
      BY <1>1, <1>2, <1>3 DEF CmsProblem
    <2>2. s \in PrefixedUrls(e)
      BY <2>1 DEF PrefixedUrls
    <2>3. Reserved(p)
      BY <1>1, <1>3, <2>2 DEF Belongs
    <2>4. PICK r \in WebReserved : Under(p, r)
      BY <2>3 DEF Reserved
    <2> QED
      BY <1>1, <1>3, <2>1, <2>4, NotReserved
  <1>4. Under(p, e.url[k].path)
    BY DEF Belongs
  <1>5. CASE k = "cms"
    BY <1>1, <1>4, <1>5, NoneOther
  <1>6. CASE k \notin {"web", "cms"}
    BY <1>1, <1>4, <1>6, NoneOther
  <1> QED
    BY <1>3, <1>5, <1>6

(* ... and none of the CMS's routers for core's prefixes takes it, unless it *)
(* is the CMS's                                                              *)
LEMMA CoreKeepsOut ==
    ASSUME NEW e, GoodEnv(e), NEW p \in Paths, NEW k \in PublicUrls(e), Belongs(e, k, p),
           Shared(e), NEW c \in CorePrefixes, Under(p, c),
           Door(e, k) = EntryPoint(e), e.url[k].host = e.url["web"].host
    PROVE  k = "cms"
  <1> SUFFICES ASSUME k # "cms" PROVE FALSE
    OBVIOUS
  <1>1. CASE k = "web"
    BY <1>1 DEF Belongs, Core
  <1>2. CASE k # "web"
    <2>1. Door(e, "web") = EntryPoint(e) /\ "web" \in PublicUrls(e)
      BY UrlsType DEF Door, GoodEnv
    <2>2. SameOrigin(e.url[k], e.url["web"])
      BY <2>1, SameDoor
    <2>3. Under(p, e.url[k].path)
      BY <1>2 DEF Belongs
    <2> QED
      BY <1>2, <2>2, <2>3, NotReserved
  <1> QED
    BY <1>1, <1>2

(* Each request gets where it belongs *)
LEMMA Answered ==
    ASSUME NEW e, GoodEnv(e), NEW p \in Paths, NEW k \in PublicUrls(e), Belongs(e, k, p),
           WholeSegments(e, p)
    PROVE  Answering(Routers(e), Door(e, k), e.url[k].host, p) = {k}
  <1> DEFINE M == {r \in Routers(e) : /\ r.entrypoint = Door(e, k)
                                      /\ r.host = e.url[k].host
                                      /\ LiteralPrefix(r.prefix, p)}
             P == IF k = "web" THEN 1 ELSE IF k = "cms" /\ Shared(e) THEN 100 ELSE 10
  <1>1. ASSUME NEW q \in {e.url[s].path : s \in PublicUrls(e)} \cup CorePrefixes
        PROVE  LiteralPrefix(q, p) <=> Under(p, q)
    BY DEF WholeSegments, LiteralPrefix, Under
  <1>2. \E r \in M : r.service = k /\ r.priority = P
    <2>1. CASE k # "cms" \/ ~Shared(e)
      <3>1. Under(p, e.url[k].path)
        BY <2>1 DEF Belongs
      <3>2. LiteralPrefix(e.url[k].path, p)
        BY <1>1, <3>1
      <3>3. OwnRouter(e, k) \in M
        BY <2>1, <3>2, RoutersAre DEF OwnRouter
      <3>4. OwnRouter(e, k).service = k /\ OwnRouter(e, k).priority = P
        BY <2>1 DEF OwnRouter
      <3> QED
        BY <3>3, <3>4
    <2>2. CASE k = "cms" /\ Shared(e)
      <3>1. PICK c \in CorePrefixes : Under(p, c)
        BY <2>2 DEF Belongs, Core
      <3>2. LiteralPrefix(c, p)
        BY <1>1, <3>1
      <3>3. e.url["cms"].host = e.url["web"].host /\ Door(e, k) = EntryPoint(e)
        BY <2>2 DEF GoodEnv, Accepted, CmsProblem, SameOrigin, Door
      <3>4. CoreRouter(e, c) \in M
        BY <2>2, <3>2, <3>3, RoutersAre DEF CoreRouter
      <3>5. CoreRouter(e, c).service = k /\ CoreRouter(e, c).priority = P
        BY <2>2 DEF CoreRouter
      <3> QED
        BY <3>4, <3>5
    <2> QED
      BY <2>1, <2>2
  <1>3. ASSUME NEW r \in M
        PROVE  /\ r.priority \in Nat
               /\ r.service = k => r.priority = P
               /\ r.service # k => r.priority < P
    <2>1. CASE \E s \in PublicUrls(e) : (s # "cms" \/ ~Shared(e)) /\ r = OwnRouter(e, s)
      <3>1. PICK s \in PublicUrls(e) : (s # "cms" \/ ~Shared(e)) /\ r = OwnRouter(e, s)
        BY <2>1
      <3>2. /\ r.service = s /\ r.priority = IF s = "web" THEN 1 ELSE 10
            /\ Door(e, s) = Door(e, k) /\ e.url[s].host = e.url[k].host
            /\ LiteralPrefix(e.url[s].path, p)
        BY <3>1 DEF OwnRouter
      <3>3. Under(p, e.url[s].path)
        BY <1>1, <3>2
      <3>4. CASE s = k
        BY <3>1, <3>2, <3>4
      <3>5. CASE s # k /\ k = "cms" /\ Shared(e)
        BY <3>2, <3>5
      <3>6. CASE s # k /\ ~(k = "cms" /\ Shared(e))
        <4>1. s = "web"
          BY <3>1, <3>2, <3>3, <3>6, Rivals
        <4> QED
          BY <3>2, <3>6, <4>1
      <3> QED
        BY <3>4, <3>5, <3>6
    <2>2. CASE \E c \in CorePrefixes : Shared(e) /\ r = CoreRouter(e, c)
      <3>1. PICK c \in CorePrefixes : Shared(e) /\ r = CoreRouter(e, c)
        BY <2>2
      <3>2. /\ r.service = "cms" /\ r.priority = 100
            /\ Door(e, k) = EntryPoint(e) /\ e.url[k].host = e.url["web"].host
            /\ LiteralPrefix(c, p)
        BY <3>1 DEF CoreRouter
      <3>3. Under(p, c)
        BY <1>1, <3>2
      <3>4. k = "cms"
        BY <3>1, <3>2, <3>3, CoreKeepsOut
      <3> QED
        BY <3>1, <3>2, <3>4
    <2>3. r \in Routers(e)
      OBVIOUS
    <2> HIDE DEF M, P
    <2> QED
      BY <2>1, <2>2, <2>3, RoutersAre
  <1>4. Answering(Routers(e), Door(e, k), e.url[k].host, p)
          = {r.service : r \in {m \in M : \A n \in M : n.priority <= m.priority}}
    BY DEF Answering
  <1>5. P \in Nat
    OBVIOUS
  <1> HIDE DEF M, P
  <1>6. ASSUME NEW m \in M, \A n \in M : n.priority <= m.priority PROVE m.service = k
    BY <1>2, <1>3, <1>5, <1>6
  <1>7. \E m \in M : m.service = k /\ \A n \in M : n.priority <= m.priority
    <2>1. PICK m \in M : m.service = k /\ m.priority = P
      BY <1>2
    <2>2. ASSUME NEW n \in M PROVE n.priority <= m.priority
      BY <1>3, <1>5, <2>1, <2>2
    <2> QED
      BY <2>1, <2>2
  <1>8. {r.service : r \in {m \in M : \A n \in M : n.priority <= m.priority}} = {k}
    BY <1>6, <1>7
  <1> QED
    BY <1>4, <1>8

(* A command has rendered the routers of .env when compose is called, and    *)
(* `up` comes there with an accepted .env only; a container that has its     *)
(* files has read them                                                       *)
RoutersInForce ==
    /\ (pc \in {"static", "dynamic"} /\ command = "up") \/ pc \in {"compose", "done"} => Accepted(env)
    /\ pc \in {"compose", "done"} /\ Traefik(env) =>
         /\ routers = Routers(env)
         /\ container # NoContainer /\ container.mounted => container.routers = Routers(env)

(* ReachesOwn: after `up` every request is answered by the service whose it  *)
(* is, however .env was edited and whatever was rendered or cut off before,  *)
(* by every container whose files were not removed under it                  *)
THEOREM ReachesSound == Spec => []ReachesOwn
  <1>1. Init => RoutersInForce
    BY DEF Init, RoutersInForce
  <1>2. Inv /\ RoutersInForce /\ [Next]_vars => RoutersInForce'
    <2> SUFFICES ASSUME Inv, RoutersInForce, [Next]_vars PROVE RoutersInForce'
      OBVIOUS
    <2>1. CASE Edit \/ Down \/ Kill
      BY <2>1 DEF Edit, Down, Kill, RoutersInForce
    <2>2. CASE Up \/ Render
      BY <2>2 DEF Up, Render, RoutersInForce
    <2>3. CASE WriteStatic
      BY <2>3 DEF WriteStatic, RoutersInForce
    <2>4. CASE WriteDynamic
      <3>1. container \in Container \cup {NoContainer}
        BY DEF Inv, TypeOK
      <3>2. Traefik(env) => routers' = Routers(env)
        BY <2>4 DEF WriteDynamic
      <3>3. Traefik(env) /\ container' # NoContainer /\ container'.mounted =>
              container'.routers = Routers(env)
        <4>1. container' = Watching(container)
          BY <2>4 DEF WriteDynamic
        <4> QED
          BY <3>1, <4>1 DEF Watching, Container
      <3>4. pc' \in {"compose", "done"} => command = "up"
        BY <2>4 DEF WriteDynamic
      <3>5. pc' \notin {"static", "dynamic"} /\ pc = "dynamic" /\ UNCHANGED <<env, command>>
        BY <2>4 DEF WriteDynamic
      <3> QED
        BY <3>2, <3>3, <3>4, <3>5 DEF RoutersInForce
    <2>5. CASE ComposeUp
      <3>1. /\ pc = "compose" /\ pc' = "done" /\ UNCHANGED <<env, routers>>
            /\ container' = container \/ container'.routers = routers
        BY <2>5 DEF ComposeUp
      <3> QED
        BY <3>1 DEF RoutersInForce
    <2>6. CASE Restart
      <3>1. container'.routers = routers /\ UNCHANGED <<env, routers, command, pc>>
        BY <2>6 DEF Restart, Inv, TypeOK, Container
      <3> QED
        BY <3>1 DEF RoutersInForce
    <2>7. CASE UNCHANGED vars
      BY <2>7 DEF vars, RoutersInForce
    <2> QED
      BY <2>1, <2>2, <2>3, <2>4, <2>5, <2>6, <2>7 DEF Next
  <1>3. Inv /\ EntryPointsInForce /\ RoutersInForce => ReachesOwn
    <2> SUFFICES ASSUME Inv, EntryPointsInForce, RoutersInForce,
                        UpDone, container.mounted, Careful(env),
                        NEW k \in PublicUrls(env), NEW p \in Paths,
                        Belongs(env, k, p), WholeSegments(env, p)
                 PROVE  Served(env.url[k], p) = {k}
      BY DEF ReachesOwn
    <2>1. GoodEnv(env) /\ container.routers = Routers(env)
      <3>1. container # NoContainer
        BY DEF Inv, UpToDate, UpDone
      <3> QED
        BY <3>1 DEF GoodEnv, Inv, TypeOK, RoutersInForce, UpDone
    <2>2. container.read.entrypoints = EntryPoints(env)
      BY DEF EntryPointsInForce
    <2> HIDE DEF GoodEnv
    <2>3. /\ EntryPointAt(env, env.url[k].port) = Door(env, k)
          /\ Door(env, k) \in EntryPoints(env)
      BY <2>1, DoorOfUrl
    <2>4. Answering(Routers(env), Door(env, k), env.url[k].host, p) = {k}
      BY <2>1, Answered
    <2> QED
      BY <2>1, <2>2, <2>3, <2>4 DEF Served
  <1> QED
    BY <1>1, <1>2, <1>3, Invariant, EntryPointsSound, PTL DEF Spec
=============================================================================
