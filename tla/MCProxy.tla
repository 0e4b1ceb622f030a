-------------------------------- MODULE MCProxy --------------------------------
(* Proxy for TLC: the routing examples of examples/*.env, and one edit away   *)
(* or two.  Of core's prefixes there are one of one segment and one of two    *)
(* that the web client's /auth contains; `graphs` begins with the text of     *)
(* `graph`, as administration does with admin.                                *)
EXTENDS Proxy

MCHosts == {"neops", "cms", "engine", "workflows", "auth", "grafana"}
MCPorts == {80, 443, 8443}
MCPaths == {<<>>, <<"engine">>, <<"engine", "a">>, <<"workflows">>, <<"graph">>, <<"graph", "a">>,
            <<"graphs">>, <<"auth">>, <<"auth", "oidc">>, <<"sso">>}
MCExtends == {<<"graphs", "graph">>}
MCCorePrefixes == {<<"graph">>, <<"auth", "oidc">>}
MCWebReserved == {<<"auth">>}

U(s, h, p, path) == [scheme |-> s, host |-> h, port |-> p, path |-> path]

PerService(s, p) ==
    [k \in Keys |-> CASE k = "web" -> U(s, "neops", p, <<>>)
                      [] k = "keycloak" -> U(s, "auth", p, <<>>)
                      [] OTHER -> U(s, k, p, <<>>)]

OneHost(s, p, workflows) ==
    [k \in Keys |-> CASE k = "engine" -> U(s, "neops", p, <<"engine">>)
                      [] k = "workflows" -> workflows
                      [] k = "keycloak" -> U(s, "neops", p, <<"sso">>)
                      [] k = "grafana" -> U(s, "neops", p, <<"graphs">>)
                      [] OTHER -> U(s, "neops", p, <<>>)]

Example(overlays, url, monitor, trusted) ==
    [overlays |-> overlays \cup {"traefik"}, url |-> url, grafana_set |-> TRUE,
     http |-> 80, https |-> 443, monitor |-> monitor, trusted |-> trusted]

MCExamples == {
    \* traefik-http, traefik-tls-files, oidc-keycloak, metrics
    Example({}, PerService("http", 80), 0, FALSE),
    Example({"tls-files"}, PerService("https", 443), 0, FALSE),
    Example({"tls-files", "oidc", "keycloak"}, PerService("https", 443), 0, FALSE),
    Example({"tls-files", "grafana"}, PerService("https", 443), 0, FALSE),
    \* traefik-shared-host-paths, -tls-files and -upstream-tls
    Example({"shared-host", "tls-files"},
            OneHost("https", 443, U("https", "neops", 443, <<"workflows">>)), 0, FALSE),
    Example({"shared-host", "tls-files"}, OneHost("https", 443, U("https", "neops", 8443, <<>>)), 8443, FALSE),
    Example({"shared-host"}, OneHost("https", 443, U("https", "neops", 443, <<"workflows">>)), 0, TRUE)}

(* every part of a URL on its own *)
MCEditedUrls ==
    {U(s, "neops", 80, <<>>) : s \in {"http", "https"}}
      \cup {U("http", h, 80, <<>>) : h \in MCHosts}
      \cup {U("http", "neops", p, <<>>) : p \in MCPorts}
      \cup {U("http", "neops", 80, p) : p \in MCPaths}
=============================================================================
