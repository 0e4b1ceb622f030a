------------------------------- MODULE MCDoctor -------------------------------
(* Deployments for TLC: behind Traefik with everything on, with OIDC behind  *)
(* the operator's own proxy, and on loopback for an admin without worker:read *)
EXTENDS Doctor

ThreeDeployments ==
    {[oidc |-> FALSE, proxy |-> "traefik", loopback |-> FALSE,
      logs |-> TRUE, tls |-> TRUE, mayList |-> TRUE],
     [oidc |-> TRUE, proxy |-> "expose", loopback |-> FALSE,
      logs |-> FALSE, tls |-> FALSE, mayList |-> TRUE],
     [oidc |-> FALSE, proxy |-> "expose", loopback |-> TRUE,
      logs |-> FALSE, tls |-> FALSE, mayList |-> FALSE]}
=============================================================================
