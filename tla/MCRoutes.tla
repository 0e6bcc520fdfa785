------------------------------ MODULE MCRoutes ------------------------------
(* Routes instantiated for TLC: one instance has two names, each other one. *)
EXTENDS Routes, TLC

CONSTANTS alpha, beta, a1, a2, b1, web, api

OwnerOfName == (a1 :> alpha @@ a2 :> alpha @@ b1 :> beta)
ServiceOfEndpoint == [e \in {web, api} |-> e]

\* The two names of alpha are interchangeable, and so are the two services.
RouteSymmetry == Permutations({a1, a2}) \cup Permutations({web, api})

\* What Caddy runs decides no step but its own, and no property of routes_leases reads it.
AllButLive == <<status, routes, bound, file, op>>
=============================================================================
