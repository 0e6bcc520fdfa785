------------------------------- MODULE Routes -------------------------------
(***************************************************************************)
(* The loopback ports of the instances' routes: how compose.py leases      *)
(* them out of the registry, how Docker binds them service by service      *)
(* during a delivery, and what Caddy sends to them.                        *)
(*                                                                         *)
(* The three do not change together.  A delivery replaces the routes in    *)
(* its record first, its containers one service at a time after that, and  *)
(* last the routes Caddy runs and the file it reads when it starts, in this*)
(* order; it may fail or be killed anywhere between.  Module Controller has*)
(* the rest of the lifecycle: generations, budgets and volumes play no part*)
(* here, and the guards of the configuration are module OnboardingGuard's. *)
(***************************************************************************)
EXTENDS Integers

CONSTANTS
    Instances,   \* every instance the policy allows
    Previews,    \* those a destroy may close
    Stagings,    \* those retire-staging may retire
    Hostnames,   \* public names
    Owner,       \* the one instance whose namespace a name is in
    Endpoints,   \* pairs of a service and one of its container ports
    ServiceOf,   \* the service of an endpoint
    PortStart,   \* policy["port_start"]
    PortEnd,     \* policy["port_end"]
    MaxRoutes,   \* MAX_ROUTES
    NoInstance   \* op.instance while the lock is free

Ports == PortStart .. PortEnd
Services == {ServiceOf[e] : e \in Endpoints}

ASSUME NamesAssumption ==
    /\ Previews \subseteq Instances
    /\ Stagings \subseteq Instances \ Previews
    /\ Owner \in [Hostnames -> Instances]
    /\ NoInstance \notin Instances

ASSUME LimitsAssumption ==
    /\ PortStart \in Nat
    /\ PortEnd \in Nat
    /\ MaxRoutes \in Nat

VARIABLES
    status,  \* registry.json: the status of each record
    routes,  \* registry.json: the routes of each record, in the order delivered
    bound,   \* the ports Docker publishes for running containers
    live,    \* the routes of the configuration Caddy runs
    file,    \* caddy_config: the routes of the one it reads when it starts
    op       \* the operation that holds controller.lock

vars == <<status, routes, bound, live, file, op>>
caddyVars == <<live, file>>

-----------------------------------------------------------------------------
Statuses == {"absent", "preparing", "ready", "failed", "deleting", "retiring", "retired"}

Route == [hostname: Hostnames, endpoint: Endpoints, port: Ports]
RouteList == UNION {[1 .. n -> Route] : n \in 0 .. MaxRoutes}
Binding == [instance: Instances, endpoint: Endpoints, port: Ports]

\* The routes of a request: names of the instance's own, each at most once.
Requested(i) ==
    {r \in UNION {[1 .. n -> [hostname: {h \in Hostnames : Owner[h] = i},
                              endpoint: Endpoints]] : n \in 0 .. MaxRoutes} :
       \A n, m \in DOMAIN r : r[n].hostname = r[m].hostname => n = m}

Kinds == {"none", "apply", "destroy", "retire", "refresh"}
Steps == {"idle", "start", "load", "persist", "commit", "remove", "end"}
Operation == [kind: Kinds, step: Steps, instance: Instances \cup {NoInstance},
              services: SUBSET Services, pending: SUBSET Services]

Idle == [kind |-> "none", step |-> "idle", instance |-> NoInstance,
         services |-> {}, pending |-> {}]

Free == op.step = "idle"
At(kind, step) == op.kind = kind /\ op.step = step
Goto(step) == op' = [op EXCEPT !.step = step]

Init ==
    /\ status = [i \in Instances |-> "absent"]
    /\ routes = [i \in Instances |-> << >>]
    /\ bound = {}
    /\ live = {}
    /\ file = {}
    /\ op = Idle

-----------------------------------------------------------------------------
(* allocate_routes: which ports a delivery leases.                         *)

Leased(i) == {routes[i][n].port : n \in DOMAIN routes[i]}

\* A slip: only the instances that are served keep their ports.
ReadyLeases(i) == UNION {Leased(j) : j \in {k \in Instances \ {i} : status[k] = "ready"}}

\* occupied: the ports of every other record, whatever its status.
OtherLeases(i) == UNION {Leased(j) : j \in Instances \ {i}}

\* The routes of the instance's record that reused_port matches.
Previous(i, e) == {n \in DOMAIN routes[i] : routes[i][n].endpoint = e}

\* reused_port: the first of them gives its port.
IsReusedPort(p, i, e) ==
    \E n \in Previous(i, e) : p = routes[i][n].port /\ \A m \in Previous(i, e) : n <= m

\* free_port: the lowest port that is not taken.
IsFreePort(p, taken) == p \notin taken /\ \A q \in Ports : q < p => q \in taken

\* A slip: every delivery takes its ports afresh.
AllocatedAfresh(i, request, port) ==
    \A n \in DOMAIN request :
       IsFreePort(port[n], OtherLeases(i) \cup {port[m] : m \in 1 .. n - 1})

\* port is what allocate_routes gives the routes of the request, one after the
\* other; there is none when the ports run out and the request is refused.
Allocated(i, request, port) ==
    \A n \in DOMAIN request :
       IF Previous(i, request[n].endpoint) # {}
         THEN IsReusedPort(port[n], i, request[n].endpoint)
         ELSE IsFreePort(port[n], OtherLeases(i) \cup {port[m] : m \in 1 .. n - 1})

Recorded(request, port) ==
    [n \in DOMAIN request |->
       [hostname |-> request[n].hostname, endpoint |-> request[n].endpoint, port |-> port[n]]]

-----------------------------------------------------------------------------
(* apply.                                                                  *)

LeaseRoutes(i, request) ==
    \E port \in [DOMAIN request -> Ports] :
       /\ Allocated(i, request, port)
       /\ routes' = [routes EXCEPT ![i] = Recorded(request, port)]

BeginDelivery(i, services) ==
    op' = [kind |-> "apply", step |-> "start", instance |-> i,
           services |-> services, pending |-> services]

\* A slip: the record stays "ready" until the delivery is over.
ReserveQuietly(i, request, services) ==
    /\ Free
    /\ status[i] \notin {"retiring", "retired"}
    /\ services # {}
    /\ \A n \in DOMAIN request : ServiceOf[request[n].endpoint] \in services
    /\ LeaseRoutes(i, request)
    /\ status' = [status EXCEPT ![i] = IF @ = "ready" THEN "ready" ELSE "preparing"]
    /\ BeginDelivery(i, services)
    /\ UNCHANGED <<bound, caddyVars>>

\* The reservation replaces the record, its routes included, before anything else.
Reserve(i, request, services) ==
    /\ Free
    /\ status[i] \notin {"retiring", "retired"}
    /\ services # {}
    /\ \A n \in DOMAIN request : ServiceOf[request[n].endpoint] \in services
    /\ LeaseRoutes(i, request)
    /\ status' = [status EXCEPT ![i] = "preparing"]
    /\ BeginDelivery(i, services)
    /\ UNCHANGED <<bound, caddyVars>>

\* published_ports: what the delivery in progress has a service publish.
Published(s) ==
    {[instance |-> op.instance, endpoint |-> r.endpoint, port |-> r.port] :
       r \in {routes[op.instance][n] : n \in
                {m \in DOMAIN routes[op.instance] :
                   ServiceOf[routes[op.instance][m].endpoint] = s}}}

\* The ports of the running container of service s.
ContainerOf(i, s) == {b \in bound : b.instance = i /\ ServiceOf[b.endpoint] = s}

\* A host port goes to one container.
Bindable(s) ==
    \A b \in bound \ ContainerOf(op.instance, s) : \A c \in Published(s) : b.port # c.port

\* `docker compose up` of one service replaces its container.
StartService(s) ==
    /\ At("apply", "start")
    /\ s \in op.pending
    /\ Bindable(s)
    /\ bound' = (bound \ ContainerOf(op.instance, s)) \cup Published(s)
    /\ op' = [op EXCEPT !.pending = @ \ {s}]
    /\ UNCHANGED <<status, routes, caddyVars>>

\* It failed, or the controller was killed in it, which the record does not tell:
\* the old container may be gone, and the new one up but not healthy.
StartFails(s) ==
    /\ At("apply", "start")
    /\ s \in op.pending
    /\ \/ UNCHANGED bound
       \/ bound' = bound \ ContainerOf(op.instance, s)
       \/ Bindable(s) /\ bound' = (bound \ ContainerOf(op.instance, s)) \cup Published(s)
    /\ status' \in {status, [status EXCEPT ![op.instance] = "failed"]}
    /\ op' = Idle
    /\ UNCHANGED <<routes, caddyVars>>

\* A slip: another port of the endpoint does not matter.
LoopbackPortsIncluded ==
    \A n \in DOMAIN routes[op.instance] :
       [instance |-> op.instance, endpoint |-> routes[op.instance][n].endpoint,
        port |-> routes[op.instance][n].port] \in bound

\* require_loopback_ports: an endpoint has the port of its last route, and no other.
LoopbackPortsMatch ==
    \A n \in DOMAIN routes[op.instance] :
       {b.port : b \in {c \in bound : /\ c.instance = op.instance
                                      /\ c.endpoint = routes[op.instance][n].endpoint}}
         = {routes[op.instance][n].port}

\* Every service is up; containers of services that are gone are removed.
VerifyDelivery ==
    /\ At("apply", "start")
    /\ op.pending = {}
    /\ LoopbackPortsMatch
    /\ bound' = {b \in bound : b.instance = op.instance => ServiceOf[b.endpoint] \in op.services}
    /\ Goto("load")
    /\ UNCHANGED <<status, routes, caddyVars>>

\* A check, a probe, the load of the routes or the last save raised.
DeliveryFails ==
    /\ op.kind = "apply"
    /\ op.pending = {}
    /\ op.step # "persist"
    /\ status' = [status EXCEPT ![op.instance] = "failed"]
    /\ op' = Idle
    /\ UNCHANGED <<routes, bound, caddyVars>>

CommitReady ==
    /\ At("apply", "commit")
    /\ status' = [status EXCEPT ![op.instance] = "ready"]
    /\ op' = Idle
    /\ UNCHANGED <<routes, bound, caddyVars>>

-----------------------------------------------------------------------------
(* Publications: the ready records' routes, and a delivery's own.          *)

Handlers(i) == {[hostname |-> r.hostname, port |-> r.port] :
                  r \in {routes[i][n] : n \in DOMAIN routes[i]}}
ReadyHandlers == UNION {Handlers(i) : i \in {j \in Instances : status[j] = "ready"}}

Configuration ==
    ReadyHandlers \cup (IF op.kind = "apply" THEN Handlers(op.instance) ELSE {})

\* destroy and retire-staging publish before any container goes.
AfterPublish ==
    IF op.kind = "refresh"
      THEN Idle
      ELSE [op EXCEPT !.step = IF op.kind = "apply" THEN "commit" ELSE "remove"]

\* The file has the configuration already: nothing is loaded, whatever Caddy runs.
PublishUnchanged ==
    /\ op.step = "load"
    /\ file = Configuration
    /\ op' = AfterPublish
    /\ UNCHANGED <<status, routes, bound, caddyVars>>

LoadRoutes ==
    /\ op.step = "load"
    /\ file # Configuration
    /\ live' = Configuration
    /\ Goto("persist")
    /\ UNCHANGED <<status, routes, bound, file>>

PersistRoutes ==
    /\ op.step = "persist"
    /\ file' = Configuration
    /\ op' = AfterPublish
    /\ UNCHANGED <<status, routes, bound, live>>

\* The operation ends; a delivery is recorded as failed, unless that is cut off too.
Unpublished ==
    /\ \/ UNCHANGED status
       \/ op.kind = "apply" /\ status' = [status EXCEPT ![op.instance] = "failed"]
    /\ op' = Idle

\* Caddy has switched, but its answer is lost: the load raises and nothing is written.
LoadUnanswered ==
    /\ op.step = "load"
    /\ file # Configuration
    /\ live' = Configuration
    /\ Unpublished
    /\ UNCHANGED <<routes, bound, file>>

\* _persist_configuration: the write raised, before or after it had replaced the file, and
\* Caddy gets the previous routes back, unless that load fails too.
PersistFails ==
    /\ op.step = "persist"
    /\ live' \in {live, file}
    /\ file' \in {file, Configuration}
    /\ Unpublished
    /\ UNCHANGED <<routes, bound>>

\* A Caddy restart reads the file again.
CaddyRestarts ==
    /\ live # file
    /\ live' = file
    /\ UNCHANGED <<status, routes, bound, file, op>>

StartRefresh ==
    /\ Free
    /\ op' = [Idle EXCEPT !.kind = "refresh", !.step = "load"]
    /\ UNCHANGED <<status, routes, bound, caddyVars>>

-----------------------------------------------------------------------------
(* destroy and retire-staging.                                             *)

Close(kind, i, closing) ==
    /\ Free
    /\ status' = [status EXCEPT ![i] = closing]
    /\ op' = [Idle EXCEPT !.kind = kind, !.step = "load", !.instance = i]
    /\ UNCHANGED <<routes, bound, caddyVars>>

StartDestroy(i) ==
    /\ i \in Previews
    /\ status[i] # "absent"
    /\ Close("destroy", i, "deleting")

StartRetire(i) ==
    /\ i \in Stagings
    /\ status[i] \notin {"absent", "retired"}
    /\ Close("retire", i, "retiring")

\* Containers go one by one, and the removal may stop between two of them.
RemoveContainer(s) ==
    /\ op.step = "remove"
    /\ ContainerOf(op.instance, s) # {}
    /\ bound' = bound \ ContainerOf(op.instance, s)
    /\ UNCHANGED <<status, routes, caddyVars, op>>

RemovalVerified ==
    /\ op.step = "remove"
    /\ \A b \in bound : b.instance # op.instance
    /\ Goto("end")
    /\ UNCHANGED <<status, routes, bound, caddyVars>>

\* A destroyed instance gives its ports back with its record.
Forget ==
    /\ At("destroy", "end")
    /\ status' = [status EXCEPT ![op.instance] = "absent"]
    /\ routes' = [routes EXCEPT ![op.instance] = << >>]
    /\ op' = Idle
    /\ UNCHANGED <<bound, caddyVars>>

\* A retired one keeps both.
CommitRetired ==
    /\ At("retire", "end")
    /\ status' = [status EXCEPT ![op.instance] = "retired"]
    /\ op' = Idle
    /\ UNCHANGED <<routes, bound, caddyVars>>

\* The operation raised where nothing is recorded of it, or was killed.
Interrupted ==
    /\ ~Free
    /\ op' = Idle
    /\ UNCHANGED <<status, routes, bound, caddyVars>>

-----------------------------------------------------------------------------
Requests ==
    \/ \E i \in Instances :
         \/ \E request \in Requested(i), services \in SUBSET Services :
              Reserve(i, request, services)
         \/ StartDestroy(i)
         \/ StartRetire(i)
    \/ StartRefresh

Deliver ==
    \/ \E s \in Services : StartService(s) \/ StartFails(s)
    \/ VerifyDelivery \/ CommitReady \/ DeliveryFails

Publish ==
    \/ PublishUnchanged \/ LoadRoutes \/ LoadUnanswered
    \/ PersistRoutes \/ PersistFails

Remove ==
    \/ \E s \in Services : RemoveContainer(s)
    \/ RemovalVerified \/ Forget \/ CommitRetired

Next == Requests \/ Deliver \/ Publish \/ Remove \/ Interrupted \/ CaddyRestarts

Spec == Init /\ [][Next]_vars

-----------------------------------------------------------------------------
(* What the runs check.                                                    *)

\* Records, bindings, Caddy's routes and the operation under the lock keep their shape.
TypeOK ==
    /\ status \in [Instances -> Statuses]
    /\ routes \in [Instances -> RouteList]
    /\ bound \subseteq Binding
    /\ live \subseteq [hostname: Hostnames, port: Ports]
    /\ file \subseteq [hostname: Hostnames, port: Ports]
    /\ op \in Operation

\* No port is in the records of two instances, whatever deliveries, failures,
\* closures and crashes allocate_routes runs between.
LeasesDisjoint ==
    \A i, j \in Instances : i # j => Leased(i) \cap Leased(j) = {}

\* What is recorded "ready" can be served: the file that Caddy starts from sends each of
\* its names to its leased port, and its own container has that port.  Other deliveries
\* publish, bind and fail around it, some cut between the load and the write.
\* (The Caddy that runs may lack the name: the skip trusts the file alone.)
ReadyRoutesWritten ==
    \A i \in Instances : status[i] = "ready" =>
       \A n \in DOMAIN routes[i] :
          LET r == routes[i][n] IN
          /\ [hostname |-> r.hostname, port |-> r.port] \in file
          /\ [instance |-> i, endpoint |-> r.endpoint, port |-> r.port] \in bound

\* An update, even one after failed ones, never moves an endpoint of the record
\* to a port it did not have.
PortsKept ==
    [][\A i \in Instances : \A n \in DOMAIN routes'[i] :
         Previous(i, routes'[i][n].endpoint) # {} =>
           \E m \in Previous(i, routes'[i][n].endpoint) :
              routes[i][m].port = routes'[i][n].port]_vars

\* docs/APP-CONTRACT.md: "replaying the same generation with the same delivery changes
\* nothing".  The ports are part of the fingerprint that tells it: a ready record gets its
\* own ports again when its routes are allocated once more, whatever came in between.
ReplayIsCurrent ==
    \A i \in Instances : status[i] = "ready" =>
       Allocated(i, routes[i], [n \in DOMAIN routes[i] |-> routes[i][n].port])

\* docs/APP-CONTRACT.md: a leased port is never shared: no name that Caddy serves, and
\* has on file, leads to a container of another instance.
NamesReachOwner ==
    \A r \in live \cap file, b \in bound : r.port = b.port => b.instance = Owner[r.hostname]
=============================================================================
