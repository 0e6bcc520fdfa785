---------------------------- MODULE RoutesProofs ----------------------------
(***************************************************************************)
(* Theorems about Routes for every set of instances, names and endpoints   *)
(* and every range of ports.                                               *)
(***************************************************************************)
EXTENDS Routes, WellFoundedInduction, TLAPS

USE NamesAssumption, LimitsAssumption

-----------------------------------------------------------------------------
(* The inductive invariant.                                                *)

Binds(i, r) == [instance |-> i, endpoint |-> r.endpoint, port |-> r.port] \in bound
OnFile(r) == [hostname |-> r.hostname, port |-> r.port] \in file

\* An operation works on a record that is not "ready".
OpShape ==
    \/ op = Idle
    \/ /\ op.kind = "apply"
       /\ op.step \in {"start", "load", "persist", "commit"}
       /\ op.instance \in Instances
       /\ status[op.instance] = "preparing"
       /\ \A n \in DOMAIN routes[op.instance] :
            ServiceOf[routes[op.instance][n].endpoint] \in op.services
    \/ /\ op.kind \in {"destroy", "retire"}
       /\ op.step \in {"load", "persist", "remove", "end"}
       /\ op.instance \in Instances
       /\ status[op.instance] # "ready"
    \/ op.kind = "refresh" /\ op.step \in {"load", "persist"}

\* What a delivery has established when it reaches a step.
Progress ==
    /\ op.kind = "apply" /\ op.step \in {"load", "persist", "commit"} =>
         \A n \in DOMAIN routes[op.instance] : Binds(op.instance, routes[op.instance][n])
    /\ op.kind = "apply" /\ op.step = "commit" =>
         \A n \in DOMAIN routes[op.instance] : OnFile(routes[op.instance][n])

Served ==
    \A i \in Instances : status[i] = "ready" =>
       \A n \in DOMAIN routes[i] : OnFile(routes[i][n]) /\ Binds(i, routes[i][n])

Inv == TypeOK /\ OpShape /\ LeasesDisjoint /\ Progress /\ Served

-----------------------------------------------------------------------------
(* Types.                                                                  *)

LEMMA Names ==
    /\ "none" \in Kinds /\ "apply" \in Kinds /\ "destroy" \in Kinds /\ "retire" \in Kinds
    /\ "refresh" \in Kinds /\ "idle" \in Steps /\ "start" \in Steps
    /\ "load" \in Steps /\ "persist" \in Steps /\ "commit" \in Steps /\ "remove" \in Steps /\ "end" \in Steps
    /\ "absent" \in Statuses /\ "preparing" \in Statuses /\ "ready" \in Statuses
    /\ "failed" \in Statuses /\ "deleting" \in Statuses /\ "retiring" \in Statuses
    /\ "retired" \in Statuses
BY DEF Kinds, Steps, Statuses

LEMMA IdleType ==
    /\ Idle \in Operation
    /\ Idle.kind = "none"
    /\ Idle.step = "idle"
BY DEF Idle, Operation, Kinds, Steps

LEMMA EmptyList == << >> \in RouteList
<1>1. << >> \in [1 .. 0 -> Route]
  OBVIOUS
<1> QED BY <1>1 DEF RouteList

\* The routes of a record are routes.
LEMMA RouteType ==
    ASSUME TypeOK, NEW i \in Instances, NEW n \in DOMAIN routes[i]
    PROVE  routes[i][n] \in Route
<1>1. PICK k \in 0 .. MaxRoutes : routes[i] \in [1 .. k -> Route]
  BY DEF TypeOK, RouteList
<1> QED BY <1>1

\* What a reservation records is a list of routes.
LEMMA RecordedType ==
    ASSUME NEW i \in Instances, NEW request \in Requested(i),
           NEW port \in [DOMAIN request -> Ports]
    PROVE  Recorded(request, port) \in RouteList
<1>1. PICK k \in 0 .. MaxRoutes :
         request \in [1 .. k -> [hostname: {h \in Hostnames : Owner[h] = i},
                                 endpoint: Endpoints]]
  BY DEF Requested
<1>2. Recorded(request, port) \in [1 .. k -> Route]
  BY <1>1 DEF Recorded, Route
<1> QED BY <1>2 DEF RouteList

LEMMA PublishedType ==
    ASSUME TypeOK, op.instance \in Instances, NEW s
    PROVE  Published(s) \subseteq Binding
<1> SUFFICES ASSUME NEW n \in DOMAIN routes[op.instance]
             PROVE  [instance |-> op.instance, endpoint |-> routes[op.instance][n].endpoint,
                     port |-> routes[op.instance][n].port] \in Binding
  BY DEF Published
<1> QED BY RouteType DEF Route, Binding

LEMMA HandlersType ==
    ASSUME TypeOK, NEW i \in Instances
    PROVE  Handlers(i) \subseteq [hostname: Hostnames, port: Ports]
<1> SUFFICES ASSUME NEW n \in DOMAIN routes[i]
             PROVE  [hostname |-> routes[i][n].hostname, port |-> routes[i][n].port]
                      \in [hostname: Hostnames, port: Ports]
  BY DEF Handlers
<1> QED BY RouteType DEF Route

LEMMA ReadyHandlersType ==
    ASSUME TypeOK
    PROVE  ReadyHandlers \subseteq [hostname: Hostnames, port: Ports]
BY HandlersType DEF ReadyHandlers

\* The routes of a ready record are among the handlers of every publication.
LEMMA ReadyHandled ==
    ASSUME NEW i \in Instances, status[i] = "ready", NEW n \in DOMAIN routes[i]
    PROVE  [hostname |-> routes[i][n].hostname, port |-> routes[i][n].port] \in ReadyHandlers
<1>1. [hostname |-> routes[i][n].hostname, port |-> routes[i][n].port] \in Handlers(i)
  BY DEF Handlers
<1> QED BY <1>1 DEF ReadyHandlers

-----------------------------------------------------------------------------
(* Allocation.                                                             *)

\* A delivery takes no port that another record has.
LEMMA AllocationApart ==
    ASSUME TypeOK, LeasesDisjoint, NEW i \in Instances, NEW request,
           NEW port, Allocated(i, request, port),
           NEW n \in DOMAIN request, NEW j \in Instances, j # i
    PROVE  port[n] \notin Leased(j)
<1>1. CASE Previous(i, request[n].endpoint) # {}
  <2>1. PICK m \in Previous(i, request[n].endpoint) : port[n] = routes[i][m].port
    BY <1>1 DEF Allocated, IsReusedPort
  <2>2. port[n] \in Leased(i)
    BY <2>1 DEF Previous, Leased
  <2> QED BY <2>2 DEF LeasesDisjoint
<1>2. CASE Previous(i, request[n].endpoint) = {}
  <2>1. port[n] \notin OtherLeases(i)
    BY <1>2 DEF Allocated, IsFreePort
  <2> QED BY <2>1 DEF OtherLeases
<1> QED BY <1>1, <1>2

\* An operation that replaces the routes of one record keeps the leases apart.
LEMMA DisjointAfter ==
    ASSUME TypeOK, LeasesDisjoint, NEW i \in Instances, NEW list,
           routes' = [routes EXCEPT ![i] = list],
           \A n \in DOMAIN list : \A j \in Instances \ {i} : list[n].port \notin Leased(j)
    PROVE  LeasesDisjoint'
<1>1. \A j \in Instances \ {i} : Leased(j)' = Leased(j)
  BY DEF Leased, TypeOK
<1>2. Leased(i)' = {list[n].port : n \in DOMAIN list}
  BY DEF Leased, TypeOK
<1>3. \A j \in Instances \ {i} : Leased(i)' \cap Leased(j)' = {}
  BY <1>1, <1>2
<1>4. \A j, k \in Instances \ {i} : j # k => Leased(j)' \cap Leased(k)' = {}
  BY <1>1 DEF LeasesDisjoint
<1> QED BY <1>3, <1>4 DEF LeasesDisjoint

-----------------------------------------------------------------------------
(* What each step preserves.                                               *)

LEMMA Start == Init => Inv
<1> SUFFICES ASSUME Init PROVE Inv
  OBVIOUS
<1>1. TypeOK
  BY IdleType, EmptyList, Names DEF Init, TypeOK
<1>2. OpShape /\ Progress /\ Served
  BY IdleType DEF Init, OpShape, Progress, Served
<1>3. LeasesDisjoint
  BY DEF Init, LeasesDisjoint, Leased
<1> QED BY <1>1, <1>2, <1>3 DEF Inv

\* Leases only change with the records.
LEMMA LeasesStay ==
    ASSUME LeasesDisjoint, routes' = routes
    PROVE  LeasesDisjoint'
<1>1. \A i \in Instances : Leased(i)' = Leased(i)
  BY DEF Leased
<1> QED BY <1>1 DEF LeasesDisjoint

LEMMA ReserveStep ==
    ASSUME Inv, NEW i \in Instances, NEW request \in Requested(i),
           NEW services \in SUBSET Services, Reserve(i, request, services)
    PROVE  Inv'
<1> USE DEF Inv
<1>1. PICK port \in [DOMAIN request -> Ports] :
         /\ Allocated(i, request, port)
         /\ routes' = [routes EXCEPT ![i] = Recorded(request, port)]
  BY DEF Reserve, LeaseRoutes
<1>2. /\ status' = [status EXCEPT ![i] = "preparing"]
      /\ op' = [kind |-> "apply", step |-> "start", instance |-> i,
                services |-> services, pending |-> services]
      /\ bound' = bound /\ live' = live /\ file' = file
  BY DEF Reserve, BeginDelivery, caddyVars
<1>3. TypeOK'
  <2>1. routes' \in [Instances -> RouteList]
    BY <1>1, RecordedType DEF TypeOK
  <2>2. status' \in [Instances -> Statuses]
    BY <1>2, Names DEF TypeOK
  <2>3. op' \in Operation
    BY <1>2, Names DEF Operation
  <2> QED BY <1>2, <2>1, <2>2, <2>3 DEF TypeOK
<1>4. routes'[i] = Recorded(request, port) /\ status'[i] = "preparing"
  BY <1>1, <1>2 DEF TypeOK
<1>5. OpShape'
  <2>1. \A n \in DOMAIN request : ServiceOf[request[n].endpoint] \in services
    BY DEF Reserve
  <2>2. \A n \in DOMAIN routes'[i] : ServiceOf[routes'[i][n].endpoint] \in services
    BY <1>4, <2>1 DEF Recorded
  <2> QED BY <1>2, <1>4, <2>2 DEF OpShape
<1>6. LeasesDisjoint'
  <2>1. \A n \in DOMAIN Recorded(request, port) :
          n \in DOMAIN request /\ Recorded(request, port)[n].port = port[n]
    BY DEF Recorded
  <2>2. \A n \in DOMAIN Recorded(request, port) : \A j \in Instances \ {i} :
          Recorded(request, port)[n].port \notin Leased(j)
    BY <1>1, <2>1, AllocationApart
  <2> QED BY <1>1, <2>2, DisjointAfter
<1>7. Progress'
  BY <1>2 DEF Progress
<1>8. Served'
  <2> SUFFICES ASSUME NEW j \in Instances, status'[j] = "ready", NEW n \in DOMAIN routes'[j]
               PROVE  OnFile(routes[j][n])' /\ Binds(j, routes[j][n])'
    BY DEF Served, OnFile, Binds
  <2>1. j # i
    BY <1>4
  <2>2. routes'[j] = routes[j] /\ status[j] = "ready"
    BY <1>1, <1>2, <2>1 DEF TypeOK
  <2> QED BY <1>2, <2>2 DEF Served, OnFile, Binds
<1> QED BY <1>3, <1>5, <1>6, <1>7, <1>8

\* The steps that end an operation, or start a removal, with another status than
\* "ready": nothing that a ready record needs changes.
LEMMA StatusStep ==
    ASSUME Inv, NEW i \in Instances, NEW s \in Statuses \ {"ready"},
           status' = [status EXCEPT ![i] = s],
           routes' = routes, bound' = bound, live' = live, file' = file,
           op' \in Operation, op'.kind # "apply", OpShape'
    PROVE  Inv'
<1> USE DEF Inv
<1>1. TypeOK'
  BY DEF TypeOK
<1>2. LeasesDisjoint' /\ Progress'
  BY LeasesStay DEF Progress
<1>3. Served'
  BY DEF Served, OnFile, Binds, TypeOK
<1> QED BY <1>1, <1>2, <1>3

\* A change of the containers of the instance that an operation works on, while
\* its record is not "ready".
LEMMA ContainersStep ==
    ASSUME Inv, op.instance \in Instances, status[op.instance] # "ready",
           routes' = routes, live' = live, file' = file, bound' \subseteq Binding,
           \A b \in bound : b.instance # op.instance => b \in bound',
           status' \in [Instances -> Statuses],
           \A i \in Instances : status'[i] = "ready" => status[i] = "ready",
           op' \in Operation, OpShape', Progress'
    PROVE  Inv'
<1> USE DEF Inv
<1>1. TypeOK'
  BY DEF TypeOK
<1>2. LeasesDisjoint'
  BY LeasesStay
<1>3. Served'
  <2> SUFFICES ASSUME NEW j \in Instances, status'[j] = "ready", NEW n \in DOMAIN routes[j]
               PROVE  OnFile(routes[j][n])' /\ Binds(j, routes[j][n])'
    BY DEF Served, OnFile, Binds
  <2>1. status[j] = "ready" /\ j # op.instance
    OBVIOUS
  <2> QED BY <2>1 DEF Served, OnFile, Binds
<1> QED BY <1>1, <1>2, <1>3

\* What an operation at a step of its own works on.
LEMMA Working ==
    ASSUME Inv, op.kind \notin {"none", "refresh"}
    PROVE  op.instance \in Instances /\ status[op.instance] # "ready"
BY IdleType DEF Inv, OpShape

LEMMA ApplyWorking ==
    ASSUME Inv, op.kind = "apply"
    PROVE  /\ op.instance \in Instances
           /\ status[op.instance] = "preparing"
           /\ op.step \in {"start", "load", "persist", "commit"}
           /\ \A n \in DOMAIN routes[op.instance] :
                ServiceOf[routes[op.instance][n].endpoint] \in op.services
BY IdleType DEF Inv, OpShape

\* The bindings of other instances survive the replacement of one's container.
LEMMA OthersBound ==
    ASSUME NEW s, NEW b \in bound, b.instance # op.instance
    PROVE  b \in bound \ ContainerOf(op.instance, s)
BY DEF ContainerOf

LEMMA StartServiceStep ==
    ASSUME Inv, NEW s \in Services, StartService(s)
    PROVE  Inv'
<1> USE DEF Inv
<1>1. /\ op.kind = "apply" /\ op.step = "start"
      /\ bound' = (bound \ ContainerOf(op.instance, s)) \cup Published(s)
      /\ op' = [op EXCEPT !.pending = op.pending \ {s}]
      /\ status' = status /\ routes' = routes /\ live' = live /\ file' = file
  BY DEF StartService, At, caddyVars
<1>2. op.instance \in Instances /\ status[op.instance] = "preparing"
  BY <1>1, ApplyWorking
<1>3. op' \in Operation /\ op'.kind = "apply" /\ op'.step = "start"
      /\ op'.instance = op.instance /\ op'.services = op.services
  BY <1>1 DEF TypeOK, Operation
<1>4. OpShape' /\ Progress'
  BY <1>1, <1>2, <1>3, ApplyWorking DEF OpShape, Progress
<1>5. bound' \subseteq Binding /\ \A b \in bound : b.instance # op.instance => b \in bound'
  BY <1>1, <1>2, PublishedType, OthersBound DEF TypeOK
<1>6. status' \in [Instances -> Statuses]
  BY <1>1 DEF TypeOK
<1> QED BY <1>1, <1>2, <1>3, <1>4, <1>5, <1>6, ContainersStep

\* An operation that ends leaves nothing to establish.
LEMMA IdleAfter ==
    ASSUME op' = Idle
    PROVE  op' \in Operation /\ op'.kind = "none" /\ OpShape' /\ Progress'
BY IdleType DEF OpShape, Progress

LEMMA StartFailsStep ==
    ASSUME Inv, NEW s \in Services, StartFails(s)
    PROVE  Inv'
<1> USE DEF Inv
<1>1. /\ op.kind = "apply" /\ op' = Idle /\ routes' = routes /\ live' = live /\ file' = file
      /\ status' \in {status, [status EXCEPT ![op.instance] = "failed"]}
      /\ \/ bound' = bound
         \/ bound' = bound \ ContainerOf(op.instance, s)
         \/ bound' = (bound \ ContainerOf(op.instance, s)) \cup Published(s)
  BY DEF StartFails, At, caddyVars
<1>2. op.instance \in Instances /\ status[op.instance] = "preparing"
  BY <1>1, ApplyWorking
<1>3. bound' \subseteq Binding /\ \A b \in bound : b.instance # op.instance => b \in bound'
  BY <1>1, <1>2, PublishedType, OthersBound DEF TypeOK
<1>4. /\ status' \in [Instances -> Statuses]
      /\ \A i \in Instances : status'[i] = "ready" => status[i] = "ready"
  BY <1>1, Names DEF TypeOK
<1> QED BY <1>1, <1>2, <1>3, <1>4, IdleAfter, ContainersStep

\* require_loopback_ports makes sure of every route of the delivery.
LEMMA VerifiedBound ==
    ASSUME Inv, op.kind = "apply", LoopbackPortsMatch, NEW n \in DOMAIN routes[op.instance]
    PROVE  Binds(op.instance, routes[op.instance][n])
<1> USE DEF Inv
<1> DEFINE r == routes[op.instance][n]
<1>1. op.instance \in Instances
  BY ApplyWorking
<1>2. r.port \in {b.port : b \in {c \in bound : c.instance = op.instance
                                               /\ c.endpoint = r.endpoint}}
  BY DEF LoopbackPortsMatch
<1>3. PICK b \in bound : b.instance = op.instance /\ b.endpoint = r.endpoint /\ b.port = r.port
  BY <1>2
<1>4. b = [instance |-> op.instance, endpoint |-> r.endpoint, port |-> r.port]
  BY <1>3 DEF TypeOK, Binding
<1> QED BY <1>3, <1>4 DEF Binds

LEMMA VerifyDeliveryStep ==
    ASSUME Inv, VerifyDelivery
    PROVE  Inv'
<1> USE DEF Inv
<1>1. /\ op.kind = "apply" /\ LoopbackPortsMatch
      /\ bound' = {b \in bound :
                     b.instance = op.instance => ServiceOf[b.endpoint] \in op.services}
      /\ op' = [op EXCEPT !.step = "load"]
      /\ status' = status /\ routes' = routes /\ live' = live /\ file' = file
  BY DEF VerifyDelivery, At, Goto, caddyVars
<1>2. op.instance \in Instances /\ status[op.instance] = "preparing"
  BY <1>1, ApplyWorking
<1>3. op' \in Operation /\ op'.kind = "apply" /\ op'.step = "load"
      /\ op'.instance = op.instance /\ op'.services = op.services
  BY <1>1, Names DEF TypeOK, Operation
<1>4. OpShape'
  BY <1>1, <1>2, <1>3, ApplyWorking DEF OpShape
<1>5. Progress'
  <2> SUFFICES ASSUME NEW n \in DOMAIN routes[op.instance]
               PROVE  [instance |-> op.instance, endpoint |-> routes[op.instance][n].endpoint,
                       port |-> routes[op.instance][n].port] \in bound'
    BY <1>1, <1>3 DEF Progress, Binds
  <2>1. ServiceOf[routes[op.instance][n].endpoint] \in op.services
    BY <1>1, ApplyWorking
  <2> QED BY <1>1, <2>1, VerifiedBound DEF Binds
<1>6. bound' \subseteq Binding /\ \A b \in bound : b.instance # op.instance => b \in bound'
  BY <1>1 DEF TypeOK
<1>7. status' \in [Instances -> Statuses]
  BY <1>1 DEF TypeOK
<1> QED BY <1>1, <1>2, <1>3, <1>4, <1>5, <1>6, <1>7, ContainersStep

HandlerSet == [hostname: Hostnames, port: Ports]

\* A publication keeps every ready record in the file, whatever it leaves Caddy with.
LEMMA PublicationStep ==
    ASSUME Inv, routes' = routes, bound' = bound, status' \in [Instances -> Statuses],
           \A i \in Instances : status'[i] = "ready" => status[i] = "ready",
           live' \subseteq HandlerSet, file' \subseteq HandlerSet,
           file' = file \/ ReadyHandlers \subseteq file',
           op' \in Operation, OpShape', Progress'
    PROVE  Inv'
<1> USE DEF Inv
<1>1. TypeOK'
  BY DEF TypeOK, HandlerSet
<1>2. LeasesDisjoint'
  BY LeasesStay
<1>3. Served'
  BY ReadyHandled DEF Served, OnFile, Binds
<1> QED BY <1>1, <1>2, <1>3

LEMMA ConfigurationType ==
    ASSUME Inv
    PROVE  Configuration \subseteq HandlerSet /\ ReadyHandlers \subseteq Configuration
BY ApplyWorking, HandlersType, ReadyHandlersType DEF Inv, Configuration, HandlerSet

\* The operations that publish.
LEMMA Publishing ==
    ASSUME Inv, op.step \in {"load", "persist"}
    PROVE  \/ op.kind = "apply" /\ op.instance \in Instances
              /\ status[op.instance] = "preparing"
           \/ op.kind \in {"destroy", "retire"} /\ op.instance \in Instances
              /\ status[op.instance] # "ready"
           \/ op.kind = "refresh"
BY IdleType DEF Inv, OpShape

\* What a delivery finds in the file when its publication is over.
LEMMA AfterPublishShape ==
    ASSUME Inv, op.step \in {"load", "persist"}, op' = AfterPublish,
           status' = status, routes' = routes, bound' = bound, file' = Configuration
    PROVE  op' \in Operation /\ OpShape' /\ Progress'
<1> USE DEF Inv
<1>1. CASE op.kind = "refresh"
  BY <1>1, IdleAfter DEF AfterPublish
<1>2. CASE op.kind = "apply"
  <2>1. /\ op' \in Operation /\ op'.kind = "apply" /\ op'.step = "commit"
        /\ op'.instance = op.instance /\ op'.services = op.services
    BY <1>2, Names DEF AfterPublish, TypeOK, Operation
  <2>2. OpShape'
    BY <1>2, <2>1, ApplyWorking DEF OpShape
  <2>3. Handlers(op.instance) \subseteq file'
    BY <1>2 DEF Configuration
  <2>4. \A n \in DOMAIN routes[op.instance] :
          [hostname |-> routes[op.instance][n].hostname,
           port |-> routes[op.instance][n].port] \in file'
    BY <2>3 DEF Handlers
  <2> QED BY <1>2, <2>1, <2>2, <2>4 DEF Progress, Binds, OnFile
<1>3. CASE op.kind \in {"destroy", "retire"}
  <2>1. op' = [op EXCEPT !.step = "remove"]
    BY <1>3 DEF AfterPublish
  <2>2. op' \in Operation /\ op'.kind = op.kind /\ op'.step = "remove"
        /\ op'.instance = op.instance
    BY <2>1, Names DEF TypeOK, Operation
  <2> QED BY <1>3, <2>2, Publishing DEF OpShape, Progress
<1> QED BY <1>1, <1>2, <1>3, Publishing

LEMMA LoadShape ==
    ASSUME Inv, op.step = "load", op' = [op EXCEPT !.step = "persist"],
           status' = status, routes' = routes, bound' = bound
    PROVE  op' \in Operation /\ OpShape' /\ Progress'
<1> USE DEF Inv
<1>1. /\ op' \in Operation /\ op'.kind = op.kind /\ op'.step = "persist"
      /\ op'.instance = op.instance /\ op'.services = op.services
  BY Names DEF TypeOK, Operation
<1>2. OpShape'
  BY <1>1, Publishing, ApplyWorking DEF OpShape
<1> QED BY <1>1, <1>2 DEF Progress, Binds

\* A publication that fails is recorded of a delivery at most.
LEMMA UnpublishedStep ==
    ASSUME Inv, op.step \in {"load", "persist"}, Unpublished,
           routes' = routes, bound' = bound,
           live' \subseteq HandlerSet, file' \subseteq HandlerSet,
           file' = file \/ ReadyHandlers \subseteq file'
    PROVE  Inv'
<1>1. /\ op' = Idle
      /\ \/ status' = status
         \/ op.kind = "apply" /\ status' = [status EXCEPT ![op.instance] = "failed"]
  BY DEF Unpublished
<1>2. /\ status' \in [Instances -> Statuses]
      /\ \A i \in Instances : status'[i] = "ready" => status[i] = "ready"
  BY <1>1, ApplyWorking, Names DEF Inv, TypeOK
<1> QED BY <1>1, <1>2, IdleAfter, PublicationStep

LEMMA PublishStep ==
    ASSUME Inv, Publish
    PROVE  Inv'
<1>1. /\ live \subseteq HandlerSet /\ file \subseteq HandlerSet
      /\ status \in [Instances -> Statuses]
  BY DEF Inv, TypeOK, HandlerSet
<1>2. CASE PublishUnchanged
  <2>1. /\ op.step = "load" /\ file' = Configuration /\ op' = AfterPublish
        /\ status' = status /\ routes' = routes /\ bound' = bound /\ live' = live
        /\ file' = file
    BY <1>2 DEF PublishUnchanged, caddyVars
  <2>2. op' \in Operation /\ OpShape' /\ Progress'
    BY <2>1, AfterPublishShape
  <2> QED BY <1>1, <2>1, <2>2, PublicationStep
<1>3. CASE LoadRoutes
  <2>1. /\ op.step = "load" /\ live' = Configuration /\ op' = [op EXCEPT !.step = "persist"]
        /\ status' = status /\ routes' = routes /\ bound' = bound /\ file' = file
    BY <1>3 DEF LoadRoutes, Goto
  <2>2. op' \in Operation /\ OpShape' /\ Progress'
    BY <2>1, LoadShape
  <2> QED BY <1>1, <2>1, <2>2, ConfigurationType, PublicationStep
<1>4. CASE PersistRoutes
  <2>1. /\ op.step = "persist" /\ file' = Configuration /\ op' = AfterPublish
        /\ status' = status /\ routes' = routes /\ bound' = bound /\ live' = live
    BY <1>4 DEF PersistRoutes
  <2>2. op' \in Operation /\ OpShape' /\ Progress'
    BY <2>1, AfterPublishShape
  <2> QED BY <1>1, <2>1, <2>2, ConfigurationType, PublicationStep
<1>5. CASE LoadUnanswered
  <2>1. /\ op.step = "load" /\ live' = Configuration /\ Unpublished
        /\ routes' = routes /\ bound' = bound /\ file' = file
    BY <1>5 DEF LoadUnanswered
  <2> QED BY <1>1, <2>1, ConfigurationType, UnpublishedStep
<1>6. CASE PersistFails
  <2>1. /\ op.step = "persist" /\ live' \in {live, file} /\ Unpublished
        /\ file' \in {file, Configuration} /\ routes' = routes /\ bound' = bound
    BY <1>6 DEF PersistFails
  <2> QED BY <1>1, <2>1, ConfigurationType, UnpublishedStep
<1> QED BY <1>2, <1>3, <1>4, <1>5, <1>6 DEF Publish

LEMMA RestartStep ==
    ASSUME Inv, CaddyRestarts
    PROVE  Inv'
<1> USE DEF Inv
<1>1. live' = file /\ status' = status /\ routes' = routes /\ bound' = bound
      /\ file' = file /\ op' = op
  BY DEF CaddyRestarts
<1>2. op' \in Operation /\ OpShape' /\ Progress'
  BY <1>1 DEF TypeOK, OpShape, Progress, Binds, OnFile
<1>3. live' \subseteq HandlerSet /\ file' \subseteq HandlerSet
      /\ status' \in [Instances -> Statuses]
  BY <1>1 DEF TypeOK, HandlerSet
<1> QED BY <1>1, <1>2, <1>3, PublicationStep

\* The one step that makes a record "ready".
LEMMA CommitReadyStep ==
    ASSUME Inv, CommitReady
    PROVE  Inv'
<1> USE DEF Inv
<1>1. /\ op.kind = "apply" /\ op.step = "commit" /\ op' = Idle
      /\ status' = [status EXCEPT ![op.instance] = "ready"]
      /\ routes' = routes /\ bound' = bound /\ live' = live /\ file' = file
  BY DEF CommitReady, At, caddyVars
<1>2. op.instance \in Instances
  BY <1>1, ApplyWorking
<1>3. TypeOK'
  BY <1>1, Names, IdleType DEF TypeOK
<1>4. Served'
  BY <1>1 DEF Served, OnFile, Binds, Progress, TypeOK
<1> QED BY <1>1, <1>3, <1>4, LeasesStay, IdleAfter

\* A step that only moves the operation on.
LEMMA OpStep ==
    ASSUME Inv, status' = status, routes' = routes, bound' = bound, live' = live, file' = file,
           op' \in Operation, OpShape', Progress'
    PROVE  Inv'
<1> USE DEF Inv
<1>1. TypeOK'
  BY DEF TypeOK
<1>2. Served'
  BY DEF Served, OnFile, Binds
<1> QED BY <1>1, <1>2, LeasesStay

LEMMA DeliverStep ==
    ASSUME Inv, Deliver
    PROVE  Inv'
<1>1. CASE DeliveryFails
  <2>1. op.kind = "apply" /\ op' = Idle
        /\ status' = [status EXCEPT ![op.instance] = "failed"]
        /\ routes' = routes /\ bound' = bound /\ live' = live /\ file' = file
    BY <1>1 DEF DeliveryFails, caddyVars
  <2>2. op.instance \in Instances /\ op' \in Operation /\ op'.kind # "apply" /\ OpShape'
    BY <2>1, ApplyWorking, IdleAfter
  <2>3. "failed" \in Statuses \ {"ready"}
    BY Names
  <2> QED BY <2>1, <2>2, <2>3, StatusStep
<1> QED BY <1>1, StartServiceStep, StartFailsStep, VerifyDeliveryStep,
           CommitReadyStep DEF Deliver

\* The steps of a removal leave the operation a removal.
LEMMA RemovalShape ==
    ASSUME Inv, op.kind \in {"destroy", "retire"}, NEW t \in {"remove", "end"},
           op' = [op EXCEPT !.step = t], status' = status
    PROVE  op' \in Operation /\ OpShape' /\ Progress'
<1> USE DEF Inv
<1>1. op' \in Operation /\ op'.kind = op.kind /\ op'.step = t /\ op'.instance = op.instance
  BY Names DEF TypeOK, Operation
<1>2. op.instance \in Instances /\ status[op.instance] # "ready"
  BY IdleType, Working
<1> QED BY <1>1, <1>2 DEF OpShape, Progress

LEMMA RemoveStep ==
    ASSUME Inv, Remove
    PROVE  Inv'
<1> USE DEF Inv
<1>2. ASSUME NEW s \in Services, RemoveContainer(s)
      PROVE  Inv'
  <2>1. /\ op.step = "remove" /\ op' = op
        /\ bound' = bound \ ContainerOf(op.instance, s)
        /\ status' = status /\ routes' = routes /\ live' = live /\ file' = file
    BY <1>2 DEF RemoveContainer, caddyVars
  <2>2. op.instance \in Instances /\ status[op.instance] # "ready" /\ op.kind # "apply"
    BY <2>1, IdleType, ApplyWorking DEF OpShape
  <2>3. bound' \subseteq Binding /\ \A b \in bound : b.instance # op.instance => b \in bound'
    BY <2>1, OthersBound DEF TypeOK
  <2>4. op' \in Operation /\ status' \in [Instances -> Statuses] /\ OpShape' /\ Progress'
    BY <2>1, <2>2 DEF TypeOK, OpShape, Progress
  <2> QED BY <2>1, <2>2, <2>3, <2>4, ContainersStep
<1>3. CASE RemovalVerified
  <2>1. op.step = "remove"
    BY <1>3 DEF RemovalVerified
  <2>2. op.kind \in {"destroy", "retire"}
    BY <2>1, IdleType DEF OpShape
  <2>3. op' = [op EXCEPT !.step = "end"] /\ status' = status
        /\ routes' = routes /\ bound' = bound /\ live' = live /\ file' = file
    BY <1>3 DEF RemovalVerified, Goto, caddyVars
  <2> QED BY <2>2, <2>3, RemovalShape, OpStep
<1>4. CASE Forget
  <2>1. /\ op.kind = "destroy" /\ op' = Idle
        /\ status' = [status EXCEPT ![op.instance] = "absent"]
        /\ routes' = [routes EXCEPT ![op.instance] = << >>]
        /\ bound' = bound /\ live' = live /\ file' = file
    BY <1>4 DEF Forget, At, caddyVars
  <2>2. op.instance \in Instances
    BY <2>1, IdleType, Working
  <2>3. TypeOK'
    BY <2>1, Names, IdleType, EmptyList DEF TypeOK
  <2>4. LeasesDisjoint'
    <3>1. TypeOK /\ LeasesDisjoint
      OBVIOUS
    <3>2. \A n \in DOMAIN << >> : \A j \in Instances \ {op.instance} :
            << >>[n].port \notin Leased(j)
      OBVIOUS
    <3> HIDE DEF Inv
    <3> QED BY <2>1, <2>2, <3>1, <3>2, DisjointAfter
  <2>5. Served'
    BY <2>1, <2>2 DEF Served, OnFile, Binds, TypeOK
  <2> QED BY <2>1, <2>3, <2>4, <2>5, IdleAfter
<1>5. CASE CommitRetired
  <2>1. /\ op.kind = "retire" /\ op' = Idle
        /\ status' = [status EXCEPT ![op.instance] = "retired"]
        /\ routes' = routes /\ bound' = bound /\ live' = live /\ file' = file
    BY <1>5 DEF CommitRetired, At, caddyVars
  <2>2. op.instance \in Instances
    BY <2>1, IdleType, Working
  <2>3. op' \in Operation /\ op'.kind # "apply" /\ OpShape'
    BY <2>1, IdleAfter
  <2>4. "retired" \in Statuses \ {"ready"}
    BY Names
  <2> QED BY <2>1, <2>2, <2>3, <2>4, StatusStep
<1> QED BY <1>2, <1>3, <1>4, <1>5 DEF Remove

\* destroy and retire-staging first write a status that ends the publication.
LEMMA CloseStep ==
    ASSUME Inv, NEW i \in Instances, NEW k \in {"destroy", "retire"},
           NEW s \in {"deleting", "retiring"}, Close(k, i, s)
    PROVE  Inv'
<1> USE DEF Inv
<1>1. /\ status' = [status EXCEPT ![i] = s]
      /\ op' = [Idle EXCEPT !.kind = k, !.step = "load", !.instance = i]
      /\ routes' = routes /\ bound' = bound /\ live' = live /\ file' = file
  BY DEF Close, caddyVars
<1>2. op' \in Operation /\ op'.kind = k /\ op'.step = "load" /\ op'.instance = i
  BY <1>1, Names, IdleType DEF Operation
<1>3. status'[i] # "ready"
  BY <1>1 DEF TypeOK
<1>4. OpShape'
  BY <1>2, <1>3 DEF OpShape
<1> QED BY <1>1, <1>2, <1>4, Names, StatusStep

LEMMA RequestsStep ==
    ASSUME Inv, Requests
    PROVE  Inv'
<1> USE DEF Inv
<1>1. CASE StartRefresh
  <2>1. op' = [Idle EXCEPT !.kind = "refresh", !.step = "load"]
        /\ status' = status /\ routes' = routes /\ bound' = bound /\ live' = live /\ file' = file
    BY <1>1 DEF StartRefresh, caddyVars
  <2>2. op' \in Operation /\ op'.kind = "refresh" /\ op'.step = "load"
    BY <2>1, IdleType, Names DEF Operation
  <2> QED BY <2>1, <2>2, OpStep DEF OpShape, Progress
<1>2. ASSUME NEW i \in Instances, StartDestroy(i) PROVE Inv'
  BY <1>2, CloseStep DEF StartDestroy
<1>3. ASSUME NEW i \in Instances, StartRetire(i) PROVE Inv'
  BY <1>3, CloseStep DEF StartRetire
<1> QED BY <1>1, <1>2, <1>3, ReserveStep DEF Requests

LEMMA NextStep ==
    ASSUME Inv, [Next]_vars
    PROVE  Inv'
<1> USE DEF Inv
<1>1. CASE Interrupted
  <2>1. op' = Idle /\ status' = status /\ routes' = routes /\ bound' = bound /\ live' = live /\ file' = file
    BY <1>1 DEF Interrupted, caddyVars
  <2> QED BY <2>1, IdleAfter, OpStep
<1>2. CASE UNCHANGED vars
  <2>1. op' \in Operation /\ OpShape' /\ Progress'
    BY <1>2 DEF vars, TypeOK, OpShape, Progress, Binds, OnFile, caddyVars
  <2> QED BY <1>2, <2>1, OpStep DEF vars, caddyVars
<1> QED BY <1>1, <1>2, RequestsStep, DeliverStep, PublishStep, RemoveStep, RestartStep DEF Next

-----------------------------------------------------------------------------
(* Theorems.                                                               *)

\* The invariant holds in every reachable state.
THEOREM Invariance == Spec => []Inv
<1>1. Init => Inv
  BY Start
<1>2. Inv /\ [Next]_vars => Inv'
  BY NextStep
<1> QED BY <1>1, <1>2, PTL DEF Spec

\* No port is ever in the records of two instances, for any number of instances,
\* routes and ports, and whatever fails or is killed in between.
THEOREM LeasesApart == Spec => []LeasesDisjoint
<1>1. Inv => LeasesDisjoint
  BY DEF Inv
<1> QED BY <1>1, Invariance, PTL

\* What is recorded "ready" is in Caddy's file with a port that its own container has, after
\* publications cut between the load and the write too.
THEOREM ReadyWritten == Spec => []ReadyRoutesWritten
<1>1. Inv => ReadyRoutesWritten
  BY DEF Inv, Served, OnFile, Binds, ReadyRoutesWritten
<1> QED BY <1>1, Invariance, PTL

\* An update keeps the ports of the endpoints the record has.
THEOREM UpdatesKeepPorts == Spec => PortsKept
<1> DEFINE Kept ==
      \A i \in Instances : \A n \in DOMAIN routes'[i] :
         Previous(i, routes'[i][n].endpoint) # {} =>
           \E m \in Previous(i, routes'[i][n].endpoint) :
              routes[i][m].port = routes'[i][n].port
<1>1. Inv /\ [Next]_vars => Kept \/ UNCHANGED vars
  <2> SUFFICES ASSUME Inv, Next PROVE Kept
    OBVIOUS
  <2>1. CASE routes' = routes
    BY <2>1 DEF Previous
  <2>2. ASSUME NEW i \in Instances, NEW request \in Requested(i),
               NEW services \in SUBSET Services, Reserve(i, request, services)
        PROVE  Kept
    <3>1. PICK port \in [DOMAIN request -> Ports] :
             /\ Allocated(i, request, port)
             /\ routes' = [routes EXCEPT ![i] = Recorded(request, port)]
      BY <2>2 DEF Reserve, LeaseRoutes
    <3>2. routes'[i] = Recorded(request, port)
      BY <3>1 DEF Inv, TypeOK
    <3>3. ASSUME NEW n \in DOMAIN routes'[i],
                 Previous(i, routes'[i][n].endpoint) # {}
          PROVE  \E m \in Previous(i, routes'[i][n].endpoint) :
                    routes[i][m].port = routes'[i][n].port
      <4>1. n \in DOMAIN request /\ routes'[i][n].endpoint = request[n].endpoint
            /\ routes'[i][n].port = port[n]
        BY <3>2, <3>3 DEF Recorded
      <4>2. IsReusedPort(port[n], i, request[n].endpoint)
        BY <3>1, <3>3, <4>1 DEF Allocated
      <4> QED BY <4>1, <4>2 DEF IsReusedPort
    <3>4. ASSUME NEW j \in Instances, j # i, NEW n \in DOMAIN routes'[j]
          PROVE  n \in DOMAIN routes[j] /\ routes'[j][n] = routes[j][n]
      BY <3>1, <3>4 DEF Inv, TypeOK
    <3> QED BY <3>3, <3>4 DEF Previous
  <2>3. CASE Forget
    <3>1. routes' = [routes EXCEPT ![op.instance] = << >>]
      BY <2>3 DEF Forget
    <3>2. \A i \in Instances : DOMAIN routes'[i] = {} \/ routes'[i] = routes[i]
      BY <3>1 DEF Inv, TypeOK
    <3> QED BY <3>2 DEF Previous
  <2>4. CASE Interrupted \/ StartRefresh \/ CaddyRestarts
    BY <2>1, <2>4 DEF Interrupted, StartRefresh, CaddyRestarts
  <2>5. ASSUME NEW i \in Instances, StartDestroy(i) \/ StartRetire(i) PROVE Kept
    BY <2>1, <2>5 DEF StartDestroy, StartRetire, Close
  <2>6. CASE Deliver
    BY <2>1, <2>6 DEF Deliver, StartService, StartFails, VerifyDelivery, CommitReady,
                      DeliveryFails
  <2>7. ASSUME Remove, ~Forget PROVE Kept
    BY <2>1, <2>7 DEF Remove, RemoveContainer, RemovalVerified, CommitRetired
  <2>8. CASE Publish
    BY <2>1, <2>8 DEF Publish, PublishUnchanged, LoadRoutes, LoadUnanswered, PersistRoutes,
                      PersistFails
  <2> QED BY <2>2, <2>3, <2>4, <2>5, <2>6, <2>7, <2>8 DEF Next, Requests
<1>2. Inv /\ [Next]_vars => [Kept]_vars
  BY <1>1
<1> QED BY <1>2, Invariance, PTL DEF Spec, PortsKept

\* Records, bindings and Caddy's routes keep their shape.
THEOREM TypeCorrect == Spec => []TypeOK
<1>1. Inv => TypeOK
  BY DEF Inv
<1> QED BY <1>1, Invariance, PTL

-----------------------------------------------------------------------------
(* A delivery that is ready is found current.  require_loopback_ports makes *)
(* sure that a delivery gets that far with one port for each endpoint.      *)

OnePort(i) ==
    \A n, m \in DOMAIN routes[i] :
       routes[i][n].endpoint = routes[i][m].endpoint => routes[i][n].port = routes[i][m].port

PortsAgree ==
    /\ op.kind = "apply" /\ op.step \in {"load", "persist", "commit"} => OnePort(op.instance)
    /\ \A i \in Instances : status[i] = "ready" => OnePort(i)

LEMMA NaturalsWellFounded ==
    \E R : IsWellFoundedOn(R, Nat) /\ \A n, m \in Nat : n < m => <<n, m>> \in R
<1>1. IsWellFoundedOn(OpToRel(<, Nat), Nat)
  BY NatLessThanWellFounded
<1>2. \A n, m \in Nat : n < m => <<n, m>> \in OpToRel(<, Nat)
  BY DEF OpToRel
<1> QED BY <1>1, <1>2, Zenon

LEMMA Smallest ==
    ASSUME NEW S, S \subseteq Nat, S # {}
    PROVE  \E n \in S : \A m \in S : n <= m
<1>1. PICK R : IsWellFoundedOn(R, Nat) /\ \A n, m \in Nat : n < m => <<n, m>> \in R
  BY NaturalsWellFounded
<1>2. PICK n \in S : \A m \in S : ~(<<m, n>> \in R)
  <2>1. IsWellFoundedOn(R, Nat)
    BY <1>1
  <2> QED BY <2>1, WFMin, Zenon
<1>3. \A m \in S : ~(m < n)
  BY <1>1, <1>2
<1> QED BY <1>3

LEMMA ListDomain ==
    ASSUME TypeOK, NEW i \in Instances
    PROVE  DOMAIN routes[i] \subseteq Nat
  BY DEF TypeOK, RouteList

\* One port for each endpoint is what allocate_routes gives again.
LEMMA OnePortReused ==
    ASSUME TypeOK, NEW i \in Instances, OnePort(i)
    PROVE  Allocated(i, routes[i], [n \in DOMAIN routes[i] |-> routes[i][n].port])
<1> SUFFICES ASSUME NEW n \in DOMAIN routes[i]
             PROVE  /\ Previous(i, routes[i][n].endpoint) # {}
                    /\ IsReusedPort(routes[i][n].port, i, routes[i][n].endpoint)
  BY DEF Allocated
<1>1. /\ n \in Previous(i, routes[i][n].endpoint)
      /\ Previous(i, routes[i][n].endpoint) \subseteq Nat
  BY ListDomain DEF Previous
<1>2. PICK k \in Previous(i, routes[i][n].endpoint) :
         \A m \in Previous(i, routes[i][n].endpoint) : k <= m
  BY <1>1, Smallest
<1>3. routes[i][n].port = routes[i][k].port
  BY <1>2 DEF OnePort, Previous
<1> QED BY <1>1, <1>2, <1>3 DEF IsReusedPort

\* LoopbackPortsMatch allows an endpoint the port of its last route alone.
LEMMA MatchAgrees ==
    ASSUME LoopbackPortsMatch
    PROVE  OnePort(op.instance)
<1> SUFFICES ASSUME NEW n \in DOMAIN routes[op.instance], NEW m \in DOMAIN routes[op.instance],
                    routes[op.instance][n].endpoint = routes[op.instance][m].endpoint
             PROVE  routes[op.instance][n].port = routes[op.instance][m].port
  BY DEF OnePort
<1>1. {routes[op.instance][n].port} = {routes[op.instance][m].port}
  BY DEF LoopbackPortsMatch
<1> QED BY <1>1

LEMMA AgreeStep == Inv /\ PortsAgree /\ [Next]_vars => PortsAgree'
<1> SUFFICES ASSUME Inv, PortsAgree, [Next]_vars PROVE PortsAgree'
  OBVIOUS
<1> USE DEF PortsAgree, OnePort
<1>1. ASSUME routes' = routes, op' = Idle \/ op'.kind # "apply" \/ op' = op,
             \A i \in Instances : status'[i] = "ready" => status[i] = "ready"
      PROVE  PortsAgree'
  BY <1>1, IdleType
<1>2. ASSUME NEW i \in Instances, NEW request \in Requested(i),
             NEW services \in SUBSET Services, Reserve(i, request, services)
      PROVE  PortsAgree'
  <2>1. /\ op'.step = "start"
        /\ status'[i] # "ready"
        /\ \A j \in Instances \ {i} : routes'[j] = routes[j] /\ status'[j] = status[j]
    BY <1>2 DEF Reserve, BeginDelivery, LeaseRoutes, Inv, TypeOK
  <2> QED BY <2>1
<1>3. ASSUME NEW s \in Services, StartService(s)
      PROVE  PortsAgree'
  <2>1. /\ op'.step = "start" /\ routes' = routes /\ status' = status
    BY <1>3 DEF StartService, At, caddyVars, Inv, TypeOK, Operation
  <2> QED BY <2>1
<1>4. CASE VerifyDelivery
  <2>1. /\ op'.instance = op.instance /\ routes' = routes /\ status' = status
    BY <1>4 DEF VerifyDelivery, Goto, Inv, TypeOK, Operation
  <2>2. OnePort(op.instance)
    BY <1>4, MatchAgrees DEF VerifyDelivery
  <2> QED BY <2>1, <2>2
<1>5. CASE Publish
  <2>1. CASE PublishUnchanged \/ LoadRoutes \/ PersistRoutes
    <3>1. /\ op.step \in {"load", "persist"} /\ routes' = routes /\ status' = status
          /\ op' = Idle \/ (op'.kind = op.kind /\ op'.instance = op.instance)
      BY <2>1 DEF PublishUnchanged, LoadRoutes, PersistRoutes, AfterPublish, Goto,
                  Inv, TypeOK, Operation
    <3> QED BY <3>1, IdleType
  <2>2. CASE LoadUnanswered \/ PersistFails
    BY <1>1, <2>2 DEF LoadUnanswered, PersistFails, Unpublished, Inv, TypeOK
  <2> QED BY <1>5, <2>1, <2>2 DEF Publish
<1>6. CASE CommitReady
  <2>1. /\ op.kind = "apply" /\ op.step = "commit" /\ op' = Idle /\ routes' = routes
        /\ \A i \in Instances : status'[i] = "ready" => status[i] = "ready" \/ i = op.instance
    BY <1>6 DEF CommitReady, At, Inv, TypeOK
  <2> QED BY <2>1, IdleType
<1>7. ASSUME NEW s \in Services, StartFails(s)
      PROVE  PortsAgree'
  BY <1>1, <1>7 DEF StartFails, Inv, TypeOK
<1>8. CASE DeliveryFails
  BY <1>1, <1>8 DEF DeliveryFails, Inv, TypeOK
<1>9. CASE Deliver
  BY <1>3, <1>4, <1>6, <1>7, <1>8, <1>9 DEF Deliver
<1>10. CASE Forget
  <2>1. /\ op' = Idle
        /\ \A i \in Instances : status'[i] = "ready" => status[i] = "ready" /\ i # op.instance
        /\ \A i \in Instances : i # op.instance => routes'[i] = routes[i]
    BY <1>10 DEF Forget, Inv, TypeOK
  <2> QED BY <2>1, IdleType
<1>11. CASE RemovalVerified
  <2>1. op'.kind = op.kind /\ routes' = routes /\ status' = status
    BY <1>11 DEF RemovalVerified, Goto, Inv, TypeOK, Operation
  <2>2. op.kind # "apply"
    BY <1>11, ApplyWorking DEF RemovalVerified, Inv
  <2> QED BY <1>1, <2>1, <2>2
<1>12. ASSUME NEW s \in Services, RemoveContainer(s)
       PROVE  PortsAgree'
  BY <1>1, <1>12 DEF RemoveContainer, caddyVars
<1>13. CASE CommitRetired
  BY <1>1, <1>13 DEF CommitRetired, Inv, TypeOK
<1>14. CASE Remove
  BY <1>10, <1>11, <1>12, <1>13, <1>14 DEF Remove
<1>15. ASSUME NEW i \in Instances, StartDestroy(i) \/ StartRetire(i)
       PROVE  PortsAgree'
  <2>1. PICK k \in {"destroy", "retire"}, s \in {"deleting", "retiring"} : Close(k, i, s)
    BY <1>15 DEF StartDestroy, StartRetire
  <2>2. op'.kind = k /\ routes' = routes /\ status' = [status EXCEPT ![i] = s]
    BY <2>1 DEF Close, Idle
  <2> QED BY <1>1, <2>2 DEF Inv, TypeOK
<1>16. CASE StartRefresh \/ Interrupted \/ CaddyRestarts
  <2>1. /\ routes' = routes /\ status' = status
        /\ op' = Idle \/ op' = op \/ op' = [Idle EXCEPT !.kind = "refresh", !.step = "load"]
    BY <1>16 DEF StartRefresh, Interrupted, CaddyRestarts
  <2>2. op' = Idle \/ op'.kind # "apply" \/ op' = op
    BY <2>1 DEF Idle
  <2> QED BY <1>1, <2>1, <2>2
<1>17. CASE UNCHANGED vars
  BY <1>1, <1>17 DEF vars, caddyVars
<1> QED BY <1>2, <1>5, <1>9, <1>14, <1>15, <1>16, <1>17 DEF Next, Requests

\* _repeated_delivery: a ready record's routes are allocated the same ports again, so that
\* the fingerprint of a repeated delivery is the recorded one.
THEOREM ReplayCurrent == Spec => []ReplayIsCurrent
<1>1. Init => PortsAgree
  BY IdleType DEF Init, PortsAgree
<1>2. Inv /\ PortsAgree => ReplayIsCurrent
  BY OnePortReused DEF Inv, PortsAgree, ReplayIsCurrent
<1> QED BY <1>1, <1>2, AgreeStep, Invariance, PTL DEF Spec
=============================================================================
