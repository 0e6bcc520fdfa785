------------------------------- MODULE Requests -------------------------------
(***************************************************************************)
(* Runs of vpsctl from their start to their answer: what a run read before *)
(* it holds the lock, the policy or a generation, may be old when it acts. *)
(* Clients are CI jobs (deploy_instance), which send a request once more   *)
(* when its answer was lost, and operators, whose `previews destroy` and   *)
(* `renew` read the generation in one hold of the lock and act in another. *)
(*                                                                         *)
(* A run is judged by the policy that it loaded at its start, whatever is  *)
(* installed since: a request that this one does not permit is refused     *)
(* without effect, so only permitted ones start.  What happens under the   *)
(* lock is one step: Controller has the steps in it, Admission and Routes  *)
(* what else may refuse, HostLock the waiting.                             *)
(***************************************************************************)
EXTENDS Names

CONSTANTS
    Instances,     \* the instances that are requested
    Documents,     \* the policy documents that are installed, wrong ones included
    Hostnames,     \* the hostnames that policies and deliveries name
    Deliveries,    \* bound: the sets of hostnames that deliveries ask for
    Actors,        \* accounts and administrators
    Runs,          \* bound: runs of vpsctl at a time
    MaxGeneration, \* MAX_GENERATION
    NoInstance

ASSUME BoundAssumption == MaxGeneration \in Nat

VARIABLES
    policy,    \* /etc/vps-platform/policy.json
    record,    \* the registry: status, generation and routes of each instance
    tombstone, \* the registry: tombstones, 0 where there is none
    run,       \* the request of each run that waits for the lock
    told       \* deliveries that an answer has called ready

vars == <<policy, record, tombstone, run, told>>
registryVars == <<record, tombstone>>

Generations == 1 .. MaxGeneration
Absent == [status |-> "absent", generation |-> 0, routes |-> {}]
Registered(i) == record[i].status # "absent"

\* The delivery that a record is of; no delivery has generation 0.
Delivery(i) == [generation |-> record[i].generation, routes |-> record[i].routes]
NoDelivery == [generation |-> 0, routes |-> {}]

\* A request; read is the delivery that an operator's run has found, none in a client's.
Request(operation, i, g, routes, reopen, read) ==
    [operation |-> operation, instance |-> i, generation |-> g, routes |-> routes,
     reopen |-> reopen, read |-> read]
NoRequest == Request("none", NoInstance, 0, {}, FALSE, NoDelivery)

Waits(r, operation) == run[r].operation = operation
Done(r) == run' = [run EXCEPT ![r] = NoRequest]

Init ==
    /\ policy \in Documents
    /\ record = [i \in Instances |-> Absent]
    /\ tombstone = [i \in Instances |-> 0]
    /\ run = [r \in Runs |-> NoRequest]
    /\ told = {}

-----------------------------------------------------------------------------
(* The start of a run: it loads the policy and gets its request.           *)

\* The controller role installs another document.
InstallPolicy ==
    /\ policy' \in Documents
    /\ UNCHANGED <<registryVars, run, told>>

\* apply with the routes that the policy gives the instance.
StartApply(r) ==
    /\ Waits(r, "none")
    /\ Accepted(policy)
    /\ \E actor \in Actors, i \in Instances :
          /\ Authorized(policy, actor, i)
          /\ \E g \in Generations, reopen \in BOOLEAN,
                routes \in Deliveries :
                /\ \A h \in routes : Owns(policy, h, i)
                /\ run' = [run EXCEPT ![r] = Request("apply", i, g, routes, reopen, NoDelivery)]
    /\ UNCHANGED <<policy, registryVars, told>>

\* destroy and renew from a client, for a preview.
StartLifecycle(r) ==
    /\ Waits(r, "none")
    /\ Accepted(policy)
    /\ \E actor \in Actors, i \in Instances :
          /\ Authorized(policy, actor, i)
          /\ i.environment = "preview"
          /\ \E operation \in {"destroy", "renew"}, g \in Generations :
                run' = [run EXCEPT ![r] = Request(operation, i, g, {}, FALSE, NoDelivery)]
    /\ UNCHANGED <<policy, registryVars, told>>

\* instance_payload: an operator's run reads the record, gives the lock back, and waits
\* for it again with the generation it has made of it.
OperatorReads(r) ==
    /\ Waits(r, "none")
    /\ Accepted(policy)
    /\ \E actor \in Actors, i \in Instances :
          /\ actor \in policy.administrators
          /\ i.environment = "preview"
          /\ Registered(i)
          /\ \E operation \in {"destroy", "renew"} :
                LET g == IF operation = "destroy" THEN record[i].generation + 1
                                                  ELSE record[i].generation
                IN  /\ g <= MaxGeneration
                    /\ run' = [run EXCEPT ![r] =
                                 Request(operation, i, g, {}, FALSE, Delivery(i))]
    /\ UNCHANGED <<policy, registryVars, told>>

-----------------------------------------------------------------------------
(* A run that has the lock.                                                *)

\* A slip: the policy alone says whose a hostname is.
NamesFreeByPolicy(i, routes) == TRUE

\* allocate_routes: no other record has one of the names, whatever the policy says now.
NamesFree(i, routes) ==
    \A j \in Instances \ {i} : Registered(j) => record[j].routes \cap routes = {}

NewerThanTombstone(i, g, reopen) == tombstone[i] # 0 => g > tombstone[i] /\ reopen

Tell(i) == told' = told \cup {[instance |-> i, generation |-> record'[i].generation,
                               routes |-> record'[i].routes]}

\* A delivery, which gets ready or stays in the registry as it was left.
Deliver(r) ==
    /\ Waits(r, "apply")
    /\ LET i == run[r].instance
           g == run[r].generation
           new == [status |-> "ready", generation |-> g, routes |-> run[r].routes]
       IN  /\ NewerThanTombstone(i, g, run[r].reopen)
           /\ g > record[i].generation
           /\ NamesFree(i, run[r].routes)
           /\ \/ record' = [record EXCEPT ![i] = new] /\ Tell(i)
              \/ record' = [record EXCEPT ![i] = [new EXCEPT !.status = "failed"]]
                 /\ UNCHANGED told
           /\ tombstone' = [tombstone EXCEPT ![i] = 0]
    /\ Done(r)
    /\ UNCHANGED policy

\* A slip: the generation alone makes a delivery the current one.
SameGeneration(i, routes) == TRUE

\* The fingerprint.
SameDelivery(i, routes) == record[i].routes = routes

\* _repeated_delivery: "delivery already current".
Repeat(r) ==
    /\ Waits(r, "apply")
    /\ LET i == run[r].instance
       IN  /\ NewerThanTombstone(i, run[r].generation, run[r].reopen)
           /\ run[r].generation = record[i].generation
           /\ NamesFree(i, run[r].routes)
           /\ SameDelivery(i, run[r].routes)
           /\ record[i].status = "ready"
           /\ told' = told \cup {[instance |-> i, generation |-> run[r].generation,
                                  routes |-> run[r].routes]}
    /\ Done(r)
    /\ UNCHANGED <<policy, registryVars>>

\* A slip: only the tombstone says that a closure is stale.
DestroyUnfenced(r) ==
    /\ Waits(r, "destroy")
    /\ LET i == run[r].instance
           g == run[r].generation
       IN  /\ g >= tombstone[i]
           /\ tombstone' = [tombstone EXCEPT ![i] = g]
           /\ record' = [record EXCEPT ![i] = Absent]
    /\ Done(r)
    /\ UNCHANGED <<policy, told>>

\* _destroy, up to its end or to a failure that retains the reservation; _close_absent.
Destroy(r) ==
    /\ Waits(r, "destroy")
    /\ LET i == run[r].instance
           g == run[r].generation
       IN  /\ g >= tombstone[i] /\ g >= record[i].generation
           /\ tombstone' = [tombstone EXCEPT ![i] = g]
           /\ \/ record' = [record EXCEPT ![i] = Absent]
              \/ /\ Registered(i)
                 /\ record' = [record EXCEPT ![i].status = "deleting", ![i].generation = g]
    /\ Done(r)
    /\ UNCHANGED <<policy, told>>

\* A slip: a healthy preview is renewed whatever the request was made for.
RenewAny(r) ==
    /\ Waits(r, "renew")
    /\ record[run[r].instance].status = "ready"
    /\ Done(r)
    /\ UNCHANGED <<policy, registryVars, told>>

\* _renew; the time of the expiry is in Controller.
Renew(r) ==
    /\ Waits(r, "renew")
    /\ record[run[r].instance].status = "ready"
    /\ run[r].generation >= record[run[r].instance].generation
    /\ Done(r)
    /\ UNCHANGED <<policy, registryVars, told>>

\* A run that is refused, gets no lock in time, or is killed.
GivesUp(r) ==
    /\ ~Waits(r, "none")
    /\ Done(r)
    /\ UNCHANGED <<policy, registryVars, told>>

Next ==
    \/ InstallPolicy
    \/ \E r \in Runs :
          \/ StartApply(r) \/ StartLifecycle(r) \/ OperatorReads(r)
          \/ Deliver(r) \/ Repeat(r) \/ Destroy(r) \/ Renew(r) \/ GivesUp(r)

Spec == Init /\ [][Next]_vars

-----------------------------------------------------------------------------
(* What the run checks.                                                    *)

\* docs/APP-CONTRACT.md: "neither can publish another's name".  A policy that is accepted
\* gives no hostname to two instances of the applications it knows.
OneOwner ==
    Accepted(policy) =>
      \A i, j \in InstancesOf(Applications(policy)) : \A h \in Hostnames :
          Owns(policy, h, i) /\ Owns(policy, h, j) => i = j

\* No two records hold one name, although runs are judged by different policies and an
\* alias is moved while a record still holds it.
NamesApart ==
    \A i, j \in Instances : i # j => record[i].routes \cap record[j].routes = {}

\* An answer "ready" stays true of its generation: what the registry or another answer
\* calls this generation of the instance is the same delivery, through lost answers,
\* repeated requests, destructions and reopenings.
ReadyAnswersHold ==
    \A t \in told :
        /\ record[t.instance].generation = t.generation
             => record[t.instance].routes = t.routes
        /\ \A u \in told :
              u.instance = t.instance /\ u.generation = t.generation => u.routes = t.routes

\* What an operator's command reaches, whatever clients deliver, close and reopen between
\* its reading and its lock: a renewal exactly the delivery that was read; a destruction
\* that one or, as it names the next generation, the one that has come next, which the
\* operator has not seen.  The second one further is refused.
OperatorsReachOneFurther ==
    [][\A r \in Runs :
          LET i == run[r].instance
              read == run[r].read
          IN  read # NoDelivery =>
                /\ Renew(r) => Delivery(i) = read
                /\ Destroy(r) =>
                     \/ ~Registered(i) \/ Delivery(i) = read
                     \/ record[i].generation = read.generation + 1]_vars
=============================================================================
