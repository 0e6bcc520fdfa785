------------------------------ MODULE Admission ------------------------------
(***************************************************************************)
(* The budgets of the registry against what Docker really runs.  An update *)
(* replaces the containers of an instance one service at a time and may    *)
(* fail or be killed in the middle, init jobs of a failed run may live on, *)
(* and a later delivery is admitted on top of all that: the reservation    *)
(* has to bound every state on the way, for the instance, its environment  *)
(* and the host.                                                           *)
(*                                                                         *)
(* One resource stands for CPU and memory, which the code treats alike, in *)
(* units.  The measured memory margin, the disk reserve and the budget of  *)
(* a single preview only refuse more; the slot limit is in Controller.  A   *)
(* `docker compose up` ends with its controller here; Controller has the    *)
(* ones that do not.                                                        *)
(***************************************************************************)
EXTENDS Integers, FiniteSets, FiniteSetsExt

CONSTANTS
    Instances,       \* what may be delivered
    Environment,     \* the environment of each instance: "prod", "staging" or "preview"
    Envelope,        \* policy["budgets"]: units per environment
    MaximumTotal,    \* policy["maximum_total_memory_mib"]
    Services,        \* names of services
    Sizes,           \* limits a service may ask for
    NoInstance,      \* op.instance while the lock is free
    NoService        \* op.job while no init job runs

ASSUME ConstantsAssumption ==
    /\ Environment \in [Instances -> {"prod", "staging", "preview"}]
    /\ Envelope \in [{"prod", "staging", "preview"} -> Nat]
    /\ MaximumTotal \in Nat
    /\ IsFiniteSet(Instances) /\ NoInstance \notin Instances
    /\ IsFiniteSet(Services) /\ NoService \notin Services
    /\ Sizes \subseteq Nat \ {0}

VARIABLES
    status,  \* registry.json: the status of each instance
    budget,  \* registry.json: its reserved budget, 0 without a record
    limit,   \* Docker: the limit of each service's container, 0 without one
    oneoffs, \* Docker: the limits of the live one-off containers of each service
    op       \* the operation that holds the lock

registryVars == <<status, budget>>
dockerVars == <<limit, oneoffs>>
vars == <<registryVars, dockerVars, op>>

Zero == [s \in Services |-> 0]
Total(amount) == MapThenSumSet(LAMBDA s : amount[s], Services)

\* Services with a limit; those in jobs have the profile of an init job.
Delivery == [limits: [Services -> Sizes \cup {0}], jobs: SUBSET Services]
Nothing == [limits |-> Zero, jobs |-> {}]
Regular(d) == {s \in Services : d.limits[s] # 0} \ d.jobs

\* What normalize accepts: jobs are services, and not every service is a job.
Deliveries ==
    {d \in Delivery : Regular(d) # {} /\ \A s \in d.jobs : d.limits[s] # 0}

Idle == [kind |-> "none", instance |-> NoInstance, delivery |-> Nothing,
         pending |-> {}, job |-> NoService]
Free == op.kind = "none"

Registered(i) == status[i] # "absent"
Quiet(i) == limit[i] = Zero /\ oneoffs[i] = Zero

Init ==
    /\ status = [i \in Instances |-> "absent"]
    /\ budget = [i \in Instances |-> 0]
    /\ limit = [i \in Instances |-> Zero]
    /\ oneoffs = [i \in Instances |-> Zero]
    /\ op = Idle

-----------------------------------------------------------------------------
(* The admission of a delivery.                                            *)

\* A slip: the live jobs of a failed run are forgotten.
NewJobs(i, d) == Total([s \in Services |-> IF s \in d.jobs THEN d.limits[s] ELSE 0])

\* One-offs add up: those that live and those the delivery will run.
Jobs(i, d) ==
    Total(oneoffs[i]) + Total([s \in Services |-> IF s \in d.jobs THEN d.limits[s] ELSE 0])

\* A slip: both containers of a service are counted while it is replaced.
Both(i, d) ==
    Total([s \in Services |-> limit[i][s] + IF s \in Regular(d) THEN d.limits[s] ELSE 0])

\* A service has its present container or its new one, whichever is larger.
Largest(i, d) ==
    Total([s \in Services |-> Max({limit[i][s], IF s \in Regular(d) THEN d.limits[s] ELSE 0})])

\* A slip: what a failed delivery reserved is given back too early.
ReservationAfresh(i, d) == Jobs(i, d) + Largest(i, d)

\* reservation(compose, old, resources).
Reservation(i, d) == Max({Jobs(i, d) + Largest(i, d), budget[i]})

\* The records that count against the envelopes.
Others(i) == {j \in Instances \ {i} : status[j] \notin {"absent", "retired"}}

Reserved(S) == MapThenSumSet(LAMBDA j : Reservation(j, Nothing), S)

\* A slip: the host as a whole is not checked.
FitsItsEnvironment(i, amount) ==
    Reserved({j \in Others(i) : Environment[j] = Environment[i]}) + amount
       <= Envelope[Environment[i]]

\* _admit: the envelope of the environment and that of the host.
Fits(i, amount) ==
    /\ Reserved({j \in Others(i) : Environment[j] = Environment[i]}) + amount
          <= Envelope[Environment[i]]
    /\ Reserved(Others(i)) + amount <= MaximumTotal

\* _inventory(state, admission=True).
Reconciled ==
    \A i \in Instances : status[i] \in {"absent", "retired"} => Quiet(i)

\* _apply of a new generation: admitted, then reserved before Docker is touched.
Admit(i, d) ==
    /\ Free
    /\ Reconciled
    /\ status[i] \notin {"retiring", "retired"}
    /\ Fits(i, Reservation(i, d))
    /\ status' = [status EXCEPT ![i] = "preparing"]
    /\ budget' = [budget EXCEPT ![i] = Reservation(i, d)]
    /\ op' = [Idle EXCEPT !.kind = "apply", !.instance = i, !.delivery = d,
                          !.pending = {s \in Services : d.limits[s] # 0}]
    /\ UNCHANGED dockerVars

-----------------------------------------------------------------------------
(* Runtime.apply.                                                          *)

Applying == op.kind = "apply"
Wanted(s) == op.delivery.limits[s]

\* `docker compose up --no-deps` replaces the container of one service.
StartService(s) ==
    /\ Applying /\ op.job = NoService
    /\ s \in op.pending \ op.delivery.jobs
    /\ limit' = [limit EXCEPT ![op.instance][s] = Wanted(s)]
    /\ op' = [op EXCEPT !.pending = @ \ {s}]
    /\ UNCHANGED <<registryVars, oneoffs>>

\* `docker compose run --rm` creates a one-off container.
StartJob(s) ==
    /\ Applying /\ op.job = NoService
    /\ s \in op.pending \cap op.delivery.jobs
    /\ oneoffs' = [oneoffs EXCEPT ![op.instance][s] = @ + Wanted(s)]
    /\ op' = [op EXCEPT !.pending = @ \ {s}, !.job = s]
    /\ UNCHANGED <<registryVars, limit>>

JobEnds ==
    /\ op.job # NoService
    /\ oneoffs' = [oneoffs EXCEPT ![op.instance][op.job] = @ - Wanted(op.job)]
    /\ op' = [op EXCEPT !.job = NoService]
    /\ UNCHANGED <<registryVars, limit>>

\* _verify_effective wants one container per regular service, with its limit, so a
\* live one-off of the same name fails it; then _remove_retired_containers.
VerifyDelivery ==
    /\ Applying /\ op.job = NoService /\ op.pending = {}
    /\ \A s \in Regular(op.delivery) :
          limit[op.instance][s] = Wanted(s) /\ oneoffs[op.instance][s] = 0
    /\ limit' = [limit EXCEPT ![op.instance] =
                    [s \in Services |-> IF s \in Regular(op.delivery) THEN @[s] ELSE 0]]
    /\ oneoffs' = [oneoffs EXCEPT ![op.instance] = Zero]
    /\ op' = [op EXCEPT !.kind = "verified"]
    /\ UNCHANGED registryVars

\* The budget becomes the delivery's own.
CommitReady ==
    /\ op.kind = "verified"
    /\ status' = [status EXCEPT ![op.instance] = "ready"]
    /\ budget' = [budget EXCEPT ![op.instance] = Total(op.delivery.limits)]
    /\ op' = Idle
    /\ UNCHANGED dockerVars

\* Any call of the delivery fails.  The job it waits for lives on when the call ran
\* into its timeout; a service it replaces may be left without a container.
DeliveryFails ==
    /\ op.kind \in {"apply", "verified"}
    /\ status' = [status EXCEPT ![op.instance] = "failed"]
    /\ \/ UNCHANGED dockerVars
       \/ /\ Applying /\ op.job = NoService
          /\ \E s \in op.pending \ op.delivery.jobs :
                limit' = [limit EXCEPT ![op.instance][s] = 0]
          /\ UNCHANGED oneoffs
    /\ op' = Idle
    /\ UNCHANGED budget

-----------------------------------------------------------------------------
(* The end of an instance: _destroy of previews, retire_staging.           *)

Removable(i) == CASE Environment[i] = "preview" -> Registered(i)
                  [] Environment[i] = "staging" -> Registered(i) /\ status[i] # "retired"
                  [] OTHER -> FALSE

StartRemoval(i) ==
    /\ Free
    /\ Removable(i)
    /\ Environment[i] = "staging" => Reconciled
    /\ status' = [status EXCEPT ![i] = IF Environment[i] = "preview" THEN "deleting"
                                                                     ELSE "retiring"]
    /\ op' = [Idle EXCEPT !.kind = "remove", !.instance = i]
    /\ UNCHANGED <<budget, dockerVars>>

RemoveContainers(s) ==
    /\ op.kind = "remove"
    /\ limit' = [limit EXCEPT ![op.instance][s] = 0]
    /\ oneoffs' = [oneoffs EXCEPT ![op.instance][s] = 0]
    /\ UNCHANGED <<registryVars, op>>

\* Nothing is left: the record goes, or is kept as retired.
RemovalVerified ==
    /\ op.kind = "remove"
    /\ Quiet(op.instance)
    /\ status' = [status EXCEPT ![op.instance] =
                     IF Environment[op.instance] = "preview" THEN "absent" ELSE "retired"]
    /\ budget' = [budget EXCEPT ![op.instance] = IF status'[op.instance] = "absent" THEN 0 ELSE @]
    /\ op' = Idle
    /\ UNCHANGED dockerVars

\* A removal fails, or the controller is killed.
Interrupted ==
    /\ ~Free
    /\ op' = Idle
    /\ UNCHANGED <<registryVars, dockerVars>>

-----------------------------------------------------------------------------
(* Containers without their controller.                                    *)

\* A job that a failed run left behind ends.
OneOffEnds(i, s) ==
    /\ ~(op.instance = i /\ op.job = s)
    /\ oneoffs[i][s] > 0
    /\ \E rest \in 0 .. oneoffs[i][s] - 1 : oneoffs' = [oneoffs EXCEPT ![i][s] = rest]
    /\ UNCHANGED <<registryVars, limit, op>>

Next ==
    \/ \E i \in Instances : StartRemoval(i) \/ \E d \in Deliveries : Admit(i, d)
    \/ \E s \in Services : StartService(s) \/ StartJob(s) \/ RemoveContainers(s)
    \/ JobEnds \/ VerifyDelivery \/ CommitReady \/ DeliveryFails
    \/ RemovalVerified \/ Interrupted
    \/ \E i \in Instances, s \in Services : OneOffEnds(i, s)

Spec == Init /\ [][Next]_vars

-----------------------------------------------------------------------------
(* What the runs check.                                                    *)

Used(i) == Total(limit[i]) + Total(oneoffs[i])
UsedBy(S) == MapThenSumSet(Used, S)

\* What an instance runs never exceeds what its record reserves, wherever a sequence
\* of updates, failures and retries stands; without a reservation it runs nothing
\* (the reservation is to "bound sequential Compose replacement, including renamed
\* services and live one-offs").
ReservationBounds ==
    \A i \in Instances :
       Used(i) <= IF status[i] \in {"absent", "retired"} THEN 0 ELSE budget[i]

\* The containers of an environment never exceed its envelope, nor those of the host
\* the total, although each delivery was admitted against the others' records.
WithinEnvelopes ==
    /\ \A e \in DOMAIN Envelope :
          UsedBy({i \in Instances : Environment[i] = e}) <= Envelope[e]
    /\ UsedBy(Instances) <= MaximumTotal

\* Whether d may be what is deployed: its services run, its jobs make up the budget.
IsShape(i, d) ==
    /\ limit[i] = [s \in Services |-> IF s \in Regular(d) THEN d.limits[s] ELSE 0]
    /\ budget[i] = Total(d.limits)

\* A ready delivery can be updated at its own size even when the envelope is full
\* (docs/ARCHITECTURE.md: unchanged service shapes update at their normal envelope).
SameShapeFits ==
    \A i \in Instances : \A d \in Deliveries :
       status[i] = "ready" /\ IsShape(i, d) => Reservation(i, d) = budget[i]

\* A reservation only shrinks when a delivery is verified or its resources are gone
\* (docs/ARCHITECTURE.md: never below a prior failed aggregate before verification).
ReservationsHeld ==
    [][\A i \in Instances :
          budget'[i] < budget[i] => status'[i] = "ready" \/ Quiet(i)]_vars
=============================================================================
