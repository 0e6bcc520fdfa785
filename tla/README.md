# Verification of vps-services

TLA+ models of the platform in this repository: the root controller `vpsctl`
(`collections/ansible_collections/ny/vps/roles/controller/files/vps_platform/`), which
delivers, updates, backs up and removes application instances on one VPS with Docker
Compose and Caddy. Paths are relative to `src/`; `vps_platform/` abbreviates the
directory above.

## 1. The system

| component | state it keeps | operations | how it interacts |
| --- | --- | --- | --- |
| controller (`vps_platform/controller.py`) | `registry.json`: a record per instance (status, generation, `ever_ready`, lease, expiry, routes, budgets) and a tombstone per closed instance; a private directory per instance with `compose.json` | apply, plan, destroy, renew, backup, status, logs, cleanup, retire-staging, refresh of the ingress and of CPU weights | holds the host lock from the load of the registry to its answer; calls the runtime |
| runtime (`vps_platform/runtime.py`) | Docker's containers, networks and volumes; the configuration Caddy runs and `/etc/caddy/vps-platform.json` | apply, destroy, retire_staging, inventory, backup, publish, guard probes | child processes with timeouts; HTTP over Caddy's Unix socket |
| registry file and lock (`vps_platform/state.py`) | `registry.json`, `controller.lock`, `audit.jsonl` | locked, load, save, replace_json, append | `flock`; the backup command inherits the descriptor |
| admission (`controller.py` `_admit`, `reservation`) | the budgets in the records | preview limit, environment envelopes, memory margin, disk reserve | reads the runtime's inventory |
| compose normalisation and routes (`vps_platform/compose.py`) | port leases in the records' routes | normalize, allocate_routes, free_port, start order | reads every other record |
| policy (`vps_platform/policy.py`) | `policy.json` | `__init__` (refuses a document), authorize, owns_hostname | read when a run starts, before it waits for the lock |
| command line (`vps_platform/cli.py`) | none | request, instances, previews, backups, ingress | loads the policy; reads a generation under one lock and acts under another |
| `deploy_instance` (`plugins/modules/deploy_instance.py`) | none | plan in check mode, apply, result mapping | SSH to the command line; a CI job sends it again when its answer was lost |
| maintenance timer (`vps-platform-maintenance.service`) | a oneshot unit | `vpsctl ingress refresh`, `vpsctl status`, `vpsctl cleanup`, in this order, up to the first that fails | what makes progress after failures |
| metrics (`platform-metrics.py`) | a text file, rebuilt each time | render_metrics | reads the registry without the lock |
| host roles | systemd units, packages, firewall | Ansible tasks | none at run time |

What is hard in it: the controller may be killed between any two durable effects and everything
it touched (registry, directories, Docker, Caddy, Caddy's file) has its own truth afterwards;
deliveries, closures and retries arrive late, twice or out of order and are told apart by
generations and tombstones only; one operation's publish rewrites every instance's routes; a
cleanup works from a list it made earlier; a run acts by a policy, and an operator's command by
a generation, that it read before it had the lock; children (a backup, a `docker compose up`)
outlive their parent, and one of them takes the lock along. What makes each part correct:

* controller and runtime: an instance promises what `Lifecycle` says (fences only rise, a
  closed preview stays closed for late requests, slots are bounded, a retirement is final);
  a ready record is served; what Caddy's file routes to is there; nothing in Docker is
  without a record, nor above the fence; what a crash leaves is taken up by the timer;
* registry: one run at a time, and a backup that outlived its run; whole documents; no save
  lost to another run or to a loss of power; no waiter without an answer;
* admission: what Docker runs at any moment, old and new containers of an update together,
  is within the reservations, and those within the envelopes;
* routes: no port in two records, kept across updates, bound by the containers they name;
* normalisation: exactly the cyclic dependencies refused, dependencies started first;
* guard: no body that was cut opens it; Caddy's file proxies a name only to data that was
  set up; a guard that is kept takes effect, and a service that is set up gets its name;
* policy: no name belongs to two instances, by any document that is accepted, nor to two
  records while documents change;
* command line, `deploy_instance`: an operator's request acts on the delivery it was about
  and never on the second after it; an answer stays true when its request is repeated;
* maintenance: every expired or stuck preview is taken up.

`PROJECT.json` lists each hazard at its line with the properties that cover it.

## 2. Modules

| module | what it is |
| --- | --- |
| `Lifecycle` | what `vpsctl` promises of an instance: a phase and a fence per instance, deliveries above the fence, a slot per preview, a final retirement |
| `Controller` | the controller and its runtime, one action per durable effect |
| `MCController` | `Controller` with the symmetry of interchangeable previews, a bound and a view, for TLC |
| `ControllerProofs` | types, slots, fences, retirement and the refinement of `Lifecycle`, for every value of the constants |
| `ControllerServing` | what the records say of files, Docker and Caddy, for every value of the constants; the unit of `Maintenance` next to it |
| `Routes`, `MCRoutes`, `RoutesProofs` | the port leases of all instances against the ports Docker has bound, the routes Caddy runs and those in its file |
| `HostLock` | `controller.lock`: polling waiters, deadlines, kills, a backup that inherits the descriptor |
| `StoredDocument` | what a caller of `replace_json` relies on |
| `AtomicFile` | `replace_json`, system call by system call, against kills and losses of power; implements `StoredDocument` |
| `Registry`, `RegistryProofs` | the composition of `HostLock` and `AtomicFile`: runs that load, change and save `registry.json` under the lock; the proofs are of the lock, the file and both |
| `Admission`, `MCAdmission`, `AdmissionProofs` | reservations and envelopes against what Docker runs |
| `GuardProbe` | one onboarding probe and its watchdog thread |
| `OnboardingGuard`, `GuardProofs` | extends it with the probes' callers: a guarded name through deliveries, refreshes, destructions, cut publishes and publishes for others, by policies that may be old |
| `Maintenance`, `MCMaintenance` | extends `Controller` with the maintenance unit |
| `Names` | application names, instances, hostnames and aliases; the policy documents that are accepted |
| `Requests`, `MCRequests`, `RequestsProofs` | extends `Names` with runs of `vpsctl` from the load of the policy to the answer |
| `StartOrder`, `MCStartOrder`, `StartOrderProofs` | cyclic dependencies and the start order, against a definition on graphs |

The modules meet at the lock and at the publish. `Registry` justifies what
the others assume of `state.py`: one operation at a time (a variable `op`), and saves that
are one step. `Controller` has every durable effect of every operation but one route per
instance, no sizes and no guards; `Routes`, `Admission` and `OnboardingGuard` each take up
one of these with the operations reduced to the steps at which their data changes.
`Requests` looks from outside the lock: what happens under it is one step there, what was
read before it is not.

### Controller

The lock makes operations exclusive, so one record `op` is the operation in progress
(`Free` when nobody holds the lock) and every other variable is durable: `record` and
`tombstone` (the registry file), `directories` and `compose` (private files),
`containers` and `volume` (Docker; a delivery is named by its generation), `live` and
`file` (the routes Caddy runs, the routes on disk). An operation is a chain of actions:

* apply: `StartApply` (all refusals) — `BackupSucceeds`/`BackupFails` — `PrepareDirectory` —
  `Reserve` — `WriteCompose` — `StartFirstService` — `StartOtherServices` —
  `VerifyDelivery` — publish — `CommitReady`, or `DeliveryFails` — `CommitFailed`;
* destroy: `StartDestroy` or `CloseAbsent` — `CloseInstance` — publish —
  `RemoveContainer`* — `RemoveVolume` — `RemovalVerified` — `RemoveDirectory` —
  `ForgetRecord`; `StartCleanup` chains it over a batch with `NextInBatch`;
* retire-staging: `StartRetire` — `FenceRetirement` — publish — `RemoveContainer`* —
  `RetirementVerified` — `CommitRetired`;
* refresh: `StartRefresh` — publish; `Renew` and `StartBackup` stand alone;
* publish, shared by all: `PublishUnchanged` when the file has the configuration already,
  or `LoadRoutes` — `PersistRoutes`. `LoadUnanswered` is a load that took effect and raises
  all the same; `PersistFails` a write that raises before or after it has replaced the
  file, and whose rollback of Caddy may fail.

The environment: `Crash` and `CaddyRestarts` at any step, between the load and the write of a
publish too, `SaveFails`, `OperationFails`, and time (`LeaseEnds`, `Expires`). One constant
switches on the worse environment that some guarantees do not survive: `ComposeOutlives` (a
`docker compose up` goes on after its controller was killed, `OrphanRuns`).

Abstractions: time is the two comparisons the code makes; an instance has one route, on a
stable port; budgets, memory and disk only refuse more deliveries and are left out, as are
`http_status`, images, `previous-compose.json` (never read) and the audit line; the domain
is configured; answers that change nothing are stuttering steps. Docker objects do not
vanish by themselves.

### Routes

A record has a list of routes `[hostname, endpoint, port]`; an endpoint is a service and
its target port. `Reserve` is the admission: ports are allocated as `allocate_routes` does,
in the order of the request (`Allocated`, `LeaseRoutes`), and saved with status
`preparing`. `StartService` gives a service's container the ports of its routes when they
can be bound; `VerifyDelivery`, a publish and `CommitReady` end a delivery;
`Close`, a publish, `RemoveContainer` and `Forget` or `CommitRetired` an instance. `bound`
is the ports Docker has bound, `live` the routes Caddy runs, `file` those it starts from. The
publish is that of `Controller` over whole routes: `PublishUnchanged`, `LoadRoutes` —
`PersistRoutes`, `LoadUnanswered`, `PersistFails`, and `CaddyRestarts` at any time. An operation
is cut at any step (`Interrupted`), which leaves a delivery's record in `preparing`.
Assumptions: every `docker compose up` ends with its controller, and a hostname is owned by
one instance (`policy.owns_hostname`).

### HostLock, AtomicFile and Registry

`HostLock` has the steps of `Registry.locked` per run of `vpsctl` (`Open`, `Acquire`,
`Blocked`, `Sleep`, `Refuse`, `Leave`) and those of a backup: `StartBackup` passes the
descriptor on, `BackupReturns` may leave a process behind, `ChildEnds` is its end. `flock`
belongs to the open file, so `Closed` says who holds the lock after a close. The clock is
one bit per waiter (`late`).

`AtomicFile` names a document by the number of the write that made it. `written` and `path`
are what processes see, `durable` and `onDisk` what the disk is sure to have: a rename that
was not synced may or may not be there after `PowerLoss`, and unsynced data only by chance.
The directory entries of temporary files (`temporaries`) stay in `PowerLoss` as processes saw
them: a removal that was not synced may be undone on a disk, so `LeftoversFromCuts` bounds
what cuts leave, not what a file system may bring back.
`WriteFails` is an exception of any call, with its `finally`.

`Registry` EXTENDS both and conjoins their actions: `AtLock` is a step of the lock that
leaves the file alone, `Load` and `Save` are the steps of a run inside the lock (`Save` any
system call of `replace_json`), `Answer` leaves the lock, `Kill` takes a writer along, and
`PowerGoes` is the restart of the host for both. `loaded` is the document a run has in
memory. Nothing in the file says from which document a save was made, so that no save is
lost rests on the lock alone.

### Admission

One resource in units stands for CPU and memory. `limit` is the limit of each service's
container, `oneoffs` that of its live one-off containers. `Reservation` is the function
`reservation`; with no services it is what the other records count for. A delivery then
replaces containers one by one in any order (`StartService`, `StartJob`), which includes
every order of `StartOrder`, and fails anywhere. As in `Routes`, every `docker compose`
ends with its controller (`Controller` has the one that does not).

### GuardProbe and OnboardingGuard

`GuardProbe` follows `_guard_open` with its two threads. The service chooses status, length and
timing of its answer. A body counts in chunks; a whole one passes for a proof only if the
onboarding is complete (`LooksDone`), the beginning of one that the watchdog cut may look like
anything. A service that closes its connection inside a body of a stated length ends it as its
true end does (`PeerCloses`; `read1` tells them apart for chunked bodies only): a beginning of
the list is no list, but the exact text of the 404 may begin a longer one, and the code trusts a
service that ends there to be set up, as `LooksDone` does. `Check` and `DecideOpen` are the
places at which the reader looks at the event and the clock, `SetExpired` and `ShutSocket` the
two steps of the watchdog that race them.

`OnboardingGuard` EXTENDS it: a publish (`StartProbe`, `ChooseHandler`, then the skip, the
load and the write, each of which may be the last) runs a probe step by step next to all
else, and the report of an apply or a refresh (`ReportStatus`) runs another. `live` is what
Caddy does with the name, `file` what it does after a restart. `onboarded` says that the
data is set up, `claimed` that it has been: an application may be reset (`Reset`), which
`docs/APP-CONTRACT.md:198` has leave its route open. `StartContainers` may come up with
other data, where a volume is new, renamed or gone; `RemoveResources` takes it away.
`guarded` is the policy on disk, `loaded` what the runs that wait for the lock have read of
it (`LoadPolicy`, then `Begin` when one of them gets it, or `WaitEnds`). A name without a
guard is proxied at once ("open"), and what is reported of it says nothing of its onboarding.

### Maintenance

`unit` is the command the unit has come to. Its refresh and its cleanup are `StartRefresh` and
`StartCleanup` of `Controller`, so they wait for the lock and the reconciliation like
everybody's; `RefreshFails` and `CommandFails` end the unit before its cleanup.

### Names and Requests

A name is the sequence of the words between its hyphens, a hostname the sequence of its
labels, so that `acme-staging`, `pr-7` or a production name that contains another's are
what they are in the code; characters and lengths are left out. `Accepted` is what
`Policy.__init__` demands of accounts and aliases, `Owns` is `owns_hostname`.

In `Requests` any document may be installed at any time. A run starts with a document it
accepts (`StartApply`, `StartLifecycle`, `OperatorReads`) and acts later (`Deliver`, `Repeat`,
`Destroy`, `Renew`), when neither the document nor the delivery an operator's command has
read (`read`: its generation and routes) need be current.
`told` is the set of deliveries that answers have called ready. Whether a delivery succeeds
is left open; a closure is the whole destruction or one that failed after its tombstone.

### StartOrder

`StartOrder` runs the two depth-first walks of `require_acyclic` and `start_order`, then the
loop of `Runtime.apply`. Their recursive `visit` is a stack of calls, `frames`, with the
dependencies each has not come to: a step is a call of `visit` that returns at once
(`Skip`), one that goes on (`Enter`) or a return (`Leave`). `path` is the names on the stack.
The document orders services and dependencies; the model takes them in any order. `Circular`,
which the walks are compared with, walks nothing. Conditions on dependencies are left out: a
start is over when its service is healthy or its job has ended.

## 3. Runs

| run | instance of the model | checks |
| --- | --- | --- |
| `controller_lifecycle` | a preview and a staging instance with a backup command, two generations of each or three of one, one crash (2.1 million states) | `ResourcesTracked`, `ReadyServed`, `RetiredInert`, `FileRoutesStand`, `RetirementIsFinal`, `BackupBeforeUpdate` |
| `controller_adverse` | two symmetric previews, one slot, generations 1..2, two crashes, surviving children (363 000) | `TypeOK`, `SlotLimit`, `NothingOutranksFence`, `ImplementsLifecycle` |
| `maintenance` | the unit next to two previews, two slots, one generation, with fairness (196 000) | `BatchStillReclaimable`, `UnfinishedResolved`, `DeletionCompletes` |
| `requests` | two symmetric runs, two instances whose names and aliases are close to each other, accepted and refused documents, generations 1..3 for the preview and one for the production (583 000) | `OneOwner`, `NamesApart`, `ReadyAnswersHold`, `OperatorsReachOneFurther` |
| `routes_leases` | two instances with three names, two ports; names of one instance and services are symmetric (611 000) | `LeasesDisjoint`, `ReadyRoutesWritten`, `ReplayIsCurrent`, `PortsKept` |
| `registry` | two runs of `vpsctl`, three saves, two kills or losses of power during a save, with fairness (126 000) | `OneRunWorks`, `NeverTorn`, `LeftoversFromCuts`, `ImplementsStoredDocument`, `NoLostUpdate`, `WaitersAnswered` |
| `admission_budgets` | a staging instance (envelope 4) and a preview (3) on a host of 5, three services of size 1 or 2 (95 000) | `ReservationBounds`, `WithinEnvelopes`, `SameShapeFits`, `ReservationsHeld` |
| `guard` | one guarded instance, answers of up to two chunks, one accepted, a policy that changes, publishes cut anywhere, with fairness (435 000) | `CutNeverOpens`, `ProxiedOnlyClaimed`, `ReadyOnlyClaimed`, `GuardOpens`, `GuardHolds` |
| `start_order` | every dependency graph of four symmetric services, walked in every order (15 000) | `ExactlyCyclesRefused`, `DependenciesFirst`, `VisitsApart` |

and three that find what a comment or a document says violated (section 5): `controller_torn`
(`WithdrawnBeforeRemoval`), `controller_stuck` (`DeletingReclaimed`) and `routes_stale`
(`NamesReachOwner`).

The bounds: the properties relate one instance to itself over time, or one instance to the
publish or the batch of another, so two instances are enough; two generations allow a delivery,
its closure and a reopening by a newer one, three an update after a failed update; a crash is
interesting once per operation, and a second one hits its recovery. In the runs of the
controller a crash may come at any step (`maintenance` has none), a load may lose its answer and
Caddy may restart. `controller_lifecycle` bounds the product of the two fences
(`FewGenerations`): either instance goes through three generations next to one of the other, or
both through two. What Caddy runs is read by restarts of Caddy and by rollbacks, which change
nothing else, and by no property of `controller_lifecycle`, `maintenance` and `routes_leases`
(nor by the fairness of `maintenance`): their view (`AllButLive`) leaves it out. The steps
themselves stay. `MaxGeneration` is the code's `MAX_GENERATION` made small: requests above it
are refused by both. `controller_adverse` disables the deadlock check because an instance with
untracked containers blocks every admission (`Reconciled`): the system then waits for its
operator; `start_order` because requests end.

Of the other modules: two ports for three names make leases run out; one run that works and one
that waits are all the lock can tell apart, a backup that outlives its controller included; two
cuts of a save may hit consecutive saves before a directory is synced, and the third save is the
recovery (a kill of a run that is not writing is not bounded); the envelopes of
`admission_budgets` add up to more than the host has, and the host to less than two full
updates; one chunk above the limit is all a cut body needs; two runs of `requests` are one that
has read and one that changes what it read; three generations are a delivery that an operator
has read, its closure and two deliveries after it, of which a destruction may reach the first
and no more (`FewProductions` keeps the other instance, which is there for its names, at one);
four services contain every way in which a diamond, a cycle and a chain of three can meet.

`maintenance` has one generation and no crash: a delivery that stays `preparing` and a
destruction that stays `deleting` also come from failed saves (`SaveFails`), and the second
preview is there to lose or take the lock, the slots and the cleanup from the first.

Fairness. An operation that holds the lock goes on, since each call it makes has a timeout
(weak fairness in all modules). Beyond this:

* `Maintenance`: the timer fires; a command of the unit does not lose the lock to other
  requests every time (strong fairness of `UnitCommands`: the lock is polled for a bounded
  time, and the timer asks again every five minutes); leases end; and from some time on
  nothing fails (`Undisturbed`): while Docker or Caddy are down for ever, nothing is cleaned
  up, nor does a document say so. Deliveries may fail and be sent for ever all the same.
* `Registry`: a run that is not killed goes on, time passes, and processes of a backup end,
  which `docs/OPERATIONS.md:225` asks of backup commands; the scheduler may starve a waiter
  of the lock, never of its refusal.
* `OnboardingGuard`: both threads of a probe run and time passes; the service owes nothing.
  The timer starts runs, which load the policy of the moment; waits for the lock are
  bounded (`WaitEnds`), and a refresh by the current policy gets the lock again and again.
  `GuardOpens` is about a service that from some time on is set up and answers promptly with
  no operation cut, `GuardHolds` about a guard that stays in the policy. Both assume `Healed`:
  what Caddy runs has come to be what its file says after the last publish that was cut, by a
  restart or a load. Nothing in the code sees to that, and without it both are false
  (section 5). A refresh that is refused for ever is assumed away, as in `Maintenance`.

Nothing is assumed of requests, crashes, backups' outcomes or expiry.

## 4. Proofs

`ControllerProofs` proves `Spec => []TypeInv`: `TypeOK`, which alone is not inductive, and
`OpShape`, which ties each kind of operation to its steps and to instances of the right
environment. Over it, it proves the inductive invariant `Inv`: `TypeInv`, `RegistryInv` (the slot
limit; a record's tombstone never above its generation; deleting records are previews at
their tombstone; retiring and retired ones are stagings) and `OpInv`, what each operation
may rely on between two of its durable steps because it still holds the lock: what
admission found (`Admissible`) until the reservation, the record it reserved until the
commit, the closure it saved until the record is forgotten, every batch member still
reclaimable. `RegistryStep` says that a step changes one registry entry by one of five
moves; each theorem then needs the moves only:

* `SlotLimitHolds`, `BatchReclaimable`: invariants of the runs, for all constants;
* `FencesRise`, `DeliveriesOutrank`, `RetirementFinal`: the action properties (the first two
  are not run on their own, `ImplementsLifecycle` contains them);
* `Refinement`: `Spec => ImplementsLifecycle`, with `phase` read off the status and `fence`
  off generation and tombstone.

They use `InstancesAssumption` and `BoundsAssumption` only, and hold with
`ComposeOutlives` either way.

`ControllerServing` proves that what the registry says is true of the rest of the host. Each
of its invariants has two parts: what holds of every record, and what the operation
under the lock has achieved at the step it has come to, so that the record it commits is
true when it is written. A crash leaves the first part alone and makes the second one void.

* `DiskInv` (directories, Compose files, Caddy's file) holds in any environment.
* `StandInv` gives `FileStands`, in any environment: what Caddy's file routes to has a directory,
  a Compose file, containers and a volume. A delivery that is to publish has started its
  services (`StartedStands`), and nothing is removed before the file lacks the instance. It is
  said of the file because of what Caddy runs it would be false (section 5).
* `OrphansFenced` (`NothingOutranksFence`), in any environment: whatever a surviving
  `docker compose up` creates, even after its instance was destroyed and forgotten, is at or below
  the fence; an orphan has the generation of a reservation that was saved.
* `DockerInv` (containers and volumes, and `CopyKept`: what a delivery without a backup
  has found in Docker stays so until its reservation) gives `NothingUntracked`,
  `ReadyIsServed`, `RetiredIsInert` and `BackedUp`, under `ASSUME ComposeOutlives = FALSE`:
  a `docker compose up` that goes on without the lock may add a container to any of these
  states. `controller_lifecycle` checks the four under the same condition.

None of these assumes anything of publishes: they may be cut between the load and the write,
lose their answer or fail to roll back, and Caddy may restart at any step.

Its last part is about `Maintenance`: `MaintenanceIsController` says that a step of the unit is a
step of `Controller` or leaves its variables alone, so that all these theorems hold next to the
timer, and `UnitRefreshLives` that the unit never waits for a refresh that has ended.

`RoutesProofs` proves `TypeOK`, `LeasesDisjoint`, `ReadyRoutesWritten`, `PortsKept` and
`ReplayIsCurrent` for any number of instances, names, services and ports. The invariant adds to
them what a delivery may rely on while it holds the lock: from its publish on the ports of its
routes are bound, and when it commits they are in the file (`Progress`); and every ready record
is bound and in the file as recorded (`Served`). A publish that is cut after it has replaced the
file leaves the routes of a delivery that did not become ready, never less than those of the
ready ones. `AllocationApart` is the lemma on `allocate_routes` all rests on.

`RegistryProofs` has three parts. The first, of `HostLock`, proves `LockTypeOK` and
`OneRunWorks` for any number of runs. Exclusion is not inductive: the invariant says that
every run that works, inside the lock or through a backup that has inherited it, is its
holder (`WorkersHold`), and that a controller waiting for its backup has one (`BackupLives`).

The second, of `AtomicFile`, proves `NeverTorn` and `ImplementsStoredDocument` for any number of
writes and cuts: `Progress` says what the writer has synced before its next call, `Between`
that every document the disk may show is at least as new as the acknowledged one. And
`LeftoversFromCuts`, from `Renamed` (a document that was renamed has no temporary file any
more) and the fact that a failed write removes its own: a cut adds at most one to a finite set.

The third proves that every step of `Registry` is a step of `HostLock` or leaves its
variables alone, and the same of `AtomicFile` (`Composition`), so all of the above holds of
both together, and `NoLostUpdate` for any number of runs, saves and cuts. Its invariant
says that whatever document a run has in memory is the one at the path (`MemoryCurrent`)
and that a save in progress belongs to a run inside the lock (`WriterInside`). It rests on
both parts' invariants; its type invariant (`TypeCorrect`, not run on its own) and
`NoLostUpdate` (`NothingLost`) follow, the latter from `MemoryCurrent` at `Replace`.

`AdmissionProofs` proves the four properties of `admission_budgets` for any instances,
services, sizes and envelopes. `AdmissionInv` says what a delivery may still come to run, service
by service (`Ahead`: the larger of a container and its replacement, and the one-offs with
those to come), and that this is within what it reserved (`DeliveryInv`); that what a counted
instance runs is within its record (`BudgetsBound`); and that the records that count fit the
envelopes and the host (`BudgetsFit`). An update reserves the larger of what each service has
and is to have, whatever the order of the replacements and wherever it fails (`ReservedCovers`).
The sums of the model are folds, which the provers cannot unfold over an unknown set. `Sum` is
the number of its units, a set of pairs: monotonicity, additivity and
disjoint unions are facts about finite cardinalities, and that a fold equals it is proved by an
induction over subsets, in the form of well-foundedness of a set of sets, since no theorem
with an operator parameter can be used.

`StartOrderProofs` proves the three properties of `start_order` for any set of services.
`Walks` is the invariant of a depth-first walk, stated once on a stack, a loop and a set of
what is done, and used for both: what a call has come to is done or is the next call's,
each call was made for a dependency of the one below, no two are for the same service.
A call for a service on the stack closes a knot (`KnotOnPath`), which makes a refusal right;
what is finished contains no knot (`NoKnotTied`), which makes an acceptance right. `start_order`
has no check of its own: `KnotOnPath` with the acceptance says that it never needs one
(`VisitsApart`), and `Placed` that its list has every dependency first.

`GuardProofs` proves `CutNeverOpens`, `ProxiedOnlyClaimed` and `ReadyOnlyClaimed` for bodies
of any length. The race with the watchdog is in two facts: the event is set before the
socket is shut (`Cut`), so a body that passes `Check` was not cut by it, but is whole or was
ended by the service (`Whole`). That a proof is still true when it is used is in the lock: a
probe belongs to the operation in progress (`ProbeOwned`); what that one publishes or reports
was true since the data was last changed, a delivery that has come to its report has replaced
the file after its new data, and what removes data has withdrawn the name from the file first
(`OpInv`). None of it speaks of `live`, which a cut publish may leave at anything.

`RequestsProofs` proves all four properties of `requests` for any words, documents, runs
and generations. `NamesOwnedOnce` needs no invariant: it says that two instances of
applications that are accepted never have one name (`PrimaryInjective`), since an
application's name ends in neither of the ways in which names of instances do
(`DerivedNames`), and that an accepted alias is nobody else's name (`AliasApart`). The others
rest on one invariant: nothing was told or read of a generation that is still to come, where
the tombstone goes on for a record that is gone (`Past`), and a record of the generation that
was read is of the delivery that was read (`Still`), so that the number an operator's command
names is enough (`OperatorsReach`).

Model-checked only: liveness, whose fairness the prover does not handle (`WaitersAnswered`,
`UnfinishedResolved`, `DeletionCompletes`, `GuardOpens`, `GuardHolds`), and the three
disagreements of section 5, which are counterexamples.

## 5. Where the code and its documents disagree

Three runs show a disagreement:

* `controller_torn`: `_publish` skips its load when the file has the configuration
  (`vps_platform/runtime.py:723`) and takes the file for what Caddy runs. After a publish that
  was cut between the load and the write, or whose load took effect without an answer, Caddy
  has a route that the file lacks; the next destroy of that instance finds its configuration
  in the file, loads nothing and removes what Caddy still routes to, against "Withdraw routes
  before deleting any data." at `runtime.py:359`. (`FileRoutesStand` is what does hold.)
* `controller_stuck`: a crash or a failed save between `shutil.rmtree`
  (`vps_platform/controller.py:670`) and the save that forgets the record leaves a preview
  whose directory is gone; every later destroy raises at `rmtree`, so the cleanup that
  `docs/ARCHITECTURE.md:93` promises for previews stuck in `deleting` never succeeds.
  (`UnfinishedResolved` and `DeletionCompletes` are what does hold: they speak of
  previews whose directory is still there.)
* `routes_stale`: the ports in use are read from the records only
  (`vps_platform/compose.py:356`). The reservation of an update replaces the routes of a
  ready record at once; when it gives up a route and then fails, Caddy goes on serving the
  old name on the old port while another instance may already lease it, against
  "never shares it" of `docs/APP-CONTRACT.md:108`.

Others were seen while the models were written and have no run of their own:

* The same skip the other way round: after a destroy that was cut between load and write, a
  reopening whose configuration is what the file still has loads nothing and is recorded
  `ready` while the running Caddy does not route it, until Caddy restarts or a publish
  differs. `ReadyServed` and `ReadyRoutesWritten` therefore speak of the file.
* With a guard it leaves what Caddy does with a name at what the cut publish had loaded: open
  although the policy keeps a guard, closed although the service is set up, or proxied to data
  that was removed since (`GuardHolds` and `GuardOpens` without `Healed`, `ProxiedOnlyClaimed`
  of `live`).
* A delivery that comes up with other data and then fails leaves its name proxied as before
  until the next publish probes it; the record is not `ready` meanwhile.
* `docs/APP-CONTRACT.md:198` lets only a whole answer open a guard. A service that closes its
  connection inside a body of a stated length is taken to have ended it
  (`vps_platform/runtime.py:634`): a 404 whose beginning is the exact text opens the guard.
  (`CutNeverOpens` is what does hold, of the watchdog and the size limit.)
* `_publish` loads before it writes; `docs/OPERATIONS.md:176` describes the opposite order.
* A failed deletion keeps status `deleting`; `docs/ARCHITECTURE.md:88` files it under
  `failed`.
* A new endpoint listed before an existing one may be given the port that the existing one
  then keeps (`vps_platform/compose.py:372`): `occupied` does not have the ports of the
  record itself. `LeasesDisjoint` speaks of different records only.
* A `docker compose up` whose controller was killed does not hold the lock, so its
  container comes on top of the next delivery's reservation
  (`vps_platform/controller.py:113`).
* `docs/APP-CONTRACT.md:200` and `docs/OPERATIONS.md:223` equate `http_status: protected`
  with a closed guard; the guard is probed once for the configuration and again for the
  report, and the answers may differ.
* `vps_platform/cli.py:99` wants the tombstone of `vpsctl previews destroy` to outrank the
  current delivery; a delivery of the very next generation between its two holds of the
  lock is destroyed by a tombstone that only equals it. `OperatorsReachOneFurther` says that
  it goes no further.
* The maintenance unit refreshes the ingress first and stops at its first failing command, so
  cleanup waits for a refresh that succeeds; `docs/ARCHITECTURE.md:93` and
  `docs/OPERATIONS.md:134` have `status` then `cleanup` only.
* `docs/OPERATIONS.md:70` applies a changed policy with `vpsctl ingress refresh`; a run that
  had loaded the old one before and gets the lock after it publishes by the old one again,
  until the next refresh (`GuardHolds` says that it does not last).
* `docs/ARCHITECTURE.md:38` has one audit line per request; the line is written after the lock
  is free (`vps_platform/controller.py:205`), and a kill in between leaves none.
* Two routes to an endpoint that is new get two ports (`vps_platform/compose.py:372`), and a
  container is checked for having one (`LoopbackPortsMatch`), so that delivery fails; two
  routes to an endpoint that has a port share it.
* `docs/APP-CONTRACT.md:124` says of `refused` that nothing was changed: a `retire-staging` that
  finds a resource it does not own after its fence was saved is `refused` as well. A
  `failed` answer may also come before anything was reserved.
* Volume names join instance and volume with a hyphen (`vps_platform/compose.py:114`), and
  only application names are checked for what they end in (`vps_platform/policy.py:46`): the
  volumes `x-prod-data` of the production of `a` and `data` of that of `a-prod-x` are one. Names in
  `Names` are those of instances and hosts.

## 6. Plan

Done: the controller with its lifecycle, the registry's lock and file, routes, admission,
the guard under a changing policy, the start order, the maintenance unit, names and policy
documents, requests that act on what they read before the lock; the proofs of section 4.
Left, in order:

1. Proofs: what a crash leaves behind, from which `UnfinishedResolved` and
   `DeletionCompletes` start; what a waiting run of `OnboardingGuard` may still publish, from
   which `GuardHolds` starts.
2. The memory margin, the disk reserve and the budget of one preview in `Admission`, with
   the reservation a surviving `docker compose up` escapes.
3. The appended audit line in `Registry`, against the answer and against crashes.
4. `refresh_cpu_weights`, the administrator's command that updates running containers.

Not modelled, and not planned: the field-by-field validation of Compose, policy and backup
documents, argument parsing, the conversion of answers by `deploy_instance`, the text of the
metrics (rebuilt from one read of the registry, without state), logs, Ansible task lists,
dashboards and exporters' configuration: data checks, formats and declarations with no state
of their own.
