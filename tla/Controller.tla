----------------------------- MODULE Controller -----------------------------
(***************************************************************************)
(* The lifecycle of platform instances under the one host lock, as        *)
(* vps_platform/controller.py and vps_platform/runtime.py carry it out.   *)
(*                                                                         *)
(* Operations hold the lock from the load of the registry to their        *)
(* answer, so one record, op, is the operation in progress; everything    *)
(* else is durable state that survives a crash of the controller: the     *)
(* registry file, the private directories, Docker's objects and Caddy's   *)
(* configuration (the one it runs and the one on disk).  Each step of op  *)
(* is one durable effect, and a crash may come between any two of them.   *)
(*                                                                         *)
(* Time is abstracted to the two comparisons the code makes: whether      *)
(* lease_until and expires_at are already past.  A delivery is named by   *)
(* its generation; an answer that changes nothing (a refusal, a plan, a   *)
(* replay of the current delivery, status, logs) is a stuttering step.    *)
(***************************************************************************)
EXTENDS Integers, FiniteSets

CONSTANTS
    Previews,        \* instances of environment "preview"
    Stagings,        \* instances of environment "staging"
    Productions,     \* instances of environment "prod"
    BackupCommands,  \* instances with an entry in policy["backup_commands"]
    PreviewLimit,    \* policy["preview_limit"]
    MaxGeneration,   \* MAX_GENERATION: requests above it are refused
    MaxCrashes,      \* bound: how often the controller may be killed
    ComposeOutlives, \* whether `docker compose up` may outlive a killed controller
    NoInstance       \* op.instance while the lock is free

Instances == Previews \cup Stagings \cup Productions

ASSUME InstancesAssumption ==
    /\ Previews \cap (Stagings \cup Productions) = {}
    /\ Stagings \cap Productions = {}
    /\ BackupCommands \subseteq Instances
    /\ NoInstance \notin Instances
    /\ IsFiniteSet(Previews)

ASSUME BoundsAssumption ==
    /\ PreviewLimit \in Nat
    /\ MaxGeneration \in Nat
    /\ MaxCrashes \in Nat
    /\ ComposeOutlives \in BOOLEAN

VARIABLES
    record,      \* registry.json "instances": the record of each instance
    tombstone,   \* registry.json "tombstones": 0 where there is none
    directories, \* instances whose private directory exists
    compose,     \* the delivery written in an instance's compose.json, or 0
    containers,  \* deliveries that have containers or networks in Docker
    volume,      \* the delivery that created the named volumes, or 0
    live,        \* instances routed by the configuration Caddy runs
    file,        \* instances routed by /etc/caddy/vps-platform.json
    op,          \* the operation that holds controller.lock
    orphans,     \* `docker compose up` processes that outlived their controller
    crashes      \* how often the controller was killed so far

registryVars == <<record, tombstone>>
dockerVars   == <<containers, volume>>
caddyVars    == <<live, file>>
filesVars    == <<directories, compose>>
crashVars    == <<orphans, crashes>>
vars == <<registryVars, filesVars, dockerVars, caddyVars, op, crashVars>>

-----------------------------------------------------------------------------
(* The registry's records.                                                 *)

Generations == 1 .. MaxGeneration
Statuses == {"absent", "preparing", "ready", "failed", "deleting", "retiring", "retired"}

Record == [status: Statuses, generation: 0 .. MaxGeneration, everReady: BOOLEAN,
           leaseOver: BOOLEAN, expires: {"never", "future", "past"}]

\* What state["instances"].get(instance) finds where there is no record.
Absent == [status |-> "absent", generation |-> 0, everReady |-> FALSE,
           leaseOver |-> FALSE, expires |-> "never"]

Registered(i) == record[i].status # "absent"
Occupied == {i \in Previews : Registered(i)}

\* The highest generation the registry remembers of an instance.
Fence(i) == IF record[i].generation > tombstone[i] THEN record[i].generation ELSE tombstone[i]

-----------------------------------------------------------------------------
(* The operation under the lock.                                           *)

Kinds == {"none", "apply", "destroy", "retire", "refresh", "backup"}
Steps == {"idle", "backup", "detached", "prepare", "reserve", "write", "start",
          "started", "verify", "load", "persist", "commit", "fail",
          "close", "remove", "rmtree", "forget", "next", "fence", "strip", "retired"}

Operation == [kind: Kinds, step: Steps, instance: Instances \cup {NoInstance},
              generation: 0 .. MaxGeneration, batch: SUBSET Previews,
              found: SUBSET (0 .. MaxGeneration), savedCopy: BOOLEAN]

Idle == [kind |-> "none", step |-> "idle", instance |-> NoInstance, generation |-> 0,
         batch |-> {}, found |-> {}, savedCopy |-> FALSE]

Free == op.step = "idle"
At(kind, step) == op.kind = kind /\ op.step = step
Begin(kind, step, i, g) == op' = [Idle EXCEPT !.kind = kind, !.step = step,
                                              !.instance = i, !.generation = g]
Goto(step) == op' = [op EXCEPT !.step = step]
Release == op' = Idle

-----------------------------------------------------------------------------
(* Docker's inventory as the controller reads it.                          *)

Present(i) == containers[i] # {} \/ volume[i] # 0

\* The listing a removal works from: deliveries with containers, and Volume.
Volume == 0
Objects(i) == containers[i] \cup (IF volume[i] # 0 THEN {Volume} ELSE {})

\* _inventory(state, admission=True) returns instead of raising Refused.
Reconciled ==
    \A i \in Instances :
        /\ Present(i) => Registered(i)
        /\ record[i].status = "retired" => containers[i] = {}

\* _routes(state, omit): the instances whose routes a publish keeps.
ReadyRoutes(omit) == {i \in Instances \ {omit} : record[i].status = "ready"}

\* The routes the operation in progress publishes.
DesiredRoutes ==
    IF op.kind = "apply" THEN ReadyRoutes(op.instance) \cup {op.instance}
                         ELSE ReadyRoutes(op.instance)

Init ==
    /\ record = [i \in Instances |-> Absent]
    /\ tombstone = [i \in Instances |-> 0]
    /\ directories = {}
    /\ compose = [i \in Instances |-> 0]
    /\ containers = [i \in Instances |-> {}]
    /\ volume = [i \in Instances |-> 0]
    /\ live = {}
    /\ file = {}
    /\ op = Idle
    /\ orphans = {}
    /\ crashes = 0

-----------------------------------------------------------------------------
(* apply: admission (controller.py, _apply and _admit).  The budget,       *)
(* memory and disk conditions only refuse more, and live elsewhere.        *)

\* _require_newer_than_tombstone
NewerThanTombstone(i, g, reopen) == tombstone[i] # 0 => g > tombstone[i] /\ reopen

\* A slip: a preview being deleted no longer counts.
SlotAvailableUndeleted(i) ==
    i \in Previews /\ ~Registered(i)
      => Cardinality({j \in Occupied : record[j].status # "deleting"}) < PreviewLimit

\* _admit_preview: only an instance without a record needs a free slot.
SlotAvailable(i) ==
    i \in Previews /\ ~Registered(i) => Cardinality(Occupied \ {i}) < PreviewLimit

\* A slip: what the failed first delivery left in Docker is not looked at.
InitialFailure(i) ==
    /\ record[i].status \in {"failed", "preparing"}
    /\ ~record[i].everReady

\* A first delivery that never became ready and left nothing in Docker.
EmptyInitialFailure(i) ==
    /\ record[i].status \in {"failed", "preparing"}
    /\ ~record[i].everReady
    /\ ~Present(i)

BackupRequired(i) == Registered(i) /\ i \in BackupCommands /\ ~EmptyInitialFailure(i)

\* The conditions of _backup, which raise Refused when one fails.
BackupAllowed(i) ==
    /\ record[i].status \in {"ready", "failed", "preparing"}
    /\ i \in BackupCommands
    /\ Present(i)
    /\ Reconciled

\* "ever_ready" of the record that replaces record[i].
EverReady(i) == Registered(i) /\ (record[i].status = "ready" \/ record[i].everReady)

StartApply(i, g, reopen) ==
    /\ Free
    /\ Reconciled
    /\ record[i].status \notin {"retiring", "retired"}
    /\ NewerThanTombstone(i, g, reopen)
    /\ g > record[i].generation
    /\ SlotAvailable(i)
    /\ BackupRequired(i) => BackupAllowed(i)
    /\ Begin("apply", IF BackupRequired(i) THEN "backup" ELSE "prepare", i, g)
    /\ UNCHANGED <<registryVars, filesVars, dockerVars, caddyVars, crashVars>>

\* A `backup` request: the same _backup, and then the answer.
StartBackup(i) ==
    /\ Free
    /\ BackupAllowed(i)
    /\ Begin("backup", "backup", i, 0)
    /\ UNCHANGED <<registryVars, filesVars, dockerVars, caddyVars, crashVars>>

BackupSucceeds ==
    /\ op.step = "backup"
    /\ op' = IF op.kind = "apply"
               THEN [op EXCEPT !.step = "prepare", !.savedCopy = TRUE]
               ELSE Idle
    /\ UNCHANGED <<registryVars, filesVars, dockerVars, caddyVars, crashVars>>

\* The existing delivery is preserved: nothing was written yet.
BackupFails ==
    /\ op.step = "backup"
    /\ Release
    /\ UNCHANGED <<registryVars, filesVars, dockerVars, caddyVars, crashVars>>

\* The backup command inherited the lock's descriptor: it outlives a killed controller.
DetachedBackupEnds ==
    /\ op.step = "detached"
    /\ Release
    /\ UNCHANGED <<registryVars, filesVars, dockerVars, caddyVars, crashVars>>

-----------------------------------------------------------------------------
(* apply: _deliver and Runtime.apply.                                      *)

PrepareDirectory ==
    /\ At("apply", "prepare")
    /\ directories' = directories \cup {op.instance}
    /\ Goto("reserve")
    /\ UNCHANGED <<registryVars, compose, dockerVars, caddyVars, crashVars>>

\* The reservation: the record becomes "preparing" and its tombstone goes.
Reserve ==
    /\ At("apply", "reserve")
    /\ record' = [record EXCEPT ![op.instance] =
                    [status |-> "preparing", generation |-> op.generation,
                     everReady |-> EverReady(op.instance), leaseOver |-> FALSE,
                     expires |-> record[op.instance].expires]]
    /\ tombstone' = [tombstone EXCEPT ![op.instance] = 0]
    /\ Goto("write")
    /\ UNCHANGED <<filesVars, dockerVars, caddyVars, crashVars>>

WriteCompose ==
    /\ At("apply", "write")
    /\ compose' = [compose EXCEPT ![op.instance] = op.generation]
    /\ Goto("start")
    /\ UNCHANGED <<registryVars, directories, dockerVars, caddyVars, crashVars>>

\* What `docker compose up` of delivery g does first: its volumes and first containers.
ComposeUp(i, g) ==
    /\ containers' = [containers EXCEPT ![i] = @ \cup {g}]
    /\ volume' = [volume EXCEPT ![i] = IF @ = 0 THEN g ELSE @]

\* The first service is up; those of earlier deliveries still run.
StartFirstService ==
    /\ At("apply", "start")
    /\ ComposeUp(op.instance, op.generation)
    /\ Goto("started")
    /\ UNCHANGED <<registryVars, filesVars, caddyVars, crashVars>>

\* Every service is up: containers of renamed or removed services remain.
StartOtherServices ==
    /\ At("apply", "started")
    /\ \E kept \in SUBSET containers[op.instance] :
         containers' = [containers EXCEPT ![op.instance] = kept \cup {op.generation}]
    /\ Goto("verify")
    /\ UNCHANGED <<registryVars, filesVars, volume, caddyVars, crashVars>>

\* _verify_effective passed, _remove_retired_containers, and the probes answered.
VerifyDelivery ==
    /\ At("apply", "verify")
    /\ containers' = [containers EXCEPT ![op.instance] = {op.generation}]
    /\ Goto("load")
    /\ UNCHANGED <<registryVars, filesVars, volume, caddyVars, crashVars>>

\* The delivery is healthy: its record is "ready" and a preview gets its full TTL.
CommitReady ==
    /\ At("apply", "commit")
    /\ record' = [record EXCEPT ![op.instance] =
                    [@ EXCEPT !.status = "ready", !.everReady = TRUE,
                              !.expires = IF op.instance \in Previews
                                            THEN "future" ELSE record[op.instance].expires]]
    /\ Release
    /\ UNCHANGED <<tombstone, filesVars, dockerVars, caddyVars, crashVars>>

\* Runtime.apply or the write before it raised, at any of its steps: the public
\* probes, after the publish, may raise too.
DeliveryFails ==
    /\ op.kind = "apply"
    /\ op.step \in {"write", "start", "started", "verify", "load", "commit"}
    /\ Goto("fail")
    /\ UNCHANGED <<registryVars, filesVars, dockerVars, caddyVars, crashVars>>

CommitFailed ==
    /\ At("apply", "fail")
    /\ record' = [record EXCEPT ![op.instance].status = "failed"]
    /\ Release
    /\ UNCHANGED <<tombstone, filesVars, dockerVars, caddyVars, crashVars>>

-----------------------------------------------------------------------------
(* Runtime._publish, shared by apply, destroy, retire-staging and the      *)
(* ingress refresh: Caddy switches first, then the file is replaced.       *)

\* A slip: a retirement is recorded once the routes are withdrawn.
AfterPublishKeepingCompute ==
    CASE op.kind = "apply"   -> "commit"
      [] op.kind = "destroy" -> "remove"
      [] op.kind = "retire"  -> "retired"
      [] OTHER               -> "next"

\* The step that follows a publish in each kind of operation.
AfterPublish ==
    CASE op.kind = "apply"   -> "commit"
      [] op.kind = "destroy" -> "remove"
      [] op.kind = "retire"  -> "strip"
      [] OTHER               -> "next"

\* A slip: a publish that could not be persisted counts as done.
AfterFailureIgnored == AfterPublish

\* Where an exception in the runtime call takes each kind of operation.
AfterFailure == IF op.kind = "apply" THEN "fail" ELSE "next"

\* read_previous_configuration(path) == config: nothing to load.
PublishUnchanged ==
    /\ op.step = "load"
    /\ file = DesiredRoutes
    /\ Goto(AfterPublish)
    /\ UNCHANGED <<registryVars, filesVars, dockerVars, caddyVars, crashVars>>

LoadRoutes ==
    /\ op.step = "load"
    /\ file # DesiredRoutes
    /\ live' = DesiredRoutes
    /\ Goto("persist")
    /\ UNCHANGED <<registryVars, filesVars, dockerVars, file, crashVars>>

\* Caddy has switched, but its answer is lost: the load raises and nothing is written.
LoadUnanswered ==
    /\ op.step = "load"
    /\ file # DesiredRoutes
    /\ live' = DesiredRoutes
    /\ Goto(AfterFailure)
    /\ UNCHANGED <<registryVars, filesVars, dockerVars, file, crashVars>>

PersistRoutes ==
    /\ op.step = "persist"
    /\ file' = DesiredRoutes
    /\ Goto(AfterPublish)
    /\ UNCHANGED <<registryVars, filesVars, dockerVars, live, crashVars>>

\* _persist_configuration: the write raised, before or after it had replaced the file, and
\* Caddy gets the previous routes back, unless that load fails too.
PersistFails ==
    /\ op.step = "persist"
    /\ live' \in {live, file}
    /\ file' \in {file, DesiredRoutes}
    /\ Goto(AfterFailure)
    /\ UNCHANGED <<registryVars, filesVars, dockerVars, crashVars>>

\* A Caddy restart reads the file again.
CaddyRestarts ==
    /\ live # file
    /\ live' = file
    /\ UNCHANGED <<registryVars, filesVars, dockerVars, file, op, crashVars>>

\* refresh_ingress: republish the ready routes; no record changes its lifecycle.
StartRefresh ==
    /\ Free
    /\ Reconciled
    /\ Begin("refresh", "load", NoInstance, 0)
    /\ UNCHANGED <<registryVars, filesVars, dockerVars, caddyVars, crashVars>>

-----------------------------------------------------------------------------
(* destroy and cleanup.                                                    *)

\* Slips: an interrupted delivery, or an interrupted destruction, is nobody's to take.
ReclaimableIfFailed(i) ==
    /\ i \in Previews
    /\ Registered(i)
    /\ \/ record[i].expires = "past"
       \/ record[i].status = "failed" /\ record[i].leaseOver
       \/ record[i].status = "deleting"
ReclaimableUnlessDeleting(i) ==
    /\ i \in Previews
    /\ Registered(i)
    /\ \/ record[i].expires = "past"
       \/ record[i].status \in {"preparing", "failed"} /\ record[i].leaseOver

\* is_reclaimable
Reclaimable(i) ==
    /\ i \in Previews
    /\ Registered(i)
    /\ \/ record[i].expires = "past"
       \/ record[i].status \in {"preparing", "failed"} /\ record[i].leaseOver
       \/ record[i].status = "deleting"

\* A slip: a late closure replaces the tombstone of a later one.
CloseAbsentLate(i, g) ==
    /\ Free
    /\ ~Registered(i)
    /\ ~Present(i)
    /\ tombstone' = [tombstone EXCEPT ![i] = g]
    /\ UNCHANGED <<record, filesVars, dockerVars, caddyVars, op, crashVars>>

\* _close_absent, reached by a destroy of an instance that has no record.
CloseAbsent(i, g) ==
    /\ Free
    /\ ~Registered(i)
    /\ ~Present(i)
    /\ g > tombstone[i]
    /\ tombstone' = [tombstone EXCEPT ![i] = g]
    /\ UNCHANGED <<record, filesVars, dockerVars, caddyVars, op, crashVars>>

StartDestroy(i, g) ==
    /\ Free
    /\ i \in Previews
    /\ Registered(i)
    /\ g >= Fence(i)
    /\ Begin("destroy", "close", i, g)
    /\ UNCHANGED <<registryVars, filesVars, dockerVars, caddyVars, crashVars>>

\* cleanup: the reclaimable previews are listed once, then destroyed one by one.
StartCleanup ==
    /\ Free
    /\ Reconciled
    /\ \E i \in Previews : Reclaimable(i)
    /\ op' = [Idle EXCEPT !.kind = "destroy", !.step = "next",
                          !.batch = {i \in Previews : Reclaimable(i)}]
    /\ UNCHANGED <<registryVars, filesVars, dockerVars, caddyVars, crashVars>>

\* The tombstone and "deleting" are saved before anything is removed; the
\* removal then works from the listing Runtime.destroy takes.
CloseInstance ==
    /\ At("destroy", "close")
    /\ record' = [record EXCEPT ![op.instance] =
                    [@ EXCEPT !.status = "deleting", !.generation = op.generation]]
    /\ tombstone' = [tombstone EXCEPT ![op.instance] = op.generation]
    /\ op' = [op EXCEPT !.step = "load", !.found = Objects(op.instance)]
    /\ UNCHANGED <<filesVars, dockerVars, caddyVars, crashVars>>

\* _remove_if_still_owned of a container or network.
RemoveContainer ==
    /\ op.step \in {"remove", "strip"}
    /\ \E g \in op.found \ {Volume} :
         /\ containers' = [containers EXCEPT ![op.instance] = @ \ {g}]
         /\ op' = [op EXCEPT !.found = @ \ {g}]
    /\ UNCHANGED <<registryVars, filesVars, volume, caddyVars, crashVars>>

\* Volumes come last in RESOURCE_KINDS; Docker keeps one that a container uses.
RemoveVolume ==
    /\ At("destroy", "remove")
    /\ op.found = {Volume}
    /\ containers[op.instance] = {}
    /\ volume' = [volume EXCEPT ![op.instance] = 0]
    /\ op' = [op EXCEPT !.found = {}]
    /\ UNCHANGED <<registryVars, filesVars, containers, caddyVars, crashVars>>

\* Both listings after the removal find nothing of the instance.
RemovalVerified ==
    /\ At("destroy", "remove")
    /\ op.found = {}
    /\ ~Present(op.instance)
    /\ Goto("rmtree")
    /\ UNCHANGED <<registryVars, filesVars, dockerVars, caddyVars, crashVars>>

\* What the listing did not have is still there: Docker refuses a volume in use,
\* or the second listing is not empty, and the operation ends as failed.
RemovalIncomplete ==
    /\ op.step \in {"remove", "strip"}
    /\ op.found \subseteq {Volume}
    /\ \/ containers[op.instance] # {}
       \/ op.kind = "destroy" /\ op.found = {} /\ volume[op.instance] # 0
    /\ Goto("next")
    /\ UNCHANGED <<registryVars, filesVars, dockerVars, caddyVars, crashVars>>

\* shutil.rmtree, which raises when the directory is already gone.
RemoveDirectory ==
    /\ At("destroy", "rmtree")
    /\ op.instance \in directories
    /\ directories' = directories \ {op.instance}
    /\ compose' = [compose EXCEPT ![op.instance] = 0]
    /\ Goto("forget")
    /\ UNCHANGED <<registryVars, dockerVars, caddyVars, crashVars>>

DirectoryMissing ==
    /\ At("destroy", "rmtree")
    /\ op.instance \notin directories
    /\ Goto("next")
    /\ UNCHANGED <<registryVars, filesVars, dockerVars, caddyVars, crashVars>>

\* A slip: the tombstone goes with the record.
ForgetWithTombstone ==
    /\ At("destroy", "forget")
    /\ record' = [record EXCEPT ![op.instance] = Absent]
    /\ tombstone' = [tombstone EXCEPT ![op.instance] = 0]
    /\ Goto("next")
    /\ UNCHANGED <<filesVars, dockerVars, caddyVars, crashVars>>

ForgetRecord ==
    /\ At("destroy", "forget")
    /\ record' = [record EXCEPT ![op.instance] = Absent]
    /\ Goto("next")
    /\ UNCHANGED <<tombstone, filesVars, dockerVars, caddyVars, crashVars>>

\* A slip: cleanup closes at a generation of its own, above the delivered one.
NextInBatchOutranks ==
    /\ op.step = "next"
    /\ IF op.batch = {}
         THEN Release
         ELSE \E i \in op.batch :
                op' = [Idle EXCEPT !.kind = "destroy", !.step = "close", !.instance = i,
                                   !.generation = record[i].generation + 1,
                                   !.batch = op.batch \ {i}]
    /\ UNCHANGED <<registryVars, filesVars, dockerVars, caddyVars, crashVars>>

\* The loop of _reclaim_previews; every other operation ends here at once.
NextInBatch ==
    /\ op.step = "next"
    /\ IF op.batch = {}
         THEN Release
         ELSE \E i \in op.batch :
                op' = [Idle EXCEPT !.kind = "destroy", !.step = "close", !.instance = i,
                                   !.generation = record[i].generation,
                                   !.batch = op.batch \ {i}]
    /\ UNCHANGED <<registryVars, filesVars, dockerVars, caddyVars, crashVars>>

-----------------------------------------------------------------------------
(* renew and retire-staging.                                               *)

\* A slip: a renewal that does not wait for the lock.
RenewUnlocked(i, g) ==
    /\ i \in Previews
    /\ record[i].status = "ready"
    /\ g >= record[i].generation
    /\ record' = [record EXCEPT ![i].expires = "future"]
    /\ UNCHANGED <<tombstone, filesVars, dockerVars, caddyVars, op, crashVars>>

Renew(i, g) ==
    /\ Free
    /\ i \in Previews
    /\ record[i].status = "ready"
    /\ g >= record[i].generation
    /\ record' = [record EXCEPT ![i].expires = "future"]
    /\ UNCHANGED <<tombstone, filesVars, dockerVars, caddyVars, op, crashVars>>

\* A slip: a retired instance is retired once more.
StartRetireAgain(i) ==
    /\ Free
    /\ i \in Stagings
    /\ Registered(i)
    /\ Reconciled
    /\ Begin("retire", "fence", i, 0)
    /\ UNCHANGED <<registryVars, filesVars, dockerVars, caddyVars, crashVars>>

StartRetire(i) ==
    /\ Free
    /\ i \in Stagings
    /\ Registered(i)
    /\ Reconciled
    /\ record[i].status # "retired"
    /\ Begin("retire", "fence", i, 0)
    /\ UNCHANGED <<registryVars, filesVars, dockerVars, caddyVars, crashVars>>

\* "retiring" fences deliveries and drops the routes before Docker changes.
FenceRetirement ==
    /\ At("retire", "fence")
    /\ record' = [record EXCEPT ![op.instance].status = "retiring"]
    /\ op' = [op EXCEPT !.step = "load", !.found = containers[op.instance]]
    /\ UNCHANGED <<tombstone, filesVars, dockerVars, caddyVars, crashVars>>

\* Runtime.retire_staging and the controller's own listing find no compute.
RetirementVerified ==
    /\ At("retire", "strip")
    /\ op.found = {}
    /\ containers[op.instance] = {}
    /\ Goto("retired")
    /\ UNCHANGED <<registryVars, filesVars, dockerVars, caddyVars, crashVars>>

CommitRetired ==
    /\ At("retire", "retired")
    /\ record' = [record EXCEPT ![op.instance].status = "retired"]
    /\ Release
    /\ UNCHANGED <<tombstone, filesVars, dockerVars, caddyVars, crashVars>>

-----------------------------------------------------------------------------
(* Failures, crashes and time.                                             *)

\* A slip: a removal that failed is only logged.
OperationFailsUnnoticed ==
    /\ op.kind \in {"destroy", "retire", "refresh"}
    /\ op.step \in {"load", "remove", "rmtree", "strip"}
    /\ Goto(IF op.kind = "destroy" /\ op.step = "remove" THEN "rmtree" ELSE "next")
    /\ UNCHANGED <<registryVars, filesVars, dockerVars, caddyVars, crashVars>>

\* A runtime call of destroy, retire-staging or refresh raised.
OperationFails ==
    /\ op.kind \in {"destroy", "retire", "refresh"}
    /\ op.step \in {"load", "remove", "rmtree", "strip"}
    /\ Goto("next")
    /\ UNCHANGED <<registryVars, filesVars, dockerVars, caddyVars, crashVars>>

\* A write of the registry or of a private file raised: the answer is "failed"
\* and the lock is released with the registry as it was.  (A write that raises
\* after os.replace leaves what a crash right after the write leaves.)
SaveFails ==
    /\ op.step \in {"prepare", "reserve", "commit", "fail",
                    "close", "forget", "fence", "retired"}
    /\ Release
    /\ UNCHANGED <<registryVars, filesVars, dockerVars, caddyVars, crashVars>>

\* The controller is killed; the kernel drops its lock unless a backup holds it.
Crash ==
    /\ op.step \notin {"idle", "detached"}
    /\ crashes < MaxCrashes
    /\ crashes' = crashes + 1
    /\ IF op.step = "backup" THEN Goto("detached") ELSE Release
    /\ \/ UNCHANGED orphans
       \/ /\ ComposeOutlives
          /\ op.step \in {"start", "started"}
          /\ orphans' = orphans \cup {<<op.instance, op.generation>>}
    /\ UNCHANGED <<registryVars, filesVars, dockerVars, caddyVars>>

OrphanRuns(i, g) ==
    /\ <<i, g>> \in orphans
    /\ ComposeUp(i, g)
    /\ orphans' = orphans \ {<<i, g>>}
    /\ UNCHANGED <<registryVars, filesVars, caddyVars, op, crashes>>

LeaseEnds(i) ==
    /\ i \in Previews
    /\ record[i].status \in {"preparing", "failed"}
    /\ ~record[i].leaseOver
    /\ record' = [record EXCEPT ![i].leaseOver = TRUE]
    /\ UNCHANGED <<tombstone, filesVars, dockerVars, caddyVars, op, crashVars>>

Expires(i) ==
    /\ record[i].expires = "future"
    /\ record' = [record EXCEPT ![i].expires = "past"]
    /\ UNCHANGED <<tombstone, filesVars, dockerVars, caddyVars, op, crashVars>>

-----------------------------------------------------------------------------
Deliver ==
    \/ PrepareDirectory \/ Reserve \/ WriteCompose \/ StartFirstService
    \/ StartOtherServices \/ VerifyDelivery \/ CommitReady
    \/ DeliveryFails \/ CommitFailed

Publish ==
    PublishUnchanged \/ LoadRoutes \/ LoadUnanswered \/ PersistRoutes \/ PersistFails

Destroy ==
    \/ CloseInstance \/ RemoveContainer \/ RemoveVolume \/ RemovalVerified
    \/ RemovalIncomplete \/ RemoveDirectory \/ DirectoryMissing
    \/ ForgetRecord \/ NextInBatch

Retire == FenceRetirement \/ RetirementVerified \/ CommitRetired

Backup == BackupSucceeds \/ BackupFails \/ DetachedBackupEnds

Requests ==
    \/ \E i \in Instances :
         \/ \E g \in Generations :
              \/ \E reopen \in BOOLEAN : StartApply(i, g, reopen)
              \/ StartDestroy(i, g)
              \/ CloseAbsent(i, g)
              \/ Renew(i, g)
         \/ StartBackup(i)
         \/ StartRetire(i)
    \/ StartCleanup
    \/ StartRefresh

Environment ==
    \/ Crash \/ CaddyRestarts \/ OperationFails \/ SaveFails
    \/ \E i \in Instances : LeaseEnds(i) \/ Expires(i)
    \/ \E i \in Instances, g \in Generations : OrphanRuns(i, g)

Next == Requests \/ Deliver \/ Publish \/ Destroy \/ Retire \/ Backup \/ Environment

Spec == Init /\ [][Next]_vars

-----------------------------------------------------------------------------
(* What the runs check.                                                    *)

\* Every variable keeps its shape: the registry file, what Docker and Caddy
\* hold, and the operation under the lock.
TypeOK ==
    /\ record \in [Instances -> Record]
    /\ tombstone \in [Instances -> 0 .. MaxGeneration]
    /\ directories \subseteq Instances
    /\ compose \in [Instances -> 0 .. MaxGeneration]
    /\ containers \in [Instances -> SUBSET Generations]
    /\ volume \in [Instances -> 0 .. MaxGeneration]
    /\ live \subseteq Instances
    /\ file \subseteq Instances
    /\ op \in Operation
    /\ orphans \subseteq Instances \X Generations
    /\ crashes \in 0 .. MaxCrashes

\* No interleaving of deliveries, updates, destructions, cleanups and crashes
\* registers more previews than policy["preview_limit"] (_admit_preview counts
\* them once, several durable steps before the record is written).
SlotLimit == Cardinality(Occupied) <= PreviewLimit

\* What the registry remembers of an instance's generations never goes back,
\* whatever is destroyed, forgotten, reopened or interrupted.
FencesOnlyRise == [][\A i \in Instances : Fence(i)' >= Fence(i)]_vars

\* A record is only ever replaced by a delivery above every generation the
\* registry knows of: a late or repeated delivery revives nothing.
DeliveriesOutrankFence ==
    [][\A i \in Instances :
         /\ record'[i].status = "preparing"
         /\ \/ record[i].status # "preparing"
            \/ record'[i].generation # record[i].generation
         => record'[i].generation > Fence(i)]_vars

\* Docker holds nothing of an instance the registry does not list: _deliver
\* reserves before it creates and _destroy forgets after it removed.
ResourcesTracked == \A i \in Instances : Present(i) => Registered(i)

\* A ready record tells the truth after any crash: exactly its delivery runs,
\* from the Compose file on disk, and the file Caddy restarts from routes it.
ReadyServed ==
    \A i \in Instances : record[i].status = "ready" =>
        /\ containers[i] = {record[i].generation}
        /\ compose[i] = record[i].generation
        /\ i \in directories
        /\ i \in file

\* What Caddy's file routes to is there: a Caddy that restarts from it finds the
\* directory, the Compose file, containers and volumes of every instance it routes,
\* whatever was destroyed, retired, cut or left to an orphaned compose in between.
FileRoutesStand ==
    \A i \in file :
        /\ i \in directories
        /\ compose[i] # 0
        /\ containers[i] # {}
        /\ volume[i] # 0

\* A `docker compose up` that outlives its controller creates nothing that outranks what
\* the registry remembers of the instance, even after it was destroyed and closed: the
\* next delivery, or the operator's destruction, is above all that Docker holds.
NothingOutranksFence ==
    \A i \in Instances : \A g \in containers[i] : g <= Fence(i)

\* The comment in Runtime.destroy, "Withdraw routes before deleting any data.": Caddy no
\* longer routes an instance whose containers and volumes are being removed.
WithdrawnBeforeRemoval ==
    op.step \in {"remove", "rmtree", "forget", "strip", "retired"} => op.instance \notin live

\* With a backup command, a delivery replaces a record that has, or ever had,
\* something to lose only in an operation whose backup succeeded.
BackupBeforeUpdate ==
    [][\A i \in BackupCommands :
         /\ record'[i].generation # record[i].generation
         /\ record'[i].status = "preparing"
         /\ Registered(i)
         /\ Present(i) \/ EverReady(i)
         => op.savedCopy]_vars

\* Retirement is final, keeps no compute and no route.
RetiredInert ==
    \A i \in Instances : record[i].status = "retired" => containers[i] = {} /\ i \notin file
RetirementIsFinal ==
    [][\A i \in Instances :
         /\ record[i].status = "retired" => record'[i] = record[i]
         /\ record[i].status = "retiring" => record'[i].status \in {"retiring", "retired"}]_vars

\* A preview still waiting in a cleanup's list is one cleanup may take: nobody
\* renews or redelivers it between the listing and its turn.
BatchStillReclaimable == \A i \in op.batch : Reclaimable(i)

-----------------------------------------------------------------------------
(* The controller implements Lifecycle.                                    *)

PhaseOf(status) ==
    CASE status = "absent" -> "closed"
      [] status \in {"preparing", "failed"} -> "pending"
      [] status = "ready" -> "serving"
      [] status = "deleting" -> "closing"
      [] OTHER -> status

Promise == INSTANCE Lifecycle WITH
    phase <- [i \in Instances |-> PhaseOf(record[i].status)],
    fence <- [i \in Instances |-> Fence(i)]

\* Through every lock hand-over, failure and crash, what the registry file says
\* moves only as the abstract lifecycle allows.
ImplementsLifecycle == Promise!Spec
=============================================================================
