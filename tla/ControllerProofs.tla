--------------------------- MODULE ControllerProofs ---------------------------
(***************************************************************************)
(* The types and the safety of the registry, for every set of instances,   *)
(* every limit and every number of crashes: the slots, the fences and the  *)
(* refinement of Lifecycle.  The inductive invariant says what an          *)
(* operation may rely on between two of its durable steps, because the     *)
(* lock is still held: what admission found is still so when the record is *)
(* written, and the record it wrote is still there when it commits.        *)
(***************************************************************************)
EXTENDS Controller, FiniteSetTheorems, TLAPS

USE InstancesAssumption, BoundsAssumption

-----------------------------------------------------------------------------
(* The shape of an operation: the steps of its kind, and an instance of    *)
(* the environment its kind is for.  TypeOK is not inductive without it:   *)
(* PrepareDirectory must not create a directory for NoInstance.            *)

ApplySteps == {"prepare", "reserve", "write", "start", "started", "verify", "load",
               "persist", "commit", "fail"}
DestroySteps == {"next", "close", "load", "persist", "remove", "rmtree", "forget"}
RetireSteps == {"fence", "load", "persist", "strip", "retired", "next"}

OpShape ==
    \/ op = Idle
    \/ /\ op.kind = "apply"
       /\ op.step \in ApplySteps \cup {"backup", "detached"}
       /\ op.instance \in Instances
       /\ op.generation \in Generations
    \/ /\ op.kind = "backup"
       /\ op.step \in {"backup", "detached"}
       /\ op.instance \in Instances
    \/ /\ op.kind = "destroy"
       /\ op.step \in DestroySteps
       /\ op.step # "next" => op.instance \in Previews
    \/ /\ op.kind = "retire"
       /\ op.step \in RetireSteps
       /\ op.instance \in Stagings
    \/ /\ op.kind = "refresh"
       /\ op.step \in {"load", "persist", "next"}
       /\ op.instance = NoInstance

TypeInv == TypeOK /\ OpShape

LEMMA Names ==
    /\ "none" \in Kinds /\ "apply" \in Kinds /\ "destroy" \in Kinds
    /\ "retire" \in Kinds /\ "refresh" \in Kinds /\ "backup" \in Kinds
    /\ "idle" \in Steps /\ "backup" \in Steps /\ "detached" \in Steps /\ "prepare" \in Steps
    /\ "reserve" \in Steps /\ "write" \in Steps /\ "start" \in Steps /\ "started" \in Steps
    /\ "verify" \in Steps /\ "load" \in Steps /\ "persist" \in Steps /\ "commit" \in Steps
    /\ "fail" \in Steps /\ "close" \in Steps /\ "remove" \in Steps /\ "rmtree" \in Steps
    /\ "forget" \in Steps /\ "next" \in Steps /\ "fence" \in Steps /\ "strip" \in Steps
    /\ "retired" \in Steps
BY DEF Kinds, Steps

LEMMA GenerationBounds ==
    /\ Generations \subseteq 0 .. MaxGeneration
    /\ 0 \in 0 .. MaxGeneration
    /\ 0 \notin Generations
BY DEF Generations

LEMMA IdleType ==
    /\ Idle \in Operation
    /\ Idle.kind = "none"
    /\ Idle.step = "idle"
    /\ Idle.batch = {}
BY DEF Idle, Operation, Kinds, Steps

LEMMA OpOnly ==
    ASSUME TypeOK, op' \in Operation,
           UNCHANGED <<registryVars, filesVars, dockerVars, caddyVars, crashVars>>
    PROVE  TypeOK'
BY DEF TypeOK, registryVars, filesVars, dockerVars, caddyVars, crashVars

\* A step that only moves the operation on leaves its other fields alone.
LEMMA GotoFields ==
    ASSUME op \in Operation, NEW s \in Steps, Goto(s)
    PROVE  /\ op' \in Operation
           /\ op'.step = s
           /\ op'.kind = op.kind
           /\ op'.instance = op.instance
           /\ op'.generation = op.generation
           /\ op'.batch = op.batch
           /\ op'.found = op.found
           /\ op'.savedCopy = op.savedCopy
BY DEF Operation, Goto

LEMMA BeginFields ==
    ASSUME NEW k \in Kinds, NEW s \in Steps, NEW i \in Instances \cup {NoInstance},
           NEW g \in 0 .. MaxGeneration, Begin(k, s, i, g)
    PROVE  /\ op' \in Operation
           /\ op'.step = s
           /\ op'.kind = k
           /\ op'.instance = i
           /\ op'.generation = g
           /\ op'.batch = {}
           /\ op'.savedCopy = FALSE
BY DEF Begin, Idle, Operation

LEMMA BatchFields ==
    ASSUME NEW k \in Kinds, NEW s \in Steps, NEW B \in SUBSET Previews,
           op' = [Idle EXCEPT !.kind = k, !.step = s, !.batch = B]
    PROVE  op' \in Operation /\ op'.kind = k /\ op'.step = s /\ op'.batch = B
BY IdleType DEF Operation

LEMMA StatusNames ==
    /\ "absent" \in Statuses /\ "preparing" \in Statuses /\ "ready" \in Statuses
    /\ "failed" \in Statuses /\ "deleting" \in Statuses /\ "retiring" \in Statuses
    /\ "retired" \in Statuses
BY DEF Statuses

\* The ways a record is updated in place keep the registry's type.
LEMMA RecordUpdates ==
    ASSUME record \in [Instances -> Record], NEW i, NEW s \in Statuses,
           NEW g \in 0 .. MaxGeneration, NEW x \in {"never", "future", "past"}
    PROVE  /\ [record EXCEPT ![i].status = s] \in [Instances -> Record]
           /\ [record EXCEPT ![i] = [@ EXCEPT !.status = s, !.generation = g]]
                \in [Instances -> Record]
           /\ [record EXCEPT ![i] = [@ EXCEPT !.status = s, !.everReady = TRUE,
                                              !.expires = x]] \in [Instances -> Record]
<1>1. ASSUME NEW r \in Record
      PROVE  /\ [r EXCEPT !.status = s] \in Record
             /\ [r EXCEPT !.status = s, !.generation = g] \in Record
             /\ [r EXCEPT !.status = s, !.everReady = TRUE, !.expires = x] \in Record
  BY DEF Record
<1>2. CASE i \in Instances
  <2>1. record[i] \in Record
    BY <1>2
  <2>2. [record EXCEPT ![i].status = s] \in [Instances -> Record]
    BY <1>1, <2>1
  <2>3. [record EXCEPT ![i] = [@ EXCEPT !.status = s, !.generation = g]]
          \in [Instances -> Record]
    BY <1>1, <2>1
  <2>4. [record EXCEPT ![i] = [@ EXCEPT !.status = s, !.everReady = TRUE, !.expires = x]]
          \in [Instances -> Record]
    BY <1>1, <2>1
  <2> QED
    BY <2>2, <2>3, <2>4
<1>3. CASE i \notin Instances
  BY <1>3
<1> QED
  BY <1>2, <1>3

LEMMA TypeOfObjects ==
    ASSUME TypeOK, NEW i \in Instances
    PROVE  Objects(i) \subseteq 0 .. MaxGeneration
BY DEF TypeOK, Objects, Volume, Generations

LEMMA IdleShape ==
    ASSUME op' = Idle
    PROVE  OpShape' /\ op' \in Operation
BY IdleType DEF OpShape

\* A step within an operation keeps its shape.
LEMMA GotoShape ==
    ASSUME TypeInv, NEW s \in Steps, Goto(s),
           \/ op.kind = "apply"   /\ s \in ApplySteps \cup {"backup", "detached"}
           \/ op.kind = "backup"  /\ s \in {"backup", "detached"}
           \/ op.kind = "destroy" /\ s \in DestroySteps /\ (s # "next" => op.step # "next")
           \/ op.kind = "retire"  /\ s \in RetireSteps
           \/ op.kind = "refresh" /\ s \in {"load", "persist", "next"}
    PROVE  OpShape' /\ op' \in Operation
<1>1. op \in Operation
  BY DEF TypeInv, TypeOK
<1> QED
  BY <1>1, GotoFields, IdleType DEF OpShape, TypeInv

\* The initial state has its type.
LEMMA InitType == Init => TypeInv
BY IdleType DEF Init, TypeInv, OpShape, TypeOK, Record, Absent, Statuses

\* Requests only start an operation, except for the two that are one write.
LEMMA RequestsType == TypeInv /\ Requests => TypeInv'
<1> SUFFICES ASSUME TypeInv, Requests
             PROVE  TypeInv'
  OBVIOUS
<1>0. TypeOK /\ OpShape /\ op \in Operation
  BY DEF TypeInv, TypeOK
<1>1. ASSUME NEW i \in Instances, NEW g \in Generations, NEW reopen \in BOOLEAN, StartApply(i, g, reopen)
      PROVE  TypeInv'
  <2> DEFINE s == IF BackupRequired(i) THEN "backup" ELSE "prepare"
  <2>1. s \in Steps /\ s \in {"backup", "prepare"}
    BY Names
  <2>2. Begin("apply", s, i, g)
    BY <1>1 DEF StartApply
  <2> HIDE DEF s
  <2>3. /\ op' \in Operation /\ op'.kind = "apply" /\ op'.step = s
        /\ op'.instance = i /\ op'.generation = g
    BY <2>1, <2>2, BeginFields, Names, GenerationBounds
  <2>4. OpShape' /\ op' \in Operation
    BY <2>1, <2>3 DEF OpShape, ApplySteps
  <2> QED
    BY <1>1, <1>0, <2>4, OpOnly DEF StartApply, TypeInv
<1>2. ASSUME NEW i \in Instances, NEW g \in Generations, StartDestroy(i, g)
      PROVE  TypeInv'
  <2>1. OpShape' /\ op' \in Operation
    BY <1>2, BeginFields, Names, GenerationBounds DEF StartDestroy, OpShape, DestroySteps
  <2> QED
    BY <1>2, <1>0, <2>1, OpOnly DEF StartDestroy, TypeInv
<1>3. ASSUME NEW i \in Instances, NEW g \in Generations, CloseAbsent(i, g)
      PROVE  TypeInv'
  BY <1>3, <1>0 DEF CloseAbsent, TypeInv, TypeOK, OpShape, 
     filesVars, dockerVars, caddyVars, crashVars, Generations
<1>4. ASSUME NEW i \in Instances, NEW g \in Generations, Renew(i, g)
      PROVE  TypeInv'
  BY <1>4, <1>0 DEF Renew, TypeInv, TypeOK, OpShape, 
     filesVars, dockerVars, caddyVars, crashVars, Record
<1>5. ASSUME NEW i \in Instances, StartBackup(i)
      PROVE  TypeInv'
  <2>1. OpShape' /\ op' \in Operation
    BY <1>5, BeginFields, Names, GenerationBounds DEF StartBackup, OpShape
  <2> QED
    BY <1>5, <1>0, <2>1, OpOnly DEF StartBackup, TypeInv
<1>6. ASSUME NEW i \in Instances, StartRetire(i)
      PROVE  TypeInv'
  <2>1. OpShape' /\ op' \in Operation
    BY <1>6, BeginFields, Names, GenerationBounds DEF StartRetire, OpShape, RetireSteps
  <2> QED
    BY <1>6, <1>0, <2>1, OpOnly DEF StartRetire, TypeInv
<1>7. CASE StartCleanup
  <2> DEFINE B == {i \in Previews : Reclaimable(i)}
  <2>1. op' = [Idle EXCEPT !.kind = "destroy", !.step = "next", !.batch = B]
    BY <1>7 DEF StartCleanup
  <2>2. B \subseteq Previews
    OBVIOUS
  <2> HIDE DEF B
  <2>3. op' \in Operation /\ op'.kind = "destroy" /\ op'.step = "next"
    BY <2>1, <2>2, Names, BatchFields
  <2> QED
    BY <1>7, <1>0, <2>3, OpOnly DEF StartCleanup, TypeInv, OpShape, DestroySteps
<1>8. CASE StartRefresh
  <2>1. OpShape' /\ op' \in Operation
    BY <1>8, BeginFields, Names, GenerationBounds DEF StartRefresh, OpShape
  <2> QED
    BY <1>8, <1>0, <2>1, OpOnly DEF StartRefresh, TypeInv
<1> QED
  BY <1>1, <1>2, <1>3, <1>4, <1>5, <1>6, <1>7, <1>8 DEF Requests

\* The steps of a delivery.
LEMMA DeliverType == TypeInv /\ Deliver => TypeInv'
<1> SUFFICES ASSUME TypeInv, Deliver
             PROVE  TypeInv'
  OBVIOUS
<1>0. TypeOK /\ OpShape /\ op \in Operation
  BY DEF TypeInv, TypeOK
<1>1. CASE PrepareDirectory
  <2>1. OpShape' /\ op' \in Operation
    BY <1>1, <1>0, GotoShape, Names DEF PrepareDirectory, At, ApplySteps
  <2>2. op.instance \in Instances /\ op.generation \in Generations
    BY <1>1, <1>0, IdleType DEF PrepareDirectory, At, OpShape
  <2> QED
    BY <1>1, <1>0, <2>1, <2>2
    DEF PrepareDirectory, TypeInv, TypeOK, registryVars, dockerVars, caddyVars, crashVars
<1>2. CASE Reserve
  <2> DEFINE r == [status |-> "preparing", generation |-> op.generation,
                   everReady |-> EverReady(op.instance), leaseOver |-> FALSE,
                   expires |-> record[op.instance].expires]
  <2>1. OpShape' /\ op' \in Operation
    BY <1>2, <1>0, GotoShape, Names DEF Reserve, At, ApplySteps
  <2>2. op.instance \in Instances /\ op.generation \in Generations
    BY <1>2, <1>0, IdleType DEF Reserve, At, OpShape
  <2>3. record[op.instance] \in Record /\ EverReady(op.instance) \in BOOLEAN
    BY <1>0, <2>2 DEF TypeOK, EverReady, Registered, Record
  <2>4. r \in Record
    BY <2>2, <2>3, GenerationBounds DEF Record, Statuses
  <2>5. record' = [record EXCEPT ![op.instance] = r]
    BY <1>2 DEF Reserve
  <2> HIDE DEF r
  <2>6. record' \in [Instances -> Record]
    BY <1>0, <2>2, <2>4, <2>5 DEF TypeOK
  <2>7. tombstone' \in [Instances -> 0 .. MaxGeneration]
    BY <1>2, <1>0, GenerationBounds DEF Reserve, TypeOK
  <2> QED
    BY <1>2, <1>0, <2>1, <2>6, <2>7
    DEF Reserve, TypeInv, TypeOK, filesVars, dockerVars, caddyVars, crashVars
<1>3. CASE WriteCompose
  <2>1. OpShape' /\ op' \in Operation
    BY <1>3, <1>0, GotoShape, Names DEF WriteCompose, At, ApplySteps
  <2>2. op.instance \in Instances /\ op.generation \in Generations
    BY <1>3, <1>0, IdleType DEF WriteCompose, At, OpShape
  <2> QED
    BY <1>3, <1>0, <2>1, <2>2, GenerationBounds
    DEF WriteCompose, TypeInv, TypeOK, registryVars, dockerVars, caddyVars, crashVars
<1>4. CASE StartFirstService
  <2>1. OpShape' /\ op' \in Operation
    BY <1>4, <1>0, GotoShape, Names DEF StartFirstService, At, ApplySteps
  <2>2. op.instance \in Instances /\ op.generation \in Generations
    BY <1>4, <1>0, IdleType DEF StartFirstService, At, OpShape
  <2> QED
    BY <1>4, <1>0, <2>1, <2>2, GenerationBounds
    DEF StartFirstService, TypeInv, TypeOK, ComposeUp, registryVars, filesVars, caddyVars, crashVars
<1>5. CASE StartOtherServices
  <2>1. OpShape' /\ op' \in Operation
    BY <1>5, <1>0, GotoShape, Names DEF StartOtherServices, At, ApplySteps
  <2>2. op.instance \in Instances /\ op.generation \in Generations
    BY <1>5, <1>0, IdleType DEF StartOtherServices, At, OpShape
  <2> QED
    BY <1>5, <1>0, <2>1, <2>2
    DEF StartOtherServices, TypeInv, TypeOK, registryVars, filesVars, caddyVars, crashVars
<1>6. CASE VerifyDelivery
  <2>1. OpShape' /\ op' \in Operation
    BY <1>6, <1>0, GotoShape, Names DEF VerifyDelivery, At, ApplySteps
  <2>2. op.instance \in Instances /\ op.generation \in Generations
    BY <1>6, <1>0, IdleType DEF VerifyDelivery, At, OpShape
  <2> QED
    BY <1>6, <1>0, <2>1, <2>2
    DEF VerifyDelivery, TypeInv, TypeOK, registryVars, filesVars, caddyVars, crashVars
<1>7. CASE CommitReady
  <2>1. OpShape' /\ op' \in Operation
    BY <1>7, <1>0, IdleShape DEF CommitReady, Release
  <2>2. record' \in [Instances -> Record]
    <3>1. op.instance \in Instances
      BY <1>7, <1>0, IdleType DEF CommitReady, At, OpShape
    <3> DEFINE x == IF op.instance \in Previews THEN "future" ELSE record[op.instance].expires
    <3>2. x \in {"never", "future", "past"}
      BY <1>0, <3>1 DEF TypeOK, Record
    <3>3. record' = [record EXCEPT ![op.instance] =
                       [@ EXCEPT !.status = "ready", !.everReady = TRUE, !.expires = x]]
      BY <1>7 DEF CommitReady
    <3> HIDE DEF x
    <3> QED
      BY <1>0, <3>2, <3>3, RecordUpdates, StatusNames, GenerationBounds DEF TypeOK
  <2> QED
    BY <1>7, <1>0, <2>1, <2>2
    DEF CommitReady, TypeInv, TypeOK, filesVars, dockerVars, caddyVars, crashVars
<1>8. CASE DeliveryFails
  BY <1>8, <1>0, GotoShape, OpOnly, Names DEF DeliveryFails, At, ApplySteps, TypeInv
<1>9. CASE CommitFailed
  <2>1. OpShape' /\ op' \in Operation
    BY <1>9, <1>0, IdleShape DEF CommitFailed, Release
  <2> QED
    BY <1>9, <1>0, <2>1, RecordUpdates, StatusNames, GenerationBounds
    DEF CommitFailed, TypeInv, TypeOK, filesVars, dockerVars, caddyVars, crashVars
<1> QED
  BY <1>1, <1>2, <1>3, <1>4, <1>5, <1>6, <1>7, <1>8, <1>9 DEF Deliver

\* A publish always has a step of the operation's own kind to continue at.
LEMMA AfterPublishShape ==
    ASSUME TypeInv, op.step \in {"load", "persist"}, NEW s, s \in {AfterPublish, AfterFailure, "persist"},
           Goto(s)
    PROVE  OpShape' /\ op' \in Operation
<1>1. op.kind \in {"apply", "destroy", "retire", "refresh"}
  BY IdleType DEF TypeInv, OpShape
<1>2. CASE op.kind = "apply"
  BY <1>2, GotoShape, Names DEF AfterPublish, AfterFailure, ApplySteps
<1>3. CASE op.kind = "destroy"
  BY <1>3, GotoShape, Names DEF AfterPublish, AfterFailure, DestroySteps
<1>4. CASE op.kind = "retire"
  BY <1>4, GotoShape, Names DEF AfterPublish, AfterFailure, RetireSteps
<1>5. CASE op.kind = "refresh"
  BY <1>5, GotoShape, Names DEF AfterPublish, AfterFailure
<1> QED
  BY <1>1, <1>2, <1>3, <1>4, <1>5

LEMMA DesiredRoutesType ==
    ASSUME TypeInv, op.step \in {"load", "persist"}
    PROVE  DesiredRoutes \subseteq Instances
BY IdleType DEF DesiredRoutes, ReadyRoutes, TypeInv, OpShape

\* Publishing.
LEMMA PublishType == TypeInv /\ Publish => TypeInv'
<1> SUFFICES ASSUME TypeInv, Publish
             PROVE  TypeInv'
  OBVIOUS
<1>0. TypeOK /\ OpShape /\ op \in Operation
  BY DEF TypeInv, TypeOK
<1>1. CASE PublishUnchanged
  <2>1. OpShape' /\ op' \in Operation
    BY <1>1, <1>0, AfterPublishShape DEF PublishUnchanged
  <2> QED
    BY <1>1, <1>0, <2>1, DesiredRoutesType
    DEF PublishUnchanged, TypeInv, TypeOK, registryVars, filesVars, dockerVars, crashVars, caddyVars
<1>2. CASE LoadRoutes
  <2>1. OpShape' /\ op' \in Operation
    BY <1>2, <1>0, AfterPublishShape DEF LoadRoutes
  <2> QED
    BY <1>2, <1>0, <2>1, DesiredRoutesType
    DEF LoadRoutes, TypeInv, TypeOK, registryVars, filesVars, dockerVars, crashVars
<1>3. CASE PersistRoutes
  <2>1. OpShape' /\ op' \in Operation
    BY <1>3, <1>0, AfterPublishShape DEF PersistRoutes
  <2> QED
    BY <1>3, <1>0, <2>1, DesiredRoutesType
    DEF PersistRoutes, TypeInv, TypeOK, registryVars, filesVars, dockerVars, crashVars
<1>4. CASE PersistFails
  <2>1. OpShape' /\ op' \in Operation
    BY <1>4, <1>0, AfterPublishShape DEF PersistFails
  <2> QED
    BY <1>4, <1>0, <2>1, DesiredRoutesType
    DEF PersistFails, TypeInv, TypeOK, registryVars, filesVars, dockerVars, crashVars
<1>5. CASE LoadUnanswered
  <2>1. OpShape' /\ op' \in Operation
    BY <1>5, <1>0, AfterPublishShape DEF LoadUnanswered
  <2> QED
    BY <1>5, <1>0, <2>1, DesiredRoutesType
    DEF LoadUnanswered, TypeInv, TypeOK, registryVars, filesVars, dockerVars, crashVars
<1> QED
  BY <1>1, <1>2, <1>3, <1>4, <1>5 DEF Publish

\* The steps of a destruction, and those it shares with a retirement.
LEMMA DestroyType == TypeInv /\ Destroy => TypeInv'
<1> SUFFICES ASSUME TypeInv, Destroy
             PROVE  TypeInv'
  OBVIOUS
<1>0. TypeOK /\ OpShape /\ op \in Operation
  BY DEF TypeInv, TypeOK
<1>1. CASE CloseInstance
  <2>1. op.instance \in Previews /\ op.generation \in 0 .. MaxGeneration
    BY <1>1, <1>0, IdleType DEF CloseInstance, At, OpShape, Operation
  <2>2. Objects(op.instance) \subseteq 0 .. MaxGeneration
    BY <1>0, <2>1, TypeOfObjects DEF Instances
  <2>3. /\ op' \in Operation
        /\ op'.kind = "destroy" /\ op'.step = "load" /\ op'.instance = op.instance
    BY <1>1, <1>0, <2>2, Names DEF CloseInstance, At, Operation
  <2>4. OpShape'
    BY <2>1, <2>3 DEF OpShape, DestroySteps
  <2>5. record' \in [Instances -> Record]
    BY <1>1, <1>0, <2>1, RecordUpdates, StatusNames DEF CloseInstance, TypeOK
  <2> QED
    BY <1>1, <1>0, <2>1, <2>3, <2>4, <2>5
    DEF CloseInstance, TypeInv, TypeOK, filesVars, dockerVars, caddyVars, crashVars
<1>2. CASE RemoveContainer
  <2>1. PICK g \in op.found \ {Volume} :
               /\ containers' = [containers EXCEPT ![op.instance] = @ \ {g}]
               /\ op' = [op EXCEPT !.found = @ \ {g}]
    BY <1>2 DEF RemoveContainer
  <2>2. /\ op' \in Operation /\ op'.kind = op.kind /\ op'.step = op.step
        /\ op'.instance = op.instance
    BY <1>0, <2>1 DEF Operation
  <2>3. OpShape'
    BY <1>2, <1>0, <2>2, IdleType DEF OpShape, RemoveContainer
  <2> QED
    BY <1>2, <1>0, <2>1, <2>2, <2>3
    DEF RemoveContainer, TypeInv, TypeOK, registryVars, filesVars, caddyVars, crashVars
<1>3. CASE RemoveVolume
  <2>1. /\ op' \in Operation /\ op'.kind = op.kind /\ op'.step = op.step
        /\ op'.instance = op.instance
    BY <1>3, <1>0 DEF RemoveVolume, Operation
  <2>2. OpShape'
    BY <1>3, <1>0, <2>1, IdleType DEF OpShape, RemoveVolume, At
  <2> QED
    BY <1>3, <1>0, <2>1, <2>2, GenerationBounds
    DEF RemoveVolume, TypeInv, TypeOK, registryVars, filesVars, caddyVars, crashVars
<1>4. CASE RemovalVerified
  BY <1>4, <1>0, GotoShape, OpOnly, Names DEF RemovalVerified, At, DestroySteps, TypeInv
<1>5. CASE RemovalIncomplete
  <2>1. op.kind \in {"destroy", "retire"}
    BY <1>5, <1>0, IdleType DEF RemovalIncomplete, OpShape, ApplySteps
  <2> QED
    BY <1>5, <1>0, <2>1, GotoShape, OpOnly, Names
    DEF RemovalIncomplete, DestroySteps, RetireSteps, TypeInv
<1>6. CASE RemoveDirectory
  <2>1. OpShape' /\ op' \in Operation
    BY <1>6, <1>0, GotoShape, Names DEF RemoveDirectory, At, DestroySteps
  <2> QED
    BY <1>6, <1>0, <2>1, GenerationBounds
    DEF RemoveDirectory, TypeInv, TypeOK, registryVars, dockerVars, caddyVars, crashVars
<1>7. CASE DirectoryMissing
  BY <1>7, <1>0, GotoShape, OpOnly, Names DEF DirectoryMissing, At, DestroySteps, TypeInv
<1>8. CASE ForgetRecord
  <2>1. OpShape' /\ op' \in Operation
    BY <1>8, <1>0, GotoShape, Names DEF ForgetRecord, At, DestroySteps
  <2>2. Absent \in Record
    BY GenerationBounds DEF Absent, Record, Statuses
  <2> QED
    BY <1>8, <1>0, <2>1, <2>2
    DEF ForgetRecord, TypeInv, TypeOK, filesVars, dockerVars, caddyVars, crashVars
<1>9. CASE NextInBatch
  <2>1. CASE op.batch = {}
    BY <1>9, <1>0, <2>1, IdleShape, OpOnly DEF NextInBatch, Release, TypeInv
  <2>2. CASE op.batch # {}
    <3>1. PICK i \in op.batch :
             op' = [Idle EXCEPT !.kind = "destroy", !.step = "close", !.instance = i,
                                !.generation = record[i].generation,
                                !.batch = op.batch \ {i}]
      BY <1>9, <2>2 DEF NextInBatch
    <3>2. op.batch \subseteq Previews
      BY <1>0 DEF Operation
    <3>3. i \in Instances /\ record[i].generation \in 0 .. MaxGeneration
      BY <1>0, <3>2 DEF TypeOK, Record, Instances
    <3>4. op' \in Operation /\ op'.kind = "destroy" /\ op'.step = "close" /\ op'.instance = i
      BY <3>1, <3>2, <3>3, Names DEF Idle, Operation
    <3> QED
      BY <1>9, <1>0, <3>2, <3>4, OpOnly DEF NextInBatch, TypeInv, OpShape, DestroySteps
  <2> QED
    BY <2>1, <2>2
<1> QED
  BY <1>1, <1>2, <1>3, <1>4, <1>5, <1>6, <1>7, <1>8, <1>9 DEF Destroy

\* The steps of a retirement.
LEMMA RetireType == TypeInv /\ Retire => TypeInv'
<1> SUFFICES ASSUME TypeInv, Retire
             PROVE  TypeInv'
  OBVIOUS
<1>0. TypeOK /\ OpShape /\ op \in Operation
  BY DEF TypeInv, TypeOK
<1>1. CASE FenceRetirement
  <2>1. op.instance \in Stagings
    BY <1>1, <1>0, IdleType DEF FenceRetirement, At, OpShape
  <2>2. containers[op.instance] \subseteq 0 .. MaxGeneration
    BY <1>0, <2>1, GenerationBounds DEF TypeOK, Instances
  <2>3. /\ op' \in Operation
        /\ op'.kind = "retire" /\ op'.step = "load" /\ op'.instance = op.instance
    BY <1>1, <1>0, <2>2, Names DEF FenceRetirement, At, Operation
  <2>4. OpShape'
    BY <2>1, <2>3 DEF OpShape, RetireSteps
  <2>5. record' \in [Instances -> Record]
    BY <1>1, <1>0, RecordUpdates, StatusNames, GenerationBounds DEF FenceRetirement, TypeOK
  <2> QED
    BY <1>1, <1>0, <2>3, <2>4, <2>5
    DEF FenceRetirement, TypeInv, TypeOK, filesVars, dockerVars, caddyVars, crashVars
<1>2. CASE RetirementVerified
  BY <1>2, <1>0, GotoShape, OpOnly, Names DEF RetirementVerified, At, RetireSteps, TypeInv
<1>3. CASE CommitRetired
  <2>1. OpShape' /\ op' \in Operation
    BY <1>3, <1>0, IdleShape DEF CommitRetired, Release
  <2> QED
    BY <1>3, <1>0, <2>1, RecordUpdates, StatusNames, GenerationBounds
    DEF CommitRetired, TypeInv, TypeOK, filesVars, dockerVars, caddyVars, crashVars
<1> QED
  BY <1>1, <1>2, <1>3 DEF Retire

\* Backups.
LEMMA BackupType == TypeInv /\ Backup => TypeInv'
<1> SUFFICES ASSUME TypeInv, Backup
             PROVE  TypeInv'
  OBVIOUS
<1>0. TypeOK /\ OpShape /\ op \in Operation
  BY DEF TypeInv, TypeOK
<1>1. CASE BackupSucceeds
  <2>1. CASE op.kind = "apply"
    <3>1. /\ op' \in Operation
          /\ op'.kind = "apply" /\ op'.step = "prepare"
          /\ op'.instance = op.instance /\ op'.generation = op.generation
      BY <1>1, <1>0, <2>1, Names DEF BackupSucceeds, Operation
    <3>2. op.instance \in Instances /\ op.generation \in Generations
      BY <1>0, <2>1, IdleType DEF OpShape
    <3> QED
      BY <1>1, <1>0, <3>1, <3>2, OpOnly DEF BackupSucceeds, TypeInv, OpShape, ApplySteps
  <2>2. CASE op.kind # "apply"
    BY <1>1, <1>0, <2>2, IdleShape, OpOnly DEF BackupSucceeds, TypeInv
  <2> QED
    BY <2>1, <2>2
<1>2. CASE BackupFails
  BY <1>2, <1>0, IdleShape, OpOnly DEF BackupFails, Release, TypeInv
<1>3. CASE DetachedBackupEnds
  BY <1>3, <1>0, IdleShape, OpOnly DEF DetachedBackupEnds, Release, TypeInv
<1> QED
  BY <1>1, <1>2, <1>3 DEF Backup

\* Failures, crashes and time.
LEMMA EnvironmentType == TypeInv /\ Environment => TypeInv'
<1> SUFFICES ASSUME TypeInv, Environment
             PROVE  TypeInv'
  OBVIOUS
<1>0. TypeOK /\ OpShape /\ op \in Operation
  BY DEF TypeInv, TypeOK
<1>1. CASE Crash
  <2>1. OpShape' /\ op' \in Operation
    <3>1. CASE op.step = "backup"
      <4>1. op.kind \in {"apply", "backup"}
        BY <1>0, <3>1, IdleType DEF OpShape, DestroySteps, RetireSteps
      <4> QED
        BY <1>1, <3>1, <4>1, GotoShape, Names DEF Crash
    <3>2. CASE op.step # "backup"
      BY <1>1, <3>2, IdleShape DEF Crash, Release
    <3> QED
      BY <3>1, <3>2
  <2>2. orphans' \subseteq Instances \X Generations
    <3>1. CASE UNCHANGED orphans
      BY <1>0, <3>1 DEF TypeOK
    <3>2. CASE /\ op.step \in {"start", "started"}
               /\ orphans' = orphans \cup {<<op.instance, op.generation>>}
      <4>1. op.instance \in Instances /\ op.generation \in Generations
        BY <1>0, <3>2, IdleType DEF OpShape, DestroySteps, RetireSteps
      <4> QED
        BY <1>0, <3>2, <4>1 DEF TypeOK
    <3> QED
      BY <1>1, <3>1, <3>2 DEF Crash
  <2>3. crashes' \in 0 .. MaxCrashes
    BY <1>1, <1>0 DEF Crash, TypeOK
  <2> QED
    BY <1>1, <1>0, <2>1, <2>2, <2>3
    DEF Crash, TypeInv, TypeOK, registryVars, filesVars, dockerVars, caddyVars
<1>2. CASE CaddyRestarts
  BY <1>2, <1>0 DEF CaddyRestarts, TypeInv, TypeOK, OpShape, 
     registryVars, filesVars, dockerVars, crashVars
<1>3. CASE OperationFails
  BY <1>3, <1>0, GotoShape, OpOnly, Names
  DEF OperationFails, DestroySteps, RetireSteps, TypeInv
<1>4. CASE SaveFails
  BY <1>4, <1>0, IdleShape, OpOnly DEF SaveFails, Release, TypeInv
<1>5. ASSUME NEW i \in Instances, LeaseEnds(i)
      PROVE  TypeInv'
  BY <1>5, <1>0 DEF LeaseEnds, TypeInv, TypeOK, OpShape, 
     filesVars, dockerVars, caddyVars, crashVars, Record
<1>6. ASSUME NEW i \in Instances, Expires(i)
      PROVE  TypeInv'
  BY <1>6, <1>0 DEF Expires, TypeInv, TypeOK, OpShape, 
     filesVars, dockerVars, caddyVars, crashVars, Record
<1>7. ASSUME NEW i \in Instances, NEW g \in Generations, OrphanRuns(i, g)
      PROVE  TypeInv'
  BY <1>7, <1>0, GenerationBounds
  DEF OrphanRuns, ComposeUp, TypeInv, TypeOK, OpShape, registryVars, filesVars, caddyVars
<1> QED
  BY <1>1, <1>2, <1>3, <1>4, <1>5, <1>6, <1>7 DEF Environment

LEMMA NextType == TypeInv /\ [Next]_vars => TypeInv'
<1> SUFFICES ASSUME TypeInv, [Next]_vars
             PROVE  TypeInv'
  OBVIOUS
<1>1. CASE UNCHANGED vars
  BY <1>1 DEF TypeInv, TypeOK, OpShape, vars, registryVars, filesVars, dockerVars, caddyVars,
              crashVars
<1> QED
  BY <1>1, RequestsType, DeliverType, PublishType, DestroyType, RetireType, BackupType,
     EnvironmentType DEF Next

\* Whatever happens, every variable keeps its type, and the operation under the
\* lock the shape of its kind.
THEOREM TypeCorrect == Spec => []TypeInv
<1>1. Init => TypeInv
  BY InitType
<1>2. TypeInv /\ [Next]_vars => TypeInv'
  BY NextType
<1> QED
  BY <1>1, <1>2, PTL DEF Spec

\* In particular the registry file and everything on the host (TypeOK).
THEOREM TypeOKAlways == Spec => []TypeOK
<1>1. TypeInv => TypeOK
  BY DEF TypeInv
<1> QED
  BY <1>1, TypeCorrect, PTL

-----------------------------------------------------------------------------
(* The phases of an operation.                                             *)

Admitting == op.kind = "apply" /\ op.step \in {"backup", "prepare", "reserve"}
Delivering ==
    /\ op.kind = "apply"
    /\ op.step \in {"write", "start", "started", "verify", "load", "persist", "commit", "fail"}
Closing == op.kind = "destroy" /\ op.step = "close"
Removing == op.kind = "destroy" /\ op.step \in {"load", "persist", "remove", "rmtree", "forget"}
Fencing == op.kind = "retire" /\ op.step = "fence"
Stripping == op.kind = "retire" /\ op.step \in {"load", "persist", "strip", "retired"}

\* What admission established of the delivery that waits for its reservation.
Admissible(i, g) ==
    /\ record[i].status \notin {"retiring", "retired"}
    /\ g > Fence(i)
    /\ i \in Previews /\ ~Registered(i) => Cardinality(Occupied) < PreviewLimit

OpInv ==
    /\ Admitting => Admissible(op.instance, op.generation)
    /\ Delivering => /\ record[op.instance].status = "preparing"
                     /\ record[op.instance].generation = op.generation
    /\ Closing => Registered(op.instance) /\ op.generation >= Fence(op.instance)
    /\ Removing => record[op.instance].status = "deleting"
    /\ Fencing => record[op.instance].status \notin {"absent", "retired"}
    /\ Stripping => record[op.instance].status = "retiring"
    /\ \A i \in op.batch : Reclaimable(i) /\ i # op.instance

RegistryInv ==
    /\ SlotLimit
    /\ \A i \in Instances :
         /\ ~Registered(i) => record[i].generation = 0
         /\ Registered(i) => record[i].generation \in Generations
         /\ Registered(i) => tombstone[i] <= record[i].generation
         /\ record[i].status = "deleting" => i \in Previews /\ tombstone[i] = record[i].generation
         /\ record[i].status \in {"retiring", "retired"} => i \in Stagings
         /\ record[i].expires # "never" => i \in Previews

Inv == TypeInv /\ RegistryInv /\ OpInv

-----------------------------------------------------------------------------
(* How one step may change the registry's entry of an instance.            *)

Delivered(i) ==
    /\ Admissible(i, record'[i].generation)
    /\ record'[i].status = "preparing"
    /\ record'[i].generation \in Generations
    /\ record'[i].expires = record[i].expires
    /\ tombstone'[i] = 0

\* The status moves within a delivery or a retirement, or not at all.
Relabelled(i) ==
    /\ record'[i].generation = record[i].generation
    /\ tombstone'[i] = tombstone[i]
    /\ \/ record[i].status = "preparing" /\ record'[i].status \in {"ready", "failed"}
       \/ /\ i \in Stagings
          /\ record[i].status \notin {"absent", "retired"}
          /\ record'[i].status = "retiring"
       \/ record[i].status = "retiring" /\ record'[i].status = "retired"
       \/ record'[i].status = record[i].status /\ (i \in Previews \/ record'[i] = record[i])
    /\ i \in Previews \/ record'[i].expires = record[i].expires

Closed(i) ==
    /\ i \in Previews
    /\ Registered(i)
    /\ record'[i].status = "deleting"
    /\ record'[i].generation \in 0 .. MaxGeneration
    /\ record'[i].generation >= Fence(i)
    /\ tombstone'[i] = record'[i].generation

Forgotten(i) ==
    /\ record[i].status = "deleting"
    /\ record'[i] = Absent
    /\ tombstone'[i] = tombstone[i]

Barred(i) ==
    /\ ~Registered(i)
    /\ record'[i] = record[i]
    /\ tombstone'[i] \in Generations
    /\ tombstone'[i] > tombstone[i]

Move(i) ==
    /\ \A j \in Instances \ {i} : record'[j] = record[j] /\ tombstone'[j] = tombstone[j]
    /\ Delivered(i) \/ Relabelled(i) \/ Closed(i) \/ Forgotten(i) \/ Barred(i)

RegistryStep == UNCHANGED registryVars \/ \E i \in Instances : Move(i)

-----------------------------------------------------------------------------
(* Small facts.                                                            *)

LEMMA Entry ==
    ASSUME TypeOK, NEW i \in Instances
    PROVE  /\ record[i] \in Record
           /\ record[i].generation \in 0 .. MaxGeneration
           /\ tombstone[i] \in 0 .. MaxGeneration
           /\ Fence(i) \in 0 .. MaxGeneration
           /\ Fence(i) >= record[i].generation
           /\ Fence(i) >= tombstone[i]
           /\ Fence(i) \in {record[i].generation, tombstone[i]}
<1>1. record[i] \in Record /\ tombstone[i] \in 0 .. MaxGeneration
  BY DEF TypeOK
<1>2. record[i].generation \in 0 .. MaxGeneration
  BY <1>1 DEF Record
<1> QED
  BY <1>1, <1>2 DEF Fence

\* Nobody holds the lock: no phase, and nothing left of a batch.
LEMMA FreeIsIdle ==
    ASSUME TypeInv, Free
    PROVE  op = Idle
BY DEF TypeInv, OpShape, Free, ApplySteps, DestroySteps, RetireSteps

LEMMA IdleOp ==
    ASSUME op' = Idle
    PROVE  OpInv'
BY IdleType DEF OpInv, Admitting, Delivering, Closing, Removing, Fencing, Stripping

\* An operation relies on no more than it did while the entries it relies on stay.
LEMMA KeepOp ==
    ASSUME OpInv, UNCHANGED registryVars,
           op'.instance = op.instance, op'.generation = op.generation, op'.batch = op.batch,
           Admitting' => Admitting, Delivering' => Delivering, Closing' => Closing,
           Removing' => Removing, Fencing' => Fencing, Stripping' => Stripping
    PROVE  OpInv'
BY DEF OpInv, registryVars, Admissible, Registered, Occupied, Fence, Reclaimable

\* Going on within a phase, or leaving it.
LEMMA GotoKeeps ==
    ASSUME Inv, UNCHANGED registryVars, NEW s \in Steps, Goto(s),
           \/ s \in {"next", "detached"}
           \/ Admitting /\ s \in {"prepare", "reserve"}
           \/ Delivering /\ s \in {"start", "started", "verify", "load", "persist", "commit", "fail"}
           \/ Removing /\ s \in {"persist", "remove", "rmtree", "forget"}
           \/ Stripping /\ s \in {"persist", "strip", "retired"}
           \/ op.kind \in {"backup", "refresh"}
    PROVE  OpInv'
<1>1. op \in Operation
  BY DEF Inv, TypeInv, TypeOK
<1>2. /\ op'.step = s /\ op'.kind = op.kind /\ op'.instance = op.instance
      /\ op'.generation = op.generation /\ op'.batch = op.batch
  BY <1>1, GotoFields
<1>3. /\ Admitting' => Admitting
      /\ Delivering' => Delivering
      /\ Closing' => Closing
      /\ Removing' => Removing
      /\ Fencing' => Fencing
      /\ Stripping' => Stripping
  BY <1>2 DEF Admitting, Delivering, Closing, Removing, Fencing, Stripping
<1> QED
  BY <1>2, <1>3, KeepOp DEF Inv

-----------------------------------------------------------------------------
(* Every step changes the registry by one move, if at all.                 *)

LEMMA RequestsMove == Inv /\ Requests => RegistryStep
<1> SUFFICES ASSUME Inv, Requests
             PROVE  RegistryStep
  OBVIOUS
<1>0. TypeOK /\ record \in [Instances -> Record] /\ tombstone \in [Instances -> 0 .. MaxGeneration]
  BY DEF Inv, TypeInv, TypeOK
<1>1. ASSUME NEW i \in Instances, NEW g \in Generations, CloseAbsent(i, g)
      PROVE  RegistryStep
  <2>1. Barred(i)
    BY <1>0, <1>1 DEF CloseAbsent, Barred
  <2>2. \A j \in Instances \ {i} : record'[j] = record[j] /\ tombstone'[j] = tombstone[j]
    BY <1>0, <1>1 DEF CloseAbsent
  <2> QED
    BY <2>1, <2>2 DEF RegistryStep, Move
<1>2. ASSUME NEW i \in Instances, NEW g \in Generations, Renew(i, g)
      PROVE  RegistryStep
  <2>1. Relabelled(i)
    BY <1>0, <1>2 DEF Renew, Relabelled
  <2>2. \A j \in Instances \ {i} : record'[j] = record[j] /\ tombstone'[j] = tombstone[j]
    BY <1>0, <1>2 DEF Renew
  <2> QED
    BY <2>1, <2>2 DEF RegistryStep, Move
<1>3. ASSUME NEW i \in Instances, NEW g \in Generations,
             \/ \E reopen \in BOOLEAN : StartApply(i, g, reopen)
             \/ StartDestroy(i, g)
             \/ StartBackup(i)
             \/ StartRetire(i)
      PROVE  RegistryStep
  BY <1>3 DEF StartApply, StartDestroy, StartBackup, StartRetire, RegistryStep
<1>4. CASE StartCleanup \/ StartRefresh
  BY <1>4 DEF StartCleanup, StartRefresh, RegistryStep
<1>5. ASSUME NEW i \in Instances, StartBackup(i) \/ StartRetire(i)
      PROVE  RegistryStep
  BY <1>5 DEF StartBackup, StartRetire, RegistryStep
<1> QED
  BY <1>1, <1>2, <1>3, <1>4, <1>5 DEF Requests

LEMMA DeliverMove == Inv /\ Deliver => RegistryStep
<1> SUFFICES ASSUME Inv, Deliver
             PROVE  RegistryStep
  OBVIOUS
<1>0. /\ TypeOK /\ OpShape /\ OpInv
      /\ record \in [Instances -> Record] /\ tombstone \in [Instances -> 0 .. MaxGeneration]
  BY DEF Inv, TypeInv, TypeOK
<1>1. CASE Reserve
  <2> DEFINE i == op.instance
  <2>1. i \in Instances /\ op.generation \in Generations
    BY <1>1, <1>0, IdleType DEF Reserve, At, OpShape
  <2>2. Admissible(i, op.generation)
    BY <1>1, <1>0 DEF Reserve, At, OpInv, Admitting
  <2>3. /\ record'[i].status = "preparing" /\ record'[i].generation = op.generation
        /\ tombstone'[i] = 0 /\ record'[i].expires = record[i].expires
    BY <1>1, <1>0, <2>1 DEF Reserve
  <2>4. \A j \in Instances \ {i} : record'[j] = record[j] /\ tombstone'[j] = tombstone[j]
    BY <1>1, <1>0 DEF Reserve
  <2> QED
    BY <2>1, <2>2, <2>3, <2>4 DEF RegistryStep, Move, Delivered
<1>2. CASE CommitReady
  <2> DEFINE i == op.instance
  <2>1. i \in Instances /\ record[i].status = "preparing"
    BY <1>2, <1>0, IdleType DEF CommitReady, At, OpShape, OpInv, Delivering
  <2>2. /\ record'[i].status = "ready" /\ record'[i].generation = record[i].generation
        /\ tombstone' = tombstone
        /\ i \in Previews \/ record'[i].expires = record[i].expires
    BY <1>2, <1>0, <2>1 DEF CommitReady, Record
  <2>3. \A j \in Instances \ {i} : record'[j] = record[j]
    BY <1>2, <1>0 DEF CommitReady
  <2> QED
    BY <2>1, <2>2, <2>3 DEF RegistryStep, Move, Relabelled
<1>3. CASE CommitFailed
  <2> DEFINE i == op.instance
  <2>1. i \in Instances /\ record[i].status = "preparing"
    BY <1>3, <1>0, IdleType DEF CommitFailed, At, OpShape, OpInv, Delivering
  <2>2. /\ record'[i].status = "failed" /\ record'[i].generation = record[i].generation
        /\ tombstone' = tombstone /\ record'[i].expires = record[i].expires
    BY <1>3, <1>0, <2>1 DEF CommitFailed, Record
  <2>3. \A j \in Instances \ {i} : record'[j] = record[j]
    BY <1>3, <1>0 DEF CommitFailed
  <2> QED
    BY <2>1, <2>2, <2>3 DEF RegistryStep, Move, Relabelled
<1>4. CASE PrepareDirectory \/ WriteCompose \/ StartFirstService \/ StartOtherServices
           \/ VerifyDelivery \/ DeliveryFails
  BY <1>4 DEF PrepareDirectory, WriteCompose, StartFirstService, StartOtherServices,
              VerifyDelivery, DeliveryFails, RegistryStep
<1> QED
  BY <1>1, <1>2, <1>3, <1>4 DEF Deliver

LEMMA DestroyMove == Inv /\ Destroy => RegistryStep
<1> SUFFICES ASSUME Inv, Destroy
             PROVE  RegistryStep
  OBVIOUS
<1>0. /\ TypeOK /\ OpShape /\ OpInv /\ op \in Operation
      /\ record \in [Instances -> Record] /\ tombstone \in [Instances -> 0 .. MaxGeneration]
  BY DEF Inv, TypeInv, TypeOK
<1>1. CASE CloseInstance
  <2> DEFINE i == op.instance
  <2>1. i \in Previews /\ i \in Instances /\ op.generation \in 0 .. MaxGeneration
    BY <1>1, <1>0, IdleType DEF CloseInstance, At, OpShape, Operation, Instances
  <2>2. Registered(i) /\ op.generation >= Fence(i)
    BY <1>1, <1>0 DEF CloseInstance, At, OpInv, Closing
  <2>3. /\ record'[i].status = "deleting" /\ record'[i].generation = op.generation
        /\ tombstone'[i] = op.generation
    BY <1>1, <1>0, <2>1 DEF CloseInstance, Record
  <2>4. \A j \in Instances \ {i} : record'[j] = record[j] /\ tombstone'[j] = tombstone[j]
    BY <1>1, <1>0 DEF CloseInstance
  <2> QED
    BY <2>1, <2>2, <2>3, <2>4 DEF RegistryStep, Move, Closed
<1>2. CASE ForgetRecord
  <2> DEFINE i == op.instance
  <2>1. i \in Instances /\ record[i].status = "deleting"
    BY <1>2, <1>0, IdleType DEF ForgetRecord, At, OpShape, OpInv, Removing, Instances
  <2>2. record'[i] = Absent /\ tombstone' = tombstone
    BY <1>2, <1>0, <2>1 DEF ForgetRecord
  <2>3. \A j \in Instances \ {i} : record'[j] = record[j]
    BY <1>2, <1>0 DEF ForgetRecord
  <2> QED
    BY <2>1, <2>2, <2>3 DEF RegistryStep, Move, Forgotten
<1>3. CASE RemoveContainer \/ RemoveVolume \/ RemovalVerified \/ RemovalIncomplete
           \/ RemoveDirectory \/ DirectoryMissing \/ NextInBatch
  BY <1>3 DEF RemoveContainer, RemoveVolume, RemovalVerified, RemovalIncomplete,
              RemoveDirectory, DirectoryMissing, NextInBatch, RegistryStep
<1> QED
  BY <1>1, <1>2, <1>3 DEF Destroy

LEMMA RetireMove == Inv /\ Retire => RegistryStep
<1> SUFFICES ASSUME Inv, Retire
             PROVE  RegistryStep
  OBVIOUS
<1>0. /\ TypeOK /\ OpShape /\ OpInv
      /\ record \in [Instances -> Record]
  BY DEF Inv, TypeInv, TypeOK
<1>1. CASE FenceRetirement
  <2> DEFINE i == op.instance
  <2>1. i \in Stagings /\ i \in Instances /\ record[i].status \notin {"absent", "retired"}
    BY <1>1, <1>0, IdleType DEF FenceRetirement, At, OpShape, OpInv, Fencing, Instances
  <2>2. /\ record'[i].status = "retiring" /\ record'[i].generation = record[i].generation
        /\ tombstone' = tombstone /\ record'[i].expires = record[i].expires
    BY <1>1, <1>0, <2>1 DEF FenceRetirement, Record
  <2>3. \A j \in Instances \ {i} : record'[j] = record[j]
    BY <1>1, <1>0 DEF FenceRetirement
  <2> QED
    BY <2>1, <2>2, <2>3 DEF RegistryStep, Move, Relabelled
<1>2. CASE CommitRetired
  <2> DEFINE i == op.instance
  <2>1. i \in Instances /\ record[i].status = "retiring"
    BY <1>2, <1>0, IdleType DEF CommitRetired, At, OpShape, OpInv, Stripping, Instances
  <2>2. /\ record'[i].status = "retired" /\ record'[i].generation = record[i].generation
        /\ tombstone' = tombstone /\ record'[i].expires = record[i].expires
    BY <1>2, <1>0, <2>1 DEF CommitRetired, Record
  <2>3. \A j \in Instances \ {i} : record'[j] = record[j]
    BY <1>2, <1>0 DEF CommitRetired
  <2> QED
    BY <2>1, <2>2, <2>3 DEF RegistryStep, Move, Relabelled
<1>3. CASE RetirementVerified
  BY <1>3 DEF RetirementVerified, RegistryStep
<1> QED
  BY <1>1, <1>2, <1>3 DEF Retire

LEMMA EnvironmentMove == Inv /\ Environment => RegistryStep
<1> SUFFICES ASSUME Inv, Environment
             PROVE  RegistryStep
  OBVIOUS
<1>0. record \in [Instances -> Record] /\ RegistryInv
  BY DEF Inv, TypeInv, TypeOK
<1>1. ASSUME NEW i \in Instances, LeaseEnds(i) \/ Expires(i)
      PROVE  RegistryStep
  <2>1. Relabelled(i)
    BY <1>0, <1>1 DEF LeaseEnds, Expires, Relabelled, Record, RegistryInv
  <2>2. \A j \in Instances \ {i} : record'[j] = record[j] /\ tombstone'[j] = tombstone[j]
    BY <1>0, <1>1 DEF LeaseEnds, Expires
  <2> QED
    BY <2>1, <2>2 DEF RegistryStep, Move
<1>2. CASE Crash \/ CaddyRestarts \/ OperationFails \/ SaveFails
  BY <1>2 DEF Crash, CaddyRestarts, OperationFails, SaveFails, RegistryStep
<1>3. ASSUME NEW i \in Instances, NEW g \in Generations, OrphanRuns(i, g)
      PROVE  RegistryStep
  BY <1>3 DEF OrphanRuns, RegistryStep
<1> QED
  BY <1>1, <1>2, <1>3 DEF Environment

LEMMA NextMove == Inv /\ [Next]_vars => RegistryStep
<1> SUFFICES ASSUME Inv, [Next]_vars
             PROVE  RegistryStep
  OBVIOUS
<1>1. CASE UNCHANGED vars
  BY <1>1 DEF vars, RegistryStep
<1>2. CASE Publish
  BY <1>2 DEF Publish, PublishUnchanged, LoadRoutes, PersistRoutes, PersistFails, LoadUnanswered,
              RegistryStep
<1>3. CASE Backup
  BY <1>3 DEF Backup, BackupSucceeds, BackupFails, DetachedBackupEnds, RegistryStep
<1> QED
  BY <1>1, <1>2, <1>3, RequestsMove, DeliverMove, DestroyMove, RetireMove, EnvironmentMove
  DEF Next

-----------------------------------------------------------------------------
(* A move keeps the registry's invariant.                                  *)

LEMMA OccupiedFinite ==
    /\ IsFiniteSet(Occupied)
    /\ Cardinality(Occupied) \in Nat
<1>1. Occupied \subseteq Previews
  BY DEF Occupied
<1>2. IsFiniteSet(Occupied)
  BY <1>1, FS_Subset
<1> QED
  BY <1>2, FS_CardinalityType

\* A slot is only taken by an admitted delivery of a preview that had none.
LEMMA SlotsKept ==
    ASSUME TypeOK, SlotLimit, NEW i \in Instances, Move(i)
    PROVE  SlotLimit'
<1>1. \A j \in Instances \ {i} : record'[j] = record[j]
  BY DEF Move
<1>2. CASE i \in Previews /\ ~Registered(i) /\ record'[i].status # "absent"
  <2>1. Occupied' = Occupied \cup {i}
    BY <1>1, <1>2 DEF Occupied, Registered, Instances
  <2>2. i \notin Occupied
    BY <1>2 DEF Occupied
  <2>3. Delivered(i)
    BY <1>2 DEF Move, Relabelled, Closed, Forgotten, Barred, Registered
  <2>4. Cardinality(Occupied) < PreviewLimit
    BY <1>2, <2>3 DEF Delivered, Admissible
  <2>5. Cardinality(Occupied') = Cardinality(Occupied) + 1
    BY <2>1, <2>2, OccupiedFinite, FS_AddElement
  <2> QED
    BY <2>4, <2>5, OccupiedFinite DEF SlotLimit
<1>3. CASE ~(i \in Previews /\ ~Registered(i) /\ record'[i].status # "absent")
  <2>1. Occupied' \subseteq Occupied
    BY <1>1, <1>3 DEF Occupied, Registered, Instances
  <2>2. Cardinality(Occupied') <= Cardinality(Occupied) /\ Cardinality(Occupied') \in Nat
    BY <2>1, OccupiedFinite, FS_Subset, FS_CardinalityType
  <2> QED
    BY <2>2, OccupiedFinite DEF SlotLimit
<1> QED
  BY <1>2, <1>3

LEMMA RegistryKept == Inv /\ TypeInv' /\ RegistryStep => RegistryInv'
<1> SUFFICES ASSUME Inv, TypeInv', RegistryStep
             PROVE  RegistryInv'
  OBVIOUS
<1>0. TypeOK /\ TypeOK' /\ RegistryInv
  BY DEF Inv, TypeInv
<1>1. CASE UNCHANGED registryVars
  BY <1>0, <1>1 DEF registryVars, RegistryInv, SlotLimit, Occupied, Registered
<1>2. ASSUME NEW i \in Instances, Move(i)
      PROVE  RegistryInv'
  <2>1. SlotLimit'
    BY <1>0, <1>2, SlotsKept DEF RegistryInv
  <2>2. ASSUME NEW j \in Instances
        PROVE  /\ ~Registered(j)' => record'[j].generation = 0
               /\ Registered(j)' => record'[j].generation \in Generations
               /\ Registered(j)' => tombstone'[j] <= record'[j].generation
               /\ record'[j].status = "deleting"
                    => j \in Previews /\ tombstone'[j] = record'[j].generation
               /\ record'[j].status \in {"retiring", "retired"} => j \in Stagings
               /\ record'[j].expires # "never" => j \in Previews
    <3>1. CASE j # i
      BY <1>0, <1>2, <3>1 DEF Move, RegistryInv, Registered
    <3>2. CASE j = i /\ Delivered(i)
      BY <1>0, <3>2 DEF Delivered, Registered, Generations, RegistryInv
    <3>3. CASE j = i /\ Relabelled(i)
      BY <1>0, <3>3 DEF Relabelled, RegistryInv, Registered
    <3>4. CASE j = i /\ Closed(i)
      BY <1>0, <3>4, Entry DEF Closed, Registered, RegistryInv, Generations
    <3>5. CASE j = i /\ Forgotten(i)
      BY <1>0, <3>5 DEF Forgotten, Registered, Absent
    <3>6. CASE j = i /\ Barred(i)
      BY <1>0, <3>6 DEF Barred, RegistryInv, Registered
    <3> QED
      BY <1>2, <3>1, <3>2, <3>3, <3>4, <3>5, <3>6 DEF Move
  <2> QED
    BY <2>1, <2>2 DEF RegistryInv
<1> QED
  BY <1>1, <1>2 DEF RegistryStep

-----------------------------------------------------------------------------
(* Every step keeps what the operation relies on.                          *)

LEMMA RequestsOp == Inv /\ Requests => OpInv'
<1> SUFFICES ASSUME Inv, Requests
             PROVE  OpInv'
  OBVIOUS
<1>0. /\ TypeOK /\ TypeInv /\ RegistryInv /\ OpInv
      /\ record \in [Instances -> Record] /\ tombstone \in [Instances -> 0 .. MaxGeneration]
  BY DEF Inv, TypeInv, TypeOK
<1>1. ASSUME NEW i \in Instances, NEW g \in Generations, NEW reopen \in BOOLEAN,
             StartApply(i, g, reopen)
      PROVE  OpInv'
  <2> DEFINE s == IF BackupRequired(i) THEN "backup" ELSE "prepare"
  <2>1. s \in Steps /\ s \in {"backup", "prepare"}
    BY Names
  <2>2. Begin("apply", s, i, g) /\ UNCHANGED registryVars
    BY <1>1 DEF StartApply
  <2> HIDE DEF s
  <2>3. /\ op'.kind = "apply" /\ op'.step = s /\ op'.instance = i
        /\ op'.generation = g /\ op'.batch = {}
    BY <2>1, <2>2, BeginFields, Names, GenerationBounds
  <2>4. g > Fence(i)
    BY <1>1, <1>0, Entry DEF StartApply, NewerThanTombstone, Generations
  <2>5. i \in Previews /\ ~Registered(i) => Cardinality(Occupied) < PreviewLimit
    <3>1. ~Registered(i) => Occupied \ {i} = Occupied
      BY DEF Occupied
    <3> QED
      BY <1>1, <3>1 DEF StartApply, SlotAvailable
  <2>6. Admissible(i, g)
    BY <1>1, <2>4, <2>5 DEF StartApply, Admissible
  <2>7. Admissible(i, g)'
    BY <2>2, <2>6 DEF Admissible, registryVars, Fence, Registered, Occupied
  <2> QED
    BY <2>1, <2>3, <2>7
    DEF OpInv, Admitting, Delivering, Closing, Removing, Fencing, Stripping
<1>2. ASSUME NEW i \in Instances, NEW g \in Generations, StartDestroy(i, g)
      PROVE  OpInv'
  <2>1. /\ op'.kind = "destroy" /\ op'.step = "close" /\ op'.instance = i
        /\ op'.generation = g /\ op'.batch = {}
    BY <1>2, BeginFields, Names, GenerationBounds DEF StartDestroy
  <2>2. Registered(i)' /\ g >= Fence(i)'
    BY <1>2 DEF StartDestroy, registryVars, Fence, Registered
  <2> QED
    BY <2>1, <2>2 DEF OpInv, Admitting, Delivering, Closing, Removing, Fencing, Stripping
<1>3. ASSUME NEW i \in Instances, NEW g \in Generations, CloseAbsent(i, g) \/ Renew(i, g)
      PROVE  OpInv'
  <2>1. op' = Idle
    BY <1>0, <1>3, FreeIsIdle DEF CloseAbsent, Renew
  <2> QED
    BY <2>1, IdleOp
<1>4. ASSUME NEW i \in Instances, StartBackup(i)
      PROVE  OpInv'
  <2>1. op'.kind = "backup" /\ op'.batch = {}
    BY <1>4, BeginFields, Names, GenerationBounds DEF StartBackup
  <2> QED
    BY <2>1 DEF OpInv, Admitting, Delivering, Closing, Removing, Fencing, Stripping
<1>5. ASSUME NEW i \in Instances, StartRetire(i)
      PROVE  OpInv'
  <2>1. op'.kind = "retire" /\ op'.step = "fence" /\ op'.instance = i /\ op'.batch = {}
    BY <1>5, BeginFields, Names, GenerationBounds DEF StartRetire
  <2>2. record'[i].status \notin {"absent", "retired"}
    BY <1>5 DEF StartRetire, registryVars, Registered
  <2> QED
    BY <2>1, <2>2 DEF OpInv, Admitting, Delivering, Closing, Removing, Fencing, Stripping
<1>6. CASE StartCleanup
  <2> DEFINE B == {i \in Previews : Reclaimable(i)}
  <2>1. op' = [Idle EXCEPT !.kind = "destroy", !.step = "next", !.batch = B]
    BY <1>6 DEF StartCleanup
  <2>2. record' = record
    BY <1>6 DEF StartCleanup, registryVars
  <2>3. \A i \in B : Reclaimable(i)' /\ i # NoInstance
    BY <2>2 DEF Reclaimable, Registered, Instances
  <2> HIDE DEF B
  <2>4. op'.kind = "destroy" /\ op'.step = "next" /\ op'.batch = B /\ op'.instance = NoInstance
    BY <2>1 DEF Idle
  <2> QED
    BY <2>3, <2>4 DEF OpInv, Admitting, Delivering, Closing, Removing, Fencing, Stripping
<1>7. CASE StartRefresh
  <2>1. op'.kind = "refresh" /\ op'.batch = {}
    BY <1>7, BeginFields, Names, GenerationBounds DEF StartRefresh
  <2> QED
    BY <2>1 DEF OpInv, Admitting, Delivering, Closing, Removing, Fencing, Stripping
<1> QED
  BY <1>1, <1>2, <1>3, <1>4, <1>5, <1>6, <1>7 DEF Requests

\* The batch of a destruction is empty in every other kind of operation.
LEMMA DeliverOp == Inv /\ Deliver => OpInv'
<1> SUFFICES ASSUME Inv, Deliver
             PROVE  OpInv'
  OBVIOUS
<1>0. /\ TypeOK /\ OpShape /\ OpInv /\ op \in Operation
      /\ record \in [Instances -> Record]
  BY DEF Inv, TypeInv, TypeOK
<1>1. CASE Reserve
  <2> DEFINE i == op.instance
  <2>1. i \in Instances /\ op.generation \in Generations
    BY <1>1, <1>0, IdleType DEF Reserve, At, OpShape
  <2>2. /\ op'.step = "write" /\ op'.kind = "apply" /\ op'.instance = i
        /\ op'.generation = op.generation /\ op'.batch = op.batch
    BY <1>1, <1>0, GotoFields, Names DEF Reserve, At
  <2>3. record'[i].status = "preparing" /\ record'[i].generation = op.generation
    BY <1>1, <1>0, <2>1 DEF Reserve
  <2>4. \A j \in op.batch : Reclaimable(j) /\ j # i /\ record'[j] = record[j]
    BY <1>1, <1>0 DEF OpInv, Reserve, Operation, Instances
  <2>5. \A j \in op.batch : Reclaimable(j)'
    BY <2>4 DEF Reclaimable, Registered
  <2> QED
    BY <2>2, <2>3, <2>4, <2>5
    DEF OpInv, Admitting, Delivering, Closing, Removing, Fencing, Stripping
<1>2. CASE CommitReady \/ CommitFailed
  BY <1>2, IdleOp DEF CommitReady, CommitFailed, Release
<1>3. CASE PrepareDirectory
  BY <1>3, GotoKeeps, Names DEF PrepareDirectory, At, Admitting
<1>4. CASE WriteCompose
  BY <1>4, GotoKeeps, Names DEF WriteCompose, At, Delivering
<1>5. CASE StartFirstService
  BY <1>5, GotoKeeps, Names DEF StartFirstService, At, Delivering
<1>6. CASE StartOtherServices
  BY <1>6, GotoKeeps, Names DEF StartOtherServices, At, Delivering
<1>7. CASE VerifyDelivery
  BY <1>7, GotoKeeps, Names DEF VerifyDelivery, At, Delivering
<1>8. CASE DeliveryFails
  BY <1>8, GotoKeeps, Names DEF DeliveryFails, Delivering
<1> QED
  BY <1>1, <1>2, <1>3, <1>4, <1>5, <1>6, <1>7, <1>8 DEF Deliver

LEMMA PublishOp == Inv /\ Publish => OpInv'
<1> SUFFICES ASSUME Inv, Publish
             PROVE  OpInv'
  OBVIOUS
<1>1. PICK s \in {AfterPublish, AfterFailure, "persist"} :
        Goto(s) /\ UNCHANGED registryVars /\ op.step \in {"load", "persist"}
  BY DEF Publish, PublishUnchanged, LoadRoutes, PersistRoutes, PersistFails, LoadUnanswered
<1>2. CASE op.kind = "apply"
  <2>1. Delivering /\ s \in {"persist", "commit", "fail"}
    BY <1>1, <1>2 DEF Delivering, AfterPublish, AfterFailure
  <2> QED
    BY <1>1, <2>1, GotoKeeps, Names
<1>3. CASE op.kind = "destroy"
  <2>1. Removing /\ s \in {"persist", "remove", "next"}
    BY <1>1, <1>3 DEF Removing, AfterPublish, AfterFailure
  <2> QED
    BY <1>1, <2>1, GotoKeeps, Names
<1>4. CASE op.kind = "retire"
  <2>1. Stripping /\ s \in {"persist", "strip", "next"}
    BY <1>1, <1>4 DEF Stripping, AfterPublish, AfterFailure
  <2> QED
    BY <1>1, <2>1, GotoKeeps, Names
<1>5. CASE op.kind = "refresh"
  <2>1. s \in {"persist", "next"}
    BY <1>1, <1>5 DEF AfterPublish, AfterFailure
  <2> QED
    BY <1>1, <1>5, <2>1, GotoKeeps, Names
<1>6. op.kind \in {"apply", "destroy", "retire", "refresh"}
  BY <1>1, IdleType DEF Inv, TypeInv, OpShape
<1> QED
  BY <1>2, <1>3, <1>4, <1>5, <1>6

LEMMA DestroyOp == Inv /\ Destroy => OpInv'
<1> SUFFICES ASSUME Inv, Destroy
             PROVE  OpInv'
  OBVIOUS
<1>0. /\ TypeOK /\ OpShape /\ OpInv /\ RegistryInv /\ op \in Operation
      /\ record \in [Instances -> Record] /\ tombstone \in [Instances -> 0 .. MaxGeneration]
  BY DEF Inv, TypeInv, TypeOK
<1>1. CASE CloseInstance
  <2> DEFINE i == op.instance
  <2>1. i \in Instances
    BY <1>1, <1>0, IdleType DEF CloseInstance, At, OpShape, Instances
  <2>2. /\ op'.kind = "destroy" /\ op'.step = "load" /\ op'.instance = i
        /\ op'.batch = op.batch
    BY <1>1, <1>0 DEF CloseInstance, At, Operation
  <2>3. record'[i].status = "deleting"
    BY <1>1, <1>0, <2>1 DEF CloseInstance, Record
  <2>4. \A j \in op.batch : Reclaimable(j) /\ j # i /\ record'[j] = record[j]
    BY <1>1, <1>0 DEF OpInv, CloseInstance, Operation, Instances
  <2>5. \A j \in op.batch : Reclaimable(j)'
    BY <2>4 DEF Reclaimable, Registered
  <2> QED
    BY <2>2, <2>3, <2>4, <2>5
    DEF OpInv, Admitting, Delivering, Closing, Removing, Fencing, Stripping
<1>2. CASE RemoveContainer \/ RemoveVolume
  <2>1. /\ op'.kind = op.kind /\ op'.step = op.step /\ op'.instance = op.instance
        /\ op'.generation = op.generation /\ op'.batch = op.batch
        /\ UNCHANGED registryVars
    BY <1>2, <1>0 DEF RemoveContainer, RemoveVolume, Operation
  <2>2. /\ Admitting' => Admitting
        /\ Delivering' => Delivering
        /\ Closing' => Closing
        /\ Removing' => Removing
        /\ Fencing' => Fencing
        /\ Stripping' => Stripping
    BY <2>1 DEF Admitting, Delivering, Closing, Removing, Fencing, Stripping
  <2> QED
    BY <1>0, <2>1, <2>2, KeepOp
<1>3. CASE RemovalVerified
  BY <1>3, GotoKeeps, Names DEF RemovalVerified, At, Removing
<1>4. CASE RemovalIncomplete \/ DirectoryMissing
  BY <1>4, GotoKeeps, Names DEF RemovalIncomplete, DirectoryMissing
<1>5. CASE RemoveDirectory
  BY <1>5, GotoKeeps, Names DEF RemoveDirectory, At, Removing
<1>6. CASE ForgetRecord
  <2>1. op'.step = "next" /\ op'.instance = op.instance /\ op'.batch = op.batch
    BY <1>6, <1>0, GotoFields, Names DEF ForgetRecord, At
  <2>2. \A j \in op.batch : Reclaimable(j) /\ j # op.instance /\ record'[j] = record[j]
    BY <1>6, <1>0 DEF OpInv, ForgetRecord, Operation, Instances
  <2>3. \A j \in op.batch : Reclaimable(j)'
    BY <2>2 DEF Reclaimable, Registered
  <2> QED
    BY <2>1, <2>2, <2>3
    DEF OpInv, Admitting, Delivering, Closing, Removing, Fencing, Stripping
<1>7. CASE NextInBatch
  <2>1. CASE op.batch = {}
    BY <1>7, <2>1, IdleOp DEF NextInBatch, Release
  <2>2. CASE op.batch # {}
    <3>1. PICK i \in op.batch :
             op' = [Idle EXCEPT !.kind = "destroy", !.step = "close", !.instance = i,
                                !.generation = record[i].generation,
                                !.batch = op.batch \ {i}]
      BY <1>7, <2>2 DEF NextInBatch
    <3>2. /\ op'.kind = "destroy" /\ op'.step = "close" /\ op'.instance = i
          /\ op'.generation = record[i].generation /\ op'.batch = op.batch \ {i}
      BY <3>1 DEF Idle
    <3>3. i \in Instances /\ Registered(i)
      BY <1>0 DEF Operation, Instances, OpInv, Reclaimable
    <3>4. record[i].generation >= Fence(i)
      BY <1>0, <3>3, Entry DEF RegistryInv, Fence
    <3>5. UNCHANGED registryVars
      BY <1>7 DEF NextInBatch
    <3>6. Registered(i)' /\ record[i].generation >= Fence(i)'
      BY <3>3, <3>4, <3>5 DEF registryVars, Fence, Registered
    <3>7. \A j \in op'.batch : Reclaimable(j)' /\ j # i
      BY <1>0, <3>2, <3>5 DEF OpInv, registryVars, Reclaimable, Registered
    <3> QED
      BY <3>2, <3>6, <3>7
      DEF OpInv, Admitting, Delivering, Closing, Removing, Fencing, Stripping
  <2> QED
    BY <2>1, <2>2
<1> QED
  BY <1>1, <1>2, <1>3, <1>4, <1>5, <1>6, <1>7 DEF Destroy

LEMMA RetireOp == Inv /\ Retire => OpInv'
<1> SUFFICES ASSUME Inv, Retire
             PROVE  OpInv'
  OBVIOUS
<1>0. /\ TypeOK /\ OpShape /\ OpInv /\ op \in Operation
      /\ record \in [Instances -> Record]
  BY DEF Inv, TypeInv, TypeOK
<1>1. CASE FenceRetirement
  <2> DEFINE i == op.instance
  <2>1. i \in Instances
    BY <1>1, <1>0, IdleType DEF FenceRetirement, At, OpShape, Instances
  <2>2. /\ op'.kind = "retire" /\ op'.step = "load" /\ op'.instance = i
        /\ op'.batch = op.batch
    BY <1>1, <1>0 DEF FenceRetirement, At, Operation
  <2>3. record'[i].status = "retiring"
    BY <1>1, <1>0, <2>1 DEF FenceRetirement, Record
  <2>4. \A j \in op.batch : Reclaimable(j) /\ j # i /\ record'[j] = record[j]
    BY <1>1, <1>0 DEF OpInv, FenceRetirement, Operation, Instances
  <2>5. \A j \in op.batch : Reclaimable(j)'
    BY <2>4 DEF Reclaimable, Registered
  <2> QED
    BY <2>2, <2>3, <2>4, <2>5
    DEF OpInv, Admitting, Delivering, Closing, Removing, Fencing, Stripping
<1>2. CASE RetirementVerified
  BY <1>2, GotoKeeps, Names DEF RetirementVerified, At, Stripping
<1>3. CASE CommitRetired
  BY <1>3, IdleOp DEF CommitRetired, Release
<1> QED
  BY <1>1, <1>2, <1>3 DEF Retire

LEMMA BackupOp == Inv /\ Backup => OpInv'
<1> SUFFICES ASSUME Inv, Backup
             PROVE  OpInv'
  OBVIOUS
<1>0. TypeOK /\ OpInv /\ op \in Operation
  BY DEF Inv, TypeInv, TypeOK
<1>1. CASE BackupSucceeds /\ op.kind = "apply"
  <2>1. /\ op'.kind = op.kind /\ op'.step = "prepare" /\ op'.instance = op.instance
        /\ op'.generation = op.generation /\ op'.batch = op.batch
        /\ UNCHANGED registryVars
    BY <1>0, <1>1 DEF BackupSucceeds, Operation
  <2>2. /\ Admitting' => Admitting
        /\ Delivering' => Delivering
        /\ Closing' => Closing
        /\ Removing' => Removing
        /\ Fencing' => Fencing
        /\ Stripping' => Stripping
    BY <1>1, <2>1
    DEF BackupSucceeds, Admitting, Delivering, Closing, Removing, Fencing, Stripping
  <2> QED
    BY <1>0, <2>1, <2>2, KeepOp
<1>2. CASE BackupSucceeds /\ op.kind # "apply"
  BY <1>2, IdleOp DEF BackupSucceeds
<1>3. CASE BackupFails \/ DetachedBackupEnds
  BY <1>3, IdleOp DEF BackupFails, DetachedBackupEnds, Release
<1> QED
  BY <1>1, <1>2, <1>3 DEF Backup

LEMMA EnvironmentOp == Inv /\ Environment => OpInv'
<1> SUFFICES ASSUME Inv, Environment
             PROVE  OpInv'
  OBVIOUS
<1>0. /\ TypeOK /\ OpInv /\ op \in Operation /\ record \in [Instances -> Record]
  BY DEF Inv, TypeInv, TypeOK
<1>1. CASE Crash
  <2>1. CASE op.step = "backup"
    BY <1>1, <2>1, GotoKeeps, Names DEF Crash, registryVars
  <2>2. CASE op.step # "backup"
    BY <1>1, <2>2, IdleOp DEF Crash, Release
  <2> QED
    BY <2>1, <2>2
<1>2. CASE OperationFails
  BY <1>2, GotoKeeps, Names DEF OperationFails
<1>3. CASE SaveFails
  BY <1>3, IdleOp DEF SaveFails, Release
<1>4. CASE CaddyRestarts
  BY <1>0, <1>4, KeepOp
  DEF CaddyRestarts, Admitting, Delivering, Closing, Removing, Fencing, Stripping
<1>5. ASSUME NEW i \in Instances, NEW g \in Generations, OrphanRuns(i, g)
      PROVE  OpInv'
  BY <1>0, <1>5, KeepOp
  DEF OrphanRuns, Admitting, Delivering, Closing, Removing, Fencing, Stripping
<1>6. ASSUME NEW i \in Instances, LeaseEnds(i) \/ Expires(i)
      PROVE  OpInv'
  <2>1. /\ op' = op /\ tombstone' = tombstone
        /\ \A j \in Instances : /\ record'[j].status = record[j].status
                                /\ record'[j].generation = record[j].generation
                                /\ record[j].leaseOver => record'[j].leaseOver
                                /\ record[j].expires = "past" => record'[j].expires = "past"
    BY <1>0, <1>6 DEF LeaseEnds, Expires, Record
  <2>2. Occupied' = Occupied
    BY <2>1 DEF Occupied, Registered, Instances
  <2>3. \A j \in op.batch : Reclaimable(j) => Reclaimable(j)'
    BY <1>0, <2>1 DEF Operation, Reclaimable, Registered, Instances
  <2>4. Admitting => op.instance \in Instances
    BY IdleType DEF Inv, TypeInv, OpShape, Admitting
  <2>5. (Delivering \/ Closing \/ Removing \/ Fencing \/ Stripping) => op.instance \in Instances
    BY IdleType DEF Inv, TypeInv, OpShape, Delivering, Closing, Removing, Fencing, Stripping,
       Instances
  <2>6. Admitting' => Admissible(op.instance, op.generation)'
    BY <1>0, <2>1, <2>2, <2>4 DEF OpInv, Admitting, Admissible, Registered, Fence
  <2> QED
    BY <1>0, <2>1, <2>3, <2>5, <2>6
    DEF OpInv, Admitting, Delivering, Closing, Removing, Fencing, Stripping, Registered, Fence
<1> QED
  BY <1>1, <1>2, <1>3, <1>4, <1>5, <1>6 DEF Environment

-----------------------------------------------------------------------------
(* The inductive invariant.                                                *)

LEMMA InitInv == Init => Inv
<1> SUFFICES ASSUME Init
             PROVE  Inv
  OBVIOUS
<1>1. Occupied = {}
  BY DEF Init, Occupied, Registered, Absent, Instances
<1>2. SlotLimit
  BY <1>1, FS_EmptySet DEF SlotLimit
<1>3. RegistryInv
  BY <1>2 DEF Init, RegistryInv, Absent, Registered
<1>4. OpInv
  BY IdleType DEF Init, OpInv, Admitting, Delivering, Closing, Removing, Fencing, Stripping
<1> QED
  BY <1>3, <1>4, InitType DEF Inv

LEMMA NextInv == Inv /\ [Next]_vars => Inv'
<1> SUFFICES ASSUME Inv, [Next]_vars
             PROVE  Inv'
  OBVIOUS
<1>1. TypeInv'
  BY NextType DEF Inv
<1>2. RegistryInv'
  BY <1>1, NextMove, RegistryKept
<1>3. OpInv'
  <2>1. CASE UNCHANGED vars
    BY <2>1, KeepOp
    DEF Inv, vars, Admitting, Delivering, Closing, Removing, Fencing, Stripping
  <2> QED
    BY <2>1, RequestsOp, DeliverOp, PublishOp, DestroyOp, RetireOp, BackupOp, EnvironmentOp
    DEF Next
<1> QED
  BY <1>1, <1>2, <1>3 DEF Inv

\* What every operation relies on between two of its durable steps is still so:
\* the lock it holds makes the admission it was given, the record it reserved and
\* the closure it saved its own until it answers, fails or is killed.
THEOREM Invariance == Spec => []Inv
<1>1. Init => Inv
  BY InitInv
<1>2. Inv /\ [Next]_vars => Inv'
  BY NextInv
<1> QED
  BY <1>1, <1>2, PTL DEF Spec

\* The previews never outnumber policy["preview_limit"] (_admit_preview).
THEOREM SlotLimitHolds == Spec => []SlotLimit
<1>1. Inv => SlotLimit
  BY DEF Inv, RegistryInv
<1> QED
  BY <1>1, Invariance, PTL

\* The previews _reclaim_previews listed stay reclaimable until their turn.
THEOREM BatchReclaimable == Spec => []BatchStillReclaimable
<1>1. Inv => BatchStillReclaimable
  BY DEF Inv, OpInv, BatchStillReclaimable
<1> QED
  BY <1>1, Invariance, PTL

-----------------------------------------------------------------------------
(* What one step may never do to the registry.                             *)

LEMMA FenceRises ==
    ASSUME Inv, TypeInv', RegistryStep, NEW i \in Instances
    PROVE  Fence(i)' >= Fence(i)
<1>0. /\ TypeOK /\ TypeOK' /\ RegistryInv
      /\ Fence(i) \in 0 .. MaxGeneration
  BY Entry DEF Inv, TypeInv
<1>1. CASE record'[i] = record[i] /\ tombstone'[i] = tombstone[i]
  BY <1>0, <1>1 DEF Fence
<1>2. CASE Delivered(i)
  BY <1>0, <1>2 DEF Delivered, Admissible, Fence, Generations
<1>3. CASE Relabelled(i)
  BY <1>0, <1>3 DEF Relabelled, Fence
<1>4. CASE Closed(i)
  BY <1>0, <1>4 DEF Closed, Fence
<1>5. CASE Forgotten(i)
  BY <1>0, <1>5, Entry DEF Forgotten, Absent, RegistryInv, Fence
<1>6. CASE Barred(i)
  BY <1>0, <1>6, Entry DEF Barred, RegistryInv, Fence, Generations
<1> QED
  BY <1>1, <1>2, <1>3, <1>4, <1>5, <1>6 DEF RegistryStep, Move, registryVars

\* The registry never forgets how far an instance's generations went.
THEOREM FencesRise == Spec => FencesOnlyRise
<1>1. Inv /\ Inv' /\ [Next]_vars => [\A i \in Instances : Fence(i)' >= Fence(i)]_vars
  BY NextMove, FenceRises DEF Inv
<1> QED
  BY <1>1, Invariance, PTL DEF Spec, FencesOnlyRise

\* Only a delivery above every known generation replaces a record.
THEOREM DeliveriesOutrank == Spec => DeliveriesOutrankFence
<1> DEFINE Outranks(i) ==
             /\ record'[i].status = "preparing"
             /\ \/ record[i].status # "preparing"
                \/ record'[i].generation # record[i].generation
             => record'[i].generation > Fence(i)
<1>1. ASSUME RegistryStep, NEW i \in Instances
      PROVE  Outranks(i)
  <2>1. CASE record'[i] = record[i]
    BY <2>1
  <2>2. CASE Delivered(i)
    BY <2>2 DEF Delivered, Admissible
  <2>3. CASE Relabelled(i)
    BY <2>3 DEF Relabelled
  <2>4. CASE Closed(i)
    BY <2>4 DEF Closed
  <2>5. CASE Forgotten(i)
    BY <2>5 DEF Forgotten, Absent
  <2>6. CASE Barred(i)
    BY <2>6 DEF Barred
  <2> QED
    BY <1>1, <2>1, <2>2, <2>3, <2>4, <2>5, <2>6 DEF RegistryStep, Move, registryVars
<1>2. Inv /\ [Next]_vars => [\A i \in Instances : Outranks(i)]_vars
  BY <1>1, NextMove
<1> QED
  BY <1>2, Invariance, PTL DEF Spec, DeliveriesOutrankFence

\* Nothing revives, redelivers or touches a retired instance, and a retirement
\* once begun only goes on.
THEOREM RetirementFinal == Spec => RetirementIsFinal
<1> DEFINE Final(i) ==
             /\ record[i].status = "retired" => record'[i] = record[i]
             /\ record[i].status = "retiring" => record'[i].status \in {"retiring", "retired"}
<1>1. ASSUME Inv, RegistryStep, NEW i \in Instances
      PROVE  Final(i)
  <2>0. record[i].status \in {"retiring", "retired"} => i \notin Previews
    BY <1>1 DEF Inv, RegistryInv
  <2>1. CASE record'[i] = record[i]
    BY <2>1
  <2>2. CASE Delivered(i)
    BY <2>2 DEF Delivered, Admissible
  <2>3. CASE Relabelled(i)
    BY <2>0, <2>3 DEF Relabelled
  <2>4. CASE Closed(i)
    BY <2>0, <2>4 DEF Closed
  <2>5. CASE Forgotten(i)
    BY <2>5 DEF Forgotten
  <2>6. CASE Barred(i)
    BY <2>6 DEF Barred
  <2> QED
    BY <1>1, <2>1, <2>2, <2>3, <2>4, <2>5, <2>6 DEF RegistryStep, Move, registryVars
<1>2. Inv /\ [Next]_vars => [\A i \in Instances : Final(i)]_vars
  BY <1>1, NextMove
<1> QED
  BY <1>2, Invariance, PTL DEF Spec, RetirementIsFinal

-----------------------------------------------------------------------------
(* The refinement of Lifecycle.                                            *)

phaseBar == [i \in Instances |-> PhaseOf(record[i].status)]
fenceBar == [i \in Instances |-> Fence(i)]

LEMMA PhaseNames ==
    /\ PhaseOf("absent") = "closed"
    /\ PhaseOf("preparing") = "pending"
    /\ PhaseOf("failed") = "pending"
    /\ PhaseOf("ready") = "serving"
    /\ PhaseOf("deleting") = "closing"
    /\ PhaseOf("retiring") = "retiring"
    /\ PhaseOf("retired") = "retired"
    /\ \A s \in Statuses : PhaseOf(s) = "closed" <=> s = "absent"
BY DEF PhaseOf, Statuses

\* A move of one entry is a move of one phase and one fence.
LEMMA OnePhase ==
    ASSUME NEW i \in Instances, Move(i)
    PROVE  /\ phaseBar' = [phaseBar EXCEPT ![i] = PhaseOf(record'[i].status)]
           /\ fenceBar' = [fenceBar EXCEPT ![i] = Fence(i)']
BY DEF Move, phaseBar, fenceBar, Fence

\* Lifecycle counts with the same Cardinality.
LEMMA SameCardinality == \A S : Promise!Cardinality(S) = Cardinality(S)
BY Zenon DEF Promise!Cardinality, Cardinality

LEMMA InitPromise == Init => Promise!Init
BY PhaseNames DEF Init, Promise!Init, Promise!Instances, Instances, Absent, Fence

LEMMA StepPromise ==
    ASSUME Inv, TypeInv', RegistryStep
    PROVE  Promise!Next \/ UNCHANGED <<phaseBar, fenceBar>>
<1>0. TypeOK /\ RegistryInv /\ TypeOK'
  BY DEF Inv, TypeInv
<1>1. CASE UNCHANGED registryVars
  BY <1>1 DEF registryVars, phaseBar, fenceBar, Fence
<1>2. ASSUME NEW i \in Instances, Move(i)
      PROVE  Promise!Next \/ UNCHANGED <<phaseBar, fenceBar>>
  <2>1. /\ phaseBar' = [phaseBar EXCEPT ![i] = PhaseOf(record'[i].status)]
        /\ fenceBar' = [fenceBar EXCEPT ![i] = Fence(i)']
    BY <1>2, OnePhase
  <2>2. phaseBar[i] = PhaseOf(record[i].status) /\ fenceBar[i] = Fence(i)
    BY DEF phaseBar, fenceBar
  <2>3. record[i].status \in Statuses
    BY <1>0 DEF TypeOK, Record
  <2>4. Fence(i) \in 0 .. MaxGeneration
    BY <1>0, Entry
  <2>5. CASE Delivered(i)
    <3> DEFINE g == record'[i].generation
    <3>1. g \in Generations /\ g > Fence(i) /\ Fence(i)' = g
      BY <2>5 DEF Delivered, Admissible, Fence, Generations
    <3>2. Promise!Slots = Occupied
      BY <1>0, PhaseNames DEF Promise!Slots, Occupied, Registered, TypeOK, Record, Instances
    <3>3. phaseBar[i] \notin {"retiring", "retired"}
      BY <2>2, <2>3, <2>5, PhaseNames DEF Delivered, Admissible, Statuses
    <3>4. i \in Previews /\ phaseBar[i] = "closed"
            => Promise!Cardinality(Promise!Slots) < PreviewLimit
      BY <2>2, <2>3, <2>5, <3>2, SameCardinality, PhaseNames
      DEF Delivered, Admissible, Registered
    <3>5. phaseBar' = [phaseBar EXCEPT ![i] = "pending"]
      BY <2>1, <2>5, PhaseNames DEF Delivered
    <3>6. Promise!Deliver(i, g)
      BY <2>1, <2>2, <3>1, <3>3, <3>4, <3>5
      DEF Promise!Deliver, Promise!Move, Promise!Raise, phaseBar, fenceBar
    <3> QED
      BY <3>1, <3>6 DEF Promise!Next, Promise!Instances, Promise!Generations, Instances, Generations
  <2>6. CASE Relabelled(i)
    <3>1. UNCHANGED fenceBar
      BY <2>1, <2>6 DEF Relabelled, Fence, fenceBar
    <3>2. CASE PhaseOf(record'[i].status) = PhaseOf(record[i].status)
      <4>1. UNCHANGED phaseBar
        BY <2>1, <3>2 DEF phaseBar
      <4> QED
        BY <3>1, <4>1
    <3>3. CASE record[i].status = "preparing" /\ record'[i].status = "ready"
      <4>1. Promise!Serve(i)
        BY <2>1, <2>2, <3>1, <3>3, PhaseNames
        DEF Promise!Serve, Promise!Move, phaseBar, fenceBar
      <4> QED
        BY <4>1 DEF Promise!Next, Promise!Instances, Instances
    <3>4. CASE /\ i \in Stagings
               /\ record[i].status \in {"preparing", "failed", "ready"}
               /\ record'[i].status = "retiring"
      <4>1. Promise!Retire(i)
        BY <2>1, <2>2, <3>1, <3>4, PhaseNames
        DEF Promise!Retire, Promise!Move, phaseBar, fenceBar
      <4> QED
        BY <4>1 DEF Promise!Next, Promise!Instances, Instances
    <3>5. CASE record[i].status = "retiring" /\ record'[i].status = "retired"
      <4>1. Promise!Retired(i)
        BY <2>1, <2>2, <3>1, <3>5, PhaseNames
        DEF Promise!Retired, Promise!Move, phaseBar, fenceBar
      <4> QED
        BY <4>1 DEF Promise!Next, Promise!Instances, Instances
    <3>6. i \in Stagings => record[i].status # "deleting"
      BY <1>0 DEF RegistryInv
    <3> QED
      BY <2>3, <2>6, <3>2, <3>3, <3>4, <3>5, <3>6, PhaseNames DEF Relabelled, Statuses
  <2>7. CASE Closed(i)
    <3> DEFINE g == record'[i].generation
    <3>1. g >= Fence(i) /\ Fence(i)' = g
      BY <1>0, <2>7 DEF Closed, Fence
    <3>2. record[i].generation \in Generations
      BY <1>0, <2>7 DEF Closed, RegistryInv
    <3>3. g \in Generations
      BY <1>0, <2>7, <3>1, <3>2, Entry DEF Closed, Generations
    <3>4. Promise!Close(i, g)
      BY <2>1, <2>2, <2>3, <2>7, <3>1, PhaseNames
      DEF Closed, Registered, Promise!Close, Promise!Move, Promise!Raise, phaseBar, fenceBar
    <3> QED
      BY <3>3, <3>4 DEF Promise!Next, Promise!Instances, Promise!Generations, Instances, Generations
  <2>8. CASE Forgotten(i)
    <3>1. Fence(i)' = Fence(i)
      BY <1>0, <2>8, Entry DEF Forgotten, Absent, RegistryInv, Fence
    <3>2. UNCHANGED fenceBar
      BY <2>1, <3>1 DEF fenceBar
    <3>3. record[i].status = "deleting" /\ record'[i].status = "absent"
      BY <2>8 DEF Forgotten, Absent
    <3>4. Promise!Forget(i)
      BY <2>1, <2>2, <3>2, <3>3, PhaseNames
      DEF Promise!Forget, Promise!Move, phaseBar, fenceBar
    <3> QED
      BY <3>4 DEF Promise!Next, Promise!Instances, Instances
  <2>9. CASE Barred(i)
    <3> DEFINE g == tombstone'[i]
    <3>1. g \in Generations /\ g > Fence(i) /\ Fence(i)' = g
      BY <1>0, <2>9, Entry DEF Barred, RegistryInv, Fence, Generations
    <3>2. UNCHANGED phaseBar
      BY <2>1, <2>9 DEF Barred, phaseBar
    <3>3. Promise!Bar(i, g)
      BY <2>1, <2>2, <2>9, <3>1, <3>2, PhaseNames
      DEF Barred, Registered, Promise!Bar, Promise!Raise, phaseBar, fenceBar
    <3> QED
      BY <3>1, <3>3 DEF Promise!Next, Promise!Instances, Promise!Generations, Instances, Generations
  <2> QED
    BY <1>2, <2>5, <2>6, <2>7, <2>8, <2>9 DEF Move
<1> QED
  BY <1>1, <1>2 DEF RegistryStep

\* Through every hand-over of the lock, failure and crash, the registry file
\* moves only as the abstract lifecycle allows.
THEOREM Refinement == Spec => ImplementsLifecycle
<1>1. Init => Promise!Init
  BY InitPromise
<1>2. Inv /\ Inv' /\ [Next]_vars => [Promise!Next]_(Promise!vars)
  <2> SUFFICES ASSUME Inv, Inv', [Next]_vars
               PROVE  [Promise!Next]_(Promise!vars)
    OBVIOUS
  <2>1. Promise!Next \/ UNCHANGED <<phaseBar, fenceBar>>
    BY NextMove, StepPromise DEF Inv
  <2> QED
    BY <2>1 DEF Promise!vars, phaseBar, fenceBar
<1> QED
  BY <1>1, <1>2, Invariance, PTL DEF Spec, ImplementsLifecycle, Promise!Spec
=============================================================================
