--------------------------- MODULE ControllerServing ---------------------------
(***************************************************************************)
(* What the registry says is true of the host, for every set of instances  *)
(* and every number of crashes: files and Caddy's configuration file in    *)
(* any environment; Docker's objects as long as no `docker compose up`     *)
(* outlives the controller that started it.  Each invariant has two parts: *)
(* what holds of every record, and what the operation under the lock has   *)
(* achieved at the step where it is, so that the record it commits is true.*)
(***************************************************************************)
EXTENDS ControllerProofs, Maintenance

USE InstancesAssumption, BoundsAssumption

-----------------------------------------------------------------------------
(* The files.                                                              *)

DiskTruth ==
    \A i \in Instances :
        /\ record[i].status = "ready" =>
             i \in directories /\ compose[i] = record[i].generation /\ i \in file
        /\ record[i].status = "retired" => i \notin file

DiskProgress ==
    /\ op.kind = "apply" /\ op.step \in {"reserve", "write", "start", "started", "verify",
                                         "load", "persist", "commit"}
         => op.instance \in directories
    /\ op.kind = "apply" /\ op.step \in {"start", "started", "verify", "load", "persist", "commit"}
         => compose[op.instance] = op.generation
    /\ op.step = "commit" => op.instance \in file
    /\ op.step \in {"remove", "rmtree", "forget", "strip", "retired"} => op.instance \notin file

DiskInv == DiskTruth /\ DiskProgress

\* What the delivery under the lock will have Caddy's file route to is there.
StartedStands ==
    op.kind = "apply" /\ op.step \in {"started", "verify", "load", "persist"}
      => containers[op.instance] # {} /\ volume[op.instance] # 0

StandInv == FileRoutesStand /\ StartedStands

(* An orphaned compose.                                                    *)

OutrankInv ==
    /\ NothingOutranksFence
    /\ \A i \in Instances, g \in Generations : <<i, g>> \in orphans => g <= Fence(i)

(* Docker.                                                                 *)

DockerTruth ==
    \A i \in Instances :
        /\ Present(i) => Registered(i)
        /\ record[i].status = "ready" => containers[i] = {record[i].generation}
        /\ record[i].status = "retired" => containers[i] = {}

DockerProgress ==
    /\ op.kind = "apply" /\ op.step \in {"load", "persist", "commit"}
         => containers[op.instance] = {op.generation}
    /\ op.step \in {"rmtree", "forget"} => ~Present(op.instance)
    /\ op.step = "retired" => containers[op.instance] = {}

\* A delivery without a copy replaces nothing that needs one.
CopyKept ==
    op.kind = "apply" /\ op.step \in {"prepare", "reserve"} /\ ~op.savedCopy
      => \/ op.instance \notin BackupCommands
         \/ ~Registered(op.instance)
         \/ ~Present(op.instance) /\ ~EverReady(op.instance)

DockerInv == orphans = {} /\ DockerTruth /\ DockerProgress /\ CopyKept

-----------------------------------------------------------------------------
(* What the step of an operation says of its instance.                     *)

LEMMA Target ==
    ASSUME Inv
    PROVE  /\ op \in Operation
           /\ op.step \in {"prepare", "reserve"} =>
                op.kind = "apply" /\ op.instance \in Instances
           /\ op.step \in {"write", "start", "started", "verify", "commit", "fail"} =>
                /\ op.kind = "apply" /\ op.instance \in Instances
                /\ record[op.instance].status = "preparing"
                /\ record[op.instance].generation = op.generation
           /\ op.step \in {"remove", "rmtree", "forget"} =>
                /\ op.kind = "destroy" /\ op.instance \in Instances
                /\ record[op.instance].status = "deleting"
           /\ op.step \in {"strip", "retired"} =>
                /\ op.kind = "retire" /\ op.instance \in Instances
                /\ record[op.instance].status = "retiring"
           /\ op.step \in {"load", "persist"} =>
                \/ /\ op.kind = "apply" /\ op.instance \in Instances
                   /\ record[op.instance].status = "preparing"
                   /\ record[op.instance].generation = op.generation
                \/ /\ op.kind = "destroy" /\ op.instance \in Instances
                   /\ record[op.instance].status = "deleting"
                \/ /\ op.kind = "retire" /\ op.instance \in Instances
                   /\ record[op.instance].status = "retiring"
                \/ op.kind = "refresh" /\ op.instance = NoInstance
<1>1. op \in Operation /\ OpShape /\ OpInv
  BY DEF Inv, TypeInv, TypeOK
<1>2. CASE op = Idle
  BY <1>1, <1>2, IdleType
<1>3. CASE op.kind = "apply"
  BY <1>1, <1>3, IdleType DEF OpShape, OpInv, Delivering, ApplySteps
<1>4. CASE op.kind = "backup"
  BY <1>1, <1>4, IdleType DEF OpShape
<1>5. CASE op.kind = "destroy"
  BY <1>1, <1>5, IdleType DEF OpShape, OpInv, Removing, DestroySteps, Instances
<1>6. CASE op.kind = "retire"
  BY <1>1, <1>6, IdleType DEF OpShape, OpInv, Stripping, RetireSteps, Instances
<1>7. CASE op.kind = "refresh"
  BY <1>1, <1>7, IdleType DEF OpShape
<1> QED
  BY <1>1, <1>2, <1>3, <1>4, <1>5, <1>6, <1>7 DEF OpShape

\* No publish names a record that is not ready, but the delivery's own.
LEMMA Desired ==
    ASSUME Inv, op.step \in {"load", "persist"}
    PROVE  /\ \A i \in Instances : record[i].status = "ready" => i \in DesiredRoutes
           /\ \A i \in Instances : record[i].status = "retired" => i \notin DesiredRoutes
           /\ op.kind = "apply" => op.instance \in DesiredRoutes
           /\ op.kind # "apply" => op.instance \notin DesiredRoutes
BY Target DEF DesiredRoutes, ReadyRoutes

-----------------------------------------------------------------------------
(* How one step may change the registry, the files and Docker.             *)

\* No record comes to claim anything new of the host.
SameClaims ==
    \A i \in Instances :
        /\ record'[i].status \in {"absent", "preparing", "ready", "retired"} =>
             /\ record'[i].status = record[i].status
             /\ record'[i].generation = record[i].generation
        /\ record'[i].everReady = record[i].everReady

LEMMA ClaimsOfRequests == Inv /\ Requests => SameClaims
<1> SUFFICES ASSUME Inv, Requests
             PROVE  SameClaims
  OBVIOUS
<1>0. record \in [Instances -> Record]
  BY DEF Inv, TypeInv, TypeOK
<1>1. ASSUME NEW i \in Instances, NEW g \in Generations, Renew(i, g)
      PROVE  SameClaims
  BY <1>0, <1>1 DEF Renew, SameClaims
<1>2. CASE UNCHANGED record
  BY <1>2 DEF SameClaims
<1> QED
  BY <1>1, <1>2 DEF Requests, StartApply, StartDestroy, CloseAbsent, StartBackup, StartRetire,
                    StartCleanup, StartRefresh, registryVars

LEMMA ClaimsOfEnvironment == Inv /\ Environment => SameClaims
<1> SUFFICES ASSUME Inv, Environment
             PROVE  SameClaims
  OBVIOUS
<1>0. record \in [Instances -> Record]
  BY DEF Inv, TypeInv, TypeOK
<1>1. ASSUME NEW i \in Instances, LeaseEnds(i) \/ Expires(i)
      PROVE  SameClaims
  <2> SUFFICES ASSUME NEW j \in Instances
               PROVE  /\ record'[j].status = record[j].status
                      /\ record'[j].generation = record[j].generation
                      /\ record'[j].everReady = record[j].everReady
    BY DEF SameClaims
  <2>1. record[j] \in Record
    BY <1>0
  <2>2. CASE LeaseEnds(i)
    BY <1>0, <2>1, <2>2 DEF LeaseEnds, Record
  <2>3. CASE Expires(i)
    BY <1>0, <2>1, <2>3 DEF Expires, Record
  <2> QED
    BY <1>1, <2>2, <2>3
<1>2. CASE UNCHANGED record
  BY <1>2 DEF SameClaims
<1> QED
  BY <1>1, <1>2 DEF Environment, Crash, CaddyRestarts, OperationFails, SaveFails, OrphanRuns,
                    registryVars

\* Only a delivery's reservation and commit, the commit of a retirement and the end of
\* a destruction do.
LEMMA ClaimsStep ==
    Inv /\ [Next]_vars =>
        SameClaims \/ Reserve \/ CommitReady \/ CommitRetired \/ ForgetRecord
<1> SUFFICES ASSUME Inv, [Next]_vars
             PROVE  SameClaims \/ Reserve \/ CommitReady \/ CommitRetired \/ ForgetRecord
  OBVIOUS
<1>0. record \in [Instances -> Record]
  BY DEF Inv, TypeInv, TypeOK
<1>1. CASE UNCHANGED record
  BY <1>1 DEF SameClaims
<1>2. CASE CommitFailed \/ CloseInstance \/ FenceRetirement
  <2> SUFFICES ASSUME NEW j \in Instances
               PROVE  /\ record'[j].status \in {"failed", "deleting", "retiring"}
                           \/ record'[j] = record[j]
                      /\ record'[j].everReady = record[j].everReady
    BY DEF SameClaims
  <2>1. record[j] \in Record
    BY <1>0
  <2>2. CASE CommitFailed
    BY <1>0, <2>1, <2>2 DEF CommitFailed, Record
  <2>3. CASE CloseInstance
    BY <1>0, <2>1, <2>3 DEF CloseInstance, Record
  <2>4. CASE FenceRetirement
    BY <1>0, <2>1, <2>4 DEF FenceRetirement, Record
  <2> QED
    BY <1>2, <2>2, <2>3, <2>4
<1>3. CASE Deliver
  BY <1>1, <1>2, <1>3 DEF Deliver, PrepareDirectory, WriteCompose, StartFirstService,
     StartOtherServices, VerifyDelivery, DeliveryFails, registryVars
<1>4. CASE Publish
  BY <1>1, <1>4 DEF Publish, PublishUnchanged, LoadRoutes, PersistRoutes, PersistFails,
     LoadUnanswered, registryVars
<1>5. CASE Destroy
  BY <1>1, <1>2, <1>5 DEF Destroy, RemoveContainer, RemoveVolume, RemovalVerified,
     RemovalIncomplete, RemoveDirectory, DirectoryMissing, NextInBatch, registryVars
<1>6. CASE Retire
  BY <1>1, <1>2, <1>6 DEF Retire, RetirementVerified, registryVars
<1>7. CASE Backup
  BY <1>1, <1>7 DEF Backup, BackupSucceeds, BackupFails, DetachedBackupEnds, registryVars
<1>8. CASE UNCHANGED vars
  BY <1>1, <1>8 DEF vars, registryVars
<1> QED
  BY <1>3, <1>4, <1>5, <1>6, <1>7, <1>8, ClaimsOfRequests, ClaimsOfEnvironment DEF Next

\* Nothing is read of the host at such a step, whatever it is.
Fresh ==
    \/ op.step \in {"idle", "backup", "detached", "close", "fence", "next", "fail"}
    \/ op.kind = "refresh" /\ op.step = "load"

\* A delivery waits for its reservation.
Admitted ==
    \/ \E i \in Instances, g \in Generations, reopen \in BOOLEAN : StartApply(i, g, reopen)
    \/ BackupSucceeds

\* The operation goes on.
Advance ==
    \/ PrepareDirectory \/ Reserve \/ WriteCompose \/ StartFirstService \/ StartOtherServices
    \/ VerifyDelivery \/ CloseInstance \/ RemoveContainer \/ RemoveVolume \/ RemovalVerified
    \/ RemoveDirectory \/ FenceRetirement \/ RetirementVerified \/ Publish

\* The operation is not concerned.
Elapse ==
    \/ CaddyRestarts
    \/ \E i \in Instances : LeaseEnds(i) \/ Expires(i)
    \/ \E i \in Instances, g \in Generations : OrphanRuns(i, g)
    \/ UNCHANGED vars

LEMMA FreshRequests == Inv /\ Requests => Fresh' \/ Admitted
<1> SUFFICES ASSUME Inv, Requests
             PROVE  Fresh' \/ Admitted
  OBVIOUS
<1>1. ASSUME NEW i \in Instances, NEW g \in Generations,
             CloseAbsent(i, g) \/ Renew(i, g)
      PROVE  Fresh'
  BY <1>1 DEF CloseAbsent, Renew, Free, Fresh
<1>2. ASSUME NEW i \in Instances, NEW g \in Generations, StartDestroy(i, g)
      PROVE  Fresh'
  BY <1>2, BeginFields, Names, GenerationBounds DEF StartDestroy, Fresh
<1>3. ASSUME NEW i \in Instances, StartBackup(i) \/ StartRetire(i)
      PROVE  Fresh'
  BY <1>3, BeginFields, Names, GenerationBounds DEF StartBackup, StartRetire, Fresh
<1>4. CASE StartRefresh
  BY <1>4, BeginFields, Names, GenerationBounds DEF StartRefresh, Fresh
<1>5. CASE StartCleanup
  BY <1>5 DEF StartCleanup, Idle, Fresh
<1> QED
  BY <1>1, <1>2, <1>3, <1>4, <1>5 DEF Requests, Admitted

LEMMA FreshStep == Inv /\ [Next]_vars => Fresh' \/ Admitted \/ Advance \/ Elapse
<1> SUFFICES ASSUME Inv, [Next]_vars
             PROVE  Fresh' \/ Admitted \/ Advance \/ Elapse
  OBVIOUS
<1>0. op \in Operation
  BY DEF Inv, TypeInv, TypeOK
<1>1. CASE op' = Idle
  BY <1>1, IdleType DEF Fresh
<1>2. CASE Goto("next") \/ Goto("fail") \/ Goto("detached")
  BY <1>0, <1>2, GotoFields, Names DEF Fresh
<1>3. CASE NextInBatch /\ op.batch # {}
  BY <1>0, <1>3 DEF NextInBatch, Fresh, Idle
<1>4. CASE Deliver
  BY <1>1, <1>2, <1>4 DEF Deliver, CommitReady, CommitFailed, DeliveryFails, Release, Advance
<1>5. CASE Destroy
  BY <1>1, <1>2, <1>3, <1>5 DEF Destroy, RemovalIncomplete, DirectoryMissing, ForgetRecord,
     NextInBatch, Release, Advance
<1>6. CASE Retire
  BY <1>1, <1>6 DEF Retire, CommitRetired, Release, Advance
<1>7. CASE Backup
  BY <1>1, <1>7 DEF Backup, BackupFails, DetachedBackupEnds, Release, Admitted
<1>8. CASE Environment
  BY <1>1, <1>2, <1>8 DEF Environment, Crash, OperationFails, SaveFails, Release, Elapse
<1>9. CASE Publish \/ UNCHANGED vars
  BY <1>9 DEF Advance, Elapse
<1> QED
  BY <1>4, <1>5, <1>6, <1>7, <1>8, <1>9, FreshRequests DEF Next

LEMMA AdmittedStep ==
    ASSUME Inv, Admitted
    PROVE  op'.step \in {"idle", "backup", "prepare"}
<1>0. op \in Operation
  BY DEF Inv, TypeInv, TypeOK
<1>1. ASSUME NEW i \in Instances, NEW g \in Generations, NEW reopen \in BOOLEAN,
             StartApply(i, g, reopen)
      PROVE  op'.step \in {"backup", "prepare"}
  BY <1>1, BeginFields, Names, GenerationBounds DEF StartApply
<1>2. CASE BackupSucceeds
  BY <1>0, <1>2, IdleType DEF BackupSucceeds, Operation
<1> QED
  BY <1>1, <1>2 DEF Admitted

LEMMA FilesStep ==
    [Next]_vars =>
        \/ UNCHANGED <<directories, compose, file>>
        \/ PrepareDirectory \/ WriteCompose \/ RemoveDirectory \/ PersistRoutes \/ PersistFails
<1> SUFFICES ASSUME [Next]_vars
             PROVE  \/ UNCHANGED <<directories, compose, file>>
                    \/ PrepareDirectory \/ WriteCompose \/ RemoveDirectory \/ PersistRoutes
                    \/ PersistFails
  OBVIOUS
<1> USE DEF filesVars, caddyVars
<1>1. CASE Requests
  BY <1>1 DEF Requests, StartApply, StartDestroy, CloseAbsent, StartBackup, StartRetire,
              StartCleanup, StartRefresh, Renew
<1>2. CASE Deliver
  BY <1>2 DEF Deliver, Reserve, StartFirstService, StartOtherServices, VerifyDelivery,
              CommitReady, DeliveryFails, CommitFailed
<1>3. CASE Publish
  BY <1>3 DEF Publish, PublishUnchanged, LoadRoutes, LoadUnanswered
<1>4. CASE Destroy
  BY <1>4 DEF Destroy, CloseInstance, RemoveContainer, RemoveVolume, RemovalVerified,
              RemovalIncomplete, DirectoryMissing, ForgetRecord, NextInBatch
<1>5. CASE Retire \/ Backup
  BY <1>5 DEF Retire, FenceRetirement, RetirementVerified, CommitRetired, Backup,
              BackupSucceeds, BackupFails, DetachedBackupEnds
<1>6. CASE Environment
  BY <1>6 DEF Environment, Crash, CaddyRestarts, OperationFails, SaveFails, LeaseEnds, Expires,
              OrphanRuns
<1>7. CASE UNCHANGED vars
  BY <1>7 DEF vars
<1> QED
  BY <1>1, <1>2, <1>3, <1>4, <1>5, <1>6, <1>7 DEF Next

LEMMA DockerStep ==
    [Next]_vars =>
        \/ UNCHANGED dockerVars
        \/ StartFirstService \/ StartOtherServices \/ VerifyDelivery \/ RemoveContainer
        \/ RemoveVolume
        \/ \E i \in Instances, g \in Generations : OrphanRuns(i, g)
<1> SUFFICES ASSUME [Next]_vars
             PROVE  \/ UNCHANGED dockerVars
                    \/ StartFirstService \/ StartOtherServices \/ VerifyDelivery
                    \/ RemoveContainer \/ RemoveVolume
                    \/ \E i \in Instances, g \in Generations : OrphanRuns(i, g)
  OBVIOUS
<1>1. CASE Requests
  BY <1>1 DEF Requests, StartApply, StartDestroy, CloseAbsent, StartBackup, StartRetire,
              StartCleanup, StartRefresh, Renew
<1>2. CASE Deliver
  BY <1>2 DEF Deliver, PrepareDirectory, Reserve, WriteCompose, CommitReady, DeliveryFails,
              CommitFailed
<1>3. CASE Publish
  BY <1>3 DEF Publish, PublishUnchanged, LoadRoutes, PersistRoutes, PersistFails, LoadUnanswered
<1>4. CASE Destroy
  BY <1>4 DEF Destroy, CloseInstance, RemovalVerified, RemovalIncomplete, RemoveDirectory,
              DirectoryMissing, ForgetRecord, NextInBatch
<1>5. CASE Retire \/ Backup
  BY <1>5 DEF Retire, FenceRetirement, RetirementVerified, CommitRetired, Backup,
              BackupSucceeds, BackupFails, DetachedBackupEnds
<1>6. CASE Environment
  BY <1>6 DEF Environment, Crash, CaddyRestarts, OperationFails, SaveFails, LeaseEnds, Expires
<1>7. CASE UNCHANGED vars
  BY <1>7 DEF vars
<1> QED
  BY <1>1, <1>2, <1>3, <1>4, <1>5, <1>6, <1>7 DEF Next

-----------------------------------------------------------------------------
(* The files tell the truth.                                               *)

LEMMA DiskTruthKept == Inv /\ DiskInv /\ [Next]_vars => DiskTruth'
<1> SUFFICES ASSUME Inv, DiskInv, [Next]_vars
             PROVE  DiskTruth'
  OBVIOUS
<1>0. /\ record \in [Instances -> Record] /\ compose \in [Instances -> 0 .. MaxGeneration]
      /\ DiskTruth /\ DiskProgress
  BY DEF Inv, TypeInv, TypeOK, DiskInv
<1>1. CASE CommitReady
  <2>1. /\ op.instance \in directories /\ compose[op.instance] = op.generation
        /\ op.instance \in file
        /\ op.instance \in Instances /\ record[op.instance].generation = op.generation
    BY <1>0, <1>1, Target DEF CommitReady, At, DiskProgress
  <2>2. /\ record'[op.instance].status = "ready"
        /\ record'[op.instance].generation = record[op.instance].generation
        /\ \A i \in Instances \ {op.instance} : record'[i] = record[i]
    BY <1>0, <1>1, <2>1 DEF CommitReady, Record
  <2>3. UNCHANGED <<directories, compose, file>>
    BY <1>1 DEF CommitReady, filesVars, caddyVars
  <2> QED
    BY <1>0, <2>1, <2>2, <2>3 DEF DiskTruth
<1>2. CASE CommitRetired
  <2>1. op.instance \notin file /\ op.instance \in Instances
    BY <1>0, <1>2, Target DEF CommitRetired, At, DiskProgress
  <2>2. /\ record'[op.instance].status = "retired"
        /\ \A i \in Instances \ {op.instance} : record'[i] = record[i]
    BY <1>0, <1>2, <2>1 DEF CommitRetired, Record
  <2>3. UNCHANGED <<directories, compose, file>>
    BY <1>2 DEF CommitRetired, filesVars, caddyVars
  <2> QED
    BY <1>0, <2>1, <2>2, <2>3 DEF DiskTruth
<1>3. CASE Reserve \/ ForgetRecord
  <2>1. op.instance \in Instances
    BY <1>3, Target DEF Reserve, ForgetRecord, At
  <2>2. /\ record'[op.instance].status \in {"absent", "preparing"}
        /\ \A i \in Instances \ {op.instance} : record'[i] = record[i]
    BY <1>0, <1>3, <2>1 DEF Reserve, ForgetRecord, Absent
  <2>3. UNCHANGED <<directories, compose, file>>
    BY <1>3 DEF Reserve, ForgetRecord, filesVars, caddyVars
  <2> QED
    BY <1>0, <2>1, <2>2, <2>3 DEF DiskTruth
<1>4. CASE SameClaims
  <2>1. CASE UNCHANGED <<directories, compose, file>>
    BY <1>0, <1>4, <2>1 DEF DiskTruth, SameClaims
  <2>2. CASE PrepareDirectory
    BY <1>0, <1>4, <2>2 DEF PrepareDirectory, DiskTruth, SameClaims, caddyVars
  <2>3. CASE WriteCompose
    <3>1. op.instance \in Instances /\ record[op.instance].status = "preparing"
      BY <2>3, Target DEF WriteCompose, At
    <3> QED
      BY <1>0, <1>4, <2>3, <3>1 DEF WriteCompose, DiskTruth, SameClaims, caddyVars
  <2>4. CASE RemoveDirectory
    <3>1. op.instance \in Instances /\ record[op.instance].status = "deleting"
      BY <2>4, Target DEF RemoveDirectory, At
    <3> QED
      BY <1>0, <1>4, <2>4, <3>1 DEF RemoveDirectory, DiskTruth, SameClaims, caddyVars
  <2>5. CASE PersistRoutes \/ PersistFails
    <3>1. op.step = "persist" /\ file' \in {file, DesiredRoutes} /\ UNCHANGED filesVars
      BY <2>5 DEF PersistRoutes, PersistFails
    <3> QED
      BY <1>0, <1>4, <3>1, Desired DEF DiskTruth, SameClaims, filesVars
  <2> QED
    BY <2>1, <2>2, <2>3, <2>4, <2>5, FilesStep
<1> QED
  BY <1>1, <1>2, <1>3, <1>4, ClaimsStep

LEMMA FreshProgress == Fresh' => DiskProgress' /\ DockerProgress'
BY DEF Fresh, DiskProgress, DockerProgress

\* Where a publish takes an operation.
LEMMA PublishMoves ==
    ASSUME Inv, Publish
    PROVE  /\ op.step \in {"load", "persist"}
           /\ UNCHANGED <<registryVars, filesVars, dockerVars, orphans>>
           /\ op'.kind = op.kind /\ op'.instance = op.instance
           /\ op'.generation = op.generation
           /\ \/ op'.step \in {"fail", "next", "persist"}
              \/ /\ file' = DesiredRoutes
                 /\ op'.step = CASE op.kind = "apply"   -> "commit"
                                  [] op.kind = "destroy" -> "remove"
                                  [] op.kind = "retire"  -> "strip"
                                  [] OTHER               -> "next"
<1>1. op \in Operation
  BY DEF Inv, TypeInv, TypeOK
<1>2. AfterPublish \in Steps /\ AfterFailure \in Steps /\ AfterFailure \in {"fail", "next"}
  BY Names DEF AfterPublish, AfterFailure
<1>3. CASE PublishUnchanged
  BY <1>1, <1>2, <1>3, GotoFields DEF PublishUnchanged, AfterPublish, crashVars, caddyVars
<1>4. CASE LoadRoutes
  BY <1>1, <1>4, GotoFields, Names DEF LoadRoutes, crashVars
<1>5. CASE PersistRoutes
  BY <1>1, <1>2, <1>5, GotoFields DEF PersistRoutes, AfterPublish, crashVars
<1>6. CASE PersistFails \/ LoadUnanswered
  BY <1>1, <1>2, <1>6, GotoFields DEF PersistFails, LoadUnanswered, crashVars
<1> QED
  BY <1>3, <1>4, <1>5, <1>6 DEF Publish

LEMMA DiskProgressKept == Inv /\ DiskInv /\ [Next]_vars => DiskProgress'
<1> SUFFICES ASSUME Inv, DiskInv, [Next]_vars
             PROVE  DiskProgress'
  OBVIOUS
<1>0. /\ op \in Operation /\ compose \in [Instances -> 0 .. MaxGeneration]
      /\ DiskProgress
  BY DEF Inv, TypeInv, TypeOK, DiskInv
<1>1. CASE Fresh'
  BY <1>1, FreshProgress
<1>2. CASE Admitted
  BY <1>2, AdmittedStep DEF DiskProgress
<1>3. CASE Elapse
  <2>1. UNCHANGED <<op, directories, compose, file>>
    BY <1>3 DEF Elapse, CaddyRestarts, LeaseEnds, Expires, OrphanRuns, vars, filesVars, caddyVars
  <2> QED
    BY <1>0, <2>1 DEF DiskProgress
<1>4. CASE PrepareDirectory
  BY <1>0, <1>4, GotoFields, Names DEF PrepareDirectory, DiskProgress
<1>5. CASE Reserve
  BY <1>0, <1>5, GotoFields, Names DEF Reserve, At, filesVars, caddyVars, DiskProgress
<1>6. CASE WriteCompose
  BY <1>0, <1>6, GotoFields, Names, Target DEF WriteCompose, At, DiskProgress
<1>7. CASE StartFirstService \/ StartOtherServices \/ VerifyDelivery
  BY <1>0, <1>7, GotoFields, Names
  DEF StartFirstService, StartOtherServices, VerifyDelivery, At, filesVars, caddyVars, DiskProgress
<1>8. CASE CloseInstance \/ FenceRetirement
  <2>1. op'.step = "load" /\ op'.kind \in {"destroy", "retire"}
    BY <1>0, <1>8 DEF CloseInstance, FenceRetirement, At, Operation
  <2> QED
    BY <2>1 DEF DiskProgress
<1>9. CASE RemoveContainer \/ RemoveVolume
  <2>1. /\ op'.step = op.step /\ op'.instance = op.instance /\ UNCHANGED file
        /\ op.step \in {"remove", "strip"}
    BY <1>0, <1>9 DEF RemoveContainer, RemoveVolume, At, Operation, caddyVars
  <2> QED
    BY <1>0, <2>1 DEF DiskProgress
<1>10. CASE RemovalVerified \/ RemoveDirectory \/ RetirementVerified
  BY <1>0, <1>10, GotoFields, Names
  DEF RemovalVerified, RemoveDirectory, RetirementVerified, At, caddyVars, DiskProgress
<1>11. CASE Publish
  BY <1>0, <1>11, PublishMoves, Desired DEF filesVars, DiskProgress
<1> QED
  BY <1>1, <1>2, <1>3, <1>4, <1>5, <1>6, <1>7, <1>8, <1>9, <1>10, <1>11, FreshStep DEF Advance

LEMMA DiskInitial == Init => DiskInv
BY IdleType DEF Init, DiskInv, DiskTruth, DiskProgress, Absent

THEOREM DiskInvariance == Spec => []DiskInv
<1>1. Inv /\ DiskInv /\ [Next]_vars => DiskInv'
  BY DiskTruthKept, DiskProgressKept DEF DiskInv
<1> QED
  BY <1>1, DiskInitial, Invariance, PTL DEF Spec

-----------------------------------------------------------------------------
(* What Caddy's file routes to is there.                                   *)

LEMMA ApplyGeneration ==
    ASSUME Inv, op.kind = "apply"
    PROVE  op.instance \in Instances /\ op.generation \in Generations /\ op.generation # 0
BY IdleType, GenerationBounds DEF Inv, TypeInv, OpShape

\* The steps on Docker, and an orphaned compose, only add to what an instance has, but for
\* the removals.
LEMMA ContainersStay ==
    ASSUME Inv, [Next]_vars, ~RemoveContainer, ~RemoveVolume, NEW i \in Instances
    PROVE  /\ containers[i] # {} => containers'[i] # {}
           /\ volume[i] # 0 => volume'[i] # 0
<1>0. /\ containers \in [Instances -> SUBSET Generations]
      /\ volume \in [Instances -> 0 .. MaxGeneration]
  BY DEF Inv, TypeInv, TypeOK
<1>1. CASE UNCHANGED dockerVars
  BY <1>1 DEF dockerVars
<1>2. CASE StartFirstService
  BY <1>0, <1>2 DEF StartFirstService, ComposeUp
<1>3. CASE StartOtherServices
  BY <1>0, <1>3 DEF StartOtherServices
<1>4. CASE VerifyDelivery
  BY <1>0, <1>4 DEF VerifyDelivery
<1>5. ASSUME NEW j \in Instances, NEW g \in Generations, OrphanRuns(j, g)
      PROVE  /\ containers[i] # {} => containers'[i] # {}
             /\ volume[i] # 0 => volume'[i] # 0
  BY <1>0, <1>5 DEF OrphanRuns, ComposeUp
<1> QED
  BY <1>1, <1>2, <1>3, <1>4, <1>5, DockerStep

LEMMA FileStandsKept == Inv /\ DiskInv /\ StandInv /\ [Next]_vars => FileRoutesStand'
<1> SUFFICES ASSUME Inv, DiskInv, StandInv, [Next]_vars, NEW i \in file'
             PROVE  i \in directories' /\ compose'[i] # 0 /\ containers'[i] # {} /\ volume'[i] # 0
  BY DEF FileRoutesStand
<1>0. /\ compose \in [Instances -> 0 .. MaxGeneration] /\ file \subseteq Instances
      /\ containers \in [Instances -> SUBSET Generations]
      /\ volume \in [Instances -> 0 .. MaxGeneration]
      /\ DiskTruth /\ DiskProgress
  BY DEF Inv, TypeInv, TypeOK, DiskInv
<1>1. CASE PersistRoutes \/ PersistFails
  <2>1. /\ op.step = "persist" /\ file' \in {file, DesiredRoutes}
        /\ UNCHANGED <<directories, compose, containers, volume>>
    BY <1>1 DEF PersistRoutes, PersistFails, filesVars, dockerVars
  <2>2. CASE i \in file
    BY <2>1, <2>2 DEF StandInv, FileRoutesStand
  <2>3. CASE op.kind = "apply" /\ i = op.instance
    BY <1>0, <2>1, <2>3, ApplyGeneration DEF StandInv, StartedStands, DiskProgress
  <2>4. i \in file \/ (op.kind = "apply" /\ i = op.instance)
    BY <1>0, <2>1 DEF DesiredRoutes, ReadyRoutes, DiskTruth
  <2> QED
    BY <2>2, <2>3, <2>4
<1>2. CASE ~PersistRoutes /\ ~PersistFails
  <2>1. UNCHANGED <<directories, compose, file>> \/ PrepareDirectory \/ WriteCompose
        \/ RemoveDirectory
    BY <1>2, FilesStep
  <2>2. i \in file /\ i \in Instances
    BY <1>0, <2>1 DEF PrepareDirectory, WriteCompose, RemoveDirectory, caddyVars
  <2>3. i \in directories /\ compose[i] # 0 /\ containers[i] # {} /\ volume[i] # 0
    BY <2>2 DEF StandInv, FileRoutesStand
  <2>4. op.step \in {"remove", "rmtree", "strip"} => i # op.instance
    BY <1>0, <2>2 DEF DiskProgress
  <2>5. i \in directories' /\ compose'[i] # 0
    <3>1. CASE UNCHANGED <<directories, compose, file>>
      BY <2>3, <3>1
    <3>2. CASE PrepareDirectory
      BY <2>3, <3>2 DEF PrepareDirectory
    <3>3. CASE WriteCompose
      BY <1>0, <2>2, <2>3, <3>3, ApplyGeneration DEF WriteCompose, At
    <3>4. CASE RemoveDirectory
      BY <1>0, <2>2, <2>3, <2>4, <3>4 DEF RemoveDirectory, At
    <3> QED
      BY <2>1, <3>1, <3>2, <3>3, <3>4
  <2>6. containers'[i] # {} /\ volume'[i] # 0
    <3>1. CASE RemoveContainer
      BY <1>0, <2>2, <2>3, <2>4, <3>1 DEF RemoveContainer
    <3>2. CASE RemoveVolume
      BY <1>0, <2>2, <2>3, <2>4, <3>2 DEF RemoveVolume, At
    <3> QED
      BY <2>2, <2>3, <3>1, <3>2, ContainersStay
  <2> QED
    BY <2>5, <2>6
<1> QED
  BY <1>1, <1>2

LEMMA StartedStandsKept == Inv /\ StandInv /\ [Next]_vars => StartedStands'
<1> SUFFICES ASSUME Inv, StandInv, [Next]_vars
             PROVE  StartedStands'
  OBVIOUS
<1>0. /\ op \in Operation /\ StartedStands
      /\ containers \in [Instances -> SUBSET Generations]
      /\ volume \in [Instances -> 0 .. MaxGeneration]
  BY DEF Inv, TypeInv, TypeOK, StandInv
<1>1. CASE Fresh'
  BY <1>1 DEF Fresh, StartedStands
<1>2. CASE Admitted
  BY <1>2, AdmittedStep DEF StartedStands
<1>3. CASE Elapse
  <2>1. UNCHANGED op
    BY <1>3 DEF Elapse, CaddyRestarts, LeaseEnds, Expires, OrphanRuns, vars
  <2>2. (~RemoveContainer /\ ~RemoveVolume) \/ op.step \in {"remove", "strip"}
    BY DEF RemoveContainer, RemoveVolume, At
  <2> QED
    BY <1>0, <2>1, <2>2, ContainersStay, ApplyGeneration DEF StartedStands
<1>4. CASE StartFirstService
  <2>1. op.kind = "apply"
    BY <1>4 DEF StartFirstService, At
  <2>2. op.instance \in Instances /\ op.generation # 0 /\ op'.instance = op.instance
    BY <1>0, <1>4, <2>1, ApplyGeneration, GotoFields, Names DEF StartFirstService
  <2>3. /\ containers' = [containers EXCEPT ![op.instance] =
                            containers[op.instance] \cup {op.generation}]
        /\ volume' = [volume EXCEPT ![op.instance] =
                        IF volume[op.instance] = 0 THEN op.generation ELSE volume[op.instance]]
    BY <1>4 DEF StartFirstService, ComposeUp
  <2> QED
    BY <1>0, <2>2, <2>3 DEF StartedStands
<1>5. CASE StartOtherServices \/ VerifyDelivery
  <2>1. op.kind = "apply" /\ op.step \in {"started", "verify"}
    BY <1>5 DEF StartOtherServices, VerifyDelivery, At
  <2>2. op'.instance = op.instance /\ op.instance \in Instances
    BY <1>0, <1>5, <2>1, ApplyGeneration, GotoFields, Names DEF StartOtherServices, VerifyDelivery
  <2>3. ~RemoveContainer /\ ~RemoveVolume
    BY <2>1 DEF RemoveContainer, RemoveVolume, At
  <2> QED
    BY <1>0, <2>1, <2>2, <2>3, ContainersStay DEF StartedStands
<1>6. CASE Publish
  <2>1. /\ op.step \in {"load", "persist"} /\ UNCHANGED dockerVars
        /\ op'.kind = op.kind /\ op'.instance = op.instance
    BY <1>6, PublishMoves
  <2> QED
    BY <1>0, <2>1 DEF StartedStands, dockerVars
<1>7. CASE PrepareDirectory \/ Reserve \/ WriteCompose
  BY <1>0, <1>7, GotoFields, Names DEF PrepareDirectory, Reserve, WriteCompose, StartedStands
<1>8. CASE CloseInstance \/ FenceRetirement \/ RemoveContainer \/ RemoveVolume
  <2>1. op'.kind \in {"destroy", "retire"} \/ op'.step \in {"remove", "strip"}
    BY <1>0, <1>8
    DEF CloseInstance, FenceRetirement, RemoveContainer, RemoveVolume, At, Operation
  <2> QED
    BY <2>1 DEF StartedStands
<1>9. CASE RemovalVerified \/ RemoveDirectory \/ RetirementVerified
  BY <1>0, <1>9, GotoFields, Names
  DEF RemovalVerified, RemoveDirectory, RetirementVerified, At, StartedStands
<1> QED
  BY <1>1, <1>2, <1>3, <1>4, <1>5, <1>6, <1>7, <1>8, <1>9, FreshStep DEF Advance

\* Runtime._publish and what is removed around it: whatever Caddy's file routes to is there,
\* through failed and cut publishes, crashes at any step and orphaned composes.
THEOREM FileStands == Spec => []FileRoutesStand
<1>1. Init => StandInv
  BY IdleType DEF Init, StandInv, FileRoutesStand, StartedStands
<1>2. Inv /\ DiskInv /\ StandInv /\ [Next]_vars => StandInv'
  BY FileStandsKept, StartedStandsKept DEF StandInv
<1>3. StandInv => FileRoutesStand
  BY DEF StandInv
<1> QED
  BY <1>1, <1>2, <1>3, Invariance, DiskInvariance, PTL DEF Spec

-----------------------------------------------------------------------------
(* What an orphaned compose creates is fenced.                             *)

\* A compose is left behind by a delivery that has made its reservation.
LEMMA OrphansStep ==
    [Next]_vars =>
        \/ orphans' \subseteq orphans
        \/ /\ op.step \in {"start", "started"}
           /\ orphans' = orphans \cup {<<op.instance, op.generation>>}
<1> SUFFICES ASSUME [Next]_vars
             PROVE  \/ orphans' \subseteq orphans
                    \/ /\ op.step \in {"start", "started"}
                       /\ orphans' = orphans \cup {<<op.instance, op.generation>>}
  OBVIOUS
<1> USE DEF crashVars
<1>1. CASE Requests
  BY <1>1 DEF Requests, StartApply, StartDestroy, CloseAbsent, StartBackup, StartRetire,
              StartCleanup, StartRefresh, Renew
<1>2. CASE Deliver
  BY <1>2 DEF Deliver, PrepareDirectory, Reserve, WriteCompose, StartFirstService,
              StartOtherServices, VerifyDelivery, CommitReady, DeliveryFails, CommitFailed
<1>3. CASE Publish
  BY <1>3 DEF Publish, PublishUnchanged, LoadRoutes, PersistRoutes, PersistFails, LoadUnanswered
<1>4. CASE Destroy
  BY <1>4 DEF Destroy, CloseInstance, RemoveContainer, RemoveVolume, RemovalVerified,
              RemovalIncomplete, RemoveDirectory, DirectoryMissing, ForgetRecord, NextInBatch
<1>5. CASE Retire \/ Backup
  BY <1>5 DEF Retire, FenceRetirement, RetirementVerified, CommitRetired, Backup,
              BackupSucceeds, BackupFails, DetachedBackupEnds
<1>6. CASE Environment
  BY <1>6 DEF Environment, Crash, CaddyRestarts, OperationFails, SaveFails, LeaseEnds, Expires,
              OrphanRuns
<1>7. CASE UNCHANGED vars
  BY <1>7 DEF vars
<1> QED
  BY <1>1, <1>2, <1>3, <1>4, <1>5, <1>6, <1>7 DEF Next

\* The delivery under the lock is the one on record.
LEMMA DeliveredFenced ==
    ASSUME Inv, op.step \in {"start", "started", "verify"}
    PROVE  op.instance \in Instances /\ op.generation <= Fence(op.instance)
<1>1. /\ op.instance \in Instances /\ record[op.instance].generation = op.generation
      /\ record[op.instance].generation \in Int /\ tombstone[op.instance] \in Int
  BY Target DEF Inv, TypeInv, TypeOK, Record
<1> QED
  BY <1>1 DEF Fence

\* Everything a step adds to an instance's containers is fenced already.
LEMMA ContainersFenced ==
    ASSUME Inv, OutrankInv, [Next]_vars, NEW i \in Instances, NEW g \in containers'[i]
    PROVE  g <= Fence(i)
<1>0. containers \in [Instances -> SUBSET Generations]
  BY DEF Inv, TypeInv, TypeOK
<1>1. CASE g \in containers[i]
  BY <1>1 DEF OutrankInv, NothingOutranksFence
<1>2. CASE i = op.instance /\ g = op.generation /\ op.step \in {"start", "started", "verify"}
  BY <1>2, DeliveredFenced
<1>3. ASSUME NEW j \in Instances, NEW h \in Generations, OrphanRuns(j, h)
      PROVE  g <= Fence(i)
  <2>1. h <= Fence(j)
    BY <1>3 DEF OrphanRuns, OutrankInv
  <2>2. g \in containers[i] \/ (i = j /\ g = h)
    BY <1>0, <1>3 DEF OrphanRuns, ComposeUp
  <2> QED
    BY <1>1, <2>1, <2>2
<1>4. CASE UNCHANGED dockerVars
  BY <1>1, <1>4 DEF dockerVars
<1>5. CASE StartFirstService \/ StartOtherServices \/ VerifyDelivery
  BY <1>0, <1>1, <1>2, <1>5
  DEF StartFirstService, StartOtherServices, VerifyDelivery, ComposeUp, At
<1>6. CASE RemoveContainer \/ RemoveVolume
  BY <1>0, <1>1, <1>6 DEF RemoveContainer, RemoveVolume
<1> QED
  BY <1>3, <1>4, <1>5, <1>6, DockerStep

\* Runtime.apply: what a `docker compose up` creates after its controller was killed never
\* outranks the registry, whatever was closed, forgotten or delivered in between.
THEOREM OrphansFenced == Spec => []NothingOutranksFence
<1>1. Init => OutrankInv
  BY DEF Init, OutrankInv, NothingOutranksFence
<1>2. Inv /\ Inv' /\ OutrankInv /\ [Next]_vars => OutrankInv'
  <2> SUFFICES ASSUME Inv, Inv', OutrankInv, [Next]_vars
               PROVE  OutrankInv'
    OBVIOUS
  <2>1. \A i \in Instances : Fence(i)' >= Fence(i) /\ Fence(i) \in Int /\ Fence(i)' \in Int
    BY NextMove, FenceRises DEF Inv, TypeInv, TypeOK, Fence, Record
  <2>2. ASSUME NEW i \in Instances, NEW g \in containers'[i]
        PROVE  g <= Fence(i)'
    <3>1. g <= Fence(i) /\ g \in Int
      BY <2>2, ContainersFenced DEF Inv, TypeInv, TypeOK, Generations
    <3> QED
      BY <2>1, <3>1
  <2>3. ASSUME NEW i \in Instances, NEW g \in Generations, <<i, g>> \in orphans'
        PROVE  g <= Fence(i)'
    <3>1. g <= Fence(i)
      <4>1. CASE <<i, g>> \in orphans
        BY <4>1 DEF OutrankInv
      <4>2. CASE op.step \in {"start", "started"} /\ <<i, g>> = <<op.instance, op.generation>>
        BY <4>2, DeliveredFenced
      <4> QED
        BY <2>3, <4>1, <4>2, OrphansStep
    <3>2. g \in Int
      BY DEF Generations
    <3> QED
      BY <2>1, <3>1, <3>2
  <2> QED
    BY <2>2, <2>3 DEF OutrankInv, NothingOutranksFence
<1>3. OutrankInv => NothingOutranksFence
  BY DEF OutrankInv
<1> QED
  BY <1>1, <1>2, <1>3, Invariance, PTL DEF Spec

-----------------------------------------------------------------------------
(* Docker holds what the registry says.                                    *)

\* A `docker compose up` is left behind only where the environment allows it.
LEMMA OrphansKept ==
    ASSUME ComposeOutlives = FALSE
    PROVE  orphans = {} /\ [Next]_vars => orphans' = {}
<1> SUFFICES ASSUME orphans = {}, [Next]_vars
             PROVE  orphans' = {}
  OBVIOUS
<1> USE DEF crashVars
<1>1. CASE Requests
  BY <1>1 DEF Requests, StartApply, StartDestroy, CloseAbsent, StartBackup, StartRetire,
              StartCleanup, StartRefresh, Renew
<1>2. CASE Deliver
  BY <1>2 DEF Deliver, PrepareDirectory, Reserve, WriteCompose, StartFirstService,
              StartOtherServices, VerifyDelivery, CommitReady, DeliveryFails, CommitFailed
<1>3. CASE Publish
  BY <1>3 DEF Publish, PublishUnchanged, LoadRoutes, PersistRoutes, PersistFails, LoadUnanswered
<1>4. CASE Destroy
  BY <1>4 DEF Destroy, CloseInstance, RemoveContainer, RemoveVolume, RemovalVerified,
              RemovalIncomplete, RemoveDirectory, DirectoryMissing, ForgetRecord, NextInBatch
<1>5. CASE Retire \/ Backup
  BY <1>5 DEF Retire, FenceRetirement, RetirementVerified, CommitRetired, Backup,
              BackupSucceeds, BackupFails, DetachedBackupEnds
<1>6. CASE Environment
  BY <1>6 DEF Environment, Crash, CaddyRestarts, OperationFails, SaveFails, LeaseEnds, Expires,
              OrphanRuns
<1>7. CASE UNCHANGED vars
  BY <1>7 DEF vars
<1> QED
  BY <1>1, <1>2, <1>3, <1>4, <1>5, <1>6, <1>7 DEF Next

LEMMA NoOrphanRuns ==
    ASSUME orphans = {}, NEW i, NEW g
    PROVE  ~OrphanRuns(i, g)
BY DEF OrphanRuns

LEMMA DockerTruthKept == Inv /\ DockerInv /\ [Next]_vars => DockerTruth'
<1> SUFFICES ASSUME Inv, DockerInv, [Next]_vars
             PROVE  DockerTruth'
  OBVIOUS
<1>0. /\ record \in [Instances -> Record] /\ containers \in [Instances -> SUBSET Generations]
      /\ volume \in [Instances -> 0 .. MaxGeneration]
      /\ orphans = {} /\ DockerTruth /\ DockerProgress
  BY DEF Inv, TypeInv, TypeOK, DockerInv
<1>1. CASE CommitReady
  <2>1. /\ containers[op.instance] = {op.generation} /\ op.instance \in Instances
        /\ record[op.instance].generation = op.generation
    BY <1>0, <1>1, Target DEF CommitReady, At, DockerProgress
  <2>2. /\ record'[op.instance].status = "ready"
        /\ record'[op.instance].generation = record[op.instance].generation
        /\ \A i \in Instances \ {op.instance} : record'[i] = record[i]
    BY <1>0, <1>1, <2>1 DEF CommitReady, Record
  <2>3. UNCHANGED dockerVars
    BY <1>1 DEF CommitReady
  <2> QED
    BY <1>0, <2>1, <2>2, <2>3 DEF DockerTruth, dockerVars, Present, Registered
<1>2. CASE CommitRetired
  <2>1. containers[op.instance] = {} /\ op.instance \in Instances
    BY <1>0, <1>2, Target DEF CommitRetired, At, DockerProgress
  <2>2. /\ record'[op.instance].status = "retired"
        /\ \A i \in Instances \ {op.instance} : record'[i] = record[i]
    BY <1>0, <1>2, <2>1 DEF CommitRetired, Record
  <2>3. UNCHANGED dockerVars
    BY <1>2 DEF CommitRetired
  <2> QED
    BY <1>0, <2>1, <2>2, <2>3 DEF DockerTruth, dockerVars, Present, Registered
<1>3. CASE ForgetRecord
  <2>1. ~Present(op.instance) /\ op.instance \in Instances
    BY <1>0, <1>3, Target DEF ForgetRecord, At, DockerProgress
  <2>2. /\ record'[op.instance].status = "absent"
        /\ \A i \in Instances \ {op.instance} : record'[i] = record[i]
    BY <1>0, <1>3, <2>1 DEF ForgetRecord, Absent
  <2>3. UNCHANGED dockerVars
    BY <1>3 DEF ForgetRecord
  <2> QED
    BY <1>0, <2>1, <2>2, <2>3 DEF DockerTruth, dockerVars, Present, Registered
<1>4. CASE Reserve
  <2>1. op.instance \in Instances
    BY <1>4, Target DEF Reserve, At
  <2>2. /\ record'[op.instance].status = "preparing"
        /\ \A i \in Instances \ {op.instance} : record'[i] = record[i]
    BY <1>0, <1>4, <2>1 DEF Reserve
  <2>3. UNCHANGED dockerVars
    BY <1>4 DEF Reserve
  <2> QED
    BY <1>0, <2>1, <2>2, <2>3 DEF DockerTruth, dockerVars, Present, Registered
<1>5. CASE SameClaims
  <2>1. CASE UNCHANGED dockerVars
    BY <1>0, <1>5, <2>1 DEF DockerTruth, SameClaims, dockerVars, Present, Registered
  <2>2. CASE StartFirstService \/ StartOtherServices \/ VerifyDelivery
    <3>1. /\ op.instance \in Instances /\ record[op.instance].status = "preparing"
          /\ record' = record
      BY <2>2, Target DEF StartFirstService, StartOtherServices, VerifyDelivery, At, registryVars
    <3>2. \A i \in Instances \ {op.instance} :
             containers'[i] = containers[i] /\ volume'[i] = volume[i]
      BY <1>0, <2>2 DEF StartFirstService, StartOtherServices, VerifyDelivery, ComposeUp
    <3> QED
      BY <1>0, <3>1, <3>2 DEF DockerTruth, Present, Registered
  <2>3. CASE RemoveContainer \/ RemoveVolume
    <3>1. /\ op.instance \in Instances
          /\ record[op.instance].status \in {"deleting", "retiring"}
          /\ record' = record
      BY <2>3, Target DEF RemoveContainer, RemoveVolume, At, registryVars
    <3>2. \A i \in Instances \ {op.instance} :
             containers'[i] = containers[i] /\ volume'[i] = volume[i]
      BY <1>0, <2>3 DEF RemoveContainer, RemoveVolume
    <3> QED
      BY <1>0, <3>1, <3>2 DEF DockerTruth, Present, Registered
  <2> QED
    BY <1>0, <2>1, <2>2, <2>3, DockerStep, NoOrphanRuns
<1> QED
  BY <1>1, <1>2, <1>3, <1>4, <1>5, ClaimsStep

LEMMA DockerProgressKept == Inv /\ DockerInv /\ [Next]_vars => DockerProgress'
<1> SUFFICES ASSUME Inv, DockerInv, [Next]_vars
             PROVE  DockerProgress'
  OBVIOUS
<1>0. /\ op \in Operation /\ containers \in [Instances -> SUBSET Generations]
      /\ orphans = {} /\ DockerProgress
  BY DEF Inv, TypeInv, TypeOK, DockerInv
<1>1. CASE Fresh'
  BY <1>1, FreshProgress
<1>2. CASE Admitted
  BY <1>2, AdmittedStep DEF DockerProgress
<1>3. CASE Elapse
  <2>1. UNCHANGED <<op, containers, volume>>
    BY <1>0, <1>3, NoOrphanRuns DEF Elapse, CaddyRestarts, LeaseEnds, Expires, vars, dockerVars
  <2> QED
    BY <1>0, <2>1 DEF DockerProgress, Present
<1>4. CASE PrepareDirectory \/ Reserve \/ WriteCompose \/ StartFirstService \/ StartOtherServices
  BY <1>0, <1>4, GotoFields, Names
  DEF PrepareDirectory, Reserve, WriteCompose, StartFirstService, StartOtherServices, DockerProgress
<1>5. CASE VerifyDelivery
  BY <1>0, <1>5, GotoFields, Names, Target DEF VerifyDelivery, At, DockerProgress
<1>6. CASE CloseInstance \/ FenceRetirement
  <2>1. op'.step = "load" /\ op'.kind \in {"destroy", "retire"}
    BY <1>0, <1>6 DEF CloseInstance, FenceRetirement, At, Operation
  <2> QED
    BY <2>1 DEF DockerProgress
<1>7. CASE RemoveContainer \/ RemoveVolume
  <2>1. op'.step \in {"remove", "strip"}
    BY <1>0, <1>7 DEF RemoveContainer, RemoveVolume, At, Operation
  <2> QED
    BY <2>1 DEF DockerProgress
<1>8. CASE RemovalVerified \/ RemoveDirectory \/ RetirementVerified
  BY <1>0, <1>8, GotoFields, Names
  DEF RemovalVerified, RemoveDirectory, RetirementVerified, At, dockerVars, Present, DockerProgress
<1>9. CASE Publish
  <2>1. /\ op.step \in {"load", "persist"} /\ UNCHANGED dockerVars
        /\ op'.kind = op.kind /\ op'.instance = op.instance /\ op'.generation = op.generation
        /\ op'.step \in {"fail", "next", "persist", "commit", "remove", "strip"}
    BY <1>9, PublishMoves
  <2> QED
    BY <1>0, <2>1 DEF DockerProgress, dockerVars
<1> QED
  BY <1>1, <1>2, <1>3, <1>4, <1>5, <1>6, <1>7, <1>8, <1>9, FreshStep DEF Advance

-----------------------------------------------------------------------------
(* A delivery keeps a copy of what it replaces.                            *)

\* Only an admission, with or without its backup, leads to a reservation.
LEMMA ReservationFollowsAdmission ==
    Inv /\ [Next]_vars /\ op'.kind = "apply" /\ op'.step \in {"prepare", "reserve"}
        => Admitted \/ PrepareDirectory \/ Elapse
<1> SUFFICES ASSUME Inv, [Next]_vars, op'.kind = "apply", op'.step \in {"prepare", "reserve"}
             PROVE  Admitted \/ PrepareDirectory \/ Elapse
  OBVIOUS
<1>0. op \in Operation
  BY DEF Inv, TypeInv, TypeOK
<1>1. ~Fresh'
  BY DEF Fresh
<1>2. ASSUME Publish
      PROVE  FALSE
  BY <1>2, PublishMoves
<1>3. ASSUME Reserve \/ WriteCompose \/ StartFirstService \/ StartOtherServices
               \/ VerifyDelivery \/ RemovalVerified \/ RemoveDirectory \/ RetirementVerified
      PROVE  FALSE
  BY <1>0, <1>3, GotoFields, Names
  DEF Reserve, WriteCompose, StartFirstService, StartOtherServices, VerifyDelivery,
      RemovalVerified, RemoveDirectory, RetirementVerified
<1>4. ASSUME CloseInstance \/ FenceRetirement \/ RemoveContainer \/ RemoveVolume
      PROVE  FALSE
  BY <1>0, <1>4 DEF CloseInstance, FenceRetirement, RemoveContainer, RemoveVolume, At, Operation
<1> QED
  BY <1>1, <1>2, <1>3, <1>4, FreshStep DEF Advance

LEMMA CopyKeptAdmitted == Inv /\ Admitted => CopyKept'
<1> SUFFICES ASSUME Inv, Admitted
             PROVE  CopyKept'
  OBVIOUS
<1>0. op \in Operation
  BY DEF Inv, TypeInv, TypeOK
<1>1. CASE BackupSucceeds
  <2>1. op'.savedCopy = TRUE \/ op' = Idle
    BY <1>0, <1>1 DEF BackupSucceeds, Operation
  <2> QED
    BY <2>1, IdleType DEF CopyKept
<1>2. ASSUME NEW i \in Instances, NEW g \in Generations, NEW reopen \in BOOLEAN,
             StartApply(i, g, reopen)
      PROVE  CopyKept'
  <2>1. op'.instance = i /\ op'.step = IF BackupRequired(i) THEN "backup" ELSE "prepare"
    BY <1>2, BeginFields, Names, GenerationBounds DEF StartApply
  <2>2. record' = record /\ containers' = containers /\ volume' = volume
    BY <1>2 DEF StartApply, registryVars, dockerVars
  <2>3. CASE BackupRequired(i)
    BY <2>1, <2>3 DEF CopyKept
  <2>4. CASE ~BackupRequired(i)
    BY <2>1, <2>2, <2>4
    DEF CopyKept, BackupRequired, EmptyInitialFailure, Present, Registered, EverReady
  <2> QED
    BY <2>3, <2>4
<1> QED
  BY <1>1, <1>2 DEF Admitted

LEMMA CopyKeptElapse == Inv /\ DockerInv /\ Elapse => CopyKept'
<1> SUFFICES ASSUME Inv, DockerInv, Elapse
             PROVE  CopyKept'
  OBVIOUS
<1>0. record \in [Instances -> Record] /\ orphans = {} /\ CopyKept
  BY DEF Inv, TypeInv, TypeOK, DockerInv
<1>1. UNCHANGED <<op, containers, volume>>
  BY <1>0, NoOrphanRuns DEF Elapse, CaddyRestarts, LeaseEnds, Expires, vars, dockerVars
<1>2. ASSUME NEW j \in Instances
      PROVE  record'[j].status = record[j].status /\ record'[j].everReady = record[j].everReady
  <2>1. record[j] \in Record
    BY <1>0
  <2>2. ASSUME NEW i \in Instances, LeaseEnds(i)
        PROVE  record'[j].status = record[j].status /\ record'[j].everReady = record[j].everReady
    BY <1>0, <2>1, <2>2 DEF LeaseEnds, Record
  <2>3. ASSUME NEW i \in Instances, Expires(i)
        PROVE  record'[j].status = record[j].status /\ record'[j].everReady = record[j].everReady
    BY <1>0, <2>1, <2>3 DEF Expires, Record
  <2>4. CASE UNCHANGED record
    BY <2>4
  <2> QED
    BY <1>0, <2>2, <2>3, <2>4, NoOrphanRuns DEF Elapse, CaddyRestarts, vars, registryVars
<1>3. CASE op.kind = "apply" /\ op.step \in {"prepare", "reserve"}
  <2>1. op.instance \in Instances
    BY <1>3, Target
  <2> QED
    BY <1>0, <1>1, <1>2, <2>1 DEF CopyKept, Registered, Present, EverReady
<1>4. CASE ~(op.kind = "apply" /\ op.step \in {"prepare", "reserve"})
  BY <1>1, <1>4 DEF CopyKept
<1> QED
  BY <1>3, <1>4

LEMMA CopyKeptKept == Inv /\ DockerInv /\ [Next]_vars => CopyKept'
<1> SUFFICES ASSUME Inv, DockerInv, [Next]_vars
             PROVE  CopyKept'
  OBVIOUS
<1>0. op \in Operation /\ CopyKept
  BY DEF Inv, TypeInv, TypeOK, DockerInv
<1>1. CASE PrepareDirectory
  <2>1. UNCHANGED <<record, containers, volume>>
    BY <1>1 DEF PrepareDirectory, registryVars, dockerVars
  <2>2. /\ op.kind = "apply" /\ op.step = "prepare"
        /\ op'.instance = op.instance /\ op'.savedCopy = op.savedCopy
    BY <1>0, <1>1, GotoFields, Names DEF PrepareDirectory, At
  <2> QED
    BY <1>0, <2>1, <2>2 DEF CopyKept, Present, Registered, EverReady
<1>2. CASE ~(op'.kind = "apply" /\ op'.step \in {"prepare", "reserve"})
  BY <1>2 DEF CopyKept
<1> QED
  BY <1>1, <1>2, ReservationFollowsAdmission, CopyKeptAdmitted, CopyKeptElapse

LEMMA DockerInitial == Init => DockerInv
BY IdleType DEF Init, DockerInv, DockerTruth, DockerProgress, CopyKept, Absent, Present

LEMMA DockerKept ==
    ASSUME ComposeOutlives = FALSE
    PROVE  Inv /\ DockerInv /\ [Next]_vars => DockerInv'
BY OrphansKept, DockerTruthKept, DockerProgressKept, CopyKeptKept DEF DockerInv

THEOREM DockerInvariance == ASSUME ComposeOutlives = FALSE
                            PROVE  Spec => []DockerInv
<1>1. Inv /\ DockerInv /\ [Next]_vars => DockerInv'
  BY DockerKept
<1> QED
  BY <1>1, DockerInitial, Invariance, PTL DEF Spec

-----------------------------------------------------------------------------
(* What follows.                                                           *)

\* Unless a `docker compose up` outlives its controller, Docker holds nothing of an instance
\* that the registry has forgotten or not yet reserved.
THEOREM NothingUntracked == ASSUME ComposeOutlives = FALSE
                            PROVE  Spec => []ResourcesTracked
<1>1. DockerInv => ResourcesTracked
  BY DEF DockerInv, DockerTruth, ResourcesTracked
<1> QED
  BY <1>1, DockerInvariance, PTL

\* A ready record is true of Docker, of the Compose file and of Caddy's file, wherever the
\* operations that came after it were cut, unless a `docker compose up` outlives its
\* controller.
THEOREM ReadyIsServed == ASSUME ComposeOutlives = FALSE
                         PROVE  Spec => []ReadyServed
<1>1. DiskInv /\ DockerInv => ReadyServed
  BY DEF DiskInv, DiskTruth, DockerInv, DockerTruth, ReadyServed
<1> QED
  BY <1>1, DiskInvariance, DockerInvariance, PTL

\* A retired instance has no compute and no route in Caddy's file, unless a `docker compose
\* up` outlives its controller.
THEOREM RetiredIsInert == ASSUME ComposeOutlives = FALSE
                          PROVE  Spec => []RetiredInert
<1>1. DiskInv /\ DockerInv => RetiredInert
  BY DEF DiskInv, DiskTruth, DockerInv, DockerTruth, RetiredInert
<1> QED
  BY <1>1, DiskInvariance, DockerInvariance, PTL

\* With a backup command, no delivery replaces a record that has, or ever had, something to
\* lose without a copy made in the same operation.
THEOREM BackedUp == ASSUME ComposeOutlives = FALSE
                    PROVE  Spec => BackupBeforeUpdate
<1>1. Inv /\ DockerInv /\ [Next]_vars =>
        \A i \in BackupCommands :
           /\ record'[i].generation # record[i].generation
           /\ record'[i].status = "preparing"
           /\ Registered(i)
           /\ Present(i) \/ EverReady(i)
           => op.savedCopy
  <2> SUFFICES ASSUME Inv, DockerInv, [Next]_vars, NEW i \in BackupCommands,
                      record'[i].generation # record[i].generation,
                      record'[i].status = "preparing",
                      Registered(i), Present(i) \/ EverReady(i)
               PROVE  op.savedCopy
    OBVIOUS
  <2>0. i \in Instances /\ record \in [Instances -> Record] /\ op \in Operation
    BY DEF Inv, TypeInv, TypeOK
  <2>1. CASE Reserve
    <3>1. i = op.instance
      BY <2>0, <2>1 DEF Reserve
    <3> QED
      BY <2>1, <3>1 DEF Reserve, At, DockerInv, CopyKept
  <2>2. CASE CommitReady \/ CommitRetired \/ ForgetRecord
    <3>1. record'[i].generation = record[i].generation \/ record'[i].status = "absent"
      <4>1. record[i] \in Record
        BY <2>0
      <4>2. CASE CommitReady
        BY <2>0, <4>1, <4>2 DEF CommitReady, Record
      <4>3. CASE CommitRetired
        BY <2>0, <4>1, <4>3 DEF CommitRetired, Record
      <4>4. CASE ForgetRecord
        BY <2>0, <4>1, <4>4 DEF ForgetRecord, Absent
      <4> QED
        BY <2>2, <4>2, <4>3, <4>4
    <3> QED
      BY <3>1
  <2>3. ~SameClaims
    BY <2>0 DEF SameClaims
  <2> QED
    BY <2>1, <2>2, <2>3, ClaimsStep
<1> QED
  BY <1>1, Invariance, DockerInvariance, PTL DEF Spec, BackupBeforeUpdate

-----------------------------------------------------------------------------
(* The maintenance unit.                                                   *)

\* A refresh of the unit holds the lock and has its publish before it.
UnitInv == unit = "refreshing" => op.kind = "refresh" /\ op.step \in {"load", "persist"}

LEMMA UnitStep == UnitInv /\ [MaintenanceNext]_maintenanceVars => UnitInv'
<1> SUFFICES ASSUME UnitInv, [MaintenanceNext]_maintenanceVars PROVE UnitInv'
  OBVIOUS
<1>1. CASE TimerFires \/ CommandFails \/ StatusAnswers \/ NothingToClean \/ UnitCleans
           \/ RefreshSucceeds \/ RefreshFails
  BY <1>1 DEF TimerFires, CommandFails, StatusAnswers, NothingToClean, UnitCleans,
              RefreshSucceeds, RefreshFails, UnitInv
<1>2. CASE UnitRefreshes
  BY <1>2 DEF UnitRefreshes, StartRefresh, Begin, Idle, UnitInv
<1>3. CASE Others
  <2>1. CASE unit # "refreshing"
    BY <1>3, <2>1 DEF Others, UnitInv
  <2>2. CASE unit = "refreshing" /\ LoadRoutes
    BY <2>2 DEF LoadRoutes, Goto, UnitInv
  <2>3. CASE unit = "refreshing" /\ UNCHANGED op
    BY <1>3, <2>3 DEF Others, UnitInv
  <2>4. unit = "refreshing" => LoadRoutes \/ UNCHANGED op
    BY <1>3 DEF Others, Refreshing, UnitInv, CaddyRestarts, LeaseEnds, Expires, OrphanRuns
  <2> QED
    BY <2>1, <2>2, <2>3, <2>4
<1>4. CASE UNCHANGED maintenanceVars
  BY <1>4 DEF maintenanceVars, vars, UnitInv
<1> QED
  BY <1>1, <1>2, <1>3, <1>4 DEF MaintenanceNext

\* The unit never waits for a refresh that nobody makes: it would not reach its cleanup
\* again, and systemd starts no second one next to it.
THEOREM UnitRefreshLives == MaintenanceSpec => []UnitInv
<1>1. MaintenanceInit => UnitInv
  BY DEF MaintenanceInit, UnitInv
<1> QED
  BY <1>1, UnitStep, PTL DEF MaintenanceSpec

\* The unit does nothing that a request from elsewhere could not do, so all that is proved
\* of Controller holds next to it.
THEOREM MaintenanceIsController == MaintenanceSpec => Spec
<1>1. MaintenanceInit => Init
  BY DEF MaintenanceInit
<1>2. [MaintenanceNext]_maintenanceVars => [Next]_vars
  <2> SUFFICES ASSUME [MaintenanceNext]_maintenanceVars PROVE [Next]_vars
    OBVIOUS
  <2>1. CASE TimerFires \/ CommandFails \/ StatusAnswers \/ NothingToClean
    BY <2>1 DEF TimerFires, CommandFails, StatusAnswers, NothingToClean
  <2>2. CASE UnitRefreshes \/ UnitCleans
    BY <2>2 DEF UnitRefreshes, UnitCleans, Next, Requests
  <2>3. CASE RefreshSucceeds \/ RefreshFails
    BY <2>3 DEF RefreshSucceeds, RefreshFails, Next, Publish, Environment
  <2>4. CASE Others
    BY <2>4 DEF Others, Next, Publish, Environment
  <2>5. CASE UNCHANGED maintenanceVars
    BY <2>5 DEF maintenanceVars
  <2> QED
    BY <2>1, <2>2, <2>3, <2>4, <2>5 DEF MaintenanceNext
<1> QED
  BY <1>1, <1>2, PTL DEF MaintenanceSpec, Spec
=============================================================================
