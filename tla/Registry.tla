------------------------------ MODULE Registry ------------------------------
(***************************************************************************)
(* registry.json under controller.lock: HostLock and AtomicFile at work    *)
(* together.  A run of vpsctl that is inside the lock loads the document,  *)
(* changes it in memory and saves it, several times in one operation, with *)
(* a backup before the first save; nothing in the file says which document *)
(* a save was made from.                                                   *)
(***************************************************************************)
EXTENDS HostLock, AtomicFile

CONSTANT NothingLoaded \* a run has no document in memory

ASSUME NothingLoadedAssumption == NothingLoaded \notin Nat

VARIABLE loaded \* the document that each run has loaded, or saved since

vars == <<lockVars, fileVars, loaded>>

Init ==
    /\ LockInit
    /\ FileInit
    /\ loaded = [o \in Operations |-> NothingLoaded]

Keeps(o, document) == loaded' = [loaded EXCEPT ![o] = document]

-----------------------------------------------------------------------------
\* The run gets, or waits for, the lock; a backup comes after the load.
AtLock(o) ==
    /\ \/ Open(o) \/ Wait(o) \/ DeadlinePasses(o) \/ BackupReturns(o) \/ ChildEnds(o)
       \/ loaded[o] # NothingLoaded /\ call = "idle" /\ StartBackup(o)
    /\ UNCHANGED <<fileVars, loaded>>

\* A slip: the document is read while the run still waits.
LoadEarly(o) ==
    /\ At(o, "trying") \/ At(o, "inside")
    /\ loaded[o] = NothingLoaded
    /\ path \in written
    /\ Keeps(o, path)
    /\ UNCHANGED <<lockVars, fileVars>>

\* Registry.load.
Load(o) ==
    /\ At(o, "inside")
    /\ loaded[o] = NothingLoaded
    /\ path \in written
    /\ Keeps(o, path)
    /\ UNCHANGED <<lockVars, fileVars>>

\* Registry.save: the system calls of replace_json.
Save(o) ==
    /\ loaded[o] # NothingLoaded
    /\ pc[o] \in {"inside", "backedup"}
    /\ \/ Replace /\ Keeps(o, version)
       \/ /\ MakeTemporary \/ WriteDocument \/ SyncDocument \/ SyncDirectory
             \/ WriteReturns \/ WriteFails
          /\ UNCHANGED loaded
    /\ UNCHANGED lockVars

\* The answer is given, after a refusal, a failure or the last save.
Answer(o) ==
    /\ call = "idle"
    /\ Leave(o)
    /\ Keeps(o, NothingLoaded)
    /\ UNCHANGED fileVars

\* SIGKILL takes the writer along.
Kill(o) ==
    /\ Killed(o)
    /\ Keeps(o, NothingLoaded)
    /\ IF Inside(o) /\ call # "idle" THEN WriterKilled ELSE UNCHANGED fileVars

\* The power goes, for every process of the host.
PowerGoes ==
    /\ HostRestarts
    /\ PowerLoss
    /\ loaded' = [o \in Operations |-> NothingLoaded]

Next ==
    \/ \E o \in Operations : AtLock(o) \/ Load(o) \/ Save(o) \/ Answer(o) \/ Kill(o)
    \/ PowerGoes

Spec == Init /\ [][Next]_vars

\* A run that is not killed goes on, time passes, and the processes of a backup
\* end (docs/OPERATIONS.md asks for bounded backup commands).
Fairness ==
    \A o \in Operations :
       /\ WF_vars(Wait(o) /\ AtLock(o)) /\ WF_vars(DeadlinePasses(o) /\ AtLock(o))
       /\ WF_vars(BackupReturns(o) /\ AtLock(o)) /\ WF_vars(ChildEnds(o) /\ AtLock(o))
       /\ WF_vars(Save(o)) /\ WF_vars(Answer(o))

FairSpec == Spec /\ Fairness

-----------------------------------------------------------------------------
(* What the runs check, besides what HostLock and AtomicFile promise.      *)

\* Every variable has its type; a deadline belongs to a run that waits, and no
\* document is in memory that was not begun.
TypeOK ==
    /\ LockTypeOK
    /\ FileTypeOK
    /\ loaded \in [Operations -> Documents \cup {NothingLoaded}]

\* A save replaces the very document its run has loaded, or saved itself: no run's
\* changes are lost to another's, whatever is killed, refused, backed up or cut.
NoLostUpdate ==
    [][path' > path => \E o \in Operations : Inside(o) /\ loaded[o] = path]_vars
=============================================================================
