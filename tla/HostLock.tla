------------------------------ MODULE HostLock ------------------------------
(***************************************************************************)
(* controller.lock, as Registry.locked and the backup command use it: the  *)
(* lock belongs to the open file that flock was called on, a waiter polls  *)
(* it with LOCK_NB until a deadline, and the backup command inherits the   *)
(* descriptor, so the file stays open, and locked, as long as any process  *)
(* of the backup lives, whatever becomes of the controller.                *)
(*                                                                         *)
(* A member of Operations is one run of vpsctl; its name is used again     *)
(* when nothing of the run is left.                                        *)
(***************************************************************************)
EXTENDS Naturals

CONSTANTS
    Operations,  \* runs of vpsctl
    NoOperation  \* the lock is free

ASSUME OperationsAssumption == NoOperation \notin Operations

VARIABLES
    pc,       \* where a run is in Registry.locked
    late,     \* runs whose deadline has passed
    holder,   \* the run whose open file has the lock
    children  \* runs whose backup command has a live process

lockVars == <<pc, late, holder, children>>

LockInit ==
    /\ pc = [o \in Operations |-> "outside"]
    /\ late = {}
    /\ holder = NoOperation
    /\ children = {}

LockSteps == {"outside", "trying", "blocked", "inside", "backup", "backedup"}

At(o, step) == pc[o] = step
Goto(o, step) == pc' = [pc EXCEPT ![o] = step]

Waiting(o) == pc[o] \in {"trying", "blocked"}
Inside(o) == pc[o] \in {"inside", "backup", "backedup"}

-----------------------------------------------------------------------------
\* os.open: a file of its own for every run.
Open(o) ==
    /\ At(o, "outside")
    /\ o \notin children
    /\ Goto(o, "trying")
    /\ UNCHANGED <<late, holder, children>>

\* flock(LOCK_EX | LOCK_NB) succeeds.
Acquire(o) ==
    /\ At(o, "trying")
    /\ holder = NoOperation
    /\ holder' = o
    /\ late' = late \ {o}
    /\ Goto(o, "inside")
    /\ UNCHANGED children

\* BlockingIOError; the clock is read next.
Blocked(o) ==
    /\ At(o, "trying")
    /\ holder # NoOperation
    /\ Goto(o, "blocked")
    /\ UNCHANGED <<late, holder, children>>

\* A slip: every round sets a deadline of its own.
SleepResetting(o) ==
    /\ At(o, "blocked")
    /\ late' = late \ {o}
    /\ Goto(o, "trying")
    /\ UNCHANGED <<holder, children>>

\* Time is left: sleep, and try again.
Sleep(o) ==
    /\ At(o, "blocked")
    /\ o \notin late
    /\ Goto(o, "trying")
    /\ UNCHANGED <<late, holder, children>>

\* Refused: "another operation holds the controller lock; retry later".
Refuse(o) ==
    /\ At(o, "blocked")
    /\ o \in late
    /\ late' = late \ {o}
    /\ Goto(o, "outside")
    /\ UNCHANGED <<holder, children>>

\* lock_timeout_seconds are over.
DeadlinePasses(o) ==
    /\ Waiting(o)
    /\ o \notin late
    /\ late' = late \cup {o}
    /\ UNCHANGED <<pc, holder, children>>

-----------------------------------------------------------------------------
\* Runtime.backup: the command gets the descriptor (pass_fds).
StartBackup(o) ==
    /\ At(o, "inside")
    /\ children' = children \cup {o}
    /\ Goto(o, "backup")
    /\ UNCHANGED <<late, holder>>

\* It ended or its timeout killed it: a process it started may still live.
BackupReturns(o) ==
    /\ At(o, "backup")
    /\ children' \in {children, children \ {o}}
    /\ Goto(o, "backedup")
    /\ UNCHANGED <<late, holder>>

\* A slip: the lock goes with the descriptor of the controller alone.
ClosedByController(o) == IF holder = o THEN NoOperation ELSE holder

\* Who holds the lock when the controller of o has closed its descriptor.
Closed(o) == IF holder = o /\ o \notin children THEN NoOperation ELSE holder

\* The work is done, refused or failed: the descriptor is closed.
Leave(o) ==
    /\ pc[o] \in {"inside", "backedup"}
    /\ holder' = Closed(o)
    /\ Goto(o, "outside")
    /\ UNCHANGED <<late, children>>

\* SIGKILL anywhere.
Killed(o) ==
    /\ ~At(o, "outside")
    /\ holder' = Closed(o)
    /\ late' = late \ {o}
    /\ Goto(o, "outside")
    /\ UNCHANGED children

\* The last process of a backup ends.
ChildEnds(o) ==
    /\ o \in children
    /\ ~At(o, "backup")
    /\ children' = children \ {o}
    /\ holder' = IF holder = o /\ ~Inside(o) THEN NoOperation ELSE holder
    /\ UNCHANGED <<pc, late>>

\* The host restarts: no process is left, and no lock.
HostRestarts ==
    /\ pc' = [o \in Operations |-> "outside"]
    /\ late' = {}
    /\ holder' = NoOperation
    /\ children' = {}

-----------------------------------------------------------------------------
Wait(o) == Acquire(o) \/ Blocked(o) \/ Sleep(o) \/ Refuse(o)
Work(o) == BackupReturns(o) \/ Leave(o)

LockNext ==
    \/ \E o \in Operations :
          \/ Open(o) \/ Wait(o) \/ DeadlinePasses(o)
          \/ StartBackup(o) \/ Work(o) \/ Killed(o) \/ ChildEnds(o)
    \/ HostRestarts

LockSpec == LockInit /\ [][LockNext]_lockVars

-----------------------------------------------------------------------------
(* What the runs check.                                                    *)

\* Every variable has its type, and only a run that waits has a deadline behind it.
LockTypeOK ==
    /\ pc \in [Operations -> LockSteps]
    /\ late \subseteq {o \in Operations : Waiting(o)}
    /\ holder \in Operations \cup {NoOperation}
    /\ children \subseteq Operations

\* The runs that work on the instances: controllers inside the lock and backups.
Busy == {o \in Operations : Inside(o)} \cup children

\* One run at a time works on the instances, a backup whose controller was killed
\* or gave up on it included (docs/OPERATIONS.md: terminating the controller does
\* not release coordination before backup recovery completes).
OneRunWorks == \A o, p \in Busy : o = p

\* No waiter waits for ever, not even for a holder that never leaves: it gets the
\* lock or is refused (or killed).
WaitersAnswered == \A o \in Operations : At(o, "trying") ~> (Inside(o) \/ At(o, "outside"))
=============================================================================
