----------------------------- MODULE Maintenance -----------------------------
(***************************************************************************)
(* The maintenance unit next to everybody's requests: every five minutes   *)
(* it runs `vpsctl ingress refresh`, `status` and `cleanup`, each of which *)
(* takes the lock for itself and waits a bounded time for it.  The unit is *)
(* a oneshot: it stops at the first command whose exit code is not zero.   *)
(***************************************************************************)
EXTENDS Controller

VARIABLE unit \* the command that the unit has come to, or "off" until the timer fires

maintenanceVars == <<vars, unit>>

MaintenanceInit == Init /\ unit = "off"

TimerFires ==
    /\ unit = "off"
    /\ unit' = "refresh"
    /\ UNCHANGED vars

\* A command exits with 1 or 2: the lock was not free in time, Docker did not answer, or
\* the inventory refused.  (That the wait was too long counts when it is over.)
CommandFails ==
    /\ unit \in {"refresh", "status", "cleanup"}
    /\ Free
    /\ unit' = "off"
    /\ UNCHANGED vars

UnitRefreshes ==
    /\ unit = "refresh"
    /\ StartRefresh
    /\ unit' = "refreshing"

\* The refresh that holds the lock is the unit's.
Refreshing == unit = "refreshing" /\ op.kind = "refresh"

\* The routes are published: only a save that fails makes this exit code 1.
RefreshSucceeds ==
    /\ Refreshing
    /\ PublishUnchanged \/ PersistRoutes
    /\ unit' = "status"

\* A publish that fails, or the end of the process, is the end of the unit.
RefreshFails ==
    /\ Refreshing
    /\ OperationFails \/ LoadUnanswered \/ PersistFails \/ Crash
    /\ unit' = "off"

\* It holds the lock and changes nothing.
StatusAnswers ==
    /\ unit = "status"
    /\ Free
    /\ unit' = "cleanup"
    /\ UNCHANGED vars

\* The last command: the unit is done however the cleanup goes on under the lock.
UnitCleans ==
    /\ unit = "cleanup"
    /\ StartCleanup
    /\ unit' = "off"

NothingToClean ==
    /\ unit = "cleanup"
    /\ Free /\ Reconciled
    /\ ~\E i \in Previews : Reclaimable(i)
    /\ unit' = "off"
    /\ UNCHANGED vars

\* Everybody else, and what a refresh of the unit does before its end.
Others ==
    /\ IF Refreshing
         THEN \/ LoadRoutes \/ CaddyRestarts
              \/ \E i \in Instances : LeaseEnds(i) \/ Expires(i)
              \/ \E i \in Instances, g \in Generations : OrphanRuns(i, g)
         ELSE Next
    /\ UNCHANGED unit

MaintenanceNext ==
    \/ TimerFires \/ CommandFails \/ UnitRefreshes \/ RefreshSucceeds \/ RefreshFails
    \/ StatusAnswers \/ UnitCleans \/ NothingToClean \/ Others

MaintenanceSpec == MaintenanceInit /\ [][MaintenanceNext]_maintenanceVars

\* The steps of operations that do not fail (a delivery still may).
Progress ==
    \/ RefreshSucceeds
    \/ /\ IF Refreshing THEN LoadRoutes
          ELSE \/ Deliver \/ Destroy \/ Retire \/ Backup
               \/ PublishUnchanged \/ LoadRoutes \/ PersistRoutes
       /\ UNCHANGED unit

UnitCommands == UnitRefreshes \/ StatusAnswers \/ UnitCleans \/ NothingToClean

Undisturbed ==
    \/ TimerFires \/ UnitCommands \/ Progress
    \/ /\ Requests \/ CaddyRestarts \/ \E i \in Instances : LeaseEnds(i) \/ Expires(i)
       /\ UNCHANGED unit

\* An operation that holds the lock goes on, since every call it makes has a timeout; the
\* timer fires and leases end.  From some time on no call fails, and the unit's commands do
\* not lose the lock to other requests every time.
Fairness ==
    /\ WF_maintenanceVars(Progress)
    /\ WF_maintenanceVars(TimerFires)
    /\ SF_maintenanceVars(UnitCommands)
    /\ \A i \in Previews : WF_maintenanceVars(LeaseEnds(i) /\ UNCHANGED unit)
    /\ <>[][Undisturbed]_maintenanceVars

FairSpec == MaintenanceSpec /\ Fairness

-----------------------------------------------------------------------------
(* What the runs check.                                                    *)

\* A preview whose delivery was interrupted or failed does not stay so: it gets
\* healthy, or a cleanup starts to take it once its lease is over, although the cleanup
\* has its turn only in a unit whose refresh and status went well.
UnfinishedResolved ==
    \A i \in Previews :
        record[i].status \in {"preparing", "failed"}
          ~> record[i].status \notin {"preparing", "failed"}

\* A destruction resumes after any failure or crash until the slot is free, as
\* long as the private directory is still there for shutil.rmtree.
DeletionCompletes ==
    \A i \in Previews :
        (record[i].status = "deleting" /\ i \in directories)
          ~> (record[i].status # "deleting" \/ i \notin directories)

\* docs/ARCHITECTURE.md: cleanup takes the previews "stuck in `deleting`".
DeletingReclaimed ==
    \A i \in Previews : record[i].status = "deleting" ~> record[i].status # "deleting"
=============================================================================
