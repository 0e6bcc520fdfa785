--------------------------- MODULE OnboardingGuard ---------------------------
(***************************************************************************)
(* A name with an onboarding guard: Caddy answers 403 for it until a probe *)
(* (GuardProbe) has seen that the service behind it is set up.  Every      *)
(* publish probes again, also one made for another instance, and a report  *)
(* of http_status probes once more after its publish; the service is set   *)
(* up, reset, restarts and is replaced in between, and a publish may be cut*)
(* between what Caddy runs and the file it reads when it starts.           *)
(*                                                                         *)
(* The guard is in the policy, which is rewritten at any time; a run loads *)
(* it at its start and may wait for the lock long after.                   *)
(*                                                                         *)
(* One guarded instance stands for all: guards do not look at each other.  *)
(***************************************************************************)
EXTENDS GuardProbe

VARIABLES
    claimed,    \* the service's data: its onboarding has been completed, be it reset since
    guarded,    \* policy.json has the guard of the name
    loaded,     \* what the runs that wait for the lock have read of it
    status,     \* its record: status
    httpStatus, \* its record: http_status, "ready" as proved behind the guard, or another
    live,       \* what Caddy does with its name
    file,       \* caddy_config: what it does with it after a start
    op          \* the operation that holds the lock, guarded as it has read

vars == <<onboarded, probe, claimed, guarded, loaded, status, httpStatus, live, file, op>>
dataVars == <<onboarded, claimed>>
caddyVars == <<live, file>>
recordVars == <<status, httpStatus>>
policyVars == <<guarded, loaded>>

Idle == [kind |-> "none", step |-> "idle", guarded |-> FALSE, handler |-> "none",
         report |-> "other"]
Free == op.kind = "none"
At(kinds, step) == op.kind \in kinds /\ op.step = step
Goto(step) == op' = [op EXCEPT !.step = step]

\* A run gets the lock, with the policy that it has loaded; others may have loaded the same.
Begin(kind, step) ==
    \E guard \in loaded :
        /\ op' = [Idle EXCEPT !.kind = kind, !.step = step, !.guarded = guard]
        /\ loaded' \in {loaded, loaded \ {guard}}
        /\ UNCHANGED guarded

Init ==
    /\ onboarded = FALSE /\ claimed = FALSE
    /\ probe = Off
    /\ guarded = TRUE /\ loaded = {}
    /\ status = "absent" /\ httpStatus = "other"
    /\ live = "none" /\ file = "none"
    /\ op = Idle

-----------------------------------------------------------------------------
(* The policy.                                                             *)

InstallPolicy ==
    /\ guarded' = ~guarded
    /\ UNCHANGED <<dataVars, probe, loaded, recordVars, caddyVars, op>>

\* host_controller, before the run waits for the lock.
LoadPolicy ==
    /\ guarded \notin loaded
    /\ loaded' = loaded \cup {guarded}
    /\ UNCHANGED <<dataVars, probe, guarded, recordVars, caddyVars, op>>

\* The runs that have loaded this policy get no lock in time.
WaitEnds(guard) ==
    /\ guard \in loaded
    /\ loaded' = loaded \ {guard}
    /\ UNCHANGED <<dataVars, probe, guarded, recordVars, caddyVars, op>>

-----------------------------------------------------------------------------
(* Deliveries, refreshes, and publishes for other instances.               *)

StartApply ==
    /\ Free
    /\ status' = "preparing"
    /\ httpStatus' = "other"
    /\ Begin("apply", "start")
    /\ UNCHANGED <<dataVars, probe, caddyVars>>

\* The containers are replaced; apply goes on when the service answers on loopback.  Its
\* data is other data than before where a volume is new, renamed or gone.
StartContainers ==
    /\ At({"apply"}, "start")
    /\ claimed' \in BOOLEAN /\ onboarded' \in {FALSE, claimed'}
    /\ Goto("probe")
    /\ UNCHANGED <<policyVars, probe, recordVars, caddyVars>>

\* refresh_ingress; the maintenance timer asks for it first.
StartRefresh ==
    /\ Free
    /\ Begin("refresh", "probe")
    /\ UNCHANGED <<dataVars, probe, recordVars, caddyVars>>

\* An operation on another instance that publishes.
StartOther ==
    /\ Free
    /\ Begin("other", "probe")
    /\ UNCHANGED <<dataVars, probe, recordVars, caddyVars>>

\* A delivery and a refresh report, a destruction has withdrawn the name.
AfterPublish ==
    CASE op.kind \in {"apply", "refresh"} -> [op EXCEPT !.step = "report", !.handler = "none"]
      [] op.kind = "destroy" -> [op EXCEPT !.step = "remove"]
      [] OTHER -> Idle

\* The name is among the routes of this publish.
Routed == op.kind = "apply" \/ status = "ready"

Publishing == At({"apply", "refresh", "other"}, "probe")
Reporting == At({"apply", "refresh"}, "report")

\* The probe of a publish, and of a report, is due.
Probed == Routed /\ op.guarded

\* _publish probes before the configuration is made, _public_status once more.
StartProbe ==
    /\ Publishing \/ Reporting
    /\ Probed
    /\ probe.pc = "off"
    /\ BeginProbe
    /\ UNCHANGED <<policyVars, dataVars, recordVars, caddyVars, op>>

Probing == ProbeStep /\ UNCHANGED <<claimed, policyVars, recordVars, caddyVars, op>>

\* caddy_configuration: the proxy without a guard or for an open one, 403 for a closed one.
ChooseHandler ==
    /\ Publishing
    /\ probe.pc = IF Probed THEN "done" ELSE "off"
    /\ op' = [op EXCEPT !.step = "load",
                        !.handler = IF ~Routed THEN "none"
                                    ELSE IF ~op.guarded THEN "open"
                                    ELSE IF probe.open THEN "proxied" ELSE "denied"]
    /\ probe' = Off
    /\ UNCHANGED <<policyVars, dataVars, recordVars, caddyVars>>

\* A slip: the names of the configurations are compared, and not what is done with them.
NamesUnchanged ==
    /\ op.step = "load"
    /\ (file = "none") = (op.handler = "none")
    /\ op' = AfterPublish
    /\ UNCHANGED <<policyVars, dataVars, probe, recordVars, caddyVars>>

\* Nothing is loaded when the file has the configuration, whatever Caddy runs.
PublishUnchanged ==
    /\ op.step = "load"
    /\ file = op.handler
    /\ op' = AfterPublish
    /\ UNCHANGED <<policyVars, dataVars, probe, recordVars, caddyVars>>

\* The file has another one, be it for another name.
LoadRoutes ==
    /\ op.step = "load"
    /\ live' = op.handler
    /\ Goto("persist")
    /\ UNCHANGED <<policyVars, dataVars, probe, recordVars, file>>

PersistRoutes ==
    /\ op.step = "persist"
    /\ file' = op.handler
    /\ op' = AfterPublish
    /\ UNCHANGED <<policyVars, dataVars, probe, recordVars, live>>

\* A slip: the public probe alone makes the report.
ReportReachable ==
    /\ Reporting
    /\ \E report \in {"ready", "other"} :
          op' = [op EXCEPT !.step = "commit", !.report = report]
    /\ probe' = Off
    /\ UNCHANGED <<policyVars, dataVars, recordVars, caddyVars>>

\* _public_status: behind an open guard the public name is tried, and Caddy's own 403
\* counts as an answer there; behind a closed one it is "protected".  What is reported of a
\* name that has no guard says nothing of its onboarding.
ReportStatus ==
    /\ Reporting
    /\ probe.pc = IF Probed THEN "done" ELSE "off"
    /\ \E report \in IF probe.open THEN {"ready", "other"} ELSE {"other"} :
          op' = [op EXCEPT !.step = "commit", !.report = report]
    /\ probe' = Off
    /\ UNCHANGED <<policyVars, dataVars, recordVars, caddyVars>>

\* The record gets the report; a refresh updates records that are ready.
Commit ==
    /\ At({"apply", "refresh"}, "commit")
    /\ status' = IF op.kind = "apply" THEN "ready" ELSE status
    /\ httpStatus' = IF Routed THEN op.report ELSE httpStatus
    /\ op' = Idle
    /\ UNCHANGED <<policyVars, dataVars, probe, caddyVars>>

-----------------------------------------------------------------------------
(* The destruction of a preview.                                           *)

\* A slip: the data goes while the name is still routed.
StartDestroyRemoving ==
    /\ Free
    /\ status # "absent"
    /\ status' = "deleting"
    /\ Begin("destroy", "remove")
    /\ UNCHANGED <<dataVars, probe, httpStatus, caddyVars>>

\* The routes that are published first are without the name.
StartDestroy ==
    /\ Free
    /\ status # "absent"
    /\ status' = "deleting"
    /\ Begin("destroy", "load")
    /\ UNCHANGED <<dataVars, probe, httpStatus, caddyVars>>

RemoveResources ==
    /\ At({"destroy"}, "remove")
    /\ onboarded' = FALSE /\ claimed' = FALSE
    /\ Goto("forget")
    /\ UNCHANGED <<policyVars, probe, recordVars, caddyVars>>

\* The record goes.
Forget ==
    /\ At({"destroy"}, "forget")
    /\ status' = "absent" /\ httpStatus' = "other"
    /\ op' = Idle
    /\ UNCHANGED <<policyVars, dataVars, probe, caddyVars>>

-----------------------------------------------------------------------------
\* The operation is over, and a delivery is recorded as failed if there is time for it.
End ==
    /\ status' \in IF op.kind = "apply" THEN {status, "failed"} ELSE {status}
    /\ op' = Idle
    /\ probe' = Off

\* A call fails and the answer says so, or the controller is killed.
Interrupted ==
    /\ ~Free
    /\ End
    /\ UNCHANGED <<policyVars, dataVars, httpStatus, caddyVars>>

\* Caddy has switched, but its answer is lost: the load raises and nothing is written.
LoadUnanswered ==
    /\ op.step = "load"
    /\ live' = op.handler
    /\ End
    /\ UNCHANGED <<policyVars, dataVars, httpStatus, file>>

\* _persist_configuration: the write raised, before or after it had replaced the file, and
\* Caddy gets the previous configuration back, unless that load fails too.
PersistFails ==
    /\ op.step = "persist"
    /\ live' \in {live, file}
    /\ file' \in {file, op.handler}
    /\ End
    /\ UNCHANGED <<policyVars, dataVars, httpStatus>>

\* A Caddy restart reads the file again.
CaddyRestarts ==
    /\ live # file
    /\ live' = file
    /\ UNCHANGED <<policyVars, dataVars, probe, recordVars, file, op>>

\* The service has containers, up or not: what a probe gets of it tells.
Running == status \in {"preparing", "ready", "failed"}

\* The owner finishes the onboarding, through the private tunnel.
Onboard ==
    /\ Running /\ ~onboarded
    /\ onboarded' = TRUE /\ claimed' = TRUE
    /\ UNCHANGED <<policyVars, probe, recordVars, caddyVars, op>>

\* The application starts its onboarding anew.
Reset ==
    /\ Running /\ onboarded
    /\ onboarded' = FALSE
    /\ UNCHANGED <<policyVars, claimed, probe, recordVars, caddyVars, op>>

Publish == StartProbe \/ ChooseHandler \/ PublishUnchanged \/ LoadRoutes \/ PersistRoutes
Answer == ReportStatus \/ Commit \/ Forget
Requests == StartApply \/ StartRefresh \/ StartOther \/ StartDestroy
PolicyChange == InstallPolicy \/ LoadPolicy \/ \E guard \in BOOLEAN : WaitEnds(guard)
Cuts == Interrupted \/ LoadUnanswered \/ PersistFails
Application == Onboard \/ Reset

Next ==
    \/ PolicyChange \/ Requests \/ StartContainers \/ Publish \/ Probing \/ Answer
    \/ RemoveResources \/ Cuts \/ CaddyRestarts \/ Application
Spec == Init /\ [][Next]_vars

\* Operations go on, since every call has a timeout, both threads of a probe run and
\* time passes; a run waits for the lock for a bounded time; and every five minutes the
\* timer asks for a refresh, which the lock is not refused every time.
Fairness ==
    /\ WF_vars(StartContainers \/ Publish \/ Answer \/ RemoveResources)
    /\ WF_vars(Probing /\ (Reader \/ (Shut /\ ReadFails) \/ DeadlinePasses \/ Watchdog))
    /\ WF_vars(LoadPolicy)
    /\ \A guard \in BOOLEAN : WF_vars(guard # guarded /\ WaitEnds(guard))
    /\ SF_vars(StartRefresh /\ op'.guarded = guarded)

FairSpec == Spec /\ Fairness

-----------------------------------------------------------------------------
(* What the runs check.                                                    *)

\* The file proxies the name of a ready instance only to data that has been set up, and
\* of a destroyed one nothing, whatever deliveries, cut publishes, destructions and
\* publishes for others came between the probe and now.  (Data that the application itself
\* has reset stays proxied, and so does, until the next publish, what a delivery that
\* failed has put in its place.)
ProxiedOnlyClaimed == status \in {"ready", "absent"} /\ file = "proxied" => claimed

\* "ready" is only reported of a service that has been set up.
ReadyOnlyClaimed == status = "ready" /\ httpStatus = "ready" => claimed

\* A probe that the service answers in time, with a proof.
Prompt ==
    \/ StartWatchdog \/ NextRead \/ ReadChunk \/ EndOfBody \/ EndOfSocket \/ Check \/ Join
    \/ DecideOpen \/ Watchdog
    \/ ReadHeaders /\ probe'.code = "404" /\ probe'.length <= MaxBody

Undisturbed ==
    \/ PolicyChange \/ Requests \/ StartContainers \/ Publish \/ Answer \/ RemoveResources
    \/ Probing /\ Prompt

\* A restart or a load has made up for the last publish that was cut: until then the skip
\* may leave Caddy with anything.
Healed == <>[](Free => live = file)

\* A service that stays ready and set up, and from some time on answers promptly, is
\* proxied again and again, whatever was published of it before.
Usable == status = "ready" /\ onboarded
GuardOpens ==
    (<>[]Usable /\ <>[][Undisturbed]_vars /\ Healed) => []<>(live \in {"proxied", "open"})

\* No operation is cut; the service may do as it likes.
Uninterrupted ==
    \/ PolicyChange \/ Requests \/ StartContainers \/ Publish \/ Answer \/ RemoveResources
    \/ Probing \/ Application

\* A guard that the policy keeps holds in the end: what runs publish that have loaded the
\* policy before it had the guard does not last.
GuardHolds ==
    (<>[]guarded /\ <>[][Uninterrupted]_vars /\ Healed) => <>[](live # "open")
=============================================================================
