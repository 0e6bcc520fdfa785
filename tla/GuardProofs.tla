----------------------------- MODULE GuardProofs -----------------------------
(***************************************************************************)
(* What OnboardingGuard keeps for bodies of any length, proved: no cut body*)
(* opens a guard, the file proxies the name of a ready instance only to    *)
(* data that has been set up, and "ready" is reported of nothing else.     *)
(***************************************************************************)
EXTENDS OnboardingGuard, TLAPS

Handlers == {"none", "open", "proxied", "denied"}
Reports == {"ready", "other"}
Operation == [kind: {"none", "apply", "refresh", "other", "destroy"},
              step: {"idle", "start", "probe", "load", "persist", "report", "commit",
                     "remove", "forget"},
              guarded: BOOLEAN, handler: Handlers, report: Reports]

TypeInv ==
    /\ onboarded \in BOOLEAN /\ claimed \in BOOLEAN /\ (onboarded => claimed)
    /\ probe \in Probe
    /\ guarded \in BOOLEAN /\ loaded \subseteq BOOLEAN
    /\ status \in {"absent", "preparing", "ready", "failed", "deleting"}
    /\ httpStatus \in Reports
    /\ live \in Handlers /\ file \in Handlers
    /\ op \in Operation

\* The watchdog sets the event before it shuts the socket, so what is cut is known to be.
Cut == probe.timer \in {"expired", "shut"} => probe.expired

\* How far a body has come that may still be decided on.
Whole ==
    /\ probe.pc = "check" =>
         probe.got = probe.length \/ probe.closed \/ probe.expired \/ probe.got > MaxBody
    /\ probe.pc = "decide" =>
         (probe.got = probe.length \/ probe.closed) /\ probe.got <= MaxBody
    /\ probe.got <= probe.length
    /\ probe.pc \in {"connect", "headers"} => probe.got = 0
    /\ probe.open => probe.pc \in {"join", "done"}

ProbeInv == Cut /\ Whole /\ CutNeverOpens /\ (probe.open => claimed)

\* A probe belongs to a publish or a report in progress.
ProbeOwned == probe.pc # "off" => Publishing \/ Reporting

\* What an operation still publishes or reports was true when the data was last changed,
\* a delivery that has published has a file to match, and what removes the data has
\* withdrawn the name from it.
OpInv ==
    /\ op.handler = "proxied" \/ op.report = "ready" =>
         claimed /\ op.kind # "destroy" /\ op.step # "start"
    /\ op.kind = "apply" => status = "preparing"
    /\ op.kind = "apply" /\ op.step \in {"report", "commit"} /\ file = "proxied" => claimed
    /\ op.kind = "destroy" => status = "deleting" /\ op.handler = "none"
    /\ At({"destroy"}, "remove") \/ At({"destroy"}, "forget") => file = "none"

Inv == TypeInv /\ ProbeInv /\ ProbeOwned /\ OpInv /\ ProxiedOnlyClaimed /\ ReadyOnlyClaimed

-----------------------------------------------------------------------------
LEMMA OffType == Off \in Probe
  BY BodyAssumption DEF Off, Probe

LEMMA InitInv == Init => Inv
<1> SUFFICES ASSUME Init PROVE Inv
  OBVIOUS
<1>1. TypeInv
  BY OffType DEF Init, TypeInv, Idle, Operation, Handlers, Reports
<1>2. ProbeInv /\ ProbeOwned
  BY DEF Init, ProbeInv, Cut, Whole, CutNeverOpens, ProbeOwned, Off
<1>3. OpInv /\ ProxiedOnlyClaimed /\ ReadyOnlyClaimed
  BY DEF Init, OpInv, At, Idle, ProxiedOnlyClaimed, ReadyOnlyClaimed
<1> QED BY <1>1, <1>2, <1>3 DEF Inv

\* Giving up leaves nothing that could open the guard.
LEMMA GiveUpKept ==
  ASSUME probe \in Probe, ProbeInv, claimed' = claimed, GiveUp,
         probe.pc \notin {"off", "join", "done"}
  PROVE  probe' \in Probe /\ ProbeInv' /\ probe'.pc # "off"
<1> USE BodyAssumption
<1>1. 0 \in 0 .. MaxChunks
  OBVIOUS
<1>2. probe' \in Probe
  BY <1>1 DEF Probe, GiveUp
<1>3. /\ probe'.pc = "join" /\ probe'.length = 0 /\ probe'.got = 0 /\ probe'.open = probe.open
      /\ probe'.timer = probe.timer /\ probe'.expired = probe.expired
  BY DEF Probe, GiveUp
<1>4. ~probe.open
  BY DEF ProbeInv, Whole
<1> QED BY <1>2, <1>3, <1>4 DEF ProbeInv, Cut, Whole, CutNeverOpens

\* A step of the probe's threads keeps what is known of the probe.
LEMMA ProbeKept ==
  ASSUME probe \in Probe, ProbeInv, onboarded => claimed, claimed' = claimed, ProbeStep
  PROVE  probe' \in Probe /\ ProbeInv' /\ (probe'.pc = "off" <=> probe.pc = "off")
<1> USE BodyAssumption DEF Probe, ProbeInv, Cut, Whole, CutNeverOpens, Proceed, Shut
<1>1. CASE ConnectFails
  BY <1>1, GiveUpKept DEF ConnectFails
<1>2. CASE StartWatchdog
  BY <1>2 DEF StartWatchdog
<1>3. CASE ReadHeaders
  <2>1. PICK code \in {"200", "404"}, length \in 0 .. MaxChunks :
           probe' = [probe EXCEPT !.pc = "body", !.code = code, !.length = length]
    BY <1>3 DEF ReadHeaders
  <2>2. probe.pc = "headers" /\ probe.got = 0 /\ 0 <= length
    BY <1>3, <2>1 DEF ReadHeaders
  <2> QED BY <2>1, <2>2
<1>4. CASE NextRead
  <2>1. CASE GiveUp
    BY <1>4, <2>1, GiveUpKept DEF NextRead
  <2>2. CASE Proceed(IF probe.got > MaxBody THEN "check" ELSE "reading")
    BY <1>4, <2>2 DEF NextRead
  <2> QED BY <1>4, <2>1, <2>2 DEF NextRead
<1>5. CASE ReadChunk
  <2>1. probe.got + 1 \in 0 .. MaxChunks
    BY <1>5 DEF ReadChunk
  <2>2. probe' = [probe EXCEPT !.pc = "body", !.got = probe.got + 1]
    BY <1>5 DEF ReadChunk
  <2>3. probe.pc = "reading" /\ probe.got < probe.length
    BY <1>5 DEF ReadChunk
  <2>4. probe.got + 1 <= probe.length
    BY <2>3
  <2>5. /\ probe' \in Probe /\ probe'.pc = "body" /\ probe'.got = probe.got + 1
        /\ probe'.length = probe.length /\ probe'.open = probe.open
        /\ probe'.timer = probe.timer /\ probe'.expired = probe.expired
    BY <2>1, <2>2
  <2> QED BY <2>3, <2>4, <2>5
<1>6. CASE EndOfBody
  BY <1>6 DEF EndOfBody
<1>7. CASE EndOfSocket
  BY <1>7 DEF EndOfSocket
<1>8. CASE ReadFails
  BY <1>8, GiveUpKept DEF ReadFails
<1>9. CASE Check
  <2>1. CASE GiveUp
    BY <1>9, <2>1, GiveUpKept DEF Check
  <2>2. CASE ~(probe.expired \/ probe.late \/ probe.got > MaxBody)
    <3>1. probe.pc = "check" /\ Proceed("decide")
      BY <1>9, <2>2 DEF Check
    <3> QED BY <2>2, <3>1
  <2> QED BY <1>9, <2>1, <2>2 DEF Check
<1>10. CASE DecideOpen
  <2>1. probe.pc = "decide" /\ LooksDone /\ probe' = [probe EXCEPT !.pc = "join", !.open = TRUE]
    BY <1>10 DEF DecideOpen
  <2>2. probe.got = probe.length \/ (probe.closed /\ probe.got < probe.length)
    BY <2>1
  <2>3. claimed /\ (probe.got = probe.length \/ (probe.closed /\ probe.code = "404"))
    BY <2>1, <2>2 DEF LooksDone
  <2>4. /\ probe' \in Probe /\ probe'.pc = "join" /\ probe'.open
        /\ probe'.got = probe.got /\ probe'.length = probe.length /\ probe'.code = probe.code
        /\ probe'.closed = probe.closed /\ probe'.timer = probe.timer
        /\ probe'.expired = probe.expired
    BY <2>1
  <2> QED BY <2>1, <2>3, <2>4
<1>11. CASE DecideClosed
  BY <1>11, GiveUpKept DEF DecideClosed
<1>12. CASE Join
  BY <1>12 DEF Join
<1>13. CASE DeadlinePasses
  BY <1>13 DEF DeadlinePasses
<1>14. CASE SetExpired
  BY <1>14 DEF SetExpired
<1>15. CASE ShutSocket
  BY <1>15 DEF ShutSocket
<1>16. CASE PeerCloses
  BY <1>16 DEF PeerCloses
<1> QED
  BY <1>1, <1>2, <1>3, <1>4, <1>5, <1>6, <1>7, <1>8, <1>9, <1>10, <1>11, <1>12, <1>13, <1>14,
     <1>15, <1>16 DEF ProbeStep, Service, Reader, Watchdog

\* So do the steps that make no use of it: they drop it or leave it alone.
LEMMA ProbeLeft ==
  ASSUME Inv, probe' = Off \/ (probe' = probe /\ (claimed' = claimed \/ claimed'))
  PROVE  probe' \in Probe /\ ProbeInv'
<1>1. CASE probe' = Off
  BY <1>1, OffType DEF ProbeInv, Cut, Whole, CutNeverOpens, Off
<1>2. CASE probe' = probe /\ (claimed' = claimed \/ claimed')
  BY <1>2 DEF Inv, TypeInv, ProbeInv, Cut, Whole, CutNeverOpens
<1> QED BY <1>1, <1>2

-----------------------------------------------------------------------------
\* What every operation starts with.
LEMMA BeginKept ==
  ASSUME loaded \subseteq BOOLEAN, guarded \in BOOLEAN,
         NEW kind \in {"apply", "refresh", "other", "destroy"},
         NEW step \in {"start", "probe", "load"},
         Begin(kind, step)
  PROVE  /\ op' \in Operation
         /\ op'.kind = kind /\ op'.step = step
         /\ op'.handler = "none" /\ op'.report = "other"
         /\ loaded' \subseteq BOOLEAN /\ guarded' \in BOOLEAN
<1>1. PICK guard \in loaded :
         /\ op' = [Idle EXCEPT !.kind = kind, !.step = step, !.guarded = guard]
         /\ loaded' \in {loaded, loaded \ {guard}}
         /\ guarded' = guarded
  BY DEF Begin
<1>2. guard \in BOOLEAN /\ loaded' \subseteq BOOLEAN
  BY <1>1
<1> QED BY <1>1, <1>2 DEF Idle, Operation, Handlers, Reports

LEMMA NextInv ==
  ASSUME Inv, [Next]_vars
  PROVE  Inv'
<1> USE DEF vars, dataVars, caddyVars, recordVars, policyVars, Inv, TypeInv, Operation, Handlers, Reports,
            ProbeOwned, OpInv, ProxiedOnlyClaimed, ReadyOnlyClaimed, Publishing, Reporting,
            At, Goto, Free, Idle
<1> DEFINE Left == probe' \in Probe /\ ProbeInv'
<1>1. CASE PolicyChange
  <2>1. guarded' \in BOOLEAN /\ loaded' \subseteq BOOLEAN
    BY <1>1 DEF PolicyChange, InstallPolicy, LoadPolicy, WaitEnds
  <2>2. UNCHANGED <<dataVars, probe, recordVars, caddyVars, op>>
    BY <1>1 DEF PolicyChange, InstallPolicy, LoadPolicy, WaitEnds
  <2>3. Left
    BY <2>2, ProbeLeft
  <2> QED BY <2>1, <2>2, <2>3
<1>2. CASE StartApply
  <2>1. Left
    BY <1>2, ProbeLeft DEF StartApply
  <2>2. Begin("apply", "start")
    BY <1>2 DEF StartApply
  <2> QED BY <1>2, <2>1, <2>2, BeginKept DEF StartApply
<1>3. CASE StartRefresh
  <2>1. Left
    BY <1>3, ProbeLeft DEF StartRefresh
  <2>2. Begin("refresh", "probe")
    BY <1>3 DEF StartRefresh
  <2> QED BY <1>3, <2>1, <2>2, BeginKept DEF StartRefresh
<1>4. CASE StartOther
  <2>1. Left
    BY <1>4, ProbeLeft DEF StartOther
  <2>2. Begin("other", "probe")
    BY <1>4 DEF StartOther
  <2> QED BY <1>4, <2>1, <2>2, BeginKept DEF StartOther
<1>5. CASE StartDestroy
  <2>1. Left
    BY <1>5, ProbeLeft DEF StartDestroy
  <2>2. Begin("destroy", "load")
    BY <1>5 DEF StartDestroy
  <2> QED BY <1>5, <2>1, <2>2, BeginKept DEF StartDestroy
<1>6. CASE StartContainers
  \* No probe runs before the containers are there, so none has an open guard to show.
  <2>1. probe.pc = "off" /\ ~probe.open
    BY <1>6 DEF StartContainers, ProbeInv, Whole
  <2>2. Left
    BY <1>6, <2>1 DEF StartContainers, ProbeInv, Cut, Whole, CutNeverOpens
  <2>3. /\ op.kind = "apply" /\ op.step = "start" /\ op' = [op EXCEPT !.step = "probe"]
        /\ claimed' \in BOOLEAN /\ onboarded' \in {FALSE, claimed'}
        /\ UNCHANGED <<policyVars, probe, recordVars, caddyVars>>
    BY <1>6 DEF StartContainers
  <2>4. op' \in Operation /\ op'.kind = "apply" /\ op'.step = "probe"
        /\ op'.handler = op.handler /\ op'.report = op.report
    BY <2>3
  <2>5. op.handler # "proxied" /\ op.report # "ready" /\ status = "preparing"
    BY <2>3
  <2>6. TypeInv' /\ ProbeOwned'
    <3>1. onboarded' \in BOOLEAN /\ (onboarded' => claimed')
      <4>1. claimed' \in BOOLEAN /\ (onboarded' = FALSE \/ onboarded' = claimed')
        BY <2>3, Zenon
      <4>2. CASE onboarded' = FALSE
        BY <4>2
      <4>3. CASE onboarded' = claimed'
        BY <4>1, <4>3, Zenon
      <4> QED BY <4>1, <4>2, <4>3
    <3> QED BY <2>1, <2>2, <2>3, <2>4, <3>1
  <2>7. OpInv'
    BY <2>3, <2>4, <2>5
  <2>8. ProxiedOnlyClaimed' /\ ReadyOnlyClaimed'
    BY <2>3, <2>5
  <2> QED BY <2>2, <2>6, <2>7, <2>8
<1>7. CASE StartProbe
  <2>1. Left
    <3>1. probe' = [Off EXCEPT !.pc = "connect"] /\ claimed' = claimed
      BY <1>7 DEF StartProbe, BeginProbe
    <3>2. probe' \in Probe
      BY <3>1, OffType DEF Probe
    <3>3. /\ probe'.pc = "connect" /\ probe'.got = 0 /\ probe'.length = 0
          /\ ~probe'.open /\ probe'.timer = "none"
      BY <3>1 DEF Off
    <3> QED BY <3>2, <3>3 DEF ProbeInv, Cut, Whole, CutNeverOpens
  <2> QED BY <1>7, <2>1 DEF StartProbe
<1>8. CASE ChooseHandler
  <2>1. Left /\ probe'.pc = "off"
    BY <1>8, ProbeLeft DEF ChooseHandler, Off
  <2>2. probe.open => claimed
    BY DEF ProbeInv
  <2>3. PICK handler \in Handlers :
           /\ op' = [op EXCEPT !.step = "load", !.handler = handler]
           /\ handler = "proxied" => claimed
    <3>1. op' = [op EXCEPT !.step = "load", !.handler = op'.handler]
      BY <1>8 DEF ChooseHandler
    <3>2. op'.handler \in Handlers /\ (op'.handler = "proxied" => probe.open)
      BY <1>8 DEF ChooseHandler
    <3> QED BY <3>1, <3>2, <2>2
  <2>4. /\ op' \in Operation /\ op'.kind = op.kind /\ op'.report = op.report
        /\ op'.step = "load" /\ op'.handler = handler
    BY <2>3
  <2>5. Publishing /\ UNCHANGED <<policyVars, dataVars, recordVars, caddyVars>>
    BY <1>8 DEF ChooseHandler
  <2> QED BY <2>1, <2>3, <2>4, <2>5
<1>9. CASE PublishUnchanged \/ LoadRoutes \/ PersistRoutes
  <2>1. Left
    BY <1>9, ProbeLeft DEF PublishUnchanged, LoadRoutes, PersistRoutes
  <2>2. CASE LoadRoutes
    BY <2>1, <2>2 DEF LoadRoutes
  <2>3. CASE PublishUnchanged \/ PersistRoutes
    <3>1. /\ op.step \in {"load", "persist"} /\ file' = op.handler /\ op' = AfterPublish
          /\ UNCHANGED <<policyVars, dataVars, probe, recordVars, live>>
      BY <2>3 DEF PublishUnchanged, PersistRoutes
    <3>2. CASE op.kind \in {"apply", "refresh"}
      <4>1. op' = [op EXCEPT !.step = "report", !.handler = "none"]
        BY <3>1, <3>2 DEF AfterPublish
      <4>2. op' \in Operation /\ op'.kind = op.kind /\ op'.step = "report"
            /\ op'.handler = "none" /\ op'.report = op.report
        BY <4>1
      <4> QED BY <2>1, <3>1, <3>2, <4>2
    <3>3. CASE op.kind = "destroy"
      <4>1. op' = [op EXCEPT !.step = "remove"]
        BY <3>1, <3>3 DEF AfterPublish
      <4>2. op' \in Operation /\ op'.kind = op.kind /\ op'.step = "remove"
            /\ op'.handler = op.handler /\ op'.report = op.report
        BY <4>1
      <4> QED BY <2>1, <3>1, <3>3, <4>2
    <3>4. CASE op.kind \notin {"apply", "refresh", "destroy"}
      <4>1. op' = Idle
        BY <3>1, <3>4 DEF AfterPublish
      <4> QED BY <2>1, <3>1, <3>4, <4>1
    <3> QED BY <3>2, <3>3, <3>4
  <2> QED BY <1>9, <2>2, <2>3
<1>10. CASE Probing
  <2>1. Left /\ (probe'.pc = "off" <=> probe.pc = "off")
    BY <1>10, ProbeKept DEF Probing
  <2>2. onboarded' = onboarded /\ claimed' = claimed
    BY <1>10 DEF Probing, ProbeStep, Service, Reader, Watchdog, ConnectFails, StartWatchdog,
       ReadHeaders, NextRead, ReadChunk, EndOfBody, PeerCloses, EndOfSocket, ReadFails, Check, DecideOpen,
       DecideClosed, Join, DeadlinePasses, SetExpired, ShutSocket
  <2> QED BY <1>10, <2>1, <2>2 DEF Probing
<1>11. CASE ReportStatus
  <2>1. Left /\ probe'.pc = "off"
    BY <1>11, ProbeLeft DEF ReportStatus, Off
  <2>2. probe.open => claimed
    BY DEF ProbeInv
  <2>3. PICK report \in Reports :
           /\ op' = [op EXCEPT !.step = "commit", !.report = report]
           /\ report = "ready" => claimed
    BY <1>11, <2>2 DEF ReportStatus
  <2>4. /\ op' \in Operation /\ op'.kind = op.kind /\ op'.handler = op.handler
        /\ op'.step = "commit" /\ op'.report = report
    BY <2>3
  <2>5. Reporting /\ UNCHANGED <<policyVars, dataVars, recordVars, caddyVars>>
    BY <1>11 DEF ReportStatus
  <2> QED BY <2>1, <2>3, <2>4, <2>5
<1>12. CASE Commit
  <2>1. Left
    BY <1>12, ProbeLeft DEF Commit
  <2> QED BY <1>12, <2>1 DEF Commit, Routed
<1>13. CASE Forget
  <2>1. Left
    BY <1>13, ProbeLeft DEF Forget
  <2> QED BY <1>13, <2>1 DEF Forget
<1>14. CASE LoadUnanswered \/ PersistFails
  <2>1. Left /\ probe'.pc = "off"
    BY <1>14, ProbeLeft DEF LoadUnanswered, PersistFails, End, Off
  <2>2. /\ op.step \in {"load", "persist"} /\ op' = Idle
        /\ status' \in IF op.kind = "apply" THEN {status, "failed"} ELSE {status}
        /\ live' \in {live, file, op.handler} /\ file' \in {file, op.handler}
        /\ UNCHANGED <<policyVars, dataVars, httpStatus>>
    BY <1>14 DEF LoadUnanswered, PersistFails, End
  <2> QED BY <2>1, <2>2
<1>15. CASE RemoveResources
  \* No probe runs in a destruction, so none has an open guard to show.
  <2>1. probe.pc = "off" /\ ~probe.open
    BY <1>15 DEF RemoveResources, ProbeInv, Whole
  <2>2. Left
    BY <1>15, <2>1 DEF RemoveResources, ProbeInv, Cut, Whole, CutNeverOpens
  <2> QED BY <1>15, <2>2 DEF RemoveResources
<1>16. CASE Interrupted
  <2>1. Left /\ probe'.pc = "off"
    BY <1>16, ProbeLeft DEF Interrupted, End, Off
  <2> QED BY <1>16, <2>1 DEF Interrupted, End
<1>17. CASE Onboard \/ Reset \/ CaddyRestarts
  <2>1. Left
    BY <1>17, ProbeLeft DEF Onboard, Reset, CaddyRestarts
  <2>2. /\ (claimed => claimed') /\ claimed' \in BOOLEAN
        /\ onboarded' \in BOOLEAN /\ (onboarded' => claimed')
    <3>1. CASE Onboard
      BY <3>1 DEF Onboard
    <3>2. CASE Reset
      BY <3>2 DEF Reset
    <3>3. CASE CaddyRestarts
      BY <3>3 DEF CaddyRestarts
    <3> QED BY <1>17, <3>1, <3>2, <3>3
  <2>3. UNCHANGED <<policyVars, probe, recordVars, file, op>> /\ live' \in {live, file}
    BY <1>17 DEF Onboard, Reset, CaddyRestarts
  <2> QED BY <2>1, <2>2, <2>3
<1>18. CASE UNCHANGED vars
  <2>1. Left
    BY <1>18, ProbeLeft
  <2> QED BY <1>18, <2>1
<1> QED
  BY <1>1, <1>2, <1>3, <1>4, <1>5, <1>6, <1>7, <1>8, <1>9, <1>10, <1>11, <1>12, <1>13, <1>14,
     <1>15, <1>16, <1>17, <1>18
  DEF Next, Requests, Publish, Answer, Cuts, Application

-----------------------------------------------------------------------------
\* The invariant above holds in every behaviour.
THEOREM Invariance == Spec => []Inv
<1>1. Init => Inv
  BY InitInv
<1>2. Inv /\ [Next]_vars => Inv'
  BY NextInv
<1> QED BY <1>1, <1>2, PTL DEF Spec

\* _guard_open: what the watchdog or the size limit has cut never opens the guard, however
\* many chunks a service sends, wherever it closes and whenever the deadline passes.
THEOREM CutsNeverOpen == Spec => []CutNeverOpens
<1>1. Inv => CutNeverOpens
  BY DEF Inv, ProbeInv
<1> QED BY <1>1, Invariance, PTL

\* caddy_configuration, _publish and Runtime.destroy: whatever publish is cut, the file
\* proxies the name of a ready instance only to data that has been set up.
THEOREM ProxiedClaimed == Spec => []ProxiedOnlyClaimed
<1>1. Inv => ProxiedOnlyClaimed
  BY DEF Inv
<1> QED BY <1>1, Invariance, PTL

\* _public_status: only a service that has been set up is reported "ready" behind its guard.
THEOREM ReadyClaimed == Spec => []ReadyOnlyClaimed
<1>1. Inv => ReadyOnlyClaimed
  BY DEF Inv
<1> QED BY <1>1, Invariance, PTL
=============================================================================
