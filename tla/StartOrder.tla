----------------------------- MODULE StartOrder -----------------------------
(***************************************************************************)
(* The order in which the services of a delivery start: require_acyclic    *)
(* refuses what could never start, and start_order, which would not end on *)
(* a cycle, relies on that.  Both walk the dependencies depth first by a   *)
(* recursive `visit`; a step is a call of it or a return.  The document    *)
(* gives the order of the services and of the dependencies of each: here   *)
(* it is any.                                                              *)
(***************************************************************************)
EXTENDS Naturals, Sequences, SequencesExt

CONSTANT Services   \* the names of the services

VARIABLES
    depends,  \* depends_on of every service
    phase,    \* of the request: which walk, or where the delivery is
    todo,     \* the walk's own loop: services it has not come to
    frames,   \* the calls of visit in progress, the innermost last
    finished, \* require_acyclic: `finished`
    ordered,  \* start_order: `ordered`
    started   \* services started so far

walk == <<todo, frames>>
vars == <<depends, phase, walk, finished, ordered, started>>

\* validate_dependencies: other services of the delivery.
Dependencies == {d \in [Services -> SUBSET Services] : \A n \in Services : n \notin d[n]}

Init ==
    /\ depends \in Dependencies
    /\ phase = "checking"
    /\ todo = Services
    /\ frames = <<>>
    /\ finished = {}
    /\ ordered = <<>>
    /\ started = <<>>

-----------------------------------------------------------------------------
(* The calls of visit.                                                     *)

\* The call of visit for n, with the dependencies it has not come to.
Frame(n) == [name |-> n, left |-> depends[n]]
InProgress == {frames[k].name : k \in DOMAIN frames}

\* The loop of the walk, or that of the innermost call, comes to n.
Comes(n) ==
    \/ frames = <<>> /\ n \in todo
    \/ frames # <<>> /\ n \in Last(frames).left

\* The calls in progress once n is crossed off.
Without(n) ==
    IF frames = <<>> THEN frames ELSE [frames EXCEPT ![Len(frames)].left = @ \ {n}]

\* visit(n) returns at once.
Skip(n) ==
    /\ frames' = Without(n)
    /\ todo' = IF frames = <<>> THEN todo \ {n} ELSE todo

\* visit(n) goes through the dependencies of n.
Enter(n) ==
    /\ frames' = Append(Without(n), Frame(n))
    /\ todo' = IF frames = <<>> THEN todo \ {n} ELSE todo

\* A slip: a visit returns after the first dependency.
LeaveEarly ==
    /\ frames # <<>>
    /\ Last(frames).left # depends[Last(frames).name] \/ Last(frames).left = {}
    /\ frames' = Front(frames)
    /\ UNCHANGED todo

\* The innermost visit has gone through its dependencies.
Leave ==
    /\ frames # <<>>
    /\ Last(frames).left = {}
    /\ frames' = Front(frames)
    /\ UNCHANGED todo

-----------------------------------------------------------------------------
(* require_acyclic.                                                        *)

\* A slip: the path holds the caller only.
RefusesCaller(n) == frames # <<>> /\ n = Last(frames).name

\* A slip: a service that was reached twice is taken for a cycle.
RefusesTwice(n) == n \in InProgress \cup finished

\* The service is on the path to itself.
Refuses(n) == n \in InProgress

CheckVisit(n) ==
    /\ phase = "checking"
    /\ Comes(n)
    /\ \/ Refuses(n) /\ phase' = "refused" /\ UNCHANGED walk
       \/ ~Refuses(n) /\ n \in finished /\ Skip(n) /\ UNCHANGED phase
       \/ ~Refuses(n) /\ n \notin finished /\ Enter(n) /\ UNCHANGED phase
    /\ UNCHANGED <<depends, finished, ordered, started>>

CheckReturn ==
    /\ phase = "checking"
    /\ Leave
    /\ finished' = finished \cup {Last(frames).name}
    /\ UNCHANGED <<depends, phase, ordered, started>>

\* The delivery is admitted, and Runtime.apply comes to its services.
Accept ==
    /\ phase = "checking"
    /\ frames = <<>> /\ todo = {}
    /\ phase' = "ordering"
    /\ todo' = Services
    /\ UNCHANGED <<depends, frames, finished, ordered, started>>

-----------------------------------------------------------------------------
(* start_order, and the loop of Runtime.apply over what it returns.        *)

OrderVisit(n) ==
    /\ phase = "ordering"
    /\ Comes(n)
    /\ IF n \in ToSet(ordered) THEN Skip(n) ELSE Enter(n)
    /\ UNCHANGED <<depends, phase, finished, ordered, started>>

OrderReturn ==
    /\ phase = "ordering"
    /\ Leave
    /\ ordered' = Append(ordered, Last(frames).name)
    /\ UNCHANGED <<depends, phase, finished, started>>

OrderEnds ==
    /\ phase = "ordering"
    /\ frames = <<>> /\ todo = {}
    /\ phase' = "starting"
    /\ UNCHANGED <<depends, walk, finished, ordered, started>>

\* The next service becomes healthy or ends its job.
Start ==
    /\ phase = "starting"
    /\ Len(started) < Len(ordered)
    /\ started' = Append(started, ordered[Len(started) + 1])
    /\ UNCHANGED <<depends, phase, walk, finished, ordered>>

\* It does not, and the delivery fails.
StartFails ==
    /\ phase = "starting"
    /\ Len(started) < Len(ordered)
    /\ phase' = "failed"
    /\ UNCHANGED <<depends, walk, finished, ordered, started>>

\* Every service is there: the delivery goes on to its verification.
AllStarted ==
    /\ phase = "starting"
    /\ Len(started) = Len(ordered)
    /\ phase' = "started"
    /\ UNCHANGED <<depends, walk, finished, ordered, started>>

Next ==
    \/ \E n \in Services : CheckVisit(n) \/ OrderVisit(n)
    \/ CheckReturn \/ Accept \/ OrderReturn \/ OrderEnds
    \/ Start \/ StartFails \/ AllStarted

Spec == Init /\ [][Next]_vars

-----------------------------------------------------------------------------
(* What the runs check, against a definition that walks nothing.           *)

\* Some services wait for one another: each of them has a dependency among them.
Circular ==
    \E knot \in SUBSET Services :
       knot # {} /\ \A n \in knot : depends[n] \cap knot # {}

\* Cyclic dependencies are refused, and nothing else is: not a service on which two
\* others depend.
ExactlyCyclesRefused == phase # "checking" => (phase = "refused" <=> Circular)

\* Services start once each, when everything they depend on has started, directly or
\* not; a delivery that gets through has started them all.
DependenciesFirst ==
    /\ IsInjective(started)
    /\ \A n \in ToSet(started) : depends[n] \subseteq ToSet(started)
    /\ phase = "started" => ToSet(started) = Services

\* No visit waits for itself, so neither walk goes deeper than there are services.
VisitsApart == \A j, k \in DOMAIN frames : frames[j].name = frames[k].name => j = k
=============================================================================
