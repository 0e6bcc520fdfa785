------------------------------ MODULE Lifecycle ------------------------------
(***************************************************************************)
(* What vpsctl promises about instances, without the lock, the files,      *)
(* Docker, Caddy or crashes: deliveries are fenced by generation, previews *)
(* take one of PreviewLimit slots from their first delivery until they are *)
(* forgotten, and a retired staging instance stays retired.  Controller    *)
(* implements this specification.                                          *)
(***************************************************************************)
EXTENDS Integers, FiniteSets

CONSTANTS Previews, Stagings, Productions, PreviewLimit, MaxGeneration

VARIABLES
    phase,  \* where each instance is in its life
    fence   \* the highest generation delivered or closed, per instance

vars == <<phase, fence>>

Instances == Previews \cup Stagings \cup Productions
Generations == 1 .. MaxGeneration
Phases == {"closed", "pending", "serving", "closing", "retiring", "retired"}

Slots == {i \in Previews : phase[i] # "closed"}

Move(i, to) == phase' = [phase EXCEPT ![i] = to]
Raise(i, g) == fence' = [fence EXCEPT ![i] = g]

Init ==
    /\ phase = [i \in Instances |-> "closed"]
    /\ fence = [i \in Instances |-> 0]

\* A delivery outranks everything known of the instance; a closed preview needs a slot.
Deliver(i, g) ==
    /\ phase[i] \notin {"retiring", "retired"}
    /\ g > fence[i]
    /\ i \in Previews /\ phase[i] = "closed" => Cardinality(Slots) < PreviewLimit
    /\ Move(i, "pending")
    /\ Raise(i, g)

Serve(i) ==
    /\ phase[i] = "pending"
    /\ Move(i, "serving")
    /\ UNCHANGED fence

\* A preview is closed at a generation that is not stale, and keeps its slot.
Close(i, g) ==
    /\ i \in Previews
    /\ phase[i] # "closed"
    /\ g >= fence[i]
    /\ Move(i, "closing")
    /\ Raise(i, g)

Forget(i) ==
    /\ phase[i] = "closing"
    /\ Move(i, "closed")
    /\ UNCHANGED fence

\* Closing an instance that does not exist fences late deliveries all the same.
Bar(i, g) ==
    /\ phase[i] = "closed"
    /\ g > fence[i]
    /\ Raise(i, g)
    /\ UNCHANGED phase

Retire(i) ==
    /\ i \in Stagings
    /\ phase[i] \in {"pending", "serving"}
    /\ Move(i, "retiring")
    /\ UNCHANGED fence

Retired(i) ==
    /\ phase[i] = "retiring"
    /\ Move(i, "retired")
    /\ UNCHANGED fence

Next ==
    \E i \in Instances :
        \/ \E g \in Generations : Deliver(i, g) \/ Close(i, g) \/ Bar(i, g)
        \/ Serve(i) \/ Forget(i) \/ Retire(i) \/ Retired(i)

Spec == Init /\ [][Next]_vars

-----------------------------------------------------------------------------
\* Every phase and fence keeps its shape.
TypeOK ==
    /\ phase \in [Instances -> Phases]
    /\ fence \in [Instances -> 0 .. MaxGeneration]

\* The previews that hold a slot never outnumber the slots.
SlotLimit == Cardinality(Slots) <= PreviewLimit

\* Nothing lowers a fence.
FencesOnlyRise == [][\A i \in Instances : fence'[i] >= fence[i]]_vars
=============================================================================
