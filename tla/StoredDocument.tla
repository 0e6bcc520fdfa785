--------------------------- MODULE StoredDocument ---------------------------
(***************************************************************************)
(* What a caller of replace_json relies on: the path always has a whole    *)
(* document, and after a loss of power none older than the last one whose  *)
(* replacement was acknowledged.                                           *)
(***************************************************************************)
EXTENDS Naturals

VARIABLES
    document,  \* the document at the path: how many writes were begun before it
    promised   \* the document of the last replacement that was acknowledged

Init == document = 0 /\ promised = 0

\* A newer document takes the place of the one at the path.
Replace ==
    /\ document' \in Nat
    /\ document' > document
    /\ UNCHANGED promised

\* The caller is told that the document at the path is there to stay.
Promise ==
    /\ promised' = document
    /\ UNCHANGED document

\* The power fails: an unacknowledged replacement, or several, may be undone.
Revert ==
    /\ document' \in promised .. document
    /\ UNCHANGED promised

Next == Replace \/ Promise \/ Revert
Spec == Init /\ [][Next]_<<document, promised>>
=============================================================================
