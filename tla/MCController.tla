---------------------------- MODULE MCController ----------------------------
(* Controller instantiated for TLC: interchangeable previews are symmetric. *)
EXTENDS Controller, TLC

PreviewSymmetry == Permutations(Previews)

\* Bound: two instances get to their second generations, or one to its third next to the
\* other's first.
FewGenerations == \A i, j \in Instances : i # j => Fence(i) * Fence(j) <= 4

\* What Caddy runs is only read by a restart of Caddy and by a rollback, which change
\* nothing else, and by no property of controller_lifecycle.
AllButLive == <<registryVars, filesVars, dockerVars, file, op, crashVars>>
=============================================================================
