----------------------------- MODULE MCMaintenance ----------------------------
(* Maintenance instantiated for TLC.                                           *)
EXTENDS Maintenance

\* What Caddy runs is only read by a restart of Caddy and by a rollback, which change
\* nothing else: states that differ in it alone have the same steps up to stuttering, and
\* neither the fairness nor the properties of maintenance read it.
AllButLive == <<registryVars, filesVars, dockerVars, file, op, crashVars, unit>>
=============================================================================
