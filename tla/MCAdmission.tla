----------------------------- MODULE MCAdmission -----------------------------
(* Admission instantiated for TLC: one staging instance and one preview. *)
EXTENDS Admission, TLC

CONSTANTS Staging, Preview

MCInstances == {Staging, Preview}
ServiceSymmetry == Permutations(Services)
MCEnvironment == Staging :> "staging" @@ Preview :> "preview"
MCEnvelope == "prod" :> 0 @@ "staging" :> 4 @@ "preview" :> 3
=============================================================================
