---------------------------- MODULE MC_MGPUReset ----------------------------
(* Model-checking instance of MGPUReset.                                   *)
EXTENDS MGPUReset, TLC

(* The two contexts running mgpu_health_check are interchangeable.         *)
HealthSymmetry == Permutations(HealthCtx)
=============================================================================
