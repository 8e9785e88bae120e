-------------------------- MODULE MC_MGPUValidator --------------------------
(* Model-checking instance of MGPUValidator.                               *)
EXTENDS MGPUValidator, TLC
=============================================================================
