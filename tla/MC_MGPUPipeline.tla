--------------------------- MODULE MC_MGPUPipeline ---------------------------
(* Model-checking instance of MGPUPipeline.                                *)
EXTENDS MGPUPipeline, TLC
=============================================================================
