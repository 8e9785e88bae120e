------------------------------- MODULE MC_MGPUBo -------------------------------
(* Model-checking instance of MGPUBo.  Threads and files are model values *)
(* given in the .cfg files.                                                *)
EXTENDS MGPUBo, TLC
=============================================================================
