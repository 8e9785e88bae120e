---------------------------- MODULE MC_MGPUSched ----------------------------
(* Model-checking instance of MGPUSched.                                   *)
EXTENDS MGPUSched, TLC
=============================================================================
