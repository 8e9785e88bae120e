---------------------------- MODULE MC_MGPUFence ----------------------------
(* Model-checking instance of MGPUFence: two waiting threads, fence     *)
(* cells of a small page, and a counter narrowed from 32 bits.          *)
EXTENDS MGPUFence, TLC

\* Waiters are interchangeable (used only where no liveness is checked).
WaiterSymmetry == Permutations(Waiters)
=============================================================================
