---------------------------- MODULE MC_MGPURing ----------------------------
(* Model-checking instance of MGPURing: two user threads share the single *)
(* ring mdev->cmd_ring, scaled down from 1024 to 8 dwords.               *)
EXTENDS MGPURing, TLC

\* The ioctl submitters are interchangeable model values; a DMA copier is not.
SubmitterSymmetry == Permutations(Submitters \ DmaCopiers)
=============================================================================
