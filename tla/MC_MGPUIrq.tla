------------------------------ MODULE MC_MGPUIrq ------------------------------
EXTENDS MGPUIrq, TLC

(* Interrupt causes are interchangeable model values.                      *)
BitSymmetry == Permutations(Bits)
=============================================================================
