---------------------------- MODULE MCLeveledSHE ----------------------------
(* Four moduli with different residues modulo 5, so that every way to bring  *)
(* two levels together happens and no scaling factor is mistaken for another.*)
EXTENDS LeveledSHE, TLC

MCQModT == (0 :> 4) @@ (1 :> 3) @@ (2 :> 2) @@ (3 :> 3)

HandleSymmetry == Permutations(Handles)
=============================================================================
