------------------------------ MODULE MCFat32 ------------------------------
(* A small disk for TLC. *)
EXTENDS Fat32

MCSymmetry == Permutations(Names)

=============================================================================
