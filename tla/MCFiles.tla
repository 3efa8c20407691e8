------------------------------ MODULE MCFiles -------------------------------
(* A small disk for TLC, and the mount points "/", "/f" and "/d". *)
EXTENDS Files

MCMounts == << <<"/">>, <<"/", "f">>, <<"/", "d">> >>
MCSymmetry == Permutations(Names)

=============================================================================
