----------------------------- MODULE MCChannel -----------------------------
(* Channel on small instances.                                             *)
EXTENDS Channel, TLC

Symmetry == Permutations(Apps) \cup Permutations(Readers)

=============================================================================
