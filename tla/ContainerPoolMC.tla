--------------------------- MODULE ContainerPoolMC ---------------------------
(* Instances of ContainerPool for TLC.                                     *)
EXTENDS ContainerPool

Symmetry == Permutations(Runs) \union Permutations(Containers)
=============================================================================
