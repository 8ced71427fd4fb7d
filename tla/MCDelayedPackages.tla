------------------------- MODULE MCDelayedPackages --------------------------
(* DelayedPackages with small sets for TLC. *)
EXTENDS DelayedPackages, TLC

PackageSymmetry == Permutations(Package)

=============================================================================
