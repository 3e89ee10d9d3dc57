---------------------------- MODULE MCLifecycle ----------------------------
(* Lifecycle on small instances; commands and settings are interchangeable. *)
EXTENDS Lifecycle, TLC

Symmetry == Permutations(Commands) \cup Permutations(Settings)

=============================================================================
