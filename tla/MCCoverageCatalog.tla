------------------------- MODULE MCCoverageCatalog -------------------------
(* Instances of CoverageCatalog for TLC: interchangeable runs and units. *)
EXTENDS CoverageCatalog, TLC

Symmetry == Permutations(Run) \cup Permutations(Units)
=============================================================================
