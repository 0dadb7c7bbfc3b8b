--------------------------- MODULE MCStagedStore ---------------------------
(***************************************************************************)
(* StagedStore for TLC's safety runs: interruptions without bound.          *)
(***************************************************************************)
EXTENDS DeployRefinement, TLC

\* Manifests are only compared with one another.
Symmetry == Permutations(Manifest)
=============================================================================
