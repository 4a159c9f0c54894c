------------------------------ MODULE MCSysDns ------------------------------
(* Model checking of SysDns with a few services.                             *)
EXTENDS SysDns, TLC

Symmetry == Permutations(Services)
=============================================================================
