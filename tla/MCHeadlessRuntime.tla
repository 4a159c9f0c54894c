------------------------- MODULE MCHeadlessRuntime -------------------------
(* The headless program on two profiles. *)
EXTENDS HeadlessRuntime, TLC
ProfileSymmetry == Permutations(Profiles)
=============================================================================
