--------------------------- MODULE MCCoreSupervisor ---------------------------
(* Instances of CoreSupervisor for TLC; the bounds are in the .cfg files.  *)
EXTENDS CoreSupervisor
=============================================================================
