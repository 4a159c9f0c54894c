---------------------------- MODULE MCTestRunner ----------------------------
(* The instance of TestRunner for TLC; the bounds are in the .cfg files.   *)
EXTENDS TestRunner, TLC
CONSTANTS s1, s2

\* two batches in one session and one in the other: a poll can outlive its
\* batch into the next one, and its session into the next one
MCBatches == (s1 :> 2) @@ (s2 :> 1)
=============================================================================
