------------------------------ MODULE MCXrayGate ------------------------------
(* The instance of XrayGate for TLC; the bounds are in the .cfg file.      *)
EXTENDS XrayGate
===============================================================================
