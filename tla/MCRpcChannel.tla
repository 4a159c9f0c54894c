---------------------------- MODULE MCRpcChannel ----------------------------
(* The instance of RpcChannel for TLC; the bounds are in the .cfg file.    *)
EXTENDS RpcChannel, TLC

\* Calls are alike: their ids only name them.
CallSymmetry == Permutations(Calls)
=============================================================================
