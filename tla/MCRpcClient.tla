----------------------------- MODULE MCRpcClient -----------------------------
(* Small instances of RpcClient for TLC. *)
EXTENDS RpcClient, TLC

(* Callers are interchangeable; used by the runs that check no liveness. *)
CallerSymmetry == Permutations(Callers)
=============================================================================
