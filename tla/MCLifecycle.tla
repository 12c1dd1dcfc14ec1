----------------------------- MODULE MCLifecycle -----------------------------
(* Small instances of Lifecycle for TLC. *)
EXTENDS Lifecycle, TLC

(* The processes are interchangeable; used by the runs without liveness. *)
ProcSymmetry == Permutations(Procs)
=============================================================================
