---------------------------- MODULE MCDaemonProxy ----------------------------
(* Small instances of DaemonProxy for TLC. *)
EXTENDS DaemonProxy, TLC

(* Sessions are interchangeable; used by the runs that check no liveness. *)
SessionSymmetry == Permutations(Sessions)
=============================================================================
