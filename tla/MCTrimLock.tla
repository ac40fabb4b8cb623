----------------------------- MODULE MCTrimLock -----------------------------
(* TrimLock for TLC: two or three trimming processes with interchangeable pids. *)
EXTENDS TrimLock, TLC

Symmetry == Permutations(Proc)
=============================================================================
