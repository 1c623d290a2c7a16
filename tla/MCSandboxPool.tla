--------------------------- MODULE MCSandboxPool ---------------------------
(* SandboxPool with interchangeable attempts.                              *)
EXTENDS SandboxPool, TLC

AttemptSymmetry == Permutations(Attempt)
=============================================================================
