-------------------------- MODULE MCMatrixRunLock --------------------------
(***************************************************************************)
(* Instances of MatrixRunLock for TLC.                                     *)
(***************************************************************************)
EXTENDS MatrixRunLock, TLC

CONSTANTS r1, r2

\* r1 asks for the shortest lease and r2 for a longer one, so that a crashed
\* acquisition is judged by a lease other than the one it was made for.
LeaseOfRuns == (r1 :> 1) @@ (r2 :> 2)
=============================================================================
