---------------------------- MODULE MCMatrixTxn ----------------------------
(***************************************************************************)
(* Instances of MatrixTxn for TLC.                                         *)
(***************************************************************************)
EXTENDS MatrixTxn

OneScenario == 1..1
=============================================================================
