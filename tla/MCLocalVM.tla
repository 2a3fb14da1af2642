----------------------------- MODULE MCLocalVM -----------------------------
(* One base and at most one instance that borrows it.                      *)
EXTENDS LocalVM
=============================================================================
