----------------------------- MODULE MCRunTests -----------------------------
(* Two runs that ship one file and run one command.                        *)
EXTENDS RunTests

ShipOne == <<"Copy">>
=============================================================================
