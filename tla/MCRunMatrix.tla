---------------------------- MODULE MCRunMatrix ----------------------------
(* Four scenarios in name order, three of them of one exclusive group.      *)
EXTENDS RunMatrix, TLC

MCScenarios == 1..4
MCGroup == 1 :> "disk" @@ 2 :> "disk" @@ 3 :> "none" @@ 4 :> "disk"
=============================================================================
