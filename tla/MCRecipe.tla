------------------------------ MODULE MCRecipe ------------------------------
(* Every run executes every scenario.  One that ships over scp stages its     *)
(* image, has it worked on in the VM and fetches it; one that shares its      *)
(* directory has it made in the VM, fetches it and ships it back.             *)
EXTENDS Recipe

JobsOfAll == Runs \X Scenarios
RunOfAll == [j \in JobsOfAll |-> j[1]]
NameOfAll == [j \in JobsOfAll |-> j[2]]
RoundTrip ==
    [j \in JobsOfAll |-> IF j[1] \in Shared THEN <<"make", "fetch", "ship">>
                                            ELSE <<"stage", "ship", "run", "fetch">>]
CheckedTrip == [j \in JobsOfAll |-> <<"stage", "ship", "run", "fetch", "check">>]
NoneLingers == {}
OneLingers == {j \in JobsOfAll : j[1] \in Shared}
=============================================================================
