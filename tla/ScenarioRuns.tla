---------------------------- MODULE ScenarioRuns ----------------------------
(***************************************************************************)
(* What a matrix run promises about which recipes execute together: at     *)
(* most max_parallel of them, never two of one exclusive group, and each   *)
(* scenario once, its first outcome being its outcome.                     *)
(***************************************************************************)
EXTENDS Integers, FiniteSets

CONSTANTS
    Scenarios,   \* the runnable scenarios
    Group,       \* each scenario's exclusive group
    NoGroup,     \* the group of a scenario that names none
    Permits,     \* max_parallel
    Outcomes,    \* what a recipe can come to
    NoOutcome    \* of a recipe that has not been run to its end

VARIABLES
    running,     \* the scenarios whose recipe is executing
    outcome      \* what each recipe came to

Related(s, t) == Group[s] # NoGroup /\ Group[s] = Group[t]

Init ==
    /\ running = {}
    /\ outcome = [s \in Scenarios |-> NoOutcome]

Begin(s) ==
    /\ s \notin running
    /\ outcome[s] = NoOutcome
    /\ Cardinality(running) < Permits
    /\ \A t \in running : ~Related(s, t)
    /\ running' = running \cup {s}
    /\ UNCHANGED outcome

End(s) ==
    /\ s \in running
    /\ running' = running \ {s}
    /\ \E o \in Outcomes : outcome' = [outcome EXCEPT ![s] = o]

Next == \E s \in Scenarios : Begin(s) \/ End(s)

Spec == Init /\ [][Next]_<<running, outcome>>
=============================================================================
