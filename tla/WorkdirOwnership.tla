-------------------------- MODULE WorkdirOwnership --------------------------
(***************************************************************************)
(* What the VM-workdir lock promises: one run at a time owns the workdir,  *)
(* commands run only for the owner, the owner changes only while no        *)
(* command is in flight, and a run that lost the workdir never has it      *)
(* again.  MatrixRunLock is shown to implement this.                       *)
(***************************************************************************)
CONSTANTS Procs, Runs, NoRun

VARIABLES
    holder,    \* the run that owns the workdir, or NoRun
    inFlight,  \* the run for which each process executes a command, or NoRun
    former     \* runs that owned the workdir and lost it

vars == <<holder, inFlight, former>>

Quiet == \A p \in Procs : inFlight[p] = NoRun

Init ==
    /\ holder = NoRun
    /\ inFlight = [p \in Procs |-> NoRun]
    /\ former = {}

Take(r) ==
    /\ holder = NoRun /\ Quiet
    /\ r \notin former
    /\ holder' = r
    /\ UNCHANGED <<inFlight, former>>

\* Released by the owner, or reclaimed after its lease.
Lose ==
    /\ holder # NoRun /\ Quiet
    /\ holder' = NoRun
    /\ former' = former \cup {holder}
    /\ UNCHANGED inFlight

Begin(p) ==
    /\ holder # NoRun /\ inFlight[p] = NoRun
    /\ inFlight' = [inFlight EXCEPT ![p] = holder]
    /\ UNCHANGED <<holder, former>>

End(p) ==
    /\ inFlight[p] # NoRun
    /\ inFlight' = [inFlight EXCEPT ![p] = NoRun]
    /\ UNCHANGED <<holder, former>>

Next ==
    \/ \E r \in Runs : Take(r)
    \/ Lose
    \/ \E p \in Procs : Begin(p) \/ End(p)

Spec == Init /\ [][Next]_vars
=============================================================================
