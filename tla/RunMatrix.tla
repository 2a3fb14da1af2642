----------------------------- MODULE RunMatrix -----------------------------
(***************************************************************************)
(* The matrix runner's scheduler (runner/src/bin/run-matrix.rs): one trial *)
(* per runnable scenario, handed in name order to a pool of max_parallel   *)
(* threads.  A trial takes its exclusive group's semaphore, then the       *)
(* global one, runs its recipe, writes result.json, remembers a failure,   *)
(* and gives both back.  When the pool is empty, main aggregates the       *)
(* result.json files and exits 101 if a failure was remembered.            *)
(*                                                                         *)
(* A semaphore is a mutex-protected count and a condition variable: who    *)
(* finds the count zero parks, a release wakes one parked trial, and a     *)
(* woken trial competes again with the trials that arrive.                 *)
(***************************************************************************)
EXTENDS Integers, FiniteSets

CONSTANTS
    Scenarios,   \* the runnable scenarios, numbered in name order
    Groups,      \* the names of exclusive groups
    Group,       \* each scenario's group, or NoGroup
    NoGroup,
    Global,      \* the semaphore every trial takes
    Permits,     \* max_parallel: the global permits, and the pool's threads
    Faults       \* what may go wrong besides the recipes

Outcomes == {"passed", "failed", "errored"}
NoOutcome == "none"
Old == "old"   \* in a file that is left of an earlier run: whatever it says
Entries == Outcomes \cup {NoOutcome, Old}
Unsuccessful == Outcomes \ {"passed"}

Running == -1   \* main has not exited yet

AllFaults == {"write",   \* result.json, or results.json, cannot be written
              "panic",   \* composing a failed recipe's message panics
              "remove"}  \* the files of an earlier run cannot all be removed

ASSUME ScenariosAssumption == Scenarios \subseteq Int /\ IsFiniteSet(Scenarios)
ASSUME GroupAssumption ==
    /\ Group \in [Scenarios -> Groups \cup {NoGroup}]
    /\ NoGroup \notin Groups /\ Global \notin Groups
ASSUME PermitsAssumption == Permits \in Nat \ {0}
ASSUME FaultsAssumption == Faults \subseteq AllFaults

VARIABLES
    at,          \* where each scenario's trial is
    parked,      \* the trials asleep on the semaphore they want
    available,   \* the count of each semaphore
    outcome,     \* what each recipe came to
    result,      \* each scenario's result.json
    failed,      \* the scenarios remembered as failed
    report,      \* results.json, once aggregated
    exit         \* main's exit code

vars == <<at, parked, available, outcome, result, failed, report, exit>>

Semaphores == Groups \cup {Global}

\* Mutant: a group's semaphore is made like the global one.
CapacityLikeGlobal(sem) == Permits

Capacity(sem) == IF sem = Global THEN Permits ELSE 1

Places == {"queued", "group", "global", "run", "report", "dropGlobal",
           "dropGroup", "ended"}

TypeOK ==
    /\ at \in [Scenarios -> Places]
    /\ parked \subseteq Scenarios
    /\ available \in [Semaphores -> 0..Permits]
    /\ outcome \in [Scenarios -> Outcomes \cup {NoOutcome}]
    /\ result \in [Scenarios -> Entries]
    /\ failed \subseteq Scenarios
    /\ report \in [Scenarios -> Entries]
    /\ exit \in {Running, 0, 101}

Nothing == [s \in Scenarios |-> NoOutcome]
OldReport == [s \in Scenarios |-> Old]

\* main removes the diagnostics of the run before and ignores the error: any of
\* its files may still be there.
Removed ==
    \/ result = Nothing
    \/ "remove" \in Faults /\ result \in [Scenarios -> {NoOutcome, Old}]

Init ==
    /\ at = [s \in Scenarios |-> "queued"]
    /\ parked = {}
    /\ available = [sem \in Semaphores |-> Capacity(sem)]
    /\ outcome = Nothing
    /\ Removed
    /\ failed = {}
    /\ report = Nothing
    /\ exit = Running

At(s, place) == at[s] = place
Goto(s, place) == at' = [at EXCEPT ![s] = place]
Grouped(s) == Group[s] # NoGroup

-----------------------------------------------------------------------------
(* The semaphores.                                                         *)

\* The trials about to ask for a semaphore or asleep on it, and those of them
\* that are awake.
Asking(sem) == {s \in Scenarios : \/ At(s, "group") /\ Group[s] = sem
                                  \/ At(s, "global") /\ sem = Global}
Asleep(sem) == Asking(sem) \cap parked
Awake(sem) == Asking(sem) \ parked

Take(s, sem) ==
    /\ s \in Awake(sem)
    /\ available[sem] > 0
    /\ available' = [available EXCEPT ![sem] = @ - 1]
    /\ UNCHANGED parked

Park(s) ==
    /\ \E sem \in Semaphores : s \in Awake(sem) /\ available[sem] = 0
    /\ parked' = parked \cup {s}
    /\ UNCHANGED <<at, available, outcome, result, failed, report, exit>>

\* Condvar::wait may return on its own.
WakeUp(s) ==
    /\ s \in parked
    /\ parked' = parked \ {s}
    /\ UNCHANGED <<at, available, outcome, result, failed, report, exit>>

\* Mutant: the permit is returned without a notification.
NotifyNone(sem) == UNCHANGED parked

NotifyOne(sem) ==
    IF Asleep(sem) = {} THEN UNCHANGED parked
    ELSE \E t \in Asleep(sem) : parked' = parked \ {t}

Release(sem) ==
    /\ available' = [available EXCEPT
          ![sem] = IF @ + 1 <= Capacity(sem) THEN @ + 1 ELSE Capacity(sem)]
    /\ NotifyOne(sem)

-----------------------------------------------------------------------------
(* A trial.                                                                *)

\* The trials that occupy a thread of the pool.
Active == {s \in Scenarios : at[s] \notin {"queued", "ended"}}

FirstQueued(s) == At(s, "queued") /\ \A t \in Scenarios : At(t, "queued") => s <= t

\* A free thread takes the next trial; one without a group asks for the
\* global semaphore at once.
Start(s) ==
    /\ FirstQueued(s)
    /\ Cardinality(Active) < Permits
    /\ Goto(s, IF Grouped(s) THEN "group" ELSE "global")
    /\ UNCHANGED <<parked, available, outcome, result, failed, report, exit>>

TakeGroup(s) ==
    /\ At(s, "group")
    /\ Take(s, Group[s])
    /\ Goto(s, "global")
    /\ UNCHANGED <<outcome, result, failed, report, exit>>

TakeGlobal(s) ==
    /\ At(s, "global")
    /\ Take(s, Global)
    /\ Goto(s, "run")
    /\ UNCHANGED <<outcome, result, failed, report, exit>>

\* run_recipe_observed returns.
RunEnds(s) ==
    /\ At(s, "run")
    /\ \E o \in Outcomes : outcome' = [outcome EXCEPT ![s] = o]
    /\ Goto(s, "report")
    /\ UNCHANGED <<parked, available, result, failed, report, exit>>

\* result.json is written, or cannot be opened, or is left empty.
WriteResult(s) ==
    \/ result' = [result EXCEPT ![s] = outcome[s]]
    \/ "write" \in Faults /\ result' \in {result, [result EXCEPT ![s] = NoOutcome]}

\* Mutant: a recipe that could not be run is not remembered.
ReportFailedOnly(s) ==
    /\ At(s, "report")
    /\ WriteResult(s)
    /\ failed' = IF outcome[s] = "failed" THEN failed \cup {s} ELSE failed
    /\ Goto(s, "dropGlobal")
    /\ UNCHANGED <<parked, available, outcome, report, exit>>

\* The write of result.json is attempted, its error ignored; a scenario that
\* did not pass is remembered.
Report(s) ==
    /\ At(s, "report")
    /\ WriteResult(s)
    /\ failed' = IF outcome[s] = "passed" THEN failed ELSE failed \cup {s}
    /\ Goto(s, "dropGlobal")
    /\ UNCHANGED <<parked, available, outcome, report, exit>>

\* Mutant: a panicking trial never gives its permits back.
PanicLeaks(s) ==
    /\ At(s, "report")
    /\ "panic" \in Faults
    /\ outcome[s] = "failed"
    /\ Goto(s, "ended")
    /\ UNCHANGED <<parked, available, outcome, result, failed, report, exit>>

\* read_tail cuts the text of a failed step at a byte that need not begin a
\* character.  The panic unwinds the trial, dropping its guards, and is caught
\* by the test library.
Panic(s) ==
    /\ At(s, "report")
    /\ "panic" \in Faults
    /\ outcome[s] = "failed"
    /\ Goto(s, "dropGlobal")
    /\ UNCHANGED <<parked, available, outcome, result, failed, report, exit>>

\* Guards drop in reverse order of their declaration.
DropGlobal(s) ==
    /\ At(s, "dropGlobal")
    /\ Release(Global)
    /\ Goto(s, IF Grouped(s) THEN "dropGroup" ELSE "ended")
    /\ UNCHANGED <<outcome, result, failed, report, exit>>

DropGroup(s) ==
    /\ At(s, "dropGroup")
    /\ Release(Group[s])
    /\ Goto(s, "ended")
    /\ UNCHANGED <<outcome, result, failed, report, exit>>

-----------------------------------------------------------------------------
(* main, after libtest_mimic::run.                                         *)

\* results.json collects what the result.json files say, whichever run wrote
\* them, or is left empty or as it was, which may be what an earlier run wrote.
Aggregate ==
    \/ report' = result
    \/ "write" \in Faults /\ report' = Nothing
    \/ "write" \in Faults /\ "remove" \in Faults /\ report' = OldReport

\* Mutant: main does not wait for the pool.
ExitEarly ==
    /\ exit = Running
    /\ Aggregate
    /\ exit' = IF failed # {} THEN 101 ELSE 0
    /\ UNCHANGED <<at, parked, available, outcome, result, failed>>

Exit ==
    /\ exit = Running
    /\ \A s \in Scenarios : At(s, "ended")
    /\ Aggregate
    /\ exit' = IF failed # {} THEN 101 ELSE 0
    /\ UNCHANGED <<at, parked, available, outcome, result, failed>>

Exited == exit # Running /\ UNCHANGED vars

Step(s) ==
    \/ Start(s) \/ TakeGroup(s) \/ TakeGlobal(s) \/ Park(s)
    \/ RunEnds(s) \/ Report(s) \/ Panic(s) \/ DropGlobal(s) \/ DropGroup(s)

Next ==
    \/ \E s \in Scenarios : Step(s) \/ WakeUp(s)
    \/ Exit
    \/ Exited

Spec == Init /\ [][Next]_vars

\* Threads run on and every recipe ends (each of its steps has a time limit).
\* A parked thread may count on nothing but a notification.
FairSpec ==
    /\ Spec
    /\ \A s \in Scenarios : WF_vars(Step(s))
    /\ WF_vars(Exit)

-----------------------------------------------------------------------------
(* Correctness.                                                            *)

HoldsGlobal == {s \in Scenarios : at[s] \in {"run", "report", "dropGlobal"}}
HoldsGroup(g) == {s \in Scenarios : Group[s] = g
    /\ at[s] \in {"global", "run", "report", "dropGlobal", "dropGroup"}}

Holders(sem) == IF sem = Global THEN HoldsGlobal ELSE HoldsGroup(sem)

\* No permit is lost or made up, whatever way a trial ends: the count of a
\* semaphore and the trials that hold it add up to its capacity.
PermitsConserved ==
    \A sem \in Semaphores :
        available[sem] + Cardinality(Holders(sem)) = Capacity(sem)

\* No notification is lost: as long as a trial sleeps on a semaphore, every
\* free permit of it has an awake trial on its way to take it.
NoLostWakeup ==
    \A sem \in Semaphores : Asleep(sem) # {} =>
        Cardinality(Awake(sem)) >= available[sem]

\* Recipes run as ScenarioRuns allows: bounded, exclusive in a group, once.
Runs == INSTANCE ScenarioRuns WITH
    running <- {s \in Scenarios : At(s, "run")}

ImplementsScenarioRuns == Runs!Spec

\* The first failure remains a failure: a run that exits 0 ran every scenario
\* and each passed.
ExitHonest == exit = 0 => \A s \in Scenarios : outcome[s] = "passed"

\* What results.json says of this run, whichever writes fail and whatever is
\* left of an earlier run beside it, is true, and agrees with the exit code: no
\* run that has listed a scenario as failed or errored exits 0.
ReportHonest ==
    \A s \in Scenarios :
        /\ report[s] \in Outcomes => report[s] = outcome[s]
        /\ report[s] \in Unsuccessful => exit = 101

\* The inductive invariant: only a trial that asks is parked and only one
\* with a group asks for it; a recipe has an outcome once it ended; one that
\* did not pass is remembered unless its trial panicked, and before its
\* result.json can be seen; result.json is this run's outcome or an earlier
\* run's; main waits for every trial.
TrialPlaces ==
    /\ parked \subseteq {s \in Scenarios : at[s] \in {"group", "global"}}
    /\ \A s \in Scenarios : at[s] \in {"group", "dropGroup"} => Grouped(s)
    /\ \A s \in Scenarios :
          outcome[s] = NoOutcome <=> at[s] \in {"queued", "group", "global", "run"}

FailuresRemembered ==
    \A s \in Scenarios :
        /\ result[s] \in Outcomes => result[s] = outcome[s]
        /\ result[s] \in Unsuccessful => s \in failed
        /\ at[s] \in {"dropGlobal", "dropGroup", "ended"} /\ outcome[s] \in Unsuccessful
              => s \in failed \/ "panic" \in Faults

MainWaits ==
    /\ exit = Running => report = Nothing
    /\ exit # Running =>
          /\ \A s \in Scenarios : At(s, "ended")
          /\ report \in {result, Nothing, OldReport}
          /\ exit = IF failed # {} THEN 101 ELSE 0

IInv ==
    /\ TypeOK /\ TrialPlaces /\ PermitsConserved /\ NoLostWakeup
    /\ FailuresRemembered /\ MainWaits

\* Every run ends: no trial is left asleep, none waits for another's permit
\* while holding what that one needs.
RunEndsEventually == <>(exit # Running)
=============================================================================
