------------------------------- MODULE Recipe -------------------------------
(***************************************************************************)
(* Recipes (runner/src/dispatch.rs) of runs that share a host and a VM.    *)
(*                                                                         *)
(* A recipe stages a disk image in its run's directory on the host and     *)
(* ships it to the VM, or makes it there; it works on it there, ships it   *)
(* back and checks it; the first step that fails ends it, and the staged   *)
(* image is removed.  On the VM                                            *)
(* the image has a name that every run uses, so that every command runs    *)
(* under the run's lease, and what scp brings is moved into place by such  *)
(* a command.  On the host every run starts by removing the directories of *)
(* runs that died.                                                         *)
(***************************************************************************)
EXTENDS Naturals, Sequences

CONSTANTS
    Runs,       \* executions of run-matrix under run-tests.sh
    NoRun,
    Jobs,       \* a scenario of a run each
    RunOf,      \* the run of a job
    Scenarios,
    NameOf,     \* the scenario of a job, which names its image on the VM
    Shared,     \* runs whose image directory the VM sees, too
    Plan,       \* the steps of a job's recipe that are for its image, those
                \* that `when' skips left out
    Lingering,  \* jobs with a command that leaves a process behind which holds
                \* its output open
    Unlucky     \* runs whose owner.pid cannot be written, or not within the
                \* grace period, or is judged for longer than that

Kinds == {"stage", "ship", "make", "run", "fetch", "check"}

ASSUME RunsAssumption == NoRun \notin Runs
ASSUME JobsAssumption == RunOf \in [Jobs -> Runs] /\ NameOf \in [Jobs -> Scenarios]
\* The VM is asked to work on an image, or to give it, only when it has been
\* shipped there or made there.
ASSUME PlanAssumption ==
    \A j \in Jobs :
       /\ Plan[j] \in Seq(Kinds)
       /\ \A i \in 1..Len(Plan[j]) :
             Plan[j][i] \in {"run", "fetch"}
             => \E k \in 1..(i - 1) : Plan[j][k] \in {"ship", "make"}
ASSUME LingeringAssumption == Lingering \subseteq Jobs
ASSUME UnluckyAssumption == Unlucky \subseteq Runs
ASSUME SharedAssumption == Shared \subseteq Runs

VARIABLES
    holder, inFlight, former,   \* the VM's lock: see WorkdirOwnership
    vmImg,     \* whose image the VM has under each scenario's name
    stage,     \* whose image is in the ship-* file of each job on the VM
    sent,      \* the guarded command each job has last asked for
    answer,    \* what has come of it
    run,       \* where each run is
    dir,       \* the run's directory on the host
    old,       \* directories unchanged for longer than the grace period
    reap,      \* the directories a run has still to judge
    judged,    \* the one it judges, and whether it found a marker there
    hostImg,   \* whose image is staged on the host for each job
    pc, at,    \* where each recipe is, and its step
    good,      \* whether the fetch has worked so far
    verdict

lock == <<holder, inFlight, former>>
vm == <<lock, vmImg, stage>>
dirs == <<run, dir, old, reap, judged>>
recipe == <<pc, at, good, verdict>>
vars == <<vm, sent, answer, dirs, hostImg, recipe>>

Commands == {"none", "guard", "move", "put", "make", "run", "copy", "take", "remove"}
Nobody == [run |-> NoRun, marked |-> FALSE]

TypeOK ==
    /\ holder \in Runs \cup {NoRun}
    /\ inFlight \in [Jobs -> Runs \cup {NoRun}]
    /\ former \subseteq Runs
    /\ vmImg \in [Scenarios -> Runs \cup {NoRun}]
    /\ stage \in [Jobs -> Runs \cup {NoRun}]
    /\ sent \in [Jobs -> Commands]
    /\ answer \in [Jobs -> {"none", "sent", "busy", "ok", "failed"}]
    /\ run \in [Runs -> {"new", "reap", "judge", "remove", "create", "mark", "work", "over"}]
    /\ dir \in [Runs -> {"none", "bare", "marked"}]
    /\ old \subseteq Runs
    /\ reap \in [Runs -> SUBSET Runs]
    /\ judged \in [Runs -> [run : Runs \cup {NoRun}, marked : BOOLEAN]]
    /\ hostImg \in [Jobs -> Runs \cup {NoRun}]
    /\ pc \in [Jobs -> {"wait", "next", "local", "guard", "scp", "move", "put", "make",
                        "run", "copy", "fetch", "take", "remove", "cleanup", "kept",
                        "ended", "held"}]
    /\ at \in [Jobs -> Nat]
    /\ good \in [Jobs -> BOOLEAN]
    /\ verdict \in [Jobs -> {"none", "passed", "failed", "errored"}]

VM == INSTANCE WorkdirOwnership WITH Procs <- Jobs

Init ==
    /\ VM!Init
    /\ vmImg = [s \in Scenarios |-> NoRun]
    /\ stage = [j \in Jobs |-> NoRun]
    /\ sent = [j \in Jobs |-> "none"]
    /\ answer = [j \in Jobs |-> "none"]
    /\ run = [r \in Runs |-> "new"]
    /\ dir = [r \in Runs |-> "none"]
    /\ old = {}
    /\ reap = [r \in Runs |-> {}]
    /\ judged = [r \in Runs |-> Nobody]
    /\ hostImg = [j \in Jobs |-> NoRun]
    /\ pc = [j \in Jobs |-> "wait"]
    /\ at = [j \in Jobs |-> 1]
    /\ good = [j \in Jobs |-> TRUE]
    /\ verdict = [j \in Jobs |-> "none"]

Goto(j, p) == pc' = [pc EXCEPT ![j] = p]
RunGoes(r, p) == run' = [run EXCEPT ![r] = p]
Alive(r) == run[r] \notin {"new", "over"}

-----------------------------------------------------------------------------
(* The VM.                                                                 *)

\* The lease goes, or is released, and the token's directory with it.
LoseLock ==
    /\ VM!Lose
    /\ stage' = [j \in Jobs |-> IF RunOf[j] = holder THEN NoRun ELSE stage[j]]
    /\ UNCHANGED <<vmImg, sent, answer, dirs, hostImg, recipe>>

\* Mutant: the command is sent to the VM as it is.
BeginUnfenced(j) ==
    /\ answer[j] = "sent"
    /\ inFlight' = [inFlight EXCEPT ![j] = RunOf[j]]
    /\ answer' = [answer EXCEPT ![j] = "busy"]
    /\ UNCHANGED <<holder, former, vmImg, stage, sent, dirs, hostImg, recipe>>

Begin(j) ==
    /\ answer[j] = "sent"
    /\ holder = RunOf[j]
    /\ VM!Begin(j)
    /\ answer' = [answer EXCEPT ![j] = "busy"]
    /\ UNCHANGED <<vmImg, stage, sent, dirs, hostImg, recipe>>

\* Not the owner, or the gates were busy for too long.
Rejected(j) ==
    /\ answer[j] = "sent"
    /\ answer' = [answer EXCEPT ![j] = "failed"]
    /\ UNCHANGED <<vm, sent, dirs, hostImg, recipe>>

\* A command of the recipe makes the image on the VM.
Made(j) ==
    /\ sent[j] = "make"
    /\ vmImg' = [vmImg EXCEPT ![NameOf[j]] = RunOf[j]]
    /\ UNCHANGED stage

\* What a command does to the image and to the job's ship-* file.
Effect(j) ==
    \/ /\ sent[j] = "guard"
       /\ UNCHANGED <<vmImg, stage>>
    \/ /\ sent[j] = "move" /\ stage[j] # NoRun
       /\ vmImg' = [vmImg EXCEPT ![NameOf[j]] = stage[j]]
       /\ stage' = [stage EXCEPT ![j] = NoRun]
    \/ /\ sent[j] = "put" /\ hostImg[j] # NoRun
       /\ vmImg' = [vmImg EXCEPT ![NameOf[j]] = hostImg[j]]
       /\ stage' = [stage EXCEPT ![j] = NoRun]
    \/ Made(j)
    \/ /\ sent[j] = "run" /\ vmImg[NameOf[j]] # NoRun
       /\ UNCHANGED <<vmImg, stage>>
    \/ /\ sent[j] = "copy" /\ vmImg[NameOf[j]] # NoRun
       /\ stage' = [stage EXCEPT ![j] = vmImg[NameOf[j]]]
       /\ UNCHANGED vmImg
    \/ /\ sent[j] = "remove"
       /\ stage' = [stage EXCEPT ![j] = NoRun]
       /\ UNCHANGED vmImg

\* The copy out of the share worked, and not the move.
HalfPut(j) ==
    /\ sent[j] = "put" /\ hostImg[j] # NoRun
    /\ stage' = [stage EXCEPT ![j] = hostImg[j]]
    /\ UNCHANGED vmImg

End(j) ==
    /\ answer[j] = "busy"
    /\ VM!End(j)
    /\ \/ Effect(j) /\ answer' = [answer EXCEPT ![j] = "ok"]
       \/ /\ UNCHANGED <<vmImg, stage>> \/ HalfPut(j) \/ Made(j)
          /\ answer' = [answer EXCEPT ![j] = "failed"]
    /\ UNCHANGED <<sent, dirs, hostImg, recipe>>

\* A copy into the share writes the host's image by itself, whatever has become
\* of the recipe meanwhile; one that fails may have begun to.
Take(j) ==
    /\ answer[j] = "busy" /\ sent[j] = "take"
    /\ VM!End(j)
    /\ vmImg[NameOf[j]] # NoRun /\ dir[RunOf[j]] # "none"
    /\ hostImg' = [hostImg EXCEPT ![j] = vmImg[NameOf[j]]]
    /\ old' = old \ {RunOf[j]}
    /\ \E a \in {"ok", "failed"} : answer' = [answer EXCEPT ![j] = a]
    /\ UNCHANGED <<vmImg, stage, sent, run, dir, reap, judged, recipe>>

-----------------------------------------------------------------------------
(* The directories of runs on the host.                                    *)

Images(r) == {j \in Jobs : RunOf[j] = r /\ hostImg[j] # NoRun}

\* run-tests.sh takes the lock; run-matrix lists the image directory.
StartRun(r) ==
    /\ run[r] = "new"
    /\ VM!Take(r)
    /\ RunGoes(r, "reap")
    /\ reap' = [reap EXCEPT ![r] = {q \in Runs : dir[q] # "none"}]
    /\ UNCHANGED <<vmImg, stage, sent, answer, dir, old, judged, hostImg, recipe>>

ReadMarker(r) ==
    /\ run[r] = "reap"
    /\ \E q \in reap[r] :
          /\ judged' = [judged EXCEPT ![r] = [run |-> q, marked |-> dir[q] = "marked"]]
          /\ reap' = [reap EXCEPT ![r] = @ \ {q}]
    /\ RunGoes(r, "judge")
    /\ UNCHANGED <<vm, sent, answer, dir, old, hostImg, recipe>>

\* Mutant: a directory without a marker is one that nobody has.
OrphanIfUnmarked(q, marked) == marked => ~Alive(q)

Orphan(q, marked) ==
    IF marked THEN ~Alive(q) ELSE q \in old /\ Images(q) # {}

Judge(r) ==
    /\ run[r] = "judge"
    /\ \/ /\ Orphan(judged[r].run, judged[r].marked)
          /\ RunGoes(r, "remove")
          /\ UNCHANGED judged
       \/ /\ ~Orphan(judged[r].run, judged[r].marked)
          /\ RunGoes(r, "reap")
          /\ judged' = [judged EXCEPT ![r] = Nobody]
    /\ UNCHANGED <<vm, sent, answer, dir, old, reap, hostImg, recipe>>

Remove(r) ==
    /\ run[r] = "remove"
    /\ dir' = [dir EXCEPT ![judged[r].run] = "none"]
    /\ hostImg' = [j \in Jobs |-> IF RunOf[j] = judged[r].run THEN NoRun ELSE hostImg[j]]
    /\ old' = old \ {judged[r].run}
    /\ judged' = [judged EXCEPT ![r] = Nobody]
    /\ RunGoes(r, "reap")
    /\ UNCHANGED <<vm, sent, answer, reap, recipe>>

Create(r) ==
    /\ run[r] = "reap" /\ reap[r] = {}
    /\ dir' = [dir EXCEPT ![r] = "bare"]
    /\ RunGoes(r, "mark")
    /\ UNCHANGED <<vm, sent, answer, old, reap, judged, hostImg, recipe>>

\* Nobody looks at whether owner.pid could be written.
Mark(r) ==
    /\ run[r] = "mark"
    /\ \/ dir' = [dir EXCEPT ![r] = IF @ = "none" THEN @ ELSE "marked"]
       \/ r \in Unlucky /\ UNCHANGED dir
    /\ old' = old \ {r}
    /\ RunGoes(r, "work")
    /\ UNCHANGED <<vm, sent, answer, reap, judged, hostImg, recipe>>

Judges(r, q) == run[r] = "judge" /\ judged[r].run = q

\* Five minutes without a change, where that matters: a reaper comes to judge
\* the directory, and no marker is there, or none was.  A run writes its marker,
\* and judges a directory, in less.
Age(q) ==
    /\ \E r \in Runs : \/ q \in reap[r] /\ dir[q] = "bare"
                       \/ Judges(r, q) /\ ~judged[r].marked
    /\ q \in Unlucky \/ (run[q] # "mark" /\ \A r \in Runs : ~Judges(r, q))
    /\ old' = old \cup {q}
    /\ UNCHANGED <<vm, sent, answer, run, dir, reap, judged, hostImg, recipe>>

\* The process ends or is killed, its recipes where they are.
EndRun(r) ==
    /\ Alive(r)
    /\ RunGoes(r, "over")
    /\ UNCHANGED <<vm, sent, answer, dir, old, reap, judged, hostImg, recipe>>

-----------------------------------------------------------------------------
(* A recipe.  Every command has a time limit: one that runs into it is     *)
(* stopped on the host, and on the VM lost or left alone.                  *)

Working(j) == run[RunOf[j]] = "work"
At(j, p) == Working(j) /\ pc[j] = p
Step(j) == Plan[j][at[j]]
Over(j) == pc[j] \in {"kept", "ended"}

Send(j, c) ==
    /\ sent' = [sent EXCEPT ![j] = c]
    /\ answer' = [answer EXCEPT ![j] = "sent"]

GiveUp(j) ==
    /\ UNCHANGED sent
    /\ \/ UNCHANGED answer
       \/ answer[j] = "sent" /\ answer' = [answer EXCEPT ![j] = "none"]

\* Mutant: a command that may take for ever.
FailsUnbounded(j) == answer[j] = "failed" /\ UNCHANGED <<sent, answer>>

\* It has failed, or time is up: whatever it says now comes too late.
Fails(j) ==
    \/ answer[j] = "failed" /\ UNCHANGED <<sent, answer>>
    \/ GiveUp(j)

Succeeds(j) == answer[j] = "ok"

Advance(j) ==
    /\ at' = [at EXCEPT ![j] = @ + 1]
    /\ Goto(j, "next")
    /\ UNCHANGED <<good, verdict>>

\* Fail-fast: no later step is run, and the image goes.
Fail(j) ==
    /\ verdict' = [verdict EXCEPT ![j] = "failed"]
    /\ Goto(j, "cleanup")
    /\ UNCHANGED <<at, good>>

StartRecipe(j) ==
    /\ At(j, "wait")
    /\ Goto(j, "next")
    /\ UNCHANGED <<vm, sent, answer, dirs, hostImg, at, good, verdict>>

StartLocal(j) ==
    /\ At(j, "next") /\ at[j] <= Len(Plan[j])
    /\ Step(j) \in {"stage", "check"}
    /\ Goto(j, "local")
    /\ UNCHANGED <<vm, sent, answer, dirs, hostImg, at, good, verdict>>

\* The directory is there or comes with the image; a new entry makes it young.
Staged(j) ==
    /\ hostImg' = [hostImg EXCEPT ![j] = RunOf[j]]
    /\ dir' = [dir EXCEPT ![RunOf[j]] = IF @ = "none" THEN "bare" ELSE @]
    /\ old' = old \ {RunOf[j]}
    /\ UNCHANGED <<run, reap, judged>>

LocalOk(j) ==
    /\ At(j, "local")
    /\ IF Step(j) = "stage" THEN Staged(j)
       ELSE hostImg[j] # NoRun /\ UNCHANGED <<hostImg, dirs>>
    /\ Advance(j)
    /\ UNCHANGED <<vm, sent, answer>>

LocalFails(j) ==
    /\ At(j, "local")
    /\ \/ UNCHANGED <<hostImg, dirs>>
       \/ Step(j) = "stage" /\ Staged(j)
    /\ Fail(j)
    /\ UNCHANGED <<vm, sent, answer>>

StartRemote(j) ==
    /\ At(j, "next") /\ at[j] <= Len(Plan[j])
    /\ \E c \in {"guard", "put", "make", "run"} :
          /\ Step(j) = IF c \in {"make", "run"} THEN c ELSE "ship"
          /\ c = "put" => RunOf[j] \in Shared
          /\ c = "guard" => RunOf[j] \notin Shared
          /\ Send(j, c) /\ Goto(j, c)
    /\ UNCHANGED <<vm, dirs, hostImg, at, good, verdict>>

\* ship-to-host also makes the directory that the image will be written to.
StartFetch(j) ==
    /\ At(j, "next") /\ at[j] <= Len(Plan[j])
    /\ Step(j) = "fetch"
    /\ \E c \in {"copy", "take"} :
          /\ c = "take" <=> RunOf[j] \in Shared
          /\ Send(j, c) /\ Goto(j, c)
    /\ dir' = [dir EXCEPT ![RunOf[j]] = IF @ = "none" THEN "bare" ELSE @]
    /\ UNCHANGED <<vm, run, old, reap, judged, hostImg, at, good, verdict>>

GuardOk(j) ==
    /\ At(j, "guard") /\ Succeeds(j)
    /\ Goto(j, "scp")
    /\ UNCHANGED <<vm, sent, answer, dirs, hostImg, at, good, verdict>>

GuardRefused(j) ==
    /\ At(j, "guard") /\ answer[j] = "failed"
    /\ Fail(j)
    /\ UNCHANGED <<vm, sent, answer, dirs, hostImg>>

\* An error of the recipe, which returns before it removes the image.
Errs(j) ==
    /\ verdict' = [verdict EXCEPT ![j] = "errored"]
    /\ Goto(j, "ended")
    /\ UNCHANGED <<vm, dirs, hostImg, at, good>>

\* A guard that runs into its limit is such an error, and no failed step.
GuardTimesOut(j) ==
    /\ At(j, "guard") \/ At(j, "copy")
    /\ GiveUp(j)
    /\ Errs(j)

\* A step that cannot begin: no directory for its diagnostics, an operation that
\* is not declared, a ship without its paths.
StepErrs(j) ==
    /\ At(j, "next") /\ at[j] <= Len(Plan[j])
    /\ Errs(j)
    /\ UNCHANGED <<sent, answer>>

\* Mutant: scp straight to the image's name.
ScpDirect(j) ==
    /\ At(j, "scp") /\ hostImg[j] # NoRun
    /\ vmImg' = [vmImg EXCEPT ![NameOf[j]] = hostImg[j]]
    /\ Advance(j)
    /\ UNCHANGED <<lock, stage, sent, answer, dirs, hostImg>>

\* scp needs no lease, but the token's directory.
ScpOk(j) ==
    /\ At(j, "scp") /\ holder = RunOf[j] /\ hostImg[j] # NoRun
    /\ stage' = [stage EXCEPT ![j] = hostImg[j]]
    /\ Send(j, "move") /\ Goto(j, "move")
    /\ UNCHANGED <<lock, vmImg, dirs, hostImg, at, good, verdict>>

ScpFails(j) ==
    /\ At(j, "scp")
    /\ Fail(j)
    /\ UNCHANGED <<vm, sent, answer, dirs, hostImg>>

RemoteOk(j) ==
    /\ \E p \in {"move", "put", "make", "run", "take"} : At(j, p)
    /\ Succeeds(j)
    /\ Advance(j)
    /\ UNCHANGED <<vm, sent, answer, dirs, hostImg>>

RemoteFails(j) ==
    /\ \E p \in {"move", "put", "make", "run", "take"} : At(j, p)
    /\ Fails(j)
    /\ Fail(j)
    /\ UNCHANGED <<vm, dirs, hostImg>>

CopyOk(j) ==
    /\ At(j, "copy") /\ Succeeds(j)
    /\ Goto(j, "fetch")
    /\ UNCHANGED <<vm, sent, answer, dirs, hostImg, at, good, verdict>>

Unfetched(j) ==
    /\ Send(j, "remove") /\ Goto(j, "remove")
    /\ good' = [good EXCEPT ![j] = FALSE]
    /\ UNCHANGED <<vm, dirs, hostImg, at, verdict>>

CopyRefused(j) == At(j, "copy") /\ answer[j] = "failed" /\ Unfetched(j)

FetchOk(j) ==
    /\ At(j, "fetch")
    /\ holder = RunOf[j] /\ stage[j] # NoRun /\ dir[RunOf[j]] # "none"
    /\ hostImg' = [hostImg EXCEPT ![j] = stage[j]]
    /\ old' = old \ {RunOf[j]}
    /\ Send(j, "remove") /\ Goto(j, "remove")
    /\ UNCHANGED <<vm, run, dir, reap, judged, at, good, verdict>>

FetchFails(j) == At(j, "fetch") /\ Unfetched(j)

RemoveOk(j) ==
    /\ At(j, "remove") /\ Succeeds(j)
    /\ good' = [good EXCEPT ![j] = TRUE]
    /\ IF good[j] THEN at' = [at EXCEPT ![j] = @ + 1] /\ Goto(j, "next") /\ UNCHANGED verdict
       ELSE Goto(j, "cleanup") /\ verdict' = [verdict EXCEPT ![j] = "failed"] /\ UNCHANGED at
    /\ UNCHANGED <<vm, sent, answer, dirs, hostImg>>

RemoveFails(j) ==
    /\ At(j, "remove")
    /\ Fails(j)
    /\ Fail(j)
    /\ UNCHANGED <<vm, dirs, hostImg>>

Pass(j) ==
    /\ At(j, "next") /\ at[j] > Len(Plan[j])
    /\ verdict' = [verdict EXCEPT ![j] = "passed"]
    /\ Goto(j, "cleanup")
    /\ UNCHANGED <<vm, sent, answer, dirs, hostImg, at, good>>

\* The run's directory goes too if nothing is left in it, the marker included.
Cleanup(j) ==
    /\ At(j, "cleanup")
    /\ hostImg' = [hostImg EXCEPT ![j] = NoRun]
    /\ dir' = [dir EXCEPT ![RunOf[j]] =
                  IF @ = "bare" /\ Images(RunOf[j]) \subseteq {j} THEN "none" ELSE @]
    /\ old' = IF hostImg[j] = NoRun THEN old ELSE old \ {RunOf[j]}
    /\ Goto(j, "ended")
    /\ UNCHANGED <<vm, sent, answer, run, reap, judged, at, good, verdict>>

\* HARNESS_KEEP_IMAGES, or a file that cannot be removed, which only a warning
\* says.
CleanupKeeps(j) ==
    /\ At(j, "cleanup")
    /\ Goto(j, "kept")
    /\ UNCHANGED <<vm, sent, answer, dirs, hostImg, at, good, verdict>>

OnVM(j) == Begin(j) \/ Rejected(j) \/ End(j) \/ Take(j)

OnHost(j) ==
    \/ StartRecipe(j) \/ StartLocal(j) \/ LocalOk(j) \/ LocalFails(j)
    \/ StartRemote(j) \/ StartFetch(j)
    \/ StepErrs(j) \/ GuardOk(j) \/ GuardRefused(j) \/ GuardTimesOut(j)
    \/ ScpOk(j) \/ ScpFails(j)
    \/ RemoteOk(j) \/ RemoteFails(j)
    \/ CopyOk(j) \/ CopyRefused(j) \/ FetchOk(j) \/ FetchFails(j)
    \/ RemoveOk(j) \/ RemoveFails(j)
    \/ Pass(j) \/ Cleanup(j) \/ CleanupKeeps(j)

\* The command has ended in time, but not what it has left behind: the readers
\* of its output are joined without a limit.  One that does end is slow, no more.
Hold(j) ==
    /\ j \in Lingering
    /\ \E p \in {"local", "guard", "scp", "move", "put", "make", "run", "copy", "fetch",
                  "take", "remove"} : At(j, p)
    /\ Goto(j, "held")
    /\ UNCHANGED <<vm, sent, answer, dirs, hostImg, at, good, verdict>>

Reaper(r) == ReadMarker(r) \/ Judge(r) \/ Remove(r) \/ Create(r) \/ Mark(r)

Next ==
    \/ LoseLock
    \/ \E j \in Jobs : OnVM(j) \/ OnHost(j) \/ Hold(j)
    \/ \E r \in Runs : StartRun(r) \/ Reaper(r) \/ Age(r) \/ EndRun(r)

Spec == Init /\ [][Next]_vars

\* The recipes of a run that goes on go on, and every command has a limit, but
\* not what it leaves behind.  Nothing is assumed of the VM, nor of the runs.
FairSpec == Spec /\ \A j \in Jobs : WF_vars(OnHost(j))

-----------------------------------------------------------------------------
(* Correctness.                                                            *)

\* Some earlier step of the recipe was a k.
Past(j, k) == \E i \in 1..(at[j] - 1) : Plan[j][i] = k
OnVMAlready(j) == Past(j, "ship") \/ Past(j, "make")
OnHostAlready(j) == Past(j, "stage") \/ Past(j, "fetch")

\* What the VM executes for a recipe works on the image of that recipe's run,
\* and so does what copies it for the host: never on one that another run put
\* under the same name.
OwnImage ==
    \A j \in Jobs :
        inFlight[j] # NoRun /\ sent[j] \in {"run", "copy", "take"} => vmImg[NameOf[j]] = RunOf[j]

\* An image of the VM is put in place for the run that holds the lease then,
\* although scp, which brings it, knows nothing of the lease.
MovedByHolder ==
    [][\A s \in Scenarios : vmImg'[s] # vmImg[s] => vmImg'[s] = holder]_vars

\* From where it was staged or fetched to its clean-up a recipe finds its image
\* on the host, and it is the one of its run: no other run takes the directory
\* for an orphan, unless its owner could not mark it in time.
LiveImageKept ==
    \A j \in Jobs :
        Working(j) /\ RunOf[j] \notin Unlucky /\ OnHostAlready(j) /\ ~Over(j)
        => hostImg[j] = RunOf[j]

\* A recipe of a run that goes on comes to its end, whatever the VM answers, if
\* no command leaves a process behind that holds its output open.
JobEnds ==
    \A j \in Jobs :
        Working(j) ~> Over(j) \/ run[RunOf[j]] = "over" \/ pc[j] = "held"

\* dispatch.rs:225-227: the staged image is deleted as soon as the recipe is
\* done with it, pass or fail.  Where it is to be kept or cannot be removed is
\* another matter.
ImageRemoved ==
    \A j \in Jobs : Working(j) /\ pc[j] = "ended" => hostImg[j] = NoRun

\* What is left of that where it fails: a recipe that is over keeps its image
\* only if an error ended it, if clean-up was to keep it or could not remove it,
\* or if its copy into the share came late.
RemovedUnlessErrored ==
    \A j \in Jobs :
        pc[j] = "ended" /\ verdict[j] # "errored" /\ RunOf[j] \notin Shared
        => hostImg[j] = NoRun

-----------------------------------------------------------------------------
(* The inductive invariant of RecipeProofs.                                *)

\* A command is in flight exactly while its job sees it busy, for the holder.
LockSound ==
    /\ holder \notin former
    /\ \A r \in Runs : run[r] = "new" => holder # r
    /\ \A j \in Jobs :
          /\ inFlight[j] # NoRun <=> answer[j] = "busy"
          /\ inFlight[j] # NoRun => inFlight[j] = RunOf[j] /\ holder = RunOf[j]

\* The step and the command that go with each place of a recipe.
PlaceSound(j) ==
    /\ at[j] >= 1
    /\ run[RunOf[j]] # "work" /\ run[RunOf[j]] # "over" => pc[j] = "wait"
    /\ pc[j] = "wait" => at[j] = 1 /\ sent[j] = "none" /\ answer[j] = "none"
    /\ pc[j] \notin {"wait", "next", "cleanup", "kept", "ended", "held"}
          => at[j] <= Len(Plan[j])
    /\ pc[j] = "local" => Step(j) \in {"stage", "check"}
    /\ pc[j] \in {"guard", "scp", "move", "put"} => Step(j) = "ship"
    /\ pc[j] \in {"make", "run"} => Step(j) = pc[j]
    /\ pc[j] \in {"copy", "fetch", "take", "remove"} => Step(j) = "fetch"
    /\ pc[j] \in {"guard", "move", "put", "make", "run", "copy", "take", "remove"}
          => sent[j] = pc[j]
    /\ pc[j] \in {"next", "local", "scp", "fetch"} => answer[j] \notin {"sent", "busy"}
    /\ sent[j] \in {"run", "copy", "take"} /\ answer[j] \in {"sent", "busy"}
          => OnVMAlready(j)

\* Once moved or made in place, a run's image stays there while the run holds on.
ImageSound(j) ==
    /\ stage[j] \in {NoRun, RunOf[j]}
    /\ hostImg[j] \in {NoRun, RunOf[j]}
    /\ OnVMAlready(j) /\ holder = RunOf[j] => vmImg[NameOf[j]] = RunOf[j]
    /\ sent[j] \in {"move", "put", "make"} /\ answer[j] = "ok" /\ holder = RunOf[j]
          => vmImg[NameOf[j]] = RunOf[j]

\* A fetch that has worked has brought the image, although it is not over yet.
FetchSound(j) ==
    Working(j) /\ RunOf[j] \notin Unlucky =>
        /\ pc[j] = "remove" /\ good[j] => hostImg[j] = RunOf[j]
        /\ pc[j] = "take" /\ answer[j] = "ok" => hostImg[j] = RunOf[j]

\* What a run has listed, judged or condemned belongs to runs that began, and
\* is condemned only if its run is over.
ReaperSound(r) ==
    /\ dir[r] # "none" \/ r \in old => run[r] \in {"mark", "work", "over"}
    /\ \A q \in reap[r] : run[q] \in {"mark", "work", "over"}
    /\ r \notin Unlucky =>
          /\ run[r] = "work" => dir[r] = "marked"
          /\ run[r] = "mark" => dir[r] = "bare" /\ r \notin old
    /\ run[r] \in {"judge", "remove"} =>
          /\ judged[r].run \in Runs
          /\ run[judged[r].run] \in {"mark", "work", "over"}
    /\ run[r] = "judge" /\ ~judged[r].marked /\ judged[r].run \in old \ Unlucky
          => run[judged[r].run] = "over"
    /\ run[r] = "remove" /\ judged[r].run \notin Unlucky => run[judged[r].run] = "over"

IInv ==
    /\ TypeOK
    /\ LockSound
    /\ \A j \in Jobs : PlaceSound(j) /\ ImageSound(j) /\ FetchSound(j)
    /\ \A r \in Runs : ReaperSound(r)
    /\ LiveImageKept
=============================================================================
