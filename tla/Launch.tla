------------------------------- MODULE Launch -------------------------------
(***************************************************************************)
(* From the command line to the recipes.                                   *)
(*                                                                         *)
(* scripts/run-tests.sh reads the matrix to decide whether the selected    *)
(* scenarios need the VM; if so it settles which host that is, keeps it in *)
(* .test-env and takes that VM's lock.  The runner it then starts reads    *)
(* everything again: harness.toml, .test-env and the matrix give it its    *)
(* VM, its parallelism and its scenarios, and each step's op says where it *)
(* runs.  Nothing but the filter and the lock's environment passes from    *)
(* the one to the other, and .test-env is shared with every other run of   *)
(* the same consumer.                                                      *)
(***************************************************************************)
EXTENDS Naturals, Sequences, FiniteSets

CONSTANTS
    Scenarios,      \* the names in the matrix
    Words,          \* the filters one may type
    NoWord,
    Ops, OpHost,    \* [ops] of harness.toml, and where each of them runs
    Gated,          \* those with a `when'
    Ship,           \* ship-to-vm and ship-to-host
    Others,         \* names of no op, and no name at all
    Hosts, NoHost,
    NoFile,
    Letters,        \* what the VM may say of its drive letters
    Projects,       \* what harness.toml and the matrix may be
    Requests        \* what one may ask for

Places == {"host", "vm"}

\* A bare command is an op of the VM.
OpDefs == [Ops -> Places]

\* A step may override its op's place; any other word for it says nothing.
Steps == [op : Ops \cup Ship \cup Others, host : Places \cup {"other"}]

Recipes == [Scenarios -> Seq(Steps)]

\* Of a group, what is in the matrix; a group that is not there is empty.
Groups == [Words -> SUBSET Scenarios]

\* [vm].host: a name, or a reference to VM_HOST with its default.
HostTemplates == [ref : BOOLEAN, name : Hosts \cup {NoHost}]

Parallelism == [mode : {"number", "drive-letters", "other"}, n : Nat]

\* env: VM_HOST as the caller has it; flag: --vm-host; key: --ssh-key, and
\* whether that key is there; save: another flag that .test-env keeps;
\* tty: somebody answers.
Invocations == [by : {"run-tests", "run-matrix"}, word : Words \cup {NoWord},
                exact : BOOLEAN, list : BOOLEAN, reset : BOOLEAN,
                flag : Hosts \cup {NoHost}, key : {"none", "there", "missing"},
                save : BOOLEAN, tty : BOOLEAN, env : Hosts \cup {NoHost}]

ASSUME NamesAssumption ==
    IsFiniteSet(Scenarios) /\ Scenarios \subseteq Words /\ NoWord \notin Words
ASSUME OpsAssumption ==
    /\ OpHost \in OpDefs /\ Gated \subseteq Ops
    /\ Ops \cap (Ship \cup Others) = {} /\ Ship \cap Others = {}
ASSUME HostsAssumption == NoHost \notin Hosts /\ NoFile \notin Hosts \cup {NoHost}
ASSUME LettersAssumption == Letters \subseteq Nat

\* holds: the scenarios whose names contain a word; valid: the runner takes
\* the files.
ASSUME ProjectsAssumption ==
    Projects \subseteq [recipe   : Recipes,
                        holds    : {h \in [Words -> SUBSET Scenarios] :
                                       \A s \in Scenarios : s \in h[s]},
                        groups   : Groups,
                        host     : HostTemplates,
                        parallel : Parallelism,
                        valid    : BOOLEAN]

\* Only run-matrix has --exact.
ASSUME RequestsAssumption ==
    /\ Requests \subseteq Invocations
    /\ \A r \in Requests : r.by = "run-tests" => ~r.exact

VARIABLES
    project, asked,
    pc,
    exit,        \* how the invocation ended
    file,        \* VM_HOST in .test-env
    badKey,      \* .test-env names a key that is not there, without SSH_OPTS
    rewritten,   \* another invocation has changed .test-env
    needsVM,     \* NEEDS_VM
    host,        \* the script's VM_HOST
    lease,       \* the VM whose lock the script holds
    vm,          \* the runner's [vm].host
    permits,
    filter,      \* args.filter
    runnable,
    manifest,    \* scenario_count_runnable
    at, out,     \* the step and the outcome of each scenario
    listed,
    queried,     \* the VMs asked for their drive letters, outside any lock
    touched,     \* the VMs that have executed a step's command
    refused      \* a VM has refused a command: its lock is not this run's

given == <<project, asked>>
envFile == <<file, badKey>>
script == <<needsVM, host, lease>>
settings == <<vm, permits, queried>>
selection == <<filter, runnable, manifest>>
trials == <<at, out, touched, refused>>
vars == <<given, pc, exit, envFile, rewritten, script, settings, selection, trials, listed>>

TypeOK ==
    /\ project \in Projects /\ asked \in Requests
    /\ pc \in {"start", "decide", "source", "bootstrap", "override", "acquire",
               "load", "parallel", "select", "run", "done"}
    /\ exit \in {"none", "passed", "failed", "stopped"}
    /\ file \in Hosts \cup {NoHost, NoFile}
    /\ badKey \in BOOLEAN /\ rewritten \in BOOLEAN /\ needsVM \in BOOLEAN /\ refused \in BOOLEAN
    /\ {host, lease, vm} \subseteq Hosts \cup {NoHost}
    /\ permits \in Nat
    /\ filter \in Words \cup {NoWord}
    /\ runnable \subseteq Scenarios /\ listed \subseteq Scenarios
    /\ manifest \in Nat
    /\ at \in [Scenarios -> Nat]
    /\ out \in [Scenarios -> {"none", "running", "passed", "failed", "errored", "panicked"}]
    /\ queried \subseteq Hosts /\ touched \subseteq Hosts

Init ==
    /\ project \in Projects /\ asked \in Requests
    /\ pc = IF asked.by = "run-tests" THEN "start" ELSE "load"
    /\ exit = "none"
    /\ file \in Hosts \cup {NoHost, NoFile}
    /\ badKey \in IF file = NoFile THEN {FALSE} ELSE BOOLEAN
    /\ rewritten = FALSE
    /\ needsVM = FALSE /\ host = NoHost /\ lease = NoHost
    /\ vm = NoHost /\ permits = 1 /\ queried = {}
    /\ filter = asked.word /\ runnable = {} /\ manifest = 0
    /\ at = [s \in Scenarios |-> 1] /\ out = [s \in Scenarios |-> "none"]
    /\ listed = {} /\ touched = {} /\ refused = FALSE

\* Another invocation with --vm-host or --reset, the user's editor, or the
\* key's file is removed; once the runner has loaded, nobody reads it any more.
Rewrite ==
    /\ ~rewritten /\ pc \notin {"parallel", "select", "run", "done"}
    /\ rewritten' = TRUE
    /\ file' \in Hosts \cup {NoHost, NoFile}
    /\ badKey' \in IF file' = NoFile THEN {FALSE} ELSE BOOLEAN
    /\ envFile' # envFile
    /\ UNCHANGED <<given, pc, exit, script, settings, selection, trials, listed>>

Stop(how) == pc' = "done" /\ exit' = how
Goto(p) == pc' = p /\ exit' = exit

-----------------------------------------------------------------------------
(* run-tests.sh.                                                           *)

Selected ==
    LET matching == IF asked.word = NoWord THEN Scenarios ELSE project.holds[asked.word]
    IN  IF asked.word # NoWord /\ matching = {} THEN project.groups[asked.word] ELSE matching

\* Mutant: the step's own place is not looked at.
OpImpliesVM(step) ==
    \/ step.op \in Ship
    \/ step.op \in Ops => OpHost[step.op] = "vm"

\* What the script cannot place is taken for a VM step.
ImpliesVM(step) ==
    \/ step.op \in Ship
    \/ step.host = "vm"
    \/ step.host # "host" /\ (step.op \in Ops => OpHost[step.op] = "vm")

HasSteps(s) == project.recipe[s] # <<>>
VMStep(s, i) == ImpliesVM(project.recipe[s][i])
SomeVMStep == \E s \in Selected : \E i \in 1..Len(project.recipe[s]) : VMStep(s, i)

Reset ==
    /\ pc = "start"
    /\ IF asked.reset THEN file' = NoFile /\ badKey' = FALSE ELSE UNCHANGED envFile
    /\ Goto("decide")
    /\ UNCHANGED <<given, rewritten, script, settings, selection, trials, listed>>

ListOffline ==
    /\ pc = "decide" /\ asked.list
    /\ listed' = Selected
    /\ Stop("passed")
    /\ UNCHANGED <<given, envFile, rewritten, script, settings, selection, trials>>

Decide ==
    /\ pc = "decide" /\ ~asked.list
    /\ needsVM' = SomeVMStep
    /\ Goto("source")
    /\ UNCHANGED <<given, envFile, rewritten, host, lease, settings, selection, trials, listed>>

\* .test-env overrides the caller's VM_HOST, with an empty value too.  A key
\* that is not there ends the run, whether or not it is going to the VM.
Source ==
    /\ pc = "source"
    /\ host' \in IF file \in Hosts THEN {file}
                 ELSE IF file = NoHost THEN {NoHost, asked.env} ELSE {asked.env}
    /\ IF badKey THEN Stop("stopped") ELSE Goto(IF needsVM THEN "bootstrap" ELSE "load")
    /\ UNCHANGED <<given, envFile, rewritten, needsVM, lease, settings, selection, trials,
                   listed>>

\* From the flags or the user's answers; without either, or with a key that
\* is not there, the run stops and writes nothing.
Bootstrap ==
    /\ pc = "bootstrap"
    /\ \/ file # NoFile /\ Goto("override") /\ UNCHANGED <<envFile, host>>
       \/ /\ file = NoFile
          /\ \E h \in Hosts :
                /\ h = asked.flag \/ (asked.flag = NoHost /\ asked.tty)
                /\ host' = h /\ file' = h
          /\ asked.flag # NoHost => asked.key # "missing"
          /\ badKey' = FALSE
          /\ Goto("override")
       \/ /\ file = NoFile /\ (asked.flag # NoHost => asked.key = "missing")
          /\ Stop("stopped") /\ UNCHANGED <<envFile, host>>
    /\ UNCHANGED <<given, rewritten, needsVM, lease, settings, selection, trials, listed>>

\* Mutant: a flag is for this run only.
KeepNothing(h) == UNCHANGED envFile

\* What .test-env keeps of a run: its own host, and a key it has found.
Keep(h) == file' = h /\ badKey' = FALSE

Override ==
    /\ pc = "override"
    /\ host' = IF asked.flag # NoHost THEN asked.flag ELSE host
    /\ IF asked.key = "missing"
       THEN Stop("stopped") /\ UNCHANGED envFile
       ELSE /\ IF file # NoFile /\ (asked.flag # NoHost \/ asked.save \/ asked.key = "there")
               THEN Keep(host') ELSE UNCHANGED envFile
            /\ IF host' = NoHost THEN Stop("stopped") ELSE Goto("acquire")
    /\ UNCHANGED <<given, rewritten, needsVM, lease, settings, selection, trials, listed>>

\* The preflight, the lock and the ship, which may each end the run.
Acquire ==
    /\ pc = "acquire"
    /\ \/ lease' = host /\ Goto("load")
       \/ lease' = lease /\ Stop("stopped")
    /\ UNCHANGED <<given, envFile, rewritten, needsVM, host, settings, selection, trials, listed>>

-----------------------------------------------------------------------------
(* run-matrix.                                                             *)

Expand(template, f) == IF template.ref /\ f \in Hosts THEN f ELSE template.name

\* A blank exclusive_group, or a file that does not parse.
Load ==
    /\ pc = "load"
    /\ \/ project.valid /\ vm' = Expand(project.host, file) /\ Goto("parallel")
       \/ ~project.valid /\ vm' = vm /\ Stop("stopped")
    /\ UNCHANGED <<given, envFile, rewritten, script, permits, queried, selection, trials, listed>>

\* Mutant: as many permits as are asked for.
Unclamped(n) == n

Clamp(n) == IF n < 1 THEN 1 ELSE IF n > 24 THEN 24 ELSE n

\* Without an answer from the VM, one at a time.
MaxParallel ==
    CASE project.parallel.mode = "number"        -> {project.parallel.n}
      [] project.parallel.mode = "drive-letters" -> IF vm = NoHost THEN {1}
                                                    ELSE {1} \cup (Letters \ {0})
      [] OTHER                                   -> {1}

Parallel ==
    /\ pc = "parallel"
    /\ \E n \in MaxParallel : permits' = Clamp(n)
    /\ queried' = IF project.parallel.mode = "drive-letters" THEN {vm} \ {NoHost} ELSE {}
    /\ Goto("select")
    /\ UNCHANGED <<given, envFile, rewritten, script, vm, selection, trials, listed>>

Matches(s, word) ==
    \/ word = NoWord
    \/ IF asked.exact THEN s = word ELSE s \in project.holds[word]

\* The filter is a group's name: no scenario matches it.
Expanded == asked.word # NoWord /\ \A s \in Scenarios : ~Matches(s, asked.word)

Chosen ==
    IF Expanded THEN project.groups[asked.word] ELSE {s \in Scenarios : Matches(s, asked.word)}

\* libtest-mimic filters once more.
Kept(names, word) == {s \in names : Matches(s, word)}
Trials == Kept(runnable, filter)

\* Mutant: a group's name goes on to libtest-mimic as a filter.
SelectFilterKept ==
    /\ pc = "select"
    /\ filter' = filter
    /\ IF asked.list
       THEN listed' = Kept(Chosen, filter') /\ Stop("passed") /\ UNCHANGED <<runnable, manifest>>
       ELSE /\ runnable' = {s \in Chosen : HasSteps(s)}
            /\ manifest' = Cardinality(runnable')
            /\ Goto("run")
            /\ UNCHANGED listed
    /\ UNCHANGED <<given, envFile, rewritten, script, settings, trials>>

Select ==
    /\ pc = "select"
    /\ filter' = IF Expanded THEN NoWord ELSE filter
    /\ IF asked.list
       THEN listed' = Kept(Chosen, filter') /\ Stop("passed") /\ UNCHANGED <<runnable, manifest>>
       ELSE /\ runnable' = {s \in Chosen : HasSteps(s)}
            /\ manifest' = Cardinality(runnable')
            /\ Goto("run")
            /\ UNCHANGED listed
    /\ UNCHANGED <<given, envFile, rewritten, script, settings, trials>>

Running == {s \in Scenarios : out[s] = "running"}

Begin(s) ==
    /\ pc = "run"
    /\ s \in Trials /\ out[s] = "none"
    /\ Cardinality(Running) < permits
    /\ out' = [out EXCEPT ![s] = "running"]
    /\ UNCHANGED <<given, pc, exit, envFile, rewritten, script, settings, selection, listed,
                   at, touched, refused>>

\* Where the runner sends a step.
PlaceOf(step) ==
    IF step.op \in Ship THEN "vm"
    ELSE IF step.op \notin Ops THEN "nowhere"
    ELSE IF step.host \in Places THEN step.host ELSE OpHost[step.op]

\* The scenario s is at a step that goes to `place'.
Facing(s, place) ==
    /\ out[s] = "running"
    /\ at[s] \in 1..Len(project.recipe[s])
    /\ PlaceOf(project.recipe[s][at[s]]) = place

Op(s) == project.recipe[s][at[s]].op

\* The first step that fails is the last.
Ends(s, o) == out' = [out EXCEPT ![s] = o] /\ at' = at
Passes(s) == at' = [at EXCEPT ![s] = @ + 1] /\ out' = out

\* A trial may panic while it words its failure, before it records it.
Fault(s) == Ends(s, "failed") \/ Ends(s, "panicked")
Fails(s) == Fault(s) \/ (Op(s) \in Ship /\ Ends(s, "errored"))

RunnerStep ==
    UNCHANGED <<given, pc, exit, envFile, rewritten, script, settings, selection, listed>>

Skip(s) ==
    /\ Facing(s, "vm") \/ Facing(s, "host")
    /\ Op(s) \in Gated
    /\ Passes(s)
    /\ RunnerStep /\ UNCHANGED <<touched, refused>>

\* No vocabulary for the commands (half a share in .test-env) or no directory
\* for the step's output; an op that is not declared; or a command that cannot
\* be built completely.
Misstep(s) ==
    /\ \/ /\ out[s] = "running" /\ at[s] \in 1..Len(project.recipe[s])
          /\ Ends(s, "errored")
       \/ /\ Facing(s, "nowhere")
          /\ Ends(s, "errored")
       \/ /\ Facing(s, "vm") \/ Facing(s, "host")
          /\ Fails(s)
    /\ RunnerStep /\ UNCHANGED <<touched, refused>>

Local(s) ==
    /\ Facing(s, "host")
    /\ Passes(s) \/ Fault(s)
    /\ RunnerStep /\ UNCHANGED <<touched, refused>>

\* Under a lock the command runs if the VM it reaches has that lock.
OnVM(s) ==
    /\ Facing(s, "vm") /\ vm # NoHost /\ lease \in {NoHost, vm}
    /\ touched' = touched \cup {vm}
    /\ Passes(s) \/ Fails(s)
    /\ RunnerStep /\ UNCHANGED refused

\* A step may be content with the exit code of a refusal.
Refused(s) ==
    /\ Facing(s, "vm") /\ vm # NoHost /\ lease \notin {NoHost, vm}
    /\ refused' = TRUE
    /\ Fails(s) \/ (Op(s) \notin Ship /\ Passes(s))
    /\ RunnerStep /\ UNCHANGED touched

Finish(s) ==
    /\ out[s] = "running" /\ at[s] > Len(project.recipe[s])
    /\ Ends(s, "passed")
    /\ RunnerStep /\ UNCHANGED <<touched, refused>>

\* What the trials have recorded as failed; the test library's own conclusion
\* is not looked at.
Recorded == {s \in Trials : out[s] \in {"failed", "errored"}}

Exit ==
    /\ pc = "run"
    /\ \A s \in Trials : out[s] \notin {"none", "running"}
    /\ Stop(IF Recorded = {} THEN "passed" ELSE "failed")
    /\ UNCHANGED <<given, envFile, rewritten, script, settings, selection, trials, listed>>


Script ==
    Reset \/ ListOffline \/ Decide \/ Source \/ Bootstrap \/ Override \/ Acquire
Trial(s) ==
    Begin(s) \/ Skip(s) \/ Misstep(s) \/ Local(s) \/ OnVM(s) \/ Refused(s) \/ Finish(s)
Runner == Load \/ Parallel \/ Select \/ Exit \/ (\E s \in Scenarios : Trial(s))

Next == Rewrite \/ Script \/ Runner

Spec == Init /\ [][Next]_vars
FairSpec == Spec /\ WF_vars(Script) /\ WF_vars(Runner)

-----------------------------------------------------------------------------
(* What the two halves owe each other.                                     *)

\* run-tests.sh and the runner read the matrix independently.  No step's
\* command reaches a VM unless the script has taken that VM's lock: what the
\* runner sends to the VM the script has taken for a VM step
\* (run-tests.sh:197-217, dispatch.rs:285-309), and a lock of another VM
\* refuses it.
VMWorkFenced == asked.by = "run-tests" => touched \subseteq {lease}

\* run-matrix.rs:188-190: the two resolve the filter alike.  What a run that
\* ends has run, or listed, is what the script selects, and the manifest counts
\* it.  It exits 101 if a scenario of the selection failed, but for those that
\* panicked over it; and a failure outside the selection cannot cause it.
SelectionHonoured ==
    ~asked.exact /\ exit \in {"passed", "failed"} =>
        IF asked.list THEN listed = Selected
        ELSE LET due == {s \in Selected : HasSteps(s)}
             IN  /\ {s \in Scenarios : out[s] # "none"} = due
                 /\ manifest = Cardinality(due)
                 /\ exit = "passed" <=> \A s \in due : out[s] \in {"passed", "panicked"}

\* run-tests.sh:81-83: a run whose steps the runner keeps on the host takes
\* no lock and sends no step to a VM; it asks one for its drive letters only if
\* max_parallel says so, and it is not stopped for want of one, unless
\* .test-env names a key that is not there (run-tests.sh:349-350).
AllLocal ==
    \A s \in Selected : \A i \in 1..Len(project.recipe[s]) :
        PlaceOf(project.recipe[s][i]) = "host"
LocalRunsNeedNoVM ==
    asked.by = "run-tests" /\ AllLocal =>
        /\ lease = NoHost /\ touched = {}
        /\ queried # {} => project.parallel.mode = "drive-letters"
        /\ exit = "stopped" => ~project.valid \/ badKey

\* run-tests.sh:330-333, 364-396: the script and the runner agree on the VM
\* through .test-env alone.  With [vm].host taken from VM_HOST, and VM_HOST
\* from .test-env, a flag or the user, the runner works on the VM whose lock
\* the script took, unless another invocation has changed the file before the
\* runner read it.
RunnerReachesLease ==
    /\ asked.by = "run-tests" /\ lease # NoHost
    /\ project.host.ref /\ asked.env = NoHost /\ ~rewritten
    => /\ pc \in {"parallel", "select", "run"} => vm = lease
       /\ ~refused

\* The script's decision is made once, and with it whether there is a lock.
BeforeLock == {"start", "decide", "source", "bootstrap", "override", "acquire"}
AfterLock == {"load", "parallel", "select", "run"}
Decided ==
    /\ asked.by = "run-matrix" => pc \notin BeforeLock /\ lease = NoHost
    /\ pc \in BeforeLock => lease = NoHost
    /\ asked.by = "run-tests" /\ pc \in (BeforeLock \cup AfterLock) \ {"start", "decide"} =>
          (needsVM <=> SomeVMStep)
    /\ pc \in {"bootstrap", "override", "acquire"} => needsVM
    /\ pc = "acquire" => host # NoHost
    /\ asked.by = "run-tests" /\ pc \in AfterLock => (needsVM <=> lease # NoHost)
    /\ lease # NoHost => asked.by = "run-tests" /\ SomeVMStep

\* What is tried is what was chosen, and nothing before that.
Prepared ==
    /\ pc \notin {"run", "done"} =>
          /\ filter = asked.word
          /\ \A s \in Scenarios : out[s] = "none"
          /\ ~refused
    /\ pc = "run" =>
          /\ ~asked.list
          /\ filter = IF Expanded THEN NoWord ELSE asked.word
          /\ runnable = {s \in Chosen : HasSteps(s)}
          /\ manifest = Cardinality(runnable)
          /\ \A s \in Scenarios : out[s] # "none" => s \in runnable
    /\ pc # "done" => exit = "none"
    /\ pc # "run" => Running = {}

\* Where .test-env alone decides, the host is what the file has.
FileDecides ==
    /\ asked.by = "run-tests" /\ project.host.ref /\ asked.env = NoHost /\ ~rewritten
    => /\ pc \in {"bootstrap", "override"} => host = IF file \in Hosts THEN file ELSE NoHost
       /\ pc = "override" => file # NoFile
       /\ pc = "acquire" => host = file
       /\ pc = "load" /\ lease # NoHost => lease = file

IInv ==
    /\ TypeOK
    /\ Decided
    /\ Prepared
    /\ FileDecides
    /\ VMWorkFenced
    /\ SelectionHonoured
    /\ LocalRunsNeedNoVM
    /\ RunnerReachesLease

\* Every invocation ends, whatever max_parallel says.
InvocationEnds == <>(pc = "done")
=============================================================================
