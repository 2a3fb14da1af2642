---------------------------- MODULE LaunchProofs ----------------------------
(***************************************************************************)
(* For any matrix and [ops], any filter and any VMs: what the script takes *)
(* for work on the VM covers what the runner sends there, so that no       *)
(* command reaches a VM without its lock; the two select the same          *)
(* scenarios; and a run that stays on the host needs no VM.                *)
(***************************************************************************)
EXTENDS Launch, FiniteSetTheorems, TLAPS

-----------------------------------------------------------------------------
(* The project and the request.                                            *)

LEMMA ProjectTypes ==
    ASSUME project \in Projects
    PROVE  /\ project.recipe \in [Scenarios -> Seq(Steps)]
           /\ project.holds \in [Words -> SUBSET Scenarios]
           /\ \A s \in Scenarios : s \in project.holds[s]
           /\ project.groups \in [Words -> SUBSET Scenarios]
           /\ project.host \in [ref : BOOLEAN, name : Hosts \cup {NoHost}]
           /\ project.parallel \in [mode : {"number", "drive-letters", "other"}, n : Nat]
BY ProjectsAssumption DEF Recipes, Groups, HostTemplates, Parallelism

LEMMA RequestTypes ==
    ASSUME asked \in Requests
    PROVE  /\ asked.by \in {"run-tests", "run-matrix"}
           /\ asked.word \in Words \cup {NoWord}
           /\ asked.exact \in BOOLEAN
           /\ asked.list \in BOOLEAN
           /\ {asked.flag, asked.env} \subseteq Hosts \cup {NoHost}
           /\ asked.by = "run-tests" => ~asked.exact
BY RequestsAssumption DEF Invocations

LEMMA StepOf ==
    ASSUME project \in Projects, NEW s \in Scenarios,
           NEW i \in 1..Len(project.recipe[s])
    PROVE  project.recipe[s][i] \in Steps
<1>1. project.recipe[s] \in Seq(Steps)
  BY ProjectTypes
<1>2. QED
  BY <1>1

LEMMA SelectedType ==
    ASSUME project \in Projects, asked \in Requests
    PROVE  Selected \subseteq Scenarios /\ Chosen \subseteq Scenarios
<1>1. asked.word # NoWord =>
          project.groups[asked.word] \subseteq Scenarios
          /\ project.holds[asked.word] \subseteq Scenarios
  BY ProjectTypes, RequestTypes
<1>2. Selected \subseteq Scenarios
  BY <1>1 DEF Selected
<1>3. Chosen \subseteq Scenarios
  BY <1>1 DEF Chosen, Expanded
<1>4. QED
  BY <1>2, <1>3

\* Nothing of the project or of the request changes.
LEMMA GivenKept ==
    ASSUME UNCHANGED given
    PROVE  /\ Selected' = Selected /\ SomeVMStep' = SomeVMStep
           /\ AllLocal' = AllLocal
           /\ Expanded' = Expanded /\ Chosen' = Chosen
           /\ \A s : HasSteps(s)' = HasSteps(s)
<1>1. project' = project /\ asked' = asked
  BY DEF given
<1>2. Selected' = Selected
  BY <1>1 DEF Selected
<1>3. SomeVMStep' = SomeVMStep
  BY <1>1, <1>2 DEF SomeVMStep, VMStep
<1>4. AllLocal' = AllLocal
  BY <1>1, <1>2 DEF AllLocal
<1>5. Expanded' = Expanded
  BY <1>1 DEF Expanded, Matches
<1>6. Chosen' = Chosen
  BY <1>1, <1>5 DEF Chosen, Matches
<1>7. \A s : HasSteps(s)' = HasSteps(s)
  BY <1>1 DEF HasSteps
<1>8. QED
  BY <1>2, <1>3, <1>4, <1>5, <1>6, <1>7

-----------------------------------------------------------------------------
(* The script and the runner.                                              *)

\* A step that the runner sends to the VM is a VM step to the script.
LEMMA ScriptCoversRunner ==
    ASSUME NEW step \in Steps, PlaceOf(step) = "vm"
    PROVE  ImpliesVM(step)
<1>1. CASE step.op \in Ship
  BY <1>1 DEF ImpliesVM
<1>2. CASE step.op \notin Ship
  <2>1. step.op \in Ops
    BY <1>2 DEF PlaceOf
  <2>2. CASE step.host \in Places
    BY <1>2, <2>1, <2>2 DEF PlaceOf, ImpliesVM
  <2>3. CASE step.host \notin Places
    BY <1>2, <2>1, <2>3 DEF PlaceOf, ImpliesVM, Places
  <2>4. QED
    BY <2>2, <2>3
<1>3. QED
  BY <1>1, <1>2

\* And one that it runs on the host is not.
LEMMA ScriptSparesHost ==
    ASSUME NEW step \in Steps, PlaceOf(step) = "host"
    PROVE  ~ImpliesVM(step)
<1>1. step.op \notin Ship /\ step.op \in Ops
  BY DEF PlaceOf
<1>2. CASE step.host \in Places
  BY <1>1, <1>2 DEF PlaceOf, ImpliesVM
<1>3. CASE step.host \notin Places
  BY <1>1, <1>3 DEF PlaceOf, ImpliesVM, Places
<1>4. QED
  BY <1>2, <1>3

LEMMA LocalIsNoVM ==
    ASSUME project \in Projects, asked \in Requests, AllLocal
    PROVE  ~SomeVMStep
<1>1. SUFFICES ASSUME NEW s \in Selected, NEW i \in 1..Len(project.recipe[s]), VMStep(s, i)
               PROVE  FALSE
  BY DEF SomeVMStep
<1>2. project.recipe[s][i] \in Steps
  BY <1>1, StepOf, SelectedType
<1>3. PlaceOf(project.recipe[s][i]) = "host"
  BY <1>1 DEF AllLocal
<1>4. QED
  BY <1>1, <1>2, <1>3, ScriptSparesHost DEF VMStep

\* The two resolve the filter alike.
LEMMA SelectionsAgree ==
    ASSUME project \in Projects, asked \in Requests, ~asked.exact
    PROVE  Chosen = Selected
<1>1. CASE asked.word = NoWord
  BY <1>1 DEF Chosen, Selected, Expanded, Matches
<1>2. CASE asked.word # NoWord
  <2>1. project.holds[asked.word] \subseteq Scenarios
    BY <1>2, ProjectTypes, RequestTypes
  <2>2. \A s \in Scenarios : Matches(s, asked.word) <=> s \in project.holds[asked.word]
    BY <1>2 DEF Matches
  <2>3. Expanded <=> project.holds[asked.word] = {}
    BY <1>2, <2>1, <2>2 DEF Expanded
  <2>4. CASE Expanded
    BY <1>2, <2>3, <2>4 DEF Chosen, Selected
  <2>5. CASE ~Expanded
    <3>1. Chosen = project.holds[asked.word]
      BY <2>1, <2>2, <2>5 DEF Chosen
    <3>2. QED
      BY <1>2, <2>3, <2>5, <3>1 DEF Selected
  <2>6. QED
    BY <2>4, <2>5
<1>3. QED
  BY <1>1, <1>2

\* libtest-mimic's own filter takes nothing away.
LEMMA NothingFilteredOut ==
    ASSUME NEW w, w = IF Expanded THEN NoWord ELSE asked.word
    PROVE  \A names \in SUBSET Chosen : Kept(names, w) = names
<1>1. CASE Expanded
  BY <1>1 DEF Kept, Matches
<1>2. CASE ~Expanded
  BY <1>2 DEF Kept, Chosen
<1>3. QED
  BY <1>1, <1>2

LEMMA AllRunnableTried ==
    ASSUME Prepared, pc = "run"
    PROVE  Trials = runnable
<1>1. runnable \in SUBSET Chosen /\ filter = IF Expanded THEN NoWord ELSE asked.word
  BY DEF Prepared
<1>2. QED
  BY <1>1, NothingFilteredOut DEF Trials

-----------------------------------------------------------------------------
(* Types.                                                                  *)

\* What a step of a scenario leaves alone, and what it may do.
LEMMA TrialFrame ==
    ASSUME TypeOK, Prepared, NEW s \in Scenarios, Trial(s)
    PROVE  /\ pc = "run" /\ s \in runnable
           /\ UNCHANGED <<given, pc, exit, envFile, rewritten, script, settings, selection, listed>>
           /\ at' \in [Scenarios -> Nat]
           /\ \E o \in {"running", "passed", "failed", "errored", "panicked"} :
                 out' = [out EXCEPT ![s] = o]
           /\ \/ touched' = touched
              \/ /\ Facing(s, "vm") /\ vm # NoHost /\ lease \in {NoHost, vm}
                 /\ touched' = touched \cup {vm}
           /\ \/ refused' = refused
              \/ Facing(s, "vm") /\ vm # NoHost /\ lease \notin {NoHost, vm}
<1>1. CASE Begin(s)
  <2>1. s \in runnable
    BY <1>1 DEF Begin, Trials, Kept
  <2>2. at' \in [Scenarios -> Nat]
    BY <1>1 DEF Begin, TypeOK
  <2>3. QED
    BY <1>1, <2>1, <2>2 DEF Begin
<1>2. CASE ~Begin(s)
  <2>1. out[s] = "running"
    BY <1>2 DEF Trial, Skip, Misstep, Local, OnVM, Refused, Finish, Facing
  <2>2. pc = "run" /\ s \in runnable
    BY <2>1 DEF Prepared, Running
  <2>3. RunnerStep
    BY <1>2 DEF Trial, Skip, Misstep, Local, OnVM, Refused, Finish
  <2>4. Passes(s) \/ Fails(s) \/ Ends(s, "errored") \/ Ends(s, "passed")
    <3>1. CASE Skip(s)
      BY <3>1 DEF Skip
    <3>2. CASE Misstep(s)
      BY <3>2 DEF Misstep
    <3>3. CASE Local(s)
      BY <3>3 DEF Local, Fails, Fault
    <3>4. CASE OnVM(s)
      BY <3>4 DEF OnVM
    <3>5. CASE Refused(s)
      BY <3>5 DEF Refused
    <3>6. CASE Finish(s)
      BY <3>6 DEF Finish
    <3>7. QED
      BY <1>2, <3>1, <3>2, <3>3, <3>4, <3>5, <3>6 DEF Trial
  <2>5. /\ at' \in [Scenarios -> Nat]
        /\ \E o \in {"running", "passed", "failed", "errored", "panicked"} :
              out' = [out EXCEPT ![s] = o]
    <3>1. CASE Passes(s)
      <4>1. out' = [out EXCEPT ![s] = "running"]
        BY <2>1, <3>1 DEF Passes, TypeOK
      <4>2. at' \in [Scenarios -> Nat]
        BY <3>1 DEF Passes, TypeOK
      <4>3. QED
        BY <4>1, <4>2
    <3>2. CASE Fails(s) \/ Ends(s, "errored") \/ Ends(s, "passed")
      BY <3>2 DEF Fails, Fault, Ends, TypeOK
    <3>3. QED
      BY <2>4, <3>1, <3>2
  <2>6. \/ touched' = touched
        \/ /\ Facing(s, "vm") /\ vm # NoHost /\ lease \in {NoHost, vm}
           /\ touched' = touched \cup {vm}
    BY <1>2 DEF Trial, Skip, Misstep, Local, OnVM, Refused, Finish
  <2>7. \/ refused' = refused
        \/ Facing(s, "vm") /\ vm # NoHost /\ lease \notin {NoHost, vm}
    BY <1>2 DEF Trial, Skip, Misstep, Local, OnVM, Refused, Finish
  <2>8. QED
    BY <2>2, <2>3, <2>5, <2>6, <2>7 DEF RunnerStep
<1>3. QED
  BY <1>1, <1>2

LEMMA InitType == Init => TypeOK
<1>1. SUFFICES ASSUME Init PROVE TypeOK
  OBVIOUS
<1>2. asked \in Requests
  BY <1>1 DEF Init
<1>3. asked.word \in Words \cup {NoWord}
  BY <1>2, RequestTypes
<1>4. QED
  BY <1>1, <1>2, <1>3 DEF Init, TypeOK

LEMMA ScriptType ==
    ASSUME TypeOK, Script
    PROVE  TypeOK'
<1>0. /\ {asked.flag, asked.env} \subseteq Hosts \cup {NoHost}
      /\ project \in Projects /\ asked \in Requests
  BY RequestTypes DEF TypeOK
<1>1. CASE Reset
  BY <1>1 DEF Reset, Goto, TypeOK, given, envFile, script, settings, selection, trials
<1>2. CASE ListOffline
  <2>1. listed' \subseteq Scenarios
    BY <1>0, <1>2, SelectedType DEF ListOffline
  <2>2. QED
    BY <1>2, <2>1 DEF ListOffline, Stop, TypeOK, given, envFile, script, settings, selection, trials
<1>3. CASE Decide
  <2>1. SomeVMStep \in BOOLEAN
    BY DEF SomeVMStep
  <2>2. QED
    BY <1>3, <2>1 DEF Decide, Goto, TypeOK, given, envFile, settings, selection, trials
<1>4. CASE Source
  <2>1. host' \in Hosts \cup {NoHost}
    BY <1>0, <1>4 DEF Source
  <2>2. pc' \in {"bootstrap", "load", "done"} /\ exit' \in {exit, "stopped"}
    BY <1>4 DEF Source, Goto, Stop
  <2>3. QED
    BY <1>4, <2>1, <2>2 DEF Source, TypeOK, given, envFile, settings, selection, trials
<1>5. CASE Bootstrap
  <2>1. /\ host' \in Hosts \cup {NoHost} /\ file' \in Hosts \cup {NoHost, NoFile}
        /\ badKey' \in BOOLEAN
    BY <1>5 DEF Bootstrap, TypeOK, envFile
  <2>2. pc' \in {"override", "done"} /\ exit' \in {exit, "stopped"}
    BY <1>5 DEF Bootstrap, Goto, Stop
  <2>3. QED
    BY <1>5, <2>1, <2>2 DEF Bootstrap, TypeOK, given, envFile, settings, selection, trials
<1>6. CASE Override
  <2>1. host' \in Hosts \cup {NoHost}
    BY <1>0, <1>6 DEF Override, TypeOK
  <2>2. file' \in Hosts \cup {NoHost, NoFile} /\ badKey' \in BOOLEAN
    BY <1>6, <2>1 DEF Override, Keep, TypeOK, envFile
  <2>3. pc' \in {"acquire", "done"} /\ exit' \in {exit, "stopped"}
    BY <1>6 DEF Override, Goto, Stop
  <2>4. QED
    BY <1>6, <2>1, <2>2, <2>3 DEF Override, TypeOK, given, envFile, settings, selection, trials
<1>7. CASE Acquire
  BY <1>7 DEF Acquire, Goto, Stop, TypeOK, given, envFile, settings, selection, trials
<1>8. QED
  BY <1>1, <1>2, <1>3, <1>4, <1>5, <1>6, <1>7 DEF Script

LEMMA ClampType ==
    ASSUME NEW n \in Nat
    PROVE  Clamp(n) \in 1..24
BY DEF Clamp

LEMMA RunnerType ==
    ASSUME TypeOK, Prepared, Runner
    PROVE  TypeOK'
<1>0. /\ project \in Projects /\ asked \in Requests
      /\ project.host.name \in Hosts \cup {NoHost}
      /\ project.parallel.n \in Nat
  BY ProjectTypes DEF TypeOK
<1>1. CASE Load
  <2>1. vm' \in Hosts \cup {NoHost}
    BY <1>0, <1>1 DEF Load, Expand, TypeOK
  <2>2. pc' \in {"parallel", "done"} /\ exit' \in {exit, "stopped"}
    BY <1>1 DEF Load, Goto, Stop
  <2>3. QED
    BY <1>1, <2>1, <2>2 DEF Load, TypeOK, given, envFile, script, selection, trials
<1>2. CASE Parallel
  <2>1. MaxParallel \subseteq Nat
    BY <1>0, LettersAssumption DEF MaxParallel
  <2>2. permits' \in Nat
    BY <1>2, <2>1, ClampType DEF Parallel
  <2>3. queried' \subseteq Hosts
    BY <1>2 DEF Parallel, TypeOK
  <2>4. QED
    BY <1>2, <2>2, <2>3 DEF Parallel, Goto, TypeOK, given, envFile, script, selection, trials
<1>3. CASE Select
  <2>1. filter' \in Words \cup {NoWord}
    BY <1>3 DEF Select, TypeOK
  <2>2. Chosen \subseteq Scenarios
    BY <1>0, SelectedType
  <2>3. runnable' \subseteq Scenarios /\ listed' \subseteq Scenarios
    BY <1>3, <2>2 DEF Select, Kept, TypeOK
  <2>4. manifest' \in Nat
    <3>1. IsFiniteSet(runnable')
      BY <2>3, FS_Subset, NamesAssumption
    <3>2. Cardinality(runnable') \in Nat
      BY <3>1, FS_CardinalityType
    <3>3. QED
      BY <1>3, <3>2 DEF Select, TypeOK
  <2>5. pc' \in {"run", "done"} /\ exit' \in {exit, "passed"}
    BY <1>3 DEF Select, Goto, Stop
  <2>6. QED
    BY <1>3, <2>1, <2>3, <2>4, <2>5 DEF Select, TypeOK, given, envFile, script, settings, trials
<1>4. CASE Exit
  BY <1>4 DEF Exit, Stop, TypeOK, given, envFile, script, settings, selection, trials
<1>5. CASE \E s \in Scenarios : Trial(s)
  <2>1. PICK s \in Scenarios : Trial(s)
    BY <1>5
  <2>2. out' \in [Scenarios -> {"none", "running", "passed", "failed", "errored", "panicked"}]
    BY <2>1, TrialFrame DEF TypeOK
  <2>3. touched' \subseteq Hosts
    BY <2>1, TrialFrame DEF TypeOK
  <2>4. refused' \in BOOLEAN
    BY <2>1 DEF Trial, Begin, Skip, Misstep, Local, OnVM, Refused, Finish, TypeOK
  <2>5. /\ at' \in [Scenarios -> Nat]
        /\ UNCHANGED <<given, pc, exit, envFile, rewritten, script, settings, selection, listed>>
    BY <2>1, TrialFrame
  <2>6. QED
    BY <2>2, <2>3, <2>4, <2>5 DEF TypeOK, given, envFile, script, settings, selection
<1>6. QED
  BY <1>1, <1>2, <1>3, <1>4, <1>5 DEF Runner

LEMMA StepType ==
    ASSUME TypeOK, Prepared, [Next]_vars
    PROVE  TypeOK'
<1>1. CASE Rewrite
  BY <1>1 DEF Rewrite, TypeOK, given, envFile, script, settings, selection, trials
<1>2. CASE UNCHANGED vars
  BY <1>2 DEF vars, TypeOK, given, envFile, script, settings, selection, trials
<1>3. QED
  BY <1>1, <1>2, ScriptType, RunnerType DEF Next

-----------------------------------------------------------------------------
(* The decision and the preparation.                                       *)

\* Only the scenarios' steps change what the VMs and the scenarios are.
LEMMA GivenFixed ==
    ASSUME TypeOK, Prepared, [Next]_vars
    PROVE  UNCHANGED given
<1>1. CASE \E s \in Scenarios : Trial(s)
  BY <1>1, TrialFrame
<1>2. CASE Script \/ Rewrite \/ UNCHANGED vars
  BY <1>2 DEF Script, Reset, ListOffline, Decide, Source, Bootstrap, Override, Acquire,
              Rewrite, vars
<1>3. CASE Load \/ Parallel \/ Select \/ Exit
  BY <1>3 DEF Load, Parallel, Select, Exit
<1>4. QED
  BY <1>1, <1>2, <1>3 DEF Next, Runner

LEMMA TrialsFixed ==
    ASSUME [Next]_vars, ~\E s \in Scenarios : Trial(s)
    PROVE  UNCHANGED trials
BY DEF Next, Script, Reset, ListOffline, Decide, Source, Bootstrap, Override, Acquire,
       Rewrite, Runner, Load, Parallel, Select, Exit, vars

LEMMA DecidedStep ==
    ASSUME TypeOK, Prepared, Decided, [Next]_vars
    PROVE  Decided'
<1>0. /\ UNCHANGED given /\ SomeVMStep' = SomeVMStep
      /\ asked' = asked /\ asked.by \in {"run-tests", "run-matrix"}
  BY GivenFixed, GivenKept, RequestTypes DEF given, TypeOK
<1>1. CASE Rewrite \/ UNCHANGED vars
  <2>1. UNCHANGED <<pc, script>>
    BY <1>1 DEF Rewrite, vars
  <2>2. QED
    BY <1>0, <2>1 DEF Decided, script
<1>2. CASE Reset
  BY <1>0, <1>2 DEF Reset, Goto, Decided, script, BeforeLock, AfterLock
<1>3. CASE ListOffline
  BY <1>0, <1>3 DEF ListOffline, Stop, Decided, script, BeforeLock, AfterLock
<1>4. CASE Decide
  BY <1>0, <1>4 DEF Decide, Goto, Decided, BeforeLock, AfterLock
<1>5. CASE Source
  <2>1. pc' \in {"bootstrap", "load", "done"} /\ (pc' = "done" \/ pc' = IF needsVM THEN "bootstrap" ELSE "load")
    BY <1>5 DEF Source, Goto, Stop
  <2>2. QED
    BY <1>0, <1>5, <2>1 DEF Source, Decided, BeforeLock, AfterLock
<1>6. CASE Bootstrap
  <2>1. pc' \in {"override", "done"}
    BY <1>6 DEF Bootstrap, Goto, Stop
  <2>2. QED
    BY <1>0, <1>6, <2>1 DEF Bootstrap, Decided, BeforeLock, AfterLock
<1>7. CASE Override
  <2>1. pc' \in {"acquire", "done"} /\ (pc' = "acquire" => host' # NoHost)
    BY <1>7 DEF Override, Goto, Stop
  <2>2. QED
    BY <1>0, <1>7, <2>1 DEF Override, Decided, BeforeLock, AfterLock
<1>8. CASE Acquire
  <2>1. needsVM /\ SomeVMStep /\ asked.by = "run-tests" /\ host # NoHost
    BY <1>0, <1>8 DEF Acquire, Decided, BeforeLock, AfterLock
  <2>2. \/ pc' = "load" /\ lease' = host
        \/ pc' = "done" /\ lease' = lease
    BY <1>8 DEF Acquire, Goto, Stop
  <2>3. QED
    BY <1>0, <1>8, <2>1, <2>2 DEF Acquire, Decided, BeforeLock, AfterLock
<1>9. CASE Load \/ Parallel \/ Select \/ Exit
  <2>1. pc \in AfterLock /\ pc' \in {"parallel", "select", "run", "done"} /\ UNCHANGED script
    BY <1>9 DEF Load, Parallel, Select, Exit, Goto, Stop, AfterLock
  <2>2. QED
    BY <1>0, <2>1 DEF Decided, BeforeLock, AfterLock, script
<1>10. CASE \E s \in Scenarios : Trial(s)
  <2>1. UNCHANGED <<pc, script>>
    BY <1>10, TrialFrame
  <2>2. QED
    BY <1>0, <2>1 DEF Decided, script
<1>11. QED
  BY <1>1, <1>2, <1>3, <1>4, <1>5, <1>6, <1>7, <1>8, <1>9, <1>10 DEF Next, Script, Runner

LEMMA PreparedStep ==
    ASSUME TypeOK, Prepared, [Next]_vars
    PROVE  Prepared'
<1>0. /\ UNCHANGED given /\ asked' = asked /\ Expanded' = Expanded /\ Chosen' = Chosen
      /\ \A s : HasSteps(s)' = HasSteps(s)
  BY GivenFixed, GivenKept DEF given
<1>1. CASE Rewrite \/ UNCHANGED vars
  <2>1. UNCHANGED <<pc, exit, selection, trials>>
    BY <1>1 DEF Rewrite, vars
  <2>2. QED
    BY <1>0, <2>1 DEF Prepared, selection, trials, Running
<1>2. CASE Script
  <2>1. UNCHANGED <<selection, trials>>
    BY <1>2 DEF Script, Reset, ListOffline, Decide, Source, Bootstrap, Override, Acquire
  <2>2. pc \notin {"run", "done"} /\ pc' # "run" /\ (pc' # "done" => exit' = exit)
    BY <1>2 DEF Script, Reset, ListOffline, Decide, Source, Bootstrap, Override, Acquire,
                Goto, Stop
  <2>3. QED
    BY <1>0, <2>1, <2>2 DEF Prepared, selection, trials, Running
<1>3. CASE Load \/ Parallel
  <2>1. UNCHANGED <<selection, trials>>
    BY <1>3 DEF Load, Parallel
  <2>2. pc \notin {"run", "done"} /\ pc' # "run" /\ (pc' # "done" => exit' = exit)
    BY <1>3 DEF Load, Parallel, Goto, Stop
  <2>3. QED
    BY <1>0, <2>1, <2>2 DEF Prepared, selection, trials, Running
<1>4. CASE Select
  <2>1. UNCHANGED trials /\ pc = "select" /\ pc' \in {"run", "done"}
        /\ (pc' # "done" => exit' = exit)
    BY <1>4 DEF Select, Goto, Stop
  <2>2. \A s \in Scenarios : out[s] = "none"
    BY <2>1 DEF Prepared
  <2>3. pc' = "run" => /\ ~asked.list
                       /\ runnable' = {s \in Chosen : HasSteps(s)}
                       /\ manifest' = Cardinality(runnable')
                       /\ filter' = IF Expanded THEN NoWord ELSE asked.word
    BY <1>4, <2>1 DEF Select, Stop, Prepared
  <2>4. QED
    BY <1>0, <2>1, <2>2, <2>3 DEF Prepared, trials, Running
<1>5. CASE Exit
  <2>1. pc = "run" /\ pc' = "done" /\ out' = out
    BY <1>5 DEF Exit, Stop, trials
  <2>2. Trials = runnable
    BY <2>1, AllRunnableTried
  <2>3. Running = {}
    BY <1>5, <2>1, <2>2 DEF Exit, Running, Prepared
  <2>4. QED
    BY <2>1, <2>3 DEF Prepared, Running
<1>6. CASE \E s \in Scenarios : Trial(s)
  <2>1. PICK s \in Scenarios : Trial(s)
    BY <1>6
  <2>2. pc = "run" /\ s \in runnable /\ UNCHANGED <<pc, exit, selection>>
    BY <2>1, TrialFrame
  <2>3. \A t \in Scenarios : t # s => out'[t] = out[t]
    BY <2>1, TrialFrame DEF TypeOK
  <2>4. QED
    BY <1>0, <2>2, <2>3 DEF Prepared, selection
<1>7. QED
  BY <1>1, <1>2, <1>3, <1>4, <1>5, <1>6 DEF Next, Runner

LEMMA FileDecidesStep ==
    ASSUME TypeOK, Prepared, Decided, FileDecides, [Next]_vars
    PROVE  FileDecides'
<1>0. project' = project /\ asked' = asked
  BY GivenFixed DEF given
<1>1. CASE Rewrite \/ UNCHANGED vars
  BY <1>0, <1>1 DEF Rewrite, vars, envFile, FileDecides, script
<1>2. CASE Reset \/ ListOffline \/ Decide
  <2>1. pc' \in {"decide", "source", "done"}
    BY <1>2 DEF Reset, ListOffline, Decide, Goto, Stop
  <2>2. QED
    BY <2>1 DEF FileDecides
<1>3. CASE Source
  <2>1. pc' \in {"bootstrap", "load", "done"} /\ pc = "source"
    BY <1>3 DEF Source, Goto, Stop
  <2>2. QED
    BY <1>0, <1>3, <2>1 DEF Source, envFile, FileDecides, Decided, BeforeLock
<1>4. CASE Bootstrap
  <2>1. /\ pc = "bootstrap" /\ pc' \in {"override", "done"} /\ UNCHANGED rewritten
        /\ \/ UNCHANGED <<file, host>> /\ (pc' = "done" \/ file # NoFile)
           \/ host' = file' /\ file' \in Hosts
    BY <1>4 DEF Bootstrap, Goto, Stop, envFile
  <2>2. QED
    BY <1>0, <2>1, HostsAssumption DEF FileDecides
<1>5. CASE Override
  <2>1. CASE pc' = "acquire"
    <3>1. host' # NoHost /\ pc = "override" /\ UNCHANGED rewritten
      BY <1>5, <2>1 DEF Override, Stop
    <3>2. host' \in Hosts
      <4>1. asked.flag \in Hosts \cup {NoHost}
        BY RequestTypes DEF TypeOK
      <4>2. QED
        BY <1>5, <3>1, <4>1 DEF Override, TypeOK
    <3>3. ASSUME host = IF file \in Hosts THEN file ELSE NoHost, asked.flag = NoHost
          PROVE  host' = file'
      BY <1>5, <3>1, <3>3 DEF Override, Keep, Stop, Goto, envFile
    <3>4. ASSUME asked.flag # NoHost
          PROVE  host' = file' \/ file = NoFile
      BY <1>5, <2>1, <3>4 DEF Override, Keep, Stop, Goto, envFile
    <3>5. ASSUME asked.by = "run-tests", project.host.ref, asked.env = NoHost, ~rewritten
          PROVE  host' = file'
      <4>1. host = (IF file \in Hosts THEN file ELSE NoHost) /\ file # NoFile
        BY <3>1, <3>5 DEF FileDecides
      <4>2. QED
        BY <3>3, <3>4, <4>1
    <3>6. QED
      BY <1>0, <2>1, <3>1, <3>5 DEF FileDecides
  <2>2. CASE pc' # "acquire"
    BY <1>5, <2>2 DEF Override, Goto, Stop, FileDecides
  <2>3. QED
    BY <2>1, <2>2
<1>6. CASE Acquire
  <2>1. /\ pc = "acquire" /\ UNCHANGED <<file, rewritten>>
        /\ \/ pc' = "load" /\ lease' = host
           \/ pc' = "done"
    BY <1>6 DEF Acquire, Goto, Stop, envFile
  <2>2. QED
    BY <1>0, <2>1 DEF FileDecides
<1>7. CASE Load \/ Parallel \/ Select \/ Exit
  <2>1. pc' \in {"parallel", "select", "run", "done"}
    BY <1>7 DEF Load, Parallel, Select, Exit, Goto, Stop
  <2>2. QED
    BY <2>1 DEF FileDecides
<1>8. CASE \E s \in Scenarios : Trial(s)
  <2>1. pc' = "run"
    BY <1>8, TrialFrame
  <2>2. QED
    BY <2>1 DEF FileDecides
<1>9. QED
  BY <1>1, <1>2, <1>3, <1>4, <1>5, <1>6, <1>7, <1>8 DEF Next, Script, Runner

-----------------------------------------------------------------------------
(* The properties.                                                         *)

\* A step that goes to the VM makes the script ask for the VM.
LEMMA FacingVM ==
    ASSUME TypeOK, Prepared, pc = "run", ~asked.exact,
           NEW s \in Scenarios, s \in runnable, Facing(s, "vm")
    PROVE  SomeVMStep /\ ~AllLocal
<1>1. s \in Selected
  BY SelectionsAgree DEF Prepared, TypeOK
<1>2. /\ at[s] \in 1..Len(project.recipe[s])
      /\ PlaceOf(project.recipe[s][at[s]]) = "vm"
  BY DEF Facing
<1>3. project.recipe[s][at[s]] \in Steps
  BY <1>2, StepOf DEF TypeOK
<1>4. SomeVMStep
  BY <1>1, <1>2, <1>3, ScriptCoversRunner DEF SomeVMStep, VMStep
<1>5. ~AllLocal
  BY <1>1, <1>2 DEF AllLocal
<1>6. QED
  BY <1>4, <1>5

\* The script's part and the runner's preparation touch nothing.
LEMMA LeaseLasts ==
    ASSUME TypeOK, Prepared, Decided, [Next]_vars
    PROVE  lease' = lease \/ (pc = "acquire" /\ lease = NoHost /\ SomeVMStep)
<1>1. CASE \E s \in Scenarios : Trial(s)
  BY <1>1, TrialFrame DEF script
<1>2. CASE Acquire
  <2>1. lease = NoHost /\ SomeVMStep
    BY <1>2, RequestTypes DEF Acquire, Decided, BeforeLock, AfterLock, TypeOK
  <2>2. QED
    BY <1>2, <2>1 DEF Acquire
<1>3. CASE Rewrite \/ Reset \/ ListOffline \/ Decide \/ Source \/ Bootstrap \/ Override
  BY <1>3 DEF Rewrite, Reset, ListOffline, Decide, Source, Bootstrap, Override, script
<1>4. CASE Load \/ Parallel \/ Select \/ Exit \/ UNCHANGED vars
  BY <1>4 DEF Load, Parallel, Select, Exit, vars, script
<1>5. QED
  BY <1>1, <1>2, <1>3, <1>4 DEF Next, Script, Runner

LEMMA VMWorkFencedStep ==
    ASSUME TypeOK, Prepared, Decided, VMWorkFenced, [Next]_vars
    PROVE  VMWorkFenced'
<1>0. asked' = asked
  BY GivenFixed DEF given
<1>1. CASE \E s \in Scenarios : Trial(s)
  <2>1. PICK s \in Scenarios : Trial(s)
    BY <1>1
  <2>2. pc = "run" /\ s \in runnable /\ lease' = lease
    BY <2>1, TrialFrame DEF script
  <2>3. SUFFICES ASSUME asked.by = "run-tests" PROVE touched' \subseteq {lease}
    BY <1>0, <2>2 DEF VMWorkFenced
  <2>4. CASE touched' = touched
    BY <2>3, <2>4 DEF VMWorkFenced
  <2>5. CASE Facing(s, "vm") /\ lease \in {NoHost, vm} /\ touched' = touched \cup {vm}
    <3>1. SomeVMStep
      BY <2>2, <2>3, <2>5, FacingVM, RequestTypes DEF TypeOK
    <3>2. lease # NoHost
      BY <2>2, <2>3, <3>1 DEF Decided, AfterLock, BeforeLock
    <3>3. QED
      BY <2>3, <2>5, <3>2 DEF VMWorkFenced
  <2>6. QED
    BY <2>1, <2>4, <2>5, TrialFrame
<1>2. CASE ~\E s \in Scenarios : Trial(s)
  <2>1. touched' = touched
    BY <1>2, TrialsFixed DEF trials
  <2>2. CASE lease' = lease
    BY <1>0, <2>1, <2>2 DEF VMWorkFenced
  <2>3. CASE pc = "acquire" /\ lease = NoHost
    <3>1. SUFFICES ASSUME asked.by = "run-tests" PROVE touched = {}
      BY <1>0, <2>1 DEF VMWorkFenced
    <3>2. touched \subseteq Hosts /\ touched \subseteq {NoHost}
      BY <2>3, <3>1 DEF VMWorkFenced, TypeOK
    <3>3. QED
      BY <3>2, HostsAssumption
  <2>4. QED
    BY <2>2, <2>3, LeaseLasts
<1>3. QED
  BY <1>1, <1>2

LEMMA SelectionHonouredStep ==
    ASSUME TypeOK, Prepared, SelectionHonoured, [Next]_vars
    PROVE  SelectionHonoured'
<1>0. /\ project \in Projects /\ asked \in Requests /\ asked' = asked
      /\ Selected' = Selected /\ \A s : HasSteps(s)' = HasSteps(s)
  BY GivenFixed, GivenKept DEF given, TypeOK
<1>1. CASE UNCHANGED vars
  BY <1>0, <1>1 DEF vars, SelectionHonoured, selection, trials
<1>2. CASE Rewrite \/ Load \/ Parallel \/ Reset \/ Decide \/ Source \/ Bootstrap
           \/ Override \/ Acquire
  <2>1. exit' = exit \/ exit' = "stopped"
    BY <1>2 DEF Rewrite, Load, Parallel, Reset, Decide, Source, Bootstrap, Override, Acquire,
                Goto, Stop
  <2>2. exit = "none"
    BY <1>2 DEF Prepared, Rewrite, Load, Parallel, Reset, Decide, Source, Bootstrap, Override,
                Acquire
  <2>3. QED
    BY <2>1, <2>2 DEF SelectionHonoured
<1>3. CASE ListOffline
  BY <1>0, <1>3 DEF ListOffline, Stop, SelectionHonoured
<1>4. CASE Select
  <2>1. CASE asked.list
    <3>1. SUFFICES ASSUME ~asked.exact PROVE listed' = Selected
      BY <1>0, <2>1 DEF SelectionHonoured
    <3>2. filter' = IF Expanded THEN NoWord ELSE asked.word
      BY <1>4 DEF Select, Prepared
    <3>3. listed' = Chosen
      BY <1>4, <2>1, <3>2, NothingFilteredOut DEF Select
    <3>4. QED
      BY <1>0, <3>1, <3>3, SelectionsAgree
  <2>2. CASE ~asked.list
    <3>1. exit' = "none"
      BY <1>4, <2>2 DEF Select, Goto, Prepared
    <3>2. QED
      BY <3>1 DEF SelectionHonoured
  <2>3. QED
    BY <2>1, <2>2
<1>5. CASE Exit
  <2>1. SUFFICES ASSUME ~asked.exact PROVE SelectionHonoured'
    BY <1>0 DEF SelectionHonoured
  <2>2. pc = "run" /\ Trials = runnable
    BY <1>5, AllRunnableTried DEF Exit
  <2>3. runnable = {s \in Selected : HasSteps(s)}
    BY <1>0, <2>1, <2>2, SelectionsAgree DEF Prepared
  <2>4. {s \in Scenarios : out[s] # "none"} = runnable
    BY <1>5, <2>2 DEF Exit, Prepared, TypeOK
  <2>5. manifest = Cardinality(runnable) /\ ~asked.list
    BY <2>2 DEF Prepared
  <2>6. exit' = "passed" <=> \A s \in runnable : out[s] \in {"passed", "panicked"}
    <3>1. exit' = "passed" <=> Recorded = {}
      BY <1>5 DEF Exit, Stop
    <3>2. \A s \in runnable : out[s] \in {"passed", "failed", "errored", "panicked"}
      BY <1>5, <2>2 DEF Exit, TypeOK
    <3>3. Recorded = {} <=> \A s \in runnable : out[s] \in {"passed", "panicked"}
      BY <2>2, <3>2 DEF Recorded
    <3>4. QED
      BY <3>1, <3>3
  <2>7. out' = out /\ manifest' = manifest
    BY <1>5 DEF Exit, selection, trials
  <2>8. QED
    BY <1>0, <2>3, <2>4, <2>5, <2>6, <2>7 DEF SelectionHonoured
<1>6. CASE \E s \in Scenarios : Trial(s)
  <2>1. pc = "run" /\ exit' = exit
    BY <1>6, TrialFrame
  <2>2. exit' = "none"
    BY <2>1 DEF Prepared
  <2>3. QED
    BY <2>2 DEF SelectionHonoured
<1>7. QED
  BY <1>1, <1>2, <1>3, <1>4, <1>5, <1>6 DEF Next, Script, Runner

LEMMA LocalRunsNeedNoVMStep ==
    ASSUME TypeOK, Prepared, Decided, LocalRunsNeedNoVM, [Next]_vars
    PROVE  LocalRunsNeedNoVM'
<1>0. /\ project \in Projects /\ asked \in Requests
      /\ project' = project /\ asked' = asked /\ AllLocal' = AllLocal
  BY GivenFixed, GivenKept DEF given, TypeOK
<1>1. SUFFICES ASSUME asked.by = "run-tests", AllLocal
               PROVE  /\ lease' = NoHost /\ touched' = {}
                      /\ queried' # {} => project.parallel.mode = "drive-letters"
                      /\ exit' = "stopped" => ~project.valid \/ badKey'
  BY <1>0 DEF LocalRunsNeedNoVM
<1>2. ~SomeVMStep /\ ~asked.exact
  BY <1>0, <1>1, LocalIsNoVM, RequestTypes
<1>3. /\ lease = NoHost /\ touched = {}
      /\ queried # {} => project.parallel.mode = "drive-letters"
      /\ exit = "stopped" => ~project.valid \/ badKey
  BY <1>1 DEF LocalRunsNeedNoVM
<1>4. lease' = NoHost
  BY <1>2, <1>3, LeaseLasts
<1>5. touched' = {}
  <2>1. CASE \E s \in Scenarios : Trial(s)
    <3>1. PICK s \in Scenarios : Trial(s)
      BY <2>1
    <3>2. pc = "run" /\ s \in runnable
      BY <3>1, TrialFrame
    <3>3. ~Facing(s, "vm")
      BY <1>1, <1>2, <3>2, FacingVM
    <3>4. QED
      BY <1>3, <3>1, <3>3, TrialFrame
  <2>2. CASE ~\E s \in Scenarios : Trial(s)
    BY <1>3, <2>2, TrialsFixed DEF trials
  <2>3. QED
    BY <2>1, <2>2
<1>6. exit' = "stopped" => ~project.valid \/ badKey'
  <2>1. CASE \E s \in Scenarios : Trial(s)
    BY <1>3, <2>1, TrialFrame DEF envFile
  <2>2. ~(Bootstrap \/ Override \/ Acquire)
    <3>1. SUFFICES ASSUME pc \in {"bootstrap", "override", "acquire"} PROVE FALSE
      BY DEF Bootstrap, Override, Acquire
    <3>2. QED
      BY <1>1, <1>2, <3>1 DEF Decided, BeforeLock, AfterLock
  <2>3. CASE Load \/ Exit \/ Select \/ Parallel
    BY <1>3, <2>3 DEF Load, Exit, Select, Parallel, Goto, Stop, envFile
  <2>4. CASE Rewrite \/ Reset
    <3>1. exit' = exit /\ pc # "done"
      BY <2>4 DEF Rewrite, Reset, Goto
    <3>2. QED
      BY <3>1 DEF Prepared
  <2>5. CASE ListOffline \/ Decide \/ Source \/ UNCHANGED vars
    BY <1>3, <2>5 DEF ListOffline, Decide, Source, Goto, Stop, vars, envFile
  <2>6. QED
    BY <2>1, <2>2, <2>3, <2>4, <2>5 DEF Next, Script, Runner
<1>7. queried' # {} => project.parallel.mode = "drive-letters"
  <2>1. CASE Parallel
    BY <2>1 DEF Parallel
  <2>2. CASE ~Parallel
    <3>1. queried' = queried
      <4>1. CASE \E s \in Scenarios : Trial(s)
        BY <4>1, TrialFrame DEF settings
      <4>2. CASE Script \/ Rewrite \/ UNCHANGED vars
        BY <4>2 DEF Script, Reset, ListOffline, Decide, Source, Bootstrap, Override, Acquire,
                    Rewrite, vars, settings
      <4>3. CASE Load \/ Select \/ Exit
        BY <4>3 DEF Load, Select, Exit, settings
      <4>4. QED
        BY <2>2, <4>1, <4>2, <4>3 DEF Next, Runner
    <3>2. QED
      BY <1>3, <3>1
  <2>3. QED
    BY <2>1, <2>2
<1>8. QED
  BY <1>4, <1>5, <1>6, <1>7

LEMMA RunnerReachesLeaseStep ==
    ASSUME TypeOK, Prepared, Decided, FileDecides, RunnerReachesLease, [Next]_vars
    PROVE  RunnerReachesLease'
<1>0. project' = project /\ asked' = asked
  BY GivenFixed DEF given
<1>1. CASE Rewrite \/ UNCHANGED vars
  BY <1>0, <1>1 DEF Rewrite, vars, envFile, RunnerReachesLease, script, settings, trials
<1>2. CASE Script
  <2>1. pc' \notin {"parallel", "select", "run"} /\ refused' = refused /\ ~refused
    BY <1>2 DEF Script, Reset, ListOffline, Decide, Source, Bootstrap, Override, Acquire,
                Goto, Stop, trials, Prepared
  <2>2. QED
    BY <2>1 DEF RunnerReachesLease
<1>3. CASE Load
  <2>1. /\ pc = "load" /\ ~refused /\ refused' = refused
        /\ UNCHANGED <<lease, file, rewritten>>
    BY <1>3 DEF Load, trials, script, Prepared, envFile
  <2>2. CASE pc' = "parallel"
    <3>1. vm' = Expand(project.host, file)
      BY <1>3, <2>2 DEF Load, Stop
    <3>2. ASSUME project.host.ref, lease # NoHost, lease = file
          PROVE  vm' = lease
      BY <3>1, <3>2, HostsAssumption DEF Expand, TypeOK
    <3>3. QED
      BY <1>0, <2>1, <3>2 DEF RunnerReachesLease, FileDecides
  <2>3. CASE pc' # "parallel"
    <3>1. pc' = "done"
      BY <1>3, <2>3 DEF Load, Goto, Stop
    <3>2. QED
      BY <2>1, <3>1 DEF RunnerReachesLease
  <2>4. QED
    BY <2>2, <2>3
<1>4. CASE Parallel \/ Select \/ Exit
  <2>1. /\ pc \in {"parallel", "select", "run"} /\ UNCHANGED <<lease, vm, rewritten, refused>>
    BY <1>4 DEF Parallel, Select, Exit, script, settings, trials
  <2>2. QED
    BY <1>0, <2>1 DEF RunnerReachesLease
<1>5. CASE \E s \in Scenarios : Trial(s)
  <2>1. PICK s \in Scenarios : Trial(s)
    BY <1>5
  <2>2. /\ pc = "run" /\ UNCHANGED <<pc, lease, vm, rewritten>>
        /\ refused' = refused \/ lease \notin {NoHost, vm}
    BY <2>1, TrialFrame DEF script, settings
  <2>3. QED
    BY <1>0, <2>2 DEF RunnerReachesLease
<1>6. QED
  BY <1>1, <1>2, <1>3, <1>4, <1>5 DEF Next, Runner

-----------------------------------------------------------------------------
(* The theorems.                                                           *)

LEMMA InitInv == Init => IInv
<1>1. SUFFICES ASSUME Init PROVE IInv
  OBVIOUS
<1>2. TypeOK
  BY <1>1, InitType
<1>3. asked.by \in {"run-tests", "run-matrix"}
  BY <1>2, RequestTypes DEF TypeOK
<1>4. pc \in {"start", "load"} /\ (pc = "start" <=> asked.by = "run-tests")
  BY <1>1, <1>3 DEF Init
<1>5. Decided
  BY <1>1, <1>4 DEF Init, Decided, BeforeLock, AfterLock
<1>6. Prepared
  BY <1>1, <1>4 DEF Init, Prepared, Running
<1>7. FileDecides
  BY <1>1, <1>4 DEF Init, FileDecides
<1>8. VMWorkFenced /\ SelectionHonoured
  BY <1>1 DEF Init, VMWorkFenced, SelectionHonoured
<1>9. LocalRunsNeedNoVM /\ RunnerReachesLease
  BY <1>1 DEF Init, LocalRunsNeedNoVM, RunnerReachesLease
<1>10. QED
  BY <1>2, <1>5, <1>6, <1>7, <1>8, <1>9 DEF IInv

\* What the script and the runner know of the run agrees, at every point of
\* it (run-tests.sh, run-matrix.rs, lib.rs).
THEOREM Invariant == Spec => []IInv
<1>1. ASSUME IInv, [Next]_vars PROVE IInv'
  BY <1>1, StepType, DecidedStep, PreparedStep, FileDecidesStep, VMWorkFencedStep,
     SelectionHonouredStep, LocalRunsNeedNoVMStep, RunnerReachesLeaseStep DEF IInv
<1>2. QED
  BY <1>1, InitInv, PTL DEF Spec

\* A run of run-tests.sh touches no VM but the one whose lock it took: the
\* runner's idea of a VM step is within the script's.
THEOREM WorkIsFenced == Spec => []VMWorkFenced
<1>1. IInv => VMWorkFenced
  BY DEF IInv
<1>2. QED
  BY <1>1, Invariant, PTL

\* A run that ends has run, or listed, the scenarios the script selected, and
\* its exit speaks for all of them.
THEOREM SelectionIsHonoured == Spec => []SelectionHonoured
<1>1. IInv => SelectionHonoured
  BY DEF IInv
<1>2. QED
  BY <1>1, Invariant, PTL

\* Scenarios that stay on the host run without a VM, a lock or .test-env.
THEOREM LocalRunsRun == Spec => []LocalRunsNeedNoVM
<1>1. IInv => LocalRunsNeedNoVM
  BY DEF IInv
<1>2. QED
  BY <1>1, Invariant, PTL

\* With [vm].host left to .test-env, the runner goes to the VM that is locked.
THEOREM LeaseIsReached == Spec => []RunnerReachesLease
<1>1. IInv => RunnerReachesLease
  BY DEF IInv
<1>2. QED
  BY <1>1, Invariant, PTL
=============================================================================
