# A verification of fs-windows-test-harness

TLA+ models of the harness's stateful parts, the TLC configurations that check
them on small instances, and TLAPS proofs of their safety for every value of
the constants.  Source paths below are relative to the repository's root,
which `PROJECT.json` calls `src/`.

    tlc -workers 2 -config MCMatrixRunLock.cfg MCMatrixRunLock.tla
    tlapm MatrixRunLockProofs.tla

1. [The system](#1-the-system)
2. [The modules and the code](#2-the-modules-and-the-code)
3. [The runs](#3-the-runs)
4. [Fairness](#4-fairness)
5. [The proofs](#5-the-proofs)
6. [What the code does not do as it says](#6-what-the-code-does-not-do-as-it-says)
7. [What is not modelled](#7-what-is-not-modelled)
8. [Plan](#8-plan)

## 1. The system

A consumer (a file-system driver's repository) writes a matrix of scenarios.
`run-tests.sh` on the host takes a Windows VM's work directory for itself,
ships the harness and the consumer to it and starts the Rust runner.  The
runner executes each scenario's recipe: steps on the host and commands on the
VM.  Agents divide the scenarios among themselves by claiming them in
`test-matrix.json`.  The Windows VM may be a QEMU guest kept by
`scripts/local-vm.py`.

| Component | Code | State | Operations | Interacts with |
|---|---|---|---|---|
| VM-workdir run lock | `scripts/vm/matrix-run-lock.ps1` | a lock directory with `owner.json` and a token directory; two guard files opened with share modes | Acquire, Renew, Verify, Invoke, Release | called over ssh by `run-tests.sh` (main flow and heartbeat) and by the dispatcher, one process per call |
| Matrix transactions | `scripts/_matrix_txn.py`, `claim-scenario.sh`, `update-scenario-status.sh`, `reset-non-passed.sh` | `test-matrix.json`, an flock on its inode | claim, set status, reset | run by agents (`docs/multi-agent-protocol.md`) |
| Runner scheduler | `runner/src/bin/run-matrix.rs` | thread pool, semaphores, failed set, result files, `owner.pid` | reap, start, take, release, report, aggregate, exit | calls the dispatcher for each recipe |
| Recipe dispatcher | `runner/src/dispatch.rs` | staged images, the VM's images and ship files | steps, ship operations, VM commands, clean-up | ssh and scp, the run lock, substitution, the VM op scripts |
| QEMU guest lifecycle | `scripts/local-vm.py` | `vm.json`, base disk and variables, overlay, share marker, QEMU and virtiofsd | prepare, instance, up, wait, provision, exec, down, save | QEMU's monitor, ssh; instances read a base's files |
| Host orchestrator | `scripts/run-tests.sh` | `.test-env`, owner token, heartbeat process, remote-uncertainty flag | decide for a VM, settle its host, acquire, ship, build, run, clean up | the run lock, the runner (by `.test-env` and the lock's environment) |
| Bounded commands | `scripts/_lib_harness.sh` | a command, its watchdog, a marker | run with a time limit | every remote call of the orchestrator |
| Substitution | `runner/src/substitution.rs` | the chain of references being expanded, what is missing | `expand_checked`, conditions | builds every command of the dispatcher |
| Configuration and matrix loading | `config.rs`, `local_config.rs`, `matrix.rs`, `lib.rs` | `harness.toml`, `.test-env`, the matrix as loaded | load, expand references, refuse | `run-tests.sh` reads the same files by itself; runner |
| Windows op scripts | `scripts/vm/*.ps1` | a mount process, a log | mount, wait for readiness, operate, unmount | VM commands of recipes |
| Host verifiers, task scripts, guest bootstrap | `scripts/host`, `scripts/*.sh`, `scripts/local-vm/` | none | compare text, start scripts, install once | |

### What is hard, and what makes each part correct

* **Run lock.**  An Acquire decides that a lease has expired and removes the
  directory some time later; a heartbeat arrives after its run lost the
  workdir; a process dies between the three file-system operations that build
  the lock; commands share one gate while the other opens and closes under
  them.  Correct: commands run for the owner only, the owner changes only
  while no command runs, a run that lost the workdir never has it again, a
  live lease is taken by nobody, and every call ends.
* **Transactions.**  flock locks an inode, and each commit replaces the inode
  the path names.  A waiter wakes with the lock of a file that is not the
  matrix any more; a newcomer may lock the new file while the committer still
  holds the old one; a claim dies after its commit.  Correct: every commit is
  one atomic change of the current matrix, and a claim stands until its verdict
  or a reset.
* **Scheduler.**  Two semaphores per trial, condition variables that wake one
  waiter per permit, panics that unwind through guards, errors that are
  ignored while an earlier run's results are removed and this run's written, an
  exit code computed from one record
  and a report from another.  Correct: no permit or wake-up is lost, no two
  recipes of an exclusive group overlap, exit code 0 means that all passed, and
  what the report says of this run is true.
* **Dispatcher.**  All runs use one name per scenario on the VM; scp knows
  nothing of the lease; a timed-out command goes on in the VM; every run
  removes directories that it takes for those of dead runs; any step may end
  the recipe as an error, before its clean-up.  Correct: a run works on its own
  image only, a run at work keeps its images, every recipe ends and leaves
  none.  The last two hold with exceptions (section 6).
* **QEMU guest.**  Each command may be killed between any two of its file
  operations, and QEMU stops when it likes; the next command finds what is
  left.  Correct: every cold boot starts from the saved disk, the saved disk
  changes only to what a stopped boot left, the installer, which wipes the
  disk, runs once.
* **Orchestrator.**  Every remote call can be lost, late, or overtaken by
  another; a signal arrives while bash waits; bash 3.2 gives a wrong status
  under `set -u`.  Correct: a run that reports success held the workdir
  throughout, reached its end, and left neither the lock nor a command behind;
  and no run that comes to its own end keeps the workdir from the others for
  good.
* **Launch.**  The script decides from the matrix and `[ops]` whether a lock is
  needed and for which VM; the runner reads the same files again and decides
  by itself what to run, where, and on which VM.  Only the filter, the lock's
  environment and `.test-env` connect the two, and any other invocation of the
  same consumer may rewrite that file.  Correct: both select the same
  scenarios, no step's command reaches a VM without its lock, a run that stays on the
  host is not stopped for want of one, and every invocation ends.
* **Substitution.**  Values refer to values: a chain may come back to itself,
  be one too long, or end nowhere several levels down.  Correct: the expansion
  ends, is the one defined, and reports exactly what is missing.

The list of hazards with source lines is `hazards` in `PROJECT.json`.

## 2. The modules and the code

    WorkdirOwnership   <- MatrixRunLock   the lock script's processes
    WorkdirOwnership   in RunTests        run-tests.sh and its calls
                       in Recipe          recipes of several runs
    (run-tests.sh's)   <- Launch          the runner's own decisions
    MatrixStatus       <- MatrixTxn       the transactions
    ScenarioRuns       <- RunMatrix       the runner
    ResetPoint         <- LocalVM         the QEMU guest
    (a definition)     <- Substitution    expand_checked

`A <- B`: A says what the component promises, B is the detailed module, and B
is shown to implement A, by TLC and by a proof; `A in B`: B contains A as the
guest it talks to.  `M` with `MCM.tla` and `MC*.cfg` is model-checked and
`MProofs` holds its theorems.  `map` in `PROJECT.json` gives the source lines
of every definition; the correspondence in short:

**MatrixRunLock** (`matrix-run-lock.ps1`).  `dir` is the lock directory
(`owner.json`, token directory), `gate` and `op` the two guard files by who
has them open, `proc` the script's processes, `clock` the VM's clock up to
`MaxClock`.  Every file-system operation on the directory is an action; so are
the opening and giving up of each gate, and a crash at any point, after which
the operating system closes the handles.  `asked` and `acquired` bound what a
host may ask for: a run calls Acquire once, and the other actions with its own token.

**WorkdirOwnership** is the lock as its users see it, and MatrixRunLock is
shown to implement it.  RunTests and Recipe are built from its actions
(`Guest`, `VM`), constrained by what a call or a token can do, so that they
assume of the guest what the script is shown to do.  That they respect it in
turn holds by their construction and is not claimed as a result.

**MatrixTxn** (`_matrix_txn.py` and its three scripts).  `path` is the inode
the file name leads to, `matrix` the matrix which that inode holds, `lock` the
holder of each inode's flock, and `proc` an agent's script with the inode it
has open; inodes are reused once nobody has them open.  `mine` remembers the
scenario an agent has claimed.  An agent opens, locks, compares the inode, reads,
writes a new inode, renames it over the path and closes, and may die in
between.  **MatrixStatus** is the matrix with atomic claims, updates and resets.

**RunMatrix** (`run-matrix.rs`).  A trial takes its group's permit and then a
global one; `available` is the count of each semaphore and `parked` the trials
asleep on its condition variable, which may also wake spuriously.  Trials pass,
fail or panic at each place where the code may, and the main thread aggregates
after the pool.  A result file may fail to be written or be left empty; files
of an earlier run, whatever they say (`Old`), may be there from the start
(`Removed`), and are aggregated with the others.  **ScenarioRuns** is what is promised: how many recipes
execute at once, none of a group together, each once.

**Recipe** (`dispatch.rs`; the reaper of `run-matrix.rs`).  A job is a
scenario of a run.  `Plan` is the sequence of its steps: host commands that
stage or check an image, shipping there and back, commands on the VM that make
the image or work on it.  `sent`
and `answer` follow the guarded command a job has asked for; giving it up
leaves it on its way or running.  A shipping step is the code's three
commands: guard (or copy), scp, and move (or remove); for a run in `Shared`,
whose directory the VM sees, it is one command, `put` or `take`.  `put` may copy
and then fail to move (`HalfPut`), and `take` writes the host's image itself, so
that `Take` is a step of the VM, a late one included.  `vmImg` has one name
per scenario for all runs.  `dir`, `old`, `reap` and `judged` are the image
directories, their age and a reaper's progress through them.  A recipe ends
through its clean-up, which removes the image (`Cleanup`) or keeps it, be it
that it was asked to or could not remove it (`CleanupKeeps`), or by an error of
any step, which skips the clean-up (`StepErrs`, `GuardTimesOut`).  `Lingering`
are jobs with a command that leaves a process behind which holds its output
open: such a step may stay where it is for ever (`Hold`), since the readers are
joined without a limit.

**LocalVM** (`local-vm.py`).  Directories of a base and its instances with
disk, variables, overlay, `share.json` and marker files, what QEMU has open,
and the virtiofsd processes.  Each command is a sequence of actions under the
directory's lock; kills, failing tools and guests that stop by themselves are `Faults`.
**ResetPoint** is the guest as seen from outside: a saved disk, boots that
start from it, saves.

**RunTests** (`run-tests.sh`, `harness_bounded`).  A run is the script's
position, one outstanding call, the calls it gave up that may still arrive and
change the guest (`late`: an Acquire, a guarded command, a Release), its
heartbeat and its pending signal.  The guest answers calls at any time, in any
order.  A late Verify or copy changes nothing that the properties tell apart,
and a late Renew only prolongs a lease that may run out at any time as it is.
A lease that no heartbeat renews does run out (`Lapse`).  The exit status is
`killed` for a script that was killed from outside.

**Launch** (`run-tests.sh` up to the lock; `main` of `run-matrix.rs`, the
configuration it loads, and where `dispatch.rs` sends each step).  `project` is
what `harness.toml` and the matrix say, `asked` the arguments and the caller's
`VM_HOST`; both stay.  `pc` goes through the script's phases and the runner's;
a direct `run-matrix` starts at `load`.  `file` is `.test-env` by the host it
names (`NoHost`: a file without one, `NoFile`: no file), `badKey` says whether
it names a key that is not there and no other ssh options, and `Rewrite` is
another invocation or an editor, once per behaviour and at any time.  `needsVM`, `host` and `lease`
are the script's, `vm`, `permits`, `filter`, `runnable` and `manifest` the
runner's; `at` and `out` are each scenario's step and outcome.  The script's
selection is `Selected` and `ImpliesVM`, the runner's `Chosen` and `PlaceOf`,
each translated from its own code: that they agree is what is checked.
`touched` are the VMs that steps reach, `queried` the one that is asked for its
drive letters, which no lock guards.  A trial may panic over its failure, which
the exit status then does not show.  `Kept`
is the test library's own filter.  What follows the lock is RunTests', what a
step does Recipe's; here a step passes, fails or is skipped, and a VM refuses
it if the run holds another VM's lock.

**Substitution** (`substitution.rs`).  `expand_in` and `resolve` call each
other; `stack` is their recursion, one frame per text with the position in it,
and `missing` and `out` are what they build.  A text is the sequence of its
references.  The reference definition does without the stack: `Chains` are the
sequences of references in which each is in the value of the one before, as far
as the limit and repetitions allow, and `Expansion` substitutes in a text all
references at once, one level deeper each time (a recursive function over
depth).

## 3. The runs

| Run | Instance | Shows |
|---|---|---|
| `run_lock` | 2 processes, 2 runs with different leases, clock to 3 | commands, fencing, staging (in `IInv`), live leases, no circular wait, refinement, every call ends |
| `matrix_txn` | 2 agents, 1 scenario, 3 inodes, every script | exclusion by inode (in `IInv`), refinement, claims stand, scripts end unless others commit for ever |
| `run_matrix` | 4 scenarios, 3 in one group, 3 permits, panics, failing writes, files of an earlier run | wake-ups, permits (in `IInv`), what `results.json` says of this run is true and agrees with the exit status (`ReportHonest`), refinement, the run ends |
| `run_matrix_panic` | the same with 2 permits and panics only | **violation**: a failed run exits 0 |
| `local_vm` | a base, a share, every fault, nobody careful | installed once, refinement |
| `local_vm_instances` | a base and an instance, no kills | a disk is saved, and booted, with its own variables (`DiskWithItsVariables`) |
| `local_vm_share` | guests that stop by themselves | **violation**: a guest without a share is reused for `--share` |
| `run_tests` | 2 runs, 1 guest session, one file to ship, one guarded command, every fault | what exit status 0 means (`PassTruthful`), every run ends, the workdir comes free after runs that came to their end (`WorkdirComesFree`) |
| `recipe` | 2 runs, 1 scenario name, one that ships its image over scp and one that has it made on the VM, shares its directory, cannot mark it and has a lingering command | own images, kept images, moves by the holder, every recipe ends that is not held |
| `recipe_leftover` | 1 run | **violation**: a staged image outlives its recipe |
| `launch` | 2 scenarios `a` and `ab`, a group, 2 VMs, 3 recipes of `ab` with 6 of `a`, 39 requests, keys that are missing, panics, one rewrite of `.test-env` | the selections agree, VM work is fenced, host-only runs need no VM, the runner reaches the locked VM, every invocation ends |
| `substitution` | 4 values out of 10 each, 4 templates, limit 3 | truthful errors, the definition (`DefinedInv`: at every step of an expansion, not only at its end), termination |

The type invariant of every module is the first conjunct of its `IInv`, which a
passing run of each module checks as a whole.

*Bounds.*  The instances are small because the safety properties are proved
for all sizes; TLC's part is to check that the formulas hold before they are
proved, to reach every action, and to check liveness.  Two actors are enough for the interesting
cases to meet: a lock process may become any call of either run again and
again; two agents and three inodes allow one inode to be replaced, reused and
locked late; two runs allow one to lose the workdir to the other while its
calls are still on their way.  Four trials on three permits, three of them in
one group, leave two asleep on the group's semaphore while others come and go.
The global semaphore has no waiters, in the model as in the code: the pool has
as many threads as it has permits (`run-matrix.rs:164-168`), so that
`NoLostWakeup` says something of the groups' semaphores only.  One of the two
runs of `recipe` is `Lingering`, so that the other is shown to end beside it.  `MaxClock` lets the shorter
lease expire twice and the longer once; `MaxContents` bounds how many distinct
disk contents boots may produce.  `local_vm` is not a configuration with
instances, because a base's life under every fault does not depend on them;
`local_vm_instances` adds one under `Careful`, which is the documented rule
(`docs/qemu-vm.md:335-337`) that a base is not started while instances use it,
and `ImageLocks`, QEMU's own locking of open images on Linux.

In `launch` the name of one scenario is part of the other's, so that a filter
means both, one, or, as the group's name, none of them by name; the recipes have
a step of every kind (each place stated, left to the op or overridden, a ship
operation, an op that is skipped, an op nobody declared) and the empty recipe.
`max_parallel` is 0, 30, the VM's letters (none, one, 26) or a word without
meaning.  Two VMs are enough for a run to hold the lock of one and meet the other.

Four values and a limit of three let a chain reach the limit without a
repetition, and a cycle be met below it and at it.

*Deadlock* is switched off where the system stops: every script ends.  In LocalVM a `prepare`
that was killed leaves a directory that no command accepts.

## 4. Fairness

* **MatrixRunLock**: weak fairness of each process's steps.  A poll for a gate
  has a deadline of 15 s, so that giving up is a step like any other.  Crashes
  and the clock are not fair.
* **MatrixTxn**: weak fairness of each agent's steps, strong fairness of its
  flock: a waiter is woken in the end if the lock is free again and again.
  Nothing makes an agent start.  `ScriptEnds` allows for others that commit
  for ever, since a script starts over when its inode was replaced.
* **RunMatrix**: weak fairness of each trial's and the main thread's steps;
  none of spurious wake-ups.  That recipes end is `JobEnds` of Recipe, and holds
  with its exception: `RunEndsEventually` assumes that no command leaves a
  process behind with its output open.
* **RunTests**: weak fairness of the script and of `Lapse`, the clock of the
  guest under a lease that no heartbeat renews.  The guest may never answer,
  and still every run ends because each call has a time limit.
* **Recipe**: weak fairness of each recipe's steps on the host (`OnHost`); none of
  the VM's, for the same reason, none of the reapers', on which no recipe waits.
  A step that is held (`Hold`) goes on only if what it has left behind ends,
  which nothing bounds, so that no fairness is assumed of it.
* **Substitution**: weak fairness of the function's steps.
* **Launch**: weak fairness of the script and of the runner, which are
  sequential programs with bounded calls, commands that linger apart; the user
  at the prompt answers.  None
  of `Rewrite`.

## 5. The proofs

Each `MProofs` module proves `Spec => []IInv` from three facts (`Init => IInv`,
preservation by every step, `IInv => Inv`) and derives the properties from it.

| Module | Assumptions | The argument |
|---|---|---|
| MatrixRunLockProofs | leases are positive, `MaxClock` is a natural number, `NoRun` and `NoProc` are no run and no process | who has which gate open determines where each process is, and a process between its ownership check and the end of its command holds the operation gate, which Acquire and Release need alone |
| MatrixTxnProofs | the null values are none of the others; scenarios are numbered, and any set of them has a first one | a process past the inode check holds the lock of the inode the path names, and that inode is nobody else's; what it read is what is there. `ClaimsStand` adds that no status but the agent's own verdict touches its claim unless a reset occurs |
| RunMatrixProofs | at least one permit; finitely many scenarios; group names apart from the global semaphore's | count plus holders is the capacity; while a trial is asleep there is an awake one on its semaphore for every free permit, by cardinality |
| LocalVMProofs | `Base` is no instance, `NoShare` no share, `MaxContents` at least 1 | at each place of each command, which of disk, variables and overlay are whole, and whose; the marker of the installation precedes the launch. `WholeDisks` (a disk is saved, and booted, with its own variables) holds if instances are used with care, open images are locked and no command is killed (`Orderly`): then every pair of files is whole whenever nobody is between its two renames, and an overlay stays one of the base it was made from. `SameShare` needs that nothing but a tool fails |
| RunTestsProofs | the plan is a sequence of shipping calls, `Commands` a natural number, the null values are none of the others | a late Acquire, Renew or guarded command carries its token, so that once the run's Release succeeded nothing of it acts; the exit status is decided after the Release |
| RecipeProofs | an image is shipped to the VM or made there before it is worked on there or fetched (a recipe that works on what an earlier one left there is no `Plan`); nothing is asked of staging, shipping or checking; each job has a run and a scenario | once a run has moved its image into place, or made it there, it stays there while the run holds the lease, because any other move, and any copy out of a share, needs the lease; a recipe ends by its clean-up, which removes the staged image unless it is to be kept or cannot be removed, or by an error, and only a copy into a share writes the image after that; a directory is condemned only if its marker names a dead process or it was old and unmarked when its run was over |
| SubstitutionProofs | the kinds of names are disjoint, texts are sequences of references, the limit is a natural number | a reference behind the position of its text is dealt with: expanded, copied or reported; each text on the stack is the value of the reference the one below it is at. `DefinedInv` adds that a reference is expanded only if a chain leads to it, that one that was read is within the limit, and that what was copied so far is what the texts on the stack become up to their positions |
| LaunchProofs | scenarios are finitely many and each name contains itself; ops, ship operations and other names are apart; only `run-matrix` takes `--exact` | step by step, what the runner sends to the VM the script has taken for a VM step (`ScriptCoversRunner`), and what the runner keeps on the host it has not (`ScriptSparesHost`); without `--exact` both selections are one set (`SelectionsAgree`), of which the second filter drops nothing (`NothingFilteredOut`) |

`IInv` is stronger than the properties where they are not inductive: that a
command runs for the owner depends on the gates, that a claim stands depends on
what every process between lock and rename has read, that no image is reaped
depends on what every reaper has read some time ago.

Proved as well: MatrixRunLock, MatrixTxn, RunMatrix and LocalVM implement their
abstract modules (`Refinement`).  `ExitIsHonest` of RunMatrixProofs has a hypothesis, that no
trial panics, and section 6 shows that it is needed.  `LiveImagesAreKept`
excludes runs whose marker could not be written in time (`Unlucky`), for which
the run `recipe` exercises the reaper but nothing is claimed.  `ReportAgrees`
assumes nothing of what an earlier run has left in the diagnostics: what
`results.json` says of this run's recipes is true, but it may list others
(section 6).  `Honesty` of
SubstitutionProofs says that no missing reference is overlooked at any depth.
`ExpansionIsDefined` says that an expansion fails for its chains exactly if one
is longer than the limit, and that any other has expanded the values that
chains lead to and no more, and produced the text which the definition gives.  It is an
induction over depth, carried out over sets of natural numbers with the
library's facts about well-founded relations: that the recursive functions of
the definition are what they say (`Recursion`), that the expansion of a text is
joined piece by piece (`JoinedStep`), that one level deeper changes nothing
below the limit (`ExpansionStep`), and that the stack is at all times a chain
(`StackChain`), which cannot exceed the limit (`TooLong`).

Three theorems of `Spec` have a hypothesis on what may go wrong.  `WholeDisks`
has `Orderly`, which the instance of the run `local_vm_instances` meets.
`ExitIsHonest` and `SameShare` exclude the faults that refute their statements
(section 6); everything else may happen.  `ImagesAreRemoved` has its
exceptions in its statement: a recipe that an error ended, a clean-up that
keeps the image or cannot remove it (`pc` is then `kept`), and runs whose
directory the VM shares.  `SelectionIsHonoured` has the trials that panic,
and `LocalRunsRun` the key that is missing.
In LaunchProofs the properties follow from three strengthenings: `Decided` (the
lock is there exactly if a selected step implies the VM, once that was
decided), `Prepared` (what is tried is what was chosen) and `FileDecides` (up to the
load, the host is what `.test-env` has).  `PassingIsTruthful` of RunTestsProofs
is about exit status 0 as a whole: the lock was held, nothing is left, the end was reached.
`MutualExclusion`, `PermitsAreConserved` and `StageFencing` state parts of
`IInv` of their modules in the words of a user; the runs check them within `IInv`.

*Only model-checked*: liveness (`Finishes`, `ScriptEnds`, `RunEndsEventually`,
`RunEnds`, `WorkdirComesFree`, `JobEnds`, `Ends`, `InvocationEnds`), since TLAPS does not reason about `ENABLED`,
and the violations.  Every safety and action property of the passing runs is
stated by a theorem.  No module with a theorem has a RECURSIVE operator, which the
provers do not know; recursion is by recursive functions.

## 6. What the code does not do as it says

Three runs end in a violation of what a comment or a document says; the
findings are in `PROJECT.json` with both places quoted.

1. A panic while a failure message is composed (a multi-byte character at the
   cut of `read_tail`) hides the failure: exit status 0.  There is no other way:
   without panics exit status 0 means that all passed (`ExitIsHonest`).
2. `up --share` reuses a running guest that has no share, if the guest before it
   stopped by itself and left its marker.  While guests stop on command only and no command is
   killed, the reused guest has the share that was asked for, whatever tool
   fails (`SameShare`).
3. A time-out of a ship operation's first command skips the clean-up of the
   staged image, and so does every other error that a step returns: a
   diagnostics directory that cannot be made, an operation that is not declared,
   a ship without `src` or `dest`.  A recipe that ends in any other way leaves no
   staged image (`ImagesAreRemoved`), unless clean-up keeps it or cannot remove
   it, or the VM shares its run's directory (see below).

Observed while modelling, and not worth a run each:

* A trial that waits for its group occupies a thread of the pool, which has as
  many threads as permits, although `docs/architecture.md:50-52` says that it
  holds no slot.  It costs time, never a result.
* The variables are renamed before the disk when a boot is saved: killed in
  between, `down --save` leaves new variables beside the old disk.  After a
  save whose copy failed, a plain `down` deletes the overlay, which holds the
  only copy of the boot's changes.
* `docs/qemu-vm.md:215` says that `down` leaves no virtiofsd behind.  After an
  `up --share` that was killed before QEMU ran, the next one overwrites
  `virtiofsd.pid` without looking at the process it names
  (`local-vm.py:653`), and `down` stops the second daemon only.
* The heartbeat of a script that was killed outright renews for ever.
* The last recipe of a run is to remove the run's directory, but `owner.pid`
  is still in it: it stays until a later run's reaper finds the process dead.
* `update-scenario-status.sh` overwrites whatever status is there
  (`_matrix_txn.py:116`), although `docs/multi-agent-protocol.md:63-64` says
  that it refuses a status of another session: after a reset and a second
  claim, the first agent's verdict lands on the second agent's claim.
* `run-tests.sh:397-398` says that the runner honours `VM_HOST` over
  `harness.toml`.  It reads `.test-env` only, and only where `[vm].host` refers
  to `${VM_HOST}`: with a host named in `harness.toml` the lock is taken on one
  VM and the steps go to the other, which refuses them (`Refused`; it is why
  `RunnerReachesLease` has `project.host.ref`).  A caller's `VM_HOST` beside a `.test-env`
  without one does the same.
* `run-tests.sh:79` says that any `--vm-*` or `--ssh-*` flag updates
  `.test-env`.  For a selection that stays on the host none does.
* `max_parallel = "drive-letters"` asks the VM for its letters even if the
  selection stays on the host, without a lock; the query reads only.
* A filter that matches nothing runs nothing and exits 0.
* A filter with special characters is quoted once and split again on its way to
  the runner (`EXTRA_ARGS`), which may then select something else.
* Starting `run-matrix` directly takes no lock, and its commands are not
  guarded.  A second run of one consumer removes `test-diagnostics/matrix`
  of the first.
* Accepting the prompt's default for a host that is given as `${VM_HOST}`
  writes that text to `.test-env`.
* `output_with_timeout` joins the readers of a command's output without a limit
  once the command has exited (`dispatch.rs:548`).  A process that the command
  left behind with the pipe open holds the step, its thread and its permit past
  the time limit, which is what the comment at `dispatch.rs:508-510` says the
  function prevents.  The model has it (`Hold`), and every other recipe ends
  (`JobEnds`); one with a job in `Lingering` may stay `held` for ever.
* A `.test-env` with an `SSH_KEY` that is not there and no `SSH_OPTS` stops a run
  that stays on the host, too (`badKey` in Launch), although the comment at
  `run-tests.sh:336-339` says that the key is unused then and harmless.  Nothing
  else but files that do not load stops such a run (`LocalRunsRun`).
* The error of the `remove_dir_all` that is to empty `test-diagnostics/matrix`
  is ignored (`run-matrix.rs:261`), and every `*/result.json` under it is
  aggregated: where it fails, `results.json` may list failures of an earlier
  run beside exit status 0, or a scenario's earlier result where this run's
  could not be written.  An entry of this run is true (`ReportHonest`).
* `docs/vocabulary.md:42` says that a path walks arrays by numeric index, as in
  `{scenario.items.0.name}`.  `parse_placeholder` (`substitution.rs:354-365`)
  takes no segment that begins with a digit: such a placeholder is copied as
  text and never reported as missing.
* `expected_exit` of a step is compared with the exit code of a refusal by the
  lock as with any other: a step that expects 74 passes when it was
  refused (`Refused` in Launch).
* A copy out of the VM through the share that was given up may end after the
  recipe's clean-up: it then puts the image back (`Take` in Recipe), and the
  image stays until a later run's reaper finds the directory.
* If `owner.pid` cannot be written the error is ignored, and another run's
  reaper takes the directory for an orphan after five quiet minutes.

## 7. What is not modelled

* `local-vm.py`: exec, ssh, wait, key and screenshot hold the directory's lock
  and change nothing of the host; unlinking the leftovers of a stopped guest is one
  step; a restart of the host is a kill and a power cut.
* `run-tests.sh`: `--build`, the wrapper of `--reinstall`, a matrix that is
  edited between the script's decision and the runner's load, the other
  settings of `.test-env` (work directory, image directory, key), which go the host's way.
* `dispatch.rs`: how a path is found to lie in the shared
  directory (`Shared` says for which runs it does); in Recipe, runs without a lease and
  conditions (a skipped step is left out of `Plan`), which Launch has; recipes
  that work on an image which no step of theirs has brought to the VM or made
  there; what a killed ssh, scp or host command leaves running on the host (its
  effect on the image is that of the command; that it may hold the next step's
  output is not, as every command has pipes of its own); reuse of a process
  number by a foreign process of the same user, which keeps an orphan.
* `run-matrix.rs`: the test library's `--ignored` and `--skip`, progress
  output, the git revision in the manifest.
* `substitution.rs`: `expand`, kept for its plain contract, and `evaluate_when`;
  the text between references and the syntax of one, with what it does not take
  for one (section 6).
* `matrix-run-lock.ps1`: a guard process that is killed is taken to end the
  command it runs (`Crash`).  A native child that survived it would go on
  without the operation gate, and nothing in the script would know of it: the
  exclusion of commands is that of guard processes.
* `local-vm.py`: a launch that fails or times out is taken to leave no guest
  (`LaunchFails`).  What `-daemonize` forks off reports to its launcher when it
  is ready, and exits if nobody reads that.  A time limit that falls between the
  report and the launcher's exit would leave a guest that the command calls failed.
* `harness_bounded`: its outcomes are in RunTests (answered, or given up with
  the call still on its way); the polling watchdog and its marker file are not.
* The op scripts, mount cycle included, run inside one guarded command of a
  recipe and change the guest's files only.  Parsing, formatting, the host verifiers, the guest's installation
  and the task scripts keep no state.

## 8. Plan

Done: the lock first, since everything else relies on it; the transactions and
the runner; the guest; the orchestrator and the recipes on top of
WorkdirOwnership; the expansion of commands; the way from the command line to
the recipes.  To come, in this order:

1. HarnessBounded: the polling watchdog, its marker file and the group kill;
   implements the Send, Return and GiveUp of RunTests.
2. Mount: the `Invoke-WithMount` cycle of `_lib.ps1`, with its ready line,
   its time limits and its unmount.
3. A composition of RunMatrix and Recipe that derives the runner's assumption about recipes
   from Recipe, its exception included, and a proof that MatrixRunLock's calls are those that RunTests assumes.
4. A theorem about runs that fail: which of them leave the lock behind, until
   its lease runs out.
