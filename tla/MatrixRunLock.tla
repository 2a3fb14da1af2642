--------------------------- MODULE MatrixRunLock ---------------------------
(***************************************************************************)
(* Renewable, fenced ownership of one VM workdir, as implemented by        *)
(* scripts/vm/matrix-run-lock.ps1.                                         *)
(*                                                                         *)
(* Every process is one invocation of the script on the VM.  It works for  *)
(* one run (one run-tests.sh, with a token of its own) and performs one of *)
(* the five actions.  Two Windows file handles serialise the invocations:  *)
(* the operation gate, which guarded commands share and which Acquire and  *)
(* Release open exclusively, and the metadata gate, held while owner.json  *)
(* is examined or changed.  A guarded command keeps the first and drops    *)
(* the second, so heartbeats can renew the lease under it.                 *)
(*                                                                         *)
(* The lock itself is a directory: `owner` is the run named by owner.json  *)
(* (NoRun when the file is missing or unreadable), `stage` the run whose   *)
(* token directory it contains.  Time is the VM's own clock, in abstract   *)
(* units; a process may stall anywhere while the clock runs, and may crash *)
(* anywhere, which closes both handles and leaves the directory as it is.  *)
(***************************************************************************)
EXTENDS Integers

CONSTANTS
    Procs,     \* invocations of the script alive at one time
    Runs,      \* runs of run-tests.sh, each with its own owner token
    NoRun,     \* no run: owner.json or the token directory is missing
    NoProc,    \* no process: the metadata gate is free
    Lease,     \* lease_seconds each run asks for, in clock units
    MaxClock   \* bound on the clock

ASSUME RunsAssumption == NoRun \notin Runs
ASSUME ProcsAssumption == NoProc \notin Procs
ASSUME LeaseAssumption == Lease \in [Runs -> Nat \ {0}]
ASSUME ClockAssumption == MaxClock \in Nat

VARIABLES
    clock,     \* the VM's UTC clock
    dir,       \* the lock directory .fswth-matrix.lock
    gate,      \* the process that has .fswth-matrix.guard open
    op,        \* how each process has .fswth-matrix.operation open
    proc,      \* each process: where it is, what it does and for whom
    asked,     \* runs whose host has issued its Acquire
    acquired,  \* runs whose Acquire ended with exit 0
    retired    \* history: runs whose owner.json was removed

vars == <<clock, dir, gate, op, proc, asked, acquired, retired>>

Actions == {"Acquire", "Renew", "Verify", "Invoke", "Release"}

Waiting  == {"opGate", "gate", "reopen"}
InGate   == {"check", "remove", "mkDir", "mkStage", "write", "refresh"}
InFlight == {"command", "reopen", "refresh"}

PCs == {"idle"} \cup Waiting \cup InGate \cup InFlight

IdleProc == [pc |-> "idle", act |-> "Verify", run |-> NoRun, now |-> 0]

NoDir == [here |-> FALSE, owner |-> NoRun, stage |-> NoRun,
          renewed |-> 0, mtime |-> 0]

TypeOK ==
    /\ clock \in Nat
    /\ dir \in [here : BOOLEAN, owner : Runs \cup {NoRun},
                stage : Runs \cup {NoRun}, renewed : Nat, mtime : Nat]
    /\ gate \in Procs \cup {NoProc}
    /\ op \in [Procs -> {"none", "shared", "exclusive"}]
    /\ proc \in [Procs -> [pc : PCs, act : Actions,
                           run : Runs \cup {NoRun}, now : Nat]]
    /\ \A p \in Procs : proc[p].pc # "idle" => proc[p].run \in Runs
    /\ asked \subseteq Runs
    /\ acquired \subseteq Runs
    /\ retired \subseteq Runs

Init ==
    /\ clock = 0
    /\ dir = NoDir
    /\ gate = NoProc
    /\ op = [p \in Procs |-> "none"]
    /\ proc = [p \in Procs |-> IdleProc]
    /\ asked = {}
    /\ acquired = {}
    /\ retired = {}

-----------------------------------------------------------------------------
(* Moving through the script.                                              *)

At(p, pc) == proc[p].pc = pc
Does(p, a) == proc[p].act = a

Goto(p, pc) == proc' = [proc EXCEPT ![p].pc = pc]

\* Mutant: an early exit keeps the operation gate.
ExitKeepsOpGate(p) ==
    /\ proc' = [proc EXCEPT ![p] = IdleProc]
    /\ gate' = IF gate = p THEN NoProc ELSE gate
    /\ UNCHANGED op

\* The outer `finally` and the end of the process close both handles.
Exit(p) ==
    /\ proc' = [proc EXCEPT ![p] = IdleProc]
    /\ op' = [op EXCEPT ![p] = "none"]
    /\ gate' = IF gate = p THEN NoProc ELSE gate

\* An age beyond the lease: strictly more, as in `-gt`.
Older(since, now, seconds) == now - since > seconds

OwnerExpired(now) == Older(dir.renewed, now, Lease[dir.owner])

-----------------------------------------------------------------------------
(* Start and the two gates.                                                *)

\* The host runs the script for a run.  Acquire is issued once per token;
\* everything else only after the Acquire has reported success.
Start(p, a, r) ==
    /\ At(p, "idle")
    /\ IF a = "Acquire" THEN r \notin asked ELSE r \in acquired
    /\ asked' = asked \cup {r}
    /\ proc' = [proc EXCEPT ![p] =
                  [pc |-> IF a \in {"Invoke", "Acquire", "Release"}
                          THEN "opGate" ELSE "gate",
                   act |-> a, run |-> r, now |-> 0]]
    /\ UNCHANGED <<clock, dir, gate, op, acquired, retired>>

\* Mutant: every action shares the operation gate.
OpAlwaysShared(a) == "shared"

\* FileShare.ReadWrite for Invoke, FileShare.None for Acquire and Release.
OpShare(a) == IF a = "Invoke" THEN "shared" ELSE "exclusive"

OpGateFree(p) ==
    \A q \in Procs \ {p} :
        op[q] = "none" \/ (op[q] = "shared" /\ OpShare(proc[p].act) = "shared")

OpenOpGate(p) ==
    /\ At(p, "opGate")
    /\ OpGateFree(p)
    /\ op' = [op EXCEPT ![p] = OpShare(proc[p].act)]
    /\ Goto(p, "gate")
    /\ UNCHANGED <<clock, dir, gate, asked, acquired, retired>>

OpenGate(p) ==
    /\ At(p, "gate")
    /\ gate = NoProc
    /\ gate' = p
    /\ Goto(p, "check")
    /\ UNCHANGED <<clock, dir, op, asked, acquired, retired>>

\* Mutant: the poll has no deadline.
NeverGiveUp(p) == FALSE

\* Fifteen seconds of sharing violations: Open-Gate throws.  In the inner
\* `finally` of Invoke the command has run but the lease is not refreshed.
GiveUp(p) ==
    /\ \/ At(p, "opGate") /\ ~OpGateFree(p)
       \/ At(p, "gate") /\ gate # NoProc
       \/ At(p, "reopen") /\ gate # NoProc
    /\ Exit(p)
    /\ UNCHANGED <<clock, dir, asked, acquired, retired>>

-----------------------------------------------------------------------------
(* Under the metadata gate: `$now` is sampled and the action is decided.   *)

\* The decision keeps the `$now` it was based on for the record it will write.
Decide(p, pc) ==
    proc' = [proc EXCEPT ![p] = [pc |-> pc, act |-> proc[p].act,
                                 run |-> proc[p].run, now |-> clock]]

\* Mutant: the owner's age is measured against the lease of the run that asks.
ReclaimableByAsker(p) ==
    Older(IF dir.owner # NoRun THEN dir.renewed ELSE dir.mtime, clock, Lease[proc[p].run])

\* Metadata that is missing or corrupt has the directory's last write as its
\* age, measured against the lease of the run that asks.
Reclaimable(p) ==
    IF dir.owner # NoRun
    THEN OwnerExpired(clock)
    ELSE Older(dir.mtime, clock, Lease[proc[p].run])

AcquireBusy(p) ==                                     \* exit 73
    /\ At(p, "check") /\ Does(p, "Acquire")
    /\ dir.here /\ ~Reclaimable(p)
    /\ Exit(p)
    /\ UNCHANGED <<clock, dir, asked, acquired, retired>>

AcquireReclaim(p) ==
    /\ At(p, "check") /\ Does(p, "Acquire")
    /\ dir.here /\ Reclaimable(p)
    /\ Decide(p, "remove")
    /\ UNCHANGED <<clock, dir, gate, op, asked, acquired, retired>>

AcquireFree(p) ==
    /\ At(p, "check") /\ Does(p, "Acquire")
    /\ ~dir.here
    /\ Decide(p, "mkDir")
    /\ UNCHANGED <<clock, dir, gate, op, asked, acquired, retired>>

\* Mutant: any live lease passes, whoever owns it.
OwnsAnyToken(p) == dir.here /\ dir.owner # NoRun /\ ~OwnerExpired(clock)

\* The ownership checks every other action passes first.
Owns(p) ==
    /\ dir.here
    /\ dir.owner = proc[p].run
    /\ ~OwnerExpired(clock)

Reject(p) ==                                          \* exit 74
    /\ At(p, "check") /\ ~Does(p, "Acquire")
    /\ ~Owns(p)
    /\ Exit(p)
    /\ UNCHANGED <<clock, dir, asked, acquired, retired>>

CheckVerify(p) ==
    /\ At(p, "check") /\ Does(p, "Verify")
    /\ Owns(p)
    /\ Exit(p)
    /\ UNCHANGED <<clock, dir, asked, acquired, retired>>

CheckRenew(p) ==
    /\ At(p, "check") /\ Does(p, "Renew")
    /\ Owns(p)
    /\ Decide(p, "write")
    /\ UNCHANGED <<clock, dir, gate, op, asked, acquired, retired>>

CheckRelease(p) ==
    /\ At(p, "check") /\ Does(p, "Release")
    /\ Owns(p)
    /\ Goto(p, "remove")
    /\ UNCHANGED <<clock, dir, gate, op, asked, acquired, retired>>

\* Mutant: the metadata gate is kept for the command.
InvokeInGate(p) ==
    /\ At(p, "check") /\ Does(p, "Invoke")
    /\ Owns(p)
    /\ Goto(p, "command")
    /\ UNCHANGED <<clock, dir, gate, op, asked, acquired, retired>>

\* Drop the metadata gate, keep the operation gate, run the command.
CheckInvoke(p) ==
    /\ At(p, "check") /\ Does(p, "Invoke")
    /\ Owns(p)
    /\ gate' = NoProc
    /\ Goto(p, "command")
    /\ UNCHANGED <<clock, dir, op, asked, acquired, retired>>

-----------------------------------------------------------------------------
(* Changing the lock directory, one file-system operation at a time.  The  *)
(* order in which Remove-Item -Recurse visits the children is left open.   *)

RemoveStage(p) ==
    /\ At(p, "remove")
    /\ dir.stage # NoRun
    /\ dir' = [dir EXCEPT !.stage = NoRun, !.mtime = clock]
    /\ UNCHANGED <<clock, gate, op, proc, asked, acquired, retired>>

RemoveOwner(p) ==
    /\ At(p, "remove")
    /\ dir.owner # NoRun
    /\ dir' = [dir EXCEPT !.owner = NoRun, !.renewed = 0, !.mtime = clock]
    /\ retired' = retired \cup {dir.owner}
    /\ UNCHANGED <<clock, gate, op, proc, asked, acquired>>

\* The empty directory goes; Release is done, Acquire builds its own.
RemoveDir(p) ==
    /\ At(p, "remove")
    /\ dir.owner = NoRun /\ dir.stage = NoRun
    /\ dir' = NoDir
    /\ \/ /\ Does(p, "Release")
          /\ Exit(p)
       \/ /\ Does(p, "Acquire")
          /\ Goto(p, "mkDir")
          /\ UNCHANGED <<gate, op>>
    /\ UNCHANGED <<clock, asked, acquired, retired>>

MkDir(p) ==
    /\ At(p, "mkDir")
    /\ dir' = [NoDir EXCEPT !.here = TRUE, !.mtime = clock]
    /\ Goto(p, "mkStage")
    /\ UNCHANGED <<clock, gate, op, asked, acquired, retired>>

MkStage(p) ==
    /\ At(p, "mkStage")
    /\ dir' = [dir EXCEPT !.stage = proc[p].run, !.mtime = clock]
    /\ Goto(p, "write")
    /\ UNCHANGED <<clock, gate, op, asked, acquired, retired>>

\* Write-Owner replaces owner.json in one rename, with the `$now` sampled
\* under the gate; both Acquire and Renew then exit 0.
WriteOwner(p) ==
    /\ At(p, "write")
    /\ dir' = [dir EXCEPT !.owner = proc[p].run, !.renewed = proc[p].now,
                          !.mtime = clock]
    /\ acquired' = IF Does(p, "Acquire")
                   THEN acquired \cup {proc[p].run} ELSE acquired
    /\ Exit(p)
    /\ UNCHANGED <<clock, asked, retired>>

-----------------------------------------------------------------------------
(* The guarded command and its `finally`.                                  *)

CommandEnd(p) ==
    /\ At(p, "command")
    /\ Goto(p, "reopen")
    /\ UNCHANGED <<clock, dir, gate, op, asked, acquired, retired>>

ReopenGate(p) ==
    /\ At(p, "reopen")
    /\ gate = NoProc
    /\ gate' = p
    /\ Goto(p, "refresh")
    /\ UNCHANGED <<clock, dir, op, asked, acquired, retired>>

\* The lease is refreshed even when the command outlasted it; ownership that
\* changed meanwhile is refused with exit 74 and nothing is written.
Refresh(p) ==
    /\ At(p, "refresh")
    /\ dir' = IF dir.owner = proc[p].run
              THEN [dir EXCEPT !.renewed = clock, !.mtime = clock] ELSE dir
    /\ Exit(p)
    /\ UNCHANGED <<clock, asked, acquired, retired>>

-----------------------------------------------------------------------------
(* The environment.                                                        *)

\* The process dies: Windows closes its handles, the directory stays.  A guarded
\* command is taken to die with it: that holds of what PowerShell executes itself,
\* and is an assumption about a native program that the command has started.
Crash(p) ==
    /\ ~At(p, "idle")
    /\ Exit(p)
    /\ UNCHANGED <<clock, dir, asked, acquired, retired>>

Tick ==
    /\ clock < MaxClock
    /\ clock' = clock + 1
    /\ UNCHANGED <<dir, gate, op, proc, asked, acquired, retired>>

\* What the script does by itself once started.
Step(p) ==
    \/ OpenOpGate(p) \/ OpenGate(p) \/ GiveUp(p)
    \/ AcquireBusy(p) \/ AcquireReclaim(p) \/ AcquireFree(p)
    \/ Reject(p) \/ CheckVerify(p) \/ CheckRenew(p)
    \/ CheckRelease(p) \/ CheckInvoke(p)
    \/ RemoveStage(p) \/ RemoveOwner(p) \/ RemoveDir(p)
    \/ MkDir(p) \/ MkStage(p) \/ WriteOwner(p)
    \/ CommandEnd(p) \/ ReopenGate(p) \/ Refresh(p)

Next ==
    \/ Tick
    \/ \E p \in Procs :
        \/ \E a \in Actions, r \in Runs : Start(p, a, r)
        \/ Step(p)
        \/ Crash(p)

Spec == Init /\ [][Next]_vars

\* A started script keeps running: its polls end in an open gate or in the
\* fifteen second deadline, and guarded commands end.
FairSpec == Spec /\ \A p \in Procs : WF_vars(Step(p))

-----------------------------------------------------------------------------
(* Correctness.                                                            *)

\* Every guarded command in flight belongs to the run that owner.json names,
\* so commands of two runs never overlap and the script's refusal `ownership
\* changed during guarded command' (matrix-run-lock.ps1:186-190) never fires.
CommandsOfOwner ==
    \A p \in Procs :
        proc[p].pc \in InFlight => dir.here /\ dir.owner = proc[p].run

\* Fencing: a run whose owner.json was removed, by its own Release or by the
\* Acquire of another run, is never written back by a late Renew or refresh.
RetiredStaysOut == dir.owner \notin retired

\* A transfer goes to <lock>/<token>/ outside the gates (run-tests.sh:559-570).
\* Once another run owns the lock no directory is left for it to land in.
StageOfOwner ==
    dir.owner # NoRun => dir.stage \in {dir.owner, NoRun}

\* The gates cannot deadlock: whoever waits for the operation gate holds
\* nothing, and whoever waits for the metadata gate does not hold it.
NoCircularWait ==
    \A p \in Procs :
        /\ At(p, "opGate") => op[p] = "none"
        /\ proc[p].pc \in Waiting => gate # p

\* Only its own Release takes the lock from a run whose lease is still live,
\* however long the process that decided to reclaim it has been stalled.
LiveLeaseKept ==
    [][ \/ dir.owner = NoRun
        \/ dir'.owner = dir.owner
        \/ OwnerExpired(clock)
        \/ \E p \in Procs : /\ At(p, "remove") /\ Does(p, "Release")
                            /\ proc[p].run = dir.owner ]_vars

\* Every invocation ends: it never waits for a gate, or for its own siblings,
\* for ever.
Finishes == \A p \in Procs : ~At(p, "idle") ~> At(p, "idle")

\* The script implements WorkdirOwnership: owner.json names the holder, and a
\* command is in flight until its process has refreshed the lease and gone.
Ownership == INSTANCE WorkdirOwnership WITH
    holder   <- dir.owner,
    inFlight <- [p \in Procs |->
                    IF proc[p].pc \in InFlight THEN proc[p].run ELSE NoRun],
    former   <- retired

ImplementsOwnership == Ownership!Spec
-----------------------------------------------------------------------------
(* The inductive invariant behind the safety properties.                   *)

\* Each gate is held exactly where the script has opened and not closed it.
GatesHeld ==
    \A p \in Procs :
        /\ gate = p <=> proc[p].pc \in InGate
        /\ op[p] = IF proc[p].pc \in {"idle", "opGate"} \/ proc[p].act \in {"Renew", "Verify"}
                   THEN "none" ELSE OpShare(proc[p].act)

ExclusiveAlone ==
    \A p, q \in Procs : p # q /\ op[p] = "exclusive" => op[q] = "none"

\* The places each action can be in.
ActionPlaces ==
    \A p \in Procs :
        /\ At(p, "opGate") => proc[p].act \in {"Invoke", "Acquire", "Release"}
        /\ At(p, "remove") => proc[p].act \in {"Acquire", "Release"}
        /\ proc[p].pc \in {"mkDir", "mkStage"} => Does(p, "Acquire")
        /\ At(p, "write") => proc[p].act \in {"Acquire", "Renew"}
        /\ proc[p].pc \in InFlight => Does(p, "Invoke")

\* What the holder of the metadata gate has established about the directory.
DirUnderGate ==
    \A p \in Procs :
        /\ At(p, "remove") =>
              /\ dir.here
              /\ Does(p, "Release") => dir.owner \in {proc[p].run, NoRun}
              /\ Does(p, "Acquire") => dir.owner = NoRun \/ OwnerExpired(clock)
        /\ At(p, "mkDir") => ~dir.here
        /\ At(p, "mkStage") => dir.here /\ dir.owner = NoRun /\ dir.stage = NoRun
        /\ At(p, "write") /\ Does(p, "Acquire") =>
              dir.here /\ dir.owner = NoRun /\ dir.stage = proc[p].run
        /\ At(p, "write") /\ Does(p, "Renew") => dir.here /\ dir.owner = proc[p].run

NothingInNoDir == ~dir.here => dir.owner = NoRun /\ dir.stage = NoRun

\* A token is acquired at most once, and only an acquired one owns or owned.
TokensOnce ==
    /\ acquired \subseteq asked
    /\ retired \subseteq acquired
    /\ dir.owner \in acquired \cup {NoRun}
    /\ \A p \in Procs : ~At(p, "idle") =>
          IF Does(p, "Acquire") THEN proc[p].run \in asked \ acquired
                                ELSE proc[p].run \in acquired
    /\ \A p, q \in Procs :
          p # q /\ ~At(p, "idle") /\ ~At(q, "idle")
                /\ Does(p, "Acquire") /\ Does(q, "Acquire")
          => proc[p].run # proc[q].run

IInv ==
    /\ TypeOK
    /\ GatesHeld /\ ExclusiveAlone /\ ActionPlaces
    /\ DirUnderGate /\ NothingInNoDir /\ TokensOnce
    /\ CommandsOfOwner /\ RetiredStaysOut /\ StageOfOwner
=============================================================================
