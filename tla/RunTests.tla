------------------------------ MODULE RunTests ------------------------------
(***************************************************************************)
(* scripts/run-tests.sh around the VM-workdir lock.                        *)
(*                                                                         *)
(* A run takes the lock, starts a heartbeat that renews the lease, ships,  *)
(* runs the matrix and releases the lock on its way out.  Everything it    *)
(* asks of the guest is an ssh call with a time limit: a call that times   *)
(* out is given up on this side, and may have been lost, be executed later *)
(* or go on for as long as it likes on the other.  The guest is the        *)
(* abstract lock WorkdirOwnership, which the script on the guest is shown  *)
(* to implement (MatrixRunLock), with a lease that may run out.            *)
(***************************************************************************)
EXTENDS Naturals, Sequences

CONSTANTS
    Runs,       \* invocations of run-tests.sh, each with a token of its own
    NoRun,
    Sessions,   \* guarded commands that the guest executes at one time
    NoSession,
    Plan,       \* what a run asks of the guest before the matrix
    Commands,   \* bound on the commands of a matrix
    Faults

AllFaults == {"timeout", "crash", "unset"}
Shipping == {"Verify", "Copy", "Invoke"}
Acts == Shipping \cup {"Acquire", "Renew", "Release"}
\* What a call does to the guest when it comes late.  The others find things out
\* or leave the lease as it is, which may run out at any time as it is.
Lasting == {"Acquire", "Invoke", "Release"}

ASSUME RunsAssumption == NoRun \notin Runs
ASSUME SessionsAssumption == NoSession \notin Sessions
ASSUME PlanAssumption == Plan \in Seq(Shipping)
ASSUME CommandsAssumption == Commands \in Nat
ASSUME FaultsAssumption == Faults \subseteq AllFaults

VARIABLES
    holder, inFlight, former,   \* the guest: see WorkdirOwnership
    live,       \* the lease of the holder has not run out
    reclaimed,  \* history: runs whose workdir another run has reclaimed
    pc,         \* where each script is
    done,       \* how much of the plan, or of the matrix, is done
    call,       \* the call each script waits for
    late,       \* calls given up that may still reach the guest and change it
    beat,       \* the heartbeat of each run
    usr1,       \* a SIGUSR1 that the script has not acted on
    rc,         \* run_rc: 0, or not
    reached,    \* RUN_REACHED_END
    exit        \* the exit status, "killed" for an end from outside, or "running"

guest == <<holder, inFlight, former, live, reclaimed>>
vars == <<guest, pc, done, call, late, beat, usr1, rc, reached, exit>>

NoCall == [act |-> "Verify", st |-> "none", at |-> NoSession]
Calls == [act : Acts, st : {"none", "sent", "busy", "ok", "failed"},
          at : Sessions \cup {NoSession}]

TypeOK ==
    /\ holder \in Runs \cup {NoRun}
    /\ inFlight \in [Sessions -> Runs \cup {NoRun}]
    /\ former \subseteq Runs
    /\ live \in BOOLEAN
    /\ reclaimed \subseteq Runs
    /\ pc \in [Runs -> {"start", "acquire", "work", "matrix", "exit", "unbeat",
                        "release", "ended"}]
    /\ done \in [Runs -> Nat]
    /\ call \in [Runs -> Calls]
    /\ late \in [Runs -> SUBSET Acts]
    /\ beat \in [Runs -> {"off", "sleep", "renew", "failed"}]
    /\ usr1 \in [Runs -> BOOLEAN]
    /\ rc \in [Runs -> {0, 1}]
    /\ reached \in [Runs -> BOOLEAN]
    /\ exit \in [Runs -> {"running", "0", "1", "killed"}]

Guest == INSTANCE WorkdirOwnership WITH Procs <- Sessions

Init ==
    /\ Guest!Init
    /\ live = FALSE
    /\ reclaimed = {}
    /\ pc = [r \in Runs |-> "start"]
    /\ done = [r \in Runs |-> 0]
    /\ call = [r \in Runs |-> NoCall]
    /\ late = [r \in Runs |-> {}]
    /\ beat = [r \in Runs |-> "off"]
    /\ usr1 = [r \in Runs |-> FALSE]
    /\ rc = [r \in Runs |-> 0]
    /\ reached = [r \in Runs |-> FALSE]
    /\ exit = [r \in Runs |-> "running"]

At(r, p) == pc[r] = p
Goto(r, p) == pc' = [pc EXCEPT ![r] = p]
Ends(r, status) == Goto(r, "ended") /\ exit' = [exit EXCEPT ![r] = status]

host == <<pc, done, usr1, rc, reached, exit>>

-----------------------------------------------------------------------------
(* The guest.                                                              *)

Asked(r, a) ==
    \/ call[r].act = a /\ call[r].st = "sent"
    \/ a \in late[r]
    \/ a = "Renew" /\ beat[r] = "renew"

\* The guest has dealt with a call; nobody waits for one that was given up.
Answer(r, a, ok) ==
    \/ /\ call[r].act = a /\ call[r].st = "sent"
       /\ call' = [call EXCEPT ![r].st = IF ok THEN "ok" ELSE "failed"]
       /\ UNCHANGED <<late, beat>>
    \/ /\ a \in late[r]
       /\ late' = [late EXCEPT ![r] = @ \ {a}]
       /\ UNCHANGED <<call, beat>>
    \/ /\ a = "Renew" /\ beat[r] = "renew"
       /\ beat' = [beat EXCEPT ![r] = IF ok THEN "sleep" ELSE "failed"]
       /\ UNCHANGED <<call, late>>

Owns(r) == holder = r /\ live

Grant(r) ==
    /\ Guest!Take(r)
    /\ Answer(r, "Acquire", TRUE)
    /\ live' = TRUE
    /\ UNCHANGED <<reclaimed, host>>

Reclaim(r) ==
    /\ Asked(r, "Acquire") /\ ~live
    /\ Guest!Lose
    /\ reclaimed' = reclaimed \cup {holder}
    /\ UNCHANGED <<live, call, late, beat, host>>

\* Somebody's lease is live, or their command holds the operation gate.
Refuse(r) ==
    /\ holder # NoRun
    /\ live \/ ~Guest!Quiet
    /\ Answer(r, "Acquire", FALSE)
    /\ UNCHANGED <<guest, host>>

Check(r) ==
    /\ \E a \in {"Verify", "Renew"} : Answer(r, a, Owns(r))
    /\ UNCHANGED <<guest, host>>

\* scp: the token's directory is there, or gone with the lock.
Copy(r) ==
    /\ Answer(r, "Copy", holder = r)
    /\ UNCHANGED <<guest, host>>

Release(r) ==
    /\ Owns(r)
    /\ Guest!Lose
    /\ Answer(r, "Release", TRUE)
    /\ UNCHANGED <<live, reclaimed, host>>

\* Not the owner, or a command of this run is still there after 15 seconds.
ReleaseRefused(r) ==
    /\ ~Owns(r) \/ ~Guest!Quiet
    /\ Answer(r, "Release", FALSE)
    /\ UNCHANGED <<guest, host>>

Begin(r, s) ==
    /\ Owns(r)
    /\ Guest!Begin(s)
    /\ \/ /\ call[r].act = "Invoke" /\ call[r].st = "sent"
          /\ call' = [call EXCEPT ![r].st = "busy", ![r].at = s]
          /\ UNCHANGED late
       \/ /\ "Invoke" \in late[r]
          /\ late' = [late EXCEPT ![r] = @ \ {"Invoke"}]
          /\ UNCHANGED call
    /\ UNCHANGED <<live, reclaimed, beat, host>>

InvokeRefused(r) ==
    /\ ~Owns(r)
    /\ Answer(r, "Invoke", FALSE)
    /\ UNCHANGED <<guest, host>>

\* Mutant: the end of a command is taken for the answer to any call.
EndsAnyCall(s) ==
    /\ Guest!End(s)
    /\ live' \in {live, TRUE}
    /\ \E status \in {"ok", "failed"} :
          call' = [r \in Runs |-> IF inFlight[s] = r
                                  THEN [call[r] EXCEPT !.st = status, !.at = NoSession]
                                  ELSE call[r]]
    /\ UNCHANGED <<reclaimed, late, beat, host>>

\* The lease is refreshed, unless the process died before it came to that.
End(s) ==
    /\ Guest!End(s)
    /\ live' \in {live, TRUE}
    /\ \E status \in {"ok", "failed"} :
          call' = [r \in Runs |-> IF call[r].at = s
                                  THEN [call[r] EXCEPT !.st = status, !.at = NoSession]
                                  ELSE call[r]]
    /\ UNCHANGED <<reclaimed, late, beat, host>>

\* Its time is up before the next renewal, if there is one.
Expire ==
    /\ live /\ holder # NoRun
    /\ live' = FALSE
    /\ UNCHANGED <<holder, inFlight, former, reclaimed, call, late, beat, host>>

\* Nobody renews it any more: its time comes.
Lapse == Expire /\ beat[holder] = "off"

-----------------------------------------------------------------------------
(* A bounded call.                                                         *)

Idle(r) == call[r].st = "none"

Send(r, a) == call' = [call EXCEPT ![r] = [act |-> a, st |-> "sent", at |-> NoSession]]

\* This side stops waiting: what has not reached the guest may be lost.
GiveUp(r) ==
    /\ call' = [call EXCEPT ![r] = NoCall]
    /\ \/ UNCHANGED late
       \/ /\ call[r].st = "sent" /\ call[r].act \in Lasting
          /\ late' = [late EXCEPT ![r] = @ \cup {call[r].act}]

\* Mutant: a call without a time limit.
ReturnUnbounded(r, ok) ==
    /\ call[r].st = (IF ok THEN "ok" ELSE "failed")
    /\ call' = [call EXCEPT ![r] = NoCall]
    /\ UNCHANGED late

\* The time limit may cut off an answer that has just come.
Return(r, ok) ==
    \/ /\ call[r].st = (IF ok THEN "ok" ELSE "failed")
       /\ call' = [call EXCEPT ![r] = NoCall]
       /\ UNCHANGED late
    \/ /\ ~ok /\ ~Idle(r) /\ "timeout" \in Faults
       /\ GiveUp(r)

-----------------------------------------------------------------------------
(* The script.                                                             *)

PreflightFails(r) ==
    /\ At(r, "start")
    /\ Ends(r, "1")
    /\ UNCHANGED <<guest, done, call, late, beat, usr1, rc, reached>>

Start(r) ==
    /\ At(r, "start")
    /\ Send(r, "Acquire")
    /\ Goto(r, "acquire")
    /\ UNCHANGED <<guest, done, late, beat, usr1, rc, reached, exit>>

\* Before there is a trap to clean up.
NotAcquired(r) ==
    /\ At(r, "acquire")
    /\ Return(r, FALSE)
    /\ Ends(r, "1")
    /\ UNCHANGED <<guest, done, beat, usr1, rc, reached>>

Acquired(r) ==
    /\ At(r, "acquire")
    /\ Return(r, TRUE)
    /\ beat' = [beat EXCEPT ![r] = "sleep"]
    /\ Goto(r, "work")
    /\ UNCHANGED <<guest, done, usr1, rc, reached, exit>>

\* set -e: the first call that fails ends the run.
Fails(r) ==
    /\ At(r, "work")
    /\ Return(r, FALSE)
    /\ rc' = [rc EXCEPT ![r] = 1]
    /\ Goto(r, "exit")
    /\ UNCHANGED <<guest, done, beat, usr1, reached, exit>>

Ship(r) ==
    /\ At(r, "work") /\ ~usr1[r] /\ Idle(r)
    /\ done[r] < Len(Plan)
    /\ Send(r, Plan[done[r] + 1])
    /\ UNCHANGED <<guest, host, late, beat>>

Shipped(r) ==
    /\ At(r, "work")
    /\ Return(r, TRUE)
    /\ done' = [done EXCEPT ![r] = @ + 1]
    /\ UNCHANGED <<guest, pc, beat, usr1, rc, reached, exit>>

StartMatrix(r) ==
    /\ At(r, "work") /\ ~usr1[r] /\ Idle(r)
    /\ done[r] = Len(Plan)
    /\ done' = [done EXCEPT ![r] = 0]
    /\ Goto(r, "matrix")
    /\ UNCHANGED <<guest, call, late, beat, usr1, rc, reached, exit>>

\* The trap of SIGUSR1 interrupts a call that the script waits for.
Interrupted(r) ==
    /\ At(r, "work") /\ usr1[r]
    /\ usr1' = [usr1 EXCEPT ![r] = FALSE]
    /\ GiveUp(r)
    /\ rc' = [rc EXCEPT ![r] = 1]
    /\ Goto(r, "exit")
    /\ UNCHANGED <<guest, done, beat, reached, exit>>

MatrixStep(r) ==
    /\ At(r, "matrix") /\ Idle(r)
    /\ done[r] < Commands
    /\ Send(r, "Invoke")
    /\ UNCHANGED <<guest, host, late, beat>>

\* A step that failed or timed out fails its scenario, and others go on.
MatrixStepEnds(r) ==
    /\ At(r, "matrix")
    /\ \E ok \in BOOLEAN :
          Return(r, ok) /\ rc' = [rc EXCEPT ![r] = IF ok THEN @ ELSE 1]
    /\ done' = [done EXCEPT ![r] = @ + 1]
    /\ UNCHANGED <<guest, pc, beat, usr1, reached, exit>>

\* A signal during the matrix has waited for its end; steps on the host may
\* have failed too.
MatrixEnds(r) ==
    /\ At(r, "matrix") /\ Idle(r)
    /\ rc' \in {[rc EXCEPT ![r] = IF usr1[r] THEN 1 ELSE @], [rc EXCEPT ![r] = 1]}
    /\ reached' = [reached EXCEPT ![r] = ~usr1[r]]
    /\ usr1' = [usr1 EXCEPT ![r] = FALSE]
    /\ Goto(r, "exit")
    /\ UNCHANGED <<guest, done, call, late, beat, exit>>

\* set -u kills the script, and bash 3.2 calls that exit status 0.
Dies(r) ==
    /\ "unset" \in Faults
    /\ At(r, "work") /\ Idle(r)
    /\ Goto(r, "exit")
    /\ UNCHANGED <<guest, done, call, late, beat, usr1, rc, reached, exit>>

-----------------------------------------------------------------------------
(* cleanup_run                                                             *)

\* Mutant: the exit status is taken for what it is.
CleanupTrusting(r) ==
    /\ At(r, "exit") /\ ~usr1[r]
    /\ Goto(r, "unbeat")
    /\ UNCHANGED <<guest, done, call, late, beat, usr1, rc, reached, exit>>

Cleanup(r) ==
    /\ At(r, "exit") /\ ~usr1[r]
    /\ rc' = [rc EXCEPT ![r] = IF reached[r] THEN @ ELSE 1]
    /\ Goto(r, "unbeat")
    /\ UNCHANGED <<guest, done, call, late, beat, usr1, reached, exit>>

\* A signal that comes between the traps' removal and the heartbeat's end
\* kills the script, and the lock stays.
Killed(r) ==
    /\ pc[r] \in {"exit", "unbeat"} /\ usr1[r]
    /\ usr1' = [usr1 EXCEPT ![r] = FALSE]
    /\ Ends(r, "1")
    /\ UNCHANGED <<guest, done, call, late, beat, rc, reached>>

\* Mutant: clean-up forgets the heartbeat.
BeatLeftOn(r) ==
    /\ At(r, "unbeat") /\ ~usr1[r]
    /\ Send(r, "Release")
    /\ Goto(r, "release")
    /\ UNCHANGED <<guest, done, late, beat, usr1, rc, reached, exit>>

StopBeat(r) ==
    /\ At(r, "unbeat") /\ ~usr1[r]
    /\ beat' = [beat EXCEPT ![r] = "off"]
    /\ Send(r, "Release")
    /\ Goto(r, "release")
    /\ UNCHANGED <<guest, done, late, usr1, rc, reached, exit>>

\* Mutant: a lock that could not be released is only reported.
ReleasedOrNot(r) ==
    /\ At(r, "release")
    /\ \E ok \in BOOLEAN :
          /\ Return(r, ok)
          /\ Ends(r, IF rc[r] = 0 THEN "0" ELSE "1")
    /\ UNCHANGED <<guest, done, beat, usr1, rc, reached>>

Released(r) ==
    /\ At(r, "release")
    /\ \E ok \in BOOLEAN :
          /\ Return(r, ok)
          /\ Ends(r, IF rc[r] = 0 /\ ok THEN "0" ELSE "1")
    /\ UNCHANGED <<guest, done, beat, usr1, rc, reached>>

-----------------------------------------------------------------------------
(* The heartbeat, and the end of the host.                                 *)

Renew(r) ==
    /\ beat[r] = "sleep"
    /\ beat' = [beat EXCEPT ![r] = "renew"]
    /\ UNCHANGED <<guest, host, call, late>>

RenewTimesOut(r) ==
    /\ "timeout" \in Faults
    /\ beat[r] = "renew"
    /\ beat' = [beat EXCEPT ![r] = "failed"]
    /\ UNCHANGED <<guest, host, call, late>>

Signal(r) ==
    /\ beat[r] = "failed"
    /\ beat' = [beat EXCEPT ![r] = "off"]
    /\ usr1' = [usr1 EXCEPT ![r] = ~At(r, "ended")]
    /\ UNCHANGED <<guest, pc, done, call, late, rc, reached, exit>>

\* The script is killed outright, with its heartbeat or without.
Crash(r) ==
    /\ "crash" \in Faults
    /\ pc[r] \notin {"start", "ended"}
    /\ Ends(r, "killed")
    /\ GiveUp(r)
    /\ beat' \in {beat, [beat EXCEPT ![r] = "off"]}
    /\ usr1' = [usr1 EXCEPT ![r] = FALSE]
    /\ UNCHANGED <<guest, done, rc, reached>>

GuestStep ==
    \/ \E r \in Runs :
          \/ Grant(r) \/ Reclaim(r) \/ Refuse(r) \/ Check(r) \/ Copy(r)
          \/ Release(r) \/ ReleaseRefused(r) \/ InvokeRefused(r)
          \/ \E s \in Sessions : Begin(r, s)
    \/ \E s \in Sessions : End(s)
    \/ Expire

Script(r) ==
    \/ PreflightFails(r) \/ Start(r) \/ NotAcquired(r) \/ Acquired(r)
    \/ Fails(r) \/ Ship(r) \/ Shipped(r) \/ StartMatrix(r) \/ Interrupted(r)
    \/ MatrixStep(r) \/ MatrixStepEnds(r) \/ MatrixEnds(r)
    \/ Cleanup(r) \/ Killed(r) \/ StopBeat(r) \/ Released(r)

Heartbeat(r) == Renew(r) \/ RenewTimesOut(r) \/ Signal(r)

Next ==
    \/ GuestStep
    \/ \E r \in Runs : Script(r) \/ Heartbeat(r) \/ Dies(r) \/ Crash(r)

Spec == Init /\ [][Next]_vars

\* The script runs on and gives up what takes too long, and the guest's clock
\* runs.  The guest may leave anything unanswered for ever.
FairSpec == Spec /\ (\A r \in Runs : WF_vars(Script(r))) /\ WF_vars(Lapse)

-----------------------------------------------------------------------------
(* Correctness.                                                            *)

Passed(r) == exit[r] = "0"

\* A run that passes had the workdir to itself all along: nobody reclaimed it
\* behind a stalled heartbeat, however late that was noticed.
PassHeld(r) == r \notin reclaimed

\* It leaves nothing behind: it does not hold the workdir and none of its
\* commands runs or will run on the guest, the late ones included.
PassLeavesNothing(r) == holder # r /\ \A s \in Sessions : inFlight[s] # r

\* It reached its end, and no step of it failed.
PassReached(r) == reached[r] /\ rc[r] = 0

\* run-tests.sh:107-109, 573-581: exit 0 says all of that.
PassTruthful ==
    \A r \in Runs : Passed(r) => PassHeld(r) /\ PassLeavesNothing(r) /\ PassReached(r)

\* Whoever lost the workdir is out of it, with every command.
GuestSound ==
    /\ holder \notin former
    /\ reclaimed \subseteq former
    /\ \A s \in Sessions : inFlight[s] \in {NoRun, holder}

\* A release that was acknowledged gave up a lock that had been kept.
CallSound(r) ==
    /\ call[r].act = "Release" /\ call[r].st = "ok" => r \in former \ reclaimed
    /\ call[r].at # NoSession => call[r].act = "Invoke"
    /\ At(r, "release") => call[r].act = "Release"

\* Status 0 is decided in clean-up, and nothing takes it back.
ExitSound(r) ==
    /\ pc[r] \in {"unbeat", "release"} /\ rc[r] = 0 => reached[r]
    /\ exit[r] = "0" =>
          At(r, "ended") /\ reached[r] /\ rc[r] = 0 /\ r \in former \ reclaimed

\* The inductive invariant of RunTestsProofs.
IInv ==
    /\ TypeOK
    /\ GuestSound
    /\ \A r \in Runs : CallSound(r) /\ ExitSound(r)

\* No call that the guest leaves unanswered holds a run for ever.
RunEnds == \A r \in Runs : <>At(r, "ended")

\* run-tests.sh:583-586, 601-613: a run that comes to its own end leaves no
\* lease behind that stays fresh, be it that its Release fails, that a signal
\* kills it before the Release, or that an Acquire it gave up is granted when
\* it has gone.  A script killed outright is the exception: its heartbeat may
\* go on for as long as the host runs.
WorkdirComesFree ==
    <>[](\A r \in Runs : exit[r] \in {"0", "1"} => ~Owns(r))
=============================================================================
