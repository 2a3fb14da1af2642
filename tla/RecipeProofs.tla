---------------------------- MODULE RecipeProofs ----------------------------
(***************************************************************************)
(* Recipe keeps IInv for any runs, jobs and scenarios, any plans that ship *)
(* or make an image before they work on it in the VM, any commands that    *)
(* leave processes behind and any runs that cannot mark their directories. *)
(***************************************************************************)
EXTENDS Recipe, TLAPS

VMTypes ==
    /\ holder \in Runs \cup {NoRun}
    /\ inFlight \in [Jobs -> Runs \cup {NoRun}]
    /\ former \subseteq Runs
    /\ vmImg \in [Scenarios -> Runs \cup {NoRun}]
    /\ stage \in [Jobs -> Runs \cup {NoRun}]

CallTypes ==
    /\ sent \in [Jobs -> Commands]
    /\ answer \in [Jobs -> {"none", "sent", "busy", "ok", "failed"}]

DirTypes ==
    /\ run \in [Runs -> {"new", "reap", "judge", "remove", "create", "mark", "work", "over"}]
    /\ dir \in [Runs -> {"none", "bare", "marked"}]
    /\ old \subseteq Runs
    /\ reap \in [Runs -> SUBSET Runs]
    /\ judged \in [Runs -> [run : Runs \cup {NoRun}, marked : BOOLEAN]]

RecipeTypes ==
    /\ hostImg \in [Jobs -> Runs \cup {NoRun}]
    /\ pc \in [Jobs -> {"wait", "next", "local", "guard", "scp", "move", "put", "make", "run",
                        "copy", "fetch", "take", "remove", "cleanup", "kept",
                        "ended", "held"}]
    /\ at \in [Jobs -> Nat]
    /\ good \in [Jobs -> BOOLEAN]
    /\ verdict \in [Jobs -> {"none", "passed", "failed", "errored"}]

LEMMA TypeParts == TypeOK <=> VMTypes /\ CallTypes /\ DirTypes /\ RecipeTypes
BY DEF TypeOK, VMTypes, CallTypes, DirTypes, RecipeTypes

-----------------------------------------------------------------------------
(* What the steps of a recipe leave alone.                                 *)

\* A recipe's own steps change neither the lock nor the VM's images, and
\* nothing of another recipe.
LEMMA HostFrame ==
    ASSUME TypeOK, NEW q \in Jobs, OnHost(q)
    PROVE  /\ UNCHANGED <<lock, vmImg, run, reap, judged>>
           /\ Working(q)
           /\ \A j \in Jobs \ {q} :
                 /\ sent'[j] = sent[j] /\ answer'[j] = answer[j]
                 /\ stage'[j] = stage[j] /\ hostImg'[j] = hostImg[j]
                 /\ pc'[j] = pc[j] /\ at'[j] = at[j] /\ good'[j] = good[j]
<1> USE DEF At, Goto, TypeOK
<1>1. CASE StartRecipe(q) \/ StartLocal(q)
  BY <1>1 DEF StartRecipe, StartLocal, vm, lock, dirs
<1>2. CASE LocalOk(q)
  BY <1>2 DEF LocalOk, Staged, Advance, vm, lock, dirs
<1>3. CASE LocalFails(q)
  BY <1>3 DEF LocalFails, Staged, Fail, vm, lock, dirs
<1>4. CASE StartRemote(q)
  BY <1>4 DEF StartRemote, Send, vm, lock, dirs, Working
<1>5. CASE StartFetch(q)
  BY <1>5 DEF StartFetch, Send, vm, lock
<1>6. CASE GuardOk(q) \/ CopyOk(q)
  BY <1>6 DEF GuardOk, CopyOk, vm, lock, dirs
<1>7. CASE GuardRefused(q) \/ ScpFails(q)
  BY <1>7 DEF GuardRefused, ScpFails, Fail, vm, lock, dirs
<1>8. CASE GuardTimesOut(q) \/ StepErrs(q)
  BY <1>8 DEF GuardTimesOut, StepErrs, Errs, GiveUp, vm, lock, dirs
<1>9. CASE ScpOk(q)
  BY <1>9 DEF ScpOk, Send, lock, dirs
<1>10. CASE RemoteOk(q)
  BY <1>10 DEF RemoteOk, Advance, vm, lock, dirs
<1>11. CASE RemoteFails(q)
  BY <1>11 DEF RemoteFails, Fails, GiveUp, Fail, vm, lock, dirs
<1>12. CASE CopyRefused(q) \/ FetchFails(q)
  BY <1>12 DEF CopyRefused, FetchFails, Unfetched, Send, vm, lock, dirs
<1>13. CASE FetchOk(q)
  BY <1>13 DEF FetchOk, Send, vm, lock
<1>14. CASE RemoveOk(q)
  BY <1>14 DEF RemoveOk, vm, lock, dirs
<1>15. CASE RemoveFails(q)
  BY <1>15 DEF RemoveFails, Fails, GiveUp, Fail, vm, lock, dirs
<1>16. CASE Pass(q)
  BY <1>16 DEF Pass, vm, lock, dirs
<1>17. CASE Cleanup(q) \/ CleanupKeeps(q)
  BY <1>17 DEF Cleanup, CleanupKeeps, vm, lock, dirs
<1>18. QED
  BY <1>1, <1>2, <1>3, <1>4, <1>5, <1>6, <1>7, <1>8, <1>9, <1>10, <1>11, <1>12,
     <1>13, <1>14, <1>15, <1>16, <1>17 DEF OnHost

\* A recipe that is held changes nothing but its own place.
LEMMA HoldFrame ==
    ASSUME TypeOK, NEW q \in Jobs, Hold(q)
    PROVE  /\ UNCHANGED <<vm, sent, answer, dirs, hostImg, at, good, verdict>>
           /\ Working(q) /\ pc[q] \notin {"wait", "kept", "ended"}
           /\ pc' = [pc EXCEPT ![q] = "held"]
BY DEF Hold, At, Goto

\* What a recipe's steps may do to its images, to the command it waits for and
\* to the directory of its run.
LEMMA HostEffect ==
    ASSUME TypeOK, NEW q \in Jobs, PlaceSound(q), OnHost(q)
    PROVE  /\ stage'[q] \in {stage[q], hostImg[q]}
           /\ hostImg'[q] \in {hostImg[q], stage[q], RunOf[q], NoRun}
           /\ answer'[q] = "busy" <=> answer[q] = "busy"
           /\ answer'[q] = "ok" => answer[q] = "ok" /\ sent'[q] = sent[q]
           /\ answer'[q] = "busy" => sent'[q] = sent[q]
           /\ old' \subseteq old
           /\ \A r \in Runs :
                 \/ dir'[r] = dir[r]
                 \/ r = RunOf[q] /\ dir[r] # "marked"
<1> USE JobsAssumption DEF At, Goto, TypeOK
<1>1. CASE StartRecipe(q) \/ StartLocal(q)
  BY <1>1 DEF StartRecipe, StartLocal, vm, dirs
<1>2. CASE LocalOk(q)
  BY <1>2 DEF LocalOk, Staged, Advance, vm, dirs
<1>3. CASE LocalFails(q)
  BY <1>3 DEF LocalFails, Staged, Fail, vm, dirs
<1>4. CASE StartRemote(q)
  BY <1>4 DEF StartRemote, Send, vm, dirs, PlaceSound
<1>5. CASE StartFetch(q)
  BY <1>5 DEF StartFetch, Send, vm, PlaceSound
<1>6. CASE GuardOk(q) \/ CopyOk(q)
  BY <1>6 DEF GuardOk, CopyOk, vm, dirs
<1>7. CASE GuardRefused(q) \/ ScpFails(q)
  BY <1>7 DEF GuardRefused, ScpFails, Fail, vm, dirs
<1>8. CASE GuardTimesOut(q) \/ StepErrs(q)
  BY <1>8 DEF GuardTimesOut, StepErrs, Errs, GiveUp, vm, dirs
<1>9. CASE ScpOk(q)
  BY <1>9 DEF ScpOk, Send, dirs, PlaceSound
<1>10. CASE RemoteOk(q)
  BY <1>10 DEF RemoteOk, Advance, vm, dirs
<1>11. CASE RemoteFails(q)
  BY <1>11 DEF RemoteFails, Fails, GiveUp, Fail, vm, dirs
<1>12. CASE CopyRefused(q) \/ FetchFails(q)
  BY <1>12 DEF CopyRefused, FetchFails, Unfetched, Send, vm, dirs, PlaceSound
<1>13. CASE FetchOk(q)
  BY <1>13 DEF FetchOk, Send, vm, PlaceSound
<1>14. CASE RemoveOk(q)
  BY <1>14 DEF RemoveOk, vm, dirs
<1>15. CASE RemoveFails(q)
  BY <1>15 DEF RemoveFails, Fails, GiveUp, Fail, vm, dirs
<1>16. CASE Pass(q)
  BY <1>16 DEF Pass, vm, dirs
<1>17. CASE Cleanup(q) \/ CleanupKeeps(q)
  BY <1>17 DEF Cleanup, CleanupKeeps, vm, dirs
<1>18. QED
  BY <1>1, <1>2, <1>3, <1>4, <1>5, <1>6, <1>7, <1>8, <1>9, <1>10, <1>11, <1>12,
     <1>13, <1>14, <1>15, <1>16, <1>17 DEF OnHost

-----------------------------------------------------------------------------
(* Types.                                                                  *)

LEMMA FailTypes ==
    ASSUME TypeOK, NEW q \in Jobs, Fail(q)
    PROVE  /\ pc' \in [Jobs -> {"wait", "next", "local", "guard", "scp", "move", "put", "make", "run",
                        "copy", "fetch", "take", "remove", "cleanup", "kept",
                        "ended", "held"}]
           /\ at' \in [Jobs -> Nat] /\ good' \in [Jobs -> BOOLEAN]
           /\ verdict' \in [Jobs -> {"none", "passed", "failed", "errored"}]
<1>1. pc' = [pc EXCEPT ![q] = "cleanup"] /\ verdict' = [verdict EXCEPT ![q] = "failed"]
  BY DEF Fail, Goto
<1>2. at' = at /\ good' = good
  BY DEF Fail
<1>3. QED
  BY <1>1, <1>2 DEF TypeOK

LEMMA GiveUpTypes ==
    ASSUME TypeOK, NEW q \in Jobs, GiveUp(q) \/ UNCHANGED <<sent, answer>>
    PROVE  /\ sent' \in [Jobs -> Commands]
           /\ answer' \in [Jobs -> {"none", "sent", "busy", "ok", "failed"}]
  BY DEF GiveUp, TypeOK, Commands

LEMMA HostTypes ==
    ASSUME TypeOK, NEW q \in Jobs, OnHost(q)
    PROVE  TypeOK'
<1> USE JobsAssumption DEF At, Goto, TypeOK, Commands
<1>1. CASE StartRecipe(q) \/ StartLocal(q)
  <2>1. UNCHANGED <<vm, sent, answer, dirs, hostImg, at, good, verdict>>
    BY <1>1 DEF StartRecipe, StartLocal
  <2>2. pc' = [pc EXCEPT ![q] = "next"] \/ pc' = [pc EXCEPT ![q] = "local"]
    BY <1>1 DEF StartRecipe, StartLocal
  <2>3. QED
    BY <2>1, <2>2 DEF vm, lock, dirs
<1>2. CASE LocalOk(q)
  <2>1. /\ UNCHANGED <<vm, sent, answer, run, reap, judged, good, verdict>>
        /\ at' = [at EXCEPT ![q] = @ + 1] /\ pc' = [pc EXCEPT ![q] = "next"]
    BY <1>2 DEF LocalOk, Staged, Advance, dirs
  <2>2. /\ hostImg' \in [Jobs -> Runs \cup {NoRun}]
        /\ dir' \in [Runs -> {"none", "bare", "marked"}] /\ old' \subseteq Runs
    <3>1. CASE UNCHANGED <<hostImg, dirs>>
      BY <3>1 DEF dirs
    <3>2. CASE Staged(q)
      BY <3>2 DEF Staged
    <3>3. QED
      BY <1>2, <3>1, <3>2 DEF LocalOk
  <2>3. UNCHANGED <<holder, inFlight, former, vmImg, stage>>
    BY <2>1 DEF vm, lock
  <2>4. at' \in [Jobs -> Nat]
    BY <2>1
  <2>5. pc' \in [Jobs -> {"wait", "next", "local", "guard", "scp", "move", "put", "make", "run",
                         "copy", "fetch", "take", "remove", "cleanup", "kept",
                        "ended", "held"}]
    BY <2>1
  <2>6. QED
    BY <2>1, <2>2, <2>3, <2>4, <2>5
<1>3. CASE LocalFails(q)
  <2>1. Fail(q) /\ UNCHANGED <<vm, sent, answer, run, reap, judged>>
    BY <1>3 DEF LocalFails, Staged, dirs
  <2>2. /\ hostImg' \in [Jobs -> Runs \cup {NoRun}]
        /\ dir' \in [Runs -> {"none", "bare", "marked"}] /\ old' \subseteq Runs
    <3>1. CASE UNCHANGED <<hostImg, dirs>>
      BY <3>1 DEF dirs
    <3>2. CASE Staged(q)
      BY <3>2 DEF Staged
    <3>3. QED
      BY <1>3, <3>1, <3>2 DEF LocalFails
  <2>3. QED
    BY <2>1, <2>2, FailTypes DEF vm, lock
<1>4. CASE StartRemote(q)
  BY <1>4 DEF StartRemote, Send, vm, lock, dirs
<1>5. CASE StartFetch(q)
  BY <1>5 DEF StartFetch, Send, vm, lock
<1>6. CASE GuardOk(q) \/ CopyOk(q)
  BY <1>6 DEF GuardOk, CopyOk, vm, lock, dirs
<1>7. CASE GuardRefused(q) \/ ScpFails(q)
  <2>1. Fail(q) /\ UNCHANGED <<vm, sent, answer, dirs, hostImg>>
    BY <1>7 DEF GuardRefused, ScpFails
  <2>2. QED
    BY <2>1, FailTypes DEF vm, lock, dirs
<1>8. CASE GuardTimesOut(q) \/ StepErrs(q)
  <2>1. /\ UNCHANGED <<vm, dirs, hostImg, at, good>>
        /\ sent' \in [Jobs -> Commands]
        /\ answer' \in [Jobs -> {"none", "sent", "busy", "ok", "failed"}]
    BY <1>8, GiveUpTypes DEF GuardTimesOut, StepErrs, Errs
  <2>2. /\ verdict' = [verdict EXCEPT ![q] = "errored"]
        /\ pc' = [pc EXCEPT ![q] = "ended"]
    BY <1>8 DEF GuardTimesOut, StepErrs, Errs
  <2>3. QED
    BY <2>1, <2>2 DEF vm, lock, dirs
<1>9. CASE ScpOk(q)
  BY <1>9 DEF ScpOk, Send, lock, dirs
<1>10. CASE RemoteOk(q)
  BY <1>10 DEF RemoteOk, Advance, vm, lock, dirs
<1>11. CASE RemoteFails(q)
  <2>1. Fail(q) /\ UNCHANGED <<vm, dirs, hostImg>>
    BY <1>11 DEF RemoteFails
  <2>2. GiveUp(q) \/ UNCHANGED <<sent, answer>>
    BY <1>11 DEF RemoteFails, Fails
  <2>3. QED
    BY <2>1, <2>2, FailTypes, GiveUpTypes DEF vm, lock, dirs
<1>12. CASE CopyRefused(q) \/ FetchFails(q)
  <2>1. Unfetched(q)
    BY <1>12 DEF CopyRefused, FetchFails
  <2>2. QED
    BY <2>1 DEF Unfetched, Send, vm, lock, dirs
<1>13. CASE FetchOk(q)
  BY <1>13 DEF FetchOk, Send, vm, lock
<1>14. CASE RemoveOk(q)
  <2>1. UNCHANGED <<vm, sent, answer, dirs, hostImg>>
    BY <1>14 DEF RemoveOk
  <2>2. good' \in [Jobs -> BOOLEAN]
    BY <1>14 DEF RemoveOk
  <2>3. /\ pc' = [pc EXCEPT ![q] = "next"] \/ pc' = [pc EXCEPT ![q] = "cleanup"]
        /\ at' = [at EXCEPT ![q] = @ + 1] \/ at' = at
        /\ verdict' = [verdict EXCEPT ![q] = "failed"] \/ verdict' = verdict
    BY <1>14 DEF RemoveOk
  <2>4. at' \in [Jobs -> Nat]
    BY <2>3
  <2>5. QED
    BY SMTT(30), <2>1, <2>2, <2>3, <2>4 DEF vm, lock, dirs
<1>15. CASE RemoveFails(q)
  <2>1. Fail(q) /\ UNCHANGED <<vm, dirs, hostImg>>
    BY <1>15 DEF RemoveFails
  <2>2. GiveUp(q) \/ UNCHANGED <<sent, answer>>
    BY <1>15 DEF RemoveFails, Fails
  <2>3. QED
    BY <2>1, <2>2, FailTypes, GiveUpTypes DEF vm, lock, dirs
<1>16. CASE Pass(q)
  BY <1>16 DEF Pass, vm, lock, dirs
<1>17. CASE Cleanup(q) \/ CleanupKeeps(q)
  <2>1. CASE Cleanup(q)
    BY <2>1 DEF Cleanup, vm, lock
  <2>2. CASE CleanupKeeps(q)
    BY <2>2 DEF CleanupKeeps, vm, lock, dirs
  <2>3. QED
    BY <1>17, <2>1, <2>2
<1>18. QED
  BY <1>1, <1>2, <1>3, <1>4, <1>5, <1>6, <1>7, <1>8, <1>9, <1>10, <1>11, <1>12,
     <1>13, <1>14, <1>15, <1>16, <1>17 DEF OnHost

LEMMA VMStepTypes ==
    ASSUME TypeOK, LoseLock \/ \E j \in Jobs : OnVM(j)
    PROVE  TypeOK'
<1> USE DEF TypeOK, dirs, recipe
<1>1. CASE LoseLock
  BY <1>1 DEF LoseLock, VM!Lose
<1>2. ASSUME NEW j \in Jobs, Begin(j) PROVE TypeOK'
  BY <1>2 DEF Begin, VM!Begin
<1>3. ASSUME NEW j \in Jobs, Rejected(j) PROVE TypeOK'
  BY <1>3 DEF Rejected, vm, lock
<1>4. ASSUME NEW j \in Jobs, End(j) PROVE TypeOK'
  <2>1. inFlight' \in [Jobs -> Runs \cup {NoRun}] /\ UNCHANGED <<holder, former>>
    BY <1>4 DEF End, VM!End
  <2>2. answer' \in [Jobs -> {"none", "sent", "busy", "ok", "failed"}]
    BY <1>4 DEF End
  <2>3. vmImg' \in [Scenarios -> Runs \cup {NoRun}] /\ stage' \in [Jobs -> Runs \cup {NoRun}]
    <3>1. CASE Effect(j)
      BY SMTT(30), <3>1, JobsAssumption DEF Effect, Made
    <3>2. CASE HalfPut(j)
      BY <3>2, JobsAssumption DEF HalfPut
    <3>3. CASE Made(j)
      BY <3>3, JobsAssumption DEF Made
    <3>4. CASE UNCHANGED <<vmImg, stage>>
      BY <3>4
    <3>5. QED
      BY <1>4, <3>1, <3>2, <3>3, <3>4 DEF End
  <2>4. QED
    BY <1>4, <2>1, <2>2, <2>3 DEF End
<1>5. ASSUME NEW j \in Jobs, Take(j) PROVE TypeOK'
  <2>1. inFlight' \in [Jobs -> Runs \cup {NoRun}] /\ UNCHANGED <<holder, former>>
    BY <1>5 DEF Take, VM!End
  <2>2. answer' \in [Jobs -> {"none", "sent", "busy", "ok", "failed"}]
    BY <1>5 DEF Take
  <2>3. hostImg' \in [Jobs -> Runs \cup {NoRun}] /\ old' \subseteq Runs
    BY <1>5, JobsAssumption DEF Take
  <2>4. UNCHANGED <<vmImg, stage, sent, run, dir, reap, judged, pc, at, good, verdict>>
    BY <1>5 DEF Take
  <2>5. QED
    BY <2>1, <2>2, <2>3, <2>4
<1>6. QED
  BY <1>1, <1>2, <1>3, <1>4, <1>5 DEF OnVM

LEMMA RunStepTypes ==
    ASSUME TypeOK, NEW r \in Runs, StartRun(r) \/ Reaper(r) \/ Age(r) \/ EndRun(r)
    PROVE  TypeOK'
<1> USE DEF TypeOK, RunGoes, recipe, vm, lock
<1>1. CASE StartRun(r)
  BY <1>1 DEF StartRun, VM!Take
<1>2. CASE ReadMarker(r)
  <2>1. PICK q \in reap[r] :
           /\ judged' = [judged EXCEPT ![r] = [run |-> q, marked |-> dir[q] = "marked"]]
           /\ reap' = [reap EXCEPT ![r] = @ \ {q}]
    BY <1>2 DEF ReadMarker
  <2>2. [run |-> q, marked |-> dir[q] = "marked"] \in [run : Runs \cup {NoRun}, marked : BOOLEAN]
    BY <2>1
  <2>3. judged' \in [Runs -> [run : Runs \cup {NoRun}, marked : BOOLEAN]]
    BY <2>1, <2>2
  <2>4. reap' \in [Runs -> SUBSET Runs]
    BY <2>1
  <2>5. QED
    BY <1>2, <2>3, <2>4 DEF ReadMarker
<1>3. Nobody \in [run : Runs \cup {NoRun}, marked : BOOLEAN]
  BY DEF Nobody
<1>4. CASE Judge(r)
  BY SMTT(30), <1>3, <1>4 DEF Judge
<1>5. CASE Remove(r)
  <2>1. dir' \in [Runs -> {"none", "bare", "marked"}]
    BY <1>5 DEF Remove
  <2>2. hostImg' \in [Jobs -> Runs \cup {NoRun}]
    BY <1>5 DEF Remove
  <2>3. judged' \in [Runs -> [run : Runs \cup {NoRun}, marked : BOOLEAN]]
    BY <1>3, <1>5 DEF Remove
  <2>4. QED
    BY <1>5, <2>1, <2>2, <2>3 DEF Remove
<1>6. CASE Create(r)
  BY <1>6 DEF Create
<1>7. CASE Mark(r)
  BY <1>7 DEF Mark
<1>8. CASE Age(r)
  BY <1>8 DEF Age
<1>9. CASE EndRun(r)
  BY <1>9 DEF EndRun
<1>10. QED
  BY <1>1, <1>2, <1>4, <1>5, <1>6, <1>7, <1>8, <1>9 DEF Reaper

LEMMA TypeStep == TypeOK /\ [Next]_vars => TypeOK'
<1>1. CASE TypeOK /\ Next
  <2>1. ASSUME NEW q \in Jobs, Hold(q) PROVE TypeOK'
    BY <1>1, <2>1, HoldFrame DEF TypeOK, vm, lock, dirs
  <2>2. QED
    BY <1>1, <2>1, VMStepTypes, HostTypes, RunStepTypes DEF Next
<1>2. CASE TypeOK /\ UNCHANGED vars
  BY <1>2 DEF TypeOK, vars, vm, lock, dirs, recipe
<1>3. QED
  BY <1>1, <1>2

-----------------------------------------------------------------------------
(* The places of a recipe.                                                 *)

LEMMA PastSame ==
    ASSUME NEW j \in Jobs, at'[j] = at[j], NEW k
    PROVE  Past(j, k)' <=> Past(j, k)
BY DEF Past

LEMMA AlreadySame ==
    ASSUME NEW j \in Jobs, at'[j] = at[j]
    PROVE  /\ OnVMAlready(j)' <=> OnVMAlready(j)
           /\ OnHostAlready(j)' <=> OnHostAlready(j)
BY PastSame DEF OnVMAlready, OnHostAlready

LEMMA PastNext ==
    ASSUME NEW j \in Jobs, at[j] \in Nat, at[j] >= 1, at'[j] = at[j] + 1, NEW k
    PROVE  Past(j, k)' <=> Past(j, k) \/ Step(j) = k
<1>1. 1..(at'[j] - 1) = (1..(at[j] - 1)) \cup {at[j]}
  OBVIOUS
<1>2. QED
  BY <1>1 DEF Past, Step

\* What PlanAssumption is for.
LEMMA PlacedBefore ==
    ASSUME NEW j \in Jobs, at[j] \in Nat, at[j] >= 1, at[j] <= Len(Plan[j]),
           Step(j) \in {"run", "fetch"}
    PROVE  OnVMAlready(j)
<1>1. at[j] \in 1..Len(Plan[j])
  BY PlanAssumption
<1>2. PICK k \in 1..(at[j] - 1) : Plan[j][k] \in {"ship", "make"}
  BY <1>1, PlanAssumption DEF Step
<1>3. QED
  BY <1>2 DEF Past, OnVMAlready

LEMMA PlaceHost ==
    ASSUME TypeOK, NEW q \in Jobs, PlaceSound(q), OnHost(q)
    PROVE  PlaceSound(q)'
<1>1. UNCHANGED run /\ run[RunOf[q]] = "work"
  BY HostFrame DEF Working
<1>2. at'[q] = at[q] => (OnVMAlready(q)' <=> OnVMAlready(q))
  BY AlreadySame
<1> USE <1>1, <1>2, JobsAssumption DEF At, Goto, TypeOK, PlaceSound, Step
<1>3. CASE StartRecipe(q)
  BY <1>3 DEF StartRecipe
<1>4. CASE StartLocal(q)
  BY <1>4 DEF StartLocal
<1>5. CASE LocalOk(q)
  BY <1>5 DEF LocalOk, Advance
<1>6. CASE LocalFails(q)
  BY <1>6 DEF LocalFails, Fail
<1>7. CASE StartRemote(q)
  <2>1. Step(q) = "run" => OnVMAlready(q)
    BY <1>7, PlacedBefore DEF StartRemote
  <2>2. PICK c \in {"guard", "put", "make", "run"} :
           /\ Step(q) = IF c \in {"make", "run"} THEN c ELSE "ship"
           /\ Send(q, c) /\ Goto(q, c)
    BY <1>7 DEF StartRemote
  <2>3. sent'[q] = c /\ answer'[q] = "sent" /\ pc'[q] = c
    BY <2>2 DEF Send
  <2>4. at' = at /\ at[q] <= Len(Plan[q])
    BY <1>7 DEF StartRemote
  <2>5. QED
    BY <2>1, <2>2, <2>3, <2>4
<1>8. CASE StartFetch(q)
  <2>1. OnVMAlready(q)
    BY <1>8, PlacedBefore DEF StartFetch
  <2>2. PICK c \in {"copy", "take"} : Send(q, c) /\ Goto(q, c)
    BY <1>8 DEF StartFetch
  <2>3. sent'[q] = c /\ answer'[q] = "sent" /\ pc'[q] = c
    BY <2>2 DEF Send
  <2>4. at' = at /\ at[q] <= Len(Plan[q]) /\ Step(q) = "fetch"
    BY <1>8 DEF StartFetch
  <2>5. QED
    BY <2>1, <2>3, <2>4
<1>9. CASE GuardOk(q) \/ CopyOk(q)
  BY <1>9 DEF GuardOk, CopyOk, Succeeds
<1>10. CASE GuardRefused(q) \/ ScpFails(q)
  BY <1>10 DEF GuardRefused, ScpFails, Fail
<1>11. CASE GuardTimesOut(q) \/ StepErrs(q)
  BY <1>11 DEF GuardTimesOut, StepErrs, Errs, GiveUp
<1>12. CASE ScpOk(q)
  BY <1>12 DEF ScpOk, Send
<1>13. CASE RemoteOk(q)
  BY <1>13 DEF RemoteOk, Advance, Succeeds
<1>14. CASE RemoteFails(q)
  BY <1>14 DEF RemoteFails, Fails, GiveUp, Fail
<1>15. CASE CopyRefused(q) \/ FetchFails(q)
  BY <1>15 DEF CopyRefused, FetchFails, Unfetched, Send
<1>16. CASE FetchOk(q)
  BY <1>16 DEF FetchOk, Send
<1>17. CASE RemoveOk(q)
  BY <1>17 DEF RemoveOk, Succeeds
<1>18. CASE RemoveFails(q)
  BY <1>18 DEF RemoveFails, Fails, GiveUp, Fail
<1>19. CASE Pass(q)
  BY <1>19 DEF Pass
<1>20. CASE Cleanup(q) \/ CleanupKeeps(q)
  BY <1>20 DEF Cleanup, CleanupKeeps
<1>21. QED
  BY <1>3, <1>4, <1>5, <1>6, <1>7, <1>8, <1>9, <1>10, <1>11, <1>12, <1>13, <1>14,
     <1>15, <1>16, <1>17, <1>18, <1>19, <1>20 DEF OnHost

\* What the VM does to a command that a recipe has asked for.
LEMMA VMEffect ==
    ASSUME TypeOK, LoseLock \/ \E i \in Jobs : OnVM(i), NEW j \in Jobs
    PROVE  /\ UNCHANGED <<sent, run, dir, reap, judged, recipe>> /\ old' \subseteq old
           /\ \/ answer'[j] = answer[j]
              \/ answer[j] = "sent" /\ answer'[j] \in {"busy", "failed"}
              \/ answer[j] = "busy" /\ answer'[j] \in {"ok", "failed"}
<1>1. CASE LoseLock
  BY <1>1 DEF LoseLock, dirs
<1>2. ASSUME NEW i \in Jobs, OnVM(i)
      PROVE /\ UNCHANGED <<sent, run, dir, reap, judged, recipe>> /\ old' \subseteq old
            /\ \/ answer'[j] = answer[j]
               \/ answer[j] = "sent" /\ answer'[j] \in {"busy", "failed"}
               \/ answer[j] = "busy" /\ answer'[j] \in {"ok", "failed"}
  BY <1>2 DEF OnVM, Begin, Rejected, End, Take, dirs, TypeOK
<1>3. QED
  BY <1>1, <1>2

\* What the steps of runs do to where they are.
LEMMA RunEffect ==
    ASSUME TypeOK, NEW r \in Runs, StartRun(r) \/ Reaper(r) \/ Age(r) \/ EndRun(r)
    PROVE  /\ UNCHANGED <<inFlight, former, vmImg, stage, sent, answer, recipe>>
           /\ UNCHANGED holder \/ (run[r] = "new" /\ run'[r] = "reap" /\ holder' = r
                                   /\ holder = NoRun /\ r \notin former)
           /\ run[r] \in {"new", "over"} => StartRun(r) \/ UNCHANGED run
           /\ \A q \in Runs \ {r} : run'[q] = run[q]
           /\ run'[r] = "new" => run[r] = "new"
           /\ run'[r] \notin {"work", "over"} => run[r] \notin {"work", "over"} \/ UNCHANGED run
<1> USE DEF TypeOK, RunGoes, vm, lock, recipe
<1>1. CASE StartRun(r)
  BY <1>1 DEF StartRun, VM!Take
<1>2. CASE ReadMarker(r)
  BY <1>2 DEF ReadMarker
<1>3. CASE Judge(r)
  BY <1>3 DEF Judge
<1>4. CASE Remove(r)
  BY <1>4 DEF Remove
<1>5. CASE Create(r) \/ Mark(r)
  BY <1>5 DEF Create, Mark
<1>6. CASE Age(r)
  BY <1>6 DEF Age
<1>7. CASE EndRun(r)
  BY <1>7 DEF EndRun, Alive
<1>8. QED
  BY <1>1, <1>2, <1>3, <1>4, <1>5, <1>6, <1>7 DEF Reaper

LEMMA PlaceStep ==
    ASSUME IInv, [Next]_vars, NEW j \in Jobs
    PROVE  PlaceSound(j)'
<1> USE JobsAssumption DEF IInv
<1>1. ASSUME NEW q \in Jobs, OnHost(q) PROVE PlaceSound(j)'
  <2>1. CASE j = q
    BY <1>1, <2>1, PlaceHost
  <2>2. CASE j # q
    <3>1. UNCHANGED run /\ sent'[j] = sent[j] /\ answer'[j] = answer[j]
          /\ pc'[j] = pc[j] /\ at'[j] = at[j]
      BY <1>1, <2>2, HostFrame
    <3>2. QED
      BY <3>1, AlreadySame DEF PlaceSound, Step
  <2>3. QED
    BY <2>1, <2>2
<1>2. ASSUME LoseLock \/ \E i \in Jobs : OnVM(i) PROVE PlaceSound(j)'
  <2>1. UNCHANGED <<sent, run, pc, at>>
    BY <1>2, VMEffect DEF recipe
  <2>2. \/ answer'[j] = answer[j]
        \/ answer[j] = "sent" /\ answer'[j] \in {"busy", "failed"}
        \/ answer[j] = "busy" /\ answer'[j] \in {"ok", "failed"}
    BY <1>2, VMEffect
  <2>3. OnVMAlready(j)' <=> OnVMAlready(j)
    BY <2>1, AlreadySame
  <2>4. QED
    BY <2>1, <2>2, <2>3 DEF PlaceSound, Step
<1>3. ASSUME NEW r \in Runs, StartRun(r) \/ Reaper(r) \/ Age(r) \/ EndRun(r)
      PROVE  PlaceSound(j)'
  <2>1. UNCHANGED <<sent, answer, pc, at>>
    BY <1>3, RunEffect DEF recipe
  <2>2. run'[RunOf[j]] \notin {"work", "over"} => run[RunOf[j]] \notin {"work", "over"}
    BY <1>3, RunEffect
  <2>3. OnVMAlready(j)' <=> OnVMAlready(j)
    BY <2>1, AlreadySame
  <2>4. QED
    BY <2>1, <2>2, <2>3 DEF PlaceSound, Step
<1>4. CASE UNCHANGED vars
  <2>1. OnVMAlready(j)' <=> OnVMAlready(j)
    BY <1>4, AlreadySame DEF vars, recipe
  <2>2. QED
    BY <1>4, <2>1 DEF vars, recipe, dirs, PlaceSound, Step
<1>5. ASSUME NEW q \in Jobs, Hold(q) PROVE PlaceSound(j)'
  <2>1. /\ UNCHANGED <<sent, answer, run, at>> /\ run[RunOf[q]] = "work" /\ pc[q] # "wait"
        /\ pc'[j] = IF j = q THEN "held" ELSE pc[j]
    BY <1>5, HoldFrame DEF dirs, Working, TypeOK
  <2>2. QED
    BY <2>1, AlreadySame DEF PlaceSound, Step
<1>6. QED
  BY <1>1, <1>2, <1>3, <1>4, <1>5 DEF Next

-----------------------------------------------------------------------------
(* The lock and the images.                                                *)

LEMMA LockStep == IInv /\ [Next]_vars => LockSound'
<1> SUFFICES ASSUME IInv, [Next]_vars PROVE LockSound'
  OBVIOUS
<1> USE JobsAssumption, RunsAssumption DEF IInv
<1>1. ASSUME NEW q \in Jobs, OnHost(q) PROVE LockSound'
  <2>1. UNCHANGED <<holder, inFlight, former, run>>
    BY <1>1, HostFrame DEF lock
  <2>2. \A j \in Jobs : answer'[j] = "busy" <=> answer[j] = "busy"
    BY <1>1, HostFrame, HostEffect
  <2>3. QED
    BY <2>1, <2>2 DEF LockSound
<1>2. CASE LoseLock
  BY <1>2 DEF LoseLock, VM!Lose, VM!Quiet, LockSound, dirs, TypeOK
<1>3. ASSUME NEW i \in Jobs, Begin(i) PROVE LockSound'
  BY <1>3 DEF Begin, VM!Begin, LockSound, dirs, TypeOK
<1>4. ASSUME NEW i \in Jobs, Rejected(i) PROVE LockSound'
  BY <1>4 DEF Rejected, LockSound, vm, lock, dirs, TypeOK
<1>5. ASSUME NEW i \in Jobs, End(i) PROVE LockSound'
  BY <1>5 DEF End, VM!End, LockSound, dirs, TypeOK
<1>10. ASSUME NEW i \in Jobs, Take(i) PROVE LockSound'
  BY <1>10 DEF Take, VM!End, LockSound, TypeOK
<1>6. ASSUME NEW r \in Runs, StartRun(r) PROVE LockSound'
  BY <1>6 DEF StartRun, VM!Take, VM!Quiet, RunGoes, LockSound, TypeOK
<1>7. ASSUME NEW r \in Runs, Reaper(r) \/ Age(r) \/ EndRun(r) PROVE LockSound'
  <2>1. UNCHANGED <<inFlight, former, answer>>
    BY <1>7, RunEffect
  <2>2. UNCHANGED holder
    BY <1>7 DEF Reaper, ReadMarker, Judge, Remove, Create, Mark, Age, EndRun, vm, lock
  <2>3. \A q \in Runs : run'[q] = "new" => run[q] = "new"
    BY <1>7, RunEffect
  <2>4. QED
    BY <2>1, <2>2, <2>3 DEF LockSound
<1>8. CASE UNCHANGED vars
  BY <1>8 DEF vars, vm, lock, dirs, LockSound
<1>9. ASSUME NEW q \in Jobs, Hold(q) PROVE LockSound'
  BY <1>9, HoldFrame DEF vm, lock, dirs, LockSound
<1>11. QED
  BY <1>1, <1>2, <1>3, <1>4, <1>5, <1>6, <1>7, <1>8, <1>9, <1>10 DEF Next, OnVM

\* A recipe gets past "ship" or "make" only by a command that has put its image in place.
LEMMA ImageHost ==
    ASSUME IInv, NEW q \in Jobs, OnHost(q), NEW j \in Jobs
    PROVE  ImageSound(j)'
<1> USE JobsAssumption DEF IInv
<1>1. UNCHANGED <<holder, vmImg>>
  BY HostFrame DEF lock
<1>2. CASE j # q
  <2>1. /\ sent'[j] = sent[j] /\ answer'[j] = answer[j] /\ at'[j] = at[j]
        /\ stage'[j] = stage[j] /\ hostImg'[j] = hostImg[j]
    BY <1>2, HostFrame
  <2>2. QED
    BY <1>1, <2>1, AlreadySame DEF ImageSound
<1>3. CASE j = q
  <2>1. stage'[q] \in {NoRun, RunOf[q]} /\ hostImg'[q] \in {NoRun, RunOf[q]}
    BY HostEffect DEF ImageSound
  <2>2. answer'[q] = "ok" => answer[q] = "ok" /\ sent'[q] = sent[q]
    BY HostEffect
  <2>3. /\ at'[q] = at[q] \/ at'[q] = at[q] + 1
        /\ at'[q] # at[q] /\ Step(q) \in {"ship", "make"}
              => sent[q] \in {"move", "put", "make"} /\ answer[q] = "ok"
    <3> USE DEF TypeOK, At, Goto, Step, PlaceSound
    <3>1. CASE LocalOk(q)
      BY <3>1 DEF LocalOk, Advance
    <3>2. CASE RemoteOk(q)
      BY <3>2 DEF RemoteOk, Advance, Succeeds
    <3>3. CASE RemoveOk(q)
      BY <3>3 DEF RemoveOk
    <3>4. CASE ~LocalOk(q) /\ ~RemoteOk(q) /\ ~RemoveOk(q)
      BY <3>4 DEF OnHost, StartRecipe, StartLocal, LocalFails, StartRemote, StartFetch,
         GuardOk, GuardRefused, GuardTimesOut, StepErrs, Errs, ScpOk, ScpFails, RemoteFails,
         CopyOk, CopyRefused, FetchOk, FetchFails, Unfetched, RemoveFails, Pass, Cleanup,
         CleanupKeeps, Fail
    <3>5. QED
      BY <3>1, <3>2, <3>3, <3>4
  <2>4. at[q] \in Nat /\ at[q] >= 1
    BY DEF TypeOK, PlaceSound
  <2>5. OnVMAlready(q)'
           => OnVMAlready(q) \/ (sent[q] \in {"move", "put", "make"} /\ answer[q] = "ok")
    BY <2>3, <2>4, PastSame, PastNext DEF OnVMAlready
  <2>6. QED
    BY <1>1, <1>3, <2>1, <2>2, <2>5 DEF ImageSound
<1>4. QED
  BY <1>2, <1>3

LEMMA ImageEnd ==
    ASSUME IInv, NEW i \in Jobs, End(i), NEW j \in Jobs
    PROVE  ImageSound(j)'
<1> USE JobsAssumption, RunsAssumption DEF IInv
<1>1. UNCHANGED <<holder, sent, hostImg, at>>
  BY DEF End, VM!End, recipe
<1>2. holder = RunOf[i] /\ inFlight[i] # NoRun
  BY DEF End, VM!End, LockSound
<1>3. OnVMAlready(j)' <=> OnVMAlready(j)
  BY <1>1, AlreadySame
<1>4. CASE UNCHANGED <<vmImg, stage>> /\ answer' = [answer EXCEPT ![i] = "failed"]
  BY <1>1, <1>3, <1>4 DEF ImageSound, TypeOK
<1>7. CASE HalfPut(i) /\ answer' = [answer EXCEPT ![i] = "failed"]
  <2>1. UNCHANGED vmImg /\ stage'[j] \in {stage[j], RunOf[j]}
    BY <1>7 DEF HalfPut, ImageSound, TypeOK
  <2>2. QED
    BY <1>1, <1>3, <1>7, <2>1 DEF ImageSound, TypeOK
<1>8. ASSUME vmImg' = [vmImg EXCEPT ![NameOf[i]] = RunOf[i]],
             \A q \in Jobs \ {i} : answer'[q] = answer[q],
             stage'[j] \in {NoRun, RunOf[j]}
      PROVE  ImageSound(j)'
  <2>1. NameOf[i] \in Scenarios /\ NameOf[j] \in Scenarios
    OBVIOUS
  <2>2. holder = RunOf[j] /\ NameOf[j] = NameOf[i] => vmImg'[NameOf[j]] = RunOf[j]
    BY <1>2, <1>8, <2>1 DEF TypeOK
  <2>3. NameOf[j] # NameOf[i] => vmImg'[NameOf[j]] = vmImg[NameOf[j]] /\ j # i
    BY <1>8, <2>1 DEF TypeOK
  <2>4. j # i => answer'[j] = answer[j]
    BY <1>8
  <2>5. QED
    BY <1>1, <1>3, <1>8, <2>2, <2>3, <2>4 DEF ImageSound
<1>9. CASE Made(i) /\ \E a \in {"ok", "failed"} : answer' = [answer EXCEPT ![i] = a]
  BY <1>8, <1>9 DEF Made, ImageSound, TypeOK
<1>5. CASE Effect(i) /\ ~Made(i) /\ answer' = [answer EXCEPT ![i] = "ok"]
  <2>1. CASE sent[i] \in {"move", "put"}
    <3>1. /\ vmImg' = [vmImg EXCEPT ![NameOf[i]] = RunOf[i]]
          /\ stage' = [stage EXCEPT ![i] = NoRun]
      BY <1>5, <2>1 DEF Effect, ImageSound
    <3>2. stage'[j] \in {NoRun, RunOf[j]} /\ \A q \in Jobs \ {i} : answer'[q] = answer[q]
      BY <1>5, <3>1 DEF ImageSound, TypeOK
    <3>3. QED
      BY <1>8, <3>1, <3>2
  <2>2. CASE sent[i] = "copy"
    <3>1. vmImg[NameOf[i]] = RunOf[i]
      BY <1>2, <2>2 DEF LockSound, PlaceSound, ImageSound
    <3>2. UNCHANGED vmImg /\ stage' = [stage EXCEPT ![i] = RunOf[i]]
      BY <1>5, <2>2, <3>1 DEF Effect
    <3>3. stage'[j] \in {NoRun, RunOf[j]}
      BY <3>2 DEF ImageSound, TypeOK
    <3>4. sent[j] \in {"move", "put", "make"} => answer'[j] = answer[j]
      BY <1>5, <2>2 DEF TypeOK
    <3>5. QED
      BY <1>1, <1>3, <3>2, <3>3, <3>4 DEF ImageSound
  <2>3. CASE sent[i] \notin {"move", "put", "make", "copy"}
    <3>1. UNCHANGED vmImg /\ stage'[j] \in {stage[j], NoRun}
      BY <1>5, <2>3 DEF Effect, TypeOK
    <3>2. sent[j] \in {"move", "put", "make"} => answer'[j] = answer[j]
      BY <1>5, <2>3 DEF TypeOK
    <3>3. QED
      BY <1>1, <1>3, <3>1, <3>2 DEF ImageSound
  <2>4. QED
    BY <1>5, <2>1, <2>2, <2>3 DEF Effect, Made
<1>6. QED
  BY <1>4, <1>5, <1>7, <1>9 DEF End

LEMMA ImageTake ==
    ASSUME IInv, NEW i \in Jobs, Take(i), NEW j \in Jobs
    PROVE  ImageSound(j)' /\ hostImg'[j] \in {hostImg[j], RunOf[j]}
<1> USE JobsAssumption, RunsAssumption DEF IInv
<1>1. UNCHANGED <<holder, vmImg, stage, sent, at>>
  BY DEF Take, VM!End, recipe
<1>2. vmImg[NameOf[i]] = RunOf[i]
  BY DEF Take, LockSound, PlaceSound, ImageSound, VM!End
<1>3. hostImg'[j] \in {hostImg[j], RunOf[j]}
  BY <1>2 DEF Take, TypeOK
<1>4. sent[j] \in {"move", "put", "make"} => answer'[j] = answer[j]
  BY DEF Take, TypeOK
<1>5. OnVMAlready(j)' <=> OnVMAlready(j)
  BY <1>1, AlreadySame
<1>6. QED
  BY <1>1, <1>3, <1>4, <1>5 DEF ImageSound

LEMMA ImageStep ==
    ASSUME IInv, [Next]_vars, NEW j \in Jobs
    PROVE  ImageSound(j)'
<1> USE JobsAssumption, RunsAssumption DEF IInv
<1>1. CASE LoseLock
  <2>1. holder' = NoRun /\ stage'[j] \in {stage[j], NoRun}
    BY <1>1 DEF LoseLock, VM!Lose
  <2>2. QED
    BY <1>1, <2>1 DEF LoseLock, ImageSound, recipe
<1>2. ASSUME NEW i \in Jobs, Begin(i) \/ Rejected(i) PROVE ImageSound(j)'
  <2>1. UNCHANGED <<holder, vmImg, stage, sent, hostImg, at>>
    BY <1>2 DEF Begin, VM!Begin, Rejected, vm, lock, recipe
  <2>2. answer'[j] = "ok" => answer[j] = "ok"
    BY <1>2 DEF Begin, Rejected, TypeOK
  <2>3. QED
    BY <2>1, <2>2, AlreadySame DEF ImageSound
<1>3. ASSUME NEW r \in Runs, StartRun(r) \/ Reaper(r) \/ Age(r) \/ EndRun(r)
      PROVE  ImageSound(j)'
  <2>1. UNCHANGED <<vmImg, stage, sent, answer, at>>
    BY <1>3, RunEffect DEF recipe
  <2>2. hostImg'[j] \in {hostImg[j], NoRun}
    BY <1>3 DEF StartRun, Reaper, ReadMarker, Judge, Remove, Create, Mark, Age, EndRun
  <2>3. CASE UNCHANGED holder
    BY <2>1, <2>2, <2>3, AlreadySame DEF ImageSound
  <2>4. CASE run[r] = "new" /\ holder' = r
    <3>1. RunOf[j] = r => ~OnVMAlready(j) /\ sent[j] = "none"
      BY <2>4 DEF PlaceSound, Past, OnVMAlready
    <3>2. QED
      BY <2>1, <2>2, <2>4, <3>1, AlreadySame DEF ImageSound
  <2>5. QED
    BY <1>3, <2>3, <2>4, RunEffect
<1>4. CASE UNCHANGED vars
  BY <1>4, AlreadySame DEF ImageSound, vars, vm, lock, recipe
<1>5. ASSUME NEW q \in Jobs, Hold(q) PROVE ImageSound(j)'
  BY <1>5, HoldFrame, AlreadySame DEF ImageSound, vm, lock
<1>6. QED
  BY <1>1, <1>2, <1>3, <1>4, <1>5, ImageHost, ImageEnd, ImageTake DEF Next, OnVM

-----------------------------------------------------------------------------
(* The reaper.                                                             *)

LEMMA ReaperHost ==
    ASSUME IInv, NEW q \in Jobs, OnHost(q), NEW r \in Runs
    PROVE  ReaperSound(r)'
<1>1. UNCHANGED <<run, reap, judged>> /\ run[RunOf[q]] = "work"
  BY HostFrame DEF IInv, Working
<1>2. old' \subseteq old /\ (dir'[r] = dir[r] \/ (r = RunOf[q] /\ dir[r] # "marked"))
  BY HostEffect DEF IInv
<1>3. ReaperSound(r)
  BY DEF IInv
<1>4. QED
  BY <1>1, <1>2, <1>3 DEF ReaperSound

LEMMA ReaperStart ==
    ASSUME IInv, NEW p \in Runs, StartRun(p), NEW r \in Runs
    PROVE  ReaperSound(r)'
<1> USE DEF StartRun, RunGoes, TypeOK
<1>1. \A q \in Runs : ReaperSound(q)
  BY DEF IInv
<1>2. \A q \in Runs : run[q] \in {"mark", "work", "over"} => run'[q] = run[q]
  BY DEF IInv
<1>3. run'[p] = "reap" /\ dir[p] = "none" /\ UNCHANGED <<dir, old, judged>>
  BY <1>1 DEF ReaperSound, IInv
<1>4. \A q \in reap'[r] : run[q] \in {"mark", "work", "over"}
  BY <1>1 DEF ReaperSound, IInv
<1>5. CASE r = p
  BY <1>1, <1>2, <1>3, <1>4, <1>5 DEF ReaperSound, IInv
<1>6. CASE r # p
  <2>1. run'[r] = run[r]
    BY <1>6 DEF IInv
  <2>2. QED
    BY <1>1, <1>2, <1>3, <1>4, <2>1 DEF ReaperSound, IInv
<1>7. QED
  BY <1>5, <1>6

LEMMA ReaperRead ==
    ASSUME IInv, NEW p \in Runs, ReadMarker(p), NEW r \in Runs
    PROVE  ReaperSound(r)'
<1>1. \A q \in Runs : ReaperSound(q)
  BY DEF IInv
<1>2. PICK q \in reap[p] :
         /\ judged' = [judged EXCEPT ![p] = [run |-> q, marked |-> dir[q] = "marked"]]
         /\ reap' = [reap EXCEPT ![p] = @ \ {q}]
  BY DEF ReadMarker
<1>3. run' = [run EXCEPT ![p] = "judge"] /\ run[p] = "reap" /\ UNCHANGED <<dir, old>>
  BY DEF ReadMarker, RunGoes
<1>4. q \in Runs /\ run[q] \in {"mark", "work", "over"}
  BY <1>1 DEF ReaperSound, IInv, TypeOK
<1>5. \A x \in Runs : run[x] \in {"mark", "work", "over"} => run'[x] = run[x]
  BY <1>3 DEF IInv, TypeOK
<1>6. \A x \in reap'[r] : x \in reap[r] /\ x \in Runs
  BY <1>2 DEF IInv, TypeOK
<1>7. CASE r = p
  <2>1. judged'[p] = [run |-> q, marked |-> dir[q] = "marked"]
    BY <1>2 DEF IInv, TypeOK
  <2>2. run'[p] = "judge" /\ run'[q] = run[q] /\ judged'[p].run = q
    BY <1>3, <1>4, <1>5, <2>1 DEF IInv, TypeOK
  <2>3. ~judged'[p].marked /\ q \in old \ Unlucky => run[q] = "over"
    <3>1. ASSUME dir[q] = "marked" PROVE judged'[p].marked
      <4>1. (dir[q] = "marked") = TRUE
        BY <3>1
      <4>2. judged'[p] = [run |-> q, marked |-> TRUE]
        BY <2>1, <4>1, Zenon
      <4>3. QED
        BY <4>2
    <3>2. dir[q] # "marked" /\ q \in old \ Unlucky => run[q] = "over"
      BY <1>1, <1>4 DEF ReaperSound
    <3>3. QED
      BY <3>1, <3>2
  <2>4. dir[p] = "none" /\ p \notin old
    BY <1>1, <1>3 DEF ReaperSound, IInv, TypeOK
  <2>5. QED
    BY <1>1, <1>3, <1>4, <1>5, <1>6, <1>7, <2>2, <2>3, <2>4 DEF ReaperSound
<1>8. CASE r # p
  <2>1. run'[r] = run[r] /\ judged'[r] = judged[r]
    BY <1>2, <1>3, <1>8 DEF IInv, TypeOK
  <2>2. QED
    BY <1>1, <1>3, <1>5, <1>6, <2>1 DEF ReaperSound
<1>9. QED
  BY <1>7, <1>8

LEMMA ReaperJudge ==
    ASSUME IInv, NEW p \in Runs, Judge(p), NEW r \in Runs
    PROVE  ReaperSound(r)'
<1>1. \A q \in Runs : ReaperSound(q)
  BY DEF IInv
<1>2. run[p] = "judge" /\ UNCHANGED <<dir, old, reap>>
  BY DEF Judge
<1>3. /\ run' = [run EXCEPT ![p] = "remove"] \/ run' = [run EXCEPT ![p] = "reap"]
      /\ run'[p] = "remove" => Orphan(judged[p].run, judged[p].marked) /\ UNCHANGED judged
      /\ \A x \in Runs \ {p} : judged'[x] = judged[x]
  BY DEF Judge, RunGoes, IInv, TypeOK
<1>4. \A x \in Runs : run[x] \in {"mark", "work", "over"} => run'[x] = run[x]
  BY <1>2, <1>3 DEF IInv, TypeOK
<1>5. \A x \in reap[r] : x \in Runs
  BY DEF IInv, TypeOK
<1>6. CASE r = p
  <2>1. judged[p].run \in Runs /\ run[judged[p].run] \in {"mark", "work", "over"}
    BY <1>1, <1>2 DEF ReaperSound
  <2>2. run'[p] = "remove" /\ judged[p].run \notin Unlucky => run[judged[p].run] = "over"
    BY <1>1, <1>2, <1>3, <2>1 DEF ReaperSound, Orphan, Alive
  <2>3. run'[p] \in {"remove", "reap"}
    BY <1>3 DEF IInv, TypeOK
  <2>4. QED
    BY <1>1, <1>2, <1>3, <1>4, <1>5, <1>6, <2>1, <2>2, <2>3 DEF ReaperSound
<1>7. CASE r # p
  <2>1. run'[r] = run[r] /\ judged'[r] = judged[r]
    BY <1>3, <1>7 DEF IInv, TypeOK
  <2>2. QED
    BY <1>1, <1>2, <1>4, <1>5, <2>1 DEF ReaperSound
<1>8. QED
  BY <1>6, <1>7

LEMMA ReaperRemove ==
    ASSUME IInv, NEW p \in Runs, Remove(p), NEW r \in Runs
    PROVE  ReaperSound(r)'
<1>1. \A q \in Runs : ReaperSound(q)
  BY DEF IInv
<1>2. /\ run[p] = "remove" /\ run' = [run EXCEPT ![p] = "reap"]
      /\ dir' = [dir EXCEPT ![judged[p].run] = "none"]
      /\ old' \subseteq old /\ UNCHANGED reap
      /\ \A x \in Runs \ {p} : judged'[x] = judged[x]
  BY DEF Remove, RunGoes, IInv, TypeOK
<1>3. judged[p].run \notin Unlucky => run[judged[p].run] = "over"
  BY <1>1, <1>2 DEF ReaperSound
<1>4. \A x \in Runs : run[x] \in {"mark", "work", "over"} => run'[x] = run[x]
  BY <1>2 DEF IInv, TypeOK
<1>5. \A x \in reap[r] : x \in Runs
  BY DEF IInv, TypeOK
<1>6. dir'[r] = dir[r] \/ (r = judged[p].run /\ dir'[r] = "none")
  BY <1>2 DEF IInv, TypeOK
<1>7. CASE r = p
  <2>1. run'[p] = "reap" /\ dir[p] = "none"
    BY <1>1, <1>2 DEF ReaperSound, IInv, TypeOK
  <2>2. QED
    BY <1>1, <1>2, <1>4, <1>5, <1>6, <1>7, <2>1 DEF ReaperSound
<1>8. CASE r # p
  <2>1. run'[r] = run[r] /\ judged'[r] = judged[r]
    BY <1>2, <1>8 DEF IInv, TypeOK
  <2>2. QED
    BY <1>1, <1>2, <1>3, <1>4, <1>5, <1>6, <2>1 DEF ReaperSound
<1>9. QED
  BY <1>7, <1>8

LEMMA ReaperCreate ==
    ASSUME IInv, NEW p \in Runs, Create(p) \/ Mark(p), NEW r \in Runs
    PROVE  ReaperSound(r)'
<1>1. \A q \in Runs : ReaperSound(q)
  BY DEF IInv
<1>2. UNCHANGED <<reap, judged>> /\ old' \subseteq old
  BY DEF Create, Mark
<1>3. /\ \A x \in Runs \ {p} : run'[x] = run[x] /\ dir'[x] = dir[x]
      /\ \/ run[p] = "reap" /\ run'[p] = "mark" /\ dir'[p] = "bare"
         \/ /\ run[p] = "mark" /\ run'[p] = "work" /\ p \notin old'
            /\ dir[p] = "bare" /\ p \notin Unlucky => dir'[p] = "marked"
  BY DEF Create, Mark, RunGoes, IInv, TypeOK
<1>4. \A x \in Runs : run[x] \in {"mark", "work", "over"} => run'[x] \in {"mark", "work", "over"}
  BY <1>3
<1>5. \A x \in reap[r] : x \in Runs
  BY DEF IInv, TypeOK
<1>6. CASE r = p
  BY <1>1, <1>2, <1>3, <1>4, <1>5, <1>6 DEF ReaperSound
<1>7. CASE r # p
  <2>1. run'[r] = run[r] /\ dir'[r] = dir[r]
    BY <1>3, <1>7
  <2>2. run[r] \in {"judge", "remove"} /\ judged[r].run = p /\ p \notin Unlucky /\ p \in old'
           => run[r] = "judge" /\ run[p] # "mark"
    BY <1>1, <1>3 DEF ReaperSound
  <2>3. \A x \in Runs : run[x] = "over" => run'[x] = "over"
    BY <1>3
  <2>4. QED
    BY <1>1, <1>2, <1>3, <1>4, <1>5, <2>1, <2>2, <2>3 DEF ReaperSound
<1>8. QED
  BY <1>6, <1>7

LEMMA ReaperAge ==
    ASSUME IInv, NEW p \in Runs, Age(p) \/ EndRun(p), NEW r \in Runs
    PROVE  ReaperSound(r)'
<1>1. \A q \in Runs : ReaperSound(q)
  BY DEF IInv
<1>2. UNCHANGED <<dir, reap, judged>>
  BY DEF Age, EndRun
<1>3. \A x \in reap[r] : x \in Runs
  BY DEF IInv, TypeOK
<1>4. CASE Age(p)
  <2>1. UNCHANGED run /\ old' = old \cup {p}
    BY <1>4 DEF Age
  <2>2. p \notin Unlucky => run[p] # "mark" /\ ~Judges(r, p)
    BY <1>4 DEF Age
  <2>3. run[p] \in {"mark", "work", "over"}
    BY <1>1, <1>4 DEF Age, Judges, ReaperSound
  <2>4. QED
    BY <1>1, <1>2, <2>1, <2>2, <2>3 DEF ReaperSound, Judges
<1>5. CASE EndRun(p)
  <2>1. UNCHANGED old /\ run'[p] = "over" /\ \A x \in Runs \ {p} : run'[x] = run[x]
    BY <1>5 DEF EndRun, RunGoes, IInv, TypeOK
  <2>2. QED
    BY <1>1, <1>2, <1>3, <2>1 DEF ReaperSound
<1>6. QED
  BY <1>4, <1>5

LEMMA ReaperStep ==
    ASSUME IInv, [Next]_vars, NEW r \in Runs
    PROVE  ReaperSound(r)'
<1>1. CASE LoseLock \/ \E j \in Jobs : OnVM(j)
  <2>1. UNCHANGED <<run, dir, reap, judged>> /\ old' \subseteq old
    BY <1>1, VMEffect, JobsAssumption DEF LoseLock, dirs, IInv
  <2>2. QED
    BY <2>1 DEF IInv, ReaperSound
<1>2. CASE UNCHANGED vars
  BY <1>2 DEF vars, dirs, IInv, ReaperSound
<1>4. ASSUME NEW q \in Jobs, Hold(q) PROVE ReaperSound(r)'
  BY <1>4, HoldFrame DEF dirs, IInv, ReaperSound
<1>3. QED
  BY <1>1, <1>2, <1>4, ReaperHost, ReaperStart, ReaperRead, ReaperJudge, ReaperRemove,
     ReaperCreate, ReaperAge DEF Next, Reaper

-----------------------------------------------------------------------------
(* The staged image.                                                       *)

Kept(j) ==
    Working(j) /\ RunOf[j] \notin Unlucky /\ OnHostAlready(j) /\ ~Over(j)
    => hostImg[j] = RunOf[j]

Live(j) == Kept(j) /\ FetchSound(j)

LEMMA LiveParts == IInv => \A j \in Jobs : Live(j)
BY DEF IInv, LiveImageKept, Live, Kept

\* Nothing changes that a recipe's image depends on.
LEMMA LiveSame ==
    ASSUME NEW j \in Jobs, Live(j), Working(j)' => Working(j), at'[j] = at[j],
           hostImg'[j] = hostImg[j], pc'[j] = pc[j] \/ pc'[j] = "held",
           Over(j) => pc'[j] = pc[j], good'[j] = good[j],
           pc[j] = "take" /\ answer'[j] = "ok" => answer[j] = "ok"
    PROVE  Live(j)'
BY AlreadySame DEF Live, Kept, FetchSound, Over

LEMMA LiveHost ==
    ASSUME IInv, NEW q \in Jobs, OnHost(q)
    PROVE  Live(q)'
<1>1. Working(q) /\ UNCHANGED run
  BY HostFrame DEF IInv
<1>2. at'[q] = at[q] => (OnHostAlready(q)' <=> OnHostAlready(q))
  BY AlreadySame
<1>3. at'[q] = at[q] + 1
         => (OnHostAlready(q)' <=> OnHostAlready(q) \/ Step(q) \in {"stage", "fetch"})
  BY PastNext DEF IInv, TypeOK, PlaceSound, OnHostAlready
<1>4. Live(q) /\ PlaceSound(q) /\ ImageSound(q)
  BY LiveParts DEF IInv
<1> USE <1>1, <1>2, <1>3, <1>4 DEF At, Goto, IInv, TypeOK, Live, Kept, FetchSound, Over
<1>5. CASE LocalOk(q)
  BY <1>5 DEF LocalOk, Staged, Advance, PlaceSound
<1>6. CASE LocalFails(q)
  BY <1>6 DEF LocalFails, Staged, Fail
<1>7. CASE FetchOk(q)
  BY <1>7 DEF FetchOk, ImageSound
<1>8. CASE Cleanup(q) \/ CleanupKeeps(q)
  BY <1>8 DEF Cleanup, CleanupKeeps
<1>9. CASE GuardTimesOut(q) \/ StepErrs(q)
  BY <1>9 DEF GuardTimesOut, StepErrs, Errs
<1>10. CASE RemoteOk(q)
  <2>1. Step(q) \in {"stage", "fetch"} => hostImg[q] = RunOf[q] \/ RunOf[q] \in Unlucky
    BY <1>10 DEF RemoteOk, Succeeds, PlaceSound
  <2>2. UNCHANGED hostImg /\ pc[q] # "ended" /\ pc[q] # "kept" /\ pc'[q] = "next"
        /\ at'[q] = at[q] + 1
    BY <1>10 DEF RemoteOk, Advance
  <2>3. QED
    BY <2>1, <2>2
<1>11. CASE RemoveOk(q)
  <2>1. at'[q] # at[q] => good[q]
    BY <1>11 DEF RemoveOk
  <2>2. /\ UNCHANGED hostImg /\ pc[q] = "remove" /\ pc'[q] \in {"next", "cleanup"}
        /\ at'[q] \in {at[q], at[q] + 1}
    BY <1>11 DEF RemoveOk
  <2>3. QED
    BY <2>1, <2>2
<1>12. CASE CopyRefused(q) \/ FetchFails(q)
  BY <1>12 DEF CopyRefused, FetchFails, Unfetched
<1>13. CASE StartFetch(q)
  BY <1>13 DEF StartFetch, Send
<1>14. CASE \/ StartRecipe(q) \/ StartLocal(q) \/ StartRemote(q)
            \/ GuardOk(q) \/ GuardRefused(q) \/ ScpOk(q) \/ ScpFails(q) \/ RemoteFails(q)
            \/ CopyOk(q) \/ RemoveFails(q) \/ Pass(q)
  <2>1. UNCHANGED <<hostImg, at>> /\ pc[q] \notin {"kept", "ended"}
        /\ pc'[q] \notin {"take", "remove"}
    BY <1>14 DEF StartRecipe, StartLocal, StartRemote, GuardOk, GuardRefused,
       ScpOk, ScpFails, RemoteFails, CopyOk, RemoveFails, Pass, Fail
  <2>2. QED
    BY <2>1 DEF Working
<1>15. QED
  BY <1>5, <1>6, <1>7, <1>8, <1>9, <1>10, <1>11, <1>12, <1>13, <1>14 DEF OnHost

LEMMA LiveRun ==
    ASSUME IInv, NEW r \in Runs, StartRun(r) \/ Reaper(r) \/ Age(r) \/ EndRun(r),
           NEW j \in Jobs
    PROVE  Live(j)'
<1>1. UNCHANGED <<pc, at, good, answer>>
  BY RunEffect DEF IInv, recipe
<1>2. OnHostAlready(j)' <=> OnHostAlready(j)
  BY <1>1, AlreadySame
<1>3. Live(j) /\ RunOf[j] \in Runs
  BY LiveParts, JobsAssumption
<1>4. Working(j)' /\ (OnHostAlready(j) \/ pc[j] # "wait") => Working(j)
  <2>1. CASE Mark(r)
    <3>1. RunOf[j] = r => pc[j] = "wait" /\ ~OnHostAlready(j)
      BY <2>1 DEF Mark, IInv, PlaceSound, Past, OnHostAlready
    <3>2. RunOf[j] # r => run'[RunOf[j]] = run[RunOf[j]]
      BY <1>3, RunEffect DEF IInv
    <3>3. QED
      BY <3>1, <3>2 DEF Working
  <2>2. CASE ~Mark(r)
    BY <1>3, <2>2 DEF StartRun, Reaper, ReadMarker, Judge, Remove, Create, Age, EndRun,
       RunGoes, Working, IInv, TypeOK
  <2>3. QED
    BY <2>1, <2>2
<1>5. Working(j) /\ RunOf[j] \notin Unlucky => hostImg'[j] = hostImg[j]
  <2>1. CASE Remove(r)
    <3>1. judged[r].run \notin Unlucky => run[judged[r].run] = "over"
      BY <2>1 DEF Remove, IInv, ReaperSound
    <3>2. QED
      BY <2>1, <3>1 DEF Remove, Working
  <2>2. CASE ~Remove(r)
    BY <2>2 DEF StartRun, Reaper, ReadMarker, Judge, Create, Mark, Age, EndRun
  <2>3. QED
    BY <2>1, <2>2
<1>6. QED
  BY <1>1, <1>2, <1>3, <1>4, <1>5 DEF Live, Kept, FetchSound, Over

LEMMA LiveStep ==
    ASSUME IInv, [Next]_vars, NEW j \in Jobs
    PROVE  Live(j)'
<1>1. Live(j)
  BY LiveParts
<1>2. ASSUME NEW q \in Jobs, OnHost(q), q # j PROVE Live(j)'
  <2>1. /\ UNCHANGED run /\ pc'[j] = pc[j] /\ at'[j] = at[j] /\ hostImg'[j] = hostImg[j]
        /\ good'[j] = good[j] /\ answer'[j] = answer[j]
    BY <1>2, HostFrame DEF IInv
  <2>2. QED
    BY <1>1, <2>1, LiveSame DEF Working, Over
<1>3. ASSUME UNCHANGED <<run, hostImg, recipe>>,
             pc[j] = "take" /\ answer'[j] = "ok" => answer[j] = "ok"
      PROVE  Live(j)'
  BY <1>1, <1>3, LiveSame DEF Working, recipe, Over
<1>4. CASE LoseLock
  BY <1>3, <1>4 DEF LoseLock, dirs
<1>5. ASSUME NEW i \in Jobs, Begin(i) \/ Rejected(i) \/ End(i) PROVE Live(j)'
  <2>1. UNCHANGED <<run, hostImg, recipe>>
    BY <1>5 DEF Begin, Rejected, End, dirs
  <2>2. answer'[j] = "ok" => answer[j] = "ok" \/ (i = j /\ Effect(j))
    BY <1>5 DEF Begin, Rejected, End, IInv, TypeOK
  <2>3. pc[j] = "take" => sent[j] = "take"
    BY DEF IInv, PlaceSound
  <2>4. QED
    BY <1>3, <2>1, <2>2, <2>3 DEF Effect, Made
<1>6. ASSUME NEW i \in Jobs, Take(i) PROVE Live(j)'
  <2>1. UNCHANGED <<run, pc, at, good>> /\ hostImg'[j] \in {hostImg[j], RunOf[j]}
    BY <1>6, ImageTake DEF Take, recipe
  <2>2. answer'[j] = answer[j] \/ hostImg'[j] = RunOf[j]
    <3>1. CASE i = j
      BY <1>6, <3>1, JobsAssumption
         DEF Take, IInv, TypeOK, LockSound, PlaceSound, ImageSound, VM!End
    <3>2. CASE i # j
      BY <1>6, <3>2 DEF Take, IInv, TypeOK
    <3>3. QED
      BY <3>1, <3>2
  <2>3. QED
    BY <1>1, <2>1, <2>2, AlreadySame DEF Live, Kept, FetchSound, Working, Over
<1>7. ASSUME NEW i \in Jobs, Hold(i) PROVE Live(j)'
  <2>1. /\ UNCHANGED <<run, hostImg, at, good, answer>>
        /\ pc'[j] = pc[j] \/ (pc'[j] = "held" /\ ~Over(j))
    BY <1>7, HoldFrame DEF dirs, IInv, TypeOK, Over
  <2>2. QED
    BY <1>1, <2>1, LiveSame DEF Working
<1>8. CASE UNCHANGED vars
  BY <1>3, <1>8 DEF vars, dirs
<1>9. QED
  BY <1>2, <1>4, <1>5, <1>6, <1>7, <1>8, LiveHost, LiveRun DEF Next, OnVM

-----------------------------------------------------------------------------
\* IInv holds in every state of every behaviour of any number of runs and recipes.
THEOREM Invariant == Spec => []IInv
<1>1. Init => IInv
  <2> SUFFICES ASSUME Init PROVE IInv
    OBVIOUS
  <2>1. TypeOK
    BY DEF Init, VM!Init, Nobody, Commands, TypeOK
  <2>2. LockSound
    BY RunsAssumption DEF Init, VM!Init, LockSound
  <2>3. ASSUME NEW j \in Jobs PROVE PlaceSound(j) /\ ImageSound(j) /\ Live(j)
    BY JobsAssumption
       DEF Init, VM!Init, PlaceSound, ImageSound, Live, Kept, FetchSound, Working, Past,
           OnVMAlready, OnHostAlready
  <2>4. ASSUME NEW r \in Runs PROVE ReaperSound(r)
    BY DEF Init, ReaperSound
  <2>5. QED
    BY <2>1, <2>2, <2>3, <2>4 DEF IInv, LiveImageKept, Live, Kept
<1>2. IInv /\ [Next]_vars => IInv'
  <2> SUFFICES ASSUME IInv, [Next]_vars PROVE IInv'
    OBVIOUS
  <2>1. TypeOK' /\ LockSound'
    BY TypeStep, LockStep DEF IInv
  <2>2. ASSUME NEW j \in Jobs PROVE PlaceSound(j)' /\ ImageSound(j)' /\ Live(j)'
    BY PlaceStep, ImageStep, LiveStep
  <2>3. ASSUME NEW r \in Runs PROVE ReaperSound(r)'
    BY ReaperStep
  <2>4. QED
    BY <2>1, <2>2, <2>3 DEF IInv, LiveImageKept, Live, Kept
<1>3. QED
  BY <1>1, <1>2, PTL DEF Spec

\* Every variable has its type.
THEOREM TypeCorrect == Spec => []TypeOK
<1>1. IInv => TypeOK
  BY DEF IInv
<1>2. QED
  BY <1>1, Invariant, PTL

\* What the VM executes for a recipe works on the image of that recipe's run.
THEOREM ImagesAreOwn == Spec => []OwnImage
<1>1. IInv => OwnImage
  BY DEF IInv, LockSound, PlaceSound, ImageSound, OwnImage
<1>2. QED
  BY <1>1, Invariant, PTL

\* No run at work loses its staged images to another run's reaper.
THEOREM LiveImagesAreKept == Spec => []LiveImageKept
<1>1. IInv => LiveImageKept
  BY DEF IInv
<1>2. QED
  BY <1>1, Invariant, PTL

\* An image of the VM changes only for the run that holds the lease.
THEOREM MovesAreTheHolders == Spec => MovedByHolder
<1>1. IInv /\ [Next]_vars
      => [\A s \in Scenarios : vmImg'[s] # vmImg[s] => vmImg'[s] = holder]_vars
  <2> SUFFICES ASSUME IInv, [Next]_vars, NEW s \in Scenarios, vmImg'[s] # vmImg[s]
               PROVE  vmImg'[s] = holder
    OBVIOUS
  <2>1. \A q \in Jobs : ~OnHost(q)
    BY HostFrame DEF IInv
  <2>2. \A r \in Runs : ~(StartRun(r) \/ Reaper(r) \/ Age(r) \/ EndRun(r))
    BY RunEffect DEF IInv
  <2>3. PICK i \in Jobs : End(i)
    BY <2>1, <2>2 DEF Next, LoseLock, OnVM, Begin, Rejected, Take, Hold, vars, vm
  <2>4. holder = RunOf[i] /\ {stage[i], hostImg[i]} \subseteq {NoRun, RunOf[i]}
    BY <2>3 DEF End, VM!End, IInv, LockSound, ImageSound
  <2>5. vmImg' = [vmImg EXCEPT ![NameOf[i]] = RunOf[i]]
    BY <2>3, <2>4 DEF End, Effect, Made, HalfPut
  <2>6. QED
    BY <2>4, <2>5 DEF IInv, TypeOK
<1>2. QED
  BY <1>1, Invariant, PTL DEF Spec, MovedByHolder

-----------------------------------------------------------------------------
(* Which recipes leave their image.                                        *)

Removed(j) ==
    /\ sent[j] = "take" => RunOf[j] \in Shared
    /\ pc[j] = "ended" /\ verdict[j] # "errored" /\ RunOf[j] \notin Shared
          => hostImg[j] = NoRun

\* A recipe ends by its clean-up or by an error, and changes no other's end.
LEMMA RemovedHost ==
  ASSUME TypeOK, NEW q \in Jobs, OnHost(q), NEW j \in Jobs, Removed(j)
  PROVE  Removed(j)'
<1> USE DEF At, Goto, TypeOK
<1>1. CASE StartRecipe(q) \/ StartLocal(q)
  BY <1>1 DEF StartRecipe, StartLocal, Removed
<1>2. CASE LocalOk(q)
  BY <1>2 DEF LocalOk, Staged, Advance, Removed
<1>3. CASE LocalFails(q)
  BY <1>3 DEF LocalFails, Staged, Fail, Removed
<1>4. CASE StartRemote(q)
  BY <1>4 DEF StartRemote, Send, Removed
<1>5. CASE StartFetch(q)
  BY <1>5 DEF StartFetch, Send, Removed
<1>6. CASE GuardOk(q) \/ CopyOk(q)
  BY <1>6 DEF GuardOk, CopyOk, Removed
<1>7. CASE GuardRefused(q) \/ ScpFails(q)
  BY <1>7 DEF GuardRefused, ScpFails, Fail, Removed
<1>8. CASE GuardTimesOut(q) \/ StepErrs(q)
  BY <1>8 DEF GuardTimesOut, StepErrs, Errs, GiveUp, Removed
<1>9. CASE ScpOk(q)
  BY <1>9 DEF ScpOk, Send, Removed
<1>10. CASE RemoteOk(q)
  BY <1>10 DEF RemoteOk, Advance, Removed
<1>11. CASE RemoteFails(q)
  BY <1>11 DEF RemoteFails, Fails, GiveUp, Fail, Removed
<1>12. CASE CopyRefused(q) \/ FetchFails(q)
  BY <1>12 DEF CopyRefused, FetchFails, Unfetched, Send, Removed
<1>13. CASE FetchOk(q)
  BY <1>13 DEF FetchOk, Send, Removed
<1>14. CASE RemoveOk(q)
  BY <1>14 DEF RemoveOk, Removed
<1>15. CASE RemoveFails(q)
  BY <1>15 DEF RemoveFails, Fails, GiveUp, Fail, Removed
<1>16. CASE Pass(q)
  BY <1>16 DEF Pass, Removed
<1>17. CASE Cleanup(q) \/ CleanupKeeps(q)
  BY <1>17 DEF Cleanup, CleanupKeeps, Removed
<1>18. QED
  BY <1>1, <1>2, <1>3, <1>4, <1>5, <1>6, <1>7, <1>8, <1>9, <1>10, <1>11, <1>12,
     <1>13, <1>14, <1>15, <1>16, <1>17 DEF OnHost

\* The image of a recipe that is over is still there only if an error that the
\* runner passes up ended it, if clean-up was to keep it or could not remove it,
\* or if a copy into the share came late: dispatch.rs:225-227 fails in no other way.
THEOREM ImagesAreRemoved == Spec => []RemovedUnlessErrored
<1>1. Init => \A j \in Jobs : Removed(j)
  BY DEF Init, Removed
<1>2. IInv /\ (\A j \in Jobs : Removed(j)) /\ [Next]_vars => (\A j \in Jobs : Removed(j))'
  <2> SUFFICES ASSUME IInv, \A j \in Jobs : Removed(j), [Next]_vars, NEW j \in Jobs
               PROVE  Removed(j)'
    OBVIOUS
  <2>1. TypeOK /\ Removed(j)
    BY DEF IInv
  <2>2. ASSUME NEW q \in Jobs, OnHost(q) PROVE Removed(j)'
    BY <2>1, <2>2, RemovedHost
  <2>3. ASSUME NEW q \in Jobs, Take(q) PROVE Removed(j)'
    BY <2>1, <2>3 DEF Take, Removed, recipe, TypeOK
  <2>4. ASSUME NEW r \in Runs, Remove(r) PROVE Removed(j)'
    BY <2>1, <2>4 DEF Remove, Removed, recipe, vm
  <2>5. CASE UNCHANGED <<sent, hostImg, recipe>>
    BY <2>1, <2>5 DEF Removed, recipe
  <2>6. ASSUME NEW r \in Runs,
               StartRun(r) \/ ReadMarker(r) \/ Judge(r) \/ Create(r) \/ Mark(r) \/ Age(r) \/ EndRun(r)
        PROVE  UNCHANGED <<sent, hostImg, recipe>>
    BY <2>6 DEF StartRun, ReadMarker, Judge, Create, Mark, Age, EndRun
  <2>7. ASSUME NEW q \in Jobs, Begin(q) \/ Rejected(q) \/ End(q)
        PROVE  UNCHANGED <<sent, hostImg, recipe>>
    BY <2>7 DEF Begin, Rejected, End
  <2>11. ASSUME NEW q \in Jobs, Hold(q) PROVE Removed(j)'
    BY <2>1, <2>11, HoldFrame DEF Removed, TypeOK
  <2>8. CASE LoseLock
    BY <2>5, <2>8 DEF LoseLock
  <2>9. CASE UNCHANGED vars
    BY <2>5, <2>9 DEF vars
  <2>10. QED
    BY <2>2, <2>3, <2>4, <2>5, <2>6, <2>7, <2>8, <2>9, <2>11 DEF Next, OnVM, Reaper
<1>3. (\A j \in Jobs : Removed(j)) => RemovedUnlessErrored
  BY DEF Removed, RemovedUnlessErrored
<1>4. QED
  BY <1>1, <1>2, <1>3, Invariant, PTL DEF Spec
=============================================================================
