--------------------------- MODULE RunTestsProofs ---------------------------
(***************************************************************************)
(* RunTests keeps IInv for any number of runs and of commands on the       *)
(* guest, any plan, and any faults; a run that passes kept the lock, left  *)
(* nothing behind and reached its end.                                     *)
(***************************************************************************)
EXTENDS RunTests, TLAPS

ScriptTypes ==
    /\ pc \in [Runs -> {"start", "acquire", "work", "matrix", "exit", "unbeat",
                        "release", "ended"}]
    /\ exit \in [Runs -> {"running", "0", "1", "killed"}]
    /\ done \in [Runs -> Nat]

CallTypes == call \in [Runs -> Calls] /\ late \in [Runs -> SUBSET Acts]

\* Field by field: what one call becomes is a call.
LEMMA CallType ==
    ASSUME NEW c \in Calls, NEW st \in {"none", "sent", "busy", "ok", "failed"},
           NEW at \in Sessions \cup {NoSession}
    PROVE  /\ [c EXCEPT !.st = st] \in Calls
           /\ [c EXCEPT !.st = st, !.at = at] \in Calls
           /\ c.act \in Acts
BY DEF Calls

LEMMA SendType ==
    ASSUME CallTypes, NEW r \in Runs, NEW a \in Acts, Send(r, a)
    PROVE  call' \in [Runs -> Calls]
<1>1. [act |-> a, st |-> "sent", at |-> NoSession] \in Calls
  BY DEF Calls
<1>2. QED
  BY <1>1 DEF CallTypes, Send

LEMMA GiveUpType ==
    ASSUME CallTypes, NEW r \in Runs, GiveUp(r)
    PROVE  CallTypes'
<1>1. NoCall \in Calls
  BY DEF NoCall, Calls, Acts, Shipping
<1>2. call' \in [Runs -> Calls]
  BY <1>1 DEF CallTypes, GiveUp
<1>3. call[r].act \in Acts
  BY DEF CallTypes, Calls
<1>4. late' \in [Runs -> SUBSET Acts]
  BY <1>3 DEF CallTypes, GiveUp
<1>5. QED
  BY <1>2, <1>4 DEF CallTypes

LEMMA ReturnType ==
    ASSUME CallTypes, NEW r \in Runs, NEW ok \in BOOLEAN, Return(r, ok)
    PROVE  CallTypes'
<1>1. CASE GiveUp(r)
  BY <1>1, GiveUpType
<1>2. CASE call' = [call EXCEPT ![r] = NoCall] /\ UNCHANGED late
  <2>1. NoCall \in Calls
    BY DEF NoCall, Calls, Acts, Shipping
  <2>2. QED
    BY <1>2, <2>1 DEF CallTypes
<1>3. QED
  BY <1>1, <1>2 DEF Return

LEMMA AnswerType ==
    ASSUME CallTypes, beat \in [Runs -> {"off", "sleep", "renew", "failed"}],
           NEW r \in Runs, NEW a \in Acts, NEW ok \in BOOLEAN, Answer(r, a, ok)
    PROVE  CallTypes' /\ beat' \in [Runs -> {"off", "sleep", "renew", "failed"}]
<1>1. CASE /\ call' = [call EXCEPT ![r].st = IF ok THEN "ok" ELSE "failed"]
           /\ UNCHANGED <<late, beat>>
  <2>1. [call[r] EXCEPT !.st = IF ok THEN "ok" ELSE "failed"] \in Calls
    BY CallType DEF CallTypes
  <2>2. call' \in [Runs -> Calls]
    BY <1>1, <2>1 DEF CallTypes
  <2>3. QED
    BY <1>1, <2>2 DEF CallTypes
<1>2. CASE late' = [late EXCEPT ![r] = @ \ {a}] /\ UNCHANGED <<call, beat>>
  BY <1>2 DEF CallTypes
<1>3. CASE /\ beat' = [beat EXCEPT ![r] = IF ok THEN "sleep" ELSE "failed"]
           /\ UNCHANGED <<call, late>>
  BY <1>3 DEF CallTypes
<1>4. QED
  BY <1>1, <1>2, <1>3 DEF Answer

RunTypes ==
    /\ usr1 \in [Runs -> BOOLEAN]
    /\ rc \in [Runs -> {0, 1}]
    /\ reached \in [Runs -> BOOLEAN]
    /\ beat \in [Runs -> {"off", "sleep", "renew", "failed"}]

GuestTypes ==
    /\ holder \in Runs \cup {NoRun}
    /\ inFlight \in [Sessions -> Runs \cup {NoRun}]
    /\ former \subseteq Runs
    /\ live \in BOOLEAN
    /\ reclaimed \subseteq Runs

LEMMA TypeParts == TypeOK <=> GuestTypes /\ CallTypes /\ ScriptTypes /\ RunTypes
BY DEF TypeOK, GuestTypes, CallTypes, ScriptTypes, RunTypes


\* Only these steps touch the guest's state.
LEMMA QuietSteps ==
    ASSUME NEW r \in Runs,
           \/ Refuse(r) \/ Check(r) \/ Copy(r) \/ ReleaseRefused(r)
           \/ InvokeRefused(r) \/ Script(r) \/ Heartbeat(r) \/ Dies(r) \/ Crash(r)
    PROVE  UNCHANGED guest
<1>1. CASE Script(r)
  BY <1>1 DEF Script, PreflightFails, Start, NotAcquired, Acquired, Fails, Ship, Shipped, StartMatrix, Interrupted, MatrixStep, MatrixStepEnds, MatrixEnds, Cleanup, Killed, StopBeat, Released
<1>2. CASE Heartbeat(r)
  BY <1>2 DEF Heartbeat, Renew, RenewTimesOut, Signal
<1>3. CASE Dies(r) \/ Crash(r)
  BY <1>3 DEF Dies, Crash
<1>4. QED
  BY <1>1, <1>2, <1>3 DEF Refuse, Check, Copy, ReleaseRefused, InvokeRefused

LEMMA GuestTypeStep == GuestTypes /\ Next => GuestTypes'
<1> SUFFICES ASSUME GuestTypes, Next PROVE GuestTypes'
  OBVIOUS
<1>1. ASSUME NEW r \in Runs, Grant(r) PROVE GuestTypes'
  BY <1>1 DEF GuestTypes, Grant, Guest!Take
<1>2. ASSUME NEW r \in Runs, Reclaim(r) PROVE GuestTypes'
  BY <1>2 DEF GuestTypes, Reclaim, Guest!Lose
<1>3. ASSUME NEW r \in Runs, Release(r) PROVE GuestTypes'
  BY <1>3 DEF GuestTypes, Release, Guest!Lose
<1>4. ASSUME NEW r \in Runs, NEW s \in Sessions, Begin(r, s) PROVE GuestTypes'
  BY <1>4 DEF GuestTypes, Begin, Guest!Begin
<1>5. ASSUME NEW s \in Sessions, End(s) PROVE GuestTypes'
  BY <1>5 DEF GuestTypes, End, Guest!End
<1>6. CASE Expire
  BY <1>6 DEF GuestTypes, Expire
<1>7. CASE UNCHANGED guest
  BY <1>7 DEF GuestTypes, guest
<1>8. QED
  BY <1>1, <1>2, <1>3, <1>4, <1>5, <1>6, <1>7, QuietSteps DEF Next, GuestStep

LocalTypes == CallTypes /\ ScriptTypes /\ RunTypes

\* The guest answers calls and leaves the script's own state alone.
LEMMA GuestStepTypes == LocalTypes /\ GuestStep => LocalTypes'
<1> SUFFICES ASSUME LocalTypes, GuestStep PROVE LocalTypes'
  OBVIOUS
<1>1. ASSUME NEW r \in Runs, NEW a \in Acts, NEW ok \in BOOLEAN,
             Answer(r, a, ok), UNCHANGED host
      PROVE  LocalTypes'
  <2>1. CallTypes' /\ beat' \in [Runs -> {"off", "sleep", "renew", "failed"}]
    BY <1>1, AnswerType DEF LocalTypes, RunTypes
  <2>2. QED
    BY <1>1, <2>1 DEF LocalTypes, ScriptTypes, RunTypes, host
<1>2. ASSUME NEW r \in Runs,
             \/ Grant(r) \/ Refuse(r) \/ Check(r) \/ Copy(r)
             \/ Release(r) \/ ReleaseRefused(r) \/ InvokeRefused(r)
      PROVE  LocalTypes'
  <2>1. {"Acquire", "Verify", "Renew", "Copy", "Release", "Invoke"} \subseteq Acts
    BY DEF Acts, Shipping
  <2>2. \E a \in Acts, ok \in BOOLEAN : Answer(r, a, ok) /\ UNCHANGED host
    <3>1. CASE Check(r)
      BY <2>1, <3>1 DEF Check, Owns
    <3>2. CASE Copy(r)
      BY <2>1, <3>2 DEF Copy
    <3>3. CASE Grant(r) \/ Refuse(r)
      BY <2>1, <3>3 DEF Grant, Refuse
    <3>4. CASE Release(r) \/ ReleaseRefused(r) \/ InvokeRefused(r)
      BY <2>1, <3>4 DEF Release, ReleaseRefused, InvokeRefused
    <3>5. QED
      BY <1>2, <3>1, <3>2, <3>3, <3>4
  <2>3. QED
    BY <2>2, <1>1
<1>3. ASSUME NEW r \in Runs, Reclaim(r) PROVE LocalTypes'
  BY <1>3 DEF Reclaim, LocalTypes, CallTypes, ScriptTypes, RunTypes, host
<1>4. ASSUME NEW r \in Runs, NEW s \in Sessions, Begin(r, s) PROVE LocalTypes'
  <2>1. [call[r] EXCEPT !.st = "busy", !.at = s] \in Calls
    BY CallType DEF LocalTypes, CallTypes
  <2>2. call' \in [Runs -> Calls]
    BY <1>4, <2>1 DEF Begin, LocalTypes, CallTypes
  <2>3. late' \in [Runs -> SUBSET Acts]
    BY <1>4 DEF Begin, LocalTypes, CallTypes
  <2>4. QED
    BY <1>4, <2>2, <2>3 DEF Begin, LocalTypes, CallTypes, ScriptTypes, RunTypes, host
<1>5. ASSUME NEW s \in Sessions, End(s) PROVE LocalTypes'
  <2>1. PICK st \in {"ok", "failed"} :
           call' = [r \in Runs |-> IF call[r].at = s
                                   THEN [call[r] EXCEPT !.st = st, !.at = NoSession]
                                   ELSE call[r]]
    BY <1>5 DEF End
  <2>2. \A r \in Runs : [call[r] EXCEPT !.st = st, !.at = NoSession] \in Calls
    BY CallType DEF LocalTypes, CallTypes
  <2>3. call' \in [Runs -> Calls]
    BY <2>1, <2>2 DEF LocalTypes, CallTypes
  <2>4. QED
    BY <1>5, <2>3 DEF End, LocalTypes, CallTypes, ScriptTypes, RunTypes, host
<1>6. CASE Expire
  BY <1>6 DEF Expire, LocalTypes, CallTypes, ScriptTypes, RunTypes, host
<1>7. QED
  BY <1>2, <1>3, <1>4, <1>5, <1>6 DEF GuestStep

LEMMA ScriptTypesStep == LocalTypes /\ (\E r \in Runs : Script(r)) => LocalTypes'
<1> SUFFICES ASSUME LocalTypes, NEW r \in Runs, Script(r) PROVE LocalTypes'
  OBVIOUS
<1> USE DEF At, Goto, Ends
<1>1. CASE PreflightFails(r)
  BY <1>1 DEF PreflightFails, LocalTypes, CallTypes, ScriptTypes, RunTypes
<1>2. CASE Start(r)
  <2>1. "Acquire" \in Acts
    BY DEF Acts, Shipping
  <2>2. call' \in [Runs -> Calls]
    BY <1>2, <2>1, SendType DEF Start, LocalTypes
  <2>3. QED
    BY <1>2, <2>2 DEF Start, LocalTypes, CallTypes, ScriptTypes, RunTypes, host
<1>3. CASE NotAcquired(r)
  <2>1. CallTypes'
    BY <1>3, ReturnType DEF NotAcquired, LocalTypes
  <2>2. QED
    BY <1>3, <2>1 DEF NotAcquired, LocalTypes, ScriptTypes, RunTypes
<1>4. CASE Acquired(r)
  <2>1. CallTypes'
    BY <1>4, ReturnType DEF Acquired, LocalTypes
  <2>2. QED
    BY <1>4, <2>1 DEF Acquired, LocalTypes, ScriptTypes, RunTypes
<1>5. CASE Fails(r)
  <2>1. CallTypes'
    BY <1>5, ReturnType DEF Fails, LocalTypes
  <2>2. QED
    BY <1>5, <2>1 DEF Fails, LocalTypes, ScriptTypes, RunTypes
<1>6. CASE Ship(r)
  <2>1. Plan[done[r] + 1] \in Acts
    BY <1>6, PlanAssumption DEF Ship, LocalTypes, CallTypes, ScriptTypes, RunTypes, Acts
  <2>2. call' \in [Runs -> Calls]
    BY <1>6, <2>1, SendType DEF Ship, LocalTypes
  <2>3. QED
    BY <1>6, <2>2 DEF Ship, LocalTypes, CallTypes, ScriptTypes, RunTypes, host
<1>7. CASE Shipped(r)
  <2>1. CallTypes'
    BY <1>7, ReturnType DEF Shipped, LocalTypes
  <2>2. QED
    BY <1>7, <2>1 DEF Shipped, LocalTypes, ScriptTypes, RunTypes
<1>8. CASE StartMatrix(r)
  BY <1>8 DEF StartMatrix, LocalTypes, CallTypes, ScriptTypes, RunTypes
<1>9. CASE Interrupted(r)
  <2>1. CallTypes'
    BY <1>9, GiveUpType DEF Interrupted, LocalTypes
  <2>2. QED
    BY <1>9, <2>1 DEF Interrupted, LocalTypes, ScriptTypes, RunTypes
<1>10. CASE MatrixStep(r)
  <2>1. "Invoke" \in Acts
    BY DEF Acts, Shipping
  <2>2. call' \in [Runs -> Calls]
    BY <1>10, <2>1, SendType DEF MatrixStep, LocalTypes
  <2>3. QED
    BY <1>10, <2>2 DEF MatrixStep, LocalTypes, CallTypes, ScriptTypes, RunTypes, host
<1>11. CASE MatrixStepEnds(r)
  <2>1. CallTypes'
    BY <1>11, ReturnType DEF MatrixStepEnds, LocalTypes
  <2>2. QED
    BY <1>11, <2>1 DEF MatrixStepEnds, LocalTypes, ScriptTypes, RunTypes
<1>12. CASE MatrixEnds(r)
  BY <1>12 DEF MatrixEnds, LocalTypes, CallTypes, ScriptTypes, RunTypes
<1>13. CASE Cleanup(r)
  BY <1>13 DEF Cleanup, LocalTypes, CallTypes, ScriptTypes, RunTypes
<1>14. CASE Killed(r)
  BY <1>14 DEF Killed, LocalTypes, CallTypes, ScriptTypes, RunTypes
<1>15. CASE StopBeat(r)
  <2>1. "Release" \in Acts
    BY DEF Acts, Shipping
  <2>2. call' \in [Runs -> Calls]
    BY <1>15, <2>1, SendType DEF StopBeat, LocalTypes
  <2>3. late' \in [Runs -> SUBSET Acts]
    BY <1>15 DEF StopBeat, LocalTypes, CallTypes, ScriptTypes, RunTypes, Acts
  <2>4. QED
    BY <1>15, <2>2, <2>3 DEF StopBeat, LocalTypes, CallTypes, ScriptTypes, RunTypes
<1>16. CASE Released(r)
  <2>1. CallTypes'
    BY <1>16, ReturnType DEF Released, LocalTypes
  <2>2. QED
    BY <1>16, <2>1 DEF Released, LocalTypes, ScriptTypes, RunTypes
<1>17. QED
  BY <1>1, <1>2, <1>3, <1>4, <1>5, <1>6, <1>7, <1>8, <1>9, <1>10, <1>11, <1>12, <1>13, <1>14, <1>15, <1>16 DEF Script

THEOREM TypeStep == TypeOK /\ [Next]_vars => TypeOK'
<1> SUFFICES ASSUME TypeOK, [Next]_vars PROVE TypeOK'
  OBVIOUS
<1>1. GuestTypes /\ LocalTypes
  BY TypeParts DEF LocalTypes
<1> SUFFICES GuestTypes' /\ LocalTypes'
  BY DEF TypeOK, GuestTypes, LocalTypes, CallTypes, ScriptTypes, RunTypes
<1>2. CASE GuestStep
  BY <1>1, <1>2, GuestTypeStep, GuestStepTypes DEF Next
<1>3. ASSUME NEW r \in Runs, Script(r) PROVE GuestTypes' /\ LocalTypes'
  BY <1>1, <1>3, GuestTypeStep, ScriptTypesStep DEF Next
<1>4. ASSUME NEW r \in Runs, Heartbeat(r) PROVE GuestTypes' /\ LocalTypes'
  <2>1. GuestTypes'
    BY <1>1, <1>4, GuestTypeStep DEF Next
  <2>2. CASE Renew(r)
    BY <1>1, <2>1, <2>2 DEF Renew, host, LocalTypes, CallTypes, ScriptTypes, RunTypes
  <2>3. CASE RenewTimesOut(r)
    BY <1>1, <2>1, <2>3
       DEF RenewTimesOut, host, LocalTypes, CallTypes, ScriptTypes, RunTypes, Acts
  <2>4. CASE Signal(r)
    BY <1>1, <2>1, <2>4 DEF Signal, At, LocalTypes, CallTypes, ScriptTypes, RunTypes
  <2>5. QED
    BY <1>4, <2>2, <2>3, <2>4 DEF Heartbeat
<1>5. ASSUME NEW r \in Runs, Dies(r) PROVE GuestTypes' /\ LocalTypes'
  <2>1. GuestTypes'
    BY <1>1, <1>5, GuestTypeStep DEF Next
  <2>2. QED
    BY <1>1, <1>5, <2>1 DEF Dies, Goto, LocalTypes, CallTypes, ScriptTypes, RunTypes
<1>6. ASSUME NEW r \in Runs, Crash(r) PROVE GuestTypes' /\ LocalTypes'
  <2>1. GuestTypes'
    BY <1>1, <1>6, GuestTypeStep DEF Next
  <2>2. CallTypes'
    BY <1>1, <1>6, GiveUpType DEF Crash, LocalTypes
  <2>3. QED
    BY <1>1, <1>6, <2>1, <2>2 DEF Crash, Ends, Goto, LocalTypes, ScriptTypes, RunTypes
<1>7. CASE UNCHANGED vars
  BY <1>1, <1>7 DEF vars, guest, GuestTypes, LocalTypes, CallTypes, ScriptTypes, RunTypes
<1>8. QED
  BY <1>2, <1>3, <1>4, <1>5, <1>6, <1>7 DEF Next

-----------------------------------------------------------------------------
LEMMA GuestSoundStep == TypeOK /\ GuestSound /\ Next => GuestSound'
<1> SUFFICES ASSUME TypeOK, GuestSound, Next PROVE GuestSound'
  OBVIOUS
<1>2. ASSUME NEW r \in Runs, Grant(r) PROVE GuestSound'
  BY <1>2 DEF TypeOK, GuestSound, Grant, Guest!Take, Guest!Quiet
<1>3. ASSUME NEW r \in Runs, Reclaim(r) \/ Release(r) PROVE GuestSound'
  BY <1>3, RunsAssumption
     DEF TypeOK, GuestSound, Reclaim, Release, Guest!Lose, Guest!Quiet
<1>4. ASSUME NEW r \in Runs, NEW s \in Sessions, Begin(r, s) PROVE GuestSound'
  BY <1>4 DEF TypeOK, GuestSound, Begin, Guest!Begin
<1>5. ASSUME NEW s \in Sessions, End(s) PROVE GuestSound'
  BY <1>5 DEF TypeOK, GuestSound, End, Guest!End
<1>6. CASE Expire
  BY <1>6 DEF GuestSound, Expire
<1>7. CASE UNCHANGED guest
  BY <1>7 DEF GuestSound, guest
<1>8. QED
  BY <1>2, <1>3, <1>4, <1>5, <1>6, <1>7, QuietSteps DEF Next, GuestStep

\* A run that gave the lock up is not said to have lost it later.
LEMMA GaveUpStays ==
    GuestSound /\ Next => former \ reclaimed \subseteq (former \ reclaimed)'
<1> SUFFICES ASSUME GuestSound, Next
             PROVE  former \ reclaimed \subseteq former' \ reclaimed'
  OBVIOUS
<1>1. ASSUME NEW r \in Runs,
             Grant(r) \/ Reclaim(r) \/ Release(r) \/ (\E s \in Sessions : Begin(r, s))
      PROVE  former \ reclaimed \subseteq former' \ reclaimed'
  BY <1>1 DEF GuestSound, Grant, Reclaim, Release, Begin, Guest!Take, Guest!Lose,
              Guest!Begin
<1>2. ASSUME NEW s \in Sessions, End(s) \/ Expire
      PROVE  former \ reclaimed \subseteq former' \ reclaimed'
  BY <1>2 DEF End, Expire, Guest!End
<1>3. CASE Expire \/ UNCHANGED guest
  BY <1>3 DEF Expire, guest
<1>4. QED
  BY <1>1, <1>2, <1>3, QuietSteps DEF Next, GuestStep

-----------------------------------------------------------------------------
LEMMA AnswerKeeps ==
    ASSUME CallTypes, NEW q \in Runs, NEW a \in Acts, NEW ok \in BOOLEAN,
           Answer(q, a, ok), NEW r \in Runs
    PROVE  /\ call'[r].act = call[r].act
           /\ call'[r].at = call[r].at
           /\ call'[r].act = "Release" /\ call'[r].st = "ok" =>
                  \/ call[r].st = "ok"
                  \/ r = q /\ a = "Release" /\ ok
<1>1. CASE call' = call
  BY <1>1
<1>2. CASE /\ call[q].act = a
           /\ call' = [call EXCEPT ![q].st = IF ok THEN "ok" ELSE "failed"]
  <2>1. CASE r # q
    BY <1>2, <2>1 DEF CallTypes
  <2>2. CASE r = q
    <3>1. call'[r] = [call[r] EXCEPT !.st = IF ok THEN "ok" ELSE "failed"]
      BY <1>2, <2>2 DEF CallTypes
    <3>2. call[r] \in Calls
      BY DEF CallTypes
    <3>3. /\ call'[r].act = call[r].act
          /\ call'[r].at = call[r].at
          /\ call'[r].st = IF ok THEN "ok" ELSE "failed"
      BY <3>1, <3>2 DEF Calls
    <3>4. QED
      BY <1>2, <2>2, <3>3
  <2>3. QED
    BY <2>1, <2>2
<1>3. QED
  BY <1>1, <1>2 DEF Answer

\* What the host does to a call: it is new, forgotten, or left alone.
LEMMA HostCalls ==
    ASSUME CallTypes, NEW q \in Runs, NEW r \in Runs,
           \/ \E a \in Acts : Send(q, a)
           \/ GiveUp(q)
           \/ \E ok \in BOOLEAN : Return(q, ok)
           \/ UNCHANGED call
    PROVE  \/ call'[r] = call[r]
           \/ r = q /\ call'[r].st # "ok" /\ call'[r].at = NoSession
<1>1. CASE \E a \in Acts : Send(q, a)
  BY <1>1 DEF CallTypes, Send
<1>2. CASE call' = [call EXCEPT ![q] = NoCall]
  BY <1>2 DEF CallTypes, NoCall
<1>3. QED
  BY <1>1, <1>2 DEF GiveUp, Return

LEMMA CallSoundGuest ==
    ASSUME IInv, GuestStep, NEW r \in Runs
    PROVE  CallSound(r)'
<1>1. CallTypes /\ CallSound(r) /\ former \ reclaimed \subseteq (former \ reclaimed)'
  BY TypeParts, GaveUpStays DEF IInv, Next
<1>2. ASSUME NEW q \in Runs, NEW a \in Acts, NEW ok \in BOOLEAN,
             Answer(q, a, ok), UNCHANGED pc,
             a = "Release" /\ ok => q \in (former \ reclaimed)'
      PROVE  CallSound(r)'
  <2>1. /\ call'[r].act = call[r].act
        /\ call'[r].at = call[r].at
        /\ call'[r].act = "Release" /\ call'[r].st = "ok" =>
               call[r].st = "ok" \/ (r = q /\ a = "Release" /\ ok)
    BY <1>1, <1>2, AnswerKeeps
  <2>2. QED
    BY <1>1, <1>2, <2>1 DEF CallSound, At
<1>3. {"Acquire", "Verify", "Renew", "Copy", "Release", "Invoke"} \subseteq Acts
  BY DEF Acts, Shipping
<1>4. ASSUME NEW q \in Runs, Grant(q) \/ Refuse(q) \/ Copy(q) PROVE CallSound(r)'
  BY <1>2, <1>3, <1>4 DEF Grant, Refuse, Copy, host
<1>5. ASSUME NEW q \in Runs, Check(q) PROVE CallSound(r)'
  BY <1>2, <1>3, <1>5 DEF Check, Owns, host
<1>6. ASSUME NEW q \in Runs, ReleaseRefused(q) \/ InvokeRefused(q) PROVE CallSound(r)'
  BY <1>2, <1>3, <1>6 DEF ReleaseRefused, InvokeRefused, host
<1>7. ASSUME NEW q \in Runs, Release(q) PROVE CallSound(r)'
  <2>1. q \in (former \ reclaimed)'
    BY <1>7 DEF IInv, GuestSound, Release, Owns, Guest!Lose
  <2>2. QED
    BY <1>2, <1>3, <1>7, <2>1 DEF Release, host
<1>8. CASE Expire \/ \E q \in Runs : Reclaim(q)
  BY <1>1, <1>8 DEF Expire, Reclaim, CallSound, At, host
<1>9. ASSUME NEW q \in Runs, NEW s \in Sessions, Begin(q, s) PROVE CallSound(r)'
  <2>1. CASE call'[r] = call[r]
    BY <1>1, <1>9, <2>1 DEF Begin, CallSound, At, host
  <2>2. CASE r = q /\ call[q].act = "Invoke"
             /\ call' = [call EXCEPT ![q].st = "busy", ![q].at = s]
    <3>1. call'[r] = [call[r] EXCEPT !.st = "busy", !.at = s]
      BY <1>1, <2>2 DEF CallTypes
    <3>2. call'[r].act = "Invoke" /\ call'[r].st = "busy"
      BY <1>1, <2>2, <3>1 DEF CallTypes, Calls
    <3>3. QED
      BY <1>1, <1>9, <2>2, <3>2 DEF Begin, CallSound, At, host
  <2>3. QED
    BY <1>1, <1>9, <2>1, <2>2 DEF Begin, CallTypes
<1>10. ASSUME NEW s \in Sessions, End(s) PROVE CallSound(r)'
  <2>1. PICK st \in {"ok", "failed"} :
           call' = [q \in Runs |-> IF call[q].at = s
                                   THEN [call[q] EXCEPT !.st = st, !.at = NoSession]
                                   ELSE call[q]]
    BY <1>10 DEF End
  <2>2. CASE call[r].at # s
    BY <1>1, <1>10, <2>1, <2>2 DEF End, CallSound, At, host
  <2>3. CASE call[r].at = s
    <3>1. call'[r] = [call[r] EXCEPT !.st = st, !.at = NoSession]
      BY <2>1, <2>3
    <3>2. call'[r].act = call[r].act /\ call'[r].at = NoSession
      BY <1>1, <3>1 DEF CallTypes, Calls
    <3>3. call[r].act = "Invoke"
      BY <1>1, <2>3, SessionsAssumption DEF CallSound
    <3>4. QED
      BY <1>1, <1>10, <3>2, <3>3 DEF End, CallSound, At, host
  <2>4. QED
    BY <2>2, <2>3
<1>11. QED
  BY <1>4, <1>5, <1>6, <1>7, <1>8, <1>9, <1>10 DEF GuestStep

\* The script only comes to "release" with a release that it has just asked for.
LEMMA CallSoundHost ==
    ASSUME IInv, NEW q \in Runs, Script(q) \/ Heartbeat(q) \/ Dies(q) \/ Crash(q),
           NEW r \in Runs
    PROVE  CallSound(r)'
<1>1. CallTypes /\ ScriptTypes /\ CallSound(r)
  BY TypeParts DEF IInv
<1>2. UNCHANGED guest
  BY QuietSteps
<1>3. \/ call'[r] = call[r]
      \/ r = q /\ call'[r].st # "ok" /\ call'[r].at = NoSession
  <2>1. {"Acquire", "Invoke", "Release"} \subseteq Acts
    BY DEF Acts, Shipping
  <2>2. CASE PreflightFails(q) \/ StartMatrix(q) \/ MatrixEnds(q) \/ Cleanup(q)
             \/ Killed(q) \/ Heartbeat(q) \/ Dies(q)
    BY <2>2 DEF PreflightFails, StartMatrix, MatrixEnds, Cleanup, Killed, Heartbeat,
                Dies, Renew, RenewTimesOut, Signal
  <2>3. CASE Start(q) \/ MatrixStep(q) \/ StopBeat(q)
    BY <1>1, <2>1, <2>3, HostCalls DEF Start, MatrixStep, StopBeat
  <2>4. CASE Ship(q)
    <3>1. Plan[done[q] + 1] \in Acts
      BY <1>1, <2>4, PlanAssumption DEF Ship, ScriptTypes, Acts
    <3>2. QED
      BY <1>1, <2>4, <3>1, HostCalls DEF Ship
  <2>5. CASE NotAcquired(q) \/ Acquired(q) \/ Fails(q) \/ Shipped(q)
             \/ MatrixStepEnds(q) \/ Released(q)
    BY <1>1, <2>5, HostCalls
       DEF NotAcquired, Acquired, Fails, Shipped, MatrixStepEnds, Released
  <2>6. CASE Interrupted(q) \/ Crash(q)
    BY <1>1, <2>6, HostCalls DEF Interrupted, Crash
  <2>7. QED
    BY <2>2, <2>3, <2>4, <2>5, <2>6 DEF Script
<1>4. At(r, "release")' => call'[r].act = "Release"
  <2>1. CASE Heartbeat(q)
    BY <1>1, <2>1 DEF Heartbeat, Renew, RenewTimesOut, Signal, CallSound, At, host
  <2>2. CASE StopBeat(q)
    <3>1. CASE r = q
      BY <1>1, <2>2, <3>1 DEF StopBeat, Send, CallTypes
    <3>2. CASE r # q
      BY <1>1, <2>2, <3>2 DEF StopBeat, Send, CallTypes, ScriptTypes, CallSound, At, Goto
    <3>3. QED
      BY <3>1, <3>2
  <2>3. CASE r # q
    <3>1. call'[r] = call[r]
      BY <1>3, <2>3
    <3>2. pc'[r] = pc[r]
      BY <1>1, <2>3 DEF ScriptTypes, Script, Heartbeat, Dies, Crash, Goto, Ends, host,
         Renew, RenewTimesOut, Signal, PreflightFails, Start, NotAcquired, Acquired, Fails, Ship, Shipped, StartMatrix, Interrupted, MatrixStep, MatrixStepEnds, MatrixEnds, Cleanup, Killed, StopBeat, Released
    <3>3. QED
      BY <1>1, <3>1, <3>2 DEF CallSound, At
  <2>4. CASE r = q /\ ~Heartbeat(q) /\ ~StopBeat(q)
    <3>1. pc'[q] # "release"
      BY <1>1, <2>4 DEF ScriptTypes, Script, Dies, Crash, At, Goto, Ends, host,
         PreflightFails, Start, NotAcquired, Acquired, Fails, Ship, Shipped, StartMatrix, Interrupted, MatrixStep, MatrixStepEnds, MatrixEnds, Cleanup, Killed, Released
    <3>2. QED
      BY <2>4, <3>1 DEF At
  <2>5. QED
    BY <2>1, <2>2, <2>3, <2>4
<1>5. QED
  BY <1>1, <1>2, <1>3, <1>4 DEF CallSound, guest

\* The exit status is 0 only if the release of a run that reached its end was
\* acknowledged.
LEMMA ExitSoundHost ==
    ASSUME IInv, NEW q \in Runs, Script(q) \/ Heartbeat(q) \/ Dies(q) \/ Crash(q),
           NEW r \in Runs
    PROVE  ExitSound(r)'
<1>1. ScriptTypes /\ RunTypes /\ CallSound(q) /\ ExitSound(q) /\ ExitSound(r)
  BY TypeParts DEF IInv
<1>2. UNCHANGED guest
  BY QuietSteps
<1>3. CASE Heartbeat(q)
  BY <1>1, <1>2, <1>3
     DEF Heartbeat, Renew, RenewTimesOut, Signal, ExitSound, At, host, guest
<1>4. CASE Released(q)
  <2>1. PICK ok \in BOOLEAN :
           Return(q, ok) /\ Ends(q, IF rc[q] = 0 /\ ok THEN "0" ELSE "1")
    BY <1>4 DEF Released
  <2>2. ok => call[q].st = "ok"
    BY <2>1 DEF Return
  <2>3. rc[q] = 0 /\ ok => reached[q] /\ q \in former \ reclaimed
    BY <1>1, <1>4, <2>2 DEF Released, CallSound, ExitSound, At
  <2>4. QED
    BY <1>1, <1>2, <1>4, <2>1, <2>3
       DEF Released, ExitSound, ScriptTypes, RunTypes, At, Goto, Ends, guest
<1>5. CASE Cleanup(q)
  BY <1>1, <1>2, <1>5 DEF Cleanup, ExitSound, ScriptTypes, RunTypes, At, Goto, guest
<1>6. CASE StopBeat(q)
  BY <1>1, <1>2, <1>6 DEF StopBeat, ExitSound, ScriptTypes, RunTypes, At, Goto, guest
<1>7. CASE Killed(q) \/ PreflightFails(q) \/ NotAcquired(q) \/ Crash(q)
  BY ZenonT(40), <1>1, <1>2, <1>7 DEF Killed, PreflightFails, NotAcquired, Crash, ExitSound,
     ScriptTypes, RunTypes, At, Goto, Ends, guest
<1>8. CASE MatrixEnds(q)
  BY <1>1, <1>2, <1>8 DEF MatrixEnds, ExitSound, ScriptTypes, RunTypes, At, Goto, guest
<1>9. CASE MatrixStepEnds(q)
  BY <1>1, <1>2, <1>9 DEF MatrixStepEnds, ExitSound, ScriptTypes, RunTypes, At, guest
<1>10. CASE Fails(q) \/ Interrupted(q) \/ Dies(q)
  BY <1>1, <1>2, <1>10
     DEF Fails, Interrupted, Dies, ExitSound, ScriptTypes, RunTypes, At, Goto, guest
<1>11. CASE Start(q) \/ Acquired(q) \/ StartMatrix(q)
  BY <1>1, <1>2, <1>11
     DEF Start, Acquired, StartMatrix, ExitSound, ScriptTypes, RunTypes, At, Goto, guest
<1>12. CASE Ship(q) \/ Shipped(q) \/ MatrixStep(q)
  BY <1>1, <1>2, <1>12 DEF Ship, Shipped, MatrixStep, ExitSound, At, host, guest
<1>13. QED
  BY <1>3, <1>4, <1>5, <1>6, <1>7, <1>8, <1>9, <1>10, <1>11, <1>12 DEF Script

LEMMA ExitSoundGuest ==
    ASSUME IInv, GuestStep, NEW r \in Runs
    PROVE  ExitSound(r)'
<1>1. ExitSound(r) /\ former \ reclaimed \subseteq (former \ reclaimed)'
  BY GaveUpStays DEF IInv, Next
<1>2. UNCHANGED host
  BY DEF GuestStep, Grant, Reclaim, Refuse, Check, Copy, Release, ReleaseRefused,
         InvokeRefused, Begin, End, Expire
<1>3. QED
  BY <1>1, <1>2 DEF ExitSound, At, host

-----------------------------------------------------------------------------
\* IInv holds in every state of every behaviour of run-tests.sh and the guest.
THEOREM Invariant == Spec => []IInv
<1>1. Init => IInv
  <2> SUFFICES ASSUME Init PROVE IInv
    OBVIOUS
  <2>1. TypeOK
    <3>1. NoCall \in Calls
      BY DEF NoCall, Calls, Acts, Shipping
    <3>2. QED
      BY <3>1 DEF Init, Guest!Init, TypeOK
  <2>2. GuestSound
    BY DEF Init, Guest!Init, GuestSound
  <2>3. ASSUME NEW r \in Runs PROVE CallSound(r) /\ ExitSound(r)
    BY DEF Init, NoCall, CallSound, ExitSound, At
  <2>4. QED
    BY <2>1, <2>2, <2>3 DEF IInv
<1>2. IInv /\ [Next]_vars => IInv'
  <2> SUFFICES ASSUME IInv, [Next]_vars PROVE IInv'
    OBVIOUS
  <2>1. TypeOK'
    BY TypeStep DEF IInv
  <2>2. CASE Next
    <3>1. GuestSound'
      BY <2>2, GuestSoundStep DEF IInv
    <3>2. ASSUME NEW r \in Runs PROVE CallSound(r)' /\ ExitSound(r)'
      BY <2>2, CallSoundGuest, CallSoundHost, ExitSoundGuest, ExitSoundHost DEF Next
    <3>3. QED
      BY <2>1, <3>1, <3>2 DEF IInv
  <2>3. CASE UNCHANGED vars
    BY <2>1, <2>3 DEF IInv, GuestSound, CallSound, ExitSound, At, vars, guest
  <2>4. QED
    BY <2>2, <2>3
<1>3. QED
  BY <1>1, <1>2, PTL DEF Spec

\* Every variable has its type.
THEOREM TypeCorrect == Spec => []TypeOK
<1>1. IInv => TypeOK
  BY DEF IInv
<1>2. QED
  BY <1>1, Invariant, PTL

\* A run that passes was never reclaimed by another, has neither the lock nor
\* a command on the guest, and reached its end without a failed step.
THEOREM PassingIsTruthful == Spec => []PassTruthful
<1>1. ASSUME IInv, NEW r \in Runs, Passed(r)
      PROVE  PassHeld(r) /\ PassLeavesNothing(r) /\ PassReached(r)
  <2>1. PassHeld(r)
    BY <1>1 DEF IInv, ExitSound, PassHeld, Passed
  <2>2. PassLeavesNothing(r)
    BY <1>1, RunsAssumption DEF IInv, GuestSound, ExitSound, PassLeavesNothing, Passed
  <2>3. PassReached(r)
    BY <1>1 DEF IInv, ExitSound, PassReached, Passed
  <2>4. QED
    BY <2>1, <2>2, <2>3
<1>2. IInv => PassTruthful
  BY <1>1 DEF PassTruthful
<1>3. QED
  BY <1>2, Invariant, PTL
=============================================================================
