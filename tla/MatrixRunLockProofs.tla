------------------------ MODULE MatrixRunLockProofs ------------------------
(***************************************************************************)
(* Proofs about MatrixRunLock, for any number of invocations and runs.     *)
(***************************************************************************)
EXTENDS MatrixRunLock, TLAPS

USE RunsAssumption, ProcsAssumption, LeaseAssumption, ClockAssumption

LEMMA InitIInv == Init => IInv
  BY DEF Init, IInv, TypeOK, GatesHeld, ExclusiveAlone, ActionPlaces, DirUnderGate,
         NothingInNoDir, TokensOnce, CommandsOfOwner, RetiredStaysOut, StageOfOwner,
         NoDir, IdleProc, At, Does, PCs, Waiting, InGate, InFlight, Actions

LEMMA StepIInv == IInv /\ [Next]_vars => IInv'
<1> SUFFICES ASSUME IInv, [Next]_vars PROVE IInv'
  OBVIOUS
<1> USE DEF IInv, TypeOK, GatesHeld, ExclusiveAlone, ActionPlaces, DirUnderGate,
         NothingInNoDir, TokensOnce, CommandsOfOwner, RetiredStaysOut, StageOfOwner,
         NoDir, IdleProc, At, Does, PCs, Waiting, InGate, InFlight, Actions, Goto, Exit,
         OpShare
<1>1. CASE Tick
  BY <1>1 DEF Tick, OwnerExpired, Older
<1>2. ASSUME NEW p \in Procs, NEW a \in Actions, NEW r \in Runs, Start(p, a, r)
      PROVE IInv'
  BY <1>2 DEF Start, OwnerExpired
<1>3. ASSUME NEW p \in Procs, OpenOpGate(p) PROVE IInv'
  <2>1. TypeOK'
    BY <1>3 DEF OpenOpGate, OpGateFree, OwnerExpired
  <2>2. GatesHeld' /\ ExclusiveAlone' /\ ActionPlaces'
    BY <1>3 DEF OpenOpGate, OpGateFree, OwnerExpired
  <2>3. DirUnderGate' /\ NothingInNoDir'
    BY <1>3 DEF OpenOpGate, OpGateFree, OwnerExpired
  <2>4. TokensOnce'
    BY <1>3 DEF OpenOpGate, OpGateFree, OwnerExpired
  <2>5. CommandsOfOwner' /\ RetiredStaysOut' /\ StageOfOwner'
    BY <1>3 DEF OpenOpGate, OpGateFree, OwnerExpired
  <2> QED
    BY <2>1, <2>2, <2>3, <2>4, <2>5
<1>4. ASSUME NEW p \in Procs, OpenGate(p) PROVE IInv'
  BY <1>4 DEF OpenGate, OwnerExpired
<1>5. ASSUME NEW p \in Procs, GiveUp(p) PROVE IInv'
  BY <1>5 DEF GiveUp, OwnerExpired
<1>6. ASSUME NEW p \in Procs, AcquireBusy(p) PROVE IInv'
  BY <1>6 DEF AcquireBusy, OwnerExpired
<1>6a. ASSUME NEW p \in Procs, AcquireReclaim(p) PROVE IInv'
  BY <1>6a DEF AcquireReclaim, Decide, Reclaimable, OwnerExpired
<1>6b. ASSUME NEW p \in Procs, AcquireFree(p) PROVE IInv'
  BY <1>6b DEF AcquireFree, Decide, OwnerExpired
<1>7. ASSUME NEW p \in Procs, Reject(p) PROVE IInv'
  BY <1>7 DEF Reject, OwnerExpired
<1>8. ASSUME NEW p \in Procs, CheckVerify(p) PROVE IInv'
  BY <1>8 DEF CheckVerify, OwnerExpired
<1>9. ASSUME NEW p \in Procs, CheckRenew(p) PROVE IInv'
  BY <1>9 DEF CheckRenew, Decide, OwnerExpired, Owns
<1>10. ASSUME NEW p \in Procs, CheckRelease(p) PROVE IInv'
  BY <1>10 DEF CheckRelease, OwnerExpired, Owns
<1>11. ASSUME NEW p \in Procs, CheckInvoke(p) PROVE IInv'
  BY <1>11 DEF CheckInvoke, OwnerExpired, Owns
<1>12. ASSUME NEW p \in Procs, RemoveStage(p) PROVE IInv'
  BY ZenonT(40), <1>12 DEF RemoveStage, OwnerExpired
<1>13. ASSUME NEW p \in Procs, RemoveOwner(p) PROVE IInv'
  <2>1. TypeOK'
    BY ZenonT(40), <1>13 DEF RemoveOwner, OwnerExpired
  <2>2. GatesHeld' /\ ExclusiveAlone' /\ ActionPlaces'
    BY <1>13 DEF RemoveOwner, OwnerExpired
  <2>3. DirUnderGate' /\ NothingInNoDir'
    BY <1>13 DEF RemoveOwner, OwnerExpired
  <2>4. TokensOnce'
    BY <1>13 DEF RemoveOwner, OwnerExpired
  <2>5. CommandsOfOwner' /\ RetiredStaysOut' /\ StageOfOwner'
    BY <1>13 DEF RemoveOwner, OwnerExpired
  <2> QED
    BY <2>1, <2>2, <2>3, <2>4, <2>5
<1>14. ASSUME NEW p \in Procs, RemoveDir(p) PROVE IInv'
  <2>1. TypeOK'
    BY <1>14 DEF RemoveDir, OwnerExpired
  <2>2. GatesHeld' /\ ExclusiveAlone' /\ ActionPlaces'
    BY <1>14 DEF RemoveDir, OwnerExpired
  <2>3. DirUnderGate' /\ NothingInNoDir'
    BY <1>14 DEF RemoveDir, OwnerExpired
  <2>4. TokensOnce'
    <3>1. CASE Does(p, "Release")
      BY <1>14, <3>1 DEF RemoveDir
    <3>2. CASE Does(p, "Acquire")
      BY <1>14, <3>2 DEF RemoveDir
    <3> QED
      BY <1>14, <3>1, <3>2 DEF RemoveDir
  <2>5. CommandsOfOwner' /\ RetiredStaysOut' /\ StageOfOwner'
    BY <1>14 DEF RemoveDir, OwnerExpired
  <2> QED
    BY <2>1, <2>2, <2>3, <2>4, <2>5
<1>15. ASSUME NEW p \in Procs, MkDir(p) PROVE IInv'
  <2>1. TypeOK'
    <3>1. dir' \in [here : BOOLEAN, owner : Runs \cup {NoRun},
                stage : Runs \cup {NoRun}, renewed : Nat, mtime : Nat]
      BY <1>15 DEF MkDir, OwnerExpired
    <3>2. proc' \in [Procs -> [pc : PCs, act : Actions,
                           run : Runs \cup {NoRun}, now : Nat]]
      BY <1>15 DEF MkDir, OwnerExpired
    <3> QED
      BY <1>15, <3>1, <3>2 DEF MkDir, OwnerExpired
  <2>2. GatesHeld' /\ ExclusiveAlone' /\ ActionPlaces'
    BY <1>15 DEF MkDir, OwnerExpired
  <2>3. DirUnderGate' /\ NothingInNoDir'
    BY <1>15 DEF MkDir, OwnerExpired
  <2>4. TokensOnce'
    BY <1>15 DEF MkDir, OwnerExpired
  <2>5. CommandsOfOwner' /\ RetiredStaysOut' /\ StageOfOwner'
    BY <1>15 DEF MkDir, OwnerExpired
  <2> QED
    BY <2>1, <2>2, <2>3, <2>4, <2>5
<1>16. ASSUME NEW p \in Procs, MkStage(p) PROVE IInv'
  <2>1. TypeOK'
    <3>1. dir' \in [here : BOOLEAN, owner : Runs \cup {NoRun},
                stage : Runs \cup {NoRun}, renewed : Nat, mtime : Nat]
      BY <1>16 DEF MkStage, OwnerExpired
    <3>2. proc' \in [Procs -> [pc : PCs, act : Actions,
                           run : Runs \cup {NoRun}, now : Nat]]
      BY <1>16 DEF MkStage, OwnerExpired
    <3> QED
      BY <1>16, <3>1, <3>2 DEF MkStage, OwnerExpired
  <2>2. GatesHeld' /\ ExclusiveAlone' /\ ActionPlaces'
    BY <1>16 DEF MkStage, OwnerExpired
  <2>3. DirUnderGate' /\ NothingInNoDir'
    BY <1>16 DEF MkStage, OwnerExpired
  <2>4. TokensOnce'
    BY <1>16 DEF MkStage, OwnerExpired
  <2>5. CommandsOfOwner' /\ RetiredStaysOut' /\ StageOfOwner'
    BY <1>16 DEF MkStage, OwnerExpired
  <2> QED
    BY <2>1, <2>2, <2>3, <2>4, <2>5
<1>17. ASSUME NEW p \in Procs, WriteOwner(p) PROVE IInv'
  <2>1. TypeOK'
    <3>1. dir' \in [here : BOOLEAN, owner : Runs \cup {NoRun},
                stage : Runs \cup {NoRun}, renewed : Nat, mtime : Nat]
      BY ZenonT(40), <1>17 DEF WriteOwner, OwnerExpired
    <3>2. proc' \in [Procs -> [pc : PCs, act : Actions,
                           run : Runs \cup {NoRun}, now : Nat]]
      BY <1>17 DEF WriteOwner, OwnerExpired
    <3> QED
      BY <1>17, <3>1, <3>2 DEF WriteOwner, OwnerExpired
  <2>2. GatesHeld' /\ ExclusiveAlone' /\ ActionPlaces'
    BY <1>17 DEF WriteOwner, OwnerExpired
  <2>3. DirUnderGate' /\ NothingInNoDir'
    BY <1>17 DEF WriteOwner, OwnerExpired
  <2>4. TokensOnce'
    BY <1>17 DEF WriteOwner, OwnerExpired
  <2>5. CommandsOfOwner' /\ RetiredStaysOut' /\ StageOfOwner'
    BY <1>17 DEF WriteOwner, OwnerExpired
  <2> QED
    BY <2>1, <2>2, <2>3, <2>4, <2>5
<1>18. ASSUME NEW p \in Procs, CommandEnd(p) PROVE IInv'
  BY <1>18 DEF CommandEnd, OwnerExpired
<1>19. ASSUME NEW p \in Procs, ReopenGate(p) PROVE IInv'
  BY <1>19 DEF ReopenGate, OwnerExpired
<1>20. ASSUME NEW p \in Procs, Refresh(p) PROVE IInv'
  <2>1. TypeOK'
    <3>1. dir' \in [here : BOOLEAN, owner : Runs \cup {NoRun},
                stage : Runs \cup {NoRun}, renewed : Nat, mtime : Nat]
      BY <1>20 DEF Refresh, OwnerExpired
    <3>2. proc' \in [Procs -> [pc : PCs, act : Actions,
                           run : Runs \cup {NoRun}, now : Nat]]
      BY <1>20 DEF Refresh, OwnerExpired
    <3> QED
      BY <1>20, <3>1, <3>2 DEF Refresh, OwnerExpired
  <2>2. GatesHeld' /\ ExclusiveAlone' /\ ActionPlaces'
    BY <1>20 DEF Refresh, OwnerExpired
  <2>3. DirUnderGate' /\ NothingInNoDir'
    BY <1>20 DEF Refresh, OwnerExpired
  <2>4. TokensOnce'
    BY <1>20 DEF Refresh, OwnerExpired
  <2>5. CommandsOfOwner' /\ RetiredStaysOut' /\ StageOfOwner'
    BY <1>20 DEF Refresh, OwnerExpired
  <2> QED
    BY <2>1, <2>2, <2>3, <2>4, <2>5
<1>21. ASSUME NEW p \in Procs, Crash(p) PROVE IInv'
  BY <1>21 DEF Crash, OwnerExpired
<1>22. CASE UNCHANGED vars
  BY <1>22 DEF vars, OwnerExpired
<1> HIDE DEF IInv, Actions, At
<1> QED
  BY <1>1, <1>2, <1>3, <1>4, <1>5, <1>6, <1>7, <1>8, <1>9, <1>10, <1>11, <1>12, <1>13,
     <1>14, <1>15, <1>16, <1>17, <1>18, <1>19, <1>20, <1>21, <1>6a, <1>6b, <1>22 DEF Next, Step

\* The invariant behind every safety property of the lock script.
THEOREM Invariant == Spec => []IInv
  BY InitIInv, StepIInv, PTL DEF Spec

\* Variables keep their types, whatever order the invocations run in.
THEOREM TypeCorrect == Spec => []TypeOK
  BY Invariant, PTL DEF IInv

\* No two runs ever have commands on the VM at once, and owner.json names the
\* run whose commands are in flight: Acquire cannot pass a held operation gate.
THEOREM CommandsAreTheOwners == Spec => []CommandsOfOwner
  BY Invariant, PTL DEF IInv

\* A run that released the lock or was replaced is never written back.
THEOREM Fencing == Spec => []RetiredStaysOut
  BY Invariant, PTL DEF IInv

\* No token directory of another run survives inside an owned lock.
THEOREM StageFencing == Spec => []StageOfOwner
  BY Invariant, PTL DEF IInv

\* The two gates are taken in an order that cannot deadlock.
THEOREM GatesAcyclic == Spec => []NoCircularWait
<1>1. IInv => NoCircularWait
  BY DEF IInv, GatesHeld, NoCircularWait, At, Waiting, InGate, TypeOK
<1> QED
  BY <1>1, Invariant, PTL

\* The lock is taken from a run only by its own Release or after its lease.
\* The Acquire that decided to reclaim may stall: the metadata gate it holds
\* keeps renewals out, so the decision stays true.
THEOREM LiveLeaseTheorem == Spec => LiveLeaseKept
<1> DEFINE Kept == \/ dir.owner = NoRun
                   \/ dir'.owner = dir.owner
                   \/ OwnerExpired(clock)
                   \/ \E p \in Procs : /\ At(p, "remove") /\ Does(p, "Release")
                                       /\ proc[p].run = dir.owner
<1>1. IInv /\ [Next]_vars => Kept
  <2> SUFFICES ASSUME IInv, [Next]_vars, dir.owner # NoRun, dir'.owner # dir.owner
               PROVE Kept
    OBVIOUS
  <2>1. PICK p \in Procs : RemoveOwner(p) \/ RemoveDir(p) \/ MkDir(p) \/ WriteOwner(p)
    <3>1. dir' # dir
      OBVIOUS
    <3>2. ASSUME NEW p \in Procs, RemoveStage(p) \/ MkStage(p) \/ Refresh(p)
          PROVE FALSE
      BY <3>2 DEF IInv, TypeOK, RemoveStage, MkStage, Refresh
    <3> QED
      BY <3>1, <3>2 DEF Next, Step, vars, Tick, Start, OpenOpGate, OpenGate, GiveUp,
         AcquireBusy, AcquireReclaim, AcquireFree, Reject, CheckVerify, CheckRenew,
         CheckRelease, CheckInvoke, CommandEnd, ReopenGate, Crash
  <2>2. At(p, "remove") \/ At(p, "mkDir") \/ At(p, "write")
    BY <2>1 DEF RemoveOwner, RemoveDir, MkDir, WriteOwner
  <2>3. CASE At(p, "remove")
    BY <2>3 DEF IInv, DirUnderGate, ActionPlaces, At, Does
  <2>4. CASE At(p, "mkDir")
    BY <2>4 DEF IInv, DirUnderGate, NothingInNoDir, At
  <2>5. CASE At(p, "write")
    <3>1. WriteOwner(p)
      BY <2>1, <2>5 DEF RemoveOwner, RemoveDir, MkDir, At
    <3>2. dir'.owner = proc[p].run
      BY <3>1 DEF WriteOwner, IInv, TypeOK
    <3> QED
      BY <2>5, <3>2 DEF IInv, DirUnderGate, ActionPlaces, At, Does
  <2> QED
    BY <2>2, <2>3, <2>4, <2>5
<1>2. IInv /\ [Next]_vars => [Kept]_vars
  BY <1>1
<1> QED
  BY <1>2, Invariant, PTL DEF Spec, LiveLeaseKept

-----------------------------------------------------------------------------
(* The refinement of WorkdirOwnership.                                     *)

UserOf(p) == IF proc[p].pc \in InFlight THEN proc[p].run ELSE NoRun

\* While an Acquire or a Release is past its gates no command is in flight.
LEMMA ExclusiveMeansQuiet ==
  ASSUME IInv, NEW p \in Procs, ~At(p, "idle"), ~At(p, "opGate"),
         Does(p, "Acquire") \/ Does(p, "Release")
  PROVE  \A q \in Procs : UserOf(q) = NoRun
  BY DEF IInv, GatesHeld, ExclusiveAlone, ActionPlaces, UserOf, OpShare, At, Does, InFlight

\* A step that leaves owner.json and the commands in flight alone is a stutter.
LEMMA Stutter ==
  ASSUME dir'.owner = dir.owner, retired' = retired,
         \A q \in Procs : UserOf(q)' = UserOf(q)
  PROVE  UNCHANGED Ownership!vars
  BY DEF Ownership!vars, UserOf

\* A process that leaves the script leaves its command, if it had one.
LEMMA ExitEndsCommand ==
  ASSUME IInv, NEW p \in Procs, Exit(p), dir'.owner = dir.owner, retired' = retired
  PROVE  [Ownership!Next]_Ownership!vars
<1>1. \A q \in Procs : UserOf(q)' = IF q = p THEN NoRun ELSE UserOf(q)
  BY DEF Exit, UserOf, IdleProc, InFlight, IInv, TypeOK
<1>2. CASE UserOf(p) = NoRun
  BY <1>1, <1>2, Stutter
<1>3. CASE UserOf(p) # NoRun
  <2>1. Ownership!End(p)
    BY <1>1, <1>3 DEF Ownership!End, UserOf
  <2> QED
    BY <2>1 DEF Ownership!Next
<1> QED
  BY <1>2, <1>3

\* The script implements WorkdirOwnership: it takes and loses the workdir
\* only when no command is in flight and never gives it twice to one token.
THEOREM Refinement == Spec => ImplementsOwnership
<1>1. Init => Ownership!Init
  BY DEF Init, Ownership!Init, NoDir, IdleProc, InFlight
<1>2. IInv /\ [Next]_vars => [Ownership!Next]_Ownership!vars
  <2> SUFFICES ASSUME IInv, [Next]_vars PROVE [Ownership!Next]_Ownership!vars
    OBVIOUS
  <2>1. CASE UNCHANGED vars \/ Tick
    BY <2>1, Stutter DEF vars, Tick, UserOf
  <2>2. ASSUME NEW p \in Procs, NEW a \in Actions, NEW r \in Runs, Start(p, a, r)
        PROVE UNCHANGED Ownership!vars
    BY <2>2, Stutter DEF Start, UserOf, At, InFlight, IInv, TypeOK
  <2>3. ASSUME NEW p \in Procs,
               \/ OpenOpGate(p) \/ OpenGate(p) \/ AcquireReclaim(p) \/ AcquireFree(p)
               \/ CheckRenew(p) \/ CheckRelease(p) \/ CommandEnd(p) \/ ReopenGate(p)
               \/ RemoveStage(p) \/ MkStage(p)
        PROVE UNCHANGED Ownership!vars
    <3>1. dir'.owner = dir.owner /\ retired' = retired
      BY <2>3 DEF OpenOpGate, OpenGate, AcquireReclaim, AcquireFree, CheckRenew, CheckRelease,
                  CommandEnd, ReopenGate, RemoveStage, MkStage, IInv, TypeOK
    <3>2. \A q \in Procs : UserOf(q)' = UserOf(q)
      BY <2>3 DEF OpenOpGate, OpenGate, AcquireReclaim, AcquireFree, CheckRenew, CheckRelease,
                  CommandEnd, ReopenGate, RemoveStage, MkStage, IInv, TypeOK,
                  Goto, Decide, At, UserOf, InFlight
    <3> QED
      BY <3>1, <3>2, Stutter
  <2>4. ASSUME NEW p \in Procs,
               GiveUp(p) \/ AcquireBusy(p) \/ Reject(p) \/ CheckVerify(p) \/ Crash(p)
        PROVE [Ownership!Next]_Ownership!vars
    BY <2>4, ExitEndsCommand DEF GiveUp, AcquireBusy, Reject, CheckVerify, Crash
  <2>5. ASSUME NEW p \in Procs, Refresh(p) PROVE [Ownership!Next]_Ownership!vars
    <3>1. dir'.owner = dir.owner
      BY <2>5 DEF Refresh, IInv, TypeOK
    <3> QED
      BY <2>5, <3>1, ExitEndsCommand DEF Refresh
  <2>6. ASSUME NEW p \in Procs, CheckInvoke(p) PROVE Ownership!Begin(p)
    <3>1. dir.owner = proc[p].run /\ proc[p].run # NoRun
      BY <2>6 DEF CheckInvoke, Owns, IInv, TypeOK, At
    <3>2. UserOf(p) = NoRun /\ UserOf(p)' = dir.owner
      BY <2>6, <3>1 DEF CheckInvoke, Goto, At, UserOf, InFlight, IInv, TypeOK
    <3>3. \A q \in Procs \ {p} : UserOf(q)' = UserOf(q)
      BY <2>6 DEF CheckInvoke, Goto, UserOf, InFlight, IInv, TypeOK
    <3> QED
      BY <2>6, <3>1, <3>2, <3>3 DEF CheckInvoke, Ownership!Begin, UserOf
  <2>7. ASSUME NEW p \in Procs, RemoveOwner(p) PROVE Ownership!Lose
    <3>1. \A q \in Procs : UserOf(q) = NoRun
      BY <2>7, ExclusiveMeansQuiet DEF RemoveOwner, IInv, ActionPlaces, At, Does
    <3>2. dir.owner # NoRun /\ dir'.owner = NoRun /\ proc' = proc
          /\ retired' = retired \cup {dir.owner}
      BY <2>7 DEF RemoveOwner, IInv, TypeOK
    <3> QED
      BY <3>1, <3>2 DEF Ownership!Lose, Ownership!Quiet, UserOf
  <2>8. ASSUME NEW p \in Procs, RemoveDir(p) PROVE [Ownership!Next]_Ownership!vars
    <3>1. dir'.owner = dir.owner /\ retired' = retired
      BY <2>8 DEF RemoveDir, NoDir
    <3>2. CASE Exit(p)
      BY <3>1, <3>2, ExitEndsCommand
    <3>3. CASE Goto(p, "mkDir")
      <4>1. \A q \in Procs : UserOf(q)' = UserOf(q)
        BY <2>8, <3>3 DEF RemoveDir, Goto, At, UserOf, InFlight, IInv, TypeOK
      <4> QED
        BY <3>1, <4>1, Stutter
    <3> QED
      BY <2>8, <3>2, <3>3 DEF RemoveDir
  <2>9. ASSUME NEW p \in Procs, MkDir(p) PROVE UNCHANGED Ownership!vars
    <3>1. dir'.owner = dir.owner /\ retired' = retired
      BY <2>9 DEF MkDir, NoDir, IInv, DirUnderGate, NothingInNoDir, At
    <3>2. \A q \in Procs : UserOf(q)' = UserOf(q)
      BY <2>9 DEF MkDir, Goto, At, UserOf, InFlight, IInv, TypeOK
    <3> QED
      BY <3>1, <3>2, Stutter
  <2>10. ASSUME NEW p \in Procs, WriteOwner(p) PROVE [Ownership!Next]_Ownership!vars
    <3>1. dir'.owner = proc[p].run /\ retired' = retired
      BY <2>10 DEF WriteOwner, IInv, TypeOK
    <3>2. CASE Does(p, "Renew")
      BY <2>10, <3>1, <3>2, ExitEndsCommand DEF WriteOwner, IInv, DirUnderGate
    <3>3. CASE Does(p, "Acquire")
      <4>1. \A q \in Procs : UserOf(q) = NoRun
        BY <2>10, <3>3, ExclusiveMeansQuiet DEF WriteOwner, At
      <4>2. \A q \in Procs : UserOf(q)' = NoRun
        BY <2>10, <4>1 DEF WriteOwner, Exit, UserOf, IdleProc, InFlight, IInv, TypeOK
      <4>3. dir.owner = NoRun
        BY <2>10, <3>3 DEF WriteOwner, IInv, DirUnderGate
      <4>4. proc[p].run \in Runs \ retired
        BY <2>10, <3>3 DEF WriteOwner, IInv, TokensOnce, TypeOK, At
      <4>5. Ownership!Take(proc[p].run)
        BY <3>1, <4>1, <4>2, <4>3, <4>4
           DEF Ownership!Take, Ownership!Quiet, UserOf
      <4> QED
        BY <4>4, <4>5 DEF Ownership!Next
    <3> QED
      BY <2>10, <3>2, <3>3 DEF WriteOwner, IInv, ActionPlaces, Does
  <2> QED
    BY <2>1, <2>2, <2>3, <2>4, <2>5, <2>6, <2>7, <2>8, <2>9, <2>10
       DEF Next, Step, Ownership!Next
<1> QED
  BY <1>1, <1>2, Invariant, PTL DEF Spec, ImplementsOwnership, Ownership!Spec

=============================================================================
