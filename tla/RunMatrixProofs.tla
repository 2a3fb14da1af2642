-------------------------- MODULE RunMatrixProofs --------------------------
(***************************************************************************)
(* Proofs about RunMatrix, for any scenarios, groups and max_parallel.     *)
(***************************************************************************)
EXTENDS RunMatrix, FiniteSetTheorems, TLAPS

USE ScenariosAssumption, GroupAssumption, PermitsAssumption, FaultsAssumption

\* A trial's step moves that trial and no other.
LEMMA MovedTrial ==
  ASSUME TypeOK, NEW s \in Scenarios, NEW p \in Places, Goto(s, p)
  PROVE  /\ at' \in [Scenarios -> Places]
         /\ at'[s] = p
         /\ \A t \in Scenarios \ {s} : at'[t] = at[t]
  BY DEF TypeOK, Goto

\* How the size of a set of scenarios changes with one of them.
LEMMA Sizes ==
  ASSUME NEW S \in SUBSET Scenarios
  PROVE  /\ Cardinality(S) \in Nat
         /\ \A x \in Scenarios \ S : Cardinality(S \cup {x}) = Cardinality(S) + 1
         /\ \A x \in S : Cardinality(S \ {x}) = Cardinality(S) - 1
         /\ \A T \in SUBSET S : Cardinality(T) <= Cardinality(S)
<1>1. IsFiniteSet(S)
  BY FS_Subset
<1> QED
  BY <1>1, FS_CardinalityType, FS_AddElement, FS_RemoveElement, FS_Subset

LEMMA TakeTypes ==
  ASSUME TypeOK, NEW sem \in Semaphores, NEW s, Take(s, sem)
  PROVE  available' \in [Semaphores -> 0..Permits]
<1>1. available[sem] - 1 \in 0..Permits
  BY DEF TypeOK, Take
<1> QED
  BY <1>1 DEF TypeOK, Take

LEMMA ReleaseTypes ==
  ASSUME TypeOK, NEW sem \in Semaphores, Release(sem)
  PROVE  /\ available' \in [Semaphores -> 0..Permits]
         /\ parked' \subseteq parked
<1>1. Capacity(sem) \in 0..Permits
  BY DEF Capacity
<1> QED
  BY <1>1 DEF TypeOK, Release, NotifyOne

LEMMA StepTypeOK == TypeOK /\ TrialPlaces /\ [Next]_vars => TypeOK'
<1> SUFFICES ASSUME TypeOK, TrialPlaces, [Next]_vars PROVE TypeOK'
  OBVIOUS
<1> USE DEF TypeOK
<1>1. ASSUME NEW s \in Scenarios, Start(s) PROVE TypeOK'
  BY <1>1 DEF Start, Goto, Places
<1>2. ASSUME NEW s \in Scenarios, TakeGroup(s) PROVE TypeOK'
  <2>1. Group[s] \in Semaphores
    BY <1>2 DEF TakeGroup, Semaphores, TrialPlaces, Grouped, At
  <2>2. available' \in [Semaphores -> 0..Permits]
    BY <1>2, <2>1, TakeTypes DEF TakeGroup
  <2> QED
    BY <1>2, <2>2 DEF TakeGroup, Take, Goto, Places
<1>3. ASSUME NEW s \in Scenarios, TakeGlobal(s) PROVE TypeOK'
  <2>1. available' \in [Semaphores -> 0..Permits]
    BY <1>3, TakeTypes DEF TakeGlobal, Semaphores
  <2> QED
    BY <1>3, <2>1 DEF TakeGlobal, Take, Goto, Places
<1>4. ASSUME NEW s \in Scenarios, Park(s) PROVE TypeOK'
  BY <1>4 DEF Park
<1>11. ASSUME NEW s \in Scenarios, WakeUp(s) PROVE TypeOK'
  BY <1>11 DEF WakeUp
<1>5. ASSUME NEW s \in Scenarios, RunEnds(s) PROVE TypeOK'
  BY <1>5 DEF RunEnds, Goto, Places
<1>6. ASSUME NEW s \in Scenarios, Report(s) PROVE TypeOK'
  <2>1. result' \in [Scenarios -> Entries]
    BY <1>6 DEF Report, WriteResult, Entries
  <2>2. at' \in [Scenarios -> Places] /\ failed' \subseteq Scenarios
    BY <1>6 DEF Report, Goto, Places
  <2> QED
    BY <1>6, <2>1, <2>2 DEF Report
<1>12. ASSUME NEW s \in Scenarios, Panic(s) PROVE TypeOK'
  BY <1>12 DEF Panic, Goto, Places
<1>7. ASSUME NEW s \in Scenarios, DropGlobal(s) PROVE TypeOK'
  <2>1. Release(Global) /\ Global \in Semaphores
    BY <1>7 DEF DropGlobal, Semaphores
  <2> QED
    BY <1>7, <2>1, ReleaseTypes DEF DropGlobal, Goto, Places
<1>8. ASSUME NEW s \in Scenarios, DropGroup(s) PROVE TypeOK'
  <2>1. Release(Group[s]) /\ Group[s] \in Semaphores
    BY <1>8 DEF DropGroup, Semaphores, TrialPlaces, Grouped, At
  <2>2. available' \in [Semaphores -> 0..Permits] /\ parked' \subseteq parked
    BY <2>1, ReleaseTypes
  <2> QED
    BY <1>8, <2>2 DEF DropGroup, Goto, Places
<1>9. CASE Exit
  BY <1>9 DEF Exit, Aggregate, Nothing, OldReport, Entries
<1>10. CASE UNCHANGED vars
  BY <1>10 DEF vars
<1> QED
  BY <1>1, <1>2, <1>3, <1>4, <1>5, <1>6, <1>7, <1>8, <1>9, <1>10, <1>11, <1>12
     DEF Next, Step, Exited

LEMMA StepTrialPlaces == TypeOK /\ TrialPlaces /\ [Next]_vars => TrialPlaces'
<1> SUFFICES ASSUME TypeOK, TrialPlaces, [Next]_vars PROVE TrialPlaces'
  OBVIOUS
<1> USE DEF TypeOK, TrialPlaces, At, Places, Outcomes, NoOutcome
<1>1. ASSUME NEW s \in Scenarios, Start(s) PROVE TrialPlaces'
  BY <1>1 DEF Start, Goto, Grouped, FirstQueued
<1>2. ASSUME NEW s \in Scenarios, TakeGroup(s) PROVE TrialPlaces'
  BY <1>2 DEF TakeGroup, Take, Goto, Grouped
<1>3. ASSUME NEW s \in Scenarios, TakeGlobal(s) PROVE TrialPlaces'
  BY <1>3 DEF TakeGlobal, Take, Goto, Grouped, Awake
<1>4. ASSUME NEW s \in Scenarios, Park(s) PROVE TrialPlaces'
  BY <1>4 DEF Park, Awake, Asking, Grouped
<1>11. ASSUME NEW s \in Scenarios, WakeUp(s) PROVE TrialPlaces'
  BY <1>11 DEF WakeUp, Grouped
<1>5. ASSUME NEW s \in Scenarios, RunEnds(s) PROVE TrialPlaces'
  BY <1>5 DEF RunEnds, Goto, Grouped
<1>6. ASSUME NEW s \in Scenarios, Report(s) PROVE TrialPlaces'
  BY <1>6 DEF Report, Goto, Grouped
<1>12. ASSUME NEW s \in Scenarios, Panic(s) PROVE TrialPlaces'
  BY <1>12 DEF Panic, Goto, Grouped
<1>7. ASSUME NEW s \in Scenarios, DropGlobal(s) PROVE TrialPlaces'
  <2>1. parked' \subseteq parked
    BY <1>7, ReleaseTypes DEF DropGlobal, Semaphores
  <2> QED
    BY <1>7, <2>1 DEF DropGlobal, Goto, Grouped
<1>8. ASSUME NEW s \in Scenarios, DropGroup(s) PROVE TrialPlaces'
  <2>1. Group[s] \in Semaphores
    BY <1>8 DEF DropGroup, Semaphores, Grouped
  <2>2. parked' \subseteq parked
    BY <1>8, <2>1, ReleaseTypes DEF DropGroup
  <2> QED
    BY <1>8, <2>2 DEF DropGroup, Goto, Grouped
<1>9. CASE Exit
  BY <1>9 DEF Exit, Aggregate, Grouped
<1>10. CASE UNCHANGED vars
  BY <1>10 DEF vars, Grouped
<1> QED
  BY <1>1, <1>2, <1>3, <1>4, <1>5, <1>6, <1>7, <1>8, <1>9, <1>10, <1>11, <1>12
     DEF Next, Step, Exited

-----------------------------------------------------------------------------
(* Permits.                                                                *)

\* How each step changes who holds a semaphore.
LEMMA TakeAddsHolder ==
  ASSUME TypeOK, TrialPlaces, NEW s \in Scenarios, NEW sem \in Semaphores,
         \/ TakeGroup(s) /\ sem = Group[s]
         \/ TakeGlobal(s) /\ sem = Global
  PROVE  /\ s \notin Holders(sem)
         /\ Holders(sem)' = Holders(sem) \cup {s}
         /\ \A other \in Semaphores \ {sem} : Holders(other)' = Holders(other)
<1> USE DEF Holders, HoldsGlobal, HoldsGroup, At, Semaphores, Grouped, TrialPlaces
<1>1. CASE TakeGroup(s) /\ sem = Group[s]
  <2>1. at'[s] = "global" /\ \A t \in Scenarios \ {s} : at'[t] = at[t]
    BY <1>1, MovedTrial DEF TakeGroup, Places
  <2> QED
    BY SMTT(30), <1>1, <2>1 DEF TakeGroup
<1>2. CASE TakeGlobal(s) /\ sem = Global
  <2>1. at'[s] = "run" /\ \A t \in Scenarios \ {s} : at'[t] = at[t]
    BY <1>2, MovedTrial DEF TakeGlobal, Places
  <2> QED
    BY ZenonT(40), <1>2, <2>1 DEF TakeGlobal
<1> QED
  BY <1>1, <1>2

LEMMA DropRemovesHolder ==
  ASSUME TypeOK, TrialPlaces, NEW s \in Scenarios, NEW sem \in Semaphores,
         \/ DropGroup(s) /\ sem = Group[s]
         \/ DropGlobal(s) /\ sem = Global
  PROVE  /\ s \in Holders(sem)
         /\ Holders(sem)' = Holders(sem) \ {s}
         /\ \A other \in Semaphores \ {sem} : Holders(other)' = Holders(other)
<1> USE DEF Holders, HoldsGlobal, HoldsGroup, At, Semaphores, Grouped, TrialPlaces
<1>1. CASE DropGroup(s) /\ sem = Group[s]
  <2>1. at'[s] = "ended" /\ \A t \in Scenarios \ {s} : at'[t] = at[t]
    BY <1>1, MovedTrial DEF DropGroup, Places
  <2> QED
    BY <1>1, <2>1 DEF DropGroup
<1>2. CASE DropGlobal(s) /\ sem = Global
  <2>1. /\ at'[s] = (IF Grouped(s) THEN "dropGroup" ELSE "ended")
        /\ \A t \in Scenarios \ {s} : at'[t] = at[t]
    BY <1>2, MovedTrial DEF DropGlobal, Places
  <2> QED
    BY ZenonT(40), <1>2, <2>1 DEF DropGlobal
<1> QED
  BY <1>1, <1>2

LEMMA OthersKeepHolders ==
  ASSUME TypeOK, TrialPlaces, NEW s \in Scenarios, NEW sem \in Semaphores,
         \/ Start(s) \/ Park(s) \/ WakeUp(s) \/ RunEnds(s) \/ Report(s) \/ Panic(s)
  PROVE  Holders(sem)' = Holders(sem) /\ available' = available
<1> USE DEF Holders, HoldsGlobal, HoldsGroup, At, Semaphores, Grouped
<1>1. CASE Start(s)
  <2>1. /\ at'[s] = (IF Grouped(s) THEN "group" ELSE "global")
        /\ \A t \in Scenarios \ {s} : at'[t] = at[t]
    BY <1>1, MovedTrial DEF Start, Places
  <2> QED
    BY <1>1, <2>1 DEF Start, FirstQueued
<1>2. CASE Park(s) \/ WakeUp(s)
  BY <1>2 DEF Park, WakeUp
<1>3. CASE RunEnds(s)
  <2>1. at'[s] = "report" /\ \A t \in Scenarios \ {s} : at'[t] = at[t]
    BY <1>3, MovedTrial DEF RunEnds, Places
  <2> QED
    BY <1>3, <2>1 DEF RunEnds
<1>4. CASE Report(s) \/ Panic(s)
  <2>1. at[s] = "report" /\ Goto(s, "dropGlobal") /\ available' = available
    BY <1>4 DEF Report, Panic
  <2>2. at'[s] = "dropGlobal" /\ \A t \in Scenarios \ {s} : at'[t] = at[t]
    BY <2>1, MovedTrial DEF Places
  <2> QED
    BY <2>1, <2>2
<1> QED
  BY <1>1, <1>2, <1>3, <1>4

LEMMA StepPermits ==
  TypeOK /\ TrialPlaces /\ PermitsConserved /\ [Next]_vars => PermitsConserved'
<1> SUFFICES ASSUME TypeOK, TrialPlaces, PermitsConserved, [Next]_vars,
                    NEW sem \in Semaphores
             PROVE  available'[sem] + Cardinality(Holders(sem)') = Capacity(sem)
  BY DEF PermitsConserved
<1>0. /\ available[sem] + Cardinality(Holders(sem)) = Capacity(sem)
      /\ available[sem] \in 0..Permits /\ Capacity(sem) \in 0..Permits
      /\ Holders(sem) \in SUBSET Scenarios
  <2>1. available[sem] + Cardinality(Holders(sem)) = Capacity(sem)
    BY DEF PermitsConserved
  <2>2. available[sem] \in 0..Permits /\ Capacity(sem) \in 0..Permits
    BY DEF TypeOK, Capacity
  <2>3. Holders(sem) \in SUBSET Scenarios
    BY DEF Holders, HoldsGlobal, HoldsGroup
  <2> QED
    BY <2>1, <2>2, <2>3
<1>c. /\ Cardinality(Holders(sem)) \in Nat
      /\ \A x \in Scenarios \ Holders(sem) :
            Cardinality(Holders(sem) \cup {x}) = Cardinality(Holders(sem)) + 1
      /\ \A x \in Holders(sem) :
            Cardinality(Holders(sem) \ {x}) = Cardinality(Holders(sem)) - 1
  BY <1>0, Sizes
<1>1. ASSUME NEW s \in Scenarios, NEW taken \in Semaphores,
             \/ TakeGroup(s) /\ taken = Group[s]
             \/ TakeGlobal(s) /\ taken = Global
      PROVE  available'[sem] + Cardinality(Holders(sem)') = Capacity(sem)
  <2>1. available' = [available EXCEPT ![taken] = @ - 1]
    BY <1>1 DEF TakeGroup, TakeGlobal, Take
  <2>2. CASE sem = taken
    <3>1. available'[sem] = available[sem] - 1
      BY <2>1, <2>2 DEF TypeOK
    <3>2. Holders(sem)' = Holders(sem) \cup {s} /\ s \notin Holders(sem)
      BY <1>1, <2>2, TakeAddsHolder
    <3> QED
      BY <1>0, <1>c, <3>1, <3>2
  <2>3. CASE sem # taken
    <3>1. available'[sem] = available[sem]
      BY <2>1, <2>3 DEF TypeOK
    <3>2. Holders(sem)' = Holders(sem)
      BY <1>1, <2>3, TakeAddsHolder
    <3> QED
      BY <1>0, <3>1, <3>2
  <2> QED
    BY <2>2, <2>3
<1>2. ASSUME NEW s \in Scenarios, NEW dropped \in Semaphores,
             \/ DropGroup(s) /\ dropped = Group[s]
             \/ DropGlobal(s) /\ dropped = Global
      PROVE  available'[sem] + Cardinality(Holders(sem)') = Capacity(sem)
  <2>1. available' = [available EXCEPT ![dropped] =
                        IF @ + 1 <= Capacity(dropped) THEN @ + 1 ELSE Capacity(dropped)]
    BY <1>2 DEF DropGroup, DropGlobal, Release
  <2>2. CASE sem = dropped
    <3>1. Holders(sem)' = Holders(sem) \ {s} /\ s \in Holders(sem)
      BY <1>2, <2>2, DropRemovesHolder
    <3>2. Cardinality(Holders(sem)) = Cardinality(Holders(sem)') + 1
          /\ Cardinality(Holders(sem)') \in Nat
      <4>1. Holders(sem) \ {s} \in SUBSET Scenarios
        BY <1>0
      <4> QED
        BY <1>c, <3>1, <4>1, Sizes
    <3>3. available[sem] + 1 <= Capacity(sem)
      BY <1>0, <3>2
    <3>4. available'[sem] = available[sem] + 1
      BY <2>1, <2>2, <3>3 DEF TypeOK
    <3> QED
      BY <1>0, <3>2, <3>4
  <2>3. CASE sem # dropped
    <3>1. available'[sem] = available[sem]
      BY <2>1, <2>3 DEF TypeOK
    <3>2. Holders(sem)' = Holders(sem)
      BY <1>2, <2>3, DropRemovesHolder
    <3> QED
      BY <1>0, <3>1, <3>2
  <2> QED
    BY <2>2, <2>3
<1>3. ASSUME NEW s \in Scenarios,
             \/ Start(s) \/ Park(s) \/ WakeUp(s) \/ RunEnds(s) \/ Report(s) \/ Panic(s)
      PROVE  available'[sem] + Cardinality(Holders(sem)') = Capacity(sem)
  BY <1>0, <1>3, OthersKeepHolders
<1>4. CASE Exit \/ UNCHANGED vars
  <2>1. at' = at /\ available' = available
    BY <1>4 DEF Exit, vars
  <2>2. Holders(sem)' = Holders(sem)
    BY <2>1 DEF Holders, HoldsGlobal, HoldsGroup
  <2> QED
    BY <1>0, <2>1, <2>2
<1>5. \A s \in Scenarios : /\ TakeGroup(s) \/ DropGroup(s) => Group[s] \in Semaphores
                          /\ Global \in Semaphores
  BY DEF TakeGroup, DropGroup, At, TrialPlaces, Grouped, Semaphores
<1> QED
  BY <1>1, <1>2, <1>3, <1>4, <1>5 DEF Next, Step, Exited

-----------------------------------------------------------------------------
(* Notifications.                                                          *)

Served(sem) == Asleep(sem) # {} => Cardinality(Awake(sem)) >= available[sem]

\* More awake trials and fewer sleeping ones lose no notification.
LEMMA ServedMonotone ==
  ASSUME TypeOK, NEW sem \in Semaphores, Served(sem),
         Awake(sem) \subseteq Awake(sem)', Asleep(sem)' \subseteq Asleep(sem),
         available'[sem] = available[sem]
  PROVE  Served(sem)'
<1>1. Awake(sem)' \in SUBSET Scenarios /\ Awake(sem) \in SUBSET Awake(sem)'
  BY DEF Awake, Asking
<1>2. Cardinality(Awake(sem)) <= Cardinality(Awake(sem)')
      /\ Cardinality(Awake(sem)') \in Nat /\ Cardinality(Awake(sem)) \in Nat
  BY <1>1, Sizes DEF Awake, Asking
<1>3. available[sem] \in Nat
  BY DEF TypeOK
<1> QED
  BY <1>2, <1>3 DEF Served

\* Taking a permit uses up one awake trial.
LEMMA TakeServes ==
  ASSUME TypeOK, TrialPlaces, NEW sem \in Semaphores, Served(sem),
         NEW s \in Awake(sem), Take(s, sem),
         Asking(sem)' = Asking(sem) \ {s}
  PROVE  Served(sem)'
<1>1. available'[sem] = available[sem] - 1 /\ parked' = parked /\ available[sem] \in Nat
  BY DEF Take, TypeOK
<1>2. Awake(sem)' = Awake(sem) \ {s} /\ Asleep(sem)' = Asleep(sem)
  BY <1>1 DEF Awake, Asleep
<1>3. Cardinality(Awake(sem)') = Cardinality(Awake(sem)) - 1 /\ Cardinality(Awake(sem)) \in Nat
  BY <1>2, Sizes DEF Awake, Asking
<1> QED
  BY <1>1, <1>2, <1>3 DEF Served

\* Giving one back wakes a sleeper, if there is one.
LEMMA ReleaseServes ==
  ASSUME TypeOK, NEW sem \in Semaphores, Served(sem), Release(sem),
         Asking(sem)' = Asking(sem)
  PROVE  Served(sem)'
<1>1. available[sem] \in Nat /\ available'[sem] <= available[sem] + 1
      /\ available'[sem] \in Nat
  BY DEF Release, TypeOK, Capacity
<1>2. CASE Asleep(sem) = {}
  <2>1. Asleep(sem)' = {}
    BY <1>2 DEF Release, NotifyOne, Asleep
  <2> QED
    BY <2>1 DEF Served
<1>3. CASE Asleep(sem) # {}
  <2>1. PICK t \in Asleep(sem) : parked' = parked \ {t}
    BY <1>3 DEF Release, NotifyOne
  <2>2. Awake(sem)' = Awake(sem) \cup {t} /\ t \in Scenarios \ Awake(sem)
    BY <2>1 DEF Awake, Asleep, Asking
  <2>3. Cardinality(Awake(sem)') = Cardinality(Awake(sem)) + 1
        /\ Cardinality(Awake(sem)) \in Nat
    BY <2>2, Sizes DEF Awake, Asking
  <2> QED
    BY <1>1, <1>3, <2>3 DEF Served
<1> QED
  BY <1>2, <1>3

\* A release leaves the other semaphores' trials alone.
LEMMA ReleaseOther ==
  ASSUME TypeOK, NEW sem \in Semaphores, NEW other \in Semaphores \ {sem},
         Served(other), Release(sem), Asking(other)' = Asking(other)
  PROVE  Served(other)'
<1>1. available'[other] = available[other]
  BY DEF Release, TypeOK
<1>2. parked' \subseteq parked
  BY ReleaseTypes
<1>3. Awake(other) \subseteq Awake(other)' /\ Asleep(other)' \subseteq Asleep(other)
  BY <1>2 DEF Awake, Asleep
<1> QED
  BY <1>1, <1>3, ServedMonotone

LEMMA StepServed ==
  TypeOK /\ TrialPlaces /\ NoLostWakeup /\ [Next]_vars => NoLostWakeup'
<1> SUFFICES ASSUME TypeOK, TrialPlaces, NoLostWakeup, [Next]_vars,
                    NEW sem \in Semaphores
             PROVE  Served(sem)'
  BY DEF NoLostWakeup, Served
<1>0. Served(sem)
  BY DEF NoLostWakeup, Served
<1>1. ASSUME NEW s \in Scenarios, Start(s) PROVE Served(sem)'
  <2>1. /\ at[s] = "queued" /\ s \notin parked
        /\ parked' = parked /\ available' = available
        /\ \A t \in Scenarios \ {s} : at'[t] = at[t]
    BY <1>1, MovedTrial DEF Start, FirstQueued, At, TrialPlaces, Places
  <2>2. Awake(sem) \subseteq Awake(sem)' /\ Asleep(sem)' \subseteq Asleep(sem)
    BY <2>1 DEF Awake, Asleep, Asking, At
  <2> QED
    BY <1>0, <2>1, <2>2, ServedMonotone
<1>2. ASSUME NEW s \in Scenarios, TakeGroup(s) PROVE Served(sem)'
  <2>1. /\ at[s] = "group" /\ at'[s] = "global" /\ Take(s, Group[s])
        /\ \A t \in Scenarios \ {s} : at'[t] = at[t]
        /\ Group[s] \in Groups
    BY <1>2, MovedTrial DEF TakeGroup, At, Places, TrialPlaces, Grouped
  <2>2. CASE sem = Group[s]
    <3>1. s \in Awake(sem) /\ Asking(sem)' = Asking(sem) \ {s}
      BY <2>1, <2>2 DEF Take, Asking, At
    <3> QED
      BY <1>0, <2>1, <2>2, <3>1, TakeServes
  <2>3. CASE sem # Group[s]
    <3>1. available'[sem] = available[sem] /\ parked' = parked /\ s \notin parked
      BY <2>1, <2>3 DEF Take, TypeOK, Awake
    <3>2. Awake(sem) \subseteq Awake(sem)' /\ Asleep(sem)' \subseteq Asleep(sem)
      BY <2>1, <2>3, <3>1 DEF Awake, Asleep, Asking, At
    <3> QED
      BY <1>0, <3>1, <3>2, ServedMonotone
  <2> QED
    BY <2>2, <2>3
<1>3. ASSUME NEW s \in Scenarios, TakeGlobal(s) PROVE Served(sem)'
  <2>1. /\ at[s] = "global" /\ at'[s] = "run" /\ Take(s, Global)
        /\ \A t \in Scenarios \ {s} : at'[t] = at[t]
    BY <1>3, MovedTrial DEF TakeGlobal, At, Places
  <2>2. CASE sem = Global
    <3>1. s \in Awake(sem) /\ Asking(sem)' = Asking(sem) \ {s}
      BY <2>1, <2>2 DEF Take, Asking, At
    <3> QED
      BY <1>0, <2>1, <2>2, <3>1, TakeServes
  <2>3. CASE sem # Global
    <3>1. available'[sem] = available[sem] /\ parked' = parked
      BY <2>1, <2>3 DEF Take, TypeOK
    <3>2. Awake(sem)' = Awake(sem) /\ Asleep(sem)' = Asleep(sem)
      BY <2>1, <2>3, <3>1 DEF Awake, Asleep, Asking, At
    <3> QED
      BY <1>0, <3>1, <3>2, ServedMonotone
  <2> QED
    BY <2>2, <2>3
<1>4. ASSUME NEW s \in Scenarios, Park(s) PROVE Served(sem)'
  <2>1. PICK wanted \in Semaphores : s \in Awake(wanted) /\ available[wanted] = 0
    BY <1>4 DEF Park
  <2>2. parked' = parked \cup {s} /\ at' = at /\ available' = available
    BY <1>4 DEF Park
  <2>3. CASE sem = wanted
    <3>1. Cardinality(Awake(sem)') \in Nat
      BY Sizes DEF Awake, Asking
    <3> QED
      BY <2>1, <2>2, <2>3, <3>1 DEF Served
  <2>4. CASE sem # wanted
    <3>1. s \notin Asking(sem)
      BY <2>1, <2>4 DEF Awake, Asking, At, Semaphores
    <3>2. Awake(sem)' = Awake(sem) /\ Asleep(sem)' = Asleep(sem)
      BY <2>2, <3>1 DEF Awake, Asleep, Asking, At
    <3> QED
      BY <1>0, <2>2, <3>2, ServedMonotone
  <2> QED
    BY <2>3, <2>4
<1>5. ASSUME NEW s \in Scenarios, WakeUp(s) PROVE Served(sem)'
  <2>1. parked' \subseteq parked /\ at' = at /\ available' = available
    BY <1>5 DEF WakeUp
  <2>2. Awake(sem) \subseteq Awake(sem)' /\ Asleep(sem)' \subseteq Asleep(sem)
    BY <2>1 DEF Awake, Asleep, Asking, At
  <2> QED
    BY <1>0, <2>1, <2>2, ServedMonotone
<1>6. ASSUME NEW s \in Scenarios, RunEnds(s) \/ Report(s) \/ Panic(s)
      PROVE  Served(sem)'
  <2>1. /\ at[s] \in {"run", "report"} /\ parked' = parked /\ available' = available
        /\ \E p \in {"report", "dropGlobal"} : Goto(s, p)
    BY <1>6 DEF RunEnds, Report, Panic, At
  <2>2. /\ at'[s] \in {"report", "dropGlobal"}
        /\ \A t \in Scenarios \ {s} : at'[t] = at[t]
    BY <2>1, MovedTrial DEF Places
  <2>3. Awake(sem)' = Awake(sem) /\ Asleep(sem)' = Asleep(sem)
    BY <2>1, <2>2 DEF Awake, Asleep, Asking, At
  <2> QED
    BY <1>0, <2>1, <2>3, ServedMonotone
<1>7. ASSUME NEW s \in Scenarios, DropGlobal(s) \/ DropGroup(s) PROVE Served(sem)'
  <2>1. PICK dropped \in Semaphores : Release(dropped)
    BY <1>7 DEF DropGlobal, DropGroup, At, Semaphores, TrialPlaces, Grouped
  <2>2. /\ at[s] \in {"dropGlobal", "dropGroup"}
        /\ \E p \in {"dropGroup", "ended"} : Goto(s, p)
    BY <1>7 DEF DropGlobal, DropGroup, At
  <2>3. /\ at'[s] \in {"dropGroup", "ended"}
        /\ \A t \in Scenarios \ {s} : at'[t] = at[t]
    BY <2>2, MovedTrial DEF Places
  <2>4. Asking(sem)' = Asking(sem)
    BY <2>2, <2>3 DEF Asking, At
  <2> QED
    BY <1>0, <2>1, <2>4, ReleaseServes, ReleaseOther
<1>8. CASE Exit \/ UNCHANGED vars
  <2>1. at' = at /\ parked' = parked /\ available' = available
    BY <1>8 DEF Exit, vars
  <2>2. Awake(sem)' = Awake(sem) /\ Asleep(sem)' = Asleep(sem)
    BY <2>1 DEF Awake, Asleep, Asking, At
  <2> QED
    BY <1>0, <2>1, <2>2, ServedMonotone
<1> QED
  BY <1>1, <1>2, <1>3, <1>4, <1>5, <1>6, <1>7, <1>8 DEF Next, Step, Exited

-----------------------------------------------------------------------------
(* Outcomes.                                                               *)

LEMMA StepFailures ==
  TypeOK /\ TrialPlaces /\ FailuresRemembered /\ [Next]_vars => FailuresRemembered'
<1> SUFFICES ASSUME TypeOK, TrialPlaces, FailuresRemembered, [Next]_vars,
                    NEW t \in Scenarios
             PROVE  /\ result'[t] \in Outcomes => result'[t] = outcome'[t]
                    /\ result'[t] \in Unsuccessful => t \in failed'
                    /\ at'[t] \in {"dropGlobal", "dropGroup", "ended"}
                          /\ outcome'[t] \in Unsuccessful
                       => t \in failed' \/ "panic" \in Faults
  BY DEF FailuresRemembered
<1>0. /\ result[t] \in Outcomes => result[t] = outcome[t]
      /\ result[t] \in Unsuccessful => t \in failed
      /\ at[t] \in {"dropGlobal", "dropGroup", "ended"} /\ outcome[t] \in Unsuccessful
         => t \in failed \/ "panic" \in Faults
  BY DEF FailuresRemembered
<1>1. ASSUME NEW s \in Scenarios,
             \/ Start(s) /\ s \in Scenarios
             \/ TakeGroup(s) \/ TakeGlobal(s) \/ Park(s) \/ WakeUp(s)
             \/ DropGlobal(s) \/ DropGroup(s)
      PROVE  /\ result' = result /\ failed' = failed /\ outcome' = outcome
             /\ at'[t] \in {"dropGlobal", "dropGroup", "ended"} =>
                   at[t] \in {"dropGlobal", "dropGroup", "ended"}
  BY <1>1 DEF Start, TakeGroup, TakeGlobal, Park, WakeUp, DropGlobal, DropGroup,
              Goto, At, TypeOK
<1>2. ASSUME NEW s \in Scenarios, RunEnds(s)
      PROVE  /\ result'[t] \in Outcomes => result'[t] = outcome'[t]
             /\ result'[t] \in Unsuccessful => t \in failed'
             /\ at'[t] \in {"dropGlobal", "dropGroup", "ended"}
                   /\ outcome'[t] \in Unsuccessful
                => t \in failed' \/ "panic" \in Faults
  <2>1. outcome[s] = NoOutcome
    BY <1>2 DEF RunEnds, TrialPlaces, At
  <2> QED
    BY <1>0, <1>2, <2>1 DEF RunEnds, Goto, TypeOK, NoOutcome, Outcomes
<1>3. ASSUME NEW s \in Scenarios, Report(s)
      PROVE  /\ result'[t] \in Outcomes => result'[t] = outcome'[t]
             /\ result'[t] \in Unsuccessful => t \in failed'
             /\ at'[t] \in {"dropGlobal", "dropGroup", "ended"}
                   /\ outcome'[t] \in Unsuccessful
                => t \in failed' \/ "panic" \in Faults
  BY <1>0, <1>3 DEF Report, WriteResult, Goto, TypeOK, Unsuccessful, Outcomes, NoOutcome
<1>4. ASSUME NEW s \in Scenarios, Panic(s)
      PROVE  /\ result'[t] \in Outcomes => result'[t] = outcome'[t]
             /\ result'[t] \in Unsuccessful => t \in failed'
             /\ "panic" \in Faults
  BY <1>0, <1>4 DEF Panic
<1>5. CASE Exit \/ UNCHANGED vars
  BY <1>0, <1>5 DEF Exit, vars
<1> QED
  BY <1>0, <1>1, <1>2, <1>3, <1>4, <1>5 DEF Next, Step, Exited

LEMMA StepMain ==
  TypeOK /\ TrialPlaces /\ MainWaits /\ [Next]_vars => MainWaits'
<1> SUFFICES ASSUME TypeOK, TrialPlaces, MainWaits, [Next]_vars PROVE MainWaits'
  OBVIOUS
<1>1. ASSUME NEW s \in Scenarios, Step(s) PROVE MainWaits'
  <2>1. at[s] # "ended" /\ report' = report /\ exit' = exit
    BY <1>1 DEF Step, Start, TakeGroup, TakeGlobal, Park, RunEnds, Report, Panic,
                DropGlobal, DropGroup, FirstQueued, At, Take, Awake, Asking
  <2> QED
    BY <2>1 DEF MainWaits, At
<1>2. ASSUME NEW s \in Scenarios, WakeUp(s) PROVE MainWaits'
  BY <1>2 DEF WakeUp, MainWaits, At
<1>3. CASE Exit
  BY <1>3 DEF Exit, Aggregate, MainWaits, At, Running
<1>4. CASE UNCHANGED vars
  BY <1>4 DEF vars, MainWaits, At
<1> QED
  BY <1>1, <1>2, <1>3, <1>4 DEF Next, Exited

-----------------------------------------------------------------------------
(* The theorems.                                                           *)

LEMMA InitIInv == Init => IInv
<1> SUFFICES ASSUME Init PROVE IInv
  OBVIOUS
<1>1. TypeOK
  BY DEF Init, Removed, TypeOK, Places, Nothing, OldReport, Entries, Capacity, Running
<1>2. TrialPlaces
  BY DEF Init, TrialPlaces, Nothing
<1>3. PermitsConserved
  <2>1. \A sem \in Semaphores : Holders(sem) = {}
    BY DEF Init, Holders, HoldsGlobal, HoldsGroup
  <2> QED
    BY <2>1, FS_EmptySet DEF Init, PermitsConserved, Capacity
<1>4. NoLostWakeup
  BY DEF Init, NoLostWakeup, Asleep
<1>5. FailuresRemembered /\ MainWaits
  BY DEF Init, Removed, FailuresRemembered, MainWaits, Nothing, OldReport, NoOutcome, Old,
         Unsuccessful, Outcomes, At
<1> QED
  BY <1>1, <1>2, <1>3, <1>4, <1>5 DEF IInv

LEMMA StepIInv == IInv /\ [Next]_vars => IInv'
  BY StepTypeOK, StepTrialPlaces, StepPermits, StepServed, StepFailures, StepMain DEF IInv

\* IInv is an invariant of the runner.
THEOREM Invariant == Spec => []IInv
  BY InitIInv, StepIInv, PTL DEF Spec

\* Type correctness.
THEOREM TypeCorrect == Spec => []TypeOK
<1>1. IInv => TypeOK
  BY DEF IInv
<1> QED
  BY <1>1, Invariant, PTL

\* However trials end and whenever parked threads wake, no semaphore loses or
\* gains a permit.
THEOREM PermitsAreConserved == Spec => []PermitsConserved
<1>1. IInv => PermitsConserved
  BY DEF IInv
<1> QED
  BY <1>1, Invariant, PTL

\* notify_one is enough: a free permit always has an awake trial on its way.
THEOREM WakeupsAreKept == Spec => []NoLostWakeup
<1>1. IInv => NoLostWakeup
  BY DEF IInv
<1> QED
  BY <1>1, Invariant, PTL

\* results.json says of this run what is true, and agrees with the exit code, even
\* when trials panic, files cannot be written and those of an earlier run stay.
THEOREM ReportAgrees == Spec => []ReportHonest
<1>1. IInv => ReportHonest
  BY DEF IInv, ReportHonest, FailuresRemembered, MainWaits, Nothing, OldReport,
         NoOutcome, Old, Unsuccessful, Outcomes
<1> QED
  BY <1>1, Invariant, PTL

\* Where no trial panics, a run that exits 0 ran every scenario and each passed.
THEOREM ExitIsHonest ==
  ASSUME "panic" \notin Faults
  PROVE  Spec => []ExitHonest
<1>1. IInv => ExitHonest
  <2> SUFFICES ASSUME IInv, exit = 0, NEW s \in Scenarios PROVE outcome[s] = "passed"
    BY DEF ExitHonest
  <2>1. at[s] = "ended" /\ failed = {}
    BY DEF IInv, MainWaits, At, Running
  <2>2. outcome[s] \in Outcomes
    BY <2>1 DEF IInv, TypeOK, TrialPlaces
  <2>3. outcome[s] \notin Unsuccessful
    BY <2>1 DEF IInv, FailuresRemembered
  <2> QED
    BY <2>2, <2>3 DEF Unsuccessful
<1> QED
  BY <1>1, Invariant, PTL

\* ScenarioRuns counts as FiniteSets does.
LEMMA SameCardinality == ASSUME NEW S PROVE Runs!Cardinality(S) = Cardinality(S)
  BY DEF Runs!Cardinality, Cardinality

\* The semaphores implement ScenarioRuns: at most max_parallel recipes execute
\* at any moment, never two of one exclusive group, and each once.
THEOREM Refinement == Spec => ImplementsScenarioRuns
<1>1. Init => Runs!Init
  BY DEF Init, Runs!Init, At, Nothing
<1>2. IInv /\ [Next]_vars => [Runs!Next]_<<{s \in Scenarios : At(s, "run")}, outcome>>
  <2> SUFFICES ASSUME IInv, [Next]_vars
               PROVE  [Runs!Next]_<<{s \in Scenarios : At(s, "run")}, outcome>>
    OBVIOUS
  <2> DEFINE running == {s \in Scenarios : At(s, "run")}
  <2>0. TypeOK /\ TrialPlaces /\ PermitsConserved
    BY DEF IInv
  <2>1. ASSUME NEW s \in Scenarios, TakeGlobal(s) PROVE Runs!Begin(s)
    <3>1. /\ at[s] = "global" /\ at'[s] = "run" /\ available[Global] > 0
          /\ outcome' = outcome
          /\ \A t \in Scenarios \ {s} : at'[t] = at[t]
      BY <2>0, <2>1, MovedTrial DEF TakeGlobal, At, Places, Take
    <3>2. running' = running \cup {s} /\ s \notin running /\ outcome[s] = NoOutcome
      BY <2>0, <3>1 DEF At, TrialPlaces
    <3>3. Cardinality(running) < Permits
      <4>1. available[Global] + Cardinality(HoldsGlobal) = Permits
            /\ available[Global] \in Nat
        BY <2>0 DEF PermitsConserved, Semaphores, Holders, Capacity, TypeOK
      <4>2. running \in SUBSET HoldsGlobal /\ HoldsGlobal \in SUBSET Scenarios
        BY DEF HoldsGlobal, At
      <4>3. Cardinality(running) <= Cardinality(HoldsGlobal)
            /\ Cardinality(running) \in Nat /\ Cardinality(HoldsGlobal) \in Nat
        BY <4>2, Sizes
      <4> QED
        BY <3>1, <4>1, <4>3
    <3>4. ASSUME NEW t \in running PROVE ~Runs!Related(s, t)
      <4> SUFFICES ASSUME Group[s] # NoGroup, Group[s] = Group[t] PROVE FALSE
        BY DEF Runs!Related
      <4>1. Group[s] \in Semaphores /\ Group[s] # Global
        BY DEF Semaphores
      <4>2. /\ available[Group[s]] + Cardinality(HoldsGroup(Group[s])) = 1
            /\ available[Group[s]] \in Nat
        BY <2>0, <4>1 DEF PermitsConserved, Holders, Capacity, TypeOK
      <4>3. s \in HoldsGroup(Group[s]) /\ t \in HoldsGroup(Group[s]) \ {s}
        BY <3>1, <3>4 DEF HoldsGroup, At
      <4>4. HoldsGroup(Group[s]) \in SUBSET Scenarios
        BY DEF HoldsGroup
      <4>5. Cardinality((HoldsGroup(Group[s]) \ {s}) \ {t}) =
               Cardinality(HoldsGroup(Group[s])) - 2
            /\ Cardinality((HoldsGroup(Group[s]) \ {s}) \ {t}) \in Nat
            /\ Cardinality(HoldsGroup(Group[s])) \in Nat
        <5>1. /\ HoldsGroup(Group[s]) \ {s} \in SUBSET Scenarios
              /\ (HoldsGroup(Group[s]) \ {s}) \ {t} \in SUBSET Scenarios
          BY <4>4
        <5>2. Cardinality(HoldsGroup(Group[s]) \ {s}) = Cardinality(HoldsGroup(Group[s])) - 1
              /\ Cardinality(HoldsGroup(Group[s])) \in Nat
          BY <4>3, <4>4, Sizes
        <5>3. Cardinality((HoldsGroup(Group[s]) \ {s}) \ {t}) =
                 Cardinality(HoldsGroup(Group[s]) \ {s}) - 1
              /\ Cardinality((HoldsGroup(Group[s]) \ {s}) \ {t}) \in Nat
          BY <4>3, <5>1, Sizes
        <5> QED
          BY <5>2, <5>3
      <4> QED
        BY <4>2, <4>5
    <3> QED
      BY <3>1, <3>2, <3>3, <3>4, SameCardinality DEF Runs!Begin
  <2>2. ASSUME NEW s \in Scenarios, RunEnds(s) PROVE Runs!End(s)
    <3>1. /\ at[s] = "run" /\ at'[s] = "report"
          /\ \A t \in Scenarios \ {s} : at'[t] = at[t]
      BY <2>0, <2>2, MovedTrial DEF RunEnds, At, Places
    <3>2. running' = running \ {s} /\ s \in running
      BY <3>1 DEF At
    <3> QED
      BY <2>2, <3>2 DEF RunEnds, Runs!End
  <2>3. ASSUME NEW s \in Scenarios,
               \/ Start(s) \/ TakeGroup(s) \/ Park(s) \/ WakeUp(s)
               \/ Report(s) \/ Panic(s) \/ DropGlobal(s) \/ DropGroup(s)
        PROVE  running' = running /\ outcome' = outcome
    <3>1. CASE Park(s) \/ WakeUp(s)
      BY <3>1 DEF Park, WakeUp, At
    <3>2. CASE \/ Start(s) \/ TakeGroup(s) \/ Report(s) \/ Panic(s)
               \/ DropGlobal(s) \/ DropGroup(s)
      <4>1. /\ at[s] # "run" /\ outcome' = outcome
            /\ \E p \in Places \ {"run"} : Goto(s, p)
        BY <3>2 DEF Start, TakeGroup, Report, Panic, DropGlobal, DropGroup,
                    FirstQueued, At, Places
      <4>2. at'[s] # "run" /\ \A t \in Scenarios \ {s} : at'[t] = at[t]
        BY <2>0, <4>1, MovedTrial
      <4> QED
        BY <4>1, <4>2 DEF At
    <3> QED
      BY <2>3, <3>1, <3>2
  <2>4. CASE Exit \/ UNCHANGED vars
    BY <2>4 DEF Exit, vars, At
  <2> QED
    BY <2>1, <2>2, <2>3, <2>4 DEF Next, Step, Exited, Runs!Next
<1> QED
  BY <1>1, <1>2, Invariant, PTL DEF Spec, ImplementsScenarioRuns, Runs!Spec

=============================================================================
