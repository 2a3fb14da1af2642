-------------------------- MODULE MatrixTxnProofs --------------------------
(***************************************************************************)
(* Proofs about MatrixTxn, for any number of agents, scenarios and inodes. *)
(***************************************************************************)
EXTENDS MatrixTxn, TLAPS

USE AgentsAssumption, ScenariosAssumption, InodesAssumption, CommandsAssumption

\* What the operators on matrices return.
LEMMA FirstPendingIsAScenario ==
  ASSUME NEW m \in Matrix!Matrices, Matrix!Unclaimed(m) # {}
  PROVE  Matrix!FirstPending(m) \in Matrix!Unclaimed(m)
<1>1. Matrix!Unclaimed(m) \in (SUBSET Scenarios) \ {{}}
  BY DEF Matrix!Unclaimed
<1> QED
  BY <1>1 DEF Matrix!FirstPending

LEMMA MutatedIsAMatrix ==
  ASSUME TypeOK, NEW a \in Agents
  PROVE  Mutated(a) \in Matrix!Matrices
<1>1. proc[a].seen \in [Scenarios -> Matrix!Statuses] /\ proc[a].to \in Matrix!Statuses
  BY DEF TypeOK, Scripts, Matrix!Matrices
<1>2. Matrix!Claimed(a) \in Matrix!Statuses /\ Matrix!Pending \in Matrix!Statuses
  BY DEF Matrix!Statuses
<1>3. ASSUME NEW s, NEW st \in Matrix!Statuses
      PROVE  Matrix!AfterStatus(proc[a].seen, s, st) \in Matrix!Matrices
  BY <1>1 DEF Matrix!AfterStatus, Matrix!Matrices
<1>4. Matrix!AfterReset(proc[a].seen) \in Matrix!Matrices
  BY <1>1, <1>2 DEF Matrix!AfterReset, Matrix!Matrices
<1> QED
  BY <1>1, <1>2, <1>3, <1>4 DEF Mutated

LEMMA InitIInv == Init => IInv
  BY DEF Init, IInv, TypeOK, LocksHeld, InsideCurrent, Inside, At, IdleProc, NewMatrix,
         Scripts, PCs, AllCommands, Matrix!Matrices, Matrix!Pending, Matrix!Statuses

LEMMA StepIInv == IInv /\ [Next]_vars => IInv'
<1> SUFFICES ASSUME IInv, [Next]_vars PROVE IInv'
  OBVIOUS
<1>n. NewMatrix \in Matrix!Matrices /\ Matrix!Pending \in Matrix!Statuses
  BY DEF NewMatrix, Matrix!Matrices, Matrix!Statuses
<1>1. ASSUME NEW a \in Agents, NEW c \in Commands,
             NEW s \in Scenarios \cup {NoScenario}, NEW st \in Matrix!Statuses,
             Run(a, c, s, st), mine' \in [Agents -> Scenarios \cup {NoScenario}],
             c \in {"finish", "block"} => s \in Scenarios /\ st \in Matrix!Posted
      PROVE IInv'
  <2>1. proc'[a].pc = "open" /\ proc'[a].cmd = c /\ proc'[a].scenario = s
        /\ proc'[a].to = st /\ proc'[a] \in Scripts
    BY ZenonT(40), <1>1, <1>n DEF Run, IdleProc, Scripts, PCs, AllCommands, IInv, TypeOK
  <2>2. proc' \in [Agents -> Scripts] /\ \A b \in Agents \ {a} : proc'[b] = proc[b]
    BY <1>1, <2>1 DEF Run, IInv, TypeOK
  <2> QED
    BY <1>1, <2>1, <2>2 DEF Run, IInv, TypeOK, LocksHeld, InsideCurrent, Inside, At
<1>5. ASSUME NEW a \in Agents, Open(a) PROVE IInv'
  <2>a. proc[a] \in Scripts /\ proc'[a] = [proc[a] EXCEPT !.pc = "lock", !.fd = path]
    BY <1>5 DEF Open, IInv, TypeOK
  <2>1. proc'[a].pc = "lock" /\ proc'[a].fd = path /\ proc'[a].cmd = proc[a].cmd
        /\ proc'[a].scenario = proc[a].scenario /\ proc'[a].to = proc[a].to
        /\ proc'[a] \in Scripts
    BY ZenonT(40), <2>a DEF Scripts, PCs, IInv, TypeOK
  <2>2. proc' \in [Agents -> Scripts] /\ \A b \in Agents \ {a} : proc'[b] = proc[b]
    BY <1>5, <2>1 DEF Open, IInv, TypeOK
  <2> QED
    BY <1>5, <2>1, <2>2 DEF Open, IInv, TypeOK, LocksHeld, InsideCurrent, Inside, At
<1>6. ASSUME NEW a \in Agents, Lock(a) PROVE IInv'
  BY <1>6 DEF Lock, Goto, Scripts, PCs, IInv, TypeOK, LocksHeld, InsideCurrent, Inside, At
<1>7. ASSUME NEW a \in Agents, Stat(a) PROVE IInv'
  BY <1>7 DEF Stat, SameInode, Goto, Scripts, PCs,
              IInv, TypeOK, LocksHeld, InsideCurrent, Inside, At
<1>8. ASSUME NEW a \in Agents, Restart(a) PROVE IInv'
  <2>a. proc[a] \in Scripts /\ proc'[a] = [proc[a] EXCEPT !.pc = "open", !.fd = NoInode]
    BY <1>8 DEF Restart, IInv, TypeOK
  <2>1. proc'[a].pc = "open" /\ proc'[a].fd = NoInode /\ proc'[a].cmd = proc[a].cmd
        /\ proc'[a].scenario = proc[a].scenario /\ proc'[a].to = proc[a].to
        /\ proc'[a] \in Scripts
    BY <2>a DEF Scripts, PCs
  <2>2. proc' \in [Agents -> Scripts] /\ \A b \in Agents \ {a} : proc'[b] = proc[b]
    BY <1>8, <2>1 DEF Restart, IInv, TypeOK
  <2> QED
    BY <1>8, <2>1, <2>2 DEF Restart, Unlock, IInv, TypeOK, LocksHeld, InsideCurrent, Inside, At
<1>9. ASSUME NEW a \in Agents, Read(a) PROVE IInv'
  <2>0. proc[a].cmd = "claim" =>
          /\ Matrix!Unclaimed(matrix) # {}
          /\ Matrix!FirstPending(matrix) \in Scenarios
    BY <1>9, FirstPendingIsAScenario DEF Read, NothingToDo, Matrix!Unclaimed, IInv, TypeOK
  <2>a. /\ proc[a] \in Scripts
        /\ proc'[a] = [proc[a] EXCEPT !.pc = "replace", !.seen = matrix,
                                         !.scenario = Chosen(a)]
    BY <1>9 DEF Read, IInv, TypeOK
  <2>1. proc'[a].pc = "replace" /\ proc'[a].fd = proc[a].fd /\ proc'[a].cmd = proc[a].cmd
        /\ proc'[a].seen = matrix /\ proc'[a].to = proc[a].to
        /\ proc'[a].scenario = Chosen(a)
    BY <2>a DEF Scripts
  <2>2. proc'[a] \in Scripts
    BY ZenonT(40), <2>0, <2>a DEF Chosen, Scripts, PCs, IInv, TypeOK
  <2>3. proc' \in [Agents -> Scripts] /\ \A b \in Agents \ {a} : proc'[b] = proc[b]
    BY <1>9, <2>2 DEF Read, IInv, TypeOK
  <2> QED
    BY <1>9, <2>0, <2>1, <2>3 DEF Read, Chosen, IInv, TypeOK, LocksHeld, InsideCurrent, Inside, At
<1>10. ASSUME NEW a \in Agents, End(a), mine' \in [Agents -> Scenarios \cup {NoScenario}]
       PROVE IInv'
  <2>1. IdleProc \in Scripts /\ IdleProc.pc = "idle"
    BY <1>n DEF IdleProc, Scripts, PCs, AllCommands
  <2> QED
    BY <1>10, <2>1 DEF End, Unlock, IInv, TypeOK, LocksHeld, InsideCurrent, Inside, At
<1>11. ASSUME NEW a \in Agents, Replace(a) PROVE IInv'
  <2>a. proc[a] \in Scripts /\ proc'[a] = [proc[a] EXCEPT !.pc = "close", !.seen = NewMatrix]
    BY <1>11 DEF Replace, IInv, TypeOK
  <2>1. proc'[a].pc = "close" /\ proc'[a].fd = proc[a].fd /\ proc'[a].cmd = proc[a].cmd
        /\ proc'[a].scenario = proc[a].scenario /\ proc'[a].to = proc[a].to
        /\ proc'[a] \in Scripts
    BY <2>a, <1>n DEF Scripts, PCs
  <2>2. proc' \in [Agents -> Scripts] /\ \A b \in Agents \ {a} : proc'[b] = proc[b]
    BY <1>11, <2>1 DEF Replace, IInv, TypeOK
  <2>3. \A b \in Agents \ {a} : ~Inside(b)
    BY <1>11 DEF Replace, IInv, TypeOK, LocksHeld, InsideCurrent, Inside, At
  <2> QED
    BY <1>11, <2>1, <2>2, <2>3, MutatedIsAMatrix
       DEF Replace, FreeInodes, IInv, TypeOK, LocksHeld, InsideCurrent, Inside, At
<1>12. CASE UNCHANGED vars
  BY <1>12 DEF vars, IInv, TypeOK, LocksHeld, InsideCurrent, Inside, At
<1>13. ASSUME NEW a \in Agents, RunClaim(a) \/ RunReset(a) \/ RunBlock(a) \/ RunFinish(a)
       PROVE IInv'
  <2>0. mine' \in [Agents -> Scenarios \cup {NoScenario}]
    BY <1>13 DEF RunClaim, RunReset, RunBlock, RunFinish, IInv, TypeOK
  <2>1. CASE RunClaim(a)
    <3>1. "claim" \in Commands /\ Run(a, "claim", NoScenario, Matrix!Pending)
      BY <2>1 DEF RunClaim, Run
    <3> QED
      BY <1>1, <1>n, <2>0, <3>1
  <2>2. CASE RunReset(a)
    <3>1. "reset" \in Commands /\ Run(a, "reset", NoScenario, Matrix!Pending)
      BY <2>2 DEF RunReset, Run
    <3> QED
      BY <1>1, <1>n, <2>0, <3>1
  <2>3. CASE RunBlock(a)
    <3>1. Matrix!Stat("blocked", NoAgent) \in Matrix!Posted \cap Matrix!Statuses
      BY DEF Matrix!Posted, Matrix!Statuses
    <3>2. PICK s \in Scenarios : Run(a, "block", s, Matrix!Stat("blocked", NoAgent))
      BY <2>3 DEF RunBlock
    <3>3. "block" \in Commands
      BY <3>2 DEF Run
    <3> QED
      BY <1>1, <2>0, <3>1, <3>2, <3>3
  <2>4. CASE RunFinish(a)
    <3>1. PICK tag \in {"passed", "failed"} :
             Run(a, "finish", mine[a], Matrix!Stat(tag, NoAgent))
      BY <2>4 DEF RunFinish
    <3>2. Matrix!Stat(tag, NoAgent) \in Matrix!Posted \cap Matrix!Statuses
      BY DEF Matrix!Posted, Matrix!Statuses
    <3>3. "finish" \in Commands /\ mine[a] \in Scenarios
      BY <2>4, <3>1 DEF RunFinish, Run, IInv, TypeOK
    <3> QED
      BY <1>1, <2>0, <3>1, <3>2, <3>3
  <2> QED
    BY <1>13, <2>1, <2>2, <2>3, <2>4
<1>14. ASSUME NEW a \in Agents, ReadNothing(a) \/ Close(a) \/ Crash(a) PROVE IInv'
  <2>1. mine' \in [Agents -> Scenarios \cup {NoScenario}]
    BY <1>14 DEF ReadNothing, Close, Crash, Scripts, IInv, TypeOK
  <2> QED
    BY <1>10, <1>14, <2>1 DEF ReadNothing, Close, Crash
<1> QED
  BY <1>5, <1>6, <1>7, <1>8, <1>9, <1>11, <1>12, <1>13, <1>14 DEF Next, Step

\* The invariant behind the properties of the transactions.
THEOREM Invariant == Spec => []IInv
  BY InitIInv, StepIInv, PTL DEF Spec

\* Variables keep their types.
THEOREM TypeCorrect == Spec => []TypeOK
  BY Invariant, PTL DEF IInv

\* Only one script at a time is past the inode check: the flock of a replaced
\* inode is worth nothing.
THEOREM MutualExclusion == Spec => []OneWriter
<1>1. IInv => OneWriter
  BY DEF IInv, TypeOK, LocksHeld, InsideCurrent, Inside, OneWriter
<1> QED
  BY <1>1, Invariant, PTL

\* Every commit is one atomic operation on the matrix as it is at that moment:
\* no claim, update or reset is lost or undone by a stale copy.
THEOREM Refinement == Spec => ImplementsMatrixStatus
<1>1. Init => Matrix!Init
  BY DEF Init, Matrix!Init, NewMatrix
<1>2. IInv /\ [Next]_vars => [Matrix!Next]_matrix
  <2> SUFFICES ASSUME IInv, [Next]_vars, matrix' # matrix PROVE Matrix!Next
    OBVIOUS
  <2>1. PICK a \in Agents : Replace(a)
    BY DEF Next, Step, vars, RunClaim, RunFinish, RunBlock, RunReset, Run, Open, Lock,
           Stat, Restart, Read, ReadNothing, Close, Crash, End
  <2>2. proc[a].seen = matrix /\ matrix' = Mutated(a)
    BY <2>1 DEF IInv, InsideCurrent, Replace, At
  <2>3. CASE proc[a].cmd = "claim"
    <3>1. Matrix!Claim(a)
      BY <2>1, <2>2, <2>3 DEF Matrix!Claim, Mutated, IInv, InsideCurrent, Replace, At
    <3> QED
      BY <3>1 DEF Matrix!Next
  <2>4. CASE proc[a].cmd = "reset"
    BY <2>2, <2>4 DEF Mutated, Matrix!Reset, Matrix!Next
  <2>5. CASE proc[a].cmd \in {"finish", "block"}
    <3>1. proc[a].scenario \in Scenarios /\ proc[a].to \in Matrix!Posted
      BY <2>1, <2>5 DEF IInv, InsideCurrent, Replace, At
    <3>2. Matrix!SetStatus(proc[a].scenario, proc[a].to)
      BY <2>2, <2>5 DEF Mutated, Matrix!SetStatus
    <3> QED
      BY <3>1, <3>2 DEF Matrix!Next
  <2> QED
    BY <2>3, <2>4, <2>5 DEF IInv, TypeOK, Scripts, AllCommands
<1> QED
  BY <1>1, <1>2, Invariant, PTL DEF Spec, ImplementsMatrixStatus, Matrix!Spec

-----------------------------------------------------------------------------
\* An agent has a scenario from the commit of its claim to the commit of its
\* verdict.
Has(a, s) ==
    \/ mine[a] = s
    \/ /\ proc[a].scenario = s
       /\ \/ proc[a].cmd = "claim" /\ At(a, "close")
          \/ proc[a].cmd = "finish" /\ proc[a].pc \in {"open", "lock", "stat", "read", "replace"}

Blocked == Matrix!Stat("blocked", NoAgent)

HoldInv ==
    /\ \A a \in Agents, s \in Scenarios : Has(a, s) => matrix[s] \in {Matrix!Claimed(a), Blocked}
    /\ \A a, b \in Agents, s \in Scenarios : Has(a, s) /\ Has(b, s) => a = b
    /\ \A a \in Agents : ~At(a, "idle") =>
          /\ proc[a].cmd = "block" => proc[a].to = Blocked
          /\ proc[a].cmd = "finish" => mine[a] = NoScenario

\* Steps that commit nothing: nobody comes to have a scenario.
LEMMA HoldQuiet ==
    ASSUME HoldInv, UNCHANGED matrix,
           \A a \in Agents, s \in Scenarios : Has(a, s)' => Has(a, s),
           \A a \in Agents : ~At(a, "idle")' =>
              /\ proc'[a].cmd = "block" => proc'[a].to = Blocked
              /\ proc'[a].cmd = "finish" => mine'[a] = NoScenario
    PROVE  HoldInv'
BY DEF HoldInv, Blocked, Matrix!Stat, Matrix!Claimed

LEMMA HoldStep == IInv /\ NoReset /\ HoldInv /\ [Next]_vars => HoldInv'
<1> SUFFICES ASSUME IInv, NoReset, HoldInv, [Next]_vars PROVE HoldInv'
  OBVIOUS
<1>1. proc \in [Agents -> Scripts] /\ mine \in [Agents -> Scenarios \cup {NoScenario}]
  BY DEF IInv, TypeOK
<1>2. ASSUME NEW a \in Agents, NEW c, NEW s, NEW st, Run(a, c, s, st),
             c = "finish" => s = mine[a] /\ mine' = [mine EXCEPT ![a] = NoScenario],
             c = "block" => st = Blocked,
             c # "finish" => UNCHANGED mine
      PROVE  HoldInv'
  <2>1. /\ proc'[a].pc = "open" /\ proc'[a].cmd = c
        /\ proc'[a].scenario = s /\ proc'[a].to = st
        /\ \A b \in Agents \ {a} : proc'[b] = proc[b]
    BY <1>1, <1>2 DEF Run, IdleProc
  <2>2. ASSUME NEW b \in Agents, NEW t \in Scenarios, Has(b, t)' PROVE Has(b, t)
    BY <1>1, <1>2, <2>1, <2>2 DEF Has, At
  <2>3. UNCHANGED matrix
    BY <1>2 DEF Run
  <2>4. ASSUME NEW b \in Agents, ~At(b, "idle")'
        PROVE  /\ proc'[b].cmd = "block" => proc'[b].to = Blocked
               /\ proc'[b].cmd = "finish" => mine'[b] = NoScenario
    BY <1>1, <1>2, <2>1, <2>4 DEF HoldInv, At
  <2>5. QED
    BY <2>2, <2>3, <2>4, HoldQuiet
<1>3. ASSUME NEW a \in Agents, RunClaim(a) \/ RunReset(a) \/ RunBlock(a) \/ RunFinish(a)
      PROVE  HoldInv'
  <2>1. CASE RunClaim(a) \/ RunReset(a)
    BY <1>2, <2>1 DEF RunClaim, RunReset
  <2>2. CASE RunBlock(a)
    BY <1>2, <2>2 DEF RunBlock, Blocked
  <2>3. CASE RunFinish(a)
    BY <1>2, <2>3 DEF RunFinish
  <2>4. QED
    BY <1>3, <2>1, <2>2, <2>3
<1>4. ASSUME NEW a \in Agents, Open(a) \/ Lock(a) \/ Stat(a) \/ Restart(a)
      PROVE  HoldInv'
  <2>1. /\ proc'[a].pc \in {"open", "lock", "stat", "read"}
        /\ proc[a].pc \in {"open", "lock", "stat"}
        /\ proc'[a].cmd = proc[a].cmd /\ proc'[a].scenario = proc[a].scenario
        /\ proc'[a].to = proc[a].to
        /\ \A b \in Agents \ {a} : proc'[b] = proc[b]
        /\ UNCHANGED <<matrix, mine>>
    <3>1. CASE Open(a)
      BY <1>1, <3>1 DEF Open, At, Scripts
    <3>2. CASE Lock(a) \/ Stat(a)
      BY <1>1, <3>2 DEF Lock, Stat, At, Goto, Scripts
    <3>3. CASE Restart(a)
      BY <1>1, <3>3 DEF Restart, At, Scripts
    <3>4. QED
      BY <1>4, <3>1, <3>2, <3>3
  <2>2. ASSUME NEW b \in Agents, NEW t \in Scenarios, Has(b, t)' PROVE Has(b, t)
    BY <2>1, <2>2 DEF Has, At
  <2>3. ASSUME NEW b \in Agents, ~At(b, "idle")'
        PROVE  /\ proc'[b].cmd = "block" => proc'[b].to = Blocked
               /\ proc'[b].cmd = "finish" => mine'[b] = NoScenario
    BY <2>1, <2>3 DEF HoldInv, At
  <2>4. QED
    BY <2>1, <2>2, <2>3, HoldQuiet
<1>5. ASSUME NEW a \in Agents, Read(a) PROVE HoldInv'
  <2>1. /\ proc'[a].pc = "replace" /\ proc[a].pc = "read"
        /\ proc'[a].cmd = proc[a].cmd /\ proc'[a].to = proc[a].to
        /\ proc[a].cmd # "claim" => proc'[a].scenario = proc[a].scenario
        /\ \A b \in Agents \ {a} : proc'[b] = proc[b]
        /\ UNCHANGED <<matrix, mine>>
    BY <1>1, <1>5 DEF Read, Chosen, At, Scripts
  <2>2. ASSUME NEW b \in Agents, NEW t \in Scenarios, Has(b, t)' PROVE Has(b, t)
    BY <2>1, <2>2 DEF Has, At
  <2>3. ASSUME NEW b \in Agents, ~At(b, "idle")'
        PROVE  /\ proc'[b].cmd = "block" => proc'[b].to = Blocked
               /\ proc'[b].cmd = "finish" => mine'[b] = NoScenario
    BY <2>1, <2>3 DEF HoldInv, At
  <2>4. QED
    BY <2>1, <2>2, <2>3, HoldQuiet
<1>6. ASSUME NEW a \in Agents, ReadNothing(a) \/ Close(a) \/ Crash(a) PROVE HoldInv'
  <2>1. /\ proc'[a].pc = "idle"
        /\ \A b \in Agents \ {a} : proc'[b] = proc[b] /\ mine'[b] = mine[b]
        /\ UNCHANGED matrix
    BY <1>1, <1>6 DEF ReadNothing, Close, Crash, End, IdleProc
  <2>2. \/ mine'[a] = mine[a]
        \/ mine'[a] = NoScenario
        \/ mine'[a] = proc[a].scenario /\ proc[a].cmd = "claim" /\ At(a, "close")
    BY <1>1, <1>6 DEF ReadNothing, Close, Crash
  <2>3. ASSUME NEW b \in Agents, NEW t \in Scenarios, Has(b, t)' PROVE Has(b, t)
    BY <2>1, <2>2, <2>3 DEF Has, At
  <2>4. ASSUME NEW b \in Agents, ~At(b, "idle")'
        PROVE  /\ proc'[b].cmd = "block" => proc'[b].to = Blocked
               /\ proc'[b].cmd = "finish" => mine'[b] = NoScenario
    BY <2>1, <2>4 DEF HoldInv, At
  <2>5. QED
    BY <2>1, <2>3, <2>4, HoldQuiet
<1>7. ASSUME NEW a \in Agents, Replace(a) PROVE HoldInv'
  <2>1. /\ proc'[a].pc = "close" /\ proc[a].pc = "replace"
        /\ proc'[a].cmd = proc[a].cmd /\ proc'[a].scenario = proc[a].scenario
        /\ proc'[a].to = proc[a].to
        /\ \A b \in Agents \ {a} : proc'[b] = proc[b]
        /\ UNCHANGED mine
    BY <1>1, <1>7 DEF Replace, At, Scripts
  <2>2. \A b \in Agents : ~At(b, "idle")' =>
              /\ proc'[b].cmd = "block" => proc'[b].to = Blocked
              /\ proc'[b].cmd = "finish" => mine'[b] = NoScenario
    BY <2>1 DEF HoldInv, At
  <2>3. proc[a].seen = matrix /\ matrix' = Mutated(a) /\ matrix \in [Scenarios -> Matrix!Statuses]
    BY <1>7 DEF IInv, TypeOK, InsideCurrent, Replace, At, Matrix!Matrices
  <2>4. CASE proc[a].cmd = "claim"
    <3>1. PICK s \in Scenarios : s = proc[a].scenario /\ matrix[s] = Matrix!Pending
      BY <1>7, <2>3, <2>4, FirstPendingIsAScenario
         DEF IInv, TypeOK, InsideCurrent, Replace, At, Matrix!Unclaimed
    <3>2. \A b \in Agents : ~Has(b, s)
      <4>1. \A b \in Agents : Matrix!Pending \notin {Matrix!Claimed(b), Blocked}
        BY DEF Blocked, Matrix!Pending, Matrix!Claimed, Matrix!Stat
      <4>2. QED
        BY <3>1, <4>1 DEF HoldInv
    <3>3. matrix' = [matrix EXCEPT ![s] = Matrix!Claimed(a)]
      BY <2>3, <2>4, <3>1 DEF Mutated, Matrix!AfterStatus
    <3>4. ASSUME NEW b \in Agents, NEW t \in Scenarios, Has(b, t)'
          PROVE  Has(b, t) \/ (b = a /\ t = s)
      BY <2>1, <3>1, <3>4 DEF Has, At
    <3>5. ASSUME NEW b \in Agents, NEW t \in Scenarios, Has(b, t)'
          PROVE  matrix'[t] \in {Matrix!Claimed(b), Blocked}
      <4>1. CASE t = s
        <5>1. b = a
          BY <3>2, <3>4, <3>5, <4>1
        <5>2. QED
          BY <2>3, <3>3, <4>1, <5>1
      <4>2. CASE t # s
        <5>1. matrix'[t] = matrix[t]
          BY <2>3, <3>3, <4>2
        <5>2. Has(b, t)
          BY <3>4, <3>5, <4>2
        <5>3. QED
          BY <5>1, <5>2 DEF HoldInv
      <4>3. QED
        BY <4>1, <4>2
    <3>6. ASSUME NEW b \in Agents, NEW c \in Agents, NEW t \in Scenarios,
                 Has(b, t)', Has(c, t)'
          PROVE  b = c
      BY <3>2, <3>4, <3>6 DEF HoldInv
    <3>7. QED
      BY <2>2, <3>5, <3>6 DEF HoldInv, Blocked, Matrix!Stat, Matrix!Claimed
  <2>5. CASE proc[a].cmd \in {"finish", "block"}
    <3>1. PICK s \in Scenarios : s = proc[a].scenario
      BY <1>7, <2>5 DEF IInv, InsideCurrent, Replace, At
    <3>2. matrix' = [matrix EXCEPT ![s] = proc[a].to]
      BY <2>3, <2>5, <3>1 DEF Mutated, Matrix!AfterStatus
    <3>3. ASSUME NEW b \in Agents, NEW t \in Scenarios, Has(b, t)' PROVE Has(b, t)
      BY <2>1, <2>5, <3>3 DEF Has, At
    <3>4. ASSUME proc[a].cmd = "finish", NEW b \in Agents, Has(b, s)' PROVE FALSE
      <4>1. Has(a, s)
        BY <2>1, <3>1, <3>4 DEF Has
      <4>2. b = a
        BY <3>1, <3>3, <3>4, <4>1 DEF HoldInv
      <4>3. mine[a] = NoScenario
        BY <2>1, <3>4 DEF HoldInv, At
      <4>4. QED
        BY <2>1, <3>1, <3>4, <4>2, <4>3 DEF Has, At
    <3>5. proc[a].cmd = "block" => proc[a].to = Blocked
      BY <2>1 DEF HoldInv, At
    <3>6. ASSUME NEW b \in Agents, NEW t \in Scenarios, Has(b, t)'
          PROVE  matrix'[t] \in {Matrix!Claimed(b), Blocked}
      <4>1. CASE t = s
        BY <2>3, <2>5, <3>1, <3>2, <3>4, <3>5, <3>6, <4>1
      <4>2. CASE t # s
        BY <2>3, <3>2, <3>3, <3>6, <4>2 DEF HoldInv
      <4>3. QED
        BY <4>1, <4>2
    <3>7. QED
      BY <2>2, <3>3, <3>6 DEF HoldInv, Blocked, Matrix!Stat, Matrix!Claimed
  <2>6. QED
    BY <1>1, <2>4, <2>5 DEF NoReset, Scripts, AllCommands
<1>8. CASE UNCHANGED vars
  BY <1>8 DEF vars, HoldInv, Has, At, Blocked, Matrix!Stat, Matrix!Claimed
<1>9. QED
  BY <1>3, <1>4, <1>5, <1>6, <1>7, <1>8 DEF Next, Step

\* While nobody resets the matrix, a scenario that a claim handed out stays with
\* its agent until that posts its verdict, through crashes, restarts on
\* replaced inodes and the commits of others.
THEOREM ClaimsStand == Spec => ClaimStands
<1>1. Init => HoldInv
  BY DEF Init, HoldInv, Has, At, IdleProc
<1>2. IInv /\ HoldInv => ClaimKept
  BY DEF IInv, TypeOK, HoldInv, Has, Blocked, ClaimKept
<1>3. QED
  BY <1>1, <1>2, HoldStep, Invariant, PTL DEF Spec, ClaimStands
=============================================================================
