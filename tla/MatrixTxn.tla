----------------------------- MODULE MatrixTxn -----------------------------
(***************************************************************************)
(* The locked read-modify-replace of test-matrix.json                      *)
(* (scripts/_matrix_txn.py) under the agents of docs/multi-agent-          *)
(* protocol.md: each agent runs claim-scenario.sh, works on what it got,   *)
(* and posts a result with update-scenario-status.sh; anyone may run       *)
(* reset-non-passed.sh.                                                    *)
(*                                                                         *)
(* flock(2) locks an inode, and a commit renames a fresh inode over the    *)
(* path.  An inode nobody names or has open any more is free and may be    *)
(* used again.  A process may die at any point; the kernel then drops its  *)
(* lock.                                                                   *)
(***************************************************************************)
EXTENDS Integers

CONSTANTS
    Agents,      \* sessions, each running one script at a time
    Scenarios,   \* the scenarios, numbered in file order
    NoAgent,     \* no session: an unlocked inode, a status without one
    NoInode,     \* no descriptor open
    NoScenario,  \* an agent that holds no claim
    Inodes,      \* the inodes of the matrix's file system
    Commands     \* which uses of the scripts occur

AllCommands == {"claim", "finish", "block", "reset"}

ASSUME AgentsAssumption == NoAgent \notin Agents
\* A JSON object keeps its order: any set of scenarios has a first one.
ASSUME ScenariosAssumption ==
    /\ Scenarios \subseteq Int /\ NoScenario \notin Scenarios
    /\ \A S \in (SUBSET Scenarios) \ {{}} : \E s \in S : \A t \in S : s <= t
ASSUME InodesAssumption == NoInode \notin Inodes
ASSUME CommandsAssumption == Commands \subseteq AllCommands
VARIABLES
    path,      \* the inode test-matrix.json names
    matrix,    \* the matrix that inode holds
    lock,      \* the agent whose script holds the flock on each inode
    proc,      \* each agent's script: where it is, what it was run for
    mine       \* the scenario each agent has been given by a claim

vars == <<path, matrix, lock, proc, mine>>

Matrix == INSTANCE MatrixStatus WITH status <- matrix

PCs == {"idle", "open", "lock", "stat", "read", "replace", "close"}

NewMatrix == [s \in Scenarios |-> Matrix!Pending]

IdleProc == [pc |-> "idle", cmd |-> "claim", scenario |-> NoScenario,
             to |-> Matrix!Pending, fd |-> NoInode, seen |-> NewMatrix]

Scripts == [pc : PCs, cmd : AllCommands, scenario : Scenarios \cup {NoScenario},
            to : Matrix!Statuses, fd : Inodes \cup {NoInode}, seen : Matrix!Matrices]

TypeOK ==
    /\ path \in Inodes
    /\ matrix \in Matrix!Matrices
    /\ lock \in [Inodes -> Agents \cup {NoAgent}]
    /\ proc \in [Agents -> Scripts]
    /\ mine \in [Agents -> Scenarios \cup {NoScenario}]

Init ==
    /\ path \in Inodes
    /\ matrix = NewMatrix
    /\ lock = [i \in Inodes |-> NoAgent]
    /\ proc = [a \in Agents |-> IdleProc]
    /\ mine = [a \in Agents |-> NoScenario]

At(a, pc) == proc[a].pc = pc
Goto(a, pc) == proc' = [proc EXCEPT ![a].pc = pc]

\* Closing the last descriptor on the inode releases the agent's lock on it.
Unlock(a) == lock' = [i \in Inodes |-> IF lock[i] = a THEN NoAgent ELSE lock[i]]

-----------------------------------------------------------------------------
(* Running a script.                                                       *)

Run(a, cmd, s, st) ==
    /\ At(a, "idle")
    /\ cmd \in Commands
    /\ proc' = [proc EXCEPT ![a] = [IdleProc EXCEPT !.pc = "open", !.cmd = cmd,
                                                    !.scenario = s, !.to = st]]
    /\ UNCHANGED <<path, matrix, lock>>

RunClaim(a) ==
    /\ mine[a] = NoScenario
    /\ Run(a, "claim", NoScenario, Matrix!Pending)
    /\ UNCHANGED mine

\* The agent posts the verdict on the scenario it was given, and forgets it.
RunFinish(a) ==
    /\ mine[a] # NoScenario
    /\ \E tag \in {"passed", "failed"} :
          Run(a, "finish", mine[a], Matrix!Stat(tag, NoAgent))
    /\ mine' = [mine EXCEPT ![a] = NoScenario]

\* any -> blocked-needs-<feature>, by any agent, on any scenario.
RunBlock(a) ==
    /\ \E s \in Scenarios : Run(a, "block", s, Matrix!Stat("blocked", NoAgent))
    /\ UNCHANGED mine

RunReset(a) ==
    /\ Run(a, "reset", NoScenario, Matrix!Pending)
    /\ UNCHANGED mine

-----------------------------------------------------------------------------
(* The transaction.                                                        *)

Open(a) ==
    /\ At(a, "open")
    /\ proc' = [proc EXCEPT ![a] = [@ EXCEPT !.pc = "lock", !.fd = path]]
    /\ UNCHANGED <<path, matrix, lock, mine>>

\* Mutant: a shared lock.
LockShared(a) ==
    /\ At(a, "lock")
    /\ lock' = [lock EXCEPT ![proc[a].fd] = a]
    /\ Goto(a, "stat")
    /\ UNCHANGED <<path, matrix, mine>>

Lock(a) ==
    /\ At(a, "lock")
    /\ lock[proc[a].fd] = NoAgent
    /\ lock' = [lock EXCEPT ![proc[a].fd] = a]
    /\ Goto(a, "stat")
    /\ UNCHANGED <<path, matrix, mine>>

\* Mutant: the lock is trusted without comparing inodes.
InodeUnchecked(a) == TRUE

\* Does the path still name the inode that was locked?
SameInode(a) == proc[a].fd = path

Stat(a) ==
    /\ At(a, "stat")
    /\ SameInode(a)
    /\ Goto(a, "read")
    /\ UNCHANGED <<path, matrix, lock, mine>>

\* Mutant: the retry waits for the path to come back instead of reopening it.
RestartWithoutReopen(a) ==
    /\ At(a, "stat")
    /\ ~SameInode(a)
    /\ UNCHANGED vars

Restart(a) ==
    /\ At(a, "stat")
    /\ ~SameInode(a)
    /\ Unlock(a)
    /\ proc' = [proc EXCEPT ![a] = [@ EXCEPT !.pc = "open", !.fd = NoInode]]
    /\ UNCHANGED <<path, matrix, mine>>

NothingToDo(a) == proc[a].cmd = "claim" /\ Matrix!Unclaimed(matrix) = {}

\* A claim takes the first pending scenario.
Chosen(a) == IF proc[a].cmd = "claim" THEN Matrix!FirstPending(matrix)
                                      ELSE proc[a].scenario

\* The matrix is read through the descriptor, which SameInode has shown to be
\* the inode the path names: its content is `matrix`.
Read(a) ==
    /\ At(a, "read")
    /\ ~NothingToDo(a)
    /\ proc' = [proc EXCEPT ![a] =
          [@ EXCEPT !.pc = "replace", !.seen = matrix, !.scenario = Chosen(a)]]
    /\ UNCHANGED <<path, matrix, lock, mine>>

\* The body of the `with` block, applied to what was read.
Mutated(a) ==
    CASE proc[a].cmd = "claim" -> Matrix!AfterStatus(proc[a].seen, proc[a].scenario, Matrix!Claimed(a))
      [] proc[a].cmd = "reset" -> Matrix!AfterReset(proc[a].seen)
      [] OTHER -> Matrix!AfterStatus(proc[a].seen, proc[a].scenario, proc[a].to)

\* The script ends: every descriptor goes and with them the lock.
End(a) ==
    /\ Unlock(a)
    /\ proc' = [proc EXCEPT ![a] = IdleProc]
    /\ UNCHANGED <<path, matrix>>

\* Abandoned without writing: exit 1.
ReadNothing(a) ==
    /\ At(a, "read")
    /\ NothingToDo(a)
    /\ End(a)
    /\ UNCHANGED mine

FreeInodes == Inodes \ ({path} \cup {proc[b].fd : b \in Agents})

\* The finished temp file is renamed over the path with the lock still held.
Replace(a) ==
    /\ At(a, "replace")
    /\ path' \in FreeInodes
    /\ matrix' = Mutated(a)
    /\ proc' = [proc EXCEPT ![a] = [@ EXCEPT !.pc = "close", !.seen = NewMatrix]]
    /\ UNCHANGED <<lock, mine>>

\* After the rename the lock goes, and a claim prints what it picked.
Close(a) ==
    /\ At(a, "close")
    /\ End(a)
    /\ mine' = IF proc[a].cmd = "claim"
               THEN [mine EXCEPT ![a] = proc[a].scenario] ELSE mine

\* The script and its agent die, before or after the rename.
Crash(a) ==
    /\ ~At(a, "idle")
    /\ End(a)
    /\ mine' = [mine EXCEPT ![a] = NoScenario]

Step(a) ==
    \/ Open(a) \/ Lock(a) \/ Stat(a) \/ Restart(a)
    \/ Read(a) \/ ReadNothing(a) \/ Replace(a) \/ Close(a)

Next == \E a \in Agents :
    \/ RunClaim(a) \/ RunFinish(a) \/ RunBlock(a) \/ RunReset(a)
    \/ Step(a)
    \/ Crash(a)

Spec == Init /\ [][Next]_vars

\* Scripts run on; flock(2) waiters are served, even if others come and go.
FairSpec == Spec /\ \A a \in Agents : WF_vars(Step(a)) /\ SF_vars(Lock(a))

-----------------------------------------------------------------------------
(* Correctness.                                                            *)

\* At most one script is between the inode check and the close: a waiter that
\* wakes with the lock of a replaced inode never gets past the check.
Inside(a) == proc[a].pc \in {"read", "replace"}

OneWriter == \A a, b \in Agents : Inside(a) /\ Inside(b) => a = b

\* The inductive invariant.  A script holds the flock of its descriptor from
\* the lock to the close and of no other inode, the inode of a script past the
\* check is the current one, and what it has read is the current matrix.
LocksHeld ==
    /\ \A a \in Agents : proc[a].pc \in {"stat", "read", "replace", "close"} =>
          proc[a].fd \in Inodes /\ lock[proc[a].fd] = a
    /\ \A i \in Inodes, a \in Agents : lock[i] = a =>
          proc[a].fd = i /\ proc[a].pc \in {"stat", "read", "replace", "close"}

InsideCurrent ==
    \A a \in Agents :
        /\ At(a, "lock") => proc[a].fd \in Inodes
        /\ Inside(a) => proc[a].fd = path
        /\ At(a, "replace") => proc[a].seen = matrix
        /\ At(a, "replace") /\ proc[a].cmd = "claim" =>
              /\ Matrix!Unclaimed(matrix) # {}
              /\ proc[a].scenario = Matrix!FirstPending(matrix)
        /\ ~At(a, "idle") /\ proc[a].cmd \in {"finish", "block"} =>
              proc[a].scenario \in Scenarios /\ proc[a].to \in Matrix!Posted

IInv == TypeOK /\ LocksHeld /\ InsideCurrent

\* In a matrix that is never reset, a claim stands until its agent posts the
\* result: nobody else's commit undoes it or gives the scenario to a second
\* agent.
ClaimKept ==
    \A a \in Agents : mine[a] # NoScenario =>
        matrix[mine[a]] \in {Matrix!Claimed(a), Matrix!Stat("blocked", NoAgent)}

NoReset == \A a \in Agents : proc[a].cmd # "reset"

ClaimStands == []NoReset => []ClaimKept

\* Every commit is one atomic claim, update or reset of the current matrix.
ImplementsMatrixStatus == Matrix!Spec

\* A script that was started ends, unless others go on committing for ever:
\* only a commit makes it start over, and no waiter of the lock is forgotten.
ScriptEnds ==
    \A a \in Agents : \/ []<>At(a, "idle")
                      \/ []<>(\E b \in Agents \ {a} : At(b, "close"))
=============================================================================
