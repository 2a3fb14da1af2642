---------------------------- MODULE MatrixStatus ----------------------------
(***************************************************************************)
(* What the matrix scripts promise: test-matrix.json holds one status per  *)
(* scenario and every claim, update and reset is a single atomic change of *)
(* the whole matrix.  MatrixTxn is shown to implement this.                *)
(***************************************************************************)
EXTENDS Integers

CONSTANTS
    Agents,      \* sessions working on the matrix
    Scenarios,   \* the scenarios, numbered in file order
    NoAgent      \* no session in a status

VARIABLE status

Stat(tag, agent) == [tag |-> tag, by |-> agent]
Pending == Stat("pending", NoAgent)
Claimed(a) == Stat("claimed", a)

\* What update-scenario-status.sh is used to post.  The session in passed-*
\* and failed-* is left out: nothing looks at it.
Posted == {Stat(tag, NoAgent) : tag \in {"passed", "failed", "blocked"}}

Statuses == {Pending} \cup {Claimed(a) : a \in Agents} \cup Posted
Matrices == [Scenarios -> Statuses]

Unclaimed(m) == {s \in Scenarios : m[s] = Pending}

\* The first pending scenario in file order.
FirstPending(m) ==
    CHOOSE s \in Unclaimed(m) : \A t \in Unclaimed(m) : s <= t

AfterStatus(m, s, st) == [m EXCEPT ![s] = st]
AfterReset(m) ==
    [s \in Scenarios |-> IF m[s].tag = "passed" THEN m[s] ELSE Pending]

Init == status = [s \in Scenarios |-> Pending]

Claim(a) == Unclaimed(status) # {} /\ status' = AfterStatus(status, FirstPending(status), Claimed(a))
SetStatus(s, st) == status' = AfterStatus(status, s, st)
Reset == status' = AfterReset(status)

Next ==
    \/ \E a \in Agents : Claim(a)
    \/ \E s \in Scenarios, st \in Posted : SetStatus(s, st)
    \/ Reset

Spec == Init /\ [][Next]_status
=============================================================================
