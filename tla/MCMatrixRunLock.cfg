\* Two script processes for two runs, told apart since liveness is checked:
\* enough for an Acquire that reclaims, a guarded command and a late heartbeat
\* to meet, as a process may be any action of either run again and again.
CONSTANTS
    Procs = {p1, p2}
    r1 = r1
    r2 = r2
    Runs = {r1, r2}
    NoRun = NoRun
    NoProc = NoProc
    Lease <- LeaseOfRuns
    MaxClock = 3
SPECIFICATION FairSpec
INVARIANTS CommandsOfOwner RetiredStaysOut NoCircularWait IInv
PROPERTIES LiveLeaseKept ImplementsOwnership Finishes
CHECK_DEADLOCK FALSE
