\* Two agents with every script and one scenario to fight over.  No symmetry,
\* since liveness is checked.
CONSTANTS
    Agents = {a1, a2}
    Scenarios <- OneScenario
    NoAgent = NoAgent
    NoInode = NoInode
    NoScenario = NoScenario
    Commands <- AllCommands
    Inodes = {i1, i2, i3}
SPECIFICATION FairSpec
INVARIANTS IInv
PROPERTIES ImplementsMatrixStatus ClaimStands ScriptEnds
CHECK_DEADLOCK FALSE
