CONSTANTS
    Scenarios = {"a", "ab"}
    Words = {"a", "ab", "g"}
    NoWord = NoWord
    Ops = {"vmop", "localop", "gated"}
    OpHost <- OpPlaceOf
    Gated = {"gated"}
    Ship = {"ship-to-vm", "ship-to-host"}
    Others = {"undeclared"}
    Hosts = {h1, h2}
    NoHost = NoHost
    NoFile = NoFile
    Letters = {0, 1, 26}
    Projects <- AnyProject
    Requests <- AnyRequest
SPECIFICATION FairSpec
INVARIANTS VMWorkFenced SelectionHonoured LocalRunsNeedNoVM RunnerReachesLease IInv
PROPERTIES InvocationEnds
CHECK_DEADLOCK FALSE
