SPECIFICATION FairSpec
CONSTANTS
    c1 = c1
    c2 = c2
    alice = alice
    bob = bob
    srcA = srcA
    srcB = srcB
    srcBad = srcBad
    None = None
    Contract = {c1, c2}
    Account = {alice, bob}
    Source = {srcA, srcB, srcBad}
    FnName = {"Initialize", "Add", "Claim", "reset", "Get"}
    Key = {"owner", "more"}
    Op = {"regA", "regBob", "regBad", "regArg", "batch", "heavy", "badArg", "init"}
    Fact <- MCFact
    Program <- MCProgram
    Auth <- MCAuth
    Time = {10}
    MaxCallItems = 3
    MaxEntries = 2
    GasLimit = 6
    RestoreGas = 1
    SnapshotLimit = 2
    MaxProposal = 2
INVARIANTS
    Authorised
    Restorable
    Inductive
PROPERTY
    ProposalResolves
CHECK_DEADLOCK FALSE
