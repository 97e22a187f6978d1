SPECIFICATION Spec
CONSTANTS
    c1 = c1
    c2 = c2
    alice = alice
    bob = bob
    srcA = srcA
    srcB = srcB
    srcBad = srcBad
    None = None
    Contract = {c1, c2}
    Account = {alice, bob}
    Source = {srcA, srcB, srcBad}
    FnName = {"Initialize", "Add", "Claim", "reset", "Get"}
    Key = {"owner", "more"}
    Op = {"regA", "regB", "batch", "claim", "half", "hidden"}
    Fact <- MCFact
    Program <- MCProgram
    Auth <- MCAuth
    Time = {10, 20}
    MaxCallItems = 3
    MaxEntries = 2
    GasLimit = 8
    RestoreGas = 1
    SnapshotLimit = 4
    MaxProposal = 2
INVARIANTS
    TypeOK
    Coherent
    OneRegistration
    NoLostUpdate
    AllOrNothing
    InclusionTime
PROPERTIES
    RegistrationIsFinal
    ImplementsLedger
CHECK_DEADLOCK FALSE
