CONSTANTS
    Schemas <- MCSchemas
    Nesting = 3
    Strings = {1, 2}
    Invalid = {}
    Replacement = 2
    Numbers = {7}
    Null = Null
    Depth = 4
    MaxLive = 2
    MaxMapEntries = 3
    MaxSliceItems = 3
    MaxSnapshotNodes = 9
SPECIFICATION CodecSpec
INVARIANTS
    CodecTypeOK
    AdmittedIsKept
    QueriesTellTheState
PROPERTIES
    RestoreIsFaithful
