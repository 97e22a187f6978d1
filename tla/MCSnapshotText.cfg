CONSTANTS
    Schemas <- TextSchemas
    Nesting = 3
    Strings = {1, 2, 3}
    Invalid = {3}
    Replacement = 2
    Numbers = {7}
    Null = Null
    Depth = 4
    MaxLive = 1
    MaxMapEntries = 3
    MaxSliceItems = 3
    MaxSnapshotNodes = 9
SPECIFICATION CodecSpec
PROPERTIES
    StringsSurvive
