CONSTANTS
    Sources <- MCSources
    AllowedImports = {"mitum/chain", "strconv", "strings", "errors"}
    Nesting = 3
    MaxImports = 2
    MaxFunctions = 3
    MaxGlobals = 2
    MaxStructs = 2
    MaxStructFields = 2
    MaxDepth = 3
    MaxNodes = 30
SPECIFICATION Spec
CHECK_DEADLOCK FALSE
INVARIANTS
    StateTypesAsDocumented
    FunctionsAsDocumented
    SchemaSurvivesStorage
