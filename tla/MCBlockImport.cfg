SPECIFICATION Spec
CONSTANTS
    MaxHeight = 1
    Content = {c1, c2, bad}
    Valid = {c1, c2}
    None = None
    Partial = Partial
    MaxChanges = 2
    MaxCrashes = 1
SYMMETRY Symmetry
INVARIANTS
    TypeOK
    ImportedWasValidated
    ReportedIsValid
PROPERTY
    ChainGrows
