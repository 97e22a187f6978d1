SPECIFICATION Spec
CONSTANTS
    rules1 = rules1
    rules2 = rules2
    sigA = sigA
    sigB = sigB
    wide = wide
    strict = strict
    Refused = Refused
    Absent = Absent
    Node = {n1, n2}
    Worker = {w1, w2}
    Contract = {c1}
    Source = {wide, strict}
    Ruleset = {rules1, rules2}
    Format = {f1, f2}
    Schema = {sigA, sigB}
    Analysis <- MCAnalysis
SYMMETRY Symmetry
INVARIANTS
    TypeOK
    SchemaIsAnalysed
    AnalysedOnce
