SPECIFICATION Spec
CONSTANTS
    Package = {1, 2, 3}
    Allowed <- MCAllowed
    HostABI = HostABI
    Machine = {m1, m2}
SYMMETRY Symmetry
INVARIANTS
    TypeOK
    MachinesGetWhatTheyNeed
