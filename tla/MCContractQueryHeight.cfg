SPECIFICATION Spec
CONSTANTS
    Client = {q1}
    MaxHeight = 3
    MaxReceded = 0
INVARIANT
    HeightIsOfView
