SPECIFICATION Spec
CONSTANTS
    Lead = {l1, l2}
    Gen <- MCGen
    Keep = 2
    Mishaps = {"quiet"}
    MaxMishaps = 2
    MaxChange = 3
INVARIANTS RestoreFits
