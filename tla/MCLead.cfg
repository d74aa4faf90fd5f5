SPECIFICATION FairSpec
CONSTANTS
    Lead = {l1}
    Gen <- MCGen
    Keep = 2
    Mishaps = {"kill", "raise", "lose", "locked", "rebuild", "quiet"}
    MaxMishaps = 2
    MaxChange = 4
INVARIANTS TypeOK CurrentWhole CurrentNotAhead ToldKept
PROPERTIES EventuallyPublished
