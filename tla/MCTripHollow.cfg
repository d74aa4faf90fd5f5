SPECIFICATION Spec
CONSTANTS
    Host = {h1, h2}
    InState = {h1, h2}
    Selector = {s1}
    Date = {d1}
    PageSize = 1
    MaxPages = 3
    Mishaps = {"hollow"}
    MaxMishaps = 1
    MaxChanges = 1
PROPERTIES NothingMissedCleared
