SPECIFICATION FairSpec
CONSTANTS
    Host = {h1, h2, h3}
    InState = {h1, h2}
    Selector = {s1, s2}
    Date = {d1}
    PageSize = 1
    MaxPages = 2
    Mishaps = {"kill", "api", "blank", "hollow", "untrue", "corrupt"}
    MaxMishaps = 1
    MaxChanges = 2
INVARIANTS TypeOK ActiveWasAnnounced
PROPERTIES NeverClearedWhileFlagged QuietMeansAnnounced EventuallyExact
