SPECIFICATION Spec
CONSTANTS
    Rec = {r1}
    Names <- MCNames
    Lookback = 1
    Mishaps = {"kill", "missed"}
    MaxMishaps = 2
PROPERTIES DeathMeansRepairAgain
