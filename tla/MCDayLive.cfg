SPECIFICATION PromptSpec
CONSTANTS
    Rec = {r1}
    Names <- MCNames
    Lookback = 3
    Mishaps = {"kill", "api", "raise", "space", "rot", "store", "missed"}
    MaxMishaps = 3
PROPERTIES EventuallyClean
