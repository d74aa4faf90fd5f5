SPECIFICATION Spec
CONSTANTS
    Rec = {r1, r2}
    Names <- MCNames
    Lookback = 1
    Mishaps = {"kill", "api", "raise", "space", "status", "rot", "garble", "store", "missed", "operator"}
    MaxMishaps = 3
SYMMETRY RecSymmetry
INVARIANTS TypeOK NothingLost OneWriter CleanMeansWhole
PROPERTIES RawBytesKept GreenNight NoStrandedDay ImplementsArchive
