SPECIFICATION Spec
CONSTANTS
    Address = {1, 2, 3}  Seed <- MCSeed  Halves <- MCHalves
    Threshold = 1  MaxShards = 2  PageSize = 1  MinPct = 60  Elsewhere = 1
    MaxHits = 2  MaxSlips = 2
INVARIANTS TypeOK EveryAddressAsked OneReadingIsEnough
CHECK_DEADLOCK FALSE
