SPECIFICATION Spec
CONSTANTS
    Mishaps = {"timeout", "skip", "api", "edition", "raise", "slow", "store", "cache"}
    MaxMishaps = 2
    MaxChanges = 1
    s1 = s1
    s2 = s2
    s3 = s3
    p1 = p1
    p2 = p2
    p3 = p3
    x1 = x1
    r1 = r1
    r2 = r2
    Feed = {f1, f2}
    Entry = {e1}
    Sector = {"sector"}
    Name = {n1, n2}
    Source = {s1, s3}
    Manual = manual
    SectorOf <- MCSectorOf
    KindOf <- MCKindOf
    Seeds <- MCSeeds
    DeadSeed = {p1}
    Host = {1, 2, 3}
    SeedOf <- MCSeedOf
    Address = {a1}
    MaxSeeds = 2
    MaxNames = 1
    Addr = {x1}
    Domain = {1, 2}
    Asn = {r1, r2}
    NoAsn = none
    Org = {1, 2}
    ConfOf <- MCConfOf
    Residential = {}
    Tiered = {}
    RosterConf = 2
    Keep = 1
    Worlds <- MCWorlds
INVARIANTS TypeOK AttributionSound
PROPERTIES CurrentIsWhole SourcesKept HostRowKept KnownOwnerKept EventuallyCurrent
