SPECIFICATION Spec
CONSTANTS
    k1 = k1 h1 = h1 g1 = g1 a1 = a1 s1 = s1 o1 = o1 o2 = o2 n1 = n1
    Lead = {k1, h1, g1}  Legacy = {g1}  Addr = {a1}  Service = {s1}
    Org = {o1, o2}  Label = {n1}
    KindOf <- MCKindOf  AddrOf <- MCAddrOf  ServiceOf <- MCServiceOf
    FirstOwner <- MCFirstOwner PerCve <- MCPerCve  Named <- MCPerCve
    NoService = NoService NoOrg = NoOrg NoName = NoName NoRow = NoRow Unavailable = Unavailable
    MaxScan = 2  MaxChanges = 2  MaxActs = 2
    Settable = {"notified"}
INVARIANTS TypeOK NotifiedPresentOwner ReviewedPacket
PROPERTIES ReopenedByNewerScan LegacyCarriedOn EventuallySettled
CHECK_DEADLOCK FALSE
