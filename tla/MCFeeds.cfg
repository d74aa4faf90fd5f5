SPECIFICATION Spec
CONSTANTS
    r1 = r1 r2 = r2 e1 = e1 e2 = e2
    Day = {1, 2}  Version = {v1, v2}  WithCves = {v1}
    ReportFile = {r1, r2}  Event = {e1, e2}  EventsOf <- MCEventsOf
    Ingester = {nightly, hand}  Nightly = nightly
    None = None  Torn = Torn  Rotten = Rotten  NoOne = NoOne
    MaxMishaps = 2  MaxChanges = 4
INVARIANTS TypeOK EventsOnce ReportsKept SameVersion
PROPERTIES EventuallyPublished
