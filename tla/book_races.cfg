SPECIFICATION BookSpec
CONSTANTS
    Nil = Nil  a = a  b = b  ota = ota  otb = otb  x = x  y = y
    Ids = {r1, r2}
    Units = {a}
    Integrations = {ota}
    Uids = {x}
    LastDay = 3
    Syncs = {p1}
    r1 = r1  r2 = r2  q1 = q1  q2 = q2
    Requests = {q1, q2}
    UnitOf <- MCUnitOf
    Feeds <- RaceFeeds
    Payloads <- RacePayloads
CONSTRAINTS TwoAtOnce FewStatuses
INVARIANTS
    BookTypeOK
    EveryStatusEarned
    NoDoubleBooking
PROPERTY KeepsOccupancy
SYMMETRY Symmetric
CHECK_DEADLOCK FALSE
