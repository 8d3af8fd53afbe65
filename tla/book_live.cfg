SPECIFICATION FairBookSpec
CONSTANTS
    r1 = r1  r2 = r2  q1 = q1  q2 = q2
    Nil = Nil  a = a  b = b  ota = ota  otb = otb  x = x  y = y
    Ids = {r1, r2}
    Units = {a}
    Integrations = {ota}
    Uids = {x}
    LastDay = 2
    Syncs = {p1}
    Requests = {q1}
    UnitOf <- MCUnitOf
    Feeds <- LiveFeeds
    Payloads <- LivePayloads
CONSTRAINT OneOfEach
PROPERTIES
    WithdrawnEventsFreeNights
    MovedEventsFollow
CHECK_DEADLOCK FALSE
