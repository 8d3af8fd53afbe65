SPECIFICATION FairBookSpec
CONSTANTS
    r1 = r1  r2 = r2  q1 = q1  q2 = q2
    Nil = Nil  a = a  b = b  ota = ota  otb = otb  x = x  y = y
    Ids = {r1, r2}
    Units = {a}
    Integrations = {ota}
    Uids = {x}
    LastDay = 3
    Syncs = {p1}
    Requests = {}
    UnitOf <- MCUnitOf
    Feeds <- ChannelFeeds
    Payloads <- NoPayloads
PROPERTY ImportsAutomatically
CHECK_DEADLOCK FALSE
