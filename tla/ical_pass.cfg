\* Every pass over every small table and feed: two channels of one unit, the
\* passes of each taking turns.
SPECIFICATION MCSpec
CONSTANTS
    Nil = Nil  a = a  ota = ota  inn = inn  x = x  y = y
    Ids = {r1, r2}
    Units = {a}
    Integrations = {ota, inn}
    Uids = {x, y}
    LastDay = 2
    Syncs = {p1, p2}
    UnitOf <- MCUnitOf
    Feeds <- MCFeeds
INVARIANTS
    CleanPassMirrorsFeed
PROPERTIES
    SyncIdempotent
    InHouseStaysKept
SYMMETRY Slots
CHECK_DEADLOCK FALSE
