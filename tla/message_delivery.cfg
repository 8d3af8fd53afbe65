SPECIFICATION DeliverySpec
CONSTANTS
    Nil = Nil
    Messages = {1, 2}
    Unaddressed = {1}
    QueuedLimit = 2
    FailedLimit = 1
    Pollers = {p1, p2}
    Hooks = {h1}
    MaxCopies = 2
    Approvals = {a1}
    Reviewers = {q1}
INVARIANTS
    ApprovalsTypeOK
    DeliveredArrived
    RepeatsExplained
PROPERTIES
    KeepsReview
    QueuedTried
CHECK_DEADLOCK FALSE
