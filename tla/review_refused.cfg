SPECIFICATION QueueSpec
CONSTANTS
    Nil = Nil
    Messages = {1}
    Unaddressed = {}
    QueuedLimit = 2
    FailedLimit = 1
    Pollers = {p1}
    Hooks = {}
    MaxCopies = 1
    Approvals = {a1}
    Reviewers = {q1}
INVARIANT SavedMeansReviewed
CHECK_DEADLOCK FALSE
