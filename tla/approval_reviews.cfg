SPECIFICATION ApprovalsSpec
CONSTANTS
    Nil = Nil
    Messages = {}
    Unaddressed = {}
    QueuedLimit = 2
    FailedLimit = 1
    Pollers = {}
    Hooks = {}
    MaxCopies = 0
    Approvals = {a1, a2}
    Reviewers = {q1, q2}
INVARIANTS
    ExecutedOnce
    FailedForCause
PROPERTIES
    DecisionStands
    KeepsReview
SYMMETRY SymmetricReviews
CHECK_DEADLOCK FALSE
