SPECIFICATION RequestsSpec
CONSTANTS
    Nil = Nil
    Stays = {r1}
    Tasks = {t1, t2, t3}
    Workers = {w1, w2}
    Staff = {}
    Items = 2
INVARIANTS
    ChecklistsWhole
    DuplicatesBounded
CONSTRAINT FewFailures
SYMMETRY SymmetricTasks
CHECK_DEADLOCK FALSE
