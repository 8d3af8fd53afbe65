SPECIFICATION TasksSpec
CONSTANTS
    Nil = Nil
    Stays = {r1}
    Tasks = {t1, t2, t3}
    Workers = {w1}
    Staff = {m1}
    Items = 1
INVARIANTS
    TasksTypeOK
    TasksFollowStatus
SYMMETRY SymmetricTasks
CHECK_DEADLOCK FALSE
