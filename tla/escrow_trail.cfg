SPECIFICATION FreshSpec
CONSTANTS
    Nil = Nil
    Stays = {r1}
    Workers = {w1}
INVARIANT EscrowTrail
