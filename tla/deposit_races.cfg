SPECIFICATION DepositSpec
CONSTANTS
    Nil = Nil
    Stays = {r1}
    Workers = {w1, w2, w3}
INVARIANTS
    DepositTypeOK
    OnlyCollectedSettles
    CheckoutReleases
PROPERTY SettlementStands
