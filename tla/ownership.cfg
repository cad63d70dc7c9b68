CONSTANTS
    Users = {u1, u2}
    Keys = {k1, k2}
    Rigs = {r1}
    Workers = {w1, w2, w3}
    NoUser = NoUser
    NoKey = NoKey
    NoRig = NoRig
SYMMETRY Symmetry
SPECIFICATION Spec
INVARIANTS TypeOK RigsFollowTheirKey ReportsReachTheirUser KeysChangedByTheirUser
CHECK_DEADLOCK FALSE
