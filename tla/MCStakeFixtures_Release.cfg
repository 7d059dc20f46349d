CONSTANTS
    U64_MAX = 15
    RENT_EXEMPT_RESERVE = 3
    Addrs = {a1, a2}
    Amounts = {0, 1, 12, 13, 15}
    Epochs = {0, 15}
    Builds = {"debug", "release"}

SPECIFICATION Spec

INVARIANT
    StakeAccountsBacked

CHECK_DEADLOCK FALSE
