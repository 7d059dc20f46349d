CONSTANTS
    Pubkeys = {t1}
    Authorities = {o1, o2, o3}
    Mints = {m1, m2, m3}
    InvalidError = InvalidError
    UninitError = UninitError

SPECIFICATION Spec

INVARIANTS
    ResolvedKeysNameInitializedAccount
