CONSTANTS
    Intruder = Intruder
    ArgBytes = {0, 1}
    MaxDropped = 2

SPECIFICATION Spec

INVARIANTS
    CpiWithHeldPrivilegesAccepted
    CpiForgeryRejected
