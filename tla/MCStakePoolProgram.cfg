CONSTANTS
    Intruder = Intruder
    DataBytes <- MC_DataBytes
    ArgBytes <- MC_ArgBytes
    MaxDataLen = 2
    MaxDropped = 2

SPECIFICATION Spec

INVARIANTS
    TypeOK
    HonestIxAccepted
    DecodersAgree

PROPERTY
    ImplementsInstructionGate
