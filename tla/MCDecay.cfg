CONSTANTS
    r1 = r1  r2 = r2
    None = None
    Replica = {r1, r2}
    Kind <- MCKind
    Exempt <- MCExempt
    HalfLife <- MCHalfLife
    Remains <- MCRemains
    One = 20
    MaxSalience = 28
    Bump = 5
    Floor = 3
    Negligible = 1
    MaxTime = 4
    MaxSeen = 2
SPECIFICATION FairSpec
CHECK_DEADLOCK FALSE
INVARIANTS
    TypeOK
    ArchivedIsFaded
PROPERTIES
    ColdIsArchived
