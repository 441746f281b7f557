CONSTANTS
    r1 = r1
    None = None
    Replica = {r1}
    Kind <- MCKind
    Exempt <- MCExempt
    HalfLife <- MCHalfLife
    Remains <- MCRemains
    One = 20
    MaxSalience = 40
    Bump = 5
    Floor = 3
    Negligible = 1
    MaxTime = 4
    MaxSeen = 0
SPECIFICATION Spec
CHECK_DEADLOCK FALSE
INVARIANTS
    LastsItsHalfLife
