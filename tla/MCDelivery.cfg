CONSTANTS
    page = page  like = like  gone = gone  noise = noise
    r1 = r1  r2 = r2
    None = None
    Message <- MCMessage
    Body <- MCBody
    Content <- MCContent
    Replica = {r1, r2}
    MaxDeliver = 2
    MaxInflight = 2
SPECIFICATION Spec
SYMMETRY MCReplicas
CHECK_DEADLOCK FALSE
INVARIANTS
    TypeOK
    AckedIsDone
    GivenUpIsSpent
