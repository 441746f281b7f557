CONSTANTS
    page = page  like = like  gone = gone  noise = noise
    r1 = r1  r2 = r2
    None = None
    Message <- MCMixed
    Body <- MCMixedBody
    Content <- MCMixedContent
    Replica = {r1}
    MaxDeliver = 2
    MaxInflight = 2
SPECIFICATION FairSpec
CHECK_DEADLOCK FALSE
PROPERTIES
    EveryMessageSettles
    CalmDelivers
