CONSTANTS
    m1 = m1  m2 = m2  m3 = m3
    pricing = pricing
    s1 = s1  s2 = s2  s3 = s3
    forty = forty  fifty = fifty
    e1 = e1  e2 = e2  e3 = e3
    wiki = wiki  slack = slack
    None = None
    MemoryId <- MCMemoryId
    Topic <- MCTopic
    Statement <- MCStatement
    Similar <- MCSimilar
    AttrValue <- MCAttrValue
    Time <- MCTime
    Episode <- MCEpisode
    Document <- MCDocument
    Upsert <- MCPage
    Deletion <- MCPageDeleted
    Extraction <- MCEvents
    Replica = {"r1"}
    MinGroup = 2
    PurgeOnDelete = {FALSE}
SPECIFICATION GraphSpec
SYMMETRY MCIds
CHECK_DEADLOCK FALSE
INVARIANTS
    ClosesOffEveryMemory
