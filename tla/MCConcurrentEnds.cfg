CONSTANTS
    m1 = m1  m2 = m2  m3 = m3  m4 = m4  m5 = m5  m6 = m6
    deploys = deploys  pricing = pricing
    yes = yes  no = no
    e1 = e1  e2 = e2  e3 = e3
    wiki = wiki  slack = slack
    w1 = w1  w2 = w2
    None = None
    MemoryId <- MCMemoryId
    Topic <- MCTopic
    Statement <- MCStatement
    Similar <- MCSimilar
    AttrValue <- MCAttrValue
    Time <- MCTime
    Episode <- MCEpisode
    Document <- MCDocument
    Upsert <- MCTwoUpserts
    Deletion <- MCDeletion
    Extraction <- MCBusy
    Worker = {w1, w2}
    MaxDeliver = 1
SPECIFICATION FairSpec
CHECK_DEADLOCK FALSE
PROPERTIES
    EveryTransactionEnds
