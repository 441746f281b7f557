CONSTANTS
    broadChunkChars = 12
    chunkOverlapChars = 2
    minTailChars = 3
    BodyLength <- MCBodyLength
    Body <- MCBody
    Tag <- MCTag
    Stems <- MCStems
    StemLetters <- MCStemLetters
    Numbered <- MCNumbered
    stopwords <- MCStopwords
    Phrase <- MCPhrase
    s1 = s1  s2 = s2  s3 = s3  s4 = s4  s5 = s5  s6 = s6
    price = price  seats = seats  forty = forty  fifty = fifty  joined = joined  monthly = monthly
    short = short  long = long  loose = loose
    NoQuote = NoQuote
    Chunks = 2
    MaxRetries = 2
    Topics = 3
    BroadAnswer <- MCBroadAnswer
    DetailAnswer <- MCDetailAnswer
    Generic <- MCGeneric
    Statement <- MCStatement
    Likeness <- MCLikeness
    Assertion <- MCAssertion
    SelfContained <- MCSelfContained
    Asserts <- MCAsserts
    Supported <- MCSupported
    AttrName <- MCAttrName
    AttrValue <- MCAttrValue
    Verbatim <- MCVerbatim
    Numeric <- MCNumeric
    DigitsFound <- MCDigitsFound
    Overlapping <- MCOverlapping
    Quote <- MCQuote
    Length <- MCLength
    Found <- MCFound
    Close <- MCClose
SPECIFICATION MCSpec
CHECK_DEADLOCK FALSE
INVARIANTS
    ChunkTypeOK
    SpanSeenWhole
    WindowsAdvance
    FirstValueAnswered
    PhrasingsMeet
    GroupFoundAgain
    TypeOK
    AcceptedAreDistinct
    InLockOrder
    MergeKeepsWhatWasSaid
    AllFailedIsRetried
PROPERTIES
    ProcessEnds
