CONSTANTS
    Pairs = {p1, p2}
    InitialPair = p1
    None = None
    p1 = p1
    p2 = p2
SPECIFICATION FairSpec
INVARIANT TypeOK
PROPERTIES
    NotOnFirstHealthyTick
    TradingResumes
    SilenceIsRebuilt
