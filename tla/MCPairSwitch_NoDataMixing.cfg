CONSTANTS
    p1 = p1
    p2 = p2
    r1 = r1
    r2 = r2
    t1 = t1
    t2 = t2
    Pairs <- TwoPairs
    Runs <- MCRuns
    Ticks <- MCTicks
    InitialPair = p1
    NoPair = NoPair
    NoRun = NoRun
    NoContext = NoContext
SPECIFICATION MCSpec
PROPERTY
    NoDataMixing
