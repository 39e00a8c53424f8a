CONSTANTS
    p1 = p1
    p2 = p2
    r1 = r1
    r2 = r2
    own = own
    manual = manual
    None = None
    Torn = Torn
    Parts = {"scalper"}
    Pairs = {p1, p2}
    Runtimes = {r1, r2}
    MaxTradeSize = 2
    MaxExposure = 2
    Overlap = 2
    Instances = {r1, r2}
    Ticks = {p1, p2}
    TickTime = 1
    Window = 1
    Cooldown = 2
    MaxLoss = 1
    Edge = 1
    MaxProfit = 2
    MaxTime = 5
    Hashes = {own, manual}
    Calls = {r1, r2}
    MaxSize = 1
    MaxHeld = 4
SPECIFICATION MCSpec
SYMMETRY Symmetric
INVARIANT SoldWasBought
