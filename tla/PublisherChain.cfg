CONSTANTS
    Models = {m1, m2}
    Content = {a, b}
    MaxGen = 3
    MaxClock = 1
    MaxLag = 1
    Kinds = {"edit", "withdraw", "meddle", "fail", "restart"}
    MaxDisturb = 3
    None = None
    Spoiled = Spoiled
    Blind = Blind
SPECIFICATION FairSpec
INVARIANTS TypeOK
PROPERTIES Chained Distributed
CHECK_DEADLOCK FALSE
