CONSTANTS
    Models = {m1}
    Content = {a, b}
    MaxGen = 3
    MaxClock = 1
    MaxLag = 1
    Kinds = {"edit"}
    MaxDisturb = 2
    None = None
    Spoiled = Spoiled
    Blind = Blind
SPECIFICATION FairSpec
PROPERTIES DistributedAlways
CHECK_DEADLOCK FALSE
