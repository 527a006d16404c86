CONSTANTS
    m1 = m1  m2 = m2  p1 = p1  p2 = p2
    Models = {m1, m2}
    Providers = {p1, p2}
    Cand <- TwoPairs
    Weighted <- SecondPair
    Traffic = {}
    Pods = {i1}
    None = None
    RequestTimeout = 1
    DrainDuration = 2
    Kinds = {"delete", "provider", "ref", "tenant", "fail"}
    MaxDisturb = 2
SPECIFICATION FairSpec
PROPERTIES WithdrawalCompletes ServingHeals HandoffCompletes
CHECK_DEADLOCK FALSE
