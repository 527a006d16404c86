CONSTANTS
    m1 = m1  m2 = m2  p1 = p1  p2 = p2
    Models = {m1, m2}
    Providers = {p1, p2}
    Cand <- SharedProvider
    Weighted <- SharedProvider
    Traffic <- SharedTraffic
    Pods = {i1, i2}
    None = None
    RequestTimeout = 1
    DrainDuration = 2
    Kinds = {"ref", "delete", "create", "provider", "log", "tenant", "secret", "fail"}
    MaxDisturb = 2
SPECIFICATION Spec
SYMMETRY PodSymmetry
INVARIANTS TypeOK TransportFinalized
PROPERTIES DrainedBeforePrune DeletedModelLeavesNothing PublishedAfterRoute
CHECK_DEADLOCK FALSE
