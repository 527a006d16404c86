CONSTANTS
    m1 = m1  m2 = m2  p1 = p1  p2 = p2
    Models = {m1}
    Providers = {p1, p2}
    Cand <- OneModel
    Weighted <- OneModel
    Traffic <- OneModel
    Pods = {i1}
    None = None
    RequestTimeout = 1
    DrainDuration = 2
    Kinds = {"ref", "fail"}
    MaxDisturb = 4
SPECIFICATION Spec
PROPERTIES DrainedBeforePrune
CHECK_DEADLOCK FALSE
