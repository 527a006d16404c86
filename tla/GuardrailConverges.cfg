CONSTANTS
    p1 = p1  p2 = p2  k1 = k1  k2 = k2  c1 = c1  c2 = c2
    Providers = {p1, p2}
    Specs <- AllSpecs
    Configs = {c1, c2}
    Places = {home, away}
    Home = home
    None = None
    MaxLag = 1
    Kinds = {"spec", "delete", "create", "provider", "label", "crd", "translation", "attach", "fail", "restart"}
    MaxDisturb = 2
SPECIFICATION FairSpec
INVARIANTS TypeOK NoLostUpdate ConditionsFollow
PROPERTIES Converges
