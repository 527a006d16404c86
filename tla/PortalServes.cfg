CONSTANTS
    h1 = h1  h2 = h2  g1 = g1  g2 = g2
    InfraNs = {i1}
    GwNs = {g1, g2}
    DashNs = {d1, d2}
    DefaultDash = d1
    DashFlag = None
    Host = {h1, h2}
    Tenants <- SomeTenants
    Gateways <- SomeGateways
    Data = {x, y}
    DefaultRefresh = 4
    DefaultExpire = 6
    DsciWatched = TRUE
    InfraMoves = FALSE
    MaxLag = 1
    Kinds = {"aitenant", "delete", "create", "default", "infra", "gateway", "dsci", "service", "source", "redis", "bundle", "creds", "fail", "restart"}
    MaxDisturb = 2
    None = None
SPECIFICATION FairSpec
CHECK_DEADLOCK FALSE
INVARIANTS TypeOK NothingOrphaned ProxyCanStart EventsSuffice
PROPERTIES SessionsKept Converges
