CONSTANTS
    o = o  older = older  younger = younger  p = p  q = q  x = x  y = y
    home = home  east = east  west = west
    Own = {o}
    Attached <- Order
    Provider = {p, q}
    Name = {x, y}
    Tenant = home
    ModelNamespace <- Homes
    ProviderNamespace <- ProviderHomes
    ProviderType <- Types
    Weight = {0, 1, 2}
    Capacity = 3
    MaxProviders = 7
    None = None
    Version <- Edits
    Initial <- Starts
    Kinds = {"edit", "delete", "provider", "grant", "translation", "refuse", "fail"}
    MaxChanges = 2
SPECIFICATION Spec
INVARIANTS TypeOK PraxisContract CaughtUp CredentialsExact TrafficShares
PROPERTIES RuleKept
CHECK_DEADLOCK FALSE
