CONSTANTS
    None = None
    NotReady = NotReady
    Idle = Idle
    Candidates = {c1}
    Scalings <- MCScalings
    Configured <- MCConfigured
    Bodies <- MCBodies
    Requests <- MCRequests
    Rank <- MCRank
    MaxEdits = 1
    MaxFaults = 1
SPECIFICATION FairSpec
INVARIANTS TypeOK HpaValid BudgetFits
PROPERTIES HpaInCharge Settles
CHECK_DEADLOCK FALSE
