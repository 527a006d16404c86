CONSTANTS
    SharedRes = {plugins, extproc}
    ExtRes = {extmodel}
    Plugin = plugins
    GwNs = {gw1}
    NoGw = noGw
    MaxLag = 0
    MaxDisturb = 3
    DeletionTimeout = TRUE
    Patient = TRUE
SPECIFICATION FairSpec
PROPERTIES SwapCompletes DeletionCompletes
CHECK_DEADLOCK FALSE
