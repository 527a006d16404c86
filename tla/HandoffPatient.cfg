CONSTANTS
    SharedRes = {plugins, extproc}
    ExtRes = {extmodel}
    Plugin = plugins
    GwNs = {gw1}
    NoGw = noGw
    MaxLag = 1
    MaxDisturb = 3
    DeletionTimeout = FALSE
    Patient = TRUE
SPECIFICATION Spec
INVARIANTS TypeOK NothingOrphaned
PROPERTIES OneDataplane PluginsKept
CHECK_DEADLOCK FALSE
