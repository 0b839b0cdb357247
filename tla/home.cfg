CONSTANTS
 Bundles = {"b1","b2"}
 MaxCommands = 2
 MaxMounts = 2
SPECIFICATION BundlesSpec
CHECK_DEADLOCK FALSE
INVARIANTS BundlesTypeOK TimerIsMounted ButtonComesBack
PROPERTIES ListSettles
