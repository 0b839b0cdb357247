CONSTANTS
 Bundles = {"b1"}
 MaxCommands = 3
 MaxMounts = 2
SPECIFICATION BundlesSpec
CHECK_DEADLOCK FALSE
INVARIANTS PollsWhatIsShown
