CONSTANTS
 Digests = {"da","db","dc"}
 MemberIds = {"m1","m2"}
 PanelIds = {"overview","p2"}
 Spelled <- MCSpelled
 Hashes <- MCHashes
 Stored = {"da","db"}
 Members <- MCMembers
 PanelsOf <- MCPanelsOf
 MaxActions = 1
 MaxLosses = 1
 NoContent = "blank"
SPECIFICATION FrontendSpec
CHECK_DEADLOCK FALSE
INVARIANTS FrontendTypeOK PageIsLocation OverviewIsRoutes
PROPERTIES OverviewSettles
