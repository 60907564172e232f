SPECIFICATION PfSpec
CONSTANTS
 PfInfo <- MCPfInfo
 PfNone = none
 PfClicks = 3
 PfTrouble = 1
INVARIANT PfSavesAreTaken
CHECK_DEADLOCK FALSE
