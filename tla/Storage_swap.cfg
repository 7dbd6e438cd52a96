SPECIFICATION Spec
CONSTANTS
  Image <- MCImage
  PrefixPairs <- MCPrefixPairs
  IsoPaths <- MCIsoPaths
  NUM_CACHE_BLOCKS = 2
  MAX_ISO_FILES = 2
  MaxDirect = 1
  MaxDepth = 1
  FirstDisc = "one"
  MaxSwaps = 2
  MaxFails = 0
  Ports = {1}
  MaxPiece = 1
  MaxPlugs = 2
  MaxStalls = 1
  MaxErrors = 0
  MAXFD = 5
  NUM_VOLUMES = 2
  NUM_DRIVES = 2
  Configs <- MCConfigs
  Ahead = 2
  Amounts = {1, 3}
  MaxEvents = 5
INVARIANT HandlesBroken
CHECK_DEADLOCK FALSE
