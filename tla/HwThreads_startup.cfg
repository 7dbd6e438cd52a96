SPECIFICATION FairSpec
CONSTANTS
  Cores = 2
  Task = {work}
  Programs <- MCStartup
  Sleep = Sleep
  None = None
PROPERTY StartupReturns
CHECK_DEADLOCK FALSE
