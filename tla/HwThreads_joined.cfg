SPECIFICATION FairSpec
CONSTANTS
  Cores = 2
  Task = {work}
  Programs <- MCPrograms
  Sleep = Sleep
  None = None
INVARIANTS StackGiven PostsExact QuietAtSpeed AllBack
PROPERTY FasterReturns
CHECK_DEADLOCK FALSE
