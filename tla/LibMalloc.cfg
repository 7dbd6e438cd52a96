SPECIFICATION Spec
CONSTANTS
  Base = 3
  Size = 84
  Wanted <- MCWanted
INVARIANTS TypeOK Consistent BlocksApart Aligned NothingLost
