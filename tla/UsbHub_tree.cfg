SPECIFICATION FairSpec
CONSTANTS
  Hub = {h}
  Func = {f}
  Root = Root
  Dev = {d1, d2, d3, d4, d5}
  NPorts = 2
  MaxAddr = 7
  MaxPlugs = 3
  NoDev = NoDev
  Nowhere = Nowhere
INVARIANTS WatchExact ScanReached TreeSound Addressed
PROPERTIES RemovesOnlyGone ScanEnds
CHECK_DEADLOCK FALSE
