SPECIFICATION Spec
CONSTANTS
  SECTOR_SIZE = 2
  BLOCK_CACHE_SECTOR_COUNT = 4
  MAX_SECTOR_PER_REQUEST = 2
  MaxTransfer = 3
  FAT_CACHE_SIZE = 2
  CLUSTERS_PER_FAT_SECTOR = 2
  CLUSTERS_PER_FAT16_SECTOR = 4
  DIR_ENTRIES_PER_SECTOR = 2
  Fat16Least = 3
  Fat32Least = 6
  MaxDirSectors = 6
  Media <- MCMedia
  MAX_OPEN_FILES = 2
  Counts = {1, 5}
  Seeks <- MCSeeks
  Opens <- MCOpens
  BadSectors <- MCBad
  MaxBad = 1
INVARIANTS ReadsRight PositionRight CachesRight OpensRight
CHECK_DEADLOCK FALSE
