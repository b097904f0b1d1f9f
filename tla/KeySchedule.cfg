\* Every number of keys and every limit that fit in UintSize, and two limits that do
\* not: the counter of the loops wraps for the largest number of keys.
CONSTANTS
  MaxKeys = 9
  MaxLimit = 9
  MaxSidecars = 1
  UintSize = 10
  Strategies <- MCStrategies
  KeyNums <- MCKeyNums
  Sidecars <- MCSidecars
SPECIFICATION Spec
INVARIANTS
  KInv
  EveryKeyOnce
  WithinLimits
  NoIdlePod
  ContainerNamesUnique
  SlicesInRange
