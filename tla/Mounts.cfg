SPECIFICATION FairSpec
CONSTANTS
  Jobs <- MCJobs
  Modes = {"kubernetes", "local", "dryrun"}
  Resources <- MCResources
  Rank <- MCRank
  Volumes <- MCVolumes
  Names <- MCNames
  Points <- MCPoints
  Under <- MCUnder
  MaxAttempts = 2
INVARIANTS
  MInv
  
  NamesAreKnown
  
PROPERTIES
  RunEnds
CHECK_DEADLOCK FALSE
