\* Two collectors, two chunks forward and one back, two failures in a row make a gap.
SPECIFICATION FairSpec
CONSTANTS
  c1 = c1
  c2 = c2
  Collectors <- TwoCollectors
  Chunk = 1
  BackfillBlocks = 2
  ForwardChunks = 2
  BackfillChunks = 1
  MaxFailures = 2
  FirstSafe = 0
  LastSafe = 2
  MaxFaults = 1
INVARIANT CoveredIsStored
PROPERTIES RangeOnlyGrows EventuallyCovered BackfillEnds
