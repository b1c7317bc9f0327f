\* A stopped run beside its successor, replaced again and again: it always gets
\* out of the way.
SPECIFICATION FairSpec
CONSTANTS
  Workers = {w1, w2}
  NChunks = 2
  Planned = 2
  Total = 2
  OfferedSize = 1
  Responses <- RangeOnly
  Faults <- NoFaults
  Checksummed = TRUE
  RetryLimit = 0
  Events <- Replacing
  NoFile = NoFile
PROPERTY StoppedRunEnds
