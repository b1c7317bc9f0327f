\* A stopped run beside its successor, with a checksum.
SPECIFICATION Spec
CONSTANTS
  Workers = {w1, w2}
  NChunks = 2
  Planned = 4
  Total = 4
  OfferedSize = 1
  Responses <- AnyServer
  Faults <- NoFaults
  Checksummed = TRUE
  RetryLimit = 2
  Events <- AllEvents
  NoFile = NoFile
SYMMETRY Symmetry
INVARIANT SucceededIntact
