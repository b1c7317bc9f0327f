\* Stops, pauses, cancellations, deaths and failures of the network and of the
\* disk, one run at a time; what is left on disk and installed, and that a
\* download left alone ends.
SPECIFICATION FairSpec
CONSTANTS
  Workers = {w1}
  NChunks = 2
  Planned = 4
  Total = 4
  Responses <- AnyServer
  Faults <- AllFaults
  Checksummed = FALSE
  OfferedSize = 2
  RetryLimit = 2
  Events <- AllEvents
  NoFile = NoFile
INVARIANT PartialFilesSound
PROPERTY InstalledWhole
PROPERTY SuccessInstalls
PROPERTY WorkSpec
PROPERTY CompletePartsKept
PROPERTY DownloadEnds
