\* One row under every button, with up to two refresh jobs at once.
SPECIFICATION FairSpec
CONSTANTS
  MaxRefresh = 2
  MaxAttempts = 1
INVARIANTS ShownDownloadIsReal PausedIsPaused ReadyHasFile
PROPERTIES ShownDownloadEnds
CHECK_DEADLOCK FALSE
