\* Two downloads, and a check of each kind.
SPECIFICATION FairSpec
CONSTANTS
  Downloads = {d1, d2}
  MaxChecks = 1
  Nobody = Nobody
INVARIANTS ModalHasWork ReadyIsWhole
PROPERTIES ModalEnds
CHECK_DEADLOCK FALSE
