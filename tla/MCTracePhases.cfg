SPECIFICATION FairSpec
CONSTANTS
  Blocks = {b1, b2}
  StatePinned = FALSE
INVARIANTS
  PauseStopsTheWorld
  RequestsMatchPauses
  MovesAreCovered
  PassesFindTheirHeap
  NobodySleepsThrough
PROPERTY
  EveryoneGoesOn
