SPECIFICATION Spec
CONSTANTS
  Workers = {w1, w2}
  Threads = {t1, t2, t3}
  Flags = {poll, evacuating}
  NoThread = NoThread
  NoCall = NoCall
INVARIANTS
  ConsistentAtUnlock
  NeverSilenced
PROPERTY
  ImplementsBoard
