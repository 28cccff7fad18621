SPECIFICATION Spec
CONSTANTS
  k1 = k1
  k2 = k2
  Names = {orders}
  Keys = {k1, k2}
  Groups = {g}
  Counts = {0, 2}
  Hash <- Hashes
  MaxMessages = 3
  MaxConsumers = 2
  MaxOffset = 1
INVARIANTS
  TypeOK
  AtLeastOnce
PROPERTY
  KeyOrder
