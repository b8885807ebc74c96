SPECIFICATION Spec
CONSTANTS
  Objects   <- MCObjects
  MarkLimit = 1
  NoObject  = NoObject
  Heaps     <- MCHeaps
CHECK_DEADLOCK FALSE
INVARIANTS
  KeepsExactlyAlive
  WeakLinksAgree
PROPERTIES
  CollectionEnds
