SPECIFICATION Spec
CONSTANTS
  a = a
  b = b
  Workers = {w1, w2}
  Texts <- MCTexts
  Long <- MCLong
  Empty = Empty
  Mixed = Mixed
  None = None
  Resolving <- MCResolving
  MaxEdits = 3
INVARIANT OrderlySaves
PROPERTIES NoIdleRestart EditsPickedUp
