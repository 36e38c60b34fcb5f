SPECIFICATION Spec
CHECK_DEADLOCK FALSE
CONSTANTS
  a = a
  b = b
  short = short
  long = long
  Sources = {a, b}
  Versions = {short, long}
  Absent = Absent
  NumChunks <- MCNumChunks
  Collections = {"rag"}
  NoCollection = NoCollection
  Selections <- WholeOrPart
  Limits = {0, 1}
  Workers = 2
  MaxGens = 3
  MaxEdits = 2
  MaxAborts = 2
  MaxLate = 0
SYMMETRY Symmetry
INVARIANTS
  TypeOK
  ActiveIsComplete
  FreshDraftHasNoCopies
PROPERTIES
  ActivatedIsFrozen
  PointerMovesAtTheEnd
  AtomicImage
