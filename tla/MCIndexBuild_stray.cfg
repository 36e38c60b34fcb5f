SPECIFICATION FairSpec
CHECK_DEADLOCK FALSE
CONSTANTS
  a = a
  b = b
  short = short
  long = long
  Sources = {a, b}
  Versions = {short, long}
  Absent = Absent
  NumChunks <- MCNumChunks
  Collections = {"rag"}
  NoCollection = NoCollection
  Selections <- Everything
  Limits = {0}
  Workers = 2
  MaxGens = 3
  MaxEdits = 1
  MaxAborts = 1
  MaxLate = 2
INVARIANTS
  FreshDraftHasNoCopies
PROPERTIES
  RunEnds
