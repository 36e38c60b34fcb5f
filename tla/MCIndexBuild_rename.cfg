SPECIFICATION Spec
CHECK_DEADLOCK FALSE
CONSTANTS
  a = a
  b = b
  short = short
  long = long
  Sources = {a, b}
  Versions = {short, long}
  Absent = Absent
  NumChunks <- MCNumChunks
  Collections = {"rag", "other"}
  NoCollection = NoCollection
  Selections <- Everything
  Limits = {0}
  Workers = 1
  MaxGens = 2
  MaxEdits = 0
  MaxAborts = 0
  MaxLate = 0
PROPERTIES
  FailureKeepsTheIndex
