SPECIFICATION FairSpec
CONSTANTS
  r1 = r1
  r2 = r2
  k1 = k1
  Nobody = Nobody
  Slots = {r1, r2}
  Commands = {k1}
  Runners = {r1, r2, k1}
  Calls <- MCCalls
  Holds <- MCHolds
  ScopeOf <- MCScopeOf
  SourceOf <- MCSourceOf
  DefaultScope = "all"
  MaxTopK = 3
  DefaultTopK = 1
  Near = 4
  Farthest = 8
  Widening = 2
  FewCandidates = 2
  PageSize = 2
  MaxGen = 2
  MaxMishaps = 1
INVARIANTS
  TypeOK
  AnswersAreFromOneSnapshot
  SoundAnswersAreComplete
  ReportsMatchTheIndex
  LeaseIsOwned
PROPERTIES
  CommandEnds
  IdHeals
