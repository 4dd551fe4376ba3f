SPECIFICATION MCSpec
CONSTANTS
  e1 = e1
  e2 = e2
  p = p
  q = q
  Callers = {p, q}
  Versions = {1, 2}
  Objects <- SomeObjects
  Evidence = {e1, e2}
  Requests <- OneRequest
  Times = {1}
  MaxObjects <- SmallReader
  MaxStaging = 2
  CallCap = 4
  CrashCap = 1
  DamageCap = 0
  Catalog <- Catalogue
  Queries <- FourQueries
  Claims <- TwoClaims
  MaxCandidates = 4
  MaxDepth = 3
  MaxEvidence = 8
  MaxTime = 3
  DayLength = 10
INVARIANTS
  AssessmentExact
  PropagationSound
  StoreTruthful
  AnswersHold
  ResolutionSound
CHECK_DEADLOCK FALSE
