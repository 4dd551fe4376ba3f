SPECIFICATION MCSpec
CONSTANTS
  g1 = g1
  m1 = m1
  p1 = p1
  p2 = p2
  q1 = q1
  q2 = q2
  r1 = r1
  r2 = r2
  r3 = r3
  w1 = w1
  w2 = w2
  root = root
  wider = wider
  Writers = {w1, w2}
  Readers = {g1}
  Publications <- FourPublications
  Times = {2}
  Principals <- TwoPrincipals
  MaxCrashes = 1
  MaxFaults = 1
  MaxCorruptions = 0
SYMMETRY Symmetry
INVARIANTS
  
  ConsoleTruthful
  ShownIsTrue
