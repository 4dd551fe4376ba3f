SPECIFICATION MCSpec
CONSTANTS
  a1 = a1
  a2 = a2
  c1 = c1
  c2 = c2
  c3 = c3
  c4 = c4
  k1 = k1
  k2 = k2
  Keys = {k1, k2}
  Authorities = {a1, a2}
  Window <- TwoWindows
  DayLimit = 3
  Cmds = {c1, c2}
  FirstAuthority = a1
  FirstKey = k1
  SignerKey = k1
  Snapshots <- OneSnapshot
  Lifetime = 2
  Times = {0}
  Callers = {"management", "owner"}
  Enrolments = {a1, a2}
  MaxSeq = 2
  MaxCrashes = 1
  MaxFaults = 0
  Restores = 1
SYMMETRY Symmetry
INVARIANTS
  TransitionsWhole
  RolledBackStaysClosed
  RuntimeCurrent
