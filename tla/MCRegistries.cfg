SPECIFICATION MCSpec
CONSTANTS
  a1 = a1
  a2 = a2
  c1 = c1
  c2 = c2
  c3 = c3
  c4 = c4
  i1 = i1
  i2 = i2
  ka = ka
  kb = kb
  kp = kp
  m1 = m1
  n1 = n1
  n2 = n2
  n3 = n3
  n4 = n4
  n5 = n5
  n6 = n6
  o1 = o1
  o2 = o2
  p1 = p1
  r1 = r1
  t1 = t1
  t2 = t2
  t3 = t3
  x = x
  acct = acct
  buy = buy
  glob = glob
  port = port
  NonceOf <- NonceOfCommand
  Classes = {buy}
  Leaves <- FourLeaves
  Managers = {m1}
  Runtimes = {r1}
  Commands <- AllCommands
  Boots <- TwoBoots
  Specs <- TwoSpecs
  Times = {0, 1}
  MaxRequests = 5
  MaxCrashes = 1
  MaxRecords = 4
SYMMETRY Symmetry
INVARIANTS
  
  LineageSound
  CatalogueConsistent
PROPERTIES
  ServedNotGone
  RegistryMovesForward
  AdmissionsCurrent
