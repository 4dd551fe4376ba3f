SPECIFICATION MCSpec
CONSTANTS
  a1 = a1
  a2 = a2
  c1 = c1
  c3 = c3
  d1 = d1
  d2 = d2
  o1 = o1
  p1 = p1
  p2 = p2
  r1 = r1
  r2 = r2
  ry = ry
  s1 = s1
  x1 = x1
  x2 = x2
  None = None
  opX = opX
  opY = opY
  restrictA = restrictA
  restrictB = restrictB
  rx1 = rx1
  rx2 = rx2
  spend = spend
  Ops = {o1}
  Digests = {d1, d2}
  OpOf <- SameOp
  DigestOf <- OtherDigest
  Effects = {0, 1}
  NoOutcome = NoOutcome
  Calls = {c1, c3}
  Proofs = {1, 2}
  MaxAttempts = 2
  Replays = {r1, r2}
  TicketOf <- ReceiptTicket
SYMMETRY Symmetry
INVARIANTS
  AnswersTruthful
  SchemaConsistent
  BarrierTruthful
PROPERTIES
  ImplementsAtMostOnce
  OvertakenStaysOut
