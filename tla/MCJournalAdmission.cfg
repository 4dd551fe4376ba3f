SPECIFICATION MCSpec
CONSTANTS
  Ops = {o1}
  Attempts = {a1}
  Contents = {x1, x2}
  Workers = {w1}
  Proofs = {p1}
  Nonces = {n1, n2}
  Callers = {c1, c2}
  MaxLives = 2
  NoContent = NoContent
  NoWorker = NoWorker
  NoNonce = NoNonce
  NoKey = NoKey
  r1 = r1
  r2 = r2
  r3 = r3
  k1 = k1
  k2 = k2
  Admitters = {t1, t2}
  Publishers = {q1, q2}
  Receipts = {r1, r2, r3}
  SigningKeys = {k1, k2}
  TicketOf <- MCTicketOf
  KeyOf <- MCKeyOf
  Cutovers = {1, 2}
  Unrestricted = 3
  NoReceipt = NoReceipt
  NoOne = NoOne
SYMMETRY Symmetry
INVARIANTS
  RowsBacked
  ExposureBacked
  NoOvertake
PROPERTIES
  HoldLeftOnlyByReceipt
  AnnouncedBlocksEntry
CHECK_DEADLOCK FALSE
