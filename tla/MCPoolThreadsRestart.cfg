SPECIFICATION PoolSpec
CONSTANTS
  o1 = o1
  a1 = a1
  a2 = a2
  r1 = r1
  r2 = r2
  s1 = s1
  x1 = x1
  x2 = x2
  Ops = {o1}
  Attempts = {a1}
  Contents = {x1}
  ContentOf <- MCContentOf1
  Workers = {w1, w2}
  Proofs = {r1}
  Nonces = {n1, n2, n3}
  Callers = {t1}
  Admitters = {t1}
  Publishers = {}
  Receipts = {r1}
  SigningKeys = {s1}
  TicketOf <- MCTicketOf1
  KeyOf <- MCKeyOf1
  CommandOf <- MCCommandOf1
  Cutovers = {1}
  Unrestricted = 2
  Capacity = 1
  Resubmission = TRUE
  MaxLives = 2
  NoContent = NoContent
  NoWorker = NoWorker
  NoNonce = NoNonce
  NoKey = NoKey
  NoReceipt = NoReceipt
  NoOne = NoOne
  NoReply = NoReply
SYMMETRY MCSymmetry
INVARIANTS
  DispatchSafe
CHECK_DEADLOCK FALSE
