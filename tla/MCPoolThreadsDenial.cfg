SPECIFICATION PoolSpec
CONSTANTS
  o1 = o1
  a1 = a1
  a2 = a2
  r1 = r1
  r2 = r2
  s1 = s1
  x1 = x1
  x2 = x2
  Ops = {o1}
  Attempts = {a1, a2}
  Contents = {x1}
  ContentOf <- MCContentOf
  Workers = {w1}
  Proofs = {r1, r2}
  Nonces = {n1, n2}
  Callers = {t1, t2}
  Admitters = {t1, t2}
  Publishers = {}
  Receipts = {r1, r2}
  SigningKeys = {s1}
  TicketOf <- MCTicketOf
  KeyOf <- MCKeyOf
  CommandOf <- MCCommandOf
  Cutovers = {1}
  Unrestricted = 2
  Capacity = 1
  Resubmission = FALSE
  MaxLives = 1
  NoContent = NoContent
  NoWorker = NoWorker
  NoNonce = NoNonce
  NoKey = NoKey
  NoReceipt = NoReceipt
  NoOne = NoOne
  NoReply = NoReply
SYMMETRY MCSymmetry
INVARIANT DenialStands
CHECK_DEADLOCK FALSE
