SPECIFICATION Spec
CONSTANTS
  a1 = a1
  a2 = a2
  b1 = b1
  b2 = b2
  c1 = c1
  c2 = c2
  k1 = k1
  k2 = k2
  q1 = q1
  q2 = q2
  t1 = t1
  t2 = t2
  Admitters = {t1, t2}
  Publishers = {q1, q2}
  Receipts = {b1, b2}
  SigningKeys = {k1, k2}
  TicketOf <- TwoTickets
  KeyOf <- TwoKeys
  Cutovers = {1, 2}
  Unrestricted = 3
  NoReceipt = NoReceipt
  NoOne = NoOne
  Keys = {k1, k2}
  Authorities = {a1, a2}
  Window <- TwoWindows
  DayLimit = 3
  Cmds = {c1, c2}
  FirstAuthority = a1
  FirstKey = k1
  SignerKey = k1
  Snapshots <- OneSnapshot
  Lifetime = 2
  Times = {0}
  Callers = {"management"}
  Enrolments = {a1, a2}
  MaxSeq = 2
  MaxFaults = 1
  Restores = 0
  Procs = {"p1", "p2"}
  Commands <- DepositWithdraw
  MaxAccepted = 2
  MaxReturned = 2
  MaxRollbacks = 0
PROPERTIES
  PublicationTakesEffect
  CommittedIsCompleted
  Answered
CHECK_DEADLOCK FALSE
