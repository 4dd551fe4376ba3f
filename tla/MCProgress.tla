-------------------- MODULE MCProgress --------------------
(***************************************************************************)
(* What must happen in the end: one scenario per component, each under the *)
(* fairness of its own specification, and without symmetry.                *)
(***************************************************************************)
EXTENDS Integers, TLC

CONSTANTS
  a1, a2, b1, b2, c1, c2, k1, k2, q1, q2, t1, t2
CONSTANTS
  Admitters, Publishers, Receipts, SigningKeys, TicketOf, KeyOf, Cutovers,
  Unrestricted, NoReceipt, NoOne, Keys, Authorities, Window, DayLimit, Cmds,
  FirstAuthority, FirstKey, SignerKey, Snapshots, Lifetime, Times, Callers,
  Enrolments, MaxSeq, MaxFaults, Restores, Procs, Commands, MaxAccepted, MaxReturned,
  MaxRollbacks

VARIABLES
  gatePending, gateEffective, gateHolder, gateWaiting, gateStage, gatePresented,
  gateSpent, gateRevoked,
  witDb, witCommands, witAnchor, witPending, witTurn, witFile, witJob, witUp,
  witClock, witSnap, witClient, witBackup, witLeft, witTip, witAcked, witIssued,
  bookRecords, bookHead, bookAcks, bookLock, bookJob, bookSeen, bookReturned,
  bookCrashes, bookRollbacks,
  scenario  \* the instance this behaviour is of

gateVars == <<gatePending, gateEffective, gateHolder, gateWaiting, gateStage,
              gatePresented, gateSpent, gateRevoked>>
witnessVars == <<witDb, witCommands, witAnchor, witPending, witTurn, witFile, witJob,
                 witUp, witClock, witSnap, witClient, witBackup, witLeft, witTip,
                 witAcked, witIssued>>
controllerVars == <<bookRecords, bookHead, bookAcks, bookLock, bookJob, bookSeen,
                    bookReturned, bookCrashes, bookRollbacks>>
vars == <<gateVars, witnessVars, controllerVars, scenario>>

\* The gate: a receipt below and one at the higher cutover
TwoTickets == b1 :> 0 @@ b2 :> 2
TwoKeys == b1 :> k1 @@ b2 :> k2

\* The authority host and the portfolio controller
TwoWindows == [a \in {a1, a2} |-> IF a = a1 THEN [from |-> 0, until |-> 2]
                                  ELSE [from |-> 1, until |-> 3]]
OneSnapshot == {[ver |-> 1, terms |-> a1, until |-> 3]}
DepositWithdraw == {[id |-> "a", amount |-> 1], [id |-> "b", amount |-> -1]}

-----------------------------------------------------------------------------
Gate == INSTANCE G00Admission WITH
  pending <- gatePending, effective <- gateEffective, holder <- gateHolder,
  waiting <- gateWaiting, stage <- gateStage, presented <- gatePresented,
  spent <- gateSpent, revoked <- gateRevoked

Recovery == INSTANCE AuthorityWitness WITH
  MaxCrashes <- 2, db <- witDb, commands <- witCommands, anchor <- witAnchor,
  pending <- witPending, turn <- witTurn, file <- witFile, job <- witJob,
  up <- witUp, clock <- witClock, snap <- witSnap, client <- witClient,
  backup <- witBackup, left <- witLeft, tip <- witTip, acked <- witAcked,
  issued <- witIssued

Controller == INSTANCE PortfolioController WITH
  MaxCrashes <- 2, records <- bookRecords, head <- bookHead, acks <- bookAcks,
  lock <- bookLock, job <- bookJob, seen <- bookSeen, returned <- bookReturned,
  crashes <- bookCrashes, rollbacks <- bookRollbacks

Init ==
  /\ scenario \in {"gate", "recovery", "controller"}
  /\ Gate!G00Init
  /\ Recovery!Init /\ Controller!Init

OnlyGate ==
  scenario = "gate" /\ UNCHANGED <<witnessVars, controllerVars, scenario>>
OnlyRecovery ==
  scenario = "recovery" /\ UNCHANGED <<gateVars, controllerVars, scenario>>
OnlyController ==
  scenario = "controller" /\ UNCHANGED <<gateVars, witnessVars, scenario>>

Next ==
  \/ OnlyGate /\ Gate!G00Next
  \/ OnlyRecovery /\ Recovery!Next
  \/ OnlyController /\ Controller!Next

\* Each component's own fairness, while the behaviour is of it.  The places of
\* a tuple are the actions that are fair one by one.
Turn(i) ==
  \/ OnlyGate /\ i <= 2 /\ Gate!FinishPublish(<<q1, q2>>[i])
  \/ OnlyGate /\ i > 2 /\ Gate!LeaveBoundary(<<t1, t2>>[i - 2])
  \/ OnlyRecovery /\ i = 1 /\ Recovery!RecoveryStep
  \/ OnlyController /\ i <= 2 /\ LET p == <<"p1", "p2">>[i]
                                 IN  ~Controller!At(p, "IDLE") /\ Controller!Client(p)
  \/ OnlyController /\ i = 3 /\ Controller!ClearOrphan
Retry(p) ==
  OnlyController /\ Controller!At(p, "RETRY") /\ Controller!ReadCurrent(p)
Fairness ==
  /\ \A i \in 1..4 : WF_vars(Turn(i))
  /\ \A p \in {"p1", "p2"} : /\ SF_vars(OnlyController /\ Controller!Lock(p))
                              /\ SF_vars(Retry(p))

Spec == Init /\ [][Next]_vars /\ Fairness

-----------------------------------------------------------------------------
\* A published restriction takes effect: the threads inside the boundary are
\* finitely many and leave it, and later ones are turned away once the
\* restriction is announced.
PublicationTakesEffect == Gate!PublicationTakesEffect

\* A transition that reached the database before the host died is completed
\* by the restart: the witness comes back to one coherent state.
CommittedIsCompleted == scenario = "recovery" => Recovery!CommittedIsCompleted

\* A caller that retries is answered in the end.
Answered == scenario = "controller" => Controller!Answered
=============================================================================
