----------------------- MODULE JournalAdmissionProofs -----------------------
(***************************************************************************)
(* The safety of the recovery journal and of the G00 admission controller, *)
(* the two components behind the connection pool, for any number of        *)
(* threads, operations, attempts, receipts, cutovers and restarts.         *)
(*                                                                         *)
(* The journal: a step of any method changes the rows by one of a dozen    *)
(* guarded transactions (RowTxn), the gate to closed or to open with a     *)
(* spent opening receipt (GateStep), and the receipt store only at a nonce *)
(* that is unspent (ConsumedStep).  The invariants are proved over these   *)
(* three kinds of change.  What the properties need beyond themselves is   *)
(* FramesBacked: a thread between the spending of a receipt and its use    *)
(* holds a receipt that was spent for that use, on that row, in this life. *)
(*                                                                         *)
(* The controller: NoOvertake is inductive with the types once it is known *)
(* that a thread past verification carries a receipt; ReceiptNotShared     *)
(* needs that every receipt carried is spent; AnnouncedBlocksEntry needs   *)
(* that the bound in force covers every publisher that waits.  G00Inv is   *)
(* their conjunction.                                                      *)
(***************************************************************************)
EXTENDS RecoveryJournal, G00Admission, TLAPS

-----------------------------------------------------------------------------
\* The admission controller

\* A thread past verification carries a receipt, and that receipt is spent
CarriesSpent ==
  /\ \A t \in Admitters : stage[t] # "idle" => presented[t] \in Receipts
  /\ \A t \in Admitters : presented[t] # NoReceipt => presented[t] \in spent

\* The announcement of every waiting publisher is in force
AnnouncedInForce == \A p \in Publishers : Bound <= waiting[p]

G00Inv ==
  /\ G00TypeOK
  /\ CarriesSpent
  /\ NoOvertake
  /\ ReceiptNotShared
  /\ AnnouncedInForce

\* Least is the minimum of two sequence numbers.
LEMMA LeastIsMinimum ==
  ASSUME NEW a \in 0..Unrestricted, NEW b \in 0..Unrestricted
  PROVE  /\ Least(a, b) \in 0..Unrestricted
         /\ Least(a, b) <= a
         /\ Least(a, b) <= b
         /\ Least(a, b) \in {a, b}
  BY SequencesAssumption DEF Least

\* Every variable keeps its type (all operations of G00AdmissionController and
\* of its trust root).
LEMMA G00TypeInductive == G00TypeOK /\ [G00Next]_g00vars => G00TypeOK'
<1> SUFFICES ASSUME G00TypeOK, [G00Next]_g00vars PROVE G00TypeOK'
  OBVIOUS
<1> USE SequencesAssumption, ThreadsAssumption
<1>1. ASSUME NEW c \in Cutovers, RequestRestriction(c) PROVE G00TypeOK'
  BY <1>1 DEF Least, G00TypeOK, RequestRestriction
<1>2. ASSUME NEW p \in Publishers, NEW c \in Cutovers, BeginPublish(p, c)
      PROVE  G00TypeOK'
  BY <1>2 DEF Least, G00TypeOK, BeginPublish
<1>3. ASSUME NEW p \in Publishers, FinishPublish(p) PROVE G00TypeOK'
  BY <1>3 DEF Least, G00TypeOK, FinishPublish
<1>4. ASSUME NEW key \in SigningKeys, Revoke(key) PROVE G00TypeOK'
  BY <1>4 DEF G00TypeOK, Revoke
<1>5. ASSUME NEW t \in Admitters, NEW r \in Receipts, Verify(t, r) PROVE G00TypeOK'
  BY <1>5 DEF G00TypeOK, Verify
<1>6. ASSUME NEW t \in Admitters, CheckCutover(t) PROVE G00TypeOK'
  BY <1>6 DEF G00TypeOK, CheckCutover
<1>7. ASSUME NEW t \in Admitters, AdmitVerified(t) PROVE G00TypeOK'
  BY <1>7 DEF G00TypeOK, AdmitVerified
<1>8. ASSUME NEW t \in Admitters, Reject(t) PROVE G00TypeOK'
  BY <1>8 DEF G00TypeOK, Reject
<1>9. ASSUME NEW t \in Admitters, LeaveBoundary(t) PROVE G00TypeOK'
  BY <1>9 DEF G00TypeOK, LeaveBoundary
<1>10. CASE UNCHANGED g00vars
  BY <1>10 DEF G00TypeOK, g00vars
<1> QED
  BY <1>1, <1>2, <1>3, <1>4, <1>5, <1>6, <1>7, <1>8, <1>9, <1>10
     DEF G00Next, AdmitterStep

\* No step raises the bound that tickets are compared with: a publication
\* replaces an announcement by an effective cutover that is at least as low.
LEMMA BoundFalls == G00TypeOK /\ [G00Next]_g00vars => Bound' <= Bound
<1> SUFFICES ASSUME G00TypeOK, [G00Next]_g00vars PROVE Bound' <= Bound
  OBVIOUS
<1> USE SequencesAssumption
<1>1. Bound \in 0..Unrestricted
  BY LeastIsMinimum DEF G00TypeOK, Bound
<1>2. ASSUME NEW c \in Cutovers, RequestRestriction(c) PROVE Bound' <= Bound
  BY <1>2 DEF G00TypeOK, RequestRestriction, Bound, Least
<1>3. ASSUME NEW p \in Publishers, NEW c \in Cutovers, BeginPublish(p, c)
      PROVE  Bound' <= Bound
  BY <1>3 DEF G00TypeOK, BeginPublish, Bound, Least
<1>4. ASSUME NEW p \in Publishers, FinishPublish(p) PROVE Bound' <= Bound
  BY <1>4 DEF G00TypeOK, FinishPublish, Bound, Least
<1>5. CASE UNCHANGED <<pending, effective>>
  BY <1>1, <1>5 DEF Bound
<1> QED
  BY <1>2, <1>3, <1>4, <1>5
     DEF G00Next, AdmitterStep, g00vars, Revoke, Verify, CheckCutover,
         AdmitVerified, Reject, LeaveBoundary

\* The other conjuncts of G00Inv, one action at a time
LEMMA CarriesInductive ==
  G00TypeOK /\ CarriesSpent /\ [G00Next]_g00vars => CarriesSpent'
<1> SUFFICES ASSUME G00TypeOK, CarriesSpent, [G00Next]_g00vars PROVE CarriesSpent'
  OBVIOUS
<1>1. ASSUME NEW t \in Admitters, NEW r \in Receipts, Verify(t, r) PROVE CarriesSpent'
  BY <1>1 DEF G00TypeOK, CarriesSpent, Verify
<1>2. ASSUME NEW t \in Admitters, CheckCutover(t) PROVE CarriesSpent'
  BY <1>2 DEF G00TypeOK, CarriesSpent, CheckCutover
<1>3. ASSUME NEW t \in Admitters, AdmitVerified(t) PROVE CarriesSpent'
  BY <1>3 DEF G00TypeOK, CarriesSpent, AdmitVerified
<1>4. ASSUME NEW t \in Admitters, Reject(t) \/ LeaveBoundary(t) PROVE CarriesSpent'
  BY <1>4 DEF G00TypeOK, CarriesSpent, Reject, LeaveBoundary
<1>5. CASE UNCHANGED <<stage, presented, spent>>
  BY <1>5 DEF CarriesSpent
<1> QED
  BY <1>1, <1>2, <1>3, <1>4, <1>5
     DEF G00Next, AdmitterStep, g00vars, RequestRestriction, BeginPublish,
         FinishPublish, Revoke

\* The thread inside the boundary holds the lock, so no publisher finishes past it.
LEMMA NoOvertakeInductive ==
  G00TypeOK /\ CarriesSpent /\ NoOvertake /\ [G00Next]_g00vars => NoOvertake'
<1> SUFFICES ASSUME G00TypeOK, CarriesSpent, NoOvertake, [G00Next]_g00vars
             PROVE  NoOvertake'
  OBVIOUS
<1> USE SequencesAssumption, ThreadsAssumption
<1>1. ASSUME NEW p \in Publishers, FinishPublish(p) PROVE NoOvertake'
  BY <1>1 DEF G00TypeOK, NoOvertake, FinishPublish
<1>2. ASSUME NEW t \in Admitters, NEW r \in Receipts, Verify(t, r) PROVE NoOvertake'
  BY <1>2 DEF G00TypeOK, NoOvertake, Verify
<1>3. ASSUME NEW t \in Admitters, CheckCutover(t) PROVE NoOvertake'
  BY <1>3 DEF G00TypeOK, NoOvertake, CheckCutover
<1>4. ASSUME NEW t \in Admitters, AdmitVerified(t) PROVE NoOvertake'
  <2>1. TicketOf[presented[t]] \in Nat /\ TicketOf[presented[t]] < effective
    BY <1>4 DEF G00TypeOK, CarriesSpent, AdmitVerified, Bound, Least
  <2> QED
    BY <1>4, <2>1 DEF G00TypeOK, NoOvertake, AdmitVerified
<1>5. ASSUME NEW t \in Admitters, Reject(t) PROVE NoOvertake'
  BY <1>5 DEF G00TypeOK, NoOvertake, Reject
<1>6. ASSUME NEW t \in Admitters, LeaveBoundary(t) PROVE NoOvertake'
  BY <1>6 DEF G00TypeOK, NoOvertake, LeaveBoundary
<1>7. CASE UNCHANGED <<effective, holder, stage, presented>>
  BY <1>7 DEF NoOvertake
<1> QED
  BY <1>1, <1>2, <1>3, <1>4, <1>5, <1>6, <1>7
     DEF G00Next, AdmitterStep, g00vars, RequestRestriction, BeginPublish, Revoke

\* A receipt that is carried is spent, and a spent one is not verified again.
LEMMA NotSharedInductive ==
  G00TypeOK /\ CarriesSpent /\ ReceiptNotShared /\ [G00Next]_g00vars
    => ReceiptNotShared'
<1> SUFFICES ASSUME G00TypeOK, CarriesSpent, ReceiptNotShared, [G00Next]_g00vars
             PROVE  ReceiptNotShared'
  OBVIOUS
<1>1. ASSUME NEW t \in Admitters, NEW r \in Receipts, Verify(t, r)
      PROVE  ReceiptNotShared'
  BY <1>1, ThreadsAssumption DEF G00TypeOK, CarriesSpent, ReceiptNotShared, Verify
<1>2. ASSUME NEW t \in Admitters, Reject(t) \/ LeaveBoundary(t)
      PROVE  ReceiptNotShared'
  BY <1>2 DEF G00TypeOK, ReceiptNotShared, Reject, LeaveBoundary
<1>3. CASE UNCHANGED presented
  BY <1>3 DEF ReceiptNotShared
<1> QED
  BY <1>1, <1>2, <1>3
     DEF G00Next, AdmitterStep, g00vars, RequestRestriction, BeginPublish,
         FinishPublish, Revoke, CheckCutover, AdmitVerified

\* The bound in force stays at or below the cutover of every waiting publisher.
LEMMA InForceInductive ==
  G00TypeOK /\ AnnouncedInForce /\ [G00Next]_g00vars => AnnouncedInForce'
<1> SUFFICES ASSUME G00TypeOK, AnnouncedInForce, [G00Next]_g00vars
             PROVE  AnnouncedInForce'
  OBVIOUS
<1> USE SequencesAssumption
<1>1. Bound' <= Bound /\ Bound \in Nat /\ Bound' \in Nat
  <2>1. G00TypeOK' /\ Bound' <= Bound
    BY BoundFalls, G00TypeInductive
  <2> QED
    BY <2>1 DEF G00TypeOK, Bound, Least
<1>2. ASSUME NEW p \in Publishers, NEW c \in Cutovers, BeginPublish(p, c)
      PROVE  AnnouncedInForce'
  <2>1. Bound' <= c
    BY <1>2 DEF G00TypeOK, BeginPublish, Bound, Least
  <2> QED
    BY <1>1, <1>2, <2>1 DEF G00TypeOK, AnnouncedInForce, BeginPublish
<1>3. ASSUME NEW p \in Publishers, FinishPublish(p) PROVE AnnouncedInForce'
  BY <1>1, <1>3 DEF G00TypeOK, AnnouncedInForce, FinishPublish
<1>4. CASE UNCHANGED waiting
  BY <1>1, <1>4 DEF G00TypeOK, AnnouncedInForce
<1> QED
  BY <1>2, <1>3, <1>4
     DEF G00Next, AdmitterStep, g00vars, RequestRestriction, Revoke, Verify,
         CheckCutover, AdmitVerified, Reject, LeaveBoundary

\* Initially nothing is announced, carried or spent.
LEMMA G00InvInit == G00Init => G00Inv
<1> SUFFICES ASSUME G00Init PROVE G00Inv
  OBVIOUS
<1> USE SequencesAssumption, ThreadsAssumption DEF G00Init
<1>1. G00TypeOK
  BY DEF G00TypeOK
<1>2. CarriesSpent /\ NoOvertake /\ ReceiptNotShared
  BY DEF CarriesSpent, NoOvertake, ReceiptNotShared
<1>3. AnnouncedInForce
  BY DEF AnnouncedInForce, Bound, Least
<1> QED
  BY <1>1, <1>2, <1>3 DEF G00Inv

\* Every step of an admitter or a publisher keeps the invariant.
LEMMA G00InvInductive == G00Inv /\ [G00Next]_g00vars => G00Inv'
  BY G00TypeInductive, CarriesInductive, NoOvertakeInductive, NotSharedInductive,
     InForceInductive DEF G00Inv

\* G00Inv holds in every reachable state.
THEOREM G00Invariance == G00Spec => []G00Inv
  BY G00InvInit, G00InvInductive, PTL DEF G00Spec

\* For any number of admitters and publishers, the variables of the controller
\* keep their types, no published cutover covers the ticket of the thread
\* inside the boundary, and no two threads carry the same receipt
\* (admit_verified, publish_restriction, verify_and_consume).
THEOREM G00Safety ==
  G00Spec => [](G00TypeOK /\ NoOvertake /\ ReceiptNotShared)
<1>1. G00Inv => G00TypeOK /\ NoOvertake /\ ReceiptNotShared
  BY DEF G00Inv
<1> QED
  BY <1>1, G00Invariance, PTL

\* For any number of publishers, no interleaving of announcements and
\* publications loosens the restriction in force (publish_restriction clears
\* only its own announcement).
THEOREM RestrictionsOnlyTighten == G00Spec => RestrictionNeverLoosens
<1>1. G00Inv /\ [G00Next]_g00vars => [Bound' <= Bound]_g00vars
  BY BoundFalls DEF G00Inv
<1> QED
  BY <1>1, G00Invariance, PTL DEF G00Spec, RestrictionNeverLoosens

\* For any number of threads, nobody enters the boundary past a publisher that
\* has announced a cutover covering its ticket and still waits (admit_verified
\* compares with the announcement as well).
THEOREM NoEntryPastAnnouncement == G00Spec => AnnouncedBlocksEntry
<1> DEFINE Entry ==
      \A t \in Admitters, p \in Publishers :
        stage[t] # "admitted" /\ stage'[t] = "admitted" =>
          TicketOf[presented[t]] < waiting[p]
<1>1. ASSUME G00Inv, [G00Next]_g00vars PROVE [Entry]_g00vars
  <2> SUFFICES ASSUME NEW t \in Admitters, NEW p \in Publishers, G00Next,
                      stage[t] # "admitted", stage'[t] = "admitted"
               PROVE  TicketOf[presented[t]] < waiting[p]
    BY <1>1, Zenon
  <2>1. AdmitVerified(t)
    BY <1>1 DEF G00Inv, G00TypeOK, G00Next, AdmitterStep, RequestRestriction,
                BeginPublish, FinishPublish, Revoke, Verify, CheckCutover,
                AdmitVerified, Reject, LeaveBoundary
  <2>2. TicketOf[presented[t]] \in Nat /\ TicketOf[presented[t]] < Bound
    <3>1. presented[t] \in Receipts /\ TicketOf[presented[t]] < Bound
      BY <1>1, <2>1 DEF G00Inv, CarriesSpent, AdmitVerified
    <3> QED
      BY <3>1, SequencesAssumption
  <2>3. Bound \in Nat /\ waiting[p] \in Nat /\ Bound <= waiting[p]
    BY <1>1, LeastIsMinimum DEF G00Inv, G00TypeOK, AnnouncedInForce, Bound
  <2> QED
    BY <2>2, <2>3
<1> QED
  BY <1>1, G00Invariance, PTL DEF G00Spec, AnnouncedBlocksEntry

-----------------------------------------------------------------------------
\* The recovery journal

Opening == {"bootstrap", "requalify"}
OpeningPCs == {"bootstrap_txn", "bootstrap_unlink", "requalify_unlink", "clear"}

\* Receipt n was spent to resolve row k
SpentOn(n, k) ==
  /\ consumed[n].by = "resolve"
  /\ consumed[n].key = k
  /\ consumed[n].outcome \in Outcomes

\* Receipt n was spent by this process to open exposure
SpentToOpen(n) == consumed[n].by \in Opening /\ consumed[n].life = life

FrameBacked(f) ==
  /\ f.pc = "capacity_txn" => f.key \in Keys
  /\ f.pc = "resolve_txn" => f.key \in Keys /\ f.nonce \in Nonces /\ SpentOn(f.nonce, f.key)
  /\ f.pc \in OpeningPCs => f.nonce \in Nonces /\ SpentToOpen(f.nonce) /\ store = "bound"

FramesBacked ==
  /\ \A c \in Callers : FrameBacked(frame[c])
  /\ proc # "up" => \A c \in Callers : frame[c] = Idle

IInv ==
  /\ TypeOK
  /\ FramesBacked
  /\ RowConsistent
  /\ ConflictHeld
  /\ ReceiptBacksOutcome
  /\ ExposureBacked

-----------------------------------------------------------------------------
(* The three kinds of change *)

RowTxn ==
  \/ \E k \in Keys, p \in Proofs : ReserveTxn(k, p)
  \/ \E k \in Keys, x \in Contents, w \in Workers, p \in Proofs :
       CanPrepare(k, p) /\ PrepareTxn(k, x, w, p)
  \/ \E k \in Keys, x \in Contents : RecordIntentTxn(k, x)
  \/ \E k \in Keys, w \in Workers : CanBindWorker(k) /\ BindWorkerTxn(k, w)
  \/ \E k \in Keys : /\ CanTransition(k, FALSE, RowStates)
                     /\ TransitionTxn(k, "CAPACITY_DENIED", FALSE, "NONE", "NONE")
  \/ \E k \in Keys : /\ CanTransition(k, TRUE, {"INTENT"})
                     /\ TransitionTxn(k, "EFFECT_POSSIBLE", TRUE, "NONE", "DISPATCHED")
  \/ \E k \in Keys : TransitionTxn(k, "AMBIGUOUS_HOLD", TRUE, "NONE", "HELD")
  \/ \E k \in Keys, o \in Outcomes :
       /\ CanTransition(k, FALSE, {"EFFECT_POSSIBLE"})
       /\ TransitionTxn(k, RecoveredAs(o), FALSE, o, "ACKNOWLEDGED")
  \/ \E k \in Keys : /\ CanTransition(k, FALSE, RowStates)
                     /\ TransitionTxn(k, "FAILED_BEFORE_EFFECT", FALSE, "NONE",
                                      "BEFORE_EFFECT")
  \/ \E k \in Keys, n \in Nonces :
       /\ SpentOn(n, k)
       /\ CanResolve(k, consumed[n].content)
       /\ ResolveTxn(k, consumed[n].outcome, n)
  \/ \E k \in Keys : ConflictTxn(k)

RowStep == RowTxn \/ UNCHANGED <<rows, conflicts, admission>>

GateStep ==
  \/ gate' = gate
  \/ gate' = [state |-> "CLOSED", evidence |-> "REASON"]
  \/ \E n \in Nonces : /\ gate' = [state |-> "OPEN", evidence |-> n]
                       /\ consumed'[n].by \in Opening

ConsumedStep ==
  \/ consumed' = consumed
  \/ \E n \in Nonces, u \in Use :
       consumed[n] = Unused /\ consumed' = [consumed EXCEPT ![n] = u]

\* What a method without a receipt does to the durable state
Writes == (RowTxn \/ UNCHANGED durable) /\ consumed' = consumed

\* A row transaction leaves the gate alone or closes it.
LEMMA RowTxnGate ==
  ASSUME TypeOK, RowTxn
  PROVE  gate' = gate \/ gate' = [state |-> "CLOSED", evidence |-> "REASON"]
  BY Zenon DEF RowTxn, ReserveTxn, PrepareTxn, RecordIntentTxn, BindWorkerTxn,
         TransitionTxn, ResolveTxn, ConflictTxn, SetGate

\* A method without a receipt makes one of the three kinds of change.
LEMMA WritesClassified ==
  ASSUME TypeOK, Writes
  PROVE  RowStep /\ GateStep /\ ConsumedStep
  BY RowTxnGate DEF Writes, RowStep, GateStep, ConsumedStep, durable

\* The methods that write rows run one of the row transactions.
LEMMA MethodsWrite ==
  ASSUME TypeOK, FramesBacked, NEW c \in Callers,
         \/ DenyNewExposure(c)
         \/ Abandon(c)
         \/ ClearDenial(c)
         \/ UnlinkSentinel(c)
         \/ PersistClosedSentinel(c)
         \/ \E k \in Keys, p \in Proofs : ReserveAdmissionEvidence(c, k, p)
         \/ \E k \in Keys, x \in Contents, w \in Workers, p \in Proofs :
              PrepareProtectedDispatch(c, k, x, w, p)
         \/ \E k \in Keys, x \in Contents : RecordIntent(c, k, x)
         \/ \E k \in Keys, x \in Contents : RecordCapacityDenied(c, k, x)
         \/ CapacityTransition(c)
         \/ \E k \in Keys, w \in Workers : BindWorker(c, k, w)
         \/ \E k \in Keys : MarkEffectPossible(c, k)
         \/ \E k \in Keys : Hold(c, k)
         \/ \E k \in Keys, o \in Outcomes : Resolved(c, k, o)
         \/ \E k \in Keys : FailedBeforeEffect(c, k)
         \/ ResolveAuthenticatedTerminal(c)
  PROVE  Writes
<1> USE DEF Writes, Transact
<1>1. CASE \/ DenyNewExposure(c) \/ Abandon(c) \/ ClearDenial(c)
           \/ UnlinkSentinel(c) \/ PersistClosedSentinel(c)
  BY <1>1, Zenon DEF DenyNewExposure, Abandon, ClearDenial, UnlinkSentinel,
              PersistClosedSentinel
<1>2. CASE \E k \in Keys, p \in Proofs : ReserveAdmissionEvidence(c, k, p)
  BY <1>2, Zenon DEF ReserveAdmissionEvidence, RowTxn
<1>3. CASE \E k \in Keys, x \in Contents, w \in Workers, p \in Proofs :
             PrepareProtectedDispatch(c, k, x, w, p)
  BY <1>3, Zenon DEF PrepareProtectedDispatch, RowTxn
<1>4. CASE \E k \in Keys, x \in Contents : RecordIntent(c, k, x)
  BY <1>4, Zenon DEF RecordIntent, RowTxn
<1>5. CASE \E k \in Keys, x \in Contents : RecordCapacityDenied(c, k, x)
  BY <1>5, Zenon DEF RecordCapacityDenied, RowTxn
<1>6. CASE CapacityTransition(c)
  <2>1. frame[c].key \in Keys
    BY <1>6, Zenon DEF CapacityTransition, FramesBacked, FrameBacked
  <2> QED
    BY <1>6, <2>1, Zenon DEF CapacityTransition, RowTxn
<1>7. CASE \E k \in Keys, w \in Workers : BindWorker(c, k, w)
  BY <1>7, Zenon DEF BindWorker, RowTxn
<1>8. CASE \E k \in Keys : MarkEffectPossible(c, k)
  BY <1>8, Zenon DEF MarkEffectPossible, RowTxn
<1>9. CASE \E k \in Keys : Hold(c, k)
  BY <1>9, Zenon DEF Hold, RowTxn
<1>10. CASE \E k \in Keys, o \in Outcomes : Resolved(c, k, o)
  BY <1>10, Zenon DEF Resolved, RowTxn
<1>11. CASE \E k \in Keys : FailedBeforeEffect(c, k)
  BY <1>11, Zenon DEF FailedBeforeEffect, RowTxn
<1>12. CASE ResolveAuthenticatedTerminal(c)
  <2> DEFINE n == frame[c].nonce
             k == frame[c].key
  <2>1. k \in Keys /\ n \in Nonces /\ SpentOn(n, k)
    BY <1>12, Zenon DEF ResolveAuthenticatedTerminal, FramesBacked, FrameBacked
  <2>2. /\ \/ /\ CanResolve(k, consumed[n].content)
              /\ ResolveTxn(k, consumed[n].outcome, n)
           \/ ConflictTxn(k)
           \/ UNCHANGED durable
        /\ consumed' = consumed
    BY <1>12, Zenon DEF ResolveAuthenticatedTerminal
  <2> QED
    BY <2>1, <2>2, Zenon DEF RowTxn
<1> QED
  BY <1>1, <1>2, <1>3, <1>4, <1>5, <1>6, <1>7, <1>8, <1>9, <1>10, <1>11, <1>12, Zenon

\* Spending a receipt changes the store at an unspent nonce.
LEMMA SpendClassified ==
  ASSUME TypeOK, NEW n \in Nonces, NEW use \in {"bootstrap", "resolve", "requalify"},
         NEW k \in Keys \cup {NoKey}, NEW x \in Contents \cup {NoContent},
         NEW o \in Outcomes \cup {"NONE"}, Spend(n, use, k, x, o)
  PROVE  /\ ConsumedStep
         /\ consumed' \in [Nonces -> Use]
         /\ consumed'[n] = [by |-> use, key |-> k, content |-> x, outcome |-> o,
                            life |-> life]
<1> DEFINE u == [by |-> use, key |-> k, content |-> x, outcome |-> o, life |-> life]
<1>1. u \in Use
  BY DEF TypeOK, Use
<1>2. consumed[n] = Unused /\ consumed' = [consumed EXCEPT ![n] = u]
  BY DEF Spend
<1> QED
  BY <1>1, <1>2, Zenon DEF ConsumedStep, TypeOK

\* Every step changes the rows, the gate and the receipt store in one of the
\* three ways.
LEMMA StepsClassified ==
  ASSUME TypeOK, FramesBacked, [Next]_vars
  PROVE  RowStep /\ GateStep /\ ConsumedStep
<1> DEFINE Goal == RowStep /\ GateStep /\ ConsumedStep
<1>1. CASE BeginConstruct \/ Crash \/ UNCHANGED vars
  BY <1>1, Zenon DEF BeginConstruct, Crash, vars, durable, RowStep, GateStep, ConsumedStep
<1>2. CASE Initialize
  BY <1>2 DEF Initialize, RowStep, GateStep, ConsumedStep
<1>3. CASE RestoreFailClosedGate
  BY <1>3 DEF RestoreFailClosedGate, MayCloseGate, RowStep, GateStep, ConsumedStep
<1>4. ASSUME NEW c \in Callers, PersistClosedGate(c) PROVE Goal
  BY <1>4 DEF PersistClosedGate, MayCloseGate, RowStep, GateStep, ConsumedStep
<1>5. ASSUME NEW c \in Callers, NEW n \in Nonces, AuthorizeBootstrap(c, n) PROVE Goal
  BY <1>5, SpendClassified, Zenon DEF AuthorizeBootstrap, durable, RowStep, GateStep
<1>6. ASSUME NEW c \in Callers, NEW k \in Keys, NEW o \in Outcomes, NEW n \in Nonces,
             SpendTerminal(c, k, o, n)
      PROVE  Goal
  <2>1. rows[k].content \in Contents \cup {NoContent}
    BY Zenon DEF TypeOK, Row
  <2> QED
    BY <1>6, <2>1, SpendClassified, Zenon DEF SpendTerminal, durable, RowStep, GateStep
<1>7. ASSUME NEW c \in Callers, BootstrapCommit(c) PROVE Goal
  <2> DEFINE n == frame[c].nonce
  <2>1. n \in Nonces /\ consumed[n].by \in Opening /\ consumed' = consumed
    BY <1>7, Zenon DEF BootstrapCommit, FramesBacked, FrameBacked, OpeningPCs, SpentToOpen
  <2>2. BootstrapTxn(n) \/ UNCHANGED durable
    BY <1>7, Zenon DEF BootstrapCommit
  <2> QED
    BY <2>1, <2>2 DEF BootstrapTxn, durable, RowStep, GateStep, ConsumedStep
<1>8. ASSUME NEW c \in Callers, NEW k \in Keys, NEW n \in Nonces,
             RequalifyExposure(c, k, n)
      PROVE  Goal
  <2>1. rows[k].content \in Contents \cup {NoContent}
    BY DEF TypeOK, Row
  <2>2. PICK o \in Outcomes : Spend(n, "requalify", k, rows[k].content, o)
    BY <1>8 DEF RequalifyExposure
  <2>3. ConsumedStep /\ consumed'[n].by = "requalify"
    <3> HIDE DEF Goal
    <3>1. k \in Keys \cup {NoKey} /\ o \in Outcomes \cup {"NONE"}
      OBVIOUS
    <3>2. /\ ConsumedStep
          /\ consumed'[n] = [by |-> "requalify", key |-> k, content |-> rows[k].content,
                             outcome |-> o, life |-> life]
      BY <2>1, <2>2, <3>1, SpendClassified, Zenon
    <3> QED
      BY <3>2
  <2>4. RequalifyTxn(n) \/ UNCHANGED durable
    BY <1>8 DEF RequalifyExposure
  <2>5. UNCHANGED <<rows, conflicts, admission>>
    BY <2>4 DEF RequalifyTxn, durable
  <2>6. gate' = gate \/ gate' = [state |-> "OPEN", evidence |-> n]
    BY <2>4 DEF RequalifyTxn, SetGate, durable
  <2> QED
    BY <2>3, <2>5, <2>6 DEF RowStep, GateStep, Opening
<1>9. ASSUME NEW c \in Callers, Writes PROVE Goal
  BY <1>9, WritesClassified
<1> QED
  BY <1>1, <1>2, <1>3, <1>4, <1>5, <1>6, <1>7, <1>8, <1>9, MethodsWrite
     DEF Next, CallerStep

-----------------------------------------------------------------------------
(* Types *)

\* The rows, the conflicts and the admission evidence keep their types.
LEMMA RowTypes ==
  ASSUME TypeOK, RowStep
  PROVE  /\ rows' \in [Keys -> Row]
         /\ conflicts' \in SUBSET Keys
         /\ admission' \in SUBSET [key: Keys, proof: Proofs]
<1> DEFINE Goal == /\ rows' \in [Keys -> Row]
                   /\ conflicts' \in SUBSET Keys
                   /\ admission' \in SUBSET [key: Keys, proof: Proofs]
<1>1. ASSUME NEW k \in Keys, NEW p \in Proofs, ReserveTxn(k, p) PROVE Goal
  BY <1>1 DEF TypeOK, ReserveTxn
<1>2. ASSUME NEW k \in Keys, NEW x \in Contents, NEW w \in Workers, NEW p \in Proofs,
             PrepareTxn(k, x, w, p)
      PROVE  Goal
  BY <1>2 DEF TypeOK, PrepareTxn, Row, RowStates, BlockingStates, Notes
<1>3. ASSUME NEW k \in Keys, NEW x \in Contents, RecordIntentTxn(k, x) PROVE Goal
  BY <1>3 DEF TypeOK, RecordIntentTxn, Row, RowStates, Notes
<1>4. ASSUME NEW k \in Keys, NEW w \in Workers, BindWorkerTxn(k, w) PROVE Goal
  <2>1. rows[k] \in Row
    BY DEF TypeOK
  <2>2. [rows[k] EXCEPT !.worker = w] \in Row
    BY <2>1 DEF Row
  <2>3. rows' = [rows EXCEPT ![k] = [rows[k] EXCEPT !.worker = w]]
    BY <1>4 DEF BindWorkerTxn
  <2> QED
    BY <1>4, <2>2, <2>3 DEF TypeOK, BindWorkerTxn
<1>5. ASSUME NEW k \in Keys, NEW s \in RowStates, NEW u \in BOOLEAN,
             NEW o \in Outcomes \cup {"NONE"}, NEW e \in Notes \cup Nonces,
             TransitionTxn(k, s, u, o, e)
      PROVE  Goal
  <2> DEFINE r == [rows[k] EXCEPT !.state = s, !.uncertain = u, !.result = o,
                                  !.evidence = e]
  <2>1. rows[k] \in Row
    BY DEF TypeOK
  <2>2. r \in Row
    BY <2>1, Zenon DEF Row
  <2>3. rows' = [rows EXCEPT ![k] = r]
    BY <1>5 DEF TransitionTxn
  <2> QED
    BY <1>5, <2>2, <2>3 DEF TypeOK, TransitionTxn
<1>6. ASSUME NEW k \in Keys, ConflictTxn(k) PROVE Goal
  <2> DEFINE r == [rows[k] EXCEPT !.state = "AMBIGUOUS_HOLD", !.uncertain = TRUE,
                                  !.evidence = "CONFLICTING"]
  <2>1. rows[k] \in Row
    BY DEF TypeOK
  <2>2. r \in Row
    BY <2>1, Zenon DEF Row, RowStates, BlockingStates, HoldStates, Notes
  <2>3. rows' = [rows EXCEPT ![k] = r]
    BY <1>6 DEF ConflictTxn
  <2> QED
    BY <1>6, <2>2, <2>3 DEF TypeOK, ConflictTxn
<1>7. CASE UNCHANGED <<rows, conflicts, admission>>
  BY <1>7 DEF TypeOK
<1>8. {"CAPACITY_DENIED", "EFFECT_POSSIBLE", "AMBIGUOUS_HOLD", "FAILED_BEFORE_EFFECT"}
        \subseteq RowStates
  BY DEF RowStates, BlockingStates, HoldStates
<1>9. \A o \in Outcomes : RecoveredAs(o) \in RowStates
  BY DEF RecoveredAs, RowStates, RecoveredStates
<1>10. {"NONE", "DISPATCHED", "HELD", "ACKNOWLEDGED", "BEFORE_EFFECT"} \subseteq Notes
  BY DEF Notes
<1>11. ASSUME RowTxn PROVE Goal
  BY <1>1, <1>2, <1>3, <1>4, <1>5, <1>6, <1>8, <1>9, <1>10, <1>11, Zenon
     DEF RowTxn, ResolveTxn, SpentOn
<1> QED
  BY <1>7, <1>11 DEF RowStep

-----------------------------------------------------------------------------
(* Threads *)

\* A spent receipt is never spent again (_consume).
LEMMA SpentStays ==
  ASSUME TypeOK, ConsumedStep, NEW n \in Nonces, consumed[n].by # "none"
  PROVE  consumed'[n] = consumed[n]
  BY DEF TypeOK, ConsumedStep, Unused

\* A thread that another thread's step does not move stays backed.
LEMMA BackedStays ==
  ASSUME TypeOK, ConsumedStep, UNCHANGED <<store, life>>, NEW f, FrameBacked(f)
  PROVE  FrameBacked(f)'
<1>1. f.pc = "resolve_txn" => SpentOn(f.nonce, f.key)'
  BY SpentStays DEF FrameBacked, SpentOn
<1>2. f.pc \in OpeningPCs => SpentToOpen(f.nonce)'
  BY SpentStays DEF FrameBacked, SpentToOpen, Opening
<1> QED
  BY <1>1, <1>2, Zenon DEF FrameBacked

\* What a step of thread c does to the control state
MethodStep(c) ==
  /\ \E f \in Frame : frame' = [frame EXCEPT ![c] = f] /\ FrameBacked(f)'
  /\ denied' \in BOOLEAN
  /\ ~denied' => ~denied \/ frame[c].pc = "clear"
  /\ owed' \in BOOLEAN
  /\ sentinel' \in BOOLEAN
  /\ booted' \in BOOLEAN
  /\ UNCHANGED <<store, proc, life>>

\* Outside the middle of a method there is nothing to back.
LEMMA RestingFrames ==
  ASSUME NEW k \in Keys \cup {NoKey}, NEW n \in Nonces \cup {NoNonce},
         NEW pc \in {"idle", "deny_sentinel", "deny_row"}
  PROVE  At(pc, k, n) \in Frame /\ FrameBacked(At(pc, k, n))'
  BY DEF At, Frame, PCs, FrameBacked, OpeningPCs

\* The first step of deny_new_exposure leaves the thread with nothing to back.
LEMMA DenyControl ==
  ASSUME TypeOK, NEW c \in Callers, BeginDeny(c)
  PROVE  /\ \E f \in Frame : frame' = [frame EXCEPT ![c] = f] /\ FrameBacked(f)'
         /\ denied' = TRUE /\ owed' = TRUE
  BY RestingFrames, Zenon DEF BeginDeny, Goto

\* The row transactions do not touch the bootstrap mark.
LEMMA RowTxnBooted == ASSUME RowTxn PROVE booted' = booted
  BY Zenon DEF RowTxn, ReserveTxn, PrepareTxn, RecordIntentTxn, BindWorkerTxn,
         TransitionTxn, ResolveTxn, ConflictTxn

\* The methods that return after one transaction end idle or denying.
LEMMA SingleTransactionControl ==
  ASSUME TypeOK, FramesBacked, NEW c \in Callers,
         \/ \E k \in Keys, p \in Proofs : ReserveAdmissionEvidence(c, k, p)
         \/ \E k \in Keys, x \in Contents, w \in Workers, p \in Proofs :
              PrepareProtectedDispatch(c, k, x, w, p)
         \/ \E k \in Keys, x \in Contents : RecordIntent(c, k, x)
         \/ CapacityTransition(c)
         \/ \E k \in Keys, w \in Workers : BindWorker(c, k, w)
         \/ \E k \in Keys : MarkEffectPossible(c, k)
         \/ \E k \in Keys : Hold(c, k)
         \/ \E k \in Keys, o \in Outcomes : Resolved(c, k, o)
         \/ \E k \in Keys : FailedBeforeEffect(c, k)
         \/ ResolveAuthenticatedTerminal(c)
  PROVE  MethodStep(c)
<1>1. Writes
  BY MethodsWrite
<1>2. booted' = booted
  BY <1>1, RowTxnBooted DEF Writes, durable
<1>3. /\ (Goto(c, Idle) /\ UNCHANGED <<denied, owed>>) \/ BeginDeny(c)
      /\ UNCHANGED <<store, sentinel, proc, life>>
  BY Zenon DEF ReserveAdmissionEvidence, PrepareProtectedDispatch, RecordIntent,
         CapacityTransition, BindWorker, MarkEffectPossible, Hold, Resolved,
         FailedBeforeEffect, ResolveAuthenticatedTerminal, Transact
<1>4. Idle \in Frame /\ FrameBacked(Idle)'
  BY RestingFrames DEF Idle
<1>5. CASE Goto(c, Idle) /\ UNCHANGED <<denied, owed>>
  BY <1>2, <1>3, <1>4, <1>5, Zenon DEF TypeOK, MethodStep, Goto
<1>6. CASE BeginDeny(c)
  BY <1>2, <1>3, <1>6, DenyControl, Zenon DEF TypeOK, MethodStep
<1> QED
  BY <1>3, <1>5, <1>6

\* Every step of a thread keeps the control state typed and the thread backed.
LEMMA CallerControl ==
  ASSUME TypeOK, FramesBacked, NEW c \in Callers, CallerStep(c), ConsumedStep
  PROVE  MethodStep(c)
<1> DEFINE Moves(f) == f \in Frame /\ frame' = [frame EXCEPT ![c] = f] /\ FrameBacked(f)'
<1>0. /\ frame[c] \in Frame /\ FrameBacked(frame[c])
      /\ Idle \in Frame /\ FrameBacked(Idle)'
  BY RestingFrames, Zenon DEF TypeOK, FramesBacked, Idle
<1>1. CASE DenyNewExposure(c)
  BY <1>1, DenyControl, Zenon DEF DenyNewExposure, MethodStep, TypeOK, durable
<1>2. CASE PersistClosedSentinel(c)
  <2>1. Moves(At("deny_row", NoKey, NoNonce))
    BY <1>2, RestingFrames DEF PersistClosedSentinel, Goto
  <2> QED
    BY <1>2, <2>1, Zenon DEF PersistClosedSentinel, MayWriteSentinel, MethodStep, TypeOK, durable
<1>3. CASE PersistClosedGate(c)
  BY <1>0, <1>3, Zenon DEF PersistClosedGate, Goto, MethodStep, TypeOK
<1>4. CASE Abandon(c)
  BY <1>0, <1>4, Zenon DEF Abandon, Goto, MethodStep, TypeOK, durable
<1>5. CASE ClearDenial(c)
  BY <1>0, <1>5, Zenon DEF ClearDenial, Goto, MethodStep, TypeOK, durable
<1>6. ASSUME NEW n \in Nonces, AuthorizeBootstrap(c, n) PROVE MethodStep(c)
  <2> DEFINE f == At("bootstrap_txn", NoKey, n)
  <2>1. consumed'[n].by = "bootstrap" /\ consumed'[n].life = life
    BY <1>6 DEF AuthorizeBootstrap, Spend, TypeOK
  <2>2. f \in Frame /\ f.pc = "bootstrap_txn" /\ f.nonce = n
    BY Zenon DEF At, Frame, PCs
  <2>3. FrameBacked(f)'
    <3>1. store' = "bound" /\ life' = life
      BY <1>6 DEF AuthorizeBootstrap
    <3> HIDE DEF f
    <3> QED
      BY <2>1, <2>2, <3>1 DEF FrameBacked, SpentToOpen, Opening, OpeningPCs
  <2> QED
    BY <1>6, <2>2, <2>3, Zenon DEF AuthorizeBootstrap, Goto, MethodStep, TypeOK, durable
<1>7. CASE BootstrapCommit(c)
  <2>0. PICK n \in Nonces \cup {NoNonce} : n = frame[c].nonce
    BY <1>0 DEF Frame
  <2> DEFINE f == At("bootstrap_unlink", NoKey, n)
  <2>1. f \in Frame /\ f.pc = "bootstrap_unlink" /\ f.nonce = n
    BY DEF At, Frame, PCs
  <2>2. FrameBacked(f)'
    BY <1>0, <1>7, <2>0, <2>1, Zenon DEF BootstrapCommit, FrameBacked, SpentToOpen, OpeningPCs
  <2>3. booted' \in BOOLEAN
    BY <1>7, Zenon DEF BootstrapCommit, BootstrapTxn, durable, TypeOK
  <2>4. \/ Goto(c, f) /\ owed' = FALSE /\ UNCHANGED denied
        \/ BeginDeny(c)
    BY <1>7, <2>0, Zenon DEF BootstrapCommit
  <2>5. UNCHANGED <<store, sentinel, proc, life>>
    BY <1>7, Zenon DEF BootstrapCommit
  <2>6. CASE Goto(c, f) /\ owed' = FALSE /\ UNCHANGED denied
    BY <2>1, <2>2, <2>3, <2>5, <2>6, Zenon DEF Goto, MethodStep, TypeOK
  <2>7. CASE BeginDeny(c)
    BY <2>3, <2>5, <2>7, DenyControl, Zenon DEF MethodStep, TypeOK
  <2> QED
    BY <2>4, <2>6, <2>7, Zenon
<1>8. ASSUME NEW k \in Keys, NEW n \in Nonces, RequalifyExposure(c, k, n)
      PROVE  MethodStep(c)
  <2> DEFINE f == At("requalify_unlink", k, n)
  <2>1. PICK o \in Outcomes : Spend(n, "requalify", k, rows[k].content, o)
    BY <1>8 DEF RequalifyExposure
  <2>2. consumed'[n].by = "requalify" /\ consumed'[n].life = life
    BY <2>1 DEF Spend, TypeOK
  <2>3. f \in Frame /\ f.pc = "requalify_unlink" /\ f.nonce = n
    BY DEF At, Frame, PCs
  <2>4. FrameBacked(f)'
    <3>1. store' = "bound" /\ life' = life
      BY <1>8 DEF RequalifyExposure
    <3> HIDE DEF f
    <3> QED
      BY <2>2, <2>3, <3>1, Zenon DEF FrameBacked, SpentToOpen, Opening, OpeningPCs
  <2>5. booted' = booted /\ UNCHANGED <<store, sentinel, proc, life>>
    BY <1>8 DEF RequalifyExposure, RequalifyTxn, durable
  <2>6. \A g \in Frame : FrameBacked(g) => FrameBacked(g)'
    BY <2>5, BackedStays
  <2>7. \/ Goto(c, f) /\ owed' = FALSE /\ UNCHANGED denied
        \/ UNCHANGED volatile
        \/ BeginDeny(c)
    BY <1>8 DEF RequalifyExposure
  <2>8. CASE Goto(c, f) /\ owed' = FALSE /\ UNCHANGED denied
    BY <2>3, <2>4, <2>5, <2>8, Zenon DEF Goto, MethodStep, TypeOK
  <2>9. CASE UNCHANGED volatile
    <3>1. frame' = [frame EXCEPT ![c] = frame[c]]
      BY <2>9 DEF volatile, TypeOK
    <3>2. PICK g \in Frame : g = frame[c]
      BY <1>0
    <3>3. frame' = [frame EXCEPT ![c] = g] /\ FrameBacked(g)'
      BY <1>0, <3>1, <3>2, <2>6
    <3> QED
      BY <2>5, <2>9, <3>3 DEF MethodStep, TypeOK, volatile
  <2>10. CASE BeginDeny(c)
    BY <2>5, <2>10, DenyControl, Zenon DEF MethodStep, TypeOK
  <2> QED
    BY <2>7, <2>8, <2>9, <2>10, Zenon
<1>9. CASE UnlinkSentinel(c)
  <2>0. PICK n \in Nonces \cup {NoNonce} : n = frame[c].nonce
    BY <1>0 DEF Frame
  <2> DEFINE f == At("clear", NoKey, n)
  <2>1. f \in Frame /\ f.pc = "clear" /\ f.nonce = n
    BY DEF At, Frame, PCs
  <2>2. FrameBacked(f)'
    BY <1>0, <1>9, <2>0, <2>1, Zenon DEF UnlinkSentinel, FrameBacked, SpentToOpen, OpeningPCs
  <2>3. /\ \/ Goto(c, f) /\ UNCHANGED <<denied, owed>>
           \/ Goto(c, Idle) /\ UNCHANGED <<denied, owed>>
           \/ BeginDeny(c)
        /\ sentinel' \in BOOLEAN
        /\ booted' = booted /\ UNCHANGED <<store, proc, life>>
    BY <1>9, <2>0, Zenon DEF UnlinkSentinel, durable, TypeOK
  <2>4. CASE Goto(c, f) /\ UNCHANGED <<denied, owed>>
    BY <2>1, <2>2, <2>3, <2>4, Zenon DEF Goto, MethodStep, TypeOK
  <2>5. CASE Goto(c, Idle) /\ UNCHANGED <<denied, owed>>
    BY <1>0, <2>3, <2>5, Zenon DEF Goto, MethodStep, TypeOK
  <2>6. CASE BeginDeny(c)
    BY <2>3, <2>6, DenyControl, Zenon DEF MethodStep, TypeOK
  <2> QED
    BY <2>3, <2>4, <2>5, <2>6
<1>10. ASSUME NEW k \in Keys, NEW x \in Contents, RecordCapacityDenied(c, k, x)
       PROVE  MethodStep(c)
  <2> DEFINE f == At("capacity_txn", k, NoNonce)
  <2>1. f \in Frame /\ FrameBacked(f)'
    BY Zenon DEF At, Frame, PCs, FrameBacked, OpeningPCs
  <2>2. booted' = booted
    BY <1>10 DEF RecordCapacityDenied, Transact, RecordIntentTxn, durable
  <2>3. /\ (Goto(c, f) /\ UNCHANGED <<denied, owed>>) \/ BeginDeny(c)
        /\ UNCHANGED <<store, sentinel, proc, life>>
    BY <1>10 DEF RecordCapacityDenied, Transact
  <2>4. CASE Goto(c, f) /\ UNCHANGED <<denied, owed>>
    BY <2>1, <2>2, <2>3, <2>4, Zenon DEF Goto, MethodStep, TypeOK
  <2>5. CASE BeginDeny(c)
    BY <2>2, <2>3, <2>5, DenyControl, Zenon DEF MethodStep, TypeOK
  <2> QED
    BY <2>3, <2>4, <2>5
<1>11. ASSUME NEW k \in Keys, NEW o \in Outcomes, NEW n \in Nonces,
              SpendTerminal(c, k, o, n)
       PROVE  MethodStep(c)
  <2> DEFINE f == At("resolve_txn", k, n)
  <2>1. consumed'[n].by = "resolve" /\ consumed'[n].key = k /\ consumed'[n].outcome = o
    BY <1>11 DEF SpendTerminal, Spend, TypeOK
  <2>2. f \in Frame /\ f.pc = "resolve_txn" /\ f.nonce = n /\ f.key = k
    BY DEF At, Frame, PCs
  <2>3. FrameBacked(f)'
    BY <2>1, <2>2, Zenon DEF FrameBacked, SpentOn, OpeningPCs
  <2> QED
    BY <1>11, <2>2, <2>3, Zenon DEF SpendTerminal, Goto, MethodStep, TypeOK, durable
<1> QED
  BY <1>1, <1>2, <1>3, <1>4, <1>5, <1>6, <1>7, <1>8, <1>9, <1>10, <1>11,
     SingleTransactionControl DEF CallerStep

-----------------------------------------------------------------------------
(* What a step does to one row *)

SameRow(k) ==
  /\ rows'[k].state = rows[k].state
  /\ rows'[k].uncertain = rows[k].uncertain
  /\ rows'[k].result = rows[k].result
  /\ rows'[k].evidence = rows[k].evidence
  /\ rows'[k].content = rows[k].content

Becomes(k, state, uncertain) ==
  rows'[k].state = state /\ rows'[k].uncertain = uncertain

\* A row without a conflict, outside a hold
Free(k) == k \notin conflicts /\ rows[k].state \notin HoldStates

RowMove(k) ==
  \/ SameRow(k)
  \/ Becomes(k, "AMBIGUOUS_HOLD", TRUE)
  \/ Free(k) /\ Becomes(k, "EFFECT_POSSIBLE", TRUE)
  \/ Free(k) /\ \E s \in {"INTENT", "CAPACITY_DENIED", "FAILED_BEFORE_EFFECT"} :
                  Becomes(k, s, FALSE)
  \/ Free(k) /\ \E o \in Outcomes : /\ Becomes(k, RecoveredAs(o), FALSE)
                                    /\ rows'[k].result = o
                                    /\ rows'[k].evidence = "ACKNOWLEDGED"
  \/ \E n \in Nonces : /\ SpentOn(n, k)
                       /\ k \notin conflicts
                       /\ Becomes(k, RecoveredAs(consumed[n].outcome), FALSE)
                       /\ rows'[k].result = consumed[n].outcome
                       /\ rows'[k].evidence = n
                       /\ rows'[k].content = consumed[n].content

ConflictMove(k) ==
  k \in conflicts' => k \in conflicts \/ Becomes(k, "AMBIGUOUS_HOLD", TRUE)

\* A transition sets the four columns of its row and touches no other row.
LEMMA TransitionRow ==
  ASSUME TypeOK, NEW k \in Keys, NEW s, NEW u, NEW o, NEW e,
         TransitionTxn(k, s, u, o, e)
  PROVE  /\ Becomes(k, s, u) /\ rows'[k].result = o /\ rows'[k].evidence = e
         /\ rows'[k].content = rows[k].content
         /\ \A j \in Keys \ {k} : SameRow(j)
         /\ conflicts' = conflicts
<1> DEFINE r == [rows[k] EXCEPT !.state = s, !.uncertain = u, !.result = o,
                                !.evidence = e]
<1>1. rows[k] \in Row
  BY DEF TypeOK
<1>2. r.state = s /\ r.uncertain = u /\ r.result = o /\ r.evidence = e
      /\ r.content = rows[k].content
  BY <1>1 DEF Row
<1>3. rows' = [rows EXCEPT ![k] = r] /\ conflicts' = conflicts
  BY DEF TransitionTxn
<1>4. rows'[k] = r /\ \A j \in Keys \ {k} : rows'[j] = rows[j]
  BY <1>3 DEF TypeOK
<1> QED
  BY <1>2, <1>3, <1>4, Zenon DEF Becomes, SameRow

\* Every step moves every row in one of these six ways.
LEMMA RowsMove ==
  ASSUME TypeOK, ConflictHeld, RowStep
  PROVE  \A j \in Keys : RowMove(j) /\ ConflictMove(j)
<1> DEFINE Goal == \A j \in Keys : RowMove(j) /\ ConflictMove(j)
<1>0. \A k \in Keys : rows[k].state \in {"ABSENT", "INTENT", "EFFECT_POSSIBLE"} => Free(k)
  BY DEF ConflictHeld, Free, HoldStates
<1>1. ASSUME NEW k \in Keys, NEW p \in Proofs, ReserveTxn(k, p) PROVE Goal
  BY <1>1, Zenon DEF ReserveTxn, RowMove, SameRow, ConflictMove
<1>2. ASSUME NEW k \in Keys, NEW x \in Contents, NEW w \in Workers, NEW p \in Proofs,
             CanPrepare(k, p), PrepareTxn(k, x, w, p)
      PROVE  Goal
  BY <1>0, <1>2, Zenon DEF CanPrepare, Present, PrepareTxn, RowMove, SameRow, Becomes,
                    ConflictMove, TypeOK
<1>3. ASSUME NEW k \in Keys, NEW x \in Contents, RecordIntentTxn(k, x) PROVE Goal
  BY <1>0, <1>3, Zenon DEF Present, RecordIntentTxn, RowMove, SameRow, Becomes,
                    ConflictMove, TypeOK
<1>4. ASSUME NEW k \in Keys, NEW w \in Workers, BindWorkerTxn(k, w) PROVE Goal
  <2>1. rows[k] \in Row
    BY DEF TypeOK
  <2> DEFINE r == [rows[k] EXCEPT !.worker = w]
  <2>2. r.state = rows[k].state /\ r.uncertain = rows[k].uncertain
        /\ r.result = rows[k].result /\ r.evidence = rows[k].evidence
        /\ r.content = rows[k].content
    BY <2>1 DEF Row
  <2>3. rows' = [rows EXCEPT ![k] = r] /\ conflicts' = conflicts
    BY <1>4 DEF BindWorkerTxn
  <2> HIDE DEF r
  <2> QED
    BY <2>2, <2>3, Zenon DEF TypeOK, RowMove, SameRow, ConflictMove
<1>5. ASSUME NEW k \in Keys, NEW s, NEW u, NEW o, NEW e,
             TransitionTxn(k, s, u, o, e),
             /\ Becomes(k, s, u) /\ rows'[k].result = o /\ rows'[k].evidence = e
             /\ rows'[k].content = rows[k].content
             => RowMove(k)
      PROVE  Goal
  <2>1. /\ Becomes(k, s, u) /\ rows'[k].result = o /\ rows'[k].evidence = e
        /\ rows'[k].content = rows[k].content
        /\ \A j \in Keys \ {k} : SameRow(j)
        /\ conflicts' = conflicts
    BY <1>5, TransitionRow, Zenon
  <2>2. RowMove(k)
    BY <1>5, <2>1, Zenon
  <2> QED
    BY <2>1, <2>2, Zenon DEF RowMove, ConflictMove
<1>6. ASSUME NEW k \in Keys, CanTransition(k, FALSE, RowStates),
             \/ TransitionTxn(k, "CAPACITY_DENIED", FALSE, "NONE", "NONE")
             \/ TransitionTxn(k, "FAILED_BEFORE_EFFECT", FALSE, "NONE", "BEFORE_EFFECT")
      PROVE  Goal
  <2>1. Free(k)
    BY <1>6 DEF CanTransition, Free
  <2> QED
    BY <1>5, <1>6, <2>1, Zenon DEF RowMove
<1>7. ASSUME NEW k \in Keys, CanTransition(k, TRUE, {"INTENT"}),
             TransitionTxn(k, "EFFECT_POSSIBLE", TRUE, "NONE", "DISPATCHED")
      PROVE  Goal
  <2>1. Free(k)
    BY <1>0, <1>7 DEF CanTransition
  <2> QED
    BY <1>5, <1>7, <2>1, Zenon DEF RowMove
<1>8. ASSUME NEW k \in Keys, TransitionTxn(k, "AMBIGUOUS_HOLD", TRUE, "NONE", "HELD")
      PROVE  Goal
  BY <1>5, <1>8, Zenon DEF RowMove
<1>9. ASSUME NEW k \in Keys, NEW o \in Outcomes,
             CanTransition(k, FALSE, {"EFFECT_POSSIBLE"}),
             TransitionTxn(k, RecoveredAs(o), FALSE, o, "ACKNOWLEDGED")
      PROVE  Goal
  <2>1. Free(k)
    BY <1>9, Zenon DEF CanTransition, Free
  <2> QED
    BY <1>5, <1>9, <2>1, Zenon DEF RowMove
<1>10. ASSUME NEW k \in Keys, NEW n \in Nonces, SpentOn(n, k),
              CanResolve(k, consumed[n].content),
              ResolveTxn(k, consumed[n].outcome, n)
       PROVE  Goal
  <2>1. PICK o \in Outcomes : o = consumed[n].outcome
    BY <1>10, Zenon DEF SpentOn
  <2>2. TransitionTxn(k, RecoveredAs(o), FALSE, o, n)
    BY <1>10, <2>1, Zenon DEF ResolveTxn
  <2>3. k \notin conflicts /\ rows[k].content = consumed[n].content
    BY <1>10 DEF CanResolve
  <2> QED
    BY <1>5, <1>10, <2>1, <2>2, <2>3, Zenon DEF RowMove
<1>11. ASSUME NEW k \in Keys, ConflictTxn(k) PROVE Goal
  <2>1. rows[k] \in Row
    BY DEF TypeOK
  <2> DEFINE r == [rows[k] EXCEPT !.state = "AMBIGUOUS_HOLD", !.uncertain = TRUE,
                                  !.evidence = "CONFLICTING"]
  <2>2. r.state = "AMBIGUOUS_HOLD" /\ r.uncertain = TRUE
    BY <2>1 DEF Row
  <2>3. rows' = [rows EXCEPT ![k] = r] /\ conflicts' = conflicts \cup {k}
    BY <1>11 DEF ConflictTxn
  <2> HIDE DEF r
  <2> QED
    BY <2>2, <2>3, Zenon DEF TypeOK, RowMove, SameRow, Becomes, ConflictMove
<1>12. ASSUME UNCHANGED <<rows, conflicts, admission>> PROVE Goal
  BY <1>12, Zenon DEF RowMove, SameRow, ConflictMove
<1>13. SUFFICES Goal
  OBVIOUS
<1> HIDE DEF Goal
<1>14. ASSUME RowTxn PROVE Goal
  BY <1>1, <1>2, <1>3, <1>4, <1>6, <1>7, <1>8, <1>9, <1>10, <1>11, <1>14, ZenonT(60)
     DEF RowTxn
<1> QED
  BY <1>12, <1>14 DEF RowStep

-----------------------------------------------------------------------------
(* The invariants are inductive *)

\* The columns of a row stay consistent: each move sets them together.
LEMMA RowConsistentInductive ==
  ASSUME TypeOK, RowConsistent, \A j \in Keys : RowMove(j)
  PROVE  RowConsistent'
<1> DEFINE Goal(k) ==
      /\ rows'[k].uncertain <=> rows'[k].state \in BlockingStates
      /\ \A o \in Outcomes : rows'[k].state = RecoveredAs(o) => rows'[k].result = o
<1> SUFFICES ASSUME NEW k \in Keys PROVE Goal(k)
  BY Zenon DEF RowConsistent
<1>1. CASE SameRow(k)
  BY <1>1, Zenon DEF RowConsistent, SameRow
<1>2. CASE \/ Becomes(k, "AMBIGUOUS_HOLD", TRUE)
           \/ Becomes(k, "EFFECT_POSSIBLE", TRUE)
  BY <1>2 DEF Becomes, BlockingStates, HoldStates, RecoveredAs
<1>3. ASSUME NEW s \in {"INTENT", "CAPACITY_DENIED", "FAILED_BEFORE_EFFECT"},
             Becomes(k, s, FALSE)
      PROVE  Goal(k)
  BY <1>3, Zenon DEF Becomes, BlockingStates, HoldStates, RecoveredAs
<1>4. ASSUME NEW p \in Outcomes, Becomes(k, RecoveredAs(p), FALSE), rows'[k].result = p
      PROVE  Goal(k)
  BY <1>4, Zenon DEF Becomes, BlockingStates, HoldStates, RecoveredAs, Outcomes
<1>5. ASSUME NEW n \in Nonces, SpentOn(n, k),
             Becomes(k, RecoveredAs(consumed[n].outcome), FALSE),
             rows'[k].result = consumed[n].outcome
      PROVE  Goal(k)
  BY <1>5 DEF SpentOn, Becomes, BlockingStates, HoldStates, RecoveredAs, Outcomes
<1> HIDE DEF Goal
<1> QED
  BY <1>1, <1>2, <1>3, <1>4, <1>5, Zenon DEF RowMove

\* A conflicting row stays held: only a row without a conflict moves elsewhere.
LEMMA ConflictHeldInductive ==
  ASSUME TypeOK, TypeOK', ConflictHeld,
         \A j \in Keys : RowMove(j) /\ ConflictMove(j)
  PROVE  ConflictHeld'
<1> SUFFICES ASSUME NEW k \in Keys, k \in conflicts'
             PROVE  rows'[k].state = "AMBIGUOUS_HOLD" /\ rows'[k].uncertain
  BY DEF ConflictHeld, TypeOK
<1>1. CASE k \in conflicts
  BY <1>1, Zenon DEF ConflictHeld, RowMove, SameRow, Becomes, Free
<1>2. CASE Becomes(k, "AMBIGUOUS_HOLD", TRUE)
  BY <1>2, Zenon DEF Becomes
<1> QED
  BY <1>1, <1>2, Zenon DEF ConflictMove

\* Recovered rows and an open gate keep their receipts: a spent receipt never
\* changes, and a new one is recorded before it is named.
LEMMA ReceiptBacksOutcomeInductive ==
  ASSUME TypeOK, ReceiptBacksOutcome, \A j \in Keys : RowMove(j), GateStep, ConsumedStep
  PROVE  ReceiptBacksOutcome'
<1> DEFINE Backed(k) ==
      rows[k].state \in RecoveredStates =>
       \/ rows[k].evidence = "ACKNOWLEDGED"
       \/ \E n \in Nonces :
            /\ rows[k].evidence = n
            /\ consumed[n].by = "resolve"
            /\ consumed[n].key = k
            /\ consumed[n].content = rows[k].content
            /\ rows[k].state = RecoveredAs(consumed[n].outcome)
<1>1. ASSUME NEW k \in Keys PROVE Backed(k)'
  <2>0. Backed(k) /\ RowMove(k)
    BY Zenon DEF ReceiptBacksOutcome
  <2>1. CASE SameRow(k)
    BY <2>0, <2>1, SpentStays, Zenon DEF SameRow
  <2>2. CASE \/ Becomes(k, "AMBIGUOUS_HOLD", TRUE)
             \/ Becomes(k, "EFFECT_POSSIBLE", TRUE)
             \/ \E s \in {"INTENT", "CAPACITY_DENIED", "FAILED_BEFORE_EFFECT"} :
                  Becomes(k, s, FALSE)
    BY <2>2, Zenon DEF Becomes, RecoveredStates
  <2>3. CASE rows'[k].evidence = "ACKNOWLEDGED"
    BY <2>3, Zenon
  <2>4. ASSUME NEW n \in Nonces, SpentOn(n, k),
               Becomes(k, RecoveredAs(consumed[n].outcome), FALSE),
               rows'[k].evidence = n, rows'[k].content = consumed[n].content
        PROVE  Backed(k)'
    <3>1. consumed'[n] = consumed[n]
      BY <2>4, SpentStays DEF SpentOn
    <3> QED
      BY <2>4, <3>1, Zenon DEF SpentOn, Becomes
  <2> HIDE DEF Backed
  <2> QED
    BY <2>0, <2>1, <2>2, <2>3, <2>4, Zenon DEF RowMove
<1>2. ASSUME gate'.state = "OPEN"
      PROVE  \E n \in Nonces : gate'.evidence = n /\ consumed'[n].by \in Opening
  <2>1. CASE gate' = gate
    BY <1>2, <2>1, SpentStays DEF ReceiptBacksOutcome, Opening
  <2>2. CASE gate' = [state |-> "CLOSED", evidence |-> "REASON"]
    BY <1>2, <2>2
  <2>3. ASSUME NEW n \in Nonces, gate' = [state |-> "OPEN", evidence |-> n],
               consumed'[n].by \in Opening
        PROVE  \E m \in Nonces : gate'.evidence = m /\ consumed'[m].by \in Opening
    BY <2>3
  <2> QED
    BY <2>1, <2>2, <2>3, Zenon DEF GateStep
<1> QED
  BY <1>1, <1>2 DEF ReceiptBacksOutcome, Opening

\* The types and the backing of the threads.
LEMMA TypeInductive ==
  ASSUME TypeOK, FramesBacked, [Next]_vars
  PROVE  TypeOK' /\ FramesBacked'
<1>1. RowStep /\ GateStep /\ ConsumedStep
  BY StepsClassified
<1>2. /\ rows' \in [Keys -> Row] /\ conflicts' \in SUBSET Keys
      /\ admission' \in SUBSET [key: Keys, proof: Proofs]
  BY <1>1, RowTypes, Zenon
<1>3. gate' \in [state: {"MISSING", "OPEN", "CLOSED"}, evidence: Nonces \cup {"REASON"}]
  BY <1>1 DEF GateStep, TypeOK
<1>4. consumed' \in [Nonces -> Use]
  BY <1>1 DEF ConsumedStep, TypeOK
<1> DEFINE Control ==
      /\ booted' \in BOOLEAN
      /\ store' \in {"absent", "file", "bound", "legacy"}
      /\ sentinel' \in BOOLEAN
      /\ proc' \in {"down", "new_store", "old_store", "initialized", "up"}
      /\ denied' \in BOOLEAN
      /\ frame' \in [Callers -> Frame]
      /\ life' \in 0..MaxLives
      /\ owed' \in BOOLEAN
<1>5. \A c \in Callers : FrameBacked(Idle)' /\ Idle \in Frame
  BY RestingFrames, Zenon DEF Idle
<1>6. ASSUME \A c \in Callers : frame'[c] = Idle PROVE FramesBacked'
  <2>1. Idle.pc = "idle"
    BY Zenon DEF Idle, At
  <2> QED
    BY <1>6, <2>1 DEF FramesBacked, FrameBacked, OpeningPCs
<1>7. CASE BeginConstruct
  <2>1. Control
    BY <1>7, MaxLivesAssumption DEF BeginConstruct, TypeOK, durable, volatile
  <2>2. \A c \in Callers : frame'[c] = Idle
    BY <1>7 DEF BeginConstruct, FramesBacked, volatile
  <2> QED
    BY <1>2, <1>3, <1>4, <1>6, <2>1, <2>2, Zenon DEF TypeOK
<1>8. CASE Initialize
  <2>1. Control
    BY <1>8, Zenon DEF Initialize, TypeOK, volatile
  <2>2. \A c \in Callers : frame'[c] = Idle
    BY <1>8 DEF Initialize, FramesBacked, volatile
  <2> QED
    BY <1>2, <1>3, <1>4, <1>6, <2>1, <2>2 DEF TypeOK
<1>9. CASE RestoreFailClosedGate
  <2>1. Control
    BY <1>9, Zenon DEF RestoreFailClosedGate, MayWriteSentinel, TypeOK
  <2>2. \A c \in Callers : frame'[c] = Idle
    BY <1>9 DEF RestoreFailClosedGate, FramesBacked
  <2> QED
    BY <1>2, <1>3, <1>4, <1>6, <2>1, <2>2 DEF TypeOK
<1>10. CASE Crash
  <2>1. Control
    BY <1>5, <1>10, Zenon DEF Crash, TypeOK, durable
  <2>2. \A c \in Callers : frame'[c] = Idle
    BY <1>10, Zenon DEF Crash
  <2> QED
    BY <1>2, <1>3, <1>4, <1>6, <2>1, <2>2 DEF TypeOK
<1>11. ASSUME proc = "up", NEW c \in Callers, CallerStep(c)
       PROVE  TypeOK' /\ FramesBacked'
  <2>1. MethodStep(c)
    BY <1>1, <1>11, CallerControl
  <2>2. PICK f \in Frame : frame' = [frame EXCEPT ![c] = f] /\ FrameBacked(f)'
    BY <2>1, Zenon DEF MethodStep
  <2>3. Control
    BY <2>1, <2>2 DEF MethodStep, TypeOK
  <2>4. ASSUME NEW d \in Callers PROVE FrameBacked(frame[d])'
    <3>1. CASE d = c
      BY <2>2, <3>1, Zenon DEF TypeOK, FrameBacked, SpentOn, SpentToOpen
    <3>2. CASE d # c
      <4>1. PICK g \in Frame : g = frame[d] /\ g = frame'[d] /\ FrameBacked(g)
        BY <2>2, <3>2 DEF TypeOK, FramesBacked
      <4>2. FrameBacked(g)'
        BY <1>1, <2>1, <4>1, BackedStays DEF MethodStep
      <4> QED
        BY <4>1, <4>2, Zenon DEF FrameBacked, SpentOn, SpentToOpen
    <3> QED
      BY <3>1, <3>2
  <2>5. proc' = "up"
    BY <1>11, <2>1 DEF MethodStep
  <2> QED
    BY <1>2, <1>3, <1>4, <2>3, <2>4, <2>5 DEF TypeOK, FramesBacked
<1>12. CASE UNCHANGED vars
  <2>1. TypeOK'
    BY <1>12 DEF vars, durable, volatile, TypeOK
  <2>2. FramesBacked'
    <3>1. /\ frame' = frame /\ proc' = proc /\ consumed' = consumed
          /\ life' = life /\ store' = store
      BY <1>12 DEF vars, volatile
    <3> QED
      BY <3>1, Zenon DEF FramesBacked, FrameBacked, SpentOn, SpentToOpen
  <2> QED
    BY <2>1, <2>2, Zenon
<1> QED
  BY <1>7, <1>8, <1>9, <1>10, <1>11, <1>12 DEF Next

\* Only a thread at "clear" lifts a denial, and its receipt is this process's.
LEMMA ExposureBackedInductive ==
  ASSUME TypeOK, FramesBacked, ExposureBacked, [Next]_vars
  PROVE  ExposureBacked'
<1>1. ConsumedStep
  BY StepsClassified, Zenon
<1>2. ASSUME store = "bound", UNCHANGED <<store, life>>,
             NEW n \in Nonces, SpentToOpen(n)
      PROVE  ExposureBacked'
  <2>1. consumed'[n] = consumed[n]
    BY <1>1, <1>2, SpentStays DEF SpentToOpen, Opening
  <2> QED
    BY <1>2, <2>1, Zenon DEF ExposureBacked, SpentToOpen, Opening
<1>3. CASE BeginConstruct \/ Initialize \/ RestoreFailClosedGate \/ Crash
  BY <1>3, Zenon DEF BeginConstruct, Initialize, RestoreFailClosedGate, Crash,
              ExposureBacked, exposure_allowed
<1>4. ASSUME proc = "up", NEW c \in Callers, CallerStep(c) PROVE ExposureBacked'
  <2>1. MethodStep(c)
    BY <1>1, <1>4, CallerControl, Zenon
  <2>2. CASE denied'
    BY <2>2 DEF ExposureBacked, exposure_allowed
  <2>3. CASE ~denied
    BY <1>2, <1>4, <2>1, <2>3, Zenon
       DEF ExposureBacked, exposure_allowed, MethodStep, SpentToOpen, Opening
  <2>4. CASE frame[c].pc = "clear"
    BY <1>2, <2>1, <2>4, Zenon DEF FramesBacked, FrameBacked, OpeningPCs, MethodStep
  <2> QED
    BY <2>1, <2>2, <2>3, <2>4 DEF MethodStep
<1>5. CASE UNCHANGED vars
  BY <1>5 DEF vars, durable, volatile, ExposureBacked, exposure_allowed
<1> QED
  BY <1>3, <1>4, <1>5 DEF Next

-----------------------------------------------------------------------------
(* Theorems *)

\* The initial state: nothing recorded, nothing spent, no process.
LEMMA InitInvariant == Init => IInv
<1> SUFFICES ASSUME Init PROVE IInv
  OBVIOUS
<1>1. AbsentRow \in Row /\ Unused \in Use /\ Idle \in Frame
  <2>1. AbsentRow \in Row
    BY Zenon DEF AbsentRow, Row, Notes
  <2>2. Unused \in Use
    BY MaxLivesAssumption DEF Unused, Use
  <2>3. Idle \in Frame
    BY DEF Idle, At, Frame, PCs
  <2> QED
    BY <2>1, <2>2, <2>3, Zenon
<1>2. TypeOK
  <2>1. rows \in [Keys -> Row] /\ consumed \in [Nonces -> Use] /\ frame \in [Callers -> Frame]
    BY <1>1 DEF Init
  <2>2. life \in 0..MaxLives
    BY MaxLivesAssumption DEF Init
  <2>3. gate \in [state: {"MISSING", "OPEN", "CLOSED"}, evidence: Nonces \cup {"REASON"}]
    BY Zenon DEF Init
  <2> QED
    BY <2>1, <2>2, <2>3, Zenon DEF Init, TypeOK
<1>3. FramesBacked
  BY DEF Init, FramesBacked, FrameBacked, Idle, At, OpeningPCs
<1>4. RowConsistent /\ ConflictHeld /\ ReceiptBacksOutcome
  BY Zenon DEF Init, RowConsistent, ConflictHeld, ReceiptBacksOutcome, AbsentRow,
         BlockingStates, HoldStates, RecoveredStates, RecoveredAs
<1>5. ExposureBacked
  BY DEF Init, ExposureBacked, exposure_allowed
<1> QED
  BY <1>2, <1>3, <1>4, <1>5 DEF IInv

\* Every step of a thread, of the constructor and every crash keeps IInv.
LEMMA StepInvariant == IInv /\ [Next]_vars => IInv'
<1> SUFFICES ASSUME IInv, [Next]_vars PROVE IInv'
  OBVIOUS
<1>1. RowStep /\ GateStep /\ ConsumedStep
  BY StepsClassified DEF IInv
<1>2. \A j \in Keys : RowMove(j) /\ ConflictMove(j)
  BY <1>1, RowsMove DEF IInv
<1>3. TypeOK' /\ FramesBacked'
  BY TypeInductive DEF IInv
<1>4. RowConsistent'
  BY <1>2, RowConsistentInductive DEF IInv
<1>5. ConflictHeld'
  BY <1>2, <1>3, ConflictHeldInductive DEF IInv
<1>6. ReceiptBacksOutcome'
  BY <1>1, <1>2, ReceiptBacksOutcomeInductive DEF IInv
<1>7. ExposureBacked'
  BY ExposureBackedInductive DEF IInv
<1> QED
  BY <1>3, <1>4, <1>5, <1>6, <1>7 DEF IInv

\* IInv holds in every reachable state of the journal, for any number of
\* threads, operations, attempts, receipts and process starts.
THEOREM JournalInvariance == Spec => []IInv
  BY InitInvariant, StepInvariant, PTL DEF Spec

\* The columns of a row agree, contradictory evidence stays held, a recovered
\* row and an open gate name the receipt spent for them, and a process admits
\* exposure only on a receipt it spent itself: whatever the interleaving of the
\* journal's methods, ambiguous commits, crashes and restarts.
THEOREM JournalSafety ==
  Spec => [](TypeOK /\ RowConsistent /\ ConflictHeld /\ ReceiptBacksOutcome
             /\ ExposureBacked)
<1>1. IInv => TypeOK /\ RowConsistent /\ ConflictHeld /\ ReceiptBacksOutcome
              /\ ExposureBacked
  BY DEF IInv
<1> QED
  BY <1>1, JournalInvariance, PTL

\* Every row the journal keeps is backed: its columns agree, contradictory evidence is
\* held, and a recovered row or an open gate names the receipt spent for it.
THEOREM RowsStayBacked == Spec => []RowsBacked
<1>1. IInv => RowsBacked
  BY DEF IInv, RowsBacked
<1> QED
  BY <1>1, JournalInvariance, PTL

\* No method of the journal takes a row out of a hold except
\* resolve_authenticated_terminal with a receipt spent on that row.
THEOREM HoldsNeedReceipts == Spec => HoldLeftOnlyByReceipt
<1> DEFINE Leaves ==
      \A k \in Keys :
        rows[k].state \in HoldStates /\ rows'[k].state \notin HoldStates =>
          \E n \in Nonces : /\ consumed[n].by = "resolve"
                            /\ consumed[n].key = k
                            /\ rows'[k].state = RecoveredAs(consumed[n].outcome)
                            /\ rows'[k].evidence = n
<1>1. IInv /\ [Next]_vars => Leaves
  <2> SUFFICES ASSUME IInv, [Next]_vars PROVE Leaves
    BY Zenon
  <2>1. \A j \in Keys : RowMove(j)
    BY StepsClassified, RowsMove, Zenon DEF IInv
  <2> SUFFICES ASSUME NEW k \in Keys, rows[k].state \in HoldStates,
                      rows'[k].state \notin HoldStates
               PROVE  \E n \in Nonces :
                        /\ consumed[n].by = "resolve"
                        /\ consumed[n].key = k
                        /\ rows'[k].state = RecoveredAs(consumed[n].outcome)
                        /\ rows'[k].evidence = n
    BY Zenon
  <2>2. ~SameRow(k) /\ ~Free(k) /\ ~Becomes(k, "AMBIGUOUS_HOLD", TRUE)
    BY DEF SameRow, Free, Becomes, HoldStates
  <2>3. PICK n \in Nonces : /\ SpentOn(n, k)
                            /\ Becomes(k, RecoveredAs(consumed[n].outcome), FALSE)
                            /\ rows'[k].evidence = n
    BY <2>1, <2>2, Zenon DEF RowMove
  <2> QED
    BY <2>3, Zenon DEF SpentOn, Becomes
<1>2. IInv /\ [Next]_vars => [Leaves]_vars
  BY <1>1
<1> QED
  BY <1>2, JournalInvariance, PTL DEF Spec, HoldLeftOnlyByReceipt
=============================================================================
