--------------------------- MODULE RecoveryJournal ---------------------------
(***************************************************************************)
(* The recovery-intent journal of the Stage 5 commit boundary              *)
(* (commit_boundary/recovery_journal.py) together with the single-use      *)
(* receipt store it consumes (commit_boundary/recovery_authority.py).      *)
(*                                                                         *)
(* The journal is a SQLite file shared by the threads of one supervisor    *)
(* process.  A method of the journal is one or more transactions; between  *)
(* two of them other threads run and the process may die.  The transaction *)
(* bodies are actions over the durable state only (names ending in Txn),   *)
(* so that other modules can run them from their own threads.              *)
(*                                                                         *)
(* Abstractions: `content' stands for the pair (request_digest,            *)
(* g00_sequence) of a row; timestamps and recovery_attempts, which nothing *)
(* reads, are left out; evidence texts are classes of evidence.            *)
(***************************************************************************)
EXTENDS Naturals, FiniteSets

CONSTANTS
  Ops,        \* operation identities
  Attempts,   \* attempt identities
  Contents,   \* (request_digest, g00_sequence) pairs
  Workers,    \* worker process identities
  Proofs,     \* TimeProof identities
  Nonces,     \* nonces of the recovery receipts that will be issued
  Callers,    \* threads of the supervisor process
  MaxLives,   \* bound: how often the process is started
  NoContent, NoWorker, NoNonce, NoKey

Keys == Ops \X Attempts
Op(k) == k[1]
Attempt(k) == k[2]

\* RecoveryState, and ABSENT for a row that does not exist
HoldStates == {"AMBIGUOUS_HOLD", "UNRESOLVED", "PERSISTENCE_UNRESOLVED"}
BlockingStates == HoldStates \cup {"EFFECT_POSSIBLE"}
RecoveredStates == {"RECOVERED_COMMITTED", "RECOVERED_DENIED"}
RowStates == BlockingStates \cup RecoveredStates \cup
  {"INTENT", "FAILED_BEFORE_EFFECT", "CAPACITY_DENIED"}
Outcomes == {"COMMITTED", "DENIED"}
RecoveredAs(o) == IF o = "COMMITTED" THEN "RECOVERED_COMMITTED"
                                     ELSE "RECOVERED_DENIED"

Notes == {"NONE", "DISPATCHED", "HELD", "ACKNOWLEDGED", "CONFLICTING", "BEFORE_EFFECT"}

ASSUME SentinelsAssumption ==
  /\ NoContent \notin Contents
  /\ NoWorker \notin Workers
  /\ NoNonce \notin Nonces
  /\ NoKey \notin Keys
  /\ \A n \in Nonces : n \notin Notes \cup {"REASON"}

ASSUME MaxLivesAssumption == MaxLives \in Nat

VARIABLES
  \* the SQLite file
  rows,       \* recovery_intent
  conflicts,  \* keys present in recovery_terminal_conflict
  admission,  \* admission_evidence
  gate,       \* exposure_gate
  booted,     \* journal_identity.bootstrap_consumed
  store,      \* absent, file (created, not initialised), bound or legacy identity
  \* other durable state
  sentinel,   \* the .closed file exists
  consumed,   \* consumed_receipt of the authority store: what each nonce was spent on
  \* the process
  proc,       \* stage of the process and of the journal's constructor
  denied,     \* _persistence_unresolved is not None
  frame,      \* where each thread is inside a journal method
  life,       \* number of process starts
  \* history
  owed        \* a denial has been raised since the last opening transaction

durable == <<rows, conflicts, admission, gate, booted>>
volatile == <<denied, frame, owed>>
vars == <<durable, store, sentinel, consumed, proc, volatile, life>>

-----------------------------------------------------------------------------
(* Data *)

Row == [content: Contents \cup {NoContent}, worker: Workers \cup {NoWorker},
        state: RowStates \cup {"ABSENT"}, uncertain: BOOLEAN,
        result: Outcomes \cup {"NONE"}, evidence: Notes \cup Nonces]

AbsentRow == [content |-> NoContent, worker |-> NoWorker, state |-> "ABSENT",
              uncertain |-> FALSE, result |-> "NONE", evidence |-> "NONE"]

Present(k) == rows[k].state # "ABSENT"

Use == [by: {"none", "bootstrap", "resolve", "requalify"},
        key: Keys \cup {NoKey}, content: Contents \cup {NoContent},
        outcome: Outcomes \cup {"NONE"}, life: 0..MaxLives]

Unused == [by |-> "none", key |-> NoKey, content |-> NoContent,
           outcome |-> "NONE", life |-> 0]

PCs == {"idle", "deny_sentinel", "deny_row", "bootstrap_txn", "bootstrap_unlink",
        "requalify_unlink", "clear", "capacity_txn", "resolve_txn"}

Frame == [pc: PCs, key: Keys \cup {NoKey}, nonce: Nonces \cup {NoNonce}]
At(pc, k, n) == [pc |-> pc, key |-> k, nonce |-> n]
Idle == At("idle", NoKey, NoNonce)

Goto(c, f) == frame' = [frame EXCEPT ![c] = f]

Init ==
  /\ rows = [k \in Keys |-> AbsentRow]
  /\ conflicts = {}
  /\ admission = {}
  /\ gate = [state |-> "MISSING", evidence |-> "REASON"]
  /\ booted = FALSE
  /\ store = "absent"
  /\ sentinel = FALSE
  /\ consumed = [n \in Nonces |-> Unused]
  /\ proc = "down"
  /\ denied = FALSE
  /\ frame = [c \in Callers |-> Idle]
  /\ life = 0
  /\ owed = FALSE

-----------------------------------------------------------------------------
(* The process: construction of the journal object, and crashes *)

\* _construct 90-96: the file is created by the first connect
BeginConstruct ==
  /\ proc = "down"
  /\ life < MaxLives
  /\ life' = life + 1
  /\ proc' = IF store = "absent" THEN "new_store" ELSE "old_store"
  /\ store' = IF store = "absent" THEN "file" ELSE store
  /\ UNCHANGED <<durable, sentinel, consumed, volatile>>

\* _initialize: one transaction.  A file left by a constructor that died before
\* this commit is not a new store: it gets a legacy identity and no gate row.
Initialize ==
  /\ proc \in {"new_store", "old_store"}
  /\ proc' = "initialized"
  /\ IF store = "file"
       THEN IF proc = "new_store"
              THEN /\ store' = "bound"
                   /\ gate' = [state |-> "CLOSED", evidence |-> "REASON"]
                   /\ UNCHANGED booted
              ELSE /\ store' = "legacy"
                   /\ booted' = TRUE
                   /\ UNCHANGED gate
       ELSE UNCHANGED <<store, gate, booted>>
  /\ UNCHANGED <<rows, conflicts, admission, sentinel, consumed, volatile, life>>

\* Both writes of deny_new_exposure are best effort
MayCloseGate == \/ gate' = [state |-> "CLOSED", evidence |-> "REASON"]
                \/ UNCHANGED gate
MayWriteSentinel == sentinel' \in {TRUE, sentinel}

\* Mutant: a durable OPEN gate without a sentinel is believed
RestoreFailClosedGate_TrustsOpenGate ==
  /\ proc = "initialized"
  /\ proc' = "up"
  /\ denied' = (gate.state # "OPEN" \/ sentinel)
  /\ owed' = denied'
  /\ UNCHANGED <<durable, store, sentinel, consumed, frame, life>>

\* _restore_fail_closed_gate: every branch ends in deny_new_exposure, before
\* any other thread holds the journal
RestoreFailClosedGate ==
  /\ proc = "initialized"
  /\ proc' = "up"
  /\ denied' = TRUE
  /\ owed' = TRUE
  /\ MayWriteSentinel
  /\ MayCloseGate
  /\ UNCHANGED <<rows, conflicts, admission, booted, store, consumed, frame, life>>

\* The process dies, at any point; its memory is gone
Crash ==
  /\ proc # "down"
  /\ proc' = "down"
  /\ frame' = [c \in Callers |-> Idle]
  /\ denied' = FALSE
  /\ owed' = FALSE
  /\ UNCHANGED <<durable, store, sentinel, consumed, life>>

exposure_allowed == proc = "up" /\ ~denied

-----------------------------------------------------------------------------
(* deny_new_exposure: the volatile flag, then the sentinel file, then the    *)
(* gate row                                                                  *)

BeginDeny(c) ==
  /\ denied' = TRUE
  /\ owed' = TRUE
  /\ Goto(c, At("deny_sentinel", NoKey, NoNonce))

DenyNewExposure(c) ==
  /\ frame[c] = Idle
  /\ BeginDeny(c)
  /\ UNCHANGED <<durable, store, sentinel, consumed, proc, life>>

PersistClosedSentinel(c) ==
  /\ frame[c].pc = "deny_sentinel"
  /\ MayWriteSentinel
  /\ Goto(c, At("deny_row", NoKey, NoNonce))
  /\ UNCHANGED <<durable, store, consumed, proc, denied, owed, life>>

PersistClosedGate(c) ==
  /\ frame[c].pc = "deny_row"
  /\ MayCloseGate
  /\ Goto(c, Idle)
  /\ UNCHANGED <<rows, conflicts, admission, booted, store, sentinel, consumed,
                 proc, denied, owed, life>>

-----------------------------------------------------------------------------
(* _connect: a transaction whose checks G hold runs A and commits; a commit  *)
(* that raises may or may not be durable and denies exposure before it       *)
(* raises.  A transaction rolled back in a single-transaction method changes *)
(* nothing and is not a step.                                                *)

Transact(c, G, A, next) ==
  /\ G
  /\ \/ A /\ Goto(c, next) /\ UNCHANGED <<denied, owed>>
     \/ (A \/ UNCHANGED durable) /\ BeginDeny(c)
  /\ UNCHANGED <<store, sentinel, consumed, proc, life>>

\* A method in the middle of its work raises before its next commit: a lock or
\* deadline budget expired, or the checks of the transaction failed
Abandon(c) ==
  /\ frame[c].pc \in {"bootstrap_txn", "capacity_txn", "resolve_txn"}
  /\ Goto(c, Idle)
  /\ UNCHANGED <<durable, store, sentinel, consumed, proc, denied, owed, life>>

-----------------------------------------------------------------------------
(* Transaction bodies *)

\* INSERT INTO admission_evidence: attempt_id and timeproof_identity are UNIQUE
FreshEvidence(k, p) ==
  \A e \in admission : Attempt(e.key) # Attempt(k) /\ e.proof # p

ReserveTxn(k, p) ==
  /\ admission' = admission \cup {[key |-> k, proof |-> p]}
  /\ UNCHANGED <<rows, conflicts, gate, booted>>

\* Mutant: INSERT OR REPLACE, in both tables
CanPrepare_Replaces(k, p) == TRUE

CanPrepare(k, p) == FreshEvidence(k, p) /\ ~Present(k)

PrepareTxn(k, x, w, p) ==
  /\ admission' = admission \cup {[key |-> k, proof |-> p]}
  /\ rows' = [rows EXCEPT ![k] =
       [content |-> x, worker |-> w, state |-> "EFFECT_POSSIBLE",
        uncertain |-> TRUE, result |-> "NONE", evidence |-> "DISPATCHED"]]
  /\ UNCHANGED <<conflicts, gate, booted>>

\* record_intent: an identical existing row is accepted as it is
CanRecordIntent(k, x) == Present(k) => rows[k].content = x

RecordIntentTxn(k, x) ==
  /\ rows' = IF Present(k) THEN rows ELSE [rows EXCEPT ![k] =
       [content |-> x, worker |-> NoWorker, state |-> "INTENT",
        uncertain |-> FALSE, result |-> "NONE", evidence |-> "NONE"]]
  /\ UNCHANGED <<conflicts, admission, gate, booted>>

CanBindWorker(k) == rows[k].state = "INTENT"

BindWorkerTxn(k, w) ==
  /\ rows' = [rows EXCEPT ![k].worker = w]
  /\ UNCHANGED <<conflicts, admission, gate, booted>>

\* Mutant: only the retained conflict is looked at
CanTransition_IgnoresHold(k, uncertain, expected) ==
  /\ rows[k].state \in expected
  /\ ~uncertain => k \notin conflicts

\* _transition: a step that clears uncertainty is refused on a hold or on a
\* retained conflict
CanTransition(k, uncertain, expected) ==
  /\ rows[k].state \in expected
  /\ ~uncertain => k \notin conflicts /\ rows[k].state \notin HoldStates

TransitionTxn(k, state, uncertain, result, evidence) ==
  /\ rows' = [rows EXCEPT ![k] =
       [@ EXCEPT !.state = state, !.uncertain = uncertain,
                 !.result = result, !.evidence = evidence]]
  /\ UNCHANGED <<conflicts, admission, gate, booted>>

CanBootstrap ==
  /\ \A k \in Keys : ~Present(k)
  /\ ~booted
  /\ gate.state = "CLOSED"
  /\ store = "bound"

BootstrapTxn(n) ==
  /\ gate' = [state |-> "OPEN", evidence |-> n]
  /\ booted' = TRUE
  /\ UNCHANGED <<rows, conflicts, admission>>

\* requalify_exposure reads one row of the operation, in no stated order
CanRequalify(k) ==
  /\ rows[k].state \in RecoveredStates
  /\ \A j \in Keys : rows[j].state \notin BlockingStates

\* UPDATE ... WHERE singleton=1 changes nothing when there is no gate row
SetGate(state, evidence) ==
  gate' = IF gate.state = "MISSING" THEN gate
                                    ELSE [state |-> state, evidence |-> evidence]

RequalifyTxn(n) ==
  /\ SetGate("OPEN", n)
  /\ UNCHANGED <<rows, conflicts, admission, booted>>

ResolvableStates == RecoveredStates \cup {"AMBIGUOUS_HOLD", "UNRESOLVED"}

\* The terminal receipt agrees with nothing already retained
CanResolve(k, x) ==
  /\ rows[k].content = x
  /\ k \notin conflicts
  /\ rows[k].state \in {"AMBIGUOUS_HOLD", "UNRESOLVED"}

ResolveTxn(k, o, n) ==
  TransitionTxn(k, RecoveredAs(o), FALSE, o, n)

\* The terminal receipt contradicts a recovered outcome, or a conflict is retained
CanConflict(k, x, o) ==
  /\ rows[k].content = x
  /\ \/ k \in conflicts
     \/ rows[k].state \in RecoveredStates \ {RecoveredAs(o)}

ConflictTxn(k) ==
  /\ conflicts' = conflicts \cup {k}
  /\ rows' = [rows EXCEPT ![k] =
       [@ EXCEPT !.state = "AMBIGUOUS_HOLD", !.uncertain = TRUE,
                 !.evidence = "CONFLICTING"]]
  /\ SetGate("CLOSED", "REASON")
  /\ UNCHANGED <<admission, booted>>

-----------------------------------------------------------------------------
(* RecoveryAuthorityVerifier._consume: a nonce is spent once, in a store of  *)
(* its own, committed on its own                                             *)

\* Mutant: a replayed receipt is spent again
Spend_Replayed(n, use, k, x, o) ==
  consumed' = [consumed EXCEPT ![n] =
    [by |-> use, key |-> k, content |-> x, outcome |-> o, life |-> life]]

Spend(n, use, k, x, o) ==
  /\ consumed[n] = Unused
  /\ consumed' = [consumed EXCEPT ![n] =
       [by |-> use, key |-> k, content |-> x, outcome |-> o, life |-> life]]

-----------------------------------------------------------------------------
(* Methods that open exposure *)

\* authorize_bootstrap: the receipt is spent before the store is examined
AuthorizeBootstrap(c, n) ==
  /\ frame[c] = Idle
  /\ store = "bound"
  /\ Spend(n, "bootstrap", NoKey, NoContent, "NONE")
  /\ Goto(c, At("bootstrap_txn", NoKey, n))
  /\ UNCHANGED <<durable, store, sentinel, proc, denied, owed, life>>

BootstrapCommit(c) ==
  LET n == frame[c].nonce IN
  /\ frame[c].pc = "bootstrap_txn"
  /\ CanBootstrap
  /\ \/ /\ BootstrapTxn(n)
        /\ Goto(c, At("bootstrap_unlink", NoKey, n))
        /\ owed' = FALSE
        /\ UNCHANGED denied
     \/ (BootstrapTxn(n) \/ UNCHANGED durable) /\ BeginDeny(c)
  /\ UNCHANGED <<store, sentinel, consumed, proc, life>>

\* requalify_exposure: the receipt is spent inside the journal transaction,
\* which may still fail
RequalifyExposure(c, k, n) ==
  /\ frame[c] = Idle
  /\ store = "bound"
  /\ CanRequalify(k)
  /\ \E o \in Outcomes :
       /\ rows[k].state = RecoveredAs(o)
       /\ Spend(n, "requalify", k, rows[k].content, o)
  /\ \/ /\ RequalifyTxn(n)
        /\ Goto(c, At("requalify_unlink", k, n))
        /\ owed' = FALSE
        /\ UNCHANGED denied
     \/ UNCHANGED <<durable, volatile>>
     \/ (RequalifyTxn(n) \/ UNCHANGED durable) /\ BeginDeny(c)
  /\ UNCHANGED <<store, sentinel, proc, life>>

\* The sentinel is removed; when that fails authorize_bootstrap only raises,
\* requalify_exposure denies again
UnlinkSentinel(c) ==
  /\ frame[c].pc \in {"bootstrap_unlink", "requalify_unlink"}
  /\ \/ /\ sentinel' = FALSE
        /\ Goto(c, At("clear", NoKey, frame[c].nonce))
        /\ UNCHANGED <<denied, owed>>
     \/ /\ sentinel
        /\ UNCHANGED sentinel
        /\ IF frame[c].pc = "requalify_unlink"
             THEN BeginDeny(c)
             ELSE Goto(c, Idle) /\ UNCHANGED <<denied, owed>>
  /\ UNCHANGED <<durable, store, consumed, proc, life>>

\* _persistence_unresolved = None
ClearDenial(c) ==
  /\ frame[c].pc = "clear"
  /\ denied' = FALSE
  /\ Goto(c, Idle)
  /\ UNCHANGED <<durable, store, sentinel, consumed, proc, owed, life>>

-----------------------------------------------------------------------------
(* Methods that write rows *)

ReserveAdmissionEvidence(c, k, p) ==
  frame[c] = Idle /\ Transact(c, FreshEvidence(k, p), ReserveTxn(k, p), Idle)

PrepareProtectedDispatch(c, k, x, w, p) ==
  frame[c] = Idle /\ Transact(c, CanPrepare(k, p), PrepareTxn(k, x, w, p), Idle)

RecordIntent(c, k, x) ==
  frame[c] = Idle /\ Transact(c, CanRecordIntent(k, x), RecordIntentTxn(k, x), Idle)

\* record_capacity_denied: record_intent, then a transition from any state
RecordCapacityDenied(c, k, x) ==
  /\ frame[c] = Idle
  /\ Transact(c, CanRecordIntent(k, x), RecordIntentTxn(k, x),
              At("capacity_txn", k, NoNonce))

CapacityTransition(c) ==
  LET k == frame[c].key IN
  /\ frame[c].pc = "capacity_txn"
  /\ Transact(c, CanTransition(k, FALSE, RowStates),
              TransitionTxn(k, "CAPACITY_DENIED", FALSE, "NONE", "NONE"), Idle)

BindWorker(c, k, w) ==
  frame[c] = Idle /\ Transact(c, CanBindWorker(k), BindWorkerTxn(k, w), Idle)

MarkEffectPossible(c, k) ==
  /\ frame[c] = Idle
  /\ Transact(c, CanTransition(k, TRUE, {"INTENT"}),
              TransitionTxn(k, "EFFECT_POSSIBLE", TRUE, "NONE", "DISPATCHED"), Idle)

\* hold and unresolved: from any state
Hold(c, k) ==
  /\ frame[c] = Idle
  /\ Transact(c, CanTransition(k, TRUE, RowStates),
              TransitionTxn(k, "AMBIGUOUS_HOLD", TRUE, "NONE", "HELD"), Idle)

Resolved(c, k, o) ==
  /\ frame[c] = Idle
  /\ Transact(c, CanTransition(k, FALSE, {"EFFECT_POSSIBLE"}),
              TransitionTxn(k, RecoveredAs(o), FALSE, o, "ACKNOWLEDGED"), Idle)

FailedBeforeEffect(c, k) ==
  /\ frame[c] = Idle
  /\ Transact(c, CanTransition(k, FALSE, RowStates),
              TransitionTxn(k, "FAILED_BEFORE_EFFECT", FALSE, "NONE", "BEFORE_EFFECT"),
              Idle)

\* resolve_authenticated_terminal 703-730: the receipt is spent on the row as
\* first read; the transaction that uses it reads the row again
SpendTerminal(c, k, o, n) ==
  /\ frame[c] = Idle
  /\ store = "bound"
  /\ rows[k].state \in ResolvableStates
  /\ Spend(n, "resolve", k, rows[k].content, o)
  /\ Goto(c, At("resolve_txn", k, n))
  /\ UNCHANGED <<durable, store, sentinel, proc, denied, owed, life>>

\* 745-802.  After the commit of a conflict the method denies exposure, which is
\* the second outcome of Transact; when the deadline passes during that commit
\* it raises before it reaches deny_new_exposure, which is the first.
ResolveAuthenticatedTerminal(c) ==
  LET n == frame[c].nonce
      k == frame[c].key
      use == consumed[n]
  IN
  /\ frame[c].pc = "resolve_txn"
  /\ \/ Transact(c, CanResolve(k, use.content), ResolveTxn(k, use.outcome, n), Idle)
     \/ Transact(c, CanConflict(k, use.content, use.outcome), ConflictTxn(k), Idle)

-----------------------------------------------------------------------------

CallerStep(c) ==
  \/ DenyNewExposure(c)
  \/ PersistClosedSentinel(c)
  \/ PersistClosedGate(c)
  \/ Abandon(c)
  \/ \E n \in Nonces : AuthorizeBootstrap(c, n)
  \/ BootstrapCommit(c)
  \/ \E k \in Keys, n \in Nonces : RequalifyExposure(c, k, n)
  \/ UnlinkSentinel(c)
  \/ ClearDenial(c)
  \/ \E k \in Keys, p \in Proofs : ReserveAdmissionEvidence(c, k, p)
  \/ \E k \in Keys, x \in Contents, w \in Workers, p \in Proofs :
       PrepareProtectedDispatch(c, k, x, w, p)
  \/ \E k \in Keys, x \in Contents : RecordIntent(c, k, x)
  \/ \E k \in Keys, x \in Contents : RecordCapacityDenied(c, k, x)
  \/ CapacityTransition(c)
  \/ \E k \in Keys, w \in Workers : BindWorker(c, k, w)
  \/ \E k \in Keys : MarkEffectPossible(c, k)
  \/ \E k \in Keys : Hold(c, k)
  \/ \E k \in Keys, o \in Outcomes : Resolved(c, k, o)
  \/ \E k \in Keys : FailedBeforeEffect(c, k)
  \/ \E k \in Keys, o \in Outcomes, n \in Nonces : SpendTerminal(c, k, o, n)
  \/ ResolveAuthenticatedTerminal(c)

Next ==
  \/ BeginConstruct
  \/ Initialize
  \/ RestoreFailClosedGate
  \/ Crash
  \/ proc = "up" /\ \E c \in Callers : CallerStep(c)

Spec == Init /\ [][Next]_vars

-----------------------------------------------------------------------------
(* Properties *)

\* Every variable has its type.
TypeOK ==
  /\ rows \in [Keys -> Row]
  /\ conflicts \in SUBSET Keys
  /\ admission \in SUBSET [key: Keys, proof: Proofs]
  /\ gate \in [state: {"MISSING", "OPEN", "CLOSED"}, evidence: Nonces \cup {"REASON"}]
  /\ booted \in BOOLEAN
  /\ store \in {"absent", "file", "bound", "legacy"}
  /\ sentinel \in BOOLEAN
  /\ consumed \in [Nonces -> Use]
  /\ proc \in {"down", "new_store", "old_store", "initialized", "up"}
  /\ denied \in BOOLEAN
  /\ frame \in [Callers -> Frame]
  /\ life \in 0..MaxLives
  /\ owed \in BOOLEAN

\* The three columns a recovery decision reads agree in every row, whatever
\* order the methods run in: transaction_uncertain is set exactly in the states
\* a restart treats as a possible effect, and a recovered row carries the
\* result it was recovered to.
RowConsistent ==
  \A k \in Keys :
    /\ rows[k].uncertain <=> rows[k].state \in BlockingStates
    /\ \A o \in Outcomes : rows[k].state = RecoveredAs(o) => rows[k].result = o

\* Contradictory authenticated evidence is never resolved by a later receipt:
\* a row with a retained conflict stays AMBIGUOUS_HOLD and uncertain for good
\* (resolve_authenticated_terminal and _transition).
ConflictHeld ==
  \A k \in conflicts : rows[k].state = "AMBIGUOUS_HOLD" /\ rows[k].uncertain

\* A recovered row was acknowledged by its worker, or names the one receipt
\* that was spent on exactly this row, content and outcome; the same receipt
\* backs no other row and no open gate (consume_terminal, consume_bootstrap).
ReceiptBacksOutcome ==
  /\ \A k \in Keys : rows[k].state \in RecoveredStates =>
       \/ rows[k].evidence = "ACKNOWLEDGED"
       \/ \E n \in Nonces :
            /\ rows[k].evidence = n
            /\ consumed[n].by = "resolve"
            /\ consumed[n].key = k
            /\ consumed[n].content = rows[k].content
            /\ rows[k].state = RecoveredAs(consumed[n].outcome)
  /\ gate.state = "OPEN" =>
       \E n \in Nonces :
         gate.evidence = n /\ consumed[n].by \in {"bootstrap", "requalify"}

\* While a process admits new exposure, that same process has spent a
\* bootstrap or requalification receipt, on a store bound to its authority: no
\* restart, and no interrupted installation, inherits an open gate
\* (_restore_fail_closed_gate, _require_authority_binding).
ExposureBacked ==
  exposure_allowed =>
    /\ store = "bound"
    /\ \E n \in Nonces : /\ consumed[n].by \in {"bootstrap", "requalify"}
                         /\ consumed[n].life = life

\* A row leaves a hold only for the outcome of a terminal receipt spent on that
\* row ("clearing a recovery hold requires authenticated terminal evidence").
HoldLeftOnlyByReceipt ==
  [][\A k \in Keys :
       rows[k].state \in HoldStates /\ rows'[k].state \notin HoldStates =>
         \E n \in Nonces :
           /\ consumed[n].by = "resolve"
           /\ consumed[n].key = k
           /\ rows'[k].state = RecoveredAs(consumed[n].outcome)
           /\ rows'[k].evidence = n]_vars

\* What a row says is backed: its state, outcome, worker and receipt agree, a
\* conflict is never resolved, and every recovered outcome and every opening
\* of the gate has a receipt that was spent on it (_validate_row,
\* resolve_authenticated_terminal, requalify_exposure).
RowsBacked == RowConsistent /\ ConflictHeld /\ ReceiptBacksOutcome

=============================================================================
