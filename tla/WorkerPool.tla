----------------------------- MODULE WorkerPool -----------------------------
(***************************************************************************)
(* PreconnectedWorkerPoolSupervisor (commit_boundary/preconnected_pool.py) *)
(* composed with the recovery journal, the G00 admission controller and    *)
(* ProcessIsolationSupervisor.recover (commit_boundary/process_isolation). *)
(*                                                                         *)
(* Threads (Callers, which are also the Admitters of G00Admission) run     *)
(* execute, recover, replace_retired and the journal's opening methods.    *)
(* Every worker is a process with a pipe in each direction; what it does   *)
(* to the database is the fate of the attempt it was sent.  A transaction  *)
(* that was submitted may become durable after its worker is dead.         *)
(*                                                                         *)
(* External: the worker's session (any outcome is possible, at any time)   *)
(* and the recovery authority, which issues a terminal receipt only for    *)
(* the outcome the attempt really has and only once that is settled.       *)
(***************************************************************************)
EXTENDS RecoveryJournal, G00Admission, Sequences

CONSTANTS
  Capacity,      \* configured number of workers
  CommandOf,     \* the (operation, attempt) a G00 receipt authorises
  ContentOf,     \* the content of the command it comes with
  Resubmission,  \* whether callers submit an attempt again
  NoReply

ASSUME PoolAssumption ==
  /\ Admitters = Callers
  /\ Receipts \subseteq Proofs
  /\ CommandOf \in [Receipts -> Keys]
  /\ ContentOf \in [Receipts -> Contents]
  /\ Resubmission \in BOOLEAN
  /\ Capacity \in Nat \ {0}

VARIABLES
  run,        \* where each thread is in execute or recover
  slot,       \* lifecycle of each worker slot, and whether its process lives
  members,    \* _slots
  avail,      \* _available
  worker,     \* the worker processes: stage, job and the reply in the pipe
  fate,       \* database outcome of each attempt
  \* history
  sends,      \* how often an attempt was sent to a worker
  born        \* the process start in which an attempt was made durable

poolvars == <<run, slot, members, avail, worker, fate, sends, born>>
jrest == <<store, sentinel, consumed, proc, volatile, life>>
allvars == <<vars, g00vars, poolvars>>

\* The events pipe carries an OUTCOME with an exact terminal status and safe
\* readiness; "INEXACT", any other OUTCOME (RESTRICTIVE_UNKNOWN, a foreign identity,
\* unsafe readiness); or ERROR
NoRun == [pc |-> "idle", key |-> NoKey, rcpt |-> NoReceipt, slot |-> NoWorker,
          msg |-> NoReply]

Ready == [at |-> "ready", job |-> NoKey, reply |-> NoReply]

\* The pipes of a retired worker are closed at the end of _retire
Closed(w) == slot[w].life \in {"REAPED", "UNRESOLVED"}
Retired(w) == slot[w].life \in {"RETIRING", "REAPED", "UNRESOLVED"}

Step(t, pc) == run' = [run EXCEPT ![t].pc = pc, ![t].msg = NoReply]
Finish(t) == run' = [run EXCEPT ![t] = NoRun]

\* Only thread t runs here, and it is not inside a journal method
Running(t, pc) == proc = "up" /\ frame[t] = Idle /\ run[t].pc = pc

\* A journal transaction commits within its deadline
Commits(A) == A /\ UNCHANGED jrest
\* It raises JournalDeadlineExceeded or JournalPersistenceUnresolved, before its
\* checks G or after the commit became durable.  (_connect denies exposure before
\* it raises the second; where the handler denies exposure for both, that is the
\* next step either way.)
MayCommit(G, A) == ((G /\ A) \/ UNCHANGED durable) /\ UNCHANGED jrest

PoolInit ==
  /\ Init
  /\ G00Init
  /\ run = [t \in Callers |-> NoRun]
  /\ slot = [w \in Workers |-> [life |-> "UNBORN", alive |-> FALSE]]
  /\ members = {}
  /\ avail = <<>>
  /\ worker = [w \in Workers |-> Ready]
  /\ fate = [k \in Keys |-> "none"]
  /\ sends = [k \in Keys |-> 0]
  /\ born = [k \in Keys |-> 0]

-----------------------------------------------------------------------------
(* The process *)

ConstructJournal ==
  /\ BeginConstruct \/ Initialize \/ RestoreFailClosedGate
  /\ UNCHANGED <<g00vars, poolvars>>

Unborn == {w \in Workers : slot[w].life = "UNBORN"}

\* _spawn_slot publishes a worker that reported READY, IDLE and cache-empty, and
\* is still alive; any other is killed and reaped there, and the caller's
\* pool stays as it was.
Spawned == [life |-> "IDLE", alive |-> TRUE]

\* __init__ 412-417: every slot is spawned and reports READY
OpenPool ==
  /\ proc = "up"
  /\ members = {}
  /\ \E W \in SUBSET Unborn :
       /\ Cardinality(W) = Capacity
       /\ members' = W
       /\ avail' \in {q \in [1..Capacity -> W] : \A w \in W : \E i \in 1..Capacity : q[i] = w}
       /\ slot' = [w \in Workers |->
            IF w \in W THEN Spawned ELSE slot[w]]
  /\ UNCHANGED <<vars, g00vars, run, worker, fate, sends, born>>

\* The supervisor dies.  The controller, the trust root and the pool are in its
\* memory; a worker that is executing goes on, an idle one sees EOF and exits.
PoolCrash ==
  /\ Crash
  /\ pending' = Unrestricted
  /\ effective' = Unrestricted
  /\ holder' = NoOne
  /\ waiting' = [p \in Publishers |-> Unrestricted]
  /\ stage' = [t \in Callers |-> "idle"]
  /\ presented' = [t \in Callers |-> NoReceipt]
  /\ spent' = {}
  /\ revoked' = {}
  /\ run' = [t \in Callers |-> NoRun]
  /\ members' = {}
  /\ avail' = <<>>
  /\ slot' = [w \in Workers |->
       IF slot[w].life = "UNBORN" THEN slot[w]
       ELSE [life |-> "REAPED", alive |-> slot[w].alive /\ worker[w].at # "ready"]]
  /\ worker' = [w \in Workers |->
       IF slot[w].alive THEN [worker[w] EXCEPT !.reply = NoReply] ELSE Ready]
  /\ UNCHANGED <<fate, sends, born>>

-----------------------------------------------------------------------------
(* execute *)

Submitted(k) == Present(k) \/ \E t \in Callers : run[t].key = k

\* 697-708: the exposure gate is read, then the receipt is verified and spent
Enter(t, r) ==
  /\ run[t] = NoRun
  /\ frame[t] = Idle
  /\ members # {}
  /\ exposure_allowed
  /\ Resubmission \/ ~Submitted(CommandOf[r])
  /\ Verify(t, r)
  /\ run' = [run EXCEPT ![t] =
       [NoRun EXCEPT !.pc = "enter", !.key = CommandOf[r], !.rcpt = r]]
  /\ UNCHANGED <<vars, slot, members, avail, worker, fate, sends, born>>

\* 709-712: check_cutover, then _lease
LeaseSlot(t) ==
  /\ Running(t, "enter")
  /\ avail # <<>>
  /\ CheckCutover(t)
  /\ avail' = Tail(avail)
  /\ slot' = [slot EXCEPT ![Head(avail)].life = "LEASED"]
  /\ run' = [run EXCEPT ![t].pc = "prepare", ![t].slot = Head(avail)]
  /\ UNCHANGED <<vars, members, worker, fate, sends, born>>

NoSlot(t) ==
  /\ Running(t, "enter")
  /\ avail = <<>>
  /\ TicketOf[presented[t]] < Bound
  /\ Reject(t)
  /\ Step(t, "capacity")
  /\ UNCHANGED <<vars, slot, members, avail, worker, fate, sends, born>>

Rejected(t) ==
  /\ Running(t, "enter")
  /\ TicketOf[presented[t]] >= Bound
  /\ Reject(t)
  /\ Finish(t)
  /\ UNCHANGED <<vars, slot, members, avail, worker, fate, sends, born>>

\* 713-735: record_capacity_denied is two transactions.  A JournalConflict of
\* either leaves execute; an unconfirmed one denies exposure and returns.
RecordCapacity(t) ==
  LET k == run[t].key
      x == ContentOf[run[t].rcpt]
  IN
  /\ Running(t, "capacity")
  /\ \/ /\ CanRecordIntent(k, x)
        /\ Commits(RecordIntentTxn(k, x))
        /\ Step(t, "capacity2")
     \/ /\ MayCommit(CanRecordIntent(k, x), RecordIntentTxn(k, x))
        /\ Step(t, "undeniable")
     \/ /\ ~CanRecordIntent(k, x)
        /\ UNCHANGED vars
        /\ Finish(t)
  /\ UNCHANGED <<g00vars, slot, members, avail, worker, fate, sends, born>>

CapacityDenied(t) ==
  LET k == run[t].key
      G == CanTransition(k, FALSE, RowStates)
      A == TransitionTxn(k, "CAPACITY_DENIED", FALSE, "NONE", "NONE")
  IN
  /\ Running(t, "capacity2")
  /\ \/ G /\ Commits(A) /\ Finish(t)
     \/ MayCommit(G, A) /\ Step(t, "undeniable")
     \/ /\ ~G
        /\ UNCHANGED vars
        /\ Finish(t)
  /\ UNCHANGED <<g00vars, slot, members, avail, worker, fate, sends, born>>

\* Exposure is denied and the call is over: CAPACITY_DENIAL_NOT_CONFIRMED, or
\* an unresolved commit that the caller of the method does not handle
DenyWithoutSlot(t) ==
  /\ Running(t, "undeniable")
  /\ BeginDeny(t)
  /\ Finish(t)
  /\ UNCHANGED <<durable, store, sentinel, consumed, proc, life>>
  /\ UNCHANGED <<g00vars, slot, members, avail, worker, fate, sends, born>>

\* 738-750: prepare_protected_dispatch
Prepare(t) ==
  LET k == run[t].key
      p == run[t].rcpt
      A == PrepareTxn(k, ContentOf[p], run[t].slot, p)
  IN
  /\ Running(t, "prepare")
  /\ \/ /\ CanPrepare(k, p)
        /\ Commits(A)
        /\ Step(t, "admit")
        /\ born' = [born EXCEPT ![k] = life]
        /\ UNCHANGED g00vars
     \/ /\ MayCommit(CanPrepare(k, p), A)
        /\ born' = IF rows' = rows THEN born ELSE [born EXCEPT ![k] = life]
        /\ Reject(t)
        /\ Step(t, "unconfirmed")
     \/ /\ ~CanPrepare(k, p)
        /\ UNCHANGED <<vars, born>>
        /\ Reject(t)
        /\ Step(t, "failed_before")
  /\ UNCHANGED <<slot, members, avail, worker, fate, sends>>

\* 751-753: admit_verified, then RUN is written to the control pipe.  Writing
\* to a dead worker or through a closed handle raises inside the boundary; a
\* slot that another thread is retiring has open pipes until _retire ends.
Admit(t) ==
  LET k == run[t].key
      w == run[t].slot
  IN
  /\ Running(t, "admit")
  /\ \/ /\ slot[w].alive
        /\ ~Closed(w)
        /\ AdmitVerified(t)
        /\ Step(t, "await")
        /\ worker' = [worker EXCEPT ![w].at = "received", ![w].job = k]
        /\ sends' = [sends EXCEPT ![k] = @ + 1]
     \/ /\ ~slot[w].alive \/ Closed(w)
        /\ holder = NoOne
        /\ TicketOf[presented[t]] < Bound
        /\ Reject(t)
        /\ Step(t, "failed_after")
        /\ UNCHANGED <<worker, sends>>
     \/ /\ holder = NoOne
        /\ TicketOf[presented[t]] >= Bound
        /\ Reject(t)
        /\ Step(t, "failed_before")
        /\ UNCHANGED <<worker, sends>>
  /\ UNCHANGED <<vars, slot, members, avail, fate, born>>

\* Mutant: the wait for a reply has no deadline
Await_NoDeadline(t) ==
  LET w == run[t].slot
      m == worker[w].reply
  IN
  /\ Running(t, "await")
  /\ LeaveBoundary(t)
  /\ \/ /\ m # NoReply
        /\ worker' = [worker EXCEPT ![w].reply = NoReply]
        /\ IF m = "ERROR" THEN Step(t, "hold")
             ELSE run' = [run EXCEPT ![t].pc = "acked", ![t].msg = m]
     \/ /\ m = NoReply
        /\ ~slot[w].alive \/ Closed(w)
        /\ Step(t, "failed_after")
        /\ UNCHANGED worker
  /\ UNCHANGED <<vars, slot, members, avail, fate, sends, born>>

\* 754-758: a reply, the response deadline, or EOF from a dead worker
Await(t) ==
  LET w == run[t].slot
      m == worker[w].reply
  IN
  /\ Running(t, "await")
  /\ LeaveBoundary(t)
  /\ \/ /\ m # NoReply
        /\ worker' = [worker EXCEPT ![w].reply = NoReply]
        /\ IF m = "ERROR" THEN Step(t, "hold")
             ELSE run' = [run EXCEPT ![t].pc = "acked", ![t].msg = m]
     \/ Step(t, "hold") /\ UNCHANGED worker
     \/ /\ m = NoReply
        /\ ~slot[w].alive \/ Closed(w)
        /\ Step(t, "failed_after")
        /\ UNCHANGED worker
  /\ UNCHANGED <<vars, slot, members, avail, fate, sends, born>>

\* 759-785: an exact, safe terminal acknowledgement resolves the row; anything
\* else in the reply raises
Acknowledge(t) ==
  LET k == run[t].key
      m == run[t].msg
      G == CanTransition(k, FALSE, {"EFFECT_POSSIBLE"})
      exact == m \in Outcomes
      A == TransitionTxn(k, RecoveredAs(m), FALSE, m, "ACKNOWLEDGED")
  IN
  /\ Running(t, "acked")
  /\ \/ exact /\ G /\ Commits(A) /\ Step(t, "release")
     \/ exact /\ MayCommit(G, A) /\ Step(t, "unconfirmed")
     \/ /\ ~(exact /\ G)
        /\ UNCHANGED vars
        /\ Step(t, "failed_after")
  /\ UNCHANGED <<g00vars, slot, members, avail, worker, fate, sends, born>>

\* _release 638-645: a slot whose process is dead is not made available, and
\* not retired either
Release(t) ==
  LET w == run[t].slot IN
  /\ Running(t, "release")
  /\ Step(t, "confirm")
  /\ IF ~Retired(w) /\ slot[w].alive
       THEN /\ slot' = [slot EXCEPT ![w].life = "IDLE"]
            /\ avail' = Append(avail, w)
       ELSE UNCHANGED <<slot, avail>>
  /\ UNCHANGED <<vars, g00vars, members, worker, fate, sends, born>>

\* 787-800: the outcome is returned once the row has been read back; when the
\* deadline has passed the handler retires the slot that was just released
ConfirmOutcome(t) ==
  /\ Running(t, "confirm")
  /\ Finish(t) \/ Step(t, "unconfirmed")
  /\ UNCHANGED <<vars, g00vars, slot, members, avail, worker, fate, sends, born>>

HoldTxn(k) == TransitionTxn(k, "AMBIGUOUS_HOLD", TRUE, "NONE", "HELD")

\* Mutant: the worker that gave no answer in time is released
HoldAmbiguous_ReusesWorker(t) ==
  /\ Running(t, "hold")
  /\ Commits(HoldTxn(run[t].key))
  /\ Step(t, "release")
  /\ UNCHANGED <<g00vars, slot, members, avail, worker, fate, sends, born>>

\* Mutant: no answer in time is taken for no effect
HoldAmbiguous_AssumesNone(t) ==
  LET k == run[t].key IN
  /\ Running(t, "hold")
  /\ CanTransition(k, FALSE, RowStates)
  /\ Commits(TransitionTxn(k, "FAILED_BEFORE_EFFECT", FALSE, "NONE", "BEFORE_EFFECT"))
  /\ Step(t, "retire")
  /\ UNCHANGED <<g00vars, slot, members, avail, worker, fate, sends, born>>

\* 801-823: no usable reply: hold the row, read it back, retire the worker
HoldAmbiguous(t) ==
  LET k == run[t].key IN
  /\ Running(t, "hold")
  /\ Present(k)
  /\ \/ Commits(HoldTxn(k)) /\ Step(t, "retire")
     \/ MayCommit(TRUE, HoldTxn(k)) /\ Step(t, "unconfirmed")
  /\ UNCHANGED <<g00vars, slot, members, avail, worker, fate, sends, born>>

\* The handlers of an unconfirmed journal operation: deny_new_exposure, then
\* retire the worker
DenyThenRetire(t) ==
  /\ Running(t, "unconfirmed")
  /\ BeginDeny(t)
  /\ Step(t, "retire")
  /\ UNCHANGED <<durable, store, sentinel, consumed, proc, life>>
  /\ UNCHANGED <<g00vars, slot, members, avail, worker, fate, sends, born>>

\* 853-867 with effect_possible unset: the row decides what is recorded.  The
\* read may hit the deadline, which counts as no row.
FailBeforeEffect(t) ==
  LET state == rows[run[t].key].state IN
  /\ Running(t, "failed_before")
  /\ \/ state \in {"EFFECT_POSSIBLE", "AMBIGUOUS_HOLD"} /\ Step(t, "failed_after")
     \/ state = "INTENT" /\ Step(t, "failed_intent")
     \/ Step(t, "retire")
  /\ UNCHANGED <<vars, g00vars, slot, members, avail, worker, fate, sends, born>>

\* 879-885: what failed_before_effect raises leaves the handler, and the slot is
\* not retired
FailIntent(t) ==
  LET k == run[t].key
      G == CanTransition(k, FALSE, RowStates)
      A == TransitionTxn(k, "FAILED_BEFORE_EFFECT", FALSE, "NONE", "BEFORE_EFFECT")
  IN
  /\ Running(t, "failed_intent")
  /\ \/ G /\ Commits(A) /\ Step(t, "retire")
     \/ MayCommit(G, A) /\ (Finish(t) \/ Step(t, "undeniable"))
  /\ UNCHANGED <<g00vars, slot, members, avail, worker, fate, sends, born>>

\* 864-878: hold, or deny exposure when the hold is not confirmed
FailAfterEffect(t) ==
  LET k == run[t].key IN
  /\ Running(t, "failed_after")
  /\ Present(k)
  /\ \/ Commits(HoldTxn(k)) /\ Step(t, "retire")
     \/ MayCommit(TRUE, HoldTxn(k)) /\ Step(t, "unconfirmed")
  /\ UNCHANGED <<g00vars, slot, members, avail, worker, fate, sends, born>>

\* _retire 649-657
RetireSlot(t) ==
  LET w == run[t].slot IN
  /\ Running(t, "retire")
  /\ Step(t, "reap")
  /\ slot' = [slot EXCEPT ![w].life = "RETIRING"]
  /\ avail' = SelectSeq(avail, LAMBDA v : v # w)
  /\ UNCHANGED <<vars, g00vars, members, worker, fate, sends, born>>

\* _retire 658-687: join, terminate, kill; a process that survives the budget
\* is left UNRESOLVED
ReapSlot(t) ==
  LET w == run[t].slot IN
  /\ Running(t, "reap")
  /\ Finish(t)
  /\ \/ /\ slot' = [slot EXCEPT ![w] = [life |-> "REAPED", alive |-> FALSE]]
        /\ worker' = [worker EXCEPT ![w] = Ready]
     \/ /\ slot[w].alive
        /\ slot' = [slot EXCEPT ![w].life = "UNRESOLVED"]
        /\ worker' = [worker EXCEPT ![w].reply = NoReply]
  /\ UNCHANGED <<vars, g00vars, members, avail, fate, sends, born>>

-----------------------------------------------------------------------------
(* Maintenance and recovery *)

\* replace_retired: a fresh worker takes the place of a retired slot, reaped or
\* not
ReplaceRetired ==
  /\ proc = "up"
  /\ \E w \in members, v \in Unborn :
       /\ Retired(w)
       /\ members' = (members \ {w}) \cup {v}
       /\ avail' = Append(avail, v)
       /\ slot' = [slot EXCEPT ![v] = Spawned]
  /\ UNCHANGED <<vars, g00vars, run, worker, fate, sends, born>>

\* The outcome an attempt has, once nothing can change it any more
Settled(k) ==
  /\ fate[k] # "inflight"
  /\ \A w \in Workers : slot[w].alive => worker[w].job # k
  /\ \A t \in Callers : run[t].pc \in {"prepare", "admit"} => run[t].key # k
Truth(k) == IF fate[k] = "committed" THEN "COMMITTED" ELSE "DENIED"

\* ProcessIsolationSupervisor.recover with a receipt
RecoverWithReceipt(t, k, n) ==
  /\ run[t] = NoRun
  /\ Settled(k)
  /\ SpendTerminal(t, k, Truth(k), n)
  /\ UNCHANGED <<g00vars, poolvars>>

\* recover without a receipt: the row is read, then marked in a second
\* transaction
RecoverWithoutReceipt(t, k) ==
  /\ run[t] = NoRun
  /\ frame[t] = Idle
  /\ proc = "up"
  /\ rows[k].state \in {"AMBIGUOUS_HOLD", "UNRESOLVED"}
  /\ run' = [run EXCEPT ![t].pc = "unresolved", ![t].key = k]
  /\ UNCHANGED <<vars, g00vars, slot, members, avail, worker, fate, sends, born>>

MarkUnresolved(t) ==
  LET k == run[t].key IN
  /\ Running(t, "unresolved")
  /\ MayCommit(TRUE, HoldTxn(k))
  /\ Finish(t) \/ Step(t, "undeniable")
  /\ UNCHANGED <<g00vars, slot, members, avail, worker, fate, sends, born>>

\* authorize_bootstrap and requalify_exposure, called by an operator thread
OpenExposure(t) ==
  /\ run[t] = NoRun
  /\ proc = "up"
  /\ \E n \in Nonces :
       \/ AuthorizeBootstrap(t, n)
       \/ \E k \in Keys : RequalifyExposure(t, k, n)
  /\ UNCHANGED <<g00vars, poolvars>>

\* A thread inside a journal method goes on with it
ContinueMethod(t) ==
  /\ proc = "up"
  /\ \/ PersistClosedSentinel(t)
     \/ PersistClosedGate(t)
     \/ Abandon(t)
     \/ BootstrapCommit(t)
     \/ UnlinkSentinel(t)
     \/ ClearDenial(t)
     \/ ResolveAuthenticatedTerminal(t)
  /\ UNCHANGED <<g00vars, poolvars>>

Restrict ==
  /\ proc = "up"
  /\ \/ \E p \in Publishers, c \in Cutovers : BeginPublish(p, c)
     \/ \E p \in Publishers : FinishPublish(p)
  /\ UNCHANGED <<vars, poolvars>>

-----------------------------------------------------------------------------
(* The worker process (_persistent_worker_entry) and the database *)

\* The session sends its commit
WorkerSubmit(w) ==
  /\ slot[w].alive
  /\ worker[w].at = "received"
  /\ worker' = [worker EXCEPT ![w].at = "submitted"]
  /\ fate' = [fate EXCEPT ![worker[w].job] = "inflight"]
  /\ UNCHANGED <<vars, g00vars, run, slot, members, avail, sends, born>>

\* The database makes the transaction durable, or aborts it
DatabaseSettles(k) ==
  /\ fate[k] = "inflight"
  /\ fate' = [fate EXCEPT ![k] = "committed"] \/ fate' = [fate EXCEPT ![k] = "aborted"]
  /\ UNCHANGED <<vars, g00vars, run, slot, members, avail, worker, sends, born>>

\* The session returns an outcome it knows, or an unknown one; the worker is
\* ready again.  A reply nobody can read any more is lost.
WorkerReply(w) ==
  LET k == worker[w].job IN
  /\ slot[w].alive
  /\ worker[w].at # "ready"
  /\ \E m \in Outcomes \cup {"INEXACT"} :
       /\ m = "COMMITTED" => fate[k] = "committed"
       /\ m = "DENIED" => fate[k] = "aborted" \/ worker[w].at = "received"
       /\ worker' = [worker EXCEPT ![w] =
            [Ready EXCEPT !.reply = IF Closed(w) THEN NoReply ELSE m]]
  /\ UNCHANGED <<vars, g00vars, run, slot, members, avail, fate, sends, born>>

\* An exception in the session: ERROR is sent and the process exits; or it is
\* killed and sends nothing
WorkerDies(w) ==
  /\ slot[w].alive
  /\ slot' = [slot EXCEPT ![w].alive = FALSE]
  /\ \/ /\ worker[w].at # "ready"
        /\ ~Closed(w)
        /\ worker' = [worker EXCEPT ![w] = [Ready EXCEPT !.reply = "ERROR"]]
     \/ worker' = [worker EXCEPT ![w].at = "ready", ![w].job = NoKey]
  /\ UNCHANGED <<vars, g00vars, run, members, avail, fate, sends, born>>

-----------------------------------------------------------------------------

ThreadStep(t) ==
  \/ LeaseSlot(t) \/ NoSlot(t) \/ Rejected(t)
  \/ RecordCapacity(t) \/ CapacityDenied(t) \/ DenyWithoutSlot(t)
  \/ Prepare(t) \/ Admit(t) \/ Await(t) \/ Acknowledge(t)
  \/ Release(t) \/ ConfirmOutcome(t) \/ HoldAmbiguous(t) \/ DenyThenRetire(t)
  \/ FailBeforeEffect(t) \/ FailIntent(t) \/ FailAfterEffect(t) \/ RetireSlot(t) \/ ReapSlot(t)
  \/ MarkUnresolved(t) \/ ContinueMethod(t)

PoolNext ==
  \/ ConstructJournal
  \/ OpenPool
  \/ PoolCrash
  \/ ReplaceRetired
  \/ Restrict
  \/ \E t \in Callers :
       \/ ThreadStep(t)
       \/ \E r \in Receipts : Enter(t, r)
       \/ \E k \in Keys, n \in Nonces : RecoverWithReceipt(t, k, n)
       \/ \E k \in Keys : RecoverWithoutReceipt(t, k)
       \/ OpenExposure(t)
  \/ \E w \in Workers : WorkerSubmit(w) \/ WorkerReply(w) \/ WorkerDies(w)
  \/ \E k \in Keys : DatabaseSettles(k)

PoolSpec == PoolInit /\ [][PoolNext]_allvars

\* Threads are scheduled, and every wait of a thread is bounded by a deadline.
\* Nothing is assumed of the workers, the database or the publishers.
PoolFairSpec == PoolSpec /\ \A t \in Callers : WF_allvars(ThreadStep(t))

-----------------------------------------------------------------------------
(* Properties *)

Life == {"UNBORN", "IDLE", "LEASED", "RETIRING", "REAPED", "UNRESOLVED"}

\* A worker that can be leased is idle, in no other thread's hands, listed once,
\* and has nothing in its pipes: no reply of an earlier operation can be taken
\* for the answer to the next (_lease, _release, _retire, replace_retired).
AvailableIsClean ==
  /\ \A i, j \in 1..Len(avail) : avail[i] = avail[j] => i = j
  /\ \A i \in 1..Len(avail) :
       LET w == avail[i] IN
       /\ slot[w].life = "IDLE"
       /\ worker[w].job = NoKey /\ worker[w].reply = NoReply
       /\ \A t \in Callers : run[t].slot = w =>
            run[t].pc \in {"confirm", "unconfirmed", "retire"}

\* An attempt is sent to a worker at most once, across threads, restarts,
\* replayed receipts and recoveries ("never replays its operation").
SentOnce == \A k \in Keys : sends[k] <= 1

\* Work on an attempt has been admitted and can still change the database
Outstanding(k) ==
  fate[k] = "inflight" \/ \E w \in Workers : slot[w].alive /\ worker[w].job = k

\* While a financial effect of an attempt exists or may still come to exist, its
\* row says so: it is a possible effect, a hold, or recovered as committed.
EffectFenced ==
  \A k \in Keys : fate[k] = "committed" \/ Outstanding(k) =>
    rows[k].state \in BlockingStates \cup {"RECOVERED_COMMITTED"}

\* "A restart never skips an unresolved financial-effect boundary": while a
\* restarted process allows new exposure, no work that an earlier process sent
\* to a worker can still change the database (_restore_fail_closed_gate,
\* requalify_exposure).
RestartNeverSkips ==
  exposure_allowed => \A k \in Keys : born[k] < life => ~Outstanding(k)

\* A denial stands until a later opening: exposure is not allowed while a denial
\* is outstanding that was raised after the last transaction that opened the gate
\* ("New exposure is forbidden after uncertain persistence or restart holds").
DenialStands == exposure_allowed => ~owed

\* Every call of execute or recover comes to an end, in whatever state other
\* threads, workers and restrictions are: each wait has a deadline.
CallsReturn == \A t \in Callers : run[t].pc # "idle" ~> run[t].pc = "idle"

\* An attempt is dispatched at most once, and a restarted process does not
\* allow new exposure while something an earlier one dispatched is in flight.
DispatchSafe == SentOnce /\ RestartNeverSkips

=============================================================================
