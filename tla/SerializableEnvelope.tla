------------------------ MODULE SerializableEnvelope ------------------------
(***************************************************************************)
(* SerializableOperationEnvelope.execute over a PsycopgConnection: bounded *)
(* attempts of one SERIALIZABLE transaction each, under one deadline per   *)
(* call, with an idempotent lookup first and an exact read-back when the   *)
(* commit was ambiguous.  The server decides a commit on its own: the      *)
(* client may have lost the connection, given up or returned by then.      *)
(***************************************************************************)
EXTENDS Integers

CONSTANTS
  Calls,        \* calls of execute
  Ops,          \* operation identities
  Digests,      \* digests of canonical request content
  OpOf,         \* [Calls -> Ops]
  DigestOf,     \* [Calls -> Digests]
  Effects,      \* capital_effect_minor values of an outcome, with 0
  Proofs,       \* TimeProof identities the evidence provider may return
  MaxAttempts,  \* max_attempts
  NoOutcome     \* no row in operation_outcome

Statuses == {"COMMITTED", "DENIED"}

Outcome == [digest : Digests, status : Statuses, effect : Effects]

ASSUME EnvelopeAssumption ==
  /\ OpOf \in [Calls -> Ops]
  /\ DigestOf \in [Calls -> Digests]
  /\ MaxAttempts \in Nat \ {0}
  /\ 0 \in Effects
  /\ NoOutcome \notin [by : Calls, out : Outcome] \cup Outcome

VARIABLES
  store,    \* operation_outcome: [Ops -> NoOutcome or [by, out]]
  pc,       \* where each call is
  attempt,  \* number of the attempt
  expired,  \* the deadline of the call has passed
  seen,     \* TimeProofs used by earlier attempts of the call
  phase,    \* what the server knows of the transaction of the call
  snap,     \* the row of the operation in the snapshot of that transaction
  row,      \* the outcome that transaction has inserted
  result    \* what execute returned or raised

vars == <<store, pc, attempt, expired, seen, phase, snap, row, result>>

\* _validate_outcome: own digest, and effects only when committed.
Valid(c) ==
  {out \in Outcome : /\ out.digest = DigestOf[c]
                     /\ out.status # "COMMITTED" => out.effect = 0}

Durable == [by : Calls, out : Outcome]

Codes == {"waiting", "none", "COMMIT_OUTCOME_UNKNOWN", "G00_PROGRESS_BREACH",
          "CLEANUP_UNRESOLVED", "SERIALIZATION_RETRY_EXHAUSTED", "raised"}

Results == [out : Outcome \cup {NoOutcome}, code : Codes, unresolved : BOOLEAN]

\* An EnvelopeResult with an outcome, a RESTRICTIVE_UNKNOWN or an exception.
Returned(out, unresolved) == [out |-> out, code |-> "none", unresolved |-> unresolved]
Ended(code, unresolved) == [out |-> NoOutcome, code |-> code, unresolved |-> unresolved]

Init ==
  /\ store = [o \in Ops |-> NoOutcome]
  /\ pc = [c \in Calls |-> "idle"]
  /\ attempt = [c \in Calls |-> 0]
  /\ expired = [c \in Calls |-> FALSE]
  /\ seen = [c \in Calls |-> {}]
  /\ phase = [c \in Calls |-> "none"]
  /\ snap = [c \in Calls |-> NoOutcome]
  /\ row = [c \in Calls |-> NoOutcome]
  /\ result = [c \in Calls |-> Ended("waiting", FALSE)]

Running(c) == pc[c] \notin {"idle", "done"}

\* _cleanup: once the deadline has passed, rollback and close of a
\* PsycopgConnection raise before they act and only terminate is left.
CleanResults(c) == IF expired[c] THEN {FALSE} ELSE BOOLEAN

\* A transaction that nobody commits any more is aborted by the server.
Drop(c) == phase' = [phase EXCEPT ![c] = IF @ = "active" THEN "aborted" ELSE @]

Finish(c, r) ==
  /\ pc' = [pc EXCEPT ![c] = "done"]
  /\ result' = [result EXCEPT ![c] = r]
  /\ UNCHANGED <<store, attempt, expired, seen, snap, row>>

Goto(c, place) == pc' = [pc EXCEPT ![c] = place]

Start(c) ==
  /\ pc[c] = "idle"
  /\ Goto(c, "attempt")
  /\ attempt' = [attempt EXCEPT ![c] = 1]
  /\ UNCHANGED <<store, expired, seen, phase, snap, row, result>>

Expire(c) ==
  /\ Running(c)
  /\ ~expired[c]
  /\ expired' = [expired EXCEPT ![c] = TRUE]
  /\ UNCHANGED <<store, pc, attempt, seen, phase, snap, row, result>>

\* Connect and _begin: the transaction starts with a snapshot.
Begin(c) ==
  /\ pc[c] = "attempt"
  /\ ~expired[c]
  /\ Goto(c, "lookup")
  /\ phase' = [phase EXCEPT ![c] = "active"]
  /\ snap' = [snap EXCEPT ![c] = store[OpOf[c]]]
  /\ row' = [row EXCEPT ![c] = NoOutcome]
  /\ UNCHANGED <<store, attempt, expired, seen, result>>

\* An exception that is neither a deadline nor a serialization failure:
\* clean up and raise it.
Raise(c) ==
  /\ Finish(c, Ended("raised", FALSE))
  /\ Drop(c)

\* No connection, a wrong isolation level, a failed or timed-out statement,
\* or evidence bound to a foreign context.
Fails(c) ==
  /\ pc[c] \in {"attempt", "lookup", "verify", "stage"}
  /\ Raise(c)

\* deadline.ensure() before, while or after connecting.
Exhausted(c) ==
  /\ pc[c] = "attempt"
  /\ expired[c]
  /\ \E connected \in BOOLEAN : Finish(c, Ended("G00_PROGRESS_BREACH", connected))
  /\ Drop(c)

\* Mutation: the stored outcome is returned without comparing digests.
Lookup_AnyDigest(c) ==
  /\ pc[c] = "lookup"
  /\ \/ /\ snap[c] = NoOutcome
        /\ Goto(c, "verify")
        /\ UNCHANGED <<store, attempt, expired, seen, phase, snap, row, result>>
     \/ /\ snap[c] # NoOutcome
        /\ \E clean \in CleanResults(c) : Finish(c, Returned(snap[c].out, ~clean))
        /\ Drop(c)

\* The idempotent lookup of _lookup_checked in the snapshot of the attempt.
Lookup(c) ==
  /\ pc[c] = "lookup"
  /\ \/ /\ snap[c] = NoOutcome
        /\ Goto(c, "verify")
        /\ UNCHANGED <<store, attempt, expired, seen, phase, snap, row, result>>
     \/ /\ snap[c] # NoOutcome
        /\ snap[c].out.digest = DigestOf[c]
        /\ \E clean \in CleanResults(c) : Finish(c, Returned(snap[c].out, ~clean))
        /\ Drop(c)
     \/ /\ snap[c] # NoOutcome
        /\ snap[c].out.digest # DigestOf[c]
        /\ Raise(c)

\* verify_attempt and _validate_evidence: a TimeProof serves one attempt.
Verify(c) ==
  /\ pc[c] = "verify"
  /\ \E proof \in Proofs :
       \/ /\ proof \in seen[c]
          /\ Raise(c)
       \/ /\ proof \notin seen[c]
          /\ seen' = [seen EXCEPT ![c] = @ \cup {proof}]
          /\ Goto(c, "stage")
          /\ UNCHANGED <<store, attempt, expired, phase, snap, row, result>>

\* backend.execute, _validate_outcome and the lookup inside the transaction:
\* what the backend returned must be valid and must be the row it persisted.
Stage(c) ==
  /\ pc[c] = "stage"
  /\ \E out \in Valid(c) :
       /\ row' = [row EXCEPT ![c] = out]
       /\ Goto(c, "commit")
  /\ UNCHANGED <<store, attempt, expired, seen, phase, snap, result>>

\* SQLSTATE 40001, from a statement or from the commit: the attempt is gone;
\* try again after the backoff unless cleanup, attempts or deadline forbid it.
Aborted(c) ==
  \/ /\ \E clean \in CleanResults(c) :
          \/ /\ ~clean
             /\ Finish(c, Ended("CLEANUP_UNRESOLVED", TRUE))
          \/ /\ clean
             /\ attempt[c] = MaxAttempts
             /\ Finish(c, Ended("SERIALIZATION_RETRY_EXHAUSTED", FALSE))
          \/ /\ clean
             /\ attempt[c] < MaxAttempts
             /\ Finish(c, Ended("G00_PROGRESS_BREACH", FALSE))
  \/ /\ ~expired[c]
     /\ attempt[c] < MaxAttempts
     /\ Goto(c, "attempt")
     /\ attempt' = [attempt EXCEPT ![c] = @ + 1]
     /\ UNCHANGED <<store, expired, seen, snap, row, result>>

SerializationAbort(c) ==
  /\ \/ pc[c] \in {"lookup", "verify", "stage"}
     \/ pc[c] = "sent" /\ phase[c] = "aborted"
  /\ Aborted(c)
  /\ Drop(c)

SendCommit(c) ==
  /\ pc[c] = "commit"
  /\ ~expired[c]
  /\ phase' = [phase EXCEPT ![c] = "committing"]
  /\ Goto(c, "sent")
  /\ UNCHANGED <<store, attempt, expired, seen, snap, row, result>>

\* The deadline passed before the commit was sent.  The envelope cannot tell
\* this from a lost acknowledgement.
CommitTooLate(c) ==
  /\ pc[c] = "commit"
  /\ expired[c]
  /\ Finish(c, Ended("COMMIT_OUTCOME_UNKNOWN", TRUE))
  /\ Drop(c)

\* Mutation: an upsert instead of an insert under the primary key.
ServerCommit_Overwrites(c) ==
  /\ phase[c] = "committing"
  /\ store' = [store EXCEPT ![OpOf[c]] = [by |-> c, out |-> row[c]]]
  /\ phase' = [phase EXCEPT ![c] = "committed"]
  /\ UNCHANGED <<pc, attempt, expired, seen, snap, row, result>>

\* PostgreSQL decides a commit it was sent.  The primary key of
\* operation_outcome admits one row per operation; any commit may fail.
ServerCommit(c) ==
  /\ phase[c] = "committing"
  /\ \/ /\ store[OpOf[c]] = NoOutcome
        /\ store' = [store EXCEPT ![OpOf[c]] = [by |-> c, out |-> row[c]]]
        /\ phase' = [phase EXCEPT ![c] = "committed"]
     \/ /\ phase' = [phase EXCEPT ![c] = "aborted"]
        /\ UNCHANGED store
  /\ UNCHANGED <<pc, attempt, expired, seen, snap, row, result>>

CommitReturns(c) ==
  /\ pc[c] = "sent"
  /\ phase[c] = "committed"
  /\ ~expired[c]
  /\ \E clean \in BOOLEAN : Finish(c, Returned(row[c], ~clean))
  /\ UNCHANGED phase

\* The commit raised anything but 40001: release the connection, read back.
CommitAmbiguous(c) ==
  /\ pc[c] = "sent"
  /\ \/ /\ Finish(c, Ended("COMMIT_OUTCOME_UNKNOWN", TRUE))
     \/ /\ ~expired[c]
        /\ Goto(c, "readback")
        /\ UNCHANGED <<store, attempt, expired, seen, snap, row, result>>
  /\ UNCHANGED phase

\* _readback on a new connection: exactly the durable outcome of the
\* operation, or nothing when there is none, it is foreign or the read fails.
Readback(c) ==
  /\ pc[c] = "readback"
  /\ \/ /\ ~expired[c]
        /\ store[OpOf[c]] # NoOutcome
        /\ store[OpOf[c]].out.digest = DigestOf[c]
        /\ \E clean \in BOOLEAN : Finish(c, Returned(store[OpOf[c]].out, ~clean))
     \/ /\ \E clean \in BOOLEAN :
             /\ clean => store[OpOf[c]] = NoOutcome /\ ~expired[c]
             /\ Finish(c, Ended("COMMIT_OUTCOME_UNKNOWN", ~clean))
  /\ UNCHANGED phase

ClientStep(c) ==
  \/ Begin(c) \/ Fails(c) \/ Exhausted(c) \/ Lookup(c) \/ Verify(c) \/ Stage(c)
  \/ SerializationAbort(c) \/ SendCommit(c) \/ CommitTooLate(c)
  \/ CommitReturns(c) \/ CommitAmbiguous(c) \/ Readback(c)

Next == \E c \in Calls : Start(c) \/ Expire(c) \/ ServerCommit(c) \/ ClientStep(c)

Spec == Init /\ [][Next]_vars

-----------------------------------------------------------------------------
Places == {"idle", "attempt", "lookup", "verify", "stage", "commit", "sent",
           "readback", "done"}
Phases == {"none", "active", "committing", "committed", "aborted"}

\* Every variable has its type.
TypeOK ==
  /\ store \in [Ops -> Durable \cup {NoOutcome}]
  /\ pc \in [Calls -> Places]
  /\ attempt \in [Calls -> 0 .. MaxAttempts]
  /\ expired \in [Calls -> BOOLEAN]
  /\ seen \in [Calls -> SUBSET Proofs]
  /\ phase \in [Calls -> Phases]
  /\ snap \in [Calls -> Durable \cup {NoOutcome}]
  /\ row \in [Calls -> Outcome \cup {NoOutcome}]
  /\ result \in [Calls -> Results]

Definite(c) == result[c].code = "none"
Turned(c) == result[c].code \notin {"waiting", "none", "COMMIT_OUTCOME_UNKNOWN"}

\* A definite reply of execute is the durable outcome of its own request, now
\* and ever after: not one of another digest, and not one a lost commit
\* failed to make durable.
TruthfulReply ==
  \A c \in Calls : Definite(c) =>
    /\ store[OpOf[c]] # NoOutcome
    /\ result[c].out = store[OpOf[c]].out
    /\ result[c].out.digest = DigestOf[c]

\* Only COMMIT_OUTCOME_UNKNOWN may hide an effect.  After an exception, a
\* progress breach, unresolved cleanup or exhausted retries, no transaction of
\* the call is durable or can become so.
TurnedHasNoEffect ==
  \A c \in Calls : Turned(c) =>
    /\ phase[c] \in {"none", "aborted"}
    /\ store[OpOf[c]] # NoOutcome => store[OpOf[c]].by # c

ReplyKind(c) == IF Definite(c) THEN "answered"
                ELSE IF Turned(c) THEN "refused"
                ELSE IF result[c].code = "waiting" THEN "waiting" ELSE "unknown"

Abstract == INSTANCE AtMostOnce WITH
              decided <- store,
              reply <- [c \in Calls |-> [kind |-> ReplyKind(c), out |-> result[c].out]],
              Promised <- [c \in Calls |-> Valid(c)]

\* The envelope implements AtMostOnce: whatever the attempts, deadlines, lost
\* acknowledgements and late commits, an operation is decided at most once,
\* replies are its outcome and a refused call never decides afterwards.
ImplementsAtMostOnce == Abstract!ASpec

\* What execute() tells its caller is true: a definite reply is the durable
\* outcome of its own request, and a call that ended otherwise than as unknown
\* has no durable transaction and cannot get one.
AnswersTruthful == TruthfulReply /\ TurnedHasNoEffect

=============================================================================
