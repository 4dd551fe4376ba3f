--------------------- MODULE SerializableEnvelopeProofs ---------------------
(***************************************************************************)
(* The envelope implements AtMostOnce for any number of calls, operations, *)
(* digests, outcomes, proofs and attempts.  The invariants TruthfulReply   *)
(* and TurnedHasNoEffect are not inductive: they rest on what the server   *)
(* knows of the transaction of a call (Sound).                             *)
(***************************************************************************)
EXTENDS SerializableEnvelope, TLAPS

\* Before the commit is sent the transaction is the client's to drop; from
\* then on it is the server's, and whatever it does shows in the store.
Sound(c) ==
  /\ pc[c] \in {"idle", "attempt"} => phase[c] \in {"none", "aborted"}
  /\ pc[c] \in {"lookup", "verify", "stage", "commit"} => phase[c] = "active"
  /\ pc[c] \in {"sent", "readback"} => phase[c] \in {"committing", "committed", "aborted"}
  /\ pc[c] = "done" => phase[c] # "active"
  /\ pc[c] = "commit" \/ phase[c] \in {"committing", "committed"} => row[c] \in Valid(c)
  /\ phase[c] = "committed" => store[OpOf[c]] = [by |-> c, out |-> row[c]]
  /\ store[OpOf[c]] # NoOutcome /\ store[OpOf[c]].by = c => phase[c] = "committed"
  /\ snap[c] # NoOutcome => snap[c] = store[OpOf[c]]
  /\ result[c].code = "waiting" <=> pc[c] # "done"
  /\ result[c].code # "none" => result[c].out = NoOutcome
  /\ Turned(c) => phase[c] \in {"none", "aborted"}
  /\ Definite(c) => /\ store[OpOf[c]] # NoOutcome
                    /\ result[c].out = store[OpOf[c]].out
                    /\ result[c].out.digest = DigestOf[c]

EnvelopeInv == TypeOK /\ \A c \in Calls : Sound(c)

LEMMA InitEnvelope == Init => EnvelopeInv
  BY EnvelopeAssumption
  DEF Init, EnvelopeInv, TypeOK, Sound, Places, Phases, Codes, Results, Ended, Definite,
      Turned, Durable

-----------------------------------------------------------------------------
(* Types.                                                                  *)

LEMMA EndedType ==
  ASSUME NEW code \in Codes, NEW unresolved \in BOOLEAN
  PROVE  Ended(code, unresolved) \in Results
  BY DEF Ended, Results

LEMMA ReturnedType ==
  ASSUME NEW out \in Outcome, NEW unresolved \in BOOLEAN
  PROVE  Returned(out, unresolved) \in Results
  BY DEF Returned, Results, Codes

LEMMA FinishType ==
  ASSUME TypeOK, NEW c \in Calls, NEW r \in Results, Finish(c, r),
         phase' \in [Calls -> Phases]
  PROVE  TypeOK'
  BY Zenon DEF TypeOK, Finish, Places

LEMMA DropType ==
  ASSUME TypeOK, NEW c \in Calls, Drop(c)
  PROVE  phase' \in [Calls -> Phases]
  BY DEF TypeOK, Drop, Phases

LEMMA RaiseType ==
  ASSUME TypeOK, NEW c \in Calls, Raise(c)
  PROVE  TypeOK'
<1>1. Ended("raised", FALSE) \in Results
  BY EndedType, Zenon DEF Codes
<1> QED
  BY <1>1, DropType, FinishType, Zenon DEF Raise

LEMMA AbortedType ==
  ASSUME TypeOK, NEW c \in Calls, Aborted(c), Drop(c)
  PROVE  TypeOK'
<1>1. phase' \in [Calls -> Phases]
  BY DropType
<1>2. CASE \E code \in Codes, unresolved \in BOOLEAN : Finish(c, Ended(code, unresolved))
  BY <1>1, <1>2, EndedType, FinishType
<1>3. CASE /\ attempt[c] < MaxAttempts
           /\ Goto(c, "attempt")
           /\ attempt' = [attempt EXCEPT ![c] = @ + 1]
           /\ UNCHANGED <<store, expired, seen, snap, row, result>>
  BY <1>1, <1>3, EnvelopeAssumption DEF TypeOK, Goto, Places
<1> QED
  BY <1>2, <1>3, Zenon DEF Aborted, Codes

LEMMA TypeStep ==
  ASSUME EnvelopeInv, NEW c \in Calls,
         Start(c) \/ Expire(c) \/ ServerCommit(c) \/ ClientStep(c)
  PROVE  TypeOK'
<1> USE EnvelopeAssumption
<1>0. TypeOK /\ Sound(c)
  BY DEF EnvelopeInv
<1>1. CASE Start(c)
  BY <1>0, <1>1 DEF Start, Goto, TypeOK, Places
<1>2. CASE Expire(c)
  BY <1>0, <1>2 DEF Expire, TypeOK
<1>3. CASE ServerCommit(c)
  <2>1. row[c] \in Outcome
    BY <1>0, <1>3 DEF ServerCommit, Sound, Valid
  <2>2. [by |-> c, out |-> row[c]] \in Durable
    BY <2>1 DEF Durable
  <2> QED
    BY <1>0, <1>3, <2>2 DEF ServerCommit, TypeOK, Phases
<1>4. CASE Begin(c)
  BY <1>0, <1>4 DEF Begin, Goto, TypeOK, Places, Phases
<1>5. CASE Fails(c)
  BY <1>0, <1>5, RaiseType DEF Fails
<1>6. CASE Exhausted(c)
  BY <1>0, <1>6, EndedType, FinishType, DropType DEF Exhausted, Codes
<1>7. CASE Lookup(c)
  <2>1. snap[c] # NoOutcome => snap[c].out \in Outcome
    BY <1>0 DEF TypeOK, Durable
  <2>2. CASE Raise(c)
    BY <1>0, <2>2, RaiseType
  <2>3. CASE Goto(c, "verify") /\ UNCHANGED <<store, attempt, expired, seen, phase, snap, row, result>>
    BY <1>0, <2>3 DEF Goto, TypeOK, Places
  <2>4. CASE /\ snap[c] # NoOutcome
             /\ \E clean \in CleanResults(c) : Finish(c, Returned(snap[c].out, ~clean))
             /\ Drop(c)
    BY <1>0, <2>1, <2>4, ReturnedType, FinishType, DropType, Zenon DEF CleanResults
  <2> QED
    BY <1>7, <2>2, <2>3, <2>4 DEF Lookup
<1>8. CASE Verify(c)
  <2>1. CASE Raise(c)
    BY <1>0, <2>1, RaiseType
  <2>2. CASE ~Raise(c)
    BY <1>0, <1>8, <2>2 DEF Verify, Goto, TypeOK, Places
  <2> QED
    BY <2>1, <2>2
<1>9. CASE Stage(c)
  BY <1>0, <1>9 DEF Stage, Goto, Valid, TypeOK, Places
<1>10. CASE SerializationAbort(c)
  BY <1>0, <1>10, AbortedType DEF SerializationAbort
<1>11. CASE SendCommit(c)
  BY <1>0, <1>11 DEF SendCommit, Goto, TypeOK, Places, Phases
<1>12. CASE CommitTooLate(c)
  BY <1>0, <1>12, EndedType, FinishType, DropType, Zenon DEF CommitTooLate, Codes
<1>13. CASE CommitReturns(c)
  <2>1. row[c] \in Outcome /\ phase' \in [Calls -> Phases]
    BY <1>0, <1>13 DEF CommitReturns, Sound, Valid, TypeOK
  <2> QED
    BY <1>0, <1>13, <2>1, ReturnedType, FinishType, Zenon DEF CommitReturns
<1>14. CASE CommitAmbiguous(c)
  <2>1. phase' \in [Calls -> Phases]
    BY <1>0, <1>14 DEF CommitAmbiguous, TypeOK
  <2>2. CASE Finish(c, Ended("COMMIT_OUTCOME_UNKNOWN", TRUE))
    BY <1>0, <2>1, <2>2, EndedType, FinishType, Zenon DEF Codes
  <2>3. CASE Goto(c, "readback") /\ UNCHANGED <<store, attempt, expired, seen, snap, row, result>>
    BY <1>0, <2>1, <2>3 DEF Goto, TypeOK, Places
  <2> QED
    BY <1>14, <2>2, <2>3, Zenon DEF CommitAmbiguous
<1>15. CASE Readback(c)
  <2>1. phase' \in [Calls -> Phases]
    BY <1>0, <1>15 DEF Readback, TypeOK
  <2>2. store[OpOf[c]] # NoOutcome => store[OpOf[c]].out \in Outcome
    BY <1>0 DEF TypeOK, Durable
  <2>3. CASE /\ store[OpOf[c]] # NoOutcome
             /\ \E clean \in BOOLEAN : Finish(c, Returned(store[OpOf[c]].out, ~clean))
    BY <1>0, <2>1, <2>2, <2>3, ReturnedType, FinishType, Zenon
  <2>4. CASE \E clean \in BOOLEAN : Finish(c, Ended("COMMIT_OUTCOME_UNKNOWN", ~clean))
    BY <1>0, <2>1, <2>4, EndedType, FinishType, Zenon DEF Codes
  <2> QED
    BY <1>15, <2>3, <2>4 DEF Readback
<1> QED
  BY <1>1, <1>2, <1>3, <1>4, <1>5, <1>6, <1>7, <1>8, <1>9, <1>10, <1>11, <1>12, <1>13,
     <1>14, <1>15 DEF ClientStep

-----------------------------------------------------------------------------
(* Sound is preserved.                                                     *)

\* A step of one call leaves the others alone; it only may decide a row that
\* nobody had decided.
StepOf(c) == Start(c) \/ Expire(c) \/ ServerCommit(c) \/ ClientStep(c)

LEMMA StoreStep ==
  ASSUME EnvelopeInv, NEW c \in Calls, StepOf(c)
  PROVE  \/ store' = store
         \/ /\ store[OpOf[c]] = NoOutcome
            /\ store' = [store EXCEPT ![OpOf[c]] = [by |-> c, out |-> row[c]]]
            /\ ServerCommit(c)
  BY Zenon DEF StepOf, ClientStep, Start, Expire, ServerCommit, Begin, Fails, Exhausted, Lookup,
     Verify, Stage, SerializationAbort, Aborted, SendCommit, CommitTooLate, CommitReturns,
     CommitAmbiguous, Readback, Raise, Finish

LEMMA Locality ==
  ASSUME EnvelopeInv, NEW c \in Calls, StepOf(c), NEW d \in Calls, d # c
  PROVE  /\ pc'[d] = pc[d] /\ phase'[d] = phase[d] /\ row'[d] = row[d]
         /\ snap'[d] = snap[d] /\ result'[d] = result[d]
  BY Zenon DEF EnvelopeInv, TypeOK, StepOf, ClientStep, Start, Expire, ServerCommit, Begin, Fails,
     Exhausted, Lookup, Verify, Stage, SerializationAbort, Aborted, SendCommit, CommitTooLate,
     CommitReturns, CommitAmbiguous, Readback, Raise, Finish, Goto, Drop

LEMMA SoundOthers ==
  ASSUME EnvelopeInv, NEW c \in Calls, StepOf(c), NEW d \in Calls, d # c
  PROVE  Sound(d)'
<1>1. Sound(d) /\ TypeOK
  BY DEF EnvelopeInv
<1>2. /\ pc'[d] = pc[d] /\ phase'[d] = phase[d] /\ row'[d] = row[d]
      /\ snap'[d] = snap[d] /\ result'[d] = result[d]
  BY Locality
<1>3. CASE store' = store
  BY <1>1, <1>2, <1>3 DEF Sound, Definite, Turned
<1>4. CASE /\ store[OpOf[c]] = NoOutcome
           /\ store' = [store EXCEPT ![OpOf[c]] = [by |-> c, out |-> row[c]]]
  <2>1. CASE OpOf[d] # OpOf[c]
    <3>1. store'[OpOf[d]] = store[OpOf[d]]
      BY <1>1, <1>4, <2>1, EnvelopeAssumption DEF TypeOK
    <3> QED
      BY <1>1, <1>2, <3>1 DEF Sound, Definite, Turned
  <2>2. CASE OpOf[d] = OpOf[c]
    <3>1. store[OpOf[d]] = NoOutcome /\ store'[OpOf[d]] = [by |-> c, out |-> row[c]]
      BY <1>1, <1>4, <2>2, EnvelopeAssumption DEF TypeOK
    <3>2. phase[d] # "committed" /\ snap[d] = NoOutcome /\ ~Definite(d)
      <4>1. [by |-> d, out |-> row[d]] # NoOutcome \/ phase[d] # "committed"
        BY <1>1, EnvelopeAssumption DEF Sound, Valid
      <4> QED
        BY <1>1, <3>1, <4>1 DEF Sound
    <3> QED
      BY <1>1, <1>2, <3>1, <3>2 DEF Sound, Definite, Turned, Valid
  <2> QED
    BY <2>1, <2>2
<1> QED
  BY <1>3, <1>4, StoreStep

LEMMA SoundFinish ==
  ASSUME EnvelopeInv, NEW c \in Calls, NEW code \in Codes \ {"waiting", "none"},
         NEW unresolved \in BOOLEAN, Finish(c, Ended(code, unresolved)), Drop(c),
         code = "COMMIT_OUTCOME_UNKNOWN" \/ phase[c] \in {"none", "active", "aborted"}
  PROVE  Sound(c)'
  BY DEF EnvelopeInv, TypeOK, Finish, Ended, Drop, Sound, Definite, Turned, Phases, Codes, Valid

LEMMA SoundReturn ==
  ASSUME EnvelopeInv, NEW c \in Calls, NEW unresolved \in BOOLEAN, NEW out,
         store[OpOf[c]] # NoOutcome, out = store[OpOf[c]].out, out.digest = DigestOf[c],
         Finish(c, Returned(out, unresolved)), Drop(c)
  PROVE  Sound(c)'
  BY DEF EnvelopeInv, TypeOK, Finish, Returned, Drop, Sound, Definite, Turned, Phases, Valid

LEMMA DropOrKeep ==
  ASSUME EnvelopeInv, NEW c \in Calls, phase[c] # "active", UNCHANGED phase
  PROVE  Drop(c)
  BY DEF EnvelopeInv, TypeOK, Drop

LEMMA SoundRaise ==
  ASSUME EnvelopeInv, NEW c \in Calls, Raise(c), phase[c] \in {"none", "active", "aborted"}
  PROVE  Sound(c)'
<1>1. "raised" \in Codes \ {"waiting", "none"}
  BY DEF Codes
<1> QED
  BY <1>1, SoundFinish, Zenon DEF Raise

LEMMA SoundAborted ==
  ASSUME EnvelopeInv, NEW c \in Calls, Aborted(c), Drop(c), pc[c] # "done",
         phase[c] \in {"active", "aborted"}
  PROVE  Sound(c)'
<1>1. CASE \E code \in Codes \ {"waiting", "none"}, unresolved \in BOOLEAN :
             Finish(c, Ended(code, unresolved))
  BY <1>1, SoundFinish
<1>2. CASE Goto(c, "attempt") /\ UNCHANGED <<store, snap, row, result>>
  BY <1>2 DEF EnvelopeInv, TypeOK, Goto, Drop, Sound, Definite, Turned, Valid
<1> QED
  BY <1>1, <1>2, Zenon DEF Aborted, Codes

LEMMA SoundSelf ==
  ASSUME EnvelopeInv, NEW c \in Calls, StepOf(c)
  PROVE  Sound(c)'
<1> USE EnvelopeAssumption
<1>0. TypeOK /\ Sound(c)
  BY DEF EnvelopeInv
<1>1. CASE Start(c)
  BY <1>0, <1>1 DEF Start, Goto, TypeOK, Sound, Definite, Turned, Valid
<1>2. CASE Expire(c)
  BY <1>0, <1>2 DEF Expire, TypeOK, Sound, Definite, Turned, Valid
<1>3. CASE ServerCommit(c)
  <2>1. pc[c] \in {"sent", "readback", "done"} /\ row[c] \in Valid(c)
    BY <1>0, <1>3 DEF ServerCommit, Sound, TypeOK, Places
  <2>2. CASE /\ store[OpOf[c]] = NoOutcome
             /\ store' = [store EXCEPT ![OpOf[c]] = [by |-> c, out |-> row[c]]]
             /\ phase' = [phase EXCEPT ![c] = "committed"]
    <3>1. store'[OpOf[c]] = [by |-> c, out |-> row[c]] /\ phase'[c] = "committed"
      BY <1>0, <2>2 DEF TypeOK
    <3>2. snap[c] = NoOutcome /\ ~Definite(c) /\ ~Turned(c)
      BY <1>0, <1>3, <2>2 DEF ServerCommit, Sound
    <3> QED
      BY <1>0, <1>3, <2>1, <3>1, <3>2 DEF ServerCommit, Sound, Definite, Turned, Valid
  <2>3. CASE phase' = [phase EXCEPT ![c] = "aborted"] /\ UNCHANGED store
    BY <1>0, <1>3, <2>1, <2>3 DEF ServerCommit, TypeOK, Sound, Definite, Turned, Valid
  <2> QED
    BY <1>3, <2>2, <2>3 DEF ServerCommit
<1>4. CASE Begin(c)
  BY <1>0, <1>4 DEF Begin, Goto, TypeOK, Sound, Definite, Turned, Valid
<1>5. CASE Fails(c)
  BY <1>0, <1>5, SoundRaise DEF Fails, Sound
<1>6. CASE Exhausted(c)
  <2>1. "G00_PROGRESS_BREACH" \in Codes \ {"waiting", "none"}
    BY DEF Codes
  <2> QED
    BY <1>0, <1>6, <2>1, SoundFinish DEF Exhausted, Sound
<1>7. CASE Lookup(c)
  <2>1. CASE Raise(c)
    BY <1>0, <1>7, <2>1, SoundRaise DEF Lookup, Sound
  <2>2. CASE Goto(c, "verify") /\ UNCHANGED <<store, attempt, expired, seen, phase, snap, row, result>>
    BY <1>0, <1>7, <2>2 DEF Lookup, Goto, TypeOK, Sound, Definite, Turned, Valid
  <2>3. CASE /\ snap[c] # NoOutcome
             /\ snap[c].out.digest = DigestOf[c]
             /\ \E clean \in CleanResults(c) : Finish(c, Returned(snap[c].out, ~clean))
             /\ Drop(c)
    <3>1. snap[c] = store[OpOf[c]] /\ store[OpOf[c]] # NoOutcome
      BY <1>0, <2>3 DEF Sound
    <3> QED
      BY <2>3, <3>1, SoundReturn, Zenon DEF CleanResults
  <2> QED
    BY <1>7, <2>1, <2>2, <2>3, Zenon DEF Lookup
<1>8. CASE Verify(c)
  <2>1. CASE Raise(c)
    BY <1>0, <1>8, <2>1, SoundRaise DEF Verify, Sound
  <2>2. CASE ~Raise(c)
    BY <1>0, <1>8, <2>2 DEF Verify, Goto, TypeOK, Sound, Definite, Turned, Valid
  <2> QED
    BY <2>1, <2>2
<1>9. CASE Stage(c)
  <2>1. PICK out \in Valid(c) : row' = [row EXCEPT ![c] = out]
    BY <1>9, Zenon DEF Stage
  <2>2. row'[c] \in Valid(c) /\ Valid(c)' = Valid(c)
    BY <1>0, <2>1 DEF TypeOK, Valid
  <2> QED
    BY <1>0, <1>9, <2>2 DEF Stage, Goto, TypeOK, Sound, Definite, Turned
<1>10. CASE SerializationAbort(c)
  BY <1>0, <1>10, SoundAborted DEF SerializationAbort, Sound
<1>11. CASE SendCommit(c)
  BY <1>0, <1>11 DEF SendCommit, Goto, TypeOK, Sound, Definite, Turned, Valid
<1>12. CASE CommitTooLate(c)
  <2>1. "COMMIT_OUTCOME_UNKNOWN" \in Codes \ {"waiting", "none"}
    BY DEF Codes
  <2> QED
    BY <1>12, <2>1, SoundFinish, Zenon DEF CommitTooLate
<1>13. CASE CommitReturns(c)
  <2>1. row[c] \in Valid(c) /\ store[OpOf[c]] = [by |-> c, out |-> row[c]]
    BY <1>0, <1>13 DEF CommitReturns, Sound
  <2>2. store[OpOf[c]] # NoOutcome /\ row[c] = store[OpOf[c]].out /\ row[c].digest = DigestOf[c]
    BY <2>1 DEF Valid
  <2> QED
    BY <1>13, <2>2, DropOrKeep, SoundReturn, Zenon DEF CommitReturns
<1>14. CASE CommitAmbiguous(c)
  <2>1. "COMMIT_OUTCOME_UNKNOWN" \in Codes \ {"waiting", "none"} /\ phase[c] # "active"
    BY <1>0, <1>14 DEF Codes, CommitAmbiguous, Sound
  <2>2. CASE Finish(c, Ended("COMMIT_OUTCOME_UNKNOWN", TRUE))
    BY <1>14, <2>1, <2>2, DropOrKeep, SoundFinish, Zenon DEF CommitAmbiguous
  <2>3. CASE Goto(c, "readback") /\ UNCHANGED <<store, attempt, expired, seen, snap, row, result>>
    BY <1>0, <1>14, <2>3 DEF CommitAmbiguous, Goto, TypeOK, Sound, Definite, Turned, Valid
  <2> QED
    BY <1>14, <2>2, <2>3, Zenon DEF CommitAmbiguous
<1>15. CASE Readback(c)
  <2>1. /\ "COMMIT_OUTCOME_UNKNOWN" \in Codes \ {"waiting", "none"}
        /\ phase[c] # "active"
        /\ UNCHANGED phase
    BY <1>0, <1>15 DEF Codes, Readback, Sound
  <2>2. Drop(c)
    BY <2>1, DropOrKeep
  <2>3. CASE \E clean \in BOOLEAN : Finish(c, Ended("COMMIT_OUTCOME_UNKNOWN", ~clean))
    BY <2>1, <2>2, <2>3, SoundFinish, Zenon
  <2>4. CASE /\ store[OpOf[c]] # NoOutcome
             /\ store[OpOf[c]].out.digest = DigestOf[c]
             /\ \E clean \in BOOLEAN : Finish(c, Returned(store[OpOf[c]].out, ~clean))
    BY <2>2, <2>4, SoundReturn, Zenon
  <2> QED
    BY <1>15, <2>3, <2>4 DEF Readback
<1> QED
  BY <1>1, <1>2, <1>3, <1>4, <1>5, <1>6, <1>7, <1>8, <1>9, <1>10, <1>11, <1>12, <1>13,
     <1>14, <1>15 DEF StepOf, ClientStep

LEMMA StutterEnvelope == EnvelopeInv /\ UNCHANGED vars => EnvelopeInv'
  BY DEF EnvelopeInv, TypeOK, Sound, Definite, Turned, Valid, vars

\* The inductive invariant of the envelope.
THEOREM EnvelopeSafety == Spec => []EnvelopeInv
<1>1. Init => EnvelopeInv
  BY InitEnvelope
<1>2. EnvelopeInv /\ [Next]_vars => EnvelopeInv'
  <2>1. CASE EnvelopeInv /\ UNCHANGED vars
    BY <2>1, StutterEnvelope
  <2>2. ASSUME EnvelopeInv, NEW c \in Calls, StepOf(c)
        PROVE  EnvelopeInv'
    <3>1. TypeOK'
      BY <2>2, TypeStep DEF StepOf
    <3>2. ASSUME NEW d \in Calls PROVE Sound(d)'
      BY <2>2, SoundSelf, SoundOthers
    <3> QED
      BY <3>1, <3>2 DEF EnvelopeInv
  <2> QED
    BY <2>1, <2>2 DEF Next, StepOf
<1> QED
  BY <1>1, <1>2, PTL DEF Spec

\* Every variable of the envelope keeps its type; attempts stay bounded.
THEOREM EnvelopeTypes == Spec => []TypeOK
<1>1. EnvelopeInv => TypeOK
  BY DEF EnvelopeInv
<1> QED
  BY <1>1, EnvelopeSafety, PTL

\* A definite reply of execute is the durable outcome of its own request.
THEOREM EnvelopeTruthful == Spec => []TruthfulReply
<1>1. EnvelopeInv => TruthfulReply
  BY Zenon DEF EnvelopeInv, Sound, TruthfulReply
<1> QED
  BY <1>1, EnvelopeSafety, PTL

\* A call that ended otherwise than as unknown has no durable transaction.
THEOREM EnvelopeTurned == Spec => []TurnedHasNoEffect
<1>1. EnvelopeInv => TurnedHasNoEffect
  BY Zenon DEF EnvelopeInv, Sound, TurnedHasNoEffect
<1> QED
  BY <1>1, EnvelopeSafety, PTL

\* Whatever execute answers is so: a definite reply is the durable outcome of its own
\* request, and a request turned away has left nothing durable.
THEOREM EnvelopeAnswers == Spec => []AnswersTruthful
<1>1. TruthfulReply /\ TurnedHasNoEffect => AnswersTruthful
  BY DEF AnswersTruthful
<1> QED
  BY <1>1, EnvelopeTruthful, EnvelopeTurned, PTL

-----------------------------------------------------------------------------
(* Every step of the envelope is a step of AtMostOnce or a stutter.        *)

reply == [c \in Calls |-> [kind |-> ReplyKind(c), out |-> result[c].out]]

LEMMA RefinesInit == Init => Abstract!AInit
  BY DEF Init, Abstract!AInit, Abstract!Without, Ended, ReplyKind, Definite, Turned

LEMMA ReplyOfFinish ==
  ASSUME EnvelopeInv, NEW c \in Calls, NEW r \in Results, NEW kind,
         Finish(c, r),
         kind = IF r.code = "none" THEN "answered"
                ELSE IF r.code \notin {"waiting", "none", "COMMIT_OUTCOME_UNKNOWN"} THEN "refused"
                ELSE IF r.code = "waiting" THEN "waiting" ELSE "unknown"
  PROVE  reply' = [reply EXCEPT ![c] = [kind |-> kind, out |-> r.out]]
<1>1. result' = [result EXCEPT ![c] = r]
  BY DEF Finish
<1>2. ASSUME NEW d \in Calls, d # c PROVE result'[d] = result[d]
  BY <1>1, <1>2 DEF EnvelopeInv, TypeOK
<1>3. result'[c] = r
  BY <1>1 DEF EnvelopeInv, TypeOK
<1> QED
  BY <1>2, <1>3, Zenon DEF reply, ReplyKind, Definite, Turned

LEMMA RefinesStep ==
  ASSUME EnvelopeInv, EnvelopeInv', NEW c \in Calls, StepOf(c)
  PROVE  [Abstract!ANext]_(Abstract!avars)
<1> USE EnvelopeAssumption
<1>0. TypeOK /\ Sound(c) /\ Sound(c)'
  BY DEF EnvelopeInv
<1>1. CASE result' = result /\ store' = store
  BY <1>1 DEF Abstract!avars, ReplyKind, Definite, Turned
<1>2. CASE ServerCommit(c) /\ store' # store
  <2>1. /\ store[OpOf[c]] = NoOutcome /\ row[c] \in Valid(c)
        /\ store' = [store EXCEPT ![OpOf[c]] = [by |-> c, out |-> row[c]]]
        /\ result' = result
    BY <1>0, <1>2 DEF ServerCommit, Sound
  <2>2. ReplyKind(c) \in {"waiting", "unknown"}
    BY <1>0, <1>2, <2>1 DEF ServerCommit, Sound, ReplyKind
  <2>3. reply[c].kind \in {"waiting", "unknown"} /\ reply' = reply
    BY <2>1, <2>2 DEF reply, ReplyKind, Definite, Turned
  <2>4. Abstract!Decide(c)
    BY <2>1, <2>3, Zenon DEF Abstract!Decide, reply
  <2> QED
    BY <2>4 DEF Abstract!ANext
<1>3. ASSUME NEW r \in Results, Finish(c, r), r.code # "waiting", pc[c] # "done"
      PROVE  Abstract!ANext
  <2>1. reply[c].kind = "waiting"
    BY <1>0, <1>3 DEF reply, Sound, ReplyKind, Definite, Turned
  <2>2. store' = store /\ result'[c] = r
    BY <1>0, <1>3 DEF Finish, TypeOK
  <2>3. CASE r.code = "none"
    <3>1. store[OpOf[c]] # NoOutcome /\ r.out = store[OpOf[c]].out
      BY <1>0, <2>2, <2>3 DEF Sound, Definite
    <3>2. reply' = [reply EXCEPT ![c] = [kind |-> "answered", out |-> r.out]]
      BY <1>3, <2>3, ReplyOfFinish
    <3>3. Abstract!Answer(c)
      BY <2>1, <2>2, <3>1, <3>2 DEF Abstract!Answer, reply
    <3> QED
      BY <3>3 DEF Abstract!ANext
  <2>4. CASE r.code = "COMMIT_OUTCOME_UNKNOWN"
    <3>1. r.out = NoOutcome
      BY <1>0, <2>2, <2>4 DEF Sound
    <3>2. reply' = [reply EXCEPT ![c] = [kind |-> "unknown", out |-> r.out]]
      BY <1>3, <2>4, ReplyOfFinish
    <3>3. Abstract!GiveUp(c)
      BY <2>1, <2>2, <3>1, <3>2 DEF Abstract!GiveUp, Abstract!Without, reply
    <3> QED
      BY <3>3 DEF Abstract!ANext
  <2>5. CASE r.code \notin {"waiting", "none", "COMMIT_OUTCOME_UNKNOWN"}
    <3>1. r.out = NoOutcome /\ (store[OpOf[c]] # NoOutcome => store[OpOf[c]].by # c)
      BY <1>0, <2>2, <2>5 DEF Sound, Turned
    <3>2. reply' = [reply EXCEPT ![c] = [kind |-> "refused", out |-> r.out]]
      BY <1>3, <2>5, ReplyOfFinish
    <3>3. Abstract!Refuse(c)
      BY <2>1, <2>2, <3>1, <3>2 DEF Abstract!Refuse, Abstract!Without, reply
    <3> QED
      BY <3>3 DEF Abstract!ANext
  <2> QED
    BY <1>3, <2>3, <2>4, <2>5
<1>4. \/ result' = result /\ store' = store
      \/ ServerCommit(c) /\ store' # store
      \/ \E r : Finish(c, r) /\ pc[c] # "done"
  BY Zenon DEF StepOf, ClientStep, Start, Expire, ServerCommit, Begin, Fails, Exhausted, Lookup,
     Verify, Stage, SerializationAbort, Aborted, SendCommit, CommitTooLate, CommitReturns,
     CommitAmbiguous, Readback, Raise
<1>5. ASSUME NEW r, Finish(c, r), pc[c] # "done" PROVE r \in Results /\ r.code # "waiting"
  <2>1. result'[c] = r /\ pc'[c] = "done" /\ result' \in [Calls -> Results]
    BY <1>0, <1>5 DEF Finish, TypeOK, EnvelopeInv
  <2> QED
    BY <1>0, <2>1 DEF Sound
<1> QED
  BY <1>1, <1>2, <1>3, <1>4, <1>5

\* For every number of calls and attempts the envelope implements AtMostOnce.
THEOREM EnvelopeRefines == Spec => ImplementsAtMostOnce
<1>1. Init => Abstract!AInit
  BY RefinesInit
<1>2. EnvelopeInv /\ EnvelopeInv' /\ [Next]_vars => [Abstract!ANext]_(Abstract!avars)
  <2>1. CASE UNCHANGED vars
    BY <2>1 DEF vars, Abstract!avars, ReplyKind, Definite, Turned
  <2> QED
    BY <2>1, RefinesStep, Zenon DEF Next, StepOf
<1> QED
  BY <1>1, <1>2, EnvelopeSafety, PTL DEF Spec, ImplementsAtMostOnce, Abstract!ASpec
=============================================================================
