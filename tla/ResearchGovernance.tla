------------------------- MODULE ResearchGovernance -------------------------
(* The research journal and the governor that writes it                     *)
(* (research/research_governance.py).  Every call of the governor reads the *)
(* journal directory, decides, and appends one event through                *)
(* ResearchJournal._append: read again, refuse a known identity, validate   *)
(* the whole prospective history, write a temporary file, publish it with   *)
(* os.link under the next sequence number, remove the temporary file.       *)
(*                                                                          *)
(* One experiment is modelled: the plans share hypothesis, configuration,   *)
(* dataset and partition, and a run identity stands for its reproducibility *)
(* digest and replay target (ResearchRun.create derives it from them).  The *)
(* digest of an event is the history up to it, so a checkpoint is a prefix. *)
(* A governor call reads the journal several times before it appends; the   *)
(* lineage of an accepted plan never changes and the other checks only get  *)
(* stricter as the journal grows, so the last of these reads stands for all.*)
EXTENDS Naturals, FiniteSets, Sequences, SequencesExt

CONSTANTS Callers,         \* processes that hold a governor on the directory
          PlanData,        \* plan -> [pred: {} or {plan}, maximum, holdout]
          ReplayOf,        \* run -> {} or {run}
          Requests,        \* holdout request identities
          Marks,           \* contamination identities
          Approvals,       \* <<plan, operation>> the trust context accepts
          MaxEvents, MaxCheckpoints, MaxRestores, MaxCrashes

VARIABLES
  journal,     \* the published events, in sequence order
  temporary,   \* callers whose temporary file is in the directory
  trusted,     \* checkpoints the trust context accepts
  checkpoint,  \* caller -> {} or {checkpoint} its journal was opened with
  pc,          \* caller -> where its current call stands
  pending,     \* caller -> the event its call appends, <<>> when none
  sequence,    \* caller -> the sequence number _append computed
  verdict,     \* caller -> the last assessment it was given, <<>> when none
  restores,    \* times the directory was restored from an older copy
  crashes

govVars == <<journal, temporary, trusted, checkpoint, pc, pending, sequence,
             verdict, restores, crashes>>

Plans == DOMAIN PlanData
Runs == DOMAIN ReplayOf

TRANSITIONS ==
  [ADMITTED |-> {"RUNNING"}, RUNNING |-> {"COMPLETED", "FAILED", "INTERRUPTED"},
   COMPLETED |-> {}, FAILED |-> {}, INTERRUPTED |-> {}]
STATE_KIND ==
  [ADMITTED |-> "TRIAL_ADMITTED", RUNNING |-> "TRIAL_RUNNING",
   COMPLETED |-> "TRIAL_COMPLETED", FAILED |-> "TRIAL_FAILED",
   INTERRUPTED |-> "TRIAL_INTERRUPTED"]

\* JournalEvent: run is {} or {run}; ref is the sequence number of the
\* authorization a consumption names, 0 for the other kinds.
JournalEvent(id, kind, plan, run, disposition, ref) ==
  [id |-> id, kind |-> kind, plan |-> plan, run |-> run,
   disposition |-> disposition, ref |-> ref]

EventsOf(j, kind) == SelectSeq(j, LAMBDA e : e.kind = kind)
AcceptedPlans(j) == {e.plan : e \in ToSet(EventsOf(j, "PLAN_ACCEPTED"))}

\* The plan and its accepted predecessors.
Lineage(j, plan) ==
  LET up[n \in 0..Cardinality(Plans)] ==
        IF n = 0 THEN {plan}
        ELSE up[n-1] \cup (UNION {PlanData[q].pred : q \in up[n-1]}
                             \cap AcceptedPlans(j))
  IN up[Cardinality(Plans)]

PlanEvents(j, plan) == SelectSeq(j, LAMBDA e : e.plan \in Lineage(j, plan))

TrialState(j, run) ==
  LET trail == SelectSeq(j, LAMBDA e : run \in e.run)
  IN IF trail = <<>> THEN "NONE" ELSE Last(trail).disposition

Admissions(j) == EventsOf(j, "TRIAL_ADMITTED")
AdmissionOf(j, run) == SelectSeq(Admissions(j), LAMBDA e : run \in e.run)

-----------------------------------------------------------------------------
\* _validate_semantics: what each kind of event must satisfy after history j.

PlanAcceptedValid(j, e) ==
  \A q \in PlanData[e.plan].pred :
     /\ q \in AcceptedPlans(j)
     /\ PlanData[e.plan].maximum > PlanData[q].maximum

\* The replay target must be another run admitted in the lineage.
ReplayValid(j, run, lineage) ==
  \A target \in ReplayOf[run] :
     /\ target # run
     /\ \E a \in ToSet(AdmissionOf(j, target)) : a.plan \in lineage

TrialAdmittedValid(j, e) ==
  LET lineage == Lineage(j, e.plan)
      counted == SelectSeq(Admissions(j), LAMBDA a : a.plan \in lineage)
  IN /\ \A run \in e.run : /\ ReplayValid(j, run, lineage)
                           /\ AdmissionOf(j, run) = <<>>
     /\ Len(counted) < PlanData[e.plan].maximum

TransitionValid(j, e) ==
  \A run \in e.run :
     /\ \E a \in ToSet(AdmissionOf(j, run)) : a.plan = e.plan
     /\ e.disposition \in TRANSITIONS[TrialState(j, run)]
     /\ STATE_KIND[e.disposition] = e.kind

HoldoutConsumedValid(j, e) ==
  /\ e.ref \in DOMAIN j
  /\ j[e.ref].kind = "HOLDOUT_AUTHORIZED"
  /\ j[e.ref].plan = e.plan
  /\ \A c \in ToSet(EventsOf(j, "HOLDOUT_CONSUMED")) : c.ref # e.ref

HoldoutDecisionValid(e) ==
  (e.kind = "HOLDOUT_AUTHORIZED") <=> (e.disposition = "AUTHORIZED_ACCESS")

EventValid(j, e) ==
  IF e.kind = "PLAN_ACCEPTED" THEN PlanAcceptedValid(j, e)
  ELSE /\ e.plan \in AcceptedPlans(j)
       /\ e.kind = "TRIAL_ADMITTED" => TrialAdmittedValid(j, e)
       /\ e.kind \in {STATE_KIND[s] : s \in DOMAIN TRANSITIONS \ {"ADMITTED"}}
             => TransitionValid(j, e)
       /\ e.kind \in {"HOLDOUT_AUTHORIZED", "HOLDOUT_REJECTED"}
             => HoldoutDecisionValid(e)
       /\ e.kind = "HOLDOUT_CONSUMED" => HoldoutConsumedValid(j, e)

\* recover: identities are unique and every event is valid where it stands.
\* A file left in the directory that is not a record makes it refuse; a
\* published one is whole, so _decode accepts it.
Recoverable(j) ==
  \A i \in DOMAIN j :
     /\ \A k \in 1..(i-1) : j[k].id # j[i].id
     /\ EventValid(SubSeq(j, 1, i-1), j[i])
Readable == temporary = {}

-----------------------------------------------------------------------------
\* history_trust_state

HistoryTrustState(j, c) ==
  IF c = {} THEN "UNCHECKPOINTED_TAIL"
  ELSE LET accepted == CHOOSE x \in c : TRUE
       IN IF accepted \notin trusted \/ ~IsPrefix(accepted, j)
          THEN "INVALID_HISTORY"
          ELSE IF Len(accepted) = Len(j) THEN "CHECKPOINTED_HISTORY"
               ELSE "UNCHECKPOINTED_TAIL"

\* require_admitted: the gate an executor passes before it runs a trial.
RequireAdmitted(j, c, plan, run) ==
  LET lineage == Lineage(j, plan)
  IN /\ plan \in AcceptedPlans(j)
     /\ HistoryTrustState(j, c) = "CHECKPOINTED_HISTORY"
     /\ Len(AdmissionOf(j, run)) = 1
     /\ AdmissionOf(j, run)[1].plan = plan
     /\ TrialState(j, run) = "ADMITTED"
     /\ Len(SelectSeq(Admissions(j), LAMBDA a : a.plan \in lineage))
          <= PlanData[plan].maximum

-----------------------------------------------------------------------------
Init ==
  /\ journal = <<>>
  /\ temporary = {}
  /\ trusted = {}
  /\ checkpoint = [p \in Callers |-> {}]
  /\ pc = [p \in Callers |-> "IDLE"]
  /\ pending = [p \in Callers |-> <<>>]
  /\ sequence = [p \in Callers |-> 0]
  /\ verdict = [p \in Callers |-> <<>>]
  /\ restores = 0
  /\ crashes = 0

\* ResearchJournal(root, checkpoint=...): opening recovers the history.
Open(p, c) ==
  /\ pc[p] = "IDLE"
  /\ Readable
  /\ checkpoint' = [checkpoint EXCEPT ![p] = c]
  /\ verdict' = [verdict EXCEPT ![p] = <<>>]
  /\ UNCHANGED <<journal, temporary, trusted, pc, pending, sequence, restores,
                 crashes>>

\* The offline establishment of checkpoint_candidate()'s value.
EstablishCheckpoint ==
  /\ Readable
  /\ Cardinality(trusted) < MaxCheckpoints
  /\ trusted' = trusted \cup {journal}
  /\ UNCHANGED <<journal, temporary, checkpoint, pc, pending, sequence, verdict,
                 restores, crashes>>

\* What every governor call does once its own checks have passed.
Decide(p, event) ==
  /\ pc[p] = "IDLE"
  /\ Readable
  /\ Len(journal) < MaxEvents
  /\ pc' = [pc EXCEPT ![p] = "DECIDED"]
  /\ pending' = [pending EXCEPT ![p] = <<event>>]
  /\ verdict' = [verdict EXCEPT ![p] = <<>>]
  /\ UNCHANGED <<journal, temporary, trusted, checkpoint, sequence, restores,
                 crashes>>

\* FrozenResearchPlan.expand: an expansion's budget is above its predecessor's.
Expands(plan, q) == PlanData[plan].maximum > PlanData[q].maximum

\* The plans a caller can hold: those that FrozenResearchPlan.create, or expand
\* from a predecessor, gave it.
FrozenPlan(plan) ==
  /\ PlanData[plan].maximum \in Nat \ {0}
  /\ \A q \in PlanData[plan].pred : Expands(plan, q)

AcceptPlan(p, plan) ==
  LET pred == PlanData[plan].pred
      operation == IF pred = {} THEN "S4_08_PLAN_APPROVAL"
                   ELSE "S4_08_BUDGET_EXPANSION"
  IN /\ FrozenPlan(plan)
     /\ <<plan, operation>> \in Approvals
     /\ pred \subseteq AcceptedPlans(journal)
     /\ Decide(p, JournalEvent(<<"plan", plan>>, "PLAN_ACCEPTED", plan, {},
                               "ACCEPTED", 0))

Admission(plan, run) ==
  JournalEvent(<<"trial", run, "ADMITTED">>, "TRIAL_ADMITTED", plan, {run},
               "ADMITTED", 0)

\* A repeated admission returns or refuses the existing one: no step.
Admit(p, plan, run) ==
  LET lineage == Lineage(journal, plan)
  IN /\ plan \in AcceptedPlans(journal)
     /\ TrialState(journal, run) = "NONE"
     /\ \A a \in ToSet(Admissions(journal)) : a.plan \in lineage
     /\ ReplayValid(journal, run, lineage)
     /\ Len(Admissions(journal)) < PlanData[plan].maximum
     /\ Decide(p, Admission(plan, run))

Transition(p, plan, run, target) ==
  /\ plan \in AcceptedPlans(journal)
  /\ TrialState(journal, run) # "NONE"
  /\ target \in TRANSITIONS[TrialState(journal, run)]
  /\ AdmissionOf(journal, run)[1].plan = plan
  /\ Decide(p, JournalEvent(<<"trial", run, target>>, STATE_KIND[target], plan,
                            {run}, target, 0))

HoldoutEvent(plan, request, decision) ==
  JournalEvent(<<"holdout", request>>,
               IF decision = "AUTHORIZED_ACCESS" THEN "HOLDOUT_AUTHORIZED"
               ELSE "HOLDOUT_REJECTED",
               plan, {}, decision, 0)

RequestHoldout_Forgets(p, plan, request, qualified) ==
  /\ plan \in AcceptedPlans(journal)
  /\ <<plan, "S4_08_HOLDOUT_ACCESS">> \in Approvals
  /\ Decide(p, HoldoutEvent(plan, request,
                 IF PlanData[plan].holdout /\ qualified
                 THEN "AUTHORIZED_ACCESS" ELSE "UNAUTHORIZED_ACCESS"))

\* qualified: the qualification is current, of this dataset and permits
\* economic validation, and the approval is the plan's own.
RequestHoldout(p, plan, request, qualified) ==
  LET prior == EventsOf(PlanEvents(journal, plan), "HOLDOUT_AUTHORIZED")
  IN /\ plan \in AcceptedPlans(journal)
     /\ <<plan, "S4_08_HOLDOUT_ACCESS">> \in Approvals
     /\ Decide(p, HoldoutEvent(plan, request,
                    IF prior # <<>> THEN "REPEATED_ACCESS"
                    ELSE IF PlanData[plan].holdout /\ qualified
                    THEN "AUTHORIZED_ACCESS" ELSE "UNAUTHORIZED_ACCESS"))

ConsumeHoldout(p, plan, i) ==
  /\ \A c \in ToSet(EventsOf(journal, "HOLDOUT_CONSUMED")) : c.ref # i
  /\ journal[i].kind = "HOLDOUT_AUTHORIZED"
  /\ journal[i].plan = plan
  /\ HistoryTrustState(journal, checkpoint[p]) = "CHECKPOINTED_HISTORY"
  /\ \E c \in checkpoint[p] : Len(c) = i
  /\ Decide(p, JournalEvent(<<"consumption", journal[i].id[2]>>,
                            "HOLDOUT_CONSUMED", plan, {},
                            "CONSUMED_NO_DELIVERY", i))

RecordContamination(p, plan, mark) ==
  /\ plan \in AcceptedPlans(journal)
  /\ Decide(p, JournalEvent(<<"contamination", mark>>,
                            "CONTAMINATION_RECORDED", plan, {},
                            "CONTAMINATED_EVIDENCE", 0))

-----------------------------------------------------------------------------
\* ResearchJournal._append

\* A caller whose call returned or raised.
Return(p) ==
  /\ pc' = [pc EXCEPT ![p] = "IDLE"]
  /\ pending' = [pending EXCEPT ![p] = <<>>]
  /\ sequence' = [sequence EXCEPT ![p] = 0]

\* The second read: a known identity returns the existing event or raises; an
\* invalid prospective history, or a file in the way, raises.
Prepare(p) ==
  LET e == pending[p][1]
      known == \E x \in ToSet(journal) : x.id = e.id
  IN /\ pc[p] = "DECIDED"
     /\ IF Readable /\ ~known /\ EventValid(journal, e)
        THEN /\ pc' = [pc EXCEPT ![p] = "PREPARED"]
             /\ sequence' = [sequence EXCEPT ![p] = Len(journal) + 1]
             /\ UNCHANGED pending
        ELSE Return(p)
     /\ UNCHANGED <<journal, temporary, trusted, checkpoint, verdict, restores,
                    crashes>>

WriteTemporary(p) ==
  /\ pc[p] = "PREPARED"
  /\ temporary' = temporary \cup {p}
  /\ pc' = [pc EXCEPT ![p] = "WRITTEN"]
  /\ UNCHANGED <<journal, trusted, checkpoint, pending, sequence, verdict,
                 restores, crashes>>

\* os.link fails when another writer published this sequence number.
Link(p) ==
  /\ pc[p] = "WRITTEN"
  /\ pc' = [pc EXCEPT ![p] = "LINKED"]
  /\ journal' = IF sequence[p] = Len(journal) + 1
                THEN Append(journal, pending[p][1]) ELSE journal
  /\ UNCHANGED <<temporary, trusted, checkpoint, pending, sequence, verdict,
                 restores, crashes>>

\* finally: the temporary file is removed, then the closing recover() returns
\* the event or raises; the event stays published either way.
Unlink(p) ==
  /\ pc[p] = "LINKED"
  /\ temporary' = temporary \ {p}
  /\ Return(p)
  /\ UNCHANGED <<journal, trusted, checkpoint, verdict, restores, crashes>>

-----------------------------------------------------------------------------
\* assess_evidence: require_checkpointed() reads the history once, the lineage
\* events are read again afterwards.

Assess(p) ==
  /\ pc[p] = "IDLE"
  /\ Readable
  /\ HistoryTrustState(journal, checkpoint[p]) = "CHECKPOINTED_HISTORY"
  /\ pc' = [pc EXCEPT ![p] = "ASSESSING"]
  /\ verdict' = [verdict EXCEPT ![p] = <<>>]
  /\ UNCHANGED <<journal, temporary, trusted, checkpoint, pending, sequence,
                 restores, crashes>>

\* sound: the manifest, qualification, point-in-time and reconciliation
\* evidence is valid, current and bound to the run.
Eligibility(j, plan, run, sound, g3) ==
  LET events == PlanEvents(j, plan)
      has(kind) == EventsOf(events, kind) # <<>>
  IN IF ~sound \/ AdmissionOf(events, run) = <<>>
        \/ ~\E e \in ToSet(EventsOf(events, "TRIAL_COMPLETED")) : run \in e.run
     THEN "INELIGIBLE_EVIDENCE"
     ELSE IF /\ g3
             /\ Len(EventsOf(events, "HOLDOUT_CONSUMED")) = 1
             /\ ~has("HOLDOUT_REJECTED")
             /\ ~has("CONTAMINATION_RECORDED")
             /\ PlanData[plan].holdout
     THEN "ELIGIBLE_CONFIRMATORY_EVIDENCE" ELSE "TECHNICALLY_VALID_EVIDENCE"

Conclude(p, plan, run, sound, g3) ==
  /\ pc[p] = "ASSESSING"
  /\ Readable
  /\ plan \in AcceptedPlans(journal)
  /\ pc' = [pc EXCEPT ![p] = "IDLE"]
  /\ verdict' = [verdict EXCEPT ![p] =
        <<[plan |-> plan, state |-> Eligibility(journal, plan, run, sound, g3),
           seen |-> journal, accepted |-> checkpoint[p]]>>]
  /\ UNCHANGED <<journal, temporary, trusted, checkpoint, pending, sequence,
                 restores, crashes>>

\* The second read found a temporary file, or the plan is not accepted.
AssessRaises(p) ==
  /\ pc[p] = "ASSESSING"
  /\ ~Readable \/ AcceptedPlans(journal) # Plans
  /\ pc' = [pc EXCEPT ![p] = "IDLE"]
  /\ UNCHANGED <<journal, temporary, trusted, checkpoint, pending, sequence,
                 verdict, restores, crashes>>

-----------------------------------------------------------------------------
\* Faults.

\* The process dies: what is on disk stays, the temporary file included.
Crash(p) ==
  /\ crashes < MaxCrashes
  /\ pc[p] # "IDLE"
  /\ Return(p)
  /\ checkpoint' = [checkpoint EXCEPT ![p] = {}]
  /\ verdict' = [verdict EXCEPT ![p] = <<>>]
  /\ crashes' = crashes + 1
  /\ UNCHANGED <<journal, temporary, trusted, restores>>

\* An operator removes the file of a process that is gone.
RemoveStray(p) ==
  /\ p \in temporary
  /\ pc[p] \notin {"WRITTEN", "LINKED"}
  /\ temporary' = temporary \ {p}
  /\ UNCHANGED <<journal, trusted, checkpoint, pc, pending, sequence, verdict,
                 restores, crashes>>

\* The directory is restored from an older copy while no call is running.
RestoreOlder ==
  /\ restores < MaxRestores
  /\ Readable
  /\ \A p \in Callers : pc[p] = "IDLE"
  /\ \E n \in 0..(Len(journal) - 1) : journal' = SubSeq(journal, 1, n)
  /\ restores' = restores + 1
  /\ verdict' = [p \in Callers |-> <<>>]
  /\ UNCHANGED <<temporary, trusted, checkpoint, pc, pending, sequence, crashes>>

Govern(p) ==
  \/ \E plan \in Plans :
       \/ AcceptPlan(p, plan)
       \/ \E run \in Runs :
            \/ Admit(p, plan, run)
            \/ \E t \in {"RUNNING", "COMPLETED", "FAILED", "INTERRUPTED"} :
                 Transition(p, plan, run, t)
            \/ \E sound, g3 \in BOOLEAN : Conclude(p, plan, run, sound, g3)
       \/ \E q \in Requests, qualified \in BOOLEAN :
            RequestHoldout(p, plan, q, qualified)
       \/ \E i \in DOMAIN journal : ConsumeHoldout(p, plan, i)
       \/ \E mark \in Marks : RecordContamination(p, plan, mark)
  \/ \E c \in {{}} \cup {{x} : x \in trusted} : Open(p, c)
  \/ Assess(p)
  \/ AssessRaises(p)

AppendSteps(p) == Prepare(p) \/ WriteTemporary(p) \/ Link(p) \/ Unlink(p)

Next ==
  \/ \E p \in Callers : Govern(p) \/ AppendSteps(p) \/ Crash(p) \/ RemoveStray(p)
  \/ EstablishCheckpoint
  \/ RestoreOlder

Spec == Init /\ [][Next]_govVars

-----------------------------------------------------------------------------
(* Properties.                                                              *)

\* The published history is one recover() accepts, whatever two writers and a
\* crash in the middle of an append do: identities are unique, no trial is
\* admitted twice, no exposure is consumed twice (_append validates before it
\* publishes and os.link publishes a sequence number once).
HistoryRecoverable == Recoverable(journal)

\* A trial the governor admitted passes the executor's gate once the history is
\* checkpointed: the admissions of its lineage are within the plan's budget
\* (admit, require_admitted).
AdmittedPassesGate ==
  \A run \in Runs :
     TrialState(journal, run) = "ADMITTED"
        => \A a \in ToSet(AdmissionOf(journal, run)) :
              journal \in trusted
                 => RequireAdmitted(journal, {journal}, a.plan, run)

\* One exposure of the protected partition is authorized per plan
\* (request_holdout).
OneExposure ==
  \A plan \in Plans :
     Cardinality({i \in DOMAIN journal : /\ journal[i].kind = "HOLDOUT_AUTHORIZED"
                                         /\ journal[i].plan = plan}) <= 1

\* An assessment other than ineligible rests on exactly the history an accepted
\* checkpoint covers, never on a tail or on a restored directory
\* (assess_evidence).
VerdictCheckpointed ==
  \A p \in Callers : \A v \in ToSet(verdict[p]) :
     v.state # "INELIGIBLE_EVIDENCE" => v.accepted = {v.seen}

\* Confirmatory evidence names a plan whose lineage spent exactly one
\* authorized exposure, after which nothing was rejected or retuned
\* (assess_evidence).
ConfirmedOnCleanHoldout ==
  \A p \in Callers : \A v \in ToSet(verdict[p]) :
     v.state = "ELIGIBLE_CONFIRMATORY_EVIDENCE" =>
        LET lineage == PlanEvents(v.seen, v.plan)
        IN /\ Len(EventsOf(lineage, "HOLDOUT_AUTHORIZED")) = 1
           /\ \A e \in ToSet(lineage) :
                 e.kind \notin {"HOLDOUT_REJECTED", "CONTAMINATION_RECORDED"}

\* Evidence is earned under the plan: the history is one recover() accepts, an
\* admitted trial is within its budget, one exposure is authorized per plan,
\* and confirmatory evidence rests on a clean one.
EvidenceEarned ==
  /\ HistoryRecoverable /\ AdmittedPassesGate
  /\ OneExposure /\ ConfirmedOnCleanHoldout

=============================================================================
