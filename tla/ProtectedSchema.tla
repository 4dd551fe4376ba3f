--------------------------- MODULE ProtectedSchema ---------------------------
(***************************************************************************)
(* The protected schema atis_soe behind the commit boundary: the identity  *)
(* policy, G00 attestations and attempt evidence, restriction requests and *)
(* the cutovers of scope_control.  Every function requires a SERIALIZABLE  *)
(* transaction and takes row locks, so each is one step here; a function   *)
(* that raises rolls back and is no step.                                  *)
(***************************************************************************)
EXTENDS Integers, FiniteSets

CONSTANTS
  Contexts,   \* issuer, deployment, recipient, authority, generation, epoch
  Scopes,
  Serves,     \* [Scopes -> SUBSET Contexts]: generation and epoch agree
  Ops,        \* operations with their immutable request content
  ScopeOf,    \* [Ops -> Scopes]
  Restricting,\* operations of request type RESTRICTION
  Replays,    \* replay identities of attestations
  Attempts,   \* attempt identities of evidence
  Tickets,    \* ticket sequences, a set of naturals
  Versions,   \* policy versions, a set of naturals
  None        \* SQL NULL, or no such row

RestrictionStates == {"PENDING", "EFFECTIVE", "RECONCILIATION_REQUIRED", "TERMINAL_DENIED"}
TerminalStates == RestrictionStates \ {"PENDING"}
OpenStates == {"PENDING", "RECONCILIATION_REQUIRED"}

\* Tickets and policy versions are numbers, an operation has one scope, and None is
\* no number.

VARIABLES
  policy,       \* the ACTIVE row of identity_policy
  revoked,      \* revoked_identity_context
  attestation,  \* g00_attestation
  consumed,     \* attestations with consumed = true
  lapsed,       \* attestations past valid_until
  evidence,     \* attempt_evidence
  stale,        \* evidence past the ages of its policy
  request,      \* restriction_request
  pending,      \* scope_control.pending_cutover
  effective,    \* scope_control.effective_cutover
  admitted      \* what assert_admission_attestation has accepted so far

vars == <<policy, revoked, attestation, consumed, lapsed, evidence, stale,
          request, pending, effective, admitted>>
control == <<request, pending, effective>>

Policy == [version : Versions \cup {0}, ctx : Contexts, revoked : BOOLEAN]
Attestation == [op : Ops, ticket : Tickets, observed : Tickets \cup {None},
                version : Versions, ctx : Contexts]
Evidence == [op : Ops, version : Versions, ctx : Contexts]
Request == [replay : Replays, ticket : Tickets, state : RestrictionStates]

\* COALESCE and LEAST of the cutover columns.
Least(cutover, ticket) == IF cutover = None \/ ticket < cutover THEN ticket ELSE cutover

\* min() over the open requests of a scope; NULL when there is none.
LeastOpen(requests, s) ==
  LET open == {requests[o].ticket : o \in {o \in Ops : /\ requests[o] # None
                                                       /\ ScopeOf[o] = s
                                                       /\ requests[o].state \in OpenStates}}
  IN  IF open = {} THEN None ELSE CHOOSE t \in open : \A u \in open : t <= u

\* Version 0: no policy has been installed.
Init ==
  /\ \E ctx \in Contexts : policy = [version |-> 0, ctx |-> ctx, revoked |-> TRUE]
  /\ revoked = {}
  /\ attestation = [r \in Replays |-> None]
  /\ consumed = {}
  /\ lapsed = {}
  /\ evidence = [a \in Attempts |-> None]
  /\ stale = {}
  /\ request = [o \in Ops |-> None]
  /\ pending = [s \in Scopes |-> None]
  /\ effective = [s \in Scopes |-> None]
  /\ admitted = {}

TransitionIdentityPolicy(v, ctx, revoke) ==
  /\ v > policy.version
  /\ ~revoke => ctx \notin revoked
  /\ policy' = [version |-> v, ctx |-> ctx, revoked |-> revoke]
  /\ revoked' = revoked \cup (IF revoke THEN {ctx} ELSE {})
  /\ UNCHANGED <<attestation, consumed, lapsed, evidence, stale, control, admitted>>

\* Mutation: only the context of the policy is compared.
Current_AnyVersion(x) == ~policy.revoked /\ policy.ctx = x.ctx

\* The active policy is the one a row was registered under.
Current(x) == ~policy.revoked /\ policy.version = x.version /\ policy.ctx = x.ctx

\* register_verified_evidence: both rows in one transaction.  ON CONFLICT DO
\* NOTHING, then an exact comparison: a row never changes once registered.
RegisterVerifiedEvidence(r, a, x, e) ==
  /\ r \notin lapsed /\ a \notin stale
  /\ Current(x) /\ Current(e)
  /\ x.op = e.op
  /\ attestation[r] \in {None, x}
  /\ evidence[a] \in {None, e}
  /\ attestation' = [attestation EXCEPT ![r] = x]
  /\ evidence' = [evidence EXCEPT ![a] = e]
  /\ UNCHANGED <<policy, revoked, consumed, lapsed, stale, control, admitted>>

\* clock_timestamp() passes valid_until, or an issue time its maximal age.
Lapse(r) ==
  /\ attestation[r] # None
  /\ lapsed' = lapsed \cup {r}
  /\ UNCHANGED <<policy, revoked, attestation, consumed, evidence, stale, control, admitted>>

Age(a) ==
  /\ evidence[a] # None
  /\ stale' = stale \cup {a}
  /\ UNCHANGED <<policy, revoked, attestation, consumed, lapsed, evidence, control, admitted>>

\* What begin_restriction and assert_admission_attestation require alike.
Usable(r) ==
  /\ attestation[r] # None
  /\ r \notin consumed /\ r \notin lapsed
  /\ Current(attestation[r])

\* The scope serves the context, and the attestation saw its present cutover.
Observes(r) ==
  LET s == ScopeOf[attestation[r].op]
  IN  /\ attestation[r].ctx \in Serves[s]
      /\ attestation[r].observed = effective[s]

\* verify_attempt: the admission check of one attempt.
AssertAdmissionAttestation(r, a) ==
  /\ Usable(r)
  /\ evidence[a] # None
  /\ a \notin stale
  /\ Current(evidence[a])
  /\ evidence[a].op = attestation[r].op
  /\ Observes(r)
  /\ admitted' = admitted \cup {[replay |-> r, saw |-> effective[ScopeOf[attestation[r].op]]]}
  /\ UNCHANGED <<policy, revoked, attestation, consumed, lapsed, evidence, stale, control>>

BeginRestriction(r) ==
  LET x == attestation[r] s == ScopeOf[x.op] IN
  /\ Usable(r) /\ Observes(r)
  /\ x.op \in Restricting
  /\ request[x.op] = None
  /\ request' = [request EXCEPT ![x.op] = [replay |-> r, ticket |-> x.ticket, state |-> "PENDING"]]
  /\ consumed' = consumed \cup {r}
  /\ pending' = [pending EXCEPT ![s] = Least(@, x.ticket)]
  /\ UNCHANGED <<policy, revoked, attestation, lapsed, evidence, stale, effective, admitted>>

\* Mutation: pending_cutover is cleared instead of recomputed.
FinalizeRestriction_ClearsPending(o, state) ==
  LET q == request[o] s == ScopeOf[o] IN
  /\ state \in TerminalStates
  /\ q # None
  /\ request' = [request EXCEPT ![o].state = state]
  /\ effective' = [effective EXCEPT ![s] = IF state \in OpenStates THEN @ ELSE Least(@, q.ticket)]
  /\ pending' = [pending EXCEPT ![s] = IF state \in OpenStates THEN @ ELSE None]
  /\ UNCHANGED <<policy, revoked, attestation, consumed, lapsed, evidence, stale, admitted>>

\* The earlier state of the request does not matter: a terminal one may become
\* RECONCILIATION_REQUIRED again.
FinalizeRestriction(o, state) ==
  LET q == request[o] s == ScopeOf[o] IN
  /\ state \in TerminalStates
  /\ q # None
  /\ request' = [request EXCEPT ![o].state = state]
  /\ effective' = [effective EXCEPT ![s] = IF state \in OpenStates THEN @ ELSE Least(@, q.ticket)]
  /\ pending' = [pending EXCEPT ![s] = LeastOpen(request', s)]
  /\ UNCHANGED <<policy, revoked, attestation, consumed, lapsed, evidence, stale, admitted>>

Next ==
  \/ \E v \in Versions, ctx \in Contexts, revoke \in BOOLEAN :
       TransitionIdentityPolicy(v, ctx, revoke)
  \/ \E r \in Replays, a \in Attempts, x \in Attestation, e \in Evidence :
       RegisterVerifiedEvidence(r, a, x, e)
  \/ \E r \in Replays : Lapse(r) \/ BeginRestriction(r)
  \/ \E a \in Attempts : Age(a)
  \/ \E r \in Replays, a \in Attempts : AssertAdmissionAttestation(r, a)
  \/ \E o \in Ops, state \in RestrictionStates \cup {"COMMITTED"} : FinalizeRestriction(o, state)

Spec == Init /\ [][Next]_vars

-----------------------------------------------------------------------------
Cutover == Tickets \cup {None}

\* Every row satisfies the types and CHECK constraints of its table.
TypeOK ==
  /\ policy \in Policy
  /\ revoked \subseteq Contexts
  /\ attestation \in [Replays -> Attestation \cup {None}]
  /\ consumed \subseteq Replays /\ lapsed \subseteq Replays
  /\ evidence \in [Attempts -> Evidence \cup {None}]
  /\ stale \subseteq Attempts
  /\ request \in [Ops -> Request \cup {None}]
  /\ pending \in [Scopes -> Cutover] /\ effective \in [Scopes -> Cutover]
  /\ admitted \subseteq [replay : Replays, saw : Cutover]

\* pending_cutover, kept by LEAST when a restriction begins and recomputed
\* when one is finalised, is always the earliest open restriction of its scope.
PendingIsLeastOpen == \A s \in Scopes : pending[s] = LeastOpen(request, s)

\* A restriction that was finalised stays in force: effective_cutover is at or
\* before its ticket.
EffectiveCovers ==
  \A o \in Ops : request[o] # None /\ request[o].state \notin OpenStates =>
    effective[ScopeOf[o]] # None /\ effective[ScopeOf[o]] <= request[o].ticket

\* An attestation backs one restriction, and is consumed exactly then.
ConsumedOnce ==
  /\ \A o, p \in Ops : request[o] # None /\ request[p] # None /\ o # p
       => request[o].replay # request[p].replay
  /\ \A r \in Replays : r \in consumed <=> \E o \in Ops : request[o] # None /\ request[o].replay = r

\* A revoked identity context is never active again.
RevokedStaysRevoked == ~policy.revoked => policy.ctx \notin revoked

\* All admissions on one attestation saw one and the same effective cutover:
\* none slipped in before or after a restriction it did not know of.
AdmissionsAgree == \A x, y \in admitted : x.replay = y.replay => x.saw = y.saw

\* A later policy or an earlier cutover has overtaken the attestation.
Overtaken(r) ==
  /\ attestation[r] # None
  /\ \/ policy.version > attestation[r].version
     \/ LET cut == effective[ScopeOf[attestation[r].op]]
        IN  cut # None /\ (attestation[r].observed = None \/ cut < attestation[r].observed)

OvertakenStaysOutStep ==
  \A r \in Replays : Overtaken(r) => /\ ~(Usable(r) /\ Observes(r))
                                     /\ Overtaken(r)' /\ ~(Usable(r) /\ Observes(r))'

\* An attestation that was overtaken is never admitted again: neither versions
\* nor cutovers return to an earlier value.
OvertakenStaysOut == [][OvertakenStaysOutStep]_vars

\* The tables of scope_control agree with one another after any sequence of
\* calls: pending and effective cutovers with the restrictions behind them,
\* restrictions with the attestations they consumed, admissions with the
\* cutover they saw, and the active policy with the revoked contexts.
SchemaConsistent ==
  /\ PendingIsLeastOpen /\ EffectiveCovers
  /\ ConsumedOnce /\ AdmissionsAgree /\ RevokedStaysRevoked

=============================================================================
