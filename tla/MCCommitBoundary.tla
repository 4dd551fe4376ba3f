-------------------- MODULE MCCommitBoundary --------------------
(***************************************************************************)
(* The commit boundary: the serializable envelope, the protected schema    *)
(* and the publisher of restrictions.  A behaviour is of one scenario, an  *)
(* instance of one component; the others stay as they are.  The envelope's *)
(* properties need no scenario: while it does not move they hold.          *)
(***************************************************************************)
EXTENDS SerializableEnvelope, TLC

CONSTANTS
  a1, a2, c1, c3, d1, d2, o1, p1, p2, r1, r2, ry, s1, x1, x2, None, opX, opY,
  restrictA, restrictB, rx1, rx2, spend
CONSTANTS
  Replays, TicketOf

VARIABLES
  policy, revoked, attestation, consumed, lapsed, evidence, stale, request, pending,
  effective, admitted,
  known, barrier, publication, place, job, sent, acked,
  scenario  \* the instance this behaviour is of

schemaVars == <<policy, revoked, attestation, consumed, lapsed, evidence, stale,
                request, pending, effective, admitted>>
publisherVars == <<known, barrier, publication, place, job, sent, acked>>
mcVars == <<vars, schemaVars, publisherVars, scenario>>

\* Two calls of the envelope reuse an identity with different content
SameOp == [c \in Calls |-> o1]
OtherDigest == [c \in Calls |-> IF c = c3 THEN d2 ELSE d1]

\* Restrictions and an admission of one scope
RestrictScope == [o \in {restrictA, restrictB} |-> s1]
SpendScope == [o \in {restrictA, spend} |-> s1]
ServesOne == [s \in {s1} |-> {x1}]
ServesTwo == [s \in {s1} |-> {x1, x2}]

\* Two receipts of one operation with different tickets (a restriction issued
\* twice) and one of another operation, all of one scope
ReceiptOp == rx1 :> opX @@ rx2 :> opX @@ ry :> opY
ReceiptScope == [r \in {rx1, rx2, ry} |-> s1]
ReceiptTicket == rx1 :> 2 @@ rx2 :> 1 @@ ry :> 3

-----------------------------------------------------------------------------
Restrictions == INSTANCE ProtectedSchema WITH
  Contexts <- {x1}, Scopes <- {s1}, Serves <- ServesOne,
  Ops <- {restrictA, restrictB}, ScopeOf <- RestrictScope,
  Restricting <- {restrictA, restrictB}, Attempts <- {a1, a2}, Tickets <- {1, 2},
  Versions <- {1}

PolicyChanges == INSTANCE ProtectedSchema WITH
  Contexts <- {x1, x2}, Scopes <- {s1}, Serves <- ServesTwo,
  Ops <- {restrictA, spend}, ScopeOf <- SpendScope, Restricting <- {restrictA},
  Attempts <- {a1}, Tickets <- {1}, Versions <- {1, 2, 3}

Reissued == INSTANCE RestrictionPublisher WITH
  Publishers <- {p1, p2}, Receipts <- {rx1, rx2}, Ops <- {opX}, Scopes <- {s1},
  OpOf <- ReceiptOp, ScopeOf <- ReceiptScope, row <- publication, pc <- place

Publications == INSTANCE RestrictionPublisher WITH
  Publishers <- {p1}, Receipts <- {rx1, rx2, ry}, Ops <- {opX, opY}, Scopes <- {s1},
  OpOf <- ReceiptOp, ScopeOf <- ReceiptScope, row <- publication, pc <- place

MCInit ==
  \/ scenario = "envelope" /\ Init /\ Restrictions!Init /\ Reissued!Init
  \/ scenario = "restrictions" /\ Restrictions!Init /\ Init /\ Reissued!Init
  \/ scenario = "policy" /\ PolicyChanges!Init /\ Init /\ Reissued!Init
  \/ scenario = "reissued" /\ Reissued!Init /\ Init /\ Restrictions!Init
  \/ scenario = "publications" /\ Publications!Init /\ Init /\ Restrictions!Init

MCNext ==
  \/ scenario = "envelope" /\ Next /\ UNCHANGED <<schemaVars, publisherVars, scenario>>
  \/ scenario = "restrictions" /\ Restrictions!Next /\ UNCHANGED <<vars, publisherVars, scenario>>
  \/ scenario = "policy" /\ PolicyChanges!Next /\ UNCHANGED <<vars, publisherVars, scenario>>
  \/ scenario = "reissued" /\ Reissued!Next /\ UNCHANGED <<vars, schemaVars, scenario>>
  \/ scenario = "publications" /\ Publications!Next /\ UNCHANGED <<vars, schemaVars, scenario>>
  \/ scenario \in {"envelope", "restrictions", "policy"} /\ UNCHANGED mcVars  \* these may stop

MCSpec == MCInit /\ [][MCNext]_mcVars

Symmetry == {f @@ g @@ h : f \in Permutations({p1, p2}), g \in Permutations({r1, r2}),
                          h \in Permutations({a1, a2})}

-----------------------------------------------------------------------------
\* The tables of scope_control agree with one another after any sequence of
\* calls: pending and effective cutovers with the restrictions behind them,
\* restrictions with the attestations they consumed, admissions with the
\* cutover they saw, and the active policy with the revoked contexts.
SchemaConsistent ==
  /\ scenario = "restrictions" => Restrictions!SchemaConsistent
  /\ scenario = "policy" => PolicyChanges!SchemaConsistent

\* The barrier is exactly as wide as the publications behind it: what was
\* acknowledged to a publisher is in force, and nothing else is.
BarrierTruthful ==
  /\ scenario = "reissued" => Reissued!BarrierTruthful
  /\ scenario = "publications" => Publications!BarrierTruthful

\* An attestation that was overtaken is never admitted again: neither versions
\* nor cutovers return to an earlier value.
OvertakenStaysOut == [][scenario = "policy" => PolicyChanges!OvertakenStaysOutStep]_mcVars
=============================================================================
