------------------------ MODULE RestrictionPublisher ------------------------
(***************************************************************************)
(* ProtectedRestrictionPublisherAdapter over restriction_publication and   *)
(* scope_barrier.  Publishers (and recovery) share the database; a commit  *)
(* may be acknowledged, refused or lost, the server decides a commit it    *)
(* was sent in its own time, and a publisher may die anywhere.             *)
(***************************************************************************)
EXTENDS Integers

CONSTANTS
  Publishers,  \* adapters, each with its own connection
  Receipts,    \* RestrictionReceiptV1
  Ops,         \* operation identities
  Scopes,
  OpOf, ScopeOf, TicketOf,   \* fields of a receipt
  None         \* SQL NULL, or no such row

TerminalStates == {"EFFECTIVE_DENY", "RECONCILIATION_REQUIRED", "TERMINAL_DENIED"}
RestrictionStates == TerminalStates \cup {"PENDING_DENY"}
EffectiveStates == {"EFFECTIVE_DENY", "TERMINAL_DENIED"}

\* A receipt has one operation, one scope and one ticket; None is neither a number
\* nor a receipt.

VARIABLES
  known,     \* scopes with a row in scope_barrier
  barrier,   \* scope_barrier: pending and effective ticket
  row,       \* restriction_publication: the receipt it was made from, its state
  pc, job,   \* where each publisher is, and for which receipt and state
  sent,      \* publishers with a commit the server has not decided yet
  acked      \* receipts for which some status, or an effective one, was returned

vars == <<known, barrier, row, pc, job, sent, acked>>

Job == [receipt : Receipts, state : RestrictionStates]
NoRow == [receipt |-> None, state |-> "none"]

Least(cutover, ticket) == IF cutover = None \/ ticket < cutover THEN ticket ELSE cutover

Init ==
  /\ known = {}
  /\ barrier = [s \in Scopes |-> [pending |-> None, effective |-> None]]
  /\ row = [o \in Ops |-> NoRow]
  /\ pc = [p \in Publishers |-> "idle"]
  /\ job = [p \in Publishers |-> NoRow]
  /\ sent = {}
  /\ acked = [returned |-> {}, effective |-> {}]

Return(j) ==
  acked' = [returned |-> acked.returned \cup {j.receipt},
            effective |-> acked.effective
                            \cup (IF j.state \in EffectiveStates THEN {j.receipt} ELSE {})]

\* register_scope_envelope_v1 adds a barrier for each scope it names, ON
\* CONFLICT DO NOTHING.
RegisterScope(s) ==
  /\ known' = known \cup {s}
  /\ UNCHANGED <<barrier, row, pc, job, sent, acked>>

\* begin_restriction_v2 and finalize_restriction_v2: when they do not raise.
Accepts(j) ==
  IF j.state = "PENDING_DENY"
  THEN ScopeOf[j.receipt] \in known /\ row[OpOf[j.receipt]] = NoRow
  ELSE row[OpOf[j.receipt]] # NoRow

\* The receipt whose scope and ticket count: finalising goes by the row.
Source(j) == IF j.state = "PENDING_DENY" THEN j.receipt ELSE row[OpOf[j.receipt]].receipt

\* What they do: the ticket joins the pending barrier when published and the
\* effective one when finalised; neither is ever taken back.
Apply(j) ==
  LET r == Source(j) s == ScopeOf[r] t == TicketOf[r] IN
  /\ row' = [row EXCEPT ![OpOf[r]] = [receipt |-> r, state |-> j.state]]
  /\ barrier' = [barrier EXCEPT
       ![s].pending = IF j.state = "PENDING_DENY" THEN Least(@, t) ELSE @,
       ![s].effective = IF j.state \in EffectiveStates THEN Least(@, t) ELSE @]

\* Nothing is left of a call that ended, except a commit it may have sent.
Goto(p, place) ==
  /\ pc' = [pc EXCEPT ![p] = place]
  /\ job' = [job EXCEPT ![p] = IF place = "idle" /\ p \notin sent' THEN NoRow ELSE @]

\* publish_pending or finalize_restriction is called.  A connection with an
\* undecided commit serves no other transaction.
Call(p, j) ==
  /\ pc[p] = "idle" /\ p \notin sent
  /\ pc' = [pc EXCEPT ![p] = "transaction"]
  /\ job' = [job EXCEPT ![p] = j]
  /\ UNCHANGED <<known, barrier, row, sent, acked>>

\* The function ran; the commit is under way.
SendCommit(p) ==
  /\ pc[p] = "transaction"
  /\ Accepts(job[p])
  /\ sent' = sent \cup {p}
  /\ Goto(p, "committing")
  /\ UNCHANGED <<known, barrier, row, acked>>

\* The function raised, or the connection failed before the commit.
Refused(p) ==
  /\ pc[p] = "transaction"
  /\ UNCHANGED <<known, barrier, row, sent, acked>>
  /\ Goto(p, "rollback")

\* The server commits a transaction whose reads still hold, or aborts it.
ServerCommits(p) ==
  /\ p \in sent
  /\ Accepts(job[p])
  /\ Apply(job[p])
  /\ sent' = sent \ {p}
  /\ Goto(p, IF pc[p] = "committing" THEN "committed" ELSE pc[p])
  /\ UNCHANGED <<known, acked>>

ServerAborts(p) ==
  /\ p \in sent
  /\ sent' = sent \ {p}
  /\ Goto(p, IF pc[p] = "committing" THEN "rollback" ELSE pc[p])
  /\ UNCHANGED <<known, barrier, row, acked>>

\* commit() returned.
Acknowledged(p) ==
  /\ pc[p] = "committed"
  /\ UNCHANGED <<known, barrier, row, sent, acked>>
  /\ Goto(p, "read")

\* commit() raised although the server has committed, or may still.
AcknowledgementLost(p) ==
  /\ pc[p] \in {"committing", "committed"}
  /\ UNCHANGED <<known, barrier, row, sent, acked>>
  /\ Goto(p, "rollback")

\* rollback() of the handler, which raises on a dead connection.
Rollback(p) ==
  /\ pc[p] = "rollback"
  /\ UNCHANGED <<known, barrier, row, sent, acked>>
  /\ Goto(p, "read") \/ Goto(p, "idle")

\* Mutation: the row read back is not compared with the receipt.
ReadStatus_AnyContext(p) ==
  LET j == job[p] found == row[OpOf[j.receipt]] IN
  /\ pc[p] = "read"
  /\ UNCHANGED <<known, barrier, row, sent>>
  /\ Goto(p, "idle")
  /\ IF found # NoRow /\ found.state = j.state THEN Return(j) ELSE UNCHANGED acked

\* read_restriction_status: the row of this very receipt, in the state asked
\* for, or PublicationError.
ReadStatus(p) ==
  LET j == job[p] IN
  /\ pc[p] = "read"
  /\ UNCHANGED <<known, barrier, row, sent>>
  /\ Goto(p, "idle")
  /\ IF row[OpOf[j.receipt]] = j THEN Return(j) ELSE UNCHANGED acked

\* recover_publication: whatever is durable for the receipt.
RecoverPublication(p, r) ==
  /\ pc[p] = "idle"
  /\ row[OpOf[r]].receipt = r
  /\ Return(row[OpOf[r]])
  /\ UNCHANGED <<known, barrier, row, pc, job, sent>>

\* The publisher dies; a commit it sent stays with the server.
Crash(p) ==
  /\ pc[p] # "idle"
  /\ UNCHANGED <<known, barrier, row, sent, acked>>
  /\ Goto(p, "idle")

Next ==
  \/ \E s \in Scopes : RegisterScope(s)
  \/ \E p \in Publishers :
       \/ \E j \in Job : Call(p, j)
       \/ SendCommit(p) \/ ServerCommits(p) \/ ServerAborts(p) \/ Refused(p) \/ Acknowledged(p) \/ AcknowledgementLost(p)
       \/ Rollback(p) \/ ReadStatus(p) \/ Crash(p)
       \/ \E r \in Receipts : RecoverPublication(p, r)

Spec == Init /\ [][Next]_vars

-----------------------------------------------------------------------------
Places == {"idle", "transaction", "committing", "committed", "rollback", "read"}

\* Every variable has its type, and a row belongs to its operation.
TypeOK ==
  /\ known \subseteq Scopes
  /\ barrier \in [Scopes -> [pending : Nat \cup {None}, effective : Nat \cup {None}]]
  /\ row \in [Ops -> Job \cup {NoRow}]
  /\ \A o \in Ops : row[o] # NoRow => OpOf[row[o].receipt] = o
  /\ pc \in [Publishers -> Places]
  /\ job \in [Publishers -> Job \cup {NoRow}]
  /\ sent \subseteq Publishers
  /\ acked \in [returned : SUBSET Receipts, effective : SUBSET Receipts]
  /\ \A p \in Publishers : pc[p] # "idle" \/ p \in sent => job[p] # NoRow

InForce(ticket, cutover) == cutover # None /\ cutover <= ticket

\* A status once returned is in force for ever, whatever other publishers,
\* late commits and crashes do: the scope stays barred from the ticket of the
\* receipt on, and effectively so if that is what was returned.
AcknowledgedInForce ==
  /\ \A r \in acked.returned : InForce(TicketOf[r], barrier[ScopeOf[r]].pending)
  /\ \A r \in acked.effective : InForce(TicketOf[r], barrier[ScopeOf[r]].effective)

\* A barrier is never wider than what was published: it stands at the ticket
\* of a durable publication in its scope.
BarrierJustified ==
  \A s \in Scopes : \A t \in {barrier[s].pending, barrier[s].effective} \ {None} :
    \E o \in Ops : /\ row[o] # NoRow
                   /\ ScopeOf[row[o].receipt] = s
                   /\ TicketOf[row[o].receipt] = t

\* The barrier is exactly as wide as the publications behind it: what was
\* acknowledged to a publisher is in force, and nothing else is.
BarrierTruthful == AcknowledgedInForce /\ BarrierJustified

=============================================================================
