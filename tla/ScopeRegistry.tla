----------------------------- MODULE ScopeRegistry -----------------------------
(* The scope registry in PostgreSQL: the catalogue of identities, relations   *)
(* and rules advanced by PREPARE and ACTIVATE transitions, the barriers and    *)
(* reservations that cover it, and the registration of operations against the  *)
(* active catalogue.  Every command runs in one SERIALIZABLE transaction that  *)
(* first locks the deployment and catalogue rows, so a command is one step;    *)
(* a caller that lost the acknowledgement sends the same bytes again.          *)
(*                                                                            *)
(* A digest is the value it is taken of.  Absent values are <<>>.             *)
EXTENDS Integers, FiniteSets

CONSTANTS
    ChangeSets,     \* the change sets registry actors sign
    Tids, Nonces,   \* transition ids and nonces
    Windows,        \* validity intervals of signed commands and envelopes
    Issuers,        \* the required issuer domains (a protected table)
    Operations,     \* operation ids that get registered
    Classes,        \* operation classes
    Leaves,         \* leaf sets an envelope may carry
    MaxEpoch, MaxTime, MaxRevoked

Supported == {"GLOBAL", "ACCOUNT", "PORTFOLIO", "OPERATION"}
Capabilities == {"ACCOUNT", "PORTFOLIO", "SCOPE", "REGISTRY_TRANSITION"}

\* The provenance epochs of the identities in a change set start at 1.

VARIABLES
    epoch,      \* scope_catalogue_state.catalogue_epoch
    prepared,   \* prepared_transition_id: <<>> or <<tid>>
    active,     \* last_activation_digest: <<>> or <<command>>
    ledger,     \* registry_transition_command, with its nonce and history rows
    idents,     \* scope_identity rows
    links,      \* scope_relation rows
    rules,      \* operation_class_rule rows
    barriers,   \* scope_barrier: (identity, issuer) -> lifecycle, reserving tid
    reserved,   \* scope_reservation rows
    opids,      \* u3_operation_identity rows, with nonce and PREPARE history
    opregs,     \* u3_scope_registration rows, with members and REGISTER history
    now,        \* the database clock
    revoked     \* capabilities whose key policy was revoked

catalogue == <<idents, links, rules, barriers, reserved>>
opstate == <<opids, opregs>>
vars == <<epoch, prepared, active, ledger, catalogue, opstate, now, revoked>>

Init ==
    /\ epoch = 1 /\ prepared = <<>> /\ active = <<>> /\ ledger = {}
    /\ idents = {} /\ links = {} /\ rules = {}
    /\ barriers = <<>> /\ reserved = {}
    /\ opids = {} /\ opregs = {}
    /\ now = 0 /\ revoked = {}

-----------------------------------------------------------------------------
(* Signatures: a policy in force and a reading of the clock in the window.   *)

Valid(capability, win) ==
    capability \notin revoked /\ win[1] <= now /\ now < win[2]

Authentic(c) == Valid("REGISTRY_TRANSITION", c.win)

-----------------------------------------------------------------------------
(* Change sets: [ids, rels, rules].  An identity entry is its record with the *)
(* assertion that came with it; the record alone is the digest.               *)

Ids(cs) == {e.id : e \in cs.ids}
Parents(cs, d) == {r.parent : r \in {x \in cs.rels : x.child = d}}

\* The closure of a node; a relation chain has at most as many steps as there
\* are identities.
Closure(cs, d) ==
    LET reach[n \in 0 .. Cardinality(cs.ids)] ==
          IF n = 0 THEN {d}
          ELSE reach[n - 1] \cup UNION {Parents(cs, x) : x \in reach[n - 1]}
    IN reach[Cardinality(cs.ids)]

\* An assertion accompanies accounts and portfolios and nothing else.
Asserted(e) ==
    IF e.id.dim \in {"ACCOUNT", "PORTFOLIO"} THEN Valid(e.id.dim, e.win)
    ELSE e.win = <<>>

\* An identity seen before comes back only unchanged and never after it left;
\* another identity of the same value needs a later producer epoch.
NotRolledBack(e) ==
    \A row \in idents :
        row.e.id.dim = e.id.dim /\ row.e.id.value = e.id.value =>
            IF row.e.id = e.id THEN row.gone = 0 /\ row.e = e
            ELSE row.e.id.pe < e.id.pe

RelationAllowed(cs, r) ==
    \E child, parent \in cs.ids :
        /\ child.id = r.child /\ parent.id = r.parent
        /\ \/ /\ r.type = "PORTFOLIO_ACCOUNT"
              /\ child.id.dim = "PORTFOLIO" /\ parent.id.dim = "ACCOUNT"
              /\ child.parent = <<parent.id>>
           \/ /\ r.type = "OPERATION_LEAF"
              /\ child.id.dim = "OPERATION" /\ parent.id.dim = "PORTFOLIO"

DimensionCount(ds, dim) == Cardinality({d \in ds : d.dim = dim})

RulesComplete(cs) ==
    /\ cs.rules # {}
    /\ \A c \in {r.class : r \in cs.rules} :
          LET mine == {r \in cs.rules : r.class = c}
          IN /\ {r.dim : r \in mine} = Supported
             /\ \A d \in Ids(cs), r \in mine :
                   d.dim = "OPERATION" =>
                     LET n == DimensionCount(Closure(cs, d), r.dim)
                              + IF r.dim = "GLOBAL" THEN 1 ELSE 0
                     IN r.min <= n /\ n <= r.max

\* validate: the complete metadata check, repeated by PREPARE, ACTIVATE and
\* every registration.
Validated(cs) ==
    /\ Cardinality(Ids(cs)) = Cardinality(cs.ids)
    /\ \A e \in cs.ids : Asserted(e) /\ NotRolledBack(e)
    /\ Supported \subseteq {d.dim : d \in Ids(cs)}
    /\ DimensionCount(Ids(cs), "GLOBAL") = 1
    /\ \A r \in cs.rels : RelationAllowed(cs, r)
    /\ \A d \in Ids(cs) :
          Cardinality({r \in cs.rels : r.child = d}) =
              IF d.dim \in {"PORTFOLIO", "OPERATION"} THEN 1 ELSE 0
    /\ RulesComplete(cs)

-----------------------------------------------------------------------------
(* What every transaction checks first.                                      *)

Snapshot ==
    [ids |-> {row.e : row \in {x \in idents : x.gone = 0}},
     rels |-> {row.r : row \in {x \in links : x.gone = 0}},
     rules |-> {row.r : row \in {x \in rules : x.gone = 0}}]

\* prefix: the last activation is authenticated again, at the current time,
\* and the tables must hold exactly what it activated.
Prefix ==
    IF epoch > 1
      THEN /\ active # <<>> /\ active[1] \in ledger
           /\ Authentic(active[1])
           /\ active[1].pred + 1 = epoch
           /\ Snapshot = active[1].change
      ELSE Snapshot.ids = {}

Keys(cs) == Ids(cs) \X Issuers
BarrierKeys == DOMAIN barriers

\* Neither the transition and action nor the nonce was used by other bytes.
Fresh(c) ==
    /\ \A x \in ledger : ~(x.tid = c.tid /\ x.action = c.action)
    /\ \A x \in ledger : x.nonce # c.nonce
    /\ c.pred = epoch
    /\ Validated(c.change)

Covering(fun, keys, life, tid) ==
    [k \in DOMAIN fun \cup keys |->
        IF k \in keys THEN [life |-> life, tid |-> tid] ELSE fun[k]]

-----------------------------------------------------------------------------
(* Catalogue transitions.                                                    *)

\* Every identity of the change set gets a reservation, and a RESERVED barrier
\* unless an ACTIVE one stands.
Prepare(c) ==
    /\ c.action = "PREPARE" /\ c.prep = <<>>
    /\ Prefix /\ Authentic(c) /\ Fresh(c)
    /\ prepared = <<>>
    /\ \A k \in Keys(c.change) \cap BarrierKeys : barriers[k].life = "ACTIVE"
    /\ barriers' = Covering(barriers, Keys(c.change) \ BarrierKeys,
                            "RESERVED", c.tid)
    /\ reserved' = reserved \cup
         {[tid |-> c.tid, key |-> k, prep |-> c] : k \in Keys(c.change)}
    /\ prepared' = <<c.tid>>
    /\ ledger' = ledger \cup {c}
    /\ UNCHANGED <<epoch, active, idents, links, rules, opstate, now, revoked>>

\* The activation repeats the preparation's change set and finds exactly the
\* reservations it made.
Bound(c) ==
    /\ c.prep # <<>> /\ c.prep[1] \in ledger
    /\ prepared = <<c.tid>> /\ c.prep[1].tid = c.tid
    /\ Authentic(c.prep[1])
    /\ c.prep[1].change = c.change /\ c.prep[1].pred = c.pred

ReservationsComplete(c) ==
    LET mine == {r \in reserved : r.tid = c.tid}
        live == {k \in BarrierKeys : barriers[k].life \in {"ACTIVE", "RESERVED"}}
    IN /\ {r.key : r \in mine} = Keys(c.change)
       /\ \A k \in live : barriers[k].life = "RESERVED" =>
             k \in Keys(c.change) /\ barriers[k].tid = c.tid
       /\ \A r \in mine : r.key \in live /\ r.prep = c.prep[1]

\* activate_metadata: rows that are not wanted any more end with the new epoch,
\* rows that stay keep their start, and relations and rules are rewritten.
Ended(rows, e) == {IF x.gone = 0 THEN [x EXCEPT !.gone = e] ELSE x : x \in rows}

NewIdents(cs, e) ==
    {IF x.gone = 0 /\ x.e.id \notin Ids(cs) THEN [x EXCEPT !.gone = e] ELSE x :
        x \in idents}
    \cup {[e |-> y, from |-> e, gone |-> 0] :
            y \in {z \in cs.ids : \A x \in idents : x.e.id # z.id}}

Activate_KeepsOld(c) ==
    /\ idents' = idents \cup {[e |-> y, from |-> epoch + 1, gone |-> 0] :
            y \in {z \in c.change.ids : \A x \in idents : x.e.id # z.id}}
    /\ links' = Ended(links, epoch + 1)
         \cup {[r |-> r, from |-> epoch + 1, gone |-> 0] : r \in c.change.rels}
    /\ rules' = Ended(rules, epoch + 1)
         \cup {[r |-> r, from |-> epoch + 1, gone |-> 0] : r \in c.change.rules}

ActivateMetadata(c) ==
    /\ idents' = NewIdents(c.change, epoch + 1)
    /\ links' = Ended(links, epoch + 1)
         \cup {[r |-> r, from |-> epoch + 1, gone |-> 0] : r \in c.change.rels}
    /\ rules' = Ended(rules, epoch + 1)
         \cup {[r |-> r, from |-> epoch + 1, gone |-> 0] : r \in c.change.rules}

\* Every live barrier becomes ACTIVE or, when its identity left, RETIRED.
Turned(c) ==
    [k \in BarrierKeys |->
        IF barriers[k].life = "RETIRED" THEN barriers[k]
        ELSE [barriers[k] EXCEPT !.life =
                IF k \in Keys(c.change) THEN "ACTIVE" ELSE "RETIRED"]]

Activate(c) ==
    /\ c.action = "ACTIVATE"
    /\ Prefix /\ Authentic(c) /\ Fresh(c)
    /\ Bound(c) /\ ReservationsComplete(c)
    /\ ActivateMetadata(c)
    /\ barriers' = Turned(c)
    /\ epoch' = epoch + 1 /\ prepared' = <<>> /\ active' = <<c>>
    /\ ledger' = ledger \cup {c}
    /\ UNCHANGED <<reserved, opstate, now, revoked>>

\* The exact readback: its command is authenticated before it is answered.
Readable(c) == c \in ledger /\ Prefix /\ Authentic(c)

\* A repetition of recorded bytes, or the readback that an uncertain caller
\* is told to use, is answered from the ledger.
Repeat(c) == Readable(c) /\ UNCHANGED vars

-----------------------------------------------------------------------------
(* Operations.  Evidence: [op, epoch, class, leaves, nonce, win]; the core,   *)
(* the envelope and the final request are bound to each other by construction.*)

ClosureOf(op) ==
    LET cs == active[1].change
        mine == {d \in Ids(cs) : d.dim = "OPERATION" /\ d.value = op}
    IN UNION {Closure(cs, d) : d \in mine}
       \cup {d \in Ids(cs) : d.dim = "GLOBAL"}

\* verify_registration against the active catalogue.
Verified_AnyEpoch(ev) ==
    /\ active # <<>>
    /\ \E d \in Ids(active[1].change) : d.dim = "OPERATION" /\ d.value = ev.op
    /\ ev.leaves = ClosureOf(ev.op)
    /\ Valid("SCOPE", ev.win)

Verified(ev) ==
    /\ active # <<>> /\ ev.epoch = epoch
    /\ \E d \in Ids(active[1].change) : d.dim = "OPERATION" /\ d.value = ev.op
    /\ ev.leaves = ClosureOf(ev.op)
    /\ LET mine == {r \in active[1].change.rules : r.class = ev.class}
       IN mine # {} /\ \A r \in mine :
             LET n == DimensionCount(ev.leaves, r.dim) IN r.min <= n /\ n <= r.max
    /\ \A k \in ev.leaves \X Issuers :
          k \in BarrierKeys /\ barriers[k].life = "ACTIVE"
    /\ Validated(active[1].change)
    /\ Valid("SCOPE", ev.win)

PrepareOperation(ev) ==
    /\ Prefix /\ Verified(ev)
    /\ \A x \in opids : x.op # ev.op /\ x.nonce # ev.nonce
    /\ opids' = opids \cup {ev}
    /\ UNCHANGED <<epoch, prepared, active, ledger, catalogue, opregs, now, revoked>>

\* Only an identity prepared with the same bytes in an earlier transaction.
RegisterOperation(ev) ==
    /\ Prefix /\ Verified(ev)
    /\ ev \in opids /\ \A x \in opregs : x.ev # ev
    /\ opregs' = opregs \cup {[ev |-> ev, members |-> ev.leaves]}
    /\ UNCHANGED <<epoch, prepared, active, ledger, catalogue, opids, now, revoked>>

ReadOperation(ev) ==
    /\ Prefix /\ Verified(ev) /\ ev \in opids
    /\ UNCHANGED vars

-----------------------------------------------------------------------------
Tick ==
    /\ now < MaxTime /\ now' = now + 1
    /\ UNCHANGED <<epoch, prepared, active, ledger, catalogue, opstate, revoked>>

\* The owner of the policy table revokes a key.
Revoke(cap) ==
    /\ Cardinality(revoked) < MaxRevoked /\ cap \notin revoked
    /\ revoked' = revoked \cup {cap}
    /\ UNCHANGED <<epoch, prepared, active, ledger, catalogue, opstate, now>>

Command(action, prep, cs, tid, n, w) ==
    [action |-> action, tid |-> tid, pred |-> epoch, change |-> cs,
     prep |-> prep, win |-> w, nonce |-> n]

\* Ids and nonces are only compared, so one unused value stands for them all.
Offered(S, used) ==
    (S \cap used) \cup IF S \subseteq used THEN {} ELSE {CHOOSE x \in S : x \notin used}

Evidence ==
    [op : Operations, epoch : 2 .. MaxEpoch, class : Classes, leaves : Leaves,
     nonce : Offered(Nonces, {x.nonce : x \in opids}), win : Windows]

\* A stale predecessor epoch is refused by Fresh, so callers sign the current
\* one.
Next ==
    \/ /\ epoch < MaxEpoch
       /\ \E tid \in Offered(Tids, {c.tid : c \in ledger}), cs \in ChangeSets,
             n \in Offered(Nonces, {c.nonce : c \in ledger}), w \in Windows :
             \/ Prepare(Command("PREPARE", <<>>, cs, tid, n, w))
             \/ \E p \in ledger :
                   p.action = "PREPARE"
                   /\ Activate(Command("ACTIVATE", <<p>>, cs, tid, n, w))
    \/ \E c \in ledger : Repeat(c)
    \/ \E ev \in Evidence :
          PrepareOperation(ev) \/ RegisterOperation(ev) \/ ReadOperation(ev)
    \/ Tick
    \/ \E cap \in Capabilities : Revoke(cap)

Spec == Init /\ [][Next]_vars

-----------------------------------------------------------------------------
TypeOK ==
    /\ epoch \in 1 .. MaxEpoch /\ now \in 0 .. MaxTime
    /\ prepared = <<>> \/ prepared[1] \in Tids
    /\ \A k \in BarrierKeys : barriers[k].life \in {"RESERVED", "ACTIVE", "RETIRED"}
    /\ \A x \in idents \cup links \cup rules :
          x.gone = 0 \/ (x.from < x.gone /\ x.gone <= epoch)

\* What the next transaction will demand is what the last one wrote: the live
\* identities, relations and rules are the last activation's change set, so
\* prefix() never finds a registry that closed itself (U3_REGISTRY_STATE).
TablesMatchActivation ==
    /\ epoch = 1 => active = <<>> /\ Snapshot.ids = {}
    /\ epoch > 1 => /\ active[1] \in ledger /\ active[1].pred + 1 = epoch
                    /\ Snapshot = active[1].change

\* Every identity of the catalogue is covered by an ACTIVE barrier of every
\* issuer, nothing else is, and a reservation stands only for the transition
\* that is prepared.
BarriersCover ==
    /\ {k \in BarrierKeys : barriers[k].life = "ACTIVE"} =
         {e.id : e \in Snapshot.ids} \X Issuers
    /\ \A k \in BarrierKeys :
          barriers[k].life = "RESERVED" => prepared = <<barriers[k].tid>>

\* An identity that left the catalogue never returns, and the identities that
\* succeed one another under one value have growing producer epochs.
NoIdentityReturnsStep ==
  \A x \in idents, y \in idents' :
    /\ x.gone # 0 /\ y.e.id = x.e.id => y = x
    /\ y \notin idents /\ x.e.id # y.e.id
       /\ x.e.id.dim = y.e.id.dim /\ x.e.id.value = y.e.id.value
       => y.e.id.pe > x.e.id.pe

\* An operation is registered with the bytes of one earlier preparation, in
\* the catalogue epoch of that preparation; no nonce serves two operations.
RegisteredAsPrepared ==
    /\ \A r \in opregs : r.ev \in opids
    /\ \A x, y \in opids : x.op = y.op \/ x.nonce = y.nonce => x = y

\* A registration only lands in the epoch its envelope was signed for: no
\* catalogue transition slips between verification and registration.
RegisteredInEpochStep == \A r \in opregs' \ opregs : r.ev.epoch = epoch /\ epoch' = epoch

\* The registry is bounded by its last activation: once that command lapsed or
\* its key was revoked nothing is prepared, activated or registered any more.
LapsedIsFinalStep ==
  epoch > 1 /\ ~Authentic(active[1]) =>
     UNCHANGED <<epoch, prepared, active, ledger, catalogue, opstate>>

\* Catalogue, barriers and operations agree after any sequence of transitions:
\* the tables are what the last activation signed, the barriers cover exactly
\* the live identities, and operations are registered as they were prepared.
CatalogueConsistent == TablesMatchActivation /\ BarriersCover /\ RegisteredAsPrepared

RegistryMovesForwardStep ==
    NoIdentityReturnsStep /\ RegisteredInEpochStep /\ LapsedIsFinalStep

\* The registry only moves forward: an identity that left does not come back,
\* no catalogue transition slips between the verification of an operation and
\* its registration, and nothing is accepted on an activation that has lapsed.
RegistryMovesForward == [][RegistryMovesForwardStep]_vars

==============================================================================
