-------------------------- MODULE AuthorityStates --------------------------
(***************************************************************************)
(* The retained state of the Authority Service and the pure functions that *)
(* compute its successors: persistence.py (AuthorityState,                 *)
(* classify_recovery, _require_successor), keys.py (the key lifecycle) and *)
(* composition.py (the management operations).                             *)
(*                                                                         *)
(* A digest is modelled by the value it is the digest of (SHA-256 taken as *)
(* injective): a state is its own state_digest, and an authority head is   *)
(* the one-element tuple of the body it was computed from, the earlier     *)
(* head included; the head written by the owner's bootstrap is <<>>.       *)
(* An absent value is <<>> and a present one <<v>>.                        *)
(***************************************************************************)
EXTENDS Naturals

CONSTANTS Keys,         \* signing keys: an id with its version
          Authorities,  \* authority ids, each with provider and policy terms
          Window,       \* [Authorities -> [from : Nat, until : Nat]]
          DayLimit      \* the longest validity, 24 hours in the code

Statuses == {"ACTIVE", "REVOKED", "SUPERSEDED", "EXPIRED"}

KeyStatuses == {"NONE", "VERIFY_ONLY", "SIGN_CURRENT", "RETIRED"}

Genesis(a, k) ==
    [seq |-> 0, id |-> a, gen |-> 1, status |-> "ACTIVE", head |-> <<>>,
     hw |-> 0, key |-> k,
     keys |-> [x \in Keys |-> IF x = k THEN "SIGN_CURRENT" ELSE "NONE"]]

Verified(s) ==
    /\ s.seq >= 0 /\ s.gen >= 1 /\ s.status \in Statuses
    /\ Window[s.id].from < Window[s.id].until
    /\ Window[s.id].until - Window[s.id].from <= DayLimit

-----------------------------------------------------------------------------
(* Reading the witness: anchor, pending and database.                      *)

Classify_PendingBlind(anchor, pending, database) ==
    IF anchor = database
      THEN IF pending = <<>> THEN "NORMAL_SUCCESSOR"
           ELSE IF pending = <<anchor>> THEN "COMPLETE_PENDING_RESOLUTION"
           ELSE "FAIL_CLOSED_OWNER_RESOLUTION"
      ELSE IF pending = <<>> THEN "FAIL_CLOSED_UNPROVEN_COMMIT"
      ELSE "COMPLETE_ANCHOR_ADVANCE"

\* The code's last two outcomes cannot be reached after the ones before.
Classify(anchor, pending, database) ==
    IF pending # <<>> /\ pending # <<database>> /\ database # anchor
      THEN "FAIL_CLOSED_CONTRADICTION"
    ELSE IF anchor = database
      THEN IF pending = <<>> THEN "NORMAL_SUCCESSOR"
           ELSE IF pending = <<anchor>> THEN "COMPLETE_PENDING_RESOLUTION"
           ELSE "FAIL_CLOSED_OWNER_RESOLUTION"
    ELSE IF pending = <<database>> THEN "COMPLETE_ANCHOR_ADVANCE"
    ELSE "FAIL_CLOSED_UNPROVEN_COMMIT"

Operational(anchor, pending, database) ==
    Classify(anchor, pending, database) = "NORMAL_SUCCESSOR"

-----------------------------------------------------------------------------
(* What may follow a state.                                                *)

RequireSuccessor(cur, s) ==
    /\ s.seq = cur.seq + 1
    /\ s.gen \in {cur.gen, cur.gen + 1}
    /\ s.hw >= cur.hw
    /\ IF s.gen = cur.gen
         THEN /\ s.id = cur.id
              /\ ~(cur.status # "ACTIVE" /\ s.status = "ACTIVE")
         ELSE s.status = "ACTIVE" /\ s.id # cur.id

WithHead(body) == [body EXCEPT !.head = <<body>>]

\* The next state, with what a transition may replace.
After(s, id, gen, status, hw) ==
    [seq |-> s.seq + 1, id |-> id, gen |-> gen, status |-> status, head |-> s.head,
     hw |-> hw, key |-> s.key, keys |-> s.keys]

\* REVOKE, ROTATE_SUPERSEDE, ENROL_ACTIVATE of the management pipe.
ManagedBody(s, op, a) ==
    CASE op = "REVOKE" ->
           After(s, s.id, s.gen, "REVOKED", s.hw)
      [] op = "ROTATE_SUPERSEDE" ->
           After(s, s.id, s.gen, "SUPERSEDED", s.hw)
      [] op = "ENROL_ACTIVATE" ->
           After(s, a, s.gen + 1, "ACTIVE", s.hw)

Managed(s, op, a) == WithHead(ManagedBody(s, op, a))

Expired(s, now) ==
    WithHead(After(s, s.id, s.gen, "EXPIRED", now))

\* The head stays: advancing trusted time is not an authority transition.
TimeAdvanced(s, now) == After(s, s.id, s.gen, s.status, now)

-----------------------------------------------------------------------------
(* The signing keys.                                                       *)

KeySuccessor(s, keys, k) ==
    WithHead([seq |-> s.seq + 1, id |-> s.id, gen |-> s.gen, status |-> s.status,
              head |-> s.head, hw |-> s.hw, key |-> k, keys |-> keys])

CanProvision(s, k) == s.keys[k] = "NONE"

Provisioned(s, k) ==
    KeySuccessor(s, [s.keys EXCEPT ![k] = "VERIFY_ONLY"], s.key)

CanActivate(s, k) == s.keys[k] = "VERIFY_ONLY"

Activated(s, k) ==
    KeySuccessor(s, [x \in Keys |->
                        IF x = k THEN "SIGN_CURRENT"
                        ELSE IF s.keys[x] = "SIGN_CURRENT" THEN "VERIFY_ONLY"
                        ELSE s.keys[x]], k)

CanRetire(s, k) == k # s.key /\ s.keys[k] = "VERIFY_ONLY"

Retired(s, k) == KeySuccessor(s, [s.keys EXCEPT ![k] = "RETIRED"], s.key)

CanKey(s, op, k) ==
    CASE op = "PROVISION" -> CanProvision(s, k)
      [] op = "ACTIVATE" -> CanActivate(s, k)
      [] op = "RETIRE" -> CanRetire(s, k)

Keyed(s, op, k) ==
    CASE op = "PROVISION" -> Provisioned(s, k)
      [] op = "ACTIVATE" -> Activated(s, k)
      [] op = "RETIRE" -> Retired(s, k)

RequireSigningKey(s, k) == s.keys[k] = "SIGN_CURRENT" /\ s.key = k

=============================================================================
