---------------------------- MODULE G00Admission ----------------------------
(***************************************************************************)
(* G00AdmissionController (commit_boundary/preconnected_pool.py 111-216)   *)
(* with the replay and revocation state of its trust root                  *)
(* (commit_boundary/g00_auth.py).                                          *)
(*                                                                         *)
(* Admitters are the threads that execute protected operations; publishers *)
(* are the threads that announce and publish restrictive cutovers.  A      *)
(* cutover that is None in the code is Unrestricted here, a number above   *)
(* every ticket, so that the minimum over the cutovers that are set is the *)
(* minimum of the two numbers.                                             *)
(***************************************************************************)
EXTENDS Naturals

CONSTANTS
  Admitters,     \* threads inside execute
  Publishers,    \* threads that publish restrictions
  Receipts,      \* nonces of the signed admission receipts
  SigningKeys,   \* key identities of the trust root
  TicketOf,      \* ticket_sequence of each receipt
  KeyOf,         \* signing key of each receipt
  Cutovers,      \* cutover sequences that may be published
  Unrestricted,  \* no cutover
  NoReceipt, NoOne

ASSUME ThreadsAssumption ==
  /\ NoOne \notin Admitters
  /\ NoReceipt \notin Receipts

ASSUME SequencesAssumption ==
  /\ Unrestricted \in Nat
  /\ Cutovers \subseteq 0..(Unrestricted - 1)
  /\ TicketOf \in [Receipts -> 0..(Unrestricted - 1)]
  /\ KeyOf \in [Receipts -> SigningKeys]

VARIABLES
  pending,       \* _pending_cutover
  effective,     \* _effective_cutover
  holder,        \* the admitter that holds _serialization_lock across its body
  waiting,       \* the cutover a publisher waits to make effective
  stage,         \* where an admitter is: idle, verified, checked or admitted
  presented,     \* the receipt an admitter carries
  spent,         \* _consumed_nonces
  revoked        \* _revoked

g00vars == <<pending, effective, holder, waiting, stage, presented, spent, revoked>>

Least(a, b) == IF a <= b THEN a ELSE b

\* The bound both cutover checks compare a ticket with
Bound == Least(pending, effective)

G00Init ==
  /\ pending = Unrestricted
  /\ effective = Unrestricted
  /\ holder = NoOne
  /\ waiting = [p \in Publishers |-> Unrestricted]
  /\ stage = [t \in Admitters |-> "idle"]
  /\ presented = [t \in Admitters |-> NoReceipt]
  /\ spent = {}
  /\ revoked = {}

-----------------------------------------------------------------------------
(* Restrictions *)

\* request_restriction on its own: announced, and published by nobody yet
RequestRestriction(c) ==
  /\ pending' = Least(pending, c)
  /\ UNCHANGED <<effective, holder, waiting, stage, presented, spent, revoked>>

\* publish_restriction, first part: announce, then wait for the boundary
BeginPublish(p, c) ==
  /\ waiting[p] = Unrestricted
  /\ pending' = Least(pending, c)
  /\ waiting' = [waiting EXCEPT ![p] = c]
  /\ UNCHANGED <<effective, holder, stage, presented, spent, revoked>>

\* Mutant: the state lock alone is taken
FinishPublish_NoSerialization(p) ==
  /\ waiting[p] # Unrestricted
  /\ effective' = Least(effective, waiting[p])
  /\ pending' = IF pending = waiting[p] THEN Unrestricted ELSE pending
  /\ waiting' = [waiting EXCEPT ![p] = Unrestricted]
  /\ UNCHANGED <<holder, stage, presented, spent, revoked>>

\* Mutant: the publisher also waits for the announcements of the others
FinishPublish_WaitsForOthers(p) ==
  /\ waiting[p] # Unrestricted
  /\ holder = NoOne
  /\ \A q \in Publishers \ {p} : waiting[q] = Unrestricted
  /\ effective' = Least(effective, waiting[p])
  /\ pending' = IF pending = waiting[p] THEN Unrestricted ELSE pending
  /\ waiting' = [waiting EXCEPT ![p] = Unrestricted]
  /\ UNCHANGED <<holder, stage, presented, spent, revoked>>

\* publish_restriction 154-160: with both locks the cutover becomes effective
FinishPublish(p) ==
  /\ waiting[p] # Unrestricted
  /\ holder = NoOne
  /\ effective' = Least(effective, waiting[p])
  /\ pending' = IF pending = waiting[p] THEN Unrestricted ELSE pending
  /\ waiting' = [waiting EXCEPT ![p] = Unrestricted]
  /\ UNCHANGED <<holder, stage, presented, spent, revoked>>

Revoke(key) ==
  /\ revoked' = revoked \cup {key}
  /\ UNCHANGED <<pending, effective, holder, waiting, stage, presented, spent>>

-----------------------------------------------------------------------------
(* Admission *)

\* verify: verify_and_consume spends the nonce under the trust root's lock; a
\* receipt that is expired, foreign or badly signed is rejected and not a step
Verify(t, r) ==
  /\ stage[t] = "idle"
  /\ KeyOf[r] \notin revoked
  /\ r \notin spent
  /\ spent' = spent \cup {r}
  /\ stage' = [stage EXCEPT ![t] = "verified"]
  /\ presented' = [presented EXCEPT ![t] = r]
  /\ UNCHANGED <<pending, effective, holder, waiting, revoked>>

\* check_cutover, before a worker is leased
CheckCutover(t) ==
  /\ stage[t] = "verified"
  /\ TicketOf[presented[t]] < Bound
  /\ stage' = [stage EXCEPT ![t] = "checked"]
  /\ UNCHANGED <<pending, effective, holder, waiting, presented, spent, revoked>>

\* Mutant: only the published cutover is compared with
AdmitVerified_EffectiveOnly(t) ==
  /\ stage[t] = "checked"
  /\ holder = NoOne
  /\ TicketOf[presented[t]] < effective
  /\ holder' = t
  /\ stage' = [stage EXCEPT ![t] = "admitted"]
  /\ UNCHANGED <<pending, effective, waiting, presented, spent, revoked>>

\* admit_verified: the cutovers are compared again once the boundary is held
AdmitVerified(t) ==
  /\ stage[t] = "checked"
  /\ holder = NoOne
  /\ TicketOf[presented[t]] < Bound
  /\ holder' = t
  /\ stage' = [stage EXCEPT ![t] = "admitted"]
  /\ UNCHANGED <<pending, effective, waiting, presented, spent, revoked>>

\* G00AdmissionRejected by either check, or a failure between them
Reject(t) ==
  /\ stage[t] \in {"verified", "checked"}
  /\ stage' = [stage EXCEPT ![t] = "idle"]
  /\ presented' = [presented EXCEPT ![t] = NoReceipt]
  /\ UNCHANGED <<pending, effective, holder, waiting, spent, revoked>>

\* The body of the with statement ends, normally or by an exception
LeaveBoundary(t) ==
  /\ stage[t] = "admitted"
  /\ holder' = NoOne
  /\ stage' = [stage EXCEPT ![t] = "idle"]
  /\ presented' = [presented EXCEPT ![t] = NoReceipt]
  /\ UNCHANGED <<pending, effective, waiting, spent, revoked>>

-----------------------------------------------------------------------------

AdmitterStep(t) ==
  \/ \E r \in Receipts : Verify(t, r)
  \/ CheckCutover(t)
  \/ AdmitVerified(t)
  \/ Reject(t)
  \/ LeaveBoundary(t)

G00Next ==
  \/ \E c \in Cutovers : RequestRestriction(c)
  \/ \E p \in Publishers, c \in Cutovers : BeginPublish(p, c)
  \/ \E p \in Publishers : FinishPublish(p)
  \/ \E key \in SigningKeys : Revoke(key)
  \/ \E t \in Admitters : AdmitterStep(t)

\* A thread that waits for the lock gets it once it stays free, and the body of
\* admit_verified is bounded by the response deadline.
G00Fairness ==
  /\ \A p \in Publishers : WF_g00vars(FinishPublish(p))
  /\ \A t \in Admitters : WF_g00vars(LeaveBoundary(t))

G00Spec == G00Init /\ [][G00Next]_g00vars
G00FairSpec == G00Spec /\ G00Fairness

-----------------------------------------------------------------------------
(* Properties *)

\* Every variable has its type.
G00TypeOK ==
  /\ pending \in 0..Unrestricted
  /\ effective \in 0..Unrestricted
  /\ holder \in Admitters \cup {NoOne}
  /\ waiting \in [Publishers -> 0..Unrestricted]
  /\ stage \in [Admitters -> {"idle", "verified", "checked", "admitted"}]
  /\ presented \in [Admitters -> Receipts \cup {NoReceipt}]
  /\ spent \in SUBSET Receipts
  /\ revoked \in SUBSET SigningKeys

\* No overtaking: at most one thread is inside the protected boundary, and no
\* published cutover covers the ticket of the thread inside it, however
\* announcements and publications interleave with it (admit_verified,
\* publish_restriction).
NoOvertake ==
  \A t \in Admitters : stage[t] = "admitted" =>
    /\ holder = t
    /\ TicketOf[presented[t]] < effective

\* Once announced, a restriction is in force: whatever other publishers do,
\* the bound that tickets are compared with never rises
\* (request_restriction, publish_restriction).
RestrictionNeverLoosens == [][Bound' <= Bound]_g00vars

\* A publisher that announced its cutover and waits cannot be overtaken by a
\* thread that enters the boundary meanwhile with a ticket it covers.
AnnouncedBlocksEntry ==
  [][\A t \in Admitters, p \in Publishers :
       stage[t] # "admitted" /\ stage'[t] = "admitted" =>
         TicketOf[presented[t]] < waiting[p]]_g00vars

\* A receipt authorises one admission: two threads past verification never
\* carry the same one (verify_and_consume).
ReceiptNotShared ==
  \A t, u \in Admitters :
    t # u /\ presented[t] # NoReceipt => presented[t] # presented[u]

\* A published restriction takes effect: the threads inside the boundary are
\* finitely many and leave it, and later ones are turned away once the
\* restriction is announced.
PublicationTakesEffect ==
  \A p \in Publishers, c \in Cutovers : waiting[p] = c ~> effective <= c
=============================================================================
