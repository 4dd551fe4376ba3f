--------------------------- MODULE IdentityLifecycle ---------------------------
(* The identity capabilities of the authority service host: the store of     *)
(* ACCOUNT and PORTFOLIO assertions (IdentityLifecycleStore), the two issuers *)
(* (IdentityCapabilityService), the verify-only consumer and the four pipe    *)
(* endpoints, one management and one read endpoint per dimension, each with   *)
(* its own thread.                                                            *)
(*                                                                            *)
(* A digest is the value it is taken of, so an assertion carries its          *)
(* predecessor.  Absent values are <<>>, present ones <<v>>.                  *)
EXTENDS Integers, FiniteSets

CONSTANTS
    Accounts, Portfolios,   \* identity values of either dimension
    MaxEpoch, MaxVersion,   \* bounds of producer epoch and lifecycle version
    Cmds, NonceOf,          \* command ids and the nonce each command carries
    AskedStates,            \* lifecycle states a command may ask for
    Windows,                \* validity intervals <<from, until>> a command may ask
    Configs,                \* protected key policies the host may start with
    Readers,                \* dimensions whose read endpoint has a caller
    Times, MaxTicks,        \* readings of the clock, and how often it moves
    MaxCrashes, MaxFaults

\* Accounts and portfolios are distinct values, and the two dimensions have
\* distinct signing keys in every configuration.

VARIABLES
    db,      \* the committed assertion rows, with the command row of each
    cur,     \* the current table: value -> assertion
    job,     \* what each endpoint is doing
    lock,    \* the dimension whose transaction holds the write lock, or "none"
    broken,  \* endpoints that failed closed
    up, conf, clock, left

vars == <<db, cur, job, lock, broken, up, conf, clock, left>>

Dimensions == {"ACCOUNT", "PORTFOLIO"}
Values == Accounts \cup Portfolios
States == {"ACTIVE", "SUSPENDED", "REVOKED"}
Dim(v) == IF v \in Accounts THEN "ACCOUNT" ELSE "PORTFOLIO"
Endpoints == {"manage", "read"} \X Dimensions

Records == [value : Values, epoch : 1 .. MaxEpoch]

Idle == [pc |-> "idle"]
EmptyStore == [rows |-> {}, cur |-> [v \in Values |-> <<>>]]
Store == [rows |-> db, cur |-> cur]

Init ==
    /\ db = {} /\ cur = EmptyStore.cur
    /\ job = [e \in Endpoints |-> Idle]
    /\ lock = "none" /\ broken = {} /\ up = TRUE
    /\ conf \in Configs
    /\ clock \in Times
    /\ left = [crash |-> MaxCrashes, fault |-> MaxFaults, tick |-> MaxTicks]

-----------------------------------------------------------------------------
(* The consumer.                                                            *)

Within(t, w) == w[1] <= t /\ t < w[2]

\* The one policy of a dimension, in force now, for the key that signed.
Policy(d, key) == conf[d].key = key /\ Within(clock, conf[d].valid)

\* verify_signature: the assertion is of this record, under a policy in
\* force, and inside its own validity.
Signed(r, a) ==
    /\ a.rec = r
    /\ Policy(Dim(r.value), a.key)
    /\ Within(clock, a.win)

\* _verify_current over one view of the store.
Verified_Fetched(s, r, a) == Signed(r, a) /\ a.state = "ACTIVE"

CurrentAs(s, r, a) ==
    Signed(r, a) /\ s.cur[r.value] = <<a>> /\ a.state = "ACTIVE"

Verified(s, r, a) ==
    /\ CurrentAs(s, r, a)
    /\ Dim(r.value) = "PORTFOLIO" =>
         \E p \in s.rows :
            /\ p.a.rec = a.parent[1]
            /\ s.cur[p.a.rec.value] = <<p.a>>
            /\ CurrentAs(s, p.a.rec, p.a)

-----------------------------------------------------------------------------
(* The store.                                                               *)

RowsOf(s, r) == {x \in s.rows : x.a.rec = r}

\* _validate_contents: every lineage runs 1, 2, 3 ... from an ACTIVE creation,
\* nothing follows a revocation, and the current table holds the last row of
\* the last epoch.
LineageIntact(s) ==
    \A x \in s.rows :
        IF x.a.version = 1
          THEN x.a.state = "ACTIVE" /\ x.a.pred = <<>>
          ELSE \E y \in RowsOf(s, x.a.rec) :
                  /\ y.a.version = x.a.version - 1
                  /\ y.a.state # "REVOKED"
                  /\ x.a.pred = <<y.a>>

VersionsUnique(s) ==
    \A x, y \in s.rows :
        x.a.rec = y.a.rec /\ x.a.version = y.a.version => x = y

KeysSeparate(s) ==
    \A x, y \in s.rows :
        x.a.key = y.a.key => Dim(x.a.rec.value) = Dim(y.a.rec.value)

Later(x, y) ==
    \/ x.a.rec.epoch > y.a.rec.epoch
    \/ x.a.rec.epoch = y.a.rec.epoch /\ x.a.version > y.a.version

CurrentIsLatest(s) ==
    \A v \in Values :
        LET mine == {x \in s.rows : x.a.rec.value = v}
            last == {x \in mine : \A y \in mine : y = x \/ Later(x, y)}
        IN s.cur[v] = IF mine = {} THEN <<>> ELSE <<(CHOOSE x \in last : TRUE).a>>

Valid(s) ==
    LineageIntact(s) /\ VersionsUnique(s) /\ KeysSeparate(s) /\ CurrentIsLatest(s)

-----------------------------------------------------------------------------
(* Issuing.                                                                 *)

\* The checks before the transaction: the signer's policy and the requested
\* validity, at this reading of the clock.
Acceptable(d, c) ==
    /\ Policy(d, conf[d].key)
    /\ Within(clock, c.win)

Replayed(d, c) ==
    \E x \in db :
        \/ Dim(x.a.rec.value) = d /\ x.cmd = c.id
        \/ x.a.key = conf[d].key /\ x.a.nonce = NonceOf[c.id]

\* The predecessor is authenticated before its epoch or state is used.
Follows_EpochBack(c, a) ==
    /\ Signed(a.rec, a)
    /\ IF c.rec.epoch = a.rec.epoch
         THEN a.state # "REVOKED" /\ c.version = a.version + 1
         ELSE c.version = 1

Follows(c, a) ==
    /\ Signed(a.rec, a)
    /\ c.rec.epoch >= a.rec.epoch
    /\ IF c.rec.epoch = a.rec.epoch
         THEN a.state # "REVOKED" /\ c.version = a.version + 1
         ELSE c.version = 1

Predecessor(c) ==
    IF cur[c.rec.value] # <<>> /\ cur[c.rec.value][1].rec.epoch = c.rec.epoch
      THEN cur[c.rec.value] ELSE <<>>

\* A portfolio names its parent with the parent's assertion: ACTIVE, current
\* in this transaction, and the same account through one lineage.
ParentAllowed(c) ==
    LET p == c.parent[1]
    IN /\ Signed(p.rec, p) /\ p.state = "ACTIVE"
       /\ cur[p.rec.value] = <<p>>
       /\ Predecessor(c) # <<>> => Predecessor(c)[1].parent = <<p.rec>>

\* assertion_signing_bytes: the payload about to be signed is well formed.
WellFormed(c) == c.version >= 1 /\ c.state \in States

Issuable(d, c) ==
    /\ ~Replayed(d, c)
    /\ cur[c.rec.value] = <<>> => c.version = 1
    /\ cur[c.rec.value] # <<>> => Follows(c, cur[c.rec.value][1])
    /\ Predecessor(c) = <<>> => c.state = "ACTIVE"
    /\ IF d = "PORTFOLIO" THEN ParentAllowed(c) ELSE c.parent = <<>>
    /\ WellFormed(c)

Assertion(d, c) ==
    [rec |-> c.rec, version |-> c.version, state |-> c.state, win |-> c.win,
     key |-> conf[d].key, pred |-> Predecessor(c), nonce |-> NonceOf[c.id],
     parent |-> IF d = "PORTFOLIO" THEN <<c.parent[1].rec>> ELSE <<>>]

\* The three inserts of one transaction.
Written(d, c) ==
    [rows |-> db \cup {[a |-> Assertion(d, c), cmd |-> c.id]},
     cur |-> [cur EXCEPT ![c.rec.value] = <<Assertion(d, c)>>]]

-----------------------------------------------------------------------------
(* The management endpoints.  A refused request leaves the store as it is.   *)

Become(e, j) == job' = [job EXCEPT ![e] = j]
Free(d) == lock' = IF lock = d THEN "none" ELSE lock

\* The parent evidence a caller can present: any assertion ever issued.
Evidence(d) ==
    IF d = "ACCOUNT" THEN {<<>>}
    ELSE {<<x.a>> : x \in {y \in db : y.a.rec.value \in Accounts}}

CommandsOf(d) ==
    {c \in [id : Cmds, rec : {r \in Records : Dim(r.value) = d},
            version : 1 .. MaxVersion, state : AskedStates, win : Windows,
            parent : Evidence(d)] : c.win[1] < c.win[2]}

Issue(d, c) ==
    LET e == <<"manage", d>>
    IN /\ up /\ e \notin broken /\ job[e].pc = "idle"
       /\ Acceptable(d, c)
       /\ Become(e, [pc |-> "waiting", cmd |-> c])
       /\ UNCHANGED <<db, cur, lock, broken, up, conf, clock, left>>

\* Refused before the store is opened: the endpoint failed closed, or the
\* policy or the requested validity does not cover this moment.
IssueRefused(d, c) ==
    LET e == <<"manage", d>>
    IN /\ up /\ job[e].pc = "idle"
       /\ e \in broken \/ ~Acceptable(d, c)
       /\ UNCHANGED vars

\* BEGIN IMMEDIATE, validation, every check, signing and the inserts; the
\* write lock is held until the transaction ends.
Begin(d) ==
    LET e == <<"manage", d>>
    IN /\ job[e].pc = "waiting" /\ lock = "none"
       /\ IF Valid(Store) /\ Issuable(d, job[e].cmd)
            THEN /\ lock' = d
                 /\ Become(e, [pc |-> "staged", cmd |-> job[e].cmd,
                               db |-> Written(d, job[e].cmd)])
            ELSE Become(e, Idle) /\ UNCHANGED lock
       /\ UNCHANGED <<db, cur, broken, up, conf, clock, left>>

\* The second validation and the commit.  The answer may be lost or late
\* (DEADLINE_UNCERTAIN): the store is the same either way.
Commit(d) ==
    LET e == <<"manage", d>>
    IN /\ job[e].pc = "staged"
       /\ IF Valid(job[e].db)
            THEN db' = job[e].db.rows /\ cur' = job[e].db.cur
            ELSE UNCHANGED <<db, cur>>
       /\ Become(e, Idle) /\ Free(d)
       /\ UNCHANGED <<broken, up, conf, clock, left>>

\* The request budget, a busy database or a failing commit ends the request
\* before anything is durable.
GiveUp(d) ==
    LET e == <<"manage", d>>
    IN /\ job[e].pc \in {"waiting", "staged"}
       /\ Become(e, Idle) /\ Free(d)
       /\ UNCHANGED <<db, cur, broken, up, conf, clock, left>>

-----------------------------------------------------------------------------
(* The read endpoints: the current row is fetched in one transaction and     *)
(* verified against a view taken in a second one.                            *)

Read(d, r) ==
    LET e == <<"read", d>>
    IN /\ up /\ e \notin broken /\ job[e].pc = "idle"
       /\ d \in Readers /\ Dim(r.value) = d
       /\ Valid(Store) /\ cur[r.value] # <<>>
       /\ Become(e, [pc |-> "fetched", rec |-> r, a |-> cur[r.value][1]])
       /\ UNCHANGED <<db, cur, lock, broken, up, conf, clock, left>>

Answer(d) ==
    LET e == <<"read", d>>
    IN /\ job[e].pc = "fetched"
       /\ Valid(Store)
       /\ Verified(Store, job[e].rec, job[e].a)
       /\ Become(e, [pc |-> "served", a |-> job[e].a])
       /\ UNCHANGED <<db, cur, lock, broken, up, conf, clock, left>>

ReadRefused(d) ==
    LET e == <<"read", d>>
    IN /\ job[e].pc = "fetched"
       /\ ~(Valid(Store) /\ Verified(Store, job[e].rec, job[e].a))
       /\ Become(e, Idle)
       /\ UNCHANGED <<db, cur, lock, broken, up, conf, clock, left>>

Taken(d) ==
    LET e == <<"read", d>>
    IN /\ job[e].pc = "served"
       /\ Become(e, Idle)
       /\ UNCHANGED <<db, cur, lock, broken, up, conf, clock, left>>

-----------------------------------------------------------------------------
(* The handler's fail-stop, the host and the clock.                          *)

\* An unexpected exception: the transaction is rolled back and the endpoint
\* refuses every later request of this host.
Fails(e) ==
    /\ left.fault > 0 /\ job[e].pc \notin {"idle", "served"}
    /\ Become(e, Idle)
    /\ IF e[1] = "manage" THEN Free(e[2]) ELSE UNCHANGED lock
    /\ broken' = broken \cup {e}
    /\ left' = [left EXCEPT !.fault = @ - 1]
    /\ UNCHANGED <<db, cur, up, conf, clock>>

Crash ==
    /\ up /\ left.crash > 0
    /\ up' = FALSE
    /\ job' = [e \in Endpoints |-> Idle] /\ lock' = "none" /\ broken' = {}
    /\ left' = [left EXCEPT !.crash = @ - 1]
    /\ UNCHANGED <<db, cur, conf, clock>>

\* The host starts with the policies of its protected configuration and
\* reopens the store only if it validates.
Start ==
    /\ ~up /\ Valid(Store)
    /\ up' = TRUE
    /\ conf' \in Configs
    /\ UNCHANGED <<db, cur, job, lock, broken, clock, left>>

Tick ==
    /\ left.tick > 0
    /\ clock' \in Times \ {clock}
    /\ left' = [left EXCEPT !.tick = @ - 1]
    /\ UNCHANGED <<db, cur, job, lock, broken, up, conf>>

Next ==
    \/ \E d \in Dimensions :
          \/ \E c \in CommandsOf(d) : Issue(d, c) \/ IssueRefused(d, c)
          \/ Begin(d) \/ Commit(d) \/ GiveUp(d)
          \/ \E r \in Records : Read(d, r)
          \/ Answer(d) \/ ReadRefused(d) \/ Taken(d)
    \/ \E e \in Endpoints : Fails(e)
    \/ Crash \/ Start \/ Tick

Spec == Init /\ [][Next]_vars

-----------------------------------------------------------------------------
TypeOK ==
    /\ \A x \in db : x.a.rec \in Records /\ x.cmd \in Cmds /\ x.a.state \in States
    /\ \A v \in Values : cur[v] = <<>> \/ cur[v][1].rec.value = v
    /\ lock \in Dimensions \cup {"none"}
    /\ broken \subseteq Endpoints /\ conf \in Configs

\* What the issuer stages always passes the validation that reopens the store:
\* neither a key change, a crash nor a lost answer lets issue() write rows
\* that _validate_contents would refuse, which would close both capabilities.
IssuerMeetsValidator ==
    /\ Valid(Store)
    /\ \A d \in Dimensions :
          job[<<"manage", d>>].pc = "staged" => Valid(job[<<"manage", d>>].db)

\* A command whose answer was lost is never issued a second time: within a
\* dimension no two rows share the command id, and no two share key and nonce.
IssuedOnce ==
    \A x, y \in db :
        /\ Dim(x.a.rec.value) = Dim(y.a.rec.value)
        /\ x.cmd = y.cmd \/ (x.a.key = y.a.key /\ x.a.nonce = y.a.nonce)
        => x = y

\* An account is gone for good when it was revoked or a later epoch replaced it.
Gone(r) ==
    \E x \in db : \/ x.a.rec = r /\ x.a.state = "REVOKED"
                  \/ x.a.rec.value = r.value /\ x.a.rec.epoch > r.epoch

ServedNotGoneStep ==
  \A d \in Dimensions :
    LET e == <<"read", d>>
    IN job[e].pc = "fetched" /\ job'[e].pc = "served" =>
         LET a == job'[e].a
         IN /\ cur[a.rec.value] = <<a>>
            /\ ~Gone(a.rec)
            /\ a.parent # <<>> => ~Gone(a.parent[1])

\* An answer never rests on what is gone: at the moment a read is served the
\* identity is current although it was fetched in an earlier transaction, and
\* a portfolio whose account was revoked or replaced is not served again.
ServedNotGone == [][ServedNotGoneStep]_vars

\* One lineage of a portfolio stays under one account identity, although every
\* transition names the parent anew.
ParentFixed ==
    \A x, y \in db : x.a.rec = y.a.rec => x.a.parent = y.a.parent

\* The rows of both dimensions stay a lineage that the store accepts when it
\* is reopened, with one row per command and nonce, and one parent for every
\* record of a portfolio.
LineageSound == IssuerMeetsValidator /\ IssuedOnce /\ ParentFixed

==============================================================================
