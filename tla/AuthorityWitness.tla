-------------------------- MODULE AuthorityWitness --------------------------
(***************************************************************************)
(* The Authority Service around its store: every transition is published   *)
(* in four durable steps (pending witness, SQLite commit, anchor, pending  *)
(* cleared) under a lock shared by all processes, by three callers that    *)
(* run concurrently:                                                       *)
(*   - the management thread of the host (ProtectedAuthorityManager);      *)
(*   - the runtime thread of the host (AuthorityService.admit and the      *)
(*     fence a consumer holds through FencedRuntimeSession);               *)
(*   - the owner's key tool, a process of its own (AnchoredKeyLifecycle).  *)
(* The host may crash anywhere and is restarted through recover(); any     *)
(* step of a publication may raise; the system clock may step backwards;   *)
(* while the host is down the store file may be replaced by a backup.      *)
(***************************************************************************)
EXTENDS AuthorityStates

CONSTANTS Cmds,          \* command ids callers choose
          FirstAuthority, FirstKey,
          SignerKey,     \* the key the deployed signer holds
          Snapshots,     \* what the snapshot source may answer
          Lifetime,      \* validity of an admission, 5 minutes in the code
          Times,         \* readings of the system clock
          Callers,       \* which of the three callers take part
          Enrolments,    \* authorities management requests may name
          MaxSeq,        \* bound: transitions of the store
          MaxCrashes,    \* bound: host crashes
          MaxFaults,     \* bound: raised steps of a publication
          Restores       \* bound: 1 when the store may be restored

VARIABLES db,        \* the metadata row
          commands,  \* the commands table: a set of [id, payload, state]
          anchor, pending,   \* the registry witness
          turn,      \* the host's reader/writer gate: its holder, or "none"
          file,      \* the cross-process file lock: its holder, or "none"
          job,       \* what each caller is doing
          up,        \* "down", "starting", "up"
          clock, snap,
          client,    \* the Runtime consumer: [phase, env]
          backup,    \* a copy of the store taken earlier
          left,      \* what remains of the bounds
          tip,       \* ghost: the last state ever committed
          acked,     \* ghost: [id, state] of every answer returned
          issued     \* ghost: the time of the last signed admission

store == <<db, commands>>
witness == <<anchor, pending>>
locks == <<turn, file>>
world == <<clock, snap>>
ghosts == <<tip, acked, issued>>
vars == <<db, commands, anchor, pending, turn, file, job, up, clock, snap,
          client, backup, left, tip, acked, issued>>

HostThreads == {"management", "runtime"}

IdleJob == [pc |-> "idle", kind |-> "none", id |-> <<>>, payload |-> <<>>,
            succ |-> <<>>, now |-> 0]

NoClient == [phase |-> "none", env |-> <<>>]

ASSUME AuthorityAssumption ==
    /\ FirstAuthority \in Authorities /\ FirstKey \in Keys
    /\ SignerKey \in Keys
    /\ Times \subseteq Nat /\ 0 \in Times
    /\ Callers \subseteq HostThreads \cup {"owner"}
    /\ Window \in [Authorities -> [from : Nat, until : Nat]]
    /\ Window[FirstAuthority].from < Window[FirstAuthority].until

Init ==
    /\ db = Genesis(FirstAuthority, FirstKey) /\ commands = {}
    /\ anchor = db /\ pending = <<>>
    /\ turn = "none" /\ file = "none"
    /\ job = [t \in HostThreads \cup {"owner"} |-> IdleJob]
    /\ up = "up" /\ clock = 0 /\ snap \in Snapshots
    /\ client = NoClient
    /\ backup = [db |-> db, commands |-> commands]
    /\ left = [crashes |-> MaxCrashes, faults |-> MaxFaults,
               restores |-> Restores]
    /\ tip = db /\ acked = {} /\ issued = 0

Row(i) == {r \in commands : r.id = i}

\* The holder of the gate or of the lock gives it back when its call ends.
Unlocked(t) ==
    /\ turn' = IF turn = t THEN "none" ELSE turn
    /\ file' = IF file = t THEN "none" ELSE file

End(t) == job' = [job EXCEPT ![t] = IdleJob] /\ Unlocked(t)

Go(t, pc) == job' = [job EXCEPT ![t].pc = pc]

-----------------------------------------------------------------------------
(* Requests.                                                               *)

Heads == {<<>>, db.head} \cup {r.state.head : r \in commands}

\* The manager reads the store before it takes the lock.
ManagementRequest(c, op, a, h) ==
    /\ "management" \in Callers /\ up = "up" /\ job["management"].pc = "idle"
    /\ h = db.head => db.seq < MaxSeq
    /\ job' = [job EXCEPT !["management"] =
         [pc |-> "turn", kind |-> IF h = db.head THEN "publish" ELSE "retry",
          id |-> <<"CMD", c>>, payload |-> <<op, a, h>>, now |-> 0,
          succ |-> IF h = db.head THEN <<Managed(db, op, a)>> ELSE <<>>]]
    /\ UNCHANGED <<store, witness, locks, up, world, client, backup, left, ghosts>>

KeyRequest(c, op, k) ==
    /\ "owner" \in Callers /\ job["owner"].pc = "idle"
    /\ CanKey(db, op, k) /\ db.seq < MaxSeq
    /\ job' = [job EXCEPT !["owner"] =
         [pc |-> "file", kind |-> "publish", id |-> <<"CMD", c>>,
          payload |-> <<op, k>>, now |-> 0, succ |-> <<Keyed(db, op, k)>>]]
    /\ UNCHANGED <<store, witness, locks, up, world, client, backup, left, ghosts>>

Live(e, now) == e.at <= now /\ now < e.until

RuntimeJob(kind) ==
    [pc |-> "turn", kind |-> kind, id |-> <<>>, payload |-> <<>>,
     succ |-> <<>>, now |-> clock]

\* admit(), or require_current() of an admission the consumer holds.
AdmitRequest ==
    /\ "runtime" \in Callers /\ up = "up" /\ job["runtime"].pc = "idle"
    /\ db.seq < MaxSeq
    /\ \/ client.phase = "none"
       \/ client.phase = "admitted" /\ Live(client.env[1], clock)
    /\ job' = [job EXCEPT !["runtime"] = RuntimeJob("admit")]
    /\ UNCHANGED <<store, witness, locks, up, world, client, backup, left, ghosts>>

FenceRequest ==
    /\ up = "up" /\ job["runtime"].pc = "idle"
    /\ client.phase = "admitted" /\ Live(client.env[1], clock)
    /\ job' = [job EXCEPT !["runtime"] = RuntimeJob("fence")]
    /\ UNCHANGED <<store, witness, locks, up, world, client, backup, left, ghosts>>

-----------------------------------------------------------------------------
(* The gate of the host, then the file lock every process takes.           *)

WriterWaits ==
    \E t \in HostThreads : job[t].pc = "turn" /\ job[t].kind # "fence"

TakeTurn(t) ==
    /\ job[t].pc = "turn" /\ turn = "none"
    /\ job[t].kind = "fence" => ~WriterWaits
    /\ turn' = t /\ Go(t, "file")
    /\ UNCHANGED <<store, witness, file, up, world, client, backup, left, ghosts>>

TakeFile_NoWait(t) ==
    /\ job[t].pc = "file"
    /\ file' = t /\ Go(t, "check")
    /\ UNCHANGED <<store, witness, turn, up, world, client, backup, left, ghosts>>

TakeFile(t) ==
    /\ job[t].pc = "file" /\ file = "none"
    /\ file' = t /\ Go(t, "check")
    /\ UNCHANGED <<store, witness, turn, up, world, client, backup, left, ghosts>>

\* "authority witness lock timed out"
TimeOut(t) ==
    /\ job[t].pc \in {"turn", "file"}
    /\ turn \notin {"none", t} \/ file # "none"
    /\ End(t)
    /\ up' = IF job[t].kind = "recover" THEN "down" ELSE up
    /\ UNCHANGED <<store, witness, world, client, backup, left, ghosts>>

-----------------------------------------------------------------------------
(* Under the lock: what the caller finds.                                  *)

Serving == Operational(anchor, pending, db)

\* command_result: the row of this very payload, about the current state.
Committed(t) ==
    \E r \in Row(job[t].id) : r.payload = job[t].payload /\ r.state = db

Answer(t) ==
    /\ job[t].pc = "check" /\ job[t].kind \in {"publish", "retry"}
    /\ Serving /\ Committed(t)
    /\ acked' = acked \cup {[id |-> job[t].id, state |-> db]}
    /\ End(t)
    /\ UNCHANGED <<store, witness, up, world, client, backup, left, tip, issued>>

Proceed(t) ==
    /\ job[t].pc = "check" /\ job[t].kind = "publish"
    /\ Serving /\ Row(job[t].id) = {}
    /\ Go(t, "pend")
    /\ UNCHANGED <<store, witness, locks, up, world, client, backup, left, ghosts>>

Refuse(t) ==
    /\ job[t].pc = "check"
    /\ \/ job[t].kind \in {"publish", "retry"} /\ ~Serving
       \/ /\ job[t].kind = "publish" /\ Serving
          /\ Row(job[t].id) # {} /\ ~Committed(t)
       \/ job[t].kind = "retry" /\ Serving /\ ~Committed(t)
    /\ End(t)
    /\ UNCHANGED <<store, witness, up, world, client, backup, left, ghosts>>

\* admission_witness, up to the point where it writes or yields.
InForce(now) ==
    /\ Serving /\ now >= db.hw /\ db.status = "ACTIVE"
    /\ now >= Window[db.id].from

Writing(kind, id, s, now) ==
    [pc |-> "pend", kind |-> kind, id |-> id, payload |-> <<>>, succ |-> <<s>>,
     now |-> now]

AdmitChecked(t) ==
    LET now == job[t].now
        late == now >= Window[db.id].until
    IN /\ job[t].pc = "check" /\ job[t].kind = "admit" /\ InForce(now)
       /\ \/ /\ late
             /\ job' = [job EXCEPT ![t] =
                  Writing("expire", <<"EXPIRE", db.id>>, Expired(db, now), now)]
          \/ /\ ~late /\ now > db.hw
             /\ job' = [job EXCEPT ![t] =
                  Writing("admit", <<"TIME", now>>, TimeAdvanced(db, now), now)]
          \/ ~late /\ ~(now > db.hw) /\ Go(t, "sign")
       /\ UNCHANGED <<store, witness, locks, up, world, client, backup, left, ghosts>>

AdmitRefused(t) ==
    /\ job[t].pc = "check" /\ job[t].kind = "admit" /\ ~InForce(job[t].now)
    /\ End(t)
    /\ UNCHANGED <<store, witness, up, world, client, backup, left, ghosts>>

-----------------------------------------------------------------------------
(* The four durable steps of a publication.                                *)

WritePending(t) ==
    /\ job[t].pc = "pend" /\ pending = <<>>
    /\ pending' = job[t].succ /\ Go(t, "commit")
    /\ UNCHANGED <<store, anchor, locks, up, world, client, backup, left, ghosts>>

Committable(t) ==
    /\ Verified(job[t].succ[1]) /\ RequireSuccessor(db, job[t].succ[1])
    /\ Row(job[t].id) = {}

\* One SQLite transaction replaces the state and records the command.
Commit(t) ==
    /\ job[t].pc = "commit" /\ Committable(t)
    /\ db' = job[t].succ[1]
    /\ commands' = commands \cup {[id |-> job[t].id, payload |-> job[t].payload,
                                   state |-> job[t].succ[1]]}
    /\ tip' = db' /\ Go(t, "anchor")
    /\ UNCHANGED <<witness, locks, up, world, client, backup, left, acked, issued>>

\* verify() or _require_successor() raises: the pending witness stays.
CommitRefused(t) ==
    /\ job[t].pc = "commit" /\ ~Committable(t)
    /\ End(t)
    /\ UNCHANGED <<store, witness, up, world, client, backup, left, ghosts>>

WriteAnchor(t) ==
    /\ job[t].pc = "anchor"
    /\ anchor' = job[t].succ[1] /\ Go(t, "clear")
    /\ UNCHANGED <<store, pending, locks, up, world, client, backup, left, ghosts>>

\* The last step also ends the call: a result, "expired", or the recovery.
ClearPending(t) ==
    /\ job[t].pc = "clear" /\ pending = job[t].succ
    /\ pending' = <<>>
    /\ IF job[t].kind = "admit"
         THEN Go(t, "sign") /\ UNCHANGED locks
         ELSE End(t)
    /\ acked' = IF job[t].kind = "publish"
                  THEN acked \cup {[id |-> job[t].id, state |-> db]}
                  ELSE acked
    /\ up' = IF job[t].kind = "recover" THEN "up" ELSE up
    /\ UNCHANGED <<store, anchor, world, client, backup, left, tip, issued>>

\* Any of the steps may raise before it takes effect.
Fault(t) ==
    /\ job[t].pc \in {"pend", "commit", "anchor", "clear"} /\ left.faults > 0
    /\ left' = [left EXCEPT !.faults = @ - 1]
    /\ End(t)
    /\ up' = IF job[t].kind = "recover" THEN "down" ELSE up
    /\ UNCHANGED <<store, witness, world, client, backup, ghosts>>

-----------------------------------------------------------------------------
(* Admissions and fences.                                                  *)

Signable(t) ==
    /\ RequireSigningKey(db, SignerKey)
    /\ snap.terms = db.id /\ snap.until > job[t].now

Envelope(now) ==
    [id |-> db.id, gen |-> db.gen, head |-> db.head, key |-> SignerKey,
     snap |-> snap, at |-> now,
     until |-> IF now + Lifetime < snap.until THEN now + Lifetime
               ELSE snap.until]

Lineage(e) == <<e.id, e.gen, e.head, e.key, e.snap>>

\* The answer may be lost; require_current() refuses another lineage.
Sign(t) ==
    /\ job[t].pc = "sign" /\ Signable(t)
    /\ issued' = job[t].now
    /\ LET new == Envelope(job[t].now) IN
       client' \in {client,
           IF client.env = <<>> \/ Lineage(client.env[1]) = Lineage(new)
             THEN [phase |-> "admitted", env |-> <<new>>]
             ELSE NoClient}
    /\ End(t)
    /\ UNCHANGED <<store, witness, up, world, backup, left, tip, acked>>

SignRefused(t) ==
    /\ job[t].pc = "sign" /\ ~Signable(t)
    /\ End(t)
    /\ UNCHANGED <<store, witness, up, world, client, backup, left, ghosts>>

\* consumption_witness and the comparisons of consumption_fence.
FenceAllowed_AnyHead(t) ==
    LET e == client.env[1] IN
    /\ InForce(job[t].now) /\ job[t].now < Window[db.id].until
    /\ RequireSigningKey(db, e.key)
    /\ snap = e.snap /\ snap.until > job[t].now

FenceAllowed(t) ==
    LET e == client.env[1] IN
    /\ InForce(job[t].now) /\ job[t].now < Window[db.id].until
    /\ RequireSigningKey(db, e.key)
    /\ e.id = db.id /\ e.gen = db.gen /\ e.head = db.head
    /\ snap = e.snap /\ snap.until > job[t].now

Fence(t) ==
    /\ job[t].pc = "check" /\ job[t].kind = "fence" /\ FenceAllowed(t)
    /\ client' = [client EXCEPT !.phase = "section"]
    /\ Go(t, "hold")
    /\ UNCHANGED <<store, witness, locks, up, world, backup, left, ghosts>>

FenceRefused(t) ==
    /\ job[t].pc = "check" /\ job[t].kind = "fence" /\ ~FenceAllowed(t)
    /\ End(t)
    /\ UNCHANGED <<store, witness, up, world, client, backup, left, ghosts>>

\* RELEASE_FENCED_CONSUMPTION, or the consumer's end of the pipe closes.
Release(t) ==
    /\ job[t].pc = "hold"
    /\ client' \in {[client EXCEPT !.phase = "admitted"], NoClient}
    /\ End(t)
    /\ UNCHANGED <<store, witness, up, world, backup, left, ghosts>>

\* The host is gone: the consumer learns it when its section ends.
SectionEnds ==
    /\ client.phase = "section" /\ job["runtime"].pc # "hold"
    /\ client' = NoClient
    /\ UNCHANGED <<store, witness, locks, job, up, world, backup, left, ghosts>>

-----------------------------------------------------------------------------
(* Crash, restart, and what happens around the service.                    *)

Crash ==
    /\ up # "down" /\ left.crashes > 0
    /\ up' = "down"
    /\ left' = [left EXCEPT !.crashes = @ - 1]
    /\ job' = [t \in DOMAIN job |-> IF t \in HostThreads THEN IdleJob ELSE job[t]]
    /\ turn' = "none"
    /\ file' = IF file \in HostThreads THEN "none" ELSE file
    /\ UNCHANGED <<store, witness, world, client, backup, ghosts>>

\* from_protected_windows_deployment: the domain mutex, then recover().
Start ==
    /\ up = "down" /\ up' = "starting"
    /\ job' = [job EXCEPT !["runtime"] = RuntimeJob("recover")]
    /\ UNCHANGED <<store, witness, locks, world, client, backup, left, ghosts>>

Recover_ClearsFirst(t) ==
    LET found == Classify(anchor, pending, db) IN
    /\ job[t].pc = "check" /\ job[t].kind = "recover"
    /\ \/ /\ found \in {"COMPLETE_ANCHOR_ADVANCE", "COMPLETE_PENDING_RESOLUTION"}
          /\ pending' = <<>> /\ End(t) /\ up' = "up"
       \/ found = "NORMAL_SUCCESSOR" /\ End(t) /\ up' = "up" /\ UNCHANGED pending
       \/ /\ found \notin {"COMPLETE_ANCHOR_ADVANCE",
                           "COMPLETE_PENDING_RESOLUTION", "NORMAL_SUCCESSOR"}
          /\ End(t) /\ up' = "down" /\ UNCHANGED pending
    /\ UNCHANGED <<store, anchor, world, client, backup, left, ghosts>>

Recover(t) ==
    LET found == Classify(anchor, pending, db)
        repair(pc) == job' = [job EXCEPT ![t] =
                        [pc |-> pc, kind |-> "recover", id |-> <<>>, payload |-> <<>>,
                         succ |-> <<db>>, now |-> job[t].now]]
    IN
    /\ job[t].pc = "check" /\ job[t].kind = "recover"
    /\ \/ found = "COMPLETE_ANCHOR_ADVANCE" /\ repair("anchor")
          /\ UNCHANGED <<locks, up>>
       \/ found = "COMPLETE_PENDING_RESOLUTION" /\ repair("clear")
          /\ UNCHANGED <<locks, up>>
       \/ found = "NORMAL_SUCCESSOR" /\ End(t) /\ up' = "up"
       \/ found \in {"FAIL_CLOSED_CONTRADICTION", "FAIL_CLOSED_OWNER_RESOLUTION",
                     "FAIL_CLOSED_UNPROVEN_COMMIT"}
          /\ End(t) /\ up' = "down"
    /\ UNCHANGED <<store, witness, world, client, backup, left, ghosts>>

TakeBackup ==
    /\ left.restores > 0 /\ backup.db # db /\ file = "none"
    /\ backup' = [db |-> db, commands |-> commands]
    /\ UNCHANGED <<store, witness, locks, job, up, world, client, left, ghosts>>

Restore ==
    /\ up = "down" /\ file = "none" /\ left.restores > 0
    /\ db' = backup.db /\ commands' = backup.commands
    /\ left' = [left EXCEPT !.restores = @ - 1]
    /\ UNCHANGED <<witness, locks, job, up, world, client, backup, ghosts>>

ClockReads(x) ==
    /\ clock' = x
    /\ UNCHANGED <<store, witness, locks, job, up, snap, client, backup, left, ghosts>>

SnapshotChanges(x) ==
    /\ snap' = x
    /\ UNCHANGED <<store, witness, locks, job, up, clock, client, backup, left, ghosts>>

ManagementOps(a) ==
    (IF a = FirstAuthority THEN {"REVOKE", "ROTATE_SUPERSEDE"} ELSE {})
    \cup (IF a \in Enrolments THEN {"ENROL_ACTIVATE"} ELSE {})

Step(t) ==
    \/ TakeTurn(t) \/ TakeFile(t) \/ TimeOut(t)
    \/ Answer(t) \/ Proceed(t) \/ Refuse(t)
    \/ AdmitChecked(t) \/ AdmitRefused(t)
    \/ WritePending(t) \/ Commit(t) \/ CommitRefused(t)
    \/ WriteAnchor(t) \/ ClearPending(t) \/ Fault(t)
    \/ Sign(t) \/ SignRefused(t)
    \/ Fence(t) \/ FenceRefused(t) \/ Release(t)
    \/ Recover(t)

Next ==
    \/ \E c \in Cmds, a \in Authorities, h \in Heads :
          \E op \in ManagementOps(a) : ManagementRequest(c, op, a, h)
    \/ \E c \in Cmds, k \in Keys, op \in {"PROVISION", "ACTIVATE", "RETIRE"} :
          KeyRequest(c, op, k)
    \/ AdmitRequest \/ FenceRequest \/ SectionEnds
    \/ \E t \in HostThreads \cup {"owner"} : Step(t)
    \/ Crash \/ Start \/ TakeBackup \/ Restore
    \/ \E x \in Times : ClockReads(x)
    \/ \E x \in Snapshots : SnapshotChanges(x)

Spec == Init /\ [][Next]_vars

\* The service manager restarts a dead host, and a start runs to its end.
RecoveryStep ==
    \/ Start
    \/ /\ job["runtime"].kind = "recover"
       /\ \/ TakeTurn("runtime") \/ TakeFile("runtime") \/ Recover("runtime")
          \/ WriteAnchor("runtime") \/ ClearPending("runtime")

FairSpec == Spec /\ WF_vars(RecoveryStep)

-----------------------------------------------------------------------------
(* Properties.                                                             *)

\* The types of the gate, the lock, the callers and the retained state.
TypeOK ==
    /\ up \in {"down", "starting", "up"}
    /\ turn \in HostThreads \cup {"none"}
    /\ file \in HostThreads \cup {"none", "owner"}
    /\ client.phase \in {"none", "admitted", "section"}
    /\ \A t \in DOMAIN job :
          job[t].pc \in {"idle", "turn", "file", "check", "pend", "commit",
                         "anchor", "clear", "sign", "hold"}
    /\ db.seq \in 0 .. MaxSeq /\ db.keys \in [Keys -> KeyStatuses]

\* Nothing is signed, fenced or answered except on the last state ever
\* committed, while the lock is held and the authority is in force at the
\* time the caller read: neither a crash between two durable steps nor a
\* store restored from a backup lets an older state serve.
ServedIsCurrent ==
    \A t \in DOMAIN job :
       job[t].pc \in {"sign", "hold"} =>
         /\ file = t /\ db = tip /\ anchor = tip /\ pending = <<>>
         /\ db.status = "ACTIVE" /\ job[t].now < Window[db.id].until

\* From its pending witness to its last step a publication finds what it
\* wrote and nothing else: the lock keeps callers of other processes out of
\* the four durable steps.
StepsUndisturbed ==
    \A t \in DOMAIN job :
       /\ job[t].pc = "pend" => pending = <<>> /\ anchor = db
       /\ job[t].pc = "commit" => pending = job[t].succ /\ anchor = db
       /\ job[t].pc = "anchor" => pending = job[t].succ /\ <<db>> = pending
       /\ job[t].pc = "clear" => pending = job[t].succ /\ <<db>> = pending
                                 /\ anchor = db

\* A store behind the last committed state is never classified as one that
\* may serve or may be repaired (classify_recovery fails closed).
RolledBackStaysClosed ==
    db # tip => Classify(anchor, pending, db) \in
                   {"FAIL_CLOSED_CONTRADICTION", "FAIL_CLOSED_UNPROVEN_COMMIT",
                    "FAIL_CLOSED_OWNER_RESOLUTION"}

\* An answer names a transition that stays recorded under its command id:
\* no crash, recovery or retry loses or replaces it in the store's history.
AnsweredIsRecorded ==
    db = tip => \A a \in acked : \E r \in Row(a.id) : r.state = a.state

\* Every sequence number of the store is the work of exactly one command:
\* a retried or duplicated command is never applied twice.
EachStepOneCommand ==
    /\ {r.state.seq : r \in commands} = 1 .. db.seq
    /\ \A r, s \in commands : r.id = s.id \/ r.state.seq = s.state.seq => r = s

\* Exactly one key may sign and it is the current one (keys.py).
OneSigningKey == {k \in Keys : db.keys[k] = "SIGN_CURRENT"} = {db.key}

\* While the service holds a consumer's fence, the authority the consumer
\* was admitted under is the one in force.
FenceStable ==
    job["runtime"].pc = "hold" =>
        LET e == client.env[1] IN
        e.head = db.head /\ e.gen = db.gen /\ db.status = "ACTIVE"

\* A transition that reached the database before the host died is completed
\* by the restart: the witness comes back to one coherent state.
CommittedIsCompleted ==
    (up = "down" /\ pending = <<db>>) ~> (pending = <<>> /\ anchor = db)

\* A publication is whole: its four durable steps are not disturbed, each
\* sequence number is the work of one command, an answered command stays
\* recorded, and exactly the current key signs.
TransitionsWhole ==
    StepsUndisturbed /\ AnsweredIsRecorded /\ EachStepOneCommand /\ OneSigningKey

\* Whatever the Runtime signs, answers or fences rests on the last committed
\* state, in force at the time the caller read.
RuntimeCurrent == ServedIsCurrent /\ FenceStable

=============================================================================
