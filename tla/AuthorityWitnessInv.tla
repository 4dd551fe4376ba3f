------------------------- MODULE AuthorityWitnessInv -------------------------
(***************************************************************************)
(* The inductive invariant of the Authority Service, what its successors   *)
(* are, and that it survives the steps a caller takes before the durable   *)
(* ones: asking, waiting, and deciding from the state it finds.            *)
(***************************************************************************)
EXTENDS AuthorityWitness, TLAPS

-----------------------------------------------------------------------------
(* The states of the store                                                 *)

Threads == HostThreads \cup {"owner"}

First == Genesis(FirstAuthority, FirstKey)

\* Exactly the current key of a state may sign.
OneKey(s) == \A k \in Keys : s.keys[k] = "SIGN_CURRENT" <=> k = s.key

Sound(s) ==
    /\ s.seq \in Nat /\ s.hw \in Nat /\ s.id \in Authorities /\ s.key \in Keys
    /\ s.keys \in [Keys -> KeyStatuses]
    /\ OneKey(s)

\* What tells the successors of b apart that the three callers compute.
Made(t, b, s) ==
    /\ Sound(s) /\ s.seq = b.seq + 1
    /\ t = "management" => s.keys = b.keys /\ s.hw = b.hw /\ s.status # "EXPIRED"
    /\ t = "owner" => s.keys # b.keys
    /\ t = "runtime" => s.keys = b.keys /\ (s.status = "EXPIRED" \/ s.hw # b.hw)

-----------------------------------------------------------------------------
(* The files                                                               *)

\* The states the store has been in: the first one, and those a command made.
Past == {First} \cup {r.state : r \in commands}

History(d, cs) ==
    /\ Sound(d) /\ {r.state.seq : r \in cs} = 1 .. d.seq
    /\ \A r, s \in cs : r.id = s.id \/ r.state.seq = s.state.seq => r = s

\* The past of a store that was not rolled back, its backup and what was answered.
Chain ==
    /\ \A r \in commands : Sound(r.state)
    /\ db \in Past /\ backup.db \in Past
    /\ backup.db = db => backup.commands = commands
    /\ \A a \in acked : \E r \in commands : r.id = a.id /\ r.state = a.state

RolledBack ==
    db = backup.db /\ commands = backup.commands /\ pending # <<db>>

\* The pending witness names the last state committed, or one that was never committed.
PendingOK ==
    \/ pending = <<>> \/ pending = <<tip>>
    \/ pending = <<pending[1]>> /\ pending[1] \notin Past

Files ==
    /\ History(db, commands) /\ History(backup.db, backup.commands)
    /\ db = tip => Chain /\ PendingOK
    /\ db # tip => RolledBack
    /\ anchor = tip \/ pending = <<tip>>

-----------------------------------------------------------------------------
(* The callers                                                             *)

Early == {"turn", "file", "check", "pend", "commit"}
Durable == {"pend", "commit", "anchor", "clear", "sign", "hold"}
Locked == Durable \cup {"check"}

Shape(t) ==
    /\ job[t] = [pc |-> job[t].pc, kind |-> job[t].kind, id |-> job[t].id,
                 payload |-> job[t].payload, succ |-> job[t].succ, now |-> job[t].now]
    /\ job[t].now \in Nat
    /\ job[t].kind \in {"none", "publish", "retry"} \/ t = "runtime"
    /\ job[t].kind = "publish" /\ job[t].pc \in {"turn", "file", "check"} =>
         job[t].succ # <<>>

\* A successor of a state of the past that is not itself one.
Novel(t, succ) ==
    /\ succ = <<succ[1]>> /\ succ[1] \notin Past
    /\ \E b \in Past : Made(t, b, succ[1])

Posted(t) ==
    db = tip /\ job[t].pc \in Early /\ job[t].succ # <<>> => Novel(t, job[t].succ)

Undisturbed(t) ==
    /\ job[t].pc = "pend" => pending = <<>> /\ anchor = db
    /\ job[t].pc = "commit" => pending = job[t].succ /\ anchor = db
    /\ job[t].pc = "anchor" => pending = job[t].succ /\ <<db>> = pending
    /\ job[t].pc = "clear" => pending = job[t].succ /\ <<db>> = pending /\ anchor = db

Recorded(t) ==
    job[t].pc \in {"anchor", "clear"} /\ job[t].kind = "publish" =>
      \E r \in commands : r.id = job[t].id /\ r.state = db

Admits(t) ==
    job[t].kind = "admit" /\ job[t].pc \in {"pend", "commit", "anchor", "clear"} =>
      /\ job[t].succ[1].status = "ACTIVE"
      /\ job[t].now < Window[job[t].succ[1].id].until

Served(t) ==
    job[t].pc \in {"sign", "hold"} =>
      /\ file = t /\ db = tip /\ anchor = tip /\ pending = <<>>
      /\ db.status = "ACTIVE" /\ job[t].now < Window[db.id].until

Inside(t) ==
    /\ job[t].pc \in Locked => file = t
    /\ job[t].pc \in Durable => db = tip
    /\ job[t].pc \in {"pend", "commit"} => job[t].succ # <<>>
    /\ Undisturbed(t) /\ Recorded(t) /\ Admits(t) /\ Served(t)

ClientShape == client = [phase |-> client.phase, env |-> client.env]

JobsOK ==
    /\ job = [t \in Threads |-> job[t]] /\ clock \in Nat /\ ClientShape
    /\ \A t \in Threads : Shape(t) /\ Posted(t) /\ Inside(t)

\* The inductive invariant.
AuthorityInv == JobsOK /\ Files /\ FenceStable

-----------------------------------------------------------------------------
(* What the successors are                                                 *)

\* The first state is sound.
LEMMA FirstSound == Sound(First) /\ First.seq = 0
  <1>1. First.keys = [x \in Keys |-> IF x = FirstKey THEN "SIGN_CURRENT" ELSE "NONE"]
    BY DEF First, Genesis
  <1>2. First.seq = 0 /\ First.hw = 0 /\ First.id = FirstAuthority /\ First.key = FirstKey
    BY DEF First, Genesis
  <1>3. First.keys \in [Keys -> KeyStatuses]
    BY <1>1 DEF KeyStatuses
  <1>4. OneKey(First)
    BY <1>1, <1>2 DEF OneKey
  <1> QED
    BY <1>2, <1>3, <1>4, AuthorityAssumption DEF Sound

\* The fields of a state that only its head is replaced in.
LEMMA HeadReplaced ==
  ASSUME NEW seq, NEW id, NEW gen, NEW status, NEW head, NEW hw, NEW key, NEW keys, NEW s,
         s = WithHead([seq |-> seq, id |-> id, gen |-> gen, status |-> status,
                       head |-> head, hw |-> hw, key |-> key, keys |-> keys])
  PROVE  /\ s.seq = seq /\ s.id = id /\ s.gen = gen /\ s.status = status
         /\ s.hw = hw /\ s.key = key /\ s.keys = keys
  BY DEF WithHead

\* A management operation keeps the keys and the trusted time.
LEMMA ManagedMade ==
  ASSUME NEW b, Sound(b), NEW op \in {"REVOKE", "ROTATE_SUPERSEDE", "ENROL_ACTIVATE"},
         NEW a \in Authorities
  PROVE  Made("management", b, Managed(b, op, a))
  <1> DEFINE s == Managed(b, op, a)
  <1>1. /\ s.seq = b.seq + 1 /\ s.hw = b.hw /\ s.key = b.key /\ s.keys = b.keys
        /\ s.id \in Authorities /\ s.status # "EXPIRED"
    <2>1. CASE op = "REVOKE"
      <3>1. s = WithHead(After(b, b.id, b.gen, "REVOKED", b.hw))
        BY <2>1 DEF Managed, ManagedBody
      <3> QED
        BY <3>1, HeadReplaced DEF After, Sound
    <2>2. CASE op = "ROTATE_SUPERSEDE"
      <3>1. s = WithHead(After(b, b.id, b.gen, "SUPERSEDED", b.hw))
        BY <2>2 DEF Managed, ManagedBody
      <3> QED
        BY <3>1, HeadReplaced DEF After, Sound
    <2>3. CASE op = "ENROL_ACTIVATE"
      <3>1. s = WithHead(After(b, a, b.gen + 1, "ACTIVE", b.hw))
        BY <2>3 DEF Managed, ManagedBody
      <3> QED
        BY <3>1, HeadReplaced DEF After, Sound
    <2> QED
      BY <2>1, <2>2, <2>3
  <1> HIDE DEF s
  <1>2. Sound(s)
    BY <1>1 DEF Sound, OneKey
  <1>3. Made("management", b, s)
    BY <1>1, <1>2 DEF Made
  <1> QED
    BY <1>3 DEF s

\* A key operation changes the keys, and one key signs afterwards.
LEMMA KeyedMade ==
  ASSUME NEW b, Sound(b), NEW op \in {"PROVISION", "ACTIVATE", "RETIRE"}, NEW k \in Keys,
         CanKey(b, op, k)
  PROVE  Made("owner", b, Keyed(b, op, k))
  <1> DEFINE s == Keyed(b, op, k)
  <1>1. /\ s.seq = b.seq + 1 /\ s.hw = b.hw /\ s.id = b.id
        /\ s.key \in Keys /\ s.keys \in [Keys -> KeyStatuses]
        /\ OneKey(s) /\ s.keys # b.keys
    <2>1. CASE op = "PROVISION"
      <3> DEFINE keys == [b.keys EXCEPT ![k] = "VERIFY_ONLY"]
      <3>1. s = KeySuccessor(b, keys, b.key) /\ b.keys[k] = "NONE"
        BY <2>1 DEF Keyed, CanKey, CanProvision, Provisioned
      <3>2. /\ s.seq = b.seq + 1 /\ s.hw = b.hw /\ s.id = b.id
            /\ s.key = b.key /\ s.keys = keys
        BY <3>1, HeadReplaced DEF KeySuccessor
      <3>3. /\ keys \in [Keys -> KeyStatuses] /\ keys[k] = "VERIFY_ONLY"
            /\ \A x \in Keys \ {k} : keys[x] = b.keys[x]
        BY DEF Sound, KeyStatuses
      <3> HIDE DEF keys
      <3> QED
        BY <3>1, <3>2, <3>3 DEF Sound, OneKey
    <2>2. CASE op = "ACTIVATE"
      <3> DEFINE keys == [x \in Keys |-> IF x = k THEN "SIGN_CURRENT"
                                         ELSE IF b.keys[x] = "SIGN_CURRENT" THEN "VERIFY_ONLY"
                                         ELSE b.keys[x]]
      <3>1. s = KeySuccessor(b, keys, k) /\ b.keys[k] = "VERIFY_ONLY"
        BY <2>2 DEF Keyed, CanKey, CanActivate, Activated
      <3>2. /\ s.seq = b.seq + 1 /\ s.hw = b.hw /\ s.id = b.id
            /\ s.key = k /\ s.keys = keys
        BY <3>1, HeadReplaced DEF KeySuccessor
      <3>3. keys \in [Keys -> KeyStatuses]
        BY DEF Sound, KeyStatuses
      <3>4. \A x \in Keys : keys[x] = "SIGN_CURRENT" <=> x = k
        OBVIOUS
      <3> HIDE DEF keys
      <3> QED
        BY <3>1, <3>2, <3>3, <3>4 DEF Sound, OneKey
    <2>3. CASE op = "RETIRE"
      <3> DEFINE keys == [b.keys EXCEPT ![k] = "RETIRED"]
      <3>1. s = KeySuccessor(b, keys, b.key) /\ b.keys[k] = "VERIFY_ONLY" /\ k # b.key
        BY <2>3 DEF Keyed, CanKey, CanRetire, Retired
      <3>2. /\ s.seq = b.seq + 1 /\ s.hw = b.hw /\ s.id = b.id
            /\ s.key = b.key /\ s.keys = keys
        BY <3>1, HeadReplaced DEF KeySuccessor
      <3>3. /\ keys \in [Keys -> KeyStatuses] /\ keys[k] = "RETIRED"
            /\ \A x \in Keys \ {k} : keys[x] = b.keys[x]
        BY DEF Sound, KeyStatuses
      <3> HIDE DEF keys
      <3> QED
        BY <3>1, <3>2, <3>3 DEF Sound, OneKey
    <2> QED
      BY <2>1, <2>2, <2>3
  <1> HIDE DEF s
  <1>2. Sound(s)
    BY <1>1 DEF Sound
  <1>3. Made("owner", b, s)
    BY <1>1, <1>2 DEF Made
  <1> QED
    BY <1>3 DEF s

\* Expiry, and the advance of trusted time to a later one, keep the keys.
LEMMA RuntimeMade ==
  ASSUME NEW b, Sound(b), NEW now \in Nat
  PROVE  /\ Made("runtime", b, Expired(b, now))
         /\ now > b.hw => Made("runtime", b, TimeAdvanced(b, now))
         /\ TimeAdvanced(b, now).status = b.status /\ TimeAdvanced(b, now).id = b.id
  <1> DEFINE e == Expired(b, now)
             a == TimeAdvanced(b, now)
  <1>1. /\ e.seq = b.seq + 1 /\ e.hw = now /\ e.id = b.id /\ e.key = b.key
        /\ e.keys = b.keys /\ e.status = "EXPIRED"
    BY HeadReplaced DEF Expired, After
  <1>2. /\ a.seq = b.seq + 1 /\ a.hw = now /\ a.id = b.id /\ a.key = b.key
        /\ a.keys = b.keys /\ a.status = b.status
    BY DEF TimeAdvanced, After
  <1> HIDE DEF e, a
  <1>3. Sound(e)
    BY <1>1 DEF Sound, OneKey
  <1>4. Sound(a)
    BY <1>2 DEF Sound, OneKey
  <1>5. Made("runtime", b, e)
    BY <1>1, <1>3 DEF Made
  <1>6. now > b.hw => Made("runtime", b, a)
    BY <1>2, <1>4 DEF Made, Sound
  <1> QED
    BY <1>2, <1>5, <1>6 DEF e, a

\* Two callers never compute the same successor of one state.
LEMMA MadeApart ==
  ASSUME NEW t \in Threads, NEW u \in Threads, t # u, NEW b, NEW s,
         Made(t, b, s), Made(u, b, s)
  PROVE  FALSE
  BY DEF Made, Threads, HostThreads

-----------------------------------------------------------------------------
(* What the witness says                                                   *)

\* A service that may serve has the last state ever committed.
LEMMA ServingIsTip ==
  ASSUME Files, Serving
  PROVE  db = tip /\ anchor = tip /\ pending = <<>>
  <1>1. anchor = db /\ pending = <<>>
    BY DEF Serving, Operational, Classify
  <1> QED
    BY <1>1 DEF Files

\* What recover() repairs is the last state ever committed, and pending names it.
LEMMA RepairIsTip ==
  ASSUME Files,
         Classify(anchor, pending, db) \in
           {"COMPLETE_ANCHOR_ADVANCE", "COMPLETE_PENDING_RESOLUTION"}
  PROVE  /\ db = tip /\ pending = <<db>>
         /\ Classify(anchor, pending, db) = "COMPLETE_PENDING_RESOLUTION" => anchor = db
  <1>1. /\ pending = <<db>>
        /\ Classify(anchor, pending, db) = "COMPLETE_PENDING_RESOLUTION" => anchor = db
    BY DEF Classify
  <1> QED
    BY <1>1 DEF Files, RolledBack

\* The states of the past are sound and no later than the current one.
LEMMA PastSound ==
  ASSUME Files, db = tip, NEW s \in Past
  PROVE  Sound(s) /\ s.seq \in 0 .. db.seq
  <1>1. CASE s = First
    <2>1. db.seq \in Nat
      BY DEF Files, History, Sound
    <2> QED
      BY <1>1, <2>1, FirstSound
  <1>2. CASE s # First
    <2>1. PICK r \in commands : s = r.state
      BY <1>2 DEF Past
    <2>2. r.state.seq \in 1 .. db.seq
      BY <2>1 DEF Files, History
    <2>3. Sound(r.state) /\ db.seq \in Nat
      BY <2>1 DEF Files, Chain, History, Sound
    <2> QED
      BY <2>1, <2>2, <2>3
  <1> QED
    BY <1>1, <1>2

\* A sequence number belongs to one state of the past.
LEMMA PastInjective ==
  ASSUME Files, db = tip, NEW s \in Past, NEW u \in Past, s.seq = u.seq
  PROVE  s = u
  <1>1. \A r \in commands : r.state.seq # 0
    <2>1. \A r \in commands : r.state.seq \in 1 .. db.seq
      BY DEF Files, History
    <2> QED
      BY <2>1
  <1>2. First.seq = 0
    BY FirstSound
  <1>3. \A r, q \in commands : r.state.seq = q.state.seq => r.state = q.state
    BY DEF Files, History
  <1> QED
    BY <1>1, <1>2, <1>3 DEF Past

\* A successor of the current state is not a state of the past.
LEMMA SuccessorNovel ==
  ASSUME Files, db = tip, NEW t, NEW s, Made(t, db, s)
  PROVE  Novel(t, <<s>>)
  <1>1. db.seq \in Nat /\ s.seq = db.seq + 1
    BY DEF Files, History, Sound, Made
  <1>2. s \notin Past
    <2>1. SUFFICES ASSUME s \in Past PROVE FALSE
      OBVIOUS
    <2>2. s.seq \in 0 .. db.seq
      BY <2>1, PastSound
    <2> QED
      BY <1>1, <2>2
  <1>3. db \in Past
    BY DEF Files, Chain
  <1> QED
    BY <1>2, <1>3 DEF Novel

-----------------------------------------------------------------------------
(* Steps of one caller                                                     *)

\* Moving on changes the place of one caller and nothing else.
LEMMA GoFacts ==
  ASSUME JobsOK, NEW t \in Threads, NEW pc, Go(t, pc)
  PROVE  /\ job' = [u \in Threads |-> job'[u]]
         /\ \A u \in Threads \ {t} : job'[u] = job[u]
         /\ job'[t] = [pc |-> pc, kind |-> job[t].kind, id |-> job[t].id,
                       payload |-> job[t].payload, succ |-> job[t].succ,
                       now |-> job[t].now]
  <1>1. job = [u \in Threads |-> job[u]]
    BY DEF JobsOK
  <1>2. job' = [job EXCEPT ![t] = [job[t] EXCEPT !.pc = pc]]
    BY DEF Go
  <1>3. job' = [u \in Threads |-> IF u = t THEN [job[t] EXCEPT !.pc = pc] ELSE job[u]]
    BY <1>1, <1>2
  <1>4. Shape(t)
    BY DEF JobsOK
  <1>5. job'[t] = [job[t] EXCEPT !.pc = pc]
    BY <1>3
  <1>6. [job[t] EXCEPT !.pc = pc] =
          [pc |-> pc, kind |-> job[t].kind, id |-> job[t].id,
           payload |-> job[t].payload, succ |-> job[t].succ, now |-> job[t].now]
    BY <1>4 DEF Shape
  <1>7. job' = [u \in Threads |-> job'[u]] /\ \A u \in Threads \ {t} : job'[u] = job[u]
    BY <1>3
  <1> QED
    BY <1>5, <1>6, <1>7

\* Taking up a job changes what one caller does and nothing else.
LEMMA SetFacts ==
  ASSUME JobsOK, NEW t \in Threads, NEW j, job' = [job EXCEPT ![t] = j]
  PROVE  /\ job' = [u \in Threads |-> job'[u]]
         /\ \A u \in Threads \ {t} : job'[u] = job[u]
         /\ job'[t] = j
  <1>1. job = [u \in Threads |-> job[u]]
    BY DEF JobsOK
  <1>2. job' = [u \in Threads |-> IF u = t THEN j ELSE job[u]]
    BY <1>1
  <1> QED
    BY <1>2, Zenon

\* Only one caller is past the file lock.
LEMMA Apart ==
  ASSUME JobsOK, NEW t \in Threads, file = t, NEW u \in Threads \ {t}
  PROVE  job[u].pc \notin Locked
  BY DEF JobsOK, Inside

\* Nothing is asked of a caller that is not past the file lock.
LEMMA OutsideInside ==
  ASSUME NEW t, job[t].pc \notin Locked
  PROVE  Inside(t)
  BY Zenon DEF Inside, Undisturbed, Recorded, Admits, Served, Locked, Durable

\* A caller the step is not of, and which keeps the lock if it has it.
LEMMA Bystander ==
  ASSUME NEW u \in Threads, Shape(u), Posted(u), Inside(u), job'[u] = job[u],
         file = u => file' = u, UNCHANGED <<db, commands, anchor, pending, tip>>
  PROVE  Shape(u)' /\ Posted(u)' /\ Inside(u)'
  <1>1. Shape(u)'
    BY Zenon DEF Shape
  <1>2. Posted(u)'
    BY Zenon DEF Posted, Novel, Past
  <1>3. Undisturbed(u)' /\ Recorded(u)' /\ Admits(u)'
    BY DEF Inside, Undisturbed, Recorded, Admits
  <1>4. Served(u)'
    BY DEF Inside, Served
  <1> QED
    BY <1>1, <1>2, <1>3, <1>4, Zenon DEF Inside

\* A caller that keeps its successor while the store stays keeps what is known of it.
LEMMA StillPosted ==
  ASSUME NEW t, Posted(t), job[t].pc \in Early, job'[t].succ = job[t].succ,
         UNCHANGED <<db, commands, tip>>
  PROVE  Posted(t)'
  BY DEF Posted, Novel, Past

\* A step of one caller that leaves the store and the witness alone.
LEMMA QuietStep ==
  ASSUME AuthorityInv, NEW t \in Threads,
         job' = [u \in Threads |-> job'[u]],
         \A u \in Threads \ {t} : job'[u] = job[u] /\ (file = u => file' = u),
         UNCHANGED <<db, commands, anchor, pending, tip, client, clock>>,
         Files', Shape(t)', Posted(t)', Inside(t)', job'[t].pc # "hold"
  PROVE  AuthorityInv'
  <1>1. \A u \in Threads : Shape(u)' /\ Posted(u)' /\ Inside(u)'
    <2>1. TAKE u \in Threads
    <2>2. CASE u = t
      BY <2>2
    <2>3. CASE u # t
      <3>1. Shape(u) /\ Posted(u) /\ Inside(u)
        BY DEF AuthorityInv, JobsOK
      <3>2. job'[u] = job[u] /\ (file = u => file' = u)
        BY <2>3
      <3> QED
        BY <3>1, <3>2, Bystander
    <2> QED
      BY <2>2, <2>3
  <1>2. clock' \in Nat /\ ClientShape'
    BY DEF AuthorityInv, JobsOK, ClientShape
  <1>3. JobsOK'
    BY <1>1, <1>2 DEF JobsOK
  <1>4. FenceStable'
    <2>1. CASE t = "runtime"
      BY <2>1 DEF FenceStable
    <2>2. CASE t # "runtime"
      <3>1. job'["runtime"] = job["runtime"]
        BY <2>2 DEF Threads, HostThreads
      <3> QED
        BY <3>1 DEF AuthorityInv, FenceStable
    <2> QED
      BY <2>1, <2>2
  <1> QED
    BY <1>3, <1>4 DEF AuthorityInv

\* A step of the caller that holds the file lock.
LEMMA HolderStep ==
  ASSUME AuthorityInv, NEW t \in Threads, file = t,
         job' = [u \in Threads |-> job'[u]],
         \A u \in Threads \ {t} : job'[u] = job[u] /\ Posted(u)',
         Files', clock' = clock, ClientShape', Shape(t)', Posted(t)', Inside(t)',
         FenceStable' \/ job'[t].pc # "hold"
  PROVE  AuthorityInv'
  <1>1. \A u \in Threads \ {t} : job'[u].pc \notin Locked
    BY Apart DEF AuthorityInv
  <1>2. \A u \in Threads : Shape(u)' /\ Posted(u)' /\ Inside(u)'
    <2>1. TAKE u \in Threads
    <2>2. CASE u = t
      BY <2>2
    <2>3. CASE u # t
      <3>1. Shape(u) /\ job'[u] = job[u] /\ Posted(u)' /\ job'[u].pc \notin Locked
        BY <1>1, <2>3 DEF AuthorityInv, JobsOK
      <3>2. Shape(u)'
        BY <3>1, Zenon DEF Shape
      <3>3. Inside(u)'
        BY <3>1 DEF Inside, Undisturbed, Recorded, Admits, Served, Locked, Durable
      <3> QED
        BY <3>1, <3>2, <3>3
    <2> QED
      BY <2>2, <2>3
  <1>3. JobsOK'
    BY <1>2 DEF JobsOK, AuthorityInv
  <1>4. FenceStable'
    <2>1. CASE t = "runtime"
      BY <2>1 DEF FenceStable
    <2>2. CASE t # "runtime"
      <3>1. job'["runtime"].pc # "hold"
        BY <1>1, <2>2 DEF Threads, HostThreads, Locked, Durable
      <3> QED
        BY <3>1 DEF FenceStable
    <2> QED
      BY <2>1, <2>2
  <1> QED
    BY <1>3, <1>4 DEF AuthorityInv

\* The files are what they are known to be as long as nobody writes them.
LEMMA FilesStay ==
  ASSUME Files, UNCHANGED <<db, commands, anchor, pending, tip, acked, backup>>
  PROVE  Files'
  <1>1. Past' = Past
    BY DEF Past
  <1>2. Chain => Chain'
    BY <1>1 DEF Chain
  <1>3. PendingOK => PendingOK'
    BY <1>1 DEF PendingOK
  <1> QED
    BY <1>2, <1>3 DEF Files, RolledBack

\* An idle caller owes nothing.
LEMMA IdleOK ==
  ASSUME NEW t \in Threads, job'[t] = IdleJob
  PROVE  Shape(t)' /\ Posted(t)' /\ Inside(t)' /\ job'[t].pc # "hold"
  <1>1. /\ job'[t].pc = "idle" /\ job'[t].kind = "none" /\ job'[t].now = 0
        /\ job'[t].id = <<>> /\ job'[t].payload = <<>> /\ job'[t].succ = <<>>
    BY DEF IdleJob
  <1>2. Shape(t)'
    BY <1>1 DEF Shape, IdleJob
  <1>3. Posted(t)'
    BY <1>1 DEF Posted, Early
  <1>4. Inside(t)'
    BY <1>1 DEF Inside, Undisturbed, Recorded, Admits, Served, Locked, Durable
  <1> QED
    BY <1>1, <1>2, <1>3, <1>4

\* A call that ends without writing.
LEMMA EndStep ==
  ASSUME AuthorityInv, NEW t \in Threads, End(t), Files',
         UNCHANGED <<db, commands, anchor, pending, tip, client, clock>>
  PROVE  AuthorityInv'
  <1>1. /\ job' = [u \in Threads |-> job'[u]] /\ job'[t] = IdleJob
        /\ \A u \in Threads \ {t} : job'[u] = job[u]
    BY SetFacts, Zenon DEF AuthorityInv, End
  <1>2. \A u \in Threads \ {t} : file = u => file' = u
    BY DEF End, Unlocked
  <1>3. Shape(t)' /\ Posted(t)' /\ Inside(t)' /\ job'[t].pc # "hold"
    BY <1>1, IdleOK
  <1> QED
    BY <1>1, <1>2, <1>3, QuietStep

-----------------------------------------------------------------------------
(* Requests, and the way to the lock                                       *)

\* A caller takes up a request: nothing of it is past the lock, and a successor it
\* carries was computed from the current state.
LEMMA RequestStep ==
  ASSUME AuthorityInv, NEW t \in Threads, NEW j, job' = [job EXCEPT ![t] = j],
         j = [pc |-> j.pc, kind |-> j.kind, id |-> j.id, payload |-> j.payload,
              succ |-> j.succ, now |-> j.now],
         j.pc \in {"turn", "file"}, j.now \in Nat,
         j.kind \in {"none", "publish", "retry"} \/ t = "runtime",
         j.kind = "publish" => j.succ # <<>>,
         db = tip /\ j.succ # <<>> => Novel(t, j.succ),
         UNCHANGED <<db, commands, anchor, pending, tip, client, clock, file, acked, backup>>
  PROVE  AuthorityInv'
  <1>1. /\ job' = [u \in Threads |-> job'[u]]
        /\ \A u \in Threads \ {t} : job'[u] = job[u]
        /\ job'[t] = j
    BY SetFacts, Zenon DEF AuthorityInv
  <1>2. Shape(t)'
    BY <1>1 DEF Shape
  <1>3. Posted(t)'
    BY <1>1, Zenon DEF Posted, Novel, Past
  <1>4. Inside(t)'
    BY <1>1 DEF Inside, Undisturbed, Recorded, Admits, Served, Locked, Durable
  <1>5. Files'
    BY FilesStay DEF AuthorityInv
  <1> QED
    BY <1>1, <1>2, <1>3, <1>4, <1>5, QuietStep, Zenon

\* A management request keeps the invariant: its successor is of the current state.
LEMMA ManagementRequestOK ==
  ASSUME AuthorityInv, NEW c \in Cmds, NEW a \in Authorities, NEW h,
         NEW op \in ManagementOps(a), ManagementRequest(c, op, a, h)
  PROVE  AuthorityInv'
  <1> DEFINE j == [pc |-> "turn", kind |-> IF h = db.head THEN "publish" ELSE "retry",
                   id |-> <<"CMD", c>>, payload |-> <<op, a, h>>, now |-> 0,
                   succ |-> IF h = db.head THEN <<Managed(db, op, a)>> ELSE <<>>]
  <1>1. job' = [job EXCEPT !["management"] = j]
    BY DEF ManagementRequest
  <1>2. UNCHANGED <<db, commands, anchor, pending, tip, client, clock, file, acked, backup>>
    BY DEF ManagementRequest, store, witness, locks, world, ghosts
  <1>3. op \in {"REVOKE", "ROTATE_SUPERSEDE", "ENROL_ACTIVATE"}
    BY DEF ManagementOps
  <1>4. Sound(db)
    BY DEF AuthorityInv, Files, History
  <1>5. Made("management", db, Managed(db, op, a))
    BY <1>3, <1>4, ManagedMade
  <1>6. db = tip => Novel("management", <<Managed(db, op, a)>>)
    BY <1>5, SuccessorNovel DEF AuthorityInv
  <1>7. /\ j.pc \in {"turn", "file"} /\ j.now \in Nat
        /\ j.kind \in {"none", "publish", "retry"} /\ (j.kind = "publish" => j.succ # <<>>)
    OBVIOUS
  <1>8. db = tip /\ j.succ # <<>> => Novel("management", j.succ)
    BY <1>6
  <1>9. j = [pc |-> j.pc, kind |-> j.kind, id |-> j.id, payload |-> j.payload,
             succ |-> j.succ, now |-> j.now]
    OBVIOUS
  <1>10. "management" \in Threads
    BY DEF Threads, HostThreads
  <1> HIDE DEF j
  <1> QED
    BY <1>1, <1>2, <1>7, <1>8, <1>9, <1>10, RequestStep, Zenon

\* A request of the owner's key tool keeps it: its successor has other keys.
LEMMA KeyRequestOK ==
  ASSUME AuthorityInv, NEW c \in Cmds, NEW k \in Keys,
         NEW op \in {"PROVISION", "ACTIVATE", "RETIRE"}, KeyRequest(c, op, k)
  PROVE  AuthorityInv'
  <1> DEFINE j == [pc |-> "file", kind |-> "publish", id |-> <<"CMD", c>>,
                   payload |-> <<op, k>>, now |-> 0, succ |-> <<Keyed(db, op, k)>>]
  <1>1. job' = [job EXCEPT !["owner"] = j]
    BY DEF KeyRequest
  <1>2. UNCHANGED <<db, commands, anchor, pending, tip, client, clock, file, acked, backup>>
    BY Zenon DEF KeyRequest, store, witness, locks, world, ghosts
  <1>3. Sound(db) /\ CanKey(db, op, k)
    BY DEF AuthorityInv, Files, History, KeyRequest
  <1>4. Made("owner", db, Keyed(db, op, k))
    BY <1>3, KeyedMade
  <1>5. db = tip => Novel("owner", <<Keyed(db, op, k)>>)
    BY <1>4, SuccessorNovel DEF AuthorityInv
  <1>6. /\ j.pc \in {"turn", "file"} /\ j.now \in Nat
        /\ j.kind \in {"none", "publish", "retry"} /\ (j.kind = "publish" => j.succ # <<>>)
    OBVIOUS
  <1>7. db = tip /\ j.succ # <<>> => Novel("owner", j.succ)
    BY <1>5
  <1>8. j = [pc |-> j.pc, kind |-> j.kind, id |-> j.id, payload |-> j.payload,
             succ |-> j.succ, now |-> j.now]
    OBVIOUS
  <1>9. "owner" \in Threads
    BY DEF Threads
  <1> HIDE DEF j
  <1> QED
    BY <1>1, <1>2, <1>6, <1>7, <1>8, <1>9, RequestStep, Zenon

\* admit(), consumption_fence() and recover() are taken up by the runtime thread.
LEMMA RuntimeRequestOK ==
  ASSUME AuthorityInv, AdmitRequest \/ FenceRequest \/ Start
  PROVE  AuthorityInv'
  <1>1. UNCHANGED <<db, commands, anchor, pending, tip, client, clock, file, acked, backup>>
    BY Zenon DEF AdmitRequest, FenceRequest, Start, store, witness, locks, world, ghosts
  <1>2. PICK kind \in {"admit", "fence", "recover"} :
          job' = [job EXCEPT !["runtime"] = RuntimeJob(kind)]
    BY DEF AdmitRequest, FenceRequest, Start
  <1> DEFINE j == RuntimeJob(kind)
  <1>3. /\ j.pc \in {"turn", "file"} /\ j.now \in Nat /\ j.kind # "publish" /\ j.succ = <<>>
        /\ j = [pc |-> j.pc, kind |-> j.kind, id |-> j.id, payload |-> j.payload,
                succ |-> j.succ, now |-> j.now]
    BY DEF RuntimeJob, AuthorityInv, JobsOK
  <1>4. job' = [job EXCEPT !["runtime"] = j] /\ "runtime" \in Threads
    BY <1>2 DEF Threads, HostThreads
  <1> HIDE DEF j
  <1> QED
    BY <1>1, <1>3, <1>4, RequestStep, Zenon

\* The gate, then the file lock.
LEMMA TakeOK ==
  ASSUME AuthorityInv, NEW t \in Threads, TakeTurn(t) \/ TakeFile(t)
  PROVE  AuthorityInv'
  <1>1. UNCHANGED <<db, commands, anchor, pending, tip, client, clock, acked, backup>>
    BY Zenon DEF TakeTurn, TakeFile, store, witness, locks, world, ghosts
  <1>2. PICK pc \in {"file", "check"} :
          /\ Go(t, pc) /\ job[t].pc \in {"turn", "file"}
          /\ pc = "check" => file' = t
          /\ file' = file \/ file = "none"
    BY DEF TakeTurn, TakeFile
  <1>3. JobsOK /\ Shape(t) /\ Posted(t)
    BY DEF AuthorityInv, JobsOK
  <1>4. /\ job' = [u \in Threads |-> job'[u]]
        /\ \A u \in Threads \ {t} : job'[u] = job[u]
        /\ job'[t] = [pc |-> pc, kind |-> job[t].kind, id |-> job[t].id,
                      payload |-> job[t].payload, succ |-> job[t].succ, now |-> job[t].now]
    BY <1>2, <1>3, GoFacts
  <1>5. /\ job'[t].pc = pc /\ job'[t].kind = job[t].kind /\ job'[t].succ = job[t].succ
        /\ job'[t].now = job[t].now /\ job'[t].id = job[t].id
        /\ job'[t].payload = job[t].payload
    BY <1>4
  <1>6. Shape(t)'
    BY <1>2, <1>3, <1>4, <1>5, Zenon DEF Shape
  <1>7. Posted(t)'
    BY <1>1, <1>2, <1>3, <1>5, StillPosted, Zenon DEF Early
  <1>8. Inside(t)'
    BY <1>2, <1>5 DEF Inside, Undisturbed, Recorded, Admits, Served, Locked, Durable
  <1>9. Files'
    BY <1>1, FilesStay DEF AuthorityInv
  <1>10. \A u \in Threads \ {t} : file = u => file' = u
    BY <1>2, Zenon DEF Threads, HostThreads
  <1>11. job'[t].pc # "hold"
    BY <1>2, <1>5
  <1> QED
    BY <1>1, <1>4, <1>6, <1>7, <1>8, <1>9, <1>10, <1>11, QuietStep, Zenon

\* The calls that end without an effect on the files or on the consumer.
LEMMA EndOK ==
  ASSUME AuthorityInv, NEW t \in Threads,
         \/ TimeOut(t) \/ Refuse(t) \/ AdmitRefused(t) \/ CommitRefused(t) \/ Fault(t)
         \/ SignRefused(t) \/ FenceRefused(t)
  PROVE  AuthorityInv'
  <1>1. End(t) /\ UNCHANGED <<db, commands, anchor, pending, tip, client, clock, acked, backup>>
    BY DEF TimeOut, Refuse, AdmitRefused, CommitRefused, Fault, SignRefused, FenceRefused,
           store, witness, world, ghosts
  <1>2. Files'
    BY <1>1, FilesStay DEF AuthorityInv
  <1> QED
    BY <1>1, <1>2, EndStep

-----------------------------------------------------------------------------
(* Under the lock                                                          *)

\* What a caller past the lock knows.
LEMMA HolderKnows ==
  ASSUME AuthorityInv, NEW t \in Threads, job[t].pc \in Locked
  PROVE  /\ file = t /\ JobsOK /\ Files /\ Shape(t) /\ Posted(t) /\ Inside(t)
         /\ \A u \in Threads \ {t} : Posted(u)
  BY DEF AuthorityInv, JobsOK, Inside

\* Answers are only added for a row that is there.
LEMMA AnswerFiles ==
  ASSUME Files, NEW i, \E r \in commands : r.id = i /\ r.state = db,
         acked' = acked \cup {[id |-> i, state |-> db]},
         UNCHANGED <<db, commands, anchor, pending, tip, backup>>
  PROVE  Files'
  <1>1. Past' = Past
    BY Zenon DEF Past
  <1>2. Chain => Chain'
    BY <1>1 DEF Chain
  <1>3. PendingOK => PendingOK'
    BY <1>1 DEF PendingOK
  <1> QED
    BY <1>2, <1>3 DEF Files, RolledBack

\* An answer to a command that is recorded keeps it (command_result).
LEMMA AnswerOK ==
  ASSUME AuthorityInv, NEW t \in Threads, Answer(t)
  PROVE  AuthorityInv'
  <1>1. /\ End(t) /\ UNCHANGED <<db, commands, anchor, pending, tip, client, clock, backup>>
        /\ acked' = acked \cup {[id |-> job[t].id, state |-> db]}
        /\ \E r \in commands : r.id = job[t].id /\ r.state = db
    BY Zenon DEF Answer, Committed, Row, store, witness, world
  <1>2. Files'
    BY <1>1, AnswerFiles, Zenon DEF AuthorityInv
  <1> QED
    BY <1>1, <1>2, EndStep, Zenon

\* A caller that moves on under the lock.
LEMMA ProceedOK ==
  ASSUME AuthorityInv, NEW t \in Threads, Proceed(t)
  PROVE  AuthorityInv'
  <1>1. /\ job[t].pc = "check" /\ job[t].kind = "publish" /\ Serving /\ Go(t, "pend")
        /\ UNCHANGED <<db, commands, anchor, pending, tip, client, clock, file, acked, backup>>
    BY Zenon DEF Proceed, store, witness, locks, world, ghosts
  <1>2. file = t /\ JobsOK /\ Files /\ Shape(t) /\ Posted(t)
    BY <1>1, HolderKnows DEF Locked
  <1>3. db = tip /\ anchor = tip /\ pending = <<>>
    BY <1>1, <1>2, ServingIsTip, Zenon
  <1>4. /\ job' = [u \in Threads |-> job'[u]]
        /\ \A u \in Threads \ {t} : job'[u] = job[u]
        /\ job'[t] = [pc |-> "pend", kind |-> job[t].kind, id |-> job[t].id,
                      payload |-> job[t].payload, succ |-> job[t].succ, now |-> job[t].now]
    BY <1>1, <1>2, GoFacts
  <1>5. /\ job'[t].pc = "pend" /\ job'[t].kind = "publish" /\ job'[t].succ = job[t].succ
        /\ job'[t].now = job[t].now
    BY <1>1, <1>4
  <1>6. Shape(t)'
    BY <1>2, <1>4, SMTT(20) DEF Shape
  <1>7. Posted(t)'
    BY <1>1, <1>2, <1>5, StillPosted, Zenon DEF Early
  <1>8. job[t].succ # <<>>
    BY <1>1, <1>2, Zenon DEF Shape
  <1>9. Inside(t)'
    BY <1>1, <1>2, <1>3, <1>5, <1>8, Zenon
       DEF Inside, Undisturbed, Recorded, Admits, Served, Locked, Durable
  <1>10. Files'
    BY <1>1, <1>2, FilesStay
  <1> QED
    BY <1>1, <1>4, <1>5, <1>6, <1>7, <1>9, <1>10, QuietStep, Zenon

\* admission_witness writes an expiry or the trusted time of the state it found.
LEMMA WritingOK ==
  ASSUME AuthorityInv, NEW t \in Threads, job[t].pc = "check", t = "runtime", Serving,
         NEW kind \in {"admit", "expire"}, NEW id, NEW s, NEW now \in Nat,
         job' = [job EXCEPT ![t] = Writing(kind, id, s, now)],
         Made(t, db, s),
         kind = "admit" => s.status = "ACTIVE" /\ now < Window[s.id].until,
         UNCHANGED <<db, commands, anchor, pending, tip, client, clock, file, acked, backup>>
  PROVE  AuthorityInv'
  <1>1. file = t /\ JobsOK /\ Files
    BY HolderKnows, Zenon DEF Locked
  <1>2. db = tip /\ anchor = tip /\ pending = <<>>
    BY <1>1, ServingIsTip
  <1>3. /\ job' = [u \in Threads |-> job'[u]]
        /\ \A u \in Threads \ {t} : job'[u] = job[u]
        /\ job'[t] = Writing(kind, id, s, now)
    BY <1>1, SetFacts, Zenon
  <1>4. /\ job'[t].pc = "pend" /\ job'[t].kind = kind /\ job'[t].succ = <<s>>
        /\ job'[t].now = now /\ job'[t].id = id /\ job'[t].payload = <<>>
    BY <1>3, Zenon DEF Writing
  <1>5. Shape(t)'
    BY <1>3, <1>4, Zenon DEF Shape, Writing
  <1>6. Novel(t, <<s>>)
    BY <1>1, <1>2, SuccessorNovel, Zenon
  <1>7. Posted(t)'
    BY <1>4, <1>6, Zenon DEF Posted, Novel, Past
  <1>8. <<s>> # <<>> /\ <<s>>[1] = s
    OBVIOUS
  <1>9. Inside(t)'
    BY <1>1, <1>2, <1>4, <1>8, Zenon
       DEF Inside, Undisturbed, Recorded, Admits, Served, Locked, Durable
  <1>10. Files'
    BY <1>1, FilesStay, Zenon
  <1> QED
    BY <1>3, <1>4, <1>5, <1>7, <1>9, <1>10, QuietStep, Zenon

\* What admission_witness does once the authority is in force keeps it.
LEMMA AdmitCheckedOK ==
  ASSUME AuthorityInv, NEW t \in Threads, AdmitChecked(t)
  PROVE  AuthorityInv'
  <1> DEFINE now == job[t].now
             late == now >= Window[db.id].until
  <1>1. /\ job[t].pc = "check" /\ job[t].kind = "admit" /\ InForce(now)
        /\ UNCHANGED <<db, commands, anchor, pending, tip, client, clock, file, acked, backup>>
    BY Zenon DEF AdmitChecked, store, witness, locks, world, ghosts
  <1>2. file = t /\ JobsOK /\ Files /\ Shape(t)
    BY <1>1, HolderKnows, Zenon DEF Locked
  <1>3. t = "runtime" /\ now \in Nat
    BY <1>1, <1>2, Zenon DEF Shape
  <1>4. Serving /\ db.status = "ACTIVE" /\ now >= db.hw
    BY <1>1 DEF InForce
  <1>5. Sound(db) /\ Window[db.id].until \in Nat /\ db.hw \in Nat
    <2>1. Sound(db)
      BY <1>2 DEF Files, History
    <2>2. Window[db.id] \in [from : Nat, until : Nat]
      BY <2>1, AuthorityAssumption, Zenon DEF Sound
    <2> QED
      BY <2>1, <2>2 DEF Sound
  <1>6. /\ Made("runtime", db, Expired(db, now))
        /\ now > db.hw => Made("runtime", db, TimeAdvanced(db, now))
        /\ TimeAdvanced(db, now).status = db.status /\ TimeAdvanced(db, now).id = db.id
    BY <1>3, <1>5, RuntimeMade, Zenon
  <1>7. \/ job' = [job EXCEPT ![t] =
             Writing("expire", <<"EXPIRE", db.id>>, Expired(db, now), now)]
        \/ /\ ~late /\ now > db.hw
           /\ job' = [job EXCEPT ![t] =
                Writing("admit", <<"TIME", now>>, TimeAdvanced(db, now), now)]
        \/ ~late /\ Go(t, "sign")
    BY DEF AdmitChecked
  <1>8. ~late => now < Window[db.id].until
    BY <1>3, <1>5, SMTT(20)
  <1> HIDE DEF now, late
  <1>9. CASE job' = [job EXCEPT ![t] =
               Writing("expire", <<"EXPIRE", db.id>>, Expired(db, now), now)]
    <2> DEFINE id == <<"EXPIRE", db.id>>
               s == Expired(db, now)
    <2>1. Made(t, db, s) /\ job' = [job EXCEPT ![t] = Writing("expire", id, s, now)]
      BY <1>3, <1>6, <1>9
    <2> HIDE DEF id, s
    <2> QED
      BY <1>1, <1>3, <1>4, <2>1, WritingOK, Zenon
  <1>10. CASE /\ ~late /\ now > db.hw
              /\ job' = [job EXCEPT ![t] =
                   Writing("admit", <<"TIME", now>>, TimeAdvanced(db, now), now)]
    <2> DEFINE id == <<"TIME", now>>
               s == TimeAdvanced(db, now)
    <2>1. Made(t, db, s) /\ job' = [job EXCEPT ![t] = Writing("admit", id, s, now)]
      BY <1>3, <1>6, <1>10, Zenon
    <2>2. s.status = "ACTIVE" /\ now < Window[s.id].until
      BY <1>4, <1>6, <1>8, <1>10, Zenon
    <2> HIDE DEF id, s
    <2> QED
      BY <1>1, <1>3, <1>4, <2>1, <2>2, WritingOK, Zenon
  <1>11. CASE ~late /\ Go(t, "sign")
    <2>1. /\ job' = [u \in Threads |-> job'[u]]
          /\ \A u \in Threads \ {t} : job'[u] = job[u]
          /\ job'[t] = [pc |-> "sign", kind |-> job[t].kind, id |-> job[t].id,
                        payload |-> job[t].payload, succ |-> job[t].succ, now |-> job[t].now]
      BY <1>2, <1>11, GoFacts, Zenon
    <2>2. job'[t].pc = "sign" /\ job'[t].kind = "admit" /\ job'[t].now = now
      BY <1>1, <2>1, SMTT(20) DEF now
    <2>3. Shape(t)'
      BY <1>2, <2>1 DEF Shape
    <2>4. Posted(t)'
      BY <2>2 DEF Posted, Early
    <2>5. db = tip /\ anchor = tip /\ pending = <<>>
      BY <1>2, <1>4, ServingIsTip, Zenon
    <2>6. Inside(t)'
      BY <1>1, <1>2, <1>4, <1>8, <1>11, <2>2, <2>5, Zenon
         DEF Inside, Undisturbed, Recorded, Admits, Served, Locked, Durable
    <2>7. Files'
      BY <1>1, <1>2, FilesStay
    <2> QED
      BY <1>1, <2>1, <2>2, <2>3, <2>4, <2>6, <2>7, QuietStep, Zenon
  <1> QED
    BY <1>7, <1>9, <1>10, <1>11, Zenon

=============================================================================
