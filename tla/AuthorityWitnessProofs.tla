------------------------ MODULE AuthorityWitnessProofs ------------------------
(***************************************************************************)
(* Proofs about the Authority Service, for any number of commands, keys,   *)
(* authorities, transitions, crashes, raised steps and clock readings:     *)
(* publications are whole, a store that was rolled back stays closed, and  *)
(* the Runtime is served from the last state ever committed.               *)
(*                                                                         *)
(* The argument has two parts.  The file lock lets one caller at a time    *)
(* into the durable steps, so what it found there it still finds.  And a   *)
(* successor that waits for the lock is not a state of the past: it is     *)
(* computed from one state of the past, and two callers never compute the  *)
(* same successor of one state, so a pending witness that names a state of *)
(* the store names the last one committed.                                 *)
(***************************************************************************)
EXTENDS AuthorityWitnessInv

-----------------------------------------------------------------------------
(* The four durable steps                                                  *)

\* The others' successors stay what they are while the store does.
LEMMA OthersPosted ==
  ASSUME NEW t \in Threads, \A u \in Threads \ {t} : Posted(u) /\ job'[u] = job[u],
         UNCHANGED <<db, commands, tip>>
  PROVE  \A u \in Threads \ {t} : job'[u] = job[u] /\ Posted(u)'
  BY DEF Posted, Novel, Past

\* The first step names a state in the pending witness that was never committed.
LEMMA WritePendingOK ==
  ASSUME AuthorityInv, NEW t \in Threads, WritePending(t)
  PROVE  AuthorityInv'
  <1>1. /\ job[t].pc = "pend" /\ pending = <<>> /\ pending' = job[t].succ /\ Go(t, "commit")
        /\ UNCHANGED <<db, commands, anchor, tip, client, clock, file, acked, backup>>
    BY DEF WritePending, store, locks, world, ghosts
  <1>2. /\ file = t /\ JobsOK /\ Files /\ Shape(t) /\ Posted(t) /\ Inside(t)
        /\ \A u \in Threads \ {t} : Posted(u)
    BY <1>1, HolderKnows DEF Locked, Durable
  <1>3. /\ job' = [u \in Threads |-> job'[u]]
        /\ \A u \in Threads \ {t} : job'[u] = job[u]
        /\ job'[t] = [pc |-> "commit", kind |-> job[t].kind, id |-> job[t].id,
                      payload |-> job[t].payload, succ |-> job[t].succ, now |-> job[t].now]
    BY <1>1, <1>2, GoFacts
  <1>4. /\ job'[t].pc = "commit" /\ job'[t].kind = job[t].kind /\ job'[t].succ = job[t].succ
        /\ job'[t].now = job[t].now
    BY <1>3
  <1>5. db = tip /\ anchor = db /\ job[t].succ # <<>> /\ Admits(t)
    BY <1>1, <1>2 DEF Inside, Undisturbed, Durable
  <1>6. job[t].succ = <<job[t].succ[1]>> /\ job[t].succ[1] \notin Past
    BY <1>1, <1>2, <1>5 DEF Posted, Novel, Early
  <1>7. Shape(t)'
    BY <1>2, <1>3, <1>4 DEF Shape
  <1>8. Posted(t)'
    BY <1>1, <1>2, <1>4, StillPosted, Zenon DEF Early
  <1>9. Admits(t)'
    BY <1>1, <1>4, <1>5 DEF Admits
  <1>10. Inside(t)'
    BY <1>1, <1>2, <1>4, <1>5, <1>9
       DEF Inside, Undisturbed, Recorded, Served, Locked, Durable
  <1>11. Files'
    <2>1. Past' = Past
      BY <1>1 DEF Past
    <2>2. Chain'
      BY <1>1, <1>2, <1>5, <2>1 DEF Files, Chain
    <2>3. PendingOK'
      BY <1>1, <1>6, <2>1 DEF PendingOK
    <2> QED
      BY <1>1, <1>2, <1>5, <2>2, <2>3 DEF Files
  <1>12. \A u \in Threads \ {t} : job'[u] = job[u] /\ Posted(u)'
    BY <1>1, <1>2, <1>3, OthersPosted
  <1>13. ClientShape'
    BY <1>1, <1>2 DEF JobsOK, ClientShape
  <1> QED
    BY <1>1, <1>2, <1>3, <1>4, <1>7, <1>8, <1>10, <1>11, <1>12, <1>13, HolderStep

\* The transaction extends the history by one command and one state.
LEMMA CommitHistory ==
  ASSUME NEW d, NEW cs, History(d, cs), NEW r, Sound(r.state), r.state.seq = d.seq + 1,
         \A q \in cs : q.id # r.id
  PROVE  History(r.state, cs \cup {r})
  <1>1. d.seq \in Nat /\ {q.state.seq : q \in cs} = 1 .. d.seq
    BY DEF History, Sound
  <1>2. {q.state.seq : q \in cs \cup {r}} = 1 .. (d.seq + 1)
    <2>1. {q.state.seq : q \in cs \cup {r}} = {q.state.seq : q \in cs} \cup {r.state.seq}
      OBVIOUS
    <2>2. 1 .. (d.seq + 1) = (1 .. d.seq) \cup {d.seq + 1}
      BY <1>1
    <2> QED
      BY <1>1, <2>1, <2>2
  <1>3. \A q \in cs : q.state.seq # r.state.seq
    <2>1. \A q \in cs : q.state.seq \in 1 .. d.seq
      BY <1>1
    <2> QED
      BY <1>1, <2>1
  <1>4. \A p, q \in cs \cup {r} : p.id = q.id \/ p.state.seq = q.state.seq => p = q
    BY <1>3 DEF History
  <1> QED
    BY <1>2, <1>4 DEF History

\* The transaction keeps it: the new state is of the current one, and no caller that
\* still waits has computed the same.
LEMMA CommitOK ==
  ASSUME AuthorityInv, NEW t \in Threads, Commit(t)
  PROVE  AuthorityInv'
  <1> DEFINE S == job[t].succ[1]
             row == [id |-> job[t].id, payload |-> job[t].payload, state |-> S]
  <1>1. /\ job[t].pc = "commit" /\ Committable(t) /\ Go(t, "anchor")
        /\ db' = S /\ tip' = S /\ commands' = commands \cup {row}
        /\ UNCHANGED <<anchor, pending, client, clock, file, acked, backup>>
    BY DEF Commit, witness, locks, world
  <1>2. /\ file = t /\ JobsOK /\ Files /\ Shape(t) /\ Posted(t) /\ Inside(t)
        /\ \A u \in Threads \ {t} : Posted(u)
    BY <1>1, HolderKnows DEF Locked, Durable
  <1>3. /\ job' = [u \in Threads |-> job'[u]]
        /\ \A u \in Threads \ {t} : job'[u] = job[u]
        /\ job'[t] = [pc |-> "anchor", kind |-> job[t].kind, id |-> job[t].id,
                      payload |-> job[t].payload, succ |-> job[t].succ, now |-> job[t].now]
    BY <1>1, <1>2, GoFacts
  <1>4. /\ job'[t].pc = "anchor" /\ job'[t].kind = job[t].kind /\ job'[t].succ = job[t].succ
        /\ job'[t].now = job[t].now /\ job'[t].id = job[t].id
    BY <1>3
  <1>5. /\ db = tip /\ anchor = db /\ pending = job[t].succ /\ job[t].succ # <<>>
        /\ Admits(t)
    BY <1>1, <1>2, Zenon DEF Inside, Undisturbed, Durable
  <1>6. Novel(t, job[t].succ)
    BY <1>1, <1>2, <1>5 DEF Posted, Early
  <1>7. pending = <<S>> /\ S \notin Past
    BY <1>5, <1>6 DEF Novel
  <1>8. PICK b \in Past : Made(t, b, S)
    BY <1>6, Zenon DEF Novel
  <1>9. Sound(S) /\ S.seq = b.seq + 1 /\ S.seq = db.seq + 1
    BY <1>1, <1>8 DEF Made, Committable, RequireSuccessor
  <1>10. row.id = job[t].id /\ row.state = S
    OBVIOUS
  <1>11. \A q \in commands : q.id # row.id
    BY <1>1, <1>10 DEF Committable, Row
  <1> HIDE DEF S, row
  <1>12. History(db', commands')
    <2>1. History(db, commands)
      BY <1>2 DEF Files
    <2>2. History(row.state, commands \cup {row})
      BY <1>9, <1>10, <1>11, <2>1, CommitHistory
    <2> QED
      BY <1>1, <1>10, <2>2
  <1>13. Past' = Past \cup {S}
    BY <1>1, <1>10 DEF Past
  <1>14. Chain'
    <2>1. Chain
      BY <1>2, <1>5 DEF Files
    <2>2. \A r \in commands' : Sound(r.state)
      BY <1>1, <1>9, <1>10, <2>1 DEF Chain
    <2>5. db' \in Past' /\ backup'.db \in Past'
      BY <1>1, <1>13, <2>1 DEF Chain
    <2>6. backup'.db # db'
      BY <1>1, <1>7, <2>1 DEF Chain
    <2>7. \A a \in acked' : \E r \in commands' : r.id = a.id /\ r.state = a.state
      BY <1>1, <2>1 DEF Chain
    <2> QED
      BY <2>2, <2>5, <2>6, <2>7 DEF Chain
  <1>15. Files'
    <2>1. PendingOK'
      BY <1>1, <1>7, Zenon DEF PendingOK
    <2>2. History(backup.db, backup.commands)'
      BY <1>1, <1>2 DEF Files
    <2> QED
      BY <1>1, <1>7, <1>12, <1>14, <2>1, <2>2 DEF Files
  <1>16. \A u \in Threads \ {t} : job'[u] = job[u] /\ Posted(u)'
    <2>1. TAKE u \in Threads \ {t}
    <2>2. job'[u] = job[u] /\ Posted(u)
      BY <1>2, <1>3
    <2>3. ASSUME job[u].pc \in Early, job[u].succ # <<>>
          PROVE  Novel(u, job[u].succ)'
      <3>1. Novel(u, job[u].succ)
        BY <1>5, <2>2, <2>3 DEF Posted
      <3>2. PICK c \in Past : Made(u, c, job[u].succ[1])
        BY <3>1 DEF Novel
      <3>3. job[u].succ = <<job[u].succ[1]>> /\ job[u].succ[1] \notin Past
        BY <3>1 DEF Novel
      <3>4. job[u].succ[1] # S
        <4>1. SUFFICES ASSUME job[u].succ[1] = S PROVE FALSE
          OBVIOUS
        <4>2. S.seq = c.seq + 1
          BY <3>2, <4>1 DEF Made
        <4>3. b.seq \in Nat /\ c.seq \in Nat
          BY <1>2, <1>5, PastSound DEF Sound
        <4>4. b.seq = c.seq
          BY <1>9, <4>2, <4>3
        <4>5. b = c
          BY <1>2, <1>5, <4>4, PastInjective
        <4>6. Made(u, b, S)
          BY <3>2, <4>1, <4>5
        <4> QED
          BY <1>8, <4>6, MadeApart
      <3>5. job'[u].succ[1] \notin Past' /\ job'[u].succ = <<job'[u].succ[1]>>
        BY <1>13, <2>2, <3>3, <3>4
      <3>6. c \in Past' /\ Made(u, c, job'[u].succ[1])
        BY <1>13, <2>2, <3>2
      <3> QED
        BY <3>5, <3>6 DEF Novel
    <2> QED
      BY <2>2, <2>3 DEF Posted
  <1>17. Shape(t)'
    BY <1>2, <1>3, <1>4 DEF Shape
  <1>18. Posted(t)'
    BY <1>4, Zenon DEF Posted, Early
  <1>19. Inside(t)'
    <2>1. Undisturbed(t)' /\ Served(t)'
      BY <1>1, <1>4, <1>5, <1>7, Zenon DEF Undisturbed, Served
    <2>2. Recorded(t)'
      BY <1>1, <1>4, <1>10, Zenon DEF Recorded
    <2>3. Admits(t)'
      BY <1>1, <1>4, <1>5 DEF Admits
    <2> QED
      BY <1>1, <1>2, <1>4, <2>1, <2>2, <2>3, Zenon DEF Inside
  <1>20. ClientShape'
    BY <1>1, <1>2 DEF JobsOK, ClientShape
  <1> QED
    BY <1>1, <1>2, <1>3, <1>4, <1>15, <1>16, <1>17, <1>18, <1>19, <1>20, HolderStep

\* The third step moves the anchor to the state just committed.
LEMMA WriteAnchorOK ==
  ASSUME AuthorityInv, NEW t \in Threads, WriteAnchor(t)
  PROVE  AuthorityInv'
  <1>1. /\ job[t].pc = "anchor" /\ anchor' = job[t].succ[1] /\ Go(t, "clear")
        /\ UNCHANGED <<db, commands, pending, tip, client, clock, file, acked, backup>>
    BY DEF WriteAnchor, store, locks, world, ghosts
  <1>2. /\ file = t /\ JobsOK /\ Files /\ Shape(t) /\ Inside(t)
        /\ \A u \in Threads \ {t} : Posted(u)
    BY <1>1, HolderKnows DEF Locked, Durable
  <1>3. /\ job' = [u \in Threads |-> job'[u]]
        /\ \A u \in Threads \ {t} : job'[u] = job[u]
        /\ job'[t] = [pc |-> "clear", kind |-> job[t].kind, id |-> job[t].id,
                      payload |-> job[t].payload, succ |-> job[t].succ, now |-> job[t].now]
    BY <1>1, <1>2, GoFacts
  <1>4. /\ job'[t].pc = "clear" /\ job'[t].kind = job[t].kind /\ job'[t].succ = job[t].succ
        /\ job'[t].now = job[t].now /\ job'[t].id = job[t].id
    BY <1>3
  <1>5. /\ db = tip /\ pending = job[t].succ /\ <<db>> = pending
        /\ Admits(t) /\ Recorded(t)
    BY <1>1, <1>2 DEF Inside, Undisturbed, Durable
  <1>6. anchor' = db
    BY <1>1, <1>5
  <1>7. Shape(t)'
    BY <1>2, <1>3, <1>4, Zenon DEF Shape
  <1>8. Posted(t)'
    BY <1>4 DEF Posted, Early
  <1>9. Inside(t)'
    <2>1. Undisturbed(t)' /\ Served(t)'
      BY <1>1, <1>4, <1>5, <1>6, Zenon DEF Undisturbed, Served
    <2>2. Recorded(t)'
      BY <1>1, <1>4, <1>5, Zenon DEF Recorded
    <2>3. Admits(t)'
      BY <1>1, <1>4, <1>5, Zenon DEF Admits
    <2> QED
      BY <1>1, <1>2, <1>4, <1>5, <2>1, <2>2, <2>3, Zenon DEF Inside
  <1>10. Files'
    <2>1. Past' = Past
      BY <1>1, Zenon DEF Past
    <2>2. Chain'
      BY <1>1, <1>2, <1>5, <2>1, Zenon DEF Files, Chain
    <2>3. PendingOK'
      BY <1>1, <1>5 DEF PendingOK
    <2> QED
      BY <1>1, <1>2, <1>5, <1>6, <2>2, <2>3, Zenon DEF Files
  <1>11. \A u \in Threads \ {t} : job'[u] = job[u] /\ Posted(u)'
    BY <1>1, <1>2, <1>3, OthersPosted
  <1>12. ClientShape'
    BY <1>1, <1>2 DEF JobsOK, ClientShape
  <1> QED
    BY <1>1, <1>2, <1>3, <1>4, <1>7, <1>8, <1>9, <1>10, <1>11, <1>12, HolderStep, Zenon

\* The last step clears the witness and returns the answer, or goes on to sign.
LEMMA ClearPendingOK ==
  ASSUME AuthorityInv, NEW t \in Threads, ClearPending(t)
  PROVE  AuthorityInv'
  <1>1. /\ job[t].pc = "clear" /\ pending' = <<>>
        /\ acked' = IF job[t].kind = "publish"
                      THEN acked \cup {[id |-> job[t].id, state |-> db]} ELSE acked
        /\ UNCHANGED <<db, commands, anchor, tip, client, clock, backup>>
    BY Zenon DEF ClearPending, store, world
  <1>2. /\ file = t /\ JobsOK /\ Files /\ Shape(t) /\ Inside(t)
        /\ \A u \in Threads \ {t} : Posted(u)
    BY <1>1, HolderKnows, Zenon DEF Locked, Durable
  <1>3. /\ db = tip /\ pending = job[t].succ /\ <<db>> = pending /\ anchor = db
        /\ Admits(t) /\ Recorded(t)
    BY <1>1, <1>2 DEF Inside, Undisturbed, Durable
  <1>4. job[t].succ[1] = db
    BY <1>3, SMTT(20)
  <1>5. Files'
    <2>1. Past' = Past
      BY <1>1 DEF Past
    <2>2. \A a \in acked' : \E r \in commands' : r.id = a.id /\ r.state = a.state
      <3>1. \A a \in acked : \E r \in commands : r.id = a.id /\ r.state = a.state
        BY <1>2, <1>3, Zenon DEF Files, Chain
      <3>2. job[t].kind = "publish" => \E r \in commands : r.id = job[t].id /\ r.state = db
        BY <1>1, <1>3, Zenon DEF Recorded
      <3> QED
        BY <1>1, <3>1, <3>2, SMTT(20)
    <2>3. Chain'
      BY <1>1, <1>2, <1>3, <2>1, <2>2, Zenon DEF Files, Chain
    <2>4. PendingOK'
      BY <1>1 DEF PendingOK
    <2> QED
      BY <1>1, <1>2, <1>3, <2>3, <2>4, Zenon DEF Files
  <1>6. ClientShape'
    BY <1>1, <1>2, Zenon DEF JobsOK, ClientShape
  <1>7. CASE job[t].kind = "admit"
    <2>1. Go(t, "sign") /\ file' = file
      BY <1>7, Zenon DEF ClearPending, locks
    <2>2. /\ job' = [u \in Threads |-> job'[u]]
          /\ \A u \in Threads \ {t} : job'[u] = job[u]
          /\ job'[t] = [pc |-> "sign", kind |-> job[t].kind, id |-> job[t].id,
                        payload |-> job[t].payload, succ |-> job[t].succ, now |-> job[t].now]
      BY <1>2, <2>1, GoFacts
    <2>3. job'[t].pc = "sign" /\ job'[t].kind = job[t].kind /\ job'[t].now = job[t].now
      BY <2>2
    <2>4. Shape(t)'
      BY <1>2, <2>2, <2>3, Zenon DEF Shape
    <2>5. Posted(t)'
      BY <2>3, Zenon DEF Posted, Early
    <2>6. db.status = "ACTIVE" /\ job[t].now < Window[db.id].until
      BY <1>1, <1>3, <1>4, <1>7 DEF Admits
    <2>7. Inside(t)'
      BY <1>1, <1>2, <1>3, <2>1, <2>3, <2>6, Zenon
         DEF Inside, Undisturbed, Recorded, Admits, Served, Locked, Durable
    <2>8. \A u \in Threads \ {t} : job'[u] = job[u] /\ Posted(u)'
      BY <1>1, <1>2, <2>2, OthersPosted, Zenon
    <2> QED
      BY <1>1, <1>2, <1>5, <1>6, <2>2, <2>3, <2>4, <2>5, <2>7, <2>8, HolderStep
  <1>8. CASE job[t].kind # "admit"
    <2>1. End(t)
      BY <1>8, Zenon DEF ClearPending
    <2>2. /\ job' = [u \in Threads |-> job'[u]] /\ job'[t] = IdleJob
          /\ \A u \in Threads \ {t} : job'[u] = job[u]
      BY <1>2, <2>1, SetFacts, Zenon DEF End
    <2>3. Shape(t)' /\ Posted(t)' /\ Inside(t)' /\ job'[t].pc # "hold"
      BY <2>2, IdleOK, Zenon
    <2>4. \A u \in Threads \ {t} : job'[u] = job[u] /\ Posted(u)'
      BY <1>1, <1>2, <2>2, OthersPosted
    <2> QED
      BY <1>1, <1>2, <1>5, <1>6, <2>2, <2>3, <2>4, HolderStep
  <1> QED
    BY <1>7, <1>8, Zenon

-----------------------------------------------------------------------------
(* Admissions and fences                                                   *)

\* The lock's holder ends its call with an answer to the consumer.
LEMMA HolderEnds ==
  ASSUME AuthorityInv, NEW t \in Threads, job[t].pc \in Locked, End(t), ClientShape',
         UNCHANGED <<db, commands, anchor, pending, tip, clock, acked, backup>>
  PROVE  AuthorityInv'
  <1>1. /\ file = t /\ JobsOK /\ Files /\ \A u \in Threads \ {t} : Posted(u)
    BY HolderKnows
  <1>2. /\ job' = [u \in Threads |-> job'[u]] /\ job'[t] = IdleJob
        /\ \A u \in Threads \ {t} : job'[u] = job[u]
    BY <1>1, SetFacts, Zenon DEF End
  <1>3. Shape(t)' /\ Posted(t)' /\ Inside(t)' /\ job'[t].pc # "hold"
    BY <1>2, IdleOK
  <1>4. \A u \in Threads \ {t} : job'[u] = job[u] /\ Posted(u)'
    BY <1>1, <1>2, OthersPosted
  <1>5. Files'
    BY <1>1, FilesStay
  <1> QED
    BY <1>1, <1>2, <1>3, <1>4, <1>5, HolderStep

\* Signing an admission keeps it.
LEMMA SignOK ==
  ASSUME AuthorityInv, NEW t \in Threads, Sign(t)
  PROVE  AuthorityInv'
  <1>1. /\ job[t].pc = "sign" /\ End(t)
        /\ UNCHANGED <<db, commands, anchor, pending, tip, clock, acked, backup>>
    BY DEF Sign, store, witness, world
  <1>2. ClientShape
    BY Zenon DEF AuthorityInv, JobsOK
  <1>3. \/ client' = client \/ client' = NoClient
        \/ client' = [phase |-> "admitted", env |-> <<Envelope(job[t].now)>>]
    BY DEF Sign
  <1>4. ClientShape'
    BY <1>2, <1>3 DEF ClientShape, NoClient
  <1> QED
    BY <1>1, <1>4, HolderEnds, Zenon DEF Locked, Durable

\* Releasing a fence keeps it.
LEMMA ReleaseOK ==
  ASSUME AuthorityInv, NEW t \in Threads, Release(t)
  PROVE  AuthorityInv'
  <1>1. /\ job[t].pc = "hold" /\ End(t)
        /\ UNCHANGED <<db, commands, anchor, pending, tip, clock, acked, backup>>
    BY DEF Release, store, witness, world, ghosts
  <1>2. ClientShape
    BY DEF AuthorityInv, JobsOK
  <1>3. client' = NoClient \/ client' = [client EXCEPT !.phase = "admitted"]
    BY DEF Release
  <1>4. ClientShape'
    BY <1>2, <1>3 DEF ClientShape, NoClient
  <1> QED
    BY <1>1, <1>4, HolderEnds DEF Locked, Durable

\* consumption_fence yields under the lock, on the last state committed.
LEMMA FenceOK ==
  ASSUME AuthorityInv, NEW t \in Threads, Fence(t)
  PROVE  AuthorityInv'
  <1>1. /\ job[t].pc = "check" /\ job[t].kind = "fence" /\ FenceAllowed(t) /\ Go(t, "hold")
        /\ client' = [client EXCEPT !.phase = "section"]
        /\ UNCHANGED <<db, commands, anchor, pending, tip, clock, file, acked, backup>>
    BY DEF Fence, store, witness, locks, world, ghosts
  <1>2. /\ file = t /\ JobsOK /\ Files /\ Shape(t) /\ ClientShape
        /\ \A u \in Threads \ {t} : Posted(u)
    BY <1>1, HolderKnows DEF Locked, JobsOK
  <1>3. /\ Serving /\ db.status = "ACTIVE" /\ job[t].now < Window[db.id].until
        /\ client.env[1].gen = db.gen /\ client.env[1].head = db.head
    BY <1>1 DEF FenceAllowed, InForce
  <1>4. db = tip /\ anchor = tip /\ pending = <<>>
    BY <1>2, <1>3, ServingIsTip
  <1>5. /\ job' = [u \in Threads |-> job'[u]]
        /\ \A u \in Threads \ {t} : job'[u] = job[u]
        /\ job'[t] = [pc |-> "hold", kind |-> job[t].kind, id |-> job[t].id,
                      payload |-> job[t].payload, succ |-> job[t].succ, now |-> job[t].now]
    BY <1>1, <1>2, GoFacts
  <1>6. job'[t].pc = "hold" /\ job'[t].kind = "fence" /\ job'[t].now = job[t].now
    BY <1>1, <1>5
  <1>7. ClientShape' /\ client'.env = client.env
    BY <1>1, <1>2 DEF ClientShape
  <1>8. FenceStable'
    BY <1>1, <1>3, <1>7, Zenon DEF FenceStable
  <1>9. Shape(t)'
    BY <1>2, <1>5, <1>6 DEF Shape
  <1>10. Posted(t)'
    BY <1>6 DEF Posted, Early
  <1>11. Inside(t)'
    BY <1>1, <1>2, <1>3, <1>4, <1>6
       DEF Inside, Undisturbed, Recorded, Admits, Served, Locked, Durable
  <1>12. \A u \in Threads \ {t} : job'[u] = job[u] /\ Posted(u)'
    BY <1>1, <1>2, <1>5, OthersPosted
  <1>13. Files'
    BY <1>1, <1>2, FilesStay
  <1> QED
    BY <1>1, <1>2, <1>5, <1>7, <1>8, <1>9, <1>10, <1>11, <1>12, <1>13, HolderStep

-----------------------------------------------------------------------------
(* Crash, restart and what happens around the service                      *)

\* recover() takes up the repair of the last state committed, under the lock.
LEMMA RepairOK ==
  ASSUME AuthorityInv, NEW t \in Threads, job[t].pc = "check", job[t].kind = "recover",
         NEW pc \in {"anchor", "clear"},
         job' = [job EXCEPT ![t] =
                   [pc |-> pc, kind |-> "recover", id |-> <<>>, payload |-> <<>>,
                    succ |-> <<db>>, now |-> job[t].now]],
         db = tip, pending = <<db>>, pc = "clear" => anchor = db,
         UNCHANGED <<db, commands, anchor, pending, tip, client, clock, file, acked, backup>>
  PROVE  AuthorityInv'
  <1>1. file = t /\ JobsOK /\ Files /\ Shape(t)
    BY HolderKnows DEF Locked
  <1>2. /\ job' = [u \in Threads |-> job'[u]]
        /\ \A u \in Threads \ {t} : job'[u] = job[u]
        /\ job'[t] = [pc |-> pc, kind |-> "recover", id |-> <<>>, payload |-> <<>>,
                      succ |-> <<db>>, now |-> job[t].now]
    BY <1>1, SetFacts, Zenon
  <1>3. job'[t].pc = pc /\ job'[t].kind = "recover" /\ job'[t].succ = <<db>>
    BY <1>2, Zenon
  <1>4. Shape(t)'
    BY <1>1, <1>2 DEF Shape
  <1>5. Posted(t)'
    BY <1>3, Zenon DEF Posted, Early
  <1>6. Inside(t)'
    BY <1>1, <1>3, Zenon DEF Inside, Undisturbed, Recorded, Admits, Served, Locked, Durable
  <1>7. Files'
    BY <1>1, FilesStay, Zenon
  <1> QED
    BY <1>2, <1>3, <1>4, <1>5, <1>6, <1>7, QuietStep, Zenon

\* recover() keeps it, whatever it finds.
LEMMA RecoverOK ==
  ASSUME AuthorityInv, NEW t \in Threads, Recover(t)
  PROVE  AuthorityInv'
  <1> DEFINE repair(pc) == job' = [job EXCEPT ![t] =
                             [pc |-> pc, kind |-> "recover", id |-> <<>>, payload |-> <<>>,
                              succ |-> <<db>>, now |-> job[t].now]]
             found == Classify(anchor, pending, db)
  <1>1. /\ job[t].pc = "check" /\ job[t].kind = "recover"
        /\ UNCHANGED <<db, commands, anchor, pending, tip, client, clock, acked, backup>>
    BY Zenon DEF Recover, store, witness, world, ghosts
  <1>2. \/ found = "COMPLETE_ANCHOR_ADVANCE" /\ repair("anchor") /\ UNCHANGED file
        \/ found = "COMPLETE_PENDING_RESOLUTION" /\ repair("clear") /\ UNCHANGED file
        \/ End(t)
    BY DEF Recover, locks
  <1>3. Files
    BY DEF AuthorityInv
  <1>4. CASE found = "COMPLETE_ANCHOR_ADVANCE" /\ repair("anchor") /\ UNCHANGED file
    <2>1. db = tip /\ pending = <<db>>
      BY <1>3, <1>4, RepairIsTip
    <2> QED
      BY <1>1, <1>4, <2>1, RepairOK, Zenon
  <1>5. CASE found = "COMPLETE_PENDING_RESOLUTION" /\ repair("clear") /\ UNCHANGED file
    <2>1. db = tip /\ pending = <<db>> /\ anchor = db
      BY <1>3, <1>5, RepairIsTip
    <2> QED
      BY <1>1, <1>5, <2>1, RepairOK, Zenon
  <1>6. CASE End(t)
    <2>1. Files'
      BY <1>1, <1>3, FilesStay
    <2> QED
      BY <1>1, <1>6, <2>1, EndStep
  <1> QED
    BY <1>2, <1>4, <1>5, <1>6, Zenon

\* The host's callers are gone; the owner's tool keeps the lock if it has it.
LEMMA CrashOK ==
  ASSUME AuthorityInv, Crash
  PROVE  AuthorityInv'
  <1>1. /\ job' = [t \in DOMAIN job |-> IF t \in HostThreads THEN IdleJob ELSE job[t]]
        /\ file' = IF file \in HostThreads THEN "none" ELSE file
        /\ UNCHANGED <<db, commands, anchor, pending, tip, client, clock, acked, backup>>
    BY DEF Crash, store, witness, world, ghosts
  <1>2. JobsOK /\ Files /\ job = [t \in Threads |-> job[t]]
    BY DEF AuthorityInv, JobsOK
  <1>3. job' = [t \in Threads |-> IF t \in HostThreads THEN IdleJob ELSE job[t]]
    <2>1. DOMAIN job = Threads
      BY <1>2
    <2> QED
      BY <1>1, <2>1
  <1>4. \A t \in Threads : Shape(t)' /\ Posted(t)' /\ Inside(t)'
    <2>1. TAKE t \in Threads
    <2>2. CASE t \in HostThreads
      <3>1. job'[t] = IdleJob
        BY <1>3, <2>2
      <3> QED
        BY <3>1, IdleOK
    <2>3. CASE t \notin HostThreads
      <3>1. Shape(t) /\ Posted(t) /\ Inside(t) /\ job'[t] = job[t]
        BY <1>2, <1>3, <2>3 DEF JobsOK
      <3>2. file = t => file' = t
        BY <1>1, <2>3
      <3> QED
        BY <1>1, <3>1, <3>2, Bystander
    <2> QED
      BY <2>2, <2>3
  <1>5. job' = [t \in Threads |-> job'[t]] /\ clock' \in Nat /\ ClientShape'
    BY <1>1, <1>2, <1>3 DEF JobsOK, ClientShape
  <1>6. FenceStable'
    <2>1. job'["runtime"] = IdleJob
      BY <1>3 DEF Threads, HostThreads
    <2> QED
      BY <2>1 DEF FenceStable, IdleJob
  <1>7. Files'
    BY <1>1, <1>2, FilesStay
  <1> QED
    BY <1>4, <1>5, <1>6, <1>7 DEF AuthorityInv, JobsOK

\* Steps that no caller takes and that leave store and witness alone.
LEMMA WorldStep ==
  ASSUME AuthorityInv, clock' \in Nat, ClientShape', FenceStable', Files',
         UNCHANGED <<db, commands, anchor, pending, tip, file, job>>
  PROVE  AuthorityInv'
  <1>1. \A t \in Threads : Shape(t)' /\ Posted(t)' /\ Inside(t)'
    <2>1. TAKE t \in Threads
    <2>2. Shape(t) /\ Posted(t) /\ Inside(t)
      BY DEF AuthorityInv, JobsOK
    <2> QED
      BY <2>2, Bystander
  <1>2. job' = [t \in Threads |-> job'[t]]
    BY DEF AuthorityInv, JobsOK
  <1> QED
    BY <1>1, <1>2 DEF AuthorityInv, JobsOK

\* The clock, the snapshot source and a consumer that ends its section keep it.
LEMMA WorldOK ==
  ASSUME AuthorityInv,
         \/ SectionEnds
         \/ \E x \in Times : ClockReads(x)
         \/ \E x \in Snapshots : SnapshotChanges(x)
  PROVE  AuthorityInv'
  <1>1. UNCHANGED <<db, commands, anchor, pending, tip, file, job, acked, backup>>
    BY DEF SectionEnds, ClockReads, SnapshotChanges, store, witness, locks, ghosts
  <1>2. Files'
    BY <1>1, FilesStay DEF AuthorityInv
  <1>3. clock' \in Nat
    BY AuthorityAssumption
       DEF AuthorityInv, JobsOK, SectionEnds, ClockReads, SnapshotChanges, world
  <1>4. ClientShape'
    BY Zenon
       DEF AuthorityInv, JobsOK, SectionEnds, ClockReads, SnapshotChanges, ClientShape, NoClient
  <1>5. FenceStable'
    BY <1>1 DEF AuthorityInv, FenceStable, SectionEnds, ClockReads, SnapshotChanges
  <1> QED
    BY <1>1, <1>2, <1>3, <1>4, <1>5, WorldStep, Zenon

\* A backup is of a state of the past.
LEMMA TakeBackupOK ==
  ASSUME AuthorityInv, TakeBackup
  PROVE  AuthorityInv'
  <1>1. /\ backup' = [db |-> db, commands |-> commands]
        /\ UNCHANGED <<db, commands, anchor, pending, tip, file, job, client, clock, acked>>
    BY DEF TakeBackup, store, witness, locks, world, ghosts
  <1>2. backup'.db = db /\ backup'.commands = commands
    BY <1>1, Zenon
  <1>3. Files'
    <2>1. Files /\ Past' = Past
      BY <1>1, Zenon DEF AuthorityInv, Past
    <2>2. Chain => Chain'
      BY <1>1, <1>2, <2>1 DEF Chain
    <2>3. PendingOK => PendingOK'
      BY <1>1, <2>1 DEF PendingOK
    <2>4. RolledBack => RolledBack'
      BY <1>1, <1>2, Zenon DEF RolledBack
    <2> QED
      BY <1>1, <1>2, <2>1, <2>2, <2>3, <2>4, Zenon DEF Files
  <1>4. clock' \in Nat /\ ClientShape' /\ FenceStable'
    BY <1>1 DEF AuthorityInv, JobsOK, ClientShape, FenceStable
  <1> QED
    BY <1>1, <1>3, <1>4, WorldStep

\* A restored store is the current one, or it stays behind the last state committed and
\* no pending witness names it.
LEMMA RestoreOK ==
  ASSUME AuthorityInv, Restore
  PROVE  AuthorityInv'
  <1>1. /\ file = "none" /\ db' = backup.db /\ commands' = backup.commands
        /\ UNCHANGED <<anchor, pending, tip, file, job, client, clock, acked, backup>>
    BY DEF Restore, witness, locks, world, ghosts
  <1>2. JobsOK /\ Files /\ FenceStable
    BY DEF AuthorityInv
  <1>3. clock' \in Nat /\ ClientShape' /\ job' = [t \in Threads |-> job'[t]]
    BY <1>1, <1>2 DEF JobsOK, ClientShape
  <1>4. CASE db' = db /\ commands' = commands
    <2>1. Files'
      BY <1>1, <1>2, <1>4, FilesStay
    <2>2. FenceStable'
      BY <1>1, <1>2, <1>4 DEF FenceStable
    <2> QED
      BY <1>1, <1>3, <1>4, <2>1, <2>2, WorldStep
  <1>5. CASE ~(db' = db /\ commands' = commands)
    <2>1. db = tip
      BY <1>1, <1>2, <1>5 DEF Files, RolledBack
    <2>2. Chain /\ PendingOK
      BY <1>2, <2>1 DEF Files
    <2>3. db' # db
      BY <1>1, <1>5, <2>2 DEF Chain
    <2>4. db' # tip'
      BY <1>1, <2>1, <2>3
    <2>5. pending # <<db'>>
      BY <1>1, <2>2, <2>4 DEF Chain, PendingOK
    <2>6. Files'
      BY <1>1, <1>2, <2>4, <2>5 DEF Files, RolledBack
    <2>7. \A t \in Threads : job[t].pc \notin Locked
      BY <1>1, <1>2 DEF JobsOK, Inside, Threads, HostThreads
    <2>8. \A t \in Threads : Shape(t)' /\ Posted(t)' /\ Inside(t)'
      <3>1. TAKE t \in Threads
      <3>2. Shape(t)'
        BY <1>1, <1>2 DEF JobsOK, Shape
      <3>3. Posted(t)'
        BY <2>4, Zenon DEF Posted
      <3>4. Inside(t)'
        BY <1>1, <2>7, Zenon DEF Inside, Undisturbed, Recorded, Admits, Served, Locked, Durable
      <3> QED
        BY <3>2, <3>3, <3>4, Zenon
    <2>9. FenceStable'
      BY <1>1, <2>7, Zenon DEF FenceStable, Threads, HostThreads, Locked, Durable
    <2> QED
      BY <1>3, <2>6, <2>8, <2>9 DEF AuthorityInv, JobsOK
  <1> QED
    BY <1>4, <1>5

-----------------------------------------------------------------------------
(* The invariant and what follows from it                                  *)

\* It holds initially.
LEMMA InitOK ==
  ASSUME Init
  PROVE  AuthorityInv
  <1>1. /\ db = First /\ commands = {} /\ anchor = db /\ pending = <<>> /\ clock = 0
        /\ job = [t \in Threads |-> IdleJob] /\ client = NoClient
        /\ backup = [db |-> db, commands |-> commands] /\ tip = db /\ acked = {}
    BY DEF Init, First, Threads
  <1>2. backup.db = db /\ backup.commands = commands
    BY <1>1, Zenon
  <1>3. History(db, commands)
    <2>1. Sound(db) /\ db.seq = 0
      BY <1>1, FirstSound, Zenon
    <2>2. {r.state.seq : r \in commands} = {} /\ 1 .. 0 = {}
      BY <1>1
    <2> QED
      BY <1>1, <2>1, <2>2 DEF History
  <1>4. Chain /\ PendingOK
    BY <1>1, <1>2 DEF Chain, PendingOK, Past
  <1>5. Files
    BY <1>1, <1>2, <1>3, <1>4 DEF Files
  <1>6. \A t \in Threads : Shape(t) /\ Posted(t) /\ Inside(t)
    <2>1. TAKE t \in Threads
    <2>2. /\ job[t] = IdleJob /\ job[t].pc = "idle" /\ job[t].kind = "none"
          /\ job[t].now = 0 /\ job[t].succ = <<>>
      BY <1>1, Zenon DEF IdleJob
    <2>3. Shape(t)
      BY <2>2 DEF Shape, IdleJob
    <2>4. Posted(t)
      BY <2>2 DEF Posted
    <2>5. Inside(t)
      BY <2>2, OutsideInside DEF Locked, Durable
    <2> QED
      BY <2>3, <2>4, <2>5
  <1>7. job = [t \in Threads |-> job[t]] /\ clock \in Nat /\ ClientShape
    BY <1>1, Zenon DEF ClientShape, NoClient
  <1>8. FenceStable
    BY <1>1 DEF FenceStable, IdleJob, Threads, HostThreads
  <1> QED
    BY <1>5, <1>6, <1>7, <1>8, Zenon DEF AuthorityInv, JobsOK

\* Every step keeps it.
LEMMA NextOK ==
  ASSUME AuthorityInv, [Next]_vars
  PROVE  AuthorityInv'
  <1>1. CASE \E c \in Cmds, a \in Authorities, h \in Heads :
               \E op \in ManagementOps(a) : ManagementRequest(c, op, a, h)
    BY <1>1, ManagementRequestOK
  <1>2. CASE \E c \in Cmds, k \in Keys, op \in {"PROVISION", "ACTIVATE", "RETIRE"} :
               KeyRequest(c, op, k)
    BY <1>2, KeyRequestOK
  <1>3. CASE AdmitRequest \/ FenceRequest \/ Start
    BY <1>3, RuntimeRequestOK, Zenon
  <1>4. CASE \E t \in HostThreads \cup {"owner"} : Step(t)
    <2>1. PICK t \in Threads : Step(t)
      BY <1>4 DEF Threads
    <2>2. CASE TakeTurn(t) \/ TakeFile(t)
      BY <2>2, TakeOK
    <2>3. CASE \/ TimeOut(t) \/ Refuse(t) \/ AdmitRefused(t) \/ CommitRefused(t) \/ Fault(t)
               \/ SignRefused(t) \/ FenceRefused(t)
      BY <2>3, EndOK
    <2>4. CASE Answer(t)
      BY <2>4, AnswerOK
    <2>5. CASE Proceed(t)
      BY <2>5, ProceedOK, Zenon
    <2>6. CASE AdmitChecked(t)
      BY <2>6, AdmitCheckedOK
    <2>7. CASE WritePending(t)
      BY <2>7, WritePendingOK
    <2>8. CASE Commit(t)
      BY <2>8, CommitOK
    <2>9. CASE WriteAnchor(t)
      BY <2>9, WriteAnchorOK
    <2>10. CASE ClearPending(t)
      BY <2>10, ClearPendingOK
    <2>11. CASE Sign(t)
      BY <2>11, SignOK
    <2>12. CASE Fence(t)
      BY <2>12, FenceOK
    <2>13. CASE Release(t)
      BY <2>13, ReleaseOK
    <2>14. CASE Recover(t)
      BY <2>14, RecoverOK
    <2> QED
      BY <2>1, <2>2, <2>3, <2>4, <2>5, <2>6, <2>7, <2>8, <2>9, <2>10, <2>11, <2>12, <2>13,
         <2>14, Zenon DEF Step
  <1>5. CASE Crash
    BY <1>5, CrashOK
  <1>6. CASE TakeBackup
    BY <1>6, TakeBackupOK
  <1>7. CASE Restore
    BY <1>7, RestoreOK
  <1>8. CASE \/ SectionEnds \/ (\E x \in Times : ClockReads(x))
             \/ (\E x \in Snapshots : SnapshotChanges(x))
    BY <1>8, WorldOK
  <1>9. CASE UNCHANGED vars
    <2>1. UNCHANGED <<db, commands, anchor, pending, tip, file, job, acked, backup, client, clock>>
      BY <1>9 DEF vars
    <2>2. Files'
      BY <2>1, FilesStay DEF AuthorityInv
    <2>3. clock' \in Nat /\ ClientShape' /\ FenceStable'
      BY <2>1 DEF AuthorityInv, JobsOK, ClientShape, FenceStable
    <2> QED
      BY <2>1, <2>2, <2>3, WorldStep
  <1> QED
    BY <1>1, <1>2, <1>3, <1>4, <1>5, <1>6, <1>7, <1>8, <1>9 DEF Next

\* The inductive invariant: the lock keeps one caller in the durable steps, and a
\* successor that waits for it is no state of the store's past.
THEOREM AuthorityInductive == Spec => []AuthorityInv
  <1>1. Init => AuthorityInv
    BY InitOK
  <1>2. AuthorityInv /\ [Next]_vars => AuthorityInv'
    BY NextOK
  <1> QED
    BY <1>1, <1>2, PTL DEF Spec

\* publish() is whole: nothing disturbs its four durable steps, a sequence number is the
\* work of one command, an answered command stays recorded, and one key signs.
THEOREM TransitionsAreWhole == Spec => []TransitionsWhole
  <1>1. AuthorityInv => TransitionsWhole
    <2>1. SUFFICES ASSUME AuthorityInv PROVE TransitionsWhole
      OBVIOUS
    <2>2. Files /\ DOMAIN job = Threads /\ \A t \in Threads : Inside(t)
      BY <2>1, Zenon DEF AuthorityInv, JobsOK
    <2>3. StepsUndisturbed
      BY <2>2, Zenon DEF StepsUndisturbed, Inside, Undisturbed
    <2>4. AnsweredIsRecorded
      BY <2>2 DEF AnsweredIsRecorded, Files, Chain, Row
    <2>5. EachStepOneCommand
      BY <2>2, Zenon DEF EachStepOneCommand, Files, History
    <2>6. OneSigningKey
      BY <2>2 DEF OneSigningKey, Files, History, Sound, OneKey
    <2> QED
      BY <2>3, <2>4, <2>5, <2>6 DEF TransitionsWhole
  <1> QED
    BY <1>1, AuthorityInductive, PTL

\* classify_recovery never lets a store behind the last committed state serve, and never
\* has it repaired: the anchor or the pending witness still names the later state.
THEOREM RolledBackIsClosed == Spec => []RolledBackStaysClosed
  <1>1. AuthorityInv => RolledBackStaysClosed
    <2>1. SUFFICES ASSUME AuthorityInv, db # tip
                   PROVE  Classify(anchor, pending, db) \in
                            {"FAIL_CLOSED_CONTRADICTION", "FAIL_CLOSED_UNPROVEN_COMMIT",
                             "FAIL_CLOSED_OWNER_RESOLUTION"}
      BY DEF RolledBackStaysClosed
    <2>2. pending # <<db>> /\ (anchor = tip \/ pending = <<tip>>)
      BY <2>1 DEF AuthorityInv, Files, RolledBack
    <2>3. anchor = db => pending # <<>>
      BY <2>1, <2>2
    <2> QED
      BY <2>2, <2>3 DEF Classify
  <1> QED
    BY <1>1, AuthorityInductive, PTL

\* Whatever the Runtime signs or fences rests on the last committed state, in force at the
\* time read, and stays so while a fence is held.
THEOREM RuntimeIsCurrent == Spec => []RuntimeCurrent
  <1>1. AuthorityInv => RuntimeCurrent
    <2>1. SUFFICES ASSUME AuthorityInv PROVE RuntimeCurrent
      OBVIOUS
    <2>2. FenceStable /\ DOMAIN job = Threads /\ \A t \in Threads : Inside(t)
      BY <2>1, Zenon DEF AuthorityInv, JobsOK
    <2>3. ServedIsCurrent
      BY <2>2 DEF ServedIsCurrent, Inside, Served
    <2> QED
      BY <2>2, <2>3 DEF RuntimeCurrent
  <1> QED
    BY <1>1, AuthorityInductive, PTL

=============================================================================
