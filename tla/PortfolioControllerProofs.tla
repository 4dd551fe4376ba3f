---------------------- MODULE PortfolioControllerProofs ----------------------
(***************************************************************************)
(* What the portfolio controller's store keeps for any number of processes,  *)
(* commands, interruptions and restored heads.                               *)
(***************************************************************************)
EXTENDS PortfolioController, SequenceTheorems, TLAPS

Histories == Seq(Commands)
Places == Working \cup {"IDLE", "ASK", "RETRY"}
Jobs == [at : Places, command : Histories, expected : Histories]

TypeOK ==
    /\ records \in [1..MaxAccepted -> Seq(Histories)]
    /\ head \in Histories
    /\ acks \in SUBSET Histories
    /\ lock \in Procs \cup {"", "ORPHAN"}
    /\ job \in [Procs -> Jobs]
    /\ seen \in [Procs -> Histories]
    /\ returned \in Seq(Histories)
    /\ rollbacks \in Nat

\* The records up to the head are the ones that led to it.
Backed == Len(head) <= MaxAccepted /\ \A n \in 1..Len(head) : records[n] = <<SubSeq(head, 1, n)>>

\* No witness is ahead of the head or beside it.
Witnessed == \A a \in acks : IsPrefix(a, head)

Proposed(p) == job[p].command[1]

\* What a process knows of the store at each of its steps: only the holder of the
\* lock is past LOCKED, the successor it prepared is new and finds its place free or
\* taken by itself, and what it moves the head to has its record.
Stands(p) ==
    /\ job[p].at \in Working => lock = p
    /\ job[p].at # "IDLE" => Proposed(p) \in Commands
    /\ job[p].at \in Working \ {"LOCKED"} => Witnessed
    /\ job[p].at \in {"PREPARED", "PERSISTED"} =>
         /\ job[p].expected = head
         /\ Len(head) < MaxAccepted
         /\ Known(head, Proposed(p)) = {}
         /\ records[Len(head) + 1] \in {<<>>, <<Append(head, Proposed(p))>>}
    /\ At(p, "PERSISTED") => records[Len(head) + 1] = <<Append(head, Proposed(p))>>
    /\ At(p, "ACKNOWLEDGED") => head \in acks

Returns == \A n \in 1..Len(returned) : returned[n] \in acks

\* The inductive invariant.
ControllerInv ==
    /\ TypeOK
    /\ Backed
    /\ PostedOnce
    /\ rollbacks = 0 => Witnessed
    /\ \A p \in Procs : Stands(p)
    /\ Returns
    /\ ReturnedKept

-----------------------------------------------------------------------------
(* Sequences.                                                              *)

\* A prefix of a history is a prefix of what the history grows to.
LEMMA PrefixGrows ==
  ASSUME NEW S, NEW a \in Seq(S), NEW h \in Seq(S), NEW c \in S, IsPrefix(a, h)
  PROVE  IsPrefix(a, Append(h, c))
<1>1. Len(a) <= Len(h) /\ SubSeq(a, 1, Len(a)) = SubSeq(h, 1, Len(a))
  BY DEF IsPrefix
<1>2. Len(a) \in Nat /\ Len(h) \in Nat /\ Append(h, c) \in Seq(S)
  BY LenProperties, AppendProperties
<1>3. Len(Append(h, c)) = Len(h) + 1 /\ \A i \in 1..Len(h) : Append(h, c)[i] = h[i]
  BY AppendProperties
<1>4. SubSeq(Append(h, c), 1, Len(a)) = SubSeq(h, 1, Len(a))
  BY <1>1, <1>2, <1>3
<1> QED
  BY <1>1, <1>2, <1>3, <1>4 DEF IsPrefix

\* Every history is a prefix of itself.
LEMMA PrefixSelf ==
  ASSUME NEW S, NEW h \in Seq(S)
  PROVE  IsPrefix(h, h)
  BY LenProperties DEF IsPrefix

\* The beginnings of a history that grew: the old ones and the whole.
LEMMA AppendBeginnings ==
  ASSUME NEW S, NEW h \in Seq(S), NEW c \in S
  PROVE  /\ \A n \in 1..Len(h) : SubSeq(Append(h, c), 1, n) = SubSeq(h, 1, n)
         /\ SubSeq(Append(h, c), 1, Len(h) + 1) = Append(h, c)
<1>1. Append(h, c) \in Seq(S) /\ Len(Append(h, c)) = Len(h) + 1
  BY AppendProperties
<1>2. \A i \in 1..Len(h) : Append(h, c)[i] = h[i]
  BY AppendProperties
<1>3. Len(h) \in Nat
  BY LenProperties
<1>4. SubSeq(Append(h, c), 1, Len(h) + 1) = Append(h, c)
  BY <1>1, SubSeqFull
<1>5. ASSUME NEW n \in 1..Len(h)
      PROVE  SubSeq(Append(h, c), 1, n) = SubSeq(h, 1, n)
  BY <1>1, <1>2, <1>3
<1> QED
  BY <1>4, <1>5

\* The beginnings of a history that was cut.
LEMMA CutBeginnings ==
  ASSUME NEW S, NEW h \in Seq(S), NEW m \in 0..Len(h)
  PROVE  /\ SubSeq(h, 1, m) \in Seq(S) /\ Len(SubSeq(h, 1, m)) = m
         /\ \A n \in 1..m : SubSeq(h, 1, m)[n] = h[n]
         /\ \A n \in 1..m : SubSeq(SubSeq(h, 1, m), 1, n) = SubSeq(h, 1, n)
<1>1. Len(h) \in Nat /\ \A i \in 1..m : h[i] \in S
  BY LenProperties, ElementOfSeq
<1>2. SubSeq(h, 1, m) \in Seq(S) /\ Len(SubSeq(h, 1, m)) = m
  BY <1>1, SubSeqProperties
<1>3. \A n \in 1..m : SubSeq(h, 1, m)[n] = h[n]
  BY <1>1, SubSeqProperties
<1>4. ASSUME NEW n \in 1..m
      PROVE  SubSeq(SubSeq(h, 1, m), 1, n) = SubSeq(h, 1, n)
  BY <1>1, <1>2, <1>3
<1> QED
  BY <1>2, <1>3, <1>4

-----------------------------------------------------------------------------
(* The holder of the lock is alone.                                        *)

\* While one process works, no other does, and the lock is not free.
LEMMA Alone ==
  ASSUME \A r \in Procs : Stands(r), NEW p \in Procs, job[p].at \in Working
  PROVE  /\ lock = p /\ lock # "" /\ lock # "ORPHAN"
         /\ \A q \in Procs \ {p} : job[q].at \notin Working
  BY ControllerAssumption DEF Stands

\* A process that does not work stands whatever happens to the store.
LEMMA StandsAside ==
  ASSUME NEW q \in Procs, Stands(q), job'[q] = job[q], job[q].at \notin Working
  PROVE  Stands(q)'
<1>1. job'[q].at \notin Working \cup {"PREPARED", "PERSISTED", "ACKNOWLEDGED"}
  BY DEF Working
<1> QED
  BY <1>1, Zenon DEF Stands, Proposed, At

\* A process stands as long as the store and its lock stay.
LEMMA StandsUntouched ==
  ASSUME NEW q \in Procs, Stands(q), job'[q] = job[q], UNCHANGED store,
         lock' = lock \/ job[q].at \notin Working
  PROVE  Stands(q)'
<1>1. CASE job[q].at \notin Working
  BY <1>1, StandsAside
<1>2. CASE lock' = lock
  BY <1>2 DEF Stands, Proposed, At, Witnessed, store, Known
<1> QED
  BY <1>1, <1>2

\* Initially nothing was proposed.
LEMMA InvInit == Init => ControllerInv
<1> SUFFICES ASSUME Init PROVE ControllerInv
  OBVIOUS
<1>1. TypeOK
  <2>1. <<>> \in Histories /\ <<>> \in Seq(Histories)
    BY EmptySeq DEF Histories
  <2>2. Idle \in Jobs
    BY <2>1 DEF Idle, Jobs, Places
  <2> QED
    BY <2>1, <2>2 DEF TypeOK, Init
<1>2. head = <<>> /\ acks = {} /\ returned = <<>>
  BY DEF Init
<1>3. Len(head) = 0 /\ Len(returned) = 0
  BY <1>2, EmptySeq, Zenon
<1>4. DOMAIN head = 1..0
  BY <1>1, <1>3, LenProperties DEF TypeOK, Histories
<1>5. Backed /\ PostedOnce /\ Witnessed /\ Returns /\ ReturnedKept
  <2>1. Backed
    <3>1. MaxAccepted \in Nat
      BY ControllerAssumption
    <3>2. Len(head) <= MaxAccepted
      BY <1>3, <3>1
    <3>3. \A n \in 1..Len(head) : FALSE
      BY <1>3
    <3> QED
      BY <3>2, <3>3, Zenon DEF Backed
  <2>2. PostedOnce
    BY <1>4 DEF PostedOnce
  <2>3. Witnessed
    BY <1>2 DEF Witnessed
  <2>4. Returns /\ ReturnedKept
    BY <1>3 DEF Returns, ReturnedKept
  <2> QED
    BY <2>1, <2>2, <2>3, <2>4
<1>6. \A p \in Procs : Stands(p)
  BY DEF Init, Stands, Idle, Working, At
<1> QED
  BY <1>1, <1>5, <1>6 DEF ControllerInv

-----------------------------------------------------------------------------
(* Steps that leave the store alone.                                       *)

\* When records, head, witnesses and answers stay, only types and what the processes
\* know remain to be shown.
LEMMA StoreStays ==
  ASSUME ControllerInv, UNCHANGED <<store, returned, rollbacks>>, TypeOK',
         \A q \in Procs : Stands(q)'
  PROVE  ControllerInv'
  BY DEF ControllerInv, store, Backed, PostedOnce, Witnessed, Returns, ReturnedKept

\* read_current
LEMMA ReadCurrentKeeps ==
  ASSUME ControllerInv, NEW p \in Procs, ReadCurrent(p)
  PROVE  ControllerInv'
<1> USE DEF ControllerInv
<1>1. UNCHANGED <<store, lock, returned, rollbacks>>
  BY DEF ReadCurrent
<1>2. job[p].at \in {"IDLE", "RETRY"}
  BY DEF ReadCurrent, At
<1>3. /\ job'[p].at = "ASK" /\ job'[p] \in Jobs /\ Proposed(p)' \in Commands
      /\ job' = [job EXCEPT ![p] = job'[p]]
  <2>1. job \in [Procs -> Jobs] /\ head \in Histories
    BY DEF TypeOK
  <2>2. CASE \E c \in Commands : job' = [job EXCEPT ![p] = [at |-> "ASK", command |-> <<c>>, expected |-> head]]
    <3>1. PICK c \in Commands : job' = [job EXCEPT ![p] = [at |-> "ASK", command |-> <<c>>, expected |-> head]]
      BY <2>2, Zenon
    <3>2. <<c>> \in Histories /\ <<c>>[1] = c
      BY DEF Histories
    <3> QED
      BY <2>1, <3>1, <3>2 DEF Jobs, Places, Proposed
  <2>3. CASE At(p, "RETRY") /\ job' = [job EXCEPT ![p] = [at |-> "ASK", command |-> @.command, expected |-> head]]
    <3>1. Proposed(p) \in Commands
      BY <2>3 DEF Stands, At
    <3> DEFINE new == [at |-> "ASK", command |-> job[p].command, expected |-> head]
    <3>2. new \in Jobs
      BY <2>1 DEF Jobs, Places
    <3>3. job' = [job EXCEPT ![p] = new]
      BY <2>3
    <3>4. job'[p] = new
      BY <2>1, <3>3
    <3>5. Proposed(p)' = Proposed(p)
      BY <3>4 DEF Proposed
    <3> HIDE DEF new
    <3>6. new.at = "ASK"
      BY DEF new
    <3> QED
      BY <3>1, <3>2, <3>3, <3>4, <3>5, <3>6, Zenon
  <2> QED
    BY <2>2, <2>3 DEF ReadCurrent
<1>4. TypeOK'
  BY <1>1, <1>3 DEF TypeOK, ReadCurrent, store
<1>5. ASSUME NEW q \in Procs PROVE Stands(q)'
  <2>1. CASE q = p
    BY <1>3, <2>1 DEF Stands, Working, At
  <2>2. CASE q # p
    <3>1. job'[q] = job[q]
      BY <1>3, <2>2 DEF TypeOK
    <3> QED
      BY <1>1, <3>1, StandsUntouched
  <2> QED
    BY <2>1, <2>2
<1> QED
  BY <1>1, <1>4, <1>5, StoreStays

\* Creating the lock file
LEMMA LockKeeps ==
  ASSUME ControllerInv, NEW p \in Procs, Lock(p)
  PROVE  ControllerInv'
<1> USE DEF ControllerInv
<1>1. UNCHANGED <<store, returned, rollbacks>>
  BY DEF Lock, ghosts
<1>2. lock = "" /\ lock' = p /\ job[p].at = "ASK"
  BY DEF Lock, At
<1>3. /\ job'[p].at = "LOCKED" /\ job'[p] \in Jobs /\ job'[p].command = job[p].command
      /\ job' = [job EXCEPT ![p] = job'[p]]
  BY DEF Lock, Go, TypeOK, Jobs, Places, Working
<1>4. TypeOK'
  BY <1>1, <1>2, <1>3 DEF TypeOK, Lock, store
<1>5. ASSUME NEW q \in Procs PROVE Stands(q)'
  <2>1. CASE q = p
    BY <1>2, <1>3, <2>1 DEF Stands, Proposed, Working, At
  <2>2. CASE q # p
    <3>1. job'[q] = job[q]
      BY <1>3, <2>2 DEF TypeOK
    <3>2. job[q].at \notin Working
      BY <1>2, ControllerAssumption DEF Stands
    <3> QED
      BY <1>1, <3>1, <3>2, StandsUntouched
  <2> QED
    BY <2>1, <2>2
<1> QED
  BY <1>1, <1>4, <1>5, StoreStays

\* What _decide leaves to the steps that follow: a process goes on only from a store
\* that recovers, with a successor that is new and whose place is free or its own.
LEMMA OutcomeStands ==
  ASSUME NEW p \in Procs, Outcome(p) \in {"REPEAT", "PREPARED"}, head \in Histories,
         Len(head) <= MaxAccepted
  PROVE  /\ Witnessed
         /\ Outcome(p) = "PREPARED" =>
              /\ job[p].expected = head
              /\ Len(head) < MaxAccepted
              /\ Known(head, Proposed(p)) = {}
              /\ records[Len(head) + 1] \in {<<>>, <<Append(head, Proposed(p))>>}
<1>1. Recovers(p)
  BY DEF Outcome
<1>2. Witnessed
  BY <1>1 DEF Recovers, Witnessed
<1>3. ASSUME Outcome(p) = "PREPARED"
      PROVE  /\ job[p].expected = head
             /\ Len(head) # MaxAccepted
             /\ Known(head, Proposed(p)) = {}
             /\ records[Len(head) + 1] \in {<<>>, <<Append(head, Proposed(p))>>}
  <2>1. Known(head, Proposed(p)) = {}
    BY <1>3 DEF Outcome, Proposed
  <2>2. job[p].expected = head
    BY <1>3 DEF Outcome
  <2>3. Len(head) # MaxAccepted
    BY <1>3 DEF Outcome
  <2>4. records[Len(head) + 1] \in {<<>>, <<Append(head, Proposed(p))>>}
    BY <1>3 DEF Outcome, Proposed
  <2> QED
    BY <2>1, <2>2, <2>3, <2>4
<1>4. Len(head) # MaxAccepted => Len(head) < MaxAccepted
  <2>1. MaxAccepted \in Nat
    BY ControllerAssumption
  <2>2. Len(head) \in Nat
    BY LenProperties DEF Histories
  <2> QED
    BY <2>1, <2>2
<1> QED
  BY <1>2, <1>3, <1>4

\* The steps of the proposal are places of a job.
LEMMA OutcomePlaces ==
  ASSUME NEW p \in Procs
  PROVE  Outcome(p) \in {"RETRY", "DONE", "REPEAT", "PREPARED"}
  BY DEF Outcome

\* recover, compare and prepare, under the lock
LEMMA DecideKeeps ==
  ASSUME ControllerInv, NEW p \in Procs, Decide(p)
  PROVE  ControllerInv'
<1> USE DEF ControllerInv
<1>1. UNCHANGED <<store, returned, rollbacks>> /\ job[p].at = "LOCKED"
  BY DEF Decide, ghosts, At
<1>2. /\ lock = p
      /\ \A q \in Procs \ {p} : job[q].at \notin Working
  BY <1>1, Alone DEF Working
<1>3. PICK next : next = Outcome(p)
  OBVIOUS
<1>4. next \in {"RETRY", "DONE", "REPEAT", "PREPARED"}
  BY <1>3, OutcomePlaces
<1>5. /\ lock' = IF next \in {"RETRY", "DONE"} THEN "" ELSE lock
      /\ job' = [job EXCEPT ![p] = IF next = "DONE" THEN Idle ELSE [@ EXCEPT !.at = next]]
  BY <1>3 DEF Decide
<1>6. job'[p] \in Jobs /\ job' = [job EXCEPT ![p] = job'[p]]
  <2>1. Idle \in Jobs
    BY EmptySeq DEF Idle, Jobs, Places, Histories
  <2>2. next # "DONE" => [job[p] EXCEPT !.at = next] \in Jobs
    BY <1>4 DEF TypeOK, Jobs, Places, Working
  <2> QED
    BY <1>5, <2>1, <2>2 DEF TypeOK
<1>7. TypeOK'
  <2>1. seen' \in [Procs -> Histories]
    BY DEF Decide, TypeOK
  <2> QED
    BY <1>1, <1>5, <1>6, <2>1 DEF TypeOK, store
<1>8. ASSUME NEW q \in Procs PROVE Stands(q)'
  <2>1. CASE q # p
    <3>1. job'[q] = job[q]
      BY <1>6, <2>1 DEF TypeOK
    <3> QED
      BY <1>1, <1>2, <2>1, <3>1, StandsUntouched
  <2>2. CASE q = p /\ next = "DONE"
    <3>1. job'[p] = Idle
      BY <1>5, <2>2 DEF TypeOK
    <3> QED
      BY <2>2, <3>1 DEF Stands, Idle, Working, At
  <2>3. CASE q = p /\ next # "DONE"
    <3>1. job'[p].at = next /\ job'[p].command = job[p].command /\ job'[p].expected = job[p].expected
      BY <1>5, <2>3 DEF TypeOK, Jobs
    <3>2. Proposed(p)' = Proposed(p) /\ Proposed(p) \in Commands
      BY <1>1, <3>1 DEF Proposed, Stands
    <3>3. CASE next = "RETRY"
      BY <2>3, <3>1, <3>2, <3>3 DEF Stands, Working, At
    <3>4. CASE next = "REPEAT"
      <4>1. Witnessed' /\ lock' = p
        BY <1>1, <1>2, <1>3, <1>5, <3>4, OutcomeStands DEF TypeOK, Backed, Witnessed, store
      <4> QED
        BY <2>3, <3>1, <3>2, <3>4, <4>1 DEF Stands, Working, At
    <3>5. CASE next = "PREPARED"
      <4>1. Witnessed' /\ lock' = p
        BY <1>1, <1>2, <1>3, <1>5, <3>5, OutcomeStands DEF TypeOK, Backed, Witnessed, store
      <4>2. /\ job[p].expected = head
            /\ Len(head) < MaxAccepted
            /\ Known(head, Proposed(p)) = {}
            /\ records[Len(head) + 1] \in {<<>>, <<Append(head, Proposed(p))>>}
        BY <1>3, <3>5, OutcomeStands DEF TypeOK, Backed
      <4>3. head' = head /\ records' = records
        BY <1>1 DEF store
      <4>4. Known(head, Proposed(p))' = Known(head, Proposed(p))
        BY <3>2, <4>3 DEF Known
      <4> QED
        BY <2>3, <3>1, <3>2, <3>5, <4>1, <4>2, <4>3, <4>4 DEF Stands, Working, At
    <3> QED
      BY <1>4, <2>3, <3>3, <3>4, <3>5
  <2> QED
    BY <2>1, <2>2, <2>3
<1> QED
  BY <1>1, <1>7, <1>8, StoreStays

\* The record of the successor
LEMMA WriteRecordKeeps ==
  ASSUME ControllerInv, NEW p \in Procs, WriteRecord(p)
  PROVE  ControllerInv'
<1> USE DEF ControllerInv
<1> DEFINE new == Append(head, Proposed(p))
           place == Len(head) + 1
<1>1. job[p].at = "PREPARED" /\ UNCHANGED <<head, acks, lock, seen, returned, rollbacks>>
  BY DEF WriteRecord, ghosts, At
<1>2. /\ lock = p
      /\ \A q \in Procs \ {p} : job[q].at \notin Working
  BY <1>1, Alone DEF Working
<1>3. /\ Proposed(p) \in Commands /\ Witnessed /\ job[p].expected = head
      /\ Len(head) < MaxAccepted /\ Known(head, Proposed(p)) = {}
  BY <1>1 DEF Stands, Working
<1>4. new \in Histories /\ Len(head) \in Nat /\ MaxAccepted \in Nat
  <2>1. MaxAccepted \in Nat
    BY ControllerAssumption
  <2> QED
    BY <1>3, <2>1, AppendProperties, LenProperties DEF TypeOK, Histories
<1>5. place \in 1..MaxAccepted
  BY <1>3, <1>4
<1>6. /\ job'[p].at = "PERSISTED" /\ job'[p] \in Jobs
      /\ job'[p].command = job[p].command /\ job'[p].expected = job[p].expected
      /\ job' = [job EXCEPT ![p] = job'[p]]
  BY DEF WriteRecord, Go, TypeOK, Jobs, Places, Working
<1>7. records' = [records EXCEPT ![place] = <<new>>]
  BY DEF WriteRecord, Proposed
<1>8. records'[place] = <<new>>
  BY <1>5, <1>7 DEF TypeOK
<1> HIDE DEF new
<1>9. \A n \in 1..Len(head) : records'[n] = records[n]
  <2>1. \A n \in 1..Len(head) : n # place /\ n \in 1..MaxAccepted
    BY <1>4, <1>5
  <2> QED
    BY <1>7, <2>1 DEF TypeOK
<1>10. TypeOK'
  <2>1. <<new>> \in Seq(Histories)
    BY <1>4
  <2>2. records' \in [1..MaxAccepted -> Seq(Histories)]
    BY <1>5, <1>7, <2>1 DEF TypeOK
  <2> QED
    BY <1>1, <1>6, <2>2 DEF TypeOK
<1>11. Backed'
  BY <1>1, <1>9 DEF Backed
<1>12. PostedOnce' /\ Witnessed' /\ Returns' /\ ReturnedKept'
  BY <1>1, <1>3 DEF PostedOnce, Witnessed, Returns, ReturnedKept
<1>13. ASSUME NEW q \in Procs PROVE Stands(q)'
  <2>1. CASE q # p
    <3>1. job'[q] = job[q]
      BY <1>6, <2>1 DEF TypeOK
    <3> QED
      BY <1>2, <2>1, <3>1, StandsAside
  <2>2. CASE q = p
    <3>1. Proposed(p)' = Proposed(p)
      BY <1>6 DEF Proposed
    <3>2. Known(head, Proposed(p))' = {}
      BY <1>1, <1>3, <3>1 DEF Known
    <3>3. records'[Len(head') + 1] = <<Append(head', Proposed(p)')>>
      BY <1>1, <1>8, <3>1 DEF new
    <3> QED
      BY <1>1, <1>2, <1>3, <1>6, <1>12, <2>2, <3>1, <3>2, <3>3 DEF Stands, Working, At
  <2> QED
    BY <2>1, <2>2
<1> QED
  BY <1>10, <1>11, <1>12, <1>13

\* head.json is moved to the successor
LEMMA AdvanceHeadKeeps ==
  ASSUME ControllerInv, NEW p \in Procs, AdvanceHead(p)
  PROVE  ControllerInv'
<1> USE DEF ControllerInv
<1>1. job[p].at = "PERSISTED" /\ UNCHANGED <<records, acks, lock, seen, returned, rollbacks>>
  BY DEF AdvanceHead, ghosts, At
<1>2. /\ lock = p
      /\ \A q \in Procs \ {p} : job[q].at \notin Working
  BY <1>1, Alone DEF Working
<1>3. /\ Proposed(p) \in Commands /\ Witnessed /\ job[p].expected = head
      /\ Len(head) < MaxAccepted /\ Known(head, Proposed(p)) = {}
      /\ records[Len(head) + 1] = <<Append(head, Proposed(p))>>
  BY <1>1 DEF Stands, Working, At
<1>4. head' = Append(head, Proposed(p))
  BY <1>3 DEF AdvanceHead, Proposed
<1>5. head \in Seq(Commands) /\ Len(head) \in Nat /\ DOMAIN head = 1..Len(head)
  BY LenProperties DEF TypeOK, Histories
<1>6. /\ head' \in Seq(Commands) /\ Len(head') = Len(head) + 1
      /\ DOMAIN head' = 1..(Len(head) + 1)
      /\ \A i \in 1..Len(head) : head'[i] = head[i]
      /\ head'[Len(head) + 1] = Proposed(p)
  BY <1>3, <1>4, <1>5, AppendProperties, LenProperties
<1>7. /\ job'[p].at = "ADVANCED" /\ job'[p] \in Jobs
      /\ job'[p].command = job[p].command
      /\ job' = [job EXCEPT ![p] = job'[p]]
  BY DEF AdvanceHead, Go, TypeOK, Jobs, Places, Working
<1>8. TypeOK'
  BY <1>1, <1>6, <1>7 DEF TypeOK, Histories
<1>9. Backed'
  <2>1. MaxAccepted \in Nat
    BY ControllerAssumption
  <2>2. ASSUME NEW n \in 1..Len(head) PROVE records'[n] = <<SubSeq(head', 1, n)>>
    <3>1. SubSeq(head', 1, n) = SubSeq(head, 1, n)
      BY <1>3, <1>4, <1>5, AppendBeginnings
    <3> QED
      BY <1>1, <3>1 DEF Backed
  <2>3. records'[Len(head) + 1] = <<SubSeq(head', 1, Len(head) + 1)>>
    BY <1>1, <1>3, <1>4, <1>5, AppendBeginnings
  <2>4. \A n \in 1..(Len(head) + 1) : n \in 1..Len(head) \/ n = Len(head) + 1
    BY <1>5
  <2>5. \A n \in 1..Len(head') : records'[n] = <<SubSeq(head', 1, n)>>
    BY <1>6, <2>2, <2>3, <2>4
  <2> QED
    BY <1>3, <1>5, <1>6, <2>1, <2>5 DEF Backed
<1>10. PostedOnce'
  <2>1. \A n \in 1..Len(head) : head[n].id # Proposed(p).id
    BY <1>3, <1>5 DEF Known
  <2> SUFFICES ASSUME NEW m \in DOMAIN head', NEW n \in DOMAIN head', head'[m].id = head'[n].id
               PROVE  m = n
    BY DEF PostedOnce
  <2>2. CASE m \in 1..Len(head) /\ n \in 1..Len(head)
    BY <1>5, <1>6, <2>2 DEF PostedOnce
  <2>3. CASE m = Len(head) + 1 /\ n = Len(head) + 1
    BY <2>3
  <2>4. CASE m = Len(head) + 1 /\ n \in 1..Len(head)
    BY <1>6, <2>1, <2>4
  <2>5. CASE m \in 1..Len(head) /\ n = Len(head) + 1
    BY <1>6, <2>1, <2>5
  <2> QED
    BY <1>5, <1>6, <2>2, <2>3, <2>4, <2>5
<1>11. Witnessed'
  <2> SUFFICES ASSUME NEW a \in acks PROVE IsPrefix(a, head')
    BY <1>1 DEF Witnessed
  <2>1. IsPrefix(a, head) /\ a \in Seq(Commands)
    BY <1>3 DEF Witnessed, TypeOK, Histories
  <2> QED
    BY <1>3, <1>4, <1>5, <2>1, PrefixGrows
<1>12. Returns' /\ ReturnedKept'
  BY <1>1 DEF Returns, ReturnedKept
<1>13. ASSUME NEW q \in Procs PROVE Stands(q)'
  <2>1. CASE q # p
    <3>1. job'[q] = job[q]
      BY <1>7, <2>1 DEF TypeOK
    <3> QED
      BY <1>2, <2>1, <3>1, StandsAside
  <2>2. CASE q = p
    <3>1. Proposed(p)' = Proposed(p)
      BY <1>7 DEF Proposed
    <3> QED
      BY <1>1, <1>2, <1>3, <1>7, <1>11, <2>2, <3>1 DEF Stands, Working, At
  <2> QED
    BY <2>1, <2>2
<1> QED
  BY <1>8, <1>9, <1>10, <1>11, <1>12, <1>13

\* The store is read back and found to recover
LEMMA ReadBackKeeps ==
  ASSUME ControllerInv, NEW p \in Procs, ReadBack(p)
  PROVE  ControllerInv'
<1> USE DEF ControllerInv
<1>1. job[p].at = "ADVANCED" /\ UNCHANGED <<store, lock, returned, rollbacks>>
  BY DEF ReadBack, ghosts, At
<1>2. /\ job'[p].at = "READ_BACK" /\ job'[p] \in Jobs
      /\ job'[p].command = job[p].command
      /\ job' = [job EXCEPT ![p] = job'[p]]
  BY DEF ReadBack, Go, TypeOK, Jobs, Places, Working
<1>3. TypeOK'
  BY <1>1, <1>2 DEF TypeOK, ReadBack, store
<1>4. ASSUME NEW q \in Procs PROVE Stands(q)'
  <2>1. CASE q # p
    <3>1. job'[q] = job[q]
      BY <1>2, <2>1 DEF TypeOK
    <3> QED
      BY <1>1, <3>1, StandsUntouched
  <2>2. CASE q = p
    <3>1. lock = p /\ Witnessed /\ Proposed(p) \in Commands
      BY <1>1 DEF Stands, Working
    <3>2. Proposed(p)' = Proposed(p)
      BY <1>2 DEF Proposed
    <3>3. Witnessed'
      BY <1>1, <3>1 DEF Witnessed, store
    <3> QED
      BY <1>1, <1>2, <2>2, <3>1, <3>2, <3>3, Zenon DEF Stands, Working, At
  <2> QED
    BY <2>1, <2>2
<1> QED
  BY <1>1, <1>3, <1>4, StoreStays

\* The witness of the accepted state
LEMMA AcknowledgeKeeps ==
  ASSUME ControllerInv, NEW p \in Procs, Acknowledge(p)
  PROVE  ControllerInv'
<1> USE DEF ControllerInv
<1>1. /\ job[p].at \in {"READ_BACK", "REPEAT"}
      /\ UNCHANGED <<records, head, lock, seen, returned, rollbacks>>
      /\ acks' = acks \cup {head}
  BY DEF Acknowledge, ghosts, At
<1>2. /\ lock = p
      /\ \A q \in Procs \ {p} : job[q].at \notin Working
  BY <1>1, Alone DEF Working
<1>3. Witnessed /\ Proposed(p) \in Commands
  BY <1>1 DEF Stands, Working
<1>4. /\ job'[p].at = "ACKNOWLEDGED" /\ job'[p] \in Jobs
      /\ job'[p].command = job[p].command
      /\ job' = [job EXCEPT ![p] = job'[p]]
  BY DEF Acknowledge, Go, TypeOK, Jobs, Places, Working
<1>5. TypeOK'
  BY <1>1, <1>4 DEF TypeOK
<1>6. Backed' /\ PostedOnce' /\ ReturnedKept' /\ Returns'
  BY <1>1 DEF Backed, PostedOnce, ReturnedKept, Returns
<1>7. Witnessed'
  <2>1. IsPrefix(head, head)
    BY PrefixSelf DEF TypeOK, Histories
  <2> QED
    BY <1>1, <1>3, <2>1 DEF Witnessed
<1>8. ASSUME NEW q \in Procs PROVE Stands(q)'
  <2>1. CASE q # p
    <3>1. job'[q] = job[q]
      BY <1>4, <2>1 DEF TypeOK
    <3> QED
      BY <1>2, <2>1, <3>1, StandsAside
  <2>2. CASE q = p
    <3>1. Proposed(p)' = Proposed(p)
      BY <1>4 DEF Proposed
    <3> QED
      BY <1>1, <1>2, <1>3, <1>4, <1>7, <2>2, <3>1, Zenon DEF Stands, Working, At
  <2> QED
    BY <2>1, <2>2
<1> QED
  BY <1>5, <1>6, <1>7, <1>8

\* The accepted state is returned and the lock file removed
LEMMA ReturnKeeps ==
  ASSUME ControllerInv, NEW p \in Procs, Return(p)
  PROVE  ControllerInv'
<1> USE DEF ControllerInv
<1>1. /\ job[p].at = "ACKNOWLEDGED" /\ UNCHANGED <<records, head, acks, seen, rollbacks>>
      /\ lock' = "" /\ returned' = Append(returned, head) /\ job' = [job EXCEPT ![p] = Idle]
  BY DEF Return, At, store
<1>2. \A q \in Procs \ {p} : job[q].at \notin Working
  BY <1>1, Alone DEF Working
<1>3. Witnessed /\ head \in acks
  BY <1>1 DEF Stands, Working, At
<1>4. /\ returned \in Seq(Histories) /\ head \in Histories /\ Len(returned) \in Nat
      /\ returned' \in Seq(Histories) /\ Len(returned') = Len(returned) + 1
      /\ \A n \in 1..Len(returned) : returned'[n] = returned[n]
      /\ returned'[Len(returned) + 1] = head
  <2>1. returned \in Seq(Histories) /\ head \in Histories
    BY DEF TypeOK
  <2>2. Len(returned) \in Nat
    BY <2>1, LenProperties
  <2>3. /\ Append(returned, head) \in Seq(Histories)
        /\ Len(Append(returned, head)) = Len(returned) + 1
        /\ \A n \in 1..Len(returned) : Append(returned, head)[n] = returned[n]
        /\ Append(returned, head)[Len(returned) + 1] = head
    BY <2>1, <2>2
  <2> QED
    BY <1>1, <2>1, <2>2, <2>3, Zenon
<1>5. Idle \in Jobs
  BY EmptySeq DEF Idle, Jobs, Places, Histories
<1>6. TypeOK'
  BY <1>1, <1>4, <1>5 DEF TypeOK
<1>7. Backed' /\ PostedOnce' /\ Witnessed'
  BY <1>1, <1>3 DEF Backed, PostedOnce, Witnessed
<1>8. Returns'
  <2> SUFFICES ASSUME NEW n \in 1..Len(returned') PROVE returned'[n] \in acks
    BY <1>1 DEF Returns
  <2>1. CASE n \in 1..Len(returned)
    BY <1>4, <2>1 DEF Returns
  <2>2. CASE n = Len(returned) + 1
    BY <1>3, <1>4, <2>2
  <2> QED
    BY <1>4, <2>1, <2>2
<1>9. ReturnedKept'
  <2> SUFFICES ASSUME NEW n \in 1..(Len(returned') - 1)
               PROVE  IsPrefix(returned'[n], returned'[n + 1])
    BY DEF ReturnedKept
  <2>1. CASE n < Len(returned)
    <3>1. n \in 1..(Len(returned) - 1) /\ n \in 1..Len(returned) /\ n + 1 \in 1..Len(returned)
      BY <1>4, <2>1
    <3> QED
      BY <1>4, <3>1 DEF ReturnedKept
  <2>2. CASE n = Len(returned)
    <3>1. returned'[n + 1] = head /\ returned'[n] = returned[n] /\ returned[n] \in acks
      BY <1>4, <2>2 DEF Returns
    <3> QED
      BY <1>3, <3>1 DEF Witnessed
  <2> QED
    BY <1>4, <2>1, <2>2
<1>10. ASSUME NEW q \in Procs PROVE Stands(q)'
  <2>1. CASE q # p
    <3>1. job'[q] = job[q]
      BY <1>1, <2>1 DEF TypeOK
    <3> QED
      BY <1>2, <2>1, <3>1, StandsAside
  <2>2. CASE q = p
    <3>1. job'[p] = Idle
      BY <1>1 DEF TypeOK
    <3> QED
      BY <2>2, <3>1 DEF Stands, Idle, Working, At
  <2> QED
    BY <2>1, <2>2
<1> QED
  BY <1>6, <1>7, <1>8, <1>9, <1>10

-----------------------------------------------------------------------------
(* Faults.                                                                 *)

\* An interrupted process, with its lock file removed or left behind
LEMMA InterruptedKeeps ==
  ASSUME ControllerInv, NEW p \in Procs, Raise(p) \/ Kill(p)
  PROVE  ControllerInv'
<1> USE DEF ControllerInv
<1>1. /\ job[p].at \in Working /\ UNCHANGED <<store, returned, rollbacks>>
      /\ lock' \in {"", "ORPHAN"} /\ Go(p, "RETRY")
  BY DEF Raise, Kill
<1>2. \A q \in Procs \ {p} : job[q].at \notin Working
  BY <1>1, Alone
<1>3. /\ job'[p].at = "RETRY" /\ job'[p] \in Jobs
      /\ job'[p].command = job[p].command
      /\ job' = [job EXCEPT ![p] = job'[p]]
  BY <1>1 DEF Go, TypeOK, Jobs, Places, Working
<1>4. TypeOK'
  <2>1. <<>> \in Histories
    BY EmptySeq DEF Histories
  <2>2. seen' \in [Procs -> Histories]
    BY <2>1 DEF Raise, Kill, TypeOK
  <2> QED
    BY <1>1, <1>3, <2>2 DEF TypeOK, store
<1>5. ASSUME NEW q \in Procs PROVE Stands(q)'
  <2>1. CASE q # p
    <3>1. job'[q] = job[q]
      BY <1>3, <2>1 DEF TypeOK
    <3> QED
      BY <1>2, <2>1, <3>1, StandsAside
  <2>2. CASE q = p
    <3>1. Proposed(p)' \in Commands
      BY <1>1, <1>3 DEF Proposed, Stands, Working
    <3> QED
      BY <1>3, <2>2, <3>1, Zenon DEF Stands, Working, At
  <2> QED
    BY <2>1, <2>2
<1> QED
  BY <1>1, <1>4, <1>5, StoreStays

\* The owner removes an orphaned lock file
LEMMA ClearOrphanKeeps ==
  ASSUME ControllerInv, ClearOrphan
  PROVE  ControllerInv'
<1> USE DEF ControllerInv
<1>1. UNCHANGED <<store, job, seen, returned, rollbacks>> /\ lock = "ORPHAN" /\ lock' = ""
  BY DEF ClearOrphan, ghosts
<1>2. TypeOK'
  BY <1>1 DEF TypeOK, store
<1>3. ASSUME NEW q \in Procs PROVE Stands(q)'
  <2>1. job[q].at \notin Working
    BY <1>1, ControllerAssumption DEF Stands
  <2> QED
    BY <1>1, <2>1, StandsAside
<1> QED
  BY <1>1, <1>2, <1>3, StoreStays

\* An older head.json is put back
LEMMA RollBackKeeps ==
  ASSUME ControllerInv, NEW n \in 0..(MaxAccepted - 1), RollBack(n)
  PROVE  ControllerInv'
<1> USE DEF ControllerInv
<1>1. /\ lock = "" /\ n < Len(head) /\ head' = SubSeq(head, 1, n)
      /\ UNCHANGED <<records, acks, lock, job, returned>> /\ rollbacks' = rollbacks + 1
      /\ seen' = [p \in Procs |-> <<>>]
  BY DEF RollBack
<1>2. head \in Seq(Commands) /\ Len(head) \in Nat /\ DOMAIN head = 1..Len(head)
  BY LenProperties DEF TypeOK, Histories
<1>3. n \in 0..Len(head) /\ MaxAccepted \in Nat
  <2>1. MaxAccepted \in Nat
    BY ControllerAssumption
  <2>2. n < Len(head)
    BY <1>1
  <2>3. n \in Nat
    BY <2>1
  <2> QED
    BY <1>2, <2>1, <2>2, <2>3
<1>4. /\ head' \in Seq(Commands) /\ Len(head') = n
      /\ \A m \in 1..n : head'[m] = head[m]
      /\ \A m \in 1..n : SubSeq(head', 1, m) = SubSeq(head, 1, m)
  BY <1>1, <1>2, <1>3, CutBeginnings
<1>5. TypeOK'
  <2>1. <<>> \in Histories
    BY EmptySeq DEF Histories
  <2>2. head' \in Histories
    BY <1>4 DEF Histories
  <2>3. seen' \in [Procs -> Histories]
    BY <1>1, <2>1
  <2>4. rollbacks' \in Nat
    <3>1. rollbacks \in Nat /\ rollbacks' = rollbacks + 1
      BY <1>1 DEF TypeOK
    <3> QED
      BY <3>1
  <2> QED
    BY <1>1, <2>2, <2>3, <2>4 DEF TypeOK
<1>6. \A m \in 1..n : m \in 1..Len(head)
  BY <1>2, <1>3
<1>7. Backed'
  <2>1. \A m \in 1..n : records'[m] = <<SubSeq(head', 1, m)>>
    BY <1>1, <1>4, <1>6 DEF Backed
  <2>2. Len(head') <= MaxAccepted
    BY <1>2, <1>3, <1>4 DEF Backed
  <2> QED
    BY <1>4, <2>1, <2>2 DEF Backed
<1>8. PostedOnce'
  <2>1. DOMAIN head' = 1..n
    BY <1>4, LenProperties
  <2> QED
    BY <1>2, <1>4, <1>6, <2>1 DEF PostedOnce
<1>9. Returns' /\ ReturnedKept' /\ rollbacks' # 0
  <2>1. rollbacks \in Nat /\ rollbacks' = rollbacks + 1
    BY <1>1 DEF TypeOK
  <2>2. rollbacks' # 0
    BY <2>1
  <2> QED
    BY <1>1, <2>2 DEF Returns, ReturnedKept
<1>10. ASSUME NEW q \in Procs PROVE Stands(q)'
  <2>1. job[q].at \notin Working
    BY <1>1, ControllerAssumption DEF Stands
  <2> QED
    BY <1>1, <2>1, StandsAside
<1> QED
  BY <1>5, <1>7, <1>8, <1>9, <1>10

-----------------------------------------------------------------------------
\* ControllerInv holds in every state that the processes, their interruptions and
\* restored heads can reach.
THEOREM ControllerInvariance == Spec => []ControllerInv
<1>1. ControllerInv /\ [Next]_vars => ControllerInv'
  <2> SUFFICES ASSUME ControllerInv, [Next]_vars PROVE ControllerInv'
    OBVIOUS
  <2>1. CASE Next
    <3>1. ASSUME NEW p \in Procs, Client(p) PROVE ControllerInv'
      BY <3>1, ReadCurrentKeeps, LockKeeps, DecideKeeps, WriteRecordKeeps, AdvanceHeadKeeps,
         ReadBackKeeps, AcknowledgeKeeps, ReturnKeeps DEF Client
    <3> QED
      BY <2>1, <3>1, InterruptedKeeps, ClearOrphanKeeps, RollBackKeeps DEF Next
  <2>2. CASE UNCHANGED vars
    <3>1. UNCHANGED <<records, head, acks, lock, job, seen, returned, rollbacks>>
      BY <2>2 DEF vars
    <3>2. TypeOK'
      BY <3>1 DEF ControllerInv, TypeOK
    <3>3. \A q \in Procs : Stands(q)'
      BY <3>1, StandsUntouched DEF ControllerInv, store
    <3> QED
      BY <3>1, <3>2, <3>3, StoreStays DEF store
  <2> QED
    BY <2>1, <2>2
<1> QED
  BY <1>1, InvInit, PTL DEF Spec

\* No command is in the accepted history twice, however often it was retried and wherever
\* its process was interrupted, and while no older head.json was put back the history has
\* its records and extends everything acknowledged (propose, _recover).
THEOREM AcceptedHistorySound == Spec => []HistorySound
<1>1. ControllerInv => HistorySound
  <2> SUFFICES ASSUME ControllerInv PROVE HistorySound
    OBVIOUS
  <2>1. DOMAIN head = 1..Len(head)
    BY LenProperties DEF ControllerInv, TypeOK, Histories
  <2> QED
    BY <2>1 DEF ControllerInv, HistorySound, HeadBacked, Backed, Witnessed
<1> QED
  BY <1>1, ControllerInvariance, PTL

\* What propose() returned is part of everything it returns later, also after an older
\* head.json was put back and every process restarted.
THEOREM ReturnedStays == Spec => []ReturnedKept
<1>1. ControllerInv => ReturnedKept
  BY DEF ControllerInv
<1> QED
  BY <1>1, ControllerInvariance, PTL

\* No step replaces a record by another one: a tail that a crash left is resumed by the
\* exact retry, or stays in the way (_write_record).
THEOREM RecordsAreKept == Spec => RecordsStay
<1>1. ControllerInv /\ [Next]_vars => [RecordsStayStep]_vars
  <2> SUFFICES ASSUME ControllerInv, Next PROVE RecordsStayStep
    OBVIOUS
  <2>1. CASE records' = records
    BY <2>1 DEF RecordsStayStep
  <2>2. ASSUME NEW p \in Procs, WriteRecord(p) PROVE RecordsStayStep
    <3>1. records[Len(head) + 1] \in {<<>>, <<Append(head, Proposed(p))>>}
      BY <2>2 DEF WriteRecord, At, ControllerInv, Stands
    <3>2. records' = [records EXCEPT ![Len(head) + 1] = <<Append(head, Proposed(p))>>]
      BY <2>2 DEF WriteRecord, Proposed
    <3>3. records \in [1..MaxAccepted -> Seq(Histories)]
      BY DEF ControllerInv, TypeOK
    <3> QED
      BY <3>1, <3>2, <3>3 DEF RecordsStayStep
  <2>3. records' = records \/ \E p \in Procs : WriteRecord(p)
    BY DEF Next, Client, ReadCurrent, Lock, Decide, AdvanceHead, ReadBack, Acknowledge, Return,
           Raise, Kill, ClearOrphan, RollBack, store
  <2> QED
    BY <2>1, <2>2, <2>3
<1> QED
  BY <1>1, ControllerInvariance, PTL DEF Spec, RecordsStay
=============================================================================
