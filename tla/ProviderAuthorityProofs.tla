------------------------ MODULE ProviderAuthorityProofs ------------------------
(***************************************************************************)
(* Proofs about the retained provider authority, for any number of         *)
(* management and runtime processes, commands, requests, crashes and       *)
(* records: the history on disk is one that recover() accepts, a head read *)
(* without the fence had been published, and an admission is made under    *)
(* the head in force and before its expiry.                                *)
(*                                                                         *)
(* The argument is about the fence.  Whoever reads the files to decide     *)
(* something holds it from that read until the decision is written, so     *)
(* what the process remembers of the files is still what they hold.        *)
(***************************************************************************)
EXTENDS ProviderAuthority, SequenceTheorems, TLAPS

-----------------------------------------------------------------------------
(* What the files and the processes hold                                   *)

Ids == {c.id : c \in Commands}
Auths == [n : Nat, cmd : Ids, spec : Specs]
Gens ==
  {g \in [auth : Auths, n : Nat, spec : Specs, status : {"ACTIVE", "REVOKED", "EXPIRED"},
          pred : {<<>>} \cup {<<a>> : a \in Auths}] : g.auth.spec = g.spec}
Digests == [kind : Kinds, of : {<<s>> : s \in Specs} \cup {<<a>> : a \in Auths}]
Recs == [id : Ids, kind : Kinds \cup {"TORN"}, gen : Gens, digest : Digests]
Heads == {<<>>} \cup {<<n>> : n \in Nat}

AskPcs == {"intent", "wait", "decide", "establish", "boothead", "boottime", "leave"}
MakePcs == {"create", "head", "leave"}
ReadPcs == {"want", "lock", "inspect"}
Asking == [pc : AskPcs, cmd : Commands \cup Boots, seen : Heads, now : Int]
Making == [pc : MakePcs, cmd : Commands, rec : Recs]
Reading == [pc : ReadPcs, now : Int, kind : {"admit", "fence"}]
Admitting == [pc : {"snapshot"}, now : Int, head : Nat, gen : Gens]
Ending == [pc : {"out"}]
Looking == [pc : {"headfile"}, recs : Seq(Recs)]
Telling == [pc : {"told"}, n : Nat]
ManagerJobs == {Idle} \cup Asking \cup Making
RuntimeJobs == {Idle} \cup Reading \cup Admitting \cup Ending \cup Looking \cup Telling
Suits(p, j) == (p \in Managers /\ j \in ManagerJobs) \/ (p \in Runtimes /\ j \in RuntimeJobs)

FileTypes == recs \in Seq(Recs) /\ head \in Heads /\ high \in {<<>>} \cup {<<t>> : t \in Int}
JobTypes == job = [p \in Procs |-> job[p]] /\ \A p \in Procs : Suits(p, job[p])

\* A process holds the fence exactly while it is in between; a writer has the owner
\* lock all along, and the writer-intent file is there from its creation on.
Held == {"decide", "establish", "boothead", "boottime", "create", "head", "leave",
         "inspect", "snapshot", "out"}
Writing == AskPcs \cup MakePcs
Fenced ==
  /\ intent \in BOOLEAN /\ owner \in Procs \cup {"none"} /\ fence \in Procs \cup {"none"}
  /\ \A p \in Procs : job[p].pc \in Held <=> fence = p
  /\ \A p \in Procs : job[p].pc \in Writing => owner = p
  /\ \A p \in Procs : job[p].pc \in Writing \ {"intent"} => intent

\* The bootstrap files come one after the other.
Started ==
  /\ boot = <<>> => head = <<>>
  /\ head = <<>> => high = <<>>

\* The head names a transition that is there.
Published ==
  /\ Len(recs) <= MaxRecords
  /\ head # <<>> => head[1] <= Len(recs)

\* What a process rests on is still so.
Claims(p) ==
  /\ At(p, "decide") => job[p].cmd \in Commands
  /\ At(p, "establish") => job[p].cmd \in Boots
  /\ At(p, "create") => Follows(recs, job[p].rec) /\ boot # <<>> /\ Len(recs) < MaxRecords
  /\ At(p, "head") => boot # <<>>
  /\ At(p, "boothead") => boot # <<>> /\ head = <<>> /\ job[p].cmd \in Boots
  /\ At(p, "boottime") => boot # <<>> /\ head # <<>> /\ high = <<>> /\ job[p].cmd \in Boots
  /\ At(p, "snapshot") =>
       /\ head = <<job[p].head>> /\ Len(recs) = job[p].head
       /\ recs # <<>> /\ Last(recs).gen = job[p].gen /\ job[p].gen.status = "ACTIVE"
       /\ job[p].now < job[p].gen.spec.until
  /\ At(p, "told") => head # <<>> /\ job[p].n <= head[1]
Claiming == {"decide", "establish", "create", "head", "boothead", "boottime", "snapshot", "told"}

\* The inductive invariant
ProviderInv ==
  /\ FileTypes /\ JobTypes /\ Fenced /\ Started /\ Published /\ HistoryReplays
  /\ \A p \in Procs : Claims(p)

-----------------------------------------------------------------------------
(* Processes and their jobs                                                *)

\* Where a process is says what it is and what it remembers.
LEMMA Who ==
  ASSUME JobTypes, NEW p \in Procs
  PROVE  /\ job[p].pc \in AskPcs \ {"leave"} => p \in Managers /\ job[p] \in Asking
         /\ job[p].pc \in {"create", "head"} => p \in Managers /\ job[p] \in Making
         /\ job[p].pc = "leave" => p \in Managers
         /\ job[p].pc \in ReadPcs => p \in Runtimes /\ job[p] \in Reading
         /\ job[p].pc = "snapshot" => p \in Runtimes /\ job[p] \in Admitting
         /\ job[p].pc = "out" => p \in Runtimes
         /\ job[p].pc = "headfile" => p \in Runtimes /\ job[p] \in Looking
         /\ job[p].pc = "told" => p \in Runtimes /\ job[p] \in Telling
<1>1. Suits(p, job[p])
  BY DEF JobTypes
<1>2. /\ job[p] = Idle => job[p].pc = "idle"
      /\ job[p] \in Asking => job[p].pc \in AskPcs
      /\ job[p] \in Making => job[p].pc \in MakePcs
      /\ job[p] \in Reading => job[p].pc \in ReadPcs
      /\ job[p] \in Admitting => job[p].pc = "snapshot"
      /\ job[p] \in Ending => job[p].pc = "out"
      /\ job[p] \in Looking => job[p].pc = "headfile"
      /\ job[p] \in Telling => job[p].pc = "told"
  BY DEF Idle, Asking, Making, Reading, Admitting, Ending, Looking, Telling
<1>3. CASE p \in Managers /\ job[p] \in ManagerJobs
  BY <1>2, <1>3 DEF ManagerJobs, AskPcs, MakePcs, ReadPcs
<1>4. CASE p \in Runtimes /\ job[p] \in RuntimeJobs
  BY <1>2, <1>4 DEF RuntimeJobs, AskPcs, MakePcs, ReadPcs
<1> QED
  BY <1>1, <1>3, <1>4 DEF Suits

\* A step of one process changes its job only.
LEMMA JobAfter ==
  ASSUME JobTypes, NEW p \in Procs, NEW j, Go(p, j)
  PROVE  /\ job'[p] = j /\ \A q \in Procs \ {p} : job'[q] = job[q]
         /\ Suits(p, j) => JobTypes'
<1>1. job'[p] = j /\ \A q \in Procs \ {p} : job'[q] = job[q]
  BY DEF JobTypes, Go
<1>2. job' = [q \in Procs |-> job'[q]]
  BY DEF JobTypes, Go
<1>3. ASSUME Suits(p, j) PROVE \A q \in Procs : Suits(q, job'[q])
  BY <1>1, <1>3 DEF JobTypes
<1> QED
  BY <1>1, <1>2, <1>3 DEF JobTypes, Suits

\* A process that moves on keeps what it remembers.
LEMMA MoveAsking ==
  ASSUME NEW j \in Asking, NEW pc \in AskPcs
  PROVE  /\ [j EXCEPT !.pc = pc] \in Asking /\ [j EXCEPT !.pc = pc].pc = pc
         /\ [j EXCEPT !.pc = pc].cmd = j.cmd
  BY DEF Asking

LEMMA MoveMaking ==
  ASSUME NEW j \in Making, NEW pc \in MakePcs
  PROVE  [j EXCEPT !.pc = pc] \in Making /\ [j EXCEPT !.pc = pc].pc = pc
  BY DEF Making

LEMMA MoveReading ==
  ASSUME NEW j \in Reading, NEW pc \in ReadPcs
  PROVE  [j EXCEPT !.pc = pc] \in Reading /\ [j EXCEPT !.pc = pc].pc = pc
  BY DEF Reading

\* Locks that do not change, and a process that holds what it held
LEMMA LocksKept ==
  ASSUME JobTypes, Fenced, NEW p \in Procs, NEW j, Go(p, j), UNCHANGED locks,
         j.pc \in Held <=> job[p].pc \in Held,
         j.pc \in Writing => job[p].pc \in Writing,
         j.pc \in Writing \ {"intent"} => job[p].pc \in Writing \ {"intent"}
  PROVE  Fenced'
<1>1. job'[p] = j /\ \A q \in Procs \ {p} : job'[q] = job[q]
  BY JobAfter
<1>2. intent' = intent /\ owner' = owner /\ fence' = fence
  BY DEF locks
<1>3. \A q \in Procs : job'[q].pc \in Held <=> job[q].pc \in Held
  BY <1>1
<1>4. \A q \in Procs : job'[q].pc \in Writing => job[q].pc \in Writing
  BY <1>1
<1>5. \A q \in Procs : job'[q].pc \in Writing \ {"intent"} => job[q].pc \in Writing \ {"intent"}
  BY <1>1
<1> HIDE DEF Held, Writing
<1> QED
  BY <1>2, <1>3, <1>4, <1>5 DEF Fenced

\* Only the holder of the fence is in between.
LEMMA Alone ==
  ASSUME Fenced, NEW p \in Procs, fence = p, NEW q \in Procs \ {p}
  PROVE  job[q].pc \notin Held
  BY DEF Fenced

HeadGrows == head # <<>> => head' # <<>> /\ head'[1] >= head[1]

\* A process that rests on nothing, or only on a head that was published, is not
\* disturbed by the holder of the fence.
LEMMA ClaimsNothing ==
  ASSUME NEW p, job'[p].pc \notin Claiming
  PROVE  Claims(p)'
  BY DEF Claims, At, Claiming

LEMMA ClaimsOfOthers ==
  ASSUME FileTypes, FileTypes', JobTypes, Fenced, HeadGrows, NEW p \in Procs, fence = p,
         NEW q \in Procs \ {p}, job'[q] = job[q], Claims(q)
  PROVE  Claims(q)'
<1>1. job[q].pc \notin Held
  BY Alone
<1>2. CASE job[q].pc = "told"
  <2>1. job[q].n \in Nat
    BY <1>2, Who DEF Telling
  <2>2. head # <<>> /\ job[q].n <= head[1]
    BY <1>2 DEF Claims, At
  <2>3. head[1] \in Nat
    BY <2>2 DEF FileTypes, Heads
  <2>4. head' # <<>> /\ head'[1] >= head[1]
    BY <2>2 DEF HeadGrows
  <2>5. head'[1] \in Nat
    BY <2>4 DEF FileTypes, Heads
  <2>6. job[q].n <= head'[1]
    BY <2>1, <2>2, <2>3, <2>4, <2>5
  <2> QED
    BY <1>2, <2>4, <2>6 DEF Claims, At
<1>3. CASE job[q].pc # "told"
  BY <1>1, <1>3, ClaimsNothing, Zenon DEF Held, Claiming
<1> QED
  BY <1>2, <1>3

LEMMA ClaimsOfFiles ==
  ASSUME UNCHANGED files, NEW q, job'[q] = job[q], Claims(q)
  PROVE  Claims(q)'
  BY DEF files, Claims, At, Follows, Active, Last

\* A step that touches no file, and one of the holder of the fence that does
LEMMA QuietStep ==
  ASSUME ProviderInv, NEW p \in Procs, NEW j, Go(p, j), Suits(p, j), UNCHANGED files,
         Fenced', Claims(p)'
  PROVE  ProviderInv'
<1>1. JobTypes' /\ \A q \in Procs \ {p} : job'[q] = job[q]
  BY JobAfter DEF ProviderInv
<1>2. \A q \in Procs : Claims(q)'
  BY <1>1, ClaimsOfFiles DEF ProviderInv
<1>3. FileTypes' /\ Started' /\ Published'
  BY DEF ProviderInv, FileTypes, Started, Published, files
<1>4. HistoryReplays'
  BY DEF ProviderInv, HistoryReplays, files
<1> QED
  BY <1>1, <1>2, <1>3, <1>4 DEF ProviderInv

LEMMA FileStep ==
  ASSUME ProviderInv, NEW p \in Procs, fence = p, NEW j, Go(p, j), Suits(p, j), HeadGrows,
         FileTypes', Started', Published', HistoryReplays', Fenced', Claims(p)'
  PROVE  ProviderInv'
<1>1. JobTypes' /\ \A q \in Procs \ {p} : job'[q] = job[q]
  BY JobAfter DEF ProviderInv
<1>2. \A q \in Procs \ {p} : Claims(q)'
  BY <1>1, ClaimsOfOthers DEF ProviderInv
<1> QED
  BY <1>1, <1>2 DEF ProviderInv

-----------------------------------------------------------------------------
(* The history                                                             *)

LEMMA RecsTypes ==
  ASSUME FileTypes
  PROVE  /\ Len(recs) \in Nat /\ DOMAIN recs = 1..Len(recs)
         /\ \A i \in 1..Len(recs) : recs[i] \in Recs
         /\ recs # <<>> => Len(recs) \in 1..Len(recs) /\ Last(recs) \in Recs
<1>1. Len(recs) \in Nat /\ DOMAIN recs = 1..Len(recs)
  BY LenProperties DEF FileTypes
<1>2. \A i \in 1..Len(recs) : recs[i] \in Recs
  BY ElementOfSeq DEF FileTypes
<1>3. recs # <<>> => Len(recs) \in 1..Len(recs)
  BY <1>1, EmptySeq DEF FileTypes
<1> QED
  BY <1>1, <1>2, <1>3 DEF Last

\* A history that grows begins as before.
LEMMA Beginnings ==
  ASSUME NEW S, NEW h \in Seq(S), NEW r \in S
  PROVE  \A i \in 1..(Len(h) + 1) : SubSeq(Append(h, r), 1, i - 1) = SubSeq(h, 1, i - 1)
<1>1. Append(h, r) \in Seq(S) /\ Len(Append(h, r)) = Len(h) + 1
  BY AppendProperties
<1>2. \A i \in 1..Len(h) : Append(h, r)[i] = h[i]
  BY AppendProperties
<1>3. Len(h) \in Nat
  BY LenProperties
<1> SUFFICES ASSUME NEW i \in 1..(Len(h) + 1)
             PROVE  SubSeq(Append(h, r), 1, i - 1) = SubSeq(h, 1, i - 1)
  OBVIOUS
<1>4. CASE i = 1
  BY <1>4, SubSeqEmpty
<1>5. CASE i # 1
  BY <1>1, <1>2, <1>3, <1>5
<1> QED
  BY <1>4, <1>5

\* A record is appended that follows from the history, or a torn one.
LEMMA HistoryGrows ==
  ASSUME FileTypes, HistoryReplays, NEW r \in Recs, recs' = Append(recs, r),
         r.kind # "TORN" => Follows(recs, r)
  PROVE  HistoryReplays' /\ recs' \in Seq(Recs) /\ Len(recs') = Len(recs) + 1
<1>1. recs \in Seq(Recs) /\ Len(recs) \in Nat /\ DOMAIN recs = 1..Len(recs)
  BY RecsTypes DEF FileTypes
<1>2. /\ recs' \in Seq(Recs) /\ Len(recs') = Len(recs) + 1
      /\ \A i \in 1..Len(recs) : recs'[i] = recs[i]
      /\ recs'[Len(recs) + 1] = r
  BY <1>1, AppendProperties
<1>3. DOMAIN recs' = 1..(Len(recs) + 1)
  BY <1>2, LenProperties
<1>4. \A i \in 1..(Len(recs) + 1) : SubSeq(recs', 1, i - 1) = SubSeq(recs, 1, i - 1)
  BY <1>1, Beginnings
<1>5. ASSUME NEW i \in 1..(Len(recs) + 1), recs'[i].kind # "TORN"
      PROVE  Follows(SubSeq(recs', 1, i - 1), recs'[i])
  <2>1. CASE i \in 1..Len(recs)
    <3>1. Follows(SubSeq(recs, 1, i - 1), recs[i])
      BY <1>1, <1>2, <1>5, <2>1 DEF HistoryReplays
    <3> QED
      BY <3>1, <1>2, <1>4, <2>1, Zenon
  <2>2. CASE i = Len(recs) + 1
    <3>1. i - 1 = Len(recs)
      BY <2>2, <1>1
    <3>2. SubSeq(recs, 1, i - 1) = recs
      BY <3>1, <1>1, SubSeqFull
    <3>3. SubSeq(recs', 1, i - 1) = recs
      BY <3>2, <1>4
    <3> QED
      BY <3>3, <1>2, <1>5, <2>2, Zenon
  <2> QED
    BY <1>1, <2>1, <2>2
<1> QED
  BY <1>2, <1>3, <1>5 DEF HistoryReplays

\* The record a command asks for follows from the history it finds.
LEMMA NewFollows ==
  ASSUME FileTypes, NEW cmd \in Commands, NEW seen, Publishes(cmd, seen)
  PROVE  NewRecord(cmd) \in Recs /\ NewRecord(cmd).kind # "TORN" /\ Follows(recs, NewRecord(cmd))
<1> DEFINE n == (IF recs = <<>> THEN 0 ELSE Last(recs).gen.n) + 1
           pred == IF recs = <<>> THEN <<>> ELSE <<Last(recs).gen.auth>>
           auth == [n |-> n, cmd |-> cmd.id, spec |-> cmd.spec]
           fresh == [auth |-> auth, n |-> n, spec |-> cmd.spec, status |-> "ACTIVE", pred |-> pred]
           g == Last(recs).gen
           status == IF cmd.kind = "REVOKE" THEN "REVOKED" ELSE "EXPIRED"
           ended == [g EXCEPT !.status = status]
<1>1. cmd.kind \in Kinds /\ cmd.id \in Ids
  BY ProviderAssumption DEF Ids
<1>2. \A i \in DOMAIN recs : recs[i].id # cmd.id
  BY DEF Publishes, Recorded
<1>3. recs # <<>> => g \in Gens
  BY RecsTypes DEF Recs
<1>4. recs # <<>> => g.n \in Nat /\ g.auth \in Auths
  BY <1>3 DEF Gens
<1>5. CASE cmd.kind \in {"ACTIVATE", "ROTATE"}
  <2>1. NewRecord(cmd) = [id |-> cmd.id, kind |-> cmd.kind, gen |-> fresh,
                          digest |-> [kind |-> cmd.kind, of |-> <<cmd.spec>>]]
    BY <1>5 DEF NewRecord, Digest
  <2>2. cmd.spec \in Specs /\ n \in Nat /\ pred \in {<<>>} \cup {<<a>> : a \in Auths}
    BY <1>5, <1>4 DEF Publishes, Permitted
  <2>3. auth \in Auths /\ auth.spec = cmd.spec
    BY <1>1, <2>2 DEF Auths
  <2>4. fresh \in Gens
    <3> HIDE DEF auth, n, pred
    <3> QED
      BY <2>2, <2>3 DEF Gens
  <2>5. [kind |-> cmd.kind, of |-> <<cmd.spec>>] \in Digests
    BY <1>1, <2>2 DEF Digests
  <2>6. fresh.n = n /\ fresh.pred = pred
    OBVIOUS
  <2> HIDE DEF fresh, n, pred, auth
  <2>7. NewRecord(cmd) \in Recs
    BY <2>1, <2>4, <2>5, <1>1 DEF Recs
  <2>8. NewRecord(cmd).id = cmd.id /\ NewRecord(cmd).kind = cmd.kind /\ NewRecord(cmd).gen = fresh
    BY <2>1
  <2>9. CASE cmd.kind = "ACTIVATE"
    <3>1. Active(recs) = <<>>
      BY <2>9 DEF Publishes
    <3> QED
      BY <3>1, <1>2, <2>6, <2>7, <2>8, <2>9 DEF Follows, n, pred
  <2>10. CASE cmd.kind = "ROTATE"
    <3>1. Active(recs) # <<>>
      BY <2>10 DEF Publishes
    <3>2. recs # <<>> /\ Active(recs) = <<g>>
      BY <3>1 DEF Active
    <3>3. fresh.n = Active(recs)[1].n + 1 /\ fresh.pred = <<Active(recs)[1].auth>>
      BY <3>2, <2>6 DEF n, pred
    <3> QED
      BY <3>1, <3>3, <1>2, <2>7, <2>8, <2>10 DEF Follows
  <2> QED
    BY <1>5, <2>9, <2>10
<1>6. CASE cmd.kind \in {"REVOKE", "EXPIRE"}
  <2>1. Active(recs) # <<>>
    BY <1>6 DEF Publishes
  <2>2. recs # <<>> /\ Active(recs) = <<g>>
    BY <2>1 DEF Active
  <2>3. NewRecord(cmd) = [id |-> cmd.id, kind |-> cmd.kind, gen |-> ended,
                          digest |-> [kind |-> cmd.kind, of |-> <<g.auth>>]]
    BY <1>6, <2>2 DEF NewRecord, Digest
  <2>4. ended \in Gens /\ ended.auth = g.auth /\ ended.n = g.n
    BY <1>3, <2>2 DEF Gens
  <2>5. [kind |-> cmd.kind, of |-> <<g.auth>>] \in Digests
    BY <1>1, <1>4, <2>2 DEF Digests
  <2> HIDE DEF ended, g
  <2>6. NewRecord(cmd) \in Recs
    BY <2>3, <2>4, <2>5, <1>1 DEF Recs
  <2>7. NewRecord(cmd).id = cmd.id /\ NewRecord(cmd).kind = cmd.kind /\ NewRecord(cmd).gen = ended
    BY <2>3
  <2>8. ended.auth = Active(recs)[1].auth /\ ended.n = Active(recs)[1].n
    BY <2>2, <2>4
  <2> QED
    BY <1>2, <1>6, <2>1, <2>6, <2>7, <2>8 DEF Follows
<1> QED
  BY <1>1, <1>5, <1>6 DEF Kinds

-----------------------------------------------------------------------------
(* Locks that change                                                       *)

\* Writers exclude each other by the owner lock.
LEMMA OneWriter ==
  ASSUME Fenced, NEW p \in Procs, owner = "none" \/ owner = p
  PROVE  \A q \in Procs \ {p} : job[q].pc \notin Writing
  BY ProviderAssumption DEF Fenced

\* A process takes or leaves locks, and disturbs no other.
LEMMA LocksStep ==
  ASSUME JobTypes, Fenced, NEW p \in Procs, NEW j, Go(p, j),
         intent' \in BOOLEAN, owner' \in Procs \cup {"none"}, fence' \in Procs \cup {"none"},
         j.pc \in Held <=> fence' = p, j.pc \in Writing => owner' = p,
         j.pc \in Writing \ {"intent"} => intent',
         \A q \in Procs \ {p} : fence' = q <=> fence = q,
         \A q \in Procs \ {p} : job[q].pc \in Writing => owner' = q,
         \A q \in Procs \ {p} : job[q].pc \in Writing \ {"intent"} => intent'
  PROVE  Fenced'
<1>1. job'[p] = j /\ \A q \in Procs \ {p} : job'[q] = job[q]
  BY JobAfter
<1>2. \A q \in Procs : job'[q].pc \in Held <=> fence' = q
  BY <1>1 DEF Fenced
<1>3. \A q \in Procs : job'[q].pc \in Writing => owner' = q
  BY <1>1
<1>4. \A q \in Procs : job'[q].pc \in Writing \ {"intent"} => intent'
  BY <1>1
<1> QED
  BY <1>2, <1>3, <1>4 DEF Fenced

LEMMA IdleSuits ==
  ASSUME NEW p \in Procs
  PROVE  Suits(p, Idle) /\ Idle.pc = "idle" /\ "idle" \notin Held \cup Writing \cup Claiming
  BY DEF Procs, Suits, ManagerJobs, RuntimeJobs, Idle, Held, Writing, AskPcs, MakePcs, Claiming

LEMMA HeadSame ==
  ASSUME FileTypes, head' = head
  PROVE  HeadGrows
<1>1. head # <<>> => head[1] \in Nat
  BY DEF FileTypes, Heads
<1> QED
  BY <1>1 DEF HeadGrows

-----------------------------------------------------------------------------
(* The writer fence                                                        *)

LEMMA BeginWriteKeeps ==
  ASSUME ProviderInv, NEW p \in Managers, NEW c \in Commands \cup Boots, NEW t \in Times,
         NEW seen \in {head, << 0 >>}, BeginWrite(p, c, t, seen)
  PROVE  ProviderInv'
<1> DEFINE j == [pc |-> "intent", cmd |-> c, seen |-> seen, now |-> t]
<1>1. /\ owner = "none" /\ owner' = p /\ At(p, "idle") /\ Go(p, j)
      /\ UNCHANGED files /\ intent' = intent /\ fence' = fence
  BY DEF BeginWrite, Ask
<1>2. p \in Procs /\ JobTypes /\ Fenced /\ FileTypes
  BY DEF Procs, ProviderInv
<1>3. seen \in Heads /\ t \in Int
  BY <1>2, ProviderAssumption DEF FileTypes, Heads
<1>4. j \in Asking /\ j.pc = "intent"
  BY <1>3 DEF Asking, AskPcs
<1> HIDE DEF j
<1>5. Suits(p, j)
  BY <1>4 DEF Suits, ManagerJobs
<1>6. \A q \in Procs \ {p} : job[q].pc \notin Writing
  BY <1>1, <1>2, OneWriter
<1>7. fence # p
  BY <1>1, <1>2 DEF Fenced, At, Held
<1>8. "intent" \notin Held /\ intent' \in BOOLEAN /\ fence' \in Procs \cup {"none"}
  BY <1>1, <1>2 DEF Fenced, Held
<1>9. Fenced'
  BY <1>1, <1>2, <1>4, <1>6, <1>7, <1>8, LocksStep, Zenon
<1>10. Claims(p)'
  BY <1>1, <1>2, <1>4, JobAfter, ClaimsNothing DEF Claiming
<1> QED
  BY <1>1, <1>2, <1>5, <1>9, <1>10, QuietStep

LEMMA WriteIntentKeeps ==
  ASSUME ProviderInv, NEW p \in Procs, WriteIntent(p)
  PROVE  ProviderInv'
<1> DEFINE j == [job[p] EXCEPT !.pc = "wait"]
<1>1. /\ At(p, "intent") /\ Go(p, j) /\ UNCHANGED files
      /\ intent' = TRUE /\ owner' = owner /\ fence' = fence
  BY DEF WriteIntent, Move
<1>2. JobTypes /\ Fenced
  BY DEF ProviderInv
<1>3. p \in Managers /\ job[p] \in Asking
  BY <1>1, <1>2, Who DEF At, AskPcs
<1>4. j \in Asking /\ j.pc = "wait"
  BY <1>3, MoveAsking, Zenon DEF AskPcs
<1> HIDE DEF j
<1>5. Suits(p, j)
  BY <1>3, <1>4 DEF Suits, ManagerJobs
<1>6. owner = p /\ fence # p
  BY <1>1, <1>2 DEF Fenced, At, Held, Writing, AskPcs
<1>7. \A q \in Procs \ {p} : job[q].pc \notin Writing
  BY <1>2, <1>6, OneWriter
<1>8. "wait" \notin Held /\ fence' \in Procs \cup {"none"}
  BY <1>1, <1>2 DEF Fenced, Held
<1>9. Fenced'
  BY <1>1, <1>2, <1>4, <1>6, <1>7, <1>8, LocksStep
<1>10. Claims(p)'
  BY <1>1, <1>2, <1>4, JobAfter, ClaimsNothing DEF Claiming
<1> QED
  BY <1>1, <1>5, <1>9, <1>10, QuietStep

LEMMA EnterWriteKeeps ==
  ASSUME ProviderInv, NEW p \in Procs, EnterWrite(p)
  PROVE  ProviderInv'
<1> DEFINE pc == IF job[p].cmd.kind = "BOOTSTRAP" THEN "establish" ELSE "decide"
           j == [job[p] EXCEPT !.pc = pc]
<1>1. /\ At(p, "wait") /\ Go(p, j) /\ UNCHANGED files
      /\ fence = "none" /\ fence' = p /\ intent' = intent /\ owner' = owner
  BY DEF EnterWrite, Move
<1>2. JobTypes /\ Fenced
  BY DEF ProviderInv
<1>3. p \in Managers /\ job[p] \in Asking
  BY <1>1, <1>2, Who DEF At, AskPcs
<1>4. pc \in AskPcs /\ pc \in Held /\ pc \in {"establish", "decide"}
  BY DEF AskPcs, Held
<1>5. job[p].cmd \in Commands \cup Boots
  BY <1>3 DEF Asking
<1>6. /\ pc = "decide" => job[p].cmd \in Commands
      /\ pc = "establish" => job[p].cmd \in Boots
  BY <1>5, ProviderAssumption DEF Kinds
<1> HIDE DEF pc
<1>7. j \in Asking /\ j.pc = pc /\ j.cmd = job[p].cmd
  BY <1>3, <1>4, MoveAsking
<1> HIDE DEF j
<1>8. Suits(p, j)
  BY <1>3, <1>7 DEF Suits, ManagerJobs
<1>9. owner = p /\ intent = TRUE
  BY <1>1, <1>2 DEF Fenced, At, Writing, AskPcs
<1>10. \A q \in Procs \ {p} : job[q].pc \notin Writing
  BY <1>2, <1>9, OneWriter
<1>11. \A q \in Procs \ {p} : fence' = q <=> fence = q
  BY <1>1, ProviderAssumption
<1>12. Fenced'
  BY <1>1, <1>2, <1>4, <1>7, <1>9, <1>10, <1>11, LocksStep
<1>13. job'[p] = j
  BY <1>1, <1>2, JobAfter
<1>14. Claims(p)'
  BY <1>4, <1>6, <1>7, <1>13 DEF Claims, At
<1> QED
  BY <1>1, <1>8, <1>12, <1>14, QuietStep

LEMMA GiveUpWriteKeeps ==
  ASSUME ProviderInv, NEW p \in Procs, GiveUpWrite(p)
  PROVE  ProviderInv'
<1>1. /\ At(p, "wait") /\ Go(p, Idle) /\ UNCHANGED files
      /\ intent' = FALSE /\ owner' = "none" /\ fence' = fence
  BY DEF GiveUpWrite
<1>2. JobTypes /\ Fenced
  BY DEF ProviderInv
<1>3. owner = p /\ fence # p
  BY <1>1, <1>2 DEF Fenced, At, Held, Writing, AskPcs
<1>4. \A q \in Procs \ {p} : job[q].pc \notin Writing
  BY <1>2, <1>3, OneWriter
<1>5. fence' \in Procs \cup {"none"}
  BY <1>1, <1>2 DEF Fenced
<1>6. Fenced'
  BY <1>1, <1>2, <1>3, <1>4, <1>5, IdleSuits, LocksStep, Zenon
<1>7. Claims(p)'
  BY <1>1, <1>2, IdleSuits, JobAfter, ClaimsNothing
<1> QED
  BY <1>1, <1>6, <1>7, IdleSuits, QuietStep

LEMMA LeaveKeeps ==
  ASSUME ProviderInv, NEW p \in Procs, Leave(p)
  PROVE  ProviderInv'
<1>1. /\ At(p, "leave") /\ Go(p, Idle) /\ UNCHANGED files
      /\ intent' = FALSE /\ owner' = "none" /\ fence' = "none"
  BY DEF Leave
<1>2. JobTypes /\ Fenced
  BY DEF ProviderInv
<1>3. owner = p /\ fence = p
  BY <1>1, <1>2 DEF Fenced, At, Held, Writing, AskPcs
<1>4. \A q \in Procs \ {p} : job[q].pc \notin Writing
  BY <1>2, <1>3, OneWriter
<1>5. p # "none" /\ \A q \in Procs \ {p} : fence' = q <=> fence = q
  BY <1>1, <1>3, ProviderAssumption
<1>6. Fenced'
  BY <1>1, <1>2, <1>3, <1>4, <1>5, IdleSuits, LocksStep, Zenon
<1>7. Claims(p)'
  BY <1>1, <1>2, IdleSuits, JobAfter, ClaimsNothing, Zenon
<1> QED
  BY <1>1, <1>6, <1>7, IdleSuits, QuietStep

-----------------------------------------------------------------------------
(* Management                                                              *)

\* A process that holds the fence before and after keeps the locks as they are.
LEMMA StaysInside ==
  ASSUME JobTypes, Fenced, NEW p \in Procs, NEW j, Go(p, j), UNCHANGED locks,
         \/ /\ job[p].pc \in {"decide", "establish", "boothead", "boottime", "create", "head"}
            /\ j.pc \in {"create", "head", "boothead", "boottime", "leave"}
         \/ job[p].pc = "inspect" /\ j.pc \in {"snapshot", "out"}
         \/ job[p].pc = "snapshot" /\ j.pc = "out"
  PROVE  Fenced' /\ fence = p
<1>1. job[p].pc \in Held /\ j.pc \in Held
  BY DEF Held
<1>2. /\ j.pc \in Writing => job[p].pc \in Writing
      /\ j.pc \in Writing \ {"intent"} => job[p].pc \in Writing \ {"intent"}
  BY DEF Writing, AskPcs, MakePcs
<1> QED
  BY <1>1, <1>2, LocksKept DEF Fenced

LEMMA DecideKeeps ==
  ASSUME ProviderInv, NEW p \in Procs, Decide(p)
  PROVE  ProviderInv'
<1> DEFINE t == job[p].now
           cmd == job[p].cmd
           made == [pc |-> "create", cmd |-> cmd, rec |-> NewRecord(cmd)]
           left_ == [job[p] EXCEPT !.pc = "leave"]
<1>1. /\ At(p, "decide") /\ boot' = boot /\ recs' = recs /\ head' = head /\ UNCHANGED locks
      /\ high' = IF Advances(t) THEN <<t>> ELSE high
  BY Zenon DEF Decide
<1>2. JobTypes /\ Fenced /\ FileTypes /\ Started /\ Published /\ HistoryReplays /\ Claims(p)
  BY Zenon DEF ProviderInv
<1>3. p \in Managers /\ job[p] \in Asking /\ cmd \in Commands
  BY <1>1, <1>2, Who, Zenon DEF At, AskPcs, Claims
<1>4. t \in Int
  BY <1>3 DEF Asking
<1>5. FileTypes'
  BY <1>1, <1>2, <1>4 DEF FileTypes
<1>6. Started'
  BY <1>1, <1>2 DEF Started, Advances
<1>7. Published' /\ HistoryReplays'
  BY <1>1, <1>2 DEF Published, HistoryReplays
<1>8. HeadGrows
  BY <1>1, <1>2, HeadSame
<1>9. \/ /\ Go(p, made) /\ Recovers(recs, head) /\ Len(recs) < MaxRecords
         /\ Publishes(cmd, job[p].seen)
      \/ Go(p, left_)
  BY DEF Decide, Move
<1>10. CASE Go(p, made) /\ Recovers(recs, head) /\ Len(recs) < MaxRecords /\ Publishes(cmd, job[p].seen)
  <2>1. NewRecord(cmd) \in Recs /\ Follows(recs, NewRecord(cmd))
    BY <1>2, <1>3, <1>10, NewFollows
  <2>2. boot # <<>>
    BY <1>10 DEF Recovers
  <2>3. made \in Making /\ made.pc = "create" /\ made.rec = NewRecord(cmd)
    BY <1>3, <2>1 DEF Making, MakePcs
  <2> HIDE DEF made
  <2>4. Suits(p, made)
    BY <1>3, <2>3 DEF Suits, ManagerJobs
  <2>5. Fenced' /\ fence = p
    BY <1>1, <1>2, <1>10, <2>3, StaysInside, Zenon DEF At
  <2>6. job'[p] = made
    BY <1>2, <1>10, JobAfter, Zenon
  <2>7. Claims(p)'
    BY <1>1, <1>10, <2>1, <2>2, <2>3, <2>6 DEF Claims, At
  <2> QED
    BY <1>5, <1>6, <1>7, <1>8, <1>10, <2>4, <2>5, <2>7, FileStep, Zenon
<1>11. CASE Go(p, left_)
  <2>1. left_ \in Asking /\ left_.pc = "leave"
    BY <1>3, MoveAsking, Zenon DEF AskPcs
  <2> HIDE DEF left_
  <2>2. Suits(p, left_)
    BY <1>3, <2>1 DEF Suits, ManagerJobs
  <2>3. Fenced' /\ fence = p
    BY <1>1, <1>2, <1>11, <2>1, StaysInside DEF At
  <2>4. Claims(p)'
    BY <1>2, <1>11, <2>1, JobAfter, ClaimsNothing DEF Claiming
  <2> QED
    BY <1>5, <1>6, <1>7, <1>8, <1>11, <2>2, <2>3, <2>4, FileStep
<1> QED
  BY <1>9, <1>10, <1>11, Zenon

LEMMA CreateRecordKeeps ==
  ASSUME ProviderInv, NEW p \in Procs, CreateRecord(p)
  PROVE  ProviderInv'
<1> DEFINE r == job[p].rec
           j == [job[p] EXCEPT !.pc = "head"]
<1>1. /\ At(p, "create") /\ recs' = Append(recs, r) /\ Go(p, j)
      /\ boot' = boot /\ head' = head /\ high' = high /\ UNCHANGED locks
  BY DEF CreateRecord, Move
<1>2. JobTypes /\ Fenced /\ FileTypes /\ Started /\ Published /\ HistoryReplays /\ Claims(p)
  BY DEF ProviderInv
<1>3. p \in Managers /\ job[p] \in Making
  BY <1>1, <1>2, Who DEF At
<1>4. r \in Recs
  BY <1>3 DEF Making
<1>5. Follows(recs, r) /\ boot # <<>> /\ Len(recs) < MaxRecords
  BY <1>1, <1>2 DEF Claims, At
<1>6. j \in Making /\ j.pc = "head"
  BY <1>3, MoveMaking, Zenon DEF MakePcs
<1> HIDE DEF j, r
<1>7. HistoryReplays' /\ recs' \in Seq(Recs) /\ Len(recs') = Len(recs) + 1
  BY <1>1, <1>2, <1>4, <1>5, HistoryGrows
<1>8. FileTypes' /\ Started'
  BY <1>1, <1>2, <1>7 DEF FileTypes, Started
<1>9. Published'
  <2>1. Len(recs) \in Nat /\ MaxRecords \in Nat
    BY <1>2, RecsTypes, ProviderAssumption
  <2>2. head # <<>> => head[1] \in Nat
    BY <1>2 DEF FileTypes, Heads
  <2> QED
    BY <1>1, <1>2, <1>5, <1>7, <2>1, <2>2 DEF Published
<1>10. HeadGrows
  BY <1>1, <1>2, HeadSame
<1>11. Suits(p, j)
  BY <1>3, <1>6 DEF Suits, ManagerJobs
<1>12. Fenced' /\ fence = p
  BY <1>1, <1>2, <1>6, StaysInside, Zenon DEF At
<1>13. job'[p] = j
  BY <1>1, <1>2, JobAfter, Zenon
<1>14. Claims(p)'
  BY <1>1, <1>5, <1>6, <1>13 DEF Claims, At
<1> QED
  BY <1>1, <1>7, <1>8, <1>9, <1>10, <1>11, <1>12, <1>14, FileStep

LEMMA ReplaceHeadKeeps ==
  ASSUME ProviderInv, NEW p \in Procs, ReplaceHead(p)
  PROVE  ProviderInv'
<1> DEFINE j == [job[p] EXCEPT !.pc = "leave"]
<1>1. /\ At(p, "head") /\ head' = <<Len(recs)>> /\ Go(p, j)
      /\ boot' = boot /\ recs' = recs /\ high' = high /\ UNCHANGED locks
  BY DEF ReplaceHead, Move
<1>2. JobTypes /\ Fenced /\ FileTypes /\ Started /\ Published /\ HistoryReplays /\ Claims(p)
  BY DEF ProviderInv
<1>3. p \in Managers /\ job[p] \in Making
  BY <1>1, <1>2, Who DEF At
<1>4. j \in Making /\ j.pc = "leave"
  BY <1>3, MoveMaking, Zenon DEF MakePcs
<1> HIDE DEF j
<1>5. Len(recs) \in Nat /\ (head # <<>> => head[1] \in Nat)
  BY <1>2, RecsTypes DEF FileTypes, Heads
<1>6. head' # <<>> /\ head'[1] = Len(recs)
  BY <1>1, Zenon
<1>7. boot # <<>>
  BY <1>1, <1>2 DEF Claims, At
<1>8. FileTypes'
  BY <1>1, <1>2, <1>5 DEF FileTypes, Heads
<1>9. Started'
  BY <1>1, <1>6, <1>7 DEF Started
<1>10. Published'
  BY <1>1, <1>2, <1>5, <1>6 DEF Published
<1>11. HistoryReplays'
  BY <1>1, <1>2 DEF HistoryReplays
<1>12. HeadGrows
  BY <1>2, <1>5, <1>6 DEF HeadGrows, Published
<1>13. Suits(p, j)
  BY <1>3, <1>4 DEF Suits, ManagerJobs
<1>14. Fenced' /\ fence = p
  BY <1>1, <1>2, <1>4, StaysInside DEF At
<1>15. Claims(p)'
  BY <1>1, <1>2, <1>4, JobAfter, ClaimsNothing DEF Claiming
<1> QED
  BY <1>1, <1>8, <1>9, <1>10, <1>11, <1>12, <1>13, <1>14, <1>15, FileStep

LEMMA EstablishKeeps ==
  ASSUME ProviderInv, NEW p \in Procs, Establish(p)
  PROVE  ProviderInv'
<1> DEFINE first == [job[p] EXCEPT !.pc = "boothead"]
           again == [job[p] EXCEPT !.pc = "leave"]
<1>1. /\ At(p, "establish") /\ recs' = recs /\ head' = head /\ high' = high /\ UNCHANGED locks
      /\ \/ boot = <<>> /\ boot' = <<job[p].cmd>> /\ Go(p, first)
         \/ boot' = boot /\ Go(p, again)
  BY DEF Establish, Move
<1>2. JobTypes /\ Fenced /\ FileTypes /\ Started /\ Published /\ HistoryReplays /\ Claims(p)
  BY DEF ProviderInv
<1>3. p \in Managers /\ job[p] \in Asking /\ job[p].cmd \in Boots
  BY <1>1, <1>2, Who DEF At, AskPcs, Claims
<1>4. FileTypes' /\ Published' /\ HistoryReplays'
  BY <1>1, <1>2 DEF FileTypes, Published, HistoryReplays
<1>5. HeadGrows
  BY <1>1, <1>2, HeadSame
<1>6. CASE boot = <<>> /\ boot' = <<job[p].cmd>> /\ Go(p, first)
  <2>1. first \in Asking /\ first.pc = "boothead" /\ first.cmd = job[p].cmd
    BY <1>3, MoveAsking, Zenon DEF AskPcs
  <2> HIDE DEF first
  <2>2. boot' # <<>> /\ head' = <<>>
    BY <1>1, <1>2, <1>6 DEF Started
  <2>3. Started'
    BY <1>1, <1>2, <2>2 DEF Started
  <2>4. Suits(p, first)
    BY <1>3, <2>1 DEF Suits, ManagerJobs
  <2>5. Fenced' /\ fence = p
    BY <1>1, <1>2, <1>6, <2>1, StaysInside DEF At
  <2>6. job'[p] = first
    BY <1>2, <1>6, JobAfter, Zenon
  <2>7. Claims(p)'
    BY <1>3, <2>1, <2>2, <2>6 DEF Claims, At
  <2> QED
    BY <1>4, <1>5, <1>6, <2>3, <2>4, <2>5, <2>7, FileStep
<1>7. CASE boot' = boot /\ Go(p, again)
  <2>1. again \in Asking /\ again.pc = "leave"
    BY <1>3, MoveAsking, Zenon DEF AskPcs
  <2> HIDE DEF again
  <2>2. Started'
    BY <1>1, <1>2, <1>7 DEF Started
  <2>3. Suits(p, again)
    BY <1>3, <2>1 DEF Suits, ManagerJobs
  <2>4. Fenced' /\ fence = p
    BY <1>1, <1>2, <1>7, <2>1, StaysInside, Zenon DEF At
  <2>5. Claims(p)'
    BY <1>2, <1>7, <2>1, JobAfter, ClaimsNothing DEF Claiming
  <2> QED
    BY <1>4, <1>5, <1>7, <2>2, <2>3, <2>4, <2>5, FileStep
<1> QED
  BY <1>1, <1>6, <1>7

LEMMA CreateHeadKeeps ==
  ASSUME ProviderInv, NEW p \in Procs, CreateHead(p)
  PROVE  ProviderInv'
<1> DEFINE j == [job[p] EXCEPT !.pc = "boottime"]
<1>1. /\ At(p, "boothead") /\ head' = <<0>> /\ Go(p, j)
      /\ boot' = boot /\ recs' = recs /\ high' = high /\ UNCHANGED locks
  BY DEF CreateHead, Move
<1>2. JobTypes /\ Fenced /\ FileTypes /\ Started /\ Published /\ HistoryReplays /\ Claims(p)
  BY DEF ProviderInv
<1>3. p \in Managers /\ job[p] \in Asking
  BY <1>1, <1>2, Who DEF At, AskPcs
<1>4. j \in Asking /\ j.pc = "boottime" /\ j.cmd = job[p].cmd
  BY <1>3, MoveAsking, Zenon DEF AskPcs
<1> HIDE DEF j
<1>5. boot # <<>> /\ head = <<>> /\ high = <<>> /\ job[p].cmd \in Boots
  BY <1>1, <1>2 DEF Claims, At, Started
<1>6. head' # <<>> /\ head'[1] = 0 /\ Len(recs) \in Nat
  BY <1>1, <1>2, RecsTypes
<1>7. FileTypes'
  BY <1>1, <1>2 DEF FileTypes, Heads
<1>8. Started'
  BY <1>1, <1>5, <1>6 DEF Started
<1>9. Published'
  BY <1>1, <1>2, <1>6 DEF Published
<1>10. HistoryReplays'
  BY <1>1, <1>2 DEF HistoryReplays
<1>11. HeadGrows
  BY <1>5 DEF HeadGrows
<1>12. Suits(p, j)
  BY <1>3, <1>4 DEF Suits, ManagerJobs
<1>13. Fenced' /\ fence = p
  BY <1>1, <1>2, <1>4, StaysInside DEF At
<1>14. job'[p] = j
  BY <1>1, <1>2, JobAfter, Zenon
<1>15. Claims(p)'
  BY <1>1, <1>4, <1>5, <1>6, <1>14 DEF Claims, At
<1> QED
  BY <1>1, <1>7, <1>8, <1>9, <1>10, <1>11, <1>12, <1>13, <1>15, FileStep

LEMMA CreateTimeKeeps ==
  ASSUME ProviderInv, NEW p \in Procs, CreateTime(p)
  PROVE  ProviderInv'
<1> DEFINE j == [job[p] EXCEPT !.pc = "leave"]
<1>1. /\ At(p, "boottime") /\ high' = <<job[p].cmd.time>> /\ Go(p, j)
      /\ boot' = boot /\ recs' = recs /\ head' = head /\ UNCHANGED locks
  BY DEF CreateTime, Move
<1>2. JobTypes /\ Fenced /\ FileTypes /\ Started /\ Published /\ HistoryReplays /\ Claims(p)
  BY DEF ProviderInv
<1>3. p \in Managers /\ job[p] \in Asking
  BY <1>1, <1>2, Who DEF At, AskPcs
<1>4. j \in Asking /\ j.pc = "leave"
  BY <1>3, MoveAsking, Zenon DEF AskPcs
<1> HIDE DEF j
<1>5. boot # <<>> /\ head # <<>> /\ job[p].cmd.time \in Int
  BY <1>1, <1>2, ProviderAssumption DEF Claims, At
<1>6. FileTypes'
  BY <1>1, <1>2, <1>5 DEF FileTypes
<1>7. Started'
  BY <1>1, <1>5 DEF Started
<1>8. Published' /\ HistoryReplays'
  BY <1>1, <1>2 DEF Published, HistoryReplays
<1>9. HeadGrows
  BY <1>1, <1>2, HeadSame
<1>10. Suits(p, j)
  BY <1>3, <1>4 DEF Suits, ManagerJobs
<1>11. Fenced' /\ fence = p
  BY <1>1, <1>2, <1>4, StaysInside, Zenon DEF At
<1>12. Claims(p)'
  BY <1>1, <1>2, <1>4, JobAfter, ClaimsNothing DEF Claiming
<1> QED
  BY <1>1, <1>6, <1>7, <1>8, <1>9, <1>10, <1>11, <1>12, FileStep

-----------------------------------------------------------------------------
(* Runtime                                                                 *)

LEMMA BeginReadKeeps ==
  ASSUME ProviderInv, NEW p \in Runtimes, NEW t \in Times, NEW kind \in {"admit", "fence"},
         BeginRead(p, t, kind)
  PROVE  ProviderInv'
<1> DEFINE j == [pc |-> "want", now |-> t, kind |-> kind]
<1>1. At(p, "idle") /\ Go(p, j) /\ UNCHANGED files /\ UNCHANGED locks
  BY DEF BeginRead, Ask
<1>2. p \in Procs /\ JobTypes /\ Fenced /\ t \in Int
  BY ProviderAssumption DEF Procs, ProviderInv
<1>3. j \in Reading /\ j.pc = "want"
  BY <1>2 DEF Reading, ReadPcs
<1> HIDE DEF j
<1>4. Suits(p, j)
  BY <1>3 DEF Suits, RuntimeJobs
<1>5. Fenced'
  BY <1>1, <1>2, <1>3, LocksKept DEF At, Held, Writing, AskPcs, MakePcs
<1>6. Claims(p)'
  BY <1>1, <1>2, <1>3, JobAfter, ClaimsNothing DEF Claiming
<1> QED
  BY <1>1, <1>2, <1>4, <1>5, <1>6, QuietStep

LEMMA ReadRecordsKeeps ==
  ASSUME ProviderInv, NEW p \in Runtimes, ReadRecords(p)
  PROVE  ProviderInv'
<1> DEFINE j == [pc |-> "headfile", recs |-> recs]
<1>1. At(p, "idle") /\ Go(p, j) /\ UNCHANGED files /\ UNCHANGED locks
  BY DEF ReadRecords, Ask
<1>2. p \in Procs /\ JobTypes /\ Fenced /\ recs \in Seq(Recs)
  BY DEF Procs, ProviderInv, FileTypes
<1>3. j \in Looking /\ j.pc = "headfile"
  BY <1>2 DEF Looking
<1> HIDE DEF j
<1>4. Suits(p, j)
  BY <1>3 DEF Suits, RuntimeJobs
<1>5. Fenced'
  BY <1>1, <1>2, <1>3, LocksKept DEF At, Held, Writing, AskPcs, MakePcs
<1>6. Claims(p)'
  BY <1>1, <1>2, <1>3, JobAfter, ClaimsNothing DEF Claiming
<1> QED
  BY <1>1, <1>2, <1>4, <1>5, <1>6, QuietStep

LEMMA ClearStaleIntentKeeps ==
  ASSUME ProviderInv, NEW p \in Procs, ClearStaleIntent(p)
  PROVE  ProviderInv'
<1>1. /\ owner = "none" /\ intent' = FALSE /\ job' = job /\ UNCHANGED files
      /\ owner' = owner /\ fence' = fence
  BY DEF ClearStaleIntent
<1>2. JobTypes /\ Fenced /\ Claims(p)
  BY DEF ProviderInv
<1>3. Go(p, job[p]) /\ Suits(p, job[p])
  BY <1>1, <1>2 DEF Go, JobTypes
<1>4. \A q \in Procs : job[q].pc \notin Writing
  BY <1>1, <1>2, ProviderAssumption DEF Fenced
<1>5. Fenced'
  BY <1>1, <1>2, <1>4, Zenon DEF Fenced
<1>6. Claims(p)'
  BY <1>1, <1>2, ClaimsOfFiles
<1> QED
  BY <1>1, <1>3, <1>5, <1>6, QuietStep

LEMMA PassIntentKeeps ==
  ASSUME ProviderInv, NEW p \in Procs, PassIntent(p)
  PROVE  ProviderInv'
<1> DEFINE j == [job[p] EXCEPT !.pc = "lock"]
<1>1. At(p, "want") /\ Go(p, j) /\ UNCHANGED files /\ UNCHANGED locks
  BY DEF PassIntent, Move
<1>2. JobTypes /\ Fenced
  BY DEF ProviderInv
<1>3. p \in Runtimes /\ job[p] \in Reading
  BY <1>1, <1>2, Who DEF At, ReadPcs
<1>4. j \in Reading /\ j.pc = "lock"
  BY <1>3, MoveReading, Zenon DEF ReadPcs
<1> HIDE DEF j
<1>5. Suits(p, j)
  BY <1>3, <1>4 DEF Suits, RuntimeJobs
<1>6. Fenced'
  BY <1>1, <1>2, <1>4, LocksKept, Zenon DEF At, Held, Writing, AskPcs, MakePcs
<1>7. Claims(p)'
  BY <1>1, <1>2, <1>4, JobAfter, ClaimsNothing DEF Claiming
<1> QED
  BY <1>1, <1>5, <1>6, <1>7, QuietStep

LEMMA GiveUpReadKeeps ==
  ASSUME ProviderInv, NEW p \in Procs, GiveUpRead(p)
  PROVE  ProviderInv'
<1>1. At(p, "want") \/ At(p, "lock")
  BY DEF GiveUpRead
<1>2. Go(p, Idle) /\ UNCHANGED files /\ UNCHANGED locks
  BY DEF GiveUpRead
<1>3. JobTypes /\ Fenced
  BY DEF ProviderInv
<1>4. job[p].pc \notin Held
  BY <1>1 DEF At, Held
<1>5. Fenced'
  BY <1>2, <1>3, <1>4, IdleSuits, LocksKept
<1>6. Claims(p)'
  BY <1>2, <1>3, IdleSuits, JobAfter, ClaimsNothing
<1> QED
  BY <1>2, <1>5, <1>6, IdleSuits, QuietStep

LEMMA EnterReadKeeps ==
  ASSUME ProviderInv, NEW p \in Procs, EnterRead(p)
  PROVE  ProviderInv'
<1> DEFINE j == [job[p] EXCEPT !.pc = "inspect"]
<1>1. /\ At(p, "lock") /\ fence = "none" /\ fence' = p /\ Go(p, j) /\ UNCHANGED files
      /\ intent' = intent /\ owner' = owner
  BY DEF EnterRead, Move
<1>2. JobTypes /\ Fenced
  BY DEF ProviderInv
<1>3. p \in Runtimes /\ job[p] \in Reading
  BY <1>1, <1>2, Who DEF At, ReadPcs
<1>4. j \in Reading /\ j.pc = "inspect"
  BY <1>3, MoveReading, Zenon DEF ReadPcs
<1> HIDE DEF j
<1>5. Suits(p, j)
  BY <1>3, <1>4 DEF Suits, RuntimeJobs
<1>6. "inspect" \in Held /\ "inspect" \notin Writing
  BY DEF Held, Writing, AskPcs, MakePcs
<1>7. \A q \in Procs \ {p} : fence' = q <=> fence = q
  BY <1>1, ProviderAssumption
<1>8. /\ intent' \in BOOLEAN /\ owner' \in Procs \cup {"none"}
      /\ \A q \in Procs \ {p} : job[q].pc \in Writing => owner' = q
      /\ \A q \in Procs \ {p} : job[q].pc \in Writing \ {"intent"} => intent'
  BY <1>1, <1>2, Zenon DEF Fenced
<1>9. Fenced'
  BY <1>1, <1>2, <1>4, <1>6, <1>7, <1>8, LocksStep, Zenon
<1>10. Claims(p)'
  BY <1>1, <1>2, <1>4, JobAfter, ClaimsNothing, Zenon DEF Claiming
<1> QED
  BY <1>1, <1>5, <1>9, <1>10, QuietStep

LEMMA InspectKeeps ==
  ASSUME ProviderInv, NEW p \in Procs, Inspect(p)
  PROVE  ProviderInv'
<1> DEFINE t == job[p].now
           g == Active(recs)[1]
           taken == [pc |-> "snapshot", now |-> t, head |-> head[1], gen |-> g]
           out == [pc |-> "out"]
<1>1. /\ At(p, "inspect") /\ boot' = boot /\ recs' = recs /\ head' = head /\ UNCHANGED locks
      /\ high' = IF Advances(t) THEN <<t>> ELSE high
  BY Zenon DEF Inspect
<1>2. JobTypes /\ Fenced /\ FileTypes /\ Started /\ Published /\ HistoryReplays
  BY Zenon DEF ProviderInv
<1>3. p \in Runtimes /\ job[p] \in Reading
  BY <1>1, <1>2, Who DEF At, ReadPcs
<1>4. t \in Int
  BY <1>3, Zenon DEF Reading
<1>5. FileTypes'
  BY <1>1, <1>2, <1>4, Zenon DEF FileTypes
<1>6. Started'
  BY <1>1, <1>2 DEF Started, Advances
<1>7. Published' /\ HistoryReplays'
  BY <1>1, <1>2 DEF Published, HistoryReplays
<1>8. HeadGrows
  BY <1>1, <1>2, HeadSame, Zenon
<1>9. \/ Go(p, taken) /\ Recovers(recs, head) /\ Active(recs) # <<>> /\ Current(g, t)
      \/ Go(p, out)
  BY DEF Inspect
<1>10. CASE Go(p, taken) /\ Recovers(recs, head) /\ Active(recs) # <<>> /\ Current(g, t)
  <2>1. recs # <<>> /\ Last(recs).gen = g /\ g.status = "ACTIVE"
    BY <1>10, Zenon DEF Active
  <2>2. g \in Gens
    BY <1>2, <2>1, RecsTypes DEF Recs
  <2>3. head # <<>> /\ head[1] = Len(recs)
    BY <1>10 DEF Recovers
  <2>4. head = <<head[1]>> /\ head[1] \in Nat
    BY <1>2, <2>3 DEF FileTypes, Heads
  <2>5. t < g.spec.until
    BY <1>10 DEF Current
  <2> HIDE DEF g, t
  <2>6. /\ taken \in Admitting /\ taken.pc = "snapshot" /\ taken.head = head[1]
        /\ taken.gen = g /\ taken.now = t
    BY <1>4, <2>2, <2>4 DEF Admitting
  <2> HIDE DEF taken
  <2>7. Suits(p, taken)
    BY <1>3, <2>6, Zenon DEF Suits, RuntimeJobs
  <2>8. Fenced' /\ fence = p
    BY <1>1, <1>2, <1>10, <2>6, StaysInside, Zenon DEF At
  <2>9. job'[p] = taken
    BY <1>2, <1>10, JobAfter, Zenon
  <2>10. Claims(p)'
    BY <1>1, <2>1, <2>3, <2>4, <2>5, <2>6, <2>9 DEF Claims, At
  <2> QED
    BY <1>5, <1>6, <1>7, <1>8, <1>10, <2>7, <2>8, <2>10, FileStep, Zenon
<1>11. CASE Go(p, out)
  <2>1. out \in Ending /\ out.pc = "out"
    BY DEF Ending
  <2> HIDE DEF out
  <2>2. Suits(p, out)
    BY <1>3, <2>1, Zenon DEF Suits, RuntimeJobs
  <2>3. Fenced' /\ fence = p
    BY <1>1, <1>2, <1>11, <2>1, StaysInside, Zenon DEF At
  <2>4. Claims(p)'
    BY <1>2, <1>11, <2>1, JobAfter, ClaimsNothing DEF Claiming
  <2> QED
    BY <1>5, <1>6, <1>7, <1>8, <1>11, <2>2, <2>3, <2>4, FileStep
<1> QED
  BY <1>9, <1>10, <1>11

LEMMA AdmitKeeps ==
  ASSUME ProviderInv, NEW p \in Procs, Admit(p)
  PROVE  ProviderInv'
<1> DEFINE out == [pc |-> "out"]
<1>1. At(p, "snapshot") /\ Go(p, out) /\ UNCHANGED files /\ UNCHANGED locks
  BY Zenon DEF Admit
<1>2. JobTypes /\ Fenced
  BY DEF ProviderInv
<1>3. p \in Runtimes
  BY <1>1, <1>2, Who DEF At
<1>4. out \in Ending /\ out.pc = "out"
  BY DEF Ending
<1> HIDE DEF out
<1>5. Suits(p, out)
  BY <1>3, <1>4 DEF Suits, RuntimeJobs
<1>6. Fenced'
  BY <1>1, <1>2, <1>4, StaysInside, Zenon DEF At
<1>7. Claims(p)'
  BY <1>1, <1>2, <1>4, JobAfter, ClaimsNothing DEF Claiming
<1> QED
  BY <1>1, <1>5, <1>6, <1>7, QuietStep, Zenon

LEMMA EndReadKeeps ==
  ASSUME ProviderInv, NEW p \in Procs, EndRead(p)
  PROVE  ProviderInv'
<1>1. /\ At(p, "out") /\ Go(p, Idle) /\ UNCHANGED files /\ intent' = intent /\ owner' = owner
      /\ fence' = IF fence = p THEN "none" ELSE fence
  BY DEF EndRead
<1>2. JobTypes /\ Fenced
  BY DEF ProviderInv
<1>3. fence = p /\ p # "none"
  BY <1>1, <1>2, ProviderAssumption DEF Fenced, At, Held
<1>4. \A q \in Procs \ {p} : fence' = q <=> fence = q
  BY <1>1, <1>3, ProviderAssumption
<1>5. /\ intent' \in BOOLEAN /\ owner' \in Procs \cup {"none"}
      /\ \A q \in Procs \ {p} : job[q].pc \in Writing => owner' = q
      /\ \A q \in Procs \ {p} : job[q].pc \in Writing \ {"intent"} => intent'
  BY <1>1, <1>2, Zenon DEF Fenced
<1>6. Fenced'
  BY <1>1, <1>2, <1>3, <1>4, <1>5, IdleSuits, LocksStep, Zenon
<1>7. Claims(p)'
  BY <1>1, <1>2, IdleSuits, JobAfter, ClaimsNothing, Zenon
<1> QED
  BY <1>1, <1>6, <1>7, IdleSuits, QuietStep

\* A head is told only when the head file still names the end of the records read before.
LEMMA ReadHeadKeeps ==
  ASSUME ProviderInv, NEW p \in Procs, ReadHead(p)
  PROVE  ProviderInv'
<1> DEFINE told == [pc |-> "told", n |-> Len(job[p].recs)]
<1>1. At(p, "headfile") /\ UNCHANGED files /\ UNCHANGED locks
  BY DEF ReadHead
<1>2. JobTypes /\ Fenced /\ FileTypes
  BY DEF ProviderInv
<1>3. p \in Runtimes /\ job[p] \in Looking
  BY <1>1, <1>2, Who DEF At
<1>4. Len(job[p].recs) \in Nat
  <2>1. job[p].recs \in Seq(Recs)
    BY <1>3, Zenon DEF Looking
  <2> QED
    BY <2>1, LenProperties
<1>5. (Go(p, told) /\ Recovers(job[p].recs, head)) \/ Go(p, Idle)
  BY DEF ReadHead
<1>6. job[p].pc \notin Held
  BY <1>1 DEF At, Held
<1>7. CASE Go(p, told) /\ Recovers(job[p].recs, head)
  <2>1. told \in Telling /\ told.pc = "told" /\ told.n = Len(job[p].recs)
    BY <1>4 DEF Telling
  <2>2. head # <<>> /\ told.n <= head[1]
    BY <1>4, <1>7 DEF Recovers
  <2> HIDE DEF told
  <2>3. Suits(p, told)
    BY <1>3, <2>1 DEF Suits, RuntimeJobs
  <2>4. "told" \notin Held /\ "told" \notin Writing
    BY DEF Held, Writing, AskPcs, MakePcs
  <2>5. Fenced'
    BY <1>1, <1>2, <1>6, <1>7, <2>1, <2>4, LocksKept, Zenon
  <2>6. job'[p] = told /\ head' = head
    BY <1>1, <1>2, <1>7, JobAfter, Zenon DEF files
  <2>7. Claims(p)'
    BY <2>1, <2>2, <2>6 DEF Claims, At
  <2> QED
    BY <1>1, <1>7, <2>3, <2>5, <2>7, QuietStep
<1>8. CASE Go(p, Idle)
  <2>1. Fenced'
    BY <1>1, <1>2, <1>6, <1>8, IdleSuits, LocksKept, Zenon
  <2>2. Claims(p)'
    BY <1>2, <1>8, IdleSuits, JobAfter, ClaimsNothing
  <2> QED
    BY <1>1, <1>8, <2>1, <2>2, IdleSuits, QuietStep, Zenon
<1> QED
  BY <1>5, <1>7, <1>8

LEMMA ToldKeeps ==
  ASSUME ProviderInv, NEW p \in Procs, Told(p)
  PROVE  ProviderInv'
<1>1. At(p, "told") /\ Go(p, Idle) /\ UNCHANGED files /\ UNCHANGED locks
  BY DEF Told
<1>2. JobTypes /\ Fenced
  BY DEF ProviderInv
<1>3. job[p].pc \notin Held
  BY <1>1, Zenon DEF At, Held
<1>4. Fenced'
  BY <1>1, <1>2, <1>3, IdleSuits, LocksKept, Zenon
<1>5. Claims(p)'
  BY <1>1, <1>2, IdleSuits, JobAfter, ClaimsNothing, Zenon
<1> QED
  BY <1>1, <1>4, <1>5, IdleSuits, QuietStep

-----------------------------------------------------------------------------
(* A process that dies leaves its files and loses its locks.               *)

LEMMA CrashLocks ==
  ASSUME JobTypes, Fenced, NEW p \in Procs, Crash(p)
  PROVE  Fenced'
<1>1. /\ Go(p, Idle) /\ intent' = intent
      /\ owner' = IF owner = p THEN "none" ELSE owner
      /\ fence' = IF fence = p THEN "none" ELSE fence
  BY Zenon DEF Crash
<1>2. /\ intent' \in BOOLEAN /\ owner' \in Procs \cup {"none"} /\ fence' \in Procs \cup {"none"}
      /\ p # "none" /\ fence' # p
  BY <1>1, ProviderAssumption DEF Fenced
<1>3. \A q \in Procs \ {p} : fence' = q <=> fence = q
  BY <1>1, ProviderAssumption
<1>4. \A q \in Procs \ {p} : job[q].pc \in Writing => owner' = q
  BY <1>1 DEF Fenced
<1>5. \A q \in Procs \ {p} : job[q].pc \in Writing \ {"intent"} => intent'
  BY <1>1 DEF Fenced
<1> QED
  BY <1>1, <1>2, <1>3, <1>4, <1>5, IdleSuits, LocksStep

LEMMA CrashKeeps ==
  ASSUME ProviderInv, NEW p \in Procs, Crash(p)
  PROVE  ProviderInv'
<1>1. Go(p, Idle) /\ boot' = boot /\ head' = head /\ high' = high
  BY DEF Crash
<1>2. JobTypes /\ Fenced /\ FileTypes /\ Started /\ Published /\ HistoryReplays /\ Claims(p)
  BY DEF ProviderInv
<1>3. Fenced'
  BY <1>2, CrashLocks, Zenon
<1>4. Claims(p)'
  BY <1>1, <1>2, IdleSuits, JobAfter, ClaimsNothing
<1>5. CASE recs' = recs
  <2>1. UNCHANGED files
    BY <1>1, <1>5 DEF files
  <2> QED
    BY <1>1, <1>3, <1>4, <2>1, IdleSuits, QuietStep
<1>6. CASE At(p, "create") /\ recs' = Append(recs, [job[p].rec EXCEPT !.kind = "TORN"])
  <2> DEFINE torn == [job[p].rec EXCEPT !.kind = "TORN"]
  <2>1. job[p] \in Making
    BY <1>2, <1>6, Who DEF At
  <2>2. job[p].rec \in Recs
    BY <2>1 DEF Making
  <2>3. torn \in Recs /\ torn.kind = "TORN"
    BY <2>2, Zenon DEF Recs
  <2>4. Len(recs) < MaxRecords /\ fence = p
    BY <1>2, <1>6 DEF Claims, At, Fenced, Held
  <2> HIDE DEF torn
  <2>5. recs' = Append(recs, torn)
    BY <1>6 DEF torn
  <2>6. HistoryReplays' /\ recs' \in Seq(Recs) /\ Len(recs') = Len(recs) + 1
    BY <1>2, <2>3, <2>5, HistoryGrows
  <2>7. FileTypes' /\ Started'
    BY <1>1, <1>2, <2>6 DEF FileTypes, Started
  <2>8. Published'
    <3>1. Len(recs) \in Nat /\ MaxRecords \in Nat
      BY <1>2, RecsTypes, ProviderAssumption
    <3>2. head # <<>> => head[1] \in Nat
      BY <1>2 DEF FileTypes, Heads
    <3> QED
      BY <1>1, <1>2, <2>4, <2>6, <3>1, <3>2 DEF Published
  <2>9. HeadGrows
    BY <1>1, <1>2, HeadSame
  <2> QED
    BY <1>1, <1>3, <1>4, <2>4, <2>6, <2>7, <2>8, <2>9, IdleSuits, FileStep, Zenon
<1> QED
  BY <1>5, <1>6 DEF Crash

-----------------------------------------------------------------------------
(* The theorems                                                            *)

LEMMA InvInit == Init => ProviderInv
<1> SUFFICES ASSUME Init PROVE ProviderInv
  OBVIOUS
<1>1. boot = <<>> /\ recs = <<>> /\ head = <<>> /\ high = <<>> /\ job = [p \in Procs |-> Idle]
  BY DEF Init
<1>2. FileTypes /\ Started
  BY <1>1 DEF FileTypes, Started, Heads
<1>3. \A p \in Procs : job[p] = Idle
  BY <1>1
<1>4. JobTypes
  BY <1>1, <1>3, IdleSuits DEF JobTypes
<1>5. Fenced
  BY <1>3, IdleSuits, ProviderAssumption, Zenon DEF Init, Fenced
<1>6. Published /\ HistoryReplays
  BY <1>1, ProviderAssumption DEF Published, HistoryReplays
<1>7. \A p \in Procs : Claims(p)
  BY <1>3 DEF Claims, At, Idle
<1> QED
  BY <1>2, <1>4, <1>5, <1>6, <1>7 DEF ProviderInv

LEMMA StutterKeeps ==
  ASSUME ProviderInv, UNCHANGED vars
  PROVE  ProviderInv'
<1>1. UNCHANGED files /\ UNCHANGED locks /\ job' = job
  BY Zenon DEF vars
<1>2. FileTypes' /\ Started' /\ Published' /\ HistoryReplays'
  BY <1>1 DEF files, ProviderInv, FileTypes, Started, Published, HistoryReplays
<1>3. JobTypes' /\ Fenced'
  BY <1>1 DEF locks, ProviderInv, JobTypes, Fenced
<1>4. \A p \in Procs : Claims(p)'
  BY <1>1, ClaimsOfFiles DEF ProviderInv
<1> QED
  BY <1>2, <1>3, <1>4 DEF ProviderInv

LEMMA InvNext == ProviderInv /\ [Next]_vars => ProviderInv'
<1> SUFFICES ASSUME ProviderInv, [Next]_vars PROVE ProviderInv'
  OBVIOUS
<1>1. CASE UNCHANGED vars
  BY <1>1, StutterKeeps
<1>2. ASSUME NEW p \in Managers, NEW t \in Times, NEW c \in Commands \cup Boots,
             NEW seen \in {head, << 0 >>}, BeginWrite(p, c, t, seen)
      PROVE  ProviderInv'
  BY <1>2, BeginWriteKeeps
<1>3. ASSUME NEW p \in Runtimes, ReadRecords(p)
      PROVE  ProviderInv'
  BY <1>3, ReadRecordsKeeps
<1>4. ASSUME NEW p \in Runtimes, NEW t \in Times, NEW k \in {"admit", "fence"}, BeginRead(p, t, k)
      PROVE  ProviderInv'
  BY <1>4, BeginReadKeeps, Zenon
<1>5. ASSUME NEW p \in Procs, Step(p)
      PROVE  ProviderInv'
  <2>1. CASE WriteIntent(p) \/ EnterWrite(p) \/ GiveUpWrite(p) \/ Leave(p)
    BY <2>1, WriteIntentKeeps, EnterWriteKeeps, GiveUpWriteKeeps, LeaveKeeps
  <2>2. CASE Decide(p) \/ CreateRecord(p) \/ ReplaceHead(p)
    BY <2>2, DecideKeeps, CreateRecordKeeps, ReplaceHeadKeeps
  <2>3. CASE Establish(p) \/ CreateHead(p) \/ CreateTime(p)
    BY <2>3, EstablishKeeps, CreateHeadKeeps, CreateTimeKeeps, Zenon
  <2>4. CASE ClearStaleIntent(p) \/ PassIntent(p) \/ GiveUpRead(p) \/ EnterRead(p)
    BY <2>4, ClearStaleIntentKeeps, PassIntentKeeps, GiveUpReadKeeps, EnterReadKeeps
  <2>5. CASE Inspect(p) \/ Admit(p) \/ EndRead(p) \/ ReadHead(p) \/ Told(p)
    BY <2>5, InspectKeeps, AdmitKeeps, EndReadKeeps, ReadHeadKeeps, ToldKeeps
  <2> QED
    BY <1>5, <2>1, <2>2, <2>3, <2>4, <2>5, Zenon DEF Step
<1>6. ASSUME NEW p \in Procs, Crash(p)
      PROVE  ProviderInv'
  BY <1>6, CrashKeeps
<1> QED
  BY <1>1, <1>2, <1>3, <1>4, <1>5, <1>6 DEF Next, Manage, Bootstrap

\* The inductive invariant of the provider authority holds in every reachable state.
THEOREM ProviderInvariance == Spec => []ProviderInv
  BY InvInit, InvNext, PTL DEF Spec

\* The history on disk is one that recover() accepts, however many managers write and
\* wherever they die, and current_head() tells a head that had been published although it
\* reads the records and the head file without the fence.
THEOREM HistoryIsTruthful == Spec => []HistoryTruthful
<1>1. ProviderInv => HistoryTruthful
  <2> SUFFICES ASSUME ProviderInv PROVE ToldHeadPublished
    BY DEF ProviderInv, HistoryTruthful
  <2>1. \A p \in Runtimes : Claims(p)
    BY Zenon DEF ProviderInv, Procs
  <2> QED
    BY <2>1 DEF ToldHeadPublished, Claims
<1> QED
  BY <1>1, ProviderInvariance, PTL

\* The locks are taken and given back in order: a manager that holds the fence holds the
\* owner lock and its writer-intent file is there, so that no reader slips in before it.
THEOREM ProviderTypes == Spec => []TypeOK
<1>1. ProviderInv => TypeOK
  <2> SUFFICES ASSUME ProviderInv PROVE TypeOK
    OBVIOUS
  <2>1. JobTypes /\ Fenced /\ FileTypes /\ Published
    BY DEF ProviderInv
  <2>2. head = <<>> \/ head[1] \in 0..MaxRecords
    <3>1. head # <<>> => head[1] \in Nat
      BY <2>1 DEF FileTypes, Heads
    <3>2. Len(recs) \in Nat /\ MaxRecords \in Nat
      BY <2>1, RecsTypes, ProviderAssumption, Zenon
    <3> QED
      BY <2>1, <3>1, <3>2 DEF Published
  <2>3. ASSUME NEW p \in Managers, fence = p PROVE owner = p /\ intent
    <3>1. p \in Procs /\ p \notin Runtimes
      BY ProviderAssumption DEF Procs
    <3>2. job[p].pc \in Held
      BY <2>1, <2>3, <3>1, Zenon DEF Fenced
    <3>3. job[p].pc \in Writing \ {"intent"}
      BY <2>1, <3>1, <3>2, Who DEF Held, Writing, AskPcs, MakePcs, ReadPcs
    <3> QED
      BY <2>1, <3>1, <3>3 DEF Fenced
  <2> QED
    BY <2>1, <2>2, <2>3 DEF Fenced, TypeOK
<1> QED
  BY <1>1, ProviderInvariance, PTL

\* The high water of the clock only rises.
LEMMA TimeGrows ==
  ASSUME ProviderInv, Next
  PROVE  high # <<>> => high'[1] >= high[1]
<1>1. high # <<>> => high[1] \in Int
  BY DEF ProviderInv, FileTypes
<1>2. ASSUME NEW p \in Procs, Decide(p) \/ Inspect(p)
      PROVE  high' = high \/ (high'[1] >= high[1])
  <2>1. high' = IF Advances(job[p].now) THEN <<job[p].now>> ELSE high
    BY <1>2, Zenon DEF Decide, Inspect
  <2> QED
    BY <2>1 DEF Advances
<1>3. ASSUME NEW p \in Procs, CreateTime(p)
      PROVE  high = <<>>
  BY <1>3, Zenon DEF CreateTime, ProviderInv, Claims
<1>4. ASSUME NEW p \in Procs, Step(p), ~ Decide(p), ~ Inspect(p), ~ CreateTime(p)
      PROVE  high' = high
  <2>1. CASE WriteIntent(p) \/ EnterWrite(p) \/ GiveUpWrite(p) \/ Leave(p)
    BY <2>1, Zenon DEF WriteIntent, EnterWrite, GiveUpWrite, Leave, files
  <2>2. CASE CreateRecord(p) \/ ReplaceHead(p) \/ Establish(p) \/ CreateHead(p)
    BY <2>2, Zenon DEF CreateRecord, ReplaceHead, Establish, CreateHead
  <2>3. CASE ClearStaleIntent(p) \/ PassIntent(p) \/ GiveUpRead(p) \/ EnterRead(p)
    BY <2>3, Zenon DEF ClearStaleIntent, PassIntent, GiveUpRead, EnterRead, files
  <2>4. CASE Admit(p) \/ EndRead(p) \/ ReadHead(p) \/ Told(p)
    BY <2>4, Zenon DEF Admit, EndRead, ReadHead, Told, files
  <2> QED
    BY <1>4, <2>1, <2>2, <2>3, <2>4 DEF Step
<1>5. ASSUME NEW p, NEW t, NEW c, NEW seen, BeginWrite(p, c, t, seen)
      PROVE  high' = high
  BY <1>5, Zenon DEF BeginWrite, files
<1>6. ASSUME NEW p, NEW t, NEW k, ReadRecords(p) \/ BeginRead(p, t, k)
      PROVE  high' = high
  BY <1>6 DEF ReadRecords, BeginRead, files
<1>7. ASSUME NEW p \in Procs, Crash(p)
      PROVE  high' = high
  BY <1>7 DEF Crash
<1>8. high' = high \/ (high'[1] >= high[1]) \/ high = <<>>
  BY <1>2, <1>3, <1>4, <1>5, <1>6, <1>7, Zenon DEF Next, Manage, Bootstrap
<1> QED
  BY <1>1, <1>8

\* Only a runtime that took the provider's snapshot hands an admission out.
LEMMA OnlyAdmit ==
  ASSUME Next
  PROVE  admitted' = admitted \/ \E p \in Procs : Admit(p)
<1>1. ASSUME NEW p \in Procs, Step(p), ~ Admit(p)
      PROVE  admitted' = admitted
  <2>1. CASE WriteIntent(p) \/ EnterWrite(p) \/ GiveUpWrite(p) \/ Leave(p)
    BY <2>1, Zenon DEF WriteIntent, EnterWrite, GiveUpWrite, Leave
  <2>2. CASE Decide(p) \/ CreateRecord(p) \/ ReplaceHead(p)
    BY <2>2, Zenon DEF Decide, CreateRecord, ReplaceHead
  <2>3. CASE Establish(p) \/ CreateHead(p) \/ CreateTime(p)
    BY <2>3 DEF Establish, CreateHead, CreateTime
  <2>4. CASE ClearStaleIntent(p) \/ PassIntent(p) \/ GiveUpRead(p) \/ EnterRead(p)
    BY <2>4, Zenon DEF ClearStaleIntent, PassIntent, GiveUpRead, EnterRead
  <2>5. CASE Inspect(p) \/ EndRead(p) \/ ReadHead(p) \/ Told(p)
    BY <2>5, Zenon DEF Inspect, EndRead, ReadHead, Told
  <2> QED
    BY <1>1, <2>1, <2>2, <2>3, <2>4, <2>5, Zenon DEF Step
<1>2. ASSUME NEW p, NEW t, NEW c, NEW seen, BeginWrite(p, c, t, seen)
      PROVE  admitted' = admitted
  BY <1>2, Zenon DEF BeginWrite
<1>3. ASSUME NEW p, NEW t, NEW k, ReadRecords(p) \/ BeginRead(p, t, k)
      PROVE  admitted' = admitted
  BY <1>3, Zenon DEF ReadRecords, BeginRead
<1>4. ASSUME NEW p \in Procs, Crash(p)
      PROVE  admitted' = admitted
  BY <1>4 DEF Crash
<1> QED
  BY <1>1, <1>2, <1>3, <1>4, Zenon DEF Next, Manage, Bootstrap

\* An admission names the head in force and the last, ACTIVE generation at the moment it
\* is handed out, it is made before that generation's expiry, and the clock that decides
\* never runs back, however many processes read it (AuthorityFence, _engineering_admit).
THEOREM AdmissionsAreCurrent == Spec => AdmissionsCurrent
<1>1. ProviderInv /\ [Next]_vars => [AdmissionsCurrentStep]_vars
  <2> SUFFICES ASSUME ProviderInv, Next
               PROVE  AdmissionsCurrentStep
    BY Zenon
  <2>1. ASSUME NEW a \in admitted' \ admitted
        PROVE  /\ head = <<a.head>> /\ Len(recs) = a.head
               /\ Last(recs).gen.auth = a.auth /\ Last(recs).gen.status = "ACTIVE"
               /\ a.at < a.auth.spec.until
    <3>1. PICK p \in Procs : Admit(p)
      BY <2>1, OnlyAdmit, Zenon
    <3>2. At(p, "snapshot") /\ Claims(p) /\ JobTypes
      BY <3>1, Zenon DEF Admit, ProviderInv
    <3>3. PICK until :
            a = [auth |-> job[p].gen.auth, head |-> job[p].head, at |-> job[p].now,
                 until |-> until]
      <4>1. PICK t \in Times :
              admitted' = admitted \cup
                {[auth |-> job[p].gen.auth, head |-> job[p].head, at |-> job[p].now,
                  until |-> IF t < job[p].gen.spec.until THEN t ELSE job[p].gen.spec.until]}
        BY <3>1, Zenon DEF Admit
      <4> QED
        BY <2>1, <4>1, Zenon
    <3>4. a.auth = job[p].gen.auth /\ a.head = job[p].head /\ a.at = job[p].now
      BY <3>3, Zenon
    <3>5. job[p] \in Admitting
      BY <3>2, Who DEF At
    <3>6. job[p].gen \in Gens
      BY <3>5 DEF Admitting
    <3>7. job[p].gen.auth.spec = job[p].gen.spec
      BY <3>6 DEF Gens
    <3> QED
      BY <3>2, <3>4, <3>7, Zenon DEF Claims
  <2>2. AdmittedUnderHeadStep
    BY <2>1 DEF AdmittedUnderHeadStep
  <2>3. ExpiredNeverAdmitsStep
    BY <2>1, TimeGrows DEF ExpiredNeverAdmitsStep
  <2> QED
    BY <2>2, <2>3 DEF AdmissionsCurrentStep
<1> QED
  BY <1>1, ProviderInvariance, PTL DEF Spec, AdmissionsCurrent

=============================================================================
