------------------------- MODULE DatasetStoreProofs -------------------------
(***************************************************************************)
(* What the physical dataset store keeps for any number of processes,        *)
(* versions, objects, calls, crashes and damaged files.                      *)
(***************************************************************************)
EXTENDS DatasetStore, SequenceTheorems, TLAPS

PersistPCs == {"stage", "describe", "objects", "commit", "verify"}
PublishPCs == {"mark", "replace", "confirm"}
Persisting == [pc : PersistPCs, version : Versions, ev : SUBSET Evidence, entry : Nat, next : Nat]
Publishing == [pc : PublishPCs, version : Versions, receipt : Nat, entry : Nat]
Entries == [id : Nat, kind : {"version", "marker"}, version : Versions, meta : BOOLEAN]
Receipts == [version : Versions, pred : Nat, at : Times]

Types ==
  /\ objects = [o \in DOMAIN objects |-> objects[o]]
  /\ records = [v \in DOMAIN records |-> records[v]]
  /\ DOMAIN records \subseteq Versions
  /\ \A v \in DOMAIN records : records[v] \subseteq Evidence
  /\ staging \subseteq Entries
  /\ receipts \in Seq(Receipts)
  /\ call \in [Callers -> {Idle} \cup Persisting \cup Publishing]
  /\ answer = [c \in Callers |-> answer[c]]
  /\ made \in [calls : Nat, crashes : Nat, damage : Nat]

\* While nothing outside the store damages its files, an object that is there is whole.
ObjectsWhole == Undamaged => \A o \in DOMAIN objects : objects[o] = "ok"

\* A version record is committed after its objects.
RecordsComplete == Undamaged => \A v \in DOMAIN records : Readable(v)

\* The objects of a version before place n are in the store.
Stored(v, n) == \A i \in DOMAIN Objects[v] : i < n => Objects[v][i] \in DOMAIN objects

\* What a call knows at each of its steps: the objects it has been through are stored,
\* after the commit the record holds its own evidence, and a version on its way to the
\* marker has a record.
Stands(c) ==
  /\ call[c].pc \in {"stage", "describe"} => call[c].next = 1
  /\ call[c].pc = "objects" => call[c].next \in DOMAIN Objects[call[c].version]
  /\ call[c].pc \in {"commit", "verify"} => call[c].next > Len(Objects[call[c].version])
  /\ call[c].pc \in {"objects", "commit", "verify"} /\ Undamaged => Stored(call[c].version, call[c].next)
  /\ call[c].pc = "verify" => /\ call[c].version \in DOMAIN records
                              /\ records[call[c].version] = call[c].ev
  /\ call[c].pc \in PublishPCs => /\ call[c].version \in DOMAIN records
                                  /\ call[c].receipt \in DOMAIN receipts

\* The marker names a receipt that was made and a version that has a record.
MarkerStands ==
  marker # <<>> => /\ marker[1].receipt \in DOMAIN receipts
                   /\ marker[1].version \in DOMAIN records

ReceiptsRecorded == \A p \in persisted : p[1] \in DOMAIN records /\ records[p[1]] = p[2]

\* The inductive invariant.
StoreInv ==
  /\ Types
  /\ ObjectsWhole
  /\ RecordsComplete
  /\ \A c \in Callers : Stands(c)
  /\ MarkerStands
  /\ ReceiptsRecorded
  /\ ReadsExact

-----------------------------------------------------------------------------
\* What a step of any process leaves of the store: records and receipts stay, and
\* objects stay unless a file is damaged.
Grows ==
  /\ Undamaged' => Undamaged /\ DOMAIN objects \subseteq DOMAIN objects'
  /\ DOMAIN records \subseteq DOMAIN records'
  /\ \A v \in DOMAIN records : records'[v] = records[v]
  /\ DOMAIN receipts \subseteq DOMAIN receipts'

LEMMA StandsUntouched ==
  ASSUME NEW c \in Callers, Stands(c), Grows, call'[c] = call[c]
  PROVE  Stands(c)'
  BY DEF Stands, Grows, Stored

LEMMA IdleStands ==
  ASSUME NEW c \in Callers, call'[c] = Idle
  PROVE  Stands(c)'
  BY DEF Stands, Idle, PublishPCs

LEMMA MarkerKept ==
  ASSUME MarkerStands, Grows, marker' = marker
  PROVE  MarkerStands'
  BY DEF MarkerStands, Grows

LEMMA ReceiptsKept ==
  ASSUME ReceiptsRecorded, Grows, persisted' = persisted
  PROVE  ReceiptsRecorded'
  BY DEF ReceiptsRecorded, Grows

\* A call under way is the one its step says.
LEMMA CallKinds ==
  ASSUME Types, NEW c \in Callers
  PROVE  /\ call[c].pc \in PersistPCs => call[c] \in Persisting
         /\ call[c].pc \in PublishPCs => call[c] \in Publishing
<1>1. call[c] = Idle \/ call[c] \in Persisting \/ call[c] \in Publishing
  BY DEF Types
<1>2. call[c] = Idle => call[c].pc = "idle"
  BY DEF Idle
<1>3. call[c] \in Persisting => call[c].pc \in PersistPCs
  BY DEF Persisting
<1>4. call[c] \in Publishing => call[c].pc \in PublishPCs
  BY DEF Publishing
<1> QED
  BY <1>1, <1>2, <1>3, <1>4 DEF PersistPCs, PublishPCs

\* The objects of a version are a sequence that is not empty.
LEMMA ObjectsOf ==
  ASSUME NEW v \in Versions
  PROVE  /\ Len(Objects[v]) \in Nat /\ DOMAIN Objects[v] = 1..Len(Objects[v])
         /\ 1 \in DOMAIN Objects[v]
<1> DEFINE All == UNION {Range(Objects[w]) : w \in Versions}
<1>1. Objects[v] \in Seq(All) /\ Objects[v] # <<>>
  BY StoreAssumption
<1> HIDE DEF All
<1>2. Len(Objects[v]) \in Nat /\ DOMAIN Objects[v] = 1..Len(Objects[v]) /\ Len(Objects[v]) # 0
  BY <1>1, EmptySeq, LenProperties
<1> QED
  BY <1>2

\* An empty store satisfies the invariant.
LEMMA InvInit == Init => StoreInv
<1> SUFFICES ASSUME Init PROVE StoreInv
  OBVIOUS
<1>0. DOMAIN objects = {} /\ DOMAIN records = {} /\ receipts \in Seq(Receipts)
  BY DEF Init
<1>1. Types
  <2>1. objects = [o \in DOMAIN objects |-> objects[o]]
    BY DEF Init
  <2>2. records = [v \in DOMAIN records |-> records[v]]
    BY DEF Init
  <2>3. answer = [c \in Callers |-> answer[c]]
    BY DEF Init
  <2> QED
    BY <1>0, <2>1, <2>2, <2>3 DEF Init, Types
<1>2. ObjectsWhole /\ RecordsComplete
  BY <1>0 DEF ObjectsWhole, RecordsComplete
<1>3. \A c \in Callers : Stands(c)
  BY DEF Init, Stands, Idle, PublishPCs
<1>4. MarkerStands /\ ReceiptsRecorded
  BY DEF Init, MarkerStands, ReceiptsRecorded
<1>5. ReadsExact
  BY DEF Init, ReadsExact, NoAnswer
<1> QED
  BY <1>1, <1>2, <1>3, <1>4, <1>5 DEF StoreInv

-----------------------------------------------------------------------------
\* A step that leaves objects and records alone keeps what is said of them.
LEMMA DiskKept ==
  ASSUME StoreInv, objects' = objects, records' = records, made'.damage = made.damage,
         DOMAIN receipts \subseteq DOMAIN receipts'
  PROVE  Grows /\ ObjectsWhole' /\ RecordsComplete'
  BY DEF StoreInv, Grows, ObjectsWhole, RecordsComplete, Readable, Undamaged

\* A step of process c: the others' calls stand while the store only grows.
LEMMA OneCaller ==
  ASSUME StoreInv, Grows, NEW c \in Callers, Stands(c)',
         \A d \in Callers \ {c} : call'[d] = call[d]
  PROVE  \A d \in Callers : Stands(d)'
  BY StandsUntouched DEF StoreInv

LEMMA NoCaller ==
  ASSUME StoreInv, Grows, call' = call
  PROVE  \A d \in Callers : Stands(d)'
  BY StandsUntouched DEF StoreInv

\* An answer other than bytes says nothing about the objects.
LEMMA AnswerKept ==
  ASSUME StoreInv, NEW c \in Callers, NEW a, a.status # "read",
         answer' = answer \/ answer' = [answer EXCEPT ![c] = a]
  PROVE  ReadsExact' /\ answer' = [d \in Callers |-> answer'[d]]
<1>1. answer = [d \in Callers |-> answer[d]] /\ ReadsExact
  BY DEF StoreInv, Types
<1>2. CASE answer' = answer
  BY <1>1, <1>2 DEF ReadsExact
<1>3. CASE answer' = [answer EXCEPT ![c] = a]
  <2>1. \A d \in Callers : answer'[d] = IF d = c THEN a ELSE answer[d]
    BY <1>1, <1>3
  <2>2. answer' = [d \in Callers |-> answer'[d]]
    BY <1>1, <1>3
  <2> QED
    BY <1>1, <2>1, <2>2 DEF ReadsExact
<1> QED
  BY <1>2, <1>3

\* A call that ends without a receipt: refused, interrupted or confirmed.
LEMMA EndKeeps ==
  ASSUME StoreInv, NEW c \in Callers, NEW a, End(c, a), a.status # "read",
         UNCHANGED <<objects, records, marker, receipts, persisted>>,
         staging' \subseteq staging,
         made' \in [calls : Nat, crashes : Nat, damage : Nat], made'.damage = made.damage
  PROVE  StoreInv'
<1>1. Grows /\ ObjectsWhole' /\ RecordsComplete'
  BY DiskKept
<1>2. call' = [call EXCEPT ![c] = Idle] /\ answer' = [answer EXCEPT ![c] = a]
  BY DEF End
<1>3. ReadsExact' /\ answer' = [d \in Callers |-> answer'[d]]
  BY <1>2, AnswerKept, Zenon
<1>4. call' \in [Callers -> {Idle} \cup Persisting \cup Publishing]
  BY <1>2 DEF StoreInv, Types
<1>5. call'[c] = Idle /\ \A d \in Callers \ {c} : call'[d] = call[d]
  BY <1>2 DEF StoreInv, Types
<1>6. \A d \in Callers : Stands(d)'
  BY <1>1, <1>5, IdleStands, OneCaller
<1>7. MarkerStands' /\ ReceiptsRecorded'
  BY <1>1, MarkerKept, ReceiptsKept DEF StoreInv
<1>8. Types'
  BY <1>3, <1>4 DEF StoreInv, Types
<1> QED
  BY <1>1, <1>3, <1>6, <1>7, <1>8 DEF StoreInv

LEMMA CountedTypes ==
  ASSUME StoreInv
  PROVE  /\ Counted("calls") => /\ made' \in [calls : Nat, crashes : Nat, damage : Nat]
                                /\ made'.damage = made.damage /\ made'.calls = made.calls + 1
         /\ Counted("crashes") => /\ made' \in [calls : Nat, crashes : Nat, damage : Nat]
                                  /\ made'.damage = made.damage /\ made'.calls = made.calls
         /\ Counted("damage") => /\ made' \in [calls : Nat, crashes : Nat, damage : Nat]
                                 /\ made'.damage # 0 /\ made'.calls = made.calls
  BY DEF StoreInv, Types, Counted

-----------------------------------------------------------------------------
(* persist_exact_version()                                                 *)

\* A step of a call that moves on and leaves objects, records, marker and receipts.
LEMMA MovesOn ==
  ASSUME StoreInv, NEW c \in Callers, NEW k \in Persisting \cup Publishing,
         call' = [call EXCEPT ![c] = k], Grows => Stands(c)',
         UNCHANGED <<objects, records, marker, persisted, answer>>,
         receipts' \in Seq(Receipts), DOMAIN receipts \subseteq DOMAIN receipts',
         staging' \subseteq Entries,
         made' \in [calls : Nat, crashes : Nat, damage : Nat], made'.damage = made.damage
  PROVE  StoreInv'
<1>1. Grows /\ ObjectsWhole' /\ RecordsComplete'
  BY DiskKept
<1>2. call' \in [Callers -> {Idle} \cup Persisting \cup Publishing]
  BY DEF StoreInv, Types
<1>3. \A d \in Callers \ {c} : call'[d] = call[d]
  BY DEF StoreInv, Types
<1>4. \A d \in Callers : Stands(d)'
  BY <1>1, <1>3, OneCaller
<1>5. MarkerStands' /\ ReceiptsRecorded'
  BY <1>1, MarkerKept, ReceiptsKept DEF StoreInv
<1>6. Types'
  BY <1>2 DEF StoreInv, Types
<1>7. ReadsExact'
  BY DEF StoreInv, ReadsExact
<1> QED
  BY <1>1, <1>4, <1>5, <1>6, <1>7 DEF StoreInv

LEMMA BeginPersistKeeps ==
  ASSUME StoreInv, NEW c \in Callers, NEW v \in Versions, NEW ev \in Requests,
         BeginPersist(c, v, ev)
  PROVE  StoreInv'
<1>1. /\ UNCHANGED <<objects, records, staging, marker, receipts, persisted>>
      /\ Counted("calls")
  BY DEF BeginPersist, disk, books
<1>2. /\ made' \in [calls : Nat, crashes : Nat, damage : Nat] /\ made'.damage = made.damage
      /\ made.calls + 1 \in Nat
  BY <1>1, CountedTypes DEF StoreInv, Types
<1> DEFINE a == Refused(v, "RESOURCE_LIMIT_EXCEEDED")
           k == [pc |-> "stage", version |-> v, ev |-> ev, entry |-> made.calls + 1, next |-> 1]
<1>3. End(c, a) \/ (call' = [call EXCEPT ![c] = k] /\ answer' = answer)
  BY DEF BeginPersist
<1>4. CASE End(c, a)
  <2>1. a.status # "read"
    BY DEF Refused
  <2> QED
    BY <1>1, <1>2, <1>4, <2>1, EndKeeps
<1>5. CASE call' = [call EXCEPT ![c] = k] /\ answer' = answer
  <2>1. ev \in SUBSET Evidence
    BY StoreAssumption
  <2>2. k \in Persisting
    BY <1>2, <2>1 DEF Persisting, PersistPCs
  <2>3. call'[c] = k
    BY <1>5 DEF StoreInv, Types
  <2>4. Stands(c)'
    BY <2>3 DEF Stands, PublishPCs
  <2> HIDE DEF k
  <2> QED
    BY <1>1, <1>2, <1>5, <2>2, <2>4, MovesOn, Zenon DEF StoreInv, Types
<1> QED
  BY <1>3, <1>4, <1>5

\* Moving on to step pc without any other change of the call
LEMMA StepTo ==
  ASSUME StoreInv, NEW c \in Callers, NEW pc, Step(c, pc),
         \/ call[c].pc \in PersistPCs /\ pc \in PersistPCs
         \/ call[c].pc \in PublishPCs /\ pc \in PublishPCs
  PROVE  \E k \in Persisting \cup Publishing :
            /\ call' = [call EXCEPT ![c] = k] /\ call'[c] = k
            /\ k.pc = pc /\ k.version = call[c].version /\ k.entry = call[c].entry
            /\ pc \in PersistPCs => k.ev = call[c].ev /\ k.next = call[c].next
            /\ pc \in PublishPCs => k.receipt = call[c].receipt
<1>1. call' = [call EXCEPT ![c] = [call[c] EXCEPT !.pc = pc]]
  BY DEF Step
<1> DEFINE k == [call[c] EXCEPT !.pc = pc]
<1>2. call'[c] = k
  BY <1>1 DEF StoreInv, Types
<1>3. CASE call[c].pc \in PersistPCs /\ pc \in PersistPCs
  <2>1. call[c] \in Persisting
    BY <1>3, CallKinds DEF StoreInv
  <2>2. /\ k \in Persisting /\ k.pc = pc /\ k.version = call[c].version
        /\ k.entry = call[c].entry /\ k.ev = call[c].ev /\ k.next = call[c].next
    BY <1>3, <2>1 DEF Persisting
  <2>3. pc \notin PublishPCs
    BY <1>3 DEF PersistPCs, PublishPCs
  <2> QED
    BY <1>1, <1>2, <2>2, <2>3, Zenon
<1>4. CASE call[c].pc \in PublishPCs /\ pc \in PublishPCs
  <2>1. call[c] \in Publishing
    BY <1>4, CallKinds DEF StoreInv
  <2>2. /\ k \in Publishing /\ k.pc = pc /\ k.version = call[c].version
        /\ k.entry = call[c].entry /\ k.receipt = call[c].receipt
    BY <1>4, <2>1 DEF Publishing
  <2>3. pc \notin PersistPCs
    BY <1>4 DEF PersistPCs, PublishPCs
  <2> QED
    BY <1>1, <1>2, <2>2, <2>3, Zenon
<1> QED
  BY <1>3, <1>4

LEMMA MakeStageKeeps ==
  ASSUME StoreInv, NEW c \in Callers, MakeStage(c)
  PROVE  StoreInv'
<1>1. /\ call[c].pc = "stage" /\ Step(c, "describe")
      /\ UNCHANGED <<objects, records, marker, receipts, persisted, answer, made>>
  BY DEF MakeStage, books
<1>2. PICK k \in Persisting \cup Publishing :
            /\ call' = [call EXCEPT ![c] = k] /\ call'[c] = k
            /\ k.pc = "describe" /\ k.version = call[c].version /\ k.entry = call[c].entry
            /\ k.next = call[c].next
  BY <1>1, StepTo DEF PersistPCs
<1>3. Stands(c)'
  BY <1>1, <1>2 DEF StoreInv, Stands, PublishPCs
<1>4. call[c] \in Persisting
  BY <1>1, CallKinds DEF StoreInv, PersistPCs
<1>5. [id |-> call[c].entry, kind |-> "version", version |-> call[c].version, meta |-> FALSE] \in Entries
  BY <1>4 DEF Persisting, Entries
<1>6. staging' \subseteq Entries
  BY <1>5, Zenon DEF MakeStage, StoreInv, Types
<1> QED
  BY <1>1, <1>2, <1>3, <1>6, MovesOn, Zenon DEF StoreInv, Types

LEMMA DescribeStageKeeps ==
  ASSUME StoreInv, NEW c \in Callers, DescribeStage(c)
  PROVE  StoreInv'
<1>1. /\ call[c].pc = "describe" /\ Step(c, "objects")
      /\ UNCHANGED <<objects, records, marker, receipts, persisted, answer, made>>
  BY DEF DescribeStage, books
<1>2. PICK k \in Persisting \cup Publishing :
            /\ call' = [call EXCEPT ![c] = k] /\ call'[c] = k
            /\ k.pc = "objects" /\ k.version = call[c].version /\ k.entry = call[c].entry
            /\ k.next = call[c].next
  BY <1>1, StepTo DEF PersistPCs
<1>3. call[c] \in Persisting /\ call[c].next = 1
  BY <1>1, CallKinds DEF StoreInv, PersistPCs, Stands
<1>4. call[c].version \in Versions
  BY <1>3 DEF Persisting
<1>5. 1 \in DOMAIN Objects[call[c].version] /\ DOMAIN Objects[call[c].version] \subseteq Nat \ {0}
  BY <1>4, ObjectsOf
<1>6. Stored(k.version, 1)'
  BY <1>2, <1>5 DEF Stored
<1>7. Stands(c)'
  BY <1>2, <1>3, <1>5, <1>6 DEF Stands, PublishPCs
<1>8. \A e \in Entries : [e EXCEPT !.meta = TRUE] \in Entries
  BY Zenon DEF Entries
<1>9. staging' \subseteq Entries
  BY <1>8 DEF DescribeStage, StoreInv, Types
<1> QED
  BY <1>1, <1>2, <1>7, <1>9, MovesOn, Zenon DEF StoreInv, Types

LEMMA WriteObjectKeeps ==
  ASSUME StoreInv, NEW c \in Callers, WriteObject(c)
  PROVE  StoreInv'
<1> DEFINE v == call[c].version
           n == call[c].next
           o == Objects[v][n]
           pc == IF n = Len(Objects[v]) THEN "commit" ELSE "objects"
           k == [pc |-> pc, version |-> v, ev |-> call[c].ev, entry |-> call[c].entry, next |-> n + 1]
           a == Refused(v, "OBJECT_COLLISION")
<1>1. call[c].pc = "objects" /\ UNCHANGED <<records, staging, marker, receipts, persisted, made>>
  BY DEF WriteObject, books
<1>2. call[c] \in Persisting /\ n \in DOMAIN Objects[v]
  BY <1>1, CallKinds DEF StoreInv, PersistPCs, Stands
<1>3. v \in Versions /\ n \in Nat
  BY <1>2 DEF Persisting
<1>4. Len(Objects[v]) \in Nat /\ DOMAIN Objects[v] = 1..Len(Objects[v])
  BY <1>3, ObjectsOf
<1>5. CASE o \in DOMAIN objects /\ objects[o] # "ok"
  <2>1. End(c, a) /\ objects' = objects
    BY <1>5 DEF WriteObject
  <2>2. a.status # "read"
    BY DEF Refused
  <2> HIDE DEF a
  <2> QED
    BY <1>1, <2>1, <2>2, EndKeeps DEF StoreInv, Types
<1>6. CASE ~(o \in DOMAIN objects /\ objects[o] # "ok")
  <2>1. /\ objects' = IF o \in DOMAIN objects THEN objects ELSE With(objects, o, "ok")
        /\ call' = [call EXCEPT ![c] = k] /\ answer' = answer
    BY <1>6 DEF WriteObject
  <2>2. /\ objects' = [x \in DOMAIN objects' |-> objects'[x]]
        /\ DOMAIN objects' = DOMAIN objects \cup {o}
        /\ \A x \in DOMAIN objects' : objects'[x] = IF x \in DOMAIN objects THEN objects[x] ELSE "ok"
    BY <2>1, Zenon DEF With, StoreInv, Types
  <2>3. Grows
    BY <1>1, <2>2 DEF Grows, Undamaged
  <2>4. ObjectsWhole' /\ RecordsComplete'
    BY <1>1, <2>2, Zenon DEF StoreInv, ObjectsWhole, RecordsComplete, Readable, Undamaged
  <2>5. k \in Persisting /\ k.pc = pc /\ k.version = v /\ k.next = n + 1
    BY <1>2, <1>3 DEF Persisting, PersistPCs
  <2>6. call'[c] = k /\ \A d \in Callers \ {c} : call'[d] = call[d]
    BY <2>1 DEF StoreInv, Types
  <2>7. call' \in [Callers -> {Idle} \cup Persisting \cup Publishing]
    BY <2>1, <2>5 DEF StoreInv, Types
  <2>8. Undamaged' => \A i \in DOMAIN Objects[v] : i < n + 1 => Objects[v][i] \in DOMAIN objects'
    <3>1. Undamaged' => Stored(v, n)
      BY <1>1 DEF StoreInv, Stands, Undamaged
    <3>2. ASSUME Undamaged', NEW i \in DOMAIN Objects[v], i < n + 1
          PROVE  Objects[v][i] \in DOMAIN objects'
      <4>1. CASE i < n
        BY <3>1, <3>2, <4>1, <2>2, Zenon DEF Stored
      <4>2. CASE i = n
        BY <4>2, <2>2
      <4> QED
        BY <3>2, <4>1, <4>2, <1>3, <1>4
    <3> QED
      BY <3>2
  <2>9. Stands(c)'
    <3>1. pc \in {"objects", "commit"}
      OBVIOUS
    <3>2. pc = "objects" => n + 1 \in DOMAIN Objects[v]
      BY <1>2, <1>3, <1>4
    <3>3. pc = "commit" => n + 1 > Len(Objects[v])
      BY <1>3, <1>4
    <3>4. /\ call'[c].pc = pc /\ call'[c].version = v /\ call'[c].next = n + 1
      BY <2>5, <2>6
    <3> HIDE DEF pc, v, n, k
    <3> QED
      BY <2>8, <3>1, <3>2, <3>3, <3>4 DEF Stands, Stored, PublishPCs
  <2>10. \A d \in Callers : Stands(d)'
    BY <2>3, <2>6, <2>9, OneCaller
  <2>11. MarkerStands' /\ ReceiptsRecorded'
    BY <1>1, <2>3, MarkerKept, ReceiptsKept DEF StoreInv
  <2>12. Types'
    <3>1. DOMAIN records' = DOMAIN records /\ staging' \subseteq Entries /\ receipts' \in Seq(Receipts)
      BY <1>1 DEF StoreInv, Types
    <3>2. answer' = [d \in Callers |-> answer'[d]]
      BY <2>1 DEF StoreInv, Types
    <3> HIDE DEF v, n, o, pc, k
    <3> QED
      BY <1>1, <2>2, <2>7, <3>1, <3>2 DEF StoreInv, Types
  <2>13. ReadsExact'
    BY <2>1 DEF StoreInv, ReadsExact
  <2> QED
    BY <2>4, <2>10, <2>11, <2>12, <2>13, Zenon DEF StoreInv
<1> QED
  BY <1>5, <1>6

LEMMA CommitRecordKeeps ==
  ASSUME StoreInv, NEW c \in Callers, CommitRecord(c)
  PROVE  StoreInv'
<1> DEFINE v == call[c].version
           a == Refused(v, "OBJECT_COLLISION")
<1>1. call[c].pc = "commit" /\ UNCHANGED <<objects, staging, marker, receipts, persisted, made>>
  BY DEF CommitRecord, books
<1>2. call[c] \in Persisting
  BY <1>1, CallKinds DEF StoreInv, PersistPCs
<1>3. v \in Versions /\ call[c].ev \subseteq Evidence /\ call[c].next \in Nat
  BY <1>2 DEF Persisting
<1>4. CASE v \in DOMAIN records /\ records[v] # call[c].ev
  <2>1. End(c, a) /\ records' = records
    BY <1>4 DEF CommitRecord
  <2>2. a.status # "read"
    BY DEF Refused
  <2> HIDE DEF a
  <2> QED
    BY <1>1, <2>1, <2>2, EndKeeps, Zenon DEF StoreInv, Types
<1>5. CASE ~(v \in DOMAIN records /\ records[v] # call[c].ev)
  <2>1. /\ records' = IF v \in DOMAIN records THEN records ELSE With(records, v, call[c].ev)
        /\ Step(c, "verify") /\ answer' = answer
    BY <1>5 DEF CommitRecord
  <2>2. /\ records' = [x \in DOMAIN records' |-> records'[x]]
        /\ DOMAIN records' = DOMAIN records \cup {v}
        /\ \A x \in DOMAIN records : records'[x] = records[x]
        /\ records'[v] = call[c].ev
    BY <1>5, <2>1, Zenon DEF With, StoreInv, Types
  <2>3. Grows
    BY <1>1, <2>2 DEF Grows, Undamaged
  <2>4. PICK k \in Persisting \cup Publishing :
            /\ call' = [call EXCEPT ![c] = k] /\ call'[c] = k
            /\ k.pc = "verify" /\ k.version = v /\ k.ev = call[c].ev /\ k.next = call[c].next
    BY <1>1, <2>1, StepTo DEF PersistPCs
  <2>5. call[c].next > Len(Objects[v]) /\ (Undamaged => Stored(v, call[c].next))
    BY <1>1 DEF StoreInv, Stands
  <2>6. Len(Objects[v]) \in Nat /\ DOMAIN Objects[v] = 1..Len(Objects[v])
    BY <1>3, ObjectsOf
  <2>7. Undamaged => \A i \in DOMAIN Objects[v] : Objects[v][i] \in DOMAIN objects
    BY <1>3, <2>5, <2>6 DEF Stored
  <2>8. RecordsComplete'
    BY <1>1, <2>2, <2>7, Zenon DEF StoreInv, RecordsComplete, Readable, Undamaged
  <2>9. ObjectsWhole' /\ ReadsExact'
    BY <1>1, <2>1 DEF StoreInv, ObjectsWhole, ReadsExact, Undamaged
  <2>10. \A d \in Callers \ {c} : call'[d] = call[d]
    BY <2>4 DEF StoreInv, Types
  <2>11. Stands(c)'
    BY <1>1, <2>2, <2>4, <2>5, <2>7 DEF Stands, Stored, Undamaged, PublishPCs
  <2>12. \A d \in Callers : Stands(d)'
    BY <2>3, <2>10, <2>11, OneCaller
  <2>13. MarkerStands' /\ ReceiptsRecorded'
    BY <1>1, <2>3, MarkerKept, ReceiptsKept DEF StoreInv
  <2>14. call' \in [Callers -> {Idle} \cup Persisting \cup Publishing]
    BY <2>4 DEF StoreInv, Types
  <2>15. DOMAIN records' \subseteq Versions /\ \A x \in DOMAIN records' : records'[x] \subseteq Evidence
    BY <1>3, <2>2, Zenon DEF StoreInv, Types
  <2>16. Types'
    BY <1>1, <2>1, <2>2, <2>14, <2>15 DEF StoreInv, Types
  <2> QED
    BY <2>8, <2>9, <2>12, <2>13, <2>16 DEF StoreInv
<1> QED
  BY <1>4, <1>5

\* A version that can be read by some process has a record.
LEMMA RetrievalRecorded ==
  ASSUME NEW c \in Callers, NEW v \in Versions, Retrieval(c, v) = ""
  PROVE  /\ v \in DOMAIN records
         /\ \A i \in DOMAIN Objects[v] : Objects[v][i] \in DOMAIN objects /\ objects[Objects[v][i]] = "ok"
  BY DEF Retrieval

\* A refused retrieval is reported by one of four reasons.
LEMMA RetrievalReasons ==
  ASSUME NEW c, NEW v
  PROVE  Retrieval(c, v) \in {"", "VERSION_NOT_ESTABLISHED", "RESOURCE_LIMIT_EXCEEDED",
                              "OBJECT_MISSING", "OBJECT_CORRUPT"}
  BY DEF Retrieval

LEMMA FinishPersistKeeps ==
  ASSUME StoreInv, NEW c \in Callers, FinishPersist(c)
  PROVE  StoreInv'
<1> DEFINE v == call[c].version
           why == Retrieval(c, v)
           unproved == "VERIFICATION_EVIDENCE_NOT_ESTABLISHED"
<1>1. /\ call[c].pc = "verify" /\ UNCHANGED <<objects, records, marker, receipts, made>>
      /\ made \in [calls : Nat, crashes : Nat, damage : Nat]
  BY DEF FinishPersist, StoreInv, Types
<1>2. \/ End(c, Refused(v, why)) /\ UNCHANGED <<staging, persisted>>
      \/ End(c, Refused(v, unproved)) /\ UNCHANGED <<staging, persisted>>
      \/ /\ End(c, Ok(v))
         /\ staging' = {e \in staging : e.id # call[c].entry}
         /\ persisted' = persisted \cup {<<v, call[c].ev>>}
  BY DEF FinishPersist, PersistenceReceipt
<1>3. CASE End(c, Refused(v, why)) /\ UNCHANGED <<staging, persisted>>
  <2>1. why # "read"
    BY RetrievalReasons
  <2>2. Refused(v, why).status # "read"
    BY <2>1 DEF Refused
  <2> QED
    BY <1>1, <1>3, <2>2, EndKeeps
<1>4. CASE End(c, Refused(v, unproved)) /\ UNCHANGED <<staging, persisted>>
  <2>1. Refused(v, unproved).status # "read"
    BY DEF Refused
  <2> QED
    BY <1>1, <1>4, <2>1, EndKeeps
<1>5. CASE /\ End(c, Ok(v))
           /\ staging' = {e \in staging : e.id # call[c].entry}
           /\ persisted' = persisted \cup {<<v, call[c].ev>>}
  <2>1. v \in DOMAIN records /\ records[v] = call[c].ev
    BY <1>1 DEF StoreInv, Stands
  <2>2. Grows /\ ObjectsWhole' /\ RecordsComplete'
    BY <1>1, DiskKept
  <2>3. call' = [call EXCEPT ![c] = Idle] /\ answer' = [answer EXCEPT ![c] = Ok(v)]
    BY <1>5 DEF End
  <2>4. Ok(v).status # "read"
    BY DEF Ok
  <2>5. ReadsExact' /\ answer' = [d \in Callers |-> answer'[d]]
    BY <2>3, <2>4, AnswerKept, Zenon
  <2>6. /\ call' \in [Callers -> {Idle} \cup Persisting \cup Publishing]
        /\ call'[c] = Idle /\ \A d \in Callers \ {c} : call'[d] = call[d]
    BY <2>3 DEF StoreInv, Types
  <2>7. \A d \in Callers : Stands(d)'
    BY <2>2, <2>6, IdleStands, OneCaller
  <2>8. MarkerStands'
    BY <1>1, <2>2, MarkerKept DEF StoreInv
  <2>9. ReceiptsRecorded'
    <3>1. ASSUME NEW p \in persisted' PROVE p[1] \in DOMAIN records /\ records[p[1]] = p[2]
      <4>1. CASE p \in persisted
        BY <4>1 DEF StoreInv, ReceiptsRecorded
      <4>2. CASE p = <<v, call[c].ev>>
        BY <2>1, <4>2
      <4> QED
        BY <1>5, <3>1, <4>1, <4>2
    <3> QED
      BY <1>1, <3>1 DEF ReceiptsRecorded
  <2>10. Types'
    BY <1>1, <1>5, <2>5, <2>6 DEF StoreInv, Types
  <2> QED
    BY <2>2, <2>5, <2>7, <2>8, <2>9, <2>10 DEF StoreInv
<1> QED
  BY <1>2, <1>3, <1>4, <1>5

-----------------------------------------------------------------------------
(* publish_exact_version()                                                 *)

\* The identity of a receipt is its place among the receipts made, and only a new one
\* makes a place.
LEMMA ReceiptPlace ==
  ASSUME receipts \in Seq(Receipts), NEW r \in Receipts,
         receipts' = IF ReceiptId(r) \in DOMAIN receipts THEN receipts ELSE Append(receipts, r)
  PROVE  /\ receipts' \in Seq(Receipts) /\ DOMAIN receipts \subseteq DOMAIN receipts'
         /\ ReceiptId(r) \in Nat /\ ReceiptId(r) \in DOMAIN receipts'
<1>1. Len(receipts) \in Nat /\ DOMAIN receipts = 1..Len(receipts)
  OBVIOUS
<1>2. r \in Range(receipts) => ReceiptId(r) \in DOMAIN receipts
  BY DEF ReceiptId, Range
<1>3. r \notin Range(receipts) => ReceiptId(r) = Len(receipts) + 1
  BY DEF ReceiptId
<1>4. CASE ReceiptId(r) \in DOMAIN receipts
  BY <1>1, <1>4
<1>5. CASE ReceiptId(r) \notin DOMAIN receipts
  <2>1. receipts' = Append(receipts, r) /\ ReceiptId(r) = Len(receipts) + 1
    BY <1>2, <1>3, <1>5
  <2>2. receipts' \in Seq(Receipts) /\ Len(receipts') = Len(receipts) + 1
    BY <2>1
  <2>3. DOMAIN receipts' = 1..(Len(receipts) + 1)
    BY <2>2
  <2> QED
    BY <1>1, <2>1, <2>2, <2>3
<1> QED
  BY <1>4, <1>5

LEMMA BeginPublishKeeps ==
  ASSUME StoreInv, NEW c \in Callers, NEW v \in Versions, NEW pred \in 0..Len(receipts),
         NEW at \in Times, NEW ev \in Requests, BeginPublish(c, v, pred, at, ev)
  PROVE  StoreInv'
<1> DEFINE r == ReceiptBody(v, pred, at)
           k == [pc |-> "mark", version |-> v, receipt |-> ReceiptId(r), entry |-> made.calls + 1]
<1>1. UNCHANGED <<objects, records, staging, marker, persisted>> /\ Counted("calls")
  BY DEF BeginPublish, disk
<1>2. /\ made' \in [calls : Nat, crashes : Nat, damage : Nat] /\ made'.damage = made.damage
      /\ made.calls + 1 \in Nat /\ receipts \in Seq(Receipts)
  BY <1>1, CountedTypes, Zenon DEF StoreInv, Types
<1>3. \/ \E why \in {"VERSION_NOT_ESTABLISHED", "RESOURCE_LIMIT_EXCEEDED", "OBJECT_MISSING",
                     "OBJECT_CORRUPT", "PUBLICATION_PREDECESSOR_MISMATCH",
                     "VERIFICATION_EVIDENCE_NOT_ESTABLISHED"} :
            End(c, Refused(v, why)) /\ receipts' = receipts
      \/ /\ Retrieval(c, v) = "" /\ call' = [call EXCEPT ![c] = k] /\ answer' = answer
         /\ receipts' = IF ReceiptId(r) \in DOMAIN receipts THEN receipts ELSE Append(receipts, r)
  <2>1. Retrieval(c, v) \in {"", "VERSION_NOT_ESTABLISHED", "RESOURCE_LIMIT_EXCEEDED",
                             "OBJECT_MISSING", "OBJECT_CORRUPT"}
    BY RetrievalReasons
  <2>2. MarkerReads(c) \in {"", "VERSION_NOT_ESTABLISHED", "RESOURCE_LIMIT_EXCEEDED",
                            "OBJECT_MISSING", "OBJECT_CORRUPT"}
    BY RetrievalReasons DEF MarkerReads
  <2> QED
    BY <2>1, <2>2 DEF BeginPublish
<1>4. CASE \E why \in {"VERSION_NOT_ESTABLISHED", "RESOURCE_LIMIT_EXCEEDED", "OBJECT_MISSING",
                       "OBJECT_CORRUPT", "PUBLICATION_PREDECESSOR_MISMATCH",
                       "VERIFICATION_EVIDENCE_NOT_ESTABLISHED"} :
              End(c, Refused(v, why)) /\ receipts' = receipts
  <2>1. PICK why : End(c, Refused(v, why)) /\ receipts' = receipts /\ why # "read"
    BY <1>4
  <2>2. Refused(v, why).status # "read"
    BY <2>1 DEF Refused
  <2> QED
    BY <1>1, <1>2, <2>1, <2>2, EndKeeps
<1>5. CASE /\ Retrieval(c, v) = "" /\ call' = [call EXCEPT ![c] = k] /\ answer' = answer
           /\ receipts' = IF ReceiptId(r) \in DOMAIN receipts THEN receipts ELSE Append(receipts, r)
  <2>1. pred \in Nat
    BY <1>2
  <2>2. r \in Receipts
    BY <2>1, Zenon DEF ReceiptBody, Receipts
  <2>3. /\ receipts' \in Seq(Receipts) /\ DOMAIN receipts \subseteq DOMAIN receipts'
        /\ ReceiptId(r) \in Nat /\ ReceiptId(r) \in DOMAIN receipts'
    BY <1>2, <1>5, <2>2, ReceiptPlace
  <2>4. v \in DOMAIN records
    BY <1>5, RetrievalRecorded
  <2>5. k \in Publishing /\ k.pc = "mark" /\ k.version = v /\ k.receipt = ReceiptId(r)
    BY <1>2, <2>3 DEF Publishing, PublishPCs
  <2>6. call'[c] = k
    BY <1>5 DEF StoreInv, Types
  <2>7. k.receipt \in DOMAIN receipts'
    BY <2>3, <2>5
  <2>8. staging' \subseteq Entries
    BY <1>1, Zenon DEF StoreInv, Types
  <2>9. call' = [call EXCEPT ![c] = k] /\ answer' = answer
    BY <1>5
  <2> HIDE DEF k, r
  <2>10. Stands(c)'
    BY <1>1, <2>4, <2>5, <2>6, <2>7 DEF Stands
  <2> QED
    BY <1>1, <1>2, <2>3, <2>5, <2>8, <2>9, <2>10, MovesOn, Zenon
<1> QED
  BY <1>3, <1>4, <1>5

LEMMA StageMarkerKeeps ==
  ASSUME StoreInv, NEW c \in Callers, StageMarker(c)
  PROVE  StoreInv'
<1>1. /\ call[c].pc = "mark" /\ Step(c, "replace")
      /\ UNCHANGED <<objects, records, marker, receipts, persisted, answer, made>>
  BY Zenon DEF StageMarker, books
<1>2. PICK k \in Persisting \cup Publishing :
            /\ call' = [call EXCEPT ![c] = k] /\ call'[c] = k
            /\ k.pc = "replace" /\ k.version = call[c].version /\ k.receipt = call[c].receipt
  BY <1>1, StepTo DEF PublishPCs
<1>3. call[c].version \in DOMAIN records /\ call[c].receipt \in DOMAIN receipts
  BY <1>1, Zenon DEF StoreInv, Stands, PublishPCs
<1>4. Stands(c)'
  BY <1>1, <1>2, <1>3, Zenon DEF Stands
<1>5. call[c] \in Publishing
  BY <1>1, CallKinds DEF StoreInv, PublishPCs
<1>6. [id |-> call[c].entry, kind |-> "marker", version |-> call[c].version, meta |-> TRUE] \in Entries
  BY <1>5 DEF Publishing, Entries
<1>7. staging' \subseteq Entries
  BY <1>6, Zenon DEF StageMarker, StoreInv, Types
<1> QED
  BY <1>1, <1>2, <1>4, <1>7, MovesOn, Zenon DEF StoreInv, Types

LEMMA ReplaceMarkerKeeps ==
  ASSUME StoreInv, NEW c \in Callers, ReplaceMarker(c)
  PROVE  StoreInv'
<1>1. /\ call[c].pc = "replace" /\ Step(c, "confirm")
      /\ UNCHANGED <<objects, records, receipts, persisted, answer, made>>
      /\ staging' \subseteq staging
      /\ marker' = <<[receipt |-> call[c].receipt, version |-> call[c].version]>>
  BY DEF ReplaceMarker
<1>2. PICK k \in Persisting \cup Publishing :
            /\ call' = [call EXCEPT ![c] = k] /\ call'[c] = k
            /\ k.pc = "confirm" /\ k.version = call[c].version /\ k.receipt = call[c].receipt
  BY <1>1, StepTo DEF PublishPCs
<1>3. call[c].version \in DOMAIN records /\ call[c].receipt \in DOMAIN receipts
  BY <1>1 DEF StoreInv, Stands, PublishPCs
<1>4. Grows /\ ObjectsWhole' /\ RecordsComplete'
  BY <1>1, DiskKept, Zenon
<1>5. Stands(c)'
  BY <1>1, <1>2, <1>3 DEF Stands
<1>6. \A d \in Callers \ {c} : call'[d] = call[d]
  BY <1>2 DEF StoreInv, Types
<1>7. \A d \in Callers : Stands(d)'
  BY <1>4, <1>5, <1>6, OneCaller, Zenon
<1>8. MarkerStands'
  BY <1>1, <1>3, Zenon DEF MarkerStands
<1>9. ReceiptsRecorded' /\ ReadsExact'
  BY <1>1, <1>4, ReceiptsKept DEF StoreInv, ReadsExact
<1>10. call' \in [Callers -> {Idle} \cup Persisting \cup Publishing]
  BY <1>2 DEF StoreInv, Types
<1>11. Types'
  BY <1>1, <1>10 DEF StoreInv, Types
<1> QED
  BY <1>4, <1>7, <1>8, <1>9, <1>11, Zenon DEF StoreInv

LEMMA ConfirmMarkerKeeps ==
  ASSUME StoreInv, NEW c \in Callers, ConfirmMarker(c)
  PROVE  StoreInv'
<1> DEFINE v == call[c].version
<1>1. UNCHANGED <<objects, records, staging, marker, receipts, persisted, made>>
  BY DEF ConfirmMarker, disk, books
<1>2. made' \in [calls : Nat, crashes : Nat, damage : Nat] /\ made'.damage = made.damage
  BY <1>1 DEF StoreInv, Types
<1>3. \E a : End(c, a) /\ a.status # "read"
  <2>1. MarkerReads(c) # "read"
    BY RetrievalReasons DEF MarkerReads
  <2>2. /\ Refused(v, MarkerReads(c)).status # "read" /\ Ok(v).status # "read"
        /\ Refused(v, "PUBLICATION_MARKER_INVALID").status # "read"
    BY <2>1, Zenon DEF Refused, Ok
  <2>3. End(c, Refused(v, MarkerReads(c))) \/ End(c, Refused(v, "PUBLICATION_MARKER_INVALID")) \/ End(c, Ok(v))
    BY DEF ConfirmMarker
  <2> QED
    BY <2>2, <2>3
<1> QED
  BY <1>1, <1>2, <1>3, EndKeeps, Zenon

-----------------------------------------------------------------------------
(* retrieve_exact_version(), crashes and damage                            *)

\* What is returned was compared with the digests of the inventory.
LEMMA RetrieveKeeps ==
  ASSUME StoreInv, NEW c \in Callers, NEW v \in Versions, Retrieve(c, v)
  PROVE  StoreInv'
<1> DEFINE why == Retrieval(c, v)
           bytes == [i \in DOMAIN Objects[v] |-> objects[Objects[v][i]]]
           a == IF why # "" THEN Refused(v, why)
                ELSE [status |-> "read", version |-> v, bytes |-> bytes]
<1>1. /\ UNCHANGED <<objects, records, staging, marker, receipts, persisted, call>>
      /\ Counted("calls") /\ answer' = [answer EXCEPT ![c] = a]
  BY DEF Retrieve, disk, books
<1>2. made' \in [calls : Nat, crashes : Nat, damage : Nat] /\ made'.damage = made.damage
  BY <1>1, CountedTypes
<1>3. Grows /\ ObjectsWhole' /\ RecordsComplete'
  BY <1>1, <1>2, DiskKept
<1>4. \A d \in Callers : Stands(d)'
  BY <1>1, <1>3, NoCaller
<1>5. MarkerStands' /\ ReceiptsRecorded'
  BY <1>1, <1>3, MarkerKept, ReceiptsKept DEF StoreInv
<1>6. a.status = "read" => \A i \in DOMAIN a.bytes : a.bytes[i] = "ok"
  <2>1. CASE why # ""
    <3>1. why # "read"
      BY RetrievalReasons
    <3> QED
      BY <2>1, <3>1, Zenon DEF Refused
  <2>2. CASE why = ""
    <3>1. \A i \in DOMAIN Objects[v] : objects[Objects[v][i]] = "ok"
      BY <2>2, RetrievalRecorded
    <3> QED
      BY <2>2, <3>1, Zenon
  <2> QED
    BY <2>1, <2>2
<1>7. answer = [d \in Callers |-> answer[d]]
  BY DEF StoreInv, Types
<1>8. answer' = [d \in Callers |-> IF d = c THEN a ELSE answer[d]]
  BY <1>1, <1>7
<1> HIDE DEF a
<1>9. answer' = [d \in Callers |-> answer'[d]]
  BY <1>8
<1>10. ReadsExact'
  BY <1>6, <1>8 DEF StoreInv, ReadsExact
<1>11. Types'
  BY <1>1, <1>2, <1>9 DEF StoreInv, Types
<1> QED
  BY <1>3, <1>4, <1>5, <1>10, <1>11, Zenon DEF StoreInv

LEMMA CrashKeeps ==
  ASSUME StoreInv, NEW c \in Callers, Crash(c)
  PROVE  StoreInv'
<1>1. /\ UNCHANGED <<objects, records, staging, marker, receipts, persisted>>
      /\ Counted("crashes") /\ End(c, NoAnswer)
  BY DEF Crash, disk, books
<1>2. made' \in [calls : Nat, crashes : Nat, damage : Nat] /\ made'.damage = made.damage
  BY <1>1, CountedTypes
<1>3. NoAnswer.status # "read"
  BY DEF NoAnswer
<1> QED
  BY <1>1, <1>2, <1>3, EndKeeps

LEMMA DamageKeeps ==
  ASSUME StoreInv, NEW o, Damage(o)
  PROVE  StoreInv'
<1>1. /\ UNCHANGED <<records, staging, marker, receipts, persisted, call, answer>>
      /\ Counted("damage")
      /\ \/ objects' = [objects EXCEPT ![o] = "damaged"]
         \/ objects' = [p \in DOMAIN objects \ {o} |-> objects[p]]
  BY DEF Damage, books
<1>2. made' \in [calls : Nat, crashes : Nat, damage : Nat] /\ made'.damage # 0
  BY <1>1, CountedTypes
<1>3. ~Undamaged'
  BY <1>2 DEF Undamaged
<1>4. Grows /\ ObjectsWhole' /\ RecordsComplete'
  BY <1>1, <1>3 DEF Grows, ObjectsWhole, RecordsComplete
<1>5. \A d \in Callers : Stands(d)'
  BY <1>1, <1>4, NoCaller
<1>6. MarkerStands' /\ ReceiptsRecorded' /\ ReadsExact'
  BY <1>1, <1>4, MarkerKept, ReceiptsKept DEF StoreInv, ReadsExact
<1>7. objects' = [p \in DOMAIN objects' |-> objects'[p]]
  BY <1>1 DEF StoreInv, Types
<1>8. Types'
  BY <1>1, <1>2, <1>7, Zenon DEF StoreInv, Types
<1> QED
  BY <1>4, <1>5, <1>6, <1>8 DEF StoreInv

-----------------------------------------------------------------------------
\* No step of a process, no crash and no damaged file breaks the invariant.
LEMMA InvNext == StoreInv /\ [Next]_vars => StoreInv'
<1> SUFFICES ASSUME StoreInv, [Next]_vars PROVE StoreInv'
  OBVIOUS
<1>1. CASE UNCHANGED vars
  <2>1. /\ UNCHANGED <<objects, records, staging, marker, receipts>>
        /\ UNCHANGED <<call, answer, persisted, made>>
    BY <1>1 DEF vars
  <2>2. Grows /\ ObjectsWhole' /\ RecordsComplete'
    BY <2>1, DiskKept
  <2>3. \A d \in Callers : Stands(d)'
    BY <2>1, <2>2, NoCaller
  <2>4. MarkerStands' /\ ReceiptsRecorded' /\ ReadsExact'
    BY <2>1, <2>2, MarkerKept, ReceiptsKept, Zenon DEF StoreInv, ReadsExact
  <2>5. Types'
    BY <2>1 DEF StoreInv, Types
  <2> QED
    BY <2>2, <2>3, <2>4, <2>5 DEF StoreInv
<1>2. ASSUME NEW c \in Callers, NEW v \in Versions, NEW ev \in Requests, BeginPersist(c, v, ev)
      PROVE  StoreInv'
  BY <1>2, BeginPersistKeeps
<1>3. ASSUME NEW c \in Callers,
             \/ MakeStage(c) \/ DescribeStage(c) \/ WriteObject(c) \/ CommitRecord(c)
             \/ FinishPersist(c)
      PROVE  StoreInv'
  BY <1>3, MakeStageKeeps, DescribeStageKeeps, WriteObjectKeeps, CommitRecordKeeps, FinishPersistKeeps
<1>4. ASSUME NEW c \in Callers, StageMarker(c) \/ ReplaceMarker(c) \/ ConfirmMarker(c) \/ Crash(c)
      PROVE  StoreInv'
  BY <1>4, StageMarkerKeeps, ReplaceMarkerKeeps, ConfirmMarkerKeeps, CrashKeeps
<1>5. ASSUME NEW c \in Callers, NEW v \in Versions, NEW pred \in 0..Len(receipts),
             NEW at \in Times, NEW ev \in Requests, BeginPublish(c, v, pred, at, ev)
      PROVE  StoreInv'
  BY <1>5, BeginPublishKeeps
<1>6. ASSUME NEW c \in Callers, NEW v \in Versions, Retrieve(c, v)
      PROVE  StoreInv'
  BY <1>6, RetrieveKeeps
<1>7. ASSUME NEW v \in Versions, NEW i \in DOMAIN Objects[v], Damage(Objects[v][i])
      PROVE  StoreInv'
  BY <1>7, DamageKeeps
<1> QED
  BY <1>1, <1>2, <1>3, <1>4, <1>5, <1>6, <1>7 DEF Next

\* StoreInv holds in every state that processes, crashes and damaged files can reach.
THEOREM StoreInvariance == Spec => []StoreInv
  BY InvInit, InvNext, PTL DEF Spec

\* What consumers and operators are told of the store is true for any number of
\* processes, versions, calls and crashes: while no file is damaged from outside, the
\* published version is complete, and recover() calls nothing committed or valid that is
\* not (publish_exact_version, recover).
THEOREM StoreIsTruthful == Spec => []StoreTruthful
<1>1. StoreInv => StoreTruthful
  <2> SUFFICES ASSUME StoreInv PROVE StoreTruthful
    OBVIOUS
  <2>1. ASSUME Undamaged, marker # <<>>
        PROVE  Readable(marker[1].version) /\ marker[1].version \in DOMAIN records
    BY <2>1 DEF StoreInv, MarkerStands, RecordsComplete
  <2>2. ASSUME NEW e \in staging, EntryState(e) = "COMMITTED_VALID", Undamaged
        PROVE  Readable(e.version)
    BY <2>2 DEF StoreInv, RecordsComplete, EntryState
  <2>3. ASSUME NEW c \in Callers, Undamaged, marker # <<>>,
               Len(Objects[marker[1].version]) <= MaxObjects[c]
        PROVE  RecoveredState(c) = "COMMITTED_VALID"
    <3>1. Retrieval(c, marker[1].version) = ""
      BY <2>1, <2>3, Zenon DEF Retrieval, WithinLimits, Readable, StoreInv, ObjectsWhole
    <3> QED
      BY <2>3, <3>1 DEF RecoveredState, MarkerReads
  <2> QED
    BY <2>1, <2>2, <2>3 DEF StoreTruthful, PublishedComplete, RecoveryTruthful
<1> QED
  BY <1>1, StoreInvariance, PTL

\* What the store has answered stays true: a receipt of persist_exact_version() names a
\* record that still holds its evidence, with its objects while no file is damaged, and
\* retrieve_exact_version() never returns damaged bytes, whatever is damaged.
THEOREM StoreAnswersHold == Spec => []AnswersHold
<1>1. StoreInv => AnswersHold
  BY DEF StoreInv, AnswersHold, ReceiptsHold, ReceiptsRecorded, RecordsComplete
<1> QED
  BY <1>1, StoreInvariance, PTL

-----------------------------------------------------------------------------
(* Refusals                                                                *)

LEMMA EndAnswers ==
  ASSUME StoreInv, NEW c \in Callers, NEW a, End(c, a)
  PROVE  answer'[c] = a /\ \A d \in Callers \ {c} : answer'[d] = answer[d]
  BY DEF End, StoreInv, Types

\* A persist call that is repeated after a crash, or made by two processes at once, is
\* refused as a collision only when the record holds other evidence than its own, as
\* long as no file is damaged (_write_object, _write_once_metadata).
THEOREM CollisionsHaveCause == Spec => CollisionHasCause
<1>1. StoreInv /\ [Next]_vars => [CollisionHasCauseStep]_vars
  <2> SUFFICES ASSUME StoreInv, Next, NEW d \in Callers, answer'[d] # answer[d],
                      answer'[d].status = "OBJECT_COLLISION", call[d] # Idle, Undamaged
               PROVE  /\ answer'[d].version \in DOMAIN records
                      /\ records[answer'[d].version] # call[d].ev
    BY DEF CollisionHasCauseStep
  <2>1. \A c \in Callers : \A a : End(c, a) => c = d /\ answer'[d] = a
    BY EndAnswers
  <2>2. \A v, why : Refused(v, why).status = why /\ Refused(v, why).version = v
    BY DEF Refused
  <2>3. \A c, v : Retrieval(c, v) # "OBJECT_COLLISION"
    BY RetrievalReasons
  <2>4. \A v : Ok(v).status # "OBJECT_COLLISION" /\ NoAnswer.status # "OBJECT_COLLISION"
    BY Zenon DEF Ok, NoAnswer
  <2>5. ASSUME NEW c \in Callers, NEW v \in Versions, NEW ev \in Requests, BeginPersist(c, v, ev)
        PROVE  FALSE
    BY <2>1, <2>5 DEF BeginPersist
  <2>6. ASSUME NEW c \in Callers, MakeStage(c) \/ DescribeStage(c) \/ StageMarker(c) \/ ReplaceMarker(c)
        PROVE  FALSE
    BY <2>6 DEF MakeStage, DescribeStage, StageMarker, ReplaceMarker
  <2>7. ASSUME NEW c \in Callers, WriteObject(c)
        PROVE  FALSE
    <3> DEFINE o == Objects[call[c].version][call[c].next]
    <3>1. ~(o \in DOMAIN objects /\ objects[o] # "ok")
      BY Zenon DEF StoreInv, ObjectsWhole
    <3>2. answer' = answer
      BY <2>7, <3>1, Zenon DEF WriteObject
    <3> QED
      BY <3>2, Zenon
  <2>8. ASSUME NEW c \in Callers, CommitRecord(c)
        PROVE  /\ answer'[d].version \in DOMAIN records
               /\ records[answer'[d].version] # call[d].ev
    <3> DEFINE v == call[c].version
    <3>1. v \in DOMAIN records /\ records[v] # call[c].ev /\ End(c, Refused(v, "OBJECT_COLLISION"))
      BY <2>8 DEF CommitRecord
    <3>2. c = d /\ answer'[d] = Refused(v, "OBJECT_COLLISION")
      BY <2>1, <3>1
    <3>3. answer'[d].version = v
      BY <3>2, <2>2
    <3> QED
      BY <3>1, <3>2, <3>3, Zenon
  <2>9. ASSUME NEW c \in Callers, FinishPersist(c)
        PROVE  FALSE
    <3> DEFINE v == call[c].version
               unproved == "VERIFICATION_EVIDENCE_NOT_ESTABLISHED"
    <3>1. End(c, Refused(v, Retrieval(c, v))) \/ End(c, Refused(v, unproved)) \/ End(c, Ok(v))
      BY <2>9 DEF FinishPersist
    <3>2. /\ Refused(v, Retrieval(c, v)).status # "OBJECT_COLLISION"
          /\ Refused(v, unproved).status # "OBJECT_COLLISION"
      BY <2>3, Zenon DEF Refused
    <3> QED
      BY <2>1, <2>4, <3>1, <3>2, Zenon
  <2>10. ASSUME NEW c \in Callers, ConfirmMarker(c)
         PROVE  FALSE
    <3>1. MarkerReads(c) # "OBJECT_COLLISION"
      BY RetrievalReasons DEF MarkerReads
    <3> DEFINE v == call[c].version
               invalid == "PUBLICATION_MARKER_INVALID"
    <3>2. End(c, Refused(v, MarkerReads(c))) \/ End(c, Refused(v, invalid)) \/ End(c, Ok(v))
      BY <2>10 DEF ConfirmMarker
    <3>3. /\ Refused(v, MarkerReads(c)).status # "OBJECT_COLLISION"
          /\ Refused(v, invalid).status # "OBJECT_COLLISION"
      BY <3>1 DEF Refused
    <3> QED
      BY <2>1, <2>4, <3>2, <3>3
  <2>11. ASSUME NEW c \in Callers, Crash(c)
         PROVE  FALSE
    BY <2>1, <2>4, <2>11, Zenon DEF Crash
  <2>12. ASSUME NEW c \in Callers, NEW v, NEW pred, NEW at, NEW ev, BeginPublish(c, v, pred, at, ev)
         PROVE  FALSE
    BY <2>1, <2>12 DEF BeginPublish
  <2>13. ASSUME NEW c \in Callers, NEW v \in Versions, Retrieve(c, v)
         PROVE  FALSE
    <3>1. call[c] = Idle /\ \A e \in Callers \ {c} : answer'[e] = answer[e]
      BY <2>13 DEF Retrieve, StoreInv, Types
    <3> QED
      BY <3>1, Zenon
  <2>14. ASSUME NEW o, Damage(o)
         PROVE  FALSE
    BY <2>14 DEF Damage
  <2> QED
    BY <2>5, <2>6, <2>7, <2>8, <2>9, <2>10, <2>11, <2>12, <2>13, <2>14, Zenon DEF Next
<1> QED
  BY <1>1, StoreInvariance, PTL DEF Spec, CollisionHasCause

-----------------------------------------------------------------------------
(* The names in staging                                                    *)

\* Staging entries have distinct names, a call under way has a name of its own, and no
\* entry has it before the call makes one: a call that removes what it staged removes
\* nothing else.
Busy(c) == call[c].pc # "idle"
Distinguished == \A e, f \in staging : e.id = f.id => e = f
Given ==
  /\ \A e \in staging : e.id <= made.calls
  /\ \A c \in Callers : Busy(c) => call[c].entry <= made.calls
Owned == \A c, d \in Callers : Busy(c) /\ Busy(d) /\ call[c].entry = call[d].entry => c = d
Unused ==
  \A c \in Callers : call[c].pc \in {"stage", "mark"} => \A e \in staging : e.id # call[c].entry
Named == Distinguished /\ Given /\ Owned /\ Unused

\* The names as numbers
LEMMA NameTypes ==
  ASSUME StoreInv
  PROVE  /\ made.calls \in Nat /\ \A e \in staging : e.id \in Nat
         /\ \A c \in Callers : Busy(c) => call[c].entry \in Nat
<1>1. made.calls \in Nat /\ \A e \in staging : e.id \in Nat
  BY DEF StoreInv, Types, Entries
<1>2. ASSUME NEW c \in Callers, Busy(c) PROVE call[c].entry \in Nat
  <2>1. call[c] # Idle
    BY <1>2 DEF Busy, Idle
  <2>2. call[c] \in Persisting \/ call[c] \in Publishing
    BY <2>1 DEF StoreInv, Types
  <2> QED
    BY <2>2, Zenon DEF Persisting, Publishing
<1> QED
  BY <1>1, <1>2

\* Calls that end, and answers, take names away at most.
LEMMA NamesEnd ==
  ASSUME StoreInv, Named, staging' \subseteq staging,
         made'.calls = made.calls \/ made'.calls = made.calls + 1,
         \A c \in Callers : call'[c] = call[c] \/ call'[c] = Idle
  PROVE  Named'
<1>1. \A c \in Callers : call'[c].pc # "idle" => call'[c] = call[c]
  BY DEF Idle
<1>2. \A n \in Nat : n <= made.calls => n <= made'.calls
  BY NameTypes
<1>3. Distinguished'
  BY DEF Named, Distinguished
<1>4. Given'
  BY <1>1, <1>2, NameTypes, Zenon DEF Named, Given, Busy
<1>5. Owned'
  BY <1>1 DEF Named, Owned, Busy
<1>6. Unused'
  BY <1>1 DEF Named, Unused
<1> QED
  BY <1>3, <1>4, <1>5, <1>6 DEF Named

\* A call that goes on keeps its name.
LEMMA NamesGoOn ==
  ASSUME Named, NEW c \in Callers, Busy(c), made' = made,
         \A d \in Callers \ {c} : call'[d] = call[d],
         call'[c].entry = call[c].entry, call'[c].pc \notin {"stage", "mark"},
         \A e \in staging' : \E f \in staging : e.id = f.id,
         \A e, f \in staging' : e.id = f.id => e = f
  PROVE  Named'
<1>1. Distinguished'
  BY DEF Distinguished
<1>2. Given'
  BY DEF Named, Given, Busy
<1>3. Owned'
  BY DEF Named, Owned, Busy
<1>4. Unused'
  BY DEF Named, Unused
<1> QED
  BY <1>1, <1>2, <1>3, <1>4 DEF Named

\* A call that begins takes a new name.
LEMMA NamesBegin ==
  ASSUME StoreInv, Named, NEW c \in Callers, made'.calls = made.calls + 1, staging' = staging,
         \A d \in Callers \ {c} : call'[d] = call[d], call'[c].entry = made.calls + 1
  PROVE  Named'
<1>1. \A n \in Nat : n <= made.calls => n <= made'.calls /\ n # made.calls + 1
  BY NameTypes
<1>2. made.calls + 1 <= made'.calls
  BY NameTypes
<1>3. ASSUME NEW d \in Callers \ {c}, Busy(d)
      PROVE  call'[d].entry # call'[c].entry /\ call'[d].entry <= made'.calls
  BY <1>1, <1>3, NameTypes DEF Named, Given
<1>4. \A e \in staging : e.id # call'[c].entry /\ e.id <= made'.calls
  BY <1>1, NameTypes DEF Named, Given
<1>5. Distinguished'
  BY DEF Named, Distinguished
<1>6. Given'
  BY <1>2, <1>3, <1>4 DEF Given, Busy
<1>7. Owned'
  BY <1>3 DEF Named, Owned, Busy
<1>8. Unused'
  BY <1>4, Zenon DEF Named, Unused
<1> QED
  BY <1>5, <1>6, <1>7, <1>8, Zenon DEF Named

\* A call stages an entry under its own name.
LEMMA NamesStage ==
  ASSUME Named, NEW c \in Callers, call[c].pc \in {"stage", "mark"}, made' = made, NEW e,
         e.id = call[c].entry, staging' = staging \cup {e},
         \A d \in Callers \ {c} : call'[d] = call[d],
         call'[c].entry = call[c].entry, call'[c].pc \notin {"stage", "mark"}
  PROVE  Named'
<1>1. Busy(c)
  BY DEF Busy
<1>2. \A f \in staging : f.id # e.id
  BY DEF Named, Unused
<1>3. e.id <= made.calls
  BY <1>1, Zenon DEF Named, Given
<1>4. \A d \in Callers \ {c} : Busy(d) => call[d].entry # e.id
  BY <1>1, Zenon DEF Named, Owned
<1>5. Distinguished'
  BY <1>2, Zenon DEF Named, Distinguished
<1>6. Given'
  BY <1>3 DEF Named, Given, Busy
<1>7. Owned'
  BY <1>4 DEF Named, Owned, Busy
<1>8. Unused'
  BY <1>4 DEF Named, Unused, Busy
<1> QED
  BY <1>5, <1>6, <1>7, <1>8 DEF Named

\* A step of a call that ends, seen by the names
LEMMA EndNames ==
  ASSUME StoreInv, Named, NEW c \in Callers, NEW a, End(c, a), staging' \subseteq staging,
         made'.calls = made.calls \/ made'.calls = made.calls + 1
  PROVE  Named'
<1>1. \A d \in Callers : call'[d] = call[d] \/ call'[d] = Idle
  BY DEF End, StoreInv, Types
<1> QED
  BY <1>1, NamesEnd

\* A step that only moves on, seen by the names
LEMMA StepNames ==
  ASSUME StoreInv, NEW c \in Callers, NEW pc, Step(c, pc),
         \/ call[c].pc \in PersistPCs /\ pc \in PersistPCs
         \/ call[c].pc \in PublishPCs /\ pc \in PublishPCs
  PROVE  /\ \A d \in Callers \ {c} : call'[d] = call[d]
         /\ call'[c].entry = call[c].entry /\ call'[c].pc = pc /\ Busy(c)
<1>1. \A d \in Callers \ {c} : call'[d] = call[d]
  BY DEF Step, StoreInv, Types
<1>2. call'[c].entry = call[c].entry /\ call'[c].pc = pc
  BY StepTo
<1>3. Busy(c)
  BY Zenon DEF Busy, PersistPCs, PublishPCs
<1> QED
  BY <1>1, <1>2, <1>3

LEMMA NamesNext == StoreInv /\ Named /\ [Next]_vars => Named'
<1> SUFFICES ASSUME StoreInv, Named, [Next]_vars PROVE Named'
  OBVIOUS
<1>1. CASE UNCHANGED vars
  BY <1>1, NamesEnd, Zenon DEF vars
<1>2. ASSUME NEW c \in Callers, NEW v \in Versions, NEW ev \in Requests, BeginPersist(c, v, ev)
      PROVE  Named'
  <2>1. staging' = staging /\ made'.calls = made.calls + 1
    BY <1>2, CountedTypes, Zenon DEF BeginPersist, disk
  <2> DEFINE k == [pc |-> "stage", version |-> v, ev |-> ev, entry |-> made.calls + 1, next |-> 1]
  <2>2. End(c, Refused(v, "RESOURCE_LIMIT_EXCEEDED")) \/ call' = [call EXCEPT ![c] = k]
    BY <1>2 DEF BeginPersist
  <2>3. CASE End(c, Refused(v, "RESOURCE_LIMIT_EXCEEDED"))
    BY <2>1, <2>3, EndNames, Zenon
  <2>4. CASE call' = [call EXCEPT ![c] = k]
    <3>1. call'[c] = k /\ \A d \in Callers \ {c} : call'[d] = call[d]
      BY <2>4, Zenon DEF StoreInv, Types
    <3>2. k.entry = made.calls + 1
      BY Zenon
    <3> HIDE DEF k
    <3> QED
      BY <2>1, <3>1, <3>2, NamesBegin, Zenon
  <2> QED
    BY <2>2, <2>3, <2>4, Zenon
<1>3. ASSUME NEW c \in Callers, MakeStage(c)
      PROVE  Named'
  <2> DEFINE e == [id |-> call[c].entry, kind |-> "version", version |-> call[c].version, meta |-> FALSE]
  <2>1. /\ call[c].pc = "stage" /\ Step(c, "describe") /\ made' = made
        /\ staging' = staging \cup {e} /\ e.id = call[c].entry
    BY <1>3, Zenon DEF MakeStage
  <2>2. /\ \A d \in Callers \ {c} : call'[d] = call[d]
        /\ call'[c].entry = call[c].entry /\ call'[c].pc = "describe"
    BY <2>1, StepNames, Zenon DEF PersistPCs
  <2> HIDE DEF e
  <2> QED
    BY <2>1, <2>2, NamesStage, Zenon
<1>4. ASSUME NEW c \in Callers, DescribeStage(c)
      PROVE  Named'
  <2> DEFINE described(e) == IF e.id = call[c].entry THEN [e EXCEPT !.meta = TRUE] ELSE e
  <2>1. /\ call[c].pc = "describe" /\ Step(c, "objects") /\ made' = made
        /\ staging' = {described(e) : e \in staging}
    BY <1>4 DEF DescribeStage
  <2>2. /\ \A d \in Callers \ {c} : call'[d] = call[d] /\ Busy(c)
        /\ call'[c].entry = call[c].entry /\ call'[c].pc = "objects" /\ Busy(c)
    BY <2>1, StepNames DEF PersistPCs
  <2>3. \A e \in staging : described(e).id = e.id
    BY DEF StoreInv, Types, Entries
  <2> HIDE DEF described
  <2>4. \A e \in staging' : \E f \in staging : e = described(f) /\ e.id = f.id
    BY <2>1, <2>3
  <2>5. \A e, f \in staging' : e.id = f.id => e = f
    BY <2>4, Zenon DEF Named, Distinguished
  <2> QED
    BY <2>1, <2>2, <2>4, <2>5, NamesGoOn
<1>5. ASSUME NEW c \in Callers, WriteObject(c)
      PROVE  Named'
  <2> DEFINE v == call[c].version
             n == call[c].next
             pc == IF n = Len(Objects[v]) THEN "commit" ELSE "objects"
             k == [pc |-> pc, version |-> v, ev |-> call[c].ev, entry |-> call[c].entry, next |-> n + 1]
  <2>1. call[c].pc = "objects" /\ staging' = staging /\ made' = made
    BY <1>5, Zenon DEF WriteObject
  <2>2. End(c, Refused(v, "OBJECT_COLLISION")) \/ call' = [call EXCEPT ![c] = k]
    BY <1>5 DEF WriteObject
  <2>3. CASE End(c, Refused(v, "OBJECT_COLLISION"))
    BY <2>1, <2>3, EndNames, Zenon
  <2>4. CASE call' = [call EXCEPT ![c] = k]
    <3>1. call'[c] = k /\ \A d \in Callers \ {c} : call'[d] = call[d]
      BY <2>4, Zenon DEF StoreInv, Types
    <3>2. k.entry = call[c].entry /\ k.pc \notin {"stage", "mark"}
      OBVIOUS
    <3>3. Busy(c)
      BY <2>1 DEF Busy
    <3>4. \A e, f \in staging : e.id = f.id => e = f
      BY DEF Named, Distinguished
    <3> HIDE DEF k
    <3> QED
      BY <2>1, <3>1, <3>2, <3>3, <3>4, NamesGoOn, Zenon
  <2> QED
    BY <2>2, <2>3, <2>4, Zenon
<1>6. ASSUME NEW c \in Callers, CommitRecord(c)
      PROVE  Named'
  <2>1. call[c].pc = "commit" /\ staging' = staging /\ made' = made
    BY <1>6, Zenon DEF CommitRecord
  <2>2. End(c, Refused(call[c].version, "OBJECT_COLLISION")) \/ Step(c, "verify")
    BY <1>6 DEF CommitRecord
  <2>3. CASE End(c, Refused(call[c].version, "OBJECT_COLLISION"))
    BY <2>1, <2>3, EndNames, Zenon
  <2>4. CASE Step(c, "verify")
    <3>1. /\ \A d \in Callers \ {c} : call'[d] = call[d]
          /\ call'[c].entry = call[c].entry /\ call'[c].pc = "verify" /\ Busy(c)
      BY <2>1, <2>4, StepNames DEF PersistPCs
    <3>2. \A e, f \in staging : e.id = f.id => e = f
      BY DEF Named, Distinguished
    <3> QED
      BY <2>1, <3>1, <3>2, NamesGoOn, Zenon
  <2> QED
    BY <2>2, <2>3, <2>4, Zenon
<1>7. ASSUME NEW c \in Callers, FinishPersist(c)
      PROVE  Named'
  <2>1. (\E a : End(c, a)) /\ staging' \subseteq staging /\ made' = made
    BY <1>7 DEF FinishPersist
  <2> QED
    BY <2>1, EndNames, Zenon
<1>8. ASSUME NEW c \in Callers, StageMarker(c)
      PROVE  Named'
  <2> DEFINE e == [id |-> call[c].entry, kind |-> "marker", version |-> call[c].version, meta |-> TRUE]
  <2>1. /\ call[c].pc = "mark" /\ Step(c, "replace") /\ made' = made
        /\ staging' = staging \cup {e} /\ e.id = call[c].entry
    BY <1>8, Zenon DEF StageMarker
  <2>2. /\ \A d \in Callers \ {c} : call'[d] = call[d]
        /\ call'[c].entry = call[c].entry /\ call'[c].pc = "replace"
    BY <2>1, StepNames, Zenon DEF PublishPCs
  <2> HIDE DEF e
  <2> QED
    BY <2>1, <2>2, NamesStage, Zenon
<1>9. ASSUME NEW c \in Callers, ReplaceMarker(c)
      PROVE  Named'
  <2>1. call[c].pc = "replace" /\ Step(c, "confirm") /\ made' = made /\ staging' \subseteq staging
    BY <1>9, Zenon DEF ReplaceMarker
  <2>2. /\ \A d \in Callers \ {c} : call'[d] = call[d]
        /\ call'[c].entry = call[c].entry /\ call'[c].pc = "confirm" /\ Busy(c)
    BY <2>1, StepNames DEF PublishPCs
  <2>3. \A e, f \in staging' : e.id = f.id => e = f
    BY <2>1 DEF Named, Distinguished
  <2> QED
    BY <2>1, <2>2, <2>3, NamesGoOn, Zenon
<1>10. ASSUME NEW c \in Callers, ConfirmMarker(c)
       PROVE  Named'
  <2>1. (\E a : End(c, a)) /\ staging' = staging /\ made' = made
    BY <1>10 DEF ConfirmMarker, disk
  <2> QED
    BY <2>1, EndNames, Zenon
<1>11. ASSUME NEW c \in Callers, Crash(c)
       PROVE  Named'
  <2>1. End(c, NoAnswer) /\ staging' = staging /\ made'.calls = made.calls
    BY <1>11, CountedTypes, Zenon DEF Crash, disk
  <2> QED
    BY <2>1, EndNames
<1>12. ASSUME NEW c \in Callers, NEW v, NEW pred, NEW at, NEW ev, BeginPublish(c, v, pred, at, ev)
       PROVE  Named'
  <2> DEFINE id == ReceiptId(ReceiptBody(v, pred, at))
             k == [pc |-> "mark", version |-> v, receipt |-> id, entry |-> made.calls + 1]
  <2>1. staging' = staging /\ made'.calls = made.calls + 1
    BY <1>12, CountedTypes DEF BeginPublish, disk
  <2>2. (\E a : End(c, a)) \/ call' = [call EXCEPT ![c] = k]
    BY <1>12 DEF BeginPublish
  <2>3. CASE \E a : End(c, a)
    BY <2>1, <2>3, EndNames, Zenon
  <2>4. CASE call' = [call EXCEPT ![c] = k]
    <3>1. call'[c] = k /\ \A d \in Callers \ {c} : call'[d] = call[d]
      BY <2>4 DEF StoreInv, Types
    <3>2. k.entry = made.calls + 1
      OBVIOUS
    <3> HIDE DEF k
    <3> QED
      BY <2>1, <3>1, <3>2, NamesBegin, Zenon
  <2> QED
    BY <2>2, <2>3, <2>4, Zenon
<1>13. ASSUME NEW c \in Callers, NEW v, Retrieve(c, v)
       PROVE  Named'
  BY <1>13, CountedTypes, NamesEnd, Zenon DEF Retrieve, disk
<1>14. ASSUME NEW o, Damage(o)
       PROVE  Named'
  BY <1>14, CountedTypes, NamesEnd DEF Damage
<1> QED
  BY <1>1, <1>2, <1>3, <1>4, <1>5, <1>6, <1>7, <1>8, <1>9, <1>10, <1>11, <1>12, <1>13, <1>14, Zenon DEF Next

\* The store is well formed for any number of processes and calls: records are of stored
\* versions, staging entries have distinct names, and the marker's receipt was made.
THEOREM StoreTypes == Spec => []TypeOK
<1>1. Init => Named
  <2> SUFFICES ASSUME Init PROVE Named
    OBVIOUS
  <2>1. staging = {} /\ \A c \in Callers : call[c].pc = "idle"
    BY DEF Init, Idle
  <2> QED
    BY <2>1, Zenon DEF Named, Distinguished, Given, Owned, Unused, Busy
<1>2. StoreInv /\ Named => TypeOK
  BY DEF StoreInv, Types, Named, Distinguished, MarkerStands, TypeOK
<1>3. Spec => []Named
  BY <1>1, NamesNext, StoreInvariance, PTL DEF Spec
<1> QED
  BY <1>2, <1>3, StoreInvariance, PTL

=============================================================================
