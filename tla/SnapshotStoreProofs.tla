------------------------- MODULE SnapshotStoreProofs -------------------------
(***************************************************************************)
(* What the console's snapshot store and its read gateway keep for any       *)
(* number of writers, readers, publications, faults, deaths and damages.     *)
(***************************************************************************)
EXTENDS SnapshotStore, TLAPS

Early == {"FRESH", "CANDIDATE", "VERSIONED", "POINTER"}
Late == {"REPLACED", "VERIFIED"}
PublishedTimes == {p.published : p \in Publications}
Targets == Snapshots \X PublishedTimes
Readings == [target : Targets, who : Principals, evaluated : Times]

TypeOK ==
  /\ versions \in [Snapshots -> {"NONE", "GOOD", "BAD"}]
  /\ pointer \in SUBSET [good : BOOLEAN, target : Targets]
  /\ committed \in SUBSET Targets
  /\ pc \in [Writers -> {"IDLE"} \cup Early \cup Late]
  /\ job \in [Writers -> [snapshot : Snapshots \cup {<<>>},
                          published : PublishedTimes \cup {0}]]
  /\ outcome = [w \in Writers |-> outcome[w]]
  /\ moved \in [Writers -> BOOLEAN]
  /\ reading \in [Readers -> Seq(Readings)]
  /\ response = [r \in Readers |-> response[r]]
  /\ corruptions \in Nat

\* A version that the pointer ever named is there, whole or damaged, and none is
\* damaged while the storage damages nothing.
Present(s) == s \in Snapshots /\ versions[s] # "NONE"
VersionsKept ==
  /\ \A t \in committed : Present(t[1])
  /\ \A x \in pointer : x.target \in committed
  /\ corruptions = 0 => \A s \in Snapshots : versions[s] # "BAD"

Aim(w) == <<job[w].snapshot, job[w].published>>

\* What a writer knows at each step of publish(): it alone holds the lock, its
\* version is there before it moves the pointer, and from then on its publication is
\* one that the pointer has held.
Stands(w) ==
  /\ pc[w] # "IDLE" => /\ lock = {w}
                       /\ Aim(w) \in Targets
  /\ pc[w] \in {"VERSIONED", "POINTER"} => Present(job[w].snapshot)
  /\ pc[w] \in Early => ~moved[w]
  /\ pc[w] \in Late => moved[w] /\ Aim(w) \in committed

\* A reading that is under way is of a committed publication, by a principal that
\* may read.
MayRead(who, evaluated) == who.permitted /\ PrincipalCurrent(who, evaluated)
ReadsCommitted(r) ==
  reading[r] # <<>> => /\ reading[r][1].target \in committed
                       /\ MayRead(reading[r][1].who, reading[r][1].evaluated)

Shows(a) == a.shown \subseteq committed /\ (a.shown # {} => MayRead(a.who, a.evaluated))
ShowsCommitted(r) == \A a \in Range(response[r]) : Shows(a)

\* The inductive invariant.
ConsoleInv ==
  /\ TypeOK
  /\ VersionsKept
  /\ \A w \in Writers : Stands(w)
  /\ \A r \in Readers : ReadsCommitted(r) /\ ShowsCommitted(r)
  /\ OutcomeTruthful
  /\ EvidenceTruthful

-----------------------------------------------------------------------------
\* While one writer is inside publish(), no other is.
LEMMA Alone ==
  ASSUME \A w \in Writers : Stands(w), NEW w \in Writers, pc[w] # "IDLE"
  PROVE  lock = {w} /\ \A v \in Writers \ {w} : pc[v] = "IDLE"
  BY DEF Stands

\* A writer outside publish() stands whatever happens to the store.
LEMMA StandsAside ==
  ASSUME NEW w \in Writers, pc'[w] = "IDLE"
  PROVE  Stands(w)'
  BY DEF Stands, Early, Late

\* Readers keep what they have while the set of committed publications only grows.
LEMMA ReadersKept ==
  ASSUME \A r \in Readers : ReadsCommitted(r) /\ ShowsCommitted(r),
         UNCHANGED readers, committed \subseteq committed'
  PROVE  \A r \in Readers : ReadsCommitted(r)' /\ ShowsCommitted(r)'
<1>1. reading' = reading /\ response' = response
  BY DEF readers
<1> SUFFICES ASSUME NEW r \in Readers PROVE ReadsCommitted(r)' /\ ShowsCommitted(r)'
  OBVIOUS
<1>2. ReadsCommitted(r)'
  BY <1>1 DEF ReadsCommitted, MayRead, PrincipalCurrent
<1>3. ShowsCommitted(r)'
  BY <1>1, Zenon DEF ShowsCommitted, Shows, MayRead, PrincipalCurrent
<1> QED
  BY <1>2, <1>3

\* Initially nothing is published.
LEMMA InvInit == Init => ConsoleInv
<1> SUFFICES ASSUME Init PROVE ConsoleInv
  OBVIOUS
<1>1. TypeOK
  <2>1. NoJob \in [snapshot : Snapshots \cup {<<>>}, published : PublishedTimes \cup {0}]
    BY DEF NoJob
  <2>2. <<>> \in Seq(Readings)
    OBVIOUS
  <2>3. outcome = [w \in Writers |-> outcome[w]] /\ response = [r \in Readers |-> response[r]]
    BY DEF Init
  <2> QED
    BY <2>1, <2>2, <2>3 DEF Init, TypeOK
<1>2. VersionsKept
  BY DEF Init, VersionsKept
<1>3. \A w \in Writers : Stands(w)
  BY DEF Init, Stands, Early, Late
<1>4. \A r \in Readers : ReadsCommitted(r) /\ ShowsCommitted(r)
  <2>1. Range(<<>>) = {}
    BY DEF Range
  <2> QED
    BY <2>1 DEF Init, ReadsCommitted, ShowsCommitted
<1>5. OutcomeTruthful /\ EvidenceTruthful
  BY Zenon DEF Init, OutcomeTruthful, EvidenceTruthful, NoOutcome
<1> QED
  BY <1>1, <1>2, <1>3, <1>4, <1>5 DEF ConsoleInv

-----------------------------------------------------------------------------
(* Writers.                                                                *)

\* publish() up to its first write
LEMMA PublishKeeps ==
  ASSUME ConsoleInv, NEW w \in Writers, NEW s \in Snapshots, NEW evaluated,
         NEW published \in PublishedTimes, Publish(w, s, evaluated, published)
  PROVE  ConsoleInv'
<1> USE DEF ConsoleInv
<1>1. /\ pc[w] = "IDLE" /\ moved' = [moved EXCEPT ![w] = FALSE]
      /\ UNCHANGED <<versions, pointer, evidence, readers, committed, corruptions>>
  BY DEF Publish, files, bounds
<1>2. VersionsKept' /\ EvidenceTruthful'
  BY <1>1 DEF VersionsKept, Present, EvidenceTruthful
<1>3. \A r \in Readers : ReadsCommitted(r)' /\ ShowsCommitted(r)'
  BY <1>1, ReadersKept
<1>4. CASE \E state :
             /\ outcome' = [outcome EXCEPT ![w] = [state |-> state, committed |-> FALSE,
                                                   moved |-> FALSE]]
             /\ UNCHANGED <<pc, job, lock>>
  <2>1. PICK state :
             /\ outcome' = [outcome EXCEPT ![w] = [state |-> state, committed |-> FALSE,
                                                   moved |-> FALSE]]
             /\ UNCHANGED <<pc, job, lock>>
    BY <1>4, Zenon
  <2>2. TypeOK'
    BY <1>1, <2>1, Zenon DEF TypeOK, readers
  <2>3. OutcomeTruthful'
    BY <2>1, Zenon DEF OutcomeTruthful, TypeOK
  <2>4. ASSUME NEW v \in Writers PROVE Stands(v)'
    <3>1. CASE pc[v] = "IDLE"
      BY <2>1, <3>1, StandsAside
    <3>2. CASE pc[v] # "IDLE"
      <4>1. v # w /\ moved'[v] = moved[v]
        BY <1>1, <3>2, Zenon DEF TypeOK
      <4> QED
        BY <1>1, <2>1, <4>1 DEF Stands, Aim, Present
    <3> QED
      BY <3>1, <3>2
  <2> QED
    BY <1>2, <1>3, <2>2, <2>3, <2>4
<1>5. CASE /\ lock = {} /\ lock' = {w} /\ outcome' = outcome
           /\ pc' = [pc EXCEPT ![w] = IF versions[s] # "NONE" THEN "VERSIONED" ELSE "FRESH"]
           /\ job' = [job EXCEPT ![w] = [snapshot |-> s, published |-> published]]
  <2>1. TypeOK'
    BY <1>1, <1>5 DEF TypeOK, readers, Early
  <2>2. OutcomeTruthful'
    BY <1>5 DEF OutcomeTruthful
  <2>3. ASSUME NEW v \in Writers PROVE Stands(v)'
    <3>1. CASE v # w
      <4>1. pc'[v] = "IDLE"
        BY <1>5, <3>1 DEF Stands, TypeOK
      <4> QED
        BY <4>1, StandsAside
    <3>2. CASE v = w
      <4>1. job'[w].snapshot = s /\ job'[w].published = published
        BY <1>5 DEF TypeOK
      <4>2. Aim(w)' \in Targets
        BY <4>1 DEF Aim, Targets
      <4>3. /\ pc'[w] \in {"VERSIONED", "FRESH"} /\ moved'[w] = FALSE
            /\ pc'[w] = "VERSIONED" => versions[s] # "NONE"
        BY <1>1, <1>5 DEF TypeOK
      <4> QED
        BY <1>1, <1>5, <3>2, <4>1, <4>2, <4>3 DEF Stands, Present, Early, Late
    <3> QED
      BY <3>1, <3>2
  <2> QED
    BY <1>2, <1>3, <2>1, <2>2, <2>3
<1> QED
  BY <1>4, <1>5 DEF Publish

\* The steps between the first write and the move of the pointer, and the
\* verification after it: the writer goes on, and at most its own version appears.
LEMMA GoesOn ==
  ASSUME ConsoleInv, NEW w \in Writers, NEW at, pc[w] # "IDLE",
         pc' = [pc EXCEPT ![w] = at],
         \/ at = "CANDIDATE" /\ pc[w] = "FRESH"
         \/ at = "VERSIONED" /\ pc[w] = "CANDIDATE" /\ versions'[job[w].snapshot] = "GOOD"
         \/ at = "POINTER" /\ pc[w] = "VERSIONED"
         \/ at = "VERIFIED" /\ pc[w] = "REPLACED",
         UNCHANGED <<pointer, evidence, lock, job, outcome, readers, moved, committed,
                     corruptions>>,
         versions' = versions \/ versions' = [versions EXCEPT ![job[w].snapshot] = "GOOD"]
  PROVE  ConsoleInv'
<1> USE DEF ConsoleInv
<1>1. at \in {"CANDIDATE", "VERSIONED", "POINTER", "VERIFIED"}
  OBVIOUS
<1>2. TypeOK'
  <2>1. versions' \in [Snapshots -> {"NONE", "GOOD", "BAD"}]
    BY DEF TypeOK
  <2>2. pc' \in [Writers -> {"IDLE"} \cup Early \cup Late]
    BY <1>1 DEF TypeOK, Early, Late
  <2> QED
    BY <2>1, <2>2 DEF TypeOK, readers
<1>3. \A s \in Snapshots : /\ versions[s] # "NONE" => versions'[s] # "NONE"
                           /\ versions[s] # "BAD" => versions'[s] # "BAD"
  BY DEF TypeOK
<1>4. VersionsKept'
  BY <1>3 DEF VersionsKept, Present
<1>5. \A r \in Readers : ReadsCommitted(r)' /\ ShowsCommitted(r)'
  BY ReadersKept
<1>6. OutcomeTruthful' /\ EvidenceTruthful'
  BY DEF OutcomeTruthful, EvidenceTruthful
<1>7. ASSUME NEW v \in Writers PROVE Stands(v)'
  <2>1. CASE v # w
    <3>1. pc'[v] = "IDLE"
      BY <2>1, Alone DEF TypeOK
    <3> QED
      BY <3>1, StandsAside
  <2>2. CASE v = w
    <3>1. pc'[w] = at /\ Stands(w) /\ Aim(w)' = Aim(w)
      BY DEF TypeOK, Aim
    <3>2. lock' = {w} /\ Aim(w) \in Targets
      BY Alone DEF Stands
    <3>3. at \in {"VERSIONED", "POINTER"} => Present(job[w].snapshot)'
      <4>1. job[w].snapshot \in Snapshots
        BY <3>2 DEF Aim, Targets
      <4> QED
        BY <1>3, <3>1, <4>1 DEF Present, Stands
    <3>4. at \in Early => ~moved'[w]
      BY <3>1 DEF Stands, Early, Late
    <3>5. at \in Late => moved'[w] /\ Aim(w)' \in committed'
      BY <3>1 DEF Stands, Early, Late
    <3> QED
      BY <2>2, <3>1, <3>2, <3>3, <3>4, <3>5 DEF Stands
  <2> QED
    BY <2>1, <2>2
<1> QED
  BY <1>2, <1>4, <1>5, <1>6, <1>7

\* Leaving publish(): what it reports of the pointer is so, and evidence it may have
\* written is of its own publication.
LEMMA Leaves ==
  ASSUME ConsoleInv, NEW w \in Writers, pc[w] # "IDLE", Leave(w),
         NEW state, NEW flag, Report(w, state, flag), flag = moved[w],
         UNCHANGED <<versions, pointer, readers, moved, committed, corruptions>>,
         \/ evidence' = evidence
         \/ pc[w] = "VERIFIED" /\ evidence' = evidence \cup {Aim(w)}
  PROVE  ConsoleInv'
<1> USE DEF ConsoleInv
<1>1. TypeOK'
  <2>1. NoJob \in [snapshot : Snapshots \cup {<<>>}, published : PublishedTimes \cup {0}]
    BY DEF NoJob
  <2>2. pc' \in [Writers -> {"IDLE"} \cup Early \cup Late]
    BY DEF TypeOK, Leave
  <2>3. job' \in [Writers -> [snapshot : Snapshots \cup {<<>>}, published : PublishedTimes \cup {0}]]
    BY <2>1 DEF TypeOK, Leave
  <2>4. outcome' = [v \in Writers |-> outcome'[v]]
    BY Zenon DEF TypeOK, Report
  <2> QED
    BY <2>2, <2>3, <2>4 DEF TypeOK, readers
<1>2. VersionsKept'
  BY DEF VersionsKept, Present
<1>3. \A r \in Readers : ReadsCommitted(r)' /\ ShowsCommitted(r)'
  BY ReadersKept
<1>4. OutcomeTruthful'
  BY DEF OutcomeTruthful, Report, TypeOK
<1>5. EvidenceTruthful'
  BY DEF EvidenceTruthful, Stands, Late
<1>6. ASSUME NEW v \in Writers PROVE Stands(v)'
  <2>1. pc'[v] = "IDLE"
    BY Alone DEF Leave, TypeOK
  <2> QED
    BY <2>1, StandsAside
<1> QED
  BY <1>1, <1>2, <1>3, <1>4, <1>5, <1>6

\* The pointer is replaced
LEMMA ReplacePointerKeeps ==
  ASSUME ConsoleInv, NEW w \in Writers, ReplacePointer(w)
  PROVE  ConsoleInv'
<1> USE DEF ConsoleInv
<1>1. /\ pc[w] = "POINTER" /\ pc' = [pc EXCEPT ![w] = "REPLACED"]
      /\ pointer' = {[good |-> TRUE, target |-> Aim(w)]}
      /\ moved' = [moved EXCEPT ![w] = TRUE] /\ committed' = committed \cup {Aim(w)}
      /\ UNCHANGED <<versions, evidence, lock, job, outcome, readers, corruptions>>
  BY DEF ReplacePointer, Aim, bounds
<1>2. Aim(w) \in Targets /\ Present(job[w].snapshot) /\ lock = {w} /\ Aim(w)[1] = job[w].snapshot
  BY <1>1 DEF Stands, Aim
<1>3. TypeOK'
  BY <1>1, <1>2 DEF TypeOK, readers, Late
<1>4. VersionsKept'
  <2>1. \A t \in committed' : Present(t[1])'
    BY <1>1, <1>2 DEF VersionsKept, Present
  <2> QED
    BY <1>1, <2>1 DEF VersionsKept
<1>5. \A r \in Readers : ReadsCommitted(r)' /\ ShowsCommitted(r)'
  BY <1>1, ReadersKept
<1>6. OutcomeTruthful' /\ EvidenceTruthful'
  BY <1>1 DEF OutcomeTruthful, EvidenceTruthful
<1>7. ASSUME NEW v \in Writers PROVE Stands(v)'
  <2>1. CASE v # w
    <3>1. pc'[v] = "IDLE"
      BY <1>1, <2>1, Alone DEF TypeOK
    <3> QED
      BY <3>1, StandsAside
  <2>2. CASE v = w
    BY <1>1, <1>2, <2>2 DEF Stands, TypeOK, Early, Late, Aim
  <2> QED
    BY <2>1, <2>2
<1> QED
  BY <1>3, <1>4, <1>5, <1>6, <1>7

\* Every step of a writer that is inside publish()
LEMMA WriterKeeps ==
  ASSUME ConsoleInv, NEW w \in Writers,
         \/ WriteCandidate(w) \/ LinkVersion(w) \/ WritePointer(w) \/ Verify(w)
         \/ WriteEvidence(w) \/ Fault(w) \/ EvidenceFault(w)
  PROVE  ConsoleInv'
<1>1. Stands(w)
  BY DEF ConsoleInv
<1>2. CASE WriteCandidate(w)
  BY <1>2, GoesOn, Zenon DEF WriteCandidate, files, bounds
<1>3. CASE LinkVersion(w)
  <2>1. job[w].snapshot \in Snapshots
    BY <1>1, <1>3 DEF Stands, LinkVersion, Aim, Targets
  <2>2. versions'[job[w].snapshot] = "GOOD"
    BY <1>3, <2>1 DEF LinkVersion, ConsoleInv, TypeOK
  <2> QED
    BY <1>3, <2>2, GoesOn, Zenon DEF LinkVersion, bounds
<1>4. CASE WritePointer(w)
  <2>1. CASE versions[job[w].snapshot] = "GOOD"
    BY <1>4, <2>1, GoesOn DEF WritePointer, files, bounds
  <2>2. CASE versions[job[w].snapshot] # "GOOD"
    <3>1. moved[w] = FALSE
      BY <1>1, <1>4, Zenon DEF Stands, WritePointer, Early, ConsoleInv, TypeOK
    <3> QED
      BY <1>4, <2>2, <3>1, Leaves, Zenon DEF WritePointer, files, bounds
  <2> QED
    BY <2>1, <2>2
<1>5. CASE Verify(w)
  <2> DEFINE Whole == /\ pointer = {[good |-> TRUE,
                                     target |-> <<job[w].snapshot, job[w].published>>]}
                      /\ versions[job[w].snapshot] = "GOOD"
  <2>1. CASE Whole
    BY <1>5, <2>1, GoesOn DEF Verify, files, bounds
  <2>2. CASE ~Whole
    <3>1. moved[w] = TRUE
      BY <1>1, <1>5 DEF Stands, Verify, Late, ConsoleInv, TypeOK
    <3> QED
      BY <1>5, <2>2, <3>1, Leaves, Zenon DEF Verify, files, bounds
  <2> QED
    BY <2>1, <2>2
<1>6. CASE WriteEvidence(w)
  <2>1. pc[w] = "VERIFIED" /\ moved[w] = TRUE
    BY <1>1, <1>6 DEF Stands, WriteEvidence, Late, ConsoleInv, TypeOK
  <2>2. evidence' = evidence \cup {Aim(w)}
    BY <1>6, Zenon DEF WriteEvidence, Aim
  <2> QED
    BY <1>6, <2>1, <2>2, Leaves, Zenon DEF WriteEvidence, bounds
<1>7. CASE Fault(w)
  <2>1. (pc[w] = "REPLACED") = moved[w]
    BY <1>1, <1>7 DEF Stands, Fault, Early, Late, ConsoleInv, TypeOK
  <2>2. pc[w] # "IDLE"
    BY <1>7 DEF Fault
  <2> QED
    BY <1>7, <2>1, <2>2, Leaves DEF Fault, files
<1>8. CASE EvidenceFault(w)
  <2>1. pc[w] = "VERIFIED" /\ moved[w] = TRUE
    BY <1>1, <1>8, Zenon DEF Stands, EvidenceFault, Late, ConsoleInv, TypeOK
  <2>2. evidence' = evidence \/ evidence' = evidence \cup {Aim(w)}
    BY <1>8 DEF EvidenceFault, Aim
  <2> QED
    BY <1>8, <2>1, <2>2, Leaves, Zenon DEF EvidenceFault
<1> QED
  BY <1>2, <1>3, <1>4, <1>5, <1>6, <1>7, <1>8

\* The writing process dies
LEMMA CrashKeeps ==
  ASSUME ConsoleInv, NEW w \in Writers, Crash(w)
  PROVE  ConsoleInv'
<1> USE DEF ConsoleInv
<1>1. /\ pc[w] # "IDLE" /\ pc' = [pc EXCEPT ![w] = "IDLE"]
      /\ job' = [job EXCEPT ![w] = NoJob] /\ outcome' = [outcome EXCEPT ![w] = NoOutcome]
      /\ moved' = [moved EXCEPT ![w] = FALSE]
      /\ UNCHANGED <<versions, pointer, evidence, readers, committed, corruptions>>
  BY DEF Crash, files
<1>2. TypeOK'
  <2>1. NoJob \in [snapshot : Snapshots \cup {<<>>}, published : PublishedTimes \cup {0}]
    BY DEF NoJob
  <2> QED
    BY <1>1, <2>1, Zenon DEF TypeOK, readers
<1>3. VersionsKept' /\ EvidenceTruthful'
  BY <1>1 DEF VersionsKept, Present, EvidenceTruthful
<1>4. \A r \in Readers : ReadsCommitted(r)' /\ ShowsCommitted(r)'
  BY <1>1, ReadersKept
<1>5. OutcomeTruthful'
  BY <1>1, Zenon DEF OutcomeTruthful, NoOutcome, TypeOK
<1>6. ASSUME NEW v \in Writers PROVE Stands(v)'
  <2>1. pc'[v] = "IDLE"
    BY <1>1, Alone DEF TypeOK
  <2> QED
    BY <2>1, StandsAside
<1> QED
  BY <1>2, <1>3, <1>4, <1>5, <1>6

\* The storage damages a version or the pointer
LEMMA CorruptKeeps ==
  ASSUME ConsoleInv, Corrupt
  PROVE  ConsoleInv'
<1> USE DEF ConsoleInv
<1>1. UNCHANGED <<evidence, lock, pc, job, outcome, readers, moved, committed>>
  BY DEF Corrupt
<1>2. corruptions' \in Nat /\ corruptions' # 0
  <2>1. corruptions \in Nat /\ corruptions' = corruptions + 1
    BY DEF Corrupt, TypeOK
  <2> QED
    BY <2>1
<1>3. /\ versions' \in [Snapshots -> {"NONE", "GOOD", "BAD"}]
      /\ \A s \in Snapshots : versions[s] # "NONE" => versions'[s] # "NONE"
  BY Zenon DEF Corrupt, TypeOK
<1>4. /\ pointer' \in SUBSET [good : BOOLEAN, target : Targets]
      /\ \A x \in pointer' : x.target \in committed
  <2>1. CASE pointer' = pointer
    BY <2>1 DEF TypeOK, VersionsKept
  <2>2. CASE pointer' = {[x EXCEPT !.good = FALSE] : x \in pointer}
    <3>1. ASSUME NEW y \in pointer'
          PROVE  y \in [good : BOOLEAN, target : Targets] /\ y.target \in committed
      <4>1. PICK x \in pointer : y = [x EXCEPT !.good = FALSE]
        BY <2>2
      <4>2. x \in [good : BOOLEAN, target : Targets] /\ x.target \in committed
        BY DEF TypeOK, VersionsKept
      <4> QED
        BY <4>1, <4>2, Zenon
    <3> QED
      BY <3>1
  <2> QED
    BY <2>1, <2>2 DEF Corrupt
<1>5. TypeOK'
  BY <1>1, <1>2, <1>3, <1>4 DEF TypeOK, readers
<1>6. VersionsKept'
  BY <1>1, <1>2, <1>3, <1>4 DEF VersionsKept, Present
<1>7. \A r \in Readers : ReadsCommitted(r)' /\ ShowsCommitted(r)'
  BY <1>1, ReadersKept
<1>8. OutcomeTruthful' /\ EvidenceTruthful'
  BY <1>1 DEF OutcomeTruthful, EvidenceTruthful
<1>9. ASSUME NEW v \in Writers PROVE Stands(v)'
  BY <1>1, <1>3 DEF Stands, Aim, Present
<1> QED
  BY <1>5, <1>6, <1>7, <1>8, <1>9

-----------------------------------------------------------------------------
(* Readers.                                                                *)

\* The step of a reader leaves the store alone: what it takes under way is committed
\* and what it is shown is committed and for its eyes.
LEMMA ReaderSteps ==
  ASSUME ConsoleInv, NEW r \in Readers,
         UNCHANGED <<files, candidates, lock, pc, job, outcome, moved, committed, bounds>>,
         NEW now, reading' = [reading EXCEPT ![r] = now],
         \/ now = <<>>
         \/ \E x \in Readings : /\ now = <<x>>
                                /\ x.target \in committed /\ MayRead(x.who, x.evaluated),
         NEW told, response' = [response EXCEPT ![r] = told],
         told = <<>> \/ \E a : told = <<a>> /\ Shows(a)
  PROVE  ConsoleInv'
<1> USE DEF ConsoleInv
<1>1. UNCHANGED <<versions, pointer, evidence, lock, pc, job, outcome, moved, committed, corruptions>>
  BY DEF files, bounds
<1>2. TypeOK'
  <2>1. now \in Seq(Readings)
    <3>1. ASSUME NEW x \in Readings PROVE <<x>> \in Seq(Readings)
      OBVIOUS
    <3>2. <<>> \in Seq(Readings)
      OBVIOUS
    <3> QED
      BY <3>1, <3>2, Zenon
  <2>2. reading' \in [Readers -> Seq(Readings)]
    BY <2>1 DEF TypeOK
  <2>3. response' = [q \in Readers |-> response'[q]]
    BY Zenon DEF TypeOK
  <2> QED
    BY <1>1, <2>2, <2>3 DEF TypeOK
<1>3. VersionsKept' /\ OutcomeTruthful' /\ EvidenceTruthful'
  BY <1>1 DEF VersionsKept, Present, OutcomeTruthful, EvidenceTruthful
<1>4. ASSUME NEW w \in Writers PROVE Stands(w)'
  BY <1>1 DEF Stands, Aim, Present
<1>5. ASSUME NEW q \in Readers PROVE ReadsCommitted(q)' /\ ShowsCommitted(q)'
  <2>1. CASE q # r
    <3>1. reading'[q] = reading[q] /\ response'[q] = response[q]
      BY <2>1, Zenon DEF TypeOK
    <3>2. ReadsCommitted(q)'
      BY <1>1, <3>1, Zenon DEF ReadsCommitted, MayRead, PrincipalCurrent
    <3>3. ShowsCommitted(q)'
      BY <1>1, <3>1, Zenon DEF ShowsCommitted, Shows, MayRead, PrincipalCurrent
    <3> QED
      BY <3>2, <3>3
  <2>2. CASE q = r
    <3>1. reading'[r] = now /\ response'[r] = told
      BY DEF TypeOK
    <3>2. ReadsCommitted(r)'
      <4>1. CASE now = <<>>
        BY <3>1, <4>1, Zenon DEF ReadsCommitted
      <4>2. CASE now # <<>>
        <5>1. PICK x \in Readings : /\ now = <<x>>
                                    /\ x.target \in committed /\ MayRead(x.who, x.evaluated)
          BY <4>2
        <5>2. reading'[r][1] = x
          BY <3>1, <5>1
        <5> QED
          BY <1>1, <5>1, <5>2, Zenon DEF ReadsCommitted, MayRead, PrincipalCurrent
      <4> QED
        BY <4>1, <4>2
    <3>3. ShowsCommitted(r)'
      <4>1. ASSUME NEW a \in Range(told) PROVE Shows(a)
        <5>1. told # <<>>
          BY DEF Range
        <5>2. PICK b : told = <<b>> /\ Shows(b)
          BY <5>1
        <5>3. a = b
          BY <5>2 DEF Range
        <5> QED
          BY <5>2, <5>3
      <4>2. \A a : Shows(a) => Shows(a)'
        BY <1>1, Zenon DEF Shows, MayRead, PrincipalCurrent
      <4> QED
        BY <3>1, <4>1, <4>2, Zenon DEF ShowsCommitted
    <3> QED
      BY <2>2, <3>2, <3>3
  <2> QED
    BY <2>1, <2>2
<1> QED
  BY <1>2, <1>3, <1>4, <1>5

\* read(), up to the pointer
LEMMA ReadPointerKeeps ==
  ASSUME ConsoleInv, NEW r \in Readers, NEW who \in Principals, NEW evaluated \in Times,
         ReadPointer(r, who, evaluated)
  PROVE  ConsoleInv'
<1>1. UNCHANGED <<files, candidates, lock, pc, job, outcome, moved, committed, bounds>>
      /\ reading[r] = <<>>
  BY DEF ReadPointer
<1>2. CASE /\ UNCHANGED reading
           /\ \E state, reason : Respond(r, who, evaluated, state, reason, {})
  <2>1. PICK state, reason : Respond(r, who, evaluated, state, reason, {})
    BY <1>2
  <2> DEFINE a == [state |-> state, reason |-> reason, shown |-> {}, who |-> who,
                   evaluated |-> evaluated]
  <2>2. response' = [response EXCEPT ![r] = <<a>>]
    BY <2>1 DEF Respond
  <2>3. Shows(a)
    BY DEF Shows
  <2>4. reading' = [reading EXCEPT ![r] = <<>>]
    BY <1>1, <1>2 DEF ConsoleInv, TypeOK
  <2> HIDE DEF a
  <2> QED
    BY <1>1, <2>2, <2>3, <2>4, ReaderSteps, Zenon
<1>3. CASE /\ PrincipalCurrent(who, evaluated) /\ who.permitted /\ pointer # {}
           /\ reading' = [reading EXCEPT ![r] =
                <<[target |-> Current, who |-> who, evaluated |-> evaluated]>>]
           /\ response' = [response EXCEPT ![r] = <<>>]
  <2> DEFINE x == [target |-> Current, who |-> who, evaluated |-> evaluated]
  <2>1. Current \in committed /\ Current \in Targets
    BY <1>3 DEF Current, ConsoleInv, VersionsKept, TypeOK
  <2>2. x \in Readings /\ x.target \in committed /\ MayRead(x.who, x.evaluated)
    BY <1>3, <2>1 DEF Readings, MayRead
  <2>3. reading' = [reading EXCEPT ![r] = <<x>>]
    BY <1>3
  <2> HIDE DEF x
  <2> QED
    BY <1>1, <1>3, <2>2, <2>3, ReaderSteps, Zenon
<1> QED
  BY <1>2, <1>3 DEF ReadPointer

\* The version that the pointer named is read and shown
LEMMA ReadVersionKeeps ==
  ASSUME ConsoleInv, NEW r \in Readers, ReadVersion(r)
  PROVE  ConsoleInv'
<1> DEFINE now == reading[r][1]
<1>1. /\ UNCHANGED <<files, candidates, lock, pc, job, outcome, moved, committed, bounds>>
      /\ reading[r] # <<>> /\ reading' = [reading EXCEPT ![r] = <<>>]
  BY DEF ReadVersion
<1>2. now.target \in committed /\ MayRead(now.who, now.evaluated)
  BY <1>1 DEF ConsoleInv, ReadsCommitted
<1>3. PICK reason, shown : /\ shown \in {{}, {now.target}}
                           /\ Respond(r, now.who, now.evaluated, "UNKNOWN", reason, shown)
  BY DEF ReadVersion
<1> DEFINE a == [state |-> "UNKNOWN", reason |-> reason, shown |-> shown, who |-> now.who,
                 evaluated |-> now.evaluated]
<1>4. response' = [response EXCEPT ![r] = <<a>>]
  BY <1>3, Zenon DEF Respond
<1>5. Shows(a)
  BY <1>2, <1>3 DEF Shows
<1> HIDE DEF a, now
<1> QED
  BY <1>1, <1>4, <1>5, ReaderSteps, Zenon

-----------------------------------------------------------------------------
\* ConsoleInv holds in every state that writers, readers, faults, deaths and damages of
\* the storage can reach.
THEOREM ConsoleInvariance == Spec => []ConsoleInv
<1>1. ConsoleInv /\ [Next]_storeVars => ConsoleInv'
  <2> SUFFICES ASSUME ConsoleInv, [Next]_storeVars PROVE ConsoleInv'
    OBVIOUS
  <2>1. ASSUME NEW w \in Writers, Write(w) PROVE ConsoleInv'
    <3>1. CASE \E p \in Publications :
                 Publish(w, Snapshot(p.result, p.observed, p.produced), p.evaluated, p.published)
      <4>1. PICK p \in Publications :
                 Publish(w, Snapshot(p.result, p.observed, p.produced), p.evaluated, p.published)
        BY <3>1
      <4>2. /\ Snapshot(p.result, p.observed, p.produced) \in Snapshots
            /\ p.published \in PublishedTimes
        BY DEF Snapshots, PublishedTimes
      <4> QED
        BY <4>1, <4>2, PublishKeeps
    <3> QED
      BY <2>1, <3>1, WriterKeeps, ReplacePointerKeeps, CrashKeeps DEF Write
  <2>2. CASE UNCHANGED storeVars
    <3>1. UNCHANGED <<versions, pointer, evidence, lock, pc, job, outcome, readers, moved,
                      committed, corruptions>>
      BY <2>2 DEF storeVars, readers
    <3>2. TypeOK' /\ VersionsKept' /\ OutcomeTruthful' /\ EvidenceTruthful'
      BY <3>1 DEF ConsoleInv, TypeOK, readers, VersionsKept, Present, OutcomeTruthful,
                  EvidenceTruthful
    <3>3. \A w \in Writers : Stands(w)'
      BY <3>1 DEF ConsoleInv, Stands, Aim, Present
    <3> QED
      BY <3>1, <3>2, <3>3, ReadersKept DEF ConsoleInv
  <2> QED
    BY <2>1, <2>2, ReadVersionKeeps, ReadPointerKeeps, CorruptKeeps DEF Next
<1> QED
  BY <1>1, InvInit, PTL DEF Spec

\* The console's store is truthful to both sides for any number of writers and readers: a
\* reader that takes no lock never meets a pointer without its version while the storage
\* damages nothing, nothing is shown to a principal that may not see it, a caller of
\* publish() is told whether the pointer moved, and evidence is of what moved it.
THEOREM ConsoleIsTruthful == Spec => []ConsoleTruthful
<1>1. ConsoleInv => ConsoleTruthful
  <2> SUFFICES ASSUME ConsoleInv PROVE ConsoleTruthful
    OBVIOUS
  <2>1. ReaderSeesWhole
    <3> SUFFICES ASSUME NEW r \in Readers, reading[r] # <<>>, corruptions = 0
                 PROVE  versions[reading[r][1].target[1]] = "GOOD"
      BY Zenon DEF ReaderSeesWhole
    <3>1. reading[r][1].target \in committed
      BY DEF ConsoleInv, ReadsCommitted
    <3>2. Present(reading[r][1].target[1])
      BY <3>1 DEF ConsoleInv, VersionsKept
    <3> QED
      BY <3>2 DEF ConsoleInv, VersionsKept, Present, TypeOK
  <2>2. ShownToPermitted
    BY Zenon DEF ConsoleInv, ShownToPermitted, ShowsCommitted, Shows, MayRead, PrincipalCurrent
  <2> QED
    BY <2>1, <2>2 DEF ConsoleInv, ConsoleTruthful
<1> QED
  BY <1>1, ConsoleInvariance, PTL

\* Everything the gateway shows is a publication that the current pointer has held: no
\* candidate and no version that was written but never committed is ever shown (publish,
\* read_current).
THEOREM ShownIsCommitted ==
  Spec => [](\A r \in Readers : \A a \in Range(response[r]) : a.shown \subseteq committed)
<1>1. ConsoleInv => \A r \in Readers : \A a \in Range(response[r]) : a.shown \subseteq committed
  BY Zenon DEF ConsoleInv, ShowsCommitted, Shows
<1> QED
  BY <1>1, ConsoleInvariance, PTL
=============================================================================
