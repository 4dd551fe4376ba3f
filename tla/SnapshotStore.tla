--------------------------- MODULE SnapshotStore ---------------------------
(* The operator console's reconciliation snapshots: their production from a *)
(* reconciliation result (reconciliation/operator_console_snapshot.py), the *)
(* atomic local store (operator_console_snapshot_persistence.py) and the    *)
(* authenticated read gateway (operator_console_read_gateway.py).           *)
(*                                                                          *)
(* Writers publish under a non-blocking lock: immutable version, then       *)
(* pointer, then evidence.  Readers take no lock and read the pointer and   *)
(* the version it names in two steps.  A file is whole ("GOOD"), corrupted  *)
(* ("BAD") or absent ("NONE"); an observation identity is a digest over     *)
(* everything the snapshot says, so the snapshot stands for it.             *)
EXTENDS Naturals, FiniteSets, Sequences, Functions

CONSTANTS Writers, Readers,
          Publications,   \* what producers publish: [result, observed, produced,
                          \* evaluated, published], the result being
                          \* [state, found, performance]
          Times,          \* the explicit times of the readers
          Principals,     \* [since, until, permitted]: what authentication asserts
          MaxCrashes, MaxFaults, MaxCorruptions

VARIABLES
  versions,     \* snapshot -> "NONE", "GOOD" or "BAD"
  pointer,      \* {} or {[good, target]}, target being <<snapshot, published>>
  evidence,     \* <<snapshot, published>> with an evidence file
  candidates,   \* <<writer, kind>> left in candidates/
  lock,         \* {} or {writer}
  pc, job,      \* writer -> step and publication in progress
  outcome,      \* writer -> what publish() returned or raised
  reading,      \* reader -> <<>> or the pointer it read
  response,     \* reader -> <<>> or the last gateway response
  moved,        \* ghost: writer -> its call has replaced the pointer
  committed,    \* ghost: every <<snapshot, published>> the pointer has held
  crashes, faults, corruptions

storeVars == <<versions, pointer, evidence, candidates, lock, pc, job, outcome,
               reading, response, moved, committed, crashes, faults, corruptions>>
files == <<versions, pointer, evidence>>
readers == <<reading, response>>
bounds == <<crashes, faults, corruptions>>

-----------------------------------------------------------------------------
\* Production.

\* dict.fromkeys: the codes in first-seen order, each once.
Distinct(s) ==
  LET firsts == SelectSeq([i \in DOMAIN s |-> i],
                          LAMBDA i : \A j \in 1..(i - 1) : s[j] # s[i])
  IN [k \in DOMAIN firsts |-> s[firsts[k]]]

\* _result_parts refuses a result that contradicts itself.
ResultAccepted(r) ==
  IF r.state = "RECONCILED" THEN r.found = <<>> /\ r.performance
  ELSE ~r.performance /\ r.found # <<>>

Snapshot_FirstCode(r, observed, produced) ==
  [state |-> r.state, codes |-> SelectSeq(Distinct(r.found), LAMBDA c : c = r.found[1]),
   performance |-> r.performance, observed |-> observed, produced |-> produced]

Snapshot(r, observed, produced) ==
  [state |-> r.state, codes |-> Distinct(r.found), performance |-> r.performance,
   observed |-> observed, produced |-> produced]

ValidateSnapshot(s, evaluated) ==
  /\ s.observed <= s.produced
  /\ s.produced <= evaluated
  /\ Cardinality(Range(s.codes)) = Len(s.codes)
  /\ IF s.state = "RECONCILED" THEN s.codes = <<>> /\ s.performance
     ELSE ~s.performance /\ s.codes # <<>>

\* produce_reconciliation_snapshot
Produced(r, observed, produced, evaluated) ==
  /\ observed <= produced /\ produced <= evaluated
  /\ ResultAccepted(r)
  /\ ValidateSnapshot(Snapshot(r, observed, produced), evaluated)

Snapshots == {Snapshot(p.result, p.observed, p.produced) : p \in Publications}

\* read_current, once the pointer and its version have been read.
Readable(target, evaluated) ==
  /\ versions[target[1]] = "GOOD"
  /\ ValidateSnapshot(target[1], evaluated)

-----------------------------------------------------------------------------
NoJob == [snapshot |-> <<>>, published |-> 0]
NoOutcome == [state |-> "NONE", committed |-> FALSE, moved |-> FALSE]

Init ==
  /\ versions = [s \in Snapshots |-> "NONE"]
  /\ pointer = {}
  /\ evidence = {}
  /\ candidates = {}
  /\ lock = {}
  /\ pc = [w \in Writers |-> "IDLE"]
  /\ job = [w \in Writers |-> NoJob]
  /\ outcome = [w \in Writers |-> NoOutcome]
  /\ reading = [r \in Readers |-> <<>>]
  /\ response = [r \in Readers |-> <<>>]
  /\ moved = [w \in Writers |-> FALSE]
  /\ committed = {}
  /\ crashes = 0 /\ faults = 0 /\ corruptions = 0

PointerBad == \E x \in pointer : ~x.good
Current == (CHOOSE x \in pointer : TRUE).target

Report(w, state, flag) ==
  outcome' = [outcome EXCEPT ![w] = [state |-> state, committed |-> flag,
                                     moved |-> moved[w]]]

\* Leaving publish(): the finally clause removes the candidates and the lock's
\* __exit__ releases it.
Leave(w) ==
  /\ pc' = [pc EXCEPT ![w] = "IDLE"]
  /\ job' = [job EXCEPT ![w] = NoJob]
  /\ lock' = lock \ {w}
  /\ candidates' = {c \in candidates : c[1] # w}

\* publish() up to the first write: BUSY, CONFLICT, DUPLICATE, a refusal of an
\* untrusted current pointer, or the writes that follow.
Publish(w, s, evaluated, published) ==
  LET existed == versions[s] # "NONE"
      target == Current
      ends(state) ==
        /\ outcome' = [outcome EXCEPT ![w] = [state |-> state, committed |-> FALSE,
                                              moved |-> FALSE]]
        /\ UNCHANGED <<pc, job, lock>>
  IN /\ pc[w] = "IDLE"
     /\ published <= evaluated
     /\ moved' = [moved EXCEPT ![w] = FALSE]
     /\ \/ lock # {} /\ ends("BUSY")
        \/ lock = {} /\ versions[s] = "BAD" /\ ends("CONFLICT")
        \/ /\ lock = {} /\ versions[s] = "GOOD" /\ pointer # {}
           /\ \/ PointerBad /\ ends("RAISED")
              \/ /\ ~PointerBad
                 /\ \/ ~Readable(target, evaluated) /\ ends("RAISED")
                    \/ /\ Readable(target, evaluated) /\ target[1] = s
                       /\ ends("DUPLICATE")
        \/ /\ lock = {} /\ versions[s] # "BAD"
           /\ existed /\ pointer # {} =>
                ~PointerBad /\ Readable(target, evaluated) /\ target[1] # s
           /\ lock' = {w}
           /\ pc' = [pc EXCEPT ![w] = IF existed THEN "VERSIONED" ELSE "FRESH"]
           /\ job' = [job EXCEPT ![w] = [snapshot |-> s, published |-> published]]
           /\ UNCHANGED outcome
     /\ UNCHANGED <<files, candidates, readers, committed, bounds>>

WriteCandidate(w) ==
  /\ pc[w] = "FRESH"
  /\ candidates' = candidates \cup {<<w, "version">>}
  /\ pc' = [pc EXCEPT ![w] = "CANDIDATE"]
  /\ UNCHANGED <<files, lock, job, outcome, readers, moved, committed, bounds>>

LinkVersion(w) ==
  /\ pc[w] = "CANDIDATE"
  /\ versions' = [versions EXCEPT ![job[w].snapshot] = "GOOD"]
  /\ candidates' = candidates \ {<<w, "version">>}
  /\ pc' = [pc EXCEPT ![w] = "VERSIONED"]
  /\ UNCHANGED <<pointer, evidence, lock, job, outcome, readers, moved,
                 committed, bounds>>

\* The immutable bytes are verified, then the pointer candidate is written.
WritePointer(w) ==
  /\ pc[w] = "VERSIONED"
  /\ IF versions[job[w].snapshot] = "GOOD"
     THEN /\ candidates' = candidates \cup {<<w, "pointer">>}
          /\ pc' = [pc EXCEPT ![w] = "POINTER"]
          /\ UNCHANGED <<lock, job, outcome>>
     ELSE Leave(w) /\ Report(w, "RAISED", FALSE)
  /\ UNCHANGED <<files, readers, moved, committed, bounds>>

ReplacePointer(w) ==
  LET target == <<job[w].snapshot, job[w].published>>
  IN /\ pc[w] = "POINTER"
     /\ pointer' = {[good |-> TRUE, target |-> target]}
     /\ candidates' = candidates \ {<<w, "pointer">>}
     /\ pc' = [pc EXCEPT ![w] = "REPLACED"]
     /\ moved' = [moved EXCEPT ![w] = TRUE]
     /\ committed' = committed \cup {target}
     /\ UNCHANGED <<versions, evidence, lock, job, outcome, readers, bounds>>

Verify(w) ==
  /\ pc[w] = "REPLACED"
  /\ IF /\ pointer = {[good |-> TRUE,
                       target |-> <<job[w].snapshot, job[w].published>>]}
        /\ versions[job[w].snapshot] = "GOOD"
     THEN /\ pc' = [pc EXCEPT ![w] = "VERIFIED"]
          /\ UNCHANGED <<lock, job, candidates, outcome>>
     ELSE Leave(w) /\ Report(w, "RAISED", TRUE)
  /\ UNCHANGED <<files, readers, moved, committed, bounds>>

\* The evidence file is created exclusively: an identical publication already
\* has one.
WriteEvidence(w) ==
  LET name == <<job[w].snapshot, job[w].published>>
  IN /\ pc[w] = "VERIFIED"
     /\ Report(w, IF name \in evidence THEN "COMMITTED_UNCONFIRMED"
                  ELSE "PUBLISHED", TRUE)
     /\ evidence' = evidence \cup {name}
     /\ Leave(w)
     /\ UNCHANGED <<versions, pointer, readers, moved, committed, bounds>>

Fault_LateFlag(w) ==
  /\ faults < MaxFaults
  /\ pc[w] \in {"FRESH", "CANDIDATE", "VERSIONED", "POINTER", "REPLACED"}
  /\ faults' = faults + 1
  /\ Leave(w)
  /\ Report(w, "RAISED", pc[w] = "VERIFIED")
  /\ UNCHANGED <<files, readers, moved, committed, crashes, corruptions>>

\* An OSError in a step: PersistenceIoError says whether the pointer moved.
Fault(w) ==
  /\ faults < MaxFaults
  /\ pc[w] \in {"FRESH", "CANDIDATE", "VERSIONED", "POINTER", "REPLACED"}
  /\ faults' = faults + 1
  /\ Leave(w)
  /\ Report(w, "RAISED", pc[w] = "REPLACED")
  /\ UNCHANGED <<files, readers, moved, committed, crashes, corruptions>>

\* An OSError while the evidence is written; the file may exist, torn.
EvidenceFault(w) ==
  /\ faults < MaxFaults
  /\ pc[w] = "VERIFIED"
  /\ faults' = faults + 1
  /\ evidence' \in {evidence, evidence \cup {<<job[w].snapshot, job[w].published>>}}
  /\ Leave(w)
  /\ Report(w, "COMMITTED_UNCONFIRMED", TRUE)
  /\ UNCHANGED <<versions, pointer, readers, moved, committed, crashes,
                 corruptions>>

\* The writing process dies: the lock goes with its handle, candidates stay.
Crash(w) ==
  /\ crashes < MaxCrashes
  /\ pc[w] # "IDLE"
  /\ crashes' = crashes + 1
  /\ pc' = [pc EXCEPT ![w] = "IDLE"]
  /\ job' = [job EXCEPT ![w] = NoJob]
  /\ outcome' = [outcome EXCEPT ![w] = NoOutcome]
  /\ moved' = [moved EXCEPT ![w] = FALSE]
  /\ lock' = lock \ {w}
  /\ UNCHANGED <<files, candidates, readers, committed, faults, corruptions>>

\* The storage damages a file.
Corrupt ==
  /\ corruptions < MaxCorruptions
  /\ corruptions' = corruptions + 1
  /\ \/ /\ \E s \in Snapshots : versions[s] = "GOOD"
                                /\ versions' = [versions EXCEPT ![s] = "BAD"]
        /\ UNCHANGED pointer
     \/ /\ pointer # {} /\ ~PointerBad
        /\ pointer' = {[x EXCEPT !.good = FALSE] : x \in pointer}
        /\ UNCHANGED versions
  /\ UNCHANGED <<evidence, candidates, lock, pc, job, outcome, readers, moved,
                 committed, crashes, faults>>

-----------------------------------------------------------------------------
\* The gateway.

PrincipalCurrent(who, evaluated) ==
  who.since <= evaluated /\ evaluated < who.until

Respond(r, who, evaluated, state, reason, shown) ==
  response' = [response EXCEPT ![r] =
    <<[state |-> state, reason |-> reason, shown |-> shown, who |-> who,
       evaluated |-> evaluated]>>]

\* read(): authenticate, then open the current pointer.
ReadPointer(r, who, evaluated) ==
  /\ reading[r] = <<>>
  /\ \/ /\ ~PrincipalCurrent(who, evaluated)
        /\ Respond(r, who, evaluated, "ACCESS_DENIED", "AUTHENTICATION_REQUIRED", {})
        /\ UNCHANGED reading
     \/ /\ PrincipalCurrent(who, evaluated) /\ ~who.permitted
        /\ Respond(r, who, evaluated, "ACCESS_DENIED", "PERMISSION_DENIED", {})
        /\ UNCHANGED reading
     \/ /\ PrincipalCurrent(who, evaluated) /\ who.permitted
        /\ \/ /\ pointer = {}
              /\ Respond(r, who, evaluated, "UNAVAILABLE",
                         "CURRENT_POINTER_MISSING", {})
              /\ UNCHANGED reading
           \/ /\ PointerBad
              /\ Respond(r, who, evaluated, "UNKNOWN",
                         "PERSISTED_SNAPSHOT_UNTRUSTED", {})
              /\ UNCHANGED reading
           \/ /\ pointer # {} /\ ~PointerBad
              /\ reading' = [reading EXCEPT ![r] =
                   <<[target |-> Current, who |-> who,
                      evaluated |-> evaluated]>>]
              /\ response' = [response EXCEPT ![r] = <<>>]
  /\ UNCHANGED <<files, candidates, lock, pc, job, outcome, moved, committed,
                 bounds>>

\* The version the pointer named is read, verified and shown.
ReadVersion(r) ==
  LET now == reading[r][1]
  IN /\ reading[r] # <<>>
     /\ IF Readable(now.target, now.evaluated)
        THEN Respond(r, now.who, now.evaluated, "UNKNOWN",
                     "FRESHNESS_UNVERIFIED", {now.target})
        ELSE Respond(r, now.who, now.evaluated, "UNKNOWN",
                     "PERSISTED_SNAPSHOT_UNTRUSTED", {})
     /\ reading' = [reading EXCEPT ![r] = <<>>]
     /\ UNCHANGED <<files, candidates, lock, pc, job, outcome, moved, committed,
                    bounds>>

-----------------------------------------------------------------------------
Write(w) ==
  \/ \E p \in Publications :
       /\ Produced(p.result, p.observed, p.produced, p.evaluated)
       /\ Publish(w, Snapshot(p.result, p.observed, p.produced), p.evaluated,
                  p.published)
  \/ WriteCandidate(w) \/ LinkVersion(w) \/ WritePointer(w)
  \/ ReplacePointer(w) \/ Verify(w) \/ WriteEvidence(w)
  \/ Fault(w) \/ EvidenceFault(w) \/ Crash(w)

Next ==
  \/ \E w \in Writers : Write(w)
  \/ \E r \in Readers :
       \/ ReadVersion(r)
       \/ \E who \in Principals, e \in Times : ReadPointer(r, who, e)
  \/ Corrupt

Spec == Init /\ [][Next]_storeVars

-----------------------------------------------------------------------------
(* Properties.                                                              *)

\* While the storage damages nothing, a reader that takes no lock never finds
\* the pointer and its version inconsistent, whatever writers do, fail or die
\* between its two reads (publish orders version before pointer, and no
\* version is ever removed).
ReaderSeesWhole ==
  \A r \in Readers : reading[r] # <<>> /\ corruptions = 0
     => versions[reading[r][1].target[1]] = "GOOD"

\* What the gateway shows is a snapshot a publication committed, and it says of
\* its reconciliation exactly what some result says: the same state and the
\* same set of discrepancy codes (produce_reconciliation_snapshot, publish,
\* read_current).
ShownIsTrue ==
  \A r \in Readers : \A a \in Range(response[r]) : \A t \in a.shown :
     /\ t \in committed
     /\ \E p \in Publications : /\ p.result.state = t[1].state
                                /\ Range(p.result.found) = Range(t[1].codes)
                                /\ p.result.performance = t[1].performance

\* A call reports that the pointer moved exactly when it moved it, on success,
\* on refusal and on every failed step (PublicationResult, PersistenceIoError).
OutcomeTruthful ==
  \A w \in Writers : outcome[w].committed = outcome[w].moved

\* Publication evidence exists only for publications the pointer has held,
\* whatever step failed or died (publish).
EvidenceTruthful == evidence \subseteq committed

\* An observation is shown only to a principal that holds the permission and is
\* current at the evaluation time, which is before its expiry
\* (OperatorConsoleReadGateway.read).
ShownToPermitted ==
  \A r \in Readers : \A a \in Range(response[r]) :
     a.shown # {} => /\ a.who.permitted
                     /\ a.who.since <= a.evaluated
                     /\ a.evaluated < a.who.until

\* The console's store is truthful to both sides: a reader never meets a
\* pointer without its version and is shown nothing it may not see, a writer
\* is told whether the pointer moved, and evidence is of what moved it.
ConsoleTruthful ==
  /\ ReaderSeesWhole /\ ShownToPermitted
  /\ OutcomeTruthful /\ EvidenceTruthful

=============================================================================
