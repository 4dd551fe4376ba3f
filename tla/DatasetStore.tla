------------------------------ MODULE DatasetStore ------------------------------
(***************************************************************************)
(* datasets/physical_persistence.py and the receipts of                    *)
(* datasets/persistence.py: LocalPhysicalDatasetStore, a directory of      *)
(* content-addressed objects, write-once version records, staging entries  *)
(* and one publication marker.  Several processes open the store; each     *)
(* step is one file operation another process, a crash or damage to the    *)
(* files can fall between.                                                 *)
(*                                                                         *)
(* Bytes are values and a value is its own digest.  A version identity is  *)
(* derived from its content, so a version stands for its identity; the     *)
(* version record also holds the evidence of the call that wrote it.       *)
(***************************************************************************)
EXTENDS Naturals, FiniteSets, Sequences, Functions

CONSTANTS
    Callers,       \* processes with the store open
    Versions,      \* stored versions
    Objects,       \* [Versions -> sequences of objects], the canonical bytes first
    Evidence,      \* evidence references; {} is a call without any
    Requests,      \* evidence sets callers come with
    Times,         \* completed_at values
    MaxObjects,    \* [Callers -> Nat]: MAX_OBJECTS_PER_VERSION of their policy
    MaxStaging,    \* MAX_RECOVERY_STAGING_ENTRIES
    CallCap,       \* bound: calls made
    CrashCap,      \* bound: crashes
    DamageCap      \* bound: files damaged

\* A version has at least its canonical bytes, and callers come with evidence references.
ASSUME StoreAssumption ==
    /\ Objects \in [Versions -> Seq(UNION {Range(Objects[v]) : v \in Versions})]
    /\ \A v \in Versions : Objects[v] # <<>>
    /\ \A ev \in Requests : ev \subseteq Evidence

VARIABLES
    objects,       \* object -> "ok" or "damaged", for the objects present
    records,       \* version -> evidence in the committed version record
    staging,       \* staging entries: [id, kind, version, meta]
    marker,        \* publication/current.json: <<>> or <<[receipt, version]>>
    receipts,      \* publication receipts made, in order; a place is an identity
    call,          \* per process, the call under way
    answer,        \* per process, the outcome of its last call
    persisted,     \* receipts persist_exact_version() returned: <<version, evidence>>
    made           \* [calls, crashes, damage]: counts, for the bounds

vars == <<objects, records, staging, marker, receipts, call, answer, persisted, made>>

Idle == [pc |-> "idle"]
NoAnswer == [status |-> "none"]
Ok(v) == [status |-> "ok", version |-> v]
Refused(v, why) == [status |-> why, version |-> v]

Init ==
    /\ objects = <<>>
    /\ records = <<>>
    /\ staging = {}
    /\ marker = <<>>
    /\ receipts = <<>>
    /\ call = [c \in Callers |-> Idle]
    /\ answer = [c \in Callers |-> NoAnswer]
    /\ persisted = {}
    /\ made = [calls |-> 0, crashes |-> 0, damage |-> 0]

disk == <<objects, records, staging, marker>>
books == <<receipts, persisted>>

-----------------------------------------------------------------------------
(* Reading *)

(* _validate_retained_inventory(): the inventory in a version record is    *)
(* read under the limits of the reading process.                           *)
WithinLimits(c, v) == Len(Objects[v]) <= MaxObjects[c]

(* _load_version() and _retrieval(): the reason a version cannot be read   *)
(* by process c, or "" when its exact bytes are returned.                  *)
Retrieval(c, v) ==
    LET bad == {i \in DOMAIN Objects[v] :
                    Objects[v][i] \notin DOMAIN objects \/ objects[Objects[v][i]] # "ok"}
    IN  IF v \notin DOMAIN records THEN "VERSION_NOT_ESTABLISHED"
        ELSE IF ~WithinLimits(c, v) THEN "RESOURCE_LIMIT_EXCEEDED"
        ELSE IF bad = {} THEN ""
        ELSE IF \E i \in bad : Objects[v][i] \notin DOMAIN objects /\ \A j \in bad : i <= j
             THEN "OBJECT_MISSING"
        ELSE "OBJECT_CORRUPT"

(* _read_publication_marker(): the same for the version it names. *)
MarkerReads(c) == IF marker = <<>> THEN "" ELSE Retrieval(c, marker[1].version)

(* recover(): what is reported of the marker, or "" when it raises. *)
RecoveredState(c) ==
    IF marker = <<>> THEN "MISSING"
    ELSE IF MarkerReads(c) = "" THEN "COMMITTED_VALID"
    ELSE IF MarkerReads(c) \in {"VERSION_NOT_ESTABLISHED", "OBJECT_MISSING", "OBJECT_CORRUPT"}
         THEN "MARKER_TO_INVALID_VERSION"
    ELSE ""

(* recover(): what is reported of a staging entry. *)
EntryState(e) ==
    IF e.kind = "marker" THEN "COMPLETED_BUT_UNCOMMITTED"
    ELSE IF ~e.meta THEN "STAGED_ONLY"
    ELSE IF e.version \in DOMAIN records THEN "COMMITTED_VALID"
    ELSE "COMPLETED_BUT_UNCOMMITTED"

-----------------------------------------------------------------------------
(* persist_exact_version() *)

Step(c, pc) == call' = [call EXCEPT ![c].pc = pc]

(* The call ends; what it staged stays behind unless it removed it. *)
End(c, a) ==
    /\ call' = [call EXCEPT ![c] = Idle]
    /\ answer' = [answer EXCEPT ![c] = a]

Counted(field) == made' = [made EXCEPT ![field] = @ + 1]

(* Up to the count of the staging entries. *)
BeginPersist(c, v, ev) ==
    /\ call[c] = Idle /\ made.calls < CallCap
    /\ Counted("calls")
    /\ IF ~WithinLimits(c, v) \/ Cardinality(staging) >= MaxStaging
       THEN End(c, Refused(v, "RESOURCE_LIMIT_EXCEEDED"))
       ELSE /\ call' = [call EXCEPT ![c] = [pc |-> "stage", version |-> v, ev |-> ev,
                                            entry |-> made.calls + 1, next |-> 1]]
            /\ UNCHANGED answer
    /\ UNCHANGED <<disk, books>>

(* The staging directory, under a fresh name, with the objects in it *)
MakeStage(c) ==
    /\ call[c].pc = "stage"
    /\ staging' = staging \cup {[id |-> call[c].entry, kind |-> "version",
                                  version |-> call[c].version, meta |-> FALSE]}
    /\ Step(c, "describe")
    /\ UNCHANGED <<objects, records, marker, books, answer, made>>

(* version.json in the staging directory *)
DescribeStage(c) ==
    /\ call[c].pc = "describe"
    /\ staging' = {IF e.id = call[c].entry THEN [e EXCEPT !.meta = TRUE] ELSE e : e \in staging}
    /\ Step(c, "objects")
    /\ UNCHANGED <<objects, records, marker, books, answer, made>>

With(f, k, x) == [i \in DOMAIN f \cup {k} |-> IF i = k THEN x ELSE f[i]]

(* _write_object(): linked when absent, compared when present. *)
WriteObject(c) ==
    LET o == Objects[call[c].version][call[c].next]
    IN  /\ call[c].pc = "objects"
        /\ IF o \in DOMAIN objects /\ objects[o] # "ok"
           THEN /\ End(c, Refused(call[c].version, "OBJECT_COLLISION"))
                /\ UNCHANGED objects
           ELSE /\ objects' = IF o \in DOMAIN objects THEN objects ELSE With(objects, o, "ok")
                /\ call' = [call EXCEPT ![c] =
                     [pc |-> IF @.next = Len(Objects[@.version]) THEN "commit" ELSE "objects",
                      version |-> @.version, ev |-> @.ev, entry |-> @.entry, next |-> @.next + 1]]
                /\ UNCHANGED answer
        /\ UNCHANGED <<records, staging, marker, books, made>>

(* _write_once_metadata(): the version record *)
CommitRecord_Overwrites(c) ==
    LET v == call[c].version
    IN  /\ call[c].pc = "commit"
        /\ records' = With(records, v, call[c].ev)
        /\ Step(c, "verify")
        /\ UNCHANGED <<objects, staging, marker, books, answer, made>>

CommitRecord(c) ==
    LET v == call[c].version
    IN  /\ call[c].pc = "commit"
        /\ IF v \in DOMAIN records /\ records[v] # call[c].ev
           THEN /\ End(c, Refused(v, "OBJECT_COLLISION"))
                /\ UNCHANGED records
           ELSE /\ records' = IF v \in DOMAIN records THEN records ELSE With(records, v, call[c].ev)
                /\ Step(c, "verify")
                /\ UNCHANGED answer
        /\ UNCHANGED <<objects, staging, marker, books, made>>

(* create_persistence_receipt(): attributable evidence is required. *)
HasEvidence(ev) == ev # {}
PersistenceReceipt(v, ev) == <<v, ev>>

(* read_exact_version(), create_persistence_receipt() and the removal of   *)
(* the staging directory.  A receipt without evidence is refused, after    *)
(* the version record was committed.                                       *)
FinishPersist(c) ==
    LET v == call[c].version
        why == Retrieval(c, v)
    IN  /\ call[c].pc = "verify"
        /\ IF why # "" THEN End(c, Refused(v, why)) /\ UNCHANGED <<staging, persisted>>
           ELSE IF ~HasEvidence(call[c].ev)
           THEN End(c, Refused(v, "VERIFICATION_EVIDENCE_NOT_ESTABLISHED")) /\ UNCHANGED <<staging, persisted>>
           ELSE /\ End(c, Ok(v))
                /\ staging' = {e \in staging : e.id # call[c].entry}
                /\ persisted' = persisted \cup {PersistenceReceipt(v, call[c].ev)}
        /\ UNCHANGED <<objects, records, marker, receipts, made>>

-----------------------------------------------------------------------------
(* publish_exact_version() *)

Published == IF marker = <<>> THEN 0 ELSE marker[1].receipt

(* The identity of a receipt is its content. *)
ReceiptBody(v, pred, at) == [version |-> v, pred |-> pred, at |-> at]
ReceiptId(r) ==
    IF r \in Range(receipts) THEN CHOOSE i \in DOMAIN receipts : receipts[i] = r
    ELSE Len(receipts) + 1

(* The predecessor the caller expects is the one the marker names, or the  *)
(* version is already published.                                           *)
PredecessorHolds(v, pred) ==
    \/ pred = Published
    \/ marker # <<>> /\ marker[1].version = v

BeginPublish_Unread(c, v, pred, at, ev) ==
    LET why == IF marker # <<>> /\ MarkerReads(c) # "" THEN MarkerReads(c)
               ELSE IF ~PredecessorHolds(v, pred) THEN "PUBLICATION_PREDECESSOR_MISMATCH"
               ELSE ""
        r == ReceiptBody(v, pred, at)
    IN  /\ call[c] = Idle /\ made.calls < CallCap
        /\ Counted("calls")
        /\ IF why # ""
           THEN End(c, Refused(v, why)) /\ UNCHANGED receipts
           ELSE /\ receipts' = IF ReceiptId(r) \in DOMAIN receipts THEN receipts ELSE Append(receipts, r)
                /\ call' = [call EXCEPT ![c] = [pc |-> "mark", version |-> v,
                                                receipt |-> ReceiptId(r), entry |-> made.calls + 1]]
                /\ UNCHANGED answer
        /\ UNCHANGED <<disk, persisted>>

BeginPublish(c, v, pred, at, ev) ==
    LET why == IF Retrieval(c, v) # "" THEN Retrieval(c, v)
               ELSE IF MarkerReads(c) # "" THEN MarkerReads(c)
               ELSE IF ~PredecessorHolds(v, pred) THEN "PUBLICATION_PREDECESSOR_MISMATCH"
               ELSE IF ~HasEvidence(ev) THEN "VERIFICATION_EVIDENCE_NOT_ESTABLISHED"
               ELSE ""
        r == ReceiptBody(v, pred, at)
    IN  /\ call[c] = Idle /\ made.calls < CallCap
        /\ Counted("calls")
        /\ IF why # ""
           THEN End(c, Refused(v, why)) /\ UNCHANGED receipts
           ELSE /\ receipts' = IF ReceiptId(r) \in DOMAIN receipts THEN receipts ELSE Append(receipts, r)
                /\ call' = [call EXCEPT ![c] = [pc |-> "mark", version |-> v,
                                                receipt |-> ReceiptId(r), entry |-> made.calls + 1]]
                /\ UNCHANGED answer
        /\ UNCHANGED <<disk, persisted>>

(* The new marker is written beside the old one; the limit on staging      *)
(* entries is not asked.                                                   *)
StageMarker(c) ==
    /\ call[c].pc = "mark"
    /\ staging' = staging \cup {[id |-> call[c].entry, kind |-> "marker",
                                  version |-> call[c].version, meta |-> TRUE]}
    /\ Step(c, "replace")
    /\ UNCHANGED <<objects, records, marker, books, answer, made>>

(* os.replace() *)
ReplaceMarker(c) ==
    /\ call[c].pc = "replace"
    /\ marker' = <<[receipt |-> call[c].receipt, version |-> call[c].version]>>
    /\ staging' = {e \in staging : e.id # call[c].entry}
    /\ Step(c, "confirm")
    /\ UNCHANGED <<objects, records, receipts, persisted, answer, made>>

(* The marker is read back. *)
ConfirmMarker(c) ==
    LET v == call[c].version
    IN  /\ call[c].pc = "confirm"
        /\ IF MarkerReads(c) # "" THEN End(c, Refused(v, MarkerReads(c)))
           ELSE IF marker # <<[receipt |-> call[c].receipt, version |-> v]>>
           THEN End(c, Refused(v, "PUBLICATION_MARKER_INVALID"))
           ELSE End(c, Ok(v))
        /\ UNCHANGED <<disk, books, made>>

-----------------------------------------------------------------------------
(* retrieve_exact_version() *)
Retrieve(c, v) ==
    /\ call[c] = Idle /\ made.calls < CallCap
    /\ Counted("calls")
    /\ LET why == Retrieval(c, v)
       IN  answer' = [answer EXCEPT ![c] =
                        IF why # "" THEN Refused(v, why)
                        ELSE [status |-> "read", version |-> v,
                              bytes |-> [i \in DOMAIN Objects[v] |-> objects[Objects[v][i]]]]]
    /\ UNCHANGED <<disk, books, call>>

(* A process dies, or a file operation of its call fails: nothing of what  *)
(* it left in staging is removed, by it or by recover().                   *)
Crash(c) ==
    /\ call[c] # Idle /\ made.crashes < CrashCap
    /\ Counted("crashes")
    /\ End(c, NoAnswer)
    /\ UNCHANGED <<disk, books>>

(* Damage to a stored file, from outside the store *)
Damage(o) ==
    /\ o \in DOMAIN objects /\ made.damage < DamageCap
    /\ Counted("damage")
    /\ \/ objects' = [objects EXCEPT ![o] = "damaged"]
       \/ objects' = [p \in DOMAIN objects \ {o} |-> objects[p]]
    /\ UNCHANGED <<records, staging, marker, books, call, answer>>

Next ==
    \/ \E c \in Callers, v \in Versions, ev \in Requests : BeginPersist(c, v, ev)
    \/ \E c \in Callers :
          \/ MakeStage(c) \/ DescribeStage(c) \/ WriteObject(c) \/ CommitRecord(c) \/ FinishPersist(c)
          \/ StageMarker(c) \/ ReplaceMarker(c) \/ ConfirmMarker(c)
          \/ Crash(c)
    \/ \E c \in Callers, v \in Versions, pred \in 0..Len(receipts), at \in Times, ev \in Requests :
          BeginPublish(c, v, pred, at, ev)
    \/ \E c \in Callers, v \in Versions : Retrieve(c, v)
    \/ \E v \in Versions : \E i \in DOMAIN Objects[v] : Damage(Objects[v][i])

Spec == Init /\ [][Next]_vars

-----------------------------------------------------------------------------
(* Properties *)

Undamaged == made.damage = 0
Readable(v) == v \in DOMAIN records /\ \A i \in DOMAIN Objects[v] : Objects[v][i] \in DOMAIN objects

(* Each piece of the store is of its kind, and staging entries have        *)
(* distinct names.                                                         *)
TypeOK ==
    /\ DOMAIN records \subseteq Versions
    /\ \A v \in DOMAIN records : records[v] \subseteq Evidence
    /\ \A e, f \in staging : e.id = f.id => e = f
    /\ marker # <<>> => marker[1].receipt \in DOMAIN receipts

(* The consumer-visible version is complete: whatever crashed and whoever  *)
(* wrote at the same time, the marker of publish_exact_version() names a   *)
(* version whose record and objects are all in place.                      *)
PublishedComplete == Undamaged /\ marker # <<>> => Readable(marker[1].version)

(* retrieve_exact_version() returns the bytes that were persisted or       *)
(* refuses; damage to the files is never returned as data.                 *)
ReadsExact ==
    \A c \in Callers : answer[c].status = "read" =>
        \A i \in DOMAIN answer[c].bytes : answer[c].bytes[i] = "ok"

(* A receipt of persist_exact_version() stays true: the version record is  *)
(* there with the evidence of the receipt, and nobody writes over it.      *)
ReceiptsHold ==
    \A p \in persisted :
        /\ p[1] \in DOMAIN records /\ records[p[1]] = p[2]
        /\ Undamaged => Readable(p[1])

CollisionHasCauseStep ==
  \A c \in Callers :
     (/\ answer'[c] # answer[c] /\ answer'[c].status = "OBJECT_COLLISION"
      /\ call[c] # Idle /\ Undamaged)
     => /\ answer'[c].version \in DOMAIN records
        /\ records[answer'[c].version] # call[c].ev

(* A persist call repeated after a crash, or made by two processes at      *)
(* once, is refused as a collision only when another call with other       *)
(* evidence committed the version first, or an object was damaged.         *)
CollisionHasCause == [][CollisionHasCauseStep]_vars

(* recover() tells an operator the truth: a staged version it calls        *)
(* committed, because a version record of that name exists, has all its    *)
(* objects in place, and a marker it calls valid names a complete version. *)
RecoveryTruthful ==
    /\ \A e \in staging :
          EntryState(e) = "COMMITTED_VALID" /\ Undamaged => Readable(e.version)
    /\ \A c \in Callers :
          Undamaged /\ marker # <<>> /\ Len(Objects[marker[1].version]) <= MaxObjects[c]
          => RecoveredState(c) = "COMMITTED_VALID"

(* What consumers and operators see of the store is true: the published    *)
(* version is complete, and recover() calls nothing committed or valid     *)
(* that is not.                                                            *)
StoreTruthful == PublishedComplete /\ RecoveryTruthful

(* What the store has answered stays true: a receipt of                    *)
(* persist_exact_version() holds, and damaged bytes are never returned.    *)
AnswersHold == ReceiptsHold /\ ReadsExact

=============================================================================
