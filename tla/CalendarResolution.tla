------------------------- MODULE CalendarResolution -------------------------
(***************************************************************************)
(* Point-in-time resolution of trading sessions (calendars/resolution.py   *)
(* over the records of calendars/model.py).  An archive of calendar        *)
(* versions, their facts and the assessments of them grows while time      *)
(* passes; callers ask which session a calendar has on a date, as known at *)
(* a cutoff.                                                               *)
(*                                                                         *)
(* The resolver is a chain of early returns.  Every one of them refuses    *)
(* with a result that carries no value, and no caller tells the refusals   *)
(* (NOT_ESTABLISHED, CONFLICTING, AMBIGUOUS, and their reasons) apart, so  *)
(* the chain is the conjunction of the conditions for going on.  A content *)
(* digest is the record itself.  Callers pass each record once, so a tuple *)
(* of candidates is a set; where the code takes the first of several, the  *)
(* choice is open, for the caller chooses the order.                       *)
(***************************************************************************)
EXTENDS Integers, FiniteSets, FiniteSetsExt

CONSTANTS
  Catalog,        \* the records that may be published, a set for every kind
  Initial,        \* the archive at the start
  Queries,        \* [calendar, date, effective, cutoff, evaluation]
  Claims,         \* what a manifest says of itself: [known, valid]
  MaxCandidates,  \* MAX_LINEAGE_VERSIONS
  MaxDepth,       \* MAX_LINEAGE_DEPTH
  MaxEvidence,    \* MAX_EVIDENCE_REFS
  MaxPublished,   \* bound on the records published after the start
  MaxTime,        \* bound on the clock
  DayLength       \* minutes in a day

VARIABLES
  archive,        \* kind -> set of published records
  clock,
  published,      \* how many records were published
  answers         \* the results the resolver returned with a value

vars == <<archive, clock, published, answers>>

Kinds == {"versions", "coverages", "days", "sessions", "corpora",
          "corrections", "currents"}

FactKinds == {"coverages", "days", "sessions"}

-----------------------------------------------------------------------------
(* What the constructors of the records refuse.                            *)

\* A version that corrects another names its correction evidence; a root
\* has none, and none supersedes itself.
VersionFormed(v) ==
  /\ v.from < v.to
  /\ v.supersedes # {v.id}
  /\ (v.supersedes = {}) <=> (v.correction = {})

CoverageFormed(f) == f.from < f.to

\* The local boundaries and the UTC boundaries are both in order.
SessionFormed(s) ==
  /\ s.open.minute < s.close.minute
  /\ s.utcOpen < s.utcClose

CorrectionFormed(a) == a.successor # a.predecessor

CurrentFormed(a) == a.from < a.to

\* No query is evaluated before its cutoff.
QueryFormed(q) == q.cutoff <= q.evaluation

\* Every record but a rule corpus rests on evidence, of a limited number.
Formed(kind, r) ==
  /\ kind # "corpora" => Cardinality(r.evidence) \in 1..MaxEvidence
  /\ kind = "versions" => VersionFormed(r)
  /\ kind = "coverages" => CoverageFormed(r)
  /\ kind = "sessions" => SessionFormed(r)
  /\ kind = "corrections" => CorrectionFormed(r)
  /\ kind = "currents" => CurrentFormed(r)

-----------------------------------------------------------------------------
(* The domain the caller passes, and the manifest that certifies it.       *)

VisibleVersions(q, c) == {v \in c.versions : v.known <= q.cutoff}

VisibleIds(q, c) == {v.id : v \in VisibleVersions(q, c)}

\* A fact is as visible as the version it belongs to.
VisibleFacts(q, c, kind) == {f \in c[kind] : f.version \in VisibleIds(q, c)}

AllFacts(q, c) == UNION {VisibleFacts(q, c, kind) : kind \in FactKinds}

\* What identifies a fact within its version.
FactIdentity(kind, f) == IF kind = "coverages" THEN <<f.from, f.to>> ELSE <<f.date>>

\* How a manifest names a fact: kind, version, identity and content.
Descriptor(kind, f) == <<kind, f.version, FactIdentity(kind, f), f>>

Descriptors(q, c) ==
  UNION {{Descriptor(kind, f) : f \in VisibleFacts(q, c, kind)} : kind \in FactKinds}

EvidenceOf(records) == UNION {r.evidence : r \in records}

CandidateEvidence(q, c) ==
  EvidenceOf(VisibleVersions(q, c)) \union EvidenceOf(AllFacts(q, c))

\* The manifest an authority issues for a query: the versions and the facts
\* the archive makes visible at its cutoff.
Manifest(q, c, known, valid, evidence) ==
  [query |-> q, known |-> known, valid |-> valid, evidence |-> evidence,
   ids |-> VisibleIds(q, c), facts |-> Descriptors(q, c)]

\* The size check comes first, and counts what is not visible too.
WithinLimit(c) == \A kind \in Kinds : Cardinality(c[kind]) <= MaxCandidates

\* The manifest is for this query, known by its cutoff, valid, lists exactly
\* what was passed and does not rest on the evidence of what it certifies.
ManifestHolds(q, c, m) ==
  /\ m.query = q
  /\ m.known <= q.cutoff
  /\ m.valid
  /\ m.ids = VisibleIds(q, c)
  /\ m.facts = Descriptors(q, c)
  /\ m.evidence \intersect CandidateEvidence(q, c) = {}

\* A statement that there is no session, bound to the manifest.
NegativeHolds(q, c, m, n) ==
  /\ n.query = q
  /\ n.known <= q.cutoff
  /\ n.valid
  /\ n.manifest = m
  /\ n.evidence \intersect CandidateEvidence(q, c) = {}

-----------------------------------------------------------------------------
(* The lineage and the facts bound to it.                                  *)

\* The versions v corrects, directly or through others.
Ancestors(v, vs) ==
  LET Up(found) == found \union {p \in vs : \E w \in found : w.supersedes = {p.id}}
      reached[n \in 0..Cardinality(vs)] == IF n = 0 THEN {v} ELSE Up(reached[n - 1])
  IN  reached[Cardinality(vs)] \ {v}

\* One record for each version, one subject, one scope, no branch, no gap, no
\* cycle, and every correction became known after what it corrects.
LineageValid(vs) ==
  /\ \A v, w \in vs : v.id = w.id => v = w
  /\ \A v, w \in vs : v.calendar = w.calendar /\ v.scope = w.scope
  /\ \A v, w \in vs : v.supersedes # {} /\ v.supersedes = w.supersedes => v = w
  /\ \A v \in vs : v.supersedes # {} =>
       \E p \in vs : v.supersedes = {p.id} /\ p.known < v.known
  /\ \A v \in vs : Cardinality(Ancestors(v, vs)) <= MaxDepth

\* Facts of one identity have one content, a version has a limited number
\* of them, and a session converts by the rule of its version.
FactsBound(q, c) ==
  /\ \A v \in VisibleVersions(q, c) :
       Cardinality({f \in AllFacts(q, c) : f.version = v.id}) <= MaxCandidates
  /\ \A kind \in FactKinds : \A f, g \in VisibleFacts(q, c, kind) :
       f.version = g.version /\ FactIdentity(kind, f) = FactIdentity(kind, g) => f = g
  /\ \A s \in VisibleFacts(q, c, "sessions") : \A v \in VisibleVersions(q, c) :
       s.version = v.id => s.rule = v.rule

SubjectsMatch(q, c) ==
  \A r \in VisibleVersions(q, c) \union AllFacts(q, c) : r.calendar = q.calendar

\* Up to here every way out is a refusal.
DomainAccepted(q, c, m) ==
  /\ WithinLimit(c)
  /\ ManifestHolds(q, c, m)
  /\ SubjectsMatch(q, c)
  /\ LineageValid(VisibleVersions(q, c))
  /\ FactsBound(q, c)

-----------------------------------------------------------------------------
(* Which version applies.                                                  *)

\* The interval of a version, a coverage or an assessment is half open.
Contains(r, instant) == r.from <= instant /\ instant < r.to

Effective(q, c) == {v \in VisibleVersions(q, c) : Contains(v, q.effective)}

\* Mutation: an assessment counts from its evaluation, known or not.
Assessments_AnyKnowledge(q, c, v) ==
  {a \in c.corrections :
     /\ a.calendar = q.calendar
     /\ a.successor = v.id /\ {a.predecessor} = v.supersedes
     /\ a.evaluated <= q.evaluation
     /\ a.valid}

\* The valid assessments of a correction that are known by the cutoff.
Assessments(q, c, v) ==
  {a \in c.corrections :
     /\ a.calendar = q.calendar
     /\ a.successor = v.id /\ {a.predecessor} = v.supersedes
     /\ a.known <= q.cutoff
     /\ a.evaluated <= q.evaluation
     /\ a.valid}

\* The evidence a correction, what it corrects and its facts rest on.
OwnEvidence(q, c, v) ==
  LET lineage == {v} \union {p \in VisibleVersions(q, c) : {p.id} = v.supersedes}
      facts == {f \in AllFacts(q, c) : f.version = v.id}
  IN  EvidenceOf(lineage \union facts) \union UNION {w.correction : w \in lineage}

\* A correction was assessed, independently, and with one decision.
CorrectionDecided(q, c, v) ==
  LET valid == Assessments(q, c, v)
  IN  v.supersedes # {} =>
        /\ valid # {}
        /\ \A a \in valid : a.evidence \ OwnEvidence(q, c, v) # {}
        /\ \A a, b \in valid : a.authorized = b.authorized

Admissible(q, c) ==
  {v \in Effective(q, c) : \A a \in Assessments(q, c, v) : a.authorized}

\* The admissible versions no admissible version corrects.
Tips(q, c) ==
  {v \in Admissible(q, c) : \A w \in Admissible(q, c) : w.supersedes # {v.id}}

VersionSelected(q, c) ==
  /\ Effective(q, c) # {}
  /\ \A v \in Effective(q, c) : v.valid /\ v.rule.valid
  /\ \A v \in Effective(q, c) : CorrectionDecided(q, c, v)
  /\ Cardinality(Tips(q, c)) = 1

Applies(a, q) == a.known <= q.cutoff /\ Contains(a, q.evaluation)

\* The valid statements on whether the version is current that are known by
\* the cutoff and hold at the evaluation.
Currentness(q, c, v) ==
  {a \in c.currents :
     /\ a.calendar = q.calendar /\ a.version = v.id
     /\ Applies(a, q)
     /\ a.valid}

IsCurrent(q, c, v) ==
  /\ Currentness(q, c, v) # {}
  /\ \A a \in Currentness(q, c, v) : a.state = "CURRENT"

\* coverage_disposition: a valid and complete coverage, not all of whose
\* evidence is the facts' own.
CoverageEstablished(f, facts) ==
  /\ f.valid
  /\ f.state = "COVERED"
  /\ ~ (f.evidence \subseteq EvidenceOf(facts))

CoveragesOf(q, c, v) ==
  {f \in VisibleFacts(q, c, "coverages") : f.version = v.id /\ Contains(f, q.date)}

\* Exactly one coverage of the version has the date, and it was known by the
\* cutoff.
IsCovered(q, c, v) ==
  LET facts == {f \in VisibleFacts(q, c, "days") \union VisibleFacts(q, c, "sessions") :
                  f.version = v.id}
  IN  /\ Cardinality(CoveragesOf(q, c, v)) = 1
      /\ \A f \in CoveragesOf(q, c, v) :
           /\ \A k \in f.known : k <= q.cutoff
           /\ CoverageEstablished(f, facts)

OnDate(q, c, v, kind) ==
  {f \in VisibleFacts(q, c, kind) : f.version = v.id /\ f.date = q.date}

\* LocalWallTime.to_utc: the wall clock less its offset from UTC.
ToUtc(date, w) == {date * DayLength + w.minute - o : o \in w.offset}

\* The corpus passed for the rule is the one the version names, and converts
\* the local boundaries to the UTC boundaries of the session.
BoundariesVerified(c, s) ==
  LET corpora == {k \in c.corpora : k.id = s.rule.id}
  IN  /\ Cardinality(corpora) = 1
      /\ \A k \in corpora : k.content = s.rule.content
      /\ s.rule.valid
      /\ ToUtc(s.date, s.open) = {s.utcOpen}
      /\ ToUtc(s.date, s.close) = {s.utcClose}

\* A day the market is closed has no session; a regular day has one, with no
\* valid statement that there is none.
DayConsistent(q, c, m, n, v, d) ==
  LET sessions == OnDate(q, c, v, "sessions")
  IN  /\ d.valid
      /\ ~ d.regular => sessions = {}
      /\ d.regular =>
           /\ \A x \in n : ~ NegativeHolds(q, c, m, x)
           /\ sessions # {}
           /\ \A s \in sessions : s.valid /\ BoundariesVerified(c, s)

-----------------------------------------------------------------------------
(* The results that carry a value.                                         *)

\* A result: an established one has the version, the day and, on a regular
\* day, the session; any other carries no value.
Result(q, disposition, version, day, session, current) ==
  [query |-> q, disposition |-> disposition, version |-> version, day |-> day,
   session |-> session, current |-> current]

\* The evidence of an established result when a is the currentness assessment
\* used: that of the coverage, the day, the session with its rule, the
\* assessment and the assessments of the corrections.
SupportingEvidence(q, c, v, a) ==
  LET days == OnDate(q, c, v, "days")
      sessions == OnDate(q, c, v, "sessions")
      used == UNION {Assessments(q, c, w) : w \in Admissible(q, c)}
  IN  EvidenceOf(CoveragesOf(q, c, v) \union days \union sessions \union {a} \union used)
        \union UNION {s.rule.evidence : s \in sessions}

\* _established: the session, with the currentness assessment the caller
\* happened to pass first.
Established(q, c, m, n) ==
  IF ~ (DomainAccepted(q, c, m) /\ VersionSelected(q, c)) THEN {} ELSE
  LET v == CHOOSE x \in Tips(q, c) : TRUE
      days == OnDate(q, c, v, "days")
      first == {a \in Currentness(q, c, v) :
                  /\ IsCurrent(q, c, v) /\ IsCovered(q, c, v)
                  /\ days # {}
                  /\ \A d \in days : DayConsistent(q, c, m, n, v, d)
                  /\ Cardinality(SupportingEvidence(q, c, v, a)) <= MaxEvidence}
  IN  {Result(q, "ESTABLISHED", {v.id}, days, OnDate(q, c, v, "sessions"), {a}) : a \in first}

\* _negative_or_missing: no version at all, or a version without the day,
\* and a statement that there is no session.
Absent(q, c, m, n) ==
  LET none == Result(q, "ABSENT", {}, {}, {}, {})
      noDay == /\ VersionSelected(q, c)
               /\ \A v \in Tips(q, c) : /\ IsCurrent(q, c, v) /\ IsCovered(q, c, v)
                                        /\ OnDate(q, c, v, "days") = {}
  IN  {none : x \in {y \in n : /\ DomainAccepted(q, c, m)
                               /\ VisibleVersions(q, c) = {} \/ noDay
                               /\ NegativeHolds(q, c, m, y)}}

\* resolve_calendar_session; no result here is a refusal there.
Results(q, c, m, n) == Established(q, c, m, n) \union Absent(q, c, m, n)

-----------------------------------------------------------------------------
(* The archive, time, and the callers.                                     *)

ManifestEvidence == {"census"}

NegativeEvidence == {"closure"}

\* A caller passes what the archive holds, or forgets a version or a fact.
Passed ==
  {archive} \union
    UNION {{[archive EXCEPT ![kind] = @ \ {r}] : r \in archive[kind]} :
             kind \in {"versions"} \union FactKinds}

Negative(q, m, claim) ==
  [query |-> q, manifest |-> m, known |-> claim.known, valid |-> claim.valid,
   evidence |-> NegativeEvidence]

Init ==
  /\ archive = Initial
  /\ clock = 1
  /\ published = 0
  /\ answers = {}

\* The archive takes a well-formed record.  No version and no assessment is
\* published after the time it claims to be known from; a fact makes no such
\* claim, and may be added to a version at any time.
Publish(kind, r) ==
  /\ published < MaxPublished
  /\ r \notin archive[kind]
  /\ Formed(kind, r)
  /\ kind \in {"versions", "corrections", "currents"} => r.known >= clock
  /\ archive' = [archive EXCEPT ![kind] = @ \union {r}]
  /\ published' = published + 1
  /\ UNCHANGED <<clock, answers>>

Tick ==
  /\ clock < MaxTime
  /\ clock' = clock + 1
  /\ UNCHANGED <<archive, published, answers>>

\* A caller asks about a cutoff that has passed, with a manifest and perhaps
\* a negative statement, and gets a result that carries a value.
Resolve(q, c, claim, denied) ==
  /\ QueryFormed(q) /\ q.cutoff < clock
  /\ LET m == Manifest(q, archive, claim.known, claim.valid, ManifestEvidence)
         n == IF denied THEN {Negative(q, m, claim)} ELSE {}
     IN  \E result \in Results(q, c, m, n) : answers' = answers \union {result}
  /\ UNCHANGED <<archive, clock, published>>

Next ==
  \/ \E kind \in Kinds : \E r \in Catalog[kind] : Publish(kind, r)
  \/ Tick
  \/ \E q \in Queries, c \in Passed, claim \in Claims, denied \in BOOLEAN :
       Resolve(q, c, claim, denied)

Spec == Init /\ [][Next]_vars

-----------------------------------------------------------------------------
(* Properties.                                                             *)

\* Two callers that ask what is on a date, as known at one cutoff, and are
\* both given a session or a closed day, are given the same one from the same
\* version: whatever facts and assessments were added in between, at whatever
\* evaluation time they ask, and whatever they forgot to pass.
EstablishedIsUnique ==
  \A a, b \in answers :
    /\ a.disposition = "ESTABLISHED" /\ b.disposition = "ESTABLISHED"
    /\ [a.query EXCEPT !.evaluation = 0] = [b.query EXCEPT !.evaluation = 0]
    => a.version = b.version /\ a.day = b.day /\ a.session = b.session

\* What the archive held at the cutoff of a query.
KnownBy(q, c) ==
  [kind \in Kinds |->
     IF kind \in {"versions", "corrections", "currents"}
     THEN {r \in c[kind] : r.known <= q.cutoff}
     ELSE IF kind \in FactKinds THEN VisibleFacts(q, c, kind) ELSE c[kind]]

\* Records that became known after the cutoff of a query do not change its
\* result: the resolver filters every collection by its knowledge time.
FutureCannotChangeHistory ==
  \A q \in Queries :
    LET m == Manifest(q, archive, q.cutoff, TRUE, ManifestEvidence)
    IN  Results(q, archive, m, {}) = Results(q, KnownBy(q, archive), m, {})

\* A session is never read from a version that a visible, effective
\* correction replaces when every valid assessment known by then authorises
\* that correction.
CorrectionHonoured ==
  \A q \in Queries :
    LET m == Manifest(q, archive, q.cutoff, TRUE, ManifestEvidence)
        corrected(id) ==
          \E w \in Effective(q, archive) :
            LET known == {a \in archive.corrections :
                            /\ a.successor = w.id /\ a.predecessor = id
                            /\ a.known <= q.cutoff /\ a.evaluated <= q.evaluation
                            /\ a.valid}
            IN  w.supersedes = {id} /\ known # {} /\ \A a \in known : a.authorized
    IN  \A r \in Established(q, archive, m, {}) : \A id \in r.version : ~ corrected(id)

\* A session is resolved from what was known at the cutoff: later records
\* cannot change the answer, it is unique, and a visible correction is honoured.
ResolutionSound == FutureCannotChangeHistory /\ EstablishedIsUnique /\ CorrectionHonoured

=============================================================================
