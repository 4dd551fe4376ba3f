-------------------- MODULE MCDatasets --------------------
(***************************************************************************)
(* The propagation of dataset invalidations, the physical dataset store    *)
(* and the resolution of calendars.  A behaviour is of one scenario, an    *)
(* instance of one of the three; the others stay as they are.  The store's *)
(* properties need no scenario: while it does not move they hold.          *)
(***************************************************************************)
EXTENDS DatasetStore, TLC

CONSTANTS
  e1, e2, p, q
CONSTANTS
  Catalog, Queries, Claims, MaxCandidates, MaxDepth, MaxEvidence, MaxTime, DayLength

VARIABLES
  edges, limit, trigger, scan, stage, expected, mapping, propagations,
  archive, clock, published, answers,
  scenario  \* the instance this behaviour is of

invalidationVars == <<edges, limit, trigger, scan, stage, expected, mapping,
                      propagations>>
calendarVars == <<archive, clock, published, answers>>
mcVars == <<invalidationVars, vars, calendarVars, scenario>>

\* Every acyclic graph over four nodes in order, each of them also with one
\* further relation; every graph over three; and a chain, a fork and both
Edge(s, t, r) == [s |-> s, t |-> t, rel |-> r]
Forward == {Edge(e[1], e[2], "DERIVES") : e \in {f \in (1..4) \X (1..4) : f[1] < f[2]}}
ForwardGraphs == SUBSET Forward \cup {es \cup {Edge(1, 2, "OBSERVES")} : es \in SUBSET Forward}
AllDigraphs == SUBSET {Edge(s, t, "DERIVES") : s \in 1..3, t \in 1..3}
Diamond == {{Edge(1, 2, "DERIVES"), Edge(1, 3, "DERIVES")},
            {Edge(1, 2, "DERIVES"), Edge(2, 3, "DERIVES")},
            {Edge(1, 2, "DERIVES"), Edge(2, 3, "DERIVES"), Edge(1, 3, "DERIVES")}}
SomeTriggers == {{1}, {2}, {1, 2}, {2, 4}, {1, 9}}
OneTrigger == {{1}}
FewTriggers == {{1}, {1, 9}}
AllLimits == [members : {1, 3}, depth : {1, 2, 3}, events : {3, 6}]
WideLimit == {[members |-> 3, depth |-> 3, events |-> 6]}
TightLimits == {[members |-> 2, depth |-> 3, events |-> e] : e \in {1, 2}}

\* Two versions that share an object, as two versions with one schema do
SomeObjects == <<<<"a", "s">>, <<"b", "s", "t">>>>
TwoRequests == {{e1}, {e2}}
NoneOrOne == {{}, {e1}}
OneRequest == {{e1}}
SmallReader == p :> 4 @@ q :> 2

\* The archive starts with one version that has a complete, current, regular
\* day; what may be published corrects it, contradicts it and assesses it
Rule == [id |-> 1, content |-> 1, valid |-> TRUE, evidence |-> {"rule"}]

Version(id, known, from, supersedes) ==
  [id |-> id, calendar |-> 1, scope |-> 1, from |-> from, to |-> 9, known |-> known,
   valid |-> TRUE, rule |-> Rule, supersedes |-> supersedes, evidence |-> {"version"},
   correction |-> IF supersedes = {} THEN {} ELSE {"correction"}]

Coverage(version, from, to, known) ==
  [calendar |-> 1, version |-> version, from |-> from, to |-> to, known |-> known,
   state |-> "COVERED", valid |-> TRUE, evidence |-> {"coverage"}]

Day(version, regular) ==
  [calendar |-> 1, version |-> version, date |-> 1, regular |-> regular,
   valid |-> TRUE, evidence |-> {"day"}]

Session(version, close) ==
  [calendar |-> 1, version |-> version, date |-> 1, valid |-> TRUE, rule |-> Rule,
   open |-> [minute |-> 2, offset |-> {1}], close |-> [minute |-> close, offset |-> {1}],
   utcOpen |-> DayLength + 1, utcClose |-> DayLength + close - 1,
   evidence |-> {"session"}]

Correction(successor, predecessor, known, evaluated, authorized, evidence) ==
  [calendar |-> 1, successor |-> successor, predecessor |-> predecessor, known |-> known,
   evaluated |-> evaluated, authorized |-> authorized, valid |-> TRUE, evidence |-> {evidence}]

Current(version, known, state, from) ==
  [calendar |-> 1, version |-> version, known |-> known, state |-> state, from |-> from,
   to |-> 9, valid |-> TRUE, evidence |-> {"current"}]

OneDay ==
  [versions |-> {Version(1, 1, 1, {})}, coverages |-> {Coverage(1, 1, 3, {})},
   days |-> {Day(1, TRUE)}, sessions |-> {Session(1, 4)},
   corpora |-> {[id |-> 1, content |-> 1]}, corrections |-> {},
   currents |-> {Current(1, 1, "CURRENT", 1), Current(2, 1, "CURRENT", 1)}]

\* A correction that closes the day, one that branches, one of the correction,
\* and an ill-formed root.
Catalogue ==
  [versions |-> {Version(2, 2, 1, {1}), Version(3, 2, 1, {1}), Version(2, 3, 2, {1}),
                 [Version(4, 2, 1, {}) EXCEPT !.correction = {"correction"}]},
   coverages |-> {Coverage(2, 1, 3, {}), Coverage(1, 1, 2, {3})},
   days |-> {Day(2, FALSE), Day(1, FALSE)},
   sessions |-> {Session(2, 4), Session(1, 3)},
   corpora |-> {[id |-> 1, content |-> 2]},
   corrections |-> {Correction(2, 1, 2, 2, TRUE, "board"), Correction(2, 1, 2, 3, FALSE, "board"),
                    Correction(2, 1, 3, 2, TRUE, "board"), Correction(2, 1, 2, 2, TRUE, "correction")},
   currents |-> {Current(1, 2, "STALE", 2), Current(1, 2, "CURRENT", 2)}]

\* The archive of a corrected day, and what may still be added to it.
CorrectedDay ==
  [OneDay EXCEPT
     !.versions = @ \union {Version(2, 2, 1, {1})},
     !.coverages = @ \union {Coverage(2, 1, 3, {})},
     !.days = @ \union {Day(2, FALSE)}]

\* One question as known at the second instant, asked at two evaluation times,
\* and two as known at the first, one of them about a date with no day.
FourQueries ==
  [calendar : {1}, date : {1}, effective : {1}, cutoff : {2}, evaluation : {2, 3}]
    \union [calendar : {1}, date : {1, 2}, effective : {2}, cutoff : {1}, evaluation : {3}]

TwoClaims == {[known |-> 1, valid |-> TRUE], [known |-> 3, valid |-> TRUE]}

-----------------------------------------------------------------------------
AffectedScope == INSTANCE DatasetInvalidation WITH
  Nodes <- {1, 2, 3, 4}, Graphs <- ForwardGraphs, Triggers <- SomeTriggers,
  Limits <- AllLimits, Datasets <- {}, MapCap <- 0, RecordCap <- 0,
  records <- propagations

GraphChecks == INSTANCE DatasetInvalidation WITH
  Nodes <- {1, 2, 3}, Graphs <- AllDigraphs, Triggers <- OneTrigger,
  Limits <- WideLimit, Datasets <- {}, MapCap <- 0, RecordCap <- 0,
  records <- propagations

Propagation == INSTANCE DatasetInvalidation WITH
  Nodes <- {1, 2, 3}, Graphs <- Diamond, Triggers <- FewTriggers,
  Limits <- TightLimits, Datasets <- {11, 12}, MapCap <- 2, RecordCap <- 4,
  records <- propagations

Damaged == INSTANCE DatasetStore WITH
  Requests <- NoneOrOne, CallCap <- 3, DamageCap <- 1

Archive == INSTANCE CalendarResolution WITH
  Initial <- OneDay, MaxPublished <- 2

Corrected == INSTANCE CalendarResolution WITH
  Initial <- CorrectedDay, MaxPublished <- 3

MCInit ==
  \/ scenario = "scope" /\ AffectedScope!Init /\ Init /\ Archive!Init
  \/ scenario = "graph" /\ GraphChecks!Init /\ Init /\ Archive!Init
  \/ scenario = "records" /\ Propagation!Init /\ Init /\ Archive!Init
  \/ scenario = "calls" /\ Init /\ GraphChecks!Init /\ Archive!Init
  \/ scenario = "damage" /\ Damaged!Init /\ GraphChecks!Init /\ Archive!Init
  \/ scenario = "archive" /\ Archive!Init /\ GraphChecks!Init /\ Init
  \/ scenario = "corrected" /\ Corrected!Init /\ GraphChecks!Init /\ Init

MCNext ==
  \/ scenario = "scope" /\ AffectedScope!Next /\ UNCHANGED <<vars, calendarVars, scenario>>
  \/ scenario = "graph" /\ GraphChecks!Next /\ UNCHANGED <<vars, calendarVars, scenario>>
  \/ scenario = "records" /\ Propagation!Next /\ UNCHANGED <<vars, calendarVars, scenario>>
  \/ scenario = "calls" /\ Next /\ UNCHANGED <<invalidationVars, calendarVars, scenario>>
  \/ scenario = "damage" /\ Damaged!Next /\ UNCHANGED <<invalidationVars, calendarVars, scenario>>
  \/ scenario = "archive" /\ Archive!Next /\ UNCHANGED <<invalidationVars, vars, scenario>>
  \/ scenario = "corrected" /\ Corrected!Next /\ UNCHANGED <<invalidationVars, vars, scenario>>

MCSpec == MCInit /\ [][MCNext]_mcVars

-----------------------------------------------------------------------------
(* The assessment of an invalidation is exact: a scope called complete is    *)
(* what can be reached, one called unknown has a limit or an unknown root as *)
(* its cause, and the graph behind both is acyclic.                          *)
AssessmentExact ==
  /\ scenario = "scope" => AffectedScope!AssessmentExact
  /\ scenario = "graph" => GraphChecks!AssessmentExact

(* Propagation records are sound: current means that every member was        *)
(* processed, evidenced progress is kept, and no record is a dead end.       *)
PropagationSound == scenario = "records" => Propagation!PropagationSound

\* A session is resolved from what was known at the cutoff: later records
\* cannot change the answer, it is unique, and a visible correction is honoured.
ResolutionSound ==
  /\ scenario = "archive" => Archive!ResolutionSound
  /\ scenario = "corrected" => Corrected!ResolutionSound
=============================================================================
