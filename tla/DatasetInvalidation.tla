-------------------------- MODULE DatasetInvalidation --------------------------
(***************************************************************************)
(* datasets/provenance.py, currentness.py and lifecycle.py: a dependency   *)
(* graph is built, a correction invalidates some of its nodes, the nodes   *)
(* derived from them are found by a bounded traversal, the dataset         *)
(* versions behind those nodes become an affected set, and propagation     *)
(* records tell how far the work on that set has come.  A dataset version  *)
(* is current only as far as those records allow.                          *)
(*                                                                         *)
(* Identities are content digests; a value stands for its identity.  Node  *)
(* identities are naturals in the order the code sorts them.  Records are  *)
(* kept in the order they were made; the predecessor of one is its place.  *)
(***************************************************************************)
EXTENDS Naturals, FiniteSets, Sequences, SequencesExt

CONSTANTS
    Nodes,        \* provenance node identities, naturals
    Graphs,       \* edge sets offered to build_dependency_graph
    Triggers,     \* sets of changed node identities, unknown ones included
    Limits,       \* resource policies: [members, depth, events]
    Datasets,     \* dataset version identities, naturals
    MapCap,       \* bound: nodes of the mappings a caller offers
    RecordCap     \* bound: propagation records made

VARIABLES
    edges,        \* the validated graph: edges [s, t, rel]
    limit,        \* the resource policy in force
    trigger,      \* changed nodes of the invalidation under way
    scan,         \* the traversal: [queue, todo, at, events, visited, affected, stop]
    stage,        \* "build", "graph", "scan", "assessed", "affected", "event"
    expected,     \* dataset versions of the affected set, and of the event
    mapping,      \* node -> dataset version behind it
    records       \* propagation records

vars == <<edges, limit, trigger, scan, stage, expected, mapping, records>>

Progressing == {"NOT_STARTED", "IN_PROGRESS"}
Restrictive == {"FAILED", "NOT_ESTABLISHED"}
States == Progressing \cup Restrictive \cup {"COMPLETE"}

NoScan == [queue |-> <<>>, todo |-> <<>>, at |-> 0, events |-> 0,
           visited |-> {}, affected |-> {}, stop |-> ""]

Init ==
    /\ edges = {}
    /\ limit \in Limits
    /\ trigger = {}
    /\ scan = NoScan
    /\ stage = "build"
    /\ expected = {}
    /\ mapping = <<>>
    /\ records = <<>>

-----------------------------------------------------------------------------
(* build_dependency_graph() *)

(* What is left of the nodes after each round of removing those no edge    *)
(* enters; the sorted ready list only fixes the order within a round.      *)
Acyclic(es) ==
    LET left[i \in 0..Cardinality(Nodes)] ==
            IF i = 0 THEN Nodes
            ELSE {n \in left[i - 1] : \E e \in es : e.t = n /\ e.s \in left[i - 1]}
    IN  left[Cardinality(Nodes)] = {}

Build(es) ==
    /\ stage = "build"
    /\ \A e \in es : e.s \in Nodes /\ e.t \in Nodes
    /\ Acyclic(es)
    /\ edges' = es
    /\ stage' = "graph"
    /\ UNCHANGED <<limit, trigger, scan, expected, mapping, records>>

-----------------------------------------------------------------------------
(* assess_invalidation() *)

Sorted(S) == SetToSortSeq(S, <)

EdgeBefore(e, f) == e.t < f.t \/ (e.t = f.t /\ e.rel = "DERIVES" /\ f.rel # "DERIVES")

Outgoing(n) == SetToSortSeq({e \in edges : e.s = n}, EdgeBefore)

Assess(changed) ==
    /\ stage = "graph"
    /\ changed # {}
    /\ LET roots == changed \cap Nodes
       IN  scan' = [NoScan EXCEPT
                      !.queue = [i \in DOMAIN Sorted(roots) |-> <<Sorted(roots)[i], 0>>],
                      !.visited = roots]
    /\ trigger' = changed
    /\ stage' = "scan"
    /\ UNCHANGED <<edges, limit, expected, mapping, records>>

(* The next node of the queue is taken up. *)
TakeNode_Skips ==
    LET head == Head(scan.queue)
    IN  IF Outgoing(head[1]) # <<>> /\ head[2] >= limit.depth
        THEN [scan EXCEPT !.queue = Tail(@)]
        ELSE [scan EXCEPT !.queue = Tail(@), !.todo = Outgoing(head[1]), !.at = head[2]]

TakeNode ==
    LET head == Head(scan.queue)
    IN  IF Outgoing(head[1]) # <<>> /\ head[2] >= limit.depth
        THEN [scan EXCEPT !.queue = Tail(@), !.stop = "DEPTH"]
        ELSE [scan EXCEPT !.queue = Tail(@), !.todo = Outgoing(head[1]), !.at = head[2]]

(* One edge of the node at hand. *)
TakeEdge ==
    LET e == Head(scan.todo)
        counted == [scan EXCEPT !.todo = Tail(@), !.events = @ + 1]
    IN  IF counted.events > limit.events THEN [counted EXCEPT !.stop = "EVENTS"]
        ELSE IF e.rel # "DERIVES" THEN [counted EXCEPT !.stop = "RELATION"]
        ELSE IF e.t \in scan.visited THEN counted
        ELSE IF Cardinality(scan.affected) >= limit.members
             THEN [counted EXCEPT !.stop = "MEMBERS"]
        ELSE [counted EXCEPT !.visited = @ \cup {e.t},
                             !.affected = @ \cup {e.t},
                             !.queue = Append(@, <<e.t, scan.at + 1>>)]

Scanning == scan.stop = "" /\ (scan.todo # <<>> \/ scan.queue # <<>>)

Traverse ==
    /\ stage = "scan"
    /\ Scanning
    /\ scan' = IF scan.todo # <<>> THEN TakeEdge ELSE TakeNode
    /\ UNCHANGED <<edges, limit, trigger, stage, expected, mapping, records>>

Unresolved == trigger \ Nodes # {}

EstablishesCompleteScope == ~Unresolved /\ scan.stop = ""

Assessed ==
    /\ stage = "scan"
    /\ ~Scanning
    /\ stage' = "assessed"
    /\ UNCHANGED <<edges, limit, trigger, scan, expected, mapping, records>>

-----------------------------------------------------------------------------
(* create_affected_set() and create_invalidation_event() *)

(* The mappings are exactly one for each affected node, and no two nodes   *)
(* stand for one dataset version.                                          *)
MapsExactly(m) ==
    /\ DOMAIN m = scan.affected
    /\ Cardinality({m[n] : n \in DOMAIN m}) = Cardinality(DOMAIN m)

CreateAffectedSet_Partial(m) ==
    /\ stage = "assessed"
    /\ Cardinality(scan.affected) <= limit.members
    /\ MapsExactly(m)
    /\ expected' = {m[n] : n \in DOMAIN m}
    /\ mapping' = m
    /\ stage' = "affected"
    /\ UNCHANGED <<edges, limit, trigger, scan, records>>

CreateAffectedSet(m) ==
    /\ stage = "assessed"
    /\ EstablishesCompleteScope
    /\ Cardinality(scan.affected) <= limit.members
    /\ MapsExactly(m)
    /\ expected' = {m[n] : n \in DOMAIN m}
    /\ mapping' = m
    /\ stage' = "affected"
    /\ UNCHANGED <<edges, limit, trigger, scan, records>>

(* The event takes over the versions, graph and policy of the set. *)
CreateInvalidationEvent ==
    /\ stage = "affected"
    /\ stage' = "event"
    /\ UNCHANGED <<edges, limit, trigger, scan, expected, mapping, records>>

-----------------------------------------------------------------------------
(* Propagation records *)

Record(processed, state, pred, evidence) ==
    [processed |-> processed, state |-> state, pred |-> pred, evidence |-> evidence]

(* _build_propagation_record() *)
Buildable(r) ==
    /\ r.processed \subseteq expected
    /\ Cardinality(r.processed) <= limit.events
    /\ r.evidence \/ r.state = "NOT_ESTABLISHED"
    /\ r.state = "NOT_STARTED" => r.processed = {}
    /\ r.state = "COMPLETE" <=> r.processed = expected

(* A record with the content of an earlier one is that record. *)
Keep(r) ==
    /\ Buildable(r)
    /\ records' = IF r \in ToSet(records) THEN records ELSE Append(records, r)
    /\ Len(records') <= RecordCap
    /\ UNCHANGED <<edges, limit, trigger, scan, stage, expected, mapping>>

CreateRecord ==
    /\ stage = "event"
    /\ Keep(Record({}, IF expected = {} THEN "COMPLETE" ELSE "NOT_STARTED", 0, TRUE))

MayFollow(from, to) ==
    \/ from = "NOT_STARTED" /\ to \in {"IN_PROGRESS"} \cup Restrictive
    \/ from = "IN_PROGRESS" /\ to \in {"IN_PROGRESS", "COMPLETE"} \cup Restrictive

(* advance_propagation(), up to the record it builds *)
Advances(old, processed, to) ==
    /\ MayFollow(old.state, to)
    /\ processed \subseteq expected
    /\ old.processed \subseteq processed
    /\ ~(old.state = "IN_PROGRESS" /\ to = "IN_PROGRESS" /\ processed = old.processed)

Advance(i, processed, to, evidence) ==
    /\ stage = "event"
    /\ Advances(records[i], processed, to)
    /\ Keep(Record(processed, to, i, evidence))

(* restart_propagation(): the progress of a record that was never          *)
(* evidenced is not carried over.                                          *)
Restart(i) ==
    LET old == records[i]
        carry == ~(old.state = "NOT_ESTABLISHED" /\ ~old.evidence)
    IN  /\ stage = "event"
        /\ old.state \in Restrictive
        /\ Keep(Record(IF carry THEN old.processed ELSE {}, "IN_PROGRESS", i, TRUE))

Mappings ==
    UNION {[S -> Datasets] : S \in {T \in SUBSET Nodes : Cardinality(T) <= MapCap}}

Next ==
    \/ \E es \in Graphs : Build(es)
    \/ \E c \in Triggers : Assess(c)
    \/ Traverse
    \/ Assessed
    \/ \E m \in Mappings : CreateAffectedSet(m)
    \/ CreateInvalidationEvent
    \/ CreateRecord
    \/ \E i \in DOMAIN records, p \in SUBSET expected, s \in States, ev \in BOOLEAN :
          Advance(i, p, s, ev)
    \/ \E i \in DOMAIN records : Restart(i)

Spec == Init /\ [][Next]_vars

-----------------------------------------------------------------------------
(* bind_dataset_currentness() and assess_currentness(): read-only *)

(* assess_currentness(): the state at time now of evidence taken at seen,  *)
(* under a horizon; <<>> where there is none.                              *)
FreshnessState(seen, horizon, now) ==
    IF seen = <<>> \/ horizon = <<>> THEN "UNKNOWN"
    ELSE IF now < seen[1] + horizon[1] THEN "CURRENT" ELSE "STALE"

(* _validate_applicable_propagation() *)
Applicable(r) == r.state = "COMPLETE" => r.processed = expected

(* _lifecycle_currentness_state() *)
LifecycleState(d, base, r) ==
    IF base # "CURRENT" THEN base
    ELSE IF d \notin expected THEN "CURRENT"
    ELSE IF r = <<>> \/ r[1].state # "COMPLETE" THEN "UNKNOWN"
    ELSE "CURRENT"

(* bind_dataset_currentness() with a record, or "REFUSED" *)
Bind(d, seen, horizon, now, r) ==
    IF ~Applicable(r) THEN "REFUSED"
    ELSE LifecycleState(d, FreshnessState(seen, horizon, now), <<r>>)

-----------------------------------------------------------------------------
(* Properties *)

(* Every value is of its kind, and every record names an earlier one. *)
TypeOK ==
    /\ limit \in Limits
    /\ stage \in {"build", "graph", "scan", "assessed", "affected", "event"}
    /\ scan.affected \subseteq scan.visited
    /\ scan.visited \subseteq Nodes
    /\ expected \subseteq Datasets
    /\ \A i \in DOMAIN records :
          /\ records[i].state \in States
          /\ records[i].processed \subseteq expected
          /\ records[i].pred < i

(* The reference: what the edges reach from a set of nodes. *)
Reached(from) ==
    LET grow[i \in 0..Cardinality(Nodes)] ==
            IF i = 0 THEN {e.t : e \in {f \in edges : f.s \in from}}
            ELSE grow[i - 1] \cup {e.t : e \in {f \in edges : f.s \in grow[i - 1]}}
    IN  grow[Cardinality(Nodes)]

(* build_dependency_graph() accepts no graph in which a node is derived,   *)
(* over any number of edges, from itself.                                  *)
GraphAcyclic == \A n \in Nodes : n \notin Reached({n})

(* assess_invalidation() claims a complete scope only when every trigger   *)
(* is in the graph and every node the changed ones reach, and no other, is *)
(* in the affected set.  No limit, relation or order of edges makes it     *)
(* complete with a node left out.                                          *)
CompleteIsExact ==
    stage = "assessed" /\ EstablishesCompleteScope =>
        /\ trigger \subseteq Nodes
        /\ scan.affected = Reached(trigger) \ trigger

(* assess_invalidation() does not give up within its limits: a scope it    *)
(* leaves unknown has an unresolved trigger, a relation it does not        *)
(* understand, or really goes past one of the three limits.                *)
UnknownHasCause ==
    stage = "assessed" /\ ~EstablishesCompleteScope =>
        \/ trigger \ Nodes # {}
        \/ \E e \in edges : e.s \in trigger \cup Reached(trigger) /\ e.rel # "DERIVES"
        \/ Cardinality(Reached(trigger) \ trigger) > limit.members
        \/ Cardinality({e \in edges : e.s \in trigger \cup Reached(trigger)}) > limit.events
        \/ scan.stop = "DEPTH" /\ Cardinality(Reached(trigger)) > limit.depth

(* bind_dataset_currentness() calls a dataset version behind a node that   *)
(* the changed nodes reach current only on a record that has processed     *)
(* every such version: a partial traversal, affected set or propagation    *)
(* never makes one current.                                                *)
CurrentMeansPropagated ==
    stage = "event" =>
        \A n \in DOMAIN mapping, i \in DOMAIN records :
            n \in Reached(trigger) /\ Bind(mapping[n], <<0>>, <<2>>, 1, records[i]) = "CURRENT"
            => \A k \in Reached(trigger) \ trigger :
                   k \in DOMAIN mapping /\ mapping[k] \in records[i].processed

(* A propagation can always be finished: advance_propagation() accepts the *)
(* way from every record that is not final to a COMPLETE one.  The limit   *)
(* on a run's events is also the traversal's, so an affected set that was  *)
(* found is never too large to be propagated.                              *)
NoDeadEnd ==
    \A i \in DOMAIN records :
        LET step(p, s) == Advances(records[i], p, s) /\ Buildable(Record(p, s, i, TRUE))
        IN  /\ records[i].state = "NOT_STARTED" => step({}, "IN_PROGRESS")
            /\ records[i].state = "IN_PROGRESS" => step(expected, "COMPLETE")

(* Work done is not forgotten: a dataset version processed in a record is  *)
(* processed in every record that follows from it, unless in between       *)
(* propagation was restarted from one that had no evidence.                *)
ProgressKept ==
    \A i \in DOMAIN records :
        LET pred == records[i].pred
        IN  pred # 0 =>
              \/ records[pred].processed \subseteq records[i].processed
              \/ records[pred].state = "NOT_ESTABLISHED" /\ ~records[pred].evidence

(* The assessment of an invalidation is exact: a scope called complete is    *)
(* what can be reached, one called unknown has a limit or an unknown root as *)
(* its cause, and the graph behind both is acyclic.                          *)
AssessmentExact == CompleteIsExact /\ UnknownHasCause /\ (stage = "graph" => GraphAcyclic)

(* Propagation records are sound: current means that every member was        *)
(* processed, evidenced progress is kept, and no record is a dead end.       *)
PropagationSound == CurrentMeansPropagated /\ NoDeadEnd /\ ProgressKept

=============================================================================
