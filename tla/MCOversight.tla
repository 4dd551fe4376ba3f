-------------------- MODULE MCOversight --------------------
(***************************************************************************)
(* Research governance and the operator console's snapshots.  A behaviour  *)
(* is of one scenario, an instance of one of the two; the other stays as   *)
(* it is.  The snapshots' properties need no scenario: while they do not   *)
(* move they hold.                                                         *)
(***************************************************************************)
EXTENDS SnapshotStore, TLC

CONSTANTS
  g1, m1, p1, p2, q1, q2, r1, r2, r3, w1, w2, root, wider

VARIABLES
  journal, temporary, trusted, checkpoint, govPc, pending, sequence, verdict,
  restores, govCrashes,
  scenario  \* the instance this behaviour is of

governanceVars == <<journal, temporary, trusted, checkpoint, govPc, pending,
                    sequence, verdict, restores, govCrashes>>
mcVars == <<governanceVars, storeVars, scenario>>

\* root is the first plan, wider expands its budget
OnePlan == root :> [pred |-> {}, maximum |-> 1, holdout |-> TRUE]
BothPlans == OnePlan @@ wider :> [pred |-> {root}, maximum |-> 2, holdout |-> TRUE]
OneRun == r1 :> {}
ThreeRuns == r1 :> {} @@ r2 :> {} @@ r3 :> {}
PlanApprovals ==
  {<<root, "S4_08_PLAN_APPROVAL">>, <<wider, "S4_08_BUDGET_EXPANSION">>}
AllApprovals ==
  PlanApprovals \cup {<<root, "S4_08_HOLDOUT_ACCESS">>, <<wider, "S4_08_HOLDOUT_ACCESS">>}

\* A reconciled result, one with the same code for two subjects, and one that
\* contradicts itself
Reconciled == [state |-> "RECONCILED", found |-> <<>>, performance |-> TRUE]
Broken == [state |-> "UNRECONCILED", found |-> <<"CASH", "POSITION", "CASH">>,
           performance |-> FALSE]
Contradictory == [state |-> "RECONCILED", found |-> <<"CASH">>, performance |-> TRUE]
First == [result |-> Reconciled, observed |-> 1, produced |-> 1, evaluated |-> 1, published |-> 1]
Later == [result |-> Broken, observed |-> 1, produced |-> 2, evaluated |-> 2, published |-> 2]
Again == [First EXCEPT !.evaluated = 2, !.published = 2]
Refused == [First EXCEPT !.result = Contradictory]
FourPublications == {First, Later, Again, Refused}

Reader == [since |-> 1, until |-> 3, permitted |-> TRUE]
Expiring == [since |-> 1, until |-> 2, permitted |-> TRUE]
Visitor == [since |-> 1, until |-> 3, permitted |-> FALSE]
TwoPrincipals == {Reader, Expiring}
ThreePrincipals == {Reader, Expiring, Visitor}

-----------------------------------------------------------------------------
TwoWriters == INSTANCE ResearchGovernance WITH
  Callers <- {p1, p2}, PlanData <- OnePlan, ReplayOf <- OneRun, Requests <- {q1},
  Marks <- {}, Approvals <- AllApprovals, MaxEvents <- 4, MaxCheckpoints <- 1,
  MaxRestores <- 0, MaxCrashes <- 1, pc <- govPc, crashes <- govCrashes

Budget == INSTANCE ResearchGovernance WITH
  Callers <- {p1}, PlanData <- BothPlans, ReplayOf <- ThreeRuns, Requests <- {},
  Marks <- {}, Approvals <- PlanApprovals, MaxEvents <- 5, MaxCheckpoints <- 1,
  MaxRestores <- 0, MaxCrashes <- 1, pc <- govPc, crashes <- govCrashes

Evidence == INSTANCE ResearchGovernance WITH
  Callers <- {p1}, PlanData <- OnePlan, ReplayOf <- OneRun, Requests <- {q1},
  Marks <- {m1}, Approvals <- AllApprovals, MaxEvents <- 7, MaxCheckpoints <- 2,
  MaxRestores <- 0, MaxCrashes <- 0, pc <- govPc, crashes <- govCrashes

Restore == INSTANCE ResearchGovernance WITH
  Callers <- {p1}, PlanData <- OnePlan, ReplayOf <- OneRun, Requests <- {q1, q2},
  Marks <- {}, Approvals <- AllApprovals, MaxEvents <- 4, MaxCheckpoints <- 1,
  MaxRestores <- 1, MaxCrashes <- 1, pc <- govPc, crashes <- govCrashes

Gateway == INSTANCE SnapshotStore WITH
  Times <- {1, 2}, Principals <- ThreePrincipals, MaxCrashes <- 0, MaxFaults <- 0,
  MaxCorruptions <- 1

MCInit ==
  \/ scenario = "writers" /\ TwoWriters!Init /\ Init
  \/ scenario = "budget" /\ Budget!Init /\ Init
  \/ scenario = "evidence" /\ Evidence!Init /\ Init
  \/ scenario = "restore" /\ Restore!Init /\ Init
  \/ scenario = "snapshots" /\ Init /\ TwoWriters!Init
  \/ scenario = "gateway" /\ Gateway!Init /\ TwoWriters!Init

MCNext ==
  \/ scenario = "writers" /\ TwoWriters!Next /\ UNCHANGED <<storeVars, scenario>>
  \/ scenario = "budget" /\ Budget!Next /\ UNCHANGED <<storeVars, scenario>>
  \/ scenario = "evidence" /\ Evidence!Next /\ UNCHANGED <<storeVars, scenario>>
  \/ scenario = "restore" /\ Restore!Next /\ UNCHANGED <<storeVars, scenario>>
  \/ scenario = "snapshots" /\ Next /\ UNCHANGED <<governanceVars, scenario>>
  \/ scenario = "gateway" /\ Gateway!Next /\ UNCHANGED <<governanceVars, scenario>>
  \/ scenario \in {"writers", "budget", "evidence", "restore"} /\ UNCHANGED mcVars  \* these may stop

MCSpec == MCInit /\ [][MCNext]_mcVars

Symmetry == Permutations({w1, w2})

-----------------------------------------------------------------------------
\* Evidence is earned under the plan: the history is one recover() accepts, an
\* admitted trial is within its budget, one exposure is authorized per plan, and
\* confirmatory evidence rests on a clean one.  After a restore, an assessment other
\* than ineligible rests on exactly the history an accepted checkpoint covers, never
\* on the restored directory (assess_evidence).
EvidenceEarned ==
  /\ scenario = "writers" => TwoWriters!EvidenceEarned
  /\ scenario = "budget" => Budget!EvidenceEarned
  /\ scenario = "evidence" => Evidence!EvidenceEarned
  /\ scenario = "restore" => Restore!EvidenceEarned /\ Restore!VerdictCheckpointed
=============================================================================
