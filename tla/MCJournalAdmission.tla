------------------------ MODULE MCJournalAdmission --------------------------
(***************************************************************************)
(* The recovery journal and the G00 gate, which share nothing: a behaviour *)
(* is of one of them, and the other stays as it is.  Two admitters, two    *)
(* publishers, and receipts below, between and above the cutovers.         *)
(***************************************************************************)
EXTENDS RecoveryJournal, G00Admission, TLC

CONSTANTS r1, r2, r3, k1, k2

VARIABLE scenario  \* the component this behaviour is of

MCTicketOf == r1 :> 0 @@ r2 :> 1 @@ r3 :> 2
MCKeyOf == r1 :> k1 @@ r2 :> k1 @@ r3 :> k2

MCInit == scenario \in {"journal", "gate"} /\ Init /\ G00Init

MCNext ==
  \/ scenario = "journal" /\ Next /\ UNCHANGED <<g00vars, scenario>>
  \/ scenario = "gate" /\ G00Next /\ UNCHANGED <<vars, scenario>>

MCSpec == MCInit /\ [][MCNext]_<<vars, g00vars, scenario>>

Symmetry == Permutations(Nonces) \cup Permutations(Callers)
=============================================================================
