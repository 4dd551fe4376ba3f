-------------------- MODULE MCAuthority --------------------
(***************************************************************************)
(* The authority host with its registry witness.  A behaviour is of one    *)
(* scenario: the publication of transitions, the owner's key changes, or   *)
(* the Runtime's admissions and fences.                                    *)
(***************************************************************************)
EXTENDS AuthorityWitness, TLC

CONSTANTS
  a1, a2, c1, c2, c3, c4, k1, k2

VARIABLES
  scenario  \* the instance this behaviour is of

mcVars == <<vars, scenario>>

\* The windows of the two authorities, and the snapshots the Runtime may hold
TwoWindows == [a \in {a1, a2} |-> IF a = a1 THEN [from |-> 0, until |-> 2]
                                  ELSE [from |-> 1, until |-> 3]]
TwoSnapshots == {[ver |-> 1, terms |-> a1, until |-> 2], [ver |-> 2, terms |-> a2, until |-> 3]}
OneSnapshot == {[ver |-> 1, terms |-> a1, until |-> 3]}

-----------------------------------------------------------------------------
KeyChanges == INSTANCE AuthorityWitness WITH
  Cmds <- {c1, c2, c3}, Callers <- {"owner"}, MaxSeq <- 3, MaxFaults <- 1

RuntimeReads == INSTANCE AuthorityWitness WITH
  Cmds <- {c1}, Snapshots <- TwoSnapshots, Times <- {0, 1, 2},
  Callers <- {"management", "runtime"}, Restores <- 0

MCInit ==
  \/ scenario = "publication" /\ Init
  \/ scenario = "keys" /\ KeyChanges!Init
  \/ scenario = "runtime" /\ RuntimeReads!Init

MCNext ==
  \/ scenario = "publication" /\ Next /\ UNCHANGED scenario
  \/ scenario = "keys" /\ KeyChanges!Next /\ UNCHANGED scenario
  \/ scenario = "runtime" /\ RuntimeReads!Next /\ UNCHANGED scenario

MCSpec == MCInit /\ [][MCNext]_mcVars

Symmetry == Permutations({c1, c2})

=============================================================================
