---------------------------- MODULE MCPoolThreads ----------------------------
(* WorkerPool on small instances: two attempts, one attempt submitted twice, *)
(* and one attempt with a restart.                                           *)
EXTENDS WorkerPool, TLC

CONSTANTS o1, a1, a2, x1, x2, r1, r2, s1

\* Two attempts of one operation, one receipt each
MCCommandOf == (r1 :> <<o1, a1>>) @@ (r2 :> <<o1, a2>>)
MCTicketOf == (r1 :> 0) @@ (r2 :> 1)
MCContentOf == [r \in {r1, r2} |-> x1]
MCKeyOf == [r \in {r1, r2} |-> s1]

\* One attempt submitted twice, the second time with another content
MCCommandOf2 == [r \in {r1, r2} |-> <<o1, a1>>]
MCTicketOf2 == [r \in {r1, r2} |-> 0]
MCContentOf2 == (r1 :> x1) @@ (r2 :> x2)

\* One attempt
MCCommandOf1 == r1 :> <<o1, a1>>
MCTicketOf1 == r1 :> 0
MCContentOf1 == r1 :> x1
MCKeyOf1 == r1 :> s1

MCSymmetry == Permutations(Callers) \cup Permutations(Workers) \cup Permutations(Nonces)
=============================================================================
