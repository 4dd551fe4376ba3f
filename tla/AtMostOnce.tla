----------------------------- MODULE AtMostOnce -----------------------------
(***************************************************************************)
(* What the serializable envelope promises its callers, without attempts,  *)
(* connections, deadlines or commits: every operation has at most one      *)
(* durable outcome, the outcome never changes, a definite reply is that    *)
(* outcome, and a call that was refused has no effect afterwards.          *)
(***************************************************************************)
CONSTANTS
  Calls,      \* calls of execute, each for one request
  Ops,        \* operation identities
  OpOf,       \* [Calls -> Ops]
  Promised,   \* Promised[c] is the set of outcomes call c may make durable
  NoOutcome   \* the operation has no durable outcome yet

VARIABLES
  decided,    \* decided[o]: NoOutcome, or which call made which outcome durable
  reply       \* reply[c]: "waiting", "unknown" (it may have had an effect),
              \* "refused" (it had none), or "answered" with an outcome

avars == <<decided, reply>>

Without(kind) == [kind |-> kind, out |-> NoOutcome]

AInit ==
  /\ decided = [o \in Ops |-> NoOutcome]
  /\ reply = [c \in Calls |-> Without("waiting")]

\* A call that may still act makes an outcome durable, if there is none.
Decide(c) ==
  /\ reply[c].kind \in {"waiting", "unknown"}
  /\ decided[OpOf[c]] = NoOutcome
  /\ \E out \in Promised[c] :
       decided' = [decided EXCEPT ![OpOf[c]] = [by |-> c, out |-> out]]
  /\ UNCHANGED reply

\* A definite answer is the durable outcome of the operation.
Answer(c) ==
  /\ reply[c].kind = "waiting"
  /\ decided[OpOf[c]] # NoOutcome
  /\ reply' = [reply EXCEPT ![c] = [kind |-> "answered", out |-> decided[OpOf[c]].out]]
  /\ UNCHANGED decided

\* The call gives up without knowing.
GiveUp(c) ==
  /\ reply[c].kind = "waiting"
  /\ reply' = [reply EXCEPT ![c] = Without("unknown")]
  /\ UNCHANGED decided

\* The call is refused, which it may be only if it had no effect.
Refuse(c) ==
  /\ reply[c].kind = "waiting"
  /\ decided[OpOf[c]] # NoOutcome => decided[OpOf[c]].by # c
  /\ reply' = [reply EXCEPT ![c] = Without("refused")]
  /\ UNCHANGED decided

ANext == \E c \in Calls : Decide(c) \/ Answer(c) \/ GiveUp(c) \/ Refuse(c)

ASpec == AInit /\ [][ANext]_avars
=============================================================================
