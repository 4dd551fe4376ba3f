------------------------- MODULE PortfolioController -------------------------
(***************************************************************************)
(* EngineeringPortfolioController as a store: numbered records, a head that  *)
(* names the accepted one, acknowledgement witnesses, and a lock file, used  *)
(* by several processes that retry their commands.  What the commands do is  *)
(* in PortfolioBooks; here a command adds to a balance that must not become  *)
(* negative, so that _transition may refuse it.                              *)
(*                                                                           *)
(* A state digest covers the whole history, so a head, a record and an       *)
(* acknowledgement are modelled by the history of commands they stand for.   *)
(***************************************************************************)
EXTENDS Integers, Sequences, Functions

CONSTANTS Procs,        \* processes with a controller
          Commands,     \* set of [id, amount]: what callers propose
          MaxAccepted,  \* bound: accepted commands
          MaxReturned,  \* bound: proposals that were answered
          MaxCrashes,   \* bound: interruptions
          MaxRollbacks  \* bound: older heads put back

\* The lock names a process, nobody, or a process that is gone.
ASSUME ControllerAssumption == "" \notin Procs /\ "ORPHAN" \notin Procs /\ MaxAccepted \in Nat

VARIABLES
    records,    \* record file n: <<>> or <<the history that it ends>>
    head,       \* head.json
    acks,       \* the acknowledgement witnesses
    lock,       \* holder of .controller.lock, "" when there is none
    job,        \* [Procs -> [at, command, expected]]
    seen,       \* [Procs -> the history last recovered, <<>> in a new process]
    returned,   \* histories that propose() returned, in order
    crashes, rollbacks

vars == <<records, head, acks, lock, job, seen, returned, crashes, rollbacks>>
store == <<records, head, acks>>
ghosts == <<returned, crashes, rollbacks>>

Idle == [at |-> "IDLE", command |-> <<>>, expected |-> <<>>]
At(p, where) == job[p].at = where
Go(p, where) == job' = [job EXCEPT ![p].at = where]

IsPrefix(s, t) == Len(s) <= Len(t) /\ s = SubSeq(t, 1, Len(s))
Balance(h) == SumFunction([n \in DOMAIN h |-> h[n].amount])
Allowed(h, c) == Balance(Append(h, c)) >= 0
Known(h, c) == {n \in DOMAIN h : h[n].id = c.id}

Recovers_Unwitnessed(p) ==
    /\ \A n \in DOMAIN head : records[n] = <<SubSeq(head, 1, n)>>
    /\ \A m, n \in DOMAIN head : head[m].id = head[n].id => m = n
    /\ Len(head) > Len(seen[p]) \/ head = seen[p]

\* _recover(): the records up to the head replay to it, no identity twice, no witness
\* is ahead of it, and it is not behind what this process has seen.
Recovers(p) ==
    /\ \A n \in DOMAIN head : records[n] = <<SubSeq(head, 1, n)>>
    /\ \A m, n \in DOMAIN head : head[m].id = head[n].id => m = n
    /\ \A a \in acks : IsPrefix(a, head)
    /\ Len(head) > Len(seen[p]) \/ head = seen[p]

Init ==
    /\ records = [n \in 1..MaxAccepted |-> <<>>]
    /\ head = <<>> /\ acks = {} /\ lock = ""
    /\ job = [p \in Procs |-> Idle] /\ seen = [p \in Procs |-> <<>>]
    /\ returned = <<>> /\ crashes = 0 /\ rollbacks = 0

-----------------------------------------------------------------------------
(* read_current() and propose()                                            *)

\* A caller reads the current state and proposes against it, or keeps retrying.
ReadCurrent(p) ==
    /\ lock = "" /\ Recovers(p)
    /\ At(p, "IDLE") \/ At(p, "RETRY")
    /\ seen' = [seen EXCEPT ![p] = head]
    /\ \/ /\ At(p, "IDLE") /\ Len(returned) < MaxReturned
          /\ \E c \in Commands : job' = [job EXCEPT ![p] = [at |-> "ASK", command |-> <<c>>, expected |-> head]]
       \/ /\ At(p, "RETRY")
          /\ job' = [job EXCEPT ![p] = [at |-> "ASK", command |-> @.command, expected |-> head]]
    /\ UNCHANGED <<store, lock, returned, crashes, rollbacks>>

\* The lock is taken by creating the file; a busy controller is retried later.
Lock(p) ==
    /\ At(p, "ASK") /\ lock = ""
    /\ lock' = p /\ Go(p, "LOCKED")
    /\ UNCHANGED <<store, seen, ghosts>>

Outcome_NoResume(p) ==
    LET c == job[p].command[1]
        old == Known(head, c)
    IN  IF ~ Recovers(p) THEN "RETRY"
        ELSE IF old # {} THEN (IF \A n \in old : head[n] = c THEN "REPEAT" ELSE "DONE")
        ELSE IF ~ Allowed(head, c) \/ Len(head) = MaxAccepted THEN "DONE"
        ELSE IF job[p].expected # head \/ records[Len(head) + 1] # <<>> THEN "RETRY"
        ELSE "PREPARED"

\* Under the lock: recover, look for the identity, compare the expectation, compute the
\* successor, and look at the tail.  A refusal that a later attempt may not meet is
\* retried; the others end the proposal.  DONE at MaxAccepted is a bound of the model.
Outcome(p) ==
    LET c == job[p].command[1]
        old == Known(head, c)
    IN  IF ~ Recovers(p) THEN "RETRY"
        ELSE IF old # {} THEN (IF \A n \in old : head[n] = c THEN "REPEAT" ELSE "DONE")
        ELSE IF job[p].expected # head THEN "RETRY"
        ELSE IF ~ Allowed(head, c) THEN "DONE"
        ELSE IF Len(head) = MaxAccepted THEN "DONE"
        ELSE IF records[Len(head) + 1] \notin {<<>>, <<Append(head, c)>>} THEN "RETRY"
        ELSE "PREPARED"

Decide(p) ==
    /\ At(p, "LOCKED")
    /\ seen' = IF Recovers(p) THEN [seen EXCEPT ![p] = head] ELSE seen
    /\ LET next == Outcome(p)
       IN  /\ lock' = IF next \in {"RETRY", "DONE"} THEN "" ELSE lock
           /\ job' = [job EXCEPT ![p] = IF next = "DONE" THEN Idle ELSE [@ EXCEPT !.at = next]]
    /\ UNCHANGED <<store, ghosts>>

WriteRecord_HeadFirst(p) ==
    /\ At(p, "PREPARED")
    /\ head' = Append(head, job[p].command[1])
    /\ Go(p, "PERSISTED")
    /\ UNCHANGED <<records, acks, lock, seen, ghosts>>

WriteRecord(p) ==
    /\ At(p, "PREPARED")
    /\ records' = [records EXCEPT ![Len(head) + 1] = <<Append(head, job[p].command[1])>>]
    /\ Go(p, "PERSISTED")
    /\ UNCHANGED <<head, acks, lock, seen, ghosts>>

AdvanceHead(p) ==
    /\ At(p, "PERSISTED")
    /\ head' = Append(job[p].expected, job[p].command[1])
    /\ Go(p, "ADVANCED")
    /\ UNCHANGED <<records, acks, lock, seen, ghosts>>

ReadBack(p) ==
    /\ At(p, "ADVANCED") /\ Recovers(p)
    /\ seen' = [seen EXCEPT ![p] = head]
    /\ Go(p, "READ_BACK")
    /\ UNCHANGED <<store, lock, ghosts>>

\* A repeated command only writes the witness of the current state.
Acknowledge(p) ==
    /\ At(p, "READ_BACK") \/ At(p, "REPEAT")
    /\ acks' = acks \cup {head}
    /\ Go(p, "ACKNOWLEDGED")
    /\ UNCHANGED <<records, head, lock, seen, ghosts>>

Return(p) ==
    /\ At(p, "ACKNOWLEDGED")
    /\ returned' = Append(returned, head)
    /\ lock' = "" /\ job' = [job EXCEPT ![p] = Idle]
    /\ UNCHANGED <<store, seen, crashes, rollbacks>>

-----------------------------------------------------------------------------
(* Faults.                                                                 *)
Working == {"LOCKED", "PREPARED", "PERSISTED", "ADVANCED", "READ_BACK", "REPEAT", "ACKNOWLEDGED"}

\* A step raises: the lock file is removed on the way out.
Raise(p) ==
    /\ job[p].at \in Working /\ crashes < MaxCrashes
    /\ crashes' = crashes + 1 /\ lock' = "" /\ Go(p, "RETRY")
    /\ UNCHANGED <<store, seen, returned, rollbacks>>

\* The process ends abruptly: the lock file stays, and a new process takes over.
Kill(p) ==
    /\ job[p].at \in Working /\ crashes < MaxCrashes
    /\ crashes' = crashes + 1 /\ Go(p, "RETRY")
    /\ lock' = "ORPHAN" /\ seen' = [seen EXCEPT ![p] = <<>>]
    /\ UNCHANGED <<store, returned, rollbacks>>

\* The owner removes the lock file a dead process left behind.
ClearOrphan ==
    /\ lock = "ORPHAN" /\ lock' = ""
    /\ UNCHANGED <<store, job, seen, ghosts>>

\* An older head.json is put back while no process is at work, and the processes restart.
RollBack(n) ==
    /\ lock = "" /\ rollbacks < MaxRollbacks /\ n < Len(head)
    /\ head' = SubSeq(head, 1, n) /\ rollbacks' = rollbacks + 1
    /\ seen' = [p \in Procs |-> <<>>]
    /\ UNCHANGED <<records, acks, lock, job, returned, crashes>>

Client(p) ==
    \/ ReadCurrent(p) \/ Lock(p) \/ Decide(p) \/ WriteRecord(p) \/ AdvanceHead(p)
    \/ ReadBack(p) \/ Acknowledge(p) \/ Return(p)
Next ==
    \/ \E p \in Procs : Client(p) \/ Raise(p) \/ Kill(p)
    \/ ClearOrphan
    \/ \E n \in 0..(MaxAccepted - 1) : RollBack(n)

Spec == Init /\ [][Next]_vars

\* Callers retry until they are answered, a caller that keeps retrying finds the lock
\* free at some time, and the owner clears what a dead process left.
FairSpec ==
    /\ Spec /\ WF_vars(ClearOrphan)
    /\ \A p \in Procs : /\ WF_vars(~ At(p, "IDLE") /\ Client(p))
                         /\ SF_vars(Lock(p)) /\ SF_vars(At(p, "RETRY") /\ ReadCurrent(p))

-----------------------------------------------------------------------------
\* No command is posted twice, however often it is retried and wherever the process
\* that posted it was interrupted.
PostedOnce == \A m, n \in DOMAIN head : head[m].id = head[n].id => m = n

\* The accepted history can always be recovered while no older head was put back: head.json
\* never names a record that is not there.
HeadBacked ==
    rollbacks = 0 =>
        /\ \A n \in DOMAIN head : records[n] = <<SubSeq(head, 1, n)>>
        /\ \A a \in acks : IsPrefix(a, head)

\* A state that propose() returned is part of every state it returns later, also after an
\* older head.json was put back and every process restarted.
ReturnedKept ==
    \A n \in 1..(Len(returned) - 1) : IsPrefix(returned[n], returned[n + 1])

RecordsStayStep == \A n \in DOMAIN records : records[n] # <<>> => records'[n] = records[n]

\* A record is never replaced by another one: what a crash left unaccepted is resumed by
\* the exact retry or stays.
RecordsStay == [][RecordsStayStep]_vars

\* A caller that retries is answered in the end.
Answered == \A p \in Procs : At(p, "ASK") ~> At(p, "IDLE")

\* The accepted history is sound: no command is in it twice, and it can be recovered.
HistorySound == PostedOnce /\ HeadBacked

=============================================================================
