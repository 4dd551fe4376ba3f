-------------------------- MODULE SimulationJournal --------------------------
(***************************************************************************)
(* SimulationStateJournal: a directory of numbered records, written under a *)
(* lock file and read without one, and the checkpoints trusted outside it.   *)
(* A record's digest covers its predecessor's, so a digest is modelled by    *)
(* the commands up to and including the record.                              *)
(***************************************************************************)
EXTENDS SimulatedOrders, Sequences, SequencesExt

CONSTANTS Procs,        \* processes that opened the journal
          Ids,          \* command identities
          Kinds,        \* the commands tried
          MaxRecords,   \* bound: records in the directory
          Retries,      \* do callers repeat a command with the same identity?
          Unlocked,     \* processes that derive checkpoints
          Faults        \* subset of {"kill", "restore"}

VARIABLES
    files,       \* the numbered records: a sequence of [id, command]
    lock,        \* the holder of .simulation-state.lock, "" when there is none
    temporary,   \* processes whose temporary file is in the directory
    job,         \* what each process is doing
    checkpoint,  \* the checkpoint trusted outside, [sequence, terminal]
    issued,      \* identities handed to a call
    answered,    \* histories that were returned to a caller as published
    damaged      \* an older copy of the directory was put back

vars == <<files, lock, temporary, job, checkpoint, issued, answered, damaged>>
storage == <<files, lock, temporary>>

Idle == [at |-> "IDLE", id |-> 0, command |-> <<>>, prior |-> <<>>]

\* recover() reads every record again: identities are unique, every command
\* applies, and nothing but records and the lock file is in the directory.
State(h) ==
    LET at[n \in 0..Len(h)] ==
            IF n = 0 THEN <<Nothing>>
            ELSE IF at[n - 1] # <<>> /\ Applicable(at[n - 1][1], h[n].command)
                 THEN <<Apply(at[n - 1][1], h[n].command)>> ELSE <<>>
    IN  at[Len(h)]
Sound(h) == State(h) # <<>> /\ \A m, n \in DOMAIN h : h[m].id = h[n].id => m = n
Listable == temporary = {}
Recovers == Listable /\ Sound(files)

Genesis == [sequence |-> 0, terminal |-> <<>>]
Init ==
    /\ files = <<>> /\ lock = "" /\ temporary = {}
    /\ job = [p \in Procs |-> Idle]
    /\ checkpoint = Genesis /\ issued = {} /\ answered = {} /\ damaged = FALSE

Go(p, at) == job' = [job EXCEPT ![p].at = at]
Leave(p) == lock' = "" /\ job' = [job EXCEPT ![p] = Idle]
Calls == {Command(k, o, q, a) : k \in Kinds, o \in Orders, q \in {1, 2}, a \in {0, 1}}
Fresh == {id \in Ids : id <= Cardinality(issued) + 1}
Useful(c) == c.kind # "EXECUTE_AND_POST" => c.qty = 1 /\ c.available = 0

-----------------------------------------------------------------------------
(* _publish: one filesystem operation per step.                            *)

\* The identity of a call is new, or, where callers retry, that of an earlier call.
Lock_Ignored(p, id, c) ==
    /\ job[p].at = "IDLE" /\ (id \in issued => Retries) /\ Len(files) < MaxRecords
    /\ lock' = p /\ issued' = issued \cup {id}
    /\ job' = [job EXCEPT ![p] = [at |-> "LOCKED", id |-> id, command |-> <<c>>, prior |-> <<>>]]
    /\ UNCHANGED <<files, temporary, checkpoint, answered, damaged>>

Lock(p, id, c) ==
    /\ job[p].at = "IDLE" /\ (id \in issued => Retries)
    /\ lock = "" /\ Len(files) < MaxRecords
    /\ lock' = p /\ issued' = issued \cup {id}
    /\ job' = [job EXCEPT ![p] = [at |-> "LOCKED", id |-> id, command |-> <<c>>, prior |-> <<>>]]
    /\ UNCHANGED <<files, temporary, checkpoint, answered, damaged>>

\* recover() and _apply; when either raises, the lock is dropped and nothing is written.
Prepare(p) ==
    /\ job[p].at = "LOCKED"
    /\ \/ /\ Recovers /\ Applicable(State(files)[1], job[p].command[1])
          /\ job' = [job EXCEPT ![p].at = "PREPARED", ![p].prior = files]
          /\ UNCHANGED lock
       \/ /\ ~ (Recovers /\ Applicable(State(files)[1], job[p].command[1]))
          /\ Leave(p)
    /\ UNCHANGED <<files, temporary, checkpoint, issued, answered, damaged>>

WriteTemporary(p) ==
    /\ job[p].at = "PREPARED"
    /\ temporary' = temporary \cup {p}
    /\ Go(p, "WRITTEN")
    /\ UNCHANGED <<files, lock, checkpoint, issued, answered, damaged>>

\* The record goes to the number after the one recover() counted.
\* An existing file of that number would be refused; the lock keeps that from happening.
Replace(p) ==
    /\ job[p].at = "WRITTEN" /\ Len(files) = Len(job[p].prior)
    /\ temporary' = temporary \ {p}
    /\ files' = Append(files, [id |-> job[p].id, command |-> job[p].command[1]])
    /\ Go(p, "REPLACED")
    /\ UNCHANGED <<lock, checkpoint, issued, answered, damaged>>

\* The readback: recover() again, still under the lock.
Finish(p) ==
    /\ job[p].at = "REPLACED"
    /\ answered' = IF Recovers /\ Len(files) = Len(job[p].prior) + 1
                   THEN answered \cup {files} ELSE answered
    /\ Leave(p)
    /\ UNCHANGED <<files, temporary, checkpoint, issued, damaged>>

-----------------------------------------------------------------------------
(* Readers.                                                                *)

\* recover() outside the lock, for checkpoint_candidate.  It lists the directory
\* twice: once to read the records and once to count them.
ReadRecords(p) ==
    /\ p \in Unlocked /\ job[p].at = "IDLE" /\ Recovers
    /\ job' = [job EXCEPT ![p] = [Idle EXCEPT !.at = "COUNTING", !.prior = files]]
    /\ UNCHANGED <<storage, checkpoint, issued, answered, damaged>>

\* The candidate that comes back is established as the trusted checkpoint.
Establish(p) ==
    /\ job[p].at = "COUNTING"
    /\ checkpoint' = IF Listable THEN [sequence |-> Len(files), terminal |-> job[p].prior] ELSE checkpoint
    /\ job' = [job EXCEPT ![p] = Idle]
    /\ UNCHANGED <<storage, issued, answered, damaged>>

Checkpointed(h) == checkpoint.sequence = Len(h) /\ checkpoint.terminal = h

\* exclusive_snapshot: the lease is yielded only for the checkpointed history.
Lease(p) ==
    /\ job[p].at = "IDLE" /\ lock = ""
    /\ Recovers /\ Checkpointed(files)
    /\ lock' = p
    /\ job' = [job EXCEPT ![p] = [Idle EXCEPT !.at = "LEASED", !.prior = files]]
    /\ UNCHANGED <<files, temporary, checkpoint, issued, answered, damaged>>
Release(p) ==
    /\ job[p].at = "LEASED" /\ Leave(p)
    /\ UNCHANGED <<files, temporary, checkpoint, issued, answered, damaged>>

-----------------------------------------------------------------------------
(* Faults.                                                                 *)

\* The process ends without running its finally blocks.
Kill(p) ==
    /\ "kill" \in Faults /\ job[p].at \notin {"IDLE", "GONE"}
    /\ Go(p, "GONE")
    /\ UNCHANGED <<storage, checkpoint, issued, answered, damaged>>

\* An older copy of the directory is put back while nobody uses it.
Restore(n) ==
    /\ "restore" \in Faults /\ lock = "" /\ temporary = {} /\ ~ damaged
    /\ \A p \in Procs : job[p].at = "IDLE"
    /\ files' = SubSeq(files, 1, n) /\ damaged' = TRUE
    /\ UNCHANGED <<lock, temporary, job, checkpoint, issued, answered>>

Next ==
    \/ \E p \in Procs :
        \/ \E id \in Fresh, c \in Calls : Useful(c) /\ Lock(p, id, c)
        \/ Prepare(p) \/ WriteTemporary(p) \/ Replace(p) \/ Finish(p)
        \/ ReadRecords(p) \/ Establish(p) \/ Lease(p) \/ Release(p) \/ Kill(p)
    \/ \E n \in 0..(Len(files) - 1) : Restore(n)

Spec == Init /\ [][Next]_vars

-----------------------------------------------------------------------------
\* A history that submit, cancel, mark_unfilled or execute_and_post returned stays
\* what the journal begins with: no writer replaces or drops another's record.
PublishedStays == ~ damaged => \A h \in answered : IsPrefix(h, files)

\* While exclusive_snapshot is held the journal is the one it was yielded for.
LeaseHolds == \A p \in Procs : job[p].at = "LEASED" => job[p].prior = files

\* Whatever was published can be read back: the journal replays, identity by identity
\* and command by command.
HistoryRecovers == Sound(files)

\* The journal holds what it answered: a published command stays, a lease is on the
\* journal it was yielded for, and the history can be replayed.
JournalHolds == PublishedStays /\ LeaseHolds /\ HistoryRecovers

=============================================================================
