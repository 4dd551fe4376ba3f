--------------------------- MODULE ProviderAuthority ---------------------------
(* The retained provider authority: a directory with a bootstrap file, one     *)
(* file per transition, a head file and a time high-water file, shared by      *)
(* management and runtime processes under two file locks and a writer-intent   *)
(* file.  Each file operation is a step; a process may die between any two.    *)
(*                                                                            *)
(* Records are created exclusively and never rewritten, so the digest of a     *)
(* history prefix is its length.  An authority id is the generation's content. *)
EXTENDS Integers, Sequences

CONSTANTS
    Managers, Runtimes,     \* processes with each facade
    Commands,               \* [id, kind, spec]; terminal commands have spec <<>>
    Boots,                  \* bootstrap requests [id, kind, time]
    Specs,                  \* permitted [prov, from, until]
    Times,                  \* readings of the controlled clock
    MaxRequests, MaxCrashes, MaxRecords

VARIABLES
    boot,       \* bootstrap.json: <<>> or <<request>>
    recs,       \* records/NNNNNNNN.json; a torn one has kind "TORN"
    head,       \* head.json: <<>> or <<sequence>>
    high,       \* time-high-water.json: <<>> or <<time>>
    intent,     \* whether authority.writer-intent exists
    owner,      \* holder of the authority.writer-owner lock, or "none"
    fence,      \* holder of the authority.fence lock, or "none"
    job,        \* what each process is doing
    admitted,   \* admissions handed out: [auth, head, at, until]
    left        \* requests and crashes still to come

Procs == Managers \cup Runtimes
files == <<boot, recs, head, high>>
locks == <<intent, owner, fence>>
vars == <<files, locks, job, admitted, left>>

Idle == [pc |-> "idle"]

Kinds == {"ACTIVATE", "ROTATE", "REVOKE", "EXPIRE"}

ASSUME ProviderAssumption ==
    /\ \A s \in Specs : s.from < s.until
    /\ \A c \in Commands : c.kind \in Kinds
    /\ \A b \in Boots : b.kind = "BOOTSTRAP" /\ b.time \in Int
    /\ Times \subseteq Int /\ MaxRecords \in Nat
    /\ "none" \notin Procs /\ Managers \cap Runtimes = {}

Init ==
    /\ boot = <<>> /\ recs = <<>> /\ head = <<>> /\ high = <<>>
    /\ intent = FALSE /\ owner = "none" /\ fence = "none"
    /\ job = [p \in Procs |-> Idle]
    /\ admitted = {}
    /\ left = [req |-> MaxRequests, crash |-> MaxCrashes]

Go(p, j) == job' = [job EXCEPT ![p] = j]
At(p, pc) == job[p].pc = pc
Move(p, pc) == Go(p, [job[p] EXCEPT !.pc = pc])

-----------------------------------------------------------------------------
(* The store.                                                               *)

Last(h) == h[Len(h)]

\* The generation that is ACTIVE after a history.
Active(h) ==
    IF h # <<>> /\ Last(h).gen.status = "ACTIVE" THEN <<Last(h).gen>> ELSE <<>>

\* recover's rules for a transition after the history h.
Follows(h, r) ==
    LET g == r.gen
    IN /\ \A i \in DOMAIN h : h[i].id # r.id
       /\ CASE r.kind = "ACTIVATE" ->
                 /\ Active(h) = <<>>
                 /\ g.n = (IF h = <<>> THEN 0 ELSE Last(h).gen.n) + 1
                 /\ g.pred = (IF h = <<>> THEN <<>> ELSE <<Last(h).gen.auth>>)
            [] r.kind = "ROTATE" ->
                 /\ Active(h) # <<>>
                 /\ g.n = Active(h)[1].n + 1
                 /\ g.pred = <<Active(h)[1].auth>>
            [] r.kind \in {"REVOKE", "EXPIRE"} ->
                 /\ Active(h) # <<>>
                 /\ g.auth = Active(h)[1].auth /\ g.n = Active(h)[1].n
            [] OTHER -> FALSE

Replays(h) == \A i \in DOMAIN h : Follows(SubSeq(h, 1, i - 1), h[i])

\* recover: the whole history replays and the head names its end.
Recovers(h, hd) ==
    /\ boot # <<>> /\ hd # <<>> /\ high # <<>>
    /\ Replays(h) /\ hd[1] = Len(h)

Advances_Any(t) == high # <<>>

\* advance_time refuses a reading below the high water.
Advances(t) == high # <<>> /\ t >= high[1]
Current(g, t) == g.spec.from <= t /\ t < g.spec.until

-----------------------------------------------------------------------------
(* Writer fence.                                                            *)

Ask(p, j) == left.req > 0 /\ At(p, "idle") /\ Go(p, j)
             /\ left' = [left EXCEPT !.req = @ - 1]

\* Managers and bootstrap take the owner lock; a lock timeout ends the request.
BeginWrite(p, cmd, t, seen) ==
    /\ owner = "none" /\ owner' = p
    /\ Ask(p, [pc |-> "intent", cmd |-> cmd, seen |-> seen, now |-> t])
    /\ UNCHANGED <<files, intent, fence, admitted>>

\* activate, rotate, revoke and expire, with the head the caller expects
Manage(p) ==
    \E c \in Commands, t \in Times, seen \in {head, <<0>>} : BeginWrite(p, c, t, seen)

\* establish
Bootstrap(p) ==
    \E c \in Boots, t \in Times, seen \in {head, <<0>>} : BeginWrite(p, c, t, seen)

WriteIntent(p) ==
    /\ At(p, "intent") /\ intent' = TRUE /\ Move(p, "wait")
    /\ UNCHANGED <<files, owner, fence, admitted, left>>

EnterWrite(p) ==
    /\ At(p, "wait") /\ fence = "none" /\ fence' = p
    /\ Move(p, IF job[p].cmd.kind = "BOOTSTRAP" THEN "establish" ELSE "decide")
    /\ UNCHANGED <<files, intent, owner, admitted, left>>

GiveUpWrite(p) ==
    /\ At(p, "wait") /\ fence # "none"
    /\ intent' = FALSE /\ owner' = "none" /\ Go(p, Idle)
    /\ UNCHANGED <<files, fence, admitted, left>>

\* The finally clause removes the intent before the owner lock goes.
Leave(p) ==
    /\ At(p, "leave")
    /\ fence' = "none" /\ intent' = FALSE /\ owner' = "none" /\ Go(p, Idle)
    /\ UNCHANGED <<files, admitted, left>>

-----------------------------------------------------------------------------
(* Management.                                                              *)

Digest(cmd, g) ==
    IF cmd.kind \in {"ACTIVATE", "ROTATE"}
      THEN [kind |-> cmd.kind, of |-> <<cmd.spec>>]
      ELSE [kind |-> cmd.kind, of |-> g]

Recorded(cmd) == {i \in DOMAIN recs : recs[i].id = cmd.id}

\* The record a command asks for, from the history it finds.
NewRecord(cmd) ==
    LET g == Active(recs)
        n == (IF recs = <<>> THEN 0 ELSE Last(recs).gen.n) + 1
        fresh == [auth |-> [n |-> n, cmd |-> cmd.id, spec |-> cmd.spec], n |-> n,
                  spec |-> cmd.spec, status |-> "ACTIVE",
                  pred |-> IF recs = <<>> THEN <<>> ELSE <<Last(recs).gen.auth>>]
        ended == [g[1] EXCEPT !.status =
                    IF cmd.kind = "REVOKE" THEN "REVOKED" ELSE "EXPIRED"]
    IN IF cmd.kind \in {"ACTIVATE", "ROTATE"}
       THEN [id |-> cmd.id, kind |-> cmd.kind, gen |-> fresh, digest |-> Digest(cmd, <<>>)]
       ELSE [id |-> cmd.id, kind |-> cmd.kind, gen |-> ended,
             digest |-> Digest(cmd, <<g[1].auth>>)]

\* require_permitted: the role, scope and policy are the bootstrap's.
Permitted(cmd) == cmd.kind \in {"ACTIVATE", "ROTATE"} => cmd.spec \in Specs

\* Whether a command publishes: the rest is answered or refused.
Publishes(cmd, seen) ==
    /\ Recorded(cmd) = {}
    /\ cmd.kind = "ACTIVATE" => Active(recs) = <<>>
    /\ cmd.kind \in {"ROTATE", "REVOKE", "EXPIRE"} => Active(recs) # <<>>
    /\ Permitted(cmd)
    /\ seen = head

\* _now, recover and the checks, all under the fence.
Decide(p) ==
    /\ At(p, "decide")
    /\ LET t == job[p].now  cmd == job[p].cmd
           ok == Advances(t)
           valid == cmd.kind \in {"ACTIVATE", "ROTATE"} => cmd.spec.from <= t
       IN /\ high' = IF ok THEN <<t>> ELSE high
          /\ IF ok /\ valid /\ Recovers(recs, head) /\ Len(recs) < MaxRecords
                   /\ Publishes(cmd, job[p].seen)
             THEN Go(p, [pc |-> "create", cmd |-> cmd, rec |-> NewRecord(cmd)])
             ELSE Move(p, "leave")
    /\ UNCHANGED <<boot, recs, head, locks, admitted, left>>

CreateRecord(p) ==
    /\ At(p, "create") /\ recs' = Append(recs, job[p].rec) /\ Move(p, "head")
    /\ UNCHANGED <<boot, head, high, locks, admitted, left>>

ReplaceHead(p) ==
    /\ At(p, "head") /\ head' = <<Len(recs)>> /\ Move(p, "leave")
    /\ UNCHANGED <<boot, recs, high, locks, admitted, left>>

\* establish: the bootstrap, head and high-water files one after another; a
\* second bootstrap only confirms an equal first one.
Establish(p) ==
    /\ At(p, "establish")
    /\ IF boot = <<>> THEN boot' = <<job[p].cmd>> /\ Move(p, "boothead")
       ELSE Move(p, "leave") /\ UNCHANGED boot
    /\ UNCHANGED <<recs, head, high, locks, admitted, left>>

CreateHead(p) ==
    /\ At(p, "boothead") /\ head' = <<0>> /\ Move(p, "boottime")
    /\ UNCHANGED <<boot, recs, high, locks, admitted, left>>

CreateTime(p) ==
    /\ At(p, "boottime") /\ high' = <<job[p].cmd.time>> /\ Move(p, "leave")
    /\ UNCHANGED <<boot, recs, head, locks, admitted, left>>

-----------------------------------------------------------------------------
(* Runtime.                                                                 *)

BeginRead(p, t, kind) ==
    /\ Ask(p, [pc |-> "want", now |-> t, kind |-> kind])
    /\ UNCHANGED <<files, locks, admitted>>

\* A reader that gets the owner lock knows the intent is a dead writer's.
ClearStaleIntent(p) ==
    /\ At(p, "want") /\ intent /\ owner = "none" /\ intent' = FALSE
    /\ UNCHANGED <<files, owner, fence, job, admitted, left>>

PassIntent(p) ==
    /\ At(p, "want") /\ ~intent /\ Move(p, "lock")
    /\ UNCHANGED <<files, locks, admitted, left>>

GiveUpRead(p) ==
    /\ \/ At(p, "want") /\ intent /\ owner # "none"
       \/ At(p, "lock") /\ fence # "none"
    /\ Go(p, Idle)
    /\ UNCHANGED <<files, locks, admitted, left>>

EnterRead(p) ==
    /\ At(p, "lock") /\ fence = "none" /\ fence' = p /\ Move(p, "inspect")
    /\ UNCHANGED <<files, intent, owner, admitted, left>>

\* Time, recovery and the authority's currency, before the provider is called.
\* A consumption fence ends here: a local runtime has no trusted domain, so
\* every admission is STALE_AUTHORITY to it.
Inspect(p) ==
    /\ At(p, "inspect")
    /\ LET t == job[p].now  ok == Advances(t)
       IN /\ high' = IF ok THEN <<t>> ELSE high
          /\ IF ok /\ job[p].kind = "admit" /\ Recovers(recs, head) /\ Active(recs) # <<>>
                   /\ Current(Active(recs)[1], t)
             THEN Go(p, [pc |-> "snapshot", now |-> t, head |-> head[1],
                         gen |-> Active(recs)[1]])
             ELSE Go(p, [pc |-> "out"])
    /\ UNCHANGED <<boot, recs, head, locks, admitted, left>>

\* The provider's snapshot; the admission ends with the earlier of the two.
Admit(p) ==
    /\ At(p, "snapshot")
    /\ \E until \in Times :
         admitted' = admitted \cup
           {[auth |-> job[p].gen.auth, head |-> job[p].head, at |-> job[p].now,
             until |-> IF until < job[p].gen.spec.until THEN until
                       ELSE job[p].gen.spec.until]}
    /\ Go(p, [pc |-> "out"])
    /\ UNCHANGED <<files, locks, left>>

EndRead(p) ==
    /\ At(p, "out") /\ Go(p, Idle)
    /\ fence' = IF fence = p THEN "none" ELSE fence
    /\ UNCHANGED <<files, intent, owner, admitted, left>>

\* current_head takes no fence: the records first, the head file later.
ReadRecords(p) ==
    /\ Ask(p, [pc |-> "headfile", recs |-> recs])
    /\ UNCHANGED <<files, locks, admitted>>

ReadHead_RecordsOnly(p) ==
    /\ At(p, "headfile")
    /\ IF boot # <<>> /\ Replays(job[p].recs)
       THEN Go(p, [pc |-> "told", n |-> Len(job[p].recs)]) ELSE Go(p, Idle)
    /\ UNCHANGED <<files, locks, admitted, left>>

ReadHead(p) ==
    /\ At(p, "headfile")
    /\ IF Recovers(job[p].recs, head)
       THEN Go(p, [pc |-> "told", n |-> Len(job[p].recs)]) ELSE Go(p, Idle)
    /\ UNCHANGED <<files, locks, admitted, left>>

Told(p) == At(p, "told") /\ Go(p, Idle) /\ UNCHANGED <<files, locks, admitted, left>>

-----------------------------------------------------------------------------
\* A process dies; the system frees its locks and its files stay as they are.
\* A create may be cut short with the file already there.
Crash(p) ==
    /\ left.crash > 0 /\ ~At(p, "idle")
    /\ left' = [left EXCEPT !.crash = @ - 1]
    /\ owner' = IF owner = p THEN "none" ELSE owner
    /\ fence' = IF fence = p THEN "none" ELSE fence
    /\ \/ UNCHANGED recs
       \/ At(p, "create") /\ recs' = Append(recs, [job[p].rec EXCEPT !.kind = "TORN"])
    /\ Go(p, Idle)
    /\ UNCHANGED <<boot, head, high, intent, admitted>>

Step(p) ==
    \/ WriteIntent(p) \/ EnterWrite(p) \/ GiveUpWrite(p) \/ Leave(p)
    \/ Decide(p) \/ CreateRecord(p) \/ ReplaceHead(p)
    \/ Establish(p) \/ CreateHead(p) \/ CreateTime(p)
    \/ ClearStaleIntent(p) \/ PassIntent(p) \/ GiveUpRead(p) \/ EnterRead(p)
    \/ Inspect(p) \/ Admit(p) \/ EndRead(p) \/ ReadHead(p) \/ Told(p)

Next ==
    \/ \E p \in Managers : Manage(p) \/ Bootstrap(p)
    \/ \E p \in Runtimes :
          ReadRecords(p) \/ \E t \in Times, k \in {"admit", "fence"} : BeginRead(p, t, k)
    \/ \E p \in Procs : Step(p) \/ Crash(p)

Spec == Init /\ [][Next]_vars

-----------------------------------------------------------------------------
TypeOK ==
    /\ intent \in BOOLEAN /\ owner \in Procs \cup {"none"}
    /\ fence \in Procs \cup {"none"}
    /\ head = <<>> \/ head[1] \in 0 .. MaxRecords
    /\ \A p \in Managers : fence = p => owner = p /\ intent

\* Management only ever writes histories that recover accepts: generations
\* count up, name their predecessor, and a command id appears once.
HistoryReplays ==
    \A i \in DOMAIN recs : recs[i].kind # "TORN" => Follows(SubSeq(recs, 1, i - 1), recs[i])

\* No transition is published between the moment a runtime recovers the head
\* and the moment it hands the admission out: what it admits under is still
\* the last, ACTIVE generation.
AdmittedUnderHeadStep ==
  \A a \in admitted' \ admitted :
    /\ head = <<a.head>> /\ Len(recs) = a.head
    /\ Last(recs).gen.auth = a.auth /\ Last(recs).gen.status = "ACTIVE"

\* Time never runs back for any process, so an authority that one process has
\* seen past its expiry is not admitted by another, whatever its clock says.
ExpiredNeverAdmitsStep ==
  /\ high # <<>> => high'[1] >= high[1]
  /\ \A a \in admitted' \ admitted : a.at < a.auth.spec.until

\* A head read without the fence is one that management had published.
ToldHeadPublished ==
    \A p \in Runtimes : At(p, "told") => head # <<>> /\ job[p].n <= head[1]

\* The history on disk is one that recover() accepts, and a head that was read
\* without the fence had been published.
HistoryTruthful == HistoryReplays /\ ToldHeadPublished

AdmissionsCurrentStep == AdmittedUnderHeadStep /\ ExpiredNeverAdmitsStep

\* An admission is made under the head in force and before its expiry,
\* although the fence, the clock and the provider's answer are read in
\* different steps by different processes.
AdmissionsCurrent == [][AdmissionsCurrentStep]_vars

==============================================================================
