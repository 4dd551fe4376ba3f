--------------------------- MODULE CohortAdmission ---------------------------
(***************************************************************************)
(* CohortHistory of the mean-reversion strategy, over the simulation        *)
(* journal: admit() takes the journal's lease and then the history's lock,   *)
(* appends PREPARED and COMMITTED, and recover_prepared() finishes or blocks *)
(* an admission that stopped in between.                                     *)
(*                                                                           *)
(* The journal's commands are atomic here (SimulationJournal has them step   *)
(* by step); they and the admission exclude each other by the journal's lock.*)
(* A cohort owns the orders of one research run.                             *)
(***************************************************************************)
EXTENDS SimulatedOrders, Sequences, SequencesExt

CONSTANTS Runs,          \* research runs, one cohort each
          Entries,       \* [Runs -> set of orders], to buy
          Exits,         \* [Runs -> set of orders], to sell
          Holding,       \* completed sessions before an exit (5 in the code)
          Available,     \* what an execution finds available
          MaxAttempts,   \* bound: execution attempts
          MaxDay,        \* bound: sessions
          MaxStops       \* bound: admissions that stop half way

VARIABLES
    sim,          \* the journal's combined state
    simChecked,   \* is the journal's trusted checkpoint that of its present history?
    history,      \* the cohort history: a sequence of [state, cohort, simulation]
    checked,      \* length of the history the trusted checkpoint was taken of
    step,         \* the admission under way: "", or the run being admitted
    stops,        \* admissions stopped so far
    day,          \* the session under way; the earlier ones are complete
    bought        \* the sessions in which each order to buy was filled

clock == <<day, bought>>
vars == <<sim, simChecked, history, checked, step, stops, day, bought>>

\* A cohort names its run and the orders it was built from.
Cohort(r, s) == [run |-> r, entries |-> Entries[r],
                 exits |-> {o \in Exits[r] : s.status[o] # "NONE"}]
Owned(c) == c.entries \cup c.exits

\* _cohort_order_records: the cohort accounts for all orders of its run.
Accounts(c, s) == Owned(c) = {o \in Orders : Terms[o].run = c.run /\ s.status[o] # "NONE"}

InstrumentsOf(c) == {Terms[o].inst : o \in Owned(c)}
FilledIn(c, s, i) == MapThenSumSet(LAMBDA o : Signed(s, o), {o \in Owned(c) : Terms[o].inst = i})

\* assess_cohort: "RAISES" when the orders or the positions do not agree, or a fill is
\* not in a completed session.
Assess(c, s) ==
    IF \/ ~ Accounts(c, s) \/ \E o \in c.entries : day \in bought[o]
       \/ \E i \in InstrumentsOf(c) : FilledIn(c, s, i) # Position(s, i) THEN "RAISES"
    ELSE IF /\ \A o \in Owned(c) : s.status[o] \in Resolved
            /\ \A i \in InstrumentsOf(c) : Position(s, i) = 0
         THEN "CLOSED" ELSE "ACTIVE"

\* The holding clock of a position starts with its first fill.
Held(c, i) ==
    LET days == UNION {bought[o] : o \in {e \in c.entries : Terms[e].inst = i}}
    IN  days # {} /\ day - Min(days) >= Holding

\* construct_exit_intents: what to sell once every entry is resolved and held long enough.
Leaving(c, s, i) ==
    \E o \in c.exits : /\ Terms[o].inst = i
                       /\ s.status[o] \in {"ACCEPTED", "PARTIALLY_FILLED", "FULLY_FILLED"}
ExitIntents(c, s) ==
    IF Assess(c, s) = "RAISES" \/ \E o \in c.entries : s.status[o] \notin Resolved THEN {}
    ELSE {i \in InstrumentsOf(c) : Position(s, i) # 0 /\ Held(c, i) /\ ~ Leaving(c, s, i)}

\* CohortHistory.recover()
Committed(h) == SelectSeq(h, LAMBDA x : x.state = "COMMITTED")
Pending(h) == IF h # <<>> /\ Last(h).state = "PREPARED" THEN <<Last(h)>> ELSE <<>>
Blocked(h) == Pending(h) # <<>> \/ \E n \in DOMAIN h : h[n].state = "RECOVERY_REQUIRED"

Entry(state, c) == [state |-> state, cohort |-> c, simulation |-> sim]
PriorClosed_Unchecked(h, s) == TRUE
PriorClosed(h, s) ==
    Committed(h) # <<>> => Assess(Last(Committed(h)).cohort, s) = "CLOSED"

-----------------------------------------------------------------------------
Init ==
    /\ sim = Nothing /\ simChecked = TRUE
    /\ history = <<>> /\ checked = 0 /\ step = "" /\ stops = 0
    /\ day = 1 /\ bought = [o \in Orders |-> {}]

Admitted(r) == \E n \in DOMAIN Committed(history) : Committed(history)[n].cohort.run = r

\* A caller's command, while the journal is not leased.  Exits follow the intents.
MaySubmit(o) ==
    LET r == Terms[o].run
    IN  /\ sim.status[o] = "NONE"
        /\ o \in Exits[r] => /\ Terms[o].inst \in ExitIntents(Cohort(r, sim), sim)
                              /\ Position(sim, Terms[o].inst) = Terms[o].qty
Ordered ==
    {Command("SUBMIT", o, 1, 0) : o \in {x \in Orders : MaySubmit(x)}}
    \cup {Command(k, o, 1, 0) : k \in {"CANCEL", "MARK_UNFILLED"}, o \in Orders}
    \cup {Command("EXECUTE_AND_POST", o, q, a) : o \in Orders, q \in {1, 2}, a \in Available}
Simulate ==
    /\ step = ""
    /\ \E c \in Ordered :
        /\ Applicable(sim, c) /\ Apply(sim, c).attempts <= MaxAttempts
        /\ sim' = Apply(sim, c) /\ simChecked' = FALSE
        /\ bought' = IF Terms[c.order].side = "BUY" /\ sim'.filled[c.order] # sim.filled[c.order]
                     THEN [bought EXCEPT ![c.order] = @ \cup {day}] ELSE bought
    /\ UNCHANGED <<history, checked, step, stops, day>>

NextSession == day < MaxDay /\ day' = day + 1 /\ UNCHANGED <<sim, simChecked, history, checked, step, stops, bought>>

\* The owner establishes new checkpoints of what the journals recover to.  The history's
\* cannot be established while it is blocked: require_checkpointed would refuse it, so
\* the one before the preparation stays the trusted one.
EstablishSimulation ==
    /\ step = "" /\ ~ simChecked /\ simChecked' = TRUE
    /\ UNCHANGED <<sim, history, checked, step, stops, clock>>
EstablishHistory ==
    /\ step = "" /\ ~ Blocked(history) /\ checked # Len(history) /\ checked' = Len(history)
    /\ UNCHANGED <<sim, simChecked, history, step, stops, clock>>

-----------------------------------------------------------------------------
\* admit(), up to the PREPARED record.
Prepare(r) ==
    /\ step = ""
    /\ simChecked                                     \* the lease is yielded
    /\ checked = Len(history) /\ ~ Blocked(history)   \* recover(continuity_verified=True)
    /\ ~ Admitted(r)
    /\ PriorClosed(history, sim)
    /\ Entries[r] # {} /\ Accounts(Cohort(r, sim), sim)
    /\ history' = Append(history, Entry("PREPARED", Cohort(r, sim))) /\ step' = r
    /\ UNCHANGED <<sim, simChecked, checked, stops, clock>>

Commit ==
    /\ step # ""
    /\ history' = Append(history, Entry("COMMITTED", Last(history).cohort)) /\ step' = ""
    /\ UNCHANGED <<sim, simChecked, checked, stops, clock>>

\* The process stops between the two records, and both lock files are gone or cleared.
Stop ==
    /\ step # "" /\ stops < MaxStops
    /\ step' = "" /\ stops' = stops + 1
    /\ UNCHANGED <<sim, simChecked, history, checked, clock>>

\* recover_prepared()
Intact(x) ==
    /\ x.simulation = sim
    /\ Accounts(x.cohort, sim)
    /\ PriorClosed(history, sim)
RecoverPrepared ==
    /\ step = "" /\ simChecked
    /\ Pending(history) # <<>> /\ checked = Len(history) - 1
    /\ LET x == Pending(history)[1]
       IN  history' = Append(history, Entry(IF Intact(x) THEN "COMMITTED" ELSE "RECOVERY_REQUIRED", x.cohort))
    /\ UNCHANGED <<sim, simChecked, checked, step, stops, clock>>

Admission == Commit \/ Stop \/ RecoverPrepared \/ \E r \in Runs : Prepare(r)
Next == Simulate \/ NextSession \/ EstablishSimulation \/ EstablishHistory \/ Admission

Spec == Init /\ [][Next]_vars

-----------------------------------------------------------------------------
\* recover() reads the history it wrote: every admission is prepared once, answered
\* once and for the same cohort, no run is admitted twice, and nothing follows an
\* admission that was given up.
HistoryReads ==
    \A n \in DOMAIN history :
        IF history[n].state = "PREPARED"
        THEN /\ n > 1 => history[n - 1].state = "COMMITTED"
             /\ \A m \in 1..(n - 1) : history[m].cohort.run # history[n].cohort.run
        ELSE n > 1 /\ history[n - 1].state = "PREPARED" /\ history[n].cohort = history[n - 1].cohort

\* An admission is committed for the very orders and positions it was prepared for, even
\* when it stopped half way and trading went on before recover_prepared ran.
CommittedAsPrepared ==
    \A n \in DOMAIN history :
        history[n].state = "COMMITTED" /\ n > 1 => history[n - 1].simulation = history[n].simulation

\* A cohort has no unresolved orders and no shares left
Over(c) == /\ \A o \in Orders : Terms[o].run = c.run => sim.status[o] \in Resolved \cup {"NONE"}
           /\ \A i \in InstrumentsOf(c) :
                MapThenSumSet(LAMBDA o : Signed(sim, o), {o \in OfInstrument(i) : Terms[o].run = c.run}) = 0
\* At most one admitted cohort has unresolved orders or shares left (maximum_active 1).
OneActive ==
    \A m, n \in DOMAIN Committed(history) :
        ~ Over(Committed(history)[m].cohort) /\ ~ Over(Committed(history)[n].cohort) => m = n

\* A run never has two exits open for the same shares: what is on sale is what is held.
NeverOversold ==
    \A r \in Runs, i \in {Terms[o].inst : o \in Orders} :
        MapThenSumSet(LAMBDA o : Terms[o].qty - sim.filled[o],
                      {o \in Exits[r] : Terms[o].inst = i /\ Active(sim, o)})
          <= MapThenSumSet(LAMBDA o : Signed(sim, o), {o \in OfInstrument(i) : Terms[o].run = r})

\* No position is stranded: shares held long enough after every entry is resolved are on
\* sale or offered for sale, also after an exit was cancelled half filled.
NotStranded ==
    \A r \in Runs :
        LET c == Cohort(r, sim)
        IN  \A i \in InstrumentsOf(c) :
                /\ Assess(c, sim) = "ACTIVE" /\ Position(sim, i) # 0 /\ Held(c, i)
                /\ \A o \in c.entries : sim.status[o] \in Resolved
                => \/ i \in ExitIntents(c, sim)
                   \/ \E o \in c.exits : Terms[o].inst = i /\ Active(sim, o)

\* Cohorts are admitted and traded out as the admission says: the history can be read
\* and commits what was prepared, one cohort is active, and exits neither oversell nor
\* strand what it holds.
CohortsHonoured ==
    /\ HistoryReads /\ CommittedAsPrepared /\ OneActive
    /\ NeverOversold /\ NotStranded

=============================================================================
