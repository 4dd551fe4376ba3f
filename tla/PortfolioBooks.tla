--------------------------- MODULE PortfolioBooks ---------------------------
(***************************************************************************)
(* The financial state of the engineering portfolio simulation: the        *)
(* simulated order management system (research/simulated_execution.py),    *)
(* the ledger (research/simulation_ledger.py), their reconciliation        *)
(* (research/reconciliation_performance.py) and the commitment book        *)
(* (research/portfolio_construction.py), as the portfolio controller's     *)
(* _transition drives them (research/simulation_state.py).                 *)
(*                                                                         *)
(* Every command maps one accepted state to the next or raises.  Here an   *)
(* operator per command returns Accept(a) or Refuse(why); a refused        *)
(* command leaves the accepted state alone and is remembered in `refusal`  *)
(* so that what is refused can be reasoned about.                          *)
(*                                                                         *)
(* Money is counted in integer units, Unit of them to a cent.  The code's  *)
(* Decimals carry a fixed number of digits and round half to even; Quot is *)
(* that rounding at the resolution of one unit.  Sums and products of the  *)
(* instances stay exact, as they do in the code.                           *)
(*                                                                         *)
(* Times are abstracted away: cutoffs never go backwards, so the order of  *)
(* the commands is their chronology, and an execution that comes too early *)
(* is one of the executions whose snapshot gives a reason not to fill.     *)
(* The records of the book are represented by the latest one per order;    *)
(* the older ones are never changed.                                       *)
(***************************************************************************)
EXTENDS Integers, Sequences, SequencesExt

CONSTANTS
    Strategies,     \* 1..n: the admitted strategies in canonical order
    Instruments,
    Orders,         \* the orders that may be reserved, numbered in canonical order
    Terms,          \* order -> [strategy, inst, side, qty, upper, eligible]
    Prices,         \* prices an execution snapshot may carry
    Marks,          \* prices a MARK event may carry
    Dividends,      \* amounts per share of a CASH_DIVIDEND event
    Factors,        \* split factors, as <<numerator, denominator>>
    Adjustments,    \* amounts of a CASH_ADJUSTMENT event
    Removable,      \* strategies a rebalance may remove
    CapitalCents,   \* the allocation's total_cents, also the opening cash
    Unit,           \* money units in a cent
    RateNum,        \* the cost model: RateNum / RateDen of the notional
    RateDen,
    MaxAttempts,    \* bound on execution attempts
    MaxFinancial    \* bound on events other than trades

VARIABLES accepted, refusal
vars == <<accepted, refusal>>

Accept(a) == [error |-> "", accepted |-> a]
Refuse(why) == [error |-> why]

Sum(S, f(_)) == MapThenSumSet(f, S)

\* Division of a Decimal: half to even in the last digit kept.
Quot(n, d) ==
    LET q == n \div d
        r == n % d
    IN  IF 2 * r > d \/ (2 * r = d /\ q % 2 = 1) THEN q + 1 ELSE q

CeilCents(v) == ((v + Unit - 1) \div Unit) * Unit

Costs(qty, price) == Quot(qty * price * RateNum, RateDen)

\* allocate_equal_budgets: the residual cents go to the last strategies.
Budget ==
    LET n == Cardinality(Strategies)
    IN  [s \in Strategies |->
            Unit * ((CapitalCents \div n)
                      + (IF s > n - (CapitalCents % n) THEN 1 ELSE 0))]

-----------------------------------------------------------------------------
(* The ledger: a state derived from the events, one at a time.             *)

EmptyLedger ==
    [cash |-> 0, pos |-> [i \in Instruments |-> [qty |-> 0, cost |-> 0, mark |-> 0, realised |-> 0]]]

Event(kind, run, inst, qty, den, amount, fill) ==
    [kind |-> kind, run |-> run, inst |-> inst, qty |-> qty, den |-> den,
     amount |-> amount, fill |-> fill]

Traded(p, e) ==
    LET left    == p.qty + e.qty
        average == Quot(p.cost, p.qty)
        cost    == IF e.qty > 0 THEN p.cost + e.qty * e.amount ELSE p.cost + average * e.qty
    IN  [qty      |-> left,
         cost     |-> IF left = 0 THEN 0 ELSE cost,
         mark     |-> e.amount,
         realised |-> IF e.qty > 0 THEN p.realised ELSE p.realised - (e.amount - average) * e.qty]

\* Whether _transition accepts the event.
Postable(L, e) ==
    CASE e.kind \in {"OPENING_CASH", "CASH_ADJUSTMENT"} -> TRUE
      [] e.kind = "TRADE" -> L.pos[e.inst].qty + e.qty >= 0
      [] OTHER -> L.pos[e.inst].qty # 0

Post(L, e) ==
    CASE e.kind \in {"OPENING_CASH", "CASH_ADJUSTMENT"} ->
            [L EXCEPT !.cash = @ + e.amount]
      [] e.kind = "TRADE" ->
            [L EXCEPT !.pos[e.inst] = Traded(@, e), !.cash = @ - e.qty * e.amount]
      [] e.kind = "MARK" ->
            [L EXCEPT !.pos[e.inst].mark = e.amount]
      [] e.kind = "CASH_DIVIDEND" ->
            [L EXCEPT !.pos[e.inst].realised = @ + L.pos[e.inst].qty * e.amount,
                      !.cash = @ + L.pos[e.inst].qty * e.amount]
      [] e.kind = "SPLIT" ->
            [L EXCEPT !.pos[e.inst].qty = Quot(@ * e.qty, e.den),
                      !.pos[e.inst].mark = Quot(@ * e.den, e.qty)]

\* apply: the event joins the history and moves the state; replay starts over.
Posted(a, e) == [a EXCEPT !.events = Append(@, e), !.ledger = Post(@, e)]
Replay(events) ==
    LET state[n \in 0..Len(events)] == IF n = 0 THEN EmptyLedger ELSE Post(state[n - 1], events[n])
    IN  state[Len(events)]

MarketValue(p) == p.qty * p.mark
Unrealised(p) == MarketValue(p) - p.cost

-----------------------------------------------------------------------------
(* The order management system.                                            *)

Terminal == {"REJECTED", "CANCELLED", "UNFILLED", "FULLY_FILLED"}
Active(a, o) == a.oms[o].status \notin Terminal \cup {"NONE"}
Remaining(a, o) == Terms[o].qty - a.oms[o].filled

OmsSubmit(a, o) ==
    IF a.oms[o].status # "NONE" THEN a
    ELSE [a EXCEPT !.oms[o].status = IF Terms[o].eligible THEN "ACCEPTED" ELSE "REJECTED"]

Attempt(o, requested, outcome, fill) ==
    [order |-> o, requested |-> requested, outcome |-> outcome, fill |-> fill]

OmsCancel(a, o) == [a EXCEPT !.oms[o].status = "CANCELLED"]

OmsMarkUnfilled(a, o) ==
    [a EXCEPT !.oms[o].status = "UNFILLED",
              !.attempts = Append(@, Attempt(o, Remaining(a, o), "UNFILLED", 0))]

OmsNoFill_Always(a, o, requested) ==
    [a EXCEPT !.oms[o].status = "UNFILLED",
              !.attempts = Append(@, Attempt(o, requested, "UNFILLED", 0))]

\* An execution whose snapshot gives a reason not to fill.
OmsNoFill(a, o, requested) ==
    [a EXCEPT !.oms[o].status = IF a.oms[o].filled = 0 THEN "UNFILLED" ELSE @,
              !.attempts = Append(@, Attempt(o, requested, "UNFILLED", 0))]

\* execute and apply_fill: the fill takes what is asked for and available.
OmsFill(a, o, requested, available, price) ==
    LET qty    == IF requested < available THEN requested ELSE available
        filled == a.oms[o].filled + qty
        status == IF filled = Terms[o].qty THEN "FULLY_FILLED" ELSE "PARTIALLY_FILLED"
    IN  [a EXCEPT !.oms[o] = [status |-> status, filled |-> filled],
                  !.fills = Append(@, [order |-> o, qty |-> qty, price |-> price,
                                       costs |-> Costs(qty, price)]),
                  !.attempts = Append(@, Attempt(o, requested, status, Len(a.fills) + 1))]

UnitAmount(fill) ==
    LET each == Quot(fill.costs, fill.qty)
    IN  IF Terms[fill.order].side = "BUY" THEN fill.price + each ELSE fill.price - each

\* The event post_fill_to_ledger builds for fill number n.
FillEvent(fill, n) ==
    LET t == Terms[fill.order]
    IN  Event("TRADE", t.strategy, t.inst, IF t.side = "BUY" THEN fill.qty ELSE -fill.qty,
              1, UnitAmount(fill), n)

-----------------------------------------------------------------------------
(* reconcile: the orders, attempts and fills against the ledger's trades.  *)

\* The quantity the attempts before number k have filled of order o.
FilledBefore(a, o, k) ==
    Sum({j \in 1..(k - 1) : a.attempts[j].order = o /\ a.attempts[j].fill # 0},
        LAMBDA j : a.fills[a.attempts[j].fill].qty)

AttemptAgrees(a, k) ==
    LET t      == a.attempts[k]
        before == FilledBefore(a, t.order, k)
    IN  /\ a.oms[t.order].status # "NONE"
        /\ t.requested <= Terms[t.order].qty - before
        /\ IF t.fill = 0 THEN t.outcome = "UNFILLED"
           ELSE /\ t.fill \in DOMAIN a.fills
                /\ a.fills[t.fill].order = t.order
                /\ t.requested >= a.fills[t.fill].qty
                /\ t.outcome = IF before + a.fills[t.fill].qty = Terms[t.order].qty
                               THEN "FULLY_FILLED" ELSE "PARTIALLY_FILLED"

FillAgrees(a, n) ==
    LET fill == a.fills[n]
    IN  /\ a.oms[fill.order].status # "NONE"
        /\ Cardinality({k \in DOMAIN a.attempts : a.attempts[k].fill = n}) = 1
        /\ Cardinality({j \in DOMAIN a.events : a.events[j].fill = n}) = 1
        /\ \A j \in DOMAIN a.events : a.events[j].fill = n => a.events[j] = FillEvent(fill, n)

OrderAgrees(a, o) ==
    LET total == Sum({n \in DOMAIN a.fills : a.fills[n].order = o}, LAMBDA n : a.fills[n].qty)
    IN  /\ total = a.oms[o].filled
        /\ total <= Terms[o].qty
        /\ IF total = 0 THEN a.oms[o].status \notin {"PARTIALLY_FILLED", "FULLY_FILLED"}
           ELSE IF total = Terms[o].qty THEN a.oms[o].status = "FULLY_FILLED"
           ELSE a.oms[o].status \in {"PARTIALLY_FILLED", "CANCELLED"}

Reconciled(a) ==
    /\ a.ledger = Replay(a.events)
    /\ \A k \in DOMAIN a.attempts : AttemptAgrees(a, k)
    /\ \A n \in DOMAIN a.fills : FillAgrees(a, n)
    /\ \A j \in DOMAIN a.events : a.events[j].fill # 0 => a.events[j].fill \in DOMAIN a.fills
    /\ \A o \in Orders : OrderAgrees(a, o)

-----------------------------------------------------------------------------
(* The commitment book.                                                    *)

NoRecord ==
    [state |-> "NONE", filled |-> 0, cash |-> 0, holding |-> 0, actual |-> 0, status |-> "NONE"]

Outstanding(a, o) == a.book[o].state \in {"RESERVED", "PARTIALLY_FILLED"}

\* What buys have cost and may still cost; proceeds of sales are not counted.
Used(a, S) ==
    Sum({o \in S : Terms[o].side = "BUY"}, LAMBDA o : a.book[o].cash + a.book[o].actual)
OfStrategy(s) == {o \in Orders : Terms[o].strategy = s}

UnitCeiling(o) ==
    Quot(Terms[o].qty * Terms[o].upper + Costs(Terms[o].qty, Terms[o].upper), Terms[o].qty)

\* _holding_at: a strategy's own trades, scaled by the instrument's splits.
HoldingAt(a, s, i) ==
    LET Step(h, e) == IF e.inst # i THEN h
                      ELSE IF e.kind = "TRADE" /\ e.run = s THEN h + e.qty
                      ELSE IF e.kind = "SPLIT" THEN Quot(h * e.qty, e.den)
                      ELSE h
        held[n \in 0..Len(a.events)] == IF n = 0 THEN 0 ELSE Step(held[n - 1], a.events[n])
    IN  held[Len(a.events)]

SellsOf(a, s, i) ==
    {o \in OfStrategy(s) : Terms[o].side = "SELL" /\ Terms[o].inst = i /\ Outstanding(a, o)}
ReservedHolding(a, s, i) == Sum(SellsOf(a, s, i), LAMBDA o : a.book[o].holding)

MostCash(o) == CeilCents(Terms[o].qty * Terms[o].upper + Costs(Terms[o].qty, Terms[o].upper))
Reservation(o) ==
    [NoRecord EXCEPT !.state = "RESERVED", !.status = "ACCEPTED",
                     !.cash = IF Terms[o].side = "BUY" THEN MostCash(o) ELSE 0,
                     !.holding = IF Terms[o].side = "SELL" THEN Terms[o].qty ELSE 0]

\* What the fills of an order have cost, or brought in.
CashEffect(a, o) ==
    LET mine  == {n \in DOMAIN a.fills : a.fills[n].order = o}
        gross == Sum(mine, LAMBDA n : a.fills[n].qty * a.fills[n].price)
        costs == Sum(mine, LAMBDA n : a.fills[n].costs)
    IN  IF Terms[o].side = "BUY" THEN gross + costs ELSE gross - costs

\* _validate_history on the record that joins the book: the liability is computed
\* again, from the unit ceiling, and the order and its fills are the OMS's.
RecordValid(a, o) ==
    LET t    == Terms[o]
        r    == a.book[o]
        left == t.qty - r.filled
        over == r.status \in Terminal
    IN  /\ r.filled = a.oms[o].filled /\ r.filled \in 0..t.qty
        /\ r.status = IF a.oms[o].status = "NONE" THEN "ACCEPTED" ELSE a.oms[o].status
        /\ r.state = IF over THEN "RELEASED" ELSE IF r.filled # 0 THEN "PARTIALLY_FILLED"
                     ELSE "RESERVED"
        /\ r.cash = IF over \/ t.side = "SELL" THEN 0 ELSE CeilCents(UnitCeiling(o) * left)
        /\ r.holding = IF over \/ t.side = "BUY" THEN 0 ELSE left
        /\ r.actual = CashEffect(a, o)

\* CommitmentBook.__post_init__: the book is rebuilt, and checked, with every record.
Booked(a, o) ==
    IF RecordValid(a, o) /\ \A s \in Strategies : Used(a, OfStrategy(s)) <= Budget[s]
    THEN Accept(a) ELSE Refuse("BOOK")

ReserveOne(r, o) ==
    LET a == r.accepted
        t == Terms[o]
    IN  IF r.error # "" THEN r
        ELSE IF t.strategy \in a.removed THEN Refuse("REMOVED")
        ELSE IF a.book[o].state # "NONE" THEN Refuse("DUPLICATE")
        ELSE IF t.side = "BUY" /\ (\/ Used(a, OfStrategy(t.strategy)) + MostCash(o) > Budget[t.strategy]
                                   \/ Used(a, Orders) + MostCash(o) > CapitalCents * Unit)
             THEN Refuse("BUDGET")
        ELSE IF t.side = "SELL" /\ t.qty + ReservedHolding(a, t.strategy, t.inst)
                                     > HoldingAt(a, t.strategy, t.inst) THEN Refuse("HOLDING")
        ELSE Booked([a EXCEPT !.book[o] = Reservation(o)], o)

StillHeld(o, left) == IF Terms[o].side = "BUY" THEN 0 ELSE left

\* reconcile_commitment: the reservation follows the order and its fills.
Commit(a, o) ==
    LET t        == Terms[o]
        mine     == {n \in DOMAIN a.fills : a.fills[n].order = o}
        left     == t.qty - a.oms[o].filled
        terminal == a.oms[o].status \in Terminal
        next     == [state   |-> IF terminal THEN "RELEASED"
                                 ELSE IF a.oms[o].filled # 0 THEN "PARTIALLY_FILLED" ELSE "RESERVED",
                     filled  |-> a.oms[o].filled,
                     cash    |-> IF terminal \/ t.side = "SELL" THEN 0
                                 ELSE CeilCents(UnitCeiling(o) * left),
                     holding |-> IF terminal THEN 0 ELSE StillHeld(o, left),
                     actual  |-> CashEffect(a, o),
                     status  |-> a.oms[o].status]
        after    == [a EXCEPT !.book[o] = next]
    IN  IF ~ Reconciled(a) THEN Refuse("RECONCILE")
        ELSE IF ~ Outstanding(a, o) \/ a.oms[o].status = "NONE" THEN Refuse("RELEASED")
        ELSE IF t.side = "BUY" /\ \E n \in mine : a.fills[n].price > t.upper THEN Refuse("PRICE")
        ELSE IF t.side = "BUY" /\ (\/ Used(after, OfStrategy(t.strategy)) > Budget[t.strategy]
                                   \/ Used(after, Orders) > CapitalCents * Unit)
             THEN Refuse("LIABILITY")
        ELSE Booked(after, o)

\* current_reservation_issues
Issues(a) ==
    LET L == a.ledger
    IN  (IF Sum({o \in Orders : Outstanding(a, o)}, LAMBDA o : a.book[o].cash) > L.cash
         THEN {<<"cash">>} ELSE {})
        \cup {<<"run", s, i>> : <<s, i>> \in
                {p \in Strategies \X Instruments :
                    /\ SellsOf(a, p[1], p[2]) # {}
                    /\ ReservedHolding(a, p[1], p[2]) > HoldingAt(a, p[1], p[2])}}
        \cup {<<"portfolio", i>> : i \in
                {j \in Instruments :
                    Sum(Strategies, LAMBDA s : ReservedHolding(a, s, j)) > L.pos[j].qty}}

\* The end of _transition: reconcile again, then note the infeasible reservations.
Finish(r) ==
    IF r.error # "" THEN r
    ELSE LET a == r.accepted
         IN  IF ~ Reconciled(a) THEN Refuse("RECONCILE")
             ELSE IF \E s \in Strategies, i \in Instruments :
                        SellsOf(a, s, i) # {} /\ HoldingAt(a, s, i) < 0 THEN Refuse("SHORT")
             ELSE Accept([a EXCEPT !.issues = Issues(a)])

-----------------------------------------------------------------------------
(* The controller's commands.                                              *)

\* The order in which the requests of a batch are taken.
Canonical(S) == SetToSortSeq(S, LAMBDA x, y : x < y)

\* RESERVE: all requests of the batch in canonical order, or none.
Reserve(a, S) ==
    IF a.issues # {} THEN Refuse("INFEASIBLE")
    ELSE Finish(FoldLeft(ReserveOne, Accept(a), Canonical(S)))

Submit(a, o) ==
    IF ~ Outstanding(a, o) THEN Refuse("NOT_RESERVED") ELSE Finish(Accept(OmsSubmit(a, o)))

\* CANCEL and RESOLVE_OBLIGATION
Cancel(a, o) ==
    IF ~ Active(a, o) THEN Refuse("INACTIVE") ELSE Finish(Commit(OmsCancel(a, o), o))

MarkUnfilled(a, o) ==
    IF ~ Active(a, o) \/ a.oms[o].filled # 0 THEN Refuse("INACTIVE")
    ELSE Finish(Commit(OmsMarkUnfilled(a, o), o))

Reconcile(a, o) == Finish(Commit(a, o))

\* EXECUTE_AND_POST; available = 0 stands for every snapshot with a reason not to fill.
Execute(a, o, requested, available, price) ==
    IF ~ Active(a, o) \/ requested > Remaining(a, o) \/ ~ Outstanding(a, o) THEN Refuse("INACTIVE")
    ELSE IF available = 0 THEN Finish(Commit(OmsNoFill(a, o, requested), o))
    ELSE LET b == OmsFill(a, o, requested, available, price)
             n == Len(b.fills)
             e == FillEvent(b.fills[n], n)
         IN  IF e.amount <= 0 \/ ~ Postable(a.ledger, e) THEN Refuse("SHORT")
             ELSE Finish(Commit(Posted(b, e), o))

\* MARK, CASH_DIVIDEND, SPLIT and CASH_ADJUSTMENT; a corporate action of a kind
\* is posted once per instrument.
Financial(a, e) ==
    IF \/ e.kind \in {"CASH_DIVIDEND", "SPLIT"}
            /\ \E j \in DOMAIN a.events : a.events[j].kind = e.kind /\ a.events[j].inst = e.inst
       \/ ~ Postable(a.ledger, e) THEN Refuse("EVENT")
    ELSE Finish(Accept(Posted(a, e)))

\* REBALANCE and REMOVE_STRATEGY: the book must be current with the orders, and
\* what is outstanding stays.
Rebalance(a, gone) ==
    IF \E o \in Orders : /\ a.book[o].state # "NONE"
                          /\ \/ a.book[o].status # a.oms[o].status
                             \/ a.book[o].filled # a.oms[o].filled THEN Refuse("NOT_CURRENT")
    ELSE Finish(Accept([a EXCEPT !.removed = @ \cup gone]))

-----------------------------------------------------------------------------
Opening == Event("OPENING_CASH", 1, "", 0, 1, CapitalCents * Unit, 0)
Genesis ==
    [book |-> [o \in Orders |-> NoRecord], removed |-> {},
     oms |-> [o \in Orders |-> [status |-> "NONE", filled |-> 0]],
     fills |-> <<>>, attempts |-> <<>>,
     events |-> <<Opening>>, ledger |-> Post(EmptyLedger, Opening),
     issues |-> {}]

Init == accepted = Genesis /\ refusal = ""

\* A refused command changes nothing.  Four reasons are remembered until the next
\* command, because a legal command should not meet them.
Behind == {"RECONCILE", "SHORT", "LIABILITY", "BOOK"}
Settle(r) ==
    \/ r.error = "" /\ accepted' = r.accepted /\ refusal' = ""
    \/ r.error \in Behind /\ refusal' = r.error /\ UNCHANGED accepted

MayAttempt == Len(accepted.attempts) < MaxAttempts
Financials == {j \in DOMAIN accepted.events : accepted.events[j].fill = 0}
MayPost == Cardinality(Financials) <= MaxFinancial

\* Bound: quantities stay whole numbers of shares.
Whole(f, i) == \A s \in Strategies : (HoldingAt(accepted, s, i) * f[1]) % f[2] = 0

ReserveCmd ==
    \E S \in (SUBSET {o \in Orders : accepted.book[o].state = "NONE"}) \ {{}} :
       Settle(Reserve(accepted, S))
SubmitCmd == \E o \in Orders : Settle(Submit(accepted, o))
CancelCmd == \E o \in Orders : Settle(Cancel(accepted, o))
MarkUnfilledCmd == MayAttempt /\ \E o \in Orders : Settle(MarkUnfilled(accepted, o))
ReconcileCmd == \E o \in Orders : Settle(Reconcile(accepted, o))
ExecuteCmd ==
    /\ MayAttempt
    /\ \E o \in {x \in Orders : Active(accepted, x)} :
       \E requested \in 1..Remaining(accepted, o), available \in 0..Remaining(accepted, o),
          price \in Prices : Settle(Execute(accepted, o, requested, available, price))
FinancialCmd ==
    /\ MayPost
    /\ \E s \in Strategies, i \in Instruments :
       \E e \in {Event("MARK", 1, i, 0, 1, m, 0) : m \in Marks}
                \cup {Event("CASH_DIVIDEND", s, i, 0, 1, d, 0) : d \in Dividends}
                \cup {Event("SPLIT", 1, i, f[1], f[2], 0, 0) : f \in {g \in Factors : Whole(g, i)}}
                \cup {Event("CASH_ADJUSTMENT", 1, "", 0, 1, c, 0) : c \in Adjustments} :
          Settle(Financial(accepted, e))
RebalanceCmd == \E gone \in SUBSET Removable : Settle(Rebalance(accepted, gone))

Next ==
    \/ ReserveCmd \/ SubmitCmd \/ CancelCmd \/ MarkUnfilledCmd \/ ReconcileCmd
    \/ ExecuteCmd \/ FinancialCmd \/ RebalanceCmd

Spec == Init /\ [][Next]_vars

-----------------------------------------------------------------------------
(* attribute_portfolio with no claimed effects: every strategy's share of  *)
(* the holdings, the cost basis and the profit, rebuilt from the events.   *)

NoShare == [qty |-> [i \in Instruments |-> 0], basis |-> 0, realised |-> 0, dividends |-> 0, funding |-> 0]

Share(acc, e) ==
    LET L      == acc.ledger
        gain   == Sum(Instruments, LAMBDA i : Post(L, e).pos[i].realised - L.pos[i].realised)
        owners == {s \in Strategies : acc.of[s].qty[e.inst] # 0}
        p      == L.pos[e.inst]
        r      == e.run
        next   == [acc EXCEPT !.ledger = Post(L, e)]
    IN  CASE e.kind \in {"OPENING_CASH", "CASH_ADJUSTMENT"} ->
                [next EXCEPT !.of[r].funding = @ + e.amount]
          [] e.kind = "MARK" -> next
          [] e.kind = "TRADE" /\ e.qty > 0 ->
                [next EXCEPT !.of[r].qty[e.inst] = @ + e.qty, !.of[r].basis = @ + e.qty * e.amount]
          [] e.kind = "TRADE" /\ e.qty < 0 ->
                [next EXCEPT !.of[r].qty[e.inst] = @ + e.qty,
                             !.of[r].basis = @ + Quot(e.qty * p.cost, p.qty),
                             !.of[r].realised = @ + gain,
                             !.incomplete = @ \/ Cardinality(owners) > 1,
                             !.underflow = @ \/ acc.of[r].qty[e.inst] + e.qty < 0]
          [] e.kind = "SPLIT" ->
                [next EXCEPT !.of = [s \in Strategies |->
                                        [@[s] EXCEPT !.qty[e.inst] = Quot(@ * e.qty, e.den)]],
                             !.incomplete = @ \/ Cardinality(owners) > 1]
          [] e.kind = "CASH_DIVIDEND" ->
                [next EXCEPT !.of[r].dividends = @ + gain, !.incomplete = @ \/ owners # {r}]

Attribution(a) ==
    LET L      == a.ledger
        acc    == FoldLeft(Share, [ledger |-> EmptyLedger, of |-> [s \in Strategies |-> NoShare],
                                   incomplete |-> FALSE, underflow |-> FALSE], a.events)
        Total(f(_)) == Sum(Strategies, LAMBDA s : f(acc.of[s]))
        Of(f(_)) == Sum(Instruments, LAMBDA i : f(L.pos[i]))
        Gain(x) == Sum(Instruments, LAMBDA i : x.qty[i] * L.pos[i].mark) - x.basis
        funding == Sum(DOMAIN a.events, LAMBDA j :
                        IF a.events[j].kind \in {"OPENING_CASH", "CASH_ADJUSTMENT"}
                        THEN a.events[j].amount ELSE 0)
        net     == L.cash + Of(MarketValue) - funding
        invalid ==
            \/ acc.underflow
            \/ \E i \in Instruments : Total(LAMBDA x : x.qty[i]) # L.pos[i].qty
            \/ Total(LAMBDA x : x.basis) # Of(LAMBDA q : q.cost)
            \/ /\ ~ acc.incomplete
               /\ \/ Total(LAMBDA x : x.realised + x.dividends) # Of(LAMBDA q : q.realised)
                  \/ Total(Gain) # Of(Unrealised)
                  \/ Total(LAMBDA x : x.funding) # funding
                  \/ Total(LAMBDA x : x.realised + x.dividends + Gain(x)) # net
    IN  IF invalid THEN "INVALID" ELSE IF acc.incomplete THEN "INCOMPLETE" ELSE "COMPLETE"

-----------------------------------------------------------------------------
Money == -100000..100000
TypeOK ==
    /\ \A o \in Orders :
        /\ accepted.book[o].state \in {"NONE", "RESERVED", "PARTIALLY_FILLED", "RELEASED"}
        /\ accepted.book[o].cash \in Money /\ accepted.book[o].actual \in Money
        /\ accepted.oms[o].status \in Terminal \cup {"NONE", "ACCEPTED", "PARTIALLY_FILLED"}
        /\ accepted.oms[o].filled \in 0..Terms[o].qty
    /\ Len(accepted.attempts) <= MaxAttempts
    /\ Len(accepted.fills) <= Len(accepted.attempts)
    /\ refusal \in Behind \cup {""}

\* reconcile() never turns down what the OMS and the ledger did for a legal command:
\* partial fills, cancelled remainders and refused attempts of several orders still
\* add up to the trades posted.  Nor does the book turn down the record that
\* reserve_commitments or reconcile_commitment wrote for it.
CommandsReconcile == refusal \notin {"RECONCILE", "BOOK"}

\* A reservation is infeasible only because the world changed under it: cash was
\* withdrawn or a split shrank the holding.  What reserve_commitments and
\* reconcile_commitment admit never outgrows the cash and the shares by itself.
InfeasibleHasCause ==
    accepted.issues # {} =>
        \E j \in DOMAIN accepted.events :
            LET e == accepted.events[j]
            IN  \/ e.kind = "CASH_ADJUSTMENT" /\ e.amount < 0
                \/ e.kind = "SPLIT" /\ e.qty < e.den

\* An order to sell is never turned down by the ledger for want of shares while
\* its reservation is feasible, whatever the other strategies sold meanwhile.
SellCovered == refusal = "SHORT" => accepted.issues # {}

\* The book follows the orders: what it counts as filled is what the OMS filled, and
\* a reservation is released exactly when its order is over.  The one lag is an order
\* rejected at submission, which waits for RECONCILE.
BookFollowsOms ==
    \A o \in Orders :
        /\ accepted.book[o].filled = accepted.oms[o].filled
        /\ accepted.book[o].state = "RELEASED" => accepted.oms[o].status \in Terminal
        /\ accepted.oms[o].status \in Terminal \ {"REJECTED"} => accepted.book[o].state = "RELEASED"

\* Value is neither created nor lost: cash plus cost basis is what was paid in plus
\* what was realised, through trades, dividends and splits.
ValueConserved ==
    LET L == accepted.ledger
    IN  L.cash + Sum(Instruments, LAMBDA i : L.pos[i].cost - L.pos[i].realised)
          = Sum({j \in DOMAIN accepted.events :
                    accepted.events[j].kind \in {"OPENING_CASH", "CASH_ADJUSTMENT"}},
                LAMBDA j : accepted.events[j].amount)

\* attribute_portfolio never calls the books it is given INVALID: the strategies'
\* shares add up to the ledger's holdings, cost basis and profit.
AttributionConserves == Attribution(accepted) # "INVALID"

\* Submit and cancel one outstanding order
ResolveOne(r, o) ==
    IF r.error # "" \/ ~ Outstanding(r.accepted, o) THEN r
    ELSE LET b == Submit(r.accepted, o)
         IN  IF b.error # "" THEN b
             ELSE IF Active(b.accepted, o) THEN Cancel(b.accepted, o) ELSE Reconcile(b.accepted, o)
\* Whatever happened, submitting and cancelling what is outstanding clears every
\* infeasible reservation, as long as the cash itself is not overdrawn.
AlwaysResolvable ==
    LET r == FoldLeft(ResolveOne, Accept(accepted), Canonical(Orders))
    IN  r.error = "" /\ (accepted.ledger.cash >= 0 => r.accepted.issues = {})

\* The books of one portfolio, kept by code written apart, agree after any mix of
\* commands: reconciliation accepts the orders, fills and trades, the book follows
\* the OMS, sells are covered, value and attribution are conserved, and what is
\* infeasible has a cause and can be resolved.
BooksAgree ==
    /\ CommandsReconcile /\ BookFollowsOms /\ SellCovered
    /\ ValueConserved /\ AttributionConserves
    /\ InfeasibleHasCause /\ AlwaysResolvable

=============================================================================
