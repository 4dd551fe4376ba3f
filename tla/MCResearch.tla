-------------------- MODULE MCResearch --------------------
(***************************************************************************)
(* Research simulation: the books of a portfolio, the simulation journal,  *)
(* the admission of cohorts and the portfolio controller.  A behaviour is  *)
(* of one scenario, an instance of one of the four; the others stay as     *)
(* they are.  The controller's properties need no scenario: while it does  *)
(* not move they hold.                                                     *)
(***************************************************************************)
EXTENDS PortfolioController, TLC

CONSTANTS
  Strategies, Instruments, CapitalCents, Unit, RateNum, RateDen, Ids, Kinds,
  MaxRecords, Retries, Unlocked, Faults, Runs, Entries, Exits, Holding, Available,
  MaxDay, MaxStops

VARIABLES
  accepted, refusal,
  files, storeLock, temporary, storeJob, checkpoint, issued, answered, damaged,
  sim, simChecked, history, checked, step, stops, day, bought,
  scenario  \* the instance this behaviour is of

booksVars == <<accepted, refusal>>
journalVars == <<files, storeLock, temporary, storeJob, checkpoint, issued, answered,
                 damaged>>
cohortVars == <<sim, simChecked, history, checked, step, stops, day, bought>>
mcVars == <<booksVars, journalVars, cohortVars, vars, scenario>>

\* Orders of the books.  A strategy buys two shares and may sell two and then
\* one, and the other strategy's order is rejected when it is submitted; or
\* two strategies buy the same instrument and the first may sell it again
BookOrder(strategy, side, qty, upper, eligible) ==
  [strategy |-> strategy, inst |-> "X", side |-> side, qty |-> qty, upper |-> upper,
   eligible |-> eligible]
TradeTerms ==
  <<BookOrder(1, "BUY", 2, 240, TRUE), BookOrder(2, "BUY", 2, 120, FALSE),
    BookOrder(1, "SELL", 2, 0, TRUE), BookOrder(1, "SELL", 1, 0, TRUE)>>
TwoTerms ==
  <<BookOrder(1, "BUY", 2, 240, TRUE), BookOrder(2, "BUY", 2, 120, TRUE),
    BookOrder(1, "SELL", 2, 0, TRUE)>>
TwoPrices == {120, 240}
Withdraw == {-300}
Double == {<<2, 1>>}
Both == {<<2, 1>>, <<1, 2>>}

\* One order to buy and one to sell
JournalTerms == [o \in {1, 2} |-> [run |-> 1, inst |-> "X", qty |-> 2,
                                   side |-> IF o = 1 THEN "BUY" ELSE "SELL"]]

\* Two runs that trade the same instrument: the first with exits for the whole
\* position and for what a cancelled exit leaves
RunOrder(r, side, q) == [run |-> r, inst |-> "X", side |-> side, qty |-> q]
RunTerms == 1 :> RunOrder("r1", "BUY", 2) @@ 2 :> RunOrder("r1", "SELL", 2)
            @@ 3 :> RunOrder("r1", "SELL", 1) @@ 4 :> RunOrder("r2", "BUY", 1)
RunEntries == "r1" :> {1} @@ "r2" :> {4}
RunExits == "r1" :> {2, 3} @@ "r2" :> {}

\* A deposit, a withdrawal that needs it, and another command under the
\* deposit's identity
ThreeCommands ==
  {[id |-> "a", amount |-> 1], [id |-> "b", amount |-> -1], [id |-> "a", amount |-> 2]}

-----------------------------------------------------------------------------
Trading == INSTANCE PortfolioBooks WITH
  Orders <- {1, 2, 3, 4}, Terms <- TradeTerms, Prices <- {120}, Marks <- {},
  Dividends <- {}, Factors <- {}, Adjustments <- {}, Removable <- {1},
  MaxAttempts <- 4, MaxFinancial <- 0

Actions == INSTANCE PortfolioBooks WITH
  Orders <- {1, 2, 3}, Terms <- TwoTerms, Prices <- {120}, Marks <- {},
  Dividends <- {12}, Factors <- Both, Adjustments <- Withdraw, Removable <- {},
  MaxAttempts <- 2, MaxFinancial <- 2

Shares == INSTANCE PortfolioBooks WITH
  Orders <- {1, 2, 3}, Terms <- TwoTerms, Prices <- TwoPrices, Marks <- {360},
  Dividends <- {}, Factors <- Double, Adjustments <- {}, Removable <- {},
  MaxAttempts <- 2, MaxFinancial <- 2

Journal == INSTANCE SimulationJournal WITH
  Orders <- {1, 2}, Terms <- JournalTerms, Procs <- {"p1", "p2"}, lock <- storeLock,
  job <- storeJob

Cohort == INSTANCE CohortAdmission WITH
  Orders <- {1, 2, 3, 4}, Terms <- RunTerms, MaxAttempts <- 3

MCInit ==
  \/ scenario = "trading" /\ Trading!Init /\ Journal!Init /\ Cohort!Init /\ Init
  \/ scenario = "actions" /\ Actions!Init /\ Journal!Init /\ Cohort!Init /\ Init
  \/ scenario = "shares" /\ Shares!Init /\ Journal!Init /\ Cohort!Init /\ Init
  \/ scenario = "journal" /\ Journal!Init /\ Trading!Init /\ Cohort!Init /\ Init
  \/ scenario = "cohort" /\ Cohort!Init /\ Trading!Init /\ Journal!Init /\ Init
  \/ scenario = "controller" /\ Init /\ Trading!Init /\ Journal!Init /\ Cohort!Init

MCNext ==
  \/ scenario = "trading" /\ Trading!Next /\ UNCHANGED <<journalVars, cohortVars, vars, scenario>>
  \/ scenario = "actions" /\ Actions!Next /\ UNCHANGED <<journalVars, cohortVars, vars, scenario>>
  \/ scenario = "shares" /\ Shares!Next /\ UNCHANGED <<journalVars, cohortVars, vars, scenario>>
  \/ scenario = "journal" /\ Journal!Next /\ UNCHANGED <<booksVars, cohortVars, vars, scenario>>
  \/ scenario = "cohort" /\ Cohort!Next /\ UNCHANGED <<booksVars, journalVars, vars, scenario>>
  \/ scenario = "controller" /\ Next /\ UNCHANGED <<booksVars, journalVars, cohortVars, scenario>>

MCSpec == MCInit /\ [][MCNext]_mcVars

-----------------------------------------------------------------------------
\* The books of one portfolio, kept by code written apart, agree after any mix of
\* commands: reconciliation accepts the orders, fills and trades, the book follows
\* the OMS, sells are covered, value and attribution are conserved, and what is
\* infeasible has a cause and can be resolved.
BooksAgree ==
  /\ scenario = "trading" => Trading!BooksAgree
  /\ scenario = "actions" => Actions!BooksAgree
  /\ scenario = "shares" => Shares!BooksAgree

\* The journal holds what it answered: a published command stays, a lease is on the
\* journal it was yielded for, and the history can be replayed.
JournalHolds == scenario = "journal" => Journal!JournalHolds

\* Cohorts are admitted and traded out as the admission says: the history can be read
\* and commits what was prepared, one cohort is active, and exits neither oversell nor
\* strand what it holds.
CohortsHonoured == scenario = "cohort" => Cohort!CohortsHonoured
=============================================================================
