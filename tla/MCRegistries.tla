-------------------- MODULE MCRegistries --------------------
(***************************************************************************)
(* The identity lifecycle, the scope registry and the provider authority.  *)
(* A behaviour is of one scenario, an instance of one of the three; the    *)
(* others stay as they are.  The provider authority's properties need no   *)
(* scenario: while it does not move they hold.                             *)
(***************************************************************************)
EXTENDS ProviderAuthority, TLC

CONSTANTS
  a1, a2, c1, c2, c3, c4, i1, i2, ka, kb, kp, m1, n1, n2, n3, n4, n5, n6, o1, o2, p1,
  r1, t1, t2, t3, x, acct, buy, glob, port
CONSTANTS
  NonceOf, Classes, Leaves

VARIABLES
  db, cur, idJob, lock, broken, up, conf, clock, idLeft,
  epoch, prepared, active, ledger, idents, links, rules, barriers, reserved, opids,
  opregs, now, revoked,
  scenario  \* the instance this behaviour is of

identityVars == <<db, cur, idJob, lock, broken, up, conf, clock, idLeft>>
registryVars == <<epoch, prepared, active, ledger, idents, links, rules, barriers,
                  reserved, opids, opregs, now, revoked>>
mcVars == <<identityVars, registryVars, vars, scenario>>

\* c3 repeats the nonce of c2
NonceOfCommand == [c \in {c1, c2, c3, c4} |->
                     CASE c = c1 -> n1 [] c \in {c2, c3} -> n2 [] OTHER -> n3]
OneWindow == {<<0, 2>>}
TwoWindows == {<<0, 1>>, <<0, 2>>}
Conf(k) == [ACCOUNT |-> [key |-> k, valid |-> <<0, 3>>],
            PORTFOLIO |-> [key |-> kp, valid |-> <<0, 3>>]]
OneConfig == {Conf(ka)}
TwoConfigs == {Conf(ka), Conf(kb)}

Id(dim, v, pe) == [dim |-> dim, value |-> v, pe |-> pe]
G == Id("GLOBAL", glob, 1)
A(pe) == Id("ACCOUNT", acct, pe)
P(pe) == Id("PORTFOLIO", port, pe)
O(o) == Id("OPERATION", o, 1)
Entry(d, win, parent) == [id |-> d, win |-> win, parent |-> parent]
Long == <<0, 9>>
Owned(d) == Entry(d, <<>>, <<>>)
Rules == {[class |-> buy, dim |-> d, min |-> 1, max |-> 1] :
            d \in {"GLOBAL", "ACCOUNT", "PORTFOLIO", "OPERATION"}}

\* One account and portfolio of producer epoch pe with the operations of os;
\* w is the validity of the account's assertion
Catalogue(pe, os, w) ==
  [ids |-> {Owned(G), Entry(A(pe), w, <<>>), Entry(P(pe), Long, <<A(pe)>>)}
           \cup {Owned(O(o)) : o \in os},
   rels |-> {[child |-> P(pe), parent |-> A(pe), type |-> "PORTFOLIO_ACCOUNT"]}
            \cup {[child |-> O(o), parent |-> P(pe), type |-> "OPERATION_LEAF"] : o \in os},
   rules |-> Rules]

\* A first catalogue, a grown one, a replaced account, a renewed assertion of
\* the same account, and a portfolio under an account it was not issued for
FiveChanges ==
  {Catalogue(1, {o1}, Long), Catalogue(1, {o1, o2}, Long),
   Catalogue(2, {o1}, Long), Catalogue(1, {o1}, <<0, 8>>),
   [Catalogue(1, {o1}, Long) EXCEPT !.ids =
       {Owned(G), Entry(A(2), Long, <<>>), Entry(P(1), Long, <<A(1)>>), Owned(O(o1))},
       !.rels = {[child |-> P(1), parent |-> A(2), type |-> "PORTFOLIO_ACCOUNT"],
                 [child |-> O(o1), parent |-> P(1), type |-> "OPERATION_LEAF"]}]}
Replaced == {Catalogue(1, {o1, o2}, Long), Catalogue(2, {o1, o2}, Long)}
Grown == {Catalogue(1, {o1}, Long), Catalogue(1, {o1, o2}, Long)}
FourLeaves == {{G, A(1), P(1), O(o1)}, {G, A(1), P(1), O(o2)}, {G, P(1), O(o1)},
               {G, A(2), P(2), O(o1)}}
LongWindow == {Long}

\* Provider specifications; c4 is an identity used for two commands
Spec1 == [prov |-> x, from |-> 0, until |-> 1]
Spec2 == [prov |-> x, from |-> 1, until |-> 2]
TwoSpecs == {Spec1, Spec2}
TwoBoots == {[id |-> "b1", kind |-> "BOOTSTRAP", time |-> t] : t \in {0, 1}}
AllCommands ==
  {[id |-> "c1", kind |-> "ACTIVATE", spec |-> Spec1],
   [id |-> "c2", kind |-> "ROTATE", spec |-> Spec2],
   [id |-> "c3", kind |-> "REVOKE", spec |-> <<>>],
   [id |-> "c4", kind |-> "ACTIVATE", spec |-> Spec1],
   [id |-> "c4", kind |-> "EXPIRE", spec |-> <<>>]}

-----------------------------------------------------------------------------
Lineage == INSTANCE IdentityLifecycle WITH
  Accounts <- {a1}, Portfolios <- {}, MaxEpoch <- 2, MaxVersion <- 3,
  Cmds <- {c1, c2, c3, c4}, AskedStates <- {"ACTIVE", "REVOKED", "UNLISTED"},
  Windows <- OneWindow, Configs <- TwoConfigs, Readers <- {}, Times <- {0},
  MaxTicks <- 0, MaxCrashes <- 1, MaxFaults <- 1, job <- idJob, left <- idLeft

Parents == INSTANCE IdentityLifecycle WITH
  Accounts <- {a1, a2}, Portfolios <- {p1}, MaxEpoch <- 1, MaxVersion <- 2,
  Cmds <- {c1, c2}, AskedStates <- {"ACTIVE", "REVOKED"}, Windows <- OneWindow,
  Configs <- OneConfig, Readers <- {"PORTFOLIO"}, Times <- {0}, MaxTicks <- 0,
  MaxCrashes <- 0, MaxFaults <- 0, job <- idJob, left <- idLeft

Validity == INSTANCE IdentityLifecycle WITH
  Accounts <- {a1}, Portfolios <- {}, MaxEpoch <- 2, MaxVersion <- 2,
  Cmds <- {c1, c2}, AskedStates <- {"ACTIVE", "SUSPENDED", "REVOKED"},
  Windows <- TwoWindows, Configs <- TwoConfigs, Readers <- {}, Times <- {0, 1, 2},
  MaxTicks <- 2, MaxCrashes <- 0, MaxFaults <- 0, job <- idJob, left <- idLeft

Catalogues == INSTANCE ScopeRegistry WITH
  ChangeSets <- FiveChanges, Tids <- {t1, t2, t3},
  Nonces <- {n1, n2, n3, n4, n5, n6}, Windows <- LongWindow, Issuers <- {i1, i2},
  Operations <- {}, MaxEpoch <- 4, MaxTime <- 0, MaxRevoked <- 1

Registrations == INSTANCE ScopeRegistry WITH
  ChangeSets <- Replaced, Tids <- {t1, t2}, Nonces <- {n1, n2, n3, n4},
  Windows <- LongWindow, Issuers <- {i1}, Operations <- {o1, o2}, MaxEpoch <- 3,
  MaxTime <- 0, MaxRevoked <- 0

Lapse == INSTANCE ScopeRegistry WITH
  ChangeSets <- Grown, Tids <- {t1, t2}, Nonces <- {n1, n2, n3},
  Windows <- TwoWindows, Issuers <- {i1}, Operations <- {o1}, MaxEpoch <- 3,
  MaxTime <- 2, MaxRevoked <- 1

MCInit ==
  \/ scenario = "lineage" /\ Lineage!Init /\ Catalogues!Init /\ Init
  \/ scenario = "parents" /\ Parents!Init /\ Catalogues!Init /\ Init
  \/ scenario = "validity" /\ Validity!Init /\ Catalogues!Init /\ Init
  \/ scenario = "catalogue" /\ Catalogues!Init /\ Lineage!Init /\ Init
  \/ scenario = "operations" /\ Registrations!Init /\ Lineage!Init /\ Init
  \/ scenario = "lapse" /\ Lapse!Init /\ Lineage!Init /\ Init
  \/ scenario = "provider" /\ Init /\ Lineage!Init /\ Catalogues!Init

MCNext ==
  \/ scenario = "lineage" /\ Lineage!Next /\ UNCHANGED <<registryVars, vars, scenario>>
  \/ scenario = "parents" /\ Parents!Next /\ UNCHANGED <<registryVars, vars, scenario>>
  \/ scenario = "validity" /\ Validity!Next /\ UNCHANGED <<registryVars, vars, scenario>>
  \/ scenario = "catalogue" /\ Catalogues!Next /\ UNCHANGED <<identityVars, vars, scenario>>
  \/ scenario = "operations" /\ Registrations!Next /\ UNCHANGED <<identityVars, vars, scenario>>
  \/ scenario = "lapse" /\ Lapse!Next /\ UNCHANGED <<identityVars, vars, scenario>>
  \/ scenario = "provider" /\ Next /\ UNCHANGED <<identityVars, registryVars, scenario>>
  \/ scenario \in {"catalogue", "operations", "lapse", "provider"} /\ UNCHANGED mcVars  \* these may stop

MCSpec == MCInit /\ [][MCNext]_mcVars

Symmetry == Permutations({a1, a2})

-----------------------------------------------------------------------------
\* The rows of both dimensions stay a lineage that the store accepts when it
\* is reopened, with one row per command and nonce, and one parent for every
\* record of a portfolio.
LineageSound ==
  /\ scenario = "lineage" => Lineage!LineageSound
  /\ scenario = "parents" => Parents!LineageSound
  /\ scenario = "validity" => Validity!LineageSound

\* Catalogue, barriers and operations agree after any sequence of transitions:
\* the tables are what the last activation signed, the barriers cover exactly
\* the live identities, and operations are registered as they were prepared.
CatalogueConsistent ==
  /\ scenario = "catalogue" => Catalogues!CatalogueConsistent
  /\ scenario = "operations" => Registrations!CatalogueConsistent
  /\ scenario = "lapse" => Lapse!CatalogueConsistent

\* An answer never rests on what is gone: at the moment a read is served the
\* identity is current although it was fetched in an earlier transaction, and
\* a portfolio whose account was revoked or replaced is not served again.
ServedNotGone ==
  [][/\ scenario = "parents" => Parents!ServedNotGoneStep
     /\ scenario = "validity" => Validity!ServedNotGoneStep]_mcVars

\* The registry only moves forward: an identity that left does not come back,
\* no catalogue transition slips between the verification of an operation and
\* its registration, and nothing is accepted on an activation that has lapsed.
RegistryMovesForward ==
  [][/\ scenario = "catalogue" => Catalogues!RegistryMovesForwardStep
     /\ scenario = "operations" => Registrations!RegistryMovesForwardStep
     /\ scenario = "lapse" => Lapse!RegistryMovesForwardStep]_mcVars
=============================================================================
