----------------------------- MODULE WealthLedger -----------------------------
(***************************************************************************)
(* Net worth in finance.db: account balances, holdings and liabilities per *)
(* month end, and the snapshot that sums each month (finance/api.py).      *)
(* Three programs write these tables: the finance API for the operator,    *)
(* the bridge for every parsed statement (bridge/pdf_handler.py), and the  *)
(* importer, which values one property by the transfers paid for it.       *)
(*                                                                         *)
(* An endpoint commits its row and then sums the month again in a second   *)
(* transaction, whose reads and write are apart; the other writers leave   *)
(* the snapshots alone.  What that sum raises is logged and forgotten, and *)
(* the API may stop before it.  Of a row the value is kept and whether it  *)
(* was entered or copied from an earlier month.                            *)
(***************************************************************************)
EXTENDS Integers, FiniteSetsExt, Functions

CONSTANTS Now,         \* months are 1..Now, the current one
          Assets,      \* identities of holdings
          Stable,      \* those of a carry-forward class
          Synced,      \* the stable one valued by the importer
          Listed,      \* positions of a portfolio statement, gap-filled
          Bonds, Funds, \* positions of the other statements
          Statements,  \* [positions -> values] a statement may show
          Worths,      \* amounts
          Handlers,    \* requests of the API in flight at once
          WealthRegimes, \* which operations a behaviour has, and how many
          Nothing

Months == 1..Now
ASSUME WealthAssumption ==
  /\ Now \in Nat \ {0} /\ IsFiniteSet(Assets)
  /\ Stable \subseteq Assets /\ Listed \cup Bonds \cup Funds \subseteq Assets \ Stable /\ Synced \in Stable
  /\ Worths \subseteq Nat
  /\ \A s \in Statements : s \in [DOMAIN s -> Worths]
  /\ \A s \in Statements : \/ DOMAIN s \subseteq Listed \/ DOMAIN s \subseteq Bonds
                           \/ DOMAIN s \subseteq Funds
  /\ WealthRegimes \subseteq [overlap : BOOLEAN, ops : SUBSET {"balance", "holding", "debt",
                        "view", "portfolio", "savings", "card", "sync", "delete", "fail"}, bound : Nat]

VARIABLES
  balances,   \* account_balances of one account, by month and owner
  holdings,   \* holdings, by month and asset
  debts,      \* liabilities of one card, by month
  snapshots,  \* net_worth_snapshots, by month
  handlers,   \* the API's requests: what they have still to do
  filling,    \* the portfolio statement the bridge has yet to gap-fill from
  mapped,     \* whether the configuration names the owner of the account
  paid,       \* transfers for the synced asset, by month
  syncing,    \* where the importer is in valuing the synced asset
  stated,     \* history: the last portfolio statement of a month
  stale,      \* history: months written by a program that does not sum them,
              \* or whose sum was lost
  wealthRegime, steps

wtables == <<balances, holdings, debts, snapshots>>
wprograms == <<handlers, filling, mapped, paid, syncing>>
whistory == <<stated, stale>>
wvars == <<wtables, wprograms, whistory, wealthRegime, steps>>

Owners == {"Unknown", "named"}
Mark == [value : Nat, origin : {"entered", "carried"}]
ASSUME NothingAssumption == Nothing \notin Mark
Entered(v) == [value |-> v, origin |-> "entered"]
Carried(v) == [value |-> v, origin |-> "carried"]
Quiet == [pc |-> "idle"]
NoRequest == \A r \in Handlers : handlers[r] = Quiet

WInit ==
  /\ balances = [m \in Months |-> [o \in Owners |-> Nothing]]
  /\ holdings = [m \in Months |-> [a \in Assets |-> Nothing]]
  /\ debts = [m \in Months |-> Nothing] /\ snapshots = [m \in Months |-> Nothing]
  /\ handlers = [r \in Handlers |-> Quiet] /\ filling = Nothing
  /\ mapped \in BOOLEAN /\ paid = [m \in Months |-> 0] /\ syncing = Quiet
  /\ stated = [m \in Months |-> Nothing] /\ stale = {}
  /\ wealthRegime \in WealthRegimes /\ steps = 0

\* The first step of an operation.
Begins(op) ==
  /\ op \in wealthRegime.ops /\ steps < wealthRegime.bound /\ steps' = steps + 1
  /\ wealthRegime.overlap \/ (NoRequest /\ filling = Nothing /\ syncing = Quiet)
-----------------------------------------------------------------------------
(***************************************************************************)
(* Sums.                                                                   *)
(***************************************************************************)
Held(hs, m) == {a \in Assets : hs[m][a] # Nothing}
Kept(m) == {o \in Owners : balances[m][o] # Nothing}
AssetSum(hs, m) == SumFunction([o \in Kept(m) |-> balances[m][o]])
                     + SumFunction([a \in Held(hs, m) |-> hs[m][a].value])

\* The most recent balance of the card as of the month.
Debt(m) == LET known == {n \in 1..m : debts[n] # Nothing}
           IN  IF known = {} THEN 0 ELSE debts[Max(known)]

\* _aggregate_snapshot: with the change since the last earlier snapshot.
Aggregate(hs, m) ==
  LET earlier == {n \in 1..(m - 1) : snapshots[n] # Nothing}
      before == IF earlier = {} THEN 0
                ELSE snapshots[Max(earlier)].assets - snapshots[Max(earlier)].debt
  IN  [assets |-> AssetSum(hs, m), debt |-> Debt(m),
       change |-> AssetSum(hs, m) - Debt(m) - before]

\* Mutant: only the first of the months is summed again.
Forgotten(months) == {}
Rest(months) == months \ {Min(months)}

\* What a request does after its own row is committed: it sums months, the
\* earliest first.
Then(r, months, cascade) ==
  handlers' = [handlers EXCEPT ![r] =
    [pc |-> "read", months |-> months, cascade |-> cascade, sums |-> Nothing]]

\* Then the next month, or the cascade that follows the edited month's sum.
Onward(q) ==
  IF Rest(q.months) # {} THEN [q EXCEPT !.pc = "read", !.months = Rest(q.months)]
  ELSE IF q.cascade # Nothing THEN [q EXCEPT !.pc = "cascade"] ELSE Quiet

ReadSums(r) ==
  /\ handlers[r].pc = "read"
  /\ handlers' = [handlers EXCEPT ![r].pc = "write", ![r].sums = Aggregate(holdings, Min(handlers[r].months))]
  /\ UNCHANGED <<wtables, filling, mapped, paid, syncing, stated, stale, wealthRegime, steps>>

\* A change of an earlier debt or asset leaves later sums as they were.
WriteSums(r) ==
  /\ handlers[r].pc = "write"
  /\ LET q == handlers[r]
     IN  /\ snapshots' = [snapshots EXCEPT ![Min(q.months)] = q.sums]
         /\ stale' = stale \ {Min(q.months)}
         /\ handlers' = [handlers EXCEPT ![r] = Onward(q)]
  /\ UNCHANGED <<balances, holdings, debts, filling, mapped, paid, syncing, stated, wealthRegime, steps>>

\* _auto_snapshot: what reading or writing the sums raises is swallowed, and
\* the request goes on as if the month had been summed.
Summing(r) == handlers[r].pc \in {"read", "write"}
SumFails(r) ==
  /\ "fail" \in wealthRegime.ops /\ Summing(r)
  /\ stale' = stale \cup {Min(handlers[r].months)}
  /\ handlers' = [handlers EXCEPT ![r] = Onward(handlers[r])]
  /\ UNCHANGED <<wtables, filling, mapped, paid, syncing, stated, wealthRegime, steps>>

\* The process ends: the rows its requests committed stay, the sums and the
\* cascades they had still to do are lost.
Unsummed == {m \in Months : \E r \in Handlers : Summing(r) /\ m \in handlers[r].months}
ApiStops ==
  /\ "fail" \in wealthRegime.ops /\ ~NoRequest
  /\ handlers' = [r \in Handlers |-> Quiet] /\ stale' = stale \cup Unsummed
  /\ UNCHANGED <<wtables, filling, mapped, paid, syncing, stated, wealthRegime, steps>>
-----------------------------------------------------------------------------
(***************************************************************************)
(* Endpoints of the operator.                                              *)
(***************************************************************************)
Unbothered == UNCHANGED <<filling, mapped, paid, syncing, stated, wealthRegime>>

UpsertBalance(r, m, v) ==
  /\ Begins("balance") /\ handlers[r] = Quiet
  /\ balances' = [balances EXCEPT ![m]["named"] = v]
  /\ Then(r, {m}, Nothing)
  /\ Unbothered /\ UNCHANGED <<holdings, debts, snapshots, stale>>

DeleteBalance(r, m, o) ==
  /\ Begins("delete") /\ handlers[r] = Quiet /\ balances[m][o] # Nothing
  /\ balances' = [balances EXCEPT ![m][o] = Nothing]
  /\ Then(r, {m}, Nothing)
  /\ Unbothered /\ UNCHANGED <<holdings, debts, snapshots, stale>>

\* Later debts are carried from this one: their months are not summed again.
LaterThan(m) == (m + 1)..Now

UpsertDebt(r, m, v) ==
  /\ Begins("debt") /\ handlers[r] = Quiet
  /\ debts' = [debts EXCEPT ![m] = v]
  /\ stale' = stale \cup LaterThan(m)
  /\ Then(r, {m}, Nothing)
  /\ Unbothered /\ UNCHANGED <<balances, holdings, snapshots>>

DeleteDebt(r, m) ==
  /\ Begins("delete") /\ handlers[r] = Quiet /\ debts[m] # Nothing
  /\ debts' = [debts EXCEPT ![m] = Nothing]
  /\ stale' = stale \cup LaterThan(m)
  /\ Then(r, {m}, Nothing)
  /\ Unbothered /\ UNCHANGED <<balances, holdings, snapshots>>

UpsertHolding(r, m, a, v) ==
  /\ Begins("holding") /\ handlers[r] = Quiet
  /\ holdings' = [holdings EXCEPT ![m][a] = Entered(v)]
  /\ Then(r, {m}, IF a \in Stable THEN [month |-> m, asset |-> a] ELSE Nothing)
  /\ Unbothered /\ UNCHANGED <<balances, debts, snapshots, stale>>

\* _cascade_holding_update: later rows of a stable asset take the new value.
\* What raises here ends the request with nothing done.
Affected(m, a) == {n \in LaterThan(m) : holdings[n][a] # Nothing}

Cascade(r) ==
  /\ handlers[r].pc = "cascade"
  /\ LET c == handlers[r].cascade
         source == holdings[c.month][c.asset]
         later == IF source = Nothing THEN {} ELSE Affected(c.month, c.asset)
     IN  /\ holdings' = [m \in Months |-> IF m \in later
                           THEN [holdings[m] EXCEPT ![c.asset] = source] ELSE holdings[m]]
         /\ IF later = {} THEN handlers' = [handlers EXCEPT ![r] = Quiet]
            ELSE Then(r, later, Nothing)
  /\ Unbothered
  /\ UNCHANGED <<balances, debts, snapshots, stale, steps>>

CascadeFails(r) ==
  /\ "fail" \in wealthRegime.ops /\ handlers[r].pc = "cascade"
  /\ handlers' = [handlers EXCEPT ![r] = Quiet]
  /\ Unbothered /\ UNCHANGED <<wtables, stale, steps>>

DeleteHolding(r, m, a) ==
  /\ Begins("delete") /\ handlers[r] = Quiet /\ holdings[m][a] # Nothing
  /\ holdings' = [holdings EXCEPT ![m][a] = Nothing]
  /\ Then(r, {m}, Nothing)
  /\ Unbothered /\ UNCHANGED <<balances, debts, snapshots, stale>>

CreateSnapshot(r, m) ==
  /\ Begins("view") /\ handlers[r] = Quiet
  /\ Then(r, {m}, Nothing)
  /\ Unbothered /\ UNCHANGED <<balances, holdings, debts, snapshots, stale>>

\* _auto_carry_forward: the newest earlier row of each stable asset the
\* month has no row for.
Missing(m) == {a \in Stable : /\ holdings[m][a] = Nothing
                              /\ \E n \in 1..(m - 1) : holdings[n][a] # Nothing}
Newest(m, a) == holdings[Max({n \in 1..(m - 1) : holdings[n][a] # Nothing})][a].value
CarriedForward(m) ==
  [holdings EXCEPT ![m] = [a \in Assets |-> IF a \in Missing(m)
                             THEN Carried(Newest(m, a)) ELSE holdings[m][a]]]

\* _should_auto_carry_forward: the month has no row of any stable class.
NothingStable(m) == \A a \in Stable : holdings[m][a] = Nothing

\* GET /api/wealth/holdings: one transaction carries forward and sums; it is
\* committed also when the sum raises (_auto_snapshot_conn).
CarriedAndSummed(m) ==
  /\ holdings' = CarriedForward(m)
  /\ \/ /\ snapshots' = [snapshots EXCEPT ![m] = Aggregate(CarriedForward(m), m)]
        /\ stale' = stale \ {m}
     \/ /\ "fail" \in wealthRegime.ops
        /\ stale' = stale \cup {m} /\ UNCHANGED snapshots

ViewHoldings(m) ==
  /\ Begins("view")
  /\ IF NothingStable(m) /\ Missing(m) # {} THEN CarriedAndSummed(m)
     ELSE UNCHANGED <<holdings, snapshots, stale>>
  /\ Unbothered /\ UNCHANGED <<balances, debts, handlers>>

\* POST /api/wealth/holdings/rollover.
Rollover(r, m) ==
  /\ Begins("view") /\ handlers[r] = Quiet /\ Missing(m) # {}
  /\ holdings' = CarriedForward(m)
  /\ Then(r, {m}, Nothing)
  /\ Unbothered /\ UNCHANGED <<balances, debts, snapshots, stale>>
-----------------------------------------------------------------------------
(***************************************************************************)
(* The bridge, after parsing a statement; none of this is summed.          *)
(***************************************************************************)
\* _upsert_closing_balance: once the owner is known, the row that an import
\* made without it goes.
Settled(m, v) ==
  [balances EXCEPT ![m] = IF mapped THEN [o \in Owners |-> IF o = "named" THEN v ELSE Nothing]
                          ELSE [@ EXCEPT !["Unknown"] = v]]

SaveBalance(m, v) ==
  /\ Begins("savings") /\ balances' = Settled(m, v)
  /\ stale' = stale \cup {m}
  /\ UNCHANGED <<holdings, debts, snapshots, wprograms, stated, wealthRegime>>

\* The operator adds the owner to the configuration.
MapOwner ==
  /\ ~mapped /\ mapped' = TRUE /\ "savings" \in wealthRegime.ops
  /\ UNCHANGED <<wtables, handlers, filling, paid, syncing, stated, stale, wealthRegime, steps>>

\* _upsert_cc_liability: a card with nothing due gets no row.
SaveCard(m, v) ==
  /\ Begins("card") /\ v > 0
  /\ debts' = [debts EXCEPT ![m] = v]
  /\ stale' = stale \cup (m..Now)
  /\ UNCHANGED <<balances, holdings, snapshots, wprograms, stated, wealthRegime>>

\* The positions of a statement replace those of the same names.
WithPositions(m, st) ==
  [holdings EXCEPT ![m] = [a \in Assets |-> IF a \in DOMAIN st
                             THEN Entered(st[a]) ELSE holdings[m][a]]]

SaveStatement(m, st) ==
  /\ Begins("portfolio") /\ filling = Nothing
  /\ holdings' = WithPositions(m, st) /\ stated' = [stated EXCEPT ![m] = st]
  /\ stale' = stale \cup {m}
  /\ UNCHANGED <<balances, debts, snapshots, handlers, mapped, paid, syncing, wealthRegime>>

\* _upsert_bond_holdings, _upsert_fund_holdings: the month alone.
SaveBonds(m, st) == DOMAIN st \subseteq Bonds /\ SaveStatement(m, st) /\ filling' = Nothing
SaveFunds(m, st) == DOMAIN st \subseteq Funds /\ SaveStatement(m, st) /\ filling' = Nothing

\* _upsert_investment_holdings: the months after it are gap-filled next.
SavePortfolio(m, st) ==
  /\ DOMAIN st \subseteq Listed /\ SaveStatement(m, st)
  /\ filling' = [month |-> m, shows |-> st]

\* Copies into the months that follow, up to one with a position already.
Gap(m) == {n \in LaterThan(m) : \A k \in (m + 1)..n : Held(holdings, k) \cap Listed = {}}

\* Mutant: what a filled month holds is replaced.
FillAll(st, m) ==
  [n \in Months |-> IF n > m THEN [a \in Assets |-> IF a \in DOMAIN st
                      THEN Carried(st[a]) ELSE holdings[n][a]] ELSE holdings[n]]
Fill(st, m) ==
  [n \in Months |-> IF n \in Gap(m)
     THEN [a \in Assets |-> IF a \in DOMAIN st /\ holdings[n][a] = Nothing
                             THEN Carried(st[a]) ELSE holdings[n][a]]
     ELSE holdings[n]]

FillGap ==
  /\ filling # Nothing
  /\ holdings' = Fill(filling.shows, filling.month)
  /\ stale' = stale \cup Gap(filling.month) /\ filling' = Nothing
  /\ UNCHANGED <<balances, debts, snapshots, handlers, mapped, paid, syncing, stated, wealthRegime, steps>>
-----------------------------------------------------------------------------
(***************************************************************************)
(* The importer: transfers for the synced asset, then its value.           *)
(***************************************************************************)
ImportTransfer(m, v) ==
  /\ Begins("sync") /\ syncing = Quiet
  /\ paid' = [paid EXCEPT ![m] = @ + v] /\ syncing' = [pc |-> "paid"]
  /\ UNCHANGED <<wtables, handlers, filling, mapped, stated, stale, wealthRegime>>

\* Every month from the first to the last that any table knows of.
PaidBy(m) == LET upTo[n \in 0..Now] == IF n = 0 THEN 0 ELSE upTo[n - 1] + paid[n] IN upTo[m]
Covered ==
  LET dated == {m \in Months : \/ snapshots[m] # Nothing \/ debts[m] # Nothing \/ Kept(m) # {}
                               \/ Held(holdings, m) # {} \/ paid[m] # 0}
  IN  1..Max({1} \cup dated)

\* Mutant: the transfers of each month alone.
PaidIn(m) == paid[m]
Appraisal(m) == PaidBy(m)

ReadTransfers ==
  /\ syncing = [pc |-> "paid"]
  /\ syncing' = [pc |-> "read", values |-> [m \in Covered |-> Appraisal(m)]]
  /\ UNCHANGED <<wtables, handlers, filling, mapped, paid, stated, stale, wealthRegime, steps>>

SyncAsset ==
  /\ syncing.pc = "read" /\ syncing' = Quiet
  /\ holdings' = [m \in Months |-> IF m \in DOMAIN syncing.values
                    THEN [holdings[m] EXCEPT ![Synced] = Entered(syncing.values[m])] ELSE holdings[m]]
  /\ stale' = stale \cup DOMAIN syncing.values
  /\ UNCHANGED <<balances, debts, snapshots, handlers, filling, mapped, paid, stated, wealthRegime, steps>>
-----------------------------------------------------------------------------
Api == \E r \in Handlers :
  \/ ReadSums(r) \/ WriteSums(r) \/ SumFails(r) \/ Cascade(r) \/ CascadeFails(r)
  \/ \E m \in Months :
       \/ \E v \in Worths : UpsertBalance(r, m, v) \/ UpsertDebt(r, m, v)
       \/ \E a \in Assets, v \in Worths : UpsertHolding(r, m, a, v)
       \/ \E a \in Assets : DeleteHolding(r, m, a)
       \/ \E o \in Owners : DeleteBalance(r, m, o)
       \/ DeleteDebt(r, m) \/ CreateSnapshot(r, m) \/ Rollover(r, m)

Others ==
  \/ \E m \in Months :
       \/ ViewHoldings(m)
       \/ \E v \in Worths : SaveBalance(m, v) \/ SaveCard(m, v) \/ ImportTransfer(m, v)
       \/ \E st \in Statements :
            SavePortfolio(m, st) \/ SaveBonds(m, st) \/ SaveFunds(m, st)
  \/ ApiStops \/ MapOwner \/ FillGap \/ ReadTransfers \/ SyncAsset

WNext == Api \/ Others
WSpec == WInit /\ [][WNext]_wvars
-----------------------------------------------------------------------------
WTypeOK ==
  /\ balances \in [Months -> [Owners -> Nat \cup {Nothing}]]
  /\ \A m \in Months, a \in Assets : holdings[m][a] \in Mark \cup {Nothing}
  /\ debts \in [Months -> Nat \cup {Nothing}]
  /\ \A m \in Months : snapshots[m] # Nothing =>
       /\ snapshots[m].assets \in Nat /\ snapshots[m].debt \in Nat /\ snapshots[m].change \in Int
  /\ \A r \in Handlers : handlers[r].pc \in {"idle", "read", "write", "cascade"}
  /\ stale \subseteq Months

\* With requests one at a time, the snapshot of a month is the sum of what
\* the tables hold, but for the months the bridge and the importer wrote,
\* those after a changed debt, and those whose own sum raised or was cut off:
\* an edit that cascades sums every other month, and a later sum heals each.
SnapshotCurrent ==
  (~wealthRegime.overlap /\ NoRequest) => \A m \in Months \ stale : snapshots[m] # Nothing =>
    /\ snapshots[m].assets = AssetSum(holdings, m)
    /\ snapshots[m].debt = Debt(m)

\* A value that was entered or read from a statement is never replaced by a
\* copy of an earlier month's, however carrying forward, gap-filling and
\* statements are ordered or overlap.
CopiesYield ==
  [][\A m \in Months, a \in Assets :
       (holdings[m][a] # Nothing /\ holdings[m][a].origin = "entered") =>
         (holdings'[m][a] = Nothing \/ holdings'[m][a].origin = "entered"
            \/ \E n \in 1..(m - 1) : holdings'[m][a] = holdings[n][a])]_wvars

\* Positions are those of the month's own statement, in whatever order the
\* statements of several months are parsed.
StatementStands ==
  "holding" \notin wealthRegime.ops /\ "delete" \notin wealthRegime.ops =>
    \A m \in Months : stated[m] # Nothing =>
      \A a \in DOMAIN stated[m] : holdings[m][a] = Entered(stated[m][a])

\* An account is counted once: when its owner becomes known, the balance
\* that an import of the same statement saved under "Unknown" goes.
CountedOnce ==
  \A m \in Months : Cardinality(Kept(m)) <= 1 \/ "balance" \in wealthRegime.ops

\* After an import, the synced asset is worth what was paid for it by then,
\* in every month that shows it, also months it was carried forward to.
WorthWhatWasPaid ==
  (syncing = Quiet /\ ~wealthRegime.overlap /\ "holding" \notin wealthRegime.ops /\ "delete" \notin wealthRegime.ops) =>
    \A m \in Months : holdings[m][Synced] # Nothing =>
      holdings[m][Synced].value = PaidBy(m)

(***************************************************************************)
(* Positions are those of the month's statement, an account counts once,   *)
(* and the synced asset is worth what was paid.                            *)
(***************************************************************************)
HoldingsStand ==
  /\ WTypeOK
  /\ StatementStands
  /\ CountedOnce
  /\ WorthWhatWasPaid
=============================================================================
