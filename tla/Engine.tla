------------------------------- MODULE Engine -------------------------------
(***************************************************************************)
(* The backtest kernel (cpp/include/backtest/engine.hpp) with the recorder *)
(* of the report path (cpp/src/backtest/backtest.cpp), day by day: force   *)
(* delisted positions out, mark to market, decide from today's ranking     *)
(* what to sell and to buy, sell, buy, spend what cash is left on the      *)
(* positions below target, record.                                         *)
(*                                                                         *)
(* A position is kept by its market value; between two days the market     *)
(* moves values (falls) and marks assets as suspended, at a price limit    *)
(* (limit_up and limit_dn act alike) or delisted.  Money is counted in     *)
(* whole units with fees rounded down, so a positive amount buys a         *)
(* positive position, as it does with the code's doubles.                  *)
(***************************************************************************)
EXTENDS Integers, Sequences, FiniteSets, FiniteSetsExt

CONSTANTS
  Asset,
  Listed,       \* the assets that have a price from the first day on
  HoldN,        \* hold_n
  ExitN,        \* hold_n * exit_ratio: in these ranks a position is kept
  Capital,      \* BACKTEST_CAPITAL_BASE
  BuyCost, SellCost,   \* BACKTEST_BUY_COST and _SELL_COST, in parts of Base
  Base,
  LastDay,      \* bound: days of the backtest window
  MaxShocks     \* bound: falls, suspensions, limits and delistings in all

ASSUME EngineAssumption ==
  /\ IsFiniteSet(Asset) /\ Listed \subseteq Asset
  /\ HoldN \in Nat \ {0}
  /\ ExitN \in Nat /\ ExitN >= HoldN      \* registry.hpp: exit_ratio >= 1
  /\ Capital \in Nat \ {0}
  /\ Base \in Nat \ {0}
  /\ BuyCost \in 0 .. Base - 1 /\ SellCost \in 0 .. Base - 1
  /\ LastDay \in Nat /\ MaxShocks \in Nat

VARIABLES
  day, phase,
  holdings, cash,
  turn_amt, pv,
  cands,        \* today's ranking, best first
  buy,          \* buy_: the ranks still to be bought
  target,       \* target_per_slot
  defs,         \* defs_: positions below target still to be topped up
  susp, lim, delisted, priced,   \* today's market
  open_recs,    \* recorder: the day each position was opened, None if none is
  hold_streak, hold_last_seen,   \* recorder: days held in a row
  shocks

vars == <<day, phase, holdings, cash, turn_amt, pv, cands, buy, target, defs,
          susp, lim, delisted, priced, open_recs, hold_streak, hold_last_seen, shocks>>
market == <<susp, lim, delisted, priced, shocks>>
streaks == <<hold_streak, hold_last_seen>>

None == 0
Pos == [a : Asset, value : Nat, to_sell : BOOLEAN]
Deficit == [a : Asset, def : Nat]

AssetsOf(ps) == {p.a : p \in ps}
MarketValue(ps) == MapThenSumSet(LAMBDA p : p.value, ps)
Least(m, n) == IF m <= n THEN m ELSE n

(* What a sale brings, and what an outlay buys, after costs. *)
Proceeds(v) == v - (v * SellCost) \div Base
Bought(m) == m - (m * BuyCost) \div (Base + BuyCost)

-----------------------------------------------------------------------------
Init ==
  /\ day = 0 /\ phase = "closed"
  /\ holdings = {} /\ cash = Capital
  /\ turn_amt = 0 /\ pv = 0
  /\ cands = <<>> /\ buy = {} /\ target = 0 /\ defs = {}
  /\ susp = {} /\ lim = {} /\ delisted = {} /\ priced = Listed
  /\ open_recs = [a \in Asset |-> None]
  /\ hold_streak = [a \in Asset |-> 0] /\ hold_last_seen = [a \in Asset |-> -1]
  /\ shocks = 0

(***************************************************************************)
(* A new day: the market of row i.  A suspended or delisted asset keeps    *)
(* its last price; an asset without a price may get one.                   *)
(***************************************************************************)
Fallen(v) == v - v \div 2

OpenDay(s, l, d, falls) ==
  /\ phase = "closed" /\ day < LastDay
  /\ falls \subseteq AssetsOf(holdings) \ (s \cup d \cup delisted)
  /\ d \cap delisted = {}
  /\ shocks' = shocks + Cardinality(s) + Cardinality(l) + Cardinality(d) + Cardinality(falls)
  /\ shocks' <= MaxShocks
  /\ day' = day + 1
  /\ susp' = s /\ lim' = l /\ delisted' = delisted \cup d
  /\ priced' \in {priced, Asset}
  /\ holdings' = {IF p.a \in falls THEN [p EXCEPT !.value = Fallen(@)] ELSE p : p \in holdings}
  /\ turn_amt' = 0
  /\ phase' = "delist"
  /\ UNCHANGED <<cash, pv, cands, buy, target, defs, open_recs, streaks>>

(***************************************************************************)
(* (1) Delisted positions go at their last price.                          *)
(***************************************************************************)
DelistSell(p) ==
  /\ phase = "delist" /\ p \in holdings /\ p.a \in delisted
  /\ holdings' = holdings \ {p}
  /\ cash' = cash + Proceeds(p.value)
  /\ turn_amt' = turn_amt + p.value
  /\ open_recs' = [open_recs EXCEPT ![p.a] = None]
  /\ UNCHANGED <<day, phase, pv, cands, buy, target, defs, market, streaks>>

(* (2) *)
Mark ==
  /\ phase = "delist" /\ AssetsOf(holdings) \cap delisted = {}
  /\ pv' = cash + MarketValue(holdings)
  /\ phase' = "decide"
  /\ UNCHANGED <<day, holdings, cash, turn_amt, cands, buy, target, defs, market, open_recs,
                 streaks>>

(***************************************************************************)
(* (3), (4) What to sell and to buy.  The ranking holds assets of the      *)
(* pool: neither suspended nor delisted (columns.cpp, ts_pool_b).          *)
(***************************************************************************)
Rankings ==
  {r \in UNION {[1 .. n -> Asset \ (susp \cup delisted)] : n \in 0 .. Cardinality(Asset)} :
     \A j, k \in DOMAIN r : r[j] = r[k] => j = k}

InPrefix(a, r, n) == \E k \in 1 .. Least(n, Len(r)) : r[k] = a

(* Slip: keep a position up to one rank further than the exit rank. *)
StaysOneFurther(p, r) == InPrefix(p.a, r, ExitN + 1) \/ p.a \in lim

Stays(p, r) == InPrefix(p.a, r, ExitN) \/ p.a \in lim

(* Slip: buy what is among the best ranks, held or not. *)
WantedAlthoughHeld(r, ps) == {k \in 1 .. Least(HoldN, Len(r)) : r[k] \notin lim}

(* The best ranks, those kept and those at a limit left out. *)
Eligible(r, ps) ==
  {k \in 1 .. Least(HoldN, Len(r)) : /\ r[k] \notin lim
                                    /\ ~ \E p \in ps : p.a = r[k] /\ Stays(p, r)}

(* As many of them, best first, as there are slots not kept. *)
Wanted(r, ps) ==
  {k \in Eligible(r, ps) :
     Cardinality({j \in Eligible(r, ps) : j < k}) + Cardinality({p \in ps : Stays(p, r)}) < HoldN}

Decide(r) ==
  /\ phase = "decide"
  /\ cands' = r
  /\ holdings' = {[p EXCEPT !.to_sell = ~Stays(p, r)] : p \in holdings}
  /\ buy' = Wanted(r, holdings)
  /\ phase' = "sell"
  /\ UNCHANGED <<day, cash, turn_amt, pv, target, defs, market, open_recs, streaks>>

(***************************************************************************)
(* (5) Sell; a suspended position stays, though its slot is given away.    *)
(***************************************************************************)
Sellable(p) == p.to_sell /\ p.a \notin susp

Sell(p) ==
  /\ phase = "sell" /\ p \in holdings /\ Sellable(p)
  /\ holdings' = holdings \ {p}
  /\ cash' = cash + Proceeds(p.value)
  /\ turn_amt' = turn_amt + p.value
  /\ open_recs' = [open_recs EXCEPT ![p.a] = None]
  /\ UNCHANGED <<day, phase, pv, cands, buy, target, defs, market, streaks>>

(***************************************************************************)
(* (6) The target of a slot, the purchases, and the sweep of what cash is  *)
(* left over the positions below target, the furthest below first.         *)
(***************************************************************************)
SetTarget ==
  /\ phase = "sell" /\ ~ \E p \in holdings : Sellable(p)
  /\ target' = (cash + MarketValue(holdings) + HoldN - 1) \div HoldN
  /\ phase' = "buy"
  /\ UNCHANGED <<day, holdings, cash, turn_amt, pv, cands, buy, defs, market, open_recs, streaks>>

(* Slip: spend the target whatever cash is left. *)
OutlayBeyondCash == target

Outlay == Least(target, cash)

BuyNext(k) ==
  /\ phase = "buy" /\ cash > 0
  /\ k \in buy /\ \A j \in buy : k <= j
  /\ buy' = buy \ {k}
  /\ IF cands[k] \in priced
     THEN /\ holdings' = holdings \cup {[a |-> cands[k], value |-> Bought(Outlay),
                                         to_sell |-> FALSE]}
          /\ cash' = cash - Outlay
          /\ turn_amt' = turn_amt + Outlay
          /\ open_recs' = [open_recs EXCEPT ![cands[k]] = day]
     ELSE UNCHANGED <<holdings, cash, turn_amt, open_recs>>
  /\ UNCHANGED <<day, phase, pv, cands, target, defs, market, streaks>>

(* Slip: sweep over the positions bought today only. *)
DeficitsOfNew ==
  {[a |-> p.a, def |-> target - p.value] :
     p \in {q \in holdings : /\ q.a \notin susp \cup lim /\ q.value < target
                             /\ open_recs[q.a] = day}}

Deficits ==
  {[a |-> p.a, def |-> target - p.value] :
     p \in {q \in holdings : q.a \notin susp \cup lim /\ q.value < target}}

StartSweep ==
  /\ phase = "buy" /\ (buy = {} \/ cash = 0)
  /\ buy' = {}
  /\ defs' = IF cash > 0 THEN Deficits ELSE {}
  /\ phase' = "sweep"
  /\ UNCHANGED <<day, holdings, cash, turn_amt, pv, cands, target, market, open_recs, streaks>>

(* Slip: add the whole deficit though less cash is left. *)
AddedInFull(d) == Bought(d.def)

Added(d) == Bought(Least(d.def, cash))

TopUp(d) ==
  /\ phase = "sweep" /\ cash > 0
  /\ d \in defs /\ \A e \in defs : e.def <= d.def
  /\ defs' = defs \ {d}
  /\ holdings' = {IF p.a = d.a THEN [p EXCEPT !.value = @ + Added(d)] ELSE p :
                    p \in holdings}
  /\ cash' = cash - Least(d.def, cash)
  /\ turn_amt' = turn_amt + Least(d.def, cash)
  /\ UNCHANGED <<day, phase, pv, cands, buy, target, market, open_recs, streaks>>

(***************************************************************************)
(* (7) and the recorder's end of the day.                                  *)
(***************************************************************************)
(* Slip: count on although the position was sold and bought again later. *)
StreakGoesOn(a) == hold_streak[a] + 1

Streak(a) == IF hold_last_seen[a] = day - 1 THEN hold_streak[a] + 1 ELSE 1

CloseDay ==
  /\ phase = "sweep" /\ (defs = {} \/ cash = 0)
  /\ defs' = {} /\ cands' = <<>> /\ target' = 0
  /\ hold_streak' = [a \in Asset |->
                       IF a \in AssetsOf(holdings) THEN Streak(a) ELSE hold_streak[a]]
  /\ hold_last_seen' = [a \in Asset |->
                          IF a \in AssetsOf(holdings) THEN day ELSE hold_last_seen[a]]
  /\ phase' = "closed"
  /\ UNCHANGED <<day, holdings, cash, turn_amt, pv, buy, market, open_recs>>

Next ==
  \/ \E s, l, d, falls \in SUBSET Asset : OpenDay(s, l, d, falls)
  \/ \E p \in holdings : DelistSell(p) \/ Sell(p)
  \/ Mark
  \/ \E r \in Rankings : Decide(r)
  \/ SetTarget \/ StartSweep
  \/ \E k \in buy : BuyNext(k)
  \/ \E d \in defs : TopUp(d)
  \/ CloseDay

Spec == Init /\ [][Next]_vars

-----------------------------------------------------------------------------
(***************************************************************************)
(* The state has its types; in particular cash never goes below zero       *)
(* (engine.hpp), whatever is bought and topped up.                         *)
(***************************************************************************)
TypeOK ==
  /\ day \in 0 .. LastDay
  /\ phase \in {"closed", "delist", "decide", "sell", "buy", "sweep"}
  /\ holdings \subseteq Pos
  /\ cash \in Nat /\ turn_amt \in Nat /\ pv \in Nat /\ target \in Nat
  /\ cands \in Seq(Asset) /\ buy \subseteq DOMAIN cands
  /\ defs \subseteq Deficit
  /\ susp \subseteq Asset /\ lim \subseteq Asset /\ delisted \subseteq Asset
  /\ priced \subseteq Asset
  /\ open_recs \in [Asset -> 0 .. LastDay]
  /\ hold_streak \in [Asset -> Nat] /\ hold_last_seen \in [Asset -> Int]
  /\ shocks \in 0 .. MaxShocks

(***************************************************************************)
(* One position per asset, and the recorder has an open record of exactly  *)
(* the assets held: the kernel's comment "buy_ is disjoint from holdings"  *)
(* and the recorder's assertions ("sell without open record") rest on      *)
(* exit_ratio >= 1, on the pool's leaving suspended and delisted assets    *)
(* out, and on a position that could not be sold not being bought again.   *)
(***************************************************************************)
OnePosition ==
  /\ \A p, q \in holdings : p.a = q.a => p = q
  /\ \A a \in Asset : open_recs[a] # None <=> a \in AssetsOf(holdings)

(***************************************************************************)
(* Trading makes no money: from the mark on, cash and positions are worth  *)
(* the portfolio value less at most the cost of the day's turnover         *)
(* (pv, turn_amt, pv_end of Engine::step).                                 *)
(***************************************************************************)
Conserved ==
  phase \in {"decide", "sell", "buy", "sweep"} =>
    LET worth == cash + MarketValue(holdings)
    IN  /\ worth <= pv
        /\ (pv - worth) * Base <= turn_amt * Max({BuyCost, SellCost})

(***************************************************************************)
(* After the sales the book follows the ranking: what is held is in the    *)
(* exit ranks of today's candidates, unless it is suspended or at a limit. *)
(* However long a position was stuck, the first day it can be traded again *)
(* puts it out or back among the ranked (steps (4) to (6)).                *)
(***************************************************************************)
BookFollowsRanking ==
  phase \in {"buy", "sweep"} =>
    \A p \in holdings : \/ InPrefix(p.a, cands, ExitN)
                        \/ p.a \in susp \cup lim

(***************************************************************************)
(* The sweep invests what it can ("剩余 cash 当天全部投出去", engine.hpp): if    *)
(* cash is left over at the end, every position that can be traded has     *)
(* been brought to its target, but for the cost of doing so.               *)
(***************************************************************************)
Invested ==
  phase = "sweep" /\ defs = {} /\ cash > 0 =>
    \A p \in holdings : p.a \notin susp \cup lim =>
      p.value + (target - Bought(target)) >= target

(***************************************************************************)
(* The report's "days held" agrees with the day the position was opened,   *)
(* through sales, repurchases and days a sale failed (hold_streak).        *)
(***************************************************************************)
StreakIsAge ==
  phase = "closed" =>
    \A a \in AssetsOf(holdings) : hold_streak[a] = day - open_recs[a] + 1

=============================================================================
