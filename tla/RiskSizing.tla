----------------------------- MODULE RiskSizing -----------------------------
(* Money in hft-trading-engine/strategy.py: how large an order is, what the   *)
(* win/loss memory and the martingale ladder make of its result, and when the *)
(* daily limits lock the account. _open_trade and the settlement of a result  *)
(* run under trade_lock and are one step each; a working database is assumed  *)
(* (TradingSession has the faults and the threads). Amounts are dollars, and  *)
(* thousandths of a dollar before they are rounded. Volatility, which only    *)
(* scales Kelly's fraction before it is clamped, and the smoothing by the     *)
(* error of the recent outcomes appear as the range they leave to the size.   *)
EXTENDS Integers, Sequences, FiniteSets, FiniteSetsExt, Functions

CONSTANTS Assets,
          Balances,            \* balances a session may start with
          RISK_PERMILLE,       \* initial_risk_pct
          STOP_WIN, STOP_LOSS, \* percentages
          MAX_GALES,
          MAX_PENDING,         \* 8 in the code
          MIN_RECORD,          \* 3: fewer trades are no record
          KEEP, LIMIT,         \* 20 outcomes kept, 1000 trades loaded
          SMOOTHED,            \* 5: outcomes from which on the size is smoothed
          MaxOrders            \* bound on the orders ever placed

ASSUME RiskAssumption ==
  /\ IsFiniteSet(Assets) /\ Balances \subseteq Nat
  /\ RISK_PERMILLE \in Nat /\ STOP_WIN \in Nat /\ STOP_LOSS \in Nat
  /\ MAX_GALES \in Nat /\ MIN_RECORD \in Nat
  /\ KEEP \in Nat /\ LIMIT \in Nat

VARIABLES balance,        \* the broker's balance: stakes are debited at once
          initialBalance, \* read by the constructor
          orders,         \* orders placed, by number; see OpenTrade
          gale,           \* gale_state
          memory,         \* quant_memory.stats: asset -> wins, losses, outcomes
          tradesTable,    \* the trades table: asset and profit > 0, by time
          settled,        \* history: results of this session, in order, with the
                          \* balance the limits were tested on
          locked          \* the kill switch has fired

riskVars == <<balance, initialBalance, orders, gale, memory, tradesTable, settled, locked>>

NoRecord == [wins |-> 0, losses |-> 0, outcomes |-> <<>>]

RiskInit == /\ balance \in Balances
            /\ initialBalance = balance
            /\ orders = <<>>
            /\ gale = [a \in Assets |-> 0]
            /\ memory = [a \in Assets |-> NoRecord]
            /\ tradesTable = <<>> /\ settled = <<>>
            /\ locked = FALSE

----------------------------------------------------------------------------
(* QuantMemory *)

\* record_trade(): the newest outcome comes first, the oldest of KEEP is dropped.
RecordTrade(m, t) ==
  [m EXCEPT ![t.asset] =
     [wins |-> @.wins + (IF t.won THEN 1 ELSE 0),
      losses |-> @.losses + (IF t.won THEN 0 ELSE 1),
      outcomes |-> SubSeq(<<t.won>> \o @.outcomes, 1, Min({KEEP, Len(@.outcomes) + 1}))]]

\* load_trades(): the last LIMIT trades, newest first.
LoadTrades == [i \in 1 .. Min({LIMIT, Len(tradesTable)}) |-> tradesTable[Len(tradesTable) + 1 - i]]

\* The constructor plays them back from the oldest to the newest.
LoadMemory ==
  LET n == Len(LoadTrades)
      played[i \in 0 .. n] == IF i = 0 THEN [a \in Assets |-> NoRecord]
                             ELSE RecordTrade(played[i - 1], LoadTrades[n + 1 - i])
  IN played[n]

----------------------------------------------------------------------------
(* get_kelly_size() *)

Total(r) == r.wins + r.losses

GlobalRecord == [wins |-> SumFunctionOnSet([a \in Assets |-> memory[a].wins], Assets),
                 losses |-> SumFunctionOnSet([a \in Assets |-> memory[a].losses], Assets)]

Record(a) == IF Total(memory[a]) < MIN_RECORD THEN GlobalRecord ELSE memory[a]

\* A positive Kelly fraction p - (1 - p) / 0.8: p above 5/9.
Edge(a) == Total(Record(a)) >= MIN_RECORD /\ 9 * Record(a).wins > 5 * Total(Record(a))

Floored(size) == Max({2000, size})

\* Kelly's fraction is clamped to 1 % .. 15 %, then shrunk to 60 % at worst.
LeastPermille(a) == IF Len(memory[a].outcomes) >= SMOOTHED THEN 6 ELSE 10

\* The cap of 1.5 % holds for a record with an edge alone.
KellySizes(a) ==
  IF Edge(a) THEN Floored(balance * LeastPermille(a)) .. Floored(balance * 15)
  ELSE {Floored(balance * RISK_PERMILLE)}

----------------------------------------------------------------------------
(* _open_trade() *)

\* round() of thousandths: to the even neighbour from the middle.
Round(x) == LET q == x \div 1000  r == x % 1000
            IN IF r > 500 \/ (r = 500 /\ q % 2 = 1) THEN q + 1 ELSE q

CappedKellyOnly(size, a) == Max({2000, Min({size, 50 * balance})}) * 2^gale[a]

Capped(size, a) == Max({2000, Min({size * 2^gale[a], 50 * balance})})

StakesOf(a) == {Round(Capped(size, a)) : size \in KellySizes(a)}

Pending == {i \in DOMAIN orders : orders[i].watched}

\* of, edge and step keep what the stake was computed from, as history.
OpenTrade(a, stake) ==
  /\ ~locked /\ Len(orders) < MaxOrders
  /\ Cardinality(Pending) < MAX_PENDING
  /\ balance >= 1 /\ stake <= balance
  /\ balance' = balance - stake
  /\ orders' = Append(orders, [asset |-> a, stake |-> stake, result |-> "open", watched |-> TRUE,
                               of |-> balance, edge |-> Edge(a), step |-> gale[a]])
  /\ UNCHANGED <<initialBalance, gale, memory, tradesTable, settled, locked>>

\* The broker decides an order; a win pays the stake twice, a tie returns it.
Decide(i, result) ==
  /\ orders[i].result = "open"
  /\ orders' = [orders EXCEPT ![i].result = result]
  /\ balance' = balance + (CASE result = "win" -> 2 * orders[i].stake
                             [] result = "tie" -> orders[i].stake
                             [] result = "loss" -> 0)
  /\ UNCHANGED <<initialBalance, gale, memory, tradesTable, settled, locked>>

----------------------------------------------------------------------------
(* _check_trade_result() *)

GaleAfter(a, result) == IF result = "loss" /\ gale[a] < MAX_GALES THEN gale[a] + 1 ELSE 0

WinTarget == initialBalance * (100 + STOP_WIN)
LossTarget == initialBalance * (100 - STOP_LOSS)

\* _check_limits(): a balance of 0 is no balance; a limit of 0 %, or one of a session
\* that began with nothing, is none.
LimitHit(cash) ==
  /\ cash # 0
  /\ \/ WinTarget > 100 * initialBalance /\ 100 * cash >= WinTarget
     \/ LossTarget < 100 * initialBalance /\ 100 * cash <= LossTarget

CheckTradeResult(i) ==
  LET o == orders[i]  trade == [asset |-> o.asset, won |-> o.result = "win"]
  IN /\ o.watched /\ o.result # "open"
     /\ orders' = [orders EXCEPT ![i].watched = FALSE]
     /\ gale' = [gale EXCEPT ![o.asset] = GaleAfter(o.asset, o.result)]
     /\ memory' = RecordTrade(memory, trade)
     /\ tradesTable' = Append(tradesTable, trade)
     /\ settled' = Append(settled, [asset |-> o.asset, result |-> o.result, cash |-> balance])
     /\ locked' = (locked \/ LimitHit(balance))
     /\ UNCHANGED <<balance, initialBalance>>

\* The head of strategy_loop, with the balance of that moment.
CheckLimits ==
  /\ ~locked /\ LimitHit(balance)
  /\ locked' = TRUE
  /\ UNCHANGED <<balance, initialBalance, orders, gale, memory, tradesTable, settled>>

\* The process ends with its threads and is started again on an unlocked day.
Restart ==
  /\ ~locked /\ settled # <<>>
  /\ orders' = [i \in DOMAIN orders |-> [orders[i] EXCEPT !.watched = FALSE]]
  /\ initialBalance' = balance
  /\ gale' = [a \in Assets |-> 0]
  /\ memory' = LoadMemory
  /\ settled' = <<>>
  /\ UNCHANGED <<balance, tradesTable, locked>>

RiskNext == \/ Restart \/ CheckLimits
            \/ \E a \in Assets : \E stake \in StakesOf(a) : OpenTrade(a, stake)
            \/ \E i \in DOMAIN orders :
                 CheckTradeResult(i) \/ \E result \in {"win", "loss", "tie"} : Decide(i, result)

RiskSpec == RiskInit /\ [][RiskNext]_riskVars

----------------------------------------------------------------------------
(* Properties *)

\* strategy.py 504-552 and 681-701: no order is larger than the balance it was
\* sized from, nor than 5 % of it but for the rounding, unless the balance is so
\* small that the floor of two dollars is more.  Off the martingale ladder a record
\* with an edge bets at most 1.5 %.  One without an edge, or with fewer than
\* MIN_RECORD trades, bets the initial risk, up to those 5 %: the comment of line 693
\* ("limited to 1.5 % except in gale") is not what the code does for it.
StakeRule ==
  \A i \in DOMAIN orders :
    LET o == orders[i]
    IN /\ 2 <= o.stake /\ o.stake <= o.of
       /\ 1000 * o.stake <= 50 * o.of + 500 \/ (o.stake = 2 /\ o.of < 40)
       /\ o.edge /\ o.step = 0 => 1000 * o.stake <= Floored(15 * o.of) + 500
       /\ ~o.edge /\ o.step = 0 =>
            /\ 1000 * o.stake <= Floored(RISK_PERMILLE * o.of) + 500
            /\ 1000 * o.stake >= Min({RISK_PERMILLE, 50}) * o.of - 500

AtRisk == SumFunctionOnSet([i \in DOMAIN orders |-> orders[i].stake], Pending)

\* strategy.py 469-490 and 653-659: while the limits have not fired, the balance
\* with the stakes of the orders the bot still watches is above the loss target: a
\* day ends below it by no more than what was open when the last result came in.
\* The exception is a result that came in at a balance of exactly 0, which
\* _check_limits takes for none: until the next result the day is without a limit,
\* also when a later win or tie has brought money back.
LossBounded ==
  /\ ~locked /\ LossTarget < 100 * initialBalance
  /\ settled # <<>> => settled[Len(settled)].cash # 0
  => 100 * (balance + AtRisk) > LossTarget

\* The results of a that only losses of a have come after, and that are losses themselves.
LossStreak(a) ==
  {i \in DOMAIN settled :
     settled[i].asset = a /\ \A j \in i .. Len(settled) : settled[j].asset = a => settled[j].result = "loss"}

\* strategy.py 607-638: the ladder of an asset is the number of its results since
\* the last one that was no loss, wrapped after MAX_GALES losses, in the order in
\* which results come in, whatever else is pending.
GaleIsStreak == \A a \in Assets : gale[a] = Cardinality(LossStreak(a)) % (MAX_GALES + 1)

TradesOf(a) == {i \in DOMAIN tradesTable : tradesTable[i].asset = a}
Recent(a) == {i \in TradesOf(a) : i > Len(tradesTable) - LIMIT}

\* strategy.py 116-135 and 150-199: the memory is what a replay of the table would
\* give, so a restart neither reverses nor loses a recent outcome; only totals
\* forget what lies more than LIMIT trades back.
MemoryIsLedger ==
  \A a \in Assets :
    /\ \A k \in DOMAIN memory[a].outcomes :
         \E i \in TradesOf(a) : /\ Cardinality({j \in TradesOf(a) : j >= i}) = k
                               /\ memory[a].outcomes[k] = tradesTable[i].won
    /\ Len(memory[a].outcomes) >= Min({KEEP, Cardinality(Recent(a))})
    /\ Total(memory[a]) \in Cardinality(Recent(a)) .. Cardinality(TradesOf(a))

\* strategy.py 116-199 and 469-701: what the bot may lose, by one order and by one
\* day, and the memory and the ladder it decides from.
MoneyAtRisk == StakeRule /\ LossBounded /\ GaleIsStreak /\ MemoryIsLedger
=============================================================================
