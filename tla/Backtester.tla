----------------------------- MODULE Backtester -----------------------------
(* The backtesting engine of algorithmic-backtester/backtest.py: the bar loop *)
(* of run(), the forced close behind it, the drawdown of _compute_metrics and *)
(* the EMA/RSI crossover strategy. Prices are integers. Indicators are exact: *)
(* each is an integer over a scale that grows with the bar, so that signs and *)
(* thresholds are compared without rounding; money is exact as long as the    *)
(* constants make the divisions come out even.                                *)
EXTENDS Integers, Sequences, FiniteSets, FiniteSetsExt, Functions

CONSTANTS Closes,                    \* closing prices a bar may have
          Bars,                      \* length of the data, for either strategy
          InitialCapital, SizeInverse,   \* capital; position_size = 1 / SizeInverse
          Fast, Slow, RsiPeriod, Warmup  \* 9, 21, 14 and 25 in the code

ASSUME BacktestAssumption ==
  /\ Closes \subseteq Nat \ {0}
  /\ InitialCapital \in Int /\ SizeInverse \in Nat \ {0}
  /\ Fast \in Nat \ {0} /\ Slow \in Nat \ {0} /\ RsiPeriod \in Nat \ {0}
  /\ Warmup \in Nat /\ Fast <= Warmup /\ Slow <= Warmup /\ RsiPeriod <= Warmup

VARIABLES signalFn,    \* the strategy: "any" signal, or "crossover"
          closes,      \* closing prices of the bars the loop has been through
          position,    \* the open position, or NoPosition
          capital,
          trades,
          equity,      \* equity_curve
          over         \* run() has closed what was open and returned

backtestVars == <<signalFn, closes, position, capital, trades, equity, over>>

NoPosition == [side |-> "NONE"]
Signals == {"LONG", "SHORT", "EXIT", "NONE"}

BacktestInit == /\ signalFn \in {"any", "crossover"}
                /\ closes = <<>> /\ trades = <<>> /\ equity = <<>>
                /\ position = NoPosition
                /\ capital = InitialCapital
                /\ over = FALSE

----------------------------------------------------------------------------
(* Indicators *)

SumTo(s, first, last) == SumFunctionOnSet(s, first .. last)

\* ema(): the average after bar n is Ema(c, p)[n] / (p * (p + 1)^(n - p)).
Ema(c, p) ==
  LET e[n \in p .. Len(c)] ==
        IF n = p THEN SumTo(c, 1, p) ELSE 2 * c[n] * p * (p + 1)^(n - p - 1) + (p - 1) * e[n - 1]
  IN e

\* The fast average after bar n against the slow one: negative, 0 or positive.
Cross(c, n) == Ema(c, Fast)[n] * Slow * (Slow + 1)^(n - Slow)
                 - Ema(c, Slow)[n] * Fast * (Fast + 1)^(n - Fast)

Gains(c) == [i \in 2 .. Len(c) |-> Max({c[i] - c[i - 1], 0})]
Losses(c) == [i \in 2 .. Len(c) |-> Max({c[i - 1] - c[i], 0})]

\* rsi(): Wilder's average of the moves up to bar last, in units of 1 / p^(last - p).
Wilder(moves, last, p) ==
  LET w[n \in p + 1 .. last] ==
        IF n = p + 1 THEN SumTo(moves, 2, n)
        ELSE w[n - 1] * (p - 1) + moves[n] * p^(n - p - 1)
  IN w[last]

\* rsi > limit, and rsi < limit; without losses the index is 100.
RsiAbove(c, limit) ==
  LET g == Wilder(Gains(c), Len(c), RsiPeriod)
      l == Wilder(Losses(c), Len(c), RsiPeriod)
  IN IF l = 0 THEN 100 > limit ELSE 100 * g > limit * (g + l)

RsiBelow(c, limit) ==
  LET g == Wilder(Gains(c), Len(c), RsiPeriod)
      l == Wilder(Losses(c), Len(c), RsiPeriod)
  IN IF l = 0 THEN 100 < limit ELSE 100 * g < limit * (g + l)

----------------------------------------------------------------------------
(* ema_crossover_strategy() *)

CrossedUpStateOnly(c) == Cross(c, Len(c)) > 0

CrossedUp(c) == Cross(c, Len(c) - 1) <= 0 /\ Cross(c, Len(c)) > 0

Crossover(c) ==
  CASE Len(c) <= Warmup -> "NONE"
    [] Len(c) > Warmup /\ CrossedUp(c) /\ RsiBelow(c, 70) -> "LONG"
    [] OTHER -> IF Len(c) > Warmup /\ (Cross(c, Len(c)) < 0 \/ RsiAbove(c, 80))
                  THEN "EXIT" ELSE "NONE"

----------------------------------------------------------------------------
(* run() *)

AfterClose == NoPosition

Pnl(close) ==
  LET rise == IF position.side = "LONG" THEN close - position.price ELSE position.price - close
  IN (rise * position.stake) \div position.price

\* qty = stake / price.
Opened(side, close) ==
  [side |-> side, bar |-> Len(closes) + 1, price |-> close, stake |-> capital \div SizeInverse]

TradeRecord(bar, close, forced) ==
  [entry |-> position.bar, exit |-> bar, side |-> position.side, pnl |-> Pnl(close), forced |-> forced]

ClosesPosition(signal) == position # NoPosition /\ signal = "EXIT"
OpensPosition(signal) == position = NoPosition /\ signal \in {"LONG", "SHORT"}

Curve(cash) == Append(equity, cash)
Bar(close, signal) ==
  /\ Len(closes) < Bars[signalFn]
  /\ signalFn = "crossover" => signal = Crossover(Append(closes, close))
  /\ closes' = Append(closes, close)
  /\ capital' = capital + (IF ClosesPosition(signal) THEN Pnl(close) ELSE 0)
  /\ trades' = IF ClosesPosition(signal)
                 THEN Append(trades, TradeRecord(Len(closes) + 1, close, FALSE)) ELSE trades
  /\ position' = CASE ClosesPosition(signal) -> AfterClose
                   [] OpensPosition(signal) -> Opened(signal, close)
                   [] OTHER -> position
  /\ equity' = Curve(capital')
  /\ UNCHANGED <<signalFn, over>>

Finish ==
  /\ Len(closes) = Bars[signalFn] /\ ~over
  /\ over' = TRUE
  /\ IF position = NoPosition THEN UNCHANGED <<capital, trades>>
     ELSE /\ capital' = capital + Pnl(closes[Len(closes)])
          /\ trades' = Append(trades, TradeRecord(Len(closes), closes[Len(closes)], TRUE))
  /\ UNCHANGED <<signalFn, closes, position, equity>>

BacktestNext == Finish \/ \E close \in Closes, signal \in Signals : Bar(close, signal)

BacktestSpec == BacktestInit /\ [][BacktestNext]_backtestVars

----------------------------------------------------------------------------
(* _compute_metrics() *)

PnlOf(S) == SumFunctionOnSet([i \in DOMAIN trades |-> trades[i].pnl], S)

TotalPnl == PnlOf(DOMAIN trades)

Worse(d, e) == d.lost * e.peak > e.lost * d.peak

DrawdownStep(d, cash) ==
  LET peak == Max({d.top, cash})
      dip == [lost |-> peak - cash, peak |-> peak]
  IN [top |-> peak, worst |-> IF peak > 0 /\ Worse(dip, d.worst) THEN dip ELSE d.worst]

\* The worst loss since a peak, as lost / peak.
MaxDrawdown ==
  LET d[k \in 0 .. Len(equity)] ==
        IF k = 0 THEN [top |-> equity[1], worst |-> [lost |-> 0, peak |-> 1]]
        ELSE DrawdownStep(d[k - 1], equity[k])
  IN d[Len(equity)].worst

----------------------------------------------------------------------------
(* Properties *)

\* backtest.py 156-182: point k of the equity curve is the initial capital with
\* every trade closed up to bar k, whatever was opened, ignored or closed between;
\* the forced close behind the last bar is in the capital and in total_pnl but not
\* on the curve the drawdown and the Sharpe ratio are computed from.
CurveIsClosedTrades ==
  /\ capital = InitialCapital + TotalPnl
  /\ \A k \in DOMAIN equity :
       equity[k] = InitialCapital + PnlOf({i \in DOMAIN trades : trades[i].exit <= k /\ ~trades[i].forced})

\* backtest.py 160-174: positions never overlap: a signal against an open position
\* is ignored, and a position opened on a bar is closed on a later one, but for the
\* forced close of one opened on the last bar.
TradesDisjoint ==
  \A i \in DOMAIN trades :
    /\ trades[i].entry < trades[i].exit \/ trades[i].forced
    /\ i > 1 => trades[i - 1].exit < trades[i].entry
    /\ trades[i].forced => i = Len(trades)
    /\ position # NoPosition /\ ~over => trades[i].exit < position.bar

\* backtest.py 190-198: the drawdown kept along the running peak is the worst loss
\* between any two points of the curve, as long as the equity is never negative.
DrawdownIsWorstPair ==
  (equity # <<>> /\ \A k \in DOMAIN equity : equity[k] >= 0) =>
    LET Dip(j, k) == [lost |-> equity[j] - equity[k], peak |-> equity[j]]
        Dips(k) == {Dip(j, k) : j \in {i \in 1 .. k : equity[i] > 0}}
        worst == MaxDrawdown
    IN /\ \A k \in DOMAIN equity : \A d \in Dips(k) : ~Worse(d, worst)
       /\ worst.lost = 0 \/ \E k \in DOMAIN equity : worst \in Dips(k)

\* backtest.py 248-253: the strategy enters once per crossing: between two entries
\* the fast average was not above the slow one, so an exit on a high RSI is not
\* followed by another entry into the same rise.
OneEntryPerCross ==
  signalFn = "crossover" =>
    \A i \in 2 .. Len(trades) :
      \E n \in trades[i - 1].entry + 1 .. trades[i].entry - 1 : Cross(closes, n) <= 0

\* backtest.py 153-198 and 248-253: trades, capital, curve, drawdown and entries of a
\* backtest agree with each other.
BacktestBooks == CurveIsClosedTrades /\ TradesDisjoint /\ DrawdownIsWorstPair /\ OneEntryPerCross
=============================================================================
