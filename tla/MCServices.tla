----------------------------- MODULE MCServices -----------------------------
(***************************************************************************)
(* The services of the repository, and the parts of the trading bot that   *)
(* TradingSession leaves out, each on a small instance.  They share        *)
(* nothing: a behaviour picks one of them and leaves the others in their   *)
(* initial state, where what they promise holds.                           *)
(***************************************************************************)
EXTENDS WebhookLedger, AuthProvider, SqlAudit, DataAggregator, FraudDetector, Backtester,
        JobsApi, RiskSizing, Expiration, CandleFeed, BrokerConnection, ArbitrageScanner

VARIABLE component

\* Values of constants that a configuration file cannot write down.
MCBars == [any |-> 4, crossover |-> 8]
MCServerTimes == 0 .. 899
MCSkews == {-30, 0, 30, 500}
MCBps == <<1, 1, 0>>

others(c) ==
  /\ IF c = "webhook" THEN TRUE ELSE UNCHANGED ledgerVars
  /\ IF c = "auth" THEN TRUE ELSE UNCHANGED authVars
  /\ IF c = "audit" THEN TRUE ELSE UNCHANGED auditVars
  /\ IF c = "feed" THEN TRUE ELSE UNCHANGED feedVars
  /\ IF c = "fraud" THEN TRUE ELSE UNCHANGED fraudVars
  /\ IF c = "backtest" THEN TRUE ELSE UNCHANGED backtestVars
  /\ IF c = "board" THEN TRUE ELSE UNCHANGED jobsVars
  /\ IF c = "risk" THEN TRUE ELSE UNCHANGED riskVars
  /\ IF c = "expiry" THEN TRUE ELSE UNCHANGED expiryVars
  /\ IF c = "candles" THEN TRUE ELSE UNCHANGED candleVars
  /\ IF c = "link" THEN TRUE ELSE UNCHANGED linkVars
  /\ IF c = "scanner" THEN TRUE ELSE UNCHANGED scannerVars
  /\ UNCHANGED component

Init ==
  /\ component \in {"webhook", "auth", "audit", "feed", "fraud", "backtest", "board", "risk",
                    "expiry", "candles", "link", "scanner"}
  \* Where a component starts in one of many states, the idle ones start in one of them.
  /\ component # "feed" => tickOf = [t \in Ticks |-> [symbol |-> "s1", window |-> 1]]
  /\ component # "backtest" => signalFn = "any"
  /\ component # "risk" => balance = 300
  /\ component # "expiry" => serverTime = 0 /\ skew = 0
  /\ WebhookInit /\ AuthInit /\ AuditInit /\ FeedInit /\ FraudInit /\ BacktestInit
  /\ JobsInit /\ RiskInit /\ ExpiryInit /\ CandleInit /\ LinkInit
  /\ ScannerInit

Next ==
  \/ component = "webhook" /\ WebhookNext /\ others("webhook")
  \/ component = "auth" /\ AuthNext /\ others("auth")
  \/ component = "audit" /\ AuditNext /\ others("audit")
  \/ component = "feed" /\ FeedNext /\ others("feed")
  \/ component = "fraud" /\ FraudNext /\ others("fraud")
  \/ component = "backtest" /\ BacktestNext /\ others("backtest")
  \/ component = "board" /\ JobsNext /\ others("board")
  \/ component = "risk" /\ RiskNext /\ others("risk")
  \/ component = "expiry" /\ ExpiryNext /\ others("expiry")
  \/ component = "candles" /\ CandleNext /\ others("candles")
  \/ component = "link" /\ LinkNext /\ others("link")
  \/ component = "scanner" /\ ScannerNext /\ others("scanner")

vars == <<component, ledgerVars, authVars, auditVars, feedVars,
          fraudVars, backtestVars, jobsVars, riskVars,
          expiryVars, candleVars, linkVars, scannerVars>>

Spec == Init /\ [][Next]_vars
=============================================================================
