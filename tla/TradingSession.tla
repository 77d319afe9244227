--------------------------- MODULE TradingSession ---------------------------
(***************************************************************************)
(* The OmniQuant control plane: the dashboard's socket handlers (app.py),  *)
(* the engine thread each start spawns (strategy_loop) and the checker     *)
(* thread each accepted order spawns (_check_trade_result), over the       *)
(* SQLite tables they share.                                               *)
(*                                                                         *)
(* Market data, sizes and profits are abstracted: an asset signals or not, *)
(* the broker accepts, refuses or answers too late, a result is a loss or  *)
(* not, the balance reaches a daily limit or not.                          *)
(***************************************************************************)
EXTENDS Integers, FiniteSets

CONSTANTS
    Clicks,         \* handler threads that may serve start_bot concurrently
    MaxSessions,    \* bound: engine threads ever spawned
    MaxOrders,      \* bound: orders that ever reach the broker
    NumAssets,      \* len(self.assets)
    MaxTrades,      \* self.max_trades
    MaxPending,     \* the literal 8 of strategy.py:877
    MaxGales,       \* self.max_gales
    DbMayFail,      \* sqlite3 may raise (10 s busy timeout, disk error)
    BuyMayBeLate,   \* the broker may accept after buy() gave up
    MayCrash        \* the process may die and be started again

ASSUME SessionAssumption ==
    /\ MaxSessions \in Nat /\ MaxOrders \in Nat
    /\ NumAssets \in Nat \ {0} /\ MaxTrades \in Nat \ {0}
    /\ MaxPending \in Nat \ {0} /\ MaxGales \in Nat
    /\ {DbMayFail, BuyMayBeLate, MayCrash} \subseteq BOOLEAN

Sessions == 1..MaxSessions
Orders   == 1..MaxOrders
Assets   == 1..NumAssets

VARIABLES
    \* app.py globals
    botRunning, panicMode,
    botThread,      \* session of _bot_thread, 0 for None
    click,          \* where each on_start handler thread is
    \* SQLite
    locked,         \* locked_until > time.time()
    pendingRows,    \* order ids in pending_orders
    tradeRows,      \* orders with a row in trades
    \* per session: the bot object and its engine thread
    engine, scanIdx, tradesCount, pendingCount, gale,
    \* per order: the bot it belongs to, its asset, its checker thread
    owner, assetOf, checker,
    \* history: orders bought since the bot was last running, and while the
    \* panic flag was up; a panic acknowledged since the last start
    lateEntries, panicEntries, panicAck

appVars     == <<botRunning, panicMode, botThread, click>>
dbVars      == <<locked, pendingRows, tradeRows>>
botVars     == <<tradesCount, pendingCount, gale>>
engineVars  == <<engine, scanIdx>>
orderVars   == <<owner, assetOf, checker>>
historyVars == <<lateEntries, panicEntries, panicAck>>
vars == <<appVars, dbVars, botVars, engineVars, orderVars, historyVars>>

ClickStates   == {"idle", "unlocked", "cleared", "raised", "ready"}
EngineStates  == {"none", "connecting", "top", "scan", "signal", "recording",
                  "asking", "sizing", "refreshing",  \* the broker is asked
                  "killing", "closing", "dead"}
CheckerStates == {"none", "recording", "waiting", "ready", "settling",
                  "saved", "killing", "completing", "faulted",
                  "settled", "broken",   \* ended: recorded, by exception
                  "dropped",             \* ended: result thrown away
                  "unwatched", "late",   \* live order without a checker
                  "lost"}                \* the process died

Alive(s)     == engine[s] \notin {"none", "dead"}
OrdersOf(s)  == {o \in Orders : owner[o] = s}

\* Order and session ids are handed out in increasing order.
IsNextOrder(o)   == owner[o] = 0 /\ \A p \in 1..(o - 1) : owner[p] # 0
IsNextSession(s) == engine[s] = "none" /\ \A t \in 1..(s - 1) : engine[t] # "none"

\* Bound: a click is only made while an engine slot is left for it.
SessionsLeft ==
    Cardinality({c \in Clicks : click[c] # "idle"})
        < Cardinality({s \in Sessions : engine[s] = "none"})

\* trade_lock of session s: held by its engine inside _open_trade and by the
\* checker that is settling.
LockFree(s) ==
    /\ engine[s] \notin {"sizing", "recording"}
    /\ \A o \in OrdersOf(s) :
          checker[o] \notin {"settling", "saved", "killing", "completing"}

Init ==
    /\ botRunning = FALSE /\ panicMode = FALSE /\ botThread = 0
    /\ click = [c \in Clicks |-> "idle"]
    /\ locked = FALSE /\ pendingRows = {} /\ tradeRows = {}
    /\ engine = [s \in Sessions |-> "none"]
    /\ scanIdx = [s \in Sessions |-> 1]
    /\ tradesCount = [s \in Sessions |-> 0]
    /\ pendingCount = [s \in Sessions |-> 0]
    /\ gale = [s \in Sessions |-> [a \in Assets |-> 0]]
    /\ owner = [o \in Orders |-> 0]
    /\ assetOf = [o \in Orders |-> 1]
    /\ checker = [o \in Orders |-> "none"]
    /\ lateEntries = 0 /\ panicEntries = 0 /\ panicAck = FALSE

-----------------------------------------------------------------------------
(* DatabaseManager: each call commits its one statement.                   *)

SavePending(o) == pendingRows' = pendingRows \cup {o}

DeletePendingForgotten(o) == UNCHANGED pendingRows
DeletePending(o) == pendingRows' = pendingRows \ {o}

SaveTradeForgotten(o) == UNCHANGED tradeRows
SaveTradeReplacing(o) == tradeRows' = {o}
SaveTrade(o) == tradeRows' = tradeRows \cup {o}

-----------------------------------------------------------------------------
(* Socket handlers.  Every event runs in a thread of its own.              *)

\* on_start: get_lock() says the day is not locked.
CheckLock(c) ==
    /\ click[c] = "idle" /\ SessionsLeft
    /\ ~locked
    /\ click' = [click EXCEPT ![c] = "unlocked"]
    /\ UNCHANGED <<botRunning, panicMode, botThread, dbVars, botVars,
                   engineVars, orderVars, historyVars>>

\* on_start refuses while running or while the previous thread is alive.
EngineBusyFlagOnly == botRunning
EngineBusy == botRunning \/ (botThread # 0 /\ Alive(botThread))

CheckEngine(c) ==
    /\ click[c] = "unlocked"
    /\ click' = [click EXCEPT ![c] = IF EngineBusy THEN "idle" ELSE "cleared"]
    /\ UNCHANGED <<botRunning, panicMode, botThread, dbVars, botVars,
                   engineVars, orderVars, historyVars>>

\* on_start: a parameter does not parse, or the credentials are missing.
Abandon(c) ==
    /\ click[c] = "cleared"
    /\ click' = [click EXCEPT ![c] = "idle"]
    /\ UNCHANGED <<botRunning, panicMode, botThread, dbVars, botVars,
                   engineVars, orderVars, historyVars>>

\* on_start: the two flags are written by two statements; other handlers run
\* between them.
RaiseRunning(c) ==
    /\ click[c] = "cleared"
    /\ botRunning' = TRUE
    /\ click' = [click EXCEPT ![c] = "raised"]
    /\ lateEntries' = 0 /\ panicAck' = FALSE
    /\ UNCHANGED <<panicMode, botThread, dbVars, botVars, engineVars,
                   orderVars, panicEntries>>

ClearPanic(c) ==
    /\ click[c] = "raised"
    /\ panicMode' = FALSE
    /\ click' = [click EXCEPT ![c] = "ready"]
    /\ panicEntries' = 0
    /\ UNCHANGED <<botRunning, botThread, dbVars, botVars, engineVars,
                   orderVars, lateEntries, panicAck>>

\* on_start: spawn the engine thread and keep it in _bot_thread.
StartThread(c) ==
    /\ click[c] = "ready"
    /\ \E s \in Sessions : /\ IsNextSession(s)
                          /\ engine' = [engine EXCEPT ![s] = "connecting"]
                          /\ botThread' = s
    /\ click' = [click EXCEPT ![c] = "idle"]
    /\ UNCHANGED <<botRunning, panicMode, dbVars, botVars, scanIdx, orderVars,
                   historyVars>>

Stop ==
    /\ botRunning
    /\ botRunning' = FALSE
    /\ UNCHANGED <<panicMode, botThread, click, dbVars, botVars, engineVars,
                   orderVars, historyVars>>

Panic ==
    /\ botRunning
    /\ panicMode' = TRUE /\ panicAck' = TRUE
    /\ UNCHANGED <<botRunning, botThread, click, dbVars, botVars, engineVars,
                   orderVars, lateEntries, panicEntries>>

-----------------------------------------------------------------------------
(* The engine thread of session s.                                         *)

\* run_iq_strategy: connect, build the bot, warm up, start the streams.  A
\* failed connection, or an exception of the constructor, ends the thread
\* without on_complete.
Connect(s) ==
    /\ engine[s] = "connecting"
    /\ \E next \in {"top", "dead"} : engine' = [engine EXCEPT ![s] = next]
    /\ UNCHANGED <<appVars, dbVars, botVars, scanIdx, orderVars, historyVars>>

\* strategy_loop, the head of the while loop.
LeaveLoop(s) ==
    /\ engine[s] = "top"
    /\ ~botRunning \/ (~panicMode /\ tradesCount[s] >= MaxTrades)
    /\ engine' = [engine EXCEPT ![s] = "closing"]
    /\ UNCHANGED <<appVars, dbVars, botVars, scanIdx, orderVars, historyVars>>

ObeyPanic(s) ==
    /\ engine[s] = "top" /\ botRunning /\ panicMode
    /\ botRunning' = FALSE
    /\ engine' = [engine EXCEPT ![s] = "closing"]
    /\ UNCHANGED <<panicMode, botThread, click, dbVars, botVars, scanIdx,
                   orderVars, historyVars>>

MayTradeNoLimit(s) == botRunning
MayTradeNoFlag(s) == tradesCount[s] < MaxTrades
MayTrade(s) == botRunning /\ tradesCount[s] < MaxTrades

\* The tests at the head of the loop: running, no panic, below the limit.
HeadClearNoPanic(s) == MayTrade(s)
HeadClear(s) == ~panicMode /\ MayTrade(s)

\* The broker is asked for the balance; get_balances may spin for ever.
AskBalance(s) ==
    /\ engine[s] = "top" /\ HeadClear(s)
    /\ engine' = [engine EXCEPT ![s] = "asking"]
    /\ UNCHANGED <<appVars, dbVars, botVars, scanIdx, orderVars, historyVars>>

\* No balance and a reconnection that fails, or an exception that is caught
\* (KERNEL FAULT): back to the head of the loop.
AskAgain(s) ==
    /\ engine[s] = "asking"
    /\ engine' = [engine EXCEPT ![s] = "top"]
    /\ UNCHANGED <<appVars, dbVars, botVars, scanIdx, orderVars, historyVars>>

\* The balance is at a daily target: _trigger_kill_switch stores the lock.
KillSwitch(s) ==
    /\ engine[s] = "asking"
    /\ locked' = TRUE
    /\ engine' = [engine EXCEPT ![s] = "killing"]
    /\ UNCHANGED <<appVars, pendingRows, tradeRows, botVars, scanIdx,
                   orderVars, historyVars>>

\* ... then stops the streams and calls on_complete.
FinishKill(s) ==
    /\ engine[s] = "killing"
    /\ botRunning' = FALSE
    /\ engine' = [engine EXCEPT ![s] = "closing"]
    /\ UNCHANGED <<panicMode, botThread, click, dbVars, botVars, scanIdx,
                   orderVars, historyVars>>

\* The balance is within the limits, or a reconnection has succeeded.
BeginScan(s) ==
    /\ engine[s] = "asking"
    /\ engine' = [engine EXCEPT ![s] = "scan"]
    /\ scanIdx' = [scanIdx EXCEPT ![s] = 1]
    /\ UNCHANGED <<appVars, dbVars, botVars, orderVars, historyVars>>

\* After a scan, back to the head of the loop; every 30th scan reads the balance
\* for the dashboard first.
EndScan(s) ==
    /\ \E next \in {"top", "refreshing"} : engine' = [engine EXCEPT ![s] = next]
    /\ UNCHANGED scanIdx

Refreshed(s) ==
    /\ engine[s] = "refreshing"
    /\ engine' = [engine EXCEPT ![s] = "top"]
    /\ UNCHANGED <<appVars, dbVars, botVars, scanIdx, orderVars, historyVars>>

\* The scan goes on with the next asset, or ends.
AfterAsset(s) ==
    \/ /\ scanIdx[s] < NumAssets
       /\ engine' = [engine EXCEPT ![s] = "scan"]
       /\ scanIdx' = [scanIdx EXCEPT ![s] = @ + 1]
    \/ scanIdx[s] = NumAssets /\ EndScan(s)

\* One asset of the scan: no new candle or no signal, a signal, or a reason to
\* stop scanning.
ScanAsset(s) ==
    /\ engine[s] = "scan"
    /\ \/ /\ MayTrade(s) /\ AfterAsset(s)
       \/ /\ MayTrade(s)
          /\ engine' = [engine EXCEPT ![s] = "signal"]
          /\ UNCHANGED scanIdx
       \/ ~MayTrade(s) /\ EndScan(s)
    /\ UNCHANGED <<appVars, dbVars, botVars, orderVars, historyVars>>

BelowCapOffByOne(s) == pendingCount[s] <= MaxPending
BelowCap(s) == pendingCount[s] < MaxPending

\* Under the lock: _open_trade is not entered at the cap.
SkipTrade(s) ==
    /\ engine[s] = "signal" /\ LockFree(s)
    /\ ~BelowCap(s)
    /\ AfterAsset(s)
    /\ UNCHANGED <<appVars, dbVars, botVars, orderVars, historyVars>>

\* _open_trade keeps the lock while it asks for the balance and buys.
EnterTrade(s) ==
    /\ engine[s] = "signal" /\ LockFree(s)
    /\ BelowCap(s)
    /\ engine' = [engine EXCEPT ![s] = "sizing"]
    /\ UNCHANGED <<appVars, dbVars, botVars, scanIdx, orderVars, historyVars>>

\* No balance, a stake above it, or a broker that refuses.
Refused(s) ==
    /\ engine[s] = "sizing"
    /\ AfterAsset(s)
    /\ UNCHANGED <<appVars, dbVars, botVars, orderVars, historyVars>>

\* A new order of session s reaches the broker.  Nothing is re-read here: not
\* the running flag, not the panic flag, not the daily lock.
PlaceOrder(s, o, state) ==
    /\ engine[s] = "sizing"
    /\ IsNextOrder(o)
    /\ owner' = [owner EXCEPT ![o] = s]
    /\ assetOf' = [assetOf EXCEPT ![o] = scanIdx[s]]
    /\ checker' = [checker EXCEPT ![o] = state]
    /\ lateEntries' = IF botRunning THEN lateEntries ELSE lateEntries + 1
    /\ panicEntries' = IF panicMode THEN panicEntries + 1 ELSE panicEntries
    /\ UNCHANGED panicAck

\* The broker acknowledged within 5 s: counted, not yet written.
Buy(s, o) ==
    /\ PlaceOrder(s, o, "recording")
    /\ engine' = [engine EXCEPT ![s] = "recording"]
    /\ pendingCount' = [pendingCount EXCEPT ![s] = @ + 1]
    /\ UNCHANGED <<appVars, dbVars, tradesCount, gale, scanIdx>>

\* buy() gave up after 5 s and the order is accepted all the same.
BuyLate(s, o) ==
    /\ BuyMayBeLate
    /\ PlaceOrder(s, o, "late")
    /\ AfterAsset(s)
    /\ UNCHANGED <<appVars, dbVars, botVars>>

\* save_pending and the checker thread.
RecordEntry(s, o) ==
    /\ engine[s] = "recording" /\ owner[o] = s /\ checker[o] = "recording"
    /\ \/ /\ SavePending(o)
          /\ checker' = [checker EXCEPT ![o] = "waiting"]
       \/ /\ DbMayFail        \* raises: the scan catches it, no checker runs
          /\ checker' = [checker EXCEPT ![o] = "unwatched"]
          /\ UNCHANGED pendingRows
    /\ AfterAsset(s)
    /\ UNCHANGED <<appVars, locked, tradeRows, botVars, owner, assetOf,
                   historyVars>>

\* run(): the finally block stops the streams and the thread ends.
CloseEngine(s) ==
    /\ engine[s] = "closing"
    /\ engine' = [engine EXCEPT ![s] = "dead"]
    /\ UNCHANGED <<appVars, dbVars, botVars, scanIdx, orderVars, historyVars>>

-----------------------------------------------------------------------------
(* The checker thread of order o.                                          *)

\* check_result returned; a bot that is not running gets no result.
CheckResult(o) ==
    /\ checker[o] = "waiting"
    /\ checker' = [checker EXCEPT ![o] = IF botRunning THEN "ready"
                                                        ELSE "dropped"]
    /\ UNCHANGED <<appVars, dbVars, botVars, engineVars, owner, assetOf,
                   historyVars>>

GaleAfterUncapped(g, lost) == IF lost THEN g + 1 ELSE 0
GaleAfter(g, lost) == IF lost /\ g < MaxGales THEN g + 1 ELSE 0
DecrementForgotten(n) == n
Decrement(n) == IF n > 0 THEN n - 1 ELSE 0

\* Under the lock: count the order out, delete its row, move the gale ladder
\* and count the trade.
SettleOpen(o) ==
    LET s == owner[o] IN
    /\ checker[o] = "ready" /\ LockFree(s)
    /\ pendingCount' = [pendingCount EXCEPT ![s] = Decrement(@)]
    /\ \/ /\ DeletePending(o)
          /\ checker' = [checker EXCEPT ![o] = "settling"]
          /\ tradesCount' = [tradesCount EXCEPT ![s] = @ + 1]
          /\ \E lost \in BOOLEAN :
                gale' = [gale EXCEPT ![s][assetOf[o]] = GaleAfter(@, lost)]
       \/ /\ DbMayFail        \* delete_pending raises
          /\ checker' = [checker EXCEPT ![o] = "faulted"]
          /\ UNCHANGED <<pendingRows, tradesCount, gale>>
    /\ UNCHANGED <<appVars, locked, tradeRows, engineVars, owner, assetOf,
                   historyVars>>

\* Still under the lock: save_trade, then the broker is asked for the balance.
SettleSave(o) ==
    /\ checker[o] = "settling"
    /\ \/ /\ SaveTrade(o)
          /\ checker' = [checker EXCEPT ![o] = "saved"]
       \/ /\ DbMayFail        \* save_trade raises
          /\ checker' = [checker EXCEPT ![o] = "faulted"]
          /\ UNCHANGED tradeRows
    /\ UNCHANGED <<appVars, locked, pendingRows, botVars, engineVars, owner,
                   assetOf, historyVars>>

\* The balance is at a daily target: _trigger_kill_switch stores the lock.
SettleKill(o) ==
    /\ checker[o] = "saved"
    /\ locked' = TRUE
    /\ checker' = [checker EXCEPT ![o] = "killing"]
    /\ UNCHANGED <<appVars, pendingRows, tradeRows, botVars, engineVars, owner,
                   assetOf, historyVars>>

\* It is within the limits, or there is none; the session limit is tested.
SettleLimits(o) ==
    /\ checker[o] = "saved"
    /\ \/ checker' = [checker EXCEPT ![o] =
             IF tradesCount[owner[o]] >= MaxTrades THEN "completing"
                                                  ELSE "settled"]
       \/ /\ DbMayFail        \* save_balance or set_lock raises
          /\ checker' = [checker EXCEPT ![o] = "faulted"]
    /\ UNCHANGED <<appVars, dbVars, botVars, engineVars, owner, assetOf,
                   historyVars>>

\* on_complete, after the streams were stopped or at the session limit, lowers
\* the one global flag, whichever session calls it.
SettleComplete(o) ==
    /\ checker[o] \in {"killing", "completing"}
    /\ botRunning' = FALSE
    /\ checker' = [checker EXCEPT ![o] = "settled"]
    /\ UNCHANGED <<panicMode, botThread, click, dbVars, botVars, engineVars,
                   owner, assetOf, historyVars>>

\* The except clause takes the lock again and counts the order out again.
SettleFault(o) ==
    LET s == owner[o] IN
    /\ checker[o] = "faulted" /\ LockFree(s)
    /\ pendingCount' = [pendingCount EXCEPT ![s] = Decrement(@)]
    /\ checker' = [checker EXCEPT ![o] = "broken"]
    /\ UNCHANGED <<appVars, dbVars, tradesCount, gale, engineVars, owner,
                   assetOf, historyVars>>

-----------------------------------------------------------------------------
(* The environment.                                                        *)

\* locked_until passes.
Midnight ==
    /\ locked
    /\ locked' = FALSE
    /\ UNCHANGED <<appVars, pendingRows, tradeRows, botVars, engineVars,
                   orderVars, historyVars>>

\* The process dies and is started again: every thread and every Python
\* variable is gone, the database stays.  load_pending is never called.
Crash ==
    /\ MayCrash
    /\ \E s \in Sessions : Alive(s)
    /\ botRunning' = FALSE /\ panicMode' = FALSE /\ botThread' = 0
    /\ click' = [c \in Clicks |-> "idle"]
    /\ engine' = [s \in Sessions |-> IF Alive(s) THEN "dead" ELSE engine[s]]
    /\ checker' = [o \in Orders |->
          IF checker[o] \in {"recording", "waiting", "ready", "settling",
                             "saved", "killing", "completing", "faulted"}
            THEN "lost" ELSE checker[o]]
    /\ lateEntries' = 0 /\ panicEntries' = 0 /\ panicAck' = FALSE
    /\ UNCHANGED <<dbVars, botVars, scanIdx, owner, assetOf>>

StartBot(c) == \/ CheckLock(c) \/ CheckEngine(c) \/ Abandon(c)
               \/ RaiseRunning(c) \/ ClearPanic(c) \/ StartThread(c)

\* Steps of an engine thread that wait for nobody outside the process.
EngineStep(s) == \/ LeaveLoop(s) \/ ObeyPanic(s) \/ AskBalance(s)
                 \/ ScanAsset(s) \/ SkipTrade(s) \/ EnterTrade(s)
                 \/ \E o \in Orders : RecordEntry(s, o)

\* Steps that a call to the broker ends: it returns, or it raises.
EngineAnswer(s) == \/ Connect(s) \/ AskAgain(s) \/ KillSwitch(s) \/ BeginScan(s)
                   \/ Refused(s) \/ Refreshed(s) \/ FinishKill(s)
                   \/ CloseEngine(s)
                   \/ \E o \in Orders : Buy(s, o) \/ BuyLate(s, o)

\* The same two kinds of step of a checker.
SettleStep(o) == \/ SettleOpen(o) \/ SettleSave(o) \/ SettleFault(o)
                 \/ checker[o] = "completing" /\ SettleComplete(o)

SettleAnswer(o) == \/ CheckResult(o) \/ SettleKill(o) \/ SettleLimits(o)
                   \/ checker[o] = "killing" /\ SettleComplete(o)

Next == \/ \E c \in Clicks : StartBot(c)
        \/ Stop \/ Panic
        \/ \E s \in Sessions : EngineStep(s) \/ EngineAnswer(s)
        \/ \E o \in Orders : SettleStep(o) \/ SettleAnswer(o)
        \/ Midnight \/ Crash

Spec == Init /\ [][Next]_vars

\* A thread that waits for nobody outside the process keeps running.  Nothing is
\* assumed of users or of the broker: get_balances loops until it has an answer,
\* which may never come.
Fairness == /\ \A s \in Sessions : WF_vars(EngineStep(s))
            /\ \A o \in Orders : WF_vars(SettleStep(o))

FairSpec == Spec /\ Fairness

-----------------------------------------------------------------------------
(* Properties.                                                             *)

\* The types of all variables.
TypeOK ==
    /\ botRunning \in BOOLEAN /\ panicMode \in BOOLEAN
    /\ botThread \in 0..MaxSessions
    /\ click \in [Clicks -> ClickStates]
    /\ locked \in BOOLEAN
    /\ pendingRows \subseteq Orders /\ tradeRows \subseteq Orders
    /\ engine \in [Sessions -> EngineStates]
    /\ scanIdx \in [Sessions -> Assets]
    /\ tradesCount \in [Sessions -> Nat]
    /\ pendingCount \in [Sessions -> Nat]
    /\ gale \in [Sessions -> [Assets -> 0..MaxGales]]
    /\ owner \in [Orders -> 0..MaxSessions]
    /\ assetOf \in [Orders -> Assets]
    /\ checker \in [Orders -> CheckerStates]
    /\ lateEntries \in Nat /\ panicEntries \in Nat
    /\ panicAck \in BOOLEAN

\* At most one engine thread trades at a time: what on_start's two guards
\* (running flag, thread still alive) are for.
SingleEngine ==
    \A s, t \in Sessions : Alive(s) /\ Alive(t) => s = t

\* The orders of s the bot still counts as pending.
Counted(s) == {o \in OrdersOf(s) :
                 checker[o] \in {"recording", "waiting", "ready", "dropped"}}

\* While the database works, pending_count is exactly the number of accepted
\* orders without a settled result, whatever the engine and the checkers
\* interleave, across stops and restarts; it never exceeds the cap.
PendingExact ==
    \A s \in Sessions :
        Alive(s) => /\ pendingCount[s] = Cardinality(Counted(s))
                    /\ pendingCount[s] <= MaxPending

\* The trades of a session overshoot max_trades by at most the orders that
\* were in flight: the engine tests trades_count without the lock.
TradesBudget ==
    \A s \in Sessions :
        tradesCount[s] + pendingCount[s] <= MaxTrades + MaxPending

\* Once the running flag is down, at most the one entry already past its
\* checks still reaches the broker.
LateEntryBound == lateEntries <= 1

\* After a panic at most the entries of the scan in progress are made.
PanicEntryBound == panicEntries <= NumAssets

\* No order is both pending and settled in the database: a row is deleted from
\* pending_orders before its trade is written, whatever fails or crashes.
OneTable == pendingRows \cap tradeRows = {}

\* While the database works and the process lives, every settled order has its
\* trade and every other accepted order its pending row.
LedgerComplete ==
    \A o \in Orders :
        /\ checker[o] \in {"saved", "killing", "completing", "settled"}
              => o \in tradeRows
        /\ checker[o] \in {"waiting", "ready", "dropped"} => o \in pendingRows

\* A trade in the history never disappears, an order never returns to
\* pending_orders, and an order leaves pending_orders only while the lock of
\* its own session is taken for it.
LedgerSteps ==
    [][/\ tradeRows \subseteq tradeRows'
       /\ (pendingRows' \ pendingRows) \cap tradeRows = {}
       /\ \A o \in pendingRows \ pendingRows' :
             checker[o] = "ready" /\ checker'[o] = "settling"]_vars

\* Session s waits for the broker: its engine in a call, or one of its checkers
\* in a call that it makes under trade_lock.
Waits(s) ==
    \/ engine[s] \in {"asking", "sizing", "refreshing", "killing", "closing"}
    \/ \E o \in OrdersOf(s) : checker[o] \in {"saved", "killing"}

\* The broker answers session s: no call of it waits for ever.  The code does
\* not guarantee this (LossIsNoticed of BrokerConnection fails), so the three
\* properties below are claimed for sessions whose calls are answered.
Answered(s) == []<>~Waits(s)

\* A stop, from wherever it comes, ends every connected engine whose calls are
\* answered, unless the bot is started again: neither the trade lock nor an
\* endless scan keeps it.
StopEndsEngine ==
    \A s \in Sessions : Answered(s) =>
        ((~botRunning /\ engine[s] # "connecting") ~> (botRunning \/ ~Alive(s)))

\* A panic whose flag stays up ends the session of a connected engine whose
\* calls are answered.
PanicEndsEngine ==
    \A s \in Sessions : Answered(s) =>
        ((panicMode /\ Alive(s) /\ engine[s] # "connecting")
            ~> (~panicMode \/ ~Alive(s)))

\* A session at its trade limit whose calls are answered ends.
LimitEndsEngine ==
    \A s \in Sessions : Answered(s) =>
        ((engine[s] # "connecting" /\ tradesCount[s] >= MaxTrades) ~> ~Alive(s))

-----------------------------------------------------------------------------
(* Statements of the documentation and of the log messages.                *)

\* "PANIC acionado - Impedindo novas entradas": an acknowledged panic is in
\* force while the bot runs.
PanicRemembered == panicAck /\ botRunning => panicMode

\* "Encerrando apos trades pendentes": a stop waits for pending trades, so no
\* result is thrown away.
PendingFinalised == \A o \in Orders : checker[o] # "dropped"

=============================================================================
