----------------------- MODULE TradingSession_proofs -----------------------
EXTENDS TradingSession, FiniteSetTheorems, TLAPS

(***************************************************************************)
(* Type correctness.                                                       *)
(***************************************************************************)

\* One asset on: the engine's program point and scan index stay in their types.
LEMMA AfterAssetType ==
    ASSUME TypeOK, NEW s \in Sessions, AfterAsset(s)
    PROVE  engine' \in [Sessions -> EngineStates] /\ scanIdx' \in [Sessions -> Assets]
<1> USE SessionAssumption DEF TypeOK, AfterAsset, EndScan, EngineStates, Assets
<1>1. CASE scanIdx[s] < NumAssets
  <2>1. scanIdx[s] + 1 \in Assets BY <1>1
  <2> QED BY <1>1, <2>1
<1>2. CASE ~(scanIdx[s] < NumAssets) BY <1>2
<1> QED BY <1>1, <1>2

\* A placed order is typed, and the history counters stay natural numbers.
LEMMA PlaceOrderType ==
    ASSUME TypeOK, NEW s \in Sessions, NEW o \in Orders,
           NEW state \in CheckerStates, PlaceOrder(s, o, state)
    PROVE  /\ owner' \in [Orders -> 0..MaxSessions]
           /\ assetOf' \in [Orders -> Assets]
           /\ checker' \in [Orders -> CheckerStates]
           /\ lateEntries' \in Nat /\ panicEntries' \in Nat
           /\ panicAck' \in BOOLEAN
<1>1. s \in 0..MaxSessions BY SessionAssumption DEF Sessions
<1>2. owner' \in [Orders -> 0..MaxSessions] BY <1>1 DEF TypeOK, PlaceOrder
<1>3. assetOf' \in [Orders -> Assets] BY DEF TypeOK, PlaceOrder
<1>4. checker' \in [Orders -> CheckerStates] BY DEF TypeOK, PlaceOrder
<1>5. lateEntries' \in Nat /\ panicEntries' \in Nat BY DEF TypeOK, PlaceOrder
<1>6. panicAck' \in BOOLEAN BY DEF TypeOK, PlaceOrder
<1> QED BY <1>2, <1>3, <1>4, <1>5, <1>6

\* Counting an order out, for whichever session owns it.
LEMMA CountOutType ==
    ASSUME TypeOK, NEW i \in 0..MaxSessions
    PROVE  [pendingCount EXCEPT ![i] = Decrement(@)] \in [Sessions -> Nat]
<1>1. \A n \in Nat : Decrement(n) \in Nat BY DEF Decrement
<1>2. CASE i \in Sessions BY <1>1, <1>2 DEF TypeOK
<1>3. CASE i \notin Sessions BY <1>3 DEF TypeOK
<1> QED BY <1>2, <1>3

\* Every step keeps the types.
LEMMA TypeStep == TypeOK /\ [Next]_vars => TypeOK'
<1> SUFFICES ASSUME TypeOK, [Next]_vars PROVE TypeOK' OBVIOUS
<1> USE SessionAssumption
    DEF TypeOK, appVars, dbVars, botVars, engineVars, orderVars, historyVars
<1>1. ASSUME NEW c \in Clicks, CheckLock(c) PROVE TypeOK'
  BY <1>1 DEF CheckLock, ClickStates
<1>2. ASSUME NEW c \in Clicks, CheckEngine(c) PROVE TypeOK'
  BY <1>2 DEF CheckEngine, ClickStates
<1>3. ASSUME NEW c \in Clicks, Abandon(c) PROVE TypeOK'
  BY <1>3 DEF Abandon, ClickStates
<1>4. ASSUME NEW c \in Clicks, RaiseRunning(c) PROVE TypeOK'
  BY <1>4 DEF RaiseRunning, ClickStates
<1>5. ASSUME NEW c \in Clicks, ClearPanic(c) PROVE TypeOK'
  BY <1>5 DEF ClearPanic, ClickStates
<1>6. ASSUME NEW c \in Clicks, StartThread(c) PROVE TypeOK'
  BY <1>6 DEF StartThread, EngineStates, Sessions, ClickStates
<1>7. ASSUME Stop PROVE TypeOK'
  BY <1>7 DEF Stop
<1>8. ASSUME Panic PROVE TypeOK'
  BY <1>8 DEF Panic
<1>9. ASSUME NEW s \in Sessions, Connect(s) PROVE TypeOK'
  BY <1>9 DEF Connect, EngineStates
<1>10. ASSUME NEW s \in Sessions, LeaveLoop(s) PROVE TypeOK'
  BY <1>10 DEF LeaveLoop, EngineStates
<1>11. ASSUME NEW s \in Sessions, ObeyPanic(s) PROVE TypeOK'
  BY <1>11 DEF ObeyPanic, EngineStates
<1>12. ASSUME NEW s \in Sessions, KillSwitch(s) PROVE TypeOK'
  BY <1>12 DEF KillSwitch, EngineStates
<1>13. ASSUME NEW s \in Sessions, FinishKill(s) PROVE TypeOK'
  BY <1>13 DEF FinishKill, EngineStates
<1>14. ASSUME NEW s \in Sessions, BeginScan(s) PROVE TypeOK'
  <2>1. "scan" \in EngineStates /\ 1 \in Assets BY DEF EngineStates, Assets
  <2>2. engine' \in [Sessions -> EngineStates] /\ scanIdx' \in [Sessions -> Assets]
    BY <1>14, <2>1 DEF BeginScan
  <2> QED BY <1>14, <2>2, Zenon DEF BeginScan
<1>15. ASSUME NEW s \in Sessions, ScanAsset(s) PROVE TypeOK'
  BY <1>15, AfterAssetType DEF ScanAsset, EndScan, EngineStates
<1>16. ASSUME NEW s \in Sessions, SkipTrade(s) PROVE TypeOK'
  BY <1>16, AfterAssetType DEF SkipTrade
<1>17. ASSUME NEW s \in Sessions, NEW o \in Orders, Buy(s, o) PROVE TypeOK'
  <2>1. "recording" \in CheckerStates /\ "recording" \in EngineStates
    BY DEF CheckerStates, EngineStates
  <2>2. PlaceOrder(s, o, "recording") BY <1>17 DEF Buy
  <2>3. pendingCount' \in [Sessions -> Nat] BY <1>17 DEF Buy, TypeOK
  <2>4. engine' \in [Sessions -> EngineStates] BY <1>17, <2>1 DEF Buy, TypeOK
  <2> QED BY <1>17, <2>1, <2>2, <2>3, <2>4, PlaceOrderType, Zenon
          DEF TypeOK, Buy, appVars, dbVars
<1>18. ASSUME NEW s \in Sessions, NEW o \in Orders, BuyLate(s, o) PROVE TypeOK'
  <2>1. "late" \in CheckerStates BY DEF CheckerStates
  <2>2. PlaceOrder(s, o, "late") /\ AfterAsset(s) BY <1>18 DEF BuyLate
  <2> QED BY <1>18, <2>1, <2>2, PlaceOrderType, AfterAssetType, Zenon
          DEF TypeOK, BuyLate, appVars, dbVars, botVars
<1>19. ASSUME NEW s \in Sessions, NEW o \in Orders, RecordEntry(s, o) PROVE TypeOK'
  BY <1>19, AfterAssetType DEF RecordEntry, CheckerStates, SavePending
<1>20. ASSUME NEW s \in Sessions, CloseEngine(s) PROVE TypeOK'
  BY <1>20 DEF CloseEngine, EngineStates
<1>21. ASSUME NEW o \in Orders, CheckResult(o) PROVE TypeOK'
  BY <1>21 DEF CheckResult, CheckerStates
<1>22. ASSUME NEW o \in Orders, SettleOpen(o) PROVE TypeOK'
  <2> DEFINE s == owner[o]
  <2>1. s \in 0..MaxSessions BY DEF TypeOK
  <2>2. pendingCount' \in [Sessions -> Nat]
    BY <1>22, <2>1, CountOutType DEF SettleOpen
  <2>3. tradesCount' \in [Sessions -> Nat]
    <3>1. \/ tradesCount' = [tradesCount EXCEPT ![s] = @ + 1]
          \/ tradesCount' = tradesCount
      BY <1>22, Zenon DEF SettleOpen
    <3>2. CASE s \in Sessions BY <3>1, <3>2
    <3>3. CASE s \notin Sessions BY <3>1, <3>3
    <3> QED BY <3>2, <3>3
  <2>4. gale' \in [Sessions -> [Assets -> 0..MaxGales]]
    <3>1. \A g \in 0..MaxGales, lost \in BOOLEAN : GaleAfter(g, lost) \in 0..MaxGales
      BY SessionAssumption DEF GaleAfter
    <3>2. \/ \E lost \in BOOLEAN :
               gale' = [gale EXCEPT ![s][assetOf[o]] = GaleAfter(@, lost)]
          \/ gale' = gale
      BY <1>22, Zenon DEF SettleOpen
    <3>3. CASE s \in Sessions
      <4>1. \A g \in [Assets -> 0..MaxGales], a \in Assets, lost \in BOOLEAN :
               [g EXCEPT ![a] = GaleAfter(@, lost)] \in [Assets -> 0..MaxGales]
        BY <3>1
      <4>2. gale[s] \in [Assets -> 0..MaxGales] /\ assetOf[o] \in Assets BY <3>3
      <4>3. ASSUME NEW lost \in BOOLEAN,
                   gale' = [gale EXCEPT ![s][assetOf[o]] = GaleAfter(@, lost)]
            PROVE  gale' \in [Sessions -> [Assets -> 0..MaxGales]]
        <5> DEFINE row == [gale[s] EXCEPT ![assetOf[o]] = GaleAfter(@, lost)]
        <5>1. row \in [Assets -> 0..MaxGales] BY <4>1, <4>2
        <5>2. gale' = [gale EXCEPT ![s] = row] BY <4>3
        <5> QED BY <3>3, <5>1, <5>2
      <4> QED BY <3>2, <4>3
    <3>4. CASE s \notin Sessions BY <3>2, <3>4
    <3> QED BY <3>3, <3>4
  <2>5. checker' \in [Orders -> CheckerStates] /\ pendingRows' \subseteq Orders
    BY <1>22 DEF SettleOpen, TypeOK, CheckerStates, DeletePending
  <2> QED BY <1>22, <2>2, <2>3, <2>4, <2>5, Zenon
          DEF SettleOpen, TypeOK, appVars, engineVars, historyVars
<1>23. ASSUME NEW o \in Orders, SettleSave(o) PROVE TypeOK'
  BY <1>23 DEF SettleSave, CheckerStates, SaveTrade
<1>24. ASSUME NEW o \in Orders, SettleComplete(o) PROVE TypeOK'
  BY <1>24 DEF SettleComplete, CheckerStates
<1>25. ASSUME NEW o \in Orders, SettleFault(o) PROVE TypeOK'
  <2>1. owner[o] \in 0..MaxSessions BY DEF TypeOK
  <2>2. pendingCount' \in [Sessions -> Nat]
    BY <1>25, <2>1, CountOutType DEF SettleFault
  <2>3. checker' \in [Orders -> CheckerStates]
    BY <1>25 DEF SettleFault, TypeOK, CheckerStates
  <2> QED BY <1>25, <2>2, <2>3, Zenon
          DEF SettleFault, TypeOK, appVars, dbVars, engineVars, historyVars
<1>26. ASSUME Midnight PROVE TypeOK'
  BY <1>26 DEF Midnight
<1>27. ASSUME Crash PROVE TypeOK'
  <2>1. engine' \in [Sessions -> EngineStates] BY <1>27 DEF Crash, TypeOK, EngineStates
  <2>2. checker' \in [Orders -> CheckerStates] BY <1>27 DEF Crash, TypeOK, CheckerStates
  <2>3. click' \in [Clicks -> ClickStates] BY <1>27 DEF Crash, ClickStates
  <2>4. /\ botThread' \in 0..MaxSessions
        /\ lateEntries' \in Nat /\ panicEntries' \in Nat
    BY <1>27 DEF Crash
  <2> QED BY <1>27, <2>1, <2>2, <2>3, <2>4, Zenon DEF Crash, TypeOK, dbVars, botVars
<1>28. CASE UNCHANGED vars BY <1>28 DEF vars
<1>29. ASSUME NEW s \in Sessions, AskBalance(s) PROVE TypeOK'
  BY <1>29 DEF AskBalance, EngineStates
<1>30. ASSUME NEW s \in Sessions, AskAgain(s) PROVE TypeOK'
  BY <1>30 DEF AskAgain, EngineStates
<1>31. ASSUME NEW s \in Sessions, Refreshed(s) PROVE TypeOK'
  BY <1>31 DEF Refreshed, EngineStates
<1>32. ASSUME NEW s \in Sessions, EnterTrade(s) PROVE TypeOK'
  BY <1>32 DEF EnterTrade, EngineStates
<1>33. ASSUME NEW s \in Sessions, Refused(s) PROVE TypeOK'
  BY <1>33, AfterAssetType DEF Refused
<1>34. ASSUME NEW o \in Orders, SettleKill(o) PROVE TypeOK'
  BY <1>34 DEF SettleKill, CheckerStates
<1>35. ASSUME NEW o \in Orders, SettleLimits(o) PROVE TypeOK'
  BY <1>35 DEF SettleLimits, CheckerStates
<1> QED BY <1>1, <1>2, <1>3, <1>4, <1>5, <1>6, <1>7, <1>8, <1>9, <1>10, <1>11, <1>12, <1>13, <1>14,
       <1>15, <1>16, <1>17, <1>18, <1>19, <1>20, <1>21, <1>22, <1>23, <1>24, <1>25, <1>26, <1>27,
       <1>28, <1>29, <1>30, <1>31, <1>32, <1>33, <1>34, <1>35
       DEF Next, StartBot, EngineStep, EngineAnswer, SettleStep, SettleAnswer

\* Every reachable state of the control plane is well typed.
THEOREM TypeCorrect == Spec => []TypeOK
<1>1. Init => TypeOK
  <2>1. /\ 0 \in Nat /\ 0 \in 0..MaxSessions /\ 0 \in 0..MaxGales /\ 1 \in Assets
    BY SessionAssumption DEF Assets
  <2>2. /\ "idle" \in ClickStates /\ "none" \in EngineStates
        /\ "none" \in CheckerStates
    BY DEF ClickStates, EngineStates, CheckerStates
  <2>3. Init => /\ engine \in [Sessions -> EngineStates]
                /\ checker \in [Orders -> CheckerStates]
                /\ click \in [Clicks -> ClickStates]
    BY <2>2 DEF Init
  <2>4. Init => /\ scanIdx \in [Sessions -> Assets] /\ assetOf \in [Orders -> Assets]
                /\ tradesCount \in [Sessions -> Nat]
                /\ pendingCount \in [Sessions -> Nat]
                /\ owner \in [Orders -> 0..MaxSessions]
    BY <2>1 DEF Init
  <2>5. Init => gale \in [Sessions -> [Assets -> 0..MaxGales]]
    BY <2>1 DEF Init
  <2> QED BY <2>1, <2>3, <2>4, <2>5, Zenon DEF Init, TypeOK
<1>2. TypeOK /\ [Next]_vars => TypeOK' BY TypeStep
<1> QED BY <1>1, <1>2, PTL DEF Spec


(***************************************************************************)
(* The two tables.  OneTable is not inductive: that save_trade adds an     *)
(* order which has left pending_orders, and save_pending one without a     *)
(* trade, depends on where the order's checker is.                         *)
(***************************************************************************)

LedgerInv ==
    /\ OneTable
    /\ \A o \in Orders :
         /\ owner[o] = 0 => checker[o] = "none"
         /\ checker[o] \in {"none", "recording", "waiting", "ready"} => o \notin tradeRows
         /\ checker[o] = "settling" => o \notin pendingRows

\* Every step keeps the two tables disjoint.
LEMMA LedgerStep == TypeOK /\ LedgerInv /\ [Next]_vars => LedgerInv'
<1> SUFFICES ASSUME TypeOK, LedgerInv, [Next]_vars PROVE LedgerInv' OBVIOUS
<1> USE DEF LedgerInv, OneTable
<1>1. ASSUME NEW c \in Clicks, CheckLock(c) PROVE LedgerInv'
  BY <1>1 DEF CheckLock, dbVars, orderVars
<1>2. ASSUME NEW c \in Clicks, CheckEngine(c) PROVE LedgerInv'
  BY <1>2 DEF CheckEngine, dbVars, orderVars
<1>3. ASSUME NEW c \in Clicks, Abandon(c) PROVE LedgerInv'
  BY <1>3 DEF Abandon, dbVars, orderVars
<1>4. ASSUME NEW c \in Clicks, RaiseRunning(c) PROVE LedgerInv'
  BY <1>4 DEF RaiseRunning, dbVars, orderVars
<1>5. ASSUME NEW c \in Clicks, ClearPanic(c) PROVE LedgerInv'
  BY <1>5 DEF ClearPanic, dbVars, orderVars
<1>6. ASSUME NEW c \in Clicks, StartThread(c) PROVE LedgerInv'
  BY <1>6 DEF StartThread, dbVars, orderVars
<1>7. ASSUME Stop PROVE LedgerInv'
  BY <1>7 DEF Stop, dbVars, orderVars
<1>8. ASSUME Panic PROVE LedgerInv'
  BY <1>8 DEF Panic, dbVars, orderVars
<1>9. ASSUME NEW s \in Sessions, Connect(s) PROVE LedgerInv'
  BY <1>9 DEF Connect, dbVars, orderVars
<1>10. ASSUME NEW s \in Sessions, LeaveLoop(s) PROVE LedgerInv'
  BY <1>10 DEF LeaveLoop, dbVars, orderVars
<1>11. ASSUME NEW s \in Sessions, ObeyPanic(s) PROVE LedgerInv'
  BY <1>11 DEF ObeyPanic, dbVars, orderVars
<1>12. ASSUME NEW s \in Sessions, KillSwitch(s) PROVE LedgerInv'
  BY <1>12 DEF KillSwitch, orderVars
<1>13. ASSUME NEW s \in Sessions, FinishKill(s) PROVE LedgerInv'
  BY <1>13 DEF FinishKill, dbVars, orderVars
<1>14. ASSUME NEW s \in Sessions, BeginScan(s) PROVE LedgerInv'
  BY <1>14 DEF BeginScan, dbVars, orderVars
<1>15. ASSUME NEW s \in Sessions, ScanAsset(s) PROVE LedgerInv'
  BY <1>15 DEF ScanAsset, dbVars, orderVars
<1>16. ASSUME NEW s \in Sessions, SkipTrade(s) PROVE LedgerInv'
  BY <1>16 DEF SkipTrade, dbVars, orderVars
<1>17. ASSUME NEW s \in Sessions, NEW o \in Orders, Buy(s, o) PROVE LedgerInv'
  BY <1>17 DEF Buy, PlaceOrder, IsNextOrder, TypeOK, dbVars, Sessions
<1>18. ASSUME NEW s \in Sessions, NEW o \in Orders, BuyLate(s, o) PROVE LedgerInv'
  BY <1>18 DEF BuyLate, PlaceOrder, IsNextOrder, TypeOK, dbVars, Sessions
<1>19. ASSUME NEW s \in Sessions, NEW o \in Orders, RecordEntry(s, o) PROVE LedgerInv'
  BY <1>19 DEF RecordEntry, SavePending, TypeOK
<1>20. ASSUME NEW s \in Sessions, CloseEngine(s) PROVE LedgerInv'
  BY <1>20 DEF CloseEngine, dbVars, orderVars
<1>21. ASSUME NEW o \in Orders, CheckResult(o) PROVE LedgerInv'
  BY <1>21 DEF CheckResult, TypeOK, dbVars
<1>22. ASSUME NEW o \in Orders, SettleOpen(o) PROVE LedgerInv'
  BY <1>22 DEF SettleOpen, DeletePending, TypeOK
<1>23. ASSUME NEW o \in Orders, SettleSave(o) PROVE LedgerInv'
  BY <1>23 DEF SettleSave, SaveTrade, TypeOK
<1>24. ASSUME NEW o \in Orders, SettleComplete(o) PROVE LedgerInv'
  BY <1>24 DEF SettleComplete, TypeOK, dbVars
<1>25. ASSUME NEW o \in Orders, SettleFault(o) PROVE LedgerInv'
  BY <1>25 DEF SettleFault, TypeOK, dbVars
<1>26. ASSUME Midnight PROVE LedgerInv'
  BY <1>26 DEF Midnight, orderVars
<1>27. ASSUME Crash PROVE LedgerInv'
  BY <1>27 DEF Crash, dbVars
<1>28. CASE UNCHANGED vars BY <1>28 DEF vars, dbVars, orderVars
<1>29. ASSUME NEW s \in Sessions, AskBalance(s) PROVE LedgerInv'
  BY <1>29 DEF AskBalance, dbVars, orderVars
<1>30. ASSUME NEW s \in Sessions, AskAgain(s) PROVE LedgerInv'
  BY <1>30 DEF AskAgain, dbVars, orderVars
<1>31. ASSUME NEW s \in Sessions, Refreshed(s) PROVE LedgerInv'
  BY <1>31 DEF Refreshed, dbVars, orderVars
<1>32. ASSUME NEW s \in Sessions, EnterTrade(s) PROVE LedgerInv'
  BY <1>32 DEF EnterTrade, dbVars, orderVars
<1>33. ASSUME NEW s \in Sessions, Refused(s) PROVE LedgerInv'
  BY <1>33 DEF Refused, dbVars, orderVars
<1>34. ASSUME NEW o \in Orders, SettleKill(o) PROVE LedgerInv'
  BY <1>34 DEF SettleKill, TypeOK
<1>35. ASSUME NEW o \in Orders, SettleLimits(o) PROVE LedgerInv'
  BY <1>35 DEF SettleLimits, TypeOK, dbVars
<1> QED BY <1>1, <1>2, <1>3, <1>4, <1>5, <1>6, <1>7, <1>8, <1>9, <1>10, <1>11, <1>12, <1>13, <1>14,
       <1>15, <1>16, <1>17, <1>18, <1>19, <1>20, <1>21, <1>22, <1>23, <1>24, <1>25, <1>26, <1>27,
       <1>28, <1>29, <1>30, <1>31, <1>32, <1>33, <1>34, <1>35
       DEF Next, StartBot, EngineStep, EngineAnswer, SettleStep, SettleAnswer

\* Initially both tables are empty and no order exists.
LEMMA LedgerInit == Init => LedgerInv
BY DEF Init, LedgerInv, OneTable

\* pending_orders and trades never hold the same order, whatever the database,
\* the broker or a crash does.
THEOREM OneTableHolds == Spec => []OneTable
<1>1. LedgerInv => OneTable BY DEF LedgerInv
<1> QED BY <1>1, LedgerInit, LedgerStep, TypeCorrect, PTL DEF Spec

\* Rows only move forward: no trade disappears, no recorded order returns to
\* pending_orders, and a pending row is deleted only by the order's own checker.
LEMMA LedgerMoves ==
    ASSUME TypeOK, LedgerInv, [Next]_vars
    PROVE  /\ tradeRows \subseteq tradeRows'
           /\ (pendingRows' \ pendingRows) \cap tradeRows = {}
           /\ \A o \in pendingRows \ pendingRows' :
                 checker[o] = "ready" /\ checker'[o] = "settling"
<1> DEFINE Moves == /\ tradeRows \subseteq tradeRows'
                    /\ (pendingRows' \ pendingRows) \cap tradeRows = {}
                    /\ \A o \in pendingRows \ pendingRows' :
                          checker[o] = "ready" /\ checker'[o] = "settling"
<1>1. ASSUME NEW c \in Clicks, CheckLock(c) PROVE Moves
  BY <1>1 DEF CheckLock, dbVars
<1>2. ASSUME NEW c \in Clicks, CheckEngine(c) PROVE Moves
  BY <1>2 DEF CheckEngine, dbVars
<1>3. ASSUME NEW c \in Clicks, Abandon(c) PROVE Moves
  BY <1>3 DEF Abandon, dbVars
<1>4. ASSUME NEW c \in Clicks, RaiseRunning(c) PROVE Moves
  BY <1>4 DEF RaiseRunning, dbVars
<1>5. ASSUME NEW c \in Clicks, ClearPanic(c) PROVE Moves
  BY <1>5 DEF ClearPanic, dbVars
<1>6. ASSUME NEW c \in Clicks, StartThread(c) PROVE Moves
  BY <1>6 DEF StartThread, dbVars
<1>7. ASSUME Stop PROVE Moves
  BY <1>7 DEF Stop, dbVars
<1>8. ASSUME Panic PROVE Moves
  BY <1>8 DEF Panic, dbVars
<1>9. ASSUME NEW s \in Sessions, Connect(s) PROVE Moves
  BY <1>9 DEF Connect, dbVars
<1>10. ASSUME NEW s \in Sessions, LeaveLoop(s) PROVE Moves
  BY <1>10 DEF LeaveLoop, dbVars
<1>11. ASSUME NEW s \in Sessions, ObeyPanic(s) PROVE Moves
  BY <1>11 DEF ObeyPanic, dbVars
<1>12. ASSUME NEW s \in Sessions, KillSwitch(s) PROVE Moves
  BY <1>12 DEF KillSwitch, dbVars
<1>13. ASSUME NEW s \in Sessions, FinishKill(s) PROVE Moves
  BY <1>13 DEF FinishKill, dbVars
<1>14. ASSUME NEW s \in Sessions, BeginScan(s) PROVE Moves
  BY <1>14 DEF BeginScan, dbVars
<1>15. ASSUME NEW s \in Sessions, ScanAsset(s) PROVE Moves
  BY <1>15 DEF ScanAsset, dbVars
<1>16. ASSUME NEW s \in Sessions, SkipTrade(s) PROVE Moves
  BY <1>16 DEF SkipTrade, dbVars
<1>17. ASSUME NEW s \in Sessions, NEW o \in Orders, Buy(s, o) PROVE Moves
  BY <1>17 DEF Buy, dbVars, PlaceOrder
<1>18. ASSUME NEW s \in Sessions, NEW o \in Orders, BuyLate(s, o) PROVE Moves
  BY <1>18 DEF BuyLate, dbVars, PlaceOrder
<1>19. ASSUME NEW s \in Sessions, NEW o \in Orders, RecordEntry(s, o) PROVE Moves
  BY <1>19 DEF RecordEntry, SavePending, LedgerInv
<1>20. ASSUME NEW s \in Sessions, CloseEngine(s) PROVE Moves
  BY <1>20 DEF CloseEngine, dbVars
<1>21. ASSUME NEW o \in Orders, CheckResult(o) PROVE Moves
  BY <1>21 DEF CheckResult, dbVars
<1>22. ASSUME NEW o \in Orders, SettleOpen(o) PROVE Moves
  BY <1>22 DEF SettleOpen, DeletePending, TypeOK
<1>23. ASSUME NEW o \in Orders, SettleSave(o) PROVE Moves
  BY <1>23 DEF SettleSave, SaveTrade
<1>24. ASSUME NEW o \in Orders, SettleComplete(o) PROVE Moves
  BY <1>24 DEF SettleComplete, dbVars
<1>25. ASSUME NEW o \in Orders, SettleFault(o) PROVE Moves
  BY <1>25 DEF SettleFault, dbVars
<1>26. ASSUME Midnight PROVE Moves
  BY <1>26 DEF Midnight, dbVars
<1>27. ASSUME Crash PROVE Moves
  BY <1>27 DEF Crash, dbVars
<1>28. CASE UNCHANGED vars BY <1>28 DEF vars, dbVars
<1>29. ASSUME NEW s \in Sessions, AskBalance(s) PROVE Moves
  BY <1>29 DEF AskBalance, dbVars
<1>30. ASSUME NEW s \in Sessions, AskAgain(s) PROVE Moves
  BY <1>30 DEF AskAgain, dbVars
<1>31. ASSUME NEW s \in Sessions, Refreshed(s) PROVE Moves
  BY <1>31 DEF Refreshed, dbVars
<1>32. ASSUME NEW s \in Sessions, EnterTrade(s) PROVE Moves
  BY <1>32 DEF EnterTrade, dbVars
<1>33. ASSUME NEW s \in Sessions, Refused(s) PROVE Moves
  BY <1>33 DEF Refused, dbVars
<1>34. ASSUME NEW o \in Orders, SettleKill(o) PROVE Moves
  BY <1>34 DEF SettleKill
<1>35. ASSUME NEW o \in Orders, SettleLimits(o) PROVE Moves
  BY <1>35 DEF SettleLimits, dbVars
<1> QED BY <1>1, <1>2, <1>3, <1>4, <1>5, <1>6, <1>7, <1>8, <1>9, <1>10, <1>11, <1>12, <1>13, <1>14,
       <1>15, <1>16, <1>17, <1>18, <1>19, <1>20, <1>21, <1>22, <1>23, <1>24, <1>25, <1>26, <1>27,
       <1>28, <1>29, <1>30, <1>31, <1>32, <1>33, <1>34, <1>35
       DEF Next, StartBot, EngineStep, EngineAnswer, SettleStep, SettleAnswer

\* The same, as a property of every behaviour.
THEOREM LedgerStepsHold == Spec => LedgerSteps
<1>1. TypeOK /\ LedgerInv /\ [Next]_vars
        => [/\ tradeRows \subseteq tradeRows'
            /\ (pendingRows' \ pendingRows) \cap tradeRows = {}
            /\ \A o \in pendingRows \ pendingRows' :
                  checker[o] = "ready" /\ checker'[o] = "settling"]_vars
  BY LedgerMoves
<1> QED BY <1>1, LedgerInit, LedgerStep, TypeCorrect, PTL DEF Spec, LedgerSteps

(***************************************************************************)
(* One engine at a time, when start clicks are served one after another.   *)
(* The two guards of on_start are sound because _bot_thread is the only    *)
(* engine that may live, and none lives once a click has passed them.      *)
(***************************************************************************)

OneClickAtATime == \A c, d \in Clicks : c = d

EngineInv ==
    /\ \A s \in Sessions : Alive(s) => s = botThread
    /\ \A c \in Clicks : click[c] \in {"cleared", "raised", "ready"}
                            => \A s \in Sessions : ~Alive(s)

\* With one click at a time every step keeps at most one engine alive.
LEMMA EngineStepKeeps ==
    ASSUME OneClickAtATime
    PROVE  TypeOK /\ EngineInv /\ [Next]_vars => EngineInv'
<1> SUFFICES ASSUME TypeOK, EngineInv, [Next]_vars PROVE EngineInv' OBVIOUS
<1> USE DEF EngineInv, Alive
<1>1. ASSUME NEW c \in Clicks, CheckLock(c) PROVE EngineInv'
  BY <1>1 DEF CheckLock, engineVars, TypeOK, OneClickAtATime
<1>2. ASSUME NEW c \in Clicks, CheckEngine(c) PROVE EngineInv'
  BY <1>2, SessionAssumption DEF CheckEngine, EngineBusy, engineVars, TypeOK, Sessions, OneClickAtATime
<1>3. ASSUME NEW c \in Clicks, Abandon(c) PROVE EngineInv'
  BY <1>3 DEF Abandon, engineVars, TypeOK, OneClickAtATime
<1>4. ASSUME NEW c \in Clicks, RaiseRunning(c) PROVE EngineInv'
  BY <1>4 DEF RaiseRunning, engineVars, TypeOK, OneClickAtATime
<1>5. ASSUME NEW c \in Clicks, ClearPanic(c) PROVE EngineInv'
  BY <1>5 DEF ClearPanic, engineVars, TypeOK, OneClickAtATime
<1>6. ASSUME NEW c \in Clicks, StartThread(c) PROVE EngineInv'
  BY <1>6 DEF StartThread, IsNextSession, TypeOK, OneClickAtATime, ClickStates
<1>7. ASSUME Stop PROVE EngineInv'
  BY <1>7 DEF Stop, engineVars
<1>8. ASSUME Panic PROVE EngineInv'
  BY <1>8 DEF Panic, engineVars
<1>9. ASSUME NEW s \in Sessions, Connect(s) PROVE EngineInv'
  BY <1>9 DEF Connect, appVars, TypeOK
<1>10. ASSUME NEW s \in Sessions, LeaveLoop(s) PROVE EngineInv'
  BY <1>10 DEF LeaveLoop, appVars, TypeOK
<1>11. ASSUME NEW s \in Sessions, ObeyPanic(s) PROVE EngineInv'
  BY <1>11 DEF ObeyPanic, TypeOK
<1>12. ASSUME NEW s \in Sessions, KillSwitch(s) PROVE EngineInv'
  BY <1>12 DEF KillSwitch, appVars, TypeOK
<1>13. ASSUME NEW s \in Sessions, FinishKill(s) PROVE EngineInv'
  BY <1>13 DEF FinishKill, TypeOK
<1>14. ASSUME NEW s \in Sessions, BeginScan(s) PROVE EngineInv'
  BY <1>14 DEF BeginScan, appVars, TypeOK
<1>15. ASSUME NEW s \in Sessions, ScanAsset(s) PROVE EngineInv'
  BY <1>15 DEF ScanAsset, AfterAsset, EndScan, appVars, TypeOK
<1>16. ASSUME NEW s \in Sessions, SkipTrade(s) PROVE EngineInv'
  BY <1>16 DEF SkipTrade, AfterAsset, EndScan, appVars, TypeOK
<1>17. ASSUME NEW s \in Sessions, NEW o \in Orders, Buy(s, o) PROVE EngineInv'
  BY <1>17 DEF Buy, PlaceOrder, appVars, TypeOK
<1>18. ASSUME NEW s \in Sessions, NEW o \in Orders, BuyLate(s, o) PROVE EngineInv'
  BY <1>18 DEF BuyLate, AfterAsset, EndScan, PlaceOrder, appVars, TypeOK
<1>19. ASSUME NEW s \in Sessions, NEW o \in Orders, RecordEntry(s, o) PROVE EngineInv'
  BY <1>19 DEF RecordEntry, AfterAsset, EndScan, appVars, TypeOK
<1>20. ASSUME NEW s \in Sessions, CloseEngine(s) PROVE EngineInv'
  BY <1>20 DEF CloseEngine, appVars, TypeOK
<1>21. ASSUME NEW o \in Orders, CheckResult(o) PROVE EngineInv'
  BY <1>21 DEF CheckResult, appVars, engineVars
<1>22. ASSUME NEW o \in Orders, SettleOpen(o) PROVE EngineInv'
  BY <1>22 DEF SettleOpen, appVars, engineVars
<1>23. ASSUME NEW o \in Orders, SettleSave(o) PROVE EngineInv'
  BY <1>23 DEF SettleSave, appVars, engineVars
<1>24. ASSUME NEW o \in Orders, SettleComplete(o) PROVE EngineInv'
  BY <1>24 DEF SettleComplete, engineVars
<1>25. ASSUME NEW o \in Orders, SettleFault(o) PROVE EngineInv'
  BY <1>25 DEF SettleFault, appVars, engineVars
<1>26. ASSUME Midnight PROVE EngineInv'
  BY <1>26 DEF Midnight, appVars, engineVars
<1>27. ASSUME Crash PROVE EngineInv'
  BY <1>27 DEF Crash
<1>28. CASE UNCHANGED vars BY <1>28 DEF vars, appVars, engineVars
<1>29. ASSUME NEW s \in Sessions, AskBalance(s) PROVE EngineInv'
  BY <1>29 DEF AskBalance, appVars, TypeOK
<1>30. ASSUME NEW s \in Sessions, AskAgain(s) PROVE EngineInv'
  BY <1>30 DEF AskAgain, appVars, TypeOK
<1>31. ASSUME NEW s \in Sessions, Refreshed(s) PROVE EngineInv'
  BY <1>31 DEF Refreshed, appVars, TypeOK
<1>32. ASSUME NEW s \in Sessions, EnterTrade(s) PROVE EngineInv'
  BY <1>32 DEF EnterTrade, appVars, TypeOK
<1>33. ASSUME NEW s \in Sessions, Refused(s) PROVE EngineInv'
  BY <1>33 DEF Refused, appVars, AfterAsset, EndScan, TypeOK
<1>34. ASSUME NEW o \in Orders, SettleKill(o) PROVE EngineInv'
  BY <1>34 DEF SettleKill, appVars, engineVars
<1>35. ASSUME NEW o \in Orders, SettleLimits(o) PROVE EngineInv'
  BY <1>35 DEF SettleLimits, appVars, engineVars
<1> QED BY <1>1, <1>2, <1>3, <1>4, <1>5, <1>6, <1>7, <1>8, <1>9, <1>10, <1>11, <1>12, <1>13, <1>14,
       <1>15, <1>16, <1>17, <1>18, <1>19, <1>20, <1>21, <1>22, <1>23, <1>24, <1>25, <1>26, <1>27,
       <1>28, <1>29, <1>30, <1>31, <1>32, <1>33, <1>34, <1>35
       DEF Next, StartBot, EngineStep, EngineAnswer, SettleStep, SettleAnswer

\* One start click at a time means one engine at a time: a restart cannot
\* overtake the thread it replaces.
THEOREM SingleEngineHolds ==
    ASSUME OneClickAtATime PROVE Spec => []SingleEngine
<1>1. Init => EngineInv BY DEF Init, EngineInv, Alive
<1>2. EngineInv => SingleEngine BY DEF EngineInv, SingleEngine
<1> QED BY <1>1, <1>2, EngineStepKeeps, TypeCorrect, PTL DEF Spec

(***************************************************************************)
(* What still reaches the broker after a stop or a panic, when start       *)
(* clicks are served one after another.  The engine looks at the flags     *)
(* before a signal and not after it, so what has been bought since the     *)
(* flag went down is told by where the engine is.                          *)
(***************************************************************************)

LateInv ==
    /\ botRunning => lateEntries = 0
    /\ lateEntries <= 1
    /\ \A s \in Sessions : engine[s] \in {"signal", "sizing"} => lateEntries = 0

PanicInv ==
    /\ ~panicMode => panicEntries = 0
    /\ panicEntries <= NumAssets
    /\ \A s \in Sessions :
         /\ engine[s] = "asking" => panicEntries = 0
         /\ engine[s] \in {"scan", "signal", "sizing"} => panicEntries < scanIdx[s]
         /\ engine[s] = "recording" => panicEntries <= scanIdx[s]

EntryInv == LateInv /\ PanicInv

\* The next asset: one more entry may have been made, the index goes on with it.
LEMMA AfterAssetEntries ==
    ASSUME TypeOK, LateInv, EngineInv, NEW s \in Sessions, Alive(s), AfterAsset(s),
           panicEntries' \in Nat, panicEntries' <= scanIdx[s], panicMode' = panicMode,
           ~panicMode => panicEntries' = 0
    PROVE  PanicInv' /\ \A t \in Sessions : engine'[t] \notin {"signal", "sizing"}
<1>1. \A t \in Sessions \ {s} : ~Alive(t)
  BY DEF EngineInv
<1>2. /\ engine'[s] \in {"scan", "top", "refreshing"}
      /\ engine'[s] = "scan" => scanIdx'[s] = scanIdx[s] + 1
      /\ \A t \in Sessions \ {s} : engine'[t] = engine[t]
  BY DEF AfterAsset, EndScan, TypeOK
<1>3. scanIdx[s] \in Nat /\ scanIdx[s] <= NumAssets /\ NumAssets \in Nat
  BY SessionAssumption DEF TypeOK, Assets
<1>4. QED BY <1>1, <1>2, <1>3 DEF PanicInv, Alive

\* A step that buys nothing and moves no engine into a scan.
LEMMA IdleEntries ==
    ASSUME TypeOK, EntryInv, UNCHANGED <<lateEntries, panicEntries, scanIdx>>,
           panicMode => panicMode', botRunning' => botRunning,
           \A s \in Sessions :
              engine'[s] \in {"asking", "scan", "signal", "sizing", "recording"}
                => engine'[s] = engine[s]
    PROVE  EntryInv'
BY DEF EntryInv, LateInv, PanicInv

\* Every step keeps both, with one click at a time.
LEMMA EntryStep ==
    ASSUME OneClickAtATime, TypeOK, EngineInv, EntryInv, [Next]_vars PROVE EntryInv'
<1>1. ASSUME NEW c \in Clicks, StartBot(c) PROVE EntryInv'
  <2>1. CASE CheckLock(c) \/ CheckEngine(c) \/ Abandon(c)
    BY <2>1, IdleEntries DEF CheckLock, CheckEngine, Abandon, engineVars, historyVars
  <2>2. CASE RaiseRunning(c)
    BY <2>2, SessionAssumption DEF RaiseRunning, engineVars, EntryInv, LateInv, PanicInv
  <2>3. CASE ClearPanic(c)
    <3>1. /\ panicEntries' = 0 /\ panicMode' = FALSE
          /\ UNCHANGED <<botRunning, lateEntries, engine, scanIdx>>
      BY <2>3 DEF ClearPanic, engineVars
    <3>2. \A s \in Sessions : scanIdx[s] \in Nat \ {0}
      BY SessionAssumption DEF TypeOK, Assets
    <3>3. QED BY <3>1, <3>2, SessionAssumption DEF EntryInv, LateInv, PanicInv
  <2>4. CASE StartThread(c)
    BY <2>4, IdleEntries DEF StartThread, historyVars, TypeOK
  <2>5. QED BY <1>1, <2>1, <2>2, <2>3, <2>4 DEF StartBot
<1>2. CASE Stop \/ Panic \/ Midnight \/ UNCHANGED vars
  BY <1>2, IdleEntries DEF Stop, Panic, Midnight, vars, appVars, engineVars, historyVars
<1>3. ASSUME NEW s \in Sessions,
             Connect(s) \/ LeaveLoop(s) \/ ObeyPanic(s) \/ AskAgain(s) \/ KillSwitch(s)
             \/ Refreshed(s) \/ FinishKill(s) \/ CloseEngine(s)
      PROVE  EntryInv'
  <2>1. /\ UNCHANGED <<lateEntries, panicEntries, scanIdx, panicMode>>
        /\ botRunning' => botRunning
        /\ \E next \in {"top", "dead", "closing", "killing"} :
              engine' = [engine EXCEPT ![s] = next]
    BY <1>3 DEF Connect, LeaveLoop, ObeyPanic, AskAgain, KillSwitch, Refreshed, FinishKill,
                CloseEngine, appVars, historyVars
  <2>2. QED BY <2>1, IdleEntries DEF TypeOK
<1>4. ASSUME NEW s \in Sessions, AskBalance(s) \/ BeginScan(s) PROVE EntryInv'
  <2>1. CASE AskBalance(s)
    <3>1. /\ ~panicMode /\ UNCHANGED <<appVars, scanIdx, historyVars>>
          /\ engine' = [engine EXCEPT ![s] = "asking"]
      BY <2>1 DEF AskBalance, HeadClear
    <3>2. QED BY <3>1 DEF EntryInv, LateInv, PanicInv, TypeOK, appVars, historyVars
  <2>2. CASE BeginScan(s)
    <3>1. /\ engine[s] = "asking" /\ UNCHANGED <<appVars, historyVars>>
          /\ engine' = [engine EXCEPT ![s] = "scan"] /\ scanIdx' = [scanIdx EXCEPT ![s] = 1]
      BY <2>2 DEF BeginScan
    <3>2. panicEntries = 0
      BY <3>1 DEF EntryInv, PanicInv
    <3>3. \A t \in Sessions : scanIdx'[t] \in Nat \ {0}
      BY <3>1, SessionAssumption DEF TypeOK, Assets
    <3>4. QED BY <3>1, <3>2, <3>3, SessionAssumption
              DEF EntryInv, LateInv, PanicInv, TypeOK, appVars, historyVars
  <2>3. QED BY <1>4, <2>1, <2>2
<1>5. ASSUME NEW s \in Sessions, ScanAsset(s) \/ SkipTrade(s) \/ EnterTrade(s) \/ Refused(s)
      PROVE  EntryInv'
  <2>1. /\ UNCHANGED <<appVars, historyVars>> /\ Alive(s)
        /\ engine[s] \in {"scan", "signal", "sizing"}
    BY <1>5 DEF ScanAsset, SkipTrade, EnterTrade, Refused, Alive
  <2>2. /\ panicEntries \in Nat /\ panicEntries <= scanIdx[s]
        /\ scanIdx[s] \in Nat
    BY <2>1, SessionAssumption DEF EntryInv, PanicInv, TypeOK, Assets
  <2>3. CASE AfterAsset(s)
    BY <2>1, <2>2, <2>3, AfterAssetEntries
       DEF EntryInv, LateInv, PanicInv, appVars, historyVars
  <2>4. CASE engine' = [engine EXCEPT ![s] = "signal"] /\ scanIdx' = scanIdx /\ MayTrade(s)
             /\ engine[s] = "scan"
    BY <2>1, <2>4 DEF EntryInv, LateInv, PanicInv, MayTrade, TypeOK, appVars, historyVars
  <2>5. CASE EndScan(s)
    BY <2>1, <2>5, IdleEntries DEF EndScan, TypeOK, appVars, historyVars
  <2>6. CASE EnterTrade(s)
    <3>1. /\ engine[s] = "signal" /\ engine' = [engine EXCEPT ![s] = "sizing"]
          /\ scanIdx' = scanIdx
      BY <2>6 DEF EnterTrade
    <3>2. QED BY <2>1, <3>1 DEF EntryInv, LateInv, PanicInv, TypeOK, appVars, historyVars
  <2>7. QED BY <1>5, <2>3, <2>4, <2>5, <2>6 DEF ScanAsset, SkipTrade, Refused
<1>6. ASSUME NEW s \in Sessions, NEW o \in Orders, Buy(s, o) \/ BuyLate(s, o) PROVE EntryInv'
  <2>1. /\ engine[s] = "sizing" /\ Alive(s) /\ UNCHANGED appVars
        /\ lateEntries' = IF botRunning THEN lateEntries ELSE lateEntries + 1
        /\ panicEntries' = IF panicMode THEN panicEntries + 1 ELSE panicEntries
    BY <1>6 DEF Buy, BuyLate, PlaceOrder, Alive
  <2>2. /\ panicEntries' \in Nat /\ panicEntries' <= scanIdx[s] /\ scanIdx[s] \in Nat
        /\ scanIdx[s] <= NumAssets /\ NumAssets \in Nat
        /\ ~panicMode => panicEntries' = 0
    BY <2>1, SessionAssumption DEF EntryInv, PanicInv, TypeOK, Assets
  <2>3. lateEntries' <= 1 /\ (botRunning' => lateEntries' = 0)
    BY <2>1 DEF EntryInv, LateInv, appVars
  <2>4. \A t \in Sessions \ {s} : ~Alive(t)
    BY <2>1 DEF EngineInv
  <2>5. CASE Buy(s, o)
    <3>1. engine' = [engine EXCEPT ![s] = "recording"] /\ scanIdx' = scanIdx
      BY <2>5 DEF Buy
    <3>2. /\ engine'[s] = "recording" /\ scanIdx'[s] = scanIdx[s]
          /\ \A t \in Sessions \ {s} : engine'[t] \in {"none", "dead"}
      BY <2>4, <3>1 DEF TypeOK, Alive
    <3>3. LateInv'
      BY <2>3, <3>2 DEF LateInv
    <3>4. PanicInv'
      BY <2>1, <2>2, <3>2 DEF PanicInv, appVars
    <3>5. QED BY <3>3, <3>4 DEF EntryInv
  <2>6. CASE BuyLate(s, o)
    <3>1. AfterAsset(s)
      BY <2>6 DEF BuyLate
    <3>2. QED BY <2>1, <2>2, <2>3, <3>1, AfterAssetEntries DEF EntryInv, LateInv, appVars
  <2>7. QED BY <1>6, <2>5, <2>6
<1>7. ASSUME NEW s \in Sessions, NEW o \in Orders, RecordEntry(s, o) PROVE EntryInv'
  <2>1. /\ engine[s] = "recording" /\ Alive(s) /\ AfterAsset(s)
        /\ UNCHANGED <<appVars, historyVars>>
    BY <1>7 DEF RecordEntry, Alive
  <2>2. panicEntries \in Nat /\ panicEntries <= scanIdx[s]
    BY <2>1 DEF EntryInv, PanicInv, TypeOK
  <2>3. QED BY <2>1, <2>2, AfterAssetEntries
            DEF EntryInv, LateInv, PanicInv, appVars, historyVars
<1>8. ASSUME NEW o \in Orders, SettleStep(o) \/ SettleAnswer(o) PROVE EntryInv'
  BY <1>8, IdleEntries DEF CheckResult, SettleStep, SettleAnswer, SettleOpen, SettleSave,
                           SettleKill, SettleLimits, SettleComplete, SettleFault,
                           appVars, engineVars, historyVars
<1>9. CASE Crash
  BY <1>9, SessionAssumption DEF Crash, EntryInv, LateInv, PanicInv, Alive
<1>10. QED
  BY <1>1, <1>2, <1>3, <1>4, <1>5, <1>6, <1>7, <1>8, <1>9 DEF Next, EngineStep, EngineAnswer

LEMMA EntryAlways == ASSUME OneClickAtATime PROVE Spec => []EntryInv
<1>1. Init => EntryInv
  BY SessionAssumption DEF Init, EntryInv, LateInv, PanicInv
<1>2. Init => EngineInv
  BY DEF Init, EngineInv, Alive
<1>3. TypeOK /\ EngineInv /\ EntryInv /\ [Next]_vars => EntryInv'
  BY EntryStep
<1>4. QED BY <1>1, <1>2, <1>3, EngineStepKeeps, TypeCorrect, PTL DEF Spec

\* strategy.py 780-878: once the flag is down, one entry at most still reaches the
\* broker, the one that was past the test of its asset.
THEOREM LateEntryBoundHolds == ASSUME OneClickAtATime PROVE Spec => []LateEntryBound
<1>1. EntryInv => LateEntryBound
  BY DEF EntryInv, LateInv, LateEntryBound
<1>2. QED BY <1>1, EntryAlways, PTL

\* strategy.py 751-783: the panic flag is read at the head of the loop only, so one
\* entry per asset of the scan in progress may follow it, and no more.
THEOREM PanicEntryBoundHolds == ASSUME OneClickAtATime PROVE Spec => []PanicEntryBound
<1>1. EntryInv => PanicEntryBound
  BY DEF EntryInv, PanicInv, PanicEntryBound
<1>2. QED BY <1>1, EntryAlways, PTL

-----------------------------------------------------------------------------
(***************************************************************************)
(* What the control plane counts and stores while SQLite works: the        *)
(* pending count is exact, the trades of a session stay within their       *)
(* budget, and no accepted order is missing from the tables.               *)
(***************************************************************************)
DbWorks == DbMayFail = FALSE

-----------------------------------------------------------------------------
(* Most steps move flags and engines only.                                 *)

\* Nothing is counted or stored, no engine comes back, and an engine that is about
\* to trade has seen trades_count below the limit, then pending_count below the cap.
Quiet ==
    /\ UNCHANGED <<owner, checker, tradesCount, pendingCount, pendingRows, tradeRows>>
    /\ \A s \in Sessions :
         /\ engine'[s] = "signal" => engine[s] = "signal" \/ tradesCount[s] < MaxTrades
         /\ engine'[s] = "sizing"
              => engine[s] = "sizing"
                 \/ (engine[s] = "signal" /\ pendingCount[s] < MaxPending)
         /\ engine'[s] = "none" => engine[s] = "none"
         /\ engine[s] = "dead" => engine'[s] = "dead"

\* Every step is quiet, or one of the few that move an order.
LEMMA StepKinds ==
    ASSUME TypeOK, [Next]_vars
    PROVE  \/ Quiet
           \/ \E s \in Sessions, o \in Orders : Buy(s, o) \/ BuyLate(s, o) \/ RecordEntry(s, o)
           \/ \E o \in Orders : SettleStep(o) \/ SettleAnswer(o)
           \/ Crash
<1> USE DEF TypeOK, Quiet
<1>1. ASSUME NEW c \in Clicks, StartBot(c) PROVE Quiet
  <2>1. CASE StartThread(c)
    BY <2>1 DEF StartThread, IsNextSession, dbVars, botVars, orderVars
  <2>2. CASE ~StartThread(c)
    BY <1>1, <2>2 DEF StartBot, CheckLock, CheckEngine, Abandon, RaiseRunning, ClearPanic,
                      dbVars, botVars, orderVars, engineVars
  <2>3. QED BY <2>1, <2>2
<1>2. CASE Stop \/ Panic \/ Midnight \/ UNCHANGED vars
  BY <1>2 DEF Stop, Panic, Midnight, vars, dbVars, botVars, orderVars, engineVars
<1>3. ASSUME NEW s \in Sessions,
             Connect(s) \/ LeaveLoop(s) \/ ObeyPanic(s) \/ AskBalance(s) \/ AskAgain(s)
             \/ KillSwitch(s) \/ FinishKill(s) \/ BeginScan(s) \/ Refreshed(s) \/ CloseEngine(s)
      PROVE  Quiet
  BY <1>3 DEF Connect, LeaveLoop, ObeyPanic, AskBalance, AskAgain, KillSwitch, FinishKill,
              BeginScan, Refreshed, CloseEngine, dbVars, botVars, orderVars
<1>4. ASSUME NEW s \in Sessions, ScanAsset(s) \/ SkipTrade(s) \/ EnterTrade(s) \/ Refused(s)
      PROVE  Quiet
  BY <1>4 DEF ScanAsset, SkipTrade, EnterTrade, Refused, AfterAsset, EndScan, MayTrade,
              BelowCap, dbVars, botVars, orderVars
<1>5. QED
  BY <1>1, <1>2, <1>3, <1>4 DEF Next, EngineStep, EngineAnswer

-----------------------------------------------------------------------------
(* The tables.                                                             *)

\* While the database works, every step keeps each order in the table it belongs to.
LEMMA CompleteStep ==
    ASSUME DbWorks, TypeOK, LedgerComplete, [Next]_vars PROVE LedgerComplete'
<1> USE DEF LedgerComplete, TypeOK
<1>1. CASE Quiet
  BY <1>1 DEF Quiet
<1>2. ASSUME NEW s \in Sessions, NEW o \in Orders, Buy(s, o) \/ BuyLate(s, o)
      PROVE  LedgerComplete'
  BY <1>2 DEF Buy, BuyLate, PlaceOrder, dbVars
<1>3. ASSUME NEW s \in Sessions, NEW o \in Orders, RecordEntry(s, o) PROVE LedgerComplete'
  BY <1>3 DEF RecordEntry, SavePending, DbWorks
<1>4. ASSUME NEW o \in Orders, CheckResult(o) PROVE LedgerComplete'
  BY <1>4 DEF CheckResult, dbVars
<1>5. ASSUME NEW o \in Orders, SettleOpen(o) PROVE LedgerComplete'
  BY <1>5 DEF SettleOpen, DeletePending, DbWorks
<1>6. ASSUME NEW o \in Orders, SettleSave(o) PROVE LedgerComplete'
  BY <1>6 DEF SettleSave, SaveTrade, DbWorks
<1>7. ASSUME NEW o \in Orders,
             SettleKill(o) \/ SettleLimits(o) \/ SettleComplete(o) \/ SettleFault(o)
      PROVE  LedgerComplete'
  BY <1>7 DEF SettleKill, SettleLimits, SettleComplete, SettleFault, DbWorks, dbVars
<1>8. CASE Crash
  BY <1>8 DEF Crash, dbVars
<1>9. QED
  BY <1>1, <1>2, <1>3, <1>4, <1>5, <1>6, <1>7, <1>8, StepKinds DEF SettleStep, SettleAnswer

\* strategy.py 604-647 and 709: while the database works, a settled order has its
\* trade and every other watched order its pending row, crashes included.
THEOREM LedgerCompleteHolds == ASSUME DbWorks PROVE Spec => []LedgerComplete
<1>1. Init => LedgerComplete
  BY DEF Init, LedgerComplete
<1>2. TypeOK /\ LedgerComplete /\ [Next]_vars => LedgerComplete'
  BY CompleteStep
<1>3. QED BY <1>1, <1>2, TypeCorrect, PTL DEF Spec

-----------------------------------------------------------------------------
(* The counters.                                                           *)

\* No checker of s will ever run again, and no engine counts for it.
Gone(s) ==
    /\ engine[s] = "dead"
    /\ \A o \in OrdersOf(s) : checker[o] \notin {"recording", "waiting", "ready", "settling",
                                                 "saved", "killing", "completing", "faulted"}

OwnedInv ==
    \A o \in Orders :
        /\ owner[o] = 0 => checker[o] = "none"
        /\ owner[o] # 0 => engine[owner[o]] # "none"
        /\ checker[o] # "faulted"

ExactInv == \A s \in Sessions : Gone(s) \/ pendingCount[s] = Cardinality(Counted(s))

BudgetInv ==
    \A s \in Sessions :
        /\ pendingCount[s] <= MaxPending
        /\ tradesCount[s] + pendingCount[s] <= MaxTrades + MaxPending
        /\ engine[s] \in {"signal", "sizing"}
              => tradesCount[s] + pendingCount[s] < MaxTrades + MaxPending
        /\ engine[s] = "sizing" => pendingCount[s] < MaxPending

CountInv == OwnedInv /\ ExactInv /\ BudgetInv

\* The counted orders of a session are finitely many.
LEMMA CountedFinite == ASSUME NEW s \in Sessions PROVE IsFiniteSet(Counted(s))
<1>1. IsFiniteSet(Orders)
  BY FS_Interval, SessionAssumption DEF Orders
<1>2. QED BY <1>1, FS_Subset DEF Counted, OrdersOf

\* A quiet step keeps the counters.
LEMMA QuietCounts == ASSUME TypeOK, CountInv, Quiet PROVE CountInv'
<1> USE DEF TypeOK, CountInv, Quiet
<1>1. OwnedInv'
  <2> SUFFICES ASSUME NEW o \in Orders, owner[o] # 0 PROVE engine'[owner[o]] # "none"
    BY DEF OwnedInv
  <2>1. owner[o] \in Sessions
    BY DEF Sessions
  <2>2. QED BY <2>1 DEF OwnedInv
<1>2. ExactInv'
  <2> SUFFICES ASSUME NEW s \in Sessions
               PROVE  Gone(s)' \/ pendingCount'[s] = Cardinality(Counted(s)')
    BY DEF ExactInv
  <2>1. Counted(s)' = Counted(s)
    BY DEF Counted, OrdersOf
  <2>2. Gone(s) => Gone(s)'
    BY DEF Gone, OrdersOf
  <2>3. QED BY <2>1, <2>2 DEF ExactInv
<1>3. BudgetInv'
  BY SessionAssumption DEF BudgetInv
<1>4. QED BY <1>1, <1>2, <1>3

\* An order that is bought counts for its session, unless buy() gave up on it.
LEMMA CountedAfterBuy ==
    ASSUME TypeOK, OwnedInv, NEW s \in Sessions, NEW o \in Orders,
           NEW state \in {"recording", "late"}, PlaceOrder(s, o, state)
    PROVE  /\ owner[o] = 0 /\ owner'[o] = s /\ checker'[o] = state
           /\ \A p \in Orders \ {o} : owner'[p] = owner[p] /\ checker'[p] = checker[p]
           /\ \A t \in Sessions :
                /\ o \notin Counted(t)
                /\ Counted(t)' = IF t = s /\ state = "recording" THEN Counted(t) \cup {o}
                                                                 ELSE Counted(t)
<1>1. /\ owner[o] = 0 /\ owner'[o] = s /\ checker'[o] = state
      /\ \A p \in Orders \ {o} : owner'[p] = owner[p] /\ checker'[p] = checker[p]
  BY DEF PlaceOrder, IsNextOrder, TypeOK
<1>2. \A t \in Sessions : o \notin Counted(t)
  BY <1>1 DEF Counted, OrdersOf, Sessions
<1>3. QED BY <1>1, <1>2 DEF Counted, OrdersOf

LEMMA BuyCounts ==
    ASSUME TypeOK, CountInv, NEW s \in Sessions, NEW o \in Orders, Buy(s, o) PROVE CountInv'
<1>1. /\ PlaceOrder(s, o, "recording") /\ engine[s] = "sizing" /\ pendingCount[s] < MaxPending
      /\ engine' = [engine EXCEPT ![s] = "recording"] /\ tradesCount' = tradesCount
      /\ pendingCount' = [pendingCount EXCEPT ![s] = @ + 1]
  BY DEF Buy, PlaceOrder, CountInv, BudgetInv
<1>2. /\ owner[o] = 0 /\ owner'[o] = s /\ checker'[o] = "recording"
      /\ \A p \in Orders \ {o} : owner'[p] = owner[p] /\ checker'[p] = checker[p]
      /\ \A t \in Sessions : o \notin Counted(t)
      /\ Counted(s)' = Counted(s) \cup {o}
      /\ \A t \in Sessions \ {s} : Counted(t)' = Counted(t)
  BY <1>1, CountedAfterBuy DEF CountInv
<1>3. /\ engine'[s] = "recording" /\ pendingCount'[s] = pendingCount[s] + 1
      /\ \A t \in Sessions \ {s} : engine'[t] = engine[t] /\ pendingCount'[t] = pendingCount[t]
  BY <1>1 DEF TypeOK
<1>4. OwnedInv'
  <2> SUFFICES ASSUME NEW p \in Orders, p # o
               PROVE  /\ owner'[p] = 0 => checker'[p] = "none"
                      /\ owner'[p] # 0 => engine'[owner'[p]] # "none"
                      /\ checker'[p] # "faulted"
    BY <1>2, <1>3 DEF OwnedInv, Sessions
  <2>1. owner[p] # 0 => owner[p] \in Sessions
    BY DEF TypeOK, Sessions
  <2>2. QED BY <1>2, <1>3, <2>1 DEF OwnedInv, CountInv
<1>5. ExactInv'
  <2>1. pendingCount'[s] = Cardinality(Counted(s)')
    <3>1. pendingCount[s] = Cardinality(Counted(s))
      BY <1>1 DEF CountInv, ExactInv, Gone
    <3>2. Cardinality(Counted(s) \cup {o}) = Cardinality(Counted(s)) + 1
      BY <1>2, CountedFinite, FS_AddElement
    <3>3. QED BY <1>2, <1>3, <3>1, <3>2
  <2>2. ASSUME NEW t \in Sessions \ {s}
        PROVE  Gone(t)' \/ pendingCount'[t] = Cardinality(Counted(t)')
    <3>1. Gone(t) => Gone(t)'
      BY <1>2, <1>3 DEF Gone, OrdersOf
    <3>2. QED BY <1>2, <1>3, <3>1 DEF CountInv, ExactInv
  <2>3. QED BY <2>1, <2>2 DEF ExactInv
<1>6. BudgetInv'
  <2>1. tradesCount[s] \in Nat /\ pendingCount[s] \in Nat
    BY DEF TypeOK
  <2>2. QED BY <1>1, <1>3, <2>1, SessionAssumption DEF CountInv, BudgetInv
<1>7. QED BY <1>4, <1>5, <1>6 DEF CountInv

LEMMA BuyLateCounts ==
    ASSUME TypeOK, CountInv, NEW s \in Sessions, NEW o \in Orders, BuyLate(s, o) PROVE CountInv'
<1>1. /\ PlaceOrder(s, o, "late") /\ engine[s] = "sizing"
      /\ tradesCount' = tradesCount /\ pendingCount' = pendingCount
  BY DEF BuyLate, PlaceOrder, botVars
<1>2. /\ owner[o] = 0 /\ owner'[o] = s /\ checker'[o] = "late"
      /\ \A p \in Orders \ {o} : owner'[p] = owner[p] /\ checker'[p] = checker[p]
      /\ \A t \in Sessions : Counted(t)' = Counted(t)
  BY <1>1, CountedAfterBuy DEF CountInv
<1>3. /\ engine'[s] \in {"scan", "top", "refreshing"}
      /\ \A t \in Sessions \ {s} : engine'[t] = engine[t]
  BY DEF BuyLate, AfterAsset, EndScan, TypeOK
<1>4. OwnedInv'
  <2> SUFFICES ASSUME NEW p \in Orders, p # o
               PROVE  /\ owner'[p] = 0 => checker'[p] = "none"
                      /\ owner'[p] # 0 => engine'[owner'[p]] # "none"
                      /\ checker'[p] # "faulted"
    BY <1>2, <1>3 DEF OwnedInv, Sessions
  <2>1. owner[p] # 0 => owner[p] \in Sessions
    BY DEF TypeOK, Sessions
  <2>2. QED BY <1>2, <1>3, <2>1 DEF OwnedInv, CountInv
<1>5. ExactInv'
  <2> SUFFICES ASSUME NEW t \in Sessions
               PROVE  Gone(t)' \/ pendingCount'[t] = Cardinality(Counted(t)')
    BY DEF ExactInv
  <2>1. Gone(t) => Gone(t)'
    BY <1>1, <1>2, <1>3 DEF Gone, OrdersOf
  <2>2. QED BY <1>1, <1>2, <2>1 DEF CountInv, ExactInv
<1>6. BudgetInv'
  BY <1>1, <1>3 DEF CountInv, BudgetInv
<1>7. QED BY <1>4, <1>5, <1>6 DEF CountInv

\* An order that goes on with its checker: it counts from the buy to the settlement.
LEMMA CountedAfterMove ==
    ASSUME TypeOK, NEW o \in Orders, NEW x \in CheckerStates, owner' = owner,
           checker' = [checker EXCEPT ![o] = x], NEW s \in Sessions
    PROVE  Counted(s)' = IF owner[o] = s /\ x \in {"recording", "waiting", "ready", "dropped"}
                           THEN Counted(s) \cup {o} ELSE Counted(s) \ {o}
<1>1. checker'[o] = x /\ \A p \in Orders \ {o} : checker'[p] = checker[p]
  BY DEF TypeOK
<1>2. QED BY <1>1 DEF Counted, OrdersOf

\* A step that only moves the checker of o on, and neither starts nor ends its count.
LEMMA MoveCounts ==
    ASSUME TypeOK, CountInv, NEW o \in Orders, NEW x \in CheckerStates \ {"faulted"},
           checker[o] \in {"recording", "waiting", "ready", "settling", "saved", "killing",
                           "completing"},
           checker' = [checker EXCEPT ![o] = x],
           UNCHANGED <<owner, tradesCount, pendingCount>>,
           checker[o] \in {"recording", "waiting", "ready"}
               <=> x \in {"recording", "waiting", "ready", "dropped"},
           \A s \in Sessions : /\ engine'[s] = "signal" => engine[s] = "signal"
                               /\ engine'[s] = "sizing" => engine[s] = "sizing"
                               /\ engine'[s] = "none" => engine[s] = "none"
                               /\ engine[s] = "dead" => engine'[s] = "dead"
    PROVE  CountInv'
<1>1. checker'[o] = x /\ \A p \in Orders \ {o} : checker'[p] = checker[p]
  BY DEF TypeOK
<1>2. OwnedInv'
  <2> SUFFICES ASSUME NEW p \in Orders
               PROVE  /\ owner[p] = 0 => checker'[p] = "none"
                      /\ owner[p] # 0 => engine'[owner[p]] # "none"
                      /\ checker'[p] # "faulted"
    BY DEF OwnedInv
  <2>1. owner[p] # 0 => owner[p] \in Sessions
    BY DEF TypeOK, Sessions
  <2>2. QED BY <1>1, <2>1 DEF OwnedInv, CountInv
<1>3. ExactInv'
  <2> SUFFICES ASSUME NEW s \in Sessions
               PROVE  Gone(s)' \/ pendingCount'[s] = Cardinality(Counted(s)')
    BY DEF ExactInv
  <2>1. Gone(s) => Gone(s)'
    BY <1>1 DEF Gone, OrdersOf
  <2>2. Counted(s)' = Counted(s)
    BY CountedAfterMove, <1>1 DEF Counted, OrdersOf
  <2>3. QED BY <2>1, <2>2 DEF CountInv, ExactInv
<1>4. BudgetInv'
  BY DEF CountInv, BudgetInv
<1>5. QED BY <1>2, <1>3, <1>4 DEF CountInv

LEMMA RecordEntryCounts ==
    ASSUME DbWorks, TypeOK, CountInv, NEW s \in Sessions, NEW o \in Orders, RecordEntry(s, o)
    PROVE  CountInv'
<1>1. /\ checker[o] = "recording" /\ checker' = [checker EXCEPT ![o] = "waiting"]
      /\ UNCHANGED <<owner, tradesCount, pendingCount>>
  BY DEF RecordEntry, DbWorks, botVars
<1>2. engine[s] = "recording" /\ engine'[s] \in {"scan", "top", "refreshing"}
      /\ \A t \in Sessions \ {s} : engine'[t] = engine[t]
  BY DEF RecordEntry, AfterAsset, EndScan, TypeOK
<1>3. QED BY <1>1, <1>2, MoveCounts DEF CheckerStates

LEMMA CheckerCounts ==
    ASSUME DbWorks, TypeOK, CountInv, NEW o \in Orders,
           CheckResult(o) \/ SettleSave(o) \/ SettleKill(o) \/ SettleLimits(o)
           \/ SettleComplete(o)
    PROVE  CountInv'
<1>1. UNCHANGED <<owner, tradesCount, pendingCount, engine>>
  BY DEF CheckResult, SettleSave, SettleKill, SettleLimits, SettleComplete, botVars, engineVars
<1>2. CASE CheckResult(o)
  <2>1. checker[o] = "waiting"
        /\ \E x \in {"ready", "dropped"} : checker' = [checker EXCEPT ![o] = x]
    BY <1>2 DEF CheckResult
  <2>2. QED BY <1>1, <2>1, MoveCounts DEF CheckerStates
<1>3. CASE ~CheckResult(o)
  <2>1. /\ checker[o] \in {"settling", "saved", "killing", "completing"}
        /\ \E x \in {"saved", "killing", "completing", "settled"} :
              checker' = [checker EXCEPT ![o] = x]
    BY <1>3 DEF SettleSave, SettleKill, SettleLimits, SettleComplete, DbWorks
  <2>2. QED BY <1>1, <2>1, MoveCounts DEF CheckerStates
<1>4. QED BY <1>2, <1>3

\* The settlement counts o out of its session and the trade in.
LEMMA SettleOpenCounts ==
    ASSUME DbWorks, TypeOK, CountInv, NEW o \in Orders, SettleOpen(o) PROVE CountInv'
<1>1. PICK s \in Sessions : s = owner[o]
  BY DEF SettleOpen, TypeOK, CountInv, OwnedInv, Sessions
<1>2. /\ checker[o] = "ready" /\ checker' = [checker EXCEPT ![o] = "settling"]
      /\ pendingCount' = [pendingCount EXCEPT ![s] = Decrement(@)]
      /\ tradesCount' = [tradesCount EXCEPT ![s] = @ + 1]
      /\ UNCHANGED <<owner, engine>>
  BY <1>1 DEF SettleOpen, DbWorks, engineVars
<1>3. checker'[o] = "settling" /\ \A p \in Orders \ {o} : checker'[p] = checker[p]
  BY <1>2 DEF TypeOK
<1>4. /\ o \in Counted(s) /\ Counted(s)' = Counted(s) \ {o}
      /\ \A t \in Sessions \ {s} : Counted(t)' = Counted(t)
  BY <1>1, <1>2, <1>3 DEF Counted, OrdersOf
<1>5. /\ pendingCount[s] = Cardinality(Counted(s)) /\ pendingCount[s] \in Nat \ {0}
      /\ Cardinality(Counted(s) \ {o}) = pendingCount[s] - 1
  <2>1. pendingCount[s] = Cardinality(Counted(s))
    BY <1>1, <1>2 DEF CountInv, ExactInv, Gone, OrdersOf
  <2>2. IsFiniteSet(Counted(s)) /\ Cardinality(Counted(s) \ {o}) = Cardinality(Counted(s)) - 1
    BY <1>4, CountedFinite, FS_RemoveElement
  <2>3. Counted(s) # {} /\ Cardinality(Counted(s)) \in Nat
    BY <1>4, CountedFinite, FS_CardinalityType
  <2>4. Cardinality(Counted(s)) # 0
    BY <2>2, <2>3, FS_EmptySet
  <2>5. QED BY <2>1, <2>2, <2>3, <2>4
<1>6. /\ pendingCount'[s] = pendingCount[s] - 1 /\ tradesCount'[s] = tradesCount[s] + 1
      /\ \A t \in Sessions \ {s} : pendingCount'[t] = pendingCount[t]
                                   /\ tradesCount'[t] = tradesCount[t]
  BY <1>2, <1>5 DEF TypeOK, Decrement
<1>7. OwnedInv'
  BY <1>1, <1>2, <1>3 DEF CountInv, OwnedInv, Sessions
<1>8. ExactInv'
  <2> SUFFICES ASSUME NEW t \in Sessions
               PROVE  Gone(t)' \/ pendingCount'[t] = Cardinality(Counted(t)')
    BY DEF ExactInv
  <2>1. CASE t = s
    BY <1>4, <1>5, <1>6, <2>1
  <2>2. CASE t # s
    <3>1. Gone(t) => Gone(t)'
      BY <1>1, <1>2, <1>3, <2>2 DEF Gone, OrdersOf
    <3>2. QED BY <1>4, <1>6, <2>2, <3>1 DEF CountInv, ExactInv
  <2>3. QED BY <2>1, <2>2
<1>9. BudgetInv'
  <2> SUFFICES ASSUME NEW t \in Sessions
               PROVE  /\ pendingCount'[t] <= MaxPending
                      /\ tradesCount'[t] + pendingCount'[t] <= MaxTrades + MaxPending
                      /\ engine[t] \in {"signal", "sizing"}
                           => tradesCount'[t] + pendingCount'[t] < MaxTrades + MaxPending
                      /\ engine[t] = "sizing" => pendingCount'[t] < MaxPending
    BY <1>2 DEF BudgetInv
  <2>1. tradesCount[t] \in Nat /\ pendingCount[t] \in Nat
    BY DEF TypeOK
  <2>2. /\ pendingCount'[t] <= pendingCount[t]
        /\ tradesCount'[t] + pendingCount'[t] = tradesCount[t] + pendingCount[t]
    BY <1>5, <1>6, <2>1
  <2>3. pendingCount'[t] \in Nat
    BY <1>5, <1>6, <2>1
  <2>4. QED BY <2>1, <2>2, <2>3, SessionAssumption DEF CountInv, BudgetInv
<1>10. QED BY <1>7, <1>8, <1>9 DEF CountInv

\* A crash ends every checker: what is counted then is counted by nobody.
LEMMA CrashCounts == ASSUME TypeOK, CountInv, Crash PROVE CountInv'
<1>1. /\ UNCHANGED <<owner, tradesCount, pendingCount>>
      /\ engine' = [s \in Sessions |-> IF Alive(s) THEN "dead" ELSE engine[s]]
  BY DEF Crash, botVars
<1>2. \A o \in Orders :
        /\ checker'[o] \notin {"recording", "waiting", "ready", "settling", "saved",
                               "killing", "completing", "faulted"}
        /\ checker[o] = "none" => checker'[o] = "none"
  BY DEF Crash
<1>3. OwnedInv'
  BY <1>1, <1>2 DEF CountInv, OwnedInv, TypeOK, Sessions, Alive
<1>4. ExactInv'
  <2> SUFFICES ASSUME NEW s \in Sessions
               PROVE  Gone(s)' \/ pendingCount'[s] = Cardinality(Counted(s)')
    BY DEF ExactInv
  <2>1. CASE engine[s] # "none"
    BY <1>1, <1>2, <2>1 DEF Gone, Alive, OrdersOf
  <2>2. CASE engine[s] = "none"
    <3>1. Counted(s) = {} /\ Counted(s)' = {}
      BY <1>1, <2>2 DEF CountInv, OwnedInv, Counted, OrdersOf, Sessions
    <3>2. QED BY <1>1, <2>2, <3>1 DEF CountInv, ExactInv, Gone
  <2>3. QED BY <2>1, <2>2
<1>5. BudgetInv'
  BY <1>1 DEF CountInv, BudgetInv, Alive
<1>6. QED BY <1>3, <1>4, <1>5 DEF CountInv

LEMMA CountStep == ASSUME DbWorks, TypeOK, CountInv, [Next]_vars PROVE CountInv'
<1>1. \A o \in Orders : ~SettleFault(o)
  BY DEF SettleFault, CountInv, OwnedInv
<1>2. QED
  BY <1>1, StepKinds, QuietCounts, BuyCounts, BuyLateCounts, RecordEntryCounts, CheckerCounts,
     SettleOpenCounts, CrashCounts DEF SettleStep, SettleAnswer

LEMMA CountInit == Init => CountInv
<1> SUFFICES ASSUME Init PROVE CountInv
  OBVIOUS
<1>1. \A s \in Sessions : Counted(s) = {} /\ pendingCount[s] = 0 /\ tradesCount[s] = 0
  BY DEF Init, Counted, OrdersOf, Sessions
<1>2. ExactInv
  BY <1>1, FS_EmptySet DEF ExactInv
<1>3. BudgetInv
  BY <1>1, SessionAssumption DEF BudgetInv, Init
<1>4. OwnedInv
  BY DEF Init, OwnedInv
<1>5. QED BY <1>2, <1>3, <1>4 DEF CountInv

LEMMA CountAlways == ASSUME DbWorks PROVE Spec => []CountInv
<1>1. TypeOK /\ CountInv /\ [Next]_vars => CountInv'
  BY CountStep
<1>2. QED BY <1>1, CountInit, TypeCorrect, PTL DEF Spec

\* strategy.py 604, 706 and 877: while the database works, pending_count is the
\* number of accepted orders without a settled result, and stays within the cap.
THEOREM PendingExactHolds == ASSUME DbWorks PROVE Spec => []PendingExact
<1>1. CountInv => PendingExact
  BY DEF CountInv, ExactInv, BudgetInv, PendingExact, Gone, Alive
<1>2. QED BY <1>1, CountAlways, PTL

\* strategy.py 612, 757 and 782: the trades of a session and its pending orders stay
\* within the limit plus the cap, although the engine reads trades_count unlocked.
THEOREM TradesBudgetHolds == ASSUME DbWorks PROVE Spec => []TradesBudget
<1>1. CountInv => TradesBudget
  BY DEF CountInv, BudgetInv, TradesBudget
<1>2. QED BY <1>1, CountAlways, PTL

=============================================================================
