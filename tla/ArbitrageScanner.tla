-------------------------- MODULE ArbitrageScanner --------------------------
(* The scanner of crypto-arbitrage-scanner/scanner.py: scan_once asks all     *)
(* exchanges at once, whose answers come in any order and move the price they *)
(* report, and compares every two quotes when the last answer is there. Prices *)
(* are integers in units of 1 / BASIS, so that a quote is exact.              *)
EXTENDS Integers, FiniteSets

CONSTANTS Exchanges,     \* self.exchanges
          Mids,          \* prices an exchange may drift to
          BasePrice,     \* member of Mids
          Bps,           \* half spread of each exchange, in 1 / BASIS
          BASIS,         \* 10000 in the code
          MIN_EDGE,      \* percent
          MaxScans       \* bound: cycles of run()

ASSUME ScannerAssumption == /\ IsFiniteSet(Exchanges) /\ Exchanges # {}
                            /\ Mids \subseteq Nat /\ BasePrice \in Mids
                            /\ BASIS \in Nat /\ \A e \in Exchanges : Bps[e] \in 0 .. BASIS
                            /\ MIN_EDGE \in Nat

VARIABLES mid,           \* _current_mid of each exchange
          ticks,         \* the quotes of this scan that have come
          scanCount,     \* _scan_count
          opportunities  \* all that were found, with the scan they are of

scannerVars == <<mid, ticks, scanCount, opportunities>>

ScannerInit == /\ mid = [e \in Exchanges |-> BasePrice]
               /\ ticks = [e \in {} |-> 0]
               /\ scanCount = 0
               /\ opportunities = {}

\* fetch_price(): the price moves before it is quoted.
TickBefore(e, m) == [bid |-> mid[e] * (BASIS - Bps[e]), ask |-> mid[e] * (BASIS + Bps[e])]

Tick(e, m) == [bid |-> m * (BASIS - Bps[e]), ask |-> m * (BASIS + Bps[e])]

FetchPrice(e, m) ==
  /\ scanCount < MaxScans /\ e \notin DOMAIN ticks
  /\ mid' = [mid EXCEPT ![e] = m]
  /\ ticks' = [f \in DOMAIN ticks \cup {e} |-> IF f = e THEN Tick(e, m) ELSE ticks[f]]
  /\ UNCHANGED <<scanCount, opportunities>>

\* What is bought at i's ask and sold at j's bid.
Pays(buy, sell) == sell.bid > buy.ask /\ 100 * (sell.bid - buy.ask) >= MIN_EDGE * buy.ask

\* The ordered pairs of exchanges that the two loops visit.
Pairs == {p \in Exchanges \X Exchanges : p[1] # p[2]}

Opportunity(p) == [scan |-> scanCount + 1, buy |-> p[1], sell |-> p[2],
                   ask |-> ticks[p[1]].ask, bid |-> ticks[p[2]].bid]

Found == {Opportunity(p) : p \in {q \in Pairs : Pays(ticks[q[1]], ticks[q[2]])}}

\* gather() returns.
Compare ==
  /\ DOMAIN ticks = Exchanges
  /\ scanCount' = scanCount + 1
  /\ opportunities' = opportunities \cup Found
  /\ ticks' = [e \in {} |-> 0]
  /\ UNCHANGED mid

ScannerNext == Compare \/ \E e \in Exchanges, m \in Mids : FetchPrice(e, m)

ScannerSpec == ScannerInit /\ [][ScannerNext]_scannerVars

----------------------------------------------------------------------------
(* Properties *)

Quote(e) == Tick(e, mid[e])
OfScan(n) == {o \in opportunities : o.scan = n}

\* scanner.py 62-114: behind a scan, prices move only with the next one: it has found
\* something exactly when the highest bid any exchange still quotes pays against the
\* lowest ask, and that pair is the best it has found.
BestPairIsFound ==
  scanCount > 0 /\ DOMAIN ticks = {} =>
    LET high == CHOOSE e \in Exchanges : \A f \in Exchanges : Quote(e).bid >= Quote(f).bid
        low == CHOOSE e \in Exchanges : \A f \in Exchanges : Quote(e).ask <= Quote(f).ask
        found == OfScan(scanCount)
    IN /\ found # {} <=> Pays(Quote(low), Quote(high))
       /\ found # {} => \E o \in found : o.ask = Quote(low).ask /\ o.bid = Quote(high).bid

\* scanner.py 62-73 and 94-100: the trades of one scan lead uphill: whoever goes on from
\* where one of them sold sells higher, so no scan sends its reader in a circle.
TradesLeadUphill ==
  \A n \in 1 .. scanCount : \A o, p \in OfScan(n) : o.sell = p.buy => p.bid > o.bid

\* scanner.py 62-114: what the scans report is what the quotes offered.
ScansAgree == BestPairIsFound /\ TradesLeadUphill
=============================================================================
