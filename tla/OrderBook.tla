----------------------------- MODULE OrderBook -----------------------------
(***************************************************************************)
(* The matching engine (order-matching-engine/engine.py): two heaps with   *)
(* lazy deletion.  A heap is the set of its entries; the entry at its top  *)
(* is the one of the smallest key (price or -price, timestamp, order id).  *)
(* Keys are immutable, so an entry is its order.  cancel only marks the    *)
(* order: its entry stays in the heap, stale, until it reaches the top.    *)
(*                                                                         *)
(* Prices, quantities and timestamps are natural numbers: floating-point   *)
(* rounding of quantities is not modelled.  Each Order is submitted once.  *)
(***************************************************************************)
EXTENDS Integers, Sequences, FiniteSets, Functions

CONSTANTS Orders,           \* order ids (random in the code: any order)
          Prices, Quantities, Timestamps

ASSUME BookAssumption ==
    /\ Orders \subseteq Nat /\ Prices \subseteq Nat
    /\ Timestamps \subseteq Nat /\ Timestamps # {} /\ Prices # {}
    /\ Quantities \subseteq Nat \ {0} /\ Quantities # {}

\* An Order as a client constructs it.
OrderSpecs == [side : {"BUY", "SELL"}, price : Prices, quantity : Quantities,
               kind : {"LIMIT", "MARKET"}, timestamp : Timestamps]

Statuses == {"NEW",         \* not submitted yet
             "OPEN", "PARTIAL", "FILLED", "CANCELLED"}

NoOrder == -1

\* The terms an order has in the model before it is submitted: never looked at.
Unsubmitted == CHOOSE t \in OrderSpecs : TRUE

VARIABLES
    terms,          \* side, price, quantity, type and timestamp of each order
    filled,         \* filled_qty
    status,
    bids, asks,     \* the heaps: orders that have an entry
    trades,         \* the list of trades
    taker           \* the order inside submit, NoOrder between calls

vars == <<terms, filled, status, bids, asks, trades, taker>>

Init ==
    /\ terms = [o \in Orders |-> Unsubmitted]
    /\ filled = [o \in Orders |-> 0]
    /\ status = [o \in Orders |-> "NEW"]
    /\ bids = {} /\ asks = {} /\ trades = <<>> /\ taker = NoOrder

-----------------------------------------------------------------------------

IsBuy(o) == terms[o].side = "BUY"
Remaining(o) == terms[o].quantity - filled[o]

StaleIfFilled(o) == status[o] = "FILLED"
Stale(o) == status[o] \in {"FILLED", "CANCELLED"}

\* Heap order of two entries of the same side: (-price, timestamp, id) for
\* bids, (price, timestamp, id) for asks.
KeyLessNoTime(a, b) ==
    LET p == IF IsBuy(a) THEN -terms[a].price ELSE terms[a].price
        q == IF IsBuy(a) THEN -terms[b].price ELSE terms[b].price
    IN p < q \/ (p = q /\ a < b)

KeyLess(a, b) ==
    LET p == IF IsBuy(a) THEN -terms[a].price ELSE terms[a].price
        q == IF IsBuy(a) THEN -terms[b].price ELSE terms[b].price
    IN \/ p < q
       \/ p = q /\ terms[a].timestamp < terms[b].timestamp
       \/ p = q /\ terms[a].timestamp = terms[b].timestamp /\ a < b

\* book[0].
IsTop(r, book) == r \in book /\ \A x \in book \ {r} : KeyLess(r, x)

\* The heap an incoming order is matched against.
Against(o) == IF IsBuy(o) THEN asks ELSE bids

\* heappop of the top entry r of the heap that o is matched against.
PopNothing(o, r) == UNCHANGED <<bids, asks>>
Pop(o, r) == IF IsBuy(o) THEN asks' = asks \ {r} /\ UNCHANGED bids
                         ELSE bids' = bids \ {r} /\ UNCHANGED asks

\* The price test of a limit order: the loop breaks when it fails.
PriceOkStrict(o, r) ==
    \/ terms[o].kind = "MARKET"
    \/ IF IsBuy(o) THEN terms[r].price < terms[o].price
                   ELSE terms[r].price > terms[o].price

PriceOk(o, r) ==
    \/ terms[o].kind = "MARKET"
    \/ IF IsBuy(o) THEN terms[r].price <= terms[o].price
                   ELSE terms[r].price >= terms[o].price

\* The fill quantity.
FillQtyTaker(o, r) == Remaining(o)
FillQty(o, r) == IF Remaining(o) < Remaining(r) THEN Remaining(o)
                                                ELSE Remaining(r)

\* Order.fill: the status after a fill that leaves a remainder.
StatusAfterFill(remainder) == IF remainder <= 0 THEN "FILLED" ELSE "PARTIAL"

-----------------------------------------------------------------------------

Submit(o) ==
    /\ taker = NoOrder /\ status[o] = "NEW"
    /\ \E t \in OrderSpecs : terms' = [terms EXCEPT ![o] = t]
    /\ status' = [status EXCEPT ![o] = "OPEN"]
    /\ taker' = o
    /\ UNCHANGED <<filled, bids, asks, trades>>

\* One iteration of the matching loop whose top entry is stale.
DropStale(o, r) ==
    /\ taker = o /\ Remaining(o) > 0
    /\ IsTop(r, Against(o)) /\ PriceOk(o, r)
    /\ Stale(r)
    /\ Pop(o, r)
    /\ UNCHANGED <<terms, filled, status, trades, taker>>

TradeOf(o, r, n) == [buy |-> IF IsBuy(o) THEN o ELSE r,
                     sell |-> IF IsBuy(o) THEN r ELSE o,
                     price |-> terms[r].price, quantity |-> n]

\* One iteration of the matching loop that trades.
Fill(o, r) ==
    /\ taker = o /\ Remaining(o) > 0
    /\ IsTop(r, Against(o)) /\ PriceOk(o, r)
    /\ ~Stale(r)
    /\ LET n == FillQty(o, r)
       IN /\ filled' = [filled EXCEPT ![o] = @ + n, ![r] = @ + n]
          /\ status' = [status EXCEPT
                ![o] = StatusAfterFill(Remaining(o) - n),
                ![r] = StatusAfterFill(Remaining(r) - n)]
          /\ trades' = Append(trades, TradeOf(o, r, n))
          /\ IF Remaining(r) - n <= 0 THEN Pop(o, r)
                                      ELSE UNCHANGED <<bids, asks>>
    /\ UNCHANGED <<terms, taker>>

\* The loop ends; a limit remainder rests.
RestLimit(o) ==
    /\ taker = o /\ terms[o].kind = "LIMIT"
    /\ \/ Remaining(o) <= 0
       \/ Against(o) = {}
       \/ \E r \in Against(o) : IsTop(r, Against(o)) /\ ~PriceOk(o, r)
    /\ IF Remaining(o) <= 0 THEN UNCHANGED <<bids, asks>>
       ELSE IF IsBuy(o) THEN bids' = bids \cup {o} /\ UNCHANGED asks
                        ELSE asks' = asks \cup {o} /\ UNCHANGED bids
    /\ taker' = NoOrder
    /\ UNCHANGED <<terms, filled, status, trades>>

\* The loop ends; a market remainder is killed.
KillMarketOpen(o) ==
    /\ taker = o /\ terms[o].kind = "MARKET"
    /\ Remaining(o) <= 0 \/ Against(o) = {}
    /\ taker' = NoOrder
    /\ UNCHANGED <<terms, filled, status, bids, asks, trades>>

KillMarket(o) ==
    /\ taker = o /\ terms[o].kind = "MARKET"
    /\ Remaining(o) <= 0 \/ Against(o) = {}
    /\ status' = IF Remaining(o) > 0
                   THEN [status EXCEPT ![o] = "CANCELLED"] ELSE status
    /\ taker' = NoOrder
    /\ UNCHANGED <<terms, filled, bids, asks, trades>>

\* cancel of an order that is neither filled nor cancelled.
Cancel(o) ==
    /\ taker = NoOrder /\ status[o] \in {"OPEN", "PARTIAL"}
    /\ status' = [status EXCEPT ![o] = "CANCELLED"]
    /\ UNCHANGED <<terms, filled, bids, asks, trades, taker>>

\* What _best_bid and _best_ask leave of a heap: stale entries are popped
\* until a live one is at the top.
PrunedOnce(book) == {o \in book : ~(IsTop(o, book) /\ Stale(o))}
Pruned(book) ==
    {o \in book : \E l \in book : ~Stale(l) /\ (l = o \/ KeyLess(l, o))}

\* spread (and __repr__): both sides are pruned.
Spread ==
    /\ taker = NoOrder
    /\ bids' = Pruned(bids) /\ asks' = Pruned(asks)
    /\ UNCHANGED <<terms, filled, status, trades, taker>>

Matching(o) == \/ RestLimit(o) \/ KillMarket(o)
               \/ \E r \in Orders : DropStale(o, r) \/ Fill(o, r)

Next == \/ \E o \in Orders : Submit(o) \/ Cancel(o) \/ Matching(o)
        \/ Spread

Spec == Init /\ [][Next]_vars

\* submit is one sequential call: it keeps running until it returns.
FairSpec == Spec /\ \A o \in Orders : WF_vars(Matching(o))

-----------------------------------------------------------------------------
(* depth(levels) reads the book.                                           *)

Live(book) == {o \in book : ~Stale(o)}

\* The loop of depth goes on after it has seen n prices.
MoreEarly(n, levels) == n < levels
More(n, levels) == n <= levels

\* The live entries depth adds up, in heap order.
Visited(book, levels) ==
    {o \in Live(book) :
        More(Cardinality({terms[x].price : x \in {y \in Live(book) : KeyLess(y, o)}}),
             levels)}

QuantityAt(orders, p) ==
    SumFunctionOnSet([o \in orders |-> Remaining(o)], {o \in orders : terms[o].price = p})

\* The dictionary of one side: quantity per price.
Depth(book, levels) ==
    LET seen == Visited(book, levels)
    IN [p \in {terms[o].price : o \in seen} |-> QuantityAt(seen, p)]

-----------------------------------------------------------------------------
(* Properties.                                                             *)

\* The book is never crossed, not even while an order is being matched: every
\* live bid is below every live ask.
NotCrossed ==
    \A b \in Live(bids), a \in Live(asks) : terms[b].price < terms[a].price

\* Between calls an order is open in the client's eyes exactly when it can
\* still trade: a limit order with a remainder and an entry in its own heap.
LiveOrdersRest ==
    taker = NoOrder =>
        \A o \in Orders :
            status[o] \in {"OPEN", "PARTIAL"} <=>
                /\ o \in Live(IF IsBuy(o) THEN bids ELSE asks)
                /\ terms[o].kind = "LIMIT" /\ Remaining(o) > 0

\* The trades account for every fill: what an order reports as filled is the
\* sum of its trades and never more than it asked for.
Traded(o) ==
    SumFunctionOnSet([n \in DOMAIN trades |-> trades[n].quantity],
                     {n \in DOMAIN trades : o \in {trades[n].buy, trades[n].sell}})

FillsAccounted ==
    \A o \in Orders : /\ filled[o] = Traded(o)
                      /\ filled[o] <= terms[o].quantity

\* A quote is the best live order of its side: pruning loses no live order and
\* leaves none but a live one at the top.
QuotesBest ==
    [][Spread => \A b \in {<<bids, bids'>>, <<asks, asks'>>} :
          /\ Live(b[1]) = Live(b[2])
          /\ \A r \in b[2] : IsTop(r, b[2]) => ~Stale(r)]_vars

\* What depth shows of one side.  The first levels carry all the live quantity that
\* rests at them.  Where the book has more prices one level too many follows, with the
\* quantity of its oldest order only: the loop stops behind the first entry of that
\* price.  No other price is shown.
DepthIsTop(levels) ==
    \A book \in {bids, asks} :
        LET d == Depth(book, levels)
            rank(o) == Cardinality({terms[x].price : x \in
                          {y \in Live(book) : /\ terms[y].price # terms[o].price
                                              /\ KeyLess(y, o)}})
            oldest(o) == \A x \in Live(book) :
                            terms[x].price = terms[o].price => ~KeyLess(x, o)
        IN /\ DOMAIN d \subseteq {terms[o].price : o \in Live(book)}
           /\ \A o \in Live(book) :
                /\ rank(o) < levels =>
                     /\ terms[o].price \in DOMAIN d
                     /\ d[terms[o].price] = QuantityAt(Live(book), terms[o].price)
                /\ rank(o) = levels /\ oldest(o) =>
                     /\ terms[o].price \in DOMAIN d
                     /\ d[terms[o].price] = Remaining(o)
                /\ rank(o) > levels => terms[o].price \notin DOMAIN d

\* engine.py 229-248, whose docstring says "Return top N levels of the book": these are
\* complete, and an incomplete one follows them.
DepthShows == \A levels \in 1..2 : DepthIsTop(levels)

\* submit returns.
SubmitReturns == \A o \in Orders : taker = o ~> taker = NoOrder

\* The heaps with lazy deletion implement the book of live orders.
PTB == INSTANCE PriceTimeBook WITH
           incoming <- taker,
           accepted <- {o \in Orders : status[o] # "NEW"},
           resting <- {o \in bids \cup asks : ~Stale(o)}

ImplementsPriceTimeBook == PTB!Spec

=============================================================================
