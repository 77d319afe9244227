-------------------------- MODULE OrderBook_proofs --------------------------
EXTENDS OrderBook, SetSums, TLAPS

(***************************************************************************)
(* The inductive invariant.  NotCrossed alone does not survive a step: an  *)
(* order rests only when the top of the other heap fails the price test,   *)
(* and that says something of the whole heap because the heap is ordered,  *)
(* holds orders of one side only, and never holds the order being matched. *)
(***************************************************************************)

\* Each heap holds limit orders of its own side that have been submitted and,
\* while live, have something left; the order being matched is in neither.
HeapsInv ==
    /\ \A o \in bids : IsBuy(o) /\ terms[o].kind = "LIMIT"
    /\ \A o \in asks : ~IsBuy(o) /\ terms[o].kind = "LIMIT"
    /\ \A o \in bids \cup asks : /\ status[o] # "NEW" /\ o # taker
                                 /\ ~Stale(o) => Remaining(o) > 0

\* What the status of an order says of its fills and of its place.
StatusInv ==
    /\ \A o \in Orders :
         /\ filled[o] <= terms[o].quantity
         /\ status[o] = "NEW" => filled[o] = 0 /\ o # taker
         /\ status[o] \in {"OPEN", "PARTIAL"} => o = taker \/ o \in bids \cup asks
    /\ taker # NoOrder => (Stale(taker) <=> Remaining(taker) <= 0)

BookTypes ==
    /\ terms \in [Orders -> OrderSpecs]
    /\ filled \in [Orders -> Nat]
    /\ status \in [Orders -> Statuses]
    /\ bids \subseteq Orders /\ asks \subseteq Orders
    /\ taker \in Orders \cup {NoOrder}

BookInv == BookTypes /\ HeapsInv /\ StatusInv /\ NotCrossed

\* An order is never the placeholder for no order.
LEMMA NoOrderIsNone == NoOrder \notin Orders
BY BookAssumption DEF NoOrder

\* The terms of an order are numbers.
LEMMA TermTypes ==
    ASSUME BookTypes, NEW o \in Orders
    PROVE  /\ terms[o].price \in Int /\ terms[o].timestamp \in Int
           /\ terms[o].quantity \in Nat \ {0} /\ filled[o] \in Nat
           /\ Remaining(o) \in Int
           /\ terms[o].kind \in {"LIMIT", "MARKET"}
           /\ terms[o].side \in {"BUY", "SELL"}
<1>1. terms[o] \in OrderSpecs /\ filled[o] \in Nat BY DEF BookTypes
<1>2. /\ terms[o].price \in Prices /\ terms[o].timestamp \in Timestamps
      /\ terms[o].quantity \in Quantities /\ terms[o].kind \in {"LIMIT", "MARKET"}
      /\ terms[o].side \in {"BUY", "SELL"}
  BY <1>1 DEF OrderSpecs
<1>3. /\ terms[o].price \in Int /\ terms[o].timestamp \in Int
      /\ terms[o].quantity \in Nat \ {0}
  <2>1. Prices \subseteq Nat /\ Timestamps \subseteq Nat /\ Quantities \subseteq Nat \ {0}
    BY BookAssumption, Zenon
  <2>2. terms[o].quantity \in Nat \ {0} BY <1>2, <2>1, Zenon
  <2>3. terms[o].price \in Nat /\ terms[o].timestamp \in Nat BY <1>2, <2>1, Zenon
  <2>4. Nat \subseteq Int OBVIOUS
  <2> QED BY <2>2, <2>3, <2>4, Zenon
<1>4. Remaining(o) \in Int BY <1>1, <1>3 DEF Remaining
<1> QED BY <1>1, <1>2, <1>3, <1>4

\* If the top of the heap fails the price test, so does every entry: the loop
\* may stop at the first one.
LEMMA TopDecides ==
    ASSUME BookTypes, HeapsInv, NEW o \in Orders, NEW r \in Against(o),
           IsTop(r, Against(o)), ~PriceOk(o, r), NEW x \in Against(o)
    PROVE  ~PriceOk(o, x)
<1>1. r \in Orders /\ x \in Orders BY DEF Against, BookTypes
<1>2. /\ terms[o].price \in Int /\ terms[r].price \in Int /\ terms[x].price \in Int
  BY <1>1, TermTypes
<1>3. CASE x = r BY <1>3
<1>4. CASE x # r
  <2>1. KeyLess(r, x) BY <1>4 DEF IsTop
  <2>2. CASE IsBuy(o)
    <3>1. ~IsBuy(r) BY <2>2 DEF Against, HeapsInv
    <3> QED BY <2>1, <2>2, <3>1, <1>2 DEF KeyLess, PriceOk
  <2>3. CASE ~IsBuy(o)
    <3>1. IsBuy(r) BY <2>3 DEF Against, HeapsInv
    <3> QED BY <2>1, <2>3, <3>1, <1>2 DEF KeyLess, PriceOk
  <2> QED BY <2>2, <2>3
<1> QED BY <1>3, <1>4

\* A fill moves a positive quantity that neither order lacks, and exhausts one
\* of the two.
LEMMA FillQtyFits ==
    ASSUME BookTypes, NEW o \in Orders, NEW r \in Orders,
           Remaining(o) > 0, Remaining(r) > 0
    PROVE  /\ FillQty(o, r) \in Nat \ {0}
           /\ FillQty(o, r) <= Remaining(o) /\ FillQty(o, r) <= Remaining(r)
BY TermTypes DEF FillQty

-----------------------------------------------------------------------------

\* Submission: the new order is in no heap, so the heaps are as they were.
LEMMA SubmitKeeps ==
    ASSUME BookInv, NEW o \in Orders, Submit(o) PROVE BookInv'
<1>1. o \notin bids \cup asks BY DEF BookInv, HeapsInv, Submit
<1>2. BookTypes' BY DEF BookInv, BookTypes, Submit, Statuses
<1>3. \A x \in Orders \ {o} : terms'[x] = terms[x] /\ status'[x] = status[x]
  BY DEF BookInv, BookTypes, Submit
<1>4. filled' = filled /\ bids' = bids /\ asks' = asks /\ taker' = o /\ status'[o] = "OPEN"
  BY DEF BookInv, BookTypes, Submit
<1>5. terms'[o].quantity \in Nat \ {0} /\ filled[o] = 0
  <2>1. terms'[o] \in OrderSpecs BY DEF BookInv, BookTypes, Submit
  <2> QED BY <2>1, BookAssumption DEF OrderSpecs, BookInv, StatusInv, Submit
<1>6. HeapsInv'
  BY <1>1, <1>3, <1>4 DEF BookInv, BookTypes, HeapsInv, IsBuy, Remaining, Stale
<1>7. StatusInv'
  <2>1. taker = NoOrder BY DEF Submit
  <2>2. \A x \in Orders : x # taker BY <2>1, NoOrderIsNone
  <2>3. Remaining(o)' > 0 /\ ~Stale(o)' BY <1>4, <1>5 DEF Remaining, Stale
  <2>4. \A x \in Orders \ {o} :
          /\ filled'[x] <= terms'[x].quantity
          /\ status'[x] = "NEW" => filled'[x] = 0 /\ x # taker'
          /\ status'[x] \in {"OPEN", "PARTIAL"} => x = taker' \/ x \in bids' \cup asks'
    BY <1>3, <1>4, <2>2 DEF BookInv, StatusInv
  <2>5. filled'[o] <= terms'[o].quantity BY <1>4, <1>5
  <2>6. ~(Remaining(o)' <= 0)
    BY <1>2, <1>4, <1>5 DEF Remaining
  <2> QED BY <1>4, <2>3, <2>4, <2>5, <2>6 DEF StatusInv, Remaining, Stale
<1>8. NotCrossed'
  <2>1. \A x \in bids \cup asks :
          x \in Orders /\ x # o /\ terms'[x] = terms[x] /\ status'[x] = status[x]
    BY <1>1, <1>3 DEF BookInv, BookTypes
  <2> QED BY <1>4, <2>1 DEF BookInv, NotCrossed, Live, Stale
<1> QED BY <1>2, <1>6, <1>7, <1>8 DEF BookInv

\* A stale entry leaves a heap: fewer entries, nothing else.
LEMMA DropStaleKeeps ==
    ASSUME BookInv, NEW o \in Orders, NEW r \in Orders, DropStale(o, r)
    PROVE  BookInv'
<1>1. /\ bids' \subseteq bids /\ asks' \subseteq asks
      /\ UNCHANGED <<terms, filled, status, taker>>
      /\ bids \cup asks \subseteq bids' \cup asks' \cup {r} /\ Stale(r)
  BY DEF DropStale, Pop
<1>2. \A x \in Orders : status[x] \in {"OPEN", "PARTIAL"} => x # r
  BY <1>1 DEF Stale
<1> QED BY <1>1, <1>2 DEF BookInv, BookTypes, HeapsInv, StatusInv, NotCrossed, Live,
                          Stale, IsBuy, Remaining

\* A trade between the incoming order and the top of the other heap.
LEMMA FillKeeps ==
    ASSUME BookInv, NEW o \in Orders, NEW r \in Orders, Fill(o, r)
    PROVE  BookInv'
<1> DEFINE n == FillQty(o, r)
<1>1. /\ r \in bids \cup asks /\ o = taker /\ o # r /\ Remaining(o) > 0 /\ Remaining(r) > 0
      /\ ~Stale(r) /\ ~Stale(o)
  <2>1. r \in bids \cup asks /\ o = taker /\ Remaining(o) > 0 /\ ~Stale(r)
    BY DEF Fill, IsTop, Against
  <2>2. o # r /\ Remaining(r) > 0 BY <2>1 DEF BookInv, HeapsInv
  <2>3. Remaining(o) \in Int BY TermTypes DEF BookInv
  <2>4. ~Stale(o) BY <2>1, <2>3, NoOrderIsNone DEF BookInv, StatusInv
  <2> QED BY <2>1, <2>2, <2>4
<1>2. n \in Nat \ {0} /\ n <= Remaining(o) /\ n <= Remaining(r)
  BY <1>1, FillQtyFits DEF BookInv
<1>3. /\ filled[o] \in Nat /\ filled[r] \in Nat
      /\ terms[o].quantity \in Nat /\ terms[r].quantity \in Nat
  BY TermTypes DEF BookInv
<1>4. /\ filled' = [filled EXCEPT ![o] = @ + n, ![r] = @ + n]
      /\ status' = [status EXCEPT ![o] = StatusAfterFill(Remaining(o) - n),
                                  ![r] = StatusAfterFill(Remaining(r) - n)]
      /\ terms' = terms /\ taker' = taker
      /\ IF Remaining(r) - n <= 0 THEN Pop(o, r) ELSE UNCHANGED <<bids, asks>>
  BY DEF Fill
<1>5. /\ filled'[o] = filled[o] + n /\ filled'[r] = filled[r] + n
      /\ status'[o] = StatusAfterFill(Remaining(o) - n)
      /\ status'[r] = StatusAfterFill(Remaining(r) - n)
      /\ \A x \in Orders \ {o, r} : filled'[x] = filled[x] /\ status'[x] = status[x]
  BY <1>1, <1>4 DEF BookInv, BookTypes
<1>6. BookTypes'
  <2>1. bids' \subseteq Orders /\ asks' \subseteq Orders
    BY <1>4 DEF BookInv, BookTypes, Pop
  <2>2. filled' \in [Orders -> Nat]
    BY <1>2, <1>3, <1>4 DEF BookInv, BookTypes
  <2>3. status' \in [Orders -> Statuses]
    BY <1>4 DEF BookInv, BookTypes, StatusAfterFill, Statuses
  <2> QED BY <1>4, <2>1, <2>2, <2>3 DEF BookInv, BookTypes
<1>7. /\ bids' \subseteq bids /\ asks' \subseteq asks
      /\ bids \cup asks \subseteq bids' \cup asks' \cup {r}
      /\ Remaining(r) - n <= 0 \/ (bids' = bids /\ asks' = asks)
  BY <1>4 DEF Pop
<1>8. /\ Remaining(o)' = Remaining(o) - n /\ Remaining(r)' = Remaining(r) - n
      /\ \A x \in Orders \ {o, r} : Remaining(x)' = Remaining(x) /\ (Stale(x)' <=> Stale(x))
  <2>1. /\ Remaining(o)' = terms[o].quantity - (filled[o] + n)
        /\ Remaining(r)' = terms[r].quantity - (filled[r] + n)
        /\ \A x \in Orders \ {o, r} : Remaining(x)' = Remaining(x)
    BY <1>4, <1>5 DEF Remaining
  <2>2. /\ terms[o].quantity - (filled[o] + n) = Remaining(o) - n
        /\ terms[r].quantity - (filled[r] + n) = Remaining(r) - n
    BY <1>2, <1>3 DEF Remaining
  <2>3. \A x \in Orders \ {o, r} : Stale(x)' <=> Stale(x) BY <1>5 DEF Stale
  <2> QED BY <2>1, <2>2, <2>3
<1>9. /\ Stale(o)' <=> Remaining(o)' <= 0
      /\ Stale(r)' <=> Remaining(r)' <= 0
      /\ status'[o] \in {"PARTIAL", "FILLED"} /\ status'[r] \in {"PARTIAL", "FILLED"}
  BY <1>5, <1>8 DEF StatusAfterFill, Stale
<1>10. Remaining(r)' \in Int /\ Remaining(o)' \in Int
  BY <1>2, <1>3, <1>8 DEF Remaining
<1>11. HeapsInv'
  <2>1. \A x \in bids' : IsBuy(x)' /\ terms'[x].kind = "LIMIT"
    BY <1>4, <1>7 DEF BookInv, HeapsInv, IsBuy
  <2>2. \A x \in asks' : ~IsBuy(x)' /\ terms'[x].kind = "LIMIT"
    BY <1>4, <1>7 DEF BookInv, HeapsInv, IsBuy
  <2>3. \A x \in bids' \cup asks' : status'[x] # "NEW" /\ x # taker'
    BY <1>4, <1>5, <1>7, <1>9 DEF BookInv, HeapsInv, BookTypes
  <2>4. ASSUME NEW x \in bids' \cup asks', ~Stale(x)' PROVE Remaining(x)' > 0
    <3>1. x \in bids \cup asks /\ x # o /\ x \in Orders
      BY <1>1, <1>7 DEF BookInv, HeapsInv, BookTypes
    <3>2. CASE x = r BY <2>4, <3>2, <1>9, <1>10
    <3>3. CASE x # r BY <2>4, <3>1, <3>3, <1>8 DEF BookInv, HeapsInv
    <3> QED BY <3>2, <3>3
  <2> QED BY <2>1, <2>2, <2>3, <2>4 DEF HeapsInv
<1>12. StatusInv'
  <2>1. ASSUME NEW x \in Orders
        PROVE  /\ filled'[x] <= terms'[x].quantity
               /\ status'[x] = "NEW" => filled'[x] = 0 /\ x # taker'
               /\ status'[x] \in {"OPEN", "PARTIAL"} => x = taker' \/ x \in bids' \cup asks'
    <3>1. CASE x = o BY <1>1, <1>2, <1>3, <1>4, <1>5, <1>9, <3>1 DEF Remaining
    <3>2. CASE x = r
      <4>1. filled'[r] <= terms'[r].quantity BY <1>2, <1>3, <1>4, <1>5 DEF Remaining
      <4>2. status'[r] = "PARTIAL" => ~(Remaining(r) - n <= 0)
        BY <1>5 DEF StatusAfterFill
      <4> QED BY <1>1, <1>7, <1>9, <3>2, <4>1, <4>2
    <3>3. CASE x \notin {o, r}
      BY <1>4, <1>5, <1>7, <3>3 DEF BookInv, StatusInv
    <3> QED BY <3>1, <3>2, <3>3
  <2> QED BY <2>1, <1>1, <1>4, <1>9 DEF StatusInv, Remaining, Stale
<1>13. NotCrossed'
  <2>1. \A x \in bids' \cup asks' : ~Stale(x)' => ~Stale(x) /\ x \in bids \cup asks
    BY <1>1, <1>7, <1>8 DEF BookInv, BookTypes, HeapsInv
  <2> QED BY <1>4, <1>7, <2>1 DEF BookInv, NotCrossed, Live, Stale
<1> QED BY <1>6, <1>11, <1>12, <1>13 DEF BookInv

\* A remainder rests only below, or above, the whole other side.
LEMMA RestLimitKeeps ==
    ASSUME BookInv, NEW o \in Orders, RestLimit(o) PROVE BookInv'
<1>1. /\ UNCHANGED <<terms, filled, status>> /\ taker = o /\ taker' = NoOrder
      /\ terms[o].kind = "LIMIT"
  BY DEF RestLimit
<1>2. Remaining(o) \in Int /\ (Stale(o) <=> Remaining(o) <= 0) /\ status[o] # "NEW"
  BY <1>1, TermTypes, NoOrderIsNone DEF BookInv, StatusInv
<1>3. CASE Remaining(o) <= 0
  <2>1. UNCHANGED <<bids, asks>> BY <1>3 DEF RestLimit
  <2> QED BY <1>1, <1>2, <1>3, <2>1, NoOrderIsNone
          DEF BookInv, BookTypes, HeapsInv, StatusInv, NotCrossed, Live, Stale, IsBuy, Remaining
<1>4. CASE ~(Remaining(o) <= 0)
  <2>1. \A x \in Against(o) : ~PriceOk(o, x)
    BY <1>4, TopDecides DEF RestLimit, BookInv
  <2>2. IF IsBuy(o) THEN bids' = bids \cup {o} /\ asks' = asks
                    ELSE asks' = asks \cup {o} /\ bids' = bids
    BY <1>4 DEF RestLimit
  <2>3. BookTypes' BY <1>1, <2>2 DEF BookInv, BookTypes
  <2>4. HeapsInv'
    <3>1. \A x \in Orders : x # taker' BY <1>1, NoOrderIsNone
    <3> QED BY <1>1, <1>2, <1>4, <2>2, <3>1
            DEF BookInv, BookTypes, HeapsInv, Stale, IsBuy, Remaining
  <2>5. StatusInv'
    <3>1. \A x \in Orders : x # taker' BY <1>1, NoOrderIsNone
    <3>2. bids' \cup asks' = bids \cup asks \cup {o} BY <2>2
    <3> QED BY <1>1, <3>1, <3>2 DEF BookInv, StatusInv, Stale, Remaining
  <2>6. NotCrossed'
    <3>1. \A x \in Orders : terms[x].price \in Int BY TermTypes DEF BookInv
    <3>2. CASE IsBuy(o)
      <4>1. \A a \in asks : terms[o].price < terms[a].price
        BY <2>1, <3>1, <3>2, <1>1 DEF Against, PriceOk, BookInv, BookTypes
      <4> QED BY <1>1, <2>2, <3>2, <4>1 DEF BookInv, NotCrossed, Live, Stale
    <3>3. CASE ~IsBuy(o)
      <4>1. \A b \in bids : terms[b].price < terms[o].price
        BY <2>1, <3>1, <3>3, <1>1 DEF Against, PriceOk, BookInv, BookTypes
      <4> QED BY <1>1, <2>2, <3>3, <4>1 DEF BookInv, NotCrossed, Live, Stale
    <3> QED BY <3>2, <3>3
  <2> QED BY <2>3, <2>4, <2>5, <2>6 DEF BookInv
<1> QED BY <1>3, <1>4

\* A market remainder is killed, and never rests.
LEMMA KillMarketKeeps ==
    ASSUME BookInv, NEW o \in Orders, KillMarket(o) PROVE BookInv'
<1>1. /\ UNCHANGED <<terms, filled, bids, asks>> /\ taker = o /\ taker' = NoOrder
      /\ o \notin bids \cup asks
  BY DEF KillMarket, BookInv, HeapsInv
<1>2. \A x \in Orders : x # taker' BY <1>1, NoOrderIsNone
<1>3. /\ Remaining(o) \in Int /\ (Stale(o) <=> Remaining(o) <= 0) /\ status[o] # "NEW"
      /\ o \in Orders
  BY <1>1, TermTypes, NoOrderIsNone DEF BookInv, StatusInv
<1>4. /\ Stale(o)' /\ status'[o] \in Statuses \ {"NEW", "OPEN", "PARTIAL"}
      /\ \A x \in Orders \ {o} : status'[x] = status[x]
      /\ status' \in [Orders -> Statuses]
  BY <1>3 DEF KillMarket, BookInv, BookTypes, Stale, Statuses
<1>5. BookTypes' BY <1>1, <1>4 DEF BookInv, BookTypes
<1>6. HeapsInv'
  BY <1>1, <1>2, <1>4 DEF BookInv, BookTypes, HeapsInv, Stale, IsBuy, Remaining
<1>7. StatusInv'
  BY <1>1, <1>2, <1>4 DEF BookInv, StatusInv
<1>8. NotCrossed'
  BY <1>1, <1>4 DEF BookInv, BookTypes, NotCrossed, Live, Stale
<1> QED BY <1>5, <1>6, <1>7, <1>8 DEF BookInv

\* A cancelled order keeps its entry, which is now stale.
LEMMA CancelKeeps ==
    ASSUME BookInv, NEW o \in Orders, Cancel(o) PROVE BookInv'
<1>1. /\ UNCHANGED <<terms, filled, bids, asks, taker>> /\ taker = NoOrder
      /\ status' = [status EXCEPT ![o] = "CANCELLED"] /\ status[o] # "NEW"
  BY DEF Cancel
<1>2. /\ status'[o] = "CANCELLED" /\ status' \in [Orders -> Statuses]
      /\ \A x \in Orders \ {o} : status'[x] = status[x]
  BY <1>1 DEF BookInv, BookTypes, Statuses
<1> QED BY <1>1, <1>2
        DEF BookInv, BookTypes, HeapsInv, StatusInv, NotCrossed, Live, Stale, IsBuy, Remaining

\* A quote takes only stale entries from the heaps.
LEMMA SpreadKeeps == ASSUME BookInv, Spread PROVE BookInv'
<1>1. /\ bids' \subseteq bids /\ asks' \subseteq asks
      /\ \A x \in bids \cup asks : ~Stale(x) => x \in bids' \cup asks'
      /\ UNCHANGED <<terms, filled, status, taker>>
  BY DEF Spread, Pruned
<1> QED BY <1>1 DEF BookInv, BookTypes, HeapsInv, StatusInv, NotCrossed, Live, Stale,
                    IsBuy, Remaining

\* Every step keeps the invariant.
LEMMA BookStep == BookInv /\ [Next]_vars => BookInv'
<1> SUFFICES ASSUME BookInv, [Next]_vars PROVE BookInv' OBVIOUS
<1>1. CASE UNCHANGED vars
  BY <1>1 DEF vars, BookInv, BookTypes, HeapsInv, StatusInv, NotCrossed, Live, Stale,
              IsBuy, Remaining
<1> QED BY <1>1, SubmitKeeps, CancelKeeps, DropStaleKeeps, FillKeeps, RestLimitKeeps,
           KillMarketKeeps, SpreadKeeps DEF Next, Matching

\* The empty book satisfies the invariant.
LEMMA BookInit == Init => BookInv
<1> SUFFICES ASSUME Init PROVE BookInv OBVIOUS
<1>1. Unsubmitted \in OrderSpecs
  <2>1. OrderSpecs # {}
    <3>1. PICK p \in Prices, q \in Quantities, t \in Timestamps : TRUE
      BY BookAssumption
    <3>2. [side |-> "BUY", price |-> p, quantity |-> q, kind |-> "LIMIT", timestamp |-> t]
            \in OrderSpecs
      BY DEF OrderSpecs
    <3> QED BY <3>2
  <2> QED BY <2>1 DEF Unsubmitted
<1>2. BookTypes BY <1>1 DEF Init, BookTypes, Statuses
<1>3. \A o \in Orders : terms[o].quantity \in Nat BY <1>2, TermTypes
<1>4. StatusInv BY <1>3, NoOrderIsNone DEF Init, StatusInv
<1> QED BY <1>2, <1>4 DEF Init, BookInv, HeapsInv, NotCrossed, Live

\* BookInv holds in every reachable state.
LEMMA BookInvHolds == Spec => []BookInv
BY BookInit, BookStep, PTL DEF Spec

\* The book is never crossed, for any orders, prices and quantities.
THEOREM NotCrossedHolds == Spec => []NotCrossed
<1>1. BookInv => NotCrossed BY DEF BookInv
<1> QED BY <1>1, BookInvHolds, PTL

\* Between calls the orders a client sees as open are exactly those that can
\* still trade: none is forgotten outside its heap, none rests exhausted.
THEOREM LiveOrdersRestHolds == Spec => []LiveOrdersRest
<1>1. BookInv => LiveOrdersRest
  <2> SUFFICES ASSUME BookInv, taker = NoOrder, NEW o \in Orders
               PROVE  status[o] \in {"OPEN", "PARTIAL"} <=>
                        /\ o \in Live(IF IsBuy(o) THEN bids ELSE asks)
                        /\ terms[o].kind = "LIMIT" /\ Remaining(o) > 0
    BY DEF LiveOrdersRest
  <2>1. ASSUME status[o] \in {"OPEN", "PARTIAL"}
        PROVE  /\ o \in Live(IF IsBuy(o) THEN bids ELSE asks)
               /\ terms[o].kind = "LIMIT" /\ Remaining(o) > 0
    <3>1. o \in bids \cup asks BY <2>1, NoOrderIsNone DEF BookInv, StatusInv
    <3> QED BY <2>1, <3>1 DEF BookInv, HeapsInv, Live, Stale
  <2>2. ASSUME o \in Live(IF IsBuy(o) THEN bids ELSE asks)
        PROVE  status[o] \in {"OPEN", "PARTIAL"}
    <3>1. o \in bids \cup asks /\ ~Stale(o) BY <2>2 DEF Live
    <3> QED BY <3>1 DEF BookInv, BookTypes, HeapsInv, Stale, Statuses
  <2> QED BY <2>1, <2>2
<1> QED BY <1>1, BookInvHolds, PTL

\* Of two orders of one side at most one ranks first.
LEMMA KeyOrder ==
    ASSUME BookTypes, NEW a \in Orders, NEW b \in Orders, IsBuy(a) <=> IsBuy(b), KeyLess(a, b)
    PROVE  ~KeyLess(b, a)
<1>1. /\ terms[a].price \in Int /\ terms[b].price \in Int
      /\ terms[a].timestamp \in Int /\ terms[b].timestamp \in Int
  BY TermTypes
<1>2. a \in Int /\ b \in Int
  BY BookAssumption
<1>3. QED BY <1>1, <1>2 DEF KeyLess

\* Pruning one heap drops no live entry, and leaves none but a live one at the top.
LEMMA PruningQuotes ==
    ASSUME BookTypes, NEW book \in SUBSET Orders, \A a, b \in book : IsBuy(a) <=> IsBuy(b)
    PROVE  /\ Live(Pruned(book)) = Live(book)
           /\ \A r \in Pruned(book) : IsTop(r, Pruned(book)) => ~Stale(r)
<1>1. Live(Pruned(book)) = Live(book)
  BY DEF Live, Pruned
<1>2. ASSUME NEW r \in Pruned(book), IsTop(r, Pruned(book)), Stale(r)
      PROVE  FALSE
  <2>1. PICK l \in book : ~Stale(l) /\ (l = r \/ KeyLess(l, r))
    BY DEF Pruned
  <2>2. r \in book /\ l \in Pruned(book) /\ l # r
    BY <1>2, <2>1 DEF Pruned
  <2>3. KeyLess(r, l)
    BY <1>2, <2>2 DEF IsTop
  <2>4. QED BY <2>1, <2>2, <2>3, KeyOrder
<1>3. QED BY <1>1, <1>2

\* engine.py 205-227: whatever stale entries calls left behind, a quote loses no live
\* order and ends with the best one at the top.
THEOREM QuotesBestHolds == Spec => QuotesBest
<1>1. ASSUME BookInv, Spread, NEW b \in {<<bids, bids'>>, <<asks, asks'>>}
      PROVE  Live(b[1]) = Live(b[2]) /\ \A r \in b[2] : IsTop(r, b[2]) => ~Stale(r)
  <2>1. /\ bids \in SUBSET Orders /\ \A o, r \in bids : IsBuy(o) <=> IsBuy(r)
        /\ asks \in SUBSET Orders /\ \A o, r \in asks : IsBuy(o) <=> IsBuy(r)
    BY <1>1 DEF BookInv, BookTypes, HeapsInv
  <2>2. bids' = Pruned(bids) /\ asks' = Pruned(asks)
    BY <1>1 DEF Spread
  <2>3. CASE b = <<bids, bids'>>
    <3>1. b[1] = bids /\ b[2] = Pruned(bids)
      BY <2>2, <2>3
    <3>2. QED BY <1>1, <2>1, <3>1, PruningQuotes DEF BookInv
  <2>4. CASE b = <<asks, asks'>>
    <3>1. b[1] = asks /\ b[2] = Pruned(asks)
      BY <2>2, <2>4
    <3>2. QED BY <1>1, <2>1, <3>1, PruningQuotes DEF BookInv
  <2>5. QED BY <1>1, <2>3, <2>4
<1>2. BookInv /\ [Next]_vars
        => [Spread => \A b \in {<<bids, bids'>>, <<asks, asks'>>} :
              /\ Live(b[1]) = Live(b[2])
              /\ \A r \in b[2] : IsTop(r, b[2]) => ~Stale(r)]_vars
  BY <1>1
<1>3. QED BY <1>2, BookInvHolds, PTL DEF Spec, QuotesBest

-----------------------------------------------------------------------------
(***************************************************************************)
(* Trades account for fills.  A trade is appended exactly when the filled  *)
(* quantities of its two orders grow by its quantity.                      *)
(***************************************************************************)

TradeRecords == [buy : Orders, sell : Orders, price : Int, quantity : Nat]

AccountInv == /\ trades \in Seq(TradeRecords)
              /\ \A o \in Orders : filled[o] = Traded(o)

\* One trade more counts for its two orders and for no other.
LEMMA TradedAppend ==
    ASSUME trades \in Seq(TradeRecords), NEW t \in TradeRecords, trades' = Append(trades, t),
           NEW o \in Orders
    PROVE  Traded(o)' = Traded(o) + (IF o \in {t.buy, t.sell} THEN t.quantity ELSE 0)
<1> DEFINE f == [n \in DOMAIN trades |-> trades[n].quantity]
           g == [n \in DOMAIN trades' |-> trades'[n].quantity]
           S == {n \in DOMAIN trades : o \in {trades[n].buy, trades[n].sell}}
           T == {n \in DOMAIN trades' : o \in {trades'[n].buy, trades'[n].sell}}
           k == Len(trades) + 1
<1>1. /\ Len(trades) \in Nat /\ DOMAIN trades = 1..Len(trades) /\ DOMAIN trades' = 1..k
      /\ trades'[k] = t /\ \A n \in 1..Len(trades) : trades'[n] = trades[n] /\ trades[n] \in TradeRecords
  OBVIOUS
<1>2. /\ IsFiniteSet(S) /\ k \notin S /\ S \subseteq DOMAIN trades
  <2>1. S \in SUBSET (1..Len(trades)) /\ k \notin 1..Len(trades) /\ Len(trades) \in Int
    BY <1>1
  <2> HIDE DEF S
  <2>2. IsFiniteSet(S)
    BY <2>1, FinitePart
  <2>3. QED BY <1>1, <2>1, <2>2
<1>3. \A n \in DOMAIN trades : n \in DOMAIN trades' /\ f[n] = g[n] /\ f[n] \in Int
  BY <1>1 DEF TradeRecords
<1>4. g[k] = t.quantity /\ t.quantity \in Int
  BY <1>1 DEF TradeRecords
<1>5. T = IF o \in {t.buy, t.sell} THEN S \cup {k} ELSE S
  BY <1>1
<1>6. Traded(o) = SumFunctionOnSet(f, S) /\ Traded(o)' = SumFunctionOnSet(g, T)
  BY DEF Traded
<1>7. \A n \in S : f[n] = g[n] /\ f[n] \in Int /\ g[n] \in Int
  BY <1>2, <1>3
<1> HIDE DEF f, g, S, T
<1>8. SumFunctionOnSet(f, S) = SumFunctionOnSet(g, S) /\ SumFunctionOnSet(f, S) \in Int
  BY <1>2, <1>7, SumSame, SumType
<1>9. CASE o \in {t.buy, t.sell}
  <2>1. SumFunctionOnSet(g, S \cup {k}) = g[k] + SumFunctionOnSet(g, S)
    BY <1>2, <1>4, <1>7, SumAdd
  <2>2. QED BY <1>4, <1>5, <1>6, <1>8, <1>9, <2>1
<1>10. CASE o \notin {t.buy, t.sell}
  BY <1>5, <1>6, <1>8, <1>10
<1>11. QED BY <1>9, <1>10

LEMMA AccountStep == ASSUME BookInv, AccountInv, [Next]_vars PROVE AccountInv'
<1>1. CASE UNCHANGED <<filled, trades>>
  BY <1>1 DEF AccountInv, Traded
<1>2. ASSUME NEW o \in Orders, NEW r \in Orders, Fill(o, r) PROVE AccountInv'
  <2> DEFINE n == FillQty(o, r)
             t == TradeOf(o, r, n)
  <2>1. o # r /\ Remaining(o) > 0 /\ Remaining(r) > 0
    <3>1. r \in bids \cup asks /\ o = taker /\ Remaining(o) > 0 /\ ~Stale(r)
      BY <1>2 DEF Fill, IsTop, Against
    <3>2. QED BY <3>1 DEF BookInv, HeapsInv
  <2>2. n \in Nat \ {0}
    BY <2>1, FillQtyFits DEF BookInv
  <2>3. t \in TradeRecords /\ {t.buy, t.sell} = {o, r} /\ t.quantity = n
    BY <2>2, TermTypes DEF TradeOf, TradeRecords, BookInv
  <2>4. trades' = Append(trades, t) /\ filled' = [filled EXCEPT ![o] = @ + n, ![r] = @ + n]
    BY <1>2 DEF Fill
  <2>5. \A x \in Orders : filled'[x] = filled[x] + (IF x \in {o, r} THEN n ELSE 0)
    BY <2>1, <2>2, <2>4 DEF BookInv, BookTypes
  <2> HIDE DEF t
  <2>6. \A x \in Orders : Traded(x)' = Traded(x) + (IF x \in {o, r} THEN n ELSE 0)
    BY <2>3, <2>4, TradedAppend DEF AccountInv
  <2>7. trades' \in Seq(TradeRecords)
    BY <2>3, <2>4 DEF AccountInv
  <2>8. QED BY <2>5, <2>6, <2>7 DEF AccountInv
<1>3. QED
  BY <1>1, <1>2 DEF Next, Matching, Submit, Cancel, RestLimit, KillMarket, DropStale, Spread, vars

\* engine.py 47-52 and 101-203: what an order reports as filled is the sum of its trades,
\* and never more than it asked for.
THEOREM FillsAccountedHolds == Spec => []FillsAccounted
<1>1. Init => AccountInv
  <2> SUFFICES ASSUME Init, NEW o \in Orders PROVE Traded(o) = 0
    BY DEF Init, AccountInv
  <2>1. {n \in DOMAIN trades : o \in {trades[n].buy, trades[n].sell}} = {}
    BY DEF Init
  <2>2. QED BY <2>1, SumEmpty DEF Traded
<1>2. BookInv /\ AccountInv /\ [Next]_vars => AccountInv'
  BY AccountStep
<1>3. BookInv /\ AccountInv => FillsAccounted
  BY DEF BookInv, StatusInv, AccountInv, FillsAccounted
<1>4. QED BY <1>1, <1>2, <1>3, BookInvHolds, PTL DEF Spec

-----------------------------------------------------------------------------
(***************************************************************************)
(* Depth.  An entry ranks behind the prices that are better than its own,  *)
(* and behind older orders of its own price: the loop counts one price     *)
(* more for the latter, so that it stops behind the oldest order of the    *)
(* price after the last level asked for.                                   *)
(***************************************************************************)

FiniteBooks == IsFiniteSet(bids) /\ IsFiniteSet(asks)

Before(book, o) == {terms[x].price : x \in {y \in Live(book) : KeyLess(y, o)}}
Better(book, o) ==
    {terms[x].price : x \in {y \in Live(book) : terms[y].price # terms[o].price /\ KeyLess(y, o)}}

Oldest(book, o) == \A x \in Live(book) : terms[x].price = terms[o].price => ~KeyLess(x, o)

\* The orders of one side: those at a better price come first.
LEMMA PriceFirst ==
    ASSUME BookTypes, NEW a \in Orders, NEW b \in Orders, IsBuy(a) <=> IsBuy(b),
           terms[a].price # terms[b].price
    PROVE  KeyLess(a, b) <=> IF IsBuy(a) THEN terms[b].price < terms[a].price
                                         ELSE terms[a].price < terms[b].price
BY TermTypes DEF KeyLess

LEMMA DepthOfBook ==
    ASSUME BookTypes, NEW book \in SUBSET Orders, IsFiniteSet(book),
           \A a, b \in book : IsBuy(a) <=> IsBuy(b), NEW levels \in Nat
    PROVE  LET d == Depth(book, levels)
           IN /\ DOMAIN d \subseteq {terms[o].price : o \in Live(book)}
              /\ \A o \in Live(book) :
                   /\ Cardinality(Better(book, o)) < levels =>
                        /\ terms[o].price \in DOMAIN d
                        /\ d[terms[o].price] = QuantityAt(Live(book), terms[o].price)
                   /\ Cardinality(Better(book, o)) = levels /\ Oldest(book, o) =>
                        /\ terms[o].price \in DOMAIN d
                        /\ d[terms[o].price] = Remaining(o)
                   /\ Cardinality(Better(book, o)) > levels => terms[o].price \notin DOMAIN d
<1> DEFINE d == Depth(book, levels)
           seen == Visited(book, levels)
<1>1. /\ Live(book) \subseteq book /\ IsFiniteSet(Live(book))
      /\ \A a, b \in Live(book) : a \in Orders /\ (IsBuy(a) <=> IsBuy(b))
  BY FS_Subset DEF Live
<1>2. \A o : /\ IsFiniteSet(Before(book, o)) /\ IsFiniteSet(Better(book, o))
             /\ Cardinality(Before(book, o)) \in Nat /\ Cardinality(Better(book, o)) \in Nat
  <2> TAKE o
  <2>1. /\ IsFiniteSet({terms[x].price : x \in Live(book)})
        /\ Before(book, o) \subseteq {terms[x].price : x \in Live(book)}
        /\ Better(book, o) \subseteq {terms[x].price : x \in Live(book)}
    <3> DEFINE f == [x \in Live(book) |-> terms[x].price]
    <3>1. IsFiniteSet({terms[x].price : x \in Live(book)})
      <4>1. \A p \in {terms[x].price : x \in Live(book)} : \E x \in Live(book) : p = f[x]
        OBVIOUS
      <4> HIDE DEF f
      <4>2. QED BY <1>1, <4>1, FiniteImage
    <3>2. QED BY <3>1 DEF Before, Better
  <2>2. QED BY <2>1, FS_Subset, FS_CardinalityType
<1>3. seen = {o \in Live(book) : Cardinality(Before(book, o)) <= levels}
  BY DEF Visited, More, Before
<1>4. DOMAIN d = {terms[o].price : o \in seen}
      /\ \A p \in DOMAIN d : d[p] = QuantityAt(seen, p)
  BY DEF Depth
<1>9. ASSUME NEW o \in Live(book), NEW x \in Live(book), terms[x].price = terms[o].price
      PROVE  Better(book, x) = Better(book, o)
  <2>1. \A y \in Live(book) : terms[y].price # terms[o].price => (KeyLess(y, x) <=> KeyLess(y, o))
    BY <1>1, <1>9, PriceFirst
  <2>2. QED BY <1>9, <2>1 DEF Better
<1>5. ASSUME NEW o \in Live(book), Cardinality(Better(book, o)) < levels,
             NEW x \in Live(book), terms[x].price = terms[o].price
      PROVE  x \in seen
  <2>1. Better(book, x) = Better(book, o)
    BY <1>5, <1>9
  <2>2. Before(book, x) \subseteq Better(book, o) \cup {terms[o].price}
    BY <1>5, <2>1 DEF Before, Better
  <2>3. Cardinality(Before(book, x)) <= Cardinality(Better(book, o)) + 1
    BY <1>2, <2>2, FiniteWith
  <2>4. Cardinality(Before(book, x)) <= levels
    BY <1>2, <1>5, <2>3
  <2>5. QED BY <1>3, <2>4
<1>6. ASSUME NEW o \in Live(book), Cardinality(Better(book, o)) < levels
      PROVE  /\ terms[o].price \in DOMAIN d
             /\ d[terms[o].price] = QuantityAt(Live(book), terms[o].price)
  <2> DEFINE p == terms[o].price
             here == {x \in Live(book) : terms[x].price = p}
  <2>1. o \in seen /\ p \in DOMAIN d
    BY <1>4, <1>5, <1>6
  <2>2. {x \in seen : terms[x].price = p} = here
    BY <1>3, <1>5, <1>6
  <2>3. IsFiniteSet(here) /\ \A x \in here : x \in seen /\ x \in Live(book)
    BY <1>1, <2>2, FS_Subset
  <2>4. SumFunctionOnSet([x \in seen |-> Remaining(x)], here)
          = SumFunctionOnSet([x \in Live(book) |-> Remaining(x)], here)
    BY <2>3, SumSame
  <2>5. QED BY <1>4, <2>1, <2>2, <2>4 DEF QuantityAt
<1>7. ASSUME NEW o \in Live(book), Cardinality(Better(book, o)) = levels, Oldest(book, o)
      PROVE  /\ terms[o].price \in DOMAIN d
             /\ d[terms[o].price] = Remaining(o)
  <2> DEFINE p == terms[o].price
             f == [x \in seen |-> Remaining(x)]
  <2>1. Before(book, o) = Better(book, o)
    BY <1>7 DEF Before, Better, Oldest
  <2>2. o \in seen /\ p \in DOMAIN d
    BY <1>2, <1>3, <1>4, <1>7, <2>1
  <2>3. ASSUME NEW x \in Live(book), terms[x].price = p, x # o PROVE x \notin seen
    <3>1. KeyLess(o, x)
      <4>1. /\ o \in Orders /\ x \in Orders /\ (IsBuy(o) <=> IsBuy(x))
            /\ terms[o].timestamp \in Int /\ terms[x].timestamp \in Int /\ terms[o].price \in Int
        BY <1>1, TermTypes
      <4>4. o \in Int /\ x \in Int
        BY <4>1, BookAssumption
      <4>2. ~KeyLess(x, o)
        BY <1>7, <2>3 DEF Oldest
      <4>3. QED BY <2>3, <4>1, <4>2, <4>4 DEF KeyLess
    <3>2. Better(book, o) \subseteq Before(book, x) /\ p \in Before(book, x)
      BY <1>7, <1>9, <2>3, <3>1 DEF Better, Before
    <3>3. p \notin Better(book, o)
      BY DEF Better
    <3>4. Cardinality(Better(book, o) \cup {p}) = levels + 1
      BY <1>2, <1>7, <3>3, FS_AddElement
    <3>5. Cardinality(Before(book, x)) >= levels + 1
      BY <1>2, <3>2, <3>4, FS_Subset
    <3>6. QED BY <1>2, <1>3, <3>5
  <2>4. {x \in seen : terms[x].price = p} = {o}
    BY <1>3, <2>2, <2>3
  <2>5. SumFunctionOnSet(f, {o}) = Remaining(o)
    <3>1. f[o] \in Int /\ f[o] = Remaining(o)
      BY <1>1, <1>7, <2>2, TermTypes DEF Remaining, BookTypes
    <3>2. IsFiniteSet({}) /\ SumFunctionOnSet(f, {}) = 0
      BY FS_EmptySet, SumEmpty
    <3> HIDE DEF f
    <3>3. SumFunctionOnSet(f, {} \cup {o}) = SumFunctionOnSet(f, {}) + f[o]
      BY <3>1, <3>2, SumAdd
    <3>4. {} \cup {o} = {o}
      OBVIOUS
    <3>5. QED BY <3>1, <3>2, <3>3, <3>4
  <2>6. QED BY <1>4, <2>2, <2>4, <2>5 DEF QuantityAt
<1>8. ASSUME NEW o \in Live(book), Cardinality(Better(book, o)) > levels
      PROVE  terms[o].price \notin DOMAIN d
  <2> SUFFICES ASSUME NEW x \in seen, terms[x].price = terms[o].price PROVE FALSE
    BY <1>4
  <2>1. x \in Live(book) /\ Better(book, x) = Better(book, o)
    BY <1>3, <1>9
  <2>2. Better(book, x) \subseteq Before(book, x)
    BY DEF Better, Before
  <2>3. Cardinality(Better(book, x)) <= Cardinality(Before(book, x))
    BY <1>2, <2>2, FS_Subset
  <2>4. QED BY <1>2, <1>3, <1>8, <2>1, <2>3
<1>10. DOMAIN d \subseteq {terms[o].price : o \in Live(book)}
  BY <1>3, <1>4
<1>11. QED BY <1>6, <1>7, <1>8, <1>10

\* engine.py 229-248: for any number of levels, those asked for carry all the live quantity
\* resting at them, a next one that of its oldest order, and no other is shown.
THEOREM DepthShowsHolds == Spec => [](DepthShows /\ \A levels \in Nat : DepthIsTop(levels))
<1>1. Init => FiniteBooks
  BY FS_EmptySet DEF Init, FiniteBooks
<1>2. FiniteBooks /\ [Next]_vars => FiniteBooks'
  <2> SUFFICES ASSUME FiniteBooks, [Next]_vars PROVE FiniteBooks'
    OBVIOUS
  <2>1. \E x : bids' \subseteq bids \cup {x} /\ asks' \subseteq asks \cup {x}
    BY DEF Next, Matching, Submit, Cancel, RestLimit, KillMarket, DropStale, Fill, Pop, Spread,
           Pruned, vars
  <2>2. \A x : IsFiniteSet(bids \cup {x}) /\ IsFiniteSet(asks \cup {x})
    BY FS_AddElement DEF FiniteBooks
  <2>3. QED BY <2>1, <2>2, FS_Subset DEF FiniteBooks
<1>3. BookInv /\ FiniteBooks => DepthShows /\ \A levels \in Nat : DepthIsTop(levels)
  <2> SUFFICES ASSUME BookInv, FiniteBooks, NEW levels \in Nat PROVE DepthIsTop(levels)
    BY DEF DepthShows
  <2>1. ASSUME NEW book \in {bids, asks}
        PROVE  /\ book \in SUBSET Orders /\ IsFiniteSet(book)
               /\ \A a, b \in book : IsBuy(a) <=> IsBuy(b)
    BY DEF BookInv, BookTypes, HeapsInv, FiniteBooks
  <2>2. QED BY <2>1, DepthOfBook DEF BookInv, DepthIsTop, Better, Oldest
<1>4. QED BY <1>1, <1>2, <1>3, BookInvHolds, PTL DEF Spec

-----------------------------------------------------------------------------
(***************************************************************************)
(* Refinement.  A live order of either heap is a resting order of the      *)
(* abstract book, so a stale entry, wherever it is, is invisible there:    *)
(* dropping one and pruning are stutters.  An abstract trade is with the   *)
(* first of the live opposite orders: it is the top of the heap, because   *)
(* the top precedes every entry, stale or live.                            *)
(***************************************************************************)

Resting == {o \in bids \cup asks : ~Stale(o)}

\* The live opposite orders are the live entries of the heap matched against.
LEMMA OppositeIsAgainst ==
    ASSUME BookInv, NEW o \in Orders
    PROVE  PTB!Opposite(o) = {r \in Against(o) : ~Stale(r)}
BY DEF PTB!Opposite, PTB!IsBuy, IsBuy, Against, BookInv, HeapsInv

\* The same test on both sides of the mapping.
LEMMA SameTests ==
    /\ \A a, b \in Orders : KeyLess(a, b) <=> PTB!Precedes(a, b)
    /\ \A o, r \in Orders : PriceOk(o, r) <=> PTB!Admits(o, r)
    /\ \A o \in Orders : Remaining(o) = PTB!Remaining(o)
BY DEF KeyLess, PTB!Precedes, PriceOk, PTB!Admits, Remaining, PTB!Remaining, IsBuy, PTB!IsBuy

\* When the loop of o ends, no live opposite order can trade with o.
LEMMA LoopEnd ==
    ASSUME BookInv, NEW o \in Orders,
           \/ Against(o) = {}
           \/ \E r \in Against(o) : IsTop(r, Against(o)) /\ ~PriceOk(o, r)
    PROVE  PTB!Matchable(o) = {}
<1>1. \A x \in Against(o) : ~PriceOk(o, x) BY TopDecides DEF BookInv
<1>2. Against(o) \subseteq Orders BY DEF Against, BookInv, BookTypes
<1> QED BY <1>1, <1>2, OppositeIsAgainst, SameTests DEF PTB!Matchable

\* A fill is the abstract trade with the first in line.
LEMMA FillRefines ==
    ASSUME BookInv, NEW o \in Orders, NEW r \in Orders, Fill(o, r)
    PROVE  PTB!Trade(o, r)
<1> DEFINE n == FillQty(o, r)
<1>1. /\ r \in Against(o) /\ o = taker /\ Remaining(o) > 0 /\ ~Stale(r) /\ PriceOk(o, r)
      /\ \A x \in Against(o) \ {r} : KeyLess(r, x)
      /\ Against(o) \subseteq Orders
  BY DEF Fill, IsTop, Against, BookInv, BookTypes
<1>2. r \in bids \cup asks /\ o \notin bids \cup asks /\ o # r /\ Remaining(r) > 0
  BY <1>1 DEF Against, BookInv, HeapsInv
<1>3. /\ n \in Nat /\ n <= Remaining(r) /\ Remaining(r) \in Int /\ Remaining(o) \in Int
  BY <1>1, <1>2, FillQtyFits, TermTypes DEF BookInv
<1>4. r \in PTB!Matchable(o)
  BY <1>1, OppositeIsAgainst, SameTests DEF PTB!Matchable
<1>5. \A x \in PTB!Opposite(o) \ {r} : PTB!Precedes(r, x)
  BY <1>1, OppositeIsAgainst, SameTests
<1>6. filled' = [filled EXCEPT ![o] = @ + n, ![r] = @ + n] BY DEF Fill
<1>7. /\ \A x \in Orders \ {o, r} : Stale(x)' <=> Stale(x)
      /\ Stale(r)' <=> Remaining(r) - n <= 0
  BY <1>2 DEF Fill, Stale, StatusAfterFill, BookInv, BookTypes
<1>8. /\ bids' \cup asks' \subseteq bids \cup asks
      /\ bids \cup asks \subseteq bids' \cup asks' \cup {r}
      /\ Remaining(r) - n <= 0 \/ (bids' = bids /\ asks' = asks)
  BY DEF Fill, Pop
<1>9. Resting' = IF n = Remaining(r) THEN Resting \ {r} ELSE Resting
  <2>1. bids \cup asks \subseteq Orders BY DEF BookInv, BookTypes
  <2>2. CASE n = Remaining(r)
    <3>1. Stale(r)' BY <1>3, <1>7, <2>2
    <3> QED BY <1>2, <1>7, <1>8, <2>1, <2>2, <3>1 DEF Resting
  <2>3. CASE n # Remaining(r)
    <3>1. ~(Remaining(r) - n <= 0) BY <1>3, <2>3
    <3> QED BY <1>1, <1>2, <1>7, <1>8, <2>1, <2>3, <3>1 DEF Resting
  <2> QED BY <2>2, <2>3
<1>10. {x \in Orders : status'[x] # "NEW"} = {x \in Orders : status[x] # "NEW"}
  <2>1. status[o] # "NEW" /\ status[r] # "NEW"
    BY <1>1, <1>2 DEF BookInv, HeapsInv, StatusInv
  <2> QED BY <1>2, <2>1 DEF Fill, StatusAfterFill, BookInv, BookTypes
<1>11. terms' = terms /\ taker' = taker BY DEF Fill
<1>12. n = IF PTB!Remaining(o) < PTB!Remaining(r) THEN PTB!Remaining(o) ELSE PTB!Remaining(r)
  BY SameTests DEF FillQty
<1>13. PTB!Remaining(o) = Remaining(o) /\ PTB!Remaining(r) = Remaining(r) BY SameTests
<1> QED BY <1>1, <1>4, <1>5, <1>6, <1>9, <1>10, <1>11, <1>12, <1>13
        DEF PTB!Trade, Resting

\* A remainder that rests, and one that is killed, are the abstract settlement.
LEMMA SettleRefines ==
    ASSUME BookInv, NEW o \in Orders, RestLimit(o) \/ KillMarket(o)
    PROVE  PTB!Settle(o)
<1>1. /\ taker = o /\ taker' = NoOrder /\ terms' = terms /\ filled' = filled
      /\ status[o] # "NEW" /\ o \notin bids \cup asks
  BY DEF RestLimit, KillMarket, BookInv, HeapsInv, StatusInv
<1>2. Remaining(o) \in Int /\ Remaining(o) >= 0 /\ (Stale(o) <=> Remaining(o) <= 0)
  <2>1. filled[o] <= terms[o].quantity /\ (Stale(o) <=> Remaining(o) <= 0)
    BY <1>1, NoOrderIsNone DEF BookInv, StatusInv
  <2> QED BY <2>1, TermTypes DEF BookInv, Remaining
<1>3. Remaining(o) = 0 \/ PTB!Matchable(o) = {}
  BY <1>2, LoopEnd DEF RestLimit, KillMarket
<1>4. PTB!Remaining(o) = Remaining(o) BY SameTests
<1>5. CASE RestLimit(o)
  <2>1. status' = status /\ terms[o].kind = "LIMIT" BY <1>5 DEF RestLimit
  <2>2. bids' \cup asks' = IF Remaining(o) <= 0 THEN bids \cup asks ELSE bids \cup asks \cup {o}
    BY <1>5 DEF RestLimit
  <2>3. Resting' = IF Remaining(o) > 0 THEN Resting \cup {o} ELSE Resting
    BY <1>2, <2>1, <2>2 DEF Resting, Stale
  <2> QED BY <1>1, <1>3, <1>4, <2>1, <2>3 DEF PTB!Settle, PTB!NoOrder, NoOrder, Resting
<1>6. CASE KillMarket(o)
  <2>1. /\ bids' = bids /\ asks' = asks /\ terms[o].kind = "MARKET"
        /\ \A x \in Orders \ {o} : status'[x] = status[x]
        /\ status'[o] # "NEW"
    BY <1>1, <1>6 DEF KillMarket, BookInv, BookTypes
  <2>2. Resting' = Resting
    BY <1>1, <2>1 DEF Resting, Stale, BookInv, BookTypes
  <2>3. {x \in Orders : status'[x] # "NEW"} = {x \in Orders : status[x] # "NEW"}
    BY <1>1, <2>1
  <2> QED BY <1>1, <1>3, <1>4, <2>1, <2>2, <2>3
          DEF PTB!Settle, PTB!NoOrder, NoOrder, Resting
<1> QED BY <1>5, <1>6

\* A submission is the abstract arrival.
LEMMA SubmitRefines ==
    ASSUME BookInv, NEW o \in Orders, Submit(o) PROVE PTB!Accept(o)
<1>1. /\ taker = NoOrder /\ taker' = o /\ status[o] = "NEW" /\ filled' = filled
      /\ bids' = bids /\ asks' = asks
      /\ \E t \in OrderSpecs : terms' = [terms EXCEPT ![o] = t]
      /\ status' = [status EXCEPT ![o] = "OPEN"]
  BY DEF Submit
<1>2. o \notin bids \cup asks BY <1>1 DEF BookInv, HeapsInv
<1>3. Resting' = Resting
  BY <1>1, <1>2 DEF Resting, Stale, BookInv, BookTypes
<1>4. {x \in Orders : status'[x] # "NEW"} = {x \in Orders : status[x] # "NEW"} \cup {o}
  BY <1>1 DEF BookInv, BookTypes
<1> QED BY <1>1, <1>3, <1>4 DEF PTB!Accept, PTB!NoOrder, NoOrder, Resting

\* A cancellation is the abstract withdrawal, although the entry stays.
LEMMA CancelRefines ==
    ASSUME BookInv, NEW o \in Orders, Cancel(o) PROVE PTB!Withdraw(o)
<1>1. /\ taker = NoOrder /\ UNCHANGED <<terms, filled, bids, asks, taker>>
      /\ status[o] \in {"OPEN", "PARTIAL"}
      /\ status' = [status EXCEPT ![o] = "CANCELLED"]
  BY DEF Cancel
<1>2. o \in bids \cup asks BY <1>1, NoOrderIsNone DEF BookInv, StatusInv
<1>3. Resting' = Resting \ {o} /\ o \in Resting
  BY <1>1, <1>2 DEF Resting, Stale, BookInv, BookTypes
<1>4. {x \in Orders : status'[x] # "NEW"} = {x \in Orders : status[x] # "NEW"}
  BY <1>1 DEF BookInv, BookTypes
<1> QED BY <1>1, <1>3, <1>4 DEF PTB!Withdraw, PTB!NoOrder, NoOrder, Resting

\* Lazy deletion implements the book of live orders: every step of the heaps is
\* a step of PriceTimeBook or leaves it unchanged.
THEOREM BookImplements == Spec => ImplementsPriceTimeBook
<1>1. Init => PTB!Init
  BY DEF Init, PTB!Init, PTB!NoOrder, NoOrder, Unsubmitted, PTB!Unsubmitted
<1>2. BookInv /\ [Next]_vars => [PTB!Next]_(PTB!vars)
  <2> SUFFICES ASSUME BookInv, [Next]_vars PROVE [PTB!Next]_(PTB!vars) OBVIOUS
  <2>1. CASE UNCHANGED vars BY <2>1 DEF vars, PTB!vars, Stale
  <2>2. ASSUME NEW o \in Orders, NEW r \in Orders, DropStale(o, r)
        PROVE  UNCHANGED PTB!vars
    <3>1. /\ UNCHANGED <<terms, filled, status, taker>> /\ Stale(r)
          /\ bids' \cup asks' \subseteq bids \cup asks
          /\ bids \cup asks \subseteq bids' \cup asks' \cup {r}
      BY <2>2 DEF DropStale, Pop
    <3>2. Resting' = Resting BY <3>1 DEF Resting, Stale
    <3> QED BY <3>1, <3>2 DEF PTB!vars, Resting
  <2>3. CASE Spread
    <3>1. /\ UNCHANGED <<terms, filled, status, taker>>
          /\ bids' \cup asks' \subseteq bids \cup asks
          /\ \A x \in bids \cup asks : ~Stale(x) => x \in bids' \cup asks'
      BY <2>3 DEF Spread, Pruned
    <3>2. Resting' = Resting BY <3>1 DEF Resting, Stale
    <3> QED BY <3>1, <3>2 DEF PTB!vars, Resting
  <2> QED BY <2>1, <2>2, <2>3, SubmitRefines, CancelRefines, FillRefines, SettleRefines
          DEF Next, Matching, PTB!Next
<1> QED BY <1>1, <1>2, BookInvHolds, PTL DEF Spec, ImplementsPriceTimeBook, PTB!Spec

=============================================================================
