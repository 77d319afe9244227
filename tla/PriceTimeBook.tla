--------------------------- MODULE PriceTimeBook ---------------------------
(***************************************************************************)
(* What an order book promises, without heaps: live orders wait in a set,  *)
(* an incoming order trades with the opposite live order of the best price *)
(* and, at that price, the earliest; a limit remainder joins the set, a    *)
(* market remainder is killed, a cancelled order leaves at once.           *)
(***************************************************************************)
EXTENDS Integers

CONSTANTS Orders,       \* order ids, integers: ids break ties of timestamps
          OrderSpecs    \* the orders a client may construct

VARIABLES terms,        \* what each submitted order asks for
          filled,       \* quantity traded so far
          incoming,     \* the order being matched, or NoOrder
          accepted,     \* every order that ever arrived
          resting       \* live orders in the book

vars == <<terms, filled, incoming, accepted, resting>>

NoOrder == -1

\* The terms an order has in the model before it is submitted: never looked at.
Unsubmitted == CHOOSE t \in OrderSpecs : TRUE

IsBuy(o) == terms[o].side = "BUY"
Remaining(o) == terms[o].quantity - filled[o]

\* Order a has priority over order b of the same side.
Precedes(a, b) ==
    LET p == IF IsBuy(a) THEN -terms[a].price ELSE terms[a].price
        q == IF IsBuy(a) THEN -terms[b].price ELSE terms[b].price
    IN \/ p < q
       \/ p = q /\ terms[a].timestamp < terms[b].timestamp
       \/ p = q /\ terms[a].timestamp = terms[b].timestamp /\ a < b

Opposite(o) == {r \in resting : IsBuy(r) # IsBuy(o)}

\* The incoming order's limit admits the price of r.
Admits(o, r) ==
    \/ terms[o].kind = "MARKET"
    \/ IF IsBuy(o) THEN terms[r].price <= terms[o].price
                   ELSE terms[r].price >= terms[o].price

Matchable(o) == {r \in Opposite(o) : Admits(o, r)}

Init ==
    /\ terms = [o \in Orders |-> Unsubmitted]
    /\ filled = [o \in Orders |-> 0]
    /\ incoming = NoOrder /\ accepted = {} /\ resting = {}

\* An order arrives; one at a time.
Accept(o) ==
    /\ incoming = NoOrder /\ o \notin accepted
    /\ \E t \in OrderSpecs : terms' = [terms EXCEPT ![o] = t]
    /\ incoming' = o /\ accepted' = accepted \cup {o}
    /\ UNCHANGED <<filled, resting>>

\* The incoming order trades as much as possible with the first in line.
Trade(o, r) ==
    /\ incoming = o /\ Remaining(o) > 0
    /\ r \in Matchable(o)
    /\ \A x \in Opposite(o) \ {r} : Precedes(r, x)
    /\ LET n == IF Remaining(o) < Remaining(r) THEN Remaining(o)
                                               ELSE Remaining(r)
       IN /\ filled' = [filled EXCEPT ![o] = @ + n, ![r] = @ + n]
          /\ resting' = IF n = Remaining(r) THEN resting \ {r} ELSE resting
    /\ UNCHANGED <<terms, incoming, accepted>>

\* Nothing more to trade: a limit remainder rests, a market remainder is lost.
Settle(o) ==
    /\ incoming = o
    /\ Remaining(o) = 0 \/ Matchable(o) = {}
    /\ incoming' = NoOrder
    /\ resting' = IF Remaining(o) > 0 /\ terms[o].kind = "LIMIT"
                    THEN resting \cup {o} ELSE resting
    /\ UNCHANGED <<terms, filled, accepted>>

Withdraw(o) ==
    /\ incoming = NoOrder /\ o \in resting
    /\ resting' = resting \ {o}
    /\ UNCHANGED <<terms, filled, incoming, accepted>>

Next == \E o \in Orders : \/ Accept(o) \/ Settle(o) \/ Withdraw(o)
                          \/ \E r \in Orders : Trade(o, r)

Spec == Init /\ [][Next]_vars

=============================================================================
