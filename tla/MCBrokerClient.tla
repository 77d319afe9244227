--------------------------- MODULE MCBrokerClient ---------------------------
(***************************************************************************)
(* BrokerClient on small instances: every method twice in a row, and every *)
(* two methods that share a box, at the same time.  The longest programs   *)
(* run against the short ones that use one of their boxes; the threads are *)
(* alike, so the shorter program is always the second thread's.            *)
(***************************************************************************)
EXTENDS BrokerPattern

ShortProgram == 7
LongProgram  == 30

\* What a caller can call: the loop of buy_order is no method of its own, and one method
\* stands for those that have its program.
Methods ==
  {CHOOSE n \in DOMAIN Program : Program[n] = Program[m] : m \in DOMAIN Program \ {"buy_order_again"}}

Together == {<<m, n>> \in Methods \X Methods :
               /\ BoxesOf[m] \cap BoxesOf[n] \notin SUBSET EventBoxes
               /\ Len(Program[m]) <= LongProgram
               /\ Len(Program[n]) <= ShortProgram
               /\ Len(Program[n]) <= Len(Program[m])}

TwiceOrTogether ==
  {[t \in Threads |-> <<p[t]>>] : p \in Together}
    \cup {[t \in Threads |-> IF t = 1 THEN <<m, m>> ELSE << >>] : m \in Methods}

=============================================================================
