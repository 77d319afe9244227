--------------------------- MODULE FraudDetector ---------------------------
(* The screening engine of fraud-detection-service/rules_engine.py: each      *)
(* transaction is judged against the earlier ones of its user, in the order   *)
(* they ARRIVE, with the timestamps they carry. Amounts are integers; the     *)
(* comparison of a z-score with a threshold is exact, squared and without the *)
(* division.                                                                  *)
EXTENDS Integers, Sequences, FiniteSets, FiniteSetsExt, Functions

CONSTANTS Users, TxAmounts, Times,
          VELOCITY_WINDOW, VELOCITY_LIMIT,   \* 10 minutes and 5 in the code
          MaxScreened                        \* bound on the calls of screen() per user

ASSUME FraudAssumption == /\ TxAmounts \subseteq Int /\ Times \subseteq Int
                          /\ VELOCITY_WINDOW \in Nat /\ VELOCITY_LIMIT \in Nat /\ MaxScreened \in Nat

VARIABLES userHistory,   \* user_history: amount and time, with the flags and
                         \* the risk each transaction was given, as history
          userProfile,   \* users whose home country is registered
          blocked        \* the blocked results: user and place in the history

fraudVars == <<userHistory, userProfile, blocked>>

Risks == {"CLEAR", "WATCH", "ALERT", "BLOCK"}
Z_WATCH == 2
Z_ALERT == 3
Z_BLOCK == 4

FraudInit == /\ userHistory = [u \in Users |-> <<>>]
             /\ userProfile = {}
             /\ blocked = {}

RegisterProfile(u) == /\ u \notin userProfile
                      /\ userProfile' = userProfile \cup {u}
                      /\ UNCHANGED <<userHistory, blocked>>

SumOf(s) == SumFunctionOnSet(s, DOMAIN s)

Square(x) == x * x

Baseline == 3

\* abs(z) >= k, where z is the distance of amount from the mean of h in sample
\* standard deviations, 0 for fewer than three transactions, and 5.0 for another
\* amount than the only one ever seen.
ZReaches(amount, h, k) ==
  LET n == Len(h)
      sum == SumOf([i \in 1..n |-> h[i].amount])
      spread == n * SumOf([i \in 1..n |-> Square(h[i].amount)]) - Square(sum)
  IN /\ n >= Baseline
     /\ IF spread = 0 THEN n * amount # sum
        ELSE Square(n * amount - sum) * (n - 1) >= Square(k) * n * spread

VelocityCheckPast(time, h) ==
  Cardinality({i \in DOMAIN h : h[i].time >= time - VELOCITY_WINDOW /\ h[i].time <= time})
    >= VELOCITY_LIMIT

VelocityCheck(time, h) ==
  Cardinality({i \in DOMAIN h : h[i].time >= time - VELOCITY_WINDOW}) >= VELOCITY_LIMIT

\* abroad: the transaction names a country other than the home country.
GeoCheck(u, abroad) == u \in userProfile /\ abroad

Score(z, vel, geo) == (CASE z >= Z_ALERT -> 3 [] z = Z_WATCH -> 1 [] OTHER -> 0)
                        + (IF vel THEN 2 ELSE 0) + (IF geo THEN 1 ELSE 0)

\* z is the highest threshold abs(z) reaches, or 0.
Classify(z, vel, geo) ==
  LET score == Score(z, vel, geo)
  IN CASE z = Z_BLOCK \/ score >= 4 -> "BLOCK"
       [] z < Z_BLOCK /\ score \in {2, 3} -> "ALERT"
       [] score = 1 -> "WATCH"
       [] score = 0 -> "CLEAR"

Screen(u, amount, time, abroad) ==
  LET h == userHistory[u]
      z == Max({0} \cup {k \in {Z_WATCH, Z_ALERT, Z_BLOCK} : ZReaches(amount, h, k)})
      vel == VelocityCheck(time, h)
      geo == GeoCheck(u, abroad)
      risk == Classify(z, vel, geo)
  IN /\ Len(h) < MaxScreened
     /\ userHistory' = [userHistory EXCEPT ![u] = Append(h,
          [amount |-> amount, time |-> time, z |-> z, vel |-> vel, geo |-> geo, risk |-> risk])]
     /\ blocked' = IF risk = "BLOCK" THEN blocked \cup {<<u, Len(h) + 1>>} ELSE blocked
     /\ UNCHANGED userProfile

FraudNext == \E u \in Users :
               \/ RegisterProfile(u)
               \/ \E amount \in TxAmounts, time \in Times, abroad \in BOOLEAN :
                    Screen(u, amount, time, abroad)

FraudSpec == FraudInit /\ [][FraudNext]_fraudVars

----------------------------------------------------------------------------
(* Properties *)

Screened == {s \in Users \X (1 .. MaxScreened) : s[2] <= Len(userHistory[s[1]])}

Tx(s) == userHistory[s[1]][s[2]]

\* rules_engine.py 84-90 and 115-134: the scores add up so that a transaction is
\* blocked exactly for a deviation of 4, of 3 with one other flag, or of 2 with
\* both; without a deviation no combination of flags blocks. The blocked list
\* holds those and no others.
BlockedIff ==
  blocked = {s \in Screened : \/ Tx(s).z >= 4
                              \/ Tx(s).z >= 3 /\ (Tx(s).vel \/ Tx(s).geo)
                              \/ Tx(s).z >= 2 /\ Tx(s).vel /\ Tx(s).geo}

\* rules_engine.py 104-107: of more than VELOCITY_LIMIT transactions of one user
\* whose timestamps lie within one window at least one is an ALERT or worse, in
\* whatever order they arrive: the check has a lower end and no upper end, so a
\* late transaction counts those stamped after it too.
BurstIsSeen ==
  \A u \in Users, start \in Times :
    LET burst == {i \in DOMAIN userHistory[u] :
                    userHistory[u][i].time \in start .. start + VELOCITY_WINDOW}
    IN Cardinality(burst) > VELOCITY_LIMIT
         => \E i \in burst : userHistory[u][i].risk \in {"ALERT", "BLOCK"}

\* rules_engine.py 94-96: nobody is blocked before there is a baseline of three
\* transactions, and a baseline of one single amount blocks every other amount.
NoBaselineNoBlock ==
  \A s \in Screened :
    LET before == {Tx(<<s[1], i>>).amount : i \in 1 .. s[2] - 1}
    IN /\ s[2] <= 3 => s \notin blocked
       /\ s[2] > 3 /\ Cardinality(before) = 1 => (s \in blocked <=> Tx(s).amount \notin before)

\* rules_engine.py 84-134: what is blocked, what at least raises an alert, and what a
\* user without a history may do.
FraudVerdicts == BlockedIff /\ BurstIsSeen /\ NoBaselineNoBlock
=============================================================================
