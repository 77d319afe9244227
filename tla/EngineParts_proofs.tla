-------------------------- MODULE EngineParts_proofs --------------------------
(* What is proved of the parts of the engine that TradingSession leaves out, and *)
(* of the backtester: expirations, sizes and limits, the books of a backtest, and *)
(* the connection to the broker.                                                 *)
EXTENDS Expiration, RiskSizing, Backtester, BrokerConnection, SetSums, TLAPS
-----------------------------------------------------------------------------
(***************************************************************************)
(* Expiration: the option fits the duration asked for and the time told.   *)
(***************************************************************************)

OptionFor(d) == [expired |-> GetExpirationTime(d).expired,
                 type |-> OptionType(GetExpirationTime(d).idx), duration |-> d]

\* What was bought is what get_expiration_time answered for one of the durations.
ExpiryInv == /\ serverTime \in ServerTimes /\ skew \in Skews
             /\ option # NoOption => \E d \in Durations : option = OptionFor(d)

\* Seconds from the broker's time to the first full minute and to the first quarter.
Start == FirstMinute - serverTime
Quarter == FirstQuarter - serverTime

\* Seconds from the broker's time to the expiration at place k.
Ahead(k) == IF k <= 5 THEN Start + 60 * (k - 1) ELSE Quarter + 900 * (k - 6)

Places == 1 .. 5 + QUARTERS

\* The first minute is more than 30 seconds away, the first quarter more than five
\* minutes, neither by more than its own length, and both are whole minutes.
LEMMA Grid ==
  ASSUME serverTime \in Int
  PROVE  /\ Start \in 31 .. 90 /\ Quarter \in 301 .. 1200
         /\ \E c \in Int : Quarter = Start + 60 * c
<1> DEFINE m == serverTime \div 60
           q == (serverTime + 300) \div 900
<1>1. /\ m \in Int /\ serverTime % 60 \in 0 .. 59 /\ serverTime = 60 * m + (serverTime % 60)
      /\ q \in Int /\ (serverTime + 300) % 900 \in 0 .. 899
      /\ serverTime + 300 = 900 * q + ((serverTime + 300) % 900)
  <2>1. \A x \in Int : /\ x \div 60 \in Int /\ x % 60 \in 0 .. 59 /\ x = 60 * (x \div 60) + (x % 60)
                       /\ x \div 900 \in Int /\ x % 900 \in 0 .. 899 /\ x = 900 * (x \div 900) + (x % 900)
    OBVIOUS
  <2>2. serverTime + 300 \in Int
    OBVIOUS
  <2>3. QED BY <2>1, <2>2
<1> DEFINE r == serverTime % 60
<1>2. Start = 60 - r + (IF 60 - r > 30 THEN 0 ELSE 60)
  BY <1>1 DEF Start, FirstMinute, Minute
<1>3. Quarter = 900 * (q + 1) - serverTime
  BY DEF Quarter, FirstQuarter
<1>4. Start = 60 * (m + (IF 60 - r > 30 THEN 1 ELSE 2)) - serverTime
  BY <1>1, <1>2
<1> HIDE DEF m, q, r
<1>5. Start \in 31 .. 90
  BY <1>1, <1>2 DEF r
<1>6. Quarter \in 301 .. 1200
  <2>1. PICK w \in 0 .. 899 : serverTime + 300 = 900 * q + w
    BY <1>1
  <2>2. Quarter = 1200 - w
    BY <1>1, <1>3, <2>1
  <2>3. QED BY <2>2
<1>7. Quarter = Start + 60 * (15 * (q + 1) - (m + (IF 60 - r > 30 THEN 1 ELSE 2)))
  BY <1>1, <1>3, <1>4
<1>8. 15 * (q + 1) - (m + (IF 60 - r > 30 THEN 1 ELSE 2)) \in Int
  BY <1>1
<1>9. QED BY <1>5, <1>6, <1>7, <1>8

LEMMA Joined ==
  ASSUME NEW s \in Seq(Int), NEW t \in Seq(Int)
  PROVE  /\ s \o t \in Seq(Int) /\ Len(s \o t) = Len(s) + Len(t)
         /\ \A k \in 1 .. Len(s) : (s \o t)[k] = s[k]
         /\ \A k \in 1 .. Len(t) : (s \o t)[Len(s) + k] = t[k]
<1>1. s \o t \in Seq(Int) /\ Len(s \o t) = Len(s) + Len(t)
  OBVIOUS
<1>2. ASSUME NEW k \in 1 .. Len(s) PROVE (s \o t)[k] = s[k]
  OBVIOUS
<1>3. ASSUME NEW k \in 1 .. Len(t) PROVE (s \o t)[Len(s) + k] = t[k]
  OBVIOUS
<1>4. QED BY <1>1, <1>2, <1>3

LEMMA Listed ==
  ASSUME serverTime \in Int
  PROVE  DOMAIN Expirations = Places /\ \A k \in Places : Expirations[k] = serverTime + Ahead(k)
<1>1. Start \in Int /\ Quarter \in Int /\ QUARTERS \in Nat
  BY Grid, ExpiryAssumption
<1> DEFINE quarters == [k \in 1 .. QUARTERS |-> FirstQuarter + 900 * (k - 1)]
<1>2. FirstMinute = serverTime + Start /\ FirstQuarter = serverTime + Quarter
  <2>1. FirstMinute \in Int /\ FirstQuarter \in Int
    BY DEF FirstMinute, FirstQuarter, Minute
  <2>2. QED BY <2>1 DEF Start, Quarter
<1> HIDE DEF quarters
<1>3. FiveMinutes \in Seq(Int) /\ Len(FiveMinutes) = 5
  BY <1>1, <1>2 DEF FiveMinutes
<1>4. quarters \in Seq(Int) /\ Len(quarters) = QUARTERS
  BY <1>1, <1>2 DEF quarters
<1>5. Expirations = FiveMinutes \o quarters
  BY DEF Expirations, quarters
<1> PICK s \in Seq(Int) : s = FiveMinutes
  BY <1>3
<1> PICK t \in Seq(Int) : t = quarters
  BY <1>4
<1>6. DOMAIN Expirations = Places
  <2>1. Len(s \o t) = 5 + QUARTERS /\ s \o t \in Seq(Int) /\ Expirations = s \o t
    <3>1. s \o t \in Seq(Int) /\ Len(s \o t) = Len(s) + Len(t)
      BY Joined
    <3>2. Len(s) = 5 /\ Len(t) = QUARTERS
      BY <1>3, <1>4
    <3>3. Expirations = s \o t
      BY <1>5
    <3>4. QED BY <3>1, <3>2, <3>3
  <2>2. QED BY <1>1, <2>1 DEF Places
<1>7. ASSUME NEW k \in Places PROVE Expirations[k] = serverTime + Ahead(k)
  <2>1. CASE k <= 5
    <3>1. Expirations[k] = FiveMinutes[k]
      <4>1. k \in 1 .. Len(s)
        BY <1>1, <1>3, <2>1 DEF Places
      <4>2. (s \o t)[k] = s[k]
        BY <4>1, Joined
      <4>3. QED BY <1>5, <4>2
    <3>2. QED BY <1>1, <1>2, <2>1, <3>1 DEF FiveMinutes, Ahead, Places
  <2>2. CASE k > 5
    <3>1. k \in Int /\ k - 5 \in 1 .. QUARTERS /\ k \in 1 .. 5 + QUARTERS
      BY <1>1, <2>2 DEF Places
    <3>2. Expirations[k] = quarters[k - 5]
      <4>1. (s \o t)[5 + (k - 5)] = t[k - 5]
        <5>1. k - 5 \in 1 .. Len(t) /\ Len(s) = 5
          BY <1>3, <1>4, <3>1
        <5>2. (s \o t)[Len(s) + (k - 5)] = t[k - 5]
          BY <5>1, Joined
        <5>3. QED BY <5>1, <5>2
      <4>2. 5 + (k - 5) = k
        BY <3>1
      <4>3. QED BY <1>5, <4>1, <4>2
    <3>3. quarters[k - 5] = FirstQuarter + 900 * (k - 6)
      BY <1>1, <3>1 DEF quarters
    <3>4. QED BY <1>1, <1>2, <2>2, <3>1, <3>2, <3>3 DEF Ahead
  <2>3. k \in Int
    BY <1>1 DEF Places
  <2>4. QED BY <2>1, <2>2, <2>3
<1>8. QED BY <1>6, <1>7

\* get_expiration_time: the first place of those nearest to the duration from now.
LEMMA Nearest ==
  ASSUME serverTime \in Int, skew \in Int, NEW d \in Int
  PROVE  LET Off(k) == Abs(Ahead(k) - skew - 60 * d)
         IN \E k \in Places :
              /\ GetExpirationTime(d) = [expired |-> serverTime + Ahead(k), idx |-> k - 1]
              /\ \A j \in Places : Off(k) <= Off(j) /\ (j < k => Off(k) < Off(j))
<1> DEFINE Off(k) == Abs(Ahead(k) - skew - 60 * d)
           close == [k \in DOMAIN Expirations |-> Abs(Expirations[k] - LocalTime - 60 * d)]
           best == {k \in DOMAIN close : \A j \in DOMAIN close : close[k] <= close[j]}
<1>1. QUARTERS \in Nat /\ Places \in SUBSET Nat /\ 1 \in Places
  BY ExpiryAssumption DEF Places
<1>2. \A k \in Places : Ahead(k) \in Int
  BY <1>1, Grid DEF Ahead
<1>3. \A k \in Places : Off(k) \in Nat
  BY <1>2 DEF Abs
<1>4. DOMAIN close = Places /\ \A k \in Places : close[k] = Off(k)
  <2>1. \A k \in Places : Expirations[k] - LocalTime - 60 * d = Ahead(k) - skew - 60 * d
    BY <1>2, Listed DEF LocalTime
  <2>2. QED BY <2>1, Listed
<1>5. GetExpirationTime(d) = [expired |-> Expirations[Min(best)], idx |-> Min(best) - 1]
  BY DEF GetExpirationTime
<1> HIDE DEF Off, close
<1> PICK offs : offs = {Off(k) : k \in Places}
  OBVIOUS
<1>6. PICK n \in offs : \A x \in offs : n <= x
  <2>1. offs \in SUBSET Nat /\ offs # {}
    BY <1>1, <1>3
  <2>2. QED BY ONLY <2>1, NatLeast
<1>7. best \in SUBSET Nat /\ best # {}
  <2>1. PICK k \in Places : n = Off(k)
    BY <1>6
  <2>2. k \in best
    BY <1>4, <1>6, <2>1
  <2>3. QED BY <1>1, <1>4, <2>2
<1>8. PICK b \in best : b = Min(best) /\ \A k \in best : b <= k
  BY <1>7, MinIsLeast
<1>9. b \in Places /\ \A j \in Places : Off(b) <= Off(j)
  BY <1>4, <1>8
<1>10. ASSUME NEW j \in Places, j < b PROVE Off(b) < Off(j)
  <2>1. j \notin best /\ b \in Int /\ j \in Int
    BY <1>1, <1>8, <1>9, <1>10
  <2>2. PICK i \in Places : ~(Off(j) <= Off(i))
    BY <1>4, <2>1
  <2>3. Off(j) \in Int /\ Off(i) \in Int /\ Off(b) \in Int /\ Off(b) <= Off(i)
    BY <1>3, <1>9
  <2>4. QED BY <2>2, <2>3
<1>11. Expirations[b] = serverTime + Ahead(b)
  BY <1>9, Listed
<1>12. QED BY <1>5, <1>8, <1>9, <1>10, <1>11 DEF Off

LEMMA ExpiryKept == ExpiryInv /\ [ExpiryNext]_expiryVars => ExpiryInv'
<1> SUFFICES ASSUME ExpiryInv, [ExpiryNext]_expiryVars PROVE ExpiryInv'
  OBVIOUS
<1>0. ASSUME UNCHANGED <<serverTime, skew>> PROVE \A d \in Durations : OptionFor(d)' = OptionFor(d)
  <2>1. Expirations' = Expirations /\ LocalTime' = LocalTime
    BY <1>0 DEF Expirations, FiveMinutes, FirstMinute, FirstQuarter, LocalTime, Minute
  <2>2. QED BY <2>1 DEF OptionFor, GetExpirationTime
<1>1. CASE UNCHANGED expiryVars
  BY <1>0, <1>1 DEF ExpiryInv, expiryVars
<1>2. CASE ExpiryNext
  <2>1. PICK d \in Durations : Buyv3(d)
    BY <1>2 DEF ExpiryNext
  <2>2. option' = OptionFor(d) /\ UNCHANGED <<serverTime, skew>>
    BY <2>1 DEF Buyv3, OptionFor
  <2>3. QED BY <1>0, <2>2 DEF ExpiryInv
<1>3. QED BY <1>1, <1>2

\* What the bought option is: the place it was listed at and the duration asked for.
LEMMA BoughtAt ==
  ASSUME ExpiryInv, Bought
  PROVE  \E d \in Durations, k \in Places :
           /\ option.expired - serverTime = Ahead(k) /\ option.duration = d
           /\ option.type = (IF k <= 5 THEN "turbo" ELSE "binary")
           /\ \A j \in Places :
                /\ Abs(Ahead(k) - skew - 60 * d) <= Abs(Ahead(j) - skew - 60 * d)
                /\ j < k => Abs(Ahead(k) - skew - 60 * d) < Abs(Ahead(j) - skew - 60 * d)
<1>1. serverTime \in Int /\ skew \in Int
  BY ExpiryAssumption DEF ExpiryInv
<1>2. PICK d \in Durations : option = OptionFor(d)
  BY DEF ExpiryInv, Bought
<1>3. d \in Int
  BY ExpiryAssumption
<1>4. PICK k \in Places :
        /\ GetExpirationTime(d) = [expired |-> serverTime + Ahead(k), idx |-> k - 1]
        /\ \A j \in Places :
             /\ Abs(Ahead(k) - skew - 60 * d) <= Abs(Ahead(j) - skew - 60 * d)
             /\ j < k => Abs(Ahead(k) - skew - 60 * d) < Abs(Ahead(j) - skew - 60 * d)
  BY <1>1, <1>3, Nearest
<1>5. k \in Int /\ Ahead(k) \in Int
  <2>1. k \in Int
    BY ExpiryAssumption DEF Places
  <2>2. QED BY <1>1, <2>1, Grid DEF Ahead
<1>6. option.expired = serverTime + Ahead(k) /\ option.duration = d /\ option.type = OptionType(k - 1)
  BY <1>2, <1>4 DEF OptionFor
<1>7. option.expired - serverTime = Ahead(k)
  BY <1>1, <1>5, <1>6
<1>8. option.type = (IF k <= 5 THEN "turbo" ELSE "binary")
  BY <1>5, <1>6 DEF OptionType
<1>9. QED BY <1>4, <1>6, <1>7, <1>8

\* Every place is a whole number of minutes after the first; those of the quarters are
\* the later ones.
LEMMA PlacesAhead ==
  ASSUME serverTime \in Int, NEW k \in Places
  PROVE  /\ k \in Int /\ k >= 1 /\ Ahead(k) \in Int /\ Ahead(k) > 30
         /\ k <= 5 => Ahead(k) = Start + 60 * (k - 1)
         /\ k > 5 => Ahead(k) = Quarter + 900 * (k - 6) /\ Ahead(k) > 300
         /\ \E e \in Nat : Ahead(k) = Start + 60 * e /\ (k <= 5 => e = k - 1)
<1>1. k \in Int /\ k >= 1
  BY ExpiryAssumption DEF Places
<1>2. PICK c \in Int : Quarter = Start + 60 * c
  BY Grid
<1>3. Start \in 31 .. 90 /\ Quarter \in 301 .. 1200
  BY Grid
<1>4. CASE k <= 5
  <2>1. Ahead(k) = Start + 60 * (k - 1) /\ k - 1 \in Nat
    BY <1>1, <1>4 DEF Ahead
  <2>2. QED BY <1>1, <1>3, <1>4, <2>1
<1>5. CASE k > 5
  <2>1. Ahead(k) = Quarter + 900 * (k - 6)
    BY <1>1, <1>5 DEF Ahead
  <2>2. Ahead(k) = Start + 60 * (c + 15 * (k - 6)) /\ Ahead(k) > 300
    BY <1>1, <1>2, <1>3, <1>5, <2>1
  <2>3. c + 15 * (k - 6) \in Nat
    BY <1>1, <1>2, <1>3, <1>5
  <2>4. \E e \in Nat : Ahead(k) = Start + 60 * e
    BY <2>2, <2>3
  <2>5. ~(k <= 5) /\ Ahead(k) \in Int /\ Ahead(k) > 30
    BY <1>1, <1>3, <1>5, <2>1
  <2>6. QED BY <1>1, <1>5, <2>1, <2>2, <2>4, <2>5
<1>6. QED BY <1>1, <1>4, <1>5

\* One to five minutes are listed at their own place, half a minute off at most, and a
\* number of quarters half a quarter off at one of two places.
LEMMA NearMinute ==
  ASSUME serverTime \in Int, NEW d \in 1 .. 5
  PROVE  d \in Places /\ Ahead(d) - 60 * d = Start - 60 /\ Start - 60 \in -29 .. 30
<1>1. Start \in 31 .. 90 /\ QUARTERS \in Nat
  BY Grid, ExpiryAssumption
<1>2. d \in Places
  BY <1>1 DEF Places
<1>3. Ahead(d) = Start + 60 * (d - 1)
  BY DEF Ahead
<1>4. QED BY <1>1, <1>2, <1>3

LEMMA NearQuarter ==
  ASSUME serverTime \in Int, NEW p \in 1 .. QUARTERS - 1
  PROVE  /\ p \in Int /\ 5 + p \in Places /\ 6 + p \in Places
         /\ Ahead(5 + p) - 900 * p = Quarter - 900 /\ Ahead(6 + p) - 900 * p = Quarter
         /\ Quarter \in 301 .. 1200
<1>1. Quarter \in 301 .. 1200 /\ QUARTERS \in Nat /\ p \in Int
  BY Grid, ExpiryAssumption
<1>2. 5 + p \in Places /\ 6 + p \in Places
  BY <1>1 DEF Places
<1>3. Ahead(5 + p) = Quarter + 900 * (p - 1) /\ Ahead(6 + p) = Quarter + 900 * p
  BY <1>1 DEF Ahead
<1>4. QED BY <1>1, <1>2, <1>3

\* Whole minutes: the one nearest to a target that is off by at most half a minute.
LEMMA MinuteOff ==
  ASSUME NEW u \in -29 .. 30, NEW w \in Int, NEW x \in -30 .. 30,
         Abs(u + 60 * w - x) <= Abs(u - x),
         w = -2 => Abs(u + 60 * w - x) <= Abs(u - 60 - x)
  PROVE  Abs(u + 60 * w) <= 30 + Abs(x)
<1>1. CASE w >= 1
  BY <1>1 DEF Abs
<1>2. CASE w = 0
  BY <1>2 DEF Abs
<1>3. CASE w <= -1
  BY <1>3 DEF Abs
<1>4. QED BY <1>1, <1>2, <1>3

LEMMA Triangle ==
  ASSUME NEW a \in Int, NEW x \in Int, NEW b \in Int, NEW n \in Nat,
         Abs(a - x) <= Abs(b - x), Abs(b) <= n
  PROVE  Abs(a) <= 2 * Abs(x) + n
BY DEF Abs

LEMMA ChosenFits == ASSUME ExpiryInv PROVE ExpiryFits
<1> SUFFICES ASSUME Bought PROVE ExpiryFits
  BY DEF ExpiryFits
<1>1. PICK d \in Durations, k \in Places :
           /\ option.expired - serverTime = Ahead(k) /\ option.duration = d
           /\ option.type = (IF k <= 5 THEN "turbo" ELSE "binary")
           /\ \A j \in Places :
                /\ Abs(Ahead(k) - skew - 60 * d) <= Abs(Ahead(j) - skew - 60 * d)
                /\ j < k => Abs(Ahead(k) - skew - 60 * d) < Abs(Ahead(j) - skew - 60 * d)
  BY BoughtAt
<1>2. serverTime \in Int /\ skew \in Int /\ d \in Int
  BY ExpiryAssumption DEF ExpiryInv
<1> DEFINE y == Ahead(k) - 60 * d
<1>3. k \in Int /\ k >= 1 /\ Ahead(k) \in Int /\ Ahead(k) > 30 /\ (k > 5 => Ahead(k) > 300)
  BY <1>2, PlacesAhead
<1>4. PICK e \in Nat : Ahead(k) = Start + 60 * e /\ (k <= 5 => e = k - 1)
  BY <1>2, PlacesAhead
<1>5. Start \in 31 .. 90
  BY <1>2, Grid
<1>6. CASE d \in 1 .. 5
  <2> PICK u \in -29 .. 30 : u = Start - 60
    BY <1>5
  <2> PICK w \in Int : w = e + 1 - d
    BY <1>2
  <2>1. d \in Places /\ Ahead(d) - 60 * d = u
    BY <1>2, <1>6, NearMinute
  <2>2. y \in Int /\ y = u + 60 * w
    BY <1>2, <1>3, <1>4
  <2>3. Abs(y - skew) <= Abs(u - skew)
    <3>1. Ahead(d) \in Int
      BY <1>2, <2>1, PlacesAhead
    <3>2. Ahead(k) - skew - 60 * d = y - skew /\ Ahead(d) - skew - 60 * d = u - skew
      BY <1>2, <1>3, <2>1, <3>1
    <3>3. QED BY <1>1, <2>1, <3>2
  <2>4. Abs(y) <= 2 * Abs(skew) + 30
    <3>1. Abs(u) <= 30
      BY DEF Abs
    <3>2. QED BY <1>2, <2>2, <2>3, <3>1, Triangle
  <2>5. ASSUME Abs(skew) <= 30 PROVE Abs(y) <= Abs(skew) + 30
    <3>1. skew \in -30 .. 30
      BY <1>2, <2>5 DEF Abs
    <3>2. ASSUME w = -2 PROVE Abs(y - skew) <= Abs(u - 60 - skew)
      <4>1. d - 1 \in 1 .. 5
        BY <1>2, <1>6, <3>2
      <4>2. d - 1 \in Places /\ Ahead(d - 1) - 60 * (d - 1) = u
        BY <1>2, <4>1, NearMinute
      <4>3. Ahead(d - 1) \in Int
        BY <1>2, <4>2, PlacesAhead
      <4>4. Ahead(k) - skew - 60 * d = y - skew /\ Ahead(d - 1) - skew - 60 * d = u - 60 - skew
        BY <1>2, <1>3, <4>2, <4>3
      <4>5. QED BY <1>1, <4>2, <4>4
    <3>3. Abs(u + 60 * w) <= 30 + Abs(skew)
      <4> HIDE DEF y
      <4>0. y - skew = u + 60 * w - skew
        BY <1>2, <2>2
      <4>1. Abs(u + 60 * w - skew) <= Abs(u - skew)
        BY <2>3, <4>0
      <4>2. w = -2 => Abs(u + 60 * w - skew) <= Abs(u - 60 - skew)
        BY <3>2, <4>0
      <4>3. QED BY <3>1, <4>1, <4>2, MinuteOff
    <3>4. Abs(skew) \in Int
      BY <1>2 DEF Abs
    <3>5. QED BY <2>2, <3>3, <3>4
  <2>6. ASSUME skew = 0 PROVE k <= 5
    <3> SUFFICES ASSUME k > 5 PROVE FALSE
      BY <1>3
    <3>1. Abs(Ahead(k) - 60 * d) < Abs(u)
      <4>1. d < k /\ Ahead(d) \in Int
        BY <1>2, <1>3, <1>6, <2>1, PlacesAhead
      <4>2. Ahead(k) - skew - 60 * d = Ahead(k) - 60 * d /\ Ahead(d) - skew - 60 * d = u
        BY <1>2, <1>3, <2>1, <2>6, <4>1
      <4>3. QED BY <1>1, <2>1, <4>1, <4>2
    <3>2. Abs(u + 60 * w) < Abs(u)
      BY <2>2, <3>1
    <3>3. w # 0
      BY <3>2 DEF Abs
    <3>4. w < 0
      BY <3>2, <3>3 DEF Abs
    <3>5. e + 1 \in 1 .. 5 /\ e + 1 < k
      BY <1>2, <1>3, <1>6, <3>4
    <3>6. e + 1 \in Places /\ Ahead(e + 1) = Ahead(k)
      <4>1. e + 1 \in Places /\ Ahead(e + 1) - 60 * (e + 1) = u
        BY <1>2, <3>5, NearMinute
      <4>2. Ahead(e + 1) \in Int
        BY <1>2, <4>1, PlacesAhead
      <4>3. QED BY <1>3, <1>4, <4>1, <4>2
    <3>7. Abs(Ahead(k) - skew - 60 * d) < Abs(Ahead(k) - skew - 60 * d)
      BY <1>1, <3>5, <3>6
    <3>8. Abs(Ahead(k) - skew - 60 * d) \in Int
      BY <1>2, <1>3 DEF Abs
    <3>9. QED BY <3>7, <3>8
  <2>7. d <= 5
    BY <1>6
  <2>8. option.expired - serverTime - 60 * option.duration = y
    BY <1>1
  <2> HIDE DEF y
  <2>9. QED BY <1>1, <1>3, <2>4, <2>5, <2>6, <2>7, <2>8 DEF ExpiryFits
<1>7. CASE d \notin 1 .. 5
  <2>1. PICK p \in 1 .. QUARTERS - 1 : d = 15 * p
    BY <1>7, ExpiryAssumption
  <2>2. /\ p \in Int /\ p >= 1 /\ 5 + p \in Places /\ 6 + p \in Places
        /\ Ahead(5 + p) - 900 * p = Quarter - 900 /\ Ahead(6 + p) - 900 * p = Quarter
        /\ Quarter \in 301 .. 1200
    <3>1. p \in Int /\ p >= 1
      BY ExpiryAssumption
    <3>2. QED BY <1>2, <3>1, NearQuarter
  <2>3. \E j \in Places : Ahead(j) \in Int /\ Abs(Ahead(j) - 900 * p) <= 450
    <3>1. Ahead(5 + p) \in Int /\ Ahead(6 + p) \in Int
      BY <1>2, <2>2, PlacesAhead
    <3>2. Abs(Quarter - 900) <= 450 \/ Abs(Quarter) <= 450
      BY <2>2 DEF Abs
    <3>3. QED BY <2>2, <3>1, <3>2
  <2>4. PICK j \in Places : Ahead(j) \in Int /\ Abs(Ahead(j) - 900 * p) <= 450
    BY <2>3
  <2> PICK b \in Int : b = Ahead(j) - 900 * p
    BY <2>2, <2>4
  <2>5. y \in Int /\ y = Ahead(k) - 900 * p
    BY <1>3, <2>1, <2>2
  <2>6. Abs(y - skew) <= Abs(b - skew)
    <3>1. Ahead(k) - skew - 60 * d = y - skew /\ Ahead(j) - skew - 60 * d = b - skew
      BY <1>2, <1>3, <2>1, <2>2, <2>4
    <3>2. QED BY <1>1, <3>1
  <2>7. Abs(y) <= 2 * Abs(skew) + 450
    BY <1>2, <2>4, <2>5, <2>6, Triangle
  <2>8. ASSUME skew = 0 PROVE k > 5
    <3> SUFFICES ASSUME k <= 5 PROVE FALSE
      BY <1>3
    <3>1. Ahead(k) <= 330
      BY <1>3, <1>4, <1>5
    <3>2. y <= -570
      BY <1>3, <2>2, <2>5, <3>1
    <3>3. Abs(y) >= 570
      BY <2>5, <3>2 DEF Abs
    <3>4. Abs(y) <= 450
      BY <2>7, <2>8, <2>5 DEF Abs
    <3>5. QED BY <2>5, <3>3, <3>4 DEF Abs
  <2>9. ~(d <= 5)
    BY <2>1, <2>2
  <2>10. option.expired - serverTime - 60 * option.duration = y
    BY <1>1
  <2> HIDE DEF y
  <2>11. QED BY <1>1, <1>3, <2>7, <2>8, <2>9, <2>10 DEF ExpiryFits
<1>8. QED BY <1>6, <1>7

\* The label of a place names no other.
LEMMA ToldAt ==
  ASSUME serverTime \in Int, skew = 0
  PROVE  /\ \A d \in 1 .. 5 : GetRemaning(d) = Ahead(d)
         /\ \A p \in 1 .. QUARTERS - 1 : GetRemaning(15 * p) = Ahead(5 + p)
<1> DEFINE At(d) == CHOOSE k \in Places : Label(k) = d
<1>1. QUARTERS \in Nat /\ \A k \in Places : k \in Int /\ k >= 1
  BY ExpiryAssumption DEF Places
<1>2. ASSUME NEW d \in Int PROVE GetRemaning(d) = Expirations[At(d)] - serverTime
  <2>1. LocalTime = serverTime
    BY <1>2 DEF LocalTime
  <2>2. QED BY <2>1, Listed DEF GetRemaning
<1> HIDE DEF At
<1>3. ASSUME NEW k \in Places PROVE Expirations[k] - serverTime = Ahead(k)
  <2>1. Expirations[k] = serverTime + Ahead(k) /\ Ahead(k) \in Int
    BY Listed, PlacesAhead
  <2>2. QED BY <2>1
<1>4. ASSUME NEW d \in 1 .. 5 PROVE GetRemaning(d) = Ahead(d)
  <2>1. d \in Places /\ Label(d) = d
    BY <1>1 DEF Label, Places
  <2>2. \A k \in Places : Label(k) = d => k = d
    BY <1>1 DEF Label
  <2>3. At(d) = d
    BY <2>1, <2>2 DEF At
  <2>4. QED BY <1>2, <1>3, <2>1, <2>3
<1>5. ASSUME NEW p \in 1 .. QUARTERS - 1 PROVE GetRemaning(15 * p) = Ahead(5 + p)
  <2>1. p \in Int /\ p >= 1 /\ 15 * p \in Int
    BY <1>1
  <2>2. 5 + p \in Places /\ Label(5 + p) = 15 * p
    BY <1>1, <2>1 DEF Label, Places
  <2>3. \A k \in Places : Label(k) = 15 * p => k = 5 + p
    BY <1>1, <2>1 DEF Label
  <2>4. At(15 * p) = 5 + p
    BY <2>2, <2>3 DEF At
  <2>5. QED BY <1>2, <1>3, <2>1, <2>2, <2>4
<1>6. QED BY <1>4, <1>5

LEMMA ChosenIsTold == ASSUME ExpiryInv PROVE RemainingIsWhatIsBought
<1> SUFFICES ASSUME Bought, skew = 0 PROVE RemainingIsWhatIsBought
  BY DEF RemainingIsWhatIsBought
<1> DEFINE told == GetRemaning(option.duration)
           left == option.expired - serverTime
<1>1. PICK d \in Durations, k \in Places :
           /\ option.expired - serverTime = Ahead(k) /\ option.duration = d
           /\ option.type = (IF k <= 5 THEN "turbo" ELSE "binary")
           /\ \A j \in Places :
                /\ Abs(Ahead(k) - skew - 60 * d) <= Abs(Ahead(j) - skew - 60 * d)
                /\ j < k => Abs(Ahead(k) - skew - 60 * d) < Abs(Ahead(j) - skew - 60 * d)
  BY BoughtAt
<1>2. serverTime \in Int /\ skew \in Int /\ d \in Int
  <2>1. Durations \subseteq Int /\ d \in Durations
    BY ONLY ExpiryAssumption, d \in Durations
  <2>2. QED BY <2>1, ExpiryAssumption DEF ExpiryInv
<1>3. \A j \in Places : j \in Int /\ Ahead(j) \in Int
  BY <1>2, PlacesAhead
<1>4. \A j \in Places :
        /\ Abs(Ahead(k) - 60 * d) <= Abs(Ahead(j) - 60 * d)
        /\ j < k => Abs(Ahead(k) - 60 * d) < Abs(Ahead(j) - 60 * d)
  <2>1. \A j \in Places : Ahead(j) - skew - 60 * d = Ahead(j) - 60 * d
    BY <1>2, <1>3
  <2>2. QED BY <1>1, <2>1
<1>5. option.type = "turbo" <=> d <= 5
  <2>1. Abs(skew) = 0
    BY DEF Abs
  <2>2. QED BY <1>1, ChosenFits DEF ExpiryFits
<1>6. k \in Int /\ k >= 1 /\ (k <= 5 <=> d <= 5)
  BY <1>1, <1>2, <1>5, PlacesAhead
<1>7. CASE d \in 1 .. 5
  <2>1. k \in 1 .. 5
    BY <1>6, <1>7
  <2> PICK u \in -29 .. 30 : u = Start - 60
    BY <1>2, <1>7, NearMinute
  <2>2. \A j \in 1 .. 5 : j \in Places /\ Ahead(j) \in Int /\ Ahead(j) - 60 * j = u
    BY <1>2, <1>3, NearMinute
  <2>3. told = 60 * d + u /\ left = 60 * k + u
    BY <1>1, <1>2, <1>7, <2>1, <2>2, ToldAt
  <2>4. \A j \in 1 .. 5 : Ahead(j) - 60 * d = u + 60 * (j - d)
    BY <1>2, <2>2
  <2>5. \A j \in 1 .. 5 : /\ Abs(u + 60 * (k - d)) <= Abs(u + 60 * (j - d))
                          /\ j < k => Abs(u + 60 * (k - d)) < Abs(u + 60 * (j - d))
    BY <1>4, <2>1, <2>2, <2>4
  <2>6. CASE u = 30 /\ d > 1
    <3>1. d - 1 \in 1 .. 5 /\ d - 1 - d = -1
      BY <1>2, <1>7, <2>6
    <3>2. Abs(u + 60 * (k - d)) <= 30
      <4>1. Abs(u + 60 * (k - d)) <= Abs(u + 60 * (d - 1 - d))
        BY <2>5, <3>1
      <4>2. Abs(u + 60 * (d - 1 - d)) = 30
        BY <2>6, <3>1 DEF Abs
      <4>3. QED BY <4>1, <4>2
    <3>3. k - d = 0 \/ k - d = -1
      BY <1>2, <2>1, <2>6, <3>2 DEF Abs
    <3>4. k # d
      <4> SUFFICES ASSUME k = d PROVE FALSE
        OBVIOUS
      <4>1. d - 1 < k
        BY <1>2
      <4>2. Abs(u + 60 * (k - d)) < Abs(u + 60 * (d - 1 - d))
        BY <2>5, <3>1, <4>1
      <4>3. QED BY <1>2, <2>6, <4>2 DEF Abs
    <3>5. left = told - 60
      BY <1>2, <2>1, <2>3, <3>3, <3>4
    <3>6. told = 60 * d + 30
      BY <2>3, <2>6
    <3>7. QED BY <1>1, <1>7, <2>6, <3>5, <3>6 DEF RemainingIsWhatIsBought
  <2>7. CASE ~(u = 30 /\ d > 1)
    <3>1. Abs(u + 60 * (k - d)) <= Abs(u)
      <4>1. Abs(u + 60 * (k - d)) <= Abs(u + 60 * (d - d))
        BY <1>7, <2>5
      <4>2. u + 60 * (d - d) = u
        BY <1>2
      <4>3. QED BY <4>1, <4>2
    <3>2. k = d
      BY <1>2, <1>7, <2>1, <2>7, <3>1 DEF Abs
    <3>3. left = told /\ told \in Int
      BY <1>2, <2>3, <3>2
    <3>4. ~(told = 60 * d + 30 /\ d > 1)
      BY <1>2, <2>3, <2>7
    <3>5. left = told - 0
      BY <3>3
    <3>6. QED BY <1>1, <1>7, <3>4, <3>5 DEF RemainingIsWhatIsBought
  <2>8. QED BY <2>6, <2>7
<1>8. CASE d \notin 1 .. 5
  <2>1. PICK p \in 1 .. QUARTERS - 1 : d = 15 * p
    BY <1>8, ExpiryAssumption
  <2>2. /\ p \in Int /\ 5 + p \in Places /\ 6 + p \in Places
        /\ Ahead(5 + p) - 900 * p = Quarter - 900 /\ Ahead(6 + p) - 900 * p = Quarter
        /\ Quarter \in 301 .. 1200
    BY <1>2, NearQuarter
  <2>3. p >= 1 /\ ~(d <= 5) /\ k > 5
    <3>1. p >= 1
      BY <2>2, ExpiryAssumption
    <3>2. QED BY <1>6, <2>1, <2>2, <3>1
  <2>4. told = Quarter + 900 * (p - 1) /\ told \in Int
    <3>1. told = Ahead(5 + p)
      BY <1>1, <1>2, <2>1, ToldAt
    <3>2. Ahead(5 + p) \in Int
      BY <1>3, <2>2
    <3>3. QED BY <2>2, <3>1, <3>2
  <2> PICK w \in Int : w = k - 5 - p
    BY <1>6, <2>2
  <2>5. left = Quarter + 900 * (p + w - 1) /\ left - 900 * p = Quarter - 900 + 900 * w
    <3>1. Ahead(k) = Quarter + 900 * (k - 6)
      BY <1>2, <2>3, PlacesAhead
    <3>2. QED BY <1>1, <1>6, <2>2, <3>1
  <2>6. /\ Abs(Quarter - 900 + 900 * w) <= Abs(Quarter - 900)
        /\ Abs(Quarter - 900 + 900 * w) <= Abs(Quarter)
        /\ w > 0 => Abs(Quarter - 900 + 900 * w) < Abs(Quarter - 900)
    <3>1. Ahead(k) - 60 * d = Quarter - 900 + 900 * w
      BY <1>1, <1>2, <2>1, <2>2, <2>5
    <3>2. Ahead(5 + p) - 60 * d = Quarter - 900 /\ Ahead(6 + p) - 60 * d = Quarter
      BY <1>3, <2>1, <2>2
    <3>3. w > 0 => 5 + p < k
      BY <1>6, <2>2
    <3>4. QED BY <1>4, <2>2, <3>1, <3>2, <3>3
  <2> PICK q \in 301 .. 1200 : q = Quarter
    BY <2>2
  <2>7. IF q < 450 THEN w = 1 ELSE w = 0
    BY <2>6 DEF Abs
  <2>8. told < 60 * d - 450 <=> q < 450
    BY <2>1, <2>2, <2>4
  <2>9. left = told + 900 * w
    BY <2>2, <2>4, <2>5
  <2>10. left = told + (IF told < 60 * d - 450 THEN 900 ELSE 0)
    BY <2>7, <2>8, <2>9
  <2>11. QED BY <1>1, <2>3, <2>10 DEF RemainingIsWhatIsBought
<1>9. QED BY <1>7, <1>8

\* An option fits the duration asked for and the time the user was told, whatever the
\* clocks say, for any durations and any number of quarters (get_expiration_time,
\* get_remaning_time).
THEOREM ExpiryAsToldHolds == ExpirySpec => []ExpiryAsTold
<1>1. ExpiryInit => ExpiryInv
  BY DEF ExpiryInit, ExpiryInv
<1>2. ExpiryInv /\ [ExpiryNext]_expiryVars => ExpiryInv'
  BY ExpiryKept
<1>3. ExpiryInv => ExpiryAsTold
  BY ChosenFits, ChosenIsTold DEF ExpiryAsTold
<1>4. QED BY <1>1, <1>2, <1>3, PTL DEF ExpirySpec

-----------------------------------------------------------------------------
(***************************************************************************)
(* RiskSizing: what an order and a day may lose, and the ladder and the    *)
(* memory the sizes come from.                                             *)
(***************************************************************************)

Gales == 0 .. MAX_GALES
Results == {"open", "win", "loss", "tie"}
OrderRecords == [asset : Assets, stake : Nat, result : Results, watched : BOOLEAN,
                 of : Nat, edge : BOOLEAN, step : Gales]
TradeRecords == [asset : Assets, won : BOOLEAN]
SettledRecords == [asset : Assets, result : Results, cash : Nat]
MemoryRecords == [wins : Nat, losses : Nat, outcomes : Seq(BOOLEAN)]

RiskTypes ==
  /\ balance \in Nat /\ initialBalance \in Nat
  /\ orders \in Seq(OrderRecords) /\ gale \in [Assets -> Gales]
  /\ memory \in [Assets -> MemoryRecords]
  /\ tradesTable \in Seq(TradeRecords) /\ settled \in Seq(SettledRecords)

\* The trades of a at the places first to last of a table.
Own(table, a, first, last) == {i \in first .. last : table[i].asset = a}

\* k is the number of the trade i of S counted from the newest.
Newest(S, i, k) == Cardinality({j \in S : j >= i}) = k

\* r is what playing those trades gives.
Replayed(table, r, a, first, last) ==
  LET own == Own(table, a, first, last)
  IN /\ \A k \in DOMAIN r.outcomes : \E i \in own : Newest(own, i, k) /\ r.outcomes[k] = table[i].won
     /\ Len(r.outcomes) = Min({KEEP, Cardinality(own)})
     /\ Total(r) = Cardinality(own)

\* The memory was played from a place that is not among the last LIMIT trades.
MemoryInv ==
  \E first \in 1 .. Len(tradesTable) + 1 :
    /\ first = 1 \/ first <= Len(tradesTable) - LIMIT + 1
    /\ \A a \in Assets : Replayed(tradesTable, memory[a], a, first, Len(tradesTable))

RiskInv == RiskTypes /\ StakeRule /\ LossBounded /\ GaleIsStreak /\ MemoryInv

-----------------------------------------------------------------------------
(* Sizes *)

LEMMA MinOf ==
  ASSUME NEW x \in Int, NEW y \in Int
  PROVE  Min({x, y}) = IF x <= y THEN x ELSE y
<1>1. CASE x <= y
  BY <1>1, MinIs, x \in {x, y}, {x, y} \in SUBSET Int
<1>2. CASE ~(x <= y)
  BY <1>2, MinIs, y \in {x, y}, {x, y} \in SUBSET Int
<1>3. QED BY <1>1, <1>2

LEMMA MaxOf ==
  ASSUME NEW x \in Int, NEW y \in Int
  PROVE  Max({x, y}) = IF x >= y THEN x ELSE y
<1>1. CASE x >= y
  BY <1>1, MaxIs, x \in {x, y}, {x, y} \in SUBSET Int
<1>2. CASE ~(x >= y)
  BY <1>2, MaxIs, y \in {x, y}, {x, y} \in SUBSET Int
<1>3. QED BY <1>1, <1>2

\* Rounding is off by half a dollar at most.
LEMMA RoundNear ==
  ASSUME NEW x \in Nat
  PROVE  /\ Round(x) \in Nat /\ 1000 * Round(x) <= x + 500 /\ 1000 * Round(x) >= x - 500
         /\ x >= 2000 => Round(x) >= 2
         /\ x = 2000 => Round(x) = 2
<1> DEFINE q == x \div 1000
           r == x % 1000
<1>1. q \in Nat /\ r \in 0 .. 999 /\ x = 1000 * q + r
  <2>1. \A y \in Nat : y \div 1000 \in Nat /\ y % 1000 \in 0 .. 999 /\ y = 1000 * (y \div 1000) + (y % 1000)
    OBVIOUS
  <2>2. QED BY <2>1
<1>2. Round(x) = IF r > 500 \/ (r = 500 /\ q % 2 = 1) THEN q + 1 ELSE q
  BY DEF Round
<1> HIDE DEF q, r
<1>3. QED BY <1>1, <1>2

LEMMA CappedIs ==
  ASSUME RiskTypes, NEW a \in Assets, NEW size \in Int
  PROVE  /\ Capped(size, a) \in Nat /\ Capped(size, a) >= 2000
         /\ Capped(size, a) <= 50 * balance \/ Capped(size, a) = 2000
         /\ gale[a] = 0 /\ size >= 2000 =>
              Capped(size, a) <= size /\ Capped(size, a) >= Min({size, 50 * balance})
<1> DEFINE s == size * 2^gale[a]
<1>1. balance \in Nat /\ gale[a] \in Nat
  BY RiskAssumption DEF RiskTypes, Gales
<1>2. s \in Int /\ (gale[a] = 0 => s = size)
  <2>1. 2^gale[a] \in Int
    BY <1>1
  <2>2. 2^0 = 1
    OBVIOUS
  <2>3. PICK p \in Int : p = 2^gale[a]
    BY <2>1
  <2>4. size * p \in Int /\ size * 1 = size
    OBVIOUS
  <2>5. gale[a] = 0 => p = 1
    BY <2>2, <2>3
  <2>6. s = size * p
    BY <2>3
  <2> HIDE DEF s
  <2>7. QED BY <2>4, <2>5, <2>6
<1> HIDE DEF s
<1>3. Min({s, 50 * balance}) = IF s <= 50 * balance THEN s ELSE 50 * balance
  BY <1>1, <1>2, MinOf
<1> PICK m \in Int : m = Min({s, 50 * balance})
  BY <1>1, <1>2, <1>3
<1>4. Max({2000, m}) = IF 2000 >= m THEN 2000 ELSE m
  BY MaxOf
<1>5. Capped(size, a) = Max({2000, m})
  BY DEF Capped, s
<1> PICK c \in Int : c = Capped(size, a)
  BY <1>4, <1>5
<1>6. c = IF 2000 >= m THEN 2000 ELSE m
  BY <1>4, <1>5
<1>7. c \in Nat /\ c >= 2000 /\ (c <= 50 * balance \/ c = 2000)
  BY <1>1, <1>2, <1>3, <1>6
<1>8. ASSUME gale[a] = 0, size >= 2000 PROVE c <= size /\ c >= Min({size, 50 * balance})
  <2>1. s = size /\ m = Min({size, 50 * balance})
    BY <1>2, <1>8
  <2>2. c <= size
    BY <1>1, <1>3, <1>6, <1>8, <2>1
  <2>3. c >= m
    BY <1>6
  <2>4. QED BY <2>1, <2>2, <2>3
<1>9. QED BY <1>7, <1>8

LEMMA KellySize ==
  ASSUME RiskTypes, NEW a \in Assets, NEW size \in KellySizes(a)
  PROVE  /\ size \in Int /\ size >= 2000
         /\ IF Edge(a) THEN size <= Floored(15 * balance) ELSE size = Floored(RISK_PERMILLE * balance)
<1>1. balance \in Nat /\ RISK_PERMILLE \in Nat /\ LeastPermille(a) \in Nat
  BY RiskAssumption DEF RiskTypes, LeastPermille
<1>2. \A m, n \in Nat : m * n = n * m /\ m * n \in Nat
  OBVIOUS
<1>3. \A n \in Nat : Floored(n) \in Int /\ Floored(n) >= 2000
  BY MaxOf DEF Floored
<1>4. CASE Edge(a)
  <2>1. size \in Floored(balance * LeastPermille(a)) .. Floored(balance * 15)
    BY <1>4 DEF KellySizes
  <2>2. balance * 15 = 15 * balance /\ balance * LeastPermille(a) \in Nat
    BY <1>1, <1>2
  <2> PICK n \in Nat : n = balance * LeastPermille(a)
    BY <2>2
  <2>3. Floored(n) \in Int /\ Floored(n) >= 2000 /\ size \in Floored(n) .. Floored(balance * 15)
    BY <1>3, <2>1
  <2>4. size \in Int /\ size >= 2000 /\ size <= Floored(balance * 15)
    BY <2>3
  <2>5. QED BY <1>4, <2>2, <2>4
<1>5. CASE ~Edge(a)
  <2>1. size = Floored(balance * RISK_PERMILLE)
    BY <1>5 DEF KellySizes
  <2>2. balance * RISK_PERMILLE = RISK_PERMILLE * balance /\ balance * RISK_PERMILLE \in Nat
    BY <1>1, <1>2
  <2>3. QED BY <1>3, <1>5, <2>1, <2>2
<1>6. QED BY <1>4, <1>5

\* What StakeRule says of one order.
StakeWell(o) ==
  /\ 2 <= o.stake /\ o.stake <= o.of
  /\ 1000 * o.stake <= 50 * o.of + 500 \/ (o.stake = 2 /\ o.of < 40)
  /\ o.edge /\ o.step = 0 => 1000 * o.stake <= Floored(15 * o.of) + 500
  /\ ~o.edge /\ o.step = 0 =>
       /\ 1000 * o.stake <= Floored(RISK_PERMILLE * o.of) + 500
       /\ 1000 * o.stake >= Min({RISK_PERMILLE, 50}) * o.of - 500

\* Neither the floor nor the cap takes a size off the ladder below the smaller of
\* the initial risk and 5 %.
LEMMA LeastStake ==
  ASSUME NEW r \in Nat, NEW b \in Nat, NEW c \in Int,
         c >= Min({Floored(r * b), 50 * b})
  PROVE  c >= Min({r, 50}) * b
<1>1. r * b \in Nat /\ 50 * b \in Nat
  OBVIOUS
<1> PICK n \in Nat : n = r * b
  BY <1>1
<1>2. Floored(n) \in Int /\ Floored(n) >= n
  BY MaxOf DEF Floored
<1> PICK f \in Int : f = Floored(n)
  BY <1>2
<1>3. Min({f, 50 * b}) = IF f <= 50 * b THEN f ELSE 50 * b
  BY <1>1, MinOf
<1>4. c >= n \/ c >= 50 * b
  BY <1>1, <1>2, <1>3
<1>5. Min({r, 50}) = IF r <= 50 THEN r ELSE 50
  BY MinOf
<1>6. CASE r <= 50
  <2>1. r * b <= 50 * b
    BY <1>6
  <2>2. c >= r * b
    BY <1>1, <1>4, <2>1
  <2>3. QED BY <1>5, <1>6, <2>2
<1>7. CASE r > 50
  <2>1. r * b >= 50 * b
    BY <1>7
  <2>2. c >= 50 * b
    BY <1>1, <1>4, <2>1
  <2>3. QED BY <1>5, <1>7, <2>2
<1>8. QED BY <1>6, <1>7

LEMMA OpenedWell ==
  ASSUME RiskTypes, NEW a \in Assets, NEW stake \in StakesOf(a), OpenTrade(a, stake)
  PROVE  \E e \in OrderRecords :
           /\ StakeWell(e) /\ e.watched /\ e.stake <= balance
           /\ orders' = Append(orders, e) /\ balance' = balance - e.stake
           /\ UNCHANGED <<initialBalance, gale, memory, tradesTable, settled, locked>>
<1> PICK size \in KellySizes(a) : stake = Round(Capped(size, a))
  BY DEF StakesOf
<1> DEFINE c == Capped(size, a)
           e == [asset |-> a, stake |-> stake, result |-> "open", watched |-> TRUE,
                 of |-> balance, edge |-> Edge(a), step |-> gale[a]]
<1>1. /\ stake <= balance /\ orders' = Append(orders, e) /\ balance' = balance - stake
      /\ UNCHANGED <<initialBalance, gale, memory, tradesTable, settled, locked>>
  BY DEF OpenTrade
<1>2. /\ size \in Int /\ size >= 2000
      /\ IF Edge(a) THEN size <= Floored(15 * balance) ELSE size = Floored(RISK_PERMILLE * balance)
  BY KellySize
<1>3. /\ c \in Nat /\ c >= 2000 /\ (c <= 50 * balance \/ c = 2000)
      /\ gale[a] = 0 => c <= size /\ c >= Min({size, 50 * balance})
  BY <1>2, CappedIs
<1>4. balance \in Nat /\ gale[a] \in Gales /\ Edge(a) \in BOOLEAN /\ RISK_PERMILLE \in Nat
  BY RiskAssumption DEF RiskTypes, Edge
<1>5. stake = Round(c)
  OBVIOUS
<1> HIDE DEF c
<1>6. /\ stake \in Nat /\ 1000 * stake <= c + 500 /\ 1000 * stake >= c - 500
      /\ stake >= 2 /\ (c = 2000 => stake = 2)
  BY <1>3, <1>5, RoundNear
<1>7. e \in OrderRecords
  BY <1>4, <1>6 DEF OrderRecords, Results
<1>8. \A n \in Nat : Floored(n) \in Int
  BY MaxOf DEF Floored
<1>9. 1000 * stake <= 50 * balance + 500 \/ (stake = 2 /\ balance < 40)
  BY <1>3, <1>4, <1>6
<1>10. Edge(a) /\ gale[a] = 0 => 1000 * stake <= Floored(15 * balance) + 500
  <2>1. Floored(15 * balance) \in Int
    BY <1>4, <1>8
  <2>2. QED BY <1>2, <1>3, <1>6, <2>1
<1>11. ~Edge(a) /\ gale[a] = 0 =>
         /\ 1000 * stake <= Floored(RISK_PERMILLE * balance) + 500
         /\ 1000 * stake >= Min({RISK_PERMILLE, 50}) * balance - 500
  <2> SUFFICES ASSUME ~Edge(a), gale[a] = 0
               PROVE  /\ 1000 * stake <= Floored(RISK_PERMILLE * balance) + 500
                      /\ 1000 * stake >= Min({RISK_PERMILLE, 50}) * balance - 500
    OBVIOUS
  <2>1. c <= Floored(RISK_PERMILLE * balance) /\ c >= Min({Floored(RISK_PERMILLE * balance), 50 * balance})
    BY <1>2, <1>3
  <2>2. c >= Min({RISK_PERMILLE, 50}) * balance
    BY <1>3, <1>4, <2>1, LeastStake
  <2>3. RISK_PERMILLE * balance \in Nat
    BY <1>4
  <2>4. Floored(RISK_PERMILLE * balance) \in Int
    BY <1>8, <2>3
  <2>5. Min({RISK_PERMILLE, 50}) \in Nat
    BY <1>4, MinOf
  <2>6. Min({RISK_PERMILLE, 50}) * balance \in Nat
    BY <1>4, <2>5
  <2>7. QED BY <1>3, <1>6, <2>1, <2>2, <2>4, <2>6
<1>12. e.watched /\ e.stake = stake
  OBVIOUS
<1>13. StakeWell(e)
  BY <1>1, <1>6, <1>9, <1>10, <1>11 DEF StakeWell
<1> HIDE DEF e
<1>14. QED BY <1>1, <1>7, <1>12, <1>13

-----------------------------------------------------------------------------
(* What a day may lose *)

Stakes == [i \in DOMAIN orders |-> orders[i].stake]

\* What the orders of a list put at risk.
RiskOf(s) == SumFunctionOnSet([i \in DOMAIN s |-> s[i].stake], {i \in DOMAIN s : s[i].watched})

LEMMA RiskOfType ==
  ASSUME NEW s \in Seq(OrderRecords)
  PROVE  /\ IsFiniteSet({i \in DOMAIN s : s[i].watched}) /\ RiskOf(s) \in Nat
         /\ \A i \in DOMAIN s : s[i].stake \in Nat
<1> DEFINE P == {i \in DOMAIN s : s[i].watched}
           f == [i \in DOMAIN s |-> s[i].stake]
<1>1. Len(s) \in Int /\ DOMAIN s = 1 .. Len(s) /\ \A i \in DOMAIN s : s[i] \in OrderRecords
  OBVIOUS
<1>2. P \in SUBSET (1 .. Len(s)) /\ 1 \in Int
  BY <1>1
<1>3. \A i \in DOMAIN s : s[i].stake \in Nat
  BY <1>1 DEF OrderRecords
<1>4. \A i \in P : f[i] \in Nat
  BY <1>3
<1> HIDE DEF P, f
<1>5. IsFiniteSet(P)
  BY <1>1, <1>2, FinitePart
<1>6. SumFunctionOnSet(f, P) \in Nat
  BY <1>4, <1>5, SumNat
<1>7. QED BY <1>3, <1>5, <1>6 DEF RiskOf, P, f

LEMMA AtRiskType ==
  ASSUME RiskTypes
  PROVE  /\ IsFiniteSet(Pending) /\ \A i \in Pending : Stakes[i] \in Nat
         /\ AtRisk \in Nat /\ AtRisk = SumFunctionOnSet(Stakes, Pending)
<1>1. orders \in Seq(OrderRecords)
  BY DEF RiskTypes
<1>2. RiskOf(orders) = AtRisk
  BY DEF RiskOf, AtRisk, Pending
<1>3. QED BY <1>1, <1>2, RiskOfType DEF AtRisk, Pending, Stakes

LEMMA AtRiskAfter == ASSUME RiskTypes' PROVE AtRisk' \in Nat
<1>1. orders' \in Seq(OrderRecords)
  BY DEF RiskTypes
<1> PICK s \in Seq(OrderRecords) : s = orders'
  BY <1>1
<1>2. RiskOf(s) = AtRisk'
  BY DEF RiskOf, AtRisk, Pending
<1>3. QED BY <1>2, RiskOfType

\* A new order takes from the balance what it puts at risk.
LEMMA OpenedAtRisk ==
  ASSUME RiskTypes, NEW e \in OrderRecords, e.watched, orders' = Append(orders, e)
  PROVE  AtRisk' = AtRisk + e.stake
<1>1. /\ Len(orders) \in Nat /\ DOMAIN orders = 1 .. Len(orders)
      /\ DOMAIN orders' = 1 .. (Len(orders) + 1) /\ orders'[Len(orders) + 1] = e
      /\ \A i \in DOMAIN orders : orders'[i] = orders[i]
  <2>1. orders \in Seq(OrderRecords)
    BY DEF RiskTypes
  <2>2. QED BY <2>1
<1> PICK n \in Nat : n = Len(orders) + 1
  BY <1>1
<1>2. DOMAIN orders' = DOMAIN orders \cup {n} /\ n \notin DOMAIN orders /\ n \in DOMAIN orders'
  BY <1>1
<1>3. Pending' = Pending \cup {n} /\ n \notin Pending
  BY <1>1, <1>2 DEF Pending
<1>4. /\ \A i \in Pending : Stakes'[i] = Stakes[i]
      /\ Stakes'[n] = e.stake /\ e.stake \in Nat
  BY <1>1, <1>2 DEF Stakes, Pending, OrderRecords
<1>5. /\ IsFiniteSet(Pending) /\ \A i \in Pending : Stakes[i] \in Nat
      /\ AtRisk \in Nat /\ AtRisk = SumFunctionOnSet(Stakes, Pending)
  BY AtRiskType
<1> PICK f : f = Stakes'
  OBVIOUS
<1>6. SumFunctionOnSet(f, Pending) = SumFunctionOnSet(Stakes, Pending)
  BY <1>4, <1>5, SumSame
<1>7. SumFunctionOnSet(f, Pending \cup {n}) = f[n] + SumFunctionOnSet(f, Pending)
  <2>1. \A i \in Pending : f[i] \in Int
    BY <1>4, <1>5
  <2>2. f[n] \in Int
    BY <1>4
  <2>3. QED BY <1>3, <1>5, <2>1, <2>2, SumAdd
<1>8. AtRisk' = SumFunctionOnSet(f, Pending')
  BY DEF AtRisk, Stakes
<1>9. QED BY <1>3, <1>4, <1>5, <1>6, <1>7, <1>8

\* Only the stakes and who is watched matter.
LEMMA SameAtRisk ==
  ASSUME DOMAIN orders' = DOMAIN orders,
         \A i \in DOMAIN orders : /\ orders'[i].stake = orders[i].stake
                                  /\ orders'[i].watched <=> orders[i].watched
  PROVE  AtRisk' = AtRisk
<1>1. Pending' = Pending
  BY DEF Pending
<1>2. [i \in DOMAIN orders' |-> orders'[i].stake] = [i \in DOMAIN orders |-> orders[i].stake]
  OBVIOUS
<1>3. QED BY <1>1, <1>2 DEF AtRisk

\* LossBounded, read as: with a limit and a last result at a balance the limits looked at.
LimitSet == LossTarget < 100 * initialBalance
LastSeen == settled # <<>> => settled[Len(settled)].cash # 0

LEMMA LossReads ==
  LossBounded <=> (~locked /\ LimitSet /\ LastSeen => 100 * (balance + AtRisk) > LossTarget)
BY DEF LossBounded, LimitSet, LastSeen

LEMMA TargetType == ASSUME RiskTypes PROVE LossTarget \in Int /\ WinTarget \in Int
<1>1. initialBalance \in Int /\ 100 - STOP_LOSS \in Int /\ 100 + STOP_WIN \in Int
  BY RiskAssumption DEF RiskTypes
<1>2. QED BY <1>1 DEF LossTarget, WinTarget

\* While no result comes in, the sum of balance and open stakes never falls.
LEMMA LossKept ==
  ASSUME RiskTypes, RiskTypes', LossBounded, UNCHANGED <<initialBalance, settled>>,
         locked => locked', balance' + AtRisk' >= balance + AtRisk
  PROVE  LossBounded'
<1>1. /\ LossTarget' = LossTarget /\ (LimitSet' <=> LimitSet) /\ (LastSeen' <=> LastSeen)
  BY DEF LossTarget, LimitSet, LastSeen
<1>2. AtRisk \in Nat /\ LossTarget \in Int /\ balance \in Nat /\ balance' \in Nat
  BY AtRiskType, TargetType DEF RiskTypes
<1>3. AtRisk' \in Nat
  BY AtRiskAfter
<1>4. ASSUME ~locked', LimitSet', LastSeen' PROVE 100 * (balance' + AtRisk') > LossTarget'
  <2>1. 100 * (balance + AtRisk) > LossTarget
    BY <1>1, <1>4, LossReads
  <2> PICK p \in Nat, p1 \in Nat, t \in Int : p = AtRisk /\ p1 = AtRisk' /\ t = LossTarget
    BY <1>2, <1>3
  <2> PICK b \in Nat, b1 \in Nat : b = balance /\ b1 = balance'
    BY <1>2
  <2>2. 100 * (b + p) > t /\ b1 + p1 >= b + p
    BY <2>1
  <2>3. 100 * (b1 + p1) > t
    BY ONLY <2>2, p \in Nat, p1 \in Nat, t \in Int, b \in Nat, b1 \in Nat
  <2>4. QED BY <1>1, <2>3
<1>5. QED BY <1>4 DEF LossBounded, LimitSet, LastSeen

-----------------------------------------------------------------------------
(* The memory *)

Memories == [Assets -> MemoryRecords]

LEMMA OwnFinite ==
  ASSUME NEW table, NEW a, NEW first \in Int, NEW last \in Int
  PROVE  /\ IsFiniteSet(Own(table, a, first, last)) /\ Cardinality(Own(table, a, first, last)) \in Nat
         /\ Own(table, a, first, last) \in SUBSET (first .. last)
<1>1. Own(table, a, first, last) \in SUBSET (first .. last)
  BY DEF Own
<1>2. IsFiniteSet(Own(table, a, first, last))
  <2> PICK S : S = Own(table, a, first, last)
    OBVIOUS
  <2>1. IsFiniteSet(first .. last)
    BY FS_Interval
  <2>2. IsFiniteSet(S)
    BY <1>1, <2>1, FS_Subset
  <2>3. QED BY <2>2
<1>3. QED BY <1>1, <1>2, FS_CardinalityType

\* The newest outcome in front, and the oldest dropped.
LEMMA FrontKept ==
  ASSUME NEW s \in Seq(BOOLEAN), NEW w \in BOOLEAN, NEW m \in Nat, m <= Len(s) + 1,
         NEW o, o = SubSeq(<<w>> \o s, 1, m)
  PROVE  /\ o \in Seq(BOOLEAN) /\ Len(o) = m /\ (m >= 1 => o[1] = w)
         /\ \A k \in 2 .. m : o[k] = s[k - 1] /\ k - 1 \in DOMAIN s
<1>1. /\ <<w>> \o s \in Seq(BOOLEAN) /\ Len(<<w>> \o s) = Len(s) + 1
      /\ (<<w>> \o s)[1] = w /\ \A k \in 2 .. (Len(s) + 1) : (<<w>> \o s)[k] = s[k - 1]
  OBVIOUS
<1> PICK t \in Seq(BOOLEAN) : t = <<w>> \o s
  BY <1>1
<1>2. Len(t) = Len(s) + 1 /\ Len(s) \in Nat /\ DOMAIN s = 1 .. Len(s)
  BY <1>1
<1>3. /\ SubSeq(t, 1, m) \in Seq(BOOLEAN) /\ Len(SubSeq(t, 1, m)) = m
      /\ \A k \in 1 .. m : SubSeq(t, 1, m)[k] = t[k]
  BY <1>2
<1>4. \A k \in 2 .. m : k \in 1 .. m /\ k \in 2 .. (Len(s) + 1) /\ k - 1 \in DOMAIN s
  BY <1>2
<1>5. m >= 1 => 1 \in 1 .. m
  OBVIOUS
<1>6. QED BY <1>1, <1>3, <1>4, <1>5

\* What record_trade() makes of the record of the trade's asset, and of the others.
LEMMA RecordedAs ==
  ASSUME NEW m \in Memories, NEW t \in TradeRecords
  PROVE  /\ RecordTrade(m, t) \in Memories
         /\ \A a \in Assets : a # t.asset => RecordTrade(m, t)[a] = m[a]
         /\ LET r == RecordTrade(m, t)[t.asset]  old == m[t.asset]
            IN /\ Total(r) = Total(old) + 1
               /\ r.outcomes = SubSeq(<<t.won>> \o old.outcomes, 1, Min({KEEP, Len(old.outcomes) + 1}))
<1> DEFINE old == m[t.asset]
           r == [wins |-> old.wins + (IF t.won THEN 1 ELSE 0),
                 losses |-> old.losses + (IF t.won THEN 0 ELSE 1),
                 outcomes |-> SubSeq(<<t.won>> \o old.outcomes, 1, Min({KEEP, Len(old.outcomes) + 1}))]
<1>1. t.asset \in Assets /\ t.won \in BOOLEAN /\ old \in MemoryRecords
  BY DEF Memories, TradeRecords
<1>2. RecordTrade(m, t) = [m EXCEPT ![t.asset] = r]
  BY DEF RecordTrade
<1>3. old.wins \in Nat /\ old.losses \in Nat /\ old.outcomes \in Seq(BOOLEAN) /\ Len(old.outcomes) \in Nat
  <2>1. old.wins \in Nat /\ old.losses \in Nat /\ old.outcomes \in Seq(BOOLEAN)
    BY <1>1 DEF MemoryRecords
  <2>2. QED BY <2>1
<1>4. KEEP \in Nat
  BY RiskAssumption
<1> PICK c \in Nat : c = Min({KEEP, Len(old.outcomes) + 1})
  BY <1>3, <1>4, MinOf
<1>5. c <= Len(old.outcomes) + 1
  BY <1>3, <1>4, MinOf
<1>6. SubSeq(<<t.won>> \o old.outcomes, 1, c) \in Seq(BOOLEAN)
  <2> PICK s \in Seq(BOOLEAN), w \in BOOLEAN : s = old.outcomes /\ w = t.won
    BY <1>1, <1>3
  <2>1. c <= Len(s) + 1
    BY <1>5
  <2>2. SubSeq(<<w>> \o s, 1, c) \in Seq(BOOLEAN)
    <3> PICK o : o = SubSeq(<<w>> \o s, 1, c)
      OBVIOUS
    <3>1. o \in Seq(BOOLEAN)
      BY <2>1, FrontKept, Zenon
    <3>2. QED BY <3>1
  <2>3. QED BY <2>2
<1>7. r \in MemoryRecords
  <2> PICK o \in Seq(BOOLEAN) : o = SubSeq(<<t.won>> \o old.outcomes, 1, c)
    BY <1>6
  <2>1. r = [wins |-> old.wins + (IF t.won THEN 1 ELSE 0),
             losses |-> old.losses + (IF t.won THEN 0 ELSE 1), outcomes |-> o]
    OBVIOUS
  <2> PICK w \in Nat, l \in Nat : w = old.wins /\ l = old.losses
    BY <1>3
  <2>2. w + (IF t.won THEN 1 ELSE 0) \in Nat /\ l + (IF t.won THEN 0 ELSE 1) \in Nat
    BY <1>1
  <2> HIDE DEF r
  <2>3. QED BY <2>1, <2>2 DEF MemoryRecords
<1>8. Total(r) = Total(old) + 1
  BY <1>1, <1>3 DEF Total
<1>9. r.outcomes = SubSeq(<<t.won>> \o old.outcomes, 1, Min({KEEP, Len(old.outcomes) + 1}))
  OBVIOUS
<1> HIDE DEF r
<1>10. /\ RecordTrade(m, t) \in Memories /\ RecordTrade(m, t)[t.asset] = r
       /\ \A a \in Assets : a # t.asset => RecordTrade(m, t)[a] = m[a]
  BY <1>1, <1>2, <1>7 DEF Memories
<1>11. QED BY <1>8, <1>9, <1>10

\* Of a set of places with a newer one, every old one moves up by one.
LEMMA NewestMoves ==
  ASSUME NEW S, IsFiniteSet(S), S \in SUBSET Int, NEW n \in Int, \A j \in S : j < n
  PROVE  /\ Newest(S \cup {n}, n, 1) /\ Cardinality(S \cup {n}) = Cardinality(S) + 1
         /\ \A i \in S, k \in Int : Newest(S, i, k) => Newest(S \cup {n}, i, k + 1)
<1>1. n \notin S
  OBVIOUS
<1>2. Cardinality(S \cup {n}) = Cardinality(S) + 1
  BY <1>1, FS_AddElement
<1>3. Newest(S \cup {n}, n, 1)
  <2>1. {j \in S \cup {n} : j >= n} = {n}
    <3>1. ~ \E j \in S : j >= n
      OBVIOUS
    <3>2. n >= n
      OBVIOUS
    <3>3. QED BY ONLY <3>1, <3>2
  <2>2. Cardinality({n}) = 1
    BY FS_Singleton
  <2>3. QED BY <2>1, <2>2 DEF Newest
<1>4. ASSUME NEW i \in S, NEW k \in Int, Newest(S, i, k) PROVE Newest(S \cup {n}, i, k + 1)
  <2> DEFINE T == {j \in S : j >= i}
  <2>1. IsFiniteSet(T) /\ n \notin T
    BY <1>1, FS_Subset
  <2>2. {j \in S \cup {n} : j >= i} = T \cup {n}
    OBVIOUS
  <2>3. Cardinality(T \cup {n}) = Cardinality(T) + 1
    BY <2>1, FS_AddElement
  <2>4. QED BY <1>4, <2>2, <2>3 DEF Newest
<1>5. QED BY <1>2, <1>3, <1>4

\* Playing the next trade of the table.
LEMMA PlaysNext ==
  ASSUME NEW table \in Seq(TradeRecords), NEW first \in Nat, NEW last \in Nat,
         first >= 1, first <= last + 1, last + 1 <= Len(table), NEW m \in Memories,
         \A a \in Assets : Replayed(table, m[a], a, first, last)
  PROVE  /\ RecordTrade(m, table[last + 1]) \in Memories
         /\ \A a \in Assets : Replayed(table, RecordTrade(m, table[last + 1])[a], a, first, last + 1)
<1> PICK n \in Nat : n = last + 1
  OBVIOUS
<1> PICK t : t = table[n]
  OBVIOUS
<1>1. t \in TradeRecords
  <2>1. n \in 1 .. Len(table) /\ Len(table) \in Nat /\ table \in [1 .. Len(table) -> TradeRecords]
    OBVIOUS
  <2>2. QED BY <2>1
<1> PICK r : r = RecordTrade(m, t)
  OBVIOUS
<1>2. /\ r \in Memories /\ \A a \in Assets : a # t.asset => r[a] = m[a]
      /\ Total(r[t.asset]) = Total(m[t.asset]) + 1
      /\ r[t.asset].outcomes = SubSeq(<<t.won>> \o m[t.asset].outcomes, 1, Min({KEEP, Len(m[t.asset].outcomes) + 1}))
  BY <1>1, RecordedAs
<1>3. first .. n = (first .. last) \cup {n} /\ \A j \in first .. last : j < n
  OBVIOUS
<1>4. ASSUME NEW a \in Assets, a # t.asset PROVE Replayed(table, r[a], a, first, n)
  <2>1. Own(table, a, first, n) = Own(table, a, first, last)
    BY <1>3, <1>4 DEF Own
  <2>2. r[a] = m[a]
    BY <1>2, <1>4
  <2>3. Replayed(table, m[a], a, first, last)
    OBVIOUS
  <2>4. QED BY <2>1, <2>2, <2>3 DEF Replayed
<1>5. ASSUME NEW a \in Assets, a = t.asset PROVE Replayed(table, r[a], a, first, n)
  <2> DEFINE S == Own(table, a, first, last)
             U == Own(table, a, first, n)
  <2>1. U = S \cup {n}
    BY <1>3, <1>5 DEF Own
  <2>2. IsFiniteSet(S) /\ Cardinality(S) \in Nat /\ S \in SUBSET Int /\ \A j \in S : j < n
    BY <1>3, OwnFinite
  <2>3. /\ Newest(U, n, 1) /\ Cardinality(U) = Cardinality(S) + 1
        /\ \A i \in S, k \in Int : Newest(S, i, k) => Newest(U, i, k + 1)
    <3> HIDE DEF S, U
    <3> PICK S1, U1 : S1 = S /\ U1 = U
      OBVIOUS
    <3>1. n \in Int /\ \A j \in S1 : j < n
      BY <2>2
    <3>2. /\ Newest(S1 \cup {n}, n, 1) /\ Cardinality(S1 \cup {n}) = Cardinality(S1) + 1
          /\ \A i \in S1, k \in Int : Newest(S1, i, k) => Newest(S1 \cup {n}, i, k + 1)
      BY <2>2, <3>1, NewestMoves, Zenon
    <3>3. QED BY <2>1, <3>2
  <2>4. /\ \A k \in DOMAIN m[a].outcomes : \E i \in S : Newest(S, i, k) /\ m[a].outcomes[k] = table[i].won
        /\ Len(m[a].outcomes) = Min({KEEP, Cardinality(S)}) /\ Total(m[a]) = Cardinality(S)
    BY DEF Replayed
  <2> HIDE DEF S, U
  <2> PICK s \in Seq(BOOLEAN), w \in BOOLEAN : s = m[a].outcomes /\ w = t.won
    BY <1>1, <1>5 DEF Memories, MemoryRecords, TradeRecords
  <2>5. KEEP \in Nat /\ Len(s) \in Nat
    BY RiskAssumption
  <2> PICK c \in Nat : c = Min({KEEP, Len(s) + 1})
    BY <2>5, MinOf
  <2>6. c <= Len(s) + 1 /\ c = Min({KEEP, Cardinality(S) + 1})
    <3> PICK q \in Nat : q = Cardinality(S)
      BY <2>2
    <3>1. Len(s) = Min({KEEP, q})
      BY <2>4
    <3>2. Min({KEEP, q}) = IF KEEP <= q THEN KEEP ELSE q
      BY <2>5, MinOf
    <3>3. Min({KEEP, q + 1}) = IF KEEP <= q + 1 THEN KEEP ELSE q + 1
      <4>1. KEEP \in Int /\ q + 1 \in Int
        BY <2>5
      <4>2. QED BY <4>1, MinOf
    <3>4. Min({KEEP, Len(s) + 1}) = IF KEEP <= Len(s) + 1 THEN KEEP ELSE Len(s) + 1
      <4>1. KEEP \in Int /\ Len(s) + 1 \in Int
        BY <2>5
      <4>2. QED BY <4>1, MinOf
    <3> PICK d \in Nat : d = Len(s)
      BY <2>5
    <3>5. d = IF KEEP <= q THEN KEEP ELSE q
      BY <3>1, <3>2
    <3>6. c = IF KEEP <= d + 1 THEN KEEP ELSE d + 1
      BY <3>4
    <3>7. c <= d + 1 /\ c = IF KEEP <= q + 1 THEN KEEP ELSE q + 1
      BY ONLY <2>5, <3>5, <3>6, c \in Nat, d \in Nat, q \in Nat
    <3>8. QED BY <3>3, <3>7
  <2> PICK o : o = r[a].outcomes
    OBVIOUS
  <2>7. /\ o \in Seq(BOOLEAN) /\ Len(o) = c /\ (c >= 1 => o[1] = w)
        /\ \A k \in 2 .. c : o[k] = s[k - 1] /\ k - 1 \in DOMAIN s
    <3>1. o = SubSeq(<<w>> \o s, 1, c)
      BY <1>2, <1>5
    <3>2. c <= Len(s) + 1
      BY <2>6
    <3>3. \A p : p = SubSeq(<<w>> \o s, 1, c) =>
            /\ p \in Seq(BOOLEAN) /\ Len(p) = c /\ (c >= 1 => p[1] = w)
            /\ \A k \in 2 .. c : p[k] = s[k - 1] /\ k - 1 \in DOMAIN s
      BY ONLY <3>2, FrontKept, s \in Seq(BOOLEAN), w \in BOOLEAN, c \in Nat, Zenon
    <3>4. QED BY ONLY <3>1, <3>3
  <2>8. ASSUME NEW k \in DOMAIN o PROVE \E i \in U : Newest(U, i, k) /\ o[k] = table[i].won
    <3>1. k \in 1 .. c
      BY <2>7
    <3>2. CASE k = 1
      <4>1. n \in U /\ o[k] = w
        BY <2>1, <2>7, <3>1, <3>2
      <4>2. QED BY <2>3, <3>2, <4>1
    <3>3. CASE k # 1
      <4>1. k \in 2 .. c /\ k - 1 \in Int /\ (k - 1) + 1 = k
        BY <3>1, <3>3
      <4>2. PICK i \in S : Newest(S, i, k - 1) /\ s[k - 1] = table[i].won
        BY <2>4, <2>7, <4>1
      <4>3. Newest(U, i, k) /\ i \in U
        BY <2>1, <2>3, <4>1, <4>2
      <4>4. QED BY <2>7, <4>1, <4>2, <4>3
    <3>4. QED BY <3>2, <3>3
  <2>9. Len(o) = Min({KEEP, Cardinality(U)}) /\ Total(r[a]) = Cardinality(U)
    BY <1>2, <1>5, <2>3, <2>4, <2>6, <2>7
  <2>10. QED BY <2>8, <2>9 DEF Replayed, U
<1>6. QED BY <1>2, <1>4, <1>5

\* Nothing played yet.
LEMMA PlaysNothing ==
  ASSUME NEW table, NEW a, NEW first \in Nat
  PROVE  Replayed(table, NoRecord, a, first, first - 1) /\ NoRecord \in MemoryRecords
<1>1. first .. (first - 1) = {}
  OBVIOUS
<1>2. Own(table, a, first, first - 1) = {}
  BY <1>1 DEF Own
<1>3. Cardinality({}) = 0
  BY FS_EmptySet
<1>4. NoRecord.outcomes = << >> /\ Len(<< >>) = 0 /\ DOMAIN << >> = {} /\ Total(NoRecord) = 0
  BY DEF NoRecord, Total
<1>5. Min({KEEP, 0}) = 0
  BY RiskAssumption, MinOf
<1>6. << >> \in Seq(BOOLEAN)
  OBVIOUS
<1>7. NoRecord \in MemoryRecords
  BY <1>6 DEF NoRecord, MemoryRecords
<1>8. QED BY <1>2, <1>3, <1>4, <1>5, <1>7 DEF Replayed

\* The constructor plays the last trades of the table.
LEMMA LoadedMemory ==
  ASSUME RiskTypes
  PROVE  /\ LoadMemory \in Memories
         /\ \E first \in 1 .. Len(tradesTable) + 1 :
              /\ first = 1 \/ first <= Len(tradesTable) - LIMIT + 1
              /\ \A a \in Assets : Replayed(tradesTable, LoadMemory[a], a, first, Len(tradesTable))
<1>1. tradesTable \in Seq(TradeRecords) /\ Len(tradesTable) \in Nat /\ LIMIT \in Nat
  BY RiskAssumption DEF RiskTypes
<1> PICK table \in Seq(TradeRecords), size \in Nat : table = tradesTable /\ size = Len(table)
  BY <1>1
<1> DEFINE n == Len(LoadTrades)
           none == [a \in Assets |-> NoRecord]
           Plays(g) == [i \in 0 .. n |-> IF i = 0 THEN none ELSE RecordTrade(g[i - 1], LoadTrades[n + 1 - i])]
           played == CHOOSE g : g = Plays(g)
<1>2. LoadMemory = played[n]
  BY DEF LoadMemory
<1>3. n \in Nat /\ n <= size /\ (n = size \/ n = LIMIT) /\ LoadTrades = [i \in 1 .. n |-> table[size + 1 - i]]
  <2> PICK c \in Nat : c = Min({LIMIT, size})
    BY <1>1, MinOf
  <2>1. c <= size /\ (c = size \/ c = LIMIT)
    BY <1>1, MinOf
  <2>2. LoadTrades = [i \in 1 .. c |-> table[size + 1 - i]]
    BY DEF LoadTrades
  <2>3. Len(LoadTrades) = c
    BY <2>2
  <2>4. QED BY <2>1, <2>2, <2>3
<1> HIDE DEF n
<1>5. \A i \in 1 .. n : n \in Nat /\ LoadTrades[n + 1 - i] = table[size - n + i]
  <2> TAKE i \in 1 .. n
  <2>1. n \in Nat /\ n + 1 - i \in 1 .. n /\ size + 1 - (n + 1 - i) = size - n + i
    BY <1>3
  <2>2. QED BY <1>3, <2>1
<1>8. none \in Memories
  BY PlaysNothing DEF Memories
<1>9. \A i \in 1 .. n : size - n + i \in 1 .. size /\ table[size - n + i] \in TradeRecords
  <2> TAKE i \in 1 .. n
  <2>1. size - n + i \in 1 .. size
    BY <1>3
  <2>2. table \in [1 .. size -> TradeRecords]
    OBVIOUS
  <2>3. QED BY <2>1, <2>2
<1>10. \E g : g = Plays(g)
  <2> DEFINE step == [i \in 1 .. n |-> [m \in Memories |-> RecordTrade(m, table[size - n + i])]]
  <2>1. \A i \in 1 .. n : \A m \in Memories : step[i][m] = RecordTrade(m, table[size - n + i]) /\ step[i][m] \in Memories
    <3> TAKE i \in 1 .. n
    <3> TAKE m \in Memories
    <3>1. step[i][m] = RecordTrade(m, table[size - n + i])
      OBVIOUS
    <3>2. RecordTrade(m, table[size - n + i]) \in Memories
      BY <1>9, RecordedAs
    <3>3. QED BY <3>1, <3>2
  <2> HIDE DEF step, none
  <2>2. PICK g \in [0 .. n -> Memories] : Folding(g, n, none, step)
    BY <1>3, <1>8, <2>1, FoldExists
  <2>3. \A i \in 0 .. n : i # 0 => i \in 1 .. n /\ i - 1 \in 0 .. n
    BY <1>3
  <2>4. ASSUME NEW i \in 0 .. n PROVE g[i] = IF i = 0 THEN none ELSE RecordTrade(g[i - 1], LoadTrades[n + 1 - i])
    <3>1. CASE i = 0
      BY <2>2, <3>1 DEF Folding
    <3>2. CASE i # 0
      <4>1. i \in 1 .. n /\ i - 1 \in 0 .. n /\ g[i - 1] \in Memories
        BY <2>2, <2>3, <3>2
      <4>2. g[i] = step[i][g[i - 1]]
        BY <2>2, <4>1 DEF Folding
      <4>3. step[i][g[i - 1]] = RecordTrade(g[i - 1], table[size - n + i])
        BY <2>1, <4>1
      <4>4. QED BY <1>5, <3>2, <4>1, <4>2, <4>3
    <3>3. QED BY <3>1, <3>2
  <2>5. g = Plays(g)
    BY <2>2, <2>4
  <2>6. QED BY <2>5
<1>11. played = Plays(played)
  BY <1>10
<1> DEFINE first == size - n + 1
           holds == {i \in 0 .. n : /\ played[i] \in Memories
                                    /\ \A a \in Assets : Replayed(table, played[i][a], a, first, size - n + i)}
<1>12. first \in Nat /\ first >= 1 /\ first <= size + 1 /\ (first = 1 \/ first <= size - LIMIT + 1)
  BY <1>1, <1>3
<1>13. 0 \in holds
  <2>1. 0 \in 0 .. n /\ played[0] = none
    <3>1. 0 \in 0 .. n
      BY <1>3
    <3> HIDE DEF played, none
    <3>2. QED BY <1>11, <3>1
  <2>2. \A a \in Assets : none[a] = NoRecord
    OBVIOUS
  <2>3. first - 1 = size - n + 0
    BY <1>3
  <2> HIDE DEF first, played, none
  <2>4. \A a \in Assets : Replayed(table, played[0][a], a, first, size - n + 0)
    BY <1>12, <2>1, <2>2, <2>3, PlaysNothing
  <2>5. QED BY <1>8, <2>1, <2>4
<1>14. ASSUME NEW i \in 1 .. n, i - 1 \in holds PROVE i \in holds
  <2> DEFINE last == size - n + (i - 1)
  <2>1. /\ last \in Nat /\ first <= last + 1 /\ last + 1 <= size /\ last + 1 = size - n + i
        /\ i \in 0 .. n /\ i # 0 /\ i - 1 \in 0 .. n
    BY <1>3
  <2>2. played[i] = RecordTrade(played[i - 1], table[size - n + i])
    <3> HIDE DEF played, none
    <3>1. i \in 1 .. n /\ i \in 0 .. n /\ i # 0
      BY <2>1
    <3>2. played[i] = RecordTrade(played[i - 1], LoadTrades[n + 1 - i])
      BY <1>11, <3>1
    <3>3. QED BY <1>5, <3>2
  <2> PICK m : m = played[i - 1]
    OBVIOUS
  <2>3. m \in Memories /\ \A a \in Assets : Replayed(table, m[a], a, first, last)
    BY <1>14
  <2> HIDE DEF last, first, played
  <2>4. /\ RecordTrade(m, table[last + 1]) \in Memories
        /\ \A a \in Assets : Replayed(table, RecordTrade(m, table[last + 1])[a], a, first, last + 1)
    BY <1>12, <2>1, <2>3, PlaysNext
  <2>5. played[i] = RecordTrade(m, table[last + 1])
    BY <2>1, <2>2
  <2>6. QED BY <2>1, <2>4, <2>5
<1>15. n \in holds
  <2> HIDE DEF holds
  <2>1. 0 .. n \subseteq holds
    BY <1>3, <1>13, <1>14, FoldKeeps
  <2>2. n \in 0 .. n
    BY <1>3
  <2>3. QED BY <2>1, <2>2
<1>16. size - n + n = size
  BY <1>3
<1> HIDE DEF played, first
<1>17. /\ LoadMemory \in Memories
       /\ \A a \in Assets : Replayed(tradesTable, LoadMemory[a], a, first, Len(tradesTable))
  BY <1>2, <1>15, <1>16
<1>18. first \in 1 .. Len(tradesTable) + 1 /\ (first = 1 \/ first <= Len(tradesTable) - LIMIT + 1)
  BY <1>1, <1>12
<1>19. QED BY <1>17, <1>18

\* So the memory is what a replay of the table gives, of its last trades at least.
LEMMA MemoryOfTable == ASSUME RiskTypes, MemoryInv PROVE MemoryIsLedger
<1>1. tradesTable \in Seq(TradeRecords) /\ LIMIT \in Nat /\ KEEP \in Nat
  BY RiskAssumption DEF RiskTypes
<1> PICK n \in Nat : n = Len(tradesTable)
  BY <1>1
<1>2. DOMAIN tradesTable = 1 .. n
  BY <1>1
<1>3. PICK first \in 1 .. n + 1 :
        /\ first = 1 \/ first <= n - LIMIT + 1
        /\ \A a \in Assets : Replayed(tradesTable, memory[a], a, first, n)
  BY DEF MemoryInv
<1> SUFFICES ASSUME NEW a \in Assets
             PROVE  /\ \A k \in DOMAIN memory[a].outcomes :
                         \E i \in TradesOf(a) : /\ Cardinality({j \in TradesOf(a) : j >= i}) = k
                                                /\ memory[a].outcomes[k] = tradesTable[i].won
                    /\ Len(memory[a].outcomes) >= Min({KEEP, Cardinality(Recent(a))})
                    /\ Total(memory[a]) \in Cardinality(Recent(a)) .. Cardinality(TradesOf(a))
  BY DEF MemoryIsLedger
<1> DEFINE own == Own(tradesTable, a, first, n)
<1>4. /\ \A k \in DOMAIN memory[a].outcomes : \E i \in own : Newest(own, i, k) /\ memory[a].outcomes[k] = tradesTable[i].won
      /\ Len(memory[a].outcomes) = Min({KEEP, Cardinality(own)})
      /\ Total(memory[a]) = Cardinality(own)
  BY <1>3 DEF Replayed
<1>5. TradesOf(a) = Own(tradesTable, a, 1, n)
  BY <1>2 DEF TradesOf, Own
<1>6. own = {i \in TradesOf(a) : i >= first} /\ Recent(a) \in SUBSET own /\ own \in SUBSET TradesOf(a)
  <2>1. \A i \in 1 .. n : i \in first .. n <=> i >= first
    OBVIOUS
  <2>2. \A i \in first .. n : i \in 1 .. n
    OBVIOUS
  <2>3. own = {i \in TradesOf(a) : i >= first}
    BY <1>2, <2>1, <2>2 DEF TradesOf, Own
  <2>4. \A i \in 1 .. n : i > n - LIMIT => i >= first
    BY <1>1, <1>3
  <2>5. Recent(a) \in SUBSET own
    BY <1>2, <2>3, <2>4 DEF Recent, TradesOf
  <2>6. QED BY <2>3, <2>5
<1>7. IsFiniteSet(TradesOf(a))
  BY <1>5, OwnFinite
<1> HIDE DEF own
<1>8. /\ Cardinality(own) \in Nat /\ Cardinality(Recent(a)) \in Nat /\ Cardinality(TradesOf(a)) \in Nat
      /\ Cardinality(Recent(a)) <= Cardinality(own) /\ Cardinality(own) <= Cardinality(TradesOf(a))
  <2>1. IsFiniteSet(own) /\ IsFiniteSet(Recent(a))
    BY <1>6, <1>7, FS_Subset
  <2>2. Cardinality(Recent(a)) <= Cardinality(own) /\ Cardinality(own) <= Cardinality(TradesOf(a))
    BY <1>6, <1>7, <2>1, FS_Subset
  <2>3. QED BY <1>7, <2>1, <2>2, FS_CardinalityType
<1>9. ASSUME NEW k \in DOMAIN memory[a].outcomes
      PROVE  \E i \in TradesOf(a) : /\ Cardinality({j \in TradesOf(a) : j >= i}) = k
                                    /\ memory[a].outcomes[k] = tradesTable[i].won
  <2>1. PICK i \in own : Newest(own, i, k) /\ memory[a].outcomes[k] = tradesTable[i].won
    BY <1>4
  <2>2. {j \in TradesOf(a) : j >= i} = {j \in own : j >= i}
    <3>1. i \in Int /\ i >= first /\ first \in Int /\ \A j \in TradesOf(a) : j \in Int
      BY <1>2, <1>6, <2>1 DEF TradesOf
    <3>2. \A j \in Int : j >= i => j >= first
      BY <3>1
    <3>3. QED BY <1>6, <3>1, <3>2
  <2>3. QED BY <1>6, <2>1, <2>2 DEF Newest
<1>10. Len(memory[a].outcomes) >= Min({KEEP, Cardinality(Recent(a))})
  <2> PICK p \in Nat, q \in Nat : p = Cardinality(own) /\ q = Cardinality(Recent(a))
    BY <1>8
  <2>1. p >= q
    BY <1>8
  <2>2. Min({KEEP, p}) = IF KEEP <= p THEN KEEP ELSE p
    BY <1>1, MinOf
  <2>3. Min({KEEP, q}) = IF KEEP <= q THEN KEEP ELSE q
    BY <1>1, MinOf
  <2>4. (IF KEEP <= p THEN KEEP ELSE p) >= (IF KEEP <= q THEN KEEP ELSE q)
    BY ONLY <1>1, <2>1, p \in Nat, q \in Nat
  <2>5. QED BY <1>4, <2>2, <2>3, <2>4
<1>11. Total(memory[a]) \in Cardinality(Recent(a)) .. Cardinality(TradesOf(a))
  BY <1>4, <1>8
<1>12. QED BY <1>9, <1>10, <1>11

\* The memory takes one trade more, and so does the table.
LEMMA MemoryGrows ==
  ASSUME RiskTypes, MemoryInv, NEW t \in TradeRecords,
         memory' = RecordTrade(memory, t), tradesTable' = Append(tradesTable, t)
  PROVE  MemoryInv'
<1>1. tradesTable \in Seq(TradeRecords) /\ memory \in Memories /\ LIMIT \in Nat
  BY RiskAssumption DEF RiskTypes, Memories
<1> PICK old \in Seq(TradeRecords), n \in Nat : old = tradesTable /\ n = Len(old)
  BY <1>1
<1> PICK table : table = Append(old, t)
  OBVIOUS
<1>2. /\ table \in Seq(TradeRecords) /\ Len(table) = n + 1 /\ table[n + 1] = t
      /\ \A i \in 1 .. n : table[i] = old[i]
  OBVIOUS
<1>3. PICK first \in 1 .. n + 1 :
        /\ first = 1 \/ first <= n - LIMIT + 1
        /\ \A a \in Assets : Replayed(old, memory[a], a, first, n)
  BY DEF MemoryInv
<1>4. ASSUME NEW a \in Assets PROVE Replayed(table, memory[a], a, first, n)
  <2>1. \A i \in first .. n : i \in 1 .. n
    OBVIOUS
  <2>2. Own(table, a, first, n) = Own(old, a, first, n) /\ \A i \in Own(old, a, first, n) : table[i] = old[i]
    BY <1>2, <2>1 DEF Own
  <2>3. Replayed(old, memory[a], a, first, n)
    BY <1>3
  <2>4. PICK own : own = Own(old, a, first, n)
    OBVIOUS
  <2>5. /\ \A k \in DOMAIN memory[a].outcomes : \E i \in own : Newest(own, i, k) /\ memory[a].outcomes[k] = old[i].won
        /\ Len(memory[a].outcomes) = Min({KEEP, Cardinality(own)})
        /\ Total(memory[a]) = Cardinality(own)
    BY <2>3, <2>4 DEF Replayed
  <2>6. \A i \in own : table[i].won = old[i].won
    BY <2>2, <2>4
  <2>7. \A k \in DOMAIN memory[a].outcomes : \E i \in own : Newest(own, i, k) /\ memory[a].outcomes[k] = table[i].won
    BY ONLY <2>5, <2>6
  <2>8. Own(table, a, first, n) = own
    BY <2>2, <2>4
  <2>9. QED BY ONLY <2>5, <2>7, <2>8 DEF Replayed
<1> PICK m \in Memories : m = memory
  BY <1>1
<1>5. \A a \in Assets : Replayed(table, RecordTrade(m, table[n + 1])[a], a, first, n + 1)
  <2>1. \A a \in Assets : Replayed(table, m[a], a, first, n)
    BY <1>4
  <2>2. first \in Nat /\ first >= 1 /\ first <= n + 1 /\ n + 1 <= Len(table)
    BY <1>2
  <2>3. QED BY <1>2, <2>1, <2>2, PlaysNext
<1>6. memory' = RecordTrade(m, table[n + 1]) /\ tradesTable' = table /\ Len(table) = n + 1
  BY <1>2
<1>7. \A a \in Assets : Replayed(tradesTable', memory'[a], a, first, Len(tradesTable'))
  BY <1>5, <1>6
<1>8. first \in 1 .. Len(tradesTable') + 1 /\ (first = 1 \/ first <= Len(tradesTable') - LIMIT + 1)
  BY <1>1, <1>3, <1>6
<1>9. QED BY <1>7, <1>8 DEF MemoryInv

-----------------------------------------------------------------------------
(* The ladder *)

\* The places of s with a loss of a that only losses of a have come after.
Streak(s, a) ==
  {i \in DOMAIN s : s[i].asset = a /\ \A j \in i .. Len(s) : s[j].asset = a => s[j].result = "loss"}

LEMMA StreakAppend ==
  ASSUME NEW s \in Seq(SettledRecords), NEW e \in SettledRecords, NEW a
  PROVE  /\ IsFiniteSet(Streak(s, a)) /\ Cardinality(Streak(s, a)) \in Nat
         /\ e.asset # a => Streak(Append(s, e), a) = Streak(s, a)
         /\ e.asset = a /\ e.result # "loss" => Streak(Append(s, e), a) = {}
         /\ e.asset = a /\ e.result = "loss" =>
              Cardinality(Streak(Append(s, e), a)) = Cardinality(Streak(s, a)) + 1
<1> PICK n \in Nat : n = Len(s)
  OBVIOUS
<1>1. DOMAIN s = 1 .. n
  OBVIOUS
<1> PICK t : t = Append(s, e)
  OBVIOUS
<1>2. Len(t) = n + 1 /\ DOMAIN t = 1 .. (n + 1) /\ t[n + 1] = e /\ \A i \in 1 .. n : t[i] = s[i]
  OBVIOUS
<1>3. IsFiniteSet(Streak(s, a))
  <2>1. Streak(s, a) \in SUBSET (1 .. n) /\ n \in Int
    BY <1>1 DEF Streak
  <2> PICK T : T = Streak(s, a)
    OBVIOUS
  <2>2. IsFiniteSet(T)
    BY <2>1, FinitePart
  <2>3. QED BY <2>2
<1>4. /\ 1 .. (n + 1) = (1 .. n) \cup {n + 1} /\ n + 1 \notin 1 .. n
      /\ \A i \in 1 .. n : i .. (n + 1) = (i .. n) \cup {n + 1} /\ i .. n \subseteq 1 .. n
      /\ (n + 1) .. (n + 1) = {n + 1}
  OBVIOUS
<1>5. ASSUME NEW i \in 1 .. n
      PROVE  i \in Streak(t, a) <=> i \in Streak(s, a) /\ (e.asset = a => e.result = "loss")
  <2>1. i \in Streak(t, a) <=> /\ t[i].asset = a
                               /\ \A j \in i .. (n + 1) : t[j].asset = a => t[j].result = "loss"
    BY <1>2, <1>4 DEF Streak
  <2>2. i \in Streak(s, a) <=> /\ s[i].asset = a
                               /\ \A j \in i .. n : s[j].asset = a => s[j].result = "loss"
    BY <1>1 DEF Streak
  <2>3. /\ i .. (n + 1) = (i .. n) \cup {n + 1} /\ \A j \in i .. n : t[j] = s[j]
    BY <1>2, <1>4
  <2>4. QED BY <1>2, <2>1, <2>2, <2>3
<1>6. n + 1 \in Streak(t, a) <=> e.asset = a /\ e.result = "loss"
  BY <1>2, <1>4 DEF Streak
<1>7. Streak(t, a) \in SUBSET ((1 .. n) \cup {n + 1}) /\ Streak(s, a) \in SUBSET (1 .. n)
  BY <1>1, <1>2, <1>4 DEF Streak
<1>8. e.asset # a => Streak(t, a) = Streak(s, a)
  BY <1>5, <1>6, <1>7
<1>9. e.asset = a /\ e.result # "loss" => Streak(t, a) = {}
  BY <1>5, <1>6, <1>7
<1>10. ASSUME e.asset = a, e.result = "loss"
       PROVE  Cardinality(Streak(t, a)) = Cardinality(Streak(s, a)) + 1
  <2>1. Streak(t, a) = Streak(s, a) \cup {n + 1} /\ n + 1 \notin Streak(s, a)
    BY <1>4, <1>5, <1>6, <1>7, <1>10
  <2>2. QED BY <1>3, <2>1, FS_AddElement
<1>11. QED BY <1>3, <1>8, <1>9, <1>10, FS_CardinalityType

\* The next rung of a ladder of m rungs.
LEMMA NextRung ==
  ASSUME NEW c \in Nat, NEW m \in Nat
  PROVE  (c + 1) % (m + 1) = IF c % (m + 1) < m THEN (c % (m + 1)) + 1 ELSE 0
<1> PICK n \in Nat : n = m + 1 /\ n >= 1
  OBVIOUS
<1> PICK d \in Nat : d = c + 1
  OBVIOUS
<1>1. /\ c % n \in 0 .. (n - 1) /\ c \div n \in Nat /\ c = n * (c \div n) + (c % n)
      /\ d % n \in 0 .. (n - 1) /\ d \div n \in Nat /\ d = n * (d \div n) + (d % n)
  <2>1. \A x \in Nat : x % n \in 0 .. (n - 1) /\ x \div n \in Nat /\ x = n * (x \div n) + (x % n)
    OBVIOUS
  <2>2. QED BY <2>1
<1> PICK q \in Nat, r \in Nat, q1 \in Nat, r1 \in Nat :
      q = c \div n /\ r = c % n /\ q1 = d \div n /\ r1 = d % n
  BY <1>1
<1>2. r <= n - 1 /\ r1 <= n - 1 /\ n * q + r + 1 = n * q1 + r1
  BY <1>1
<1>3. ASSUME NEW z \in Nat, z >= 1 PROVE n * z >= n
  BY <1>3
<1>4. q1 <= q + 1
  <2> SUFFICES ASSUME q1 - q - 1 >= 1 PROVE FALSE
    OBVIOUS
  <2>1. n * (q1 - q - 1) >= n
    BY <1>3
  <2>2. n * (q1 - q - 1) = n * q1 - n * q - n
    OBVIOUS
  <2> PICK x \in Int, y \in Int : x = n * q /\ y = n * q1
    OBVIOUS
  <2>3. QED BY <1>2, <2>1, <2>2
<1>5. q1 >= q
  <2> SUFFICES ASSUME q - q1 >= 1 PROVE FALSE
    OBVIOUS
  <2>1. n * (q - q1) >= n
    BY <1>3
  <2>2. n * (q - q1) = n * q - n * q1
    OBVIOUS
  <2> PICK x \in Int, y \in Int : x = n * q /\ y = n * q1
    OBVIOUS
  <2>3. QED BY <1>2, <2>1, <2>2
<1>6. q1 = q => r1 = r + 1
  BY <1>2
<1>7. ASSUME q1 = q + 1 PROVE r1 = r + 1 - n
  <2>1. \A x, y \in Int : x * (y + 1) = x * y + x
    OBVIOUS
  <2> PICK x \in Int, y \in Int : x = n * q /\ y = n * q1
    OBVIOUS
  <2>2. y = x + n
    <3>1. n * (q + 1) = n * q + n
      BY <2>1, n \in Int, q \in Int, Zenon
    <3>2. n * q1 = n * (q + 1)
      BY <1>7
    <3>3. QED BY <3>1, <3>2
  <2>3. x + r + 1 = y + r1
    BY <1>2
  <2>4. QED BY <2>2, <2>3
<1>8. q1 = q \/ q1 = q + 1
  BY <1>4, <1>5
<1>9. r1 = IF r < m THEN r + 1 ELSE 0
  BY <1>2, <1>6, <1>7, <1>8
<1>10. QED BY <1>9

-----------------------------------------------------------------------------
(* The steps *)

StakesWell(s) == \A i \in DOMAIN s : StakeWell(s[i])

LEMMA StakeReads == (StakeRule <=> StakesWell(orders)) /\ (StakeRule' <=> StakesWell(orders'))
BY DEF StakeRule, StakesWell, StakeWell

LEMMA LadderReads ==
  /\ GaleIsStreak <=> \A a \in Assets : gale[a] = Cardinality(Streak(settled, a)) % (MAX_GALES + 1)
  /\ GaleIsStreak' <=> \A a \in Assets : gale'[a] = Cardinality(Streak(settled', a)) % (MAX_GALES + 1)
BY DEF GaleIsStreak, LossStreak, Streak

\* Orders that keep their number, their stakes and what those were computed from.
SameStakes(s, t) ==
  /\ DOMAIN t = DOMAIN s
  /\ \A i \in DOMAIN s : /\ t[i].stake = s[i].stake /\ t[i].of = s[i].of
                         /\ t[i].edge = s[i].edge /\ t[i].step = s[i].step

LEMMA SameStakesWell ==
  ASSUME NEW s, NEW t, StakesWell(s), SameStakes(s, t) PROVE StakesWell(t)
BY DEF StakesWell, StakeWell, SameStakes

\* One order gets another result, or is watched no longer.
LEMMA OrderChanged ==
  ASSUME NEW s \in Seq(OrderRecords), NEW i \in DOMAIN s, NEW e \in OrderRecords,
         e.stake = s[i].stake, e.of = s[i].of, e.edge = s[i].edge, e.step = s[i].step,
         NEW t, t = [s EXCEPT ![i] = e]
  PROVE  t \in Seq(OrderRecords) /\ SameStakes(s, t)
<1>1. s \in [1 .. Len(s) -> OrderRecords] /\ DOMAIN s = 1 .. Len(s) /\ Len(s) \in Nat
  OBVIOUS
<1> PICK n \in Nat : n = Len(s)
  BY <1>1
<1>2. t \in [1 .. n -> OrderRecords] /\ DOMAIN t = DOMAIN s /\ t[i] = e /\ \A j \in DOMAIN s : j # i => t[j] = s[j]
  BY <1>1
<1>3. t \in Seq(OrderRecords)
  BY <1>2
<1>4. SameStakes(s, t)
  BY <1>2 DEF SameStakes
<1>5. QED BY <1>3, <1>4

LEMMA OpenTradeStep ==
  ASSUME RiskInv, NEW a \in Assets, NEW stake \in StakesOf(a), OpenTrade(a, stake) PROVE RiskInv'
<1>1. RiskTypes /\ StakeRule /\ LossBounded /\ GaleIsStreak /\ MemoryInv
  BY DEF RiskInv
<1>2. PICK e \in OrderRecords :
        /\ StakeWell(e) /\ e.watched /\ e.stake <= balance
        /\ orders' = Append(orders, e) /\ balance' = balance - e.stake
        /\ UNCHANGED <<initialBalance, gale, memory, tradesTable, settled, locked>>
  BY <1>1, OpenedWell
<1>3. RiskTypes'
  <2>1. balance \in Nat /\ e.stake \in Nat /\ orders \in Seq(OrderRecords)
    BY <1>1 DEF RiskTypes, OrderRecords
  <2>2. orders' \in Seq(OrderRecords) /\ balance' \in Nat
    BY <1>2, <2>1
  <2>3. QED BY <1>1, <1>2, <2>2 DEF RiskTypes
<1>4. StakeRule'
  <2> PICK s \in Seq(OrderRecords) : s = orders
    BY <1>1 DEF RiskTypes
  <2>1. /\ DOMAIN Append(s, e) = 1 .. (Len(s) + 1) /\ Append(s, e)[Len(s) + 1] = e /\ Len(s) \in Nat
        /\ DOMAIN s = 1 .. Len(s) /\ \A i \in 1 .. Len(s) : Append(s, e)[i] = s[i]
    OBVIOUS
  <2>2. \A i \in 1 .. (Len(s) + 1) : i = Len(s) + 1 \/ i \in 1 .. Len(s)
    BY <2>1
  <2>3. StakesWell(s)
    BY <1>1, StakeReads
  <2>4. StakesWell(Append(s, e))
    BY <1>2, <2>1, <2>2, <2>3 DEF StakesWell
  <2>5. QED BY <1>2, <2>4, StakeReads
<1>5. LossBounded'
  <2>1. AtRisk' = AtRisk + e.stake
    BY <1>1, <1>2, OpenedAtRisk
  <2>2. balance' + AtRisk' >= balance + AtRisk
    <3>1. AtRisk \in Nat /\ balance \in Nat /\ e.stake \in Nat
      BY <1>1, AtRiskType DEF RiskTypes, OrderRecords
    <3>2. QED BY <1>2, <2>1, <3>1
  <2>3. QED BY <1>1, <1>2, <1>3, <2>2, LossKept
<1>6. GaleIsStreak'
  BY <1>1, <1>2, LadderReads
<1>7. MemoryInv'
  BY <1>1, <1>2 DEF MemoryInv
<1>8. QED BY <1>3, <1>4, <1>5, <1>6, <1>7 DEF RiskInv

LEMMA DecideStep ==
  ASSUME RiskInv, NEW i \in DOMAIN orders, NEW result \in {"win", "loss", "tie"}, Decide(i, result)
  PROVE  RiskInv'
<1>1. RiskTypes /\ StakeRule /\ LossBounded /\ GaleIsStreak /\ MemoryInv
  BY DEF RiskInv
<1> PICK s \in Seq(OrderRecords) : s = orders
  BY <1>1 DEF RiskTypes
<1>2. s[i] \in OrderRecords
  OBVIOUS
<1> PICK o \in OrderRecords : o = s[i]
  BY <1>2
<1>3. /\ orders' = [s EXCEPT ![i].result = result]
      /\ balance' = balance + (CASE result = "win" -> 2 * o.stake
                                 [] result = "tie" -> o.stake
                                 [] result = "loss" -> 0)
      /\ UNCHANGED <<initialBalance, gale, memory, tradesTable, settled, locked>>
  BY DEF Decide
<1>4. o.stake \in Nat /\ o.watched \in BOOLEAN /\ balance \in Nat
  BY <1>1 DEF RiskTypes, OrderRecords
<1>5. balance' \in Nat /\ balance' >= balance
  BY <1>3, <1>4
<1>6. orders' \in Seq(OrderRecords) /\ SameStakes(s, orders')
  <2> PICK e : e = [o EXCEPT !.result = result]
    OBVIOUS
  <2>1. e \in OrderRecords /\ e.stake = o.stake /\ e.of = o.of /\ e.edge = o.edge /\ e.step = o.step
    BY DEF OrderRecords, Results
  <2> PICK t : t = orders'
    OBVIOUS
  <2>2. t = [s EXCEPT ![i] = e]
    BY <1>3
  <2>3. t \in Seq(OrderRecords) /\ SameStakes(s, t)
    BY <2>1, <2>2, OrderChanged
  <2>4. QED BY <2>3
<1>7. \A j \in DOMAIN s : orders'[j].watched = s[j].watched
  BY <1>3 DEF OrderRecords
<1>8. RiskTypes'
  BY <1>1, <1>3, <1>5, <1>6 DEF RiskTypes
<1>9. StakeRule'
  BY <1>1, <1>6, SameStakesWell, StakeReads
<1>10. LossBounded'
  <2>1. AtRisk' = AtRisk
    BY <1>6, <1>7, SameAtRisk DEF SameStakes
  <2> PICK r \in Nat, b \in Nat, b1 \in Nat : r = AtRisk /\ b = balance /\ b1 = balance'
    BY <1>1, <1>4, <1>5, AtRiskType
  <2>2. b1 + r >= b + r
    <3>1. b1 >= b
      BY ONLY <1>5, b = balance, b1 = balance'
    <3>2. QED BY ONLY <3>1, r \in Nat, b \in Nat, b1 \in Nat
  <2>3. balance' + AtRisk' >= balance + AtRisk
    BY <2>1, <2>2
  <2>4. QED BY <1>1, <1>3, <1>8, <2>3, LossKept
<1>11. GaleIsStreak'
  BY <1>1, <1>3, LadderReads
<1>12. MemoryInv'
  BY <1>1, <1>3 DEF MemoryInv
<1>13. QED BY <1>8, <1>9, <1>10, <1>11, <1>12 DEF RiskInv

\* With the limits not reached, what is in hand is above the target.
LEMMA NotHit ==
  ASSUME RiskTypes, LimitSet, balance # 0, ~LimitHit(balance) PROVE 100 * balance > LossTarget
<1>1. balance \in Nat /\ LossTarget \in Int
  BY TargetType DEF RiskTypes
<1>2. ~(100 * balance <= LossTarget)
  BY DEF LimitHit, LimitSet
<1>3. QED BY <1>1, <1>2

LEMMA CheckTradeResultStep ==
  ASSUME RiskInv, NEW i \in DOMAIN orders, CheckTradeResult(i) PROVE RiskInv'
<1>1. RiskTypes /\ StakeRule /\ LossBounded /\ GaleIsStreak /\ MemoryInv
  BY DEF RiskInv
<1> PICK s \in Seq(OrderRecords) : s = orders
  BY <1>1 DEF RiskTypes
<1>2. s[i] \in OrderRecords
  OBVIOUS
<1> PICK o \in OrderRecords : o = s[i]
  BY <1>2
<1> PICK trade : trade = [asset |-> o.asset, won |-> o.result = "win"]
  OBVIOUS
<1> PICK e : e = [asset |-> o.asset, result |-> o.result, cash |-> balance]
  OBVIOUS
<1>3. /\ orders' = [s EXCEPT ![i].watched = FALSE]
      /\ gale' = [gale EXCEPT ![o.asset] = GaleAfter(o.asset, o.result)]
      /\ memory' = RecordTrade(memory, trade)
      /\ tradesTable' = Append(tradesTable, trade)
      /\ settled' = Append(settled, e)
      /\ locked' = (locked \/ LimitHit(balance))
      /\ UNCHANGED <<balance, initialBalance>>
  BY DEF CheckTradeResult
<1>4. o.asset \in Assets /\ o.result \in Results /\ balance \in Nat /\ MAX_GALES \in Nat
  BY <1>1, RiskAssumption DEF RiskTypes, OrderRecords
<1>5. trade \in TradeRecords /\ e \in SettledRecords
  BY <1>4 DEF TradeRecords, SettledRecords
<1>6. orders' \in Seq(OrderRecords) /\ SameStakes(s, orders')
  <2> PICK w : w = [o EXCEPT !.watched = FALSE]
    OBVIOUS
  <2>1. w \in OrderRecords /\ w.stake = o.stake /\ w.of = o.of /\ w.edge = o.edge /\ w.step = o.step
    BY DEF OrderRecords
  <2> PICK t : t = orders'
    OBVIOUS
  <2>2. t = [s EXCEPT ![i] = w]
    BY <1>3
  <2>3. t \in Seq(OrderRecords) /\ SameStakes(s, t)
    BY <2>1, <2>2, OrderChanged
  <2>4. QED BY <2>3
<1>7. gale \in [Assets -> Gales] /\ settled \in Seq(SettledRecords) /\ tradesTable \in Seq(TradeRecords)
  BY <1>1 DEF RiskTypes
<1>8. GaleAfter(o.asset, o.result) \in Gales
  <2>1. gale[o.asset] \in 0 .. MAX_GALES
    BY <1>4, <1>7 DEF Gales
  <2>2. QED BY <1>4, <2>1 DEF GaleAfter, Gales
<1>9. RiskTypes'
  <2>1. memory' \in [Assets -> MemoryRecords]
    <3>1. memory \in Memories
      BY <1>1 DEF RiskTypes, Memories
    <3> PICK m \in Memories : m = memory
      BY <3>1
    <3>2. RecordTrade(m, trade) \in Memories
      BY <1>5, RecordedAs
    <3>3. QED BY <1>3, <3>2 DEF Memories
  <2>2. tradesTable' \in Seq(TradeRecords) /\ settled' \in Seq(SettledRecords)
    BY <1>3, <1>5, <1>7
  <2>3. gale' \in [Assets -> Gales]
    BY <1>3, <1>7, <1>8
  <2>4. QED BY <1>1, <1>3, <1>6, <2>1, <2>2, <2>3 DEF RiskTypes
<1>10. StakeRule'
  BY <1>1, <1>6, SameStakesWell, StakeReads
<1>11. LossBounded'
  <2>1. settled' # << >> /\ settled'[Len(settled')].cash = balance
    <3> PICK old \in Seq(SettledRecords) : old = settled
      BY <1>7
    <3>1. Append(old, e) # << >> /\ Append(old, e)[Len(Append(old, e))] = e
      BY <1>5
    <3>2. QED BY <1>3, <3>1
  <2>2. LossTarget' = LossTarget /\ initialBalance' = initialBalance
    BY <1>3 DEF LossTarget
  <2>3. AtRisk' \in Nat /\ LossTarget \in Int
    BY <1>1, <1>9, AtRiskAfter, TargetType
  <2>4. ASSUME ~locked', LimitSet, balance # 0 PROVE 100 * (balance + AtRisk') > LossTarget
    <3>1. 100 * balance > LossTarget
      BY <1>1, <1>3, <2>4, NotHit
    <3> PICK r \in Nat, t \in Int, b \in Nat : r = AtRisk' /\ t = LossTarget /\ b = balance
      BY <1>4, <2>3
    <3>2. 100 * b > t
      BY <3>1
    <3>3. 100 * (b + r) > t
      BY ONLY <3>2, r \in Nat, t \in Int, b \in Nat
    <3>4. QED BY <3>3
  <2>5. QED BY <1>3, <2>1, <2>2, <2>4 DEF LossBounded, LimitSet
<1>12. GaleIsStreak'
  <2> PICK old \in Seq(SettledRecords) : old = settled
    BY <1>7
  <2>1. ASSUME NEW a \in Assets PROVE gale'[a] = Cardinality(Streak(settled', a)) % (MAX_GALES + 1)
    <3>1. gale[a] = Cardinality(Streak(old, a)) % (MAX_GALES + 1)
      BY <1>1, LadderReads
    <3>2. /\ Cardinality(Streak(old, a)) \in Nat
          /\ e.asset # a => Streak(Append(old, e), a) = Streak(old, a)
          /\ e.asset = a /\ e.result # "loss" => Streak(Append(old, e), a) = {}
          /\ e.asset = a /\ e.result = "loss" =>
               Cardinality(Streak(Append(old, e), a)) = Cardinality(Streak(old, a)) + 1
      BY <1>5, StreakAppend
    <3>3. settled' = Append(old, e) /\ e.asset = o.asset /\ e.result = o.result
      BY <1>3
    <3>4. CASE o.asset # a
      BY <1>3, <1>4, <1>7, <3>1, <3>2, <3>3, <3>4
    <3>5. CASE o.asset = a /\ o.result # "loss"
      <4>1. gale'[a] = 0
        BY <1>3, <1>4, <1>7, <3>5 DEF GaleAfter
      <4>2. Cardinality(Streak(settled', a)) = 0
        BY <3>2, <3>3, <3>5, FS_EmptySet
      <4>3. 0 % (MAX_GALES + 1) = 0
        BY <1>4
      <4>4. QED BY <4>1, <4>2, <4>3
    <3>6. CASE o.asset = a /\ o.result = "loss"
      <4> PICK c \in Nat : c = Cardinality(Streak(old, a))
        BY <3>2
      <4>1. gale'[a] = IF gale[a] < MAX_GALES THEN gale[a] + 1 ELSE 0
        BY <1>3, <1>4, <1>7, <3>6 DEF GaleAfter
      <4>2. (c + 1) % (MAX_GALES + 1) =
              IF c % (MAX_GALES + 1) < MAX_GALES THEN (c % (MAX_GALES + 1)) + 1 ELSE 0
        BY <1>4, NextRung
      <4>3. gale[a] = c % (MAX_GALES + 1)
        BY <3>1
      <4>4. Cardinality(Streak(settled', a)) = c + 1
        BY <3>2, <3>3, <3>6
      <4>5. QED BY <4>1, <4>2, <4>3, <4>4
    <3>7. QED BY <3>4, <3>5, <3>6
  <2>2. QED BY <2>1, LadderReads
<1>13. MemoryInv'
  BY <1>1, <1>3, <1>5, MemoryGrows
<1>14. QED BY <1>9, <1>10, <1>11, <1>12, <1>13 DEF RiskInv

LEMMA CheckLimitsStep == ASSUME RiskInv, CheckLimits PROVE RiskInv'
<1>1. RiskTypes /\ StakeRule /\ LossBounded /\ GaleIsStreak /\ MemoryInv
  BY DEF RiskInv
<1>2. locked' /\ UNCHANGED <<balance, initialBalance, orders, gale, memory, tradesTable, settled>>
  BY DEF CheckLimits
<1>3. RiskTypes'
  BY <1>1, <1>2 DEF RiskTypes
<1>4. StakeRule' /\ GaleIsStreak'
  BY <1>1, <1>2, StakeReads, LadderReads
<1>5. LossBounded'
  BY <1>2 DEF LossBounded
<1>6. MemoryInv'
  BY <1>1, <1>2 DEF MemoryInv
<1>7. QED BY <1>3, <1>4, <1>5, <1>6 DEF RiskInv

\* A session without results has no streak.
LEMMA NoStreak ==
  /\ \A a \in Assets : Cardinality(Streak(<< >>, a)) = 0
  /\ MAX_GALES \in Nat /\ 0 % (MAX_GALES + 1) = 0
<1>1. \A a \in Assets : Streak(<< >>, a) = {}
  BY DEF Streak
<1>2. MAX_GALES \in Nat
  BY RiskAssumption
<1>3. QED BY <1>1, <1>2, FS_EmptySet

LEMMA RestartStep == ASSUME RiskInv, Restart PROVE RiskInv'
<1>1. RiskTypes /\ StakeRule /\ LossBounded /\ GaleIsStreak /\ MemoryInv
  BY DEF RiskInv
<1> PICK s \in Seq(OrderRecords) : s = orders
  BY <1>1 DEF RiskTypes
<1>2. /\ orders' = [i \in DOMAIN s |-> [s[i] EXCEPT !.watched = FALSE]]
      /\ initialBalance' = balance /\ gale' = [a \in Assets |-> 0]
      /\ memory' = LoadMemory /\ settled' = << >>
      /\ UNCHANGED <<balance, tradesTable, locked>>
  BY DEF Restart
<1>3. orders' \in Seq(OrderRecords) /\ SameStakes(s, orders') /\ \A i \in DOMAIN orders' : ~orders'[i].watched
  <2>1. s \in [1 .. Len(s) -> OrderRecords] /\ DOMAIN s = 1 .. Len(s) /\ Len(s) \in Nat
    OBVIOUS
  <2>2. \A o \in OrderRecords :
          LET w == [o EXCEPT !.watched = FALSE]
          IN /\ w \in OrderRecords /\ ~w.watched /\ w.stake = o.stake
             /\ w.of = o.of /\ w.edge = o.edge /\ w.step = o.step
    BY DEF OrderRecords
  <2>3. orders' \in [1 .. Len(s) -> OrderRecords]
    BY <1>2, <2>1, <2>2
  <2>4. orders' \in Seq(OrderRecords)
    BY <2>1, <2>3
  <2>5. QED BY <1>2, <2>1, <2>2, <2>4 DEF SameStakes
<1>4. balance \in Nat
  BY <1>1 DEF RiskTypes
<1>5. RiskTypes'
  <2>1. memory' \in [Assets -> MemoryRecords]
    BY <1>1, <1>2, LoadedMemory DEF Memories
  <2>2. gale' \in [Assets -> Gales]
    BY <1>2, NoStreak DEF Gales
  <2>3. settled' \in Seq(SettledRecords)
    BY <1>2
  <2>4. QED BY <1>1, <1>2, <1>3, <1>4, <2>1, <2>2, <2>3 DEF RiskTypes
<1>6. StakeRule'
  BY <1>1, <1>3, SameStakesWell, StakeReads
<1>7. LossBounded'
  <2>1. AtRisk' = 0
    <3>1. Pending' = {}
      BY <1>3 DEF Pending
    <3>2. QED BY <3>1, SumEmpty DEF AtRisk
  <2>2. LossTarget' < 100 * initialBalance' => 100 * (balance' + AtRisk') > LossTarget'
    <3>1. LossTarget' \in Int
      <4>1. LossTarget' = balance * (100 - STOP_LOSS)
        BY <1>2 DEF LossTarget
      <4>2. 100 - STOP_LOSS \in Int
        BY RiskAssumption
      <4>3. QED BY <1>4, <4>1, <4>2
    <3>2. QED BY <1>2, <1>4, <2>1, <3>1
  <2>3. QED BY <2>2 DEF LossBounded
<1>8. GaleIsStreak'
  BY <1>2, NoStreak, LadderReads
<1>9. MemoryInv'
  BY <1>1, <1>2, LoadedMemory DEF MemoryInv
<1>10. QED BY <1>5, <1>6, <1>7, <1>8, <1>9 DEF RiskInv

LEMMA RiskStarts == ASSUME RiskInit PROVE RiskInv
<1>1. /\ balance \in Balances /\ initialBalance = balance /\ orders = << >>
      /\ gale = [a \in Assets |-> 0] /\ memory = [a \in Assets |-> NoRecord]
      /\ tradesTable = << >> /\ settled = << >>
  BY DEF RiskInit
<1>2. balance \in Nat
  BY <1>1, RiskAssumption
<1>3. RiskTypes
  <2>1. gale \in [Assets -> Gales]
    BY <1>1, NoStreak DEF Gales
  <2>2. memory \in [Assets -> MemoryRecords]
    BY <1>1, PlaysNothing
  <2>3. QED BY <1>1, <1>2, <2>1, <2>2 DEF RiskTypes
<1>4. StakeRule
  BY <1>1 DEF StakeRule
<1>5. LossBounded
  <2>1. AtRisk = 0
    <3>1. Pending = {}
      BY <1>1 DEF Pending
    <3>2. QED BY <3>1, SumEmpty DEF AtRisk
  <2>2. LossTarget \in Int
    BY <1>3, TargetType
  <2>3. LossTarget < 100 * initialBalance => 100 * (balance + AtRisk) > LossTarget
    BY <1>1, <1>2, <2>1, <2>2
  <2>4. QED BY <2>3 DEF LossBounded
<1>6. GaleIsStreak
  BY <1>1, NoStreak, LadderReads
<1>7. MemoryInv
  <2>1. Len(tradesTable) = 0 /\ 1 \in 1 .. (0 + 1)
    BY <1>1
  <2>2. \A a \in Assets : Replayed(tradesTable, memory[a], a, 1, 1 - 1)
    BY <1>1, PlaysNothing
  <2>3. 1 - 1 = 0
    OBVIOUS
  <2>4. QED BY <2>1, <2>2, <2>3 DEF MemoryInv
<1>8. QED BY <1>3, <1>4, <1>5, <1>6, <1>7 DEF RiskInv

LEMMA RiskStep == ASSUME RiskInv, [RiskNext]_riskVars PROVE RiskInv'
<1>1. CASE UNCHANGED riskVars
  <2>1. UNCHANGED <<balance, initialBalance, orders, gale, memory, tradesTable, settled, locked>>
    BY <1>1 DEF riskVars
  <2>2. /\ RiskTypes' /\ StakeRule' /\ GaleIsStreak' /\ MemoryInv'
    BY <2>1, StakeReads, LadderReads DEF RiskInv, RiskTypes, MemoryInv
  <2>3. LossBounded'
    <3>1. AtRisk' = AtRisk
      BY <2>1, SameAtRisk
    <3>2. QED BY <2>1, <3>1 DEF RiskInv, LossBounded, LossTarget
  <2>4. QED BY <2>2, <2>3 DEF RiskInv
<1>2. CASE RiskNext
  BY <1>2, RestartStep, CheckLimitsStep, OpenTradeStep, CheckTradeResultStep, DecideStep DEF RiskNext
<1>3. QED BY <1>1, <1>2

\* What an order and a day may lose, whatever the balances, the percentages, the
\* limits and the number of orders (strategy.py 116-199 and 469-701).
THEOREM MoneyAtRiskHolds == RiskSpec => []MoneyAtRisk
<1>1. RiskInit => RiskInv
  BY RiskStarts
<1>2. RiskInv /\ [RiskNext]_riskVars => RiskInv'
  BY RiskStep
<1>3. RiskInv => MoneyAtRisk
  BY MemoryOfTable DEF RiskInv, MoneyAtRisk
<1>4. QED BY <1>1, <1>2, <1>3, PTL DEF RiskSpec

-----------------------------------------------------------------------------
(***************************************************************************)
(* Backtester: trades, capital, curve, drawdown and entries of a backtest. *)
(***************************************************************************)

Sides == {"LONG", "SHORT"}
Positions == [side : Sides, bar : Nat, price : Closes, stake : Int]
TradeRows == [entry : Nat, exit : Nat, side : Sides, pnl : Int, forced : BOOLEAN]

BacktestTypes ==
  /\ signalFn \in {"any", "crossover"} /\ over \in BOOLEAN
  /\ closes \in Seq(Closes) /\ equity \in Seq(Int) /\ capital \in Int
  /\ position \in {NoPosition} \cup Positions
  /\ trades \in Seq(TradeRows)

\* The trades lie one behind the other in the bars seen so far, the open position
\* behind them, and only the one that ends the backtest is forced.
TradesInOrder ==
  /\ \A i \in DOMAIN trades :
       /\ 1 <= trades[i].entry /\ trades[i].entry <= trades[i].exit /\ trades[i].exit <= Len(closes)
       /\ trades[i].entry < trades[i].exit \/ trades[i].forced
       /\ i > 1 => trades[i - 1].exit < trades[i].entry
       /\ trades[i].forced => i = Len(trades) /\ over
  /\ position # NoPosition /\ ~over =>
       /\ 1 <= position.bar /\ position.bar <= Len(closes)
       /\ \A i \in DOMAIN trades : trades[i].exit < position.bar
  /\ over => Len(closes) = Bars[signalFn]

\* A crossing before the bar.
CrossBefore(c, bar) == bar - 1 >= Warmup /\ Cross(c, bar - 1) <= 0

EntriesCross ==
  signalFn = "crossover" =>
    /\ \A i \in DOMAIN trades : CrossBefore(closes, trades[i].entry)
    /\ position # NoPosition => CrossBefore(closes, position.bar)

BacktestInv ==
  /\ BacktestTypes /\ Len(equity) = Len(closes)
  /\ TradesInOrder /\ CurveIsClosedTrades /\ EntriesCross

-----------------------------------------------------------------------------
(* The averages: what later bars bring changes nothing of the earlier ones *)

LEMMA ClosePositive == \A x \in Closes : x \in Nat /\ x >= 1
<1>1. Closes \subseteq Nat \ {0}
  BY BacktestAssumption
<1>2. \A x \in Nat \ {0} : x \in Nat /\ x >= 1
  OBVIOUS
<1>3. QED BY <1>1, <1>2

\* What bar n adds to the average.
Share(c, p, n) == 2 * c[n] * p * (p + 1)^(n - p - 1)

LEMMA ShareType ==
  ASSUME NEW c \in Seq(Closes), NEW p \in Nat \ {0}, NEW n \in p + 1 .. Len(c) PROVE Share(c, p, n) \in Int
<1>1. c[n] \in Closes
  OBVIOUS
<1>2. c[n] \in Int
  BY <1>1, ClosePositive
<1>3. (p + 1)^(n - p - 1) \in Int
  <2> PICK b \in Int, k \in Nat : b = p + 1 /\ k = n - p - 1 /\ b # 0
    OBVIOUS
  <2>1. b^k \in Int
    OBVIOUS
  <2>2. QED BY <2>1
<1> PICK x \in Int, y \in Int : x = c[n] /\ y = (p + 1)^(n - p - 1)
  BY <1>2, <1>3
<1>4. 2 * x * p * y \in Int
  OBVIOUS
<1>5. QED BY <1>4 DEF Share

LEMMA SumToType ==
  ASSUME NEW c \in Seq(Closes), NEW p \in Nat, p <= Len(c)
  PROVE  /\ SumTo(c, 1, p) \in Int
         /\ \A x : SumTo(Append(c, x), 1, p) = SumTo(c, 1, p)
<1>1. IsFiniteSet(1 .. p)
  BY FS_Interval, 1 \in Int, p \in Int
<1>2. \A i \in 1 .. p : c[i] \in Int /\ \A x : Append(c, x)[i] = c[i]
  <2> SUFFICES ASSUME NEW i \in 1 .. p PROVE c[i] \in Int /\ \A x : Append(c, x)[i] = c[i]
    OBVIOUS
  <2>1. i \in 1 .. Len(c) /\ c[i] \in Closes
    OBVIOUS
  <2>2. c[i] \in Int
    BY <2>1, ClosePositive
  <2>3. \A x : Append(c, x)[i] = c[i]
    BY <2>1
  <2>4. QED BY <2>2, <2>3
<1>3. SumFunctionOnSet(c, 1 .. p) \in Int
  BY <1>1, <1>2, SumType
<1>4. ASSUME NEW x PROVE SumFunctionOnSet(Append(c, x), 1 .. p) = SumFunctionOnSet(c, 1 .. p)
  <2> PICK d : d = Append(c, x)
    OBVIOUS
  <2>1. \A i \in 1 .. p : d[i] = c[i]
    BY <1>2
  <2>2. SumFunctionOnSet(d, 1 .. p) = SumFunctionOnSet(c, 1 .. p)
    BY <1>1, <2>1, SumSame
  <2>3. QED BY <2>2
<1>5. QED BY <1>3, <1>4 DEF SumTo

LEMMA EmaIs ==
  ASSUME NEW c \in Seq(Closes), NEW p \in Nat \ {0}
  PROVE  \A n \in p .. Len(c) :
           Ema(c, p)[n] = IF n = p THEN SumTo(c, 1, p) ELSE Share(c, p, n) + (p - 1) * Ema(c, p)[n - 1]
<1> DEFINE Averages(e) == [n \in p .. Len(c) |->
                             IF n = p THEN SumTo(c, 1, p) ELSE Share(c, p, n) + (p - 1) * e[n - 1]]
<1>1. Ema(c, p) = CHOOSE e : e = Averages(e)
  BY DEF Ema, Share
<1>2. \E e : e = Averages(e)
  <2> PICK size \in Nat : size = Len(c)
    OBVIOUS
  <2>1. CASE size < p
    <3>1. p .. Len(c) = {}
      BY <2>1
    <3> DEFINE e == [n \in p .. Len(c) |-> 0]
    <3>2. e = Averages(e)
      BY <3>1
    <3>3. QED BY <3>2
  <2>2. CASE p <= size
    <3>0. size - p \in Nat
      BY <2>2
    <3> PICK m \in Nat : m = size - p
      BY <3>0
    <3> PICK start \in Int : start = SumTo(c, 1, p)
      BY <2>2, SumToType
    <3> DEFINE step == [k \in 1 .. m |-> [x \in Int |-> Share(c, p, p + k) + (p - 1) * x]]
    <3>1. \A k \in 1 .. m : Share(c, p, p + k) \in Int
      <4> TAKE k \in 1 .. m
      <4>1. p + k \in p + 1 .. Len(c)
        OBVIOUS
      <4>2. QED BY <4>1, ShareType
    <3>2. ASSUME NEW k \in 1 .. m, NEW x \in Int
          PROVE  step[k][x] = Share(c, p, p + k) + (p - 1) * x /\ step[k][x] \in Int
      <4>1. step[k][x] = Share(c, p, p + k) + (p - 1) * x
        OBVIOUS
      <4> PICK y \in Int : y = Share(c, p, p + k)
        BY <3>1
      <4>2. y + (p - 1) * x \in Int
        OBVIOUS
      <4>3. QED BY <4>1, <4>2
    <3> HIDE DEF step
    <3>3. PICK f \in [0 .. m -> Int] : Folding(f, m, start, step)
      BY <3>2, FoldExists
    <3> DEFINE e == [n \in p .. Len(c) |-> f[n - p]]
    <3>4. ASSUME NEW n \in p .. Len(c), n = p PROVE e[n] = start
      BY <3>3, <3>4 DEF Folding
    <3>5. ASSUME NEW n \in p .. Len(c), n # p PROVE e[n] = Share(c, p, n) + (p - 1) * e[n - 1]
      <4> PICK k \in 1 .. m : k = n - p
        BY <3>5
      <4>1. k - 1 \in 0 .. m /\ n - 1 \in p .. Len(c) /\ (n - 1) - p = k - 1 /\ p + k = n
        OBVIOUS
      <4>2. f[k] = step[k][f[k - 1]] /\ f[k - 1] \in Int
        BY <3>3, <4>1 DEF Folding
      <4>3. e[n] = f[k] /\ e[n - 1] = f[k - 1]
        BY <4>1
      <4>4. step[k][f[k - 1]] = Share(c, p, p + k) + (p - 1) * f[k - 1]
        BY <3>2, <4>2
      <4> HIDE DEF e
      <4>5. QED BY <4>1, <4>2, <4>3, <4>4
    <3>6. DOMAIN e = p .. Len(c) /\ e = [n \in p .. Len(c) |-> e[n]]
      OBVIOUS
    <3> HIDE DEF e
    <3>7. \A n \in p .. Len(c) : e[n] = IF n = p THEN SumTo(c, 1, p) ELSE Share(c, p, n) + (p - 1) * e[n - 1]
      BY <3>4, <3>5
    <3>8. e = Averages(e)
      BY <3>6, <3>7
    <3>9. QED BY <3>8
  <2>3. QED BY <2>1, <2>2
<1>3. Ema(c, p) = Averages(Ema(c, p))
  BY <1>1, <1>2
<1> PICK e : e = Ema(c, p)
  OBVIOUS
<1>4. e = Averages(e)
  BY <1>3
<1>5. \A n \in p .. Len(c) : e[n] = IF n = p THEN SumTo(c, 1, p) ELSE Share(c, p, n) + (p - 1) * e[n - 1]
  BY <1>4
<1>6. QED BY <1>5

LEMMA EmaKept ==
  ASSUME NEW c \in Seq(Closes), NEW close \in Closes, NEW p \in Nat \ {0}, NEW n \in p .. Len(c)
  PROVE  Ema(Append(c, close), p)[n] = Ema(c, p)[n]
<1>0. Append(c, close) \in Seq(Closes)
  OBVIOUS
<1> PICK d \in Seq(Closes) : d = Append(c, close)
  BY <1>0
<1> PICK e, f : e = Ema(c, p) /\ f = Ema(d, p)
  OBVIOUS
<1> PICK size \in Nat : size = Len(c)
  OBVIOUS
<1>1. Len(d) = size + 1 /\ p <= size /\ \A i \in 1 .. size : d[i] = c[i]
  OBVIOUS
<1>11. size - p \in Nat
  BY <1>1
<1> PICK m \in Nat : m = size - p
  BY <1>11
<1>2. \A i \in p .. size : e[i] = IF i = p THEN SumTo(c, 1, p) ELSE Share(c, p, i) + (p - 1) * e[i - 1]
  BY EmaIs
<1>3. \A i \in p .. (size + 1) : f[i] = IF i = p THEN SumTo(d, 1, p) ELSE Share(d, p, i) + (p - 1) * f[i - 1]
  <2>1. \A i \in p .. Len(d) : f[i] = IF i = p THEN SumTo(d, 1, p) ELSE Share(d, p, i) + (p - 1) * f[i - 1]
    BY EmaIs
  <2>2. QED BY <1>1, <2>1
<1>4. SumTo(d, 1, p) = SumTo(c, 1, p)
  BY <1>1, SumToType
<1> DEFINE holds == {k \in 0 .. m : e[p + k] = f[p + k]}
<1>5. 0 \in holds
  <2>1. p \in p .. size /\ p \in p .. (size + 1) /\ 0 \in 0 .. m /\ p + 0 = p
    BY <1>1
  <2>2. QED BY <1>2, <1>3, <1>4, <2>1
<1>6. ASSUME NEW k \in 1 .. m, k - 1 \in holds PROVE k \in holds
  <2> PICK i \in p .. size : i = p + k
    OBVIOUS
  <2>1. i # p /\ i \in p .. (size + 1) /\ i - 1 = p + (k - 1) /\ i \in 1 .. size /\ k \in 0 .. m
    OBVIOUS
  <2>2. Share(d, p, i) = Share(c, p, i)
    BY <1>1, <2>1 DEF Share
  <2>3. e[i - 1] = f[i - 1]
    BY <1>6, <2>1
  <2>4. e[i] = Share(c, p, i) + (p - 1) * e[i - 1]
    BY <1>2, <2>1
  <2>5. f[i] = Share(d, p, i) + (p - 1) * f[i - 1]
    BY <1>3, <2>1
  <2>6. QED BY <2>1, <2>2, <2>3, <2>4, <2>5
<1> HIDE DEF holds
<1>7. 0 .. m \subseteq holds
  BY <1>5, <1>6, FoldKeeps
<1>8. n - p \in 0 .. m /\ p + (n - p) = n
  OBVIOUS
<1>9. e[n] = f[n]
  BY <1>7, <1>8 DEF holds
<1>10. QED BY <1>9

LEMMA CrossKept ==
  ASSUME NEW c \in Seq(Closes), NEW close \in Closes, NEW n \in Nat, Warmup <= n, n <= Len(c)
  PROVE  Cross(Append(c, close), n) = Cross(c, n)
<1>1. /\ Fast \in Nat \ {0} /\ Slow \in Nat \ {0}
      /\ n \in Fast .. Len(c) /\ n \in Slow .. Len(c)
  BY BacktestAssumption
<1>2. Ema(Append(c, close), Fast)[n] = Ema(c, Fast)[n]
  BY <1>1, EmaKept
<1>3. Ema(Append(c, close), Slow)[n] = Ema(c, Slow)[n]
  BY <1>1, EmaKept
<1>4. QED BY <1>2, <1>3 DEF Cross

-----------------------------------------------------------------------------
(* The drawdown along the running peak is the worst of all pairs *)

Dips == [lost : Int, peak : Int]
Running == [top : Int, worst : Dips]
DipOf(s, j, k) == [lost |-> s[j] - s[k], peak |-> s[j]]

\* Fractions lost / peak are ordered.
LEMMA WorseOrder ==
  ASSUME NEW a \in Dips, NEW b \in Dips, NEW c \in Dips, a.peak > 0, b.peak > 0, c.peak > 0,
         ~Worse(a, b), ~Worse(b, c)
  PROVE  ~Worse(a, c)
<1> PICK x \in Int, p \in Int, y \in Int, q \in Int, z \in Int, r \in Int :
      x = a.lost /\ p = a.peak /\ y = b.lost /\ q = b.peak /\ z = c.lost /\ r = c.peak
  BY DEF Dips
<1>1. p > 0 /\ q > 0 /\ r > 0
  OBVIOUS
<1>2. x * q <= y * p /\ y * r <= z * q
  BY DEF Worse
<1>3. \A i, j, k \in Int : i <= j /\ k > 0 => i * k <= j * k
  OBVIOUS
<1>4. (x * q) * r <= (y * p) * r /\ (y * r) * p <= (z * q) * p
  BY <1>1, <1>2, <1>3
<1>5. (x * r) * q <= (z * p) * q
  <2>1. (x * q) * r = (x * r) * q /\ (y * p) * r = (y * r) * p /\ (z * q) * p = (z * p) * q
    OBVIOUS
  <2> PICK i \in Int, j \in Int, k \in Int : i = (x * r) * q /\ j = (y * r) * p /\ k = (z * p) * q
    OBVIOUS
  <2>2. i <= j /\ j <= k
    BY <1>4, <2>1
  <2>3. QED BY <2>2
<1>6. \A i, j, k \in Int : i * k <= j * k /\ k > 0 => i <= j
  OBVIOUS
<1>7. x * r <= z * p
  BY <1>1, <1>5, <1>6
<1>8. QED BY <1>7 DEF Worse

\* From a higher point the way down to the same value is no less.
LEMMA HigherIsWorse ==
  ASSUME NEW v \in Int, NEW top \in Int, NEW cash \in Nat, v <= top
  PROVE  ~Worse([lost |-> v - cash, peak |-> v], [lost |-> top - cash, peak |-> top])
<1>1. \A i, j, k \in Int : i <= j /\ k >= 0 => i * k <= j * k
  OBVIOUS
<1>2. v * cash <= top * cash
  BY <1>1
<1>3. (v - cash) * top = v * top - cash * top /\ (top - cash) * v = v * top - cash * v
  OBVIOUS
<1>4. v * cash = cash * v /\ top * cash = cash * top
  OBVIOUS
<1>5. (v - cash) * top <= (top - cash) * v
  <2> PICK i \in Int, j \in Int, k \in Int : i = v * top /\ j = cash * top /\ k = cash * v
    OBVIOUS
  <2>1. k <= j
    BY <1>2, <1>4
  <2>2. QED BY <1>3, <2>1
<1>6. QED BY <1>5 DEF Worse

\* What the loop knows after k points.
DrawdownAt(s, d, k) ==
  /\ d \in Running /\ d.worst.peak > 0
  /\ \A j \in 1 .. k : s[j] <= d.top
  /\ \E j \in 1 .. Len(s) : (j <= k \/ j = 1) /\ d.top = s[j]
  /\ \A m \in 1 .. k : \A j \in 1 .. m : s[j] > 0 => ~Worse(DipOf(s, j, m), d.worst)
  /\ d.worst.lost = 0 \/ \E m \in 1 .. k : \E j \in 1 .. m : s[j] > 0 /\ d.worst = DipOf(s, j, m)

LEMMA DrawdownStarts ==
  ASSUME NEW s \in Seq(Nat), Len(s) >= 1
  PROVE  DrawdownAt(s, [top |-> s[1], worst |-> [lost |-> 0, peak |-> 1]], 0)
<1>1. 1 \in 1 .. Len(s) /\ s[1] \in Int
  OBVIOUS
<1>2. 1 .. 0 = {}
  OBVIOUS
<1>3. QED BY <1>1, <1>2 DEF DrawdownAt, Running, Dips

LEMMA DrawdownTakes ==
  ASSUME NEW s \in Seq(Nat), NEW k \in Nat, k + 1 <= Len(s), NEW d, DrawdownAt(s, d, k)
  PROVE  DrawdownAt(s, DrawdownStep(d, s[k + 1]), k + 1)
<1> PICK n \in Nat : n = k + 1
  OBVIOUS
<1> PICK size \in Nat : size = Len(s)
  OBVIOUS
<1>1. \A j \in 1 .. size : s[j] \in Nat
  OBVIOUS
<1>2. n \in 1 .. size /\ n >= 1 /\ n <= size
  OBVIOUS
<1> PICK cash \in Nat : cash = s[n]
  BY <1>1, <1>2
<1>3. /\ d.top \in Int /\ d.worst \in Dips /\ d.worst.peak > 0
      /\ \A j \in 1 .. k : s[j] <= d.top
      /\ \E j \in 1 .. size : (j <= k \/ j = 1) /\ d.top = s[j]
      /\ \A m \in 1 .. k : \A j \in 1 .. m : s[j] > 0 => ~Worse(DipOf(s, j, m), d.worst)
      /\ d.worst.lost = 0 \/ \E m \in 1 .. k : \E j \in 1 .. m : s[j] > 0 /\ d.worst = DipOf(s, j, m)
  BY DEF DrawdownAt, Running
<1> PICK top \in Int : top = IF d.top >= cash THEN d.top ELSE cash
  BY <1>3
<1>4. Max({d.top, cash}) = top
  <2> PICK x \in Int : x = d.top
    BY <1>3
  <2>1. Max({x, cash}) = IF x >= cash THEN x ELSE cash
    BY MaxOf
  <2>2. QED BY <2>1
<1> PICK dip : dip = [lost |-> top - cash, peak |-> top]
  OBVIOUS
<1>5. dip \in Dips
  BY DEF Dips
<1> PICK w : w = IF top > 0 /\ Worse(dip, d.worst) THEN dip ELSE d.worst
  OBVIOUS
<1>6. DrawdownStep(d, s[k + 1]) = [top |-> top, worst |-> w]
  BY <1>4 DEF DrawdownStep
<1>7. w \in Dips /\ w.peak > 0
  BY <1>3, <1>5
<1>8. \A j \in 1 .. n : s[j] <= top
  <2> TAKE j \in 1 .. n
  <2>1. CASE j = n
    BY <1>3, <2>1
  <2>2. CASE j # n
    <3>1. j \in 1 .. k /\ j \in 1 .. size
      BY <2>2
    <3>2. s[j] \in Nat /\ s[j] <= d.top /\ d.top \in Int
      BY <1>1, <1>3, <3>1
    <3>3. QED BY <3>2
  <2>3. QED BY <2>1, <2>2
<1>9. \E j \in 1 .. size : (j <= n \/ j = 1) /\ top = s[j]
  <2>1. CASE d.top >= cash
    BY <1>3, <2>1
  <2>2. CASE ~(d.top >= cash)
    BY <1>2, <2>2
  <2>3. QED BY <2>1, <2>2
<1>10. PICK t \in 1 .. n : top = s[t]
  <2>1. \A j \in 1 .. size : j <= n \/ j = 1 => j \in 1 .. n
    BY <1>2
  <2>2. QED BY <1>9, <2>1
<1>11. ASSUME NEW e \in Dips, e.peak > 0, ~Worse(e, d.worst) PROVE ~Worse(e, w)
  <2>1. CASE top > 0 /\ Worse(dip, d.worst)
    <3>1. w = dip /\ dip.peak > 0
      BY <2>1
    <3>2. ~Worse(d.worst, dip)
      <4> PICK x \in Int, p \in Int, y \in Int, q \in Int :
            x = dip.lost /\ p = dip.peak /\ y = d.worst.lost /\ q = d.worst.peak
        BY <1>3, <1>5 DEF Dips
      <4>0. x * q \in Int /\ y * p \in Int
        BY ONLY x \in Int, p \in Int, y \in Int, q \in Int
      <4> PICK u \in Int, v \in Int : u = x * q /\ v = y * p
        BY <4>0
      <4>1. u > v
        BY <2>1 DEF Worse
      <4>2. ~(v > u)
        BY <4>1
      <4>3. QED BY <4>2 DEF Worse
    <3>3. QED BY <1>3, <1>5, <1>11, <3>1, <3>2, WorseOrder
  <2>2. CASE ~(top > 0 /\ Worse(dip, d.worst))
    BY <1>11, <2>2
  <2>3. QED BY <2>1, <2>2
<1>12. ASSUME top > 0 PROVE ~Worse(dip, w)
  <2>1. CASE Worse(dip, d.worst)
    <3>1. w = dip
      BY <1>12, <2>1
    <3> PICK x \in Int, p \in Int : x = dip.lost /\ p = dip.peak
      BY <1>5 DEF Dips
    <3> PICK y \in Int : y = x * p
      OBVIOUS
    <3>2. ~(y > y)
      OBVIOUS
    <3>3. QED BY <3>1, <3>2 DEF Worse
  <2>2. CASE ~Worse(dip, d.worst)
    BY <1>12, <2>2
  <2>3. QED BY <2>1, <2>2
<1>13. ASSUME NEW m \in 1 .. n, NEW j \in 1 .. m, s[j] > 0 PROVE ~Worse(DipOf(s, j, m), w)
  <2>1. j \in 1 .. size /\ m \in 1 .. size /\ j \in 1 .. n
    BY <1>2
  <2> PICK v \in Nat, x \in Nat : v = s[j] /\ x = s[m]
    BY <1>1, <2>1
  <2> PICK e : e = DipOf(s, j, m)
    OBVIOUS
  <2>2. e = [lost |-> v - x, peak |-> v] /\ v > 0
    BY <1>13 DEF DipOf
  <2>3. e \in Dips /\ e.peak > 0
    BY <2>2 DEF Dips
  <2>4. CASE m = n
    <3>1. v <= top /\ top > 0 /\ x = cash
      <4>1. v <= top
        BY <1>8, <2>1
      <4>2. v > 0 /\ x = cash
        BY <2>2, <2>4
      <4>3. QED BY <4>1, <4>2
    <3>2. ~Worse([lost |-> v - cash, peak |-> v], [lost |-> top - cash, peak |-> top])
      <4>1. v \in Int /\ v <= top
        BY <3>1
      <4>2. QED BY <4>1, HigherIsWorse
    <3>3. ~Worse(e, dip)
      BY <2>2, <3>1, <3>2
    <3>4. ~Worse(dip, w)
      BY <1>12, <3>1
    <3>5. dip.peak > 0
      BY <3>1
    <3>6. ~Worse(e, w)
      BY <1>5, <1>7, <2>3, <3>3, <3>4, <3>5, WorseOrder
    <3>7. QED BY <3>6
  <2>5. CASE m # n
    <3>1. m \in 1 .. k
      BY <2>5
    <3>2. ~Worse(e, d.worst)
      BY <1>3, <1>13, <3>1
    <3>3. QED BY <1>11, <2>3, <3>2
  <2>6. QED BY <2>4, <2>5
<1>14. w.lost = 0 \/ \E m \in 1 .. n : \E j \in 1 .. m : s[j] > 0 /\ w = DipOf(s, j, m)
  <2>1. CASE w = dip /\ top > 0
    <3>1. dip = DipOf(s, t, n) /\ s[t] > 0 /\ n \in 1 .. n
      BY <1>2, <1>10, <2>1 DEF DipOf
    <3>2. QED BY <2>1, <3>1
  <2>2. CASE w = d.worst
    <3>1. \A m \in 1 .. k : m \in 1 .. n
      OBVIOUS
    <3>2. QED BY <1>3, <2>2, <3>1
  <2>3. QED BY <2>1, <2>2
<1>15. [top |-> top, worst |-> w] \in Running
  BY <1>7 DEF Running
<1> PICK r : r = [top |-> top, worst |-> w]
  OBVIOUS
<1>16. r \in Running /\ r.top = top /\ r.worst = w
  BY <1>15
<1>17. DrawdownAt(s, r, n)
  BY <1>7, <1>8, <1>9, <1>13, <1>14, <1>16 DEF DrawdownAt
<1>18. QED BY <1>6, <1>17

LEMMA DrawdownHolds == ASSUME equity \in Seq(Int) PROVE DrawdownIsWorstPair
<1> SUFFICES ASSUME equity # << >>, \A k \in DOMAIN equity : equity[k] >= 0 PROVE DrawdownIsWorstPair
  BY DEF DrawdownIsWorstPair
<1>1. equity \in Seq(Nat) /\ Len(equity) \in Nat /\ Len(equity) >= 1
  <2> PICK n \in Nat : n = Len(equity)
    OBVIOUS
  <2>1. equity \in [1 .. n -> Int] /\ DOMAIN equity = 1 .. n /\ n >= 1
    OBVIOUS
  <2>2. \A x \in Int : x >= 0 => x \in Nat
    OBVIOUS
  <2>3. equity \in [1 .. n -> Nat]
    BY <2>1, <2>2
  <2>4. QED BY <2>1, <2>3
<1> PICK s \in Seq(Nat) : s = equity
  BY <1>1
<1> DEFINE n == Len(s)
           start == [top |-> s[1], worst |-> [lost |-> 0, peak |-> 1]]
           Points(d) == [k \in 0 .. n |-> IF k = 0 THEN start ELSE DrawdownStep(d[k - 1], s[k])]
           run == CHOOSE d : d = Points(d)
<1>2. MaxDrawdown = run[n].worst
  BY DEF MaxDrawdown
<1>3. n \in Nat /\ n >= 1 /\ DOMAIN s = 1 .. n /\ \A k \in 1 .. n : s[k] \in Nat
  BY <1>1
<1>4. DrawdownAt(s, start, 0)
  BY <1>3, DrawdownStarts
<1>5. ASSUME NEW k \in 1 .. n, NEW d, DrawdownAt(s, d, k - 1) PROVE DrawdownAt(s, DrawdownStep(d, s[k]), k)
  <2> PICK j \in Nat : j = k - 1 /\ j + 1 = k
    BY <1>3
  <2>1. j + 1 <= Len(s)
    BY <1>3
  <2>2. DrawdownAt(s, d, j)
    BY <1>5
  <2>3. DrawdownAt(s, DrawdownStep(d, s[j + 1]), j + 1)
    BY <2>1, <2>2, DrawdownTakes
  <2>4. QED BY <2>3
<1> HIDE DEF n, start
<1>6. \E d : d = Points(d)
  <2> DEFINE step == [k \in 1 .. n |-> [x \in Running |-> DrawdownStep(x, s[k])]]
  <2>1. \A k \in 1 .. n : \A x \in Running : step[k][x] = DrawdownStep(x, s[k]) /\ step[k][x] \in Running
    <3> TAKE k \in 1 .. n
    <3> TAKE x \in Running
    <3>1. s[k] \in Nat
      BY <1>3
    <3> PICK cash \in Nat : cash = s[k]
      BY <3>1
    <3>2. x.top \in Int /\ x.worst \in Dips
      BY DEF Running
    <3>3. Max({x.top, cash}) \in Int
      BY <3>2, MaxOf
    <3>4. DrawdownStep(x, cash) \in Running
      BY <3>2, <3>3 DEF DrawdownStep, Running, Dips
    <3>5. QED BY <3>4
  <2> HIDE DEF step
  <2>2. start \in Running
    BY <1>4 DEF DrawdownAt
  <2>3. PICK g \in [0 .. n -> Running] : Folding(g, n, start, step)
    BY <1>3, <2>1, <2>2, FoldExists
  <2>4. ASSUME NEW k \in 0 .. n PROVE g[k] = IF k = 0 THEN start ELSE DrawdownStep(g[k - 1], s[k])
    <3>1. CASE k = 0
      BY <2>3, <3>1 DEF Folding
    <3>2. CASE k # 0
      <4>1. k \in 1 .. n /\ k - 1 \in 0 .. n
        BY <1>3, <3>2
      <4>2. g[k] = step[k][g[k - 1]] /\ g[k - 1] \in Running
        BY <2>3, <4>1 DEF Folding
      <4>3. step[k][g[k - 1]] = DrawdownStep(g[k - 1], s[k])
        BY <2>1, <4>1, <4>2
      <4>4. QED BY <3>2, <4>2, <4>3
    <3>3. QED BY <3>1, <3>2
  <2>5. g = [k \in 0 .. n |-> g[k]]
    OBVIOUS
  <2>6. g = Points(g)
    BY <2>4, <2>5
  <2>7. QED BY <2>6
<1>7. run = Points(run)
  BY <1>6
<1> HIDE DEF run
<1>8. run[0] = start /\ \A k \in 1 .. n : run[k] = DrawdownStep(run[k - 1], s[k])
  <2>1. 0 \in 0 .. n /\ \A k \in 1 .. n : k \in 0 .. n /\ k # 0
    BY <1>3
  <2>2. QED BY <1>7, <2>1
<1> DEFINE holds == {k \in 0 .. n : DrawdownAt(s, run[k], k)}
<1>9. 0 \in holds
  BY <1>3, <1>4, <1>8
<1>10. ASSUME NEW k \in 1 .. n, k - 1 \in holds PROVE k \in holds
  <2>1. DrawdownAt(s, run[k - 1], k - 1)
    BY <1>10
  <2>2. DrawdownAt(s, run[k], k)
    BY <1>5, <1>8, <2>1
  <2>3. k \in 0 .. n
    BY <1>3
  <2>4. QED BY <2>2, <2>3
<1> HIDE DEF holds
<1>11. 0 .. n \subseteq holds
  BY <1>3, <1>9, <1>10, FoldKeeps
<1>12. DrawdownAt(s, run[n], n)
  BY <1>3, <1>11 DEF holds
<1> PICK w : w = MaxDrawdown
  OBVIOUS
<1>13. /\ \A m \in 1 .. n : \A j \in 1 .. m : s[j] > 0 => ~Worse(DipOf(s, j, m), w)
       /\ w.lost = 0 \/ \E m \in 1 .. n : \E j \in 1 .. m : s[j] > 0 /\ w = DipOf(s, j, m)
  BY <1>2, <1>12 DEF DrawdownAt
<1>14. \A k \in DOMAIN s : \A d \in {DipOf(s, j, k) : j \in {i \in 1 .. k : s[i] > 0}} : ~Worse(d, w)
  BY <1>3, <1>13
<1>15. w.lost = 0 \/ \E k \in DOMAIN s : w \in {DipOf(s, j, k) : j \in {i \in 1 .. k : s[i] > 0}}
  BY <1>3, <1>13
<1>16. QED BY <1>14, <1>15 DEF DrawdownIsWorstPair, DipOf

-----------------------------------------------------------------------------
(* Sums of profits *)

PnlSum(t, S) == SumFunctionOnSet([i \in DOMAIN t |-> t[i].pnl], S)
ClosedBy(t, k) == {i \in DOMAIN t : t[i].exit <= k /\ ~t[i].forced}

CurveReads(cash, t, e) ==
  /\ cash = InitialCapital + PnlSum(t, DOMAIN t)
  /\ \A k \in DOMAIN e : e[k] = InitialCapital + PnlSum(t, ClosedBy(t, k))

LEMMA CurveIs ==
  /\ CurveIsClosedTrades <=> CurveReads(capital, trades, equity)
  /\ CurveIsClosedTrades' <=> CurveReads(capital', trades', equity')
BY DEF CurveIsClosedTrades, CurveReads, PnlSum, ClosedBy, TotalPnl, PnlOf

LEMMA AppendedTrade ==
  ASSUME NEW t \in Seq(TradeRows), NEW r \in TradeRows, NEW u, u = Append(t, r)
  PROVE  /\ u \in Seq(TradeRows) /\ Len(u) = Len(t) + 1 /\ u[Len(t) + 1] = r /\ Len(t) \in Nat
         /\ DOMAIN t = 1 .. Len(t) /\ DOMAIN u = 1 .. (Len(t) + 1)
         /\ \A i \in 1 .. Len(t) : u[i] = t[i]
OBVIOUS

LEMMA PnlSumType == ASSUME NEW t \in Seq(TradeRows) PROVE PnlSum(t, DOMAIN t) \in Int
<1> PICK n \in Nat : n = Len(t)
  OBVIOUS
<1> PICK D : D = 1 .. n
  OBVIOUS
<1>1. DOMAIN t = D
  OBVIOUS
<1>2. IsFiniteSet(D)
  BY FS_Interval, 1 \in Int, n \in Int
<1> DEFINE f == [i \in DOMAIN t |-> t[i].pnl]
<1>3. \A i \in D : f[i] \in Int
  <2>1. \A i \in D : t[i] \in TradeRows
    BY <1>1
  <2>2. \A i \in D : f[i] = t[i].pnl
    BY <1>1
  <2>3. QED BY <2>1, <2>2 DEF TradeRows
<1> HIDE DEF f
<1>4. SumFunctionOnSet(f, D) \in Int
  BY <1>2, <1>3, SumType
<1>5. QED BY <1>1, <1>4 DEF PnlSum, f

LEMMA PnlAppended ==
  ASSUME NEW t \in Seq(TradeRows), NEW r \in TradeRows, NEW u, u = Append(t, r)
  PROVE  /\ PnlSum(u, DOMAIN u) = PnlSum(t, DOMAIN t) + r.pnl
         /\ \A k : ~(r.exit <= k /\ ~r.forced) => PnlSum(u, ClosedBy(u, k)) = PnlSum(t, ClosedBy(t, k))
<1> PICK n \in Nat : n = Len(t)
  OBVIOUS
<1>1. /\ u \in Seq(TradeRows) /\ u[n + 1] = r /\ DOMAIN t = 1 .. n /\ DOMAIN u = 1 .. (n + 1)
      /\ \A i \in 1 .. n : u[i] = t[i]
  BY AppendedTrade
<1> PICK D : D = 1 .. n
  OBVIOUS
<1>2. 1 .. (n + 1) = D \cup {n + 1} /\ n + 1 \notin D
  OBVIOUS
<1>3. IsFiniteSet(D)
  BY FS_Interval, 1 \in Int, n \in Int
<1> DEFINE f == [i \in DOMAIN t |-> t[i].pnl]
           g == [i \in DOMAIN u |-> u[i].pnl]
<1>4. /\ \A i \in D : f[i] \in Int /\ g[i] = f[i]
      /\ g[n + 1] = r.pnl /\ r.pnl \in Int
  <2>1. \A i \in D : t[i] \in TradeRows
    BY <1>1
  <2>2. \A i \in D : f[i] = t[i].pnl /\ g[i] = u[i].pnl
    BY <1>1, <1>2
  <2>3. g[n + 1] = r.pnl
    BY <1>1, <1>2
  <2> HIDE DEF f, g
  <2>4. QED BY <1>1, <2>1, <2>2, <2>3 DEF TradeRows
<1> HIDE DEF f, g
<1>5. SumFunctionOnSet(g, D) = SumFunctionOnSet(f, D) /\ SumFunctionOnSet(f, D) \in Int
  BY <1>3, <1>4, SumSame, SumType
<1>6. SumFunctionOnSet(g, D \cup {n + 1}) = g[n + 1] + SumFunctionOnSet(g, D)
  <2>1. \A i \in D : g[i] \in Int
    BY <1>4
  <2>2. QED BY <1>2, <1>3, <1>4, <2>1, SumAdd
<1>7. PnlSum(u, DOMAIN u) = PnlSum(t, DOMAIN t) + r.pnl
  <2> PICK x \in Int, y \in Int : x = SumFunctionOnSet(f, D) /\ y = r.pnl
    BY <1>4, <1>5
  <2>1. SumFunctionOnSet(g, D \cup {n + 1}) = x + y
    BY <1>4, <1>5, <1>6
  <2>2. PnlSum(u, DOMAIN u) = SumFunctionOnSet(g, D \cup {n + 1})
    BY <1>1, <1>2 DEF PnlSum, g
  <2>3. PnlSum(t, DOMAIN t) = SumFunctionOnSet(f, D)
    BY <1>1 DEF PnlSum, f
  <2>4. QED BY <2>1, <2>2, <2>3
<1>8. ASSUME NEW k, ~(r.exit <= k /\ ~r.forced)
      PROVE  PnlSum(u, ClosedBy(u, k)) = PnlSum(t, ClosedBy(t, k))
  <2>1. ClosedBy(u, k) = ClosedBy(t, k) /\ ClosedBy(t, k) \in SUBSET D
    BY <1>1, <1>2, <1>8 DEF ClosedBy
  <2> PICK S : S = ClosedBy(t, k)
    OBVIOUS
  <2>2. IsFiniteSet(S) /\ \A i \in S : g[i] = f[i]
    BY <1>3, <1>4, <2>1, FS_Subset
  <2>3. SumFunctionOnSet(g, S) = SumFunctionOnSet(f, S)
    BY <2>2, SumSame
  <2>4. QED BY <2>1, <2>3 DEF PnlSum, f, g
<1>9. QED BY <1>7, <1>8

-----------------------------------------------------------------------------
(* The steps *)

LEMMA PnlType == ASSUME position \in Positions, NEW close \in Closes PROVE Pnl(close) \in Int
<1>1. close \in Int /\ position.price \in Nat /\ position.price >= 1 /\ position.stake \in Int
  BY ClosePositive DEF Positions
<1> PICK price \in Nat, stake \in Int : price = position.price /\ stake = position.stake /\ price >= 1
  BY <1>1
<1>2. \A x \in Int : x \div price \in Int
  OBVIOUS
<1>3. (close - price) * stake \in Int /\ (price - close) * stake \in Int
  BY <1>1
<1>4. QED BY <1>2, <1>3 DEF Pnl

LEMMA PositionOpen ==
  ASSUME BacktestTypes
  PROVE  /\ position # NoPosition => position \in Positions
         /\ \A p \in Positions : p # NoPosition
<1>1. \A p \in Positions : p.side # "NONE"
  BY DEF Positions, Sides
<1>2. NoPosition.side = "NONE"
  BY DEF NoPosition
<1>3. QED BY <1>1, <1>2 DEF BacktestTypes

\* The trade a close makes of the position.
Closing(r, bar, forced) ==
  /\ r \in TradeRows /\ r.entry = position.bar /\ r.exit = bar /\ (r.forced <=> forced)
  /\ trades' = Append(trades, r) /\ capital' = capital + r.pnl

LEMMA ClosingTrade ==
  ASSUME position \in Positions, NEW close \in Closes, NEW bar \in Nat, NEW forced \in BOOLEAN,
         trades' = Append(trades, TradeRecord(bar, close, forced)), capital' = capital + Pnl(close)
  PROVE  \E r : Closing(r, bar, forced)
<1> PICK pnl \in Int : pnl = Pnl(close)
  BY PnlType
<1> PICK r : r = [entry |-> position.bar, exit |-> bar, side |-> position.side, pnl |-> pnl, forced |-> forced]
  OBVIOUS
<1>1. r = TradeRecord(bar, close, forced)
  BY DEF TradeRecord
<1>2. r \in TradeRows
  BY DEF TradeRows, Positions
<1>3. QED BY <1>1, <1>2 DEF Closing

LEMMA BarCases ==
  ASSUME BacktestInv, NEW close \in Closes, NEW signal \in Signals, Bar(close, signal)
  PROVE  /\ ~over /\ closes' = Append(closes, close) /\ equity' = Append(equity, capital')
         /\ UNCHANGED <<signalFn, over>>
         /\ \/ position # NoPosition /\ position' = NoPosition /\ \E r : Closing(r, Len(closes) + 1, FALSE)
            \/ /\ position = NoPosition /\ position' \in Positions /\ position'.bar = Len(closes) + 1
               /\ UNCHANGED <<capital, trades>>
               /\ signalFn = "crossover" => CrossBefore(closes', Len(closes) + 1)
            \/ UNCHANGED <<position, capital, trades>>
<1>1. BacktestTypes /\ Len(closes) \in Nat /\ (over => Len(closes) = Bars[signalFn])
  BY DEF BacktestInv, TradesInOrder, BacktestTypes
<1>2. ~over
  BY <1>1 DEF Bar
<1>3. closes' = Append(closes, close) /\ equity' = Append(equity, capital') /\ UNCHANGED <<signalFn, over>>
  BY DEF Bar, Curve
<1>4. CASE ClosesPosition(signal)
  <2>1. position # NoPosition /\ position \in Positions
    BY <1>1, <1>4, PositionOpen DEF ClosesPosition
  <2>2. /\ trades' = Append(trades, TradeRecord(Len(closes) + 1, close, FALSE))
        /\ capital' = capital + Pnl(close) /\ position' = NoPosition
    <3>1. ~OpensPosition(signal)
      BY <2>1 DEF OpensPosition
    <3>2. QED BY <1>4, <3>1 DEF Bar, AfterClose
  <2>3. \E r : Closing(r, Len(closes) + 1, FALSE)
    <3> PICK bar \in Nat : bar = Len(closes) + 1
      BY <1>1
    <3>1. trades' = Append(trades, TradeRecord(bar, close, FALSE)) /\ capital' = capital + Pnl(close)
      BY <2>2
    <3>2. FALSE \in BOOLEAN
      OBVIOUS
    <3>3. \E r : Closing(r, bar, FALSE)
      BY <2>1, <3>1, <3>2, ClosingTrade
    <3>4. QED BY <3>3
  <2>4. QED BY <1>2, <1>3, <2>1, <2>2, <2>3
<1>5. CASE ~ClosesPosition(signal) /\ OpensPosition(signal)
  <2>1. position = NoPosition /\ signal \in Sides
    BY <1>5 DEF OpensPosition, Sides
  <2>2. position' = Opened(signal, close) /\ trades' = trades
    BY <1>5 DEF Bar
  <2>3. capital' = capital /\ capital \in Int
    BY <1>1, <1>5 DEF Bar, BacktestTypes
  <2>4. capital \div SizeInverse \in Int
    BY <2>3, BacktestAssumption
  <2>5. position' \in Positions /\ position'.bar = Len(closes) + 1
    BY <1>1, <2>1, <2>2, <2>4 DEF Opened, Positions
  <2>6. ASSUME signalFn = "crossover" PROVE CrossBefore(closes', Len(closes) + 1)
    <3> PICK c, d : c \in Seq(Closes) /\ c = closes /\ d = Append(c, close)
      BY <1>1 DEF BacktestTypes
    <3>1. Len(d) = Len(c) + 1 /\ Len(c) \in Nat
      OBVIOUS
    <3>2. signal = Crossover(d)
      BY <2>6 DEF Bar
    <3>3. Len(d) > Warmup /\ CrossedUp(d)
      <4>1. CASE Len(d) <= Warmup
        BY <2>1, <3>2, <4>1 DEF Crossover, Sides
      <4>2. CASE ~(Len(d) <= Warmup)
        <5>1. Len(d) > Warmup
          BY <3>1, <4>2, BacktestAssumption
        <5>2. CrossedUp(d)
          BY <2>1, <3>2, <4>2, <5>1 DEF Crossover, Sides
        <5>3. QED BY <5>1, <5>2
      <4>3. QED BY <4>1, <4>2
    <3>4. Cross(d, Len(d) - 1) <= 0
      BY <3>3 DEF CrossedUp
    <3>5. (Len(c) + 1) - 1 >= Warmup /\ (Len(c) + 1) - 1 = Len(d) - 1
      BY <3>1, <3>3, BacktestAssumption
    <3>6. CrossBefore(d, Len(c) + 1)
      BY <3>4, <3>5 DEF CrossBefore
    <3>7. QED BY <1>3, <3>6
  <2>7. QED BY <1>2, <1>3, <2>1, <2>2, <2>3, <2>5, <2>6
<1>6. CASE ~ClosesPosition(signal) /\ ~OpensPosition(signal)
  <2>1. UNCHANGED <<position, trades>>
    BY <1>6 DEF Bar
  <2>2. capital' = capital
    BY <1>1, <1>6 DEF Bar, BacktestTypes
  <2>3. QED BY <1>2, <1>3, <2>1, <2>2
<1>7. QED BY <1>4, <1>5, <1>6

LEMMA FinishCases ==
  ASSUME BacktestInv, Finish
  PROVE  /\ ~over /\ over' /\ Len(closes) = Bars[signalFn] /\ UNCHANGED <<signalFn, closes, position, equity>>
         /\ \/ UNCHANGED <<capital, trades>>
            \/ position # NoPosition /\ \E r : Closing(r, Len(closes), TRUE)
<1>1. BacktestTypes /\ Len(closes) \in Nat
  BY DEF BacktestInv, BacktestTypes
<1>2. ~over /\ over' /\ Len(closes) = Bars[signalFn] /\ UNCHANGED <<signalFn, closes, position, equity>>
  BY DEF Finish
<1>3. CASE position = NoPosition
  BY <1>2, <1>3 DEF Finish
<1>4. CASE position # NoPosition
  <2>1. position \in Positions /\ 1 <= position.bar /\ position.bar <= Len(closes)
    BY <1>1, <1>2, <1>4, PositionOpen DEF BacktestInv, TradesInOrder
  <2>2. closes[Len(closes)] \in Closes
    <3> PICK c \in Seq(Closes) : c = closes
      BY <1>1 DEF BacktestTypes
    <3>1. Len(c) >= 1
      BY <1>1, <2>1 DEF Positions
    <3>2. c[Len(c)] \in Closes
      BY <3>1
    <3>3. QED BY <3>2
  <2>3. /\ trades' = Append(trades, TradeRecord(Len(closes), closes[Len(closes)], TRUE))
        /\ capital' = capital + Pnl(closes[Len(closes)])
    BY <1>4 DEF Finish
  <2>4. \E r : Closing(r, Len(closes), TRUE)
    BY <1>1, <2>1, <2>2, <2>3, ClosingTrade
  <2>5. QED BY <1>2, <1>4, <2>4
<1>5. QED BY <1>3, <1>4

\* While the backtest runs, no trade is forced and all lie before the position.
LEMMA StillRunning ==
  ASSUME BacktestInv, ~over
  PROVE  /\ Len(closes) \in Nat /\ Len(trades) \in Nat /\ DOMAIN trades = 1 .. Len(trades)
         /\ trades \in Seq(TradeRows) /\ capital \in Int
         /\ \A i \in DOMAIN trades :
              /\ trades[i].entry \in Nat /\ trades[i].exit \in Nat /\ ~trades[i].forced
              /\ 1 <= trades[i].entry /\ trades[i].entry < trades[i].exit /\ trades[i].exit <= Len(closes)
              /\ i > 1 => trades[i - 1].exit < trades[i].entry
         /\ position # NoPosition =>
              /\ position.bar \in Nat /\ 1 <= position.bar /\ position.bar <= Len(closes)
              /\ \A i \in DOMAIN trades : trades[i].exit < position.bar
<1>1. BacktestTypes /\ TradesInOrder
  BY DEF BacktestInv
<1>2. /\ Len(closes) \in Nat /\ Len(trades) \in Nat /\ DOMAIN trades = 1 .. Len(trades)
      /\ trades \in Seq(TradeRows) /\ capital \in Int
  BY <1>1 DEF BacktestTypes
<1>3. \A i \in DOMAIN trades : trades[i] \in TradeRows
  BY <1>2
<1>4. \A i \in DOMAIN trades : trades[i].entry \in Nat /\ trades[i].exit \in Nat
  BY <1>3 DEF TradeRows
<1>5. \A i \in DOMAIN trades :
        /\ ~trades[i].forced
        /\ 1 <= trades[i].entry /\ trades[i].entry < trades[i].exit /\ trades[i].exit <= Len(closes)
        /\ i > 1 => trades[i - 1].exit < trades[i].entry
  BY <1>1 DEF TradesInOrder
<1>6. position # NoPosition =>
        /\ position.bar \in Nat /\ 1 <= position.bar /\ position.bar <= Len(closes)
        /\ \A i \in DOMAIN trades : trades[i].exit < position.bar
  BY <1>1, PositionOpen DEF TradesInOrder, Positions
<1>7. QED BY <1>2, <1>4, <1>5, <1>6

\* A close puts one trade more behind the others.
LEMMA ClosingOrder ==
  ASSUME BacktestInv, ~over, position # NoPosition, NEW bar \in Nat, NEW forced \in BOOLEAN,
         NEW r, Closing(r, bar, forced), Len(closes') = bar, Len(closes) <= bar,
         Len(closes) < bar \/ forced, forced => over',
         over' => Len(closes') = Bars[signalFn'], position' = NoPosition \/ over'
  PROVE  /\ TradesInOrder' /\ trades' \in Seq(TradeRows) /\ capital' \in Int
         /\ r \in TradeRows /\ r.entry = position.bar /\ r.exit = bar /\ (r.forced <=> forced)
         /\ trades' = Append(trades, r) /\ capital' = capital + r.pnl
<1>1. /\ r \in TradeRows /\ r.entry = position.bar /\ r.exit = bar /\ (r.forced <=> forced)
      /\ trades' = Append(trades, r) /\ capital' = capital + r.pnl /\ r.pnl \in Int
  BY DEF Closing, TradeRows
<1>2. /\ Len(closes) \in Nat /\ Len(trades) \in Nat /\ DOMAIN trades = 1 .. Len(trades)
      /\ trades \in Seq(TradeRows) /\ capital \in Int
      /\ \A i \in DOMAIN trades :
           /\ trades[i].entry \in Nat /\ trades[i].exit \in Nat /\ ~trades[i].forced
           /\ 1 <= trades[i].entry /\ trades[i].entry < trades[i].exit /\ trades[i].exit <= Len(closes)
           /\ i > 1 => trades[i - 1].exit < trades[i].entry
      /\ position.bar \in Nat /\ 1 <= position.bar /\ position.bar <= Len(closes)
      /\ \A i \in DOMAIN trades : trades[i].exit < position.bar
  BY StillRunning
<1> PICK t, n, u : t \in Seq(TradeRows) /\ n \in Nat /\ t = trades /\ n = Len(t) /\ u = Append(t, r)
  BY <1>2
<1>3. /\ u \in Seq(TradeRows) /\ Len(u) = n + 1 /\ u[n + 1] = r /\ DOMAIN u = 1 .. (n + 1)
      /\ \A i \in 1 .. n : u[i] = t[i]
  BY <1>1, AppendedTrade
<1>4. ASSUME NEW i \in 1 .. n
      PROVE  /\ 1 <= u[i].entry /\ u[i].entry <= u[i].exit /\ u[i].exit <= bar
             /\ u[i].entry < u[i].exit \/ u[i].forced
             /\ i > 1 => u[i - 1].exit < u[i].entry
             /\ u[i].forced => i = Len(u) /\ over'
  <2>1. u[i] = t[i] /\ i \in DOMAIN trades
    BY <1>2, <1>3
  <2>2. i > 1 => u[i - 1] = t[i - 1]
    BY <1>3
  <2>3. 1 <= t[i].entry /\ t[i].entry < t[i].exit /\ t[i].exit <= Len(closes) /\ ~t[i].forced
        /\ t[i].entry \in Nat /\ t[i].exit \in Nat /\ (i > 1 => t[i - 1].exit < t[i].entry)
    BY <1>2, <2>1
  <2>4. t[i].exit <= bar /\ t[i].entry <= t[i].exit
    BY <1>2, <2>3
  <2>5. QED BY <2>1, <2>2, <2>3, <2>4
<1>5. /\ 1 <= r.entry /\ r.entry <= r.exit /\ r.exit <= bar
      /\ r.entry < r.exit \/ r.forced
      /\ n + 1 > 1 => u[n].exit < r.entry
      /\ r.forced => over'
  <2>1. n + 1 > 1 => u[n].exit < r.entry
    <3>1. n + 1 > 1 => n \in 1 .. n
      OBVIOUS
    <3>2. QED BY <1>1, <1>2, <1>3, <3>1
  <2>2. r.entry <= r.exit /\ (r.entry < r.exit \/ r.forced)
    BY <1>1, <1>2
  <2>3. QED BY <1>1, <1>2, <2>1, <2>2
<1>6. \A i \in DOMAIN u :
        /\ 1 <= u[i].entry /\ u[i].entry <= u[i].exit /\ u[i].exit <= bar
        /\ u[i].entry < u[i].exit \/ u[i].forced
        /\ i > 1 => u[i - 1].exit < u[i].entry
        /\ u[i].forced => i = Len(u) /\ over'
  <2> TAKE i \in DOMAIN u
  <2>1. CASE i \in 1 .. n
    BY <1>4, <2>1
  <2>2. CASE i = n + 1
    <3>1. u[i] = r /\ i - 1 = n /\ i = Len(u)
      BY <1>3, <2>2
    <3>2. QED BY <1>5, <2>2, <3>1
  <2>3. QED BY <1>3, <2>1, <2>2
<1>7. trades' = u
  BY <1>1
<1>8. TradesInOrder'
  BY <1>6, <1>7 DEF TradesInOrder
<1>9. capital' \in Int
  BY <1>1, <1>2
<1>10. QED BY <1>1, <1>3, <1>7, <1>8, <1>9

LEMMA CurveAppended ==
  ASSUME NEW e \in Seq(Int), NEW cash \in Int
  PROVE  /\ Append(e, cash) \in Seq(Int) /\ Len(Append(e, cash)) = Len(e) + 1
         /\ DOMAIN e = 1 .. Len(e) /\ DOMAIN Append(e, cash) = 1 .. (Len(e) + 1)
         /\ Append(e, cash)[Len(e) + 1] = cash /\ \A k \in 1 .. Len(e) : Append(e, cash)[k] = e[k]
OBVIOUS

\* Crossings stay crossings when a bar is appended.
LEMMA CrossBeforeKept ==
  ASSUME NEW c \in Seq(Closes), NEW close \in Closes, NEW bar \in Nat, bar <= Len(c), CrossBefore(c, bar)
  PROVE  CrossBefore(Append(c, close), bar)
<1>1. bar - 1 >= Warmup /\ Cross(c, bar - 1) <= 0 /\ Warmup \in Nat /\ Len(c) \in Nat
  BY BacktestAssumption DEF CrossBefore
<1>2. bar - 1 \in Nat /\ Warmup <= bar - 1 /\ bar - 1 <= Len(c)
  BY <1>1
<1>3. Cross(Append(c, close), bar - 1) = Cross(c, bar - 1)
  BY <1>2, CrossKept
<1>4. QED BY <1>1, <1>3 DEF CrossBefore

LEMMA BarStep ==
  ASSUME BacktestInv, NEW close \in Closes, NEW signal \in Signals, Bar(close, signal)
  PROVE  BacktestInv'
<1>1. BacktestTypes /\ Len(equity) = Len(closes) /\ TradesInOrder /\ CurveIsClosedTrades /\ EntriesCross
  BY DEF BacktestInv
<1>2. /\ ~over /\ closes' = Append(closes, close) /\ equity' = Append(equity, capital')
      /\ UNCHANGED <<signalFn, over>>
      /\ \/ position # NoPosition /\ position' = NoPosition /\ \E r : Closing(r, Len(closes) + 1, FALSE)
         \/ /\ position = NoPosition /\ position' \in Positions /\ position'.bar = Len(closes) + 1
            /\ UNCHANGED <<capital, trades>>
            /\ signalFn = "crossover" => CrossBefore(closes', Len(closes) + 1)
         \/ UNCHANGED <<position, capital, trades>>
  BY BarCases
<1>3. /\ Len(closes) \in Nat /\ Len(trades) \in Nat /\ DOMAIN trades = 1 .. Len(trades)
      /\ trades \in Seq(TradeRows) /\ capital \in Int
      /\ \A i \in DOMAIN trades :
           /\ trades[i].entry \in Nat /\ trades[i].exit \in Nat /\ ~trades[i].forced
           /\ 1 <= trades[i].entry /\ trades[i].entry < trades[i].exit /\ trades[i].exit <= Len(closes)
           /\ i > 1 => trades[i - 1].exit < trades[i].entry
      /\ position # NoPosition =>
           /\ position.bar \in Nat /\ 1 <= position.bar /\ position.bar <= Len(closes)
           /\ \A i \in DOMAIN trades : trades[i].exit < position.bar
  BY <1>2, StillRunning
<1> PICK n \in Nat : n = Len(closes)
  BY <1>3
<1>4. closes' \in Seq(Closes) /\ Len(closes') = n + 1
  <2> PICK c \in Seq(Closes) : c = closes
    BY <1>1 DEF BacktestTypes
  <2>1. Append(c, close) \in Seq(Closes) /\ Len(Append(c, close)) = Len(c) + 1
    OBVIOUS
  <2>2. QED BY <1>2, <2>1
\* Trades, position and capital.
<1>5. /\ capital' \in Int /\ trades' \in Seq(TradeRows) /\ TradesInOrder'
      /\ position' \in {NoPosition} \cup Positions
      /\ \/ /\ UNCHANGED <<capital, trades>>
            /\ \/ position' = position
               \/ /\ position' \in Positions /\ position'.bar = n + 1
                  /\ signalFn = "crossover" => CrossBefore(closes', n + 1)
         \/ /\ position # NoPosition /\ position' = NoPosition
            /\ \E r \in TradeRows : /\ trades' = Append(trades, r) /\ capital' = capital + r.pnl
                                 /\ r.entry = position.bar /\ r.exit = n + 1 /\ ~r.forced
  <2>1. CASE position # NoPosition /\ position' = NoPosition /\ \E r : Closing(r, n + 1, FALSE)
    <3>1. PICK r : Closing(r, n + 1, FALSE)
      BY <2>1
    <3>2. n + 1 \in Nat /\ n <= n + 1 /\ n < n + 1 /\ FALSE \in BOOLEAN
      OBVIOUS
    <3>3. ~over'
      BY <1>2
    <3>4. /\ TradesInOrder' /\ trades' \in Seq(TradeRows) /\ capital' \in Int
          /\ r \in TradeRows /\ r.entry = position.bar /\ r.exit = n + 1 /\ (r.forced <=> FALSE)
          /\ trades' = Append(trades, r) /\ capital' = capital + r.pnl
      BY <1>2, <1>4, <2>1, <3>1, <3>2, <3>3, ClosingOrder
    <3>5. QED BY <2>1, <3>4
  <2>2. CASE /\ position = NoPosition /\ position' \in Positions /\ position'.bar = n + 1
             /\ UNCHANGED <<capital, trades>>
             /\ signalFn = "crossover" => CrossBefore(closes', n + 1)
    <3>1. \A i \in DOMAIN trades : trades[i].exit <= n + 1 /\ trades[i].exit < n + 1 /\ trades[i].entry <= trades[i].exit
      BY <1>3
    <3>2. TradesInOrder'
      BY <1>2, <1>3, <1>4, <2>2, <3>1 DEF TradesInOrder
    <3>3. QED BY <1>3, <2>2, <3>2
  <2>3. CASE UNCHANGED <<position, capital, trades>>
    <3>1. \A i \in DOMAIN trades : trades[i].exit <= n + 1 /\ trades[i].entry <= trades[i].exit
      BY <1>3
    <3>2. position # NoPosition => position.bar <= n + 1
      BY <1>3
    <3>3. TradesInOrder'
      BY <1>2, <1>3, <1>4, <2>3, <3>1, <3>2 DEF TradesInOrder
    <3>4. QED BY <1>1, <1>3, <2>3, <3>3 DEF BacktestTypes
  <2>4. QED BY <1>2, <2>1, <2>2, <2>3
<1>6. /\ equity' \in Seq(Int) /\ Len(equity') = n + 1 /\ DOMAIN equity' = 1 .. (n + 1)
      /\ equity'[n + 1] = capital' /\ DOMAIN equity = 1 .. n /\ \A k \in 1 .. n : equity'[k] = equity[k]
  <2> PICK e \in Seq(Int), cash \in Int : e = equity /\ cash = capital'
    BY <1>1, <1>5 DEF BacktestTypes
  <2>1. /\ Append(e, cash) \in Seq(Int) /\ Len(Append(e, cash)) = Len(e) + 1
        /\ DOMAIN e = 1 .. Len(e) /\ DOMAIN Append(e, cash) = 1 .. (Len(e) + 1)
        /\ Append(e, cash)[Len(e) + 1] = cash /\ \A k \in 1 .. Len(e) : Append(e, cash)[k] = e[k]
    BY CurveAppended
  <2>2. Len(e) = n /\ equity' = Append(e, cash)
    BY <1>1, <1>2
  <2>3. QED BY <2>1, <2>2
<1>7. BacktestTypes'
  BY <1>1, <1>2, <1>4, <1>5, <1>6 DEF BacktestTypes
<1>8. CurveIsClosedTrades'
  <2>1. /\ capital = InitialCapital + PnlSum(trades, DOMAIN trades)
        /\ \A k \in 1 .. n : equity[k] = InitialCapital + PnlSum(trades, ClosedBy(trades, k))
    BY <1>1, <1>6, CurveIs DEF CurveReads
  <2>2. /\ capital' = InitialCapital + PnlSum(trades', DOMAIN trades')
        /\ \A k \in 1 .. n : PnlSum(trades', ClosedBy(trades', k)) = PnlSum(trades, ClosedBy(trades, k))
    <3>1. CASE UNCHANGED <<capital, trades>>
      BY <2>1, <3>1
    <3>2. CASE \E r \in TradeRows : /\ trades' = Append(trades, r) /\ capital' = capital + r.pnl
                                 /\ r.entry = position.bar /\ r.exit = n + 1 /\ ~r.forced
      <4> PICK r \in TradeRows : trades' = Append(trades, r) /\ capital' = capital + r.pnl /\ r.exit = n + 1
        BY <3>2
      <4> PICK t, u : t \in Seq(TradeRows) /\ t = trades /\ u = trades'
        BY <1>3
      <4>1. /\ PnlSum(u, DOMAIN u) = PnlSum(t, DOMAIN t) + r.pnl
            /\ \A k : ~(r.exit <= k /\ ~r.forced) => PnlSum(u, ClosedBy(u, k)) = PnlSum(t, ClosedBy(t, k))
        <5>1. u = Append(t, r)
          OBVIOUS
        <5>2. QED BY <5>1, PnlAppended, Zenon
      <4>2. \A k \in 1 .. n : ~(r.exit <= k)
        OBVIOUS
      <4>3. capital' = InitialCapital + PnlSum(u, DOMAIN u)
        <5>1. r.pnl \in Int /\ InitialCapital \in Int
          BY BacktestAssumption DEF TradeRows
        <5>2. PnlSum(t, DOMAIN t) \in Int
          BY PnlSumType
        <5> PICK x \in Int, y \in Int, z \in Int : x = PnlSum(t, DOMAIN t) /\ y = r.pnl /\ z = InitialCapital
          BY <5>1, <5>2
        <5>3. capital = z + x
          BY <2>1
        <5>4. (z + x) + y = z + (x + y)
          OBVIOUS
        <5>5. capital' = (z + x) + y
          BY <5>3
        <5>6. QED BY <4>1, <5>4, <5>5
      <4>4. QED BY <4>1, <4>2, <4>3
    <3>3. QED BY <1>5, <3>1, <3>2
  <2>3. ClosedBy(trades', n + 1) = DOMAIN trades'
    <3>1. ~over'
      BY <1>2
    <3>2. \A i \in DOMAIN trades' : trades'[i].exit <= n + 1 /\ ~trades'[i].forced
      BY <1>4, <1>5, <3>1 DEF TradesInOrder
    <3>3. QED BY <3>2 DEF ClosedBy
  <2>4. \A k \in 1 .. (n + 1) : k \in 1 .. n \/ k = n + 1
    OBVIOUS
  <2>5. \A k \in DOMAIN equity' : equity'[k] = InitialCapital + PnlSum(trades', ClosedBy(trades', k))
    BY <1>6, <2>1, <2>2, <2>3, <2>4
  <2>6. QED BY <2>2, <2>5, CurveIs DEF CurveReads
<1>9. EntriesCross'
  <2> SUFFICES ASSUME signalFn = "crossover"
               PROVE  /\ \A i \in DOMAIN trades' : CrossBefore(closes', trades'[i].entry)
                      /\ position' # NoPosition => CrossBefore(closes', position'.bar)
    BY <1>2 DEF EntriesCross
  <2>1. ASSUME NEW bar \in Nat, bar <= n, CrossBefore(closes, bar) PROVE CrossBefore(closes', bar)
    <3> PICK c \in Seq(Closes) : c = closes
      BY <1>1 DEF BacktestTypes
    <3>1. bar <= Len(c) /\ CrossBefore(c, bar)
      BY <2>1
    <3>2. CrossBefore(Append(c, close), bar)
      BY <3>1, CrossBeforeKept
    <3>3. QED BY <1>2, <3>2
  <2>2. /\ \A i \in DOMAIN trades : CrossBefore(closes, trades[i].entry)
        /\ position # NoPosition => CrossBefore(closes, position.bar)
    BY <1>1 DEF EntriesCross
  <2>3. /\ \A i \in DOMAIN trades : CrossBefore(closes', trades[i].entry)
        /\ position # NoPosition => CrossBefore(closes', position.bar)
    <3>1. ASSUME NEW i \in DOMAIN trades PROVE trades[i].entry \in Nat /\ trades[i].entry <= n
      BY <1>3
    <3>2. position # NoPosition => position.bar \in Nat /\ position.bar <= n
      BY <1>3
    <3>3. QED BY <2>1, <2>2, <3>1, <3>2
  <2>4. CASE UNCHANGED <<capital, trades>>
    <3>1. position' = position \/ (position'.bar = n + 1 /\ CrossBefore(closes', n + 1))
          \/ position' = NoPosition
      BY <1>5
    <3>2. QED BY <2>3, <2>4, <3>1
  <2>5. CASE /\ position # NoPosition /\ position' = NoPosition
             /\ \E r \in TradeRows : /\ trades' = Append(trades, r) /\ capital' = capital + r.pnl
                                  /\ r.entry = position.bar /\ r.exit = n + 1 /\ ~r.forced
    <3> PICK r \in TradeRows : trades' = Append(trades, r) /\ r.entry = position.bar
      BY <2>5
    <3> PICK t, u : t \in Seq(TradeRows) /\ t = trades /\ u = trades'
      BY <1>3
    <3>1. /\ u[Len(t) + 1] = r /\ Len(t) \in Nat /\ DOMAIN t = 1 .. Len(t) /\ DOMAIN u = 1 .. (Len(t) + 1)
          /\ \A i \in 1 .. Len(t) : u[i] = t[i]
      BY AppendedTrade
    <3>2. \A i \in 1 .. (Len(t) + 1) : i \in 1 .. Len(t) \/ i = Len(t) + 1
      BY <3>1
    <3>3. \A i \in DOMAIN u : CrossBefore(closes', u[i].entry)
      BY <2>3, <2>5, <3>1, <3>2
    <3>4. QED BY <2>5, <3>3
  <2>6. QED BY <1>5, <2>4, <2>5
<1>10. Len(equity') = Len(closes')
  BY <1>4, <1>6
<1>11. QED BY <1>5, <1>7, <1>8, <1>9, <1>10 DEF BacktestInv

LEMMA FinishStep == ASSUME BacktestInv, Finish PROVE BacktestInv'
<1>1. BacktestTypes /\ Len(equity) = Len(closes) /\ TradesInOrder /\ CurveIsClosedTrades /\ EntriesCross
  BY DEF BacktestInv
<1>2. /\ ~over /\ over' /\ Len(closes) = Bars[signalFn] /\ UNCHANGED <<signalFn, closes, position, equity>>
      /\ \/ UNCHANGED <<capital, trades>>
         \/ position # NoPosition /\ \E r : Closing(r, Len(closes), TRUE)
  BY FinishCases
<1>3. over' \in BOOLEAN
  BY DEF Finish
<1>4. CASE UNCHANGED <<capital, trades>>
  <2>1. BacktestTypes'
    BY <1>1, <1>2, <1>3, <1>4 DEF BacktestTypes
  <2>2. TradesInOrder'
    BY <1>1, <1>2, <1>4 DEF TradesInOrder
  <2>3. CurveIsClosedTrades'
    BY <1>1, <1>2, <1>4, CurveIs
  <2>4. EntriesCross'
    BY <1>1, <1>2, <1>4 DEF EntriesCross
  <2>5. QED BY <1>1, <1>2, <2>1, <2>2, <2>3, <2>4 DEF BacktestInv
<1>5. CASE position # NoPosition /\ \E r : Closing(r, Len(closes), TRUE)
  <2> PICK n \in Nat : n = Len(closes)
    BY <1>1 DEF BacktestTypes
  <2>1. PICK r : Closing(r, n, TRUE)
    BY <1>5
  <2>2. Len(closes') = n /\ n <= n /\ TRUE \in BOOLEAN
    BY <1>2
  <2>3. /\ TradesInOrder' /\ trades' \in Seq(TradeRows) /\ capital' \in Int
        /\ r \in TradeRows /\ r.entry = position.bar /\ r.exit = n /\ (r.forced <=> TRUE)
        /\ trades' = Append(trades, r) /\ capital' = capital + r.pnl
    BY <1>2, <1>5, <2>1, <2>2, ClosingOrder
  <2>4. BacktestTypes'
    BY <1>1, <1>2, <1>3, <2>3 DEF BacktestTypes
  <2> PICK t, u : t \in Seq(TradeRows) /\ t = trades /\ u = trades'
    BY <1>1 DEF BacktestTypes
  <2>5. u = Append(t, r) /\ r \in TradeRows
    BY <2>3
  <2>6. /\ PnlSum(u, DOMAIN u) = PnlSum(t, DOMAIN t) + r.pnl
        /\ \A k : ~(r.exit <= k /\ ~r.forced) => PnlSum(u, ClosedBy(u, k)) = PnlSum(t, ClosedBy(t, k))
    <3> PICK q \in TradeRows : q = r
      BY <2>5
    <3>1. u = Append(t, q)
      BY <2>5
    <3>2. \A v : v = Append(t, q) =>
            /\ PnlSum(v, DOMAIN v) = PnlSum(t, DOMAIN t) + q.pnl
            /\ \A k : ~(q.exit <= k /\ ~q.forced) => PnlSum(v, ClosedBy(v, k)) = PnlSum(t, ClosedBy(t, k))
      BY ONLY PnlAppended, t \in Seq(TradeRows), q \in TradeRows, Zenon
    <3>3. QED BY <3>1, <3>2
  <2>7. CurveIsClosedTrades'
    <3>1. /\ capital = InitialCapital + PnlSum(t, DOMAIN t)
          /\ \A k \in DOMAIN equity : equity[k] = InitialCapital + PnlSum(t, ClosedBy(t, k))
      BY <1>1, CurveIs DEF CurveReads
    <3>2. capital' = InitialCapital + PnlSum(u, DOMAIN u)
      <4>1. r.pnl \in Int /\ InitialCapital \in Int
        BY <2>3, BacktestAssumption DEF TradeRows
      <4>2. PnlSum(t, DOMAIN t) \in Int
        BY PnlSumType
      <4> PICK x \in Int, y \in Int, z \in Int : x = PnlSum(t, DOMAIN t) /\ y = r.pnl /\ z = InitialCapital
        BY <4>1, <4>2
      <4>3. capital = z + x
        BY <3>1
      <4>4. (z + x) + y = z + (x + y)
        OBVIOUS
      <4>5. capital' = (z + x) + y
        BY <2>3, <4>3
      <4>6. QED BY <2>6, <4>4, <4>5
    <3>3. \A k : PnlSum(u, ClosedBy(u, k)) = PnlSum(t, ClosedBy(t, k))
      BY <2>3, <2>6
    <3>4. \A k \in DOMAIN equity' : equity'[k] = InitialCapital + PnlSum(u, ClosedBy(u, k))
      BY <1>2, <3>1, <3>3
    <3>5. QED BY <3>2, <3>4, CurveIs DEF CurveReads
  <2>8. EntriesCross'
    <3>1. /\ u[Len(t) + 1] = r /\ Len(t) \in Nat /\ DOMAIN t = 1 .. Len(t) /\ DOMAIN u = 1 .. (Len(t) + 1)
          /\ \A i \in 1 .. Len(t) : u[i] = t[i]
      BY <2>5, AppendedTrade
    <3>2. \A i \in 1 .. (Len(t) + 1) : i \in 1 .. Len(t) \/ i = Len(t) + 1
      BY <3>1
    <3>3. signalFn = "crossover" => \A i \in DOMAIN u : CrossBefore(closes, u[i].entry)
      BY <1>1, <1>5, <2>3, <3>1, <3>2 DEF EntriesCross
    <3>4. QED BY <1>1, <1>2, <3>3 DEF EntriesCross
  <2>9. QED BY <1>1, <1>2, <2>3, <2>4, <2>7, <2>8 DEF BacktestInv
<1>6. QED BY <1>2, <1>4, <1>5

LEMMA BacktestStarts == ASSUME BacktestInit PROVE BacktestInv
<1>1. /\ signalFn \in {"any", "crossover"} /\ closes = << >> /\ trades = << >> /\ equity = << >>
      /\ position = NoPosition /\ capital = InitialCapital /\ over = FALSE
  BY DEF BacktestInit
<1>2. BacktestTypes
  <2>1. InitialCapital \in Int
    BY BacktestAssumption
  <2>2. << >> \in Seq(Closes) /\ << >> \in Seq(Int) /\ << >> \in Seq(TradeRows)
    OBVIOUS
  <2>3. QED BY <1>1, <2>1, <2>2 DEF BacktestTypes
<1>3. DOMAIN trades = {} /\ DOMAIN equity = {} /\ Len(equity) = Len(closes)
  BY <1>1
<1>4. TradesInOrder /\ EntriesCross
  BY <1>1, <1>3 DEF TradesInOrder, EntriesCross
<1>5. CurveIsClosedTrades
  <2>1. PnlSum(trades, DOMAIN trades) = 0
    BY <1>3, SumEmpty DEF PnlSum
  <2>2. capital = InitialCapital + PnlSum(trades, DOMAIN trades)
    BY <1>1, <2>1, BacktestAssumption
  <2>3. QED BY <1>3, <2>2, CurveIs DEF CurveReads
<1>6. QED BY <1>2, <1>3, <1>4, <1>5 DEF BacktestInv

LEMMA BacktestStep == ASSUME BacktestInv, [BacktestNext]_backtestVars PROVE BacktestInv'
<1>1. CASE UNCHANGED backtestVars
  <2>1. UNCHANGED <<signalFn, closes, position, capital, trades, equity, over>>
    BY <1>1 DEF backtestVars
  <2>2. BacktestTypes' /\ TradesInOrder' /\ EntriesCross'
    BY <2>1 DEF BacktestInv, BacktestTypes, TradesInOrder, EntriesCross
  <2>3. CurveIsClosedTrades'
    BY <2>1, CurveIs DEF BacktestInv
  <2>4. QED BY <2>1, <2>2, <2>3 DEF BacktestInv
<1>2. CASE BacktestNext
  BY <1>2, BarStep, FinishStep DEF BacktestNext
<1>3. QED BY <1>1, <1>2

LEMMA BacktestOrder == ASSUME BacktestInv PROVE TradesDisjoint /\ OneEntryPerCross
<1>1. BacktestTypes /\ TradesInOrder /\ EntriesCross
  BY DEF BacktestInv
<1>2. TradesDisjoint
  BY <1>1 DEF TradesInOrder, TradesDisjoint
<1> PICK t \in Seq(TradeRows), m \in Nat : t = trades /\ m = Len(t)
  BY <1>1 DEF BacktestTypes
<1>3. ASSUME signalFn = "crossover", NEW i \in 2 .. m
      PROVE  \E n \in t[i - 1].entry + 1 .. t[i].entry - 1 : Cross(closes, n) <= 0
  <2>1. i \in DOMAIN t /\ i - 1 \in DOMAIN t /\ i - 1 # m /\ i > 1
    OBVIOUS
  <2>2. t[i] \in TradeRows /\ t[i - 1] \in TradeRows
    BY <2>1
  <2>3. t[i].entry \in Nat /\ t[i - 1].entry \in Nat /\ t[i - 1].exit \in Nat
    BY <2>2 DEF TradeRows
  <2>4. t[i - 1].entry < t[i - 1].exit \/ t[i - 1].forced
    BY <1>1, <2>1 DEF TradesInOrder
  <2>5. ~t[i - 1].forced
    BY <1>1, <2>1 DEF TradesInOrder
  <2>6. t[i - 1].exit < t[i].entry
    BY <1>1, <2>1 DEF TradesInOrder
  <2>7. t[i].entry - 1 \in t[i - 1].entry + 1 .. t[i].entry - 1
    BY <2>3, <2>4, <2>5, <2>6
  <2>8. Cross(closes, t[i].entry - 1) <= 0
    BY <1>1, <1>3, <2>1 DEF EntriesCross, CrossBefore
  <2>9. QED BY <2>7, <2>8
<1>4. OneEntryPerCross
  BY <1>3 DEF OneEntryPerCross
<1>5. QED BY <1>2, <1>4

\* What a backtest reports agrees with what it did, whatever the prices, the periods,
\* the capital and the number of bars (backtest.py 136-198 and 229-256).
THEOREM BacktestBooksHolds == BacktestSpec => []BacktestBooks
<1>1. BacktestInit => BacktestInv
  BY BacktestStarts
<1>2. BacktestInv /\ [BacktestNext]_backtestVars => BacktestInv'
  BY BacktestStep
<1>3. BacktestInv => BacktestBooks
  BY BacktestOrder, DrawdownHolds DEF BacktestInv, BacktestTypes, BacktestBooks
<1>4. QED BY <1>1, <1>2, <1>3, PTL DEF BacktestSpec

-----------------------------------------------------------------------------
(***************************************************************************)
(* BrokerConnection: what an attempt that says True has done.              *)
(***************************************************************************)

Joining == {"joining", "inner", "innerStreams"}
Pcs == {"new", "starting", "restarting", "login", "ask", "profile", "stamp", "streams", "account"} \cup Ended
ThreadRecords == [pc : Pcs, object : Nat, todo : SUBSET Streams, last : BOOLEAN,
                  outer : Seq(SUBSET Streams), fell : BOOLEAN]
SocketStates == {"none", "opening", "open", "closed"}

LinkTypes ==
  /\ engine \in {"attempt", "changing", "connected", "streams", "balance", "waitBalance", "profit", "trade",
                 "ended"} \cup Joining
  /\ object \in Objects /\ threads \in Seq(ThreadRecords)
  /\ lists \in [Objects -> SUBSET Streams] /\ current \in [Objects -> {0} \cup Sockets]
  /\ socket \in [Sockets -> SocketStates] /\ live \in [Sockets -> SUBSET Streams]
  /\ asked \in SUBSET Sockets /\ accepted \in SUBSET Sockets
  /\ profile \in {"none", "yes", "no"} /\ toStart \in SUBSET Streams

\* An object that timed out is left for a new one: at most the latest attempt still
\* runs on the one the connector uses, and the connector waits for it.
OneAttempt ==
  /\ Len(threads) <= MaxThreads
  /\ \A k \in Threads :
       /\ threads[k].object <= object
       /\ threads[k].object = object /\ threads[k].pc \notin Ended => k = Latest /\ engine \in Joining
  /\ engine \in Joining => Latest \in Threads /\ threads[Latest].object = object
  /\ object <= Len(threads) /\ (engine = "joining" => object < Len(threads))

\* Streams are in the lists of objects that have been used.
ListsUsed ==
  /\ \A o \in Objects : o > object => lists[o] = {}
  /\ object > 0 => \E k \in Threads : threads[k].object < object

\* The streams of the object but for todo run on its socket, or gave up.
Covered(todo) == current[object] \in Sockets /\ lists[object] \subseteq todo \cup live[current[object]] \cup late

\* What an attempt t has done for the streams of the object, unless a connect in it failed.
TakenBy(t) ==
  /\ t.pc # "new" => current[object] \in Sockets
  /\ t.pc = "streams" => t.fell \/ Covered(t.todo)
  /\ t.pc \in {"account", "true"} => t.fell \/ Covered({})

StreamsTaken ==
  /\ engine \in {"changing", "connected"} => threads[Latest].pc = "true"
  /\ engine \in {"joining", "changing", "connected"} => TakenBy(threads[Latest])

\* Before a timeout: the broker owes an answer on the current socket alone, so the
\* answer an attempt sees is to its own session.
AskedHere == \A w \in asked : socket[w] # "none" /\ (w = current[0] \/ socket[w] = "closed")

OwnBy(t) ==
  /\ t.pc \in {"starting", "login", "restarting", "ask"} => current[0] \notin asked
  /\ t.pc = "profile" /\ profile # "none" => current[0] \notin asked
  /\ t.pc = "profile" /\ profile = "yes" => current[0] \in accepted
  /\ t.pc \in {"stamp", "streams", "account", "true"} /\ ~t.last /\ ~t.fell => current[0] \in accepted

AnswersOwn == object = 0 => AskedHere /\ (Latest \in Threads => OwnBy(threads[Latest]))

LinkInv == LinkTypes /\ OneAttempt /\ ListsUsed /\ StreamsTaken /\ AnswersOwn

LEMMA FreshIs ==
  ASSUME LinkTypes, \E w \in Sockets : socket[w] = "none"
  PROVE  FreshSocket \in Sockets /\ socket[FreshSocket] = "none"
<1> DEFINE none == {w \in Nat : w \in Sockets /\ socket[w] = "none"}
<1>1. none # {}
  BY LinkAssumption DEF Sockets
<1>2. PICK w \in none : \A v \in none : w <= v
  BY <1>1, NatLeast
<1>3. \A v \in 1..(w - 1) : socket[v] # "none"
  <2> SUFFICES ASSUME NEW v \in 1..(w - 1), socket[v] = "none" PROVE FALSE
    OBVIOUS
  <2>1. v \in Nat /\ v \in Sockets /\ ~(w <= v)
    BY <1>2, LinkAssumption DEF Sockets
  <2>2. QED BY <1>2, <2>1
<1>4. w \in Sockets /\ socket[w] = "none"
  BY <1>2
<1> HIDE DEF none
<1>5. QED BY <1>3, <1>4 DEF FreshSocket

LEMMA ToIs ==
  ASSUME LinkTypes, NEW k \in Threads, NEW pc \in Pcs, To(k, pc)
  PROVE  \E r \in ThreadRecords :
           /\ r.pc = pc /\ r.object = threads[k].object /\ r.todo = threads[k].todo /\ r.last = threads[k].last
           /\ r.fell = threads[k].fell
           /\ threads' = [threads EXCEPT ![k] = r]
<1>1. threads[k] \in ThreadRecords
  BY DEF LinkTypes, Threads
<1> PICK r : r = [threads[k] EXCEPT !.pc = pc]
  OBVIOUS
<1>2. r \in ThreadRecords /\ r.pc = pc /\ r.object = threads[k].object /\ r.todo = threads[k].todo
      /\ r.last = threads[k].last /\ r.fell = threads[k].fell
  BY <1>1 DEF ThreadRecords
<1>3. threads' = [threads EXCEPT ![k] = r]
  BY DEF To, LinkTypes, Threads
<1>4. QED BY <1>2, <1>3

\* A connect() ends with its verdict, or goes back into the one it was called in, which
\* from then on is one that had a failed connect inside it.
LEMMA EndsIs ==
  ASSUME LinkTypes, NEW k \in Threads, NEW verdict \in Ended, Ends(k, verdict)
  PROVE  \E r \in ThreadRecords :
           /\ r.object = threads[k].object /\ r.last = threads[k].last
           /\ \/ r.pc = verdict /\ r.fell = threads[k].fell
              \/ r.pc = "streams" /\ r.fell = (threads[k].fell \/ verdict # "true")
           /\ threads' = [threads EXCEPT ![k] = r]
<1>1. threads[k] \in ThreadRecords
  BY DEF LinkTypes, Threads
<1>2. CASE threads[k].outer = << >>
  <2> PICK r : r = [threads[k] EXCEPT !.pc = verdict]
    OBVIOUS
  <2>1. /\ r \in ThreadRecords /\ r.pc = verdict /\ r.object = threads[k].object
        /\ r.last = threads[k].last /\ r.fell = threads[k].fell
    BY <1>1 DEF ThreadRecords, Pcs
  <2>2. threads' = [threads EXCEPT ![k] = r]
    BY <1>2 DEF Ends
  <2>3. QED BY <2>1, <2>2
<1>3. CASE threads[k].outer # << >>
  <2> PICK todo : todo = IF verdict = "raised" THEN {} ELSE Head(threads[k].outer)
    OBVIOUS
  <2> PICK fell \in BOOLEAN : fell = (threads[k].fell \/ verdict # "true")
    OBVIOUS
  <2> PICK r : r = [threads[k] EXCEPT !.pc = "streams", !.outer = Tail(threads[k].outer), !.fell = fell, !.todo = todo]
    OBVIOUS
  <2>1. /\ threads[k].outer \in Seq(SUBSET Streams)
        /\ Head(threads[k].outer) \in SUBSET Streams /\ Tail(threads[k].outer) \in Seq(SUBSET Streams)
    BY <1>1, <1>3 DEF ThreadRecords
  <2>2. todo \in SUBSET Streams
    BY <2>1
  <2>3. /\ r \in ThreadRecords /\ r.pc = "streams" /\ r.object = threads[k].object
        /\ r.last = threads[k].last /\ r.fell = fell
    BY <1>1, <2>1, <2>2 DEF ThreadRecords, Pcs
  <2>4. threads' = [threads EXCEPT ![k] = r]
    BY <1>3 DEF Ends
  <2>5. QED BY <2>3, <2>4
<1>4. QED BY <1>2, <1>3

\* What an attempt has done outlives the end of a connect() inside it.
LEMMA EndsKeep ==
  ASSUME NEW t, NEW r, NEW verdict \in Ended, r.last = t.last, r.fell \in BOOLEAN, t.fell \in BOOLEAN,
         \/ r.pc = verdict /\ r.fell = t.fell
         \/ r.pc = "streams" /\ r.fell = (t.fell \/ verdict # "true"),
         t.pc # "new", verdict = "true" => t.pc = "account"
  PROVE  (TakenBy(t) => TakenBy(r)) /\ (OwnBy(t) => OwnBy(r))
<1>1. Covered({}) => Covered(r.todo)
  BY DEF Covered
<1>2. TakenBy(t) => TakenBy(r)
  BY <1>1 DEF TakenBy, Ended
<1>3. OwnBy(t) => OwnBy(r)
  BY DEF OwnBy, Ended
<1>4. QED BY <1>2, <1>3

\* One thread moves and stays on its object.
LEMMA ThreadMoves ==
  ASSUME LinkTypes, OneAttempt, ListsUsed, NEW k \in Threads, NEW r \in ThreadRecords,
         threads[k].pc \notin Ended, r.object = threads[k].object,
         threads' = [threads EXCEPT ![k] = r], UNCHANGED engineVars
  PROVE  /\ OneAttempt' /\ ListsUsed' /\ threads' \in Seq(ThreadRecords)
         /\ Latest' = Latest /\ Threads' = Threads
         /\ threads'[k] = r /\ \A j \in Threads : j # k => threads'[j] = threads[j]
<1>1. /\ threads \in Seq(ThreadRecords) /\ Len(threads) \in Nat /\ Threads = 1 .. Len(threads)
  BY DEF LinkTypes, Threads
<1>2. /\ threads' \in Seq(ThreadRecords) /\ Len(threads') = Len(threads) /\ Threads' = Threads
      /\ threads'[k] = r /\ \A j \in Threads : j # k => threads'[j] = threads[j]
  BY <1>1 DEF Threads
<1>3. \A j \in Threads : threads'[j].object = threads[j].object
  BY <1>2
<1>4. \A j \in Threads : threads'[j].pc \notin Ended => threads[j].pc \notin Ended
  BY <1>2
<1>5. Latest' = Latest
  BY <1>2 DEF Latest
<1>6. UNCHANGED <<engine, object, lists>>
  BY DEF engineVars
<1>7. OneAttempt'
  BY <1>2, <1>3, <1>4, <1>5, <1>6 DEF OneAttempt
<1>8. ListsUsed'
  BY <1>2, <1>3, <1>6 DEF ListsUsed
<1>9. QED BY <1>2, <1>5, <1>7, <1>8

\* What a step of a thread keeps, given what it does to its own attempt.
LEMMA ThreadKeeps ==
  ASSUME LinkInv, NEW k \in Threads, NEW r \in ThreadRecords,
         threads[k].pc \notin Ended, r.object = threads[k].object,
         threads' = [threads EXCEPT ![k] = r], UNCHANGED engineVars,
         current' \in [Objects -> {0} \cup Sockets], socket' \in [Sockets -> SocketStates],
         live' \in [Sockets -> SUBSET Streams], asked' \in SUBSET Sockets, accepted' \in SUBSET Sockets,
         profile' \in {"none", "yes", "no"},
         \A o \in Objects : o # threads[k].object => current'[o] = current[o],
         \A w \in Sockets : live[w] \subseteq live'[w], late \subseteq late',
         threads[k].object = object /\ k = Latest /\ engine = "joining" => TakenBy(r)',
         object = 0 /\ threads[k].object = 0 /\ k = Latest => AskedHere' /\ OwnBy(r)'
  PROVE  LinkInv'
<1>1. LinkTypes /\ OneAttempt /\ ListsUsed /\ StreamsTaken /\ AnswersOwn
  BY DEF LinkInv
<1>2. /\ OneAttempt' /\ ListsUsed' /\ threads' \in Seq(ThreadRecords)
      /\ Latest' = Latest /\ Threads' = Threads
      /\ threads'[k] = r /\ \A j \in Threads : j # k => threads'[j] = threads[j]
  BY <1>1, ThreadMoves
<1>3. UNCHANGED <<engine, object, lists, toStart>> /\ object \in Objects /\ 0 \in Objects
  BY <1>1, LinkAssumption DEF engineVars, LinkTypes, Objects
<1>4. LinkTypes'
  BY <1>1, <1>2, <1>3 DEF LinkTypes
<1>5. threads[k].object = object => k = Latest /\ engine \in Joining
  BY <1>1 DEF OneAttempt
<1>6. threads[k].object # object => current'[object] = current[object]
  BY <1>3
<1>7. engine \in Joining => Latest \in Threads /\ threads[Latest].object = object
  BY <1>1 DEF OneAttempt
<1>8. ASSUME NEW todo, Covered(todo), threads[k].object # object PROVE Covered(todo)'
  <2>1. current'[object] = current[object] /\ current[object] \in Sockets
    BY <1>6, <1>8 DEF Covered
  <2>2. live[current[object]] \subseteq live'[current[object]]
    BY <2>1
  <2>3. QED BY <1>3, <1>8, <2>1, <2>2 DEF Covered
<1>9. StreamsTaken'
  <2> PICK u : u = threads'[Latest]
    OBVIOUS
  <2>1. ASSUME engine \in {"changing", "connected"} PROVE u.pc = "true" /\ TakenBy(u)'
    <3>1. threads[k].object # object
      BY <1>5, <2>1 DEF Joining
    <3>2. threads[Latest].pc = "true" /\ TakenBy(threads[Latest])
      BY <1>1, <2>1 DEF StreamsTaken
    <3>3. k # Latest /\ Latest \in Threads
      BY <1>1, <3>2 DEF Ended, LinkTypes, Threads, Latest
    <3>4. u = threads[Latest]
      BY <1>2, <3>3
    <3>5. TakenBy(u)
      BY <3>2, <3>4
    <3>6. QED BY <1>3, <1>6, <1>8, <3>1, <3>2, <3>4, <3>5 DEF TakenBy
  <2>2. ASSUME engine = "joining" PROVE TakenBy(u)'
    <3>1. CASE threads[k].object = object
      <4>1. k = Latest
        BY <1>5, <3>1
      <4>2. TakenBy(r)'
        BY <2>2, <3>1, <4>1
      <4>3. u = r
        BY <1>2, <4>1
      <4>4. QED BY <4>2, <4>3
    <3>2. CASE threads[k].object # object
      <4>1. k # Latest /\ Latest \in Threads
        BY <1>7, <2>2, <3>2 DEF Joining
      <4>2. threads'[Latest] = threads[Latest] /\ TakenBy(threads[Latest])
        BY <1>1, <1>2, <2>2, <4>1 DEF StreamsTaken
      <4>3. u = threads[Latest]
        BY <4>2
      <4>4. TakenBy(u)
        BY <4>2, <4>3
      <4>5. QED BY <1>3, <1>6, <1>8, <3>2, <4>4 DEF TakenBy
    <3>3. QED BY <3>1, <3>2
  <2>3. u = threads'[Latest']
    BY <1>2
  <2>4. QED BY <1>3, <2>1, <2>2, <2>3 DEF StreamsTaken, TakenBy, Covered
<1>10. AnswersOwn'
  <2> PICK u : u = threads'[Latest']
    OBVIOUS
  <2> SUFFICES ASSUME object = 0 PROVE AskedHere' /\ OwnBy(u)'
    BY <1>3 DEF AnswersOwn, OwnBy
  <2>1. threads[k].object = 0
    <3>1. threads[k] \in ThreadRecords
      BY <1>1 DEF LinkTypes, Threads
    <3>2. threads[k].object \in Nat /\ threads[k].object <= 0
      BY <1>1, <3>1 DEF OneAttempt, ThreadRecords
    <3>3. QED BY <3>2
  <2>2. k = Latest
    BY <1>5, <2>1
  <2>3. u = r
    BY <1>2, <2>2
  <2>4. AskedHere' /\ OwnBy(r)'
    BY <2>1, <2>2
  <2>5. QED BY <2>3, <2>4
<1>11. QED BY <1>2, <1>4, <1>9, <1>10 DEF LinkInv

LEMMA ThreadNow ==
  ASSUME LinkInv, NEW k \in Threads
  PROVE  /\ threads[k] \in ThreadRecords /\ threads[k].object \in Objects
         /\ SocketOf(k) \in {0} \cup Sockets /\ SocketOf(k) = current[threads[k].object] /\ 0 \notin Sockets
         /\ k = Latest /\ engine = "joining" => TakenBy(threads[k]) /\ threads[k].object = object
         /\ k = Latest /\ object = 0 => AskedHere /\ OwnBy(threads[k])
<1>1. LinkTypes /\ OneAttempt /\ StreamsTaken /\ AnswersOwn
  BY DEF LinkInv
<1>2. threads[k] \in ThreadRecords
  BY <1>1 DEF LinkTypes, Threads
<1>3. threads[k].object \in Nat /\ threads[k].object <= object /\ object \in Objects
  BY <1>1, <1>2 DEF OneAttempt, ThreadRecords, LinkTypes
<1>4. threads[k].object \in Objects
  BY <1>3, LinkAssumption DEF Objects
<1>5. SocketOf(k) = current[threads[k].object]
  BY DEF SocketOf
<1>6. SocketOf(k) \in {0} \cup Sockets
  BY <1>1, <1>4, <1>5 DEF LinkTypes
<1>7. 0 \notin Sockets
  BY LinkAssumption DEF Sockets
<1>8. k = Latest /\ engine = "joining" => TakenBy(threads[k]) /\ threads[k].object = object
  BY <1>1 DEF StreamsTaken, OneAttempt, Joining
<1>9. k = Latest /\ object = 0 => AskedHere /\ OwnBy(threads[k])
  BY <1>1 DEF AnswersOwn
<1>10. QED BY <1>2, <1>4, <1>5, <1>6, <1>7, <1>8, <1>9

\* While nothing has timed out, every attempt is on the first object.
LEMMA OnLatest ==
  ASSUME LinkInv, NEW k \in Threads, object = 0 PROVE threads[k].object = 0
<1>1. threads[k] \in ThreadRecords /\ threads[k].object <= 0
  BY ThreadNow DEF LinkInv, OneAttempt
<1>2. QED BY <1>1 DEF ThreadRecords

\* A step that moves its thread alone.
LEMMA QuietKeeps ==
  ASSUME LinkInv, NEW k \in Threads, NEW r \in ThreadRecords,
         threads[k].pc \notin Ended, r.object = threads[k].object,
         threads' = [threads EXCEPT ![k] = r],
         UNCHANGED <<engineVars, socketVars, late, profile>>,
         threads[k].object = object /\ TakenBy(threads[k]) => TakenBy(r),
         AskedHere /\ OwnBy(threads[k]) => OwnBy(r)
  PROVE  LinkInv'
<1>1. LinkTypes
  BY DEF LinkInv
<1>2. UNCHANGED <<engine, object, lists, current, socket, live, asked, accepted, late, profile>>
  BY DEF engineVars, socketVars
<1>3. threads[k].object = object /\ k = Latest /\ engine = "joining" => TakenBy(r)'
  BY <1>2, ThreadNow DEF TakenBy, Covered
<1>4. object = 0 /\ threads[k].object = 0 /\ k = Latest => AskedHere' /\ OwnBy(r)'
  BY <1>2, ThreadNow DEF AskedHere, OwnBy
<1>5. /\ current' \in [Objects -> {0} \cup Sockets] /\ socket' \in [Sockets -> SocketStates]
      /\ live' \in [Sockets -> SUBSET Streams] /\ asked' \in SUBSET Sockets /\ accepted' \in SUBSET Sockets
      /\ profile' \in {"none", "yes", "no"}
      /\ \A o \in Objects : o # threads[k].object => current'[o] = current[o]
      /\ \A w \in Sockets : live[w] \subseteq live'[w]
      /\ late \subseteq late'
  BY <1>1, <1>2 DEF LinkTypes
<1>6. QED BY <1>3, <1>4, <1>5, ThreadKeeps

\* A step that ends a connect() and moves nothing else.
LEMMA ConnectEnds ==
  ASSUME LinkInv, NEW k \in Threads, NEW verdict \in Ended, Ends(k, verdict),
         threads[k].pc \notin Ended, threads[k].pc # "new", verdict = "true" => threads[k].pc = "account",
         UNCHANGED <<engineVars, socketVars, late, profile>>
  PROVE  LinkInv'
<1>1. LinkTypes /\ threads[k] \in ThreadRecords
  BY ThreadNow DEF LinkInv
<1>2. PICK r \in ThreadRecords :
        /\ r.object = threads[k].object /\ r.last = threads[k].last
        /\ \/ r.pc = verdict /\ r.fell = threads[k].fell
           \/ r.pc = "streams" /\ r.fell = (threads[k].fell \/ verdict # "true")
        /\ threads' = [threads EXCEPT ![k] = r]
  BY <1>1, EndsIs
<1>3. r.fell \in BOOLEAN /\ threads[k].fell \in BOOLEAN
  BY <1>1 DEF ThreadRecords
<1>4. (TakenBy(threads[k]) => TakenBy(r)) /\ (OwnBy(threads[k]) => OwnBy(r))
  BY <1>2, <1>3, EndsKeep
<1>5. QED BY <1>2, <1>4, QuietKeeps

LEMMA WaitsForSocketStep ==
  ASSUME LinkInv, NEW k \in Threads, WaitsForSocket(k) PROVE LinkInv'
<1>1. LinkTypes /\ threads[k].pc = "starting" /\ UNCHANGED <<engineVars, socketVars, late, profile>>
  BY DEF LinkInv, WaitsForSocket, sessionVars
<1>2. ASSUME NEW pc \in {"login", "ask"}, To(k, pc) PROVE LinkInv'
  <2>1. PICK r \in ThreadRecords : r.pc = pc /\ r.object = threads[k].object /\ threads' = [threads EXCEPT ![k] = r]
    BY <1>1, <1>2, ToIs DEF Pcs
  <2>2. TakenBy(threads[k]) => TakenBy(r)
    BY <1>1, <1>2, <2>1 DEF TakenBy
  <2>3. OwnBy(threads[k]) => OwnBy(r)
    BY <1>1, <1>2, <2>1 DEF OwnBy
  <2>4. QED BY <1>1, <2>1, <2>2, <2>3, QuietKeeps DEF Ended
<1>3. ASSUME Ends(k, "false") PROVE LinkInv'
  BY <1>1, <1>3, ConnectEnds DEF Ended
<1>4. QED BY <1>2, <1>3 DEF WaitsForSocket

LEMMA WaitsAgainStep ==
  ASSUME LinkInv, NEW k \in Threads, WaitsAgain(k) PROVE LinkInv'
<1>1. LinkTypes /\ threads[k].pc = "restarting" /\ UNCHANGED <<engineVars, socketVars, late, profile>>
  BY DEF LinkInv, WaitsAgain, sessionVars
<1>2. To(k, "ask")
  BY DEF WaitsAgain
<1>3. PICK r \in ThreadRecords : r.pc = "ask" /\ r.object = threads[k].object /\ threads' = [threads EXCEPT ![k] = r]
  BY <1>1, <1>2, ToIs DEF Pcs
<1>4. TakenBy(threads[k]) => TakenBy(r)
  BY <1>1, <1>3 DEF TakenBy
<1>5. OwnBy(threads[k]) => OwnBy(r)
  BY <1>1, <1>3 DEF OwnBy
<1>6. QED BY <1>1, <1>3, <1>4, <1>5, QuietKeeps DEF Ended

LEMMA SeesProfileStep ==
  ASSUME LinkInv, NEW k \in Threads, SeesProfile(k) PROVE LinkInv'
<1>1. /\ LinkTypes /\ threads[k].pc = "profile" /\ profile # "none"
      /\ UNCHANGED <<engineVars, socketVars, late, profile>>
  BY DEF LinkInv, SeesProfile, sessionVars
<1>2. PICK pc \in {"login", "stamp"} : /\ To(k, pc)
                                       /\ pc = "stamp" => profile # "no" \/ threads[k].last
  BY DEF SeesProfile
<1>3. PICK r \in ThreadRecords : /\ r.pc = pc /\ r.object = threads[k].object /\ r.last = threads[k].last
                                 /\ r.fell = threads[k].fell /\ threads' = [threads EXCEPT ![k] = r]
  BY <1>1, <1>2, ToIs DEF Pcs
<1>4. TakenBy(threads[k]) => TakenBy(r)
  BY <1>1, <1>2, <1>3 DEF TakenBy
<1>5. OwnBy(threads[k]) => OwnBy(r)
  <2>1. profile \in {"no", "yes"}
    BY <1>1 DEF LinkTypes
  <2>2. QED BY <1>1, <1>2, <1>3, <2>1 DEF OwnBy
<1>6. QED BY <1>1, <1>3, <1>4, <1>5, QuietKeeps DEF Ended

LEMMA SeesClockStep ==
  ASSUME LinkInv, NEW k \in Threads, SeesClock(k) PROVE LinkInv'
<1>1. LinkTypes /\ threads[k].pc = "stamp" /\ UNCHANGED <<engineVars, socketVars, late, profile>>
  BY DEF LinkInv, SeesClock, sessionVars
<1>2. threads[k] \in ThreadRecords /\ threads[k].object \in Objects
  BY ThreadNow
<1> PICK r : r = [threads[k] EXCEPT !.pc = "streams", !.todo = lists[threads[k].object]]
  OBVIOUS
<1>3. lists[threads[k].object] \in SUBSET Streams
  BY <1>1, <1>2 DEF LinkTypes
<1>4. /\ r \in ThreadRecords /\ r.pc = "streams" /\ r.object = threads[k].object /\ r.last = threads[k].last
      /\ r.todo = lists[threads[k].object] /\ r.fell = threads[k].fell
  BY <1>2, <1>3 DEF ThreadRecords, Pcs
<1>5. threads' = [threads EXCEPT ![k] = r]
  BY <1>1 DEF LinkTypes, Threads, SeesClock
<1>6. threads[k].object = object /\ TakenBy(threads[k]) => TakenBy(r)
  BY <1>1, <1>4 DEF TakenBy, Covered
<1>7. OwnBy(threads[k]) => OwnBy(r)
  BY <1>1, <1>4 DEF OwnBy
<1>8. r \in ThreadRecords /\ r.object = threads[k].object /\ threads[k].pc \notin Ended
  BY <1>1, <1>4 DEF Ended
<1>9. QED BY <1>1, <1>5, <1>6, <1>7, <1>8, QuietKeeps

LEMMA SubscribesAccountStep ==
  ASSUME LinkInv, NEW k \in Threads, SubscribesAccount(k) PROVE LinkInv'
<1>1. LinkTypes /\ threads[k].pc = "account" /\ UNCHANGED <<engineVars, socketVars, late, profile>>
  BY DEF LinkInv, SubscribesAccount, sessionVars
<1>2. PICK verdict \in Ended : Ends(k, verdict)
  BY DEF SubscribesAccount, Ended
<1>3. QED BY <1>1, <1>2, ConnectEnds DEF Ended

\* A new socket has not been used: nobody asked on it.
LEMMA StartedWell ==
  ASSUME LinkInv, NEW k \in Threads, NEW closed \in SUBSET ({0} \cup Sockets), StartSocket(k, closed),
         \E w \in Sockets : socket[w] = "none", UNCHANGED asked,
         object = 0 /\ k = Latest => \A w \in asked : w \in closed \/ socket[w] = "closed"
  PROVE  /\ current' \in [Objects -> {0} \cup Sockets] /\ socket' \in [Sockets -> SocketStates]
         /\ \A o \in Objects : o # threads[k].object => current'[o] = current[o]
         /\ current'[threads[k].object] \in Sockets
         /\ object = 0 /\ threads[k].object = 0 /\ k = Latest => AskedHere' /\ current'[0] \notin asked
<1>1. LinkTypes
  BY DEF LinkInv
<1>2. FreshSocket \in Sockets /\ socket[FreshSocket] = "none"
  BY <1>1, FreshIs
<1> PICK fresh \in Sockets : fresh = FreshSocket
  BY <1>2
<1>3. /\ current' = [current EXCEPT ![threads[k].object] = fresh]
      /\ socket' = [w \in Sockets |-> IF w \in closed THEN "closed"
                                      ELSE IF w = fresh THEN "opening" ELSE socket[w]]
      /\ socket[fresh] = "none"
  BY <1>2 DEF StartSocket
<1>4. /\ threads[k].object \in Objects /\ current \in [Objects -> {0} \cup Sockets]
      /\ socket \in [Sockets -> SocketStates] /\ asked \in SUBSET Sockets
  BY <1>1, ThreadNow DEF LinkTypes
<1>5. socket' \in [Sockets -> SocketStates]
  BY <1>3, <1>4 DEF SocketStates
<1>6. /\ current' \in [Objects -> {0} \cup Sockets]
      /\ \A o \in Objects : o # threads[k].object => current'[o] = current[o]
      /\ current'[threads[k].object] = fresh
  BY <1>3, <1>4
<1>7. ASSUME object = 0, threads[k].object = 0, k = Latest PROVE AskedHere' /\ current'[0] \notin asked
  <2>1. AskedHere
    BY <1>7, ThreadNow
  <2>2. fresh \notin asked
    BY <1>3, <2>1 DEF AskedHere
  <2>3. \A w \in asked : w \in closed \/ (socket[w] = "closed" /\ w # fresh)
    BY <1>7, <2>2
  <2>4. \A w \in asked : socket'[w] = "closed"
    BY <1>3, <1>4, <2>3
  <2>5. AskedHere'
    BY <2>4 DEF AskedHere
  <2>6. QED BY <1>6, <1>7, <2>2, <2>5
<1>8. QED BY <1>5, <1>6, <1>7

LEMMA OpensStep ==
  ASSUME LinkInv, NEW k \in Threads, Opens(k) PROVE LinkInv'
<1>1. /\ LinkTypes /\ threads[k].pc = "new" /\ (\E w \in Sockets : socket[w] = "none")
      /\ StartSocket(k, {SocketOf(k)}) /\ To(k, "starting")
      /\ UNCHANGED <<engineVars, live, accepted, asked, late, profile>>
  BY DEF LinkInv, Opens, sessionVars
<1>2. PICK r \in ThreadRecords : r.pc = "starting" /\ r.object = threads[k].object /\ threads' = [threads EXCEPT ![k] = r]
  BY <1>1, ToIs DEF Pcs
<1>3. SocketOf(k) \in {0} \cup Sockets /\ SocketOf(k) = current[threads[k].object]
  BY ThreadNow
<1>4. /\ current' \in [Objects -> {0} \cup Sockets] /\ socket' \in [Sockets -> SocketStates]
      /\ \A o \in Objects : o # threads[k].object => current'[o] = current[o]
      /\ current'[threads[k].object] \in Sockets
      /\ object = 0 /\ threads[k].object = 0 /\ k = Latest => AskedHere' /\ current'[0] \notin asked
  <2>1. {SocketOf(k)} \in SUBSET ({0} \cup Sockets)
    BY <1>3
  <2>2. object = 0 /\ k = Latest => \A w \in asked : w \in {SocketOf(k)} \/ socket[w] = "closed"
    BY <1>3, ThreadNow, OnLatest DEF AskedHere
  <2>3. QED BY <1>1, <2>1, <2>2, StartedWell
<1>5. threads[k].object = object => TakenBy(r)'
  BY <1>1, <1>2, <1>4 DEF TakenBy, engineVars
<1>6. object = 0 /\ threads[k].object = 0 /\ k = Latest => AskedHere' /\ OwnBy(r)'
  BY <1>1, <1>2, <1>4 DEF OwnBy
<1>7. /\ live' \in [Sockets -> SUBSET Streams] /\ asked' \in SUBSET Sockets /\ accepted' \in SUBSET Sockets
      /\ profile' \in {"none", "yes", "no"}
      /\ \A w \in Sockets : live[w] \subseteq live'[w]
      /\ late \subseteq late'
  BY <1>1 DEF LinkTypes
<1>8. QED BY <1>1, <1>2, <1>4, <1>5, <1>6, <1>7, ThreadKeeps DEF Ended

LEMMA SendsSsidStep ==
  ASSUME LinkInv, NEW k \in Threads, SendsSsid(k) PROVE LinkInv'
<1>1. /\ LinkTypes /\ threads[k].pc = "ask" /\ profile' = "none"
      /\ UNCHANGED <<engineVars, current, socket, live, accepted, late>>
  BY DEF LinkInv, SendsSsid, ProfileAtAsk
<1>2. PICK r \in ThreadRecords :
        /\ r.object = threads[k].object /\ threads' = [threads EXCEPT ![k] = r]
        /\ r.pc \in {"profile", "raised"} \/ (r.pc = "streams" /\ r.fell)
        /\ asked' = IF r.pc = "profile" THEN asked \cup {SocketOf(k)} ELSE asked
        /\ r.pc = "profile" => IsOpen(SocketOf(k))
  <2>1. CASE SendOn(SocketOf(k)) /\ asked' = asked \cup {SocketOf(k)} /\ To(k, "profile")
    <3>1. PICK r \in ThreadRecords : r.pc = "profile" /\ r.object = threads[k].object /\ threads' = [threads EXCEPT ![k] = r]
      BY <1>1, <2>1, ToIs DEF Pcs
    <3>2. QED BY <2>1, <3>1 DEF SendOn
  <2>2. CASE Ends(k, "raised") /\ UNCHANGED asked
    <3>1. PICK r \in ThreadRecords :
            /\ r.object = threads[k].object /\ threads' = [threads EXCEPT ![k] = r]
            /\ r.pc = "raised" \/ (r.pc = "streams" /\ r.fell)
      BY <1>1, <2>2, EndsIs DEF Ended
    <3>2. QED BY <2>2, <3>1
  <2>3. QED BY <2>1, <2>2 DEF SendsSsid
<1>4. SocketOf(k) \in {0} \cup Sockets /\ SocketOf(k) = current[threads[k].object]
  BY ThreadNow
<1>5. r.pc = "profile" => SocketOf(k) \in Sockets /\ socket[SocketOf(k)] = "open"
  BY <1>2, <1>4 DEF IsOpen
<1>6. /\ current' \in [Objects -> {0} \cup Sockets] /\ socket' \in [Sockets -> SocketStates]
      /\ live' \in [Sockets -> SUBSET Streams] /\ accepted' \in SUBSET Sockets
      /\ \A o \in Objects : o # threads[k].object => current'[o] = current[o]
      /\ \A w \in Sockets : live[w] \subseteq live'[w]
      /\ late \subseteq late'
  BY <1>1 DEF LinkTypes
<1>7. asked' \in SUBSET Sockets
  BY <1>1, <1>2, <1>5 DEF LinkTypes
<1>8. k = Latest /\ engine = "joining" => TakenBy(r)'
  BY <1>1, <1>2, ThreadNow DEF TakenBy, engineVars
<1>9. ASSUME object = 0, threads[k].object = 0, k = Latest PROVE AskedHere' /\ OwnBy(r)'
  <2>1. AskedHere
    BY <1>9, ThreadNow
  <2>2. AskedHere'
    BY <1>1, <1>2, <1>4, <1>5, <1>9, <2>1 DEF AskedHere
  <2>3. OwnBy(r)'
    BY <1>1, <1>2 DEF OwnBy
  <2>4. QED BY <2>2, <2>3
<1>10. QED BY <1>1, <1>2, <1>6, <1>7, <1>8, <1>9, ThreadKeeps DEF Ended

LEMMA LogsInStep ==
  ASSUME LinkInv, NEW k \in Threads, LogsIn(k) PROVE LinkInv'
<1>1. /\ LinkTypes /\ threads[k].pc = "login"
      /\ UNCHANGED <<engineVars, live, accepted, asked, late, profile>>
  BY DEF LinkInv, LogsIn
<1>2. threads[k] \in ThreadRecords /\ threads[k].object \in Objects
  BY ThreadNow
<1>3. PICK pc \in {"ask", "restarting"} :
        /\ threads' = [threads EXCEPT ![k].pc = pc, ![k].last = TRUE]
        /\ \/ UNCHANGED <<current, socket>>
           \/ StartSocket(k, {}) /\ \E w \in Sockets : socket[w] = "none"
  BY DEF LogsIn
<1> PICK r : r = [threads[k] EXCEPT !.pc = pc, !.last = TRUE]
  OBVIOUS
<1>4. /\ r \in ThreadRecords /\ r.pc = pc /\ r.object = threads[k].object /\ r.last = TRUE
      /\ r.todo = threads[k].todo
  BY <1>2 DEF ThreadRecords, Pcs
<1>5. threads' = [threads EXCEPT ![k] = r]
  BY <1>1, <1>3 DEF LinkTypes, Threads
<1>6. /\ live' \in [Sockets -> SUBSET Streams] /\ asked' \in SUBSET Sockets /\ accepted' \in SUBSET Sockets
      /\ profile' \in {"none", "yes", "no"}
      /\ \A w \in Sockets : live[w] \subseteq live'[w]
      /\ late \subseteq late'
  BY <1>1 DEF LinkTypes
<1>7. k = Latest /\ object = 0 => AskedHere /\ current[0] \notin asked
  BY <1>1, ThreadNow DEF OwnBy
<1>8. CASE UNCHANGED <<current, socket>>
  <2>1. /\ current' \in [Objects -> {0} \cup Sockets] /\ socket' \in [Sockets -> SocketStates]
        /\ \A o \in Objects : o # threads[k].object => current'[o] = current[o]
    BY <1>1, <1>8 DEF LinkTypes
  <2>2. k = Latest /\ engine = "joining" => TakenBy(r)'
    BY <1>1, <1>4, <1>8, ThreadNow DEF TakenBy, engineVars
  <2>3. object = 0 /\ threads[k].object = 0 /\ k = Latest => AskedHere' /\ OwnBy(r)'
    BY <1>1, <1>4, <1>7, <1>8 DEF AskedHere, OwnBy
  <2>4. QED BY <1>1, <1>4, <1>5, <1>6, <2>1, <2>2, <2>3, ThreadKeeps DEF Ended
<1>9. CASE StartSocket(k, {}) /\ \E w \in Sockets : socket[w] = "none"
  <2>1. object = 0 /\ k = Latest => \A w \in asked : w \in {} \/ socket[w] = "closed"
    BY <1>7 DEF AskedHere
  <2>2. /\ current' \in [Objects -> {0} \cup Sockets] /\ socket' \in [Sockets -> SocketStates]
        /\ \A o \in Objects : o # threads[k].object => current'[o] = current[o]
        /\ current'[threads[k].object] \in Sockets
        /\ object = 0 /\ threads[k].object = 0 /\ k = Latest => AskedHere' /\ current'[0] \notin asked
    BY <1>1, <1>9, <2>1, StartedWell
  <2>3. threads[k].object = object => TakenBy(r)'
    BY <1>1, <1>4, <2>2 DEF TakenBy, engineVars
  <2>4. object = 0 /\ threads[k].object = 0 /\ k = Latest => AskedHere' /\ OwnBy(r)'
    BY <1>1, <1>4, <2>2 DEF OwnBy
  <2>5. QED BY <1>1, <1>4, <1>5, <1>6, <2>2, <2>3, <2>4, ThreadKeeps DEF Ended
<1>10. QED BY <1>3, <1>8, <1>9

LEMMA LoginFailsStep ==
  ASSUME LinkInv, NEW k \in Threads, LoginFails(k) PROVE LinkInv'
<1>1. /\ LinkTypes /\ threads[k].pc = "login" /\ (Ends(k, "false") \/ Ends(k, "raised"))
      /\ UNCHANGED <<engineVars, current, live, accepted, asked, late, profile>>
  BY DEF LinkInv, LoginFails, sessionVars
<1>2. PICK r \in ThreadRecords :
        /\ r.object = threads[k].object /\ threads' = [threads EXCEPT ![k] = r]
        /\ r.pc \in {"false", "raised"} \/ (r.pc = "streams" /\ r.fell)
  BY <1>1, EndsIs DEF Ended
<1>3. \/ socket' = [socket EXCEPT ![SocketOf(k)] = "closed"]
      \/ socket' = socket
  BY DEF LoginFails
<1>4. socket \in [Sockets -> SocketStates] /\ asked \in SUBSET Sockets
  BY <1>1 DEF LinkTypes
<1>5. socket' \in [Sockets -> SocketStates] /\ \A w \in Sockets : socket'[w] = socket[w] \/ socket'[w] = "closed"
  BY <1>3, <1>4 DEF SocketStates
<1>6. /\ current' \in [Objects -> {0} \cup Sockets]
      /\ live' \in [Sockets -> SUBSET Streams] /\ asked' \in SUBSET Sockets /\ accepted' \in SUBSET Sockets
      /\ profile' \in {"none", "yes", "no"}
      /\ \A o \in Objects : o # threads[k].object => current'[o] = current[o]
      /\ \A w \in Sockets : live[w] \subseteq live'[w]
      /\ late \subseteq late'
  BY <1>1 DEF LinkTypes
<1>7. k = Latest /\ engine = "joining" => TakenBy(r)'
  BY <1>1, <1>2, ThreadNow DEF TakenBy, engineVars
<1>8. ASSUME object = 0, k = Latest PROVE AskedHere' /\ OwnBy(r)'
  <2>1. AskedHere
    BY <1>8, ThreadNow
  <2>2. \A w \in asked : socket'[w] # "none" /\ (w = current[0] \/ socket'[w] = "closed")
    BY <1>4, <1>5, <2>1 DEF AskedHere
  <2>3. QED BY <1>1, <1>2, <2>2 DEF AskedHere, OwnBy
<1>9. QED BY <1>1, <1>2, <1>5, <1>6, <1>7, <1>8, ThreadKeeps DEF Ended

\* A stream of the list is started on the socket of the attempt, or gives up, or the
\* attempt connects anew.
LEMMA ResubscribesStep ==
  ASSUME LinkInv, NEW k \in Threads, Resubscribes(k) PROVE LinkInv'
<1>1. /\ LinkTypes /\ threads[k].pc = "streams"
      /\ UNCHANGED <<engineVars, current, socket, asked, accepted, profile>>
  BY DEF LinkInv, Resubscribes, sessionVars
<1>2. threads[k] \in ThreadRecords /\ threads[k].object \in Objects /\ threads[k].todo \in SUBSET Streams
  BY ThreadNow DEF ThreadRecords
<1>3. SocketOf(k) \in {0} \cup Sockets /\ SocketOf(k) = current[threads[k].object] /\ 0 \notin Sockets
  BY ThreadNow
<1>4. live \in [Sockets -> SUBSET Streams]
  BY <1>1 DEF LinkTypes
<1> DEFINE Done(r) ==
      /\ r \in ThreadRecords /\ r.object = threads[k].object
      /\ r.pc # "new" => r.last = threads[k].last /\ r.fell = threads[k].fell
      /\ threads' = [threads EXCEPT ![k] = r]
      /\ live' \in [Sockets -> SUBSET Streams]
      /\ (\A w \in Sockets : live[w] \subseteq live'[w]) /\ late \subseteq late'
      /\ r.pc \in {"new", "streams", "account"}
      /\ r.pc = "account" => threads[k].todo = {}
      /\ r.pc = "streams" => threads[k].todo \subseteq r.todo \cup live'[SocketOf(k)] \cup late'
<1>5. \E r : Done(r)
  <2>1. CASE threads[k].todo = {} /\ To(k, "account") /\ UNCHANGED <<live, late>>
    <3>1. PICK r \in ThreadRecords : /\ r.pc = "account" /\ r.object = threads[k].object /\ r.last = threads[k].last
                                     /\ r.fell = threads[k].fell /\ threads' = [threads EXCEPT ![k] = r]
      BY <1>1, <2>1, ToIs DEF Pcs
    <3>2. Done(r)
      BY <1>4, <2>1, <3>1
    <3>3. QED BY <3>2
  <2>2. CASE /\ threads' = [threads EXCEPT ![k].pc = "new", ![k].last = FALSE, ![k].fell = FALSE,
                               ![k].outer = <<threads[k].todo>> \o @]
             /\ UNCHANGED <<live, late>>
    <3> PICK outer : outer = <<threads[k].todo>> \o threads[k].outer
      OBVIOUS
    <3> PICK r : r = [threads[k] EXCEPT !.pc = "new", !.last = FALSE, !.fell = FALSE, !.outer = outer]
      OBVIOUS
    <3>1. outer \in Seq(SUBSET Streams)
      BY <1>2 DEF ThreadRecords
    <3>2. r \in ThreadRecords /\ r.pc = "new" /\ r.object = threads[k].object
      BY <1>2, <3>1 DEF ThreadRecords, Pcs
    <3>3. threads' = [threads EXCEPT ![k] = r]
      BY <1>1, <2>2 DEF LinkTypes, Threads
    <3>4. Done(r)
      BY <1>4, <2>2, <3>2, <3>3
    <3>5. QED BY <3>4
  <2>3. ASSUME NEW s \in threads[k].todo, threads' = [threads EXCEPT ![k].todo = @ \ {s}],
               \/ /\ IsOpen(SocketOf(k)) /\ live' = [live EXCEPT ![SocketOf(k)] = @ \cup {s}] /\ late' = late
               \/ late' = late \cup {s} /\ live' = live
        PROVE  \E r : Done(r)
    <3> PICK r : r = [threads[k] EXCEPT !.todo = @ \ {s}]
      OBVIOUS
    <3>1. /\ r \in ThreadRecords /\ r.object = threads[k].object
          /\ r.last = threads[k].last /\ r.fell = threads[k].fell
          /\ r.pc = "streams" /\ r.todo = threads[k].todo \ {s} /\ s \in Streams
      BY <1>1, <1>2 DEF ThreadRecords, Pcs
    <3>2. threads' = [threads EXCEPT ![k] = r]
      BY <1>1, <2>3 DEF LinkTypes, Threads
    <3>3. IsOpen(SocketOf(k)) => SocketOf(k) \in Sockets
      BY <1>3 DEF IsOpen
    <3>4. /\ live' \in [Sockets -> SUBSET Streams]
          /\ (\A w \in Sockets : live[w] \subseteq live'[w]) /\ late \subseteq late'
          /\ s \in live'[SocketOf(k)] \cup late'
      BY <1>4, <2>3, <3>1, <3>3
    <3>5. Done(r)
      BY <3>1, <3>2, <3>4
    <3>6. QED BY <3>5
  <2>4. QED BY <2>1, <2>2, <2>3 DEF Resubscribes, Streamed, GivenUp, SendOn
<1>6. PICK r : Done(r)
  BY <1>5
<1>7. threads[k].object = object /\ k = Latest /\ engine = "joining" => TakenBy(r)'
  <2> SUFFICES ASSUME threads[k].object = object, k = Latest, engine = "joining" PROVE TakenBy(r)'
    OBVIOUS
  <2>1. /\ current[object] \in Sockets
        /\ threads[k].fell \/ lists[object] \subseteq threads[k].todo \cup live[current[object]] \cup late
    BY <1>1, ThreadNow DEF TakenBy, Covered
  <2>2. live[current[object]] \subseteq live'[current[object]] /\ SocketOf(k) = current[object]
    BY <1>3, <1>6, <2>1
  <2>3. r.pc = "streams" => r.fell \/ lists[object] \subseteq r.todo \cup live'[current[object]] \cup late'
    BY <1>6, <2>1, <2>2
  <2>4. r.pc = "account" => r.fell \/ lists[object] \subseteq live'[current[object]] \cup late'
    BY <1>6, <2>1, <2>2
  <2>5. QED BY <1>1, <1>6, <2>1, <2>3, <2>4 DEF TakenBy, Covered, engineVars
<1>8. object = 0 /\ k = Latest => AskedHere' /\ OwnBy(r)'
  BY <1>1, <1>6, ThreadNow DEF AskedHere, OwnBy
<1>9. /\ current' \in [Objects -> {0} \cup Sockets] /\ socket' \in [Sockets -> SocketStates]
      /\ asked' \in SUBSET Sockets /\ accepted' \in SUBSET Sockets
      /\ profile' \in {"none", "yes", "no"}
      /\ \A o \in Objects : o # threads[k].object => current'[o] = current[o]
  BY <1>1 DEF LinkTypes
<1>10. QED BY <1>1, <1>6, <1>7, <1>8, <1>9, ThreadKeeps DEF Ended

\* A step of the broker moves sockets and answers, and no attempt.
LEMMA BrokerKeeps ==
  ASSUME LinkInv, UNCHANGED <<engineVars, current, threads, live, late>>,
         socket' \in [Sockets -> SocketStates], asked' \in SUBSET asked,
         accepted' \in SUBSET Sockets, accepted \subseteq accepted', profile' \in {"none", "yes", "no"},
         AskedHere => AskedHere',
         \A t : object = 0 /\ t \in ThreadRecords /\ AskedHere /\ OwnBy(t) => OwnBy(t)'
  PROVE  LinkInv'
<1>1. LinkTypes /\ OneAttempt /\ ListsUsed /\ StreamsTaken /\ AnswersOwn
  BY DEF LinkInv
<1>2. UNCHANGED <<engine, object, lists, toStart, current, threads, live, late>>
  BY DEF engineVars
<1>3. LinkTypes'
  BY <1>1, <1>2 DEF LinkTypes
<1>4. OneAttempt' /\ ListsUsed'
  BY <1>1, <1>2 DEF OneAttempt, ListsUsed, Threads, Latest
<1>5. StreamsTaken'
  BY <1>1, <1>2 DEF StreamsTaken, TakenBy, Covered, Latest
<1>6. AnswersOwn'
  <2> PICK t : t = threads[Latest]
    OBVIOUS
  <2> SUFFICES ASSUME object = 0 PROVE AskedHere' /\ (Latest \in Threads => OwnBy(t)')
    BY <1>2 DEF AnswersOwn, OwnBy, Latest, Threads
  <2>1. AskedHere /\ (Latest \in Threads => OwnBy(t) /\ t \in ThreadRecords)
    BY <1>1 DEF AnswersOwn, LinkTypes, Threads
  <2>2. AskedHere'
    BY <1>2, <2>1 DEF AskedHere
  <2>3. QED BY <2>1, <2>2
<1>7. QED BY <1>3, <1>4, <1>5, <1>6 DEF LinkInv

LEMMA SocketOpensStep ==
  ASSUME LinkInv, NEW w \in Sockets, SocketOpens(w) PROVE LinkInv'
<1>1. /\ LinkTypes /\ socket[w] = "opening" /\ socket' = [socket EXCEPT ![w] = "open"]
      /\ UNCHANGED <<engineVars, current, threads, live, accepted, asked, late, profile>>
  BY DEF LinkInv, SocketOpens, sessionVars
<1>2. socket \in [Sockets -> SocketStates] /\ asked \in SUBSET Sockets /\ accepted \in SUBSET Sockets
      /\ profile \in {"none", "yes", "no"}
  BY <1>1 DEF LinkTypes
<1>3. socket' \in [Sockets -> SocketStates]
  BY <1>1, <1>2 DEF SocketStates
<1>4. AskedHere => AskedHere'
  BY <1>1, <1>2 DEF AskedHere
<1>5. \A t : OwnBy(t) => OwnBy(t)'
  BY <1>1 DEF OwnBy
<1>6. QED BY <1>1, <1>2, <1>3, <1>4, <1>5, BrokerKeeps

LEMMA SocketClosesStep ==
  ASSUME LinkInv, NEW w \in Sockets, SocketCloses(w) PROVE LinkInv'
<1>1. /\ LinkTypes /\ socket' = [socket EXCEPT ![w] = "closed"]
      /\ UNCHANGED <<engineVars, current, threads, live, accepted, asked, late, profile>>
  BY DEF LinkInv, SocketCloses, sessionVars
<1>2. socket \in [Sockets -> SocketStates] /\ asked \in SUBSET Sockets /\ accepted \in SUBSET Sockets
      /\ profile \in {"none", "yes", "no"}
  BY <1>1 DEF LinkTypes
<1>3. socket' \in [Sockets -> SocketStates]
  BY <1>1, <1>2 DEF SocketStates
<1>4. AskedHere => AskedHere'
  BY <1>1, <1>2 DEF AskedHere
<1>5. \A t : OwnBy(t) => OwnBy(t)'
  BY <1>1 DEF OwnBy
<1>6. QED BY <1>1, <1>2, <1>3, <1>4, <1>5, BrokerKeeps

\* The answer is to the session sent on the current socket, which had not been answered.
LEMMA AnswersSsidStep ==
  ASSUME LinkInv, NEW w \in Sockets, AnswersSsid(w) PROVE LinkInv'
<1>1. /\ LinkTypes /\ socket[w] = "open" /\ w \in asked /\ asked' = asked \ {w}
      /\ UNCHANGED <<engineVars, current, threads, socket, live, late>>
      /\ \/ profile' = "yes" /\ accepted' = accepted \cup {w}
         \/ profile' = "no" /\ accepted' = accepted
  BY DEF LinkInv, AnswersSsid, IsOpen
<1>2. socket \in [Sockets -> SocketStates] /\ asked \in SUBSET Sockets /\ accepted \in SUBSET Sockets
  BY <1>1 DEF LinkTypes
<1>3. AskedHere => AskedHere' /\ w = current[0]
  BY <1>1, <1>2 DEF AskedHere
<1>4. \A t : AskedHere /\ OwnBy(t) => OwnBy(t)'
  BY <1>1, <1>3 DEF OwnBy
<1>5. /\ socket' \in [Sockets -> SocketStates] /\ asked' \in SUBSET asked
      /\ accepted' \in SUBSET Sockets /\ accepted \subseteq accepted' /\ profile' \in {"none", "yes", "no"}
  BY <1>1, <1>2
<1>6. QED BY <1>1, <1>3, <1>4, <1>5, BrokerKeeps

\* The engine moves while no attempt of its runs, or between waiting for an attempt and
\* having its streams.
LEMMA EngineKeeps ==
  ASSUME LinkInv, engine \in Joining => threads[Latest].pc \in Ended,
         UNCHANGED <<object, threads, current, socket, asked, accepted, profile>>,
         live' \in [Sockets -> SUBSET Streams], lists' \in [Objects -> SUBSET Streams],
         toStart' \in SUBSET Streams, \A o \in Objects : o > object => lists'[o] = lists[o],
         \/ engine' \in {"attempt", "streams", "balance", "waitBalance", "profit", "trade", "ended"}
         \/ /\ engine' \in {"changing", "connected"} /\ threads[Latest].pc = "true"
            /\ threads[Latest].fell \/ Covered({})'
            /\ current[object] \in Sockets
  PROVE  LinkInv'
<1>1. LinkTypes /\ OneAttempt /\ ListsUsed /\ StreamsTaken /\ AnswersOwn
  BY DEF LinkInv
<1>2. LinkTypes'
  BY <1>1 DEF LinkTypes
<1>3. Latest' = Latest /\ Threads' = Threads /\ engine' \notin Joining /\ engine' # "joining"
  BY DEF Latest, Threads, Joining
<1>4. OneAttempt'
  <2>1. \A k \in Threads : ~(threads[k].object = object /\ threads[k].pc \notin Ended)
    BY <1>1 DEF OneAttempt
  <2>2. QED BY <1>1, <1>3, <2>1 DEF OneAttempt
<1>5. ListsUsed'
  BY <1>1, <1>3 DEF ListsUsed
<1>6. StreamsTaken'
  <2> PICK u : u = threads[Latest]
    OBVIOUS
  <2>1. ASSUME engine' \in {"changing", "connected"} PROVE u.pc = "true" /\ TakenBy(u)'
    BY <2>1 DEF TakenBy
  <2>2. threads'[Latest'] = u
    BY <1>3
  <2>3. QED BY <1>3, <2>1, <2>2 DEF StreamsTaken, TakenBy, Covered
<1>7. AnswersOwn'
  BY <1>1, <1>3 DEF AnswersOwn, AskedHere, OwnBy
<1>8. QED BY <1>2, <1>4, <1>5, <1>6, <1>7 DEF LinkInv

\* Where an attempt starts, no other one runs on the object.
LEMMA SpawnKeeps ==
  ASSUME LinkInv, engine \notin Joining, Spawn, engine' \in Joining,
         UNCHANGED <<object, current, socket, live, asked, accepted, profile>>,
         lists' \in [Objects -> SUBSET Streams], toStart' \in SUBSET Streams,
         \A o \in Objects : o > object => lists'[o] = lists[o]
  PROVE  LinkInv'
<1>1. LinkTypes /\ OneAttempt /\ ListsUsed /\ StreamsTaken /\ AnswersOwn
  BY DEF LinkInv
<1> PICK r : r = [pc |-> "new", object |-> object, todo |-> {}, last |-> FALSE,
                  outer |-> << >>, fell |-> FALSE]
  OBVIOUS
<1>2. object \in Nat /\ object \in Objects
  BY <1>1, LinkAssumption DEF LinkTypes, Objects
<1>3. r \in ThreadRecords /\ r.pc = "new" /\ r.object = object
  BY <1>2 DEF ThreadRecords, Pcs
<1>4. threads' = Append(threads, r) /\ Len(threads) < MaxThreads
  BY DEF Spawn
<1>5. /\ threads' \in Seq(ThreadRecords) /\ Len(threads') = Len(threads) + 1 /\ Len(threads) \in Nat
      /\ Latest' = Len(threads) + 1 /\ threads'[Latest'] = r /\ Latest' \in Threads'
      /\ \A k \in Threads' : k # Latest' => k \in Threads /\ threads'[k] = threads[k]
      /\ Threads \subseteq Threads'
      /\ \A k \in Threads : threads'[k] = threads[k]
  BY <1>1, <1>3, <1>4 DEF LinkTypes, Threads, Latest
<1>6. LinkTypes'
  BY <1>1, <1>5 DEF LinkTypes, Joining
<1>7. OneAttempt'
  <2>1. Len(threads') <= MaxThreads /\ object <= Len(threads) /\ object < Len(threads')
    BY <1>1, <1>2, <1>4, <1>5, LinkAssumption DEF OneAttempt
  <2>2. \A k \in Threads' : threads'[k].object <= object
    BY <1>1, <1>2, <1>3, <1>5 DEF OneAttempt
  <2>3. \A k \in Threads' : threads'[k].object = object /\ threads'[k].pc \notin Ended => k = Latest'
    BY <1>1, <1>5 DEF OneAttempt
  <2>4. object <= Len(threads')
    BY <1>2, <1>5, <2>1
  <2>5. QED BY <1>3, <1>5, <2>1, <2>2, <2>3, <2>4 DEF OneAttempt
<1>8. ListsUsed'
  BY <1>1, <1>5 DEF ListsUsed
<1>9. StreamsTaken'
  <2>1. engine' \notin {"changing", "connected"}
    BY DEF Joining
  <2>2. threads'[Latest'].pc = "new"
    BY <1>3, <1>5
  <2>3. QED BY <2>1, <2>2 DEF StreamsTaken, TakenBy
<1>10. AnswersOwn'
  <2>1. threads'[Latest'].pc = "new"
    BY <1>3, <1>5
  <2>2. QED BY <1>1, <2>1 DEF AnswersOwn, AskedHere, OwnBy
<1>11. QED BY <1>6, <1>7, <1>8, <1>9, <1>10 DEF LinkInv

\* A timeout: no attempt was made on the new object, and the old ones are below it.
LEMMA JoinTimesOutStep ==
  ASSUME LinkInv, JoinTimesOut PROVE LinkInv'
<1>1. LinkTypes /\ OneAttempt /\ ListsUsed /\ StreamsTaken /\ AnswersOwn
  BY DEF LinkInv
<1>2. /\ engine = "joining" /\ engine' = "attempt" /\ object' = object + 1
      /\ lists' = [lists EXCEPT ![object + 1] = {}]
      /\ UNCHANGED <<toStart, threads, current, socket, live, asked, accepted, late, profile>>
  BY DEF JoinTimesOut, NextAttempt, ListsOfNew, socketVars, sessionVars
<1>3. /\ object \in Nat /\ object < Len(threads) /\ Len(threads) \in Nat /\ Len(threads) <= MaxThreads
      /\ Latest \in Threads /\ threads[Latest].object = object
  BY <1>1, <1>2, LinkAssumption DEF LinkTypes, OneAttempt, Objects, Joining
<1>4. object + 1 \in Objects /\ object + 1 \in Nat /\ object + 1 <= Len(threads) /\ object + 1 # 0
      /\ ~(object + 1 <= object) /\ object < object + 1
  BY <1>3, LinkAssumption DEF Objects
<1>5. LinkTypes'
  BY <1>1, <1>2, <1>4 DEF LinkTypes
<1>6. \A k \in Threads : threads[k].object \in Nat /\ threads[k].object <= object
  <2>1. \A k \in Threads : threads[k] \in ThreadRecords
    BY <1>1 DEF LinkTypes, Threads
  <2>2. QED BY <1>1, <2>1 DEF OneAttempt, ThreadRecords
<1>7. \A k \in Threads : threads[k].object <= object + 1 /\ threads[k].object # object + 1
  BY <1>3, <1>6
<1>8. Threads' = Threads /\ Latest' = Latest
  BY <1>2 DEF Threads, Latest
<1>9. OneAttempt'
  BY <1>1, <1>2, <1>4, <1>7, <1>8 DEF OneAttempt, Joining
<1>10. ListsUsed'
  <2>1. ASSUME NEW o \in Objects, o > object + 1 PROVE lists'[o] = {}
    <3>1. o > object /\ o # object + 1
      BY <1>3, <2>1, LinkAssumption DEF Objects
    <3>2. QED BY <1>1, <1>2, <1>4, <3>1 DEF ListsUsed, LinkTypes
  <2>2. threads[Latest].object < object + 1
    BY <1>3, <1>4
  <2>3. QED BY <1>2, <1>3, <1>8, <2>1, <2>2 DEF ListsUsed
<1>11. StreamsTaken' /\ AnswersOwn'
  BY <1>2, <1>4 DEF StreamsTaken, AnswersOwn
<1>12. QED BY <1>5, <1>9, <1>10, <1>11 DEF LinkInv

LEMMA EngineStep == ASSUME LinkInv, EngineWorks PROVE LinkInv'
<1>1. LinkTypes /\ OneAttempt /\ StreamsTaken
  BY DEF LinkInv
<1>2. /\ object \in Objects /\ live \in [Sockets -> SUBSET Streams] /\ lists \in [Objects -> SUBSET Streams]
      /\ toStart \in SUBSET Streams
  BY <1>1 DEF LinkTypes
<1> DEFINE Shared == <<object, threads, current, socket, asked, accepted, profile>>
           Idle == {"attempt", "streams", "balance", "waitBalance", "profit", "trade", "ended"}
<1>3. ASSUME UNCHANGED <<Shared, lists, live>>, engine' \in Idle, toStart' \in SUBSET Streams,
             engine \in Joining => threads[Latest].pc \in Ended
      PROVE  LinkInv'
  BY <1>2, <1>3, EngineKeeps
<1>4. CASE Attempts
  <2>1. /\ engine = "attempt" /\ engine' = "joining" /\ Spawn
        /\ UNCHANGED <<toStart, object, lists, current, socket, live, asked, accepted, profile>>
    BY <1>4 DEF Attempts, EngineTo, socketVars, sessionVars
  <2>2. QED BY <1>2, <2>1, SpawnKeeps DEF Joining
<1>5. CASE Joins
  <2>1. UNCHANGED <<Shared, toStart, lists, live, late>> /\ engine = "joining" /\ threads[Latest].pc \in Ended
    BY <1>5 DEF Joins, EngineTo, NextAttempt, socketVars, sessionVars
  <2>2. CASE threads[Latest].pc = "true" /\ engine' = "changing"
    <3>1. current[object] \in Sockets /\ (threads[Latest].fell \/ Covered({}))
      BY <1>1, <2>1, <2>2 DEF StreamsTaken, TakenBy
    <3>2. threads[Latest].fell \/ Covered({})'
      BY <2>1, <3>1 DEF Covered
    <3>3. QED BY <1>2, <2>1, <2>2, <3>1, <3>2, EngineKeeps
  <2>3. CASE engine' = "attempt"
    BY <1>2, <1>3, <2>1, <2>3
  <2>4. QED BY <1>5, <2>2, <2>3 DEF Joins, EngineTo, NextAttempt
<1>6. CASE ChangesBalance
  <2>1. UNCHANGED <<Shared, toStart, lists, live, late>> /\ engine = "changing"
    BY <1>6 DEF ChangesBalance, EngineTo, NextAttempt, socketVars, sessionVars
  <2>2. CASE engine' = "connected"
    <3>1. /\ threads[Latest].pc = "true" /\ current[object] \in Sockets
          /\ threads[Latest].fell \/ Covered({})
      BY <1>1, <2>1 DEF StreamsTaken, TakenBy
    <3>2. threads[Latest].fell \/ Covered({})'
      BY <2>1, <3>1 DEF Covered
    <3>3. QED BY <1>2, <2>1, <2>2, <3>1, <3>2, EngineKeeps DEF Joining
  <2>3. CASE engine' = "attempt"
    BY <1>2, <1>3, <2>1, <2>3 DEF Joining
  <2>4. QED BY <1>6, <2>2, <2>3 DEF ChangesBalance, EngineTo, NextAttempt
<1>7. CASE GivesUpConnecting \/ StartsStreams \/ GetsBalance \/ Trades
  BY <1>2, <1>3, <1>7 DEF GivesUpConnecting, StartsStreams, GetsBalance, Trades, EngineTo, Joining, socketVars, sessionVars
<1>8. CASE FirstStreams
  <2>1. /\ engine = "streams" /\ toStart # {}
        /\ UNCHANGED <<object, current, socket, asked, accepted, profile>>
        /\ toStart' \in {toStart, toStart \ {NextStream}}
    BY <1>8 DEF FirstStreams, sessionVars
  <2>2. NextStream \in toStart
    BY <2>1 DEF NextStream
  <2>3. ASSUME ListsStream(NextStream) \/ lists' = lists, NextStream \in Streams
        PROVE  /\ lists' \in [Objects -> SUBSET Streams]
               /\ \A o \in Objects : o > object => lists'[o] = lists[o]
    <3>1. object \in Nat /\ \A o \in Objects : o > object => o # object
      BY <1>2, LinkAssumption DEF Objects
    <3>2. QED BY <1>2, <2>3, <3>1 DEF ListsStream
  <2>4. NextStream \in Streams
    BY <1>1, <2>2 DEF LinkTypes
  <2>5. CASE /\ Streamed(current[object], NextStream) \/ GivenUp(NextStream)
             /\ ListsStream(NextStream) /\ UNCHANGED <<engine, threads>>
    <3>1. live' \in [Sockets -> SUBSET Streams]
      BY <1>2, <2>4, <2>5 DEF Streamed, GivenUp
    <3>2. /\ lists' \in [Objects -> SUBSET Streams] /\ \A o \in Objects : o > object => lists'[o] = lists[o]
      BY <2>3, <2>4, <2>5
    <3>3. toStart' \in SUBSET Streams /\ engine \notin Joining /\ engine' = "streams"
      BY <1>2, <2>1, <2>5 DEF Joining
    <3>4. QED BY <2>1, <2>5, <3>1, <3>2, <3>3, EngineKeeps
  <2>6. CASE /\ Spawn /\ engine' = "innerStreams" /\ (ListsStream(NextStream) \/ UNCHANGED lists)
             /\ UNCHANGED live
    <3>1. /\ lists' \in [Objects -> SUBSET Streams] /\ \A o \in Objects : o > object => lists'[o] = lists[o]
      BY <2>3, <2>4, <2>6
    <3>2. toStart' \in SUBSET Streams /\ engine \notin Joining /\ engine' \in Joining
      BY <1>2, <2>1, <2>6 DEF Joining
    <3>3. QED BY <2>1, <2>6, <3>1, <3>2, SpawnKeeps
  <2>7. QED BY <1>8, <2>5, <2>6 DEF FirstStreams
<1>9. CASE AsksBalance
  BY <1>2, <1>3, <1>9 DEF AsksBalance, EngineTo, Joining, socketVars, sessionVars
<1>10. CASE AsksProfit
  <2>1. /\ engine = "profit" /\ UNCHANGED <<toStart, object, lists, current, socket, live, asked, accepted, late, profile>>
    BY <1>10 DEF AsksProfit, EngineTo, socketVars, sessionVars
  <2>2. CASE UNCHANGED threads /\ engine' = "trade"
    BY <1>2, <1>3, <2>1, <2>2 DEF Joining
  <2>3. CASE Spawn /\ engine' = "inner"
    BY <1>2, <2>1, <2>3, SpawnKeeps DEF Joining
  <2>4. QED BY <1>10, <2>2, <2>3 DEF AsksProfit, EngineTo
<1>11. CASE InnerConnectEnds \/ InnerStreamsEnd
  BY <1>2, <1>3, <1>11 DEF InnerConnectEnds, InnerStreamsEnd, EngineTo, socketVars, sessionVars
<1>12. QED BY <1>4, <1>5, <1>6, <1>7, <1>8, <1>9, <1>10, <1>11 DEF EngineWorks

LEMMA LinkStarts == LinkInit => LinkInv
<1> SUFFICES ASSUME LinkInit PROVE LinkInv
  OBVIOUS
<1>1. 0 \in Objects /\ \A o \in Objects : o \in Nat
  BY LinkAssumption DEF Objects
<1>2. /\ engine = "attempt" /\ object = 0 /\ threads = << >> /\ Len(threads) = 0 /\ Threads = {}
      /\ lists = [o \in Objects |-> {}] /\ asked = {} /\ Latest = 0
  BY DEF LinkInit, Threads, Latest
<1>3. LinkTypes
  BY <1>1, <1>2 DEF LinkInit, LinkTypes, SocketStates
<1>4. OneAttempt /\ ListsUsed
  BY <1>1, <1>2, LinkAssumption DEF OneAttempt, ListsUsed, Joining
<1>5. StreamsTaken /\ AnswersOwn
  BY <1>2 DEF StreamsTaken, AnswersOwn, AskedHere
<1>6. QED BY <1>3, <1>4, <1>5 DEF LinkInv

LEMMA LinkStep == LinkInv /\ [LinkNext]_linkVars => LinkInv'
<1> SUFFICES ASSUME LinkInv, [LinkNext]_linkVars PROVE LinkInv'
  OBVIOUS
<1>1. ASSUME NEW k \in Threads, ThreadStep(k) \/ LoginFails(k) PROVE LinkInv'
  BY <1>1, OpensStep, WaitsForSocketStep, WaitsAgainStep, SendsSsidStep, SeesProfileStep, LogsInStep,
     SeesClockStep, ResubscribesStep, SubscribesAccountStep, LoginFailsStep DEF ThreadStep
<1>2. ASSUME NEW w \in Sockets, SocketOpens(w) \/ SocketCloses(w) \/ AnswersSsid(w) PROVE LinkInv'
  BY <1>2, SocketOpensStep, SocketClosesStep, AnswersSsidStep
<1>3. ASSUME UNCHANGED <<engineVars, socketVars, threads, late, profile>> PROVE LinkInv'
  <2>1. UNCHANGED <<engine, object, lists, toStart, current, socket, live, asked, accepted, threads, late, profile>>
    BY <1>3 DEF engineVars, socketVars
  <2>2. LinkTypes' /\ OneAttempt' /\ ListsUsed'
    BY <2>1 DEF LinkInv, LinkTypes, OneAttempt, ListsUsed, Threads, Latest
  <2>3. StreamsTaken' /\ AnswersOwn'
    BY <2>1 DEF LinkInv, StreamsTaken, TakenBy, Covered, AnswersOwn, AskedHere, OwnBy, Threads, Latest
  <2>4. QED BY <2>2, <2>3 DEF LinkInv
<1>4. CASE SessionExpires
  BY <1>3, <1>4 DEF SessionExpires
<1>5. CASE EngineWorks
  BY <1>5, EngineStep
<1>6. CASE JoinTimesOut
  BY <1>6, JoinTimesOutStep
<1>7. CASE UNCHANGED linkVars
  BY <1>3, <1>7 DEF linkVars, engineVars, socketVars
<1>8. QED BY <1>1, <1>2, <1>4, <1>5, <1>6, <1>7 DEF LinkNext

\* An attempt that says True has its own socket, opened and answered, as long as nothing
\* timed out; and when connect() says True the streams of the engine are on its socket
\* again or gave up, or an attempt timed out and they are forgotten.
THEOREM ConnectionHoldsHolds == LinkSpec => []ConnectionHolds
<1>1. LinkInv => ConnectionHolds
  <2> SUFFICES ASSUME LinkInv PROVE VerdictIsOwn /\ StreamsFollow
    BY DEF ConnectionHolds
  <2>1. LinkTypes /\ ListsUsed /\ StreamsTaken /\ AnswersOwn
    BY DEF LinkInv
  <2>2. VerdictIsOwn
    BY <2>1 DEF VerdictIsOwn, AnswersOwn, OwnBy
  <2>3. ASSUME engine = "connected", NEW o \in Objects, lists[o] # {}, lists[object] = {}
        PROVE  \E k \in Threads : threads[k].object < object
    <3>1. object \in Nat /\ o \in Nat /\ ~(o > object) /\ o # object
      BY <2>1, <2>3, LinkAssumption DEF LinkTypes, ListsUsed, Objects
    <3>2. object > 0
      BY <3>1
    <3>3. QED BY <2>1, <3>2 DEF ListsUsed
  <2>4. StreamsFollow
    BY <2>1, <2>3 DEF StreamsFollow, StreamsTaken, TakenBy, Covered
  <2>5. QED BY <2>2, <2>4
<1>2. QED BY <1>1, LinkStarts, LinkStep, PTL DEF LinkSpec
=============================================================================
