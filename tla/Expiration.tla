----------------------------- MODULE Expiration -----------------------------
(* Which expiry an option of so many minutes gets: get_expiration_time of     *)
(* iqoptionapi/expiration.py with its use by buyv3.py, and get_remaning_time  *)
(* with IQ_Option.get_remaning, which tells the user how long it will run.    *)
(* Times are whole seconds. The candidates are computed from the broker's     *)
(* clock, what is left of them from the machine's.                            *)
EXTENDS Integers, Sequences, FiniteSets, FiniteSetsExt

CONSTANTS ServerTimes, Skews,  \* the broker's clock; the machine's less the broker's
          Durations,           \* minutes
          QUARTERS             \* quarter hours listed: 50 and 11 in the code

\* Options run for one to five minutes, or for some of the quarter hours that are listed.
ASSUME ExpiryAssumption ==
  /\ ServerTimes \subseteq Int /\ Skews \subseteq Int
  /\ QUARTERS \in Nat \ {0}
  /\ Durations \subseteq (1 .. 5) \cup {15 * k : k \in 1 .. QUARTERS - 1}

VARIABLES serverTime, skew,
          option               \* the option bought, or NoOption

expiryVars == <<serverTime, skew, option>>

NoOption == [expired |-> 0]

ExpiryInit == serverTime \in ServerTimes /\ skew \in Skews /\ option = NoOption

LocalTime == serverTime + skew

Minute(t) == t - (t % 60)

\* The next full minute, or the one after when 30 seconds or less are left of it.
FirstMinute == Minute(serverTime) + (IF Minute(serverTime) + 60 - serverTime > 30 THEN 60 ELSE 120)

FiveMinutes == [k \in 1 .. 5 |-> FirstMinute + 60 * (k - 1)]

FirstQuarterAny == 900 * (serverTime \div 900 + 1)

\* The quarter hours more than five minutes away.
FirstQuarter == 900 * ((serverTime + 300) \div 900 + 1)

Expirations == FiveMinutes \o [k \in 1 .. QUARTERS |-> FirstQuarter + 900 * (k - 1)]

Abs(x) == IF x < 0 THEN -x ELSE x

\* The first of the expirations closest to the duration from now.
GetExpirationTime(duration) ==
  LET close == [k \in DOMAIN Expirations |-> Abs(Expirations[k] - LocalTime - 60 * duration)]
      idx == Min({k \in DOMAIN close : \A j \in DOMAIN close : close[k] <= close[j]})
  IN [expired |-> Expirations[idx], idx |-> idx - 1]

OptionType(idx) == IF idx < 5 THEN "turbo" ELSE "binary"

Buyv3(duration) ==
  LET e == GetExpirationTime(duration)
  IN /\ option = NoOption
     /\ option' = [expired |-> e.expired, type |-> OptionType(e.idx), duration |-> duration]
     /\ UNCHANGED <<serverTime, skew>>

ExpiryNext == \E duration \in Durations : Buyv3(duration)

ExpirySpec == ExpiryInit /\ [][ExpiryNext]_expiryVars

\* get_remaning(): the label of place k is k minutes, then quarters of an hour.
Label(k) == IF k > 5 THEN 15 * (k - 5) ELSE k

GetRemaning(duration) ==
  Expirations[CHOOSE k \in DOMAIN Expirations : Label(k) = duration] - LocalTime

----------------------------------------------------------------------------
(* Properties *)

Bought == option # NoOption

\* expiration.py 15-46: whatever the clocks say, no option expires within 30
\* seconds of the broker's time, and binary ones not within five minutes; with
\* equal clocks one to five minutes always mean a turbo option, whole quarters a
\* binary one, right to half a minute and half a quarter of an hour. A clock that is
\* off by half a minute or less moves the result of one to five minutes by no more
\* than it is off, and any other by no more than twice that: beyond the fifth minute
\* a wrong clock may find nothing near and take the first quarter.
ExpiryFits ==
  Bought =>
    LET left == option.expired - serverTime
        minutes == option.duration <= 5
    IN /\ left > 30 /\ (option.type = "binary" => left > 300)
       /\ skew = 0 => (option.type = "turbo" <=> minutes)
       /\ minutes /\ Abs(skew) <= 30 => Abs(left - 60 * option.duration) <= Abs(skew) + 30
       /\ Abs(left - 60 * option.duration) <= 2 * Abs(skew) + (IF minutes THEN 30 ELSE 450)

\* expiration.py 49-80, stable_api.py 770-775: the time a user is told is that of
\* the option buy() would choose, except in the very middle between two minutes,
\* and for quarters whenever less than half a quarter is left of the first one:
\* buy() then takes the one behind it.
RemainingIsWhatIsBought ==
  Bought /\ skew = 0 =>
    LET told == GetRemaning(option.duration)
        left == option.expired - serverTime
    IN IF option.duration <= 5
         THEN left = told - (IF told = 60 * option.duration + 30 /\ option.duration > 1 THEN 60 ELSE 0)
         ELSE left = told + (IF told < 60 * option.duration - 450 THEN 900 ELSE 0)

\* expiration.py 15-80: the option fits the duration asked for and the time told.
ExpiryAsTold == ExpiryFits /\ RemainingIsWhatIsBought
=============================================================================
