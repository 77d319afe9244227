----------------------------- MODULE CandleFeed -----------------------------
(* The five-minute candles of one asset, from the broker to the indicators of  *)
(* the engine: start_candles_stream and stop_candles_stream of stable_api.py,  *)
(* the buffer that on_message fills, and the reader in strategy_loop. The      *)
(* buffer is a class attribute and outlives the engine that filled it. A candle *)
(* is its number; prices, and the indicators made of them, are left out.       *)
EXTENDS Integers, Sequences, FiniteSets, FiniteSetsExt

CONSTANTS MAXDICT,       \* candles the buffer holds (20)
          HISTORY,       \* candles of the warm-up (500)
          MaxTime,       \* bound: candles the market makes
          MaxEngines     \* bound: engines started one after the other

ASSUME CandleAssumption == /\ MAXDICT \in Nat \ {0, 1}
                           /\ HISTORY \in Nat \ {0}

VARIABLES
  now,         \* the candle that is open
  subscribed,  \* the broker sends this stream
  sent,        \* candle-generated messages on the way
  buffer,      \* real_time_candles[asset][size]
  check,       \* candle_generated_check: TRUE after a candle, else FALSE for {}
  stream,      \* what the engine does
  lastTs,      \* last_candle_ts[asset], 0 before the first
  updates,     \* the candles given to RollingState.update, in order
  warm,        \* how many of them came from the warm-up
  engines,
  gaveUp       \* history: a start gave up after 20 s

candleVars == <<now, subscribed, sent, buffer, check, stream, lastTs, updates, warm, engines, gaveUp>>

\* get_candles: the last n candles, as a set and in order.
Ending(n) == {t \in 1 .. now : t > now - n}
EndingInOrder(n) == LET size == IF now < n THEN now ELSE n IN [i \in 1 .. size |-> now - size + i]

CandleInit ==
  /\ now = 1
  /\ subscribed = FALSE /\ sent = {} /\ buffer = {} /\ check = FALSE
  /\ stream = "warmup" /\ lastTs = 0 /\ updates = << >> /\ warm = 0
  /\ engines = 1 /\ gaveUp = FALSE

----------------------------------------------------------------------------
(* The broker and on_message *)

\* The open candle moves, or the next one opens.
Moves ==
  /\ now' \in {now, now + 1} /\ now' <= MaxTime
  /\ sent' = IF subscribed THEN sent \cup {now'} ELSE sent
  /\ UNCHANGED <<subscribed, buffer, check, stream, lastTs, updates, warm, engines, gaveUp>>

\* dict_queue_add: a new candle pushes out the smallest keys.
KeptOldest(candles) ==
  {t \in candles : Cardinality({u \in candles : u < t}) < MAXDICT - 1}
Kept(candles) == {t \in candles : Cardinality({u \in candles : u > t}) < MAXDICT - 1}
WithCandle(t) ==
  IF t \in buffer \/ Cardinality(buffer) < MAXDICT THEN buffer \cup {t} ELSE Kept(buffer) \cup {t}

\* Two sockets can feed the buffer after an attempt to connect timed out: no order.
Arrives ==
  \E m \in sent :
    /\ sent' = sent \ {m}
    /\ buffer' = WithCandle(m) /\ check' = TRUE
    /\ UNCHANGED <<now, subscribed, stream, lastTs, updates, warm, engines, gaveUp>>

----------------------------------------------------------------------------
(* The engine *)

\* warmup_indicators: the open candle is the last of the history.
WarmsUp ==
  /\ stream = "warmup" /\ stream' = "load"
  /\ updates' = EndingInOrder(HISTORY)
  /\ warm' = Len(updates')
  /\ UNCHANGED <<now, subscribed, sent, buffer, check, lastTs, engines, gaveUp>>

\* full_realtime_get_candle evicts nothing; start_candles_one_stream lowers the check.
Loads ==
  /\ stream = "load" /\ stream' = "starting"
  /\ buffer' = buffer \cup Ending(MAXDICT)
  /\ check' = FALSE
  /\ UNCHANGED <<now, subscribed, sent, lastTs, updates, warm, engines, gaveUp>>

\* Subscribes every second until a candle comes, for 20 s.
Subscribes ==
  /\ stream = "starting" /\ ~check /\ ~subscribed /\ subscribed' = TRUE
  /\ UNCHANGED <<now, sent, buffer, check, stream, lastTs, updates, warm, engines, gaveUp>>
Started ==
  /\ stream = "starting" /\ stream' = "scan"
  /\ \/ check /\ UNCHANGED gaveUp
     \/ ~check /\ gaveUp' = TRUE
  /\ UNCHANGED <<now, subscribed, sent, buffer, check, lastTs, updates, warm, engines>>

\* strategy_loop: the newest candle of the buffer, when it is not the last one taken.
Takes ==
  /\ stream = "scan" /\ buffer # {} /\ Max(buffer) # lastTs
  /\ lastTs' = Max(buffer) /\ updates' = Append(updates, Max(buffer))
  /\ UNCHANGED <<now, subscribed, sent, buffer, check, stream, warm, engines, gaveUp>>

Leaves ==
  /\ stream = "scan" /\ stream' = "stopping"
  /\ UNCHANGED <<now, subscribed, sent, buffer, check, lastTs, updates, warm, engines, gaveUp>>

\* stop_candles_one_stream: looks at the check, and only then lowers it, unsubscribes
\* and waits 5 s.
Stops ==
  /\ stream = "stopping"
  /\ \/ ~check /\ stream' = "stopped" /\ UNCHANGED <<subscribed, check>>
     \/ check /\ check' = FALSE /\ subscribed' = FALSE /\ UNCHANGED stream
  /\ UNCHANGED <<now, sent, buffer, lastTs, updates, warm, engines, gaveUp>>

NextEngine ==
  /\ stream = "stopped" /\ engines < MaxEngines /\ engines' = engines + 1
  /\ stream' = "warmup" /\ lastTs' = 0 /\ updates' = << >> /\ warm' = 0 /\ gaveUp' = FALSE
  /\ UNCHANGED <<now, subscribed, sent, buffer, check>>

CandleNext ==
  \/ Moves \/ Arrives \/ WarmsUp \/ Loads \/ Subscribes \/ Started \/ Takes \/ Leaves \/ Stops
  \/ NextEngine

CandleSpec == CandleInit /\ [][CandleNext]_candleVars

----------------------------------------------------------------------------

\* strategy.py 784-806: the indicators take each candle once and in order, whatever
\* arrives late or twice and whatever the engine before left in the buffer. Only the
\* candle that is open at the end of the warm-up is taken a second time.
CandlesInOrder ==
  \A m, n \in DOMAIN updates :
    m < n => \/ updates[m] < updates[n]
             \/ updates[m] = updates[n] /\ m = warm /\ n = warm + 1

\* client.py 24-38, stable_api.py 527-532: the buffer keeps to its size, but for what
\* each engine loads at its start.
BufferBounded == Cardinality(buffer) <= MAXDICT * engines

\* stable_api.py 535-569: a stream that was stopped is off at the broker, unless its
\* start gave up: then the check is down, and stop() returns at once.
StopIsQuiet == (stream = "stopped" /\ subscribed) => gaveUp

\* stable_api.py 527-569, strategy.py 784-806: what the indicators are fed, what is kept
\* for them, and what is left running at the broker.
CandlesHold == CandlesInOrder /\ BufferBounded /\ StopIsQuiet
=============================================================================
