--------------------------- MODULE DataAggregator ---------------------------
(* The tick pipeline of realtime-data-aggregator/ingest.py: feeds put raw     *)
(* ticks into a queue, a consumer thread drops duplicates and stores the rest *)
(* as latest price and history. start() does not look whether a consumer runs,*)
(* so a second call gives the queue a second one. _process is split where two *)
(* consumers can meet: the test of _seen, the add, the store under the lock,  *)
(* and the two halves of `_duplicates += 1', which no lock protects.          *)
EXTENDS Integers, Sequences, FiniteSets

CONSTANTS Ticks,       \* tick numbers, in the order they are ingested: 1 .. n
          Symbols, Windows,     \* symbols, and rounded timestamps
          MaxStarts, MaxStops   \* bounds on the calls of start() and stop()

ASSUME TicksAssumption == Ticks \subseteq Nat \ {0}

VARIABLES tickOf,      \* what each tick says: symbol and dedup window
          inbox,       \* _inbox
          ingested,    \* number of ticks put so far
          seen,        \* _seen: dedup keys
          history,     \* _history per symbol, whose last entry is _latest
          running,     \* _running
          consumers,   \* consumer threads: place in the loop and tick in hand
          dropped,     \* history: the ticks dropped as duplicates
          duplicates,  \* _duplicates
          loaded,      \* the value of it that each consumer loaded last
          stops        \* calls of stop() so far

feedVars == <<tickOf, inbox, ingested, seen, history, running, consumers, dropped, loaded, duplicates, stops>>

FeedInit == /\ tickOf \in [Ticks -> [symbol: Symbols, window: Windows]]
            /\ inbox = <<>> /\ ingested = 0
            /\ seen = {} /\ dropped = {} /\ duplicates = 0 /\ loaded = <<>>
            /\ history = [s \in Symbols |-> <<>>]
            /\ running = FALSE
            /\ consumers = <<>>
            /\ stops = 0

Ingest == /\ ingested + 1 \in Ticks
          /\ inbox' = Append(inbox, ingested + 1)
          /\ ingested' = ingested + 1
          /\ UNCHANGED <<tickOf, seen, history, running, consumers, dropped, loaded, duplicates, stops>>

Start == /\ Len(consumers) < MaxStarts
         /\ running' = TRUE
         /\ consumers' = Append(consumers, [at |-> "top", tick |-> 0])
         /\ loaded' = Append(loaded, 0)
         /\ UNCHANGED <<tickOf, inbox, ingested, seen, history, dropped, duplicates, stops>>

\* The join of 3 s that follows changes nothing.
Stop == /\ stops < MaxStops /\ consumers # <<>>
        /\ running' = FALSE
        /\ stops' = stops + 1
        /\ UNCHANGED <<tickOf, inbox, ingested, seen, history, consumers, dropped, loaded, duplicates>>

----------------------------------------------------------------------------
(* _consume_loop() and _process() of consumer c *)

Goto(c, place, tick) == consumers' = [consumers EXCEPT ![c] = [at |-> place, tick |-> tick]]

CheckRunning(c) ==
  /\ consumers[c].at = "top"
  /\ Goto(c, IF running THEN "get" ELSE "dead", 0)
  /\ UNCHANGED <<tickOf, inbox, ingested, seen, history, running, dropped, loaded, duplicates, stops>>

GetNothing(c) ==
  /\ consumers[c].at = "get" /\ inbox = <<>>
  /\ Goto(c, "top", 0)
  /\ UNCHANGED <<tickOf, inbox, ingested, seen, history, running, dropped, loaded, duplicates, stops>>

AfterGetPeek == inbox

AfterGet == Tail(inbox)

GetTick(c) ==
  /\ consumers[c].at = "get" /\ inbox # <<>>
  /\ Goto(c, "check", Head(inbox))
  /\ inbox' = AfterGet
  /\ UNCHANGED <<tickOf, ingested, seen, history, running, dropped, loaded, duplicates, stops>>

\* `self._duplicates += 1' loads the counter and stores it in two steps.
FindDuplicate(c) ==
  /\ consumers[c].at = "check" /\ tickOf[consumers[c].tick] \in seen
  /\ loaded' = [loaded EXCEPT ![c] = duplicates]
  /\ Goto(c, "count", consumers[c].tick)
  /\ UNCHANGED <<tickOf, inbox, ingested, seen, history, running, dropped, duplicates, stops>>

DropDuplicate(c) ==
  /\ consumers[c].at = "count"
  /\ duplicates' = loaded[c] + 1
  /\ dropped' = dropped \cup {consumers[c].tick}
  /\ Goto(c, "top", 0)
  /\ UNCHANGED <<tickOf, inbox, ingested, seen, history, running, loaded, stops>>

PassCheck(c) ==
  /\ consumers[c].at = "check" /\ tickOf[consumers[c].tick] \notin seen
  /\ Goto(c, "add", consumers[c].tick)
  /\ UNCHANGED <<tickOf, inbox, ingested, seen, history, running, dropped, loaded, duplicates, stops>>

SeenWith(t) == seen \cup {tickOf[t]}

AddSeen(c) ==
  /\ consumers[c].at = "add"
  /\ seen' = SeenWith(consumers[c].tick)
  /\ Goto(c, "store", consumers[c].tick)
  /\ UNCHANGED <<tickOf, inbox, ingested, history, running, dropped, loaded, duplicates, stops>>

Stored(t) == [history EXCEPT ![tickOf[t].symbol] = Append(@, t)]

Store(c) ==
  /\ consumers[c].at = "store"
  /\ history' = Stored(consumers[c].tick)
  /\ Goto(c, "top", 0)
  /\ UNCHANGED <<tickOf, inbox, ingested, seen, running, dropped, loaded, duplicates, stops>>

Consume(c) == CheckRunning(c) \/ GetNothing(c) \/ GetTick(c) \/ FindDuplicate(c)
                \/ DropDuplicate(c) \/ PassCheck(c) \/ AddSeen(c) \/ Store(c)

FeedNext == Ingest \/ Start \/ Stop \/ \E c \in DOMAIN consumers : Consume(c)

FeedSpec == FeedInit /\ [][FeedNext]_feedVars

----------------------------------------------------------------------------
(* Properties *)

InHistory(t) == \E i \in DOMAIN history[tickOf[t].symbol] : history[tickOf[t].symbol][i] = t

Holders(t) == {c \in DOMAIN consumers : consumers[c].tick = t}

\* ingest.py 93-124: a tick that was ingested is in exactly one place: waiting, in
\* the hands of one consumer, dropped as a duplicate or stored once, whatever
\* starts, stops and leftover consumers do.
TickInOnePlace ==
  \A t \in Ticks :
    Cardinality({i \in DOMAIN inbox : inbox[i] = t}) + Cardinality(Holders(t))
      + Cardinality({i \in DOMAIN history[tickOf[t].symbol] : history[tickOf[t].symbol][i] = t})
      + (IF t \in dropped THEN 1 ELSE 0) = (IF t <= ingested THEN 1 ELSE 0)

\* ingest.py 108-111: the test and the add of a dedup key are not one step; of the
\* ticks of one source, symbol and window as many are stored as consumers passed
\* the test together, never more than there are consumers, and one if there is one.
DuplicatesBounded ==
  \A k \in {tickOf[t] : t \in Ticks} :
    Cardinality({t \in Ticks : tickOf[t] = k /\ InHistory(t)}) <= Len(consumers)

\* ingest.py 109: the counter never claims a duplicate that was not dropped; with one
\* consumer it counts them all, with two it may lose some, even what was counted before.
DropsCounted ==
  /\ duplicates <= Cardinality(dropped)
  /\ Len(consumers) <= 1 => duplicates = Cardinality(dropped)

\* ingest.py 121-124: while only one consumer was ever started, the last entry of a
\* symbol's history, which get_latest returns, is the last to ARRIVE of those stored.
\* Nothing compares timestamps: a tick that comes late takes the place of a newer price,
\* where line 4 promises the handling of late arrivals and 67 the latest state.
LatestIsLastArrival ==
  Len(consumers) <= 1 =>
    \A s \in Symbols : \A i, j \in DOMAIN history[s] : i < j => history[s][i] < history[s][j]

\* ingest.py 93-124: every tick is settled once and in the order of arrival, up to the
\* duplicates that a second consumer lets through and the counts that it loses.
TicksSettleOnce == TickInOnePlace /\ DuplicatesBounded /\ DropsCounted /\ LatestIsLastArrival
=============================================================================
