---------------------------- MODULE AlertGateway ----------------------------
(***************************************************************************)
(* The alert dispatcher (trading-alert-gateway/dispatcher.py): sender      *)
(* threads pass a rate limit per source and enqueue, dispatcher threads    *)
(* deliver, start and stop are called by one thread.                       *)
(*                                                                         *)
(* An alert is known by its source.  The statistics, the results and       *)
(* delivery_attempts, which no decision reads, are left out; the clock     *)
(* never goes back.                                                        *)
(***************************************************************************)
EXTENDS Integers, Sequences, FiniteSets

CONSTANTS Alerts, SourceOf,
          RateLimit,        \* _rate_limit
          Window,           \* the 60 s of _is_rate_limited
          MaxChannels,      \* bound: channels with a handler per alert
          MaxTime,          \* bound: the clock
          MaxStarts, MaxStops   \* bounds: calls of start and stop

ASSUME GatewayAssumption ==
    /\ RateLimit \in Nat /\ Window \in Nat \ {0}
    /\ {MaxChannels, MaxTime, MaxStarts, MaxStops} \subseteq Nat

Sources     == {SourceOf[a] : a \in Alerts}
Dispatchers == 1..MaxStarts

Sentinel == "sentinel"
NoAlert  == "no alert"

ASSUME MarkAssumption == Sentinel \notin Alerts /\ NoAlert \notin Alerts

VARIABLES
    running,            \* _running
    queue,              \* _queue
    admitted,           \* the stamps a source was admitted with, in order
    tracker,            \* _rate_tracker: the places in admitted of those it lists
    admin, stops,       \* where start or stop is; calls of stop so far
    thread, holds,      \* where each dispatcher is, the alert it delivers
    left,               \* ... and on how many channels it still has to try it
    sender, stamp,      \* where send is for each alert; its "now"
    delivered,          \* alert.delivered
    now                 \* the clock

sendVars     == <<tracker, sender, stamp, admitted>>
dispatchVars == <<thread, holds, left, delivered>>
vars == <<running, queue, admin, stops, now, sendVars, dispatchVars>>

Init ==
    /\ running = FALSE /\ queue = <<>> /\ admin = "idle" /\ stops = 0 /\ now = 0
    /\ tracker = [s \in Sources |-> {}]
    /\ admitted = [s \in Sources |-> <<>>]
    /\ thread = [d \in Dispatchers |-> "unborn"]
    /\ holds = [d \in Dispatchers |-> NoAlert]
    /\ sender = [a \in Alerts |-> "none"]
    /\ stamp = [a \in Alerts |-> 0]
    /\ left = [d \in Dispatchers |-> 0]
    /\ delivered = [a \in Alerts |-> FALSE]

Dead(d) == thread[d] \in {"unborn", "dead"}

Tick == /\ now < MaxTime
        /\ now' = now + 1
        /\ UNCHANGED <<running, queue, admin, stops, sendVars, dispatchVars>>

-----------------------------------------------------------------------------
(* start and stop.                                                         *)

Start(d) ==
    /\ admin = "idle"
    /\ thread[d] = "unborn" /\ \A e \in 1..(d - 1) : thread[e] # "unborn"
    /\ running' = TRUE
    /\ thread' = [thread EXCEPT ![d] = "top"]
    /\ UNCHANGED <<queue, admin, stops, now, sendVars, holds, left,
                   delivered>>

Stop ==
    /\ admin = "idle" /\ stops < MaxStops
    /\ running' = FALSE
    /\ admin' = "stopping" /\ stops' = stops + 1
    /\ UNCHANGED <<queue, now, sendVars, dispatchVars>>

PutSentinel ==
    /\ admin = "stopping"
    /\ queue' = Append(queue, Sentinel)
    /\ admin' = "joining"
    /\ UNCHANGED <<running, stops, now, sendVars, dispatchVars>>

\* join waits up to 3 s for the thread started last: an idle one ends within
\* 1 s, one that is delivering may outlive the join.
Join ==
    /\ admin = "joining"
    /\ \A d \in Dispatchers :
          (\A e \in Dispatchers : e > d => thread[e] = "unborn")
              => Dead(d) \/ thread[d] = "delivering"
    /\ admin' = "idle"
    /\ UNCHANGED <<running, queue, stops, now, sendVars, dispatchVars>>

-----------------------------------------------------------------------------
(* send, in a thread of its own per alert.                                 *)

\* An alert that is severe enough reads the clock, outside the lock.  (One that
\* is not returns without a trace.)
ReadClock(a) ==
    /\ sender[a] = "none"
    /\ stamp' = [stamp EXCEPT ![a] = now]
    /\ sender' = [sender EXCEPT ![a] = "stamped"]
    /\ UNCHANGED <<running, queue, admin, stops, now, tracker, admitted, dispatchVars>>

\* The stamps still counted at time t.
FreshEarly(s, t) == {i \in tracker[s] : t - admitted[s][i] < Window - 1}
Fresh(s, t) == {i \in tracker[s] : t - admitted[s][i] < Window}

Full(listed) == Cardinality(listed) >= RateLimit

\* _is_rate_limited under the lock; its local "now" is gone afterwards.
Admit(a) ==
    LET s == SourceOf[a]
        fresh == Fresh(s, stamp[a])
    IN /\ sender[a] = "stamped"
       /\ IF Full(fresh)
            THEN /\ tracker' = [tracker EXCEPT ![s] = fresh]
                 /\ sender' = [sender EXCEPT ![a] = "limited"]
                 /\ UNCHANGED admitted
            ELSE /\ admitted' = [admitted EXCEPT ![s] = Append(@, stamp[a])]
                 /\ tracker' = [tracker EXCEPT ![s] = fresh \cup {Len(admitted[s]) + 1}]
                 /\ sender' = [sender EXCEPT ![a] = "admitted"]
       /\ stamp' = [stamp EXCEPT ![a] = 0]
       /\ UNCHANGED <<running, queue, admin, stops, now, dispatchVars>>

Enqueue(a) ==
    /\ sender[a] = "admitted"
    /\ queue' = Append(queue, a)
    /\ sender' = [sender EXCEPT ![a] = "queued"]
    /\ UNCHANGED <<running, admin, stops, now, tracker, stamp, admitted,
                   dispatchVars>>

-----------------------------------------------------------------------------
(* A dispatcher thread.                                                    *)

CheckRunning(d) ==
    /\ thread[d] = "top"
    /\ thread' = [thread EXCEPT ![d] = IF running THEN "get" ELSE "dead"]
    /\ UNCHANGED <<running, queue, admin, stops, now, sendVars, holds,
                   left, delivered>>

GetNothing(d) ==
    /\ thread[d] = "get" /\ queue = <<>>
    /\ thread' = [thread EXCEPT ![d] = "top"]
    /\ UNCHANGED <<running, queue, admin, stops, now, sendVars, holds,
                   left, delivered>>

\* What get leaves in the queue.
AfterGetPeek(q) == q
AfterGet(q) == Tail(q)

GetSentinel(d) ==
    /\ thread[d] = "get" /\ queue # <<>> /\ Head(queue) = Sentinel
    /\ queue' = AfterGet(queue)
    /\ thread' = [thread EXCEPT ![d] = "dead"]
    /\ UNCHANGED <<running, admin, stops, now, sendVars, holds, left,
                   delivered>>

\* An alert is taken; some of its channels, perhaps none, have a handler.
GetAlert(d) ==
    /\ thread[d] = "get" /\ queue # <<>> /\ Head(queue) # Sentinel
    /\ queue' = AfterGet(queue)
    /\ holds' = [holds EXCEPT ![d] = Head(queue)]
    /\ \E n \in 0..MaxChannels : left' = [left EXCEPT ![d] = n]
    /\ thread' = [thread EXCEPT ![d] = "delivering"]
    /\ UNCHANGED <<running, admin, stops, now, sendVars, delivered>>

\* One channel is tried: its handler succeeds, reports a failure or raises, all
\* to the same effect.
TryChannel(d) ==
    /\ thread[d] = "delivering" /\ left[d] > 0
    /\ left' = [left EXCEPT ![d] = @ - 1]
    /\ UNCHANGED <<running, queue, admin, stops, now, sendVars, thread, holds,
                   delivered>>

FinishDelivery(d) ==
    /\ thread[d] = "delivering" /\ left[d] = 0
    /\ delivered' = [delivered EXCEPT ![holds[d]] = TRUE]
    /\ holds' = [holds EXCEPT ![d] = NoAlert]
    /\ thread' = [thread EXCEPT ![d] = "top"]
    /\ UNCHANGED <<running, queue, admin, stops, now, sendVars, left>>

Dispatch(d) == \/ CheckRunning(d) \/ GetNothing(d) \/ GetSentinel(d)
               \/ GetAlert(d) \/ TryChannel(d) \/ FinishDelivery(d)

Next == \/ Tick \/ Stop \/ PutSentinel \/ Join
        \/ \E a \in Alerts : ReadClock(a) \/ Admit(a) \/ Enqueue(a)
        \/ \E d \in Dispatchers : Start(d) \/ Dispatch(d)

Spec == Init /\ [][Next]_vars

-----------------------------------------------------------------------------
(* Properties.                                                             *)

\* In any window a source is admitted RateLimit times, and once more for each
\* sender that read the clock before another one was admitted with a later
\* stamp: senders that do not overlap get exactly the limit.
RateBound ==
    \A s \in Sources : \A t \in 0..MaxTime :
        LET stamps == admitted[s]
            inWindow == {i \in DOMAIN stamps : stamps[i] \in (t - Window + 1)..t}
            overtaken == {i \in inWindow :
                             \E j \in 1..(i - 1) : stamps[j] > stamps[i]}
        IN Cardinality(inWindow) <= RateLimit + Cardinality(overtaken)

\* No alert is lost or delivered twice, whatever stops, leftover sentinels and
\* surviving dispatchers do: an enqueued one waits, or is with one dispatcher, or
\* is delivered; nothing else is in the queue or in a dispatcher's hands.
AlertInOnePlace ==
    \A a \in Alerts :
        LET waiting == {i \in DOMAIN queue : queue[i] = a}
            owners == {d \in Dispatchers : holds[d] = a}
        IN Cardinality(waiting) + Cardinality(owners)
               + (IF delivered[a] THEN 1 ELSE 0)
           = (IF sender[a] = "queued" THEN 1 ELSE 0)

=============================================================================
