------------------------- MODULE AlertGateway_proofs -------------------------
(***************************************************************************)
(* No alert is lost or delivered twice, and no source is admitted more     *)
(* often than the limit and its overtaken senders allow, for any number of *)
(* senders, dispatchers, stops and leftover sentinels.                     *)
(***************************************************************************)
EXTENDS AlertGateway, SetSums, TLAPS

Waits(q, a) == \E i \in DOMAIN q : q[i] = a
Held(a) == \E d \in Dispatchers : holds[d] = a

\* No alert is in q twice.
Once(q) == \A i, j \in DOMAIN q : q[i] = q[j] /\ q[i] # Sentinel => i = j

QueueInv == queue \in Seq(Alerts \cup {Sentinel}) /\ Once(queue)

\* A dispatcher has an alert in its hands exactly while it delivers, and alone.
HandsInv ==
  /\ thread \in [Dispatchers -> {"unborn", "top", "get", "delivering", "dead"}]
  /\ holds \in [Dispatchers -> Alerts \cup {NoAlert}]
  /\ \A d \in Dispatchers : thread[d] = "delivering" <=> holds[d] # NoAlert
  /\ \A d, e \in Dispatchers : holds[d] = holds[e] /\ holds[d] # NoAlert => d = e

\* An alert is in one of three places if its sender put it, and else in none.
PlaceInv ==
  /\ DOMAIN sender = Alerts /\ delivered \in [Alerts -> BOOLEAN]
  /\ \A a \in Alerts :
       /\ sender[a] = "queued" <=> Waits(queue, a) \/ Held(a) \/ delivered[a]
       /\ Waits(queue, a) => ~Held(a) /\ ~delivered[a]
       /\ Held(a) => ~delivered[a]

GatewayInv == QueueInv /\ HandsInv /\ PlaceInv

-----------------------------------------------------------------------------
(* Lemmas about queues.                                                    *)

\* A put adds its element at the end; it repeats nothing unless it was there.
LEMMA PutIn ==
  ASSUME NEW S, NEW q \in Seq(S), NEW e \in S, Once(q), e = Sentinel \/ ~Waits(q, e)
  PROVE  /\ Append(q, e) \in Seq(S) /\ Once(Append(q, e))
         /\ \A a : Waits(Append(q, e), a) <=> (a = e \/ Waits(q, a))
<1>1. /\ Append(q, e) \in Seq(S)
      /\ DOMAIN Append(q, e) = 1..(Len(q) + 1)
      /\ Append(q, e)[Len(q) + 1] = e
      /\ \A i \in 1..Len(q) : Append(q, e)[i] = q[i]
      /\ Len(q) \in Nat /\ DOMAIN q = 1..Len(q)
  OBVIOUS
<1>2. \A i \in 1..(Len(q) + 1) : i = Len(q) + 1 \/ i \in DOMAIN q
  BY <1>1
<1>3. Once(Append(q, e))
  BY <1>1, <1>2 DEF Once, Waits
<1>4. \A a : Waits(Append(q, e), a) <=> (a = e \/ Waits(q, a))
  <2>1. Waits(Append(q, e), e)
    BY <1>1 DEF Waits
  <2>2. \A a : Waits(q, a) => Waits(Append(q, e), a)
    BY <1>1 DEF Waits
  <2>3. \A a : Waits(Append(q, e), a) => (a = e \/ Waits(q, a))
    BY <1>1, <1>2 DEF Waits
  <2>4. QED BY <2>1, <2>2, <2>3
<1>5. QED BY <1>1, <1>3, <1>4

\* A get takes the only occurrence of the alert at the head.
LEMMA GetOut ==
  ASSUME NEW S, NEW q \in Seq(S), q # <<>>, Once(q)
  PROVE  /\ Head(q) \in S /\ Tail(q) \in Seq(S) /\ Once(Tail(q))
         /\ Waits(q, Head(q)) /\ (Head(q) # Sentinel => ~Waits(Tail(q), Head(q)))
         /\ \A a : a # Head(q) => (Waits(Tail(q), a) <=> Waits(q, a))
<1>1. /\ Len(q) \in Nat \ {0} /\ DOMAIN q = 1..Len(q)
      /\ Head(q) = q[1] /\ Head(q) \in S /\ Tail(q) \in Seq(S)
      /\ DOMAIN Tail(q) = 1..(Len(q) - 1)
      /\ \A i \in 1..(Len(q) - 1) : Tail(q)[i] = q[i + 1]
  OBVIOUS
<1>2. \A i \in 1..(Len(q) - 1) : i + 1 \in DOMAIN q /\ i + 1 # 1
  BY <1>1
<1>3. \A i \in DOMAIN q : i # 1 => i - 1 \in DOMAIN Tail(q) /\ Tail(q)[i - 1] = q[i]
  BY <1>1
<1>4. Waits(q, Head(q))
  BY <1>1 DEF Waits
<1>5. Once(Tail(q)) /\ (Head(q) # Sentinel => ~Waits(Tail(q), Head(q)))
  BY <1>1, <1>2 DEF Once, Waits
<1>6. \A a : Waits(Tail(q), a) => Waits(q, a)
  BY <1>1, <1>2 DEF Waits
<1>7. \A a : a # Head(q) /\ Waits(q, a) => Waits(Tail(q), a)
  BY <1>1, <1>3 DEF Waits
<1>8. QED BY <1>1, <1>4, <1>5, <1>6, <1>7

-----------------------------------------------------------------------------
(* The invariant is kept by every step.                                    *)

LEMMA GatewayInit == Init => GatewayInv
<1> SUFFICES ASSUME Init PROVE GatewayInv
  OBVIOUS
<1>1. QueueInv
  BY DEF Init, QueueInv, Once
<1>2. HandsInv
  BY DEF Init, HandsInv
<1>3. PlaceInv
  BY MarkAssumption DEF Init, PlaceInv, Waits, Held
<1>4. QED BY <1>1, <1>2, <1>3 DEF GatewayInv

\* Steps that leave queue, hands and verdicts alone: of senders, before they put.
LEMMA SenderKeeps ==
  ASSUME GatewayInv, NEW a \in Alerts, ReadClock(a) \/ Admit(a) PROVE GatewayInv'
<1>1. UNCHANGED <<queue, thread, holds, delivered>>
  BY DEF ReadClock, Admit, dispatchVars
<1>2. sender[a] # "queued" /\ sender'[a] # "queued"
  BY DEF ReadClock, Admit, GatewayInv, PlaceInv
<1>3. DOMAIN sender' = Alerts /\ \A b \in Alerts \ {a} : sender'[b] = sender[b]
  BY DEF ReadClock, Admit, GatewayInv, PlaceInv
<1>4. PlaceInv'
  BY <1>1, <1>2, <1>3 DEF GatewayInv, PlaceInv, Held
<1>5. QED BY <1>1, <1>4 DEF GatewayInv, QueueInv, HandsInv

LEMMA EnqueueKeeps == ASSUME GatewayInv, NEW a \in Alerts, Enqueue(a) PROVE GatewayInv'
<1>1. /\ sender[a] = "admitted" /\ queue' = Append(queue, a)
      /\ sender' = [sender EXCEPT ![a] = "queued"]
      /\ UNCHANGED <<thread, holds, delivered>>
  BY DEF Enqueue, dispatchVars
<1>2. ~Waits(queue, a) /\ ~Held(a) /\ ~delivered[a]
  BY <1>1 DEF GatewayInv, PlaceInv
<1>3. QueueInv' /\ \A b : Waits(queue', b) <=> (b = a \/ Waits(queue, b))
  BY <1>1, <1>2, PutIn DEF GatewayInv, QueueInv
<1>4. PlaceInv'
  BY <1>1, <1>2, <1>3 DEF GatewayInv, PlaceInv, Held
<1>5. QED BY <1>1, <1>3, <1>4 DEF GatewayInv, HandsInv

LEMMA PutSentinelKeeps == ASSUME GatewayInv, PutSentinel PROVE GatewayInv'
<1>1. /\ queue' = Append(queue, Sentinel)
      /\ UNCHANGED <<sender, thread, holds, delivered>>
  BY DEF PutSentinel, dispatchVars, sendVars
<1>2. QueueInv' /\ \A b \in Alerts : Waits(queue', b) <=> Waits(queue, b)
  BY <1>1, PutIn, MarkAssumption DEF GatewayInv, QueueInv
<1>3. QED BY <1>1, <1>2 DEF GatewayInv, HandsInv, PlaceInv, Held

\* Steps of threads that neither take nor give an alert.
LEMMA IdleKeeps ==
  ASSUME GatewayInv, NEW d \in Dispatchers,
         Start(d) \/ CheckRunning(d) \/ GetNothing(d) \/ TryChannel(d)
  PROVE  GatewayInv'
<1>1. UNCHANGED <<queue, sender, holds, delivered>>
  BY DEF Start, CheckRunning, GetNothing, TryChannel, sendVars
<1>2. HandsInv'
  BY <1>1 DEF GatewayInv, HandsInv, Start, CheckRunning, GetNothing, TryChannel
<1>3. QED BY <1>1, <1>2 DEF GatewayInv, QueueInv, PlaceInv, Held

LEMMA GetSentinelKeeps ==
  ASSUME GatewayInv, NEW d \in Dispatchers, GetSentinel(d) PROVE GatewayInv'
<1>1. /\ thread[d] = "get" /\ queue # <<>> /\ Head(queue) = Sentinel
      /\ queue' = Tail(queue) /\ thread' = [thread EXCEPT ![d] = "dead"]
      /\ UNCHANGED <<sender, holds, delivered>>
  BY DEF GetSentinel, AfterGet, sendVars
<1>2. QueueInv' /\ \A b \in Alerts : Waits(queue', b) <=> Waits(queue, b)
  BY <1>1, GetOut, MarkAssumption DEF GatewayInv, QueueInv
<1>3. HandsInv'
  BY <1>1 DEF GatewayInv, HandsInv
<1>4. QED BY <1>1, <1>2, <1>3 DEF GatewayInv, PlaceInv, Held

LEMMA GetAlertKeeps ==
  ASSUME GatewayInv, NEW d \in Dispatchers, GetAlert(d) PROVE GatewayInv'
<1>1. /\ thread[d] = "get" /\ queue # <<>> /\ Head(queue) # Sentinel
      /\ queue' = Tail(queue) /\ holds' = [holds EXCEPT ![d] = Head(queue)]
      /\ thread' = [thread EXCEPT ![d] = "delivering"]
      /\ UNCHANGED <<sender, delivered>>
  BY DEF GetAlert, AfterGet, sendVars
<1>2. QueueInv' /\ Head(queue) \in Alerts
  BY <1>1, GetOut DEF GatewayInv, QueueInv
<1>3. PICK a \in Alerts : a = Head(queue)
  BY <1>2
<1>4. /\ Waits(queue, a) /\ ~Waits(queue', a)
      /\ \A b \in Alerts \ {a} : Waits(queue', b) <=> Waits(queue, b)
  BY <1>1, <1>3, GetOut DEF GatewayInv, QueueInv
<1>5. /\ a # NoAlert /\ holds[d] = NoAlert /\ ~Held(a) /\ ~delivered[a]
      /\ sender[a] = "queued"
  BY <1>1, <1>4, MarkAssumption DEF GatewayInv, HandsInv, PlaceInv
<1>6. holds'[d] = a /\ \A e \in Dispatchers \ {d} : holds'[e] = holds[e]
  BY <1>1, <1>3 DEF GatewayInv, HandsInv
<1>7. HandsInv'
  <2>1. \A e \in Dispatchers : holds[e] # a
    BY <1>5 DEF Held
  <2>2. QED BY <1>1, <1>3, <1>5, <2>1 DEF GatewayInv, HandsInv
<1>8. Held(a)'
  BY <1>6 DEF Held
<1>9. \A b \in Alerts \ {a} : Held(b)' <=> Held(b)
  <2> SUFFICES ASSUME NEW b \in Alerts \ {a} PROVE Held(b)' <=> Held(b)
    OBVIOUS
  <2>1. b # NoAlert
    BY MarkAssumption
  <2>2. \A e \in Dispatchers : holds'[e] = b <=> holds[e] = b
    BY <1>5, <1>6, <2>1
  <2>3. QED BY <2>2 DEF Held
<1>10. PlaceInv'
  BY <1>1, <1>4, <1>5, <1>8, <1>9 DEF GatewayInv, PlaceInv
<1>11. QED BY <1>2, <1>7, <1>10 DEF GatewayInv

LEMMA FinishDeliveryKeeps ==
  ASSUME GatewayInv, NEW d \in Dispatchers, FinishDelivery(d) PROVE GatewayInv'
<1>1. /\ thread[d] = "delivering" /\ delivered' = [delivered EXCEPT ![holds[d]] = TRUE]
      /\ holds' = [holds EXCEPT ![d] = NoAlert] /\ thread' = [thread EXCEPT ![d] = "top"]
      /\ UNCHANGED <<queue, sender>>
  BY DEF FinishDelivery, sendVars
<1>2. PICK a \in Alerts : a = holds[d]
  BY <1>1 DEF GatewayInv, HandsInv
<1>3. a # NoAlert /\ \A e \in Dispatchers \ {d} : holds[e] # a
  BY <1>1, <1>2 DEF GatewayInv, HandsInv
<1>4. ~Waits(queue, a) /\ sender[a] = "queued"
  BY <1>2 DEF GatewayInv, PlaceInv, Held
<1>5. holds'[d] = NoAlert /\ \A e \in Dispatchers \ {d} : holds'[e] = holds[e]
  BY <1>1 DEF GatewayInv, HandsInv
<1>6. HandsInv'
  BY <1>1, <1>3 DEF GatewayInv, HandsInv
<1>7. ~Held(a)'
  BY <1>3, <1>5 DEF Held
<1>8. \A b \in Alerts \ {a} : Held(b)' <=> Held(b)
  <2> SUFFICES ASSUME NEW b \in Alerts \ {a} PROVE Held(b)' <=> Held(b)
    OBVIOUS
  <2>1. b # NoAlert
    BY MarkAssumption
  <2>2. \A e \in Dispatchers : holds'[e] = b <=> holds[e] = b
    BY <1>2, <1>5, <2>1
  <2>3. QED BY <2>2 DEF Held
<1>9. /\ delivered' \in [Alerts -> BOOLEAN] /\ delivered'[a]
      /\ \A b \in Alerts \ {a} : delivered'[b] = delivered[b]
  BY <1>1, <1>2 DEF GatewayInv, PlaceInv
<1>10. PlaceInv'
  BY <1>1, <1>4, <1>7, <1>8, <1>9 DEF GatewayInv, PlaceInv
<1>11. QED BY <1>1, <1>6, <1>10 DEF GatewayInv, QueueInv

LEMMA GatewayStep == GatewayInv /\ [Next]_vars => GatewayInv'
<1> SUFFICES ASSUME GatewayInv, [Next]_vars PROVE GatewayInv'
  OBVIOUS
<1>1. CASE Tick \/ Stop \/ Join \/ UNCHANGED vars
  <2>1. UNCHANGED <<queue, sender, thread, holds, delivered>>
    BY <1>1 DEF Tick, Stop, Join, vars, sendVars, dispatchVars
  <2>2. QED BY <2>1 DEF GatewayInv, QueueInv, HandsInv, PlaceInv, Held
<1>2. QED
  BY <1>1, SenderKeeps, EnqueueKeeps, PutSentinelKeeps, IdleKeeps, GetSentinelKeeps,
     GetAlertKeeps, FinishDeliveryKeeps DEF Next, Dispatch

\* dispatcher.py 127-196: an alert that was put waits, is with one dispatcher or is
\* delivered, never two of these, whatever starts, stops, sentinels and survivors do.
THEOREM AlertInOnePlaceHolds == Spec => []AlertInOnePlace
<1>1. GatewayInv => AlertInOnePlace
  <2> SUFFICES ASSUME GatewayInv, NEW a \in Alerts
               PROVE  Cardinality({i \in DOMAIN queue : queue[i] = a})
                        + Cardinality({d \in Dispatchers : holds[d] = a})
                        + (IF delivered[a] THEN 1 ELSE 0)
                      = (IF sender[a] = "queued" THEN 1 ELSE 0)
    BY DEF AlertInOnePlace
  <2> DEFINE places == {i \in DOMAIN queue : queue[i] = a}
             owners == {d \in Dispatchers : holds[d] = a}
  <2>1. Cardinality(places) = IF Waits(queue, a) THEN 1 ELSE 0
    <3>1. CASE Waits(queue, a)
      <4>1. PICK i \in DOMAIN queue : queue[i] = a
        BY <3>1 DEF Waits
      <4>2. places = {i}
        BY <4>1, MarkAssumption DEF GatewayInv, QueueInv, Once
      <4>3. QED BY <3>1, <4>2, FS_Singleton
    <3>2. CASE ~Waits(queue, a)
      <4>1. places = {}
        BY <3>2 DEF Waits
      <4>2. QED BY <3>2, <4>1, FS_EmptySet
    <3>3. QED BY <3>1, <3>2
  <2>2. Cardinality(owners) = IF Held(a) THEN 1 ELSE 0
    <3>1. CASE Held(a)
      <4>1. PICK d \in Dispatchers : holds[d] = a
        BY <3>1 DEF Held
      <4>2. owners = {d}
        BY <4>1, MarkAssumption DEF GatewayInv, HandsInv
      <4>3. QED BY <3>1, <4>2, FS_Singleton
    <3>2. CASE ~Held(a)
      <4>1. owners = {}
        BY <3>2 DEF Held
      <4>2. QED BY <3>2, <4>1, FS_EmptySet
    <3>3. QED BY <3>1, <3>2
  <2> HIDE DEF places, owners
  <2>3. /\ sender[a] = "queued" <=> Waits(queue, a) \/ Held(a) \/ delivered[a]
        /\ Waits(queue, a) => ~Held(a) /\ ~delivered[a]
        /\ Held(a) => ~delivered[a]
    BY DEF GatewayInv, PlaceInv
  <2>4. Cardinality(places) + Cardinality(owners) + (IF delivered[a] THEN 1 ELSE 0)
          = (IF sender[a] = "queued" THEN 1 ELSE 0)
    BY <2>1, <2>2, <2>3
  <2>5. QED BY <2>4 DEF places, owners
<1>2. QED BY <1>1, GatewayInit, GatewayStep, PTL DEF Spec

-----------------------------------------------------------------------------
(***************************************************************************)
(* The rate limit.  A sender that read the clock late prunes the list for  *)
(* one that read it early, so the list may lack a stamp that still counts; *)
(* then it already holds enough younger ones to refuse.                    *)
(***************************************************************************)

\* Some clock reading no earlier than every stamp s was admitted with.
Reached(s, u) == \A i \in DOMAIN admitted[s] : admitted[s][i] <= u

\* The stamps of s less than a window before u.
Counting(s, u) == {i \in DOMAIN admitted[s] : u - admitted[s][i] < Window}

\* The list holds all that count, or enough of them to refuse.
ListServes(s) ==
  \A u \in Nat : Reached(s, u) => Counting(s, u) \subseteq tracker[s] \/ Full(Fresh(s, u))

\* A stamp with none later before it found fewer than the limit counting.
InOrderHadRoom(s) ==
  \A i \in DOMAIN admitted[s] :
     (\A j \in 1..(i - 1) : admitted[s][j] <= admitted[s][i])
       => Cardinality({j \in 1..(i - 1) : admitted[s][i] - admitted[s][j] < Window}) < RateLimit

StampTypes == /\ now \in Nat /\ stamp \in [Alerts -> Nat]
              /\ admitted \in [Sources -> Seq(Nat)] /\ DOMAIN tracker = Sources
              /\ \A s \in Sources : tracker[s] \subseteq DOMAIN admitted[s]

RateInv == StampTypes /\ \A s \in Sources : ListServes(s) /\ InOrderHadRoom(s)

LEMMA RateInit == Init => RateInv
BY DEF Init, RateInv, StampTypes, ListServes, InOrderHadRoom, Counting

\* A refusal only prunes, and what it leaves is enough to refuse.
LEMMA RefusalKeeps ==
  ASSUME RateInv, NEW a \in Alerts, Admit(a), Full(Fresh(SourceOf[a], stamp[a]))
  PROVE  RateInv'
<1> DEFINE s == SourceOf[a]
           v == stamp[a]
<1>1. /\ s \in Sources /\ v \in Nat /\ Window \in Nat /\ RateLimit \in Nat
      /\ admitted[s] \in Seq(Nat) /\ tracker[s] \subseteq DOMAIN admitted[s]
  BY GatewayAssumption DEF RateInv, StampTypes, Sources
<1>2. /\ UNCHANGED <<admitted, now>> /\ stamp' \in [Alerts -> Nat] /\ DOMAIN tracker' = Sources
      /\ tracker'[s] = Fresh(s, v) /\ \A x \in Sources \ {s} : tracker'[x] = tracker[x]
  BY <1>1 DEF Admit, RateInv, StampTypes
<1>3. Fresh(s, v) \subseteq tracker[s]
  BY DEF Fresh
<1>4. StampTypes'
  BY <1>1, <1>2, <1>3 DEF RateInv, StampTypes
<1>5. \A x \in Sources : InOrderHadRoom(x)'
  BY <1>2 DEF RateInv, InOrderHadRoom
<1>6. \A x \in Sources \ {s} : ListServes(x)'
  BY <1>2 DEF RateInv, ListServes, Reached, Counting, Fresh
<1>7. ASSUME NEW u \in Nat, Reached(s, u)'
      PROVE  Counting(s, u)' \subseteq tracker'[s] \/ Full(Fresh(s, u)')
  <2>1. Reached(s, u) /\ Counting(s, u)' = Counting(s, u)
    BY <1>2, <1>7 DEF Reached, Counting
  <2>2. \A i \in DOMAIN admitted[s] : admitted[s][i] \in Nat
    BY <1>1
  <2>3. CASE u < v
    <3>1. \A i \in Fresh(s, v) : u - admitted[s][i] < Window
      BY <1>1, <2>2, <2>3 DEF Fresh
    <3>2. Fresh(s, u)' = Fresh(s, v)
      BY <1>2, <3>1 DEF Fresh
    <3>3. QED BY <3>2
  <2>4. CASE u >= v
    <3>1. \A i \in DOMAIN admitted[s] : u - admitted[s][i] < Window => v - admitted[s][i] < Window
      BY <1>1, <2>2, <2>4
    <3>2. Fresh(s, u)' = Fresh(s, u)
      BY <1>1, <1>2, <3>1 DEF Fresh
    <3>3. CASE Counting(s, u) \subseteq tracker[s]
      BY <1>2, <2>1, <3>1, <3>3 DEF Counting, Fresh
    <3>4. CASE Full(Fresh(s, u))
      BY <3>2, <3>4
    <3>5. QED BY <1>1, <2>1, <3>3, <3>4 DEF RateInv, ListServes
  <2>5. QED BY <1>1, <2>3, <2>4
<1>8. ListServes(s)'
  BY <1>7 DEF ListServes
<1>9. QED BY <1>4, <1>5, <1>6, <1>8 DEF RateInv

\* An admission adds its stamp, and finds all that count when it is in order.
LEMMA AdmissionKeeps ==
  ASSUME RateInv, NEW a \in Alerts, Admit(a), ~Full(Fresh(SourceOf[a], stamp[a]))
  PROVE  RateInv'
<1> DEFINE s == SourceOf[a]
           v == stamp[a]
           A == admitted[s]
           k == Len(A) + 1
<1>1. /\ s \in Sources /\ v \in Nat /\ Window \in Nat \ {0} /\ RateLimit \in Nat
      /\ A \in Seq(Nat) /\ tracker[s] \subseteq DOMAIN A
  BY GatewayAssumption DEF RateInv, StampTypes, Sources
<1>2. /\ admitted' = [admitted EXCEPT ![s] = Append(A, v)]
      /\ tracker' = [tracker EXCEPT ![s] = Fresh(s, v) \cup {k}]
      /\ now' = now /\ stamp' = [stamp EXCEPT ![a] = 0]
  BY DEF Admit
<1>3. /\ admitted'[s] = Append(A, v) /\ admitted' \in [Sources -> Seq(Nat)]
      /\ stamp' \in [Alerts -> Nat] /\ now' \in Nat /\ DOMAIN tracker' = Sources
      /\ tracker'[s] = Fresh(s, v) \cup {k}
      /\ \A x \in Sources \ {s} : tracker'[x] = tracker[x] /\ admitted'[x] = admitted[x]
  BY <1>1, <1>2 DEF RateInv, StampTypes
<1>4. /\ Len(A) \in Nat /\ DOMAIN A = 1..Len(A) /\ DOMAIN admitted'[s] = 1..k
      /\ admitted'[s][k] = v /\ \A i \in 1..Len(A) : admitted'[s][i] = A[i] /\ A[i] \in Nat
  <2> DEFINE B == Append(A, v)
  <2>1. /\ Len(A) \in Nat /\ DOMAIN A = 1..Len(A) /\ DOMAIN B = 1..k
        /\ B[k] = v /\ \A i \in 1..Len(A) : B[i] = A[i] /\ A[i] \in Nat
    <3> HIDE DEF A, v
    <3>1. QED BY <1>1
  <2>2. admitted'[s] = B
    BY <1>3
  <2> HIDE DEF B
  <2>3. QED BY <2>1, <2>2
<1>5. Fresh(s, v) \subseteq tracker[s] /\ Fresh(s, v) \in SUBSET (1..Len(A)) /\ Len(A) \in Int
  BY <1>1, <1>4 DEF Fresh
<1>6. StampTypes'
  <2>1. tracker'[s] \subseteq DOMAIN admitted'[s]
    BY <1>3, <1>4, <1>5
  <2>2. \A x \in Sources \ {s} : tracker'[x] \subseteq DOMAIN admitted'[x]
    BY <1>3 DEF RateInv, StampTypes
  <2>3. QED BY <1>3, <2>1, <2>2 DEF StampTypes
<1>7. \A x \in Sources \ {s} : ListServes(x)' /\ InOrderHadRoom(x)'
  <2> SUFFICES ASSUME NEW x \in Sources \ {s} PROVE ListServes(x)' /\ InOrderHadRoom(x)'
    OBVIOUS
  <2>1. tracker'[x] = tracker[x] /\ admitted'[x] = admitted[x] /\ ListServes(x) /\ InOrderHadRoom(x)
    BY <1>3 DEF RateInv
  <2>2. InOrderHadRoom(x)'
    BY <2>1 DEF InOrderHadRoom
  <2>3. \A u : /\ Reached(x, u)' <=> Reached(x, u)
               /\ Counting(x, u)' = Counting(x, u) /\ Fresh(x, u)' = Fresh(x, u)
    BY <2>1 DEF Reached, Counting, Fresh
  <2>4. QED BY <2>1, <2>2, <2>3 DEF ListServes, Full
<1>8. ASSUME NEW u \in Nat, Reached(s, u)'
      PROVE  Counting(s, u)' \subseteq tracker'[s] \/ Full(Fresh(s, u)')
  <2>1. v <= u /\ Reached(s, u)
    <3>1. \A i \in 1..k : admitted'[s][i] <= u
      BY <1>4, <1>8 DEF Reached
    <3>2. k \in 1..k /\ \A i \in 1..Len(A) : i \in 1..k
      BY <1>4
    <3>3. v <= u /\ \A i \in DOMAIN A : A[i] <= u
      BY <1>4, <3>1, <3>2
    <3>4. QED BY <3>3 DEF Reached
  <2>2. \A i \in 1..Len(A) : u - A[i] < Window => v - A[i] < Window
    <3>1. \A x, y, z, n \in Int : y <= x /\ x - z < n => y - z < n
      OBVIOUS
    <3>2. u \in Int /\ v \in Int /\ Window \in Int /\ \A i \in 1..Len(A) : A[i] \in Int
      BY <1>1, <1>4
    <3>3. QED BY ONLY <2>1, <3>1, <3>2
  <2>3. \A i \in Counting(s, u)' : i = k \/ i \in Counting(s, u)
    <3> SUFFICES ASSUME NEW i \in 1..k, u - admitted'[s][i] < Window, i # k
                 PROVE  i \in Counting(s, u)
      BY <1>4 DEF Counting
    <3>1. i \in 1..Len(A)
      BY <1>4
    <3>2. QED BY <1>4, <3>1 DEF Counting
  <2>4. CASE Counting(s, u) \subseteq tracker[s]
    <3>1. Counting(s, u) \subseteq Fresh(s, v)
      BY <1>4, <2>2, <2>4 DEF Counting, Fresh
    <3>2. QED BY <1>3, <2>3, <3>1
  <2>5. CASE Full(Fresh(s, u))
    <3>1. Fresh(s, u) \subseteq Fresh(s, v)
      BY <1>1, <1>4, <2>2 DEF Fresh
    <3>2. IsFiniteSet(Fresh(s, v)) /\ IsFiniteSet(Fresh(s, u))
      BY <1>4, <1>5, <3>1, FinitePart
    <3>3. Cardinality(Fresh(s, u)) <= Cardinality(Fresh(s, v)) /\ Cardinality(Fresh(s, v)) \in Nat
          /\ Cardinality(Fresh(s, u)) \in Nat
      BY <3>1, <3>2, FiniteSize
    <3>4. FALSE
      BY <1>1, <2>5, <3>3 DEF Full
    <3>5. QED BY <3>4
  <2>6. QED BY <1>1, <2>1, <2>4, <2>5 DEF RateInv, ListServes
<1>9. ASSUME NEW i \in 1..k, \A j \in 1..(i - 1) : admitted'[s][j] <= admitted'[s][i]
      PROVE  Cardinality({j \in 1..(i - 1) : admitted'[s][i] - admitted'[s][j] < Window}) < RateLimit
  <2>1. CASE i = k
    <3>1. Reached(s, v)
      BY <1>4, <1>9, <2>1 DEF Reached
    <3>2. Counting(s, v) \subseteq Fresh(s, v)
      BY <1>1, <3>1 DEF RateInv, ListServes, Counting, Fresh
    <3>3. {j \in 1..(i - 1) : admitted'[s][i] - admitted'[s][j] < Window} = Counting(s, v)
      BY <1>4, <2>1 DEF Counting
    <3>4. IsFiniteSet(Fresh(s, v)) /\ Cardinality(Fresh(s, v)) \in Nat
      BY <1>4, <1>5, FinitePart
    <3>5. Cardinality(Counting(s, v)) <= Cardinality(Fresh(s, v)) /\ Cardinality(Counting(s, v)) \in Nat
      BY <3>2, <3>4, FiniteSize
    <3>6. Cardinality(Fresh(s, v)) < RateLimit
      BY <1>1, <3>4 DEF Full
    <3>7. Cardinality(Counting(s, v)) < RateLimit
      BY <1>1, <3>4, <3>5, <3>6
    <3>8. QED BY <3>3, <3>7
  <2>2. CASE i # k
    <3>1. i \in DOMAIN A /\ \A j \in 1..i : admitted'[s][j] = A[j]
      BY <1>4, <2>2
    <3>2. \A j \in 1..(i - 1) : A[j] <= A[i]
      <4>1. i \in 1..i /\ \A j \in 1..(i - 1) : j \in 1..i
        BY <1>4
      <4>2. admitted'[s][i] = A[i] /\ \A j \in 1..(i - 1) : admitted'[s][j] = A[j]
        BY <3>1, <4>1
      <4>3. QED BY <1>9, <4>2
    <3>3. Cardinality({j \in 1..(i - 1) : A[i] - A[j] < Window}) < RateLimit
      BY <1>1, <3>1, <3>2 DEF RateInv, InOrderHadRoom
    <3>4. {j \in 1..(i - 1) : admitted'[s][i] - admitted'[s][j] < Window}
            = {j \in 1..(i - 1) : A[i] - A[j] < Window}
      <4>1. i \in 1..i /\ \A j \in 1..(i - 1) : j \in 1..i
        BY <1>4
      <4>2. admitted'[s][i] = A[i] /\ \A j \in 1..(i - 1) : admitted'[s][j] = A[j]
        BY ONLY <3>1, <4>1
      <4>3. QED BY ONLY <4>2
    <3>5. QED BY <3>3, <3>4
  <2>3. QED BY <2>1, <2>2
<1>10. ListServes(s)' /\ InOrderHadRoom(s)'
  BY <1>4, <1>8, <1>9 DEF ListServes, InOrderHadRoom
<1>11. QED BY <1>6, <1>7, <1>10 DEF RateInv

LEMMA RateStep == RateInv /\ [Next]_vars => RateInv'
<1> SUFFICES ASSUME RateInv, [Next]_vars PROVE RateInv'
  OBVIOUS
<1>0. ASSUME UNCHANGED <<admitted, tracker>>
      PROVE  \A s \in Sources : ListServes(s)' /\ InOrderHadRoom(s)'
  <2> SUFFICES ASSUME NEW s \in Sources PROVE ListServes(s)' /\ InOrderHadRoom(s)'
    OBVIOUS
  <2>1. ListServes(s) /\ InOrderHadRoom(s)
    BY DEF RateInv
  <2>2. InOrderHadRoom(s)'
    BY <1>0, <2>1 DEF InOrderHadRoom
  <2>3. \A u : /\ Reached(s, u)' <=> Reached(s, u)
               /\ Counting(s, u)' = Counting(s, u) /\ Fresh(s, u)' = Fresh(s, u)
    BY <1>0 DEF Reached, Counting, Fresh
  <2>4. QED BY <1>0, <2>1, <2>2, <2>3 DEF ListServes, Full
<1>1. CASE \E a \in Alerts : Admit(a)
  BY <1>1, RefusalKeeps, AdmissionKeeps
<1>2. CASE Tick \/ \E a \in Alerts : ReadClock(a)
  <2>1. UNCHANGED <<admitted, tracker>> /\ now' \in Nat /\ stamp' \in [Alerts -> Nat]
    BY <1>2 DEF Tick, ReadClock, RateInv, StampTypes, sendVars
  <2>2. StampTypes'
    BY <2>1 DEF RateInv, StampTypes
  <2>3. QED BY <1>0, <2>1, <2>2 DEF RateInv
<1>3. CASE UNCHANGED <<admitted, tracker, now, stamp>>
  <2>1. StampTypes'
    BY <1>3 DEF RateInv, StampTypes
  <2>2. QED BY <1>0, <1>3, <2>1 DEF RateInv
<1>4. CASE Stop \/ PutSentinel \/ Join \/ (\E a \in Alerts : Enqueue(a))
           \/ (\E d \in Dispatchers : Start(d) \/ Dispatch(d)) \/ UNCHANGED vars
  <2>1. UNCHANGED <<admitted, tracker, now, stamp>>
    BY <1>4 DEF Stop, PutSentinel, Join, Enqueue, Start, Dispatch, CheckRunning, GetNothing,
                GetSentinel, GetAlert, TryChannel, FinishDelivery, sendVars, vars
  <2>2. QED BY <1>3, <2>1
<1>5. QED BY <1>1, <1>2, <1>4 DEF Next

\* dispatcher.py 156-166: of the stamps a source was admitted with, a window holds the
\* limit, and those that were overtaken between the clock and the lock.
THEOREM RateBoundHolds == Spec => []RateBound
<1>1. RateInv => RateBound
  <2> SUFFICES ASSUME RateInv, NEW s \in Sources, NEW t \in 0..MaxTime
               PROVE  LET stamps == admitted[s]
                          inWindow == {i \in DOMAIN stamps : stamps[i] \in (t - Window + 1)..t}
                          overtaken == {i \in inWindow : \E j \in 1..(i - 1) : stamps[j] > stamps[i]}
                      IN Cardinality(inWindow) <= RateLimit + Cardinality(overtaken)
    BY DEF RateBound
  <2> DEFINE A == admitted[s]
             W == {i \in DOMAIN A : A[i] \in (t - Window + 1)..t}
             O == {i \in W : \E j \in 1..(i - 1) : A[j] > A[i]}
             R == W \ O
  <2>1. /\ A \in Seq(Nat) /\ Len(A) \in Nat /\ DOMAIN A = 1..Len(A)
        /\ \A i \in DOMAIN A : A[i] \in Nat
    BY DEF RateInv, StampTypes
  <2>2. t \in Nat /\ Window \in Nat /\ RateLimit \in Nat
    BY GatewayAssumption
  <2>3. W \in SUBSET (1..Len(A)) /\ O \in SUBSET W /\ R \in SUBSET (1..Len(A)) /\ R \in SUBSET Int
    BY <2>1
  <2>4. \A i \in R : i \in DOMAIN A /\ A[i] <= t /\ t - A[i] < Window
                     /\ \A j \in 1..(i - 1) : A[j] <= A[i]
    <3> SUFFICES ASSUME NEW i \in R PROVE A[i] <= t /\ t - A[i] < Window
                                          /\ \A j \in 1..(i - 1) : A[j] <= A[i]
      BY <2>1
    <3>1. i \in DOMAIN A /\ A[i] \in (t - Window + 1)..t /\ i \notin O
      OBVIOUS
    <3>2. \A j \in 1..(i - 1) : ~(A[j] > A[i]) /\ j \in DOMAIN A
      BY <2>1
    <3>3. A[i] \in Int /\ \A j \in 1..(i - 1) : A[j] \in Int
      BY <2>1, <3>1, <3>2
    <3>4. \A j \in 1..(i - 1) : A[j] <= A[i]
      BY ONLY <3>2, <3>3
    <3>5. A[i] <= t /\ t - A[i] < Window
      BY ONLY <2>2, <3>1, <3>3
    <3>6. QED BY <3>4, <3>5
  <2> HIDE DEF W, O, R
  <2>5. IsFiniteSet(W) /\ IsFiniteSet(O) /\ IsFiniteSet(R) /\ Cardinality(W) \in Nat
        /\ Cardinality(O) \in Nat /\ Cardinality(R) \in Nat
    <3>1. Len(A) \in Int
      BY <2>1
    <3>2. O \in SUBSET (1..Len(A))
      BY <2>3
    <3> HIDE DEF A
    <3>3. QED BY <2>3, <3>1, <3>2, FinitePart
  <2>6. Cardinality(R) = Cardinality(W) - Cardinality(O)
    <3>1. W \cap O = O
      BY <2>3
    <3>2. QED BY <2>5, <3>1, FS_Difference DEF R
  <2>7. CASE R = {}
    BY <2>2, <2>5, <2>6, <2>7, FS_EmptySet DEF W, O
  <2>8. CASE R # {}
    <3> DEFINE m == Max(R)
               B == {j \in 1..(m - 1) : A[m] - A[j] < Window}
    <3>1. m \in R /\ m \in Int /\ \A i \in R : i <= m
      BY <2>3, <2>5, <2>8, FiniteMax
    <3> HIDE DEF m
    <3>2. \A i \in R : i = m \/ i \in B
      BY <2>1, <2>2, <2>3, <2>4, <3>1
    <3>3. Cardinality(B) < RateLimit
      BY <2>4, <3>1 DEF RateInv, InOrderHadRoom
    <3>4. B \in SUBSET (1..(m - 1)) /\ m - 1 \in Int
      BY <3>1
    <3> HIDE DEF B
    <3>5. IsFiniteSet(B) /\ Cardinality(B) \in Nat
      BY <3>4, FinitePart
    <3>6. Cardinality(R) <= Cardinality(B) + 1
      BY <3>2, <3>5, FiniteWith
    <3>7. QED BY <2>2, <2>5, <2>6, <3>3, <3>5, <3>6 DEF W, O
  <2>9. QED BY <2>7, <2>8
<1>2. QED BY <1>1, RateInit, RateStep, PTL DEF Spec
=============================================================================
