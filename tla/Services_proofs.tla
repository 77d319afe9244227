---------------------------- MODULE Services_proofs ----------------------------
(***************************************************************************)
(* The services, for any number of requests and any users, payments, rows, *)
(* ticks and prices. First those that answer one request at a time: the    *)
(* webhook processor, the OAuth2 provider, the SQL audit and the job       *)
(* board. Then those that follow a stream: the tick pipeline, the candle   *)
(* feed, the fraud screening and the arbitrage scanner.                    *)
(***************************************************************************)
EXTENDS WebhookLedger, AuthProvider, SqlAudit, JobsApi, DataAggregator, CandleFeed, FraudDetector,
        ArbitrageScanner, SetSums, TLAPS

-----------------------------------------------------------------------------
(***************************************************************************)
(* WebhookLedger: an identified event is taken at most once.               *)
(***************************************************************************)

InLog(log) == {log[i].event : i \in DOMAIN log}

LogEntries == [event : Events \cup {NoId}, body : Bodies]

\* No two entries of log are of the same identified event.
Once(log) == \A i, j \in DOMAIN log : log[i].event = log[j].event /\ log[i].event # NoId => i = j

\* What is marked has been logged or has raised, and never both.
OnceInv ==
  /\ eventLog \in Seq(LogEntries)
  /\ Once(eventLog)
  /\ processed = raised \cup (InLog(eventLog) \ {NoId})
  /\ raised \cap InLog(eventLog) = {}
  /\ NoId \notin raised

\* One entry more at the end of a log.
LEMMA LogOneMore ==
  ASSUME NEW S, NEW log \in Seq(S), NEW entry \in S, Once(log),
         entry.event = NoId \/ entry.event \notin InLog(log)
  PROVE  /\ Append(log, entry) \in Seq(S) /\ Once(Append(log, entry))
         /\ InLog(Append(log, entry)) = InLog(log) \cup {entry.event}
<1>1. /\ Append(log, entry) \in Seq(S)
      /\ DOMAIN Append(log, entry) = 1..(Len(log) + 1)
      /\ Append(log, entry)[Len(log) + 1] = entry
      /\ \A i \in 1..Len(log) : Append(log, entry)[i] = log[i]
      /\ Len(log) \in Nat /\ DOMAIN log = 1..Len(log)
  OBVIOUS
<1>2. \A i \in 1..(Len(log) + 1) : i = Len(log) + 1 \/ i \in DOMAIN log
  BY <1>1
<1>3. Once(Append(log, entry))
  BY <1>1, <1>2 DEF Once, InLog
<1>4. InLog(Append(log, entry)) \subseteq InLog(log) \cup {entry.event}
  BY <1>1, <1>2 DEF InLog
<1>5. InLog(log) \cup {entry.event} \subseteq InLog(Append(log, entry))
  <2>1. \A i \in DOMAIN log : i \in DOMAIN Append(log, entry)
    BY <1>1
  <2>2. Len(log) + 1 \in DOMAIN Append(log, entry)
    BY <1>1
  <2>3. QED BY <1>1, <2>1, <2>2 DEF InLog
<1>6. QED BY <1>1, <1>3, <1>4, <1>5

\* Taking an event marks it and logs it together; raising marks it alone.
LEMMA OnceStep == OnceInv /\ [WebhookNext]_ledgerVars => OnceInv'
<1> SUFFICES ASSUME OnceInv, [WebhookNext]_ledgerVars PROVE OnceInv'
  OBVIOUS
<1>1. CASE RejectForged \/ RejectMalformed \/ UNCHANGED ledgerVars
  BY <1>1 DEF RejectForged, RejectMalformed, ledgerVars, OnceInv
<1>2. ASSUME NEW e \in Events \cup {NoId}, Duplicate(e) PROVE OnceInv'
  BY <1>2 DEF Duplicate, OnceInv
<1>3. ASSUME NEW e \in Events \cup {NoId}, HandlerRaises(e) PROVE OnceInv'
  <2>1. /\ e \notin processed /\ processed' = processed \cup ({e} \ {NoId})
        /\ raised' = raised \cup ({e} \ {NoId}) /\ eventLog' = eventLog
    BY <1>3 DEF HandlerRaises, Fresh, Marked
  <2>2. e = NoId \/ e \notin InLog(eventLog)
    BY <2>1 DEF OnceInv
  <2>3. QED BY <2>1, <2>2 DEF OnceInv
<1>4. ASSUME NEW e \in Events \cup {NoId}, NEW b \in Bodies, Process(e, b) PROVE OnceInv'
  <2> DEFINE entry == [event |-> e, body |-> b]
  <2>1. /\ e \notin processed /\ processed' = processed \cup ({e} \ {NoId})
        /\ eventLog' = Append(eventLog, entry) /\ raised' = raised
    BY <1>4 DEF Process, Fresh, Marked
  <2>2. entry \in LogEntries /\ entry.event = e
    BY DEF LogEntries
  <2>3. e = NoId \/ e \notin InLog(eventLog)
    BY <2>1 DEF OnceInv
  <2> HIDE DEF entry
  <2>4. /\ eventLog' \in Seq(LogEntries) /\ Once(eventLog')
        /\ InLog(eventLog') = InLog(eventLog) \cup {e}
    BY <2>1, <2>2, <2>3, LogOneMore DEF OnceInv
  <2>5. QED BY <2>1, <2>4 DEF OnceInv
<1>5. QED BY <1>1, <1>2, <1>3, <1>4 DEF WebhookNext

\* webhook.py 91-104: an identified event is applied at most once however often it is
\* delivered; what was marked and not applied was lost with its handler's exception.
THEOREM EventOnceHolds == LedgerSpec => []EventOnce
<1>1. WebhookInit => OnceInv
  BY DEF WebhookInit, OnceInv, Once, InLog
<1>2. OnceInv => EventOnce
  BY DEF OnceInv, Once, InLog, EventOnce
<1>3. QED BY <1>1, <1>2, OnceStep, PTL DEF LedgerSpec

-----------------------------------------------------------------------------
(* The ledger is what the log says of each payment: the greatest positions *)
(* of the events about it decide.                                          *)

Paying   == {"completed", "failed"}
Deciding == {"completed", "failed", "refunded"}

\* What the log says of a payment at three positions: the last event, the last
\* completion, and the event the payment was born with.
StatusOf(type) == CASE type = "completed" -> "CONFIRMED"
                    [] type = "failed" -> "FAILED"
                    [] type = "refunded" -> "REFUNDED"

SettledBy(p, last, paid) ==
  /\ p \in DOMAIN ledger
  /\ last \in About(p, Deciding) /\ \A i \in About(p, Deciding) : i <= last
  /\ ledger[p].status = StatusOf(eventLog[last].body.type)
  /\ \/ paid \in About(p, {"completed"}) /\ \A i \in About(p, {"completed"}) : i <= paid
     \/ /\ About(p, {"completed"}) = {}
        /\ paid \in About(p, Paying) /\ \A i \in About(p, Paying) : paid <= i
  /\ ledger[p].amount = eventLog[paid].body.amount

Unborn(p) == About(p, Paying) = {} /\ p \notin DOMAIN ledger

LedgerInv ==
  /\ eventLog \in Seq(LogEntries)
  /\ IsFiniteSet(DOMAIN ledger) /\ DOMAIN ledger \subseteq Payments
  /\ ledger = [p \in DOMAIN ledger |-> ledger[p]]
  /\ \A p \in DOMAIN ledger : ledger[p] = [amount |-> ledger[p].amount, status |-> ledger[p].status]
  /\ \A p \in Payments : Unborn(p) \/ \E last, paid \in DOMAIN eventLog : SettledBy(p, last, paid)

\* One event more is about its payment, and about no other.
LEMMA AboutOneMore ==
  ASSUME eventLog \in Seq(LogEntries), NEW entry \in LogEntries, eventLog' = Append(eventLog, entry)
  PROVE  /\ Len(eventLog) \in Nat /\ DOMAIN eventLog = 1 .. Len(eventLog)
         /\ DOMAIN eventLog' = 1 .. (Len(eventLog) + 1)
         /\ eventLog'[Len(eventLog) + 1] = entry
         /\ \A i \in DOMAIN eventLog : eventLog'[i] = eventLog[i] /\ i < Len(eventLog) + 1
         /\ \A p, types : About(p, types)' =
              IF entry.body.type \in types /\ entry.body.payment = p
                THEN About(p, types) \cup {Len(eventLog) + 1} ELSE About(p, types)
<1>1. /\ Len(eventLog) \in Nat /\ DOMAIN eventLog = 1 .. Len(eventLog)
      /\ DOMAIN eventLog' = 1 .. (Len(eventLog) + 1)
      /\ eventLog'[Len(eventLog) + 1] = entry
      /\ \A i \in DOMAIN eventLog : eventLog'[i] = eventLog[i] /\ i < Len(eventLog) + 1
  OBVIOUS
<1>2. DOMAIN eventLog' = DOMAIN eventLog \cup {Len(eventLog) + 1} /\ Len(eventLog) + 1 \notin DOMAIN eventLog
  BY <1>1
<1>3. QED BY <1>1, <1>2 DEF About

\* Nothing the log says of p changes with an event that is not about p.
LEMMA OthersStay ==
  ASSUME LedgerInv, NEW entry \in LogEntries, eventLog' = Append(eventLog, entry), NEW p \in Payments,
         entry.body.type \notin Deciding \/ entry.body.payment # p,
         p \in DOMAIN ledger' <=> p \in DOMAIN ledger,
         p \in DOMAIN ledger => ledger'[p] = ledger[p]
  PROVE  Unborn(p)' \/ \E last, paid \in DOMAIN eventLog' : SettledBy(p, last, paid)'
<1>1. /\ \A i \in DOMAIN eventLog : i \in DOMAIN eventLog' /\ eventLog'[i] = eventLog[i]
      /\ About(p, Deciding)' = About(p, Deciding) /\ About(p, Paying)' = About(p, Paying)
      /\ About(p, {"completed"})' = About(p, {"completed"})
  BY AboutOneMore DEF LedgerInv, Deciding, Paying
<1>2. CASE Unborn(p)
  BY <1>1, <1>2 DEF Unborn
<1>3. CASE \E last, paid \in DOMAIN eventLog : SettledBy(p, last, paid)
  <2>1. PICK last, paid \in DOMAIN eventLog : SettledBy(p, last, paid)
    BY <1>3
  <2>2. SettledBy(p, last, paid)'
    BY <1>1, <2>1 DEF SettledBy
  <2>3. QED BY <1>1, <2>2
<1>4. QED BY <1>2, <1>3 DEF LedgerInv

\* The payment an event is about takes its status from it, and its amount from it or
\* from where it had it.
LEMMA AboutIt ==
  ASSUME LedgerInv, NEW entry \in LogEntries, eventLog' = Append(eventLog, entry),
         entry.body.type \in Deciding, NEW p \in Payments, p = entry.body.payment,
         p \in DOMAIN ledger', ledger'[p].status = StatusOf(entry.body.type),
         \/ entry.body.type = "completed" /\ ledger'[p].amount = entry.body.amount
         \/ entry.body.type # "completed" /\ p \in DOMAIN ledger /\ ledger'[p].amount = ledger[p].amount
         \/ entry.body.type = "failed" /\ p \notin DOMAIN ledger /\ ledger'[p].amount = entry.body.amount
  PROVE  \E last, paid \in DOMAIN eventLog' : SettledBy(p, last, paid)'
<1>1. PICK k \in Nat :
        /\ k = Len(eventLog) + 1 /\ k \in DOMAIN eventLog' /\ eventLog'[k] = entry
        /\ \A i \in DOMAIN eventLog : i \in DOMAIN eventLog' /\ eventLog'[i] = eventLog[i] /\ i <= k
        /\ \A types : About(p, types)' =
                        IF entry.body.type \in types THEN About(p, types) \cup {k} ELSE About(p, types)
  <2>1. /\ Len(eventLog) \in Nat /\ DOMAIN eventLog = 1 .. Len(eventLog)
        /\ DOMAIN eventLog' = 1 .. (Len(eventLog) + 1)
        /\ eventLog'[Len(eventLog) + 1] = entry
        /\ \A i \in DOMAIN eventLog : eventLog'[i] = eventLog[i]
        /\ \A types : About(p, types)' =
                        IF entry.body.type \in types
                          THEN About(p, types) \cup {Len(eventLog) + 1} ELSE About(p, types)
    BY AboutOneMore DEF LedgerInv
  <2>2. PICK k \in Nat : k = Len(eventLog) + 1
    BY <2>1
  <2>3. k \in DOMAIN eventLog' /\ \A i \in DOMAIN eventLog : i \in DOMAIN eventLog' /\ i <= k
    BY <2>1, <2>2
  <2>4. QED BY <2>1, <2>2, <2>3
<1>2. /\ About(p, Deciding)' = About(p, Deciding) \cup {k}
      /\ About(p, Deciding) \subseteq DOMAIN eventLog /\ About(p, Paying) \subseteq DOMAIN eventLog
      /\ About(p, {"completed"}) \subseteq DOMAIN eventLog
      /\ About(p, {"completed"}) \subseteq About(p, Paying)
  BY <1>1 DEF About, Paying
<1>3. About(p, Paying)' =
        (IF entry.body.type = "refunded" THEN About(p, Paying) ELSE About(p, Paying) \cup {k})
  BY <1>1 DEF Deciding, Paying
<1>4. About(p, {"completed"})' =
        (IF entry.body.type = "completed" THEN About(p, {"completed"}) \cup {k}
                                          ELSE About(p, {"completed"}))
  BY <1>1
<1>5. CASE entry.body.type = "completed"
  <2>1. SettledBy(p, k, k)'
    BY <1>1, <1>2, <1>4, <1>5 DEF SettledBy
  <2>2. QED BY <1>1, <2>1
<1>6. CASE entry.body.type # "completed" /\ p \in DOMAIN ledger
  <2>1. PICK last, paid \in DOMAIN eventLog : SettledBy(p, last, paid)
    BY <1>6 DEF LedgerInv, Unborn
  <2>2. paid \in About(p, Paying)' /\ (About(p, {"completed"}) = {} => \A i \in About(p, Paying)' : paid <= i)
    BY <1>1, <1>2, <1>3, <2>1 DEF SettledBy
  <2>3. SettledBy(p, k, paid)'
    BY <1>1, <1>2, <1>4, <1>6, <2>1, <2>2 DEF SettledBy
  <2>4. QED BY <1>1, <2>3
<1>7. CASE entry.body.type = "failed" /\ p \notin DOMAIN ledger
  <2>1. About(p, Paying) = {}
    BY <1>7 DEF LedgerInv, Unborn, SettledBy
  <2>2. SettledBy(p, k, k)'
    BY <1>1, <1>2, <1>3, <1>4, <1>7, <2>1 DEF SettledBy
  <2>3. QED BY <1>1, <2>2
<1>8. QED BY <1>5, <1>6, <1>7

LEMMA ProcessKeeps ==
  ASSUME LedgerInv, NEW e \in Events \cup {NoId}, NEW b \in Bodies, Process(e, b) PROVE LedgerInv'
<1> DEFINE entry == [event |-> e, body |-> b]
<1>1. /\ entry \in LogEntries /\ entry.body = b /\ eventLog' = Append(eventLog, entry)
      /\ eventLog' \in Seq(LogEntries) /\ ledger' = Route(b)
  BY DEF Process, LogEntries, LedgerInv
<1> HIDE DEF entry
<1>2. CASE b.type \notin Deciding
  <2>1. ledger' = ledger
    BY <1>1, <1>2 DEF Route, Deciding
  <2>2. \A p \in Payments : Unborn(p)' \/ \E last, paid \in DOMAIN eventLog' : SettledBy(p, last, paid)'
    BY <1>1, <1>2, <2>1, OthersStay
  <2>3. QED BY <1>1, <2>1, <2>2 DEF LedgerInv
<1>3. CASE b.type \in Deciding
  <2> DEFINE q == b.payment
  <2>1. q \in Payments /\ (b.type # "refunded" => b.amount \in Amounts)
    BY <1>3 DEF Bodies, Deciding
  <2> HIDE DEF q
  <2>2. /\ \A p \in Payments \ {q} : /\ p \in DOMAIN ledger' <=> p \in DOMAIN ledger
                                     /\ p \in DOMAIN ledger => ledger'[p] = ledger[p]
        /\ DOMAIN ledger' = DOMAIN ledger \/ DOMAIN ledger' = DOMAIN ledger \cup {q}
        /\ ledger' = [p \in DOMAIN ledger' |-> ledger'[p]]
        /\ \A p \in DOMAIN ledger' :
             ledger'[p] = [amount |-> ledger'[p].amount, status |-> ledger'[p].status]
        /\ \/ q \notin DOMAIN ledger' /\ ledger' = ledger /\ b.type = "refunded"
           \/ /\ q \in DOMAIN ledger' /\ ledger'[q].status = StatusOf(b.type)
              /\ \/ b.type = "completed" /\ ledger'[q].amount = b.amount
                 \/ b.type # "completed" /\ q \in DOMAIN ledger /\ ledger'[q].amount = ledger[q].amount
                 \/ b.type = "failed" /\ q \notin DOMAIN ledger /\ ledger'[q].amount = b.amount
    <3>1. /\ ledger = [p \in DOMAIN ledger |-> ledger[p]]
          /\ \A p \in DOMAIN ledger :
               ledger[p] = [amount |-> ledger[p].amount, status |-> ledger[p].status]
      BY DEF LedgerInv
    <3>2. CASE b.type = "completed"
      BY <1>1, <3>1, <3>2 DEF Route, HandleCompleted, Put, q, StatusOf
    <3>3. CASE b.type = "failed"
      <4>1. CASE q \in DOMAIN ledger
        <5>1. ledger' = [ledger EXCEPT ![q].status = "FAILED"]
          BY <1>1, <3>3, <4>1 DEF Route, HandleFailed, q
        <5>2. /\ DOMAIN ledger' = DOMAIN ledger
              /\ ledger'[q] = [amount |-> ledger[q].amount, status |-> "FAILED"]
              /\ \A p \in DOMAIN ledger \ {q} : ledger'[p] = ledger[p]
          BY <3>1, <4>1, <5>1
        <5>3. ledger' = [p \in DOMAIN ledger' |-> ledger'[p]]
          BY <3>1, <4>1, <5>1
        <5>4. ASSUME NEW p \in DOMAIN ledger'
              PROVE  ledger'[p] = [amount |-> ledger'[p].amount, status |-> ledger'[p].status]
          <6>1. CASE p = q
            BY <5>2, <6>1
          <6>2. CASE p # q
            BY <3>1, <5>2, <6>2
          <6>3. QED BY <6>1, <6>2
        <5>5. /\ q \in DOMAIN ledger' /\ ledger'[q].status = StatusOf(b.type)
              /\ ledger'[q].amount = ledger[q].amount /\ b.type # "completed"
          BY <3>3, <4>1, <5>2 DEF StatusOf
        <5>6. QED BY <4>1, <5>2, <5>3, <5>4, <5>5
      <4>2. CASE q \notin DOMAIN ledger
        <5>1. ledger' = Put(q, [amount |-> b.amount, status |-> "FAILED"])
          BY <1>1, <3>3, <4>2 DEF Route, HandleFailed, q
        <5>2. QED BY <3>1, <3>3, <4>2, <5>1 DEF Put, StatusOf
      <4>3. QED BY <4>1, <4>2
    <3>4. CASE b.type = "refunded"
      BY <1>1, <3>1, <3>4 DEF Route, HandleRefund, q, StatusOf
    <3>5. QED BY <1>3, <3>2, <3>3, <3>4 DEF Deciding
  <2>3. IsFiniteSet(DOMAIN ledger') /\ DOMAIN ledger' \subseteq Payments
    BY <2>1, <2>2, FS_AddElement DEF LedgerInv
  <2>4. \A p \in Payments \ {q} :
          Unborn(p)' \/ \E last, paid \in DOMAIN eventLog' : SettledBy(p, last, paid)'
    BY <1>1, <2>2, OthersStay DEF q
  <2>5. Unborn(q)' \/ \E last, paid \in DOMAIN eventLog' : SettledBy(q, last, paid)'
    <3>1. CASE q \in DOMAIN ledger'
      BY <1>1, <1>3, <2>1, <2>2, <3>1, AboutIt DEF q
    <3>2. CASE q \notin DOMAIN ledger'
      <4>1. ledger' = ledger /\ b.type = "refunded"
        BY <2>2, <3>2
      <4>2. About(q, Paying) = {}
        BY <2>1, <3>2, <4>1 DEF LedgerInv, Unborn, SettledBy
      <4>3. About(q, Paying)' = About(q, Paying)
        BY <1>1, <4>1, AboutOneMore DEF LedgerInv, Paying
      <4>4. QED BY <3>2, <4>2, <4>3 DEF Unborn
    <3>3. QED BY <3>1, <3>2
  <2>6. QED BY <1>1, <2>2, <2>3, <2>4, <2>5 DEF LedgerInv
<1>4. QED BY <1>2, <1>3

LEMMA LedgerStep == LedgerInv /\ [WebhookNext]_ledgerVars => LedgerInv'
<1> SUFFICES ASSUME LedgerInv, [WebhookNext]_ledgerVars PROVE LedgerInv'
  OBVIOUS
<1>1. CASE UNCHANGED <<ledger, eventLog>>
  BY <1>1 DEF LedgerInv, Unborn, SettledBy, About
<1>2. CASE \/ RejectForged \/ RejectMalformed \/ UNCHANGED ledgerVars
           \/ \E e \in Events \cup {NoId} : Duplicate(e) \/ HandlerRaises(e)
  BY <1>1, <1>2 DEF RejectForged, RejectMalformed, Duplicate, HandlerRaises, ledgerVars
<1>3. QED BY <1>2, ProcessKeeps DEF WebhookNext

\* The positions named by the invariant are the ones the properties choose.
LEMMA PositionsChosen ==
  ASSUME LedgerInv, NEW p \in Payments, NEW last \in DOMAIN eventLog, NEW paid \in DOMAIN eventLog,
         SettledBy(p, last, paid)
  PROVE  /\ About(p, Paying) # {} /\ About(p, Deciding) # {}
         /\ last = Max(About(p, Deciding)) /\ eventLog[last].body.type \in Deciding
         /\ eventLog[last].body.type = "completed" => About(p, {"completed"}) # {}
         /\ paid = IF About(p, {"completed"}) = {} THEN Born(p) ELSE Max(About(p, {"completed"}))
<1>1. /\ DOMAIN eventLog \subseteq Int
      /\ About(p, Deciding) \in SUBSET Int /\ About(p, Paying) \in SUBSET Int
      /\ About(p, {"completed"}) \in SUBSET Int
  BY DEF LedgerInv, About
<1>2. About(p, Paying) # {} /\ paid \in About(p, Paying)
  BY DEF SettledBy, About, Paying
<1>3. last = Max(About(p, Deciding)) /\ About(p, Deciding) # {}
  BY <1>1, MaxIs DEF SettledBy
<1>4. paid = IF About(p, {"completed"}) = {} THEN Born(p) ELSE Max(About(p, {"completed"}))
  <2>1. CASE About(p, {"completed"}) = {}
    BY <1>1, <2>1, MinIs DEF SettledBy, Born, Paying
  <2>2. CASE About(p, {"completed"}) # {}
    BY <1>1, <2>2, MaxIs DEF SettledBy
  <2>3. QED BY <2>1, <2>2
<1>5. /\ eventLog[last].body.type \in Deciding
      /\ eventLog[last].body.type = "completed" => About(p, {"completed"}) # {}
  <2>1. last \in DOMAIN eventLog /\ eventLog[last].body.type \in Deciding
        /\ eventLog[last].body.payment = p
    BY DEF SettledBy, About
  <2>2. eventLog[last].body.type = "completed" => last \in About(p, {"completed"})
    BY <2>1 DEF About
  <2>3. QED BY <2>1, <2>2
<1>6. QED BY <1>2, <1>3, <1>4, <1>5

LEMMA StatusFollows == LedgerInv => LastEventDecides
<1> SUFFICES ASSUME LedgerInv, NEW p \in Payments
             PROVE  IF About(p, Paying) = {} THEN p \notin DOMAIN ledger
                    ELSE LET last == eventLog[Max(About(p, Deciding))].body.type
                             paid == About(p, {"completed"})
                         IN /\ p \in DOMAIN ledger
                            /\ ledger[p].status = CASE last = "completed" -> "CONFIRMED"
                                                    [] last = "failed" -> "FAILED"
                                                    [] last = "refunded" -> "REFUNDED"
                            /\ ledger[p].amount = eventLog[IF paid = {} THEN Born(p) ELSE Max(paid)].body.amount
  BY DEF LastEventDecides, Paying, Deciding
<1>1. CASE Unborn(p)
  BY <1>1 DEF Unborn
<1>2. CASE ~Unborn(p)
  <2>1. PICK last, paid \in DOMAIN eventLog : SettledBy(p, last, paid)
    BY <1>2 DEF LedgerInv
  <2>2. /\ About(p, Paying) # {} /\ last = Max(About(p, Deciding))
        /\ paid = IF About(p, {"completed"}) = {} THEN Born(p) ELSE Max(About(p, {"completed"}))
    BY <2>1, PositionsChosen
  <2>3. QED BY <2>1, <2>2 DEF SettledBy, StatusOf
<1>3. QED BY <1>1, <1>2

\* What is held by the log is what the ledger confirms, payment by payment.
LEMMA RevenueFollows == LedgerInv => RefundsCountedTwice
<1> SUFFICES ASSUME LedgerInv PROVE RefundsCountedTwice
  OBVIOUS
<1> DEFINE kept == {p \in Payments : LET is == About(p, Deciding)
                                     IN is # {} /\ eventLog[Max(is)].body.type = "completed"}
           f == [p \in kept |-> eventLog[Max(About(p, {"completed"}))].body.amount]
           C == With("CONFIRMED")
           g == [p \in C |-> ledger[p].amount]
<1>1. ASSUME NEW p \in Payments PROVE p \in kept <=> p \in C
  <2>1. CASE Unborn(p)
    <3>1. \A i \in About(p, Deciding) : eventLog[i].body.type = "refunded"
      BY <2>1 DEF Unborn, About, Deciding, Paying
    <3>2. About(p, Deciding) \in SUBSET Int /\ IsFiniteSet(About(p, Deciding))
      <4>1. About(p, Deciding) \in SUBSET (1 .. Len(eventLog)) /\ Len(eventLog) \in Int
        BY DEF LedgerInv, About
      <4>2. IsFiniteSet(About(p, Deciding))
        BY <4>1, FinitePart
      <4>3. QED BY <4>1, <4>2
    <3>3. About(p, Deciding) # {} => eventLog[Max(About(p, Deciding))].body.type = "refunded"
      BY <3>1, <3>2, FiniteMax
    <3>4. QED BY <2>1, <3>3 DEF Unborn, With
  <2>2. CASE ~Unborn(p)
    <3>1. PICK last, paid \in DOMAIN eventLog : SettledBy(p, last, paid)
      BY <2>2 DEF LedgerInv
    <3>2. /\ About(p, Deciding) # {} /\ last = Max(About(p, Deciding))
          /\ eventLog[last].body.type \in Deciding
      BY <3>1, PositionsChosen
    <3>3. p \in DOMAIN ledger /\ ledger[p].status = StatusOf(eventLog[last].body.type)
      BY <3>1 DEF SettledBy
    <3>4. ledger[p].status = "CONFIRMED" <=> eventLog[last].body.type = "completed"
      BY <3>2, <3>3 DEF StatusOf, Deciding
    <3>5. QED BY <3>2, <3>3, <3>4 DEF With
  <2>3. QED BY <2>1, <2>2
<1>2. kept = C /\ IsFiniteSet(C) /\ C \subseteq Payments
  <2>1. C \subseteq DOMAIN ledger
    BY DEF With
  <2>2. C \subseteq Payments /\ IsFiniteSet(C)
    BY <2>1, FS_Subset DEF LedgerInv
  <2>3. kept \subseteq Payments
    OBVIOUS
  <2> HIDE DEF kept, C
  <2>4. QED BY <1>1, <2>2, <2>3
<1>3. ASSUME NEW p \in C PROVE f[p] = g[p]
  <2>1. p \in kept /\ p \in Payments
    BY <1>2
  <2>2. PICK last, paid \in DOMAIN eventLog : SettledBy(p, last, paid)
    BY <2>1, StatusFollows DEF LedgerInv, Unborn, With
  <2>3. eventLog[last].body.type = "completed"
    BY <2>1, <2>2, PositionsChosen
  <2>4. paid = Max(About(p, {"completed"}))
    BY <2>1, <2>2, <2>3, PositionsChosen
  <2>5. ledger[p].amount = eventLog[paid].body.amount
    BY <2>2 DEF SettledBy
  <2>6. QED BY <2>1, <2>4, <2>5
<1>4. SumFunctionOnSet(f, C) = SumFunctionOnSet(g, C)
  <2> HIDE DEF f, g, C
  <2>1. QED BY <1>2, <1>3, SumSame
<1>5. Held = SumFunctionOnSet(f, kept)
  BY DEF Held, Deciding
<1>6. Volume(C) = SumFunctionOnSet(g, C)
  BY DEF Volume
<1>7. Held = Volume(C)
  BY <1>2, <1>4, <1>5, <1>6
<1>8. QED BY <1>7 DEF RefundsCountedTwice, NetRevenue

\* webhook.py 91-189: whatever is delivered how often in which order, the ledger and the
\* revenue reconciled from it follow the events as they were applied, each once.
THEOREM LedgerFollowsLogHolds == LedgerSpec => []LedgerFollowsLog
<1>1. WebhookInit => LedgerInv
  BY FS_EmptySet DEF WebhookInit, LedgerInv, Unborn, About
<1>2. LedgerSpec => []LedgerInv
  BY <1>1, LedgerStep, PTL DEF LedgerSpec
<1>3. EventOnce /\ LedgerInv => LedgerFollowsLog
  BY StatusFollows, RevenueFollows DEF LedgerFollowsLog
<1>4. QED BY <1>2, <1>3, EventOnceHolds, PTL

-----------------------------------------------------------------------------
(***************************************************************************)
(* SqlAudit: counters, log, slow log and database file agree, but for the  *)
(* calls that raised.                                                      *)
(***************************************************************************)

AuditEntries == [call : Nat, pattern : Patterns, writes : BOOLEAN, slow : BOOLEAN]

\* A log in the order of its calls, none later than n.
InCallOrder(log, n) ==
  /\ log \in Seq(AuditEntries)
  /\ \A i \in DOMAIN log : log[i].call \in 1 .. n
  /\ \A i, j \in DOMAIN log : i < j => log[i].call < log[j].call

Counted == {q \in Patterns : freq[q] > 0}

CountInv ==
  /\ calls \in Nat /\ freq \in [Patterns -> Nat]
  /\ failedReads \in SUBSET (1 .. calls)
  /\ IsFiniteSet(Counted)
  /\ SumFunctionOnSet(freq, Counted) = Len(queryLogs) + Cardinality(failedReads)

LogInv ==
  /\ InCallOrder(queryLogs, calls) /\ InCallOrder(slowQueries, calls)
  /\ Entries(slowQueries) = {entry \in Entries(queryLogs) : entry.slow}

\* What waits in the transaction is younger than every logged write, and is logged
\* itself or a write that raised.
FileInv ==
  /\ dirty \subseteq 1 .. calls /\ dirty \subseteq Logged \cup failedWrites
  /\ AuditTrail /\ OnlyTailOpen

AuditInv == CountInv /\ LogInv /\ FileInv

LEMMA LoggedOneMore ==
  ASSUME NEW n \in Nat, NEW log, InCallOrder(log, n), NEW entry \in AuditEntries, entry.call = n + 1
  PROVE  /\ InCallOrder(Append(log, entry), n + 1) /\ InCallOrder(log, n + 1)
         /\ Entries(Append(log, entry)) = Entries(log) \cup {entry}
         /\ Len(Append(log, entry)) = Len(log) + 1 /\ Len(log) \in Nat
<1>1. /\ log \in Seq(AuditEntries) /\ \A i \in DOMAIN log : log[i].call \in 1 .. n
      /\ \A i, j \in DOMAIN log : i < j => log[i].call < log[j].call
  BY DEF InCallOrder
<1> DEFINE more == Append(log, entry)
<1>2. /\ Len(log) \in Nat /\ DOMAIN log = 1 .. Len(log) /\ more \in Seq(AuditEntries)
      /\ DOMAIN more = 1 .. (Len(log) + 1) /\ Len(more) = Len(log) + 1
      /\ more[Len(log) + 1] = entry
      /\ \A i \in DOMAIN log : more[i] = log[i]
  BY <1>1
<1> HIDE DEF more
<1>3. \A i \in DOMAIN more : (i \in DOMAIN log /\ i < Len(log) + 1) \/ i = Len(log) + 1
  BY <1>2
<1>4. \A i \in DOMAIN log : log[i].call \in 1 .. (n + 1) /\ log[i].call < n + 1
  BY <1>1
<1>5. \A i \in DOMAIN more : more[i].call \in 1 .. (n + 1)
  BY <1>2, <1>3, <1>4
<1>6. ASSUME NEW i \in DOMAIN more, NEW j \in DOMAIN more, i < j PROVE more[i].call < more[j].call
  <2>1. i \in DOMAIN log
    BY <1>2, <1>3, <1>6
  <2>2. CASE j \in DOMAIN log
    BY <1>1, <1>2, <1>6, <2>1, <2>2
  <2>3. CASE j = Len(log) + 1
    BY <1>2, <1>4, <2>1, <2>3
  <2>4. QED BY <1>3, <2>2, <2>3
<1>7. InCallOrder(more, n + 1) /\ InCallOrder(log, n + 1)
  BY <1>1, <1>2, <1>4, <1>5, <1>6 DEF InCallOrder
<1>8. Entries(more) = Entries(log) \cup {entry}
  <2>1. Entries(more) \subseteq Entries(log) \cup {entry}
    BY <1>2, <1>3 DEF Entries
  <2>2. entry \in Entries(more) /\ Entries(log) \subseteq Entries(more)
    BY <1>2 DEF Entries
  <2>3. QED BY <2>1, <2>2
<1>9. QED BY <1>2, <1>7, <1>8 DEF more

\* Counting a query adds one to the sum, whether or not it had been seen.
LEMMA CountAddsOne ==
  ASSUME CountInv, NEW q \in Patterns, freq' = Count(q)
  PROVE  /\ freq' \in [Patterns -> Nat] /\ IsFiniteSet(Counted')
         /\ SumFunctionOnSet(freq', Counted') = SumFunctionOnSet(freq, Counted) + 1
         /\ SumFunctionOnSet(freq, Counted) \in Nat
<1>1. /\ freq \in [Patterns -> Nat] /\ freq' = [freq EXCEPT ![q] = freq[q] + 1]
      /\ freq' \in [Patterns -> Nat] /\ IsFiniteSet(Counted) /\ Counted \subseteq Patterns
      /\ freq'[q] = freq[q] + 1 /\ \A r \in Patterns \ {q} : freq'[r] = freq[r]
  BY DEF CountInv, Count, Counted
<1>2. Counted' = Counted \cup {q}
  BY <1>1 DEF Counted
<1>3. IsFiniteSet(Counted') /\ SumFunctionOnSet(freq, Counted) \in Nat
  <2>1. \A r \in Counted : freq[r] \in Nat
    BY <1>1
  <2>2. SumFunctionOnSet(freq, Counted) \in Nat
    BY <1>1, <2>1, SumNat
  <2>3. QED BY <1>1, <1>2, <2>2, FS_AddElement
<1>4. CASE q \in Counted
  <2>1. /\ \A r \in Counted : freq[r] \in Int /\ freq'[r] \in Int
        /\ \A r \in Counted \ {q} : freq[r] = freq'[r]
    BY <1>1
  <2>2. SumFunctionOnSet(freq', Counted) = SumFunctionOnSet(freq, Counted) + freq'[q] - freq[q]
    <3>1. \A f, g : /\ \A r \in Counted : f[r] \in Int /\ g[r] \in Int
                    /\ \A r \in Counted \ {q} : f[r] = g[r]
             => SumFunctionOnSet(g, Counted) = SumFunctionOnSet(f, Counted) + g[q] - f[q]
      BY <1>1, <1>4, SumGrow
    <3>2. QED BY <2>1, <3>1
  <2>3. Counted' = Counted /\ freq[q] \in Nat
    BY <1>1, <1>2, <1>4
  <2>4. QED BY <1>1, <1>3, <2>2, <2>3
<1>5. CASE q \notin Counted
  <2>1. freq[q] = 0 /\ freq'[q] = 1
    BY <1>1, <1>5 DEF Counted
  <2>2. \A r \in Counted : freq'[r] \in Int /\ freq[r] = freq'[r]
    BY <1>1, <1>5
  <2>3. SumFunctionOnSet(freq, Counted) = SumFunctionOnSet(freq', Counted)
    BY <1>1, <2>2, SumSame
  <2>4. SumFunctionOnSet(freq', Counted \cup {q}) = freq'[q] + SumFunctionOnSet(freq', Counted)
    <3>1. \A f : (\A r \in Counted : f[r] \in Int) /\ f[q] \in Int
             => SumFunctionOnSet(f, Counted \cup {q}) = f[q] + SumFunctionOnSet(f, Counted)
      BY <1>1, <1>5, SumAdd
    <3>2. QED BY <2>1, <2>2, <3>1
  <2>5. QED BY <1>1, <1>2, <1>3, <2>1, <2>3, <2>4
<1>6. QED BY <1>4, <1>5

LEMMA AuditStarts == AuditInit => AuditInv
<1> SUFFICES ASSUME AuditInit PROVE AuditInv
  OBVIOUS
<1>1. Counted = {}
  BY DEF AuditInit, Counted
<1>2. CountInv
  BY <1>1, SumEmpty, FS_EmptySet DEF AuditInit, CountInv
<1>3. LogInv /\ FileInv
  BY DEF AuditInit, LogInv, InCallOrder, Entries, FileInv, AuditTrail, OnlyTailOpen, Written, Logged
<1>4. QED BY <1>2, <1>3 DEF AuditInv

\* A call that returns is counted and logged, wherever its changes are then.
LEMMA LoggedCallKeeps ==
  ASSUME AuditInv, NEW q \in Patterns, NEW writes \in BOOLEAN, NEW slow \in BOOLEAN,
         calls' = calls + 1, freq' = Count(q), LogQuery(Entry(q, writes, slow)),
         UNCHANGED failedReads
  PROVE  /\ CountInv' /\ LogInv'
         /\ Logged' = Logged \cup {calls + 1}
         /\ Written' = IF writes THEN Written \cup {calls + 1} ELSE Written
<1> DEFINE entry == Entry(q, writes, slow)
<1>1. /\ calls \in Nat /\ entry \in AuditEntries /\ entry.call = calls + 1
      /\ entry.writes = writes /\ entry.slow = slow
  BY DEF AuditInv, CountInv, Entry, AuditEntries
<1>2. /\ queryLogs' = Append(queryLogs, entry)
      /\ slowQueries' = IF slow THEN Append(slowQueries, entry) ELSE slowQueries
  BY <1>1 DEF LogQuery
<1> HIDE DEF entry
<1>3. /\ InCallOrder(queryLogs', calls') /\ Entries(queryLogs') = Entries(queryLogs) \cup {entry}
      /\ Len(queryLogs') = Len(queryLogs) + 1 /\ Len(queryLogs) \in Nat
  BY <1>1, <1>2, LoggedOneMore DEF AuditInv, LogInv
<1>4. /\ InCallOrder(slowQueries', calls')
      /\ Entries(slowQueries') = IF slow THEN Entries(slowQueries) \cup {entry} ELSE Entries(slowQueries)
  BY <1>1, <1>2, LoggedOneMore DEF AuditInv, LogInv
<1>5. LogInv'
  BY <1>1, <1>3, <1>4 DEF AuditInv, LogInv
<1>6. CountInv'
  <2>1. failedReads \in SUBSET (1 .. calls) /\ IsFiniteSet(failedReads) /\ Cardinality(failedReads) \in Nat
    <3>1. calls \in Int /\ failedReads \in SUBSET (1 .. calls)
      BY DEF AuditInv, CountInv
    <3>2. QED BY <3>1, FinitePart
  <2>2. failedReads' \in SUBSET (1 .. calls')
    BY <1>1, <2>1
  <2>3. QED BY <1>1, <1>3, <2>1, <2>2, CountAddsOne DEF AuditInv, CountInv
<1>7. Logged' = Logged \cup {calls + 1}
  BY <1>1, <1>3 DEF Logged
<1>8. Written' = IF writes THEN Written \cup {calls + 1} ELSE Written
  BY <1>1, <1>3 DEF Written
<1>9. QED BY <1>5, <1>6, <1>7, <1>8

\* A call that is not logged.
LEMMA UnloggedCallKeeps ==
  ASSUME AuditInv, calls' \in {calls, calls + 1}, UNCHANGED <<queryLogs, slowQueries>>
  PROVE  LogInv' /\ Logged' = Logged /\ Written' = Written
<1>1. calls \in Nat /\ \A i \in Nat : i \in 1 .. calls => i \in 1 .. calls'
  BY DEF AuditInv, CountInv
<1>2. QED BY <1>1 DEF AuditInv, LogInv, InCallOrder, AuditEntries, Logged, Written

LEMMA AuditStep == AuditInv /\ [AuditNext]_auditVars => AuditInv'
<1> SUFFICES ASSUME AuditInv, [AuditNext]_auditVars PROVE AuditInv'
  OBVIOUS
<1>1. /\ calls \in Nat /\ failedReads \in SUBSET (1 .. calls) /\ dirty \in SUBSET (1 .. calls)
      /\ dirty \subseteq Logged \cup failedWrites /\ AuditTrail /\ OnlyTailOpen
      /\ \A w \in Written : w \in 1 .. calls
  BY DEF AuditInv, CountInv, FileInv, LogInv, InCallOrder, Written, Entries
<1>2. IsFiniteSet(failedReads) /\ Cardinality(failedReads) \in Nat
  <2>1. calls \in Int
    BY <1>1
  <2>2. QED BY <1>1, <2>1, FinitePart
<1>3. ASSUME UNCHANGED auditVars PROVE AuditInv'
  <2>1. UNCHANGED <<Logged, Written, Counted>>
    BY <1>3 DEF auditVars, Logged, Written, Counted, Entries
  <2>2. CountInv' /\ LogInv'
    BY <1>3, <2>1 DEF auditVars, AuditInv, CountInv, LogInv, InCallOrder, AuditEntries, Entries
  <2>3. FileInv'
    BY <1>3, <2>1 DEF auditVars, AuditInv, FileInv, AuditTrail, OnlyTailOpen
  <2>4. QED BY <2>2, <2>3 DEF AuditInv
<1>4. ASSUME Close PROVE AuditInv'
  <2>1. LogInv' /\ Logged' = Logged /\ Written' = Written
    BY <1>1, <1>4, UnloggedCallKeeps DEF Close
  <2>2. CountInv'
    BY <1>4 DEF Close, AuditInv, CountInv, Counted
  <2>3. FileInv'
    BY <1>1, <1>4, <2>1 DEF Close, FileInv, AuditTrail, OnlyTailOpen
  <2>4. QED BY <2>1, <2>2, <2>3 DEF AuditInv
<1>5. ASSUME StatementRaises \/ CommitRaises PROVE AuditInv'
  <2>1. /\ calls' = calls + 1 /\ UNCHANGED <<freq, queryLogs, slowQueries, committed, failedReads>>
        /\ \/ UNCHANGED <<dirty, failedWrites>>
           \/ dirty' = dirty \cup {calls + 1} /\ failedWrites' = failedWrites \cup {calls + 1}
    BY <1>5 DEF StatementRaises, CommitRaises, Call
  <2>2. LogInv' /\ Logged' = Logged /\ Written' = Written
    BY <2>1, UnloggedCallKeeps
  <2>3. CountInv'
    BY <1>1, <2>1 DEF AuditInv, CountInv, Counted
  <2>4. FileInv'
    <3>1. \A c \in dirty' : c \in dirty \/ (c = calls + 1 /\ c \in failedWrites')
      BY <2>1
    <3>2. failedWrites \subseteq failedWrites' /\ \A c \in 1 .. calls : c \in 1 .. calls'
      BY <1>1, <2>1
    <3>3. dirty' \subseteq 1 .. calls'
      <4>1. calls + 1 \in 1 .. calls'
        BY <1>1, <2>1
      <4>2. QED BY <1>1, <3>1, <3>2, <4>1
    <3>4. dirty' \subseteq Logged' \cup failedWrites'
      BY <1>1, <2>2, <3>1, <3>2
    <3>5. AuditTrail'
      BY <1>1, <2>1, <2>2 DEF AuditTrail
    <3>6. OnlyTailOpen'
      <4>1. \A w \in Written : w < calls + 1
        BY <1>1
      <4>2. QED BY <1>1, <2>2, <3>1, <4>1 DEF OnlyTailOpen
    <3>7. QED BY <3>3, <3>4, <3>5, <3>6 DEF FileInv
  <2>5. QED BY <2>2, <2>3, <2>4 DEF AuditInv
<1>6. ASSUME NEW q \in Patterns, ExecuteRaises(q) PROVE AuditInv'
  <2>1. /\ calls' = calls + 1 /\ freq' = Count(q) /\ failedReads' = failedReads \cup {calls + 1}
        /\ UNCHANGED <<queryLogs, slowQueries, dirty, committed, failedWrites>>
    BY <1>6 DEF ExecuteRaises, Call
  <2>2. LogInv' /\ Logged' = Logged /\ Written' = Written
    BY <2>1, UnloggedCallKeeps
  <2>3. CountInv'
    <3>1. calls + 1 \notin failedReads
      BY <1>1
    <3>2. Cardinality(failedReads') = Cardinality(failedReads) + 1
      BY <1>2, <2>1, <3>1, FS_AddElement
    <3>3. failedReads' \in SUBSET (1 .. calls') /\ Len(queryLogs) \in Nat
      BY <1>1, <2>1 DEF AuditInv, LogInv, InCallOrder
    <3>4. /\ freq' \in [Patterns -> Nat] /\ IsFiniteSet(Counted')
          /\ SumFunctionOnSet(freq', Counted') = SumFunctionOnSet(freq, Counted) + 1
          /\ SumFunctionOnSet(freq, Counted) \in Nat
          /\ SumFunctionOnSet(freq, Counted) = Len(queryLogs) + Cardinality(failedReads)
      BY <2>1, CountAddsOne DEF AuditInv, CountInv
    <3>5. calls' \in Nat /\ queryLogs' = queryLogs
      BY <1>1, <2>1
    <3>6. SumFunctionOnSet(freq', Counted') = Len(queryLogs') + Cardinality(failedReads')
      BY ONLY <1>2, <3>2, <3>3, <3>4, <3>5
    <3>7. QED BY <3>3, <3>4, <3>5, <3>6 DEF CountInv
  <2>4. FileInv'
    BY <1>1, <2>1, <2>2 DEF FileInv, AuditTrail, OnlyTailOpen
  <2>5. QED BY <2>2, <2>3, <2>4 DEF AuditInv
<1>7. ASSUME NEW q \in Patterns, NEW slow \in BOOLEAN, NEW changes \in BOOLEAN,
             Execute(q, changes, slow)
      PROVE  AuditInv'
  <2>1. /\ calls' = calls + 1 /\ freq' = Count(q) /\ LogQuery(Entry(q, FALSE, slow))
        /\ dirty' = IF changes THEN dirty \cup {calls + 1} ELSE dirty
        /\ UNCHANGED <<committed, failedReads, failedWrites>>
    BY <1>7 DEF Execute, Call
  <2>2. CountInv' /\ LogInv' /\ Logged' = Logged \cup {calls + 1} /\ Written' = Written
    BY <2>1, LoggedCallKeeps
  <2>3. FileInv'
    BY <1>1, <2>1, <2>2 DEF FileInv, AuditTrail, OnlyTailOpen
  <2>4. QED BY <2>2, <2>3 DEF AuditInv
<1>8. ASSUME NEW q \in Patterns, NEW slow \in BOOLEAN, ExecuteWrite(q, slow) PROVE AuditInv'
  <2>1. /\ calls' = calls + 1 /\ freq' = Count(q) /\ LogQuery(Entry(q, TRUE, slow))
        /\ committed' = committed \cup dirty \cup {calls + 1} /\ dirty' = {}
        /\ UNCHANGED <<failedReads, failedWrites>>
    BY <1>8 DEF ExecuteWrite, Call, Committed, DirtyAfterCommit
  <2>2. /\ CountInv' /\ LogInv' /\ Logged' = Logged \cup {calls + 1}
        /\ Written' = Written \cup {calls + 1}
    BY <2>1, LoggedCallKeeps
  <2>3. FileInv'
    BY <1>1, <2>1, <2>2 DEF FileInv, AuditTrail, OnlyTailOpen
  <2>4. QED BY <2>2, <2>3 DEF AuditInv
<1>9. QED BY <1>3, <1>4, <1>5, <1>6, <1>7, <1>8 DEF AuditNext

\* middleware.py 48-93: counters, log, slow log and database file agree, but for the
\* calls that raised.
THEOREM AuditAgreesHolds == AuditSpec => []AuditAgrees
<1>1. AuditInv => AuditAgrees
  BY DEF AuditInv, CountInv, Counted, LogInv, InCallOrder, FileInv, AuditAgrees,
         CountsAreLogsAndFailedReads, TotalQueries, SlowAreFlagged
<1>2. QED BY <1>1, AuditStarts, AuditStep, PTL DEF AuditSpec

-----------------------------------------------------------------------------
(***************************************************************************)
(* AuthProvider: tokens go back to logins, and a lost role ages out of them, *)
(* on an unbounded clock.                                                  *)
(***************************************************************************)

UserTable(f) == /\ DOMAIN f \subseteq Emails
            /\ f = [e \in DOMAIN f |-> f[e]]
            /\ \A e \in DOMAIN f : f[e].role \in Roles

ClockInv == halves \in Nat /\ UserTable(users) /\ demoted \in [Emails -> Int]

\* A pair belongs to a registered user and was not issued in the future.
PairInv == \A p \in pairs : /\ p.user \in DOMAIN users /\ p.role \in Roles
                            /\ p.iat \in Nat /\ 2 * p.iat <= halves
                            /\ p.refreshes \in Nat

\* A user below the role of a pair lost it after the pair was issued.
LossInv == \A p \in pairs :
  Level(users[p.user].role) < Level(p.role) => 2 * p.iat <= demoted[p.user]

AuthInv == ClockInv /\ PairInv /\ LossInv /\ UnbrokenChain

LEMMA LevelIsNumber == \A r \in Roles : Level(r) \in Int
BY DEF Roles, Level

\* The clock of the tokens is cut down to whole seconds.
LEMMA NowIsBefore ==
  ASSUME halves \in Nat PROVE Now \in Nat /\ 2 * Now <= halves /\ halves <= 2 * Now + 1
BY DEF Now

LEMMA AuthStarts == AuthInit => AuthInv
BY DEF AuthInit, AuthInv, ClockInv, UserTable, PairInv, LossInv, UnbrokenChain

\* A new pair that carries the user's role of this moment, and whose chain is sound.
LEMMA NewPair ==
  ASSUME AuthInv, NEW e \in DOMAIN users, NEW login, NEW refreshes \in Nat,
         UNCHANGED <<users, halves, demoted>>, logins \subseteq logins',
         pairs' = pairs \cup {Issued(e, login, refreshes)},
         <<e, login>> \in logins',
         IF refreshes = 0
           THEN Now = login
           ELSE \E q \in pairs : /\ q.user = e /\ q.login = login /\ q.refreshes = refreshes - 1
                                 /\ q.iat <= Now /\ Now - q.iat <= REFRESH_TTL
  PROVE  AuthInv'
<1> DEFINE new == Issued(e, login, refreshes)
<1>1. /\ new.user = e /\ new.role = users[e].role /\ new.iat = Now
      /\ new.login = login /\ new.refreshes = refreshes
  BY DEF Issued
<1>2. ClockInv'
  BY DEF AuthInv, ClockInv, UserTable
<1>3. PairInv'
  BY <1>1, NowIsBefore DEF AuthInv, ClockInv, UserTable, PairInv
<1>4. LossInv'
  <2>1. ~(Level(users[e].role) < Level(new.role))
    BY <1>1, LevelIsNumber DEF AuthInv, ClockInv, UserTable
  <2>2. QED BY <1>1, <2>1 DEF AuthInv, LossInv
<1>5. UnbrokenChain'
  BY <1>1 DEF AuthInv, UnbrokenChain
<1>6. QED BY <1>2, <1>3, <1>4, <1>5 DEF AuthInv

LEMMA TickKeeps == ASSUME AuthInv, ClockTick PROVE AuthInv'
BY DEF AuthInv, ClockTick, ClockInv, UserTable, PairInv, LossInv, UnbrokenChain

LEMMA RegisterKeeps ==
  ASSUME AuthInv, NEW e \in Emails, NEW role \in Roles, Register(e, role) PROVE AuthInv'
<1>1. \A f \in DOMAIN users : f \in DOMAIN users' /\ users'[f] = users[f]
  BY DEF Register
<1>2. UserTable(users')
  BY DEF AuthInv, ClockInv, UserTable, Register
<1>3. QED
  BY <1>1, <1>2 DEF AuthInv, ClockInv, PairInv, LossInv, UnbrokenChain, Register

LEMMA EditKeeps ==
  ASSUME AuthInv, NEW e \in Emails, NEW role \in Roles, NEW active \in BOOLEAN,
         Edit(e, role, active)
  PROVE  AuthInv'
<1>1. /\ e \in DOMAIN users /\ DOMAIN users' = DOMAIN users
      /\ users'[e].role = role
      /\ \A f \in DOMAIN users \ {e} : users'[f] = users[f]
      /\ users' = [f \in DOMAIN users' |-> users'[f]]
      /\ UNCHANGED <<pairs, halves, logins>>
  BY DEF Edit
<1>2. /\ demoted' \in [Emails -> Int]
      /\ \A f \in Emails \ {e} : demoted'[f] = demoted[f]
      /\ demoted'[e] = IF Level(role) < Level(users[e].role) THEN halves ELSE demoted[e]
  BY DEF Edit, AuthInv, ClockInv
<1>3. ClockInv' /\ PairInv' /\ UnbrokenChain'
  BY <1>1, <1>2 DEF AuthInv, ClockInv, UserTable, PairInv, UnbrokenChain
<1>4. LossInv'
  <2> SUFFICES ASSUME NEW p \in pairs, Level(users'[p.user].role) < Level(p.role)
               PROVE  2 * p.iat <= demoted'[p.user]
    BY <1>1 DEF LossInv
  <2>1. p.user \in DOMAIN users /\ p.user \in Emails
    BY DEF AuthInv, PairInv, ClockInv, UserTable
  <2>2. CASE p.user # e
    BY <1>1, <1>2, <2>1, <2>2 DEF AuthInv, LossInv
  <2>3. CASE p.user = e /\ Level(role) < Level(users[e].role)
    BY <1>2, <2>3 DEF AuthInv, PairInv
  <2>4. CASE p.user = e /\ ~(Level(role) < Level(users[e].role))
    <3>1. Level(users[e].role) < Level(p.role)
      BY <1>1, <2>1, <2>4, LevelIsNumber DEF AuthInv, PairInv, ClockInv, UserTable
    <3>2. QED BY <1>2, <2>4, <3>1 DEF AuthInv, LossInv
  <2>5. QED BY <2>2, <2>3, <2>4
<1>5. QED BY <1>3, <1>4 DEF AuthInv

LEMMA AuthenticateKeeps ==
  ASSUME AuthInv, NEW e \in Emails, Authenticate(e) PROVE AuthInv'
BY NewPair DEF Authenticate

LEMMA RefreshKeeps ==
  ASSUME REFRESH_TTL \in Nat, AuthInv, NEW p \in pairs, Refresh(p) PROVE AuthInv'
<1>1. /\ p.user \in DOMAIN users /\ p.iat \in Nat
      /\ UNCHANGED <<users, halves, demoted, logins>>
      /\ 2 * (p.iat + REFRESH_TTL) >= halves
      /\ halves \in Nat
  BY DEF Refresh, Valid, AuthInv, PairInv, ClockInv
<1>2. p.iat <= Now /\ Now - p.iat <= REFRESH_TTL
  <2>1. 2 * p.iat <= halves
    BY DEF AuthInv, PairInv
  <2>2. QED BY <1>1, <2>1, NowIsBefore
<1>3. /\ pairs' = pairs \cup {Issued(p.user, p.login, p.refreshes + 1)}
      /\ p.refreshes \in Nat /\ <<p.user, p.login>> \in logins
  BY DEF Refresh, AuthInv, PairInv, UnbrokenChain
<1>4. p.refreshes + 1 \in Nat /\ p.refreshes + 1 # 0 /\ p.refreshes + 1 - 1 = p.refreshes
  BY <1>3
<1>5. QED BY <1>1, <1>2, <1>3, <1>4, NewPair

LEMMA AuthStep == ASSUME REFRESH_TTL \in Nat, AuthInv, [AuthNext]_authVars PROVE AuthInv'
<1>1. CASE UNCHANGED authVars
  BY <1>1 DEF authVars, AuthInv, ClockInv, UserTable, PairInv, LossInv, UnbrokenChain
<1>2. QED
  BY <1>1, TickKeeps, RegisterKeeps, EditKeeps, AuthenticateKeeps, RefreshKeeps DEF AuthNext

\* auth.py 82-118: every token goes back to a login with the password over refreshes none
\* of which came too late, and carries a lost role no longer than one access token does.
THEOREM TokensFollowLoginsHolds ==
  ASSUME ACCESS_TTL \in Nat, REFRESH_TTL \in Nat PROVE AuthSpec => []TokensFollowLogins
<1>1. AuthInv => StaleRoleBounded
  <2> SUFFICES ASSUME AuthInv, NEW p \in pairs, NEW r \in Roles,
                      RequireRole(p, r), Level(users[p.user].role) < Level(r)
               PROVE  halves - demoted[p.user] <= 2 * ACCESS_TTL
    BY DEF StaleRoleBounded
  <2>1. /\ p.user \in DOMAIN users /\ p.user \in Emails /\ p.iat \in Nat
        /\ users[p.user].role \in Roles /\ p.role \in Roles
        /\ halves \in Nat /\ demoted[p.user] \in Int
    BY DEF AuthInv, PairInv, ClockInv, UserTable
  <2>2. 2 * (p.iat + ACCESS_TTL) >= halves /\ Level(p.role) >= Level(r)
    BY <2>1 DEF RequireRole, Verify, Valid
  <2>3. 2 * p.iat <= demoted[p.user]
    BY <2>1, <2>2, LevelIsNumber DEF AuthInv, LossInv
  <2>4. QED BY <2>1, <2>2, <2>3
<1>2. AuthInv => TokensFollowLogins
  BY <1>1 DEF AuthInv, TokensFollowLogins
<1>3. AuthInit => AuthInv
  BY AuthStarts
<1>4. AuthInv /\ [AuthNext]_authVars => AuthInv'
  BY AuthStep
<1>5. QED BY <1>2, <1>3, <1>4, PTL DEF AuthSpec

-----------------------------------------------------------------------------
(***************************************************************************)
(* JobsApi: a remove never takes another job than the one it was pressed on, *)
(* in whatever order the requests travel.                                  *)
(***************************************************************************)

\* A row as a page has seen it: its id was given, and to that very job.
Genuine(job) == job[1] \in 1 .. sequence /\ born[job[1]] = job[2]

\* Ids are never given twice, so what a page once read stays true of its id.
ListingInv == /\ listing = [p \in Pages |-> listing[p]]
              /\ \A p \in Pages : \A job \in listing[p] : Genuine(job)
RequestInv == \A r \in requests : /\ r.kind = "delete" => Genuine(r.job)
                                  /\ r.kind = "rows" => \A job \in r.rows : Genuine(job)
TableInv   == /\ births \in Nat /\ sequence = births /\ births <= MaxJobs
              /\ jobs \subseteq 1 .. sequence
              /\ born \in [1 .. MaxJobs -> Nat]

JobsInv == TableInv /\ ListingInv /\ RequestInv

\* The sequence grows by one with every row.
LEMMA NextIdIsMax == ASSUME sequence \in Nat PROVE Max({sequence, NextId}) = sequence + 1
<1>1. \A x \in {sequence, sequence + 1} :
        (\A y \in {sequence, sequence + 1} : x >= y) <=> x = sequence + 1
  OBVIOUS
<1>2. QED BY <1>1 DEF Max, NextId

LEMMA JobsStarts == ASSUME MaxJobs \in Nat, JobsInit PROVE JobsInv
BY DEF JobsInit, JobsInv, TableInv, ListingInv, RequestInv

\* A request that has come leaves a request for the list, and nothing else new.
LEMMA ReloadIsPlain ==
  ASSUME NEW r, NEW s \in Reload(r), s.kind \in {"delete", "rows"} PROVE s \in requests
BY DEF Reload

LEMMA JobsStep == ASSUME MaxJobs \in Nat, JobsInv, [JobsNext]_jobsVars PROVE JobsInv'
<1> USE DEF JobsInv, TableInv, ListingInv, RequestInv
<1>1. CASE UNCHANGED jobsVars
  BY <1>1 DEF jobsVars, Genuine
<1>2. ASSUME NEW p \in Pages, ClickAdd(p) PROVE JobsInv'
  BY <1>2 DEF ClickAdd, Genuine
<1>3. ASSUME NEW p \in Pages, NEW job \in listing[p], ClickRemove(p, job) PROVE JobsInv'
  BY <1>3 DEF ClickRemove, Genuine
<1>4. ASSUME NEW r \in requests, AddJob(r) PROVE JobsInv'
  <2>1. sequence' = sequence + 1 /\ births' = births + 1 /\ births + 1 <= MaxJobs
    BY <1>4, NextIdIsMax DEF AddJob
  <2>2. TableInv'
    <3>1. jobs' = jobs \cup {sequence + 1} /\ born' = [born EXCEPT ![sequence + 1] = births + 1]
      BY <1>4 DEF AddJob, NextId
    <3>2. sequence + 1 \in 1 .. MaxJobs
      BY <2>1
    <3>3. born' \in [1 .. MaxJobs -> Nat]
      BY <3>1, <3>2
    <3>4. jobs' \subseteq 1 .. sequence'
      BY <2>1, <3>1
    <3>5. QED BY <2>1, <3>3, <3>4
  <2>3. ASSUME NEW job, Genuine(job) PROVE Genuine(job)'
    BY <1>4, <2>1, <2>3 DEF AddJob, NextId, Genuine
  <2>4. ListingInv'
    BY <1>4, <2>3 DEF AddJob
  <2>5. RequestInv'
    BY <1>4, <2>3, ReloadIsPlain DEF AddJob
  <2>6. QED BY <2>2, <2>4, <2>5
<1>5. ASSUME NEW r \in requests, DeleteJob(r) PROVE JobsInv'
  <2>1. ASSUME NEW job, Genuine(job) PROVE Genuine(job)'
    BY <1>5, <2>1 DEF DeleteJob, Genuine
  <2>2. TableInv' /\ ListingInv'
    BY <1>5, <2>1 DEF DeleteJob
  <2>3. RequestInv'
    BY <1>5, <2>1, ReloadIsPlain DEF DeleteJob
  <2>4. QED BY <2>2, <2>3
<1>6. ASSUME NEW r \in requests, GetJobs(r) PROVE JobsInv'
  <2>1. \A i \in jobs : Genuine(<<i, born[i]>>)
    BY DEF Genuine
  <2>2. QED BY <1>6, <2>1 DEF GetJobs, Genuine
<1>7. ASSUME NEW r \in requests, LoadJobs(r) PROVE JobsInv'
  BY <1>7 DEF LoadJobs, Genuine
<1>8. QED BY <1>1, <1>2, <1>3, <1>4, <1>5, <1>6, <1>7 DEF JobsNext

\* app.py 13 and 56-59, script.js 20-23: what a delete removes is the job its button
\* was shown for, or nothing, however stale the listing is.
THEOREM RemovesWhatWasPressedHolds ==
  ASSUME MaxJobs \in Nat PROVE JobsSpec => []RemovesWhatWasPressed
<1>1. JobsInit => JobsInv
  BY JobsStarts
<1>2. JobsInv /\ [JobsNext]_jobsVars => JobsInv'
  BY JobsStep
<1>3. JobsInv => RemovesWhatWasPressed
  BY DEF JobsInv, RequestInv, Genuine, RemovesWhatWasPressed
<1>4. QED BY <1>1, <1>2, <1>3, PTL DEF JobsSpec


-----------------------------------------------------------------------------
(***************************************************************************)
(* DataAggregator: every tick is settled once, in the order of arrival, up *)
(* to the dropped that a second consumer lets through.                  *)
(***************************************************************************)

Waits(t) == \E i \in DOMAIN inbox : inbox[i] = t
InHand(t) == \E c \in DOMAIN consumers : consumers[c].tick = t

Working == {"check", "count", "add", "store"}
Consumer == [at : {"top", "get", "dead"} \cup Working, tick : Ticks \cup {0}]

FeedTypes ==
  /\ tickOf \in [Ticks -> [symbol : Symbols, window : Windows]]
  /\ inbox \in Seq(Ticks) /\ ingested \in Nat
  /\ consumers \in Seq(Consumer)
  /\ history \in [Symbols -> Seq(Ticks)]
  /\ dropped \subseteq Ticks

\* A consumer has a tick exactly while it works, and alone.
HandInv ==
  /\ \A c \in DOMAIN consumers : consumers[c].tick # 0 <=> consumers[c].at \in Working
  /\ \A c, d \in DOMAIN consumers :
       consumers[c].tick = consumers[d].tick /\ consumers[c].tick # 0 => c = d

\* No history has a tick twice, nor one of another symbol.
Histories ==
  \A s \in Symbols :
    /\ \A i, j \in DOMAIN history[s] : history[s][i] = history[s][j] => i = j
    /\ \A i \in DOMAIN history[s] : tickOf[history[s][i]].symbol = s

\* Ticks wait in the order they came, behind all that have been taken.
ArrivalOrder ==
  /\ \A i, j \in DOMAIN inbox : i < j => inbox[i] < inbox[j]
  /\ \A t \in Ticks : InHand(t) \/ InHistory(t) \/ t \in dropped
       => \A i \in DOMAIN inbox : t < inbox[i]

Settled ==
  \A t \in Ticks :
    /\ t <= ingested <=> Waits(t) \/ InHand(t) \/ InHistory(t) \/ t \in dropped
    /\ InHand(t) => ~InHistory(t) /\ t \notin dropped
    /\ InHistory(t) => t \notin dropped

\* What passed the test of a key: stored, or on the way there.
StoredOf(k) == {t \in Ticks : tickOf[t] = k /\ InHistory(t)}
PassingOf(k) == {c \in DOMAIN consumers : /\ consumers[c].at \in {"add", "store"}
                                          /\ tickOf[consumers[c].tick] = k}

KeyInv ==
  /\ \A t \in Ticks : InHistory(t) => tickOf[t] \in seen
  /\ \A c \in DOMAIN consumers : consumers[c].at = "store" => tickOf[consumers[c].tick] \in seen
  /\ \A k : Cardinality(StoredOf(k)) + Cardinality(PassingOf(k)) <= Len(consumers)

Serial ==
  Len(consumers) <= 1 =>
    /\ \A s \in Symbols : \A i, j \in DOMAIN history[s] : i < j => history[s][i] < history[s][j]
    /\ \A t, u \in Ticks : InHand(t) /\ InHistory(u) => u < t

FeedInv == FeedTypes /\ HandInv /\ Histories /\ ArrivalOrder /\ Settled /\ KeyInv /\ Serial

LEMMA FeedStarts == FeedInit => FeedInv
<1> SUFFICES ASSUME FeedInit PROVE FeedInv
  OBVIOUS
<1>1. FeedTypes /\ HandInv /\ Histories /\ ArrivalOrder /\ Serial
  BY DEF FeedInit, FeedTypes, HandInv, Histories, ArrivalOrder, Serial, InHand, InHistory
<1>2. Settled
  <2>1. \A t \in Ticks : t \in Nat /\ t # 0 /\ tickOf[t].symbol \in Symbols
    BY TicksAssumption DEF FeedInit
  <2>2. QED BY <2>1 DEF FeedInit, Settled, Waits, InHand, InHistory
<1>3. KeyInv
  <2>1. \A t \in Ticks : ~InHistory(t)
    BY DEF FeedInit, InHistory
  <2>2. \A k : StoredOf(k) = {} /\ PassingOf(k) = {}
    BY <2>1 DEF FeedInit, StoredOf, PassingOf
  <2>3. Cardinality({}) = 0 /\ Len(consumers) = 0 /\ DOMAIN consumers = {}
    BY FS_EmptySet DEF FeedInit
  <2>4. ASSUME NEW k PROVE Cardinality(StoredOf(k)) + Cardinality(PassingOf(k)) <= Len(consumers)
    <3>1. Cardinality(StoredOf(k)) = 0 /\ Cardinality(PassingOf(k)) = 0
      BY <2>2, <2>3
    <3>2. QED BY <2>3, <3>1
  <2>5. QED BY <2>1, <2>3, <2>4 DEF KeyInv
<1>4. QED BY <1>1, <1>2, <1>3 DEF FeedInv

LEMMA GotoMoves ==
  ASSUME FeedTypes, NEW c \in DOMAIN consumers, NEW place, NEW tick,
         [at |-> place, tick |-> tick] \in Consumer, Goto(c, place, tick)
  PROVE  /\ consumers' \in Seq(Consumer) /\ DOMAIN consumers' = DOMAIN consumers
         /\ Len(consumers') = Len(consumers)
         /\ consumers'[c].at = place /\ consumers'[c].tick = tick
         /\ \A d \in DOMAIN consumers \ {c} : consumers'[d] = consumers[d]
BY DEF FeedTypes, Goto

LEMMA InHandIsTick ==
  ASSUME FeedInv, NEW c \in DOMAIN consumers
  PROVE  /\ consumers[c].tick \in Ticks \cup {0}
         /\ consumers[c].at \in Working => consumers[c].tick \in Ticks
<1>1. consumers[c] \in Consumer
  BY DEF FeedInv, FeedTypes
<1>2. QED BY <1>1 DEF Consumer, FeedInv, HandInv

LEMMA FinitePlaces ==
  ASSUME FeedInv, NEW k
  PROVE  /\ IsFiniteSet(StoredOf(k)) /\ Cardinality(StoredOf(k)) \in Nat
         /\ IsFiniteSet(PassingOf(k)) /\ Cardinality(PassingOf(k)) \in Nat
         /\ Len(consumers) \in Nat /\ DOMAIN consumers = 1 .. Len(consumers)
<1>1. StoredOf(k) \in SUBSET (1 .. ingested) /\ ingested \in Int
  <2>1. ingested \in Nat /\ \A t \in Ticks : t \in Nat /\ t # 0
    BY TicksAssumption DEF FeedInv, FeedTypes
  <2>2. \A t \in StoredOf(k) : t \in Ticks /\ t <= ingested
    BY DEF FeedInv, Settled, StoredOf
  <2>3. \A t \in StoredOf(k) : t \in 1 .. ingested
    BY <2>1, <2>2
  <2>4. QED BY <2>1, <2>3
<1>2. /\ PassingOf(k) \in SUBSET (1 .. Len(consumers)) /\ Len(consumers) \in Int
      /\ Len(consumers) \in Nat /\ DOMAIN consumers = 1 .. Len(consumers)
  BY DEF FeedInv, FeedTypes, PassingOf
<1>3. QED BY <1>1, <1>2, FinitePart

\* A step in which no tick changes its place.
LEMMA PlacesStay ==
  ASSUME FeedInv, UNCHANGED <<tickOf, inbox, ingested, history, dropped>>,
         consumers' \in Seq(Consumer), DOMAIN consumers' = DOMAIN consumers,
         Len(consumers') = Len(consumers),
         \A c \in DOMAIN consumers : /\ consumers'[c].tick = consumers[c].tick
                                     /\ consumers'[c].at \in Working <=> consumers[c].at \in Working
  PROVE  FeedTypes' /\ HandInv' /\ Histories' /\ ArrivalOrder' /\ Settled' /\ Serial'
<1>1. FeedTypes'
  BY DEF FeedInv, FeedTypes
<1>2. HandInv'
  BY DEF FeedInv, HandInv
<1>3. \A t \in Ticks : /\ Waits(t)' <=> Waits(t)
                       /\ InHand(t)' <=> InHand(t)
                       /\ InHistory(t)' <=> InHistory(t)
  BY DEF Waits, InHand, InHistory
<1>4. Histories'
  BY DEF FeedInv, Histories
<1>5. ArrivalOrder'
  BY <1>3 DEF FeedInv, ArrivalOrder
<1>6. Settled'
  BY <1>3 DEF FeedInv, Settled
<1>7. Serial'
  BY <1>3 DEF FeedInv, Serial
<1>8. QED BY <1>1, <1>2, <1>4, <1>5, <1>6, <1>7

\* A step that passes no test and stores nothing.
LEMMA NoneNewPasses ==
  ASSUME FeedInv, UNCHANGED <<tickOf, history>>, seen \subseteq seen', FeedInv => Len(consumers') \in Nat,
         Len(consumers) <= Len(consumers'),
         \A c \in DOMAIN consumers' : consumers'[c].at \in {"add", "store"} =>
           /\ c \in DOMAIN consumers /\ consumers[c].at \in {"add", "store"}
           /\ consumers'[c].tick = consumers[c].tick
           /\ consumers'[c].at = "store" => tickOf[consumers[c].tick] \in seen'
  PROVE  KeyInv'
<1>1. \A t \in Ticks : InHistory(t)' <=> InHistory(t)
  BY DEF InHistory
<1>2. ASSUME NEW k PROVE Cardinality(StoredOf(k)') + Cardinality(PassingOf(k)') <= Len(consumers')
  <2>1. StoredOf(k)' = StoredOf(k)
    BY <1>1 DEF StoredOf
  <2>2. PassingOf(k)' \in SUBSET PassingOf(k)
    BY DEF PassingOf
  <2>3. /\ Cardinality(PassingOf(k)') <= Cardinality(PassingOf(k)) /\ Cardinality(PassingOf(k)') \in Nat
        /\ Cardinality(StoredOf(k)) \in Nat /\ Cardinality(PassingOf(k)) \in Nat
        /\ Len(consumers) \in Nat
    BY <2>2, FinitePlaces, FiniteSize
  <2>4. Cardinality(StoredOf(k)) + Cardinality(PassingOf(k)) <= Len(consumers)
    BY DEF FeedInv, KeyInv
  <2>5. QED BY <2>1, <2>3, <2>4
<1>3. \A t \in Ticks : InHistory(t)' => tickOf'[t] \in seen'
  BY <1>1 DEF FeedInv, KeyInv
<1>4. \A c \in DOMAIN consumers' : consumers'[c].at = "store" => tickOf'[consumers'[c].tick] \in seen'
  OBVIOUS
<1>5. QED BY <1>2, <1>3, <1>4 DEF KeyInv

\* Steps of consumers that keep what they have, and of stop().
LEMMA QuietKeeps ==
  ASSUME FeedInv, \/ Stop
                  \/ \E c \in DOMAIN consumers : CheckRunning(c) \/ GetNothing(c) \/ AddSeen(c)
                                                 \/ FindDuplicate(c)
  PROVE  FeedInv'
<1>1. CASE Stop
  <2>1. UNCHANGED <<tickOf, inbox, ingested, history, dropped, consumers, seen>>
    BY <1>1 DEF Stop
  <2>2. consumers' \in Seq(Consumer) /\ Len(consumers') = Len(consumers) /\ Len(consumers) \in Nat
    BY <2>1 DEF FeedInv, FeedTypes
  <2>3. \A c \in DOMAIN consumers : consumers[c].at = "store" => tickOf[consumers[c].tick] \in seen
    BY DEF FeedInv, KeyInv
  <2>4. QED BY <2>1, <2>2, <2>3, PlacesStay, NoneNewPasses DEF FeedInv
<1>2. ASSUME NEW c \in DOMAIN consumers, CheckRunning(c) \/ GetNothing(c) PROVE FeedInv'
  <2>1. /\ consumers[c].at \in {"top", "get"} /\ consumers[c].tick = 0
        /\ \E place \in {"top", "get", "dead"} : Goto(c, place, 0)
        /\ UNCHANGED <<tickOf, inbox, ingested, history, dropped, seen>>
    BY <1>2 DEF CheckRunning, GetNothing, FeedInv, HandInv, Working
  <2>2. PICK place \in {"top", "get", "dead"} : Goto(c, place, 0)
    BY <2>1
  <2>3. [at |-> place, tick |-> 0] \in Consumer
    BY DEF Consumer
  <2>4. /\ consumers' \in Seq(Consumer) /\ DOMAIN consumers' = DOMAIN consumers
        /\ Len(consumers') = Len(consumers) /\ Len(consumers) \in Nat
        /\ consumers'[c].at = place /\ consumers'[c].tick = 0
        /\ \A d \in DOMAIN consumers \ {c} : consumers'[d] = consumers[d]
    BY <2>2, <2>3, GotoMoves, FinitePlaces DEF FeedInv
  <2>5. FeedTypes' /\ HandInv' /\ Histories' /\ ArrivalOrder' /\ Settled' /\ Serial'
    BY <2>1, <2>4, PlacesStay DEF Working
  <2>6. KeyInv'
    <3>1. \A d \in DOMAIN consumers : consumers[d].at = "store" => tickOf[consumers[d].tick] \in seen
      BY DEF FeedInv, KeyInv
    <3>2. QED BY <2>1, <2>4, <3>1, NoneNewPasses
  <2>7. QED BY <2>5, <2>6 DEF FeedInv
<1>3. ASSUME NEW c \in DOMAIN consumers, AddSeen(c) PROVE FeedInv'
  <2> DEFINE t == consumers[c].tick
  <2>1. /\ consumers[c].at = "add" /\ Goto(c, "store", t) /\ seen' = seen \cup {tickOf[t]}
        /\ UNCHANGED <<tickOf, inbox, ingested, history, dropped>>
    BY <1>3 DEF AddSeen, SeenWith
  <2>2. [at |-> "store", tick |-> t] \in Consumer
    BY InHandIsTick DEF Consumer, Working
  <2>3. /\ consumers' \in Seq(Consumer) /\ DOMAIN consumers' = DOMAIN consumers
        /\ Len(consumers') = Len(consumers) /\ Len(consumers) \in Nat
        /\ consumers'[c].at = "store" /\ consumers'[c].tick = t
        /\ \A d \in DOMAIN consumers \ {c} : consumers'[d] = consumers[d]
    BY <2>1, <2>2, GotoMoves, FinitePlaces DEF FeedInv
  <2>4. FeedTypes' /\ HandInv' /\ Histories' /\ ArrivalOrder' /\ Settled' /\ Serial'
    BY <2>1, <2>3, PlacesStay DEF Working
  <2>5. KeyInv'
    <3>1. \A d \in DOMAIN consumers : consumers[d].at = "store" => tickOf[consumers[d].tick] \in seen
      BY DEF FeedInv, KeyInv
    <3>2. QED BY <2>1, <2>3, <3>1, NoneNewPasses
  <2>6. QED BY <2>4, <2>5 DEF FeedInv
<1>4. ASSUME NEW c \in DOMAIN consumers, FindDuplicate(c) PROVE FeedInv'
  <2> DEFINE t == consumers[c].tick
  <2>1. /\ consumers[c].at = "check" /\ Goto(c, "count", t)
        /\ UNCHANGED <<tickOf, inbox, ingested, history, dropped, seen>>
    BY <1>4 DEF FindDuplicate
  <2>2. [at |-> "count", tick |-> t] \in Consumer
    BY <2>1, InHandIsTick DEF Consumer, Working
  <2>3. /\ consumers' \in Seq(Consumer) /\ DOMAIN consumers' = DOMAIN consumers
        /\ Len(consumers') = Len(consumers) /\ Len(consumers) \in Nat
        /\ consumers'[c].at = "count" /\ consumers'[c].tick = t
        /\ \A d \in DOMAIN consumers \ {c} : consumers'[d] = consumers[d]
    BY <2>1, <2>2, GotoMoves, FinitePlaces DEF FeedInv
  <2>4. FeedTypes' /\ HandInv' /\ Histories' /\ ArrivalOrder' /\ Settled' /\ Serial'
    BY <2>1, <2>3, PlacesStay DEF Working
  <2>5. KeyInv'
    <3>1. \A d \in DOMAIN consumers : consumers[d].at = "store" => tickOf[consumers[d].tick] \in seen
      BY DEF FeedInv, KeyInv
    <3>2. QED BY <2>1, <2>3, <3>1, NoneNewPasses
  <2>6. QED BY <2>4, <2>5 DEF FeedInv
<1>5. QED BY <1>1, <1>2, <1>3, <1>4

\* A tick whose key is not seen is passed: so far nothing of its key is stored.
LEMMA PassCheckKeeps ==
  ASSUME FeedInv, NEW c \in DOMAIN consumers, PassCheck(c) PROVE FeedInv'
<1> DEFINE t == consumers[c].tick
<1>1. /\ consumers[c].at = "check" /\ Goto(c, "add", t) /\ tickOf[t] \notin seen
      /\ UNCHANGED <<tickOf, inbox, ingested, history, dropped, seen>>
  BY DEF PassCheck
<1>2. [at |-> "add", tick |-> t] \in Consumer
  BY InHandIsTick DEF Consumer, Working
<1>3. /\ consumers' \in Seq(Consumer) /\ DOMAIN consumers' = DOMAIN consumers
      /\ Len(consumers') = Len(consumers) /\ Len(consumers) \in Nat
      /\ consumers'[c].at = "add" /\ consumers'[c].tick = t
      /\ \A d \in DOMAIN consumers \ {c} : consumers'[d] = consumers[d]
  BY <1>1, <1>2, GotoMoves, FinitePlaces DEF FeedInv
<1>4. FeedTypes' /\ HandInv' /\ Histories' /\ ArrivalOrder' /\ Settled' /\ Serial'
  BY <1>1, <1>3, PlacesStay DEF Working
<1>5. \A u \in Ticks : InHistory(u)' <=> InHistory(u)
  BY <1>1 DEF InHistory
<1>6. ASSUME NEW k PROVE Cardinality(StoredOf(k)') + Cardinality(PassingOf(k)') <= Len(consumers')
  <2>1. StoredOf(k)' = StoredOf(k)
    BY <1>1, <1>5 DEF StoredOf
  <2>2. CASE k = tickOf[t]
    <3>1. StoredOf(k) = {}
      BY <1>1, <2>2 DEF FeedInv, KeyInv, StoredOf
    <3>2. PassingOf(k)' \in SUBSET (1 .. Len(consumers)) /\ Len(consumers) \in Nat
      BY <1>3, FinitePlaces DEF PassingOf
    <3>3. Cardinality(PassingOf(k)') <= Len(consumers) /\ Cardinality(PassingOf(k)') \in Nat
      <4>1. IsFiniteSet(1 .. Len(consumers)) /\ Cardinality(1 .. Len(consumers)) = Len(consumers)
        BY <3>2, IntervalSize
      <4>2. QED BY <3>2, <4>1, FiniteSize
    <3>4. Cardinality(StoredOf(k)') = 0
      BY <2>1, <3>1, FS_EmptySet
    <3>5. QED BY <1>3, <3>3, <3>4
  <2>3. CASE k # tickOf[t]
    <3>1. PassingOf(k)' = PassingOf(k)
      BY <1>1, <1>3, <2>3 DEF PassingOf
    <3>2. QED BY <1>3, <2>1, <3>1 DEF FeedInv, KeyInv
  <2>4. QED BY <2>2, <2>3
<1>7. KeyInv'
  <2>1. \A u \in Ticks : InHistory(u)' => tickOf'[u] \in seen'
    BY <1>1, <1>5 DEF FeedInv, KeyInv
  <2>2. \A d \in DOMAIN consumers' : consumers'[d].at = "store" => tickOf'[consumers'[d].tick] \in seen'
    BY <1>1, <1>3 DEF FeedInv, KeyInv
  <2>3. QED BY <1>6, <2>1, <2>2 DEF KeyInv
<1>8. QED BY <1>4, <1>7 DEF FeedInv

\* A put adds a tick behind all others.
LEMMA IngestKeeps == ASSUME FeedInv, Ingest PROVE FeedInv'
<1>0. PICK n \in Nat : n = ingested + 1
  BY DEF FeedInv, FeedTypes
<1>1. /\ n \in Ticks /\ n \in Nat /\ ingested \in Nat /\ inbox \in Seq(Ticks) /\ ingested' = n
      /\ inbox' = Append(inbox, n) /\ \A t \in Ticks : t \in Nat /\ t # 0
      /\ UNCHANGED <<tickOf, seen, history, consumers, dropped>>
  BY <1>0, TicksAssumption DEF Ingest, FeedInv, FeedTypes
<1>2. /\ Len(inbox) \in Nat /\ DOMAIN inbox = 1 .. Len(inbox) /\ inbox' \in Seq(Ticks)
      /\ DOMAIN inbox' = 1 .. (Len(inbox) + 1) /\ inbox'[Len(inbox) + 1] = n
      /\ \A i \in DOMAIN inbox : inbox'[i] = inbox[i] /\ inbox[i] \in Ticks
  BY <1>1
<1>3. \A i \in DOMAIN inbox' : i \in DOMAIN inbox \/ i = Len(inbox) + 1
  BY <1>2
<1>4. \A t \in Ticks : /\ Waits(t)' <=> Waits(t) \/ t = n
                       /\ InHand(t)' <=> InHand(t)
                       /\ InHistory(t)' <=> InHistory(t)
  <2>1. \A t \in Ticks : Waits(t)' => Waits(t) \/ t = n
    BY <1>2, <1>3 DEF Waits
  <2>2. Waits(n)' /\ \A t \in Ticks : Waits(t) => Waits(t)'
    BY <1>2 DEF Waits
  <2>3. \A t \in Ticks : /\ InHand(t)' <=> InHand(t)
                         /\ InHistory(t)' <=> InHistory(t)
    BY <1>1 DEF InHand, InHistory
  <2>4. QED BY <1>1, <2>1, <2>2, <2>3
<1>5. \A t \in Ticks : /\ t <= n <=> t <= ingested \/ t = n
                       /\ Waits(t) \/ InHand(t) \/ InHistory(t) \/ t \in dropped => t < n
  <2>1. \A t \in Ticks : t <= n <=> t <= ingested \/ t = n
    BY <1>0, <1>1
  <2>2. \A t \in Ticks : t <= ingested => t < n
    BY <1>0, <1>1
  <2>3. QED BY <2>1, <2>2 DEF FeedInv, Settled
<1>6. Settled'
  <2>1. \A t \in Ticks : /\ t <= ingested <=> Waits(t) \/ InHand(t) \/ InHistory(t) \/ t \in dropped
                         /\ InHand(t) => ~InHistory(t) /\ t \notin dropped
                         /\ InHistory(t) => t \notin dropped
    BY DEF FeedInv, Settled
  <2>2. QED BY <1>1, <1>4, <1>5, <2>1 DEF Settled
<1>7. ArrivalOrder'
  <2>1. \A i \in DOMAIN inbox : Waits(inbox[i]) /\ inbox[i] < n
    BY <1>2, <1>5 DEF Waits
  <2>2. ASSUME NEW i \in DOMAIN inbox', NEW j \in DOMAIN inbox', i < j PROVE inbox'[i] < inbox'[j]
    <3>1. i \in DOMAIN inbox
      BY <1>2, <1>3, <2>2
    <3>2. CASE j \in DOMAIN inbox
      BY <1>2, <2>2, <3>1, <3>2 DEF FeedInv, ArrivalOrder
    <3>3. CASE j = Len(inbox) + 1
      BY <1>2, <2>1, <3>1, <3>3
    <3>4. QED BY <1>3, <3>2, <3>3
  <2>3. ASSUME NEW t \in Ticks, InHand(t) \/ InHistory(t) \/ t \in dropped, NEW i \in DOMAIN inbox'
        PROVE  t < inbox'[i]
    <3>1. \A j \in DOMAIN inbox : t < inbox[j]
      BY <2>3 DEF FeedInv, ArrivalOrder
    <3>2. t < n
      BY <1>5, <2>3
    <3>3. QED BY <1>2, <1>3, <3>1, <3>2
  <2>4. \A u \in Ticks : InHand(u)' \/ InHistory(u)' \/ u \in dropped'
                           => InHand(u) \/ InHistory(u) \/ u \in dropped
    BY <1>1, <1>4
  <2>5. QED BY <2>2, <2>3, <2>4 DEF ArrivalOrder
<1>8. FeedTypes' /\ HandInv' /\ Histories'
  BY <1>1, <1>2 DEF FeedInv, FeedTypes, HandInv, Histories
<1>9. Serial'
  BY <1>1, <1>4 DEF FeedInv, Serial
<1>10. KeyInv'
  <2>1. Len(consumers') = Len(consumers) /\ Len(consumers) \in Nat
    BY <1>1, FinitePlaces
  <2>2. \A c \in DOMAIN consumers : consumers[c].at = "store" => tickOf[consumers[c].tick] \in seen
    BY DEF FeedInv, KeyInv
  <2>3. QED BY <1>1, <2>1, <2>2, NoneNewPasses
<1>11. QED BY <1>6, <1>7, <1>8, <1>9, <1>10 DEF FeedInv

\* One consumer more, with nothing in its hands.
LEMMA StartKeeps == ASSUME FeedInv, Start PROVE FeedInv'
<1> DEFINE new == [at |-> "top", tick |-> 0]
           k == Len(consumers) + 1
<1>1. /\ consumers' = Append(consumers, new) /\ new \in Consumer /\ consumers \in Seq(Consumer)
      /\ UNCHANGED <<tickOf, inbox, ingested, seen, history, dropped>>
  BY DEF Start, FeedInv, FeedTypes, Consumer
<1>2. /\ Len(consumers) \in Nat /\ DOMAIN consumers = 1 .. Len(consumers)
      /\ consumers' \in Seq(Consumer) /\ Len(consumers') = k /\ DOMAIN consumers' = 1 .. k
      /\ consumers'[k] = new /\ \A c \in DOMAIN consumers : consumers'[c] = consumers[c]
  BY <1>1
<1>3. /\ \A c \in DOMAIN consumers' : c \in DOMAIN consumers \/ c = k
      /\ new.at = "top" /\ new.tick = 0
      /\ \A c \in DOMAIN consumers : c \in DOMAIN consumers'
  BY <1>2
<1> HIDE DEF new, k
<1>4. FeedTypes' /\ Histories'
  BY <1>1, <1>2 DEF FeedInv, FeedTypes, Histories
<1>5. HandInv'
  BY <1>2, <1>3 DEF FeedInv, HandInv, Working
<1>6. \A t \in Ticks : /\ Waits(t)' <=> Waits(t)
                       /\ InHand(t)' <=> InHand(t)
                       /\ InHistory(t)' <=> InHistory(t)
  <2>1. \A t \in Ticks : InHand(t)' <=> InHand(t)
    BY <1>2, <1>3, TicksAssumption DEF InHand
  <2>2. QED BY <1>1, <2>1 DEF Waits, InHistory
<1>7. ArrivalOrder' /\ Settled'
  BY <1>1, <1>6 DEF FeedInv, ArrivalOrder, Settled
<1>8. Serial'
  <2>1. Len(consumers') <= 1 => Len(consumers) <= 1
    BY <1>2 DEF k
  <2>2. QED BY <1>1, <1>6, <2>1 DEF FeedInv, Serial
<1>9. KeyInv'
  <2>1. Len(consumers) <= Len(consumers') /\ Len(consumers') \in Nat
    BY <1>2 DEF k
  <2>2. \A c \in DOMAIN consumers : consumers[c].at = "store" => tickOf[consumers[c].tick] \in seen
    BY DEF FeedInv, KeyInv
  <2>3. QED BY <1>1, <1>2, <1>3, <2>1, <2>2, NoneNewPasses
<1>10. QED BY <1>4, <1>5, <1>7, <1>8, <1>9 DEF FeedInv

\* A get hands the first of the ticks that wait to the consumer.
LEMMA GetTickKeeps == ASSUME FeedInv, NEW c \in DOMAIN consumers, GetTick(c) PROVE FeedInv'
<1>1. /\ consumers[c].at = "get" /\ inbox # <<>> /\ consumers[c].tick = 0
      /\ Goto(c, "check", Head(inbox)) /\ inbox' = Tail(inbox) /\ inbox \in Seq(Ticks)
      /\ UNCHANGED <<tickOf, ingested, seen, history, dropped>>
  BY DEF GetTick, AfterGet, FeedInv, FeedTypes, HandInv, Working
<1>2. PICK n \in Nat : Len(inbox) = n + 1
  BY <1>1
<1>3. PICK t \in Ticks : t = Head(inbox)
  BY <1>1
<1>4. /\ DOMAIN inbox = 1 .. (n + 1) /\ t = inbox[1] /\ inbox' \in Seq(Ticks) /\ DOMAIN inbox' = 1 .. n
      /\ \A i \in 1 .. n : inbox'[i] = inbox[i + 1] /\ i + 1 \in DOMAIN inbox
      /\ \A i \in DOMAIN inbox : i # 1 => i - 1 \in 1 .. n /\ inbox'[i - 1] = inbox[i]
      /\ 1 \in DOMAIN inbox
  BY <1>1, <1>2, <1>3
<1>5. [at |-> "check", tick |-> t] \in Consumer
  BY DEF Consumer, Working
<1>6. /\ consumers' \in Seq(Consumer) /\ DOMAIN consumers' = DOMAIN consumers
      /\ Len(consumers') = Len(consumers) /\ Len(consumers) \in Nat
      /\ consumers'[c].at = "check" /\ consumers'[c].tick = t
      /\ \A d \in DOMAIN consumers \ {c} : consumers'[d] = consumers[d]
  BY <1>1, <1>3, <1>5, GotoMoves, FinitePlaces DEF FeedInv
<1>7. /\ \A u \in Ticks : u \in Nat /\ u # 0
      /\ \A i, j \in DOMAIN inbox : i < j => inbox[i] < inbox[j]
      /\ \A i \in DOMAIN inbox : inbox[i] \in Ticks
  <2>1. \A i \in DOMAIN inbox : inbox[i] \in Ticks
    BY <1>1
  <2>2. \A i, j \in DOMAIN inbox : i < j => inbox[i] < inbox[j]
    BY DEF FeedInv, ArrivalOrder
  <2>3. \A u \in Ticks : u \in Nat /\ u # 0
    BY TicksAssumption
  <2>4. QED BY <2>1, <2>2, <2>3
<1>8. Waits(t) /\ ~InHand(t) /\ ~InHistory(t) /\ t \notin dropped
  BY <1>4, <1>7 DEF Waits, FeedInv, ArrivalOrder
<1>9. \A u \in Ticks : /\ Waits(u)' <=> Waits(u) /\ u # t
                       /\ InHand(u)' <=> InHand(u) \/ u = t
                       /\ InHistory(u)' <=> InHistory(u)
  <2>1. ASSUME NEW u \in Ticks, Waits(u)' PROVE Waits(u) /\ u # t
    <3>1. PICK i \in 1 .. n : inbox'[i] = u
      BY <1>4, <2>1 DEF Waits
    <3>2. i + 1 \in DOMAIN inbox /\ inbox[i + 1] = u /\ 1 < i + 1
      BY <1>4, <3>1
    <3>3. inbox[1] < inbox[i + 1]
      BY <1>4, <1>7, <3>2
    <3>4. u # t
      BY <1>4, <1>7, <3>2, <3>3
    <3>5. QED BY <3>2, <3>4 DEF Waits
  <2>2. ASSUME NEW u \in Ticks, Waits(u), u # t PROVE Waits(u)'
    BY <1>4, <2>2 DEF Waits
  <2>3. \A u \in Ticks : InHand(u)' <=> InHand(u) \/ u = t
    BY <1>1, <1>6, <1>7 DEF InHand
  <2>4. \A u \in Ticks : InHistory(u)' <=> InHistory(u)
    BY <1>1 DEF InHistory
  <2>5. QED BY <2>1, <2>2, <2>3, <2>4
<1>10. FeedTypes' /\ Histories'
  BY <1>1, <1>4, <1>6 DEF FeedInv, FeedTypes, Histories
<1>11. HandInv'
  <2>1. \A d \in DOMAIN consumers : consumers[d].tick # t
    BY <1>8 DEF InHand
  <2>2. QED BY <1>6, <1>7, <2>1 DEF FeedInv, HandInv, Working
<1>12. Settled'
  BY <1>1, <1>8, <1>9 DEF FeedInv, Settled
<1>13. ArrivalOrder'
  <2>1. ASSUME NEW i \in DOMAIN inbox', NEW j \in DOMAIN inbox', i < j PROVE inbox'[i] < inbox'[j]
    <3>1. i + 1 \in DOMAIN inbox /\ j + 1 \in DOMAIN inbox /\ i + 1 < j + 1
      BY <1>4, <2>1
    <3>2. inbox[i + 1] < inbox[j + 1]
      BY <1>7, <3>1
    <3>3. QED BY <1>4, <3>2
  <2>2. ASSUME NEW u \in Ticks, InHand(u) \/ InHistory(u) \/ u \in dropped \/ u = t,
               NEW i \in DOMAIN inbox'
        PROVE  u < inbox'[i]
    <3>1. i + 1 \in DOMAIN inbox /\ inbox'[i] = inbox[i + 1] /\ 1 < i + 1
      BY <1>4
    <3>2. t < inbox[i + 1]
      BY <1>4, <1>7, <3>1
    <3>3. u = t \/ u < inbox[i + 1]
      BY <2>2, <3>1 DEF FeedInv, ArrivalOrder
    <3>4. QED BY <3>1, <3>2, <3>3
  <2>3. \A u \in Ticks : InHand(u)' \/ InHistory(u)' \/ u \in dropped'
                           => InHand(u) \/ InHistory(u) \/ u \in dropped \/ u = t
    BY <1>1, <1>9
  <2>4. QED BY <2>1, <2>2, <2>3 DEF ArrivalOrder
<1>14. Serial'
  <2>1. \A u \in Ticks : InHistory(u) => u < t
    BY <1>4 DEF FeedInv, ArrivalOrder
  <2>2. QED BY <1>1, <1>6, <1>9, <2>1 DEF FeedInv, Serial
<1>15. KeyInv'
  <2>1. \A d \in DOMAIN consumers : consumers[d].at = "store" => tickOf[consumers[d].tick] \in seen
    BY DEF FeedInv, KeyInv
  <2>2. QED BY <1>1, <1>6, <2>1, NoneNewPasses
<1>16. QED BY <1>10, <1>11, <1>12, <1>13, <1>14, <1>15 DEF FeedInv

\* A consumer puts its tick away and goes back to the top of its loop.
LEMMA PutAway ==
  ASSUME FeedInv, NEW c \in DOMAIN consumers, consumers[c].at \in Working, Goto(c, "top", 0)
  PROVE  /\ consumers' \in Seq(Consumer) /\ DOMAIN consumers' = DOMAIN consumers
         /\ Len(consumers') = Len(consumers) /\ Len(consumers) \in Nat
         /\ consumers'[c].at = "top" /\ consumers'[c].tick = 0
         /\ \A d \in DOMAIN consumers \ {c} : consumers'[d] = consumers[d]
         /\ HandInv' /\ InHand(consumers[c].tick)
         /\ \A u \in Ticks : InHand(u)' <=> InHand(u) /\ u # consumers[c].tick
<1>1. [at |-> "top", tick |-> 0] \in Consumer
  BY DEF Consumer
<1>2. /\ consumers' \in Seq(Consumer) /\ DOMAIN consumers' = DOMAIN consumers
      /\ Len(consumers') = Len(consumers) /\ Len(consumers) \in Nat
      /\ consumers'[c].at = "top" /\ consumers'[c].tick = 0
      /\ \A d \in DOMAIN consumers \ {c} : consumers'[d] = consumers[d]
  BY <1>1, GotoMoves, FinitePlaces DEF FeedInv
<1>3. consumers[c].tick \in Ticks /\ \A u \in Ticks : u # 0
  BY InHandIsTick, TicksAssumption
<1>4. HandInv'
  BY <1>2 DEF FeedInv, HandInv, Working
<1>5. ASSUME NEW u \in Ticks PROVE InHand(u)' <=> InHand(u) /\ u # consumers[c].tick
  <2>1. \A d \in DOMAIN consumers \ {c} : consumers[d].tick # consumers[c].tick
    BY <1>3 DEF FeedInv, HandInv
  <2>2. ASSUME InHand(u)' PROVE InHand(u) /\ u # consumers[c].tick
    BY <1>2, <1>3, <2>1, <2>2 DEF InHand
  <2>3. ASSUME InHand(u), u # consumers[c].tick PROVE InHand(u)'
    BY <1>2, <2>3 DEF InHand
  <2>4. QED BY <2>2, <2>3
<1>6. QED BY <1>2, <1>4, <1>5 DEF InHand

LEMMA DropDuplicateKeeps ==
  ASSUME FeedInv, NEW c \in DOMAIN consumers, DropDuplicate(c) PROVE FeedInv'
<1>1. PICK t \in Ticks : t = consumers[c].tick
  BY InHandIsTick DEF DropDuplicate, Working
<1>2. /\ consumers[c].at \in Working /\ Goto(c, "top", 0) /\ dropped' = dropped \cup {t}
      /\ UNCHANGED <<tickOf, inbox, ingested, seen, history>>
  BY <1>1 DEF DropDuplicate, Working
<1>3. /\ consumers' \in Seq(Consumer) /\ DOMAIN consumers' = DOMAIN consumers
      /\ Len(consumers') = Len(consumers) /\ Len(consumers) \in Nat
      /\ consumers'[c].at = "top" /\ consumers'[c].tick = 0
      /\ \A d \in DOMAIN consumers \ {c} : consumers'[d] = consumers[d]
      /\ HandInv' /\ InHand(t)
      /\ \A u \in Ticks : InHand(u)' <=> InHand(u) /\ u # t
  BY <1>1, <1>2, PutAway
<1>4. \A u \in Ticks : /\ Waits(u)' <=> Waits(u)
                       /\ InHistory(u)' <=> InHistory(u)
                       /\ u \in dropped' <=> u \in dropped \/ u = t
  BY <1>2 DEF Waits, InHistory
<1>5. FeedTypes' /\ Histories'
  BY <1>2, <1>3 DEF FeedInv, FeedTypes, Histories
<1>6. Settled'
  BY <1>2, <1>3, <1>4 DEF FeedInv, Settled
<1>7. ArrivalOrder'
  BY <1>2, <1>3, <1>4 DEF FeedInv, ArrivalOrder
<1>8. Serial'
  BY <1>2, <1>3, <1>4 DEF FeedInv, Serial
<1>9. KeyInv'
  <2>1. \A d \in DOMAIN consumers : consumers[d].at = "store" => tickOf[consumers[d].tick] \in seen
    BY DEF FeedInv, KeyInv
  <2>2. QED BY <1>2, <1>3, <2>1, NoneNewPasses
<1>10. QED BY <1>3, <1>5, <1>6, <1>7, <1>8, <1>9 DEF FeedInv

\* What Store makes of the histories: one tick more, at the end of that of its symbol.
LEMMA StoreAppends ==
  ASSUME FeedInv, NEW t \in Ticks, history' = Stored(t), UNCHANGED tickOf
  PROVE  /\ history' \in [Symbols -> Seq(Ticks)]
         /\ \A s \in Symbols : history'[s] = IF s = tickOf[t].symbol THEN Append(history[s], t) ELSE history[s]
         /\ \A u \in Ticks : InHistory(u)' <=> InHistory(u) \/ u = t
<1>1. history \in [Symbols -> Seq(Ticks)] /\ \A u \in Ticks : tickOf[u].symbol \in Symbols
  BY DEF FeedInv, FeedTypes
<1>2. \A s \in Symbols : history'[s] = IF s = tickOf[t].symbol THEN Append(history[s], t) ELSE history[s]
  BY <1>1 DEF Stored
<1>3. history' \in [Symbols -> Seq(Ticks)]
  BY <1>1 DEF Stored
<1>4. ASSUME NEW u \in Ticks PROVE InHistory(u)' <=> InHistory(u) \/ u = t
  <2>1. CASE tickOf[u].symbol # tickOf[t].symbol
    <3>1. history'[tickOf[u].symbol] = history[tickOf[u].symbol] /\ u # t
      BY <1>1, <1>2, <2>1
    <3>2. QED BY <3>1 DEF InHistory
  <2>2. CASE tickOf[u].symbol = tickOf[t].symbol
    <3>1. PICK h \in Seq(Ticks) : h = history[tickOf[t].symbol]
      BY <1>1
    <3>2. /\ history'[tickOf[u].symbol] = Append(h, t) /\ history[tickOf[u].symbol] = h
      BY <1>1, <1>2, <2>2, <3>1
    <3>7. Len(h) \in Nat /\ DOMAIN h = 1 .. Len(h)
      BY <3>1
    <3>3. /\ DOMAIN Append(h, t) = 1 .. (Len(h) + 1) /\ Append(h, t)[Len(h) + 1] = t
          /\ \A i \in DOMAIN h : Append(h, t)[i] = h[i] /\ i \in DOMAIN Append(h, t)
          /\ \A i \in DOMAIN Append(h, t) : i \in DOMAIN h \/ i = Len(h) + 1
          /\ Len(h) + 1 \in DOMAIN Append(h, t)
      BY <3>1, <3>7
    <3>4. InHistory(u)' <=> \E i \in DOMAIN Append(h, t) : Append(h, t)[i] = u
      BY <3>2 DEF InHistory
    <3>5. InHistory(u) <=> \E i \in DOMAIN h : h[i] = u
      BY <3>2 DEF InHistory
    <3>6. QED BY <3>3, <3>4, <3>5
  <2>3. QED BY <2>1, <2>2
<1>5. QED BY <1>2, <1>3, <1>4

LEMMA StoreKeeps == ASSUME FeedInv, NEW c \in DOMAIN consumers, Store(c) PROVE FeedInv'
<1>1. PICK t \in Ticks : t = consumers[c].tick
  BY InHandIsTick DEF Store, Working
<1>2. /\ consumers[c].at = "store" /\ Goto(c, "top", 0) /\ history' = Stored(t) /\ "store" \in Working
      /\ UNCHANGED <<tickOf, inbox, ingested, seen, dropped>>
  BY <1>1 DEF Store, Working
<1>3. /\ consumers' \in Seq(Consumer) /\ DOMAIN consumers' = DOMAIN consumers
      /\ Len(consumers') = Len(consumers) /\ Len(consumers) \in Nat
      /\ consumers'[c].at = "top" /\ consumers'[c].tick = 0
      /\ \A d \in DOMAIN consumers \ {c} : consumers'[d] = consumers[d]
      /\ HandInv' /\ InHand(t)
      /\ \A u \in Ticks : InHand(u)' <=> InHand(u) /\ u # t
  BY <1>1, <1>2, PutAway
<1>4. /\ history' \in [Symbols -> Seq(Ticks)]
      /\ \A s \in Symbols : history'[s] = IF s = tickOf[t].symbol THEN Append(history[s], t) ELSE history[s]
      /\ \A u \in Ticks : InHistory(u)' <=> InHistory(u) \/ u = t
  BY <1>2, StoreAppends
<1>5. \A u \in Ticks : Waits(u)' <=> Waits(u)
  BY <1>2 DEF Waits
<1>6. FeedTypes'
  BY <1>2, <1>3, <1>4 DEF FeedInv, FeedTypes
<1>7. ~InHistory(t) /\ t \notin dropped
  BY <1>3 DEF FeedInv, Settled
<1>8. ASSUME NEW s \in Symbols, s = tickOf[t].symbol
      PROVE  \E h \in Seq(Ticks) :
               /\ h = history[s] /\ history'[s] = Append(h, t)
               /\ Len(h) \in Nat /\ DOMAIN h = 1 .. Len(h)
               /\ DOMAIN history'[s] = 1 .. (Len(h) + 1) /\ history'[s][Len(h) + 1] = t
               /\ \A i \in DOMAIN history'[s] : \/ i = Len(h) + 1
                                                \/ i \in DOMAIN h /\ history'[s][i] = h[i]
               /\ \A i \in DOMAIN h : h[i] # t /\ tickOf[h[i]].symbol = s /\ h[i] \in Ticks /\ InHistory(h[i])
  <2>1. PICK h \in Seq(Ticks) : h = history[s]
    BY DEF FeedInv, FeedTypes
  <2>2. /\ history'[s] = Append(h, t) /\ Len(h) \in Nat /\ DOMAIN h = 1 .. Len(h)
        /\ DOMAIN Append(h, t) = 1 .. (Len(h) + 1) /\ Append(h, t)[Len(h) + 1] = t
        /\ \A i \in DOMAIN h : Append(h, t)[i] = h[i] /\ h[i] \in Ticks
        /\ \A i \in DOMAIN Append(h, t) : i \in DOMAIN h \/ i = Len(h) + 1
    BY <1>4, <1>8, <2>1
  <2>3. \A i \in DOMAIN h : tickOf[h[i]].symbol = s /\ InHistory(h[i])
    BY <2>1, <2>2 DEF FeedInv, Histories, InHistory
  <2>4. QED BY <1>7, <2>1, <2>2, <2>3
<1>9. Histories'
  <2>1. ASSUME NEW s \in Symbols
        PROVE  /\ \A i, j \in DOMAIN history'[s] : history'[s][i] = history'[s][j] => i = j
               /\ \A i \in DOMAIN history'[s] : tickOf[history'[s][i]].symbol = s
    <3>1. CASE s # tickOf[t].symbol
      BY <1>4, <3>1 DEF FeedInv, Histories
    <3>2. CASE s = tickOf[t].symbol
      <4>1. \A i, j \in DOMAIN history[s] : history[s][i] = history[s][j] => i = j
        BY DEF FeedInv, Histories
      <4>2. QED BY <1>8, <3>2, <4>1
    <3>3. QED BY <3>1, <3>2
  <2>2. QED BY <1>2, <2>1 DEF Histories
<1>10. Settled'
  BY <1>2, <1>3, <1>4, <1>5, <1>7 DEF FeedInv, Settled
<1>11. ArrivalOrder'
  BY <1>2, <1>3, <1>4 DEF FeedInv, ArrivalOrder
<1>12. Serial'
  <2>1. SUFFICES ASSUME Len(consumers) <= 1
        PROVE  /\ \A s \in Symbols : \A i, j \in DOMAIN history'[s] : i < j => history'[s][i] < history'[s][j]
               /\ \A u, v \in Ticks : InHand(u)' /\ InHistory(v)' => v < u
    BY <1>3 DEF Serial
  <2>2. \A u \in Ticks : ~InHand(u)'
    <3>1. DOMAIN consumers = {c}
      <4>1. PICK n \in Nat : n = Len(consumers) /\ DOMAIN consumers = 1 .. n /\ n <= 1
        BY <2>1, FinitePlaces
      <4>2. n = 1
        BY <4>1
      <4>3. QED BY <4>1, <4>2
    <3>2. \A u \in Ticks : u # 0
      BY TicksAssumption
    <3>3. QED BY <1>3, <3>1, <3>2 DEF InHand
  <2>3. ASSUME NEW s \in Symbols, NEW i \in DOMAIN history'[s], NEW j \in DOMAIN history'[s], i < j
        PROVE  history'[s][i] < history'[s][j]
    <3>1. \A p, q \in DOMAIN history[s] : p < q => history[s][p] < history[s][q]
      BY <2>1 DEF FeedInv, Serial
    <3>2. \A u \in Ticks : InHistory(u) => u < t
      BY <1>3, <2>1 DEF FeedInv, Serial
    <3>3. CASE s # tickOf[t].symbol
      BY <1>4, <2>3, <3>1, <3>3
    <3>4. CASE s = tickOf[t].symbol
      BY <1>8, <2>3, <3>1, <3>2, <3>4
    <3>5. QED BY <3>3, <3>4
  <2>4. QED BY <2>2, <2>3
<1>13. ASSUME NEW k PROVE Cardinality(StoredOf(k)') + Cardinality(PassingOf(k)') <= Len(consumers')
  <2>1. CASE k # tickOf[t]
    <3>1. StoredOf(k)' = StoredOf(k)
      BY <1>2, <1>4, <2>1 DEF StoredOf
    <3>2. PassingOf(k)' = PassingOf(k)
      BY <1>1, <1>2, <1>3, <2>1 DEF PassingOf
    <3>3. QED BY <1>3, <3>1, <3>2 DEF FeedInv, KeyInv
  <2>2. CASE k = tickOf[t]
    <3>1. StoredOf(k)' = StoredOf(k) \cup {t} /\ t \notin StoredOf(k)
      BY <1>2, <1>4, <1>7, <2>2 DEF StoredOf
    <3>2. PassingOf(k)' = PassingOf(k) \ {c} /\ c \in PassingOf(k)
      BY <1>1, <1>2, <1>3, <2>2 DEF PassingOf
    <3>3. /\ Cardinality(StoredOf(k)') = Cardinality(StoredOf(k)) + 1
          /\ Cardinality(PassingOf(k)') = Cardinality(PassingOf(k)) - 1
      <4>1. IsFiniteSet(StoredOf(k)) /\ IsFiniteSet(PassingOf(k))
        BY FinitePlaces
      <4>2. Cardinality(StoredOf(k)') = Cardinality(StoredOf(k)) + 1
        BY <3>1, <4>1, FS_AddElement
      <4>3. Cardinality(PassingOf(k)') = Cardinality(PassingOf(k)) - 1
        BY <3>2, <4>1, FS_RemoveElement
      <4>4. QED BY <4>2, <4>3
    <3>4. /\ Cardinality(StoredOf(k)) \in Nat /\ Cardinality(PassingOf(k)) \in Nat
          /\ Cardinality(StoredOf(k)) + Cardinality(PassingOf(k)) <= Len(consumers)
      BY FinitePlaces DEF FeedInv, KeyInv
    <3>5. QED BY <1>3, <3>3, <3>4
  <2>3. QED BY <2>1, <2>2
<1>14. KeyInv'
  <2>1. tickOf[t] \in seen
    BY <1>1, <1>2 DEF FeedInv, KeyInv
  <2>2. \A u \in Ticks : InHistory(u)' => tickOf'[u] \in seen'
    BY <1>2, <1>4, <2>1 DEF FeedInv, KeyInv
  <2>3. \A d \in DOMAIN consumers' : consumers'[d].at = "store" => tickOf'[consumers'[d].tick] \in seen'
    BY <1>2, <1>3 DEF FeedInv, KeyInv
  <2>4. QED BY <1>13, <2>2, <2>3 DEF KeyInv
<1>15. QED BY <1>3, <1>6, <1>9, <1>10, <1>11, <1>12, <1>14 DEF FeedInv

LEMMA FeedStep == FeedInv /\ [FeedNext]_feedVars => FeedInv'
<1> SUFFICES ASSUME FeedInv, [FeedNext]_feedVars PROVE FeedInv'
  OBVIOUS
<1>1. CASE UNCHANGED feedVars
  <2>1. UNCHANGED <<tickOf, inbox, ingested, history, dropped, consumers, seen>>
    BY <1>1 DEF feedVars
  <2>2. consumers' \in Seq(Consumer) /\ Len(consumers') = Len(consumers) /\ Len(consumers) \in Nat
    BY <2>1 DEF FeedInv, FeedTypes
  <2>3. \A c \in DOMAIN consumers : consumers[c].at = "store" => tickOf[consumers[c].tick] \in seen
    BY DEF FeedInv, KeyInv
  <2>4. QED BY <2>1, <2>2, <2>3, PlacesStay, NoneNewPasses DEF FeedInv
<1>2. CASE FeedNext
  BY <1>2, IngestKeeps, StartKeeps, QuietKeeps, GetTickKeeps, DropDuplicateKeeps, PassCheckKeeps, StoreKeeps
     DEF FeedNext, Consume
<1>3. QED BY <1>1, <1>2

\* At most one position, and one exactly if there is one.
LEMMA OneOrNone ==
  ASSUME NEW S, NEW P, P = (S # {}), \A i, j \in S : i = j
  PROVE  Cardinality(S) = IF P THEN 1 ELSE 0
<1>1. CASE S = {}
  BY <1>1, FS_EmptySet
<1>2. CASE S # {}
  <2>1. PICK x : S = {x}
    BY <1>2
  <2>2. QED BY <1>2, <2>1, FS_Singleton
<1>3. QED BY <1>1, <1>2

\* The counter and what the consumers loaded of it are at most what was dropped.
DropInv ==
  /\ loaded \in Seq(Nat) /\ Len(loaded) = Len(consumers) /\ duplicates \in Nat
  /\ IsFiniteSet(dropped) /\ duplicates <= Cardinality(dropped)
  /\ \A c \in DOMAIN consumers : consumers[c].at = "count" => loaded[c] <= Cardinality(dropped)
  /\ Len(consumers) <= 1 =>
       /\ duplicates = Cardinality(dropped)
       /\ \A c \in DOMAIN consumers : consumers[c].at = "count" => loaded[c] = duplicates

LEMMA DropStarts == FeedInit => DropInv
<1> SUFFICES ASSUME FeedInit PROVE DropInv
  OBVIOUS
<1>1. IsFiniteSet(dropped) /\ Cardinality(dropped) = 0 /\ duplicates = 0
  BY FS_EmptySet DEF FeedInit
<1>2. consumers = <<>> /\ loaded = <<>> /\ DOMAIN consumers = {}
  BY DEF FeedInit
<1>3. QED BY <1>1, <1>2 DEF DropInv

\* A step of one consumer that neither counts nor drops.
LEMMA DropStays ==
  ASSUME FeedInv, DropInv, UNCHANGED <<dropped, loaded, duplicates>>,
         \/ UNCHANGED consumers
         \/ \E c \in DOMAIN consumers, place \in {"top", "get", "dead", "check", "add", "store"} :
              \E t : Goto(c, place, t)
  PROVE  DropInv'
<1>1. consumers \in Seq(Consumer)
  BY DEF FeedInv, FeedTypes
<1>2. /\ Len(consumers') = Len(consumers) /\ DOMAIN consumers' = DOMAIN consumers
      /\ \A c \in DOMAIN consumers : consumers'[c].at = "count" => consumers[c].at = "count"
  BY <1>1 DEF Goto
<1>3. QED BY <1>2 DEF DropInv

LEMMA DropStep == FeedInv /\ DropInv /\ [FeedNext]_feedVars => DropInv'
<1> SUFFICES ASSUME FeedInv, DropInv, [FeedNext]_feedVars PROVE DropInv'
  OBVIOUS
<1>0. /\ consumers \in Seq(Consumer) /\ Len(consumers) \in Nat
      /\ DOMAIN consumers = 1 .. Len(consumers) /\ loaded \in Seq(Nat)
      /\ Len(loaded) = Len(consumers) /\ DOMAIN loaded = DOMAIN consumers
      /\ duplicates \in Nat /\ IsFiniteSet(dropped) /\ Cardinality(dropped) \in Nat
  BY FS_CardinalityType DEF FeedInv, FeedTypes, DropInv
<1>1. CASE UNCHANGED feedVars \/ Ingest \/ Stop
  BY <1>1, DropStays DEF feedVars, Ingest, Stop
<1>2. CASE Start
  <2>1. /\ Len(consumers') = Len(consumers) + 1 /\ DOMAIN consumers' = 1 .. (Len(consumers) + 1)
        /\ consumers'[Len(consumers) + 1].at = "top"
        /\ \A c \in DOMAIN consumers : consumers'[c] = consumers[c] /\ loaded'[c] = loaded[c]
        /\ loaded' \in Seq(Nat) /\ Len(loaded') = Len(loaded) + 1
        /\ UNCHANGED <<dropped, duplicates>>
    BY <1>0, <1>2 DEF Start
  <2>2. \A c \in DOMAIN consumers' : consumers'[c].at = "count" =>
           c \in DOMAIN consumers /\ consumers[c].at = "count"
    BY <1>0, <2>1
  <2>3. QED BY <1>0, <2>1, <2>2 DEF DropInv
<1>3. ASSUME NEW c \in DOMAIN consumers,
             \/ CheckRunning(c) \/ GetNothing(c) \/ GetTick(c) \/ PassCheck(c) \/ AddSeen(c) \/ Store(c)
      PROVE  DropInv'
  <2>1. UNCHANGED <<dropped, loaded, duplicates>>
    BY <1>3 DEF CheckRunning, GetNothing, GetTick, PassCheck, AddSeen, Store
  <2>2. \E place \in {"top", "get", "dead", "check", "add", "store"} : \E t : Goto(c, place, t)
    BY <1>3 DEF CheckRunning, GetNothing, GetTick, PassCheck, AddSeen, Store
  <2>3. QED BY <2>1, <2>2, DropStays
<1>4. ASSUME NEW c \in DOMAIN consumers, FindDuplicate(c) PROVE DropInv'
  <2>1. /\ Len(consumers') = Len(consumers) /\ DOMAIN consumers' = DOMAIN consumers
        /\ \A d \in DOMAIN consumers \ {c} : consumers'[d] = consumers[d] /\ loaded'[d] = loaded[d]
        /\ loaded' \in Seq(Nat) /\ Len(loaded') = Len(loaded) /\ loaded'[c] = duplicates
        /\ UNCHANGED <<dropped, duplicates>>
    BY <1>0, <1>4 DEF FindDuplicate, Goto
  <2>2. QED BY <1>0, <2>1 DEF DropInv
<1>5. ASSUME NEW c \in DOMAIN consumers, DropDuplicate(c) PROVE DropInv'
  <2>1. PICK t \in Ticks : t = consumers[c].tick
    BY <1>5, InHandIsTick DEF DropDuplicate, Working
  <2>2. t \notin dropped
    BY <2>1 DEF FeedInv, Settled, InHand
  <2>3. dropped' = dropped \cup {t} /\ duplicates' = loaded[c] + 1 /\ loaded' = loaded
        /\ consumers[c].at = "count"
    BY <1>5, <2>1 DEF DropDuplicate
  <2>4. IsFiniteSet(dropped') /\ Cardinality(dropped') = Cardinality(dropped) + 1
    BY <1>0, <2>2, <2>3, FS_AddElement
  <2>5. /\ Len(consumers') = Len(consumers) /\ DOMAIN consumers' = DOMAIN consumers
        /\ consumers'[c].at = "top"
        /\ \A d \in DOMAIN consumers \ {c} : consumers'[d] = consumers[d]
    BY <1>0, <1>5 DEF DropDuplicate, Goto
  <2>6. /\ loaded[c] \in Nat /\ loaded[c] <= Cardinality(dropped)
        /\ \A d \in DOMAIN consumers : loaded[d] \in Nat
        /\ Len(consumers) <= 1 => loaded[c] = Cardinality(dropped) /\ DOMAIN consumers = {c}
    <3>1. loaded[c] <= Cardinality(dropped) /\ (Len(consumers) <= 1 => loaded[c] = Cardinality(dropped))
      BY <2>3 DEF DropInv
    <3>2. \A d \in DOMAIN consumers : loaded[d] \in Nat
      BY <1>0
    <3>3. Len(consumers) <= 1 => DOMAIN consumers = {c}
      <4>1. PICK n \in Nat : n = Len(consumers) /\ DOMAIN consumers = 1 .. n
        BY <1>0
      <4>2. n <= 1 => 1 .. n = {c}
        BY <4>1
      <4>3. QED BY <4>1, <4>2
    <3>4. QED BY <3>1, <3>2, <3>3
  <2>7. ASSUME NEW d \in DOMAIN consumers', consumers'[d].at = "count"
        PROVE  d \in DOMAIN consumers \ {c} /\ loaded'[d] <= Cardinality(dropped')
    <3>1. d \in DOMAIN consumers \ {c} /\ consumers[d].at = "count"
      BY <2>5, <2>7
    <3>2. loaded[d] <= Cardinality(dropped)
      BY <3>1 DEF DropInv
    <3>3. QED BY <1>0, <2>3, <2>4, <2>6, <3>1, <3>2
  <2>8. duplicates' \in Nat /\ duplicates' <= Cardinality(dropped')
    BY <1>0, <2>3, <2>4, <2>6
  <2>9. Len(consumers') <= 1 => /\ duplicates' = Cardinality(dropped')
                                /\ \A d \in DOMAIN consumers' : consumers'[d].at # "count"
    BY <2>3, <2>4, <2>5, <2>6
  <2>10. QED BY <1>0, <2>3, <2>4, <2>5, <2>7, <2>8, <2>9 DEF DropInv
<1>6. QED BY <1>1, <1>2, <1>3, <1>4, <1>5 DEF FeedNext, Consume

LEMMA FeedImplies == FeedInv /\ DropInv => TicksSettleOnce
<1> SUFFICES ASSUME FeedInv, DropInv PROVE TicksSettleOnce
  OBVIOUS
<1>1. TickInOnePlace
  <2> SUFFICES ASSUME NEW t \in Ticks
               PROVE  Cardinality({i \in DOMAIN inbox : inbox[i] = t}) + Cardinality(Holders(t))
                        + Cardinality({i \in DOMAIN history[tickOf[t].symbol] : history[tickOf[t].symbol][i] = t})
                        + (IF t \in dropped THEN 1 ELSE 0) = (IF t <= ingested THEN 1 ELSE 0)
    BY DEF TickInOnePlace
  <2>1. Cardinality({i \in DOMAIN inbox : inbox[i] = t}) = IF Waits(t) THEN 1 ELSE 0
    <3>1. \A i, j \in {i \in DOMAIN inbox : inbox[i] = t} : i = j
      <4>1. ASSUME NEW i \in DOMAIN inbox, NEW j \in DOMAIN inbox, inbox[i] = inbox[j] PROVE i = j
        <5>1. i \in Int /\ j \in Int /\ inbox[i] \in Nat /\ inbox[j] \in Nat
          <6>1. inbox \in Seq(Ticks)
            BY DEF FeedInv, FeedTypes
          <6>2. inbox[i] \in Ticks /\ inbox[j] \in Ticks /\ DOMAIN inbox = 1 .. Len(inbox)
            BY <4>1, <6>1
          <6>3. inbox[i] \in Nat /\ inbox[j] \in Nat
            BY <6>2, TicksAssumption
          <6>4. i \in Int /\ j \in Int
            BY <4>1, <6>2
          <6>5. QED BY <6>3, <6>4
        <5>2. ~(i < j) /\ ~(j < i)
          BY <4>1, <5>1 DEF FeedInv, ArrivalOrder
        <5>3. QED BY <5>1, <5>2
      <4>2. QED BY <4>1
    <3>2. Waits(t) = ({i \in DOMAIN inbox : inbox[i] = t} # {})
      BY DEF Waits
    <3>3. QED BY <3>1, <3>2, OneOrNone
  <2>2. Cardinality(Holders(t)) = IF InHand(t) THEN 1 ELSE 0
    <3>1. \A c, d \in Holders(t) : c = d
      BY TicksAssumption DEF Holders, FeedInv, HandInv
    <3>2. InHand(t) = (Holders(t) # {})
      BY DEF Holders, InHand
    <3>3. QED BY <3>1, <3>2, OneOrNone
  <2>3. Cardinality({i \in DOMAIN history[tickOf[t].symbol] : history[tickOf[t].symbol][i] = t})
          = IF InHistory(t) THEN 1 ELSE 0
    <3> DEFINE S == {i \in DOMAIN history[tickOf[t].symbol] : history[tickOf[t].symbol][i] = t}
    <3>1. tickOf[t].symbol \in Symbols
      BY DEF FeedInv, FeedTypes
    <3>2. \A i, j \in S : i = j
      BY <3>1 DEF FeedInv, Histories
    <3>3. InHistory(t) = (S # {})
      BY DEF InHistory
    <3> HIDE DEF S
    <3>4. Cardinality(S) = IF InHistory(t) THEN 1 ELSE 0
      BY <3>2, <3>3, OneOrNone
    <3>5. QED BY <3>4 DEF S
  <2>4. /\ t <= ingested <=> Waits(t) \/ InHand(t) \/ InHistory(t) \/ t \in dropped
        /\ InHand(t) => ~InHistory(t) /\ t \notin dropped
        /\ InHistory(t) => t \notin dropped
    BY DEF FeedInv, Settled
  <2>5. Waits(t) => ~InHand(t) /\ ~InHistory(t) /\ t \notin dropped
    <3>1. t \in Nat
      BY TicksAssumption
    <3>2. QED BY <3>1 DEF FeedInv, ArrivalOrder, Waits
  <2>6. QED BY <2>1, <2>2, <2>3, <2>4, <2>5
<1>2. DuplicatesBounded
  <2>1. ASSUME NEW k PROVE Cardinality(StoredOf(k)) <= Len(consumers)
    BY FinitePlaces DEF FeedInv, KeyInv
  <2>2. QED BY <2>1 DEF DuplicatesBounded, StoredOf
<1>3. LatestIsLastArrival
  BY DEF FeedInv, Serial, LatestIsLastArrival
<1>5. DropsCounted
  BY DEF DropInv, DropsCounted
<1>4. QED BY <1>1, <1>2, <1>3, <1>5 DEF TicksSettleOnce

\* Every tick ingested is waiting, in one consumer's hands, stored once or dropped
\* once; at most as many of one key are stored as there are consumers; no more are
\* counted as duplicates than were dropped; and with one consumer the count is exact
\* and the history of a symbol follows the arrivals (ingest.py 93-124), for every set
\* of ticks, of symbols and of windows, and any number of starts and stops.
THEOREM TicksSettleOnceHolds == FeedSpec => []TicksSettleOnce
BY FeedStarts, FeedStep, DropStarts, DropStep, FeedImplies, PTL DEF FeedSpec

-----------------------------------------------------------------------------
(***************************************************************************)
(* CandleFeed: the indicators take the candles in order, the buffer keeps  *)
(* to its size, and a stream that was stopped is off.                      *)
(***************************************************************************)

CandleTypes ==
  /\ now \in Nat \ {0} /\ sent \in SUBSET (1 .. now) /\ buffer \in SUBSET (1 .. now)
  /\ updates \in Seq(1 .. now) /\ lastTs \in Nat /\ warm \in Nat /\ engines \in Nat \ {0}
  /\ stream \in {"warmup", "load", "starting", "scan", "stopping", "stopped"}

\* The engines that have loaded what the buffer holds in excess.
Loaded == IF stream \in {"warmup", "load"} THEN engines - 1 ELSE engines

BufferInv == /\ Cardinality(buffer) <= MAXDICT * Loaded
             /\ Loaded = 0 => sent = {} /\ ~subscribed

\* A stream that is on and did not give up has its check up: stop() will see it.
StopInv == /\ stream \in {"scan", "stopping"} /\ subscribed /\ ~gaveUp => check
           /\ StopIsQuiet

\* The last candle fed is the greatest, and the buffer has it or a newer one.
FedInv ==
  /\ stream = "warmup" => updates = << >>
  /\ stream # "warmup" => warm \in 1 .. Len(updates)
  /\ lastTs = 0 => Len(updates) = warm
  /\ lastTs # 0 => Len(updates) > warm /\ updates[Len(updates)] = lastTs
  /\ \A i \in DOMAIN updates : updates[i] <= updates[Len(updates)]
  /\ stream \notin {"warmup", "load"} => \E b \in buffer : updates[Len(updates)] <= b

CandleInv == CandleTypes /\ BufferInv /\ StopInv /\ FedInv /\ CandlesInOrder

LEMMA CandleStarts == CandleInit => CandleInv
<1> SUFFICES ASSUME CandleInit PROVE CandleInv
  OBVIOUS
<1>1. CandleTypes
  BY DEF CandleInit, CandleTypes
<1>2. BufferInv
  <2>1. Cardinality(buffer) = 0 /\ Loaded = 0
    BY FS_EmptySet DEF CandleInit, Loaded
  <2>2. MAXDICT * Loaded = 0
    BY <2>1, CandleAssumption
  <2>3. QED BY <2>1, <2>2 DEF CandleInit, BufferInv
<1>3. StopInv
  BY DEF CandleInit, StopInv, StopIsQuiet
<1>4. FedInv /\ CandlesInOrder
  BY DEF CandleInit, FedInv, CandlesInOrder
<1>5. QED BY <1>1, <1>2, <1>3, <1>4 DEF CandleInv

\* What a message does to the buffer: its newest candle is never the one that goes,
\* and the oldest always is.
LEMMA WithCandleKeeps ==
  ASSUME CandleTypes, NEW t \in 1 .. now
  PROVE  /\ IsFiniteSet(buffer) /\ Cardinality(buffer) \in Nat
         /\ WithCandle(t) \in SUBSET (1 .. now)
         /\ \A b \in buffer : \E c \in WithCandle(t) : b <= c
         /\ \A x \in Nat : Cardinality(buffer) <= x /\ MAXDICT <= x => Cardinality(WithCandle(t)) <= x
<1> DEFINE Above(c) == {u \in buffer : u > c}
<1>1. /\ now \in Nat /\ now \in Int /\ MAXDICT \in Nat /\ MAXDICT > 1 /\ buffer \in SUBSET (1 .. now)
      /\ \A b \in buffer : b \in Int
  BY CandleAssumption DEF CandleTypes
<1>2. IsFiniteSet(buffer) /\ Cardinality(buffer) \in Nat
  BY <1>1, FinitePart
<1>3. Kept(buffer) = {c \in buffer : Cardinality(Above(c)) < MAXDICT - 1}
  BY DEF Kept
<1> HIDE DEF Above
<1>4. CASE t \in buffer \/ Cardinality(buffer) < MAXDICT
  <2>1. WithCandle(t) = buffer \cup {t}
    BY <1>4 DEF WithCandle
  <2>2. WithCandle(t) \in SUBSET (1 .. now) /\ \A b \in buffer : b \in WithCandle(t) /\ b <= b
    BY <1>1, <2>1
  <2>3. t \in buffer => Cardinality(WithCandle(t)) = Cardinality(buffer)
    <3>1. t \in buffer => WithCandle(t) = buffer
      BY <2>1
    <3>2. QED BY <3>1
  <2>4. t \notin buffer => Cardinality(WithCandle(t)) = Cardinality(buffer) + 1
    BY <1>2, <2>1, FS_AddElement
  <2>5. \A x \in Nat : Cardinality(buffer) <= x /\ MAXDICT <= x => Cardinality(WithCandle(t)) <= x
    BY <1>1, <1>2, <1>4, <2>3, <2>4
  <2>6. QED BY <1>2, <2>2, <2>5
<1>5. CASE ~(t \in buffer \/ Cardinality(buffer) < MAXDICT)
  <2>1. WithCandle(t) = Kept(buffer) \cup {t} /\ Kept(buffer) \in SUBSET buffer
    BY <1>3, <1>5 DEF WithCandle
  <2>2. buffer # {}
    BY <1>1, <1>2, <1>5, FS_EmptySet
  <2>3. PICK top \in buffer : \A b \in buffer : b <= top
    <3>1. buffer \in SUBSET Int /\ now \in Int /\ \A b \in buffer : b <= now
      BY <1>1
    <3>2. QED BY <2>2, <3>1, MaxIsGreatest
  <2>4. top \in Kept(buffer)
    <3>1. Above(top) = {}
      <4>1. top \in Int /\ \A b \in buffer : b \in Int
        BY <1>1, <2>3
      <4>2. \A b \in buffer : ~(b > top)
        BY <2>3, <4>1
      <4>3. QED BY <4>2 DEF Above
    <3>2. Cardinality(Above(top)) = 0
      BY <3>1, FS_EmptySet
    <3>3. QED BY <1>1, <1>3, <2>3, <3>2
  <2>5. PICK low \in buffer : \A b \in buffer : low <= b
    <3>1. buffer \in SUBSET Nat
      BY <1>1
    <3>2. QED BY <2>2, <3>1, MinIsLeast
  <2>6. low \notin Kept(buffer)
    <3>1. Above(low) = buffer \ {low}
      <4>1. low \in Int /\ \A b \in buffer : b \in Int
        BY <1>1, <2>5
      <4>2. \A b \in buffer : b > low <=> b # low
        BY <2>5, <4>1
      <4>3. QED BY <4>2 DEF Above
    <3>2. Cardinality(buffer \ {low}) = Cardinality(buffer) - 1
      BY <1>2, <2>5, FS_RemoveElement
    <3>3. QED BY <1>1, <1>2, <1>3, <1>5, <3>1, <3>2
  <2>7. Cardinality(WithCandle(t)) <= Cardinality(buffer) /\ Cardinality(WithCandle(t)) \in Nat
    <3>1. Kept(buffer) \in SUBSET (buffer \ {low})
      BY <2>1, <2>6
    <3>2. IsFiniteSet(buffer \ {low}) /\ Cardinality(buffer \ {low}) = Cardinality(buffer) - 1
      BY <1>2, <2>5, FS_RemoveElement
    <3>3. WithCandle(t) \in SUBSET ((buffer \ {low}) \cup {t})
      BY <2>1, <3>1
    <3>4. /\ Cardinality(WithCandle(t)) \in Nat
          /\ Cardinality(WithCandle(t)) <= Cardinality(buffer \ {low}) + 1
      BY <3>2, <3>3, FiniteWith
    <3>5. QED BY <1>2, <3>2, <3>4
  <2>8. WithCandle(t) \in SUBSET (1 .. now)
    BY <1>1, <2>1
  <2>9. \A b \in buffer : top \in WithCandle(t) /\ b <= top
    BY <2>1, <2>3, <2>4
  <2>10. \A x \in Nat : Cardinality(buffer) <= x => Cardinality(WithCandle(t)) <= x
    BY <1>2, <2>7
  <2>11. QED BY <1>2, <2>8, <2>9, <2>10
<1>6. QED BY <1>4, <1>5

\* The candles a request is answered with.
LEMMA EndingIs ==
  ASSUME CandleTypes, NEW n \in Nat \ {0}
  PROVE  /\ Ending(n) \in SUBSET (1 .. now) /\ now \in Ending(n) /\ Cardinality(Ending(n)) <= n
         /\ IsFiniteSet(Ending(n)) /\ Cardinality(Ending(n)) \in Nat
<1>1. Ending(n) \in SUBSET (1 .. now) /\ now \in Ending(n) /\ now \in Nat /\ now \in Int
  BY DEF CandleTypes, Ending
<1>2. IsFiniteSet(Ending(n)) /\ Cardinality(Ending(n)) \in Nat
  BY <1>1, FinitePart
<1>3. Cardinality(Ending(n)) <= n
  <2> DEFINE shift == [i \in 1 .. n |-> now - n + i]
  <2>1. \A t \in Ending(n) : \E i \in 1 .. n : t = shift[i]
    <3> SUFFICES ASSUME NEW t \in Ending(n) PROVE t - now + n \in 1 .. n /\ shift[t - now + n] = t
      OBVIOUS
    <3>1. t \in Nat /\ t <= now /\ t > now - n
      BY <1>1 DEF Ending
    <3>2. t - now + n \in 1 .. n
      BY <1>1, <3>1
    <3>3. QED BY <1>1, <3>1, <3>2
  <2> HIDE DEF shift
  <2>2. IsFiniteSet(1 .. n) /\ Cardinality(1 .. n) = n
    BY IntervalSize
  <2>3. QED BY <2>1, <2>2, FiniteImage
<1>4. QED BY <1>1, <1>2, <1>3

LEMMA EndingInOrderIs ==
  ASSUME CandleTypes, NEW n \in Nat \ {0}
  PROVE  /\ EndingInOrder(n) \in Seq(1 .. now) /\ Len(EndingInOrder(n)) \in Nat \ {0}
         /\ \A i, j \in DOMAIN EndingInOrder(n) : i < j => EndingInOrder(n)[i] < EndingInOrder(n)[j]
         /\ \A i \in DOMAIN EndingInOrder(n) :
              EndingInOrder(n)[i] <= EndingInOrder(n)[Len(EndingInOrder(n))]
<1>1. PICK size \in Nat \ {0} : size = IF now < n THEN now ELSE n
  BY DEF CandleTypes
<1>2. EndingInOrder(n) = [i \in 1 .. size |-> now - size + i] /\ size <= now /\ now \in Nat
  BY <1>1 DEF EndingInOrder, CandleTypes
<1>3. \A i \in 1 .. size : now - size + i \in 1 .. now
  BY <1>2
<1>4. EndingInOrder(n) \in Seq(1 .. now) /\ Len(EndingInOrder(n)) = size
  BY <1>2, <1>3
<1>5. QED BY <1>2, <1>4

LEMMA CandleTypesStep == CandleTypes /\ [CandleNext]_candleVars => CandleTypes'
<1> SUFFICES ASSUME CandleTypes, [CandleNext]_candleVars PROVE CandleTypes'
  OBVIOUS
<1>1. CASE UNCHANGED candleVars
  BY <1>1 DEF candleVars, CandleTypes
<1>2. CASE Moves
  <2>1. now' \in Nat \ {0} /\ now <= now' /\ 1 .. now \subseteq 1 .. now'
    BY <1>2 DEF Moves, CandleTypes
  <2>2. sent' \in SUBSET (1 .. now') /\ buffer' \in SUBSET (1 .. now') /\ updates' \in Seq(1 .. now')
    BY <1>2, <2>1 DEF Moves, CandleTypes
  <2>3. QED BY <1>2, <2>1, <2>2 DEF Moves, CandleTypes
<1>3. CASE Arrives
  <2>1. PICK m \in sent : sent' = sent \ {m} /\ buffer' = WithCandle(m)
    BY <1>3 DEF Arrives
  <2>2. buffer' \in SUBSET (1 .. now)
    BY <2>1, WithCandleKeeps DEF CandleTypes
  <2>3. QED BY <1>3, <2>1, <2>2 DEF Arrives, CandleTypes
<1>4. CASE WarmsUp
  <2>1. updates' \in Seq(1 .. now) /\ warm' \in Nat
    BY <1>4, EndingInOrderIs, CandleAssumption DEF WarmsUp
  <2>2. QED BY <1>4, <2>1 DEF WarmsUp, CandleTypes
<1>5. CASE Loads
  <2>1. Ending(MAXDICT) \in SUBSET (1 .. now)
    BY EndingIs, CandleAssumption
  <2>2. QED BY <1>5, <2>1 DEF Loads, CandleTypes
<1>6. CASE Takes
  <2>1. Max(buffer) \in buffer
    <3>1. buffer \in SUBSET Int /\ now \in Int /\ buffer # {} /\ \A b \in buffer : b <= now
      BY <1>6 DEF Takes, CandleTypes
    <3>2. QED BY <3>1, MaxIsGreatest
  <2>2. Max(buffer) \in 1 .. now /\ Max(buffer) \in Nat
    <3>1. \A b \in buffer : b \in 1 .. now /\ b \in Nat
      BY DEF CandleTypes
    <3>2. QED BY <2>1, <3>1
  <2>3. updates' \in Seq(1 .. now)
    BY <1>6, <2>2 DEF Takes, CandleTypes
  <2>4. QED BY <1>6, <2>2, <2>3 DEF Takes, CandleTypes
<1>7. CASE Subscribes \/ Started \/ Leaves \/ Stops
  BY <1>7 DEF Subscribes, Started, Leaves, Stops, CandleTypes
<1>8. CASE NextEngine
  <2>1. << >> \in Seq(1 .. now) /\ engines + 1 \in Nat \ {0}
    BY DEF CandleTypes
  <2>2. QED BY <1>8, <2>1 DEF NextEngine, CandleTypes
<1>9. QED BY <1>1, <1>2, <1>3, <1>4, <1>5, <1>6, <1>7, <1>8 DEF CandleNext

LEMMA BufferStep == CandleTypes /\ BufferInv /\ [CandleNext]_candleVars => BufferInv'
<1> SUFFICES ASSUME CandleTypes, BufferInv, [CandleNext]_candleVars PROVE BufferInv'
  OBVIOUS
<1>1. /\ MAXDICT \in Nat \ {0} /\ Loaded \in Nat /\ engines \in Nat \ {0}
      /\ IsFiniteSet(buffer) /\ Cardinality(buffer) \in Nat
  <2>1. now \in Int /\ buffer \in SUBSET (1 .. now)
    BY DEF CandleTypes
  <2>2. IsFiniteSet(buffer) /\ Cardinality(buffer) \in Nat
    BY <2>1, FinitePart
  <2>3. QED BY <2>2, CandleAssumption DEF CandleTypes, Loaded
<1>2. CASE UNCHANGED candleVars
  BY <1>2 DEF candleVars, BufferInv, Loaded
<1>3. CASE Moves
  BY <1>3 DEF Moves, BufferInv, Loaded
<1>4. CASE Arrives
  <2>1. PICK m \in sent : sent' = sent \ {m} /\ buffer' = WithCandle(m)
    BY <1>4 DEF Arrives
  <2>2. Loaded # 0
    BY <2>1 DEF BufferInv
  <2>3. PICK x \in Nat : x = MAXDICT * Loaded
    BY <1>1
  <2>4. MAXDICT <= x
    BY <1>1, <2>2, <2>3
  <2>5. Cardinality(WithCandle(m)) <= x
    BY <2>3, <2>4, WithCandleKeeps DEF BufferInv, CandleTypes
  <2>6. Loaded' = Loaded
    BY <1>4 DEF Arrives, Loaded
  <2>7. QED BY <2>1, <2>2, <2>3, <2>5, <2>6 DEF BufferInv
<1>5. CASE Loads
  <2>1. Loaded' = Loaded + 1 /\ buffer' = buffer \cup Ending(MAXDICT)
    BY <1>5 DEF Loads, Loaded, CandleTypes
  <2>2. /\ IsFiniteSet(Ending(MAXDICT)) /\ Cardinality(Ending(MAXDICT)) <= MAXDICT
        /\ Cardinality(Ending(MAXDICT)) \in Nat
    BY <1>1, EndingIs
  <2>3. Cardinality(buffer') <= Cardinality(buffer) + Cardinality(Ending(MAXDICT)) /\ Cardinality(buffer') \in Nat
    <3>1. IsFiniteSet(buffer \cap Ending(MAXDICT)) /\ Cardinality(buffer \cap Ending(MAXDICT)) \in Nat
      BY <1>1, FiniteSize
    <3>2. /\ IsFiniteSet(buffer \cup Ending(MAXDICT))
          /\ Cardinality(buffer \cup Ending(MAXDICT))
               = Cardinality(buffer) + Cardinality(Ending(MAXDICT)) - Cardinality(buffer \cap Ending(MAXDICT))
      BY <1>1, <2>2, FS_Union
    <3>3. Cardinality(buffer \cup Ending(MAXDICT)) \in Nat
      BY <3>2, FS_CardinalityType
    <3>4. QED BY <1>1, <2>1, <2>2, <3>1, <3>2, <3>3
  <2>4. MAXDICT * (Loaded + 1) = MAXDICT * Loaded + MAXDICT /\ MAXDICT * Loaded \in Nat
    BY <1>1
  <2>5. QED BY <1>1, <2>1, <2>2, <2>3, <2>4 DEF BufferInv
<1>6. CASE WarmsUp \/ Subscribes \/ Started \/ Takes \/ Leaves \/ Stops
  <2>1. Loaded' = Loaded /\ buffer' = buffer /\ sent' = sent
    BY <1>6 DEF WarmsUp, Subscribes, Started, Takes, Leaves, Stops, Loaded
  <2>2. Loaded = 0 => ~subscribed'
    BY <1>1, <1>6 DEF WarmsUp, Subscribes, Started, Takes, Leaves, Stops, BufferInv, Loaded
  <2>3. QED BY <2>1, <2>2 DEF BufferInv
<1>7. CASE NextEngine
  BY <1>1, <1>7 DEF NextEngine, BufferInv, Loaded
<1>8. QED BY <1>2, <1>3, <1>4, <1>5, <1>6, <1>7 DEF CandleNext

LEMMA StopStep == StopInv /\ [CandleNext]_candleVars => StopInv'
<1> SUFFICES ASSUME StopInv, [CandleNext]_candleVars PROVE StopInv'
  OBVIOUS
<1>1. CASE UNCHANGED candleVars \/ Moves \/ Arrives \/ WarmsUp \/ Loads \/ Subscribes
  BY <1>1 DEF candleVars, Moves, Arrives, WarmsUp, Loads, Subscribes, StopInv, StopIsQuiet
<1>2. CASE Started \/ Takes \/ Leaves \/ Stops \/ NextEngine
  BY <1>2 DEF Started, Takes, Leaves, Stops, NextEngine, StopInv, StopIsQuiet
<1>3. QED BY <1>1, <1>2 DEF CandleNext

\* What is fed next is newer than all before it, but for the open candle of the warm-up.
LEMMA FedStep ==
  CandleTypes /\ FedInv /\ CandlesInOrder /\ [CandleNext]_candleVars => FedInv' /\ CandlesInOrder'
<1> SUFFICES ASSUME CandleTypes, FedInv, CandlesInOrder, [CandleNext]_candleVars
             PROVE  FedInv' /\ CandlesInOrder'
  OBVIOUS
<1>1. CASE UNCHANGED candleVars \/ Moves
  BY <1>1 DEF candleVars, Moves, FedInv, CandlesInOrder
<1>2. CASE Arrives
  <2>1. PICK m \in sent : buffer' = WithCandle(m) /\ UNCHANGED <<updates, warm, lastTs, stream, now>>
    BY <1>2 DEF Arrives
  <2>2. \A b \in buffer : \E c \in buffer' : b <= c
    BY <2>1, WithCandleKeeps DEF CandleTypes
  <2>3. stream \notin {"warmup", "load"} => \E c \in buffer' : updates[Len(updates)] <= c
    <3> SUFFICES ASSUME stream \notin {"warmup", "load"} PROVE \E c \in buffer' : updates[Len(updates)] <= c
      OBVIOUS
    <3>1. PICK b \in buffer : updates[Len(updates)] <= b
      BY DEF FedInv
    <3>2. PICK c \in buffer' : b <= c
      BY <2>2
    <3>3. warm \in 1 .. Len(updates)
      BY DEF FedInv
    <3>4. updates[Len(updates)] \in Nat /\ b \in Nat /\ c \in Nat
      <4>1. Len(updates) \in DOMAIN updates /\ updates \in Seq(1 .. now)
        BY <3>3 DEF CandleTypes
      <4>2. buffer' \in SUBSET (1 .. now)
        BY <2>1, WithCandleKeeps DEF CandleTypes
      <4>3. QED BY <4>1, <4>2 DEF CandleTypes
    <3>5. QED BY <3>1, <3>2, <3>4
  <2>4. QED BY <2>1, <2>3 DEF FedInv, CandlesInOrder
<1>3. CASE WarmsUp
  <2>1. PICK u : u = EndingInOrder(HISTORY)
    OBVIOUS
  <2>2. /\ Len(u) \in Nat \ {0} /\ u \in Seq(1 .. now)
        /\ \A i, j \in DOMAIN u : i < j => u[i] < u[j]
        /\ \A i \in DOMAIN u : u[i] <= u[Len(u)]
    BY <2>1, EndingInOrderIs, CandleAssumption
  <2>3. updates' = u /\ warm' = Len(u) /\ stream = "warmup" /\ stream' = "load" /\ lastTs' = lastTs
    BY <1>3, <2>1 DEF WarmsUp
  <2>4. lastTs = 0
    BY <2>3 DEF FedInv, CandleTypes
  <2>5. QED BY <2>2, <2>3, <2>4 DEF FedInv, CandlesInOrder
<1>4. CASE Loads
  <2>1. /\ now \in buffer' /\ stream = "load" /\ stream' = "starting"
        /\ UNCHANGED <<updates, warm, lastTs, now>>
    BY <1>4, EndingIs, CandleAssumption DEF Loads
  <2>2. updates[Len(updates)] <= now
    <3>1. Len(updates) \in DOMAIN updates /\ updates \in Seq(1 .. now)
      BY <2>1 DEF FedInv, CandleTypes
    <3>2. QED BY <3>1 DEF CandleTypes
  <2>3. QED BY <2>1, <2>2 DEF FedInv, CandlesInOrder
<1>5. CASE Subscribes \/ Started \/ Leaves \/ Stops
  BY <1>5 DEF Subscribes, Started, Leaves, Stops, FedInv, CandlesInOrder
<1>6. CASE NextEngine
  BY <1>6 DEF NextEngine, FedInv, CandlesInOrder
<1>7. CASE Takes
  <2>1. /\ Max(buffer) \in buffer /\ \A b \in buffer : b <= Max(buffer)
        /\ \A b \in buffer : b \in Nat /\ b # 0
    <3>1. buffer \in SUBSET Int /\ now \in Int /\ buffer # {} /\ \A b \in buffer : b <= now
      BY <1>7 DEF Takes, CandleTypes
    <3>2. Max(buffer) \in buffer /\ \A b \in buffer : b <= Max(buffer)
      BY <3>1, MaxIsGreatest
    <3>3. QED BY <3>2 DEF CandleTypes
  <2>2. PICK t \in Nat : t = Max(buffer) /\ t \in buffer /\ t # 0
    BY <2>1
  <2>3. /\ stream = "scan" /\ stream' = "scan" /\ t # lastTs /\ lastTs' = t
        /\ updates' = Append(updates, t) /\ UNCHANGED <<buffer, warm>>
    BY <1>7, <2>2 DEF Takes
  <2>4. PICK n \in Nat : n = Len(updates)
    BY DEF CandleTypes
  <2>5. /\ updates \in Seq(1 .. now) /\ DOMAIN updates = 1 .. n /\ warm \in 1 .. n
        /\ Len(updates') = n + 1 /\ DOMAIN updates' = 1 .. (n + 1) /\ updates'[n + 1] = t
        /\ \A i \in 1 .. n : updates'[i] = updates[i] /\ updates[i] \in Nat
    BY <2>3, <2>4 DEF CandleTypes, FedInv
  <2>6. updates[n] <= t
    <3>1. PICK b \in buffer : updates[n] <= b
      BY <2>3, <2>4 DEF FedInv
    <3>2. n \in 1 .. n /\ b \in Nat /\ updates[n] \in Nat /\ b <= t
      BY <2>1, <2>2, <2>5
    <3>3. QED BY <3>1, <3>2
  <2>7. /\ lastTs = 0 => warm = n
        /\ lastTs # 0 => n > warm /\ updates[n] < t
        /\ \A i \in 1 .. n : updates[i] <= updates[n]
    BY <2>2, <2>3, <2>4, <2>5, <2>6 DEF FedInv
  <2>8. FedInv'
    <3>1. \A i \in DOMAIN updates' : updates'[i] <= updates'[Len(updates')]
      BY <2>5, <2>6, <2>7
    <3>2. \E b \in buffer' : updates'[Len(updates')] <= b
      BY <2>2, <2>3, <2>5
    <3>3. warm' \in 1 .. Len(updates') /\ Len(updates') > warm' /\ updates'[Len(updates')] = lastTs'
      BY <2>3, <2>5
    <3>4. QED BY <2>2, <2>3, <3>1, <3>2, <3>3 DEF FedInv
  <2>9. CandlesInOrder'
    <3> SUFFICES ASSUME NEW i \in DOMAIN updates', NEW j \in DOMAIN updates', i < j
                 PROVE  \/ updates'[i] < updates'[j]
                        \/ updates'[i] = updates'[j] /\ i = warm /\ j = warm + 1
      BY <2>3 DEF CandlesInOrder
    <3>1. CASE j # n + 1
      <4>1. /\ i \in DOMAIN updates /\ j \in DOMAIN updates
            /\ updates'[i] = updates[i] /\ updates'[j] = updates[j]
        BY <2>5, <3>1
      <4>2. QED BY <4>1 DEF CandlesInOrder
    <3>2. CASE j = n + 1
      <4>1. i \in 1 .. n /\ updates'[i] = updates[i] /\ updates'[j] = t
        BY <2>5, <3>2
      <4>2. CASE i = n
        <5>1. updates[n] \in Nat /\ (updates[n] < t \/ (updates[n] = t /\ lastTs = 0))
          BY <2>2, <2>5, <2>6, <2>7, <4>1, <4>2
        <5>2. QED BY <2>7, <3>2, <4>1, <4>2, <5>1
      <4>3. CASE i # n /\ lastTs # 0
        <5>1. updates[i] <= updates[n] /\ updates[n] < t /\ updates[i] \in Nat /\ updates[n] \in Nat
          BY <2>5, <2>7, <4>1, <4>3
        <5>2. QED BY <2>2, <4>1, <5>1
      <4>4. CASE i # n /\ lastTs = 0
        <5>1. i < n /\ n \in 1 .. n /\ warm = n
          BY <2>7, <4>1, <4>4
        <5>2. updates[i] < updates[n]
          BY <2>5, <4>1, <5>1 DEF CandlesInOrder
        <5>3. updates[i] \in Nat /\ updates[n] \in Nat
          BY <2>5, <4>1, <5>1
        <5>4. QED BY <2>2, <2>6, <4>1, <5>2, <5>3
      <4>5. QED BY <4>2, <4>3, <4>4
    <3>3. QED BY <3>1, <3>2
  <2>10. QED BY <2>8, <2>9
<1>8. QED BY <1>1, <1>2, <1>3, <1>4, <1>5, <1>6, <1>7 DEF CandleNext

LEMMA CandleImplies == CandleInv => CandlesHold
<1> SUFFICES ASSUME CandleInv PROVE BufferBounded
  BY DEF CandleInv, StopInv, CandlesHold
<1>1. MAXDICT * Loaded <= MAXDICT * engines /\ MAXDICT * Loaded \in Int /\ MAXDICT * engines \in Int
  <2>1. engines \in Nat \ {0} /\ MAXDICT \in Nat
    BY CandleAssumption DEF CandleInv, CandleTypes
  <2>2. MAXDICT * (engines - 1) = MAXDICT * engines - MAXDICT
    BY <2>1
  <2>3. MAXDICT * engines \in Int /\ MAXDICT * (engines - 1) \in Int
    BY <2>1
  <2>4. QED BY <2>1, <2>2, <2>3 DEF Loaded
<1>2. Cardinality(buffer) \in Nat
  <2>1. now \in Int /\ buffer \in SUBSET (1 .. now)
    BY DEF CandleInv, CandleTypes
  <2>2. QED BY <2>1, FinitePart
<1>3. QED BY <1>1, <1>2 DEF CandleInv, BufferInv, BufferBounded

\* The indicators take each candle once and in order, the buffer of candles keeps to
\* what the engines loaded, and a stopped stream is off at the broker unless its start
\* gave up (stable_api.py 527-569, strategy.py 784-806), for every size of the buffer
\* from 2 on, every length of the warm-up, any number of candles and of engines.
THEOREM CandlesHoldHolds == CandleSpec => []CandlesHold
<1>1. CandleInv /\ [CandleNext]_candleVars => CandleInv'
  BY CandleTypesStep, BufferStep, StopStep, FedStep DEF CandleInv
<1>2. QED BY CandleStarts, <1>1, CandleImplies, PTL DEF CandleSpec

-----------------------------------------------------------------------------
(***************************************************************************)
(* ArbitrageScanner: a scan reports what its quotes offer.                 *)
(***************************************************************************)

\* What the quotes that the exchanges stand by offer scan n.
Offered(n) == {[scan |-> n, buy |-> p[1], sell |-> p[2], ask |-> Quote(p[1]).ask, bid |-> Quote(p[2]).bid] :
                  p \in {q \in Pairs : Pays(Quote(q[1]), Quote(q[2]))}}

ScanInv ==
  /\ mid \in [Exchanges -> Mids] /\ scanCount \in Nat
  /\ DOMAIN ticks \subseteq Exchanges /\ \A e \in DOMAIN ticks : ticks[e] = Quote(e)
  /\ \A o \in opportunities : o.scan \in 1 .. scanCount
  /\ scanCount > 0 /\ DOMAIN ticks = {} => OfScan(scanCount) = Offered(scanCount)
  /\ TradesLeadUphill

\* An exchange asks at least what it bids.
LEMMA QuoteSpread ==
  ASSUME ScanInv, NEW e \in Exchanges
  PROVE  Quote(e).bid \in Nat /\ Quote(e).ask \in Nat /\ Quote(e).bid <= Quote(e).ask
<1>1. PICK m \in Nat : m = mid[e]
  BY ScannerAssumption DEF ScanInv
<1>2. PICK b \in 0 .. BASIS : b = Bps[e]
  BY ScannerAssumption
<1>3. Quote(e).bid = m * (BASIS - b) /\ Quote(e).ask = m * (BASIS + b)
  BY <1>1, <1>2 DEF Quote, Tick
<1>4. BASIS \in Nat /\ b \in Nat /\ BASIS - b \in Nat /\ BASIS + b \in Nat
  BY <1>2, ScannerAssumption
<1>5. m * (BASIS + b) = m * (BASIS - b) + 2 * (m * b) /\ m * b \in Nat
  BY <1>1, <1>4
<1>6. m * (BASIS - b) \in Nat
  BY <1>4
<1>7. QED BY <1>3, <1>5, <1>6

LEMMA ScanStarts == ScannerInit => ScanInv
BY ScannerAssumption DEF ScannerInit, ScanInv, TradesLeadUphill

LEMMA FetchKeeps ==
  ASSUME ScanInv, NEW e \in Exchanges, NEW m \in Mids, FetchPrice(e, m) PROVE ScanInv'
<1>1. /\ mid \in [Exchanges -> Mids] /\ mid' = [mid EXCEPT ![e] = m] /\ e \notin DOMAIN ticks
      /\ ticks' = [f \in DOMAIN ticks \cup {e} |-> IF f = e THEN Tick(e, m) ELSE ticks[f]]
      /\ DOMAIN ticks \subseteq Exchanges
      /\ UNCHANGED <<scanCount, opportunities>>
  BY DEF FetchPrice, ScanInv
<1>2. mid' \in [Exchanges -> Mids] /\ DOMAIN ticks' = DOMAIN ticks \cup {e}
  BY <1>1
<1>3. ASSUME NEW f \in DOMAIN ticks' PROVE ticks'[f] = Quote(f)'
  <2>1. CASE f = e
    BY <1>1, <2>1 DEF Quote
  <2>2. CASE f # e
    <3>1. f \in DOMAIN ticks /\ f \in Exchanges /\ ticks'[f] = ticks[f] /\ mid'[f] = mid[f]
      BY <1>1, <1>2, <2>2
    <3>2. QED BY <3>1 DEF Quote, ScanInv
  <2>3. QED BY <2>1, <2>2
<1>4. TradesLeadUphill'
  BY <1>1 DEF ScanInv, TradesLeadUphill, OfScan
<1>5. QED BY <1>1, <1>2, <1>3, <1>4 DEF ScanInv

LEMMA CompareKeeps == ASSUME ScanInv, Compare PROVE ScanInv'
<1>1. PICK n \in Nat : n = scanCount + 1 /\ n > 0
  BY DEF ScanInv
<1>2. /\ DOMAIN ticks = Exchanges /\ scanCount' = n /\ opportunities' = opportunities \cup Found
      /\ DOMAIN ticks' = {} /\ mid' = mid /\ scanCount = n - 1
  BY <1>1 DEF Compare, ScanInv
<1>3. \A e \in Exchanges : ticks[e] = Quote(e) /\ Quote(e)' = Quote(e)
  BY <1>2 DEF ScanInv, Quote
<1>4. Found = Offered(n)
  BY <1>1, <1>3 DEF Found, Offered, Opportunity, Pairs
<1>5. Offered(n)' = Offered(n)
  BY <1>1, <1>3 DEF Offered, Pairs
<1>6. \A o \in Offered(n) : o.scan = n
  BY DEF Offered
<1>7. \A o \in opportunities : o.scan \in 1 .. (n - 1)
  BY <1>2 DEF ScanInv
<1>8. OfScan(n)' = Offered(n) /\ \A k \in 1 .. (n - 1) : OfScan(k)' = OfScan(k)
  BY <1>1, <1>2, <1>4, <1>6, <1>7 DEF OfScan
<1>9. ASSUME NEW k \in 1 .. n, NEW o \in OfScan(k)', NEW p \in OfScan(k)', o.sell = p.buy PROVE p.bid > o.bid
  <2>1. CASE k # n
    <3>1. k \in 1 .. (n - 1) /\ OfScan(k)' = OfScan(k)
      BY <1>1, <1>8, <2>1
    <3>2. QED BY <1>2, <1>9, <3>1 DEF ScanInv, TradesLeadUphill
  <2>2. CASE k = n
    <3>1. PICK a \in Pairs : Pays(Quote(a[1]), Quote(a[2])) /\ o.sell = a[2] /\ o.bid = Quote(a[2]).bid
      BY <1>8, <1>9, <2>2 DEF Offered
    <3>2. PICK b \in Pairs : /\ Pays(Quote(b[1]), Quote(b[2])) /\ p.buy = b[1] /\ p.bid = Quote(b[2]).bid
      BY <1>8, <1>9, <2>2 DEF Offered
    <3>3. a[2] = b[1] /\ b[1] \in Exchanges /\ b[2] \in Exchanges
      BY <1>9, <3>1, <3>2 DEF Pairs
    <3>4. Quote(b[2]).bid > Quote(b[1]).ask
      BY <3>2 DEF Pays
    <3>5. /\ Quote(b[1]).ask >= Quote(b[1]).bid /\ Quote(b[1]).ask \in Nat /\ Quote(b[1]).bid \in Nat
          /\ Quote(b[2]).bid \in Nat
      BY <3>3, QuoteSpread
    <3>6. QED BY <3>1, <3>2, <3>3, <3>4, <3>5
  <2>3. QED BY <2>1, <2>2
<1>10. TradesLeadUphill'
  BY <1>2, <1>9 DEF TradesLeadUphill
<1>11. \A o \in opportunities' : o.scan \in 1 .. n
  BY <1>1, <1>2, <1>4, <1>6, <1>7
<1>12. mid' \in [Exchanges -> Mids]
  BY <1>2 DEF ScanInv
<1>13. QED BY <1>1, <1>2, <1>5, <1>8, <1>10, <1>11, <1>12 DEF ScanInv

LEMMA ScanStep == ScanInv /\ [ScannerNext]_scannerVars => ScanInv'
<1> SUFFICES ASSUME ScanInv, [ScannerNext]_scannerVars PROVE ScanInv'
  OBVIOUS
<1>1. CASE UNCHANGED scannerVars
  BY <1>1 DEF scannerVars, ScanInv, TradesLeadUphill, OfScan, Offered, Quote
<1>2. CASE ScannerNext
  BY <1>2, FetchKeeps, CompareKeeps DEF ScannerNext
<1>3. QED BY <1>1, <1>2

\* A finite set has a member at which f is greatest.
LEMMA GreatestAt ==
  ASSUME NEW S, IsFiniteSet(S), S # {}, NEW f, \A x \in S : f[x] \in Int
  PROVE  \E x \in S : \A y \in S : f[x] >= f[y]
<1> DEFINE T == {f[x] : x \in S}
<1>1. T \in SUBSET Int /\ T # {} /\ \A t \in T : \E x \in S : t = f[x]
  OBVIOUS
<1>2. IsFiniteSet(T)
  BY <1>1, FiniteImage
<1> HIDE DEF T
<1>3. PICK t \in T : \A u \in T : t >= u
  BY <1>1, <1>2, FiniteMax
<1>4. PICK x \in S : t = f[x]
  BY <1>1
<1>5. \A y \in S : f[y] \in T
  BY DEF T
<1>6. QED BY <1>3, <1>4, <1>5

\* A pair that pays is no better than the lowest ask with the highest bid.
LEMMA BestPays ==
  ASSUME NEW a \in Nat, NEW b \in Nat, NEW low \in Nat, NEW high \in Nat, low <= a, b <= high,
         NEW M \in Nat, b > a, 100 * (b - a) >= M * a
  PROVE  high > low /\ 100 * (high - low) >= M * low
<1>1. PICK d \in Nat : a = low + d
  <2>1. a - low \in Nat
    OBVIOUS
  <2>2. QED BY <2>1
<1>2. M * a = M * low + M * d /\ M * d \in Nat /\ M * low \in Nat
  BY <1>1
<1>3. QED BY <1>2

LEMMA ScanImplies == ScanInv => ScansAgree
<1> SUFFICES ASSUME ScanInv, scanCount > 0, DOMAIN ticks = {} PROVE BestPairIsFound
  BY DEF ScansAgree, ScanInv, BestPairIsFound
<1> DEFINE high == CHOOSE e \in Exchanges : \A f \in Exchanges : Quote(e).bid >= Quote(f).bid
           low == CHOOSE e \in Exchanges : \A f \in Exchanges : Quote(e).ask <= Quote(f).ask
           found == OfScan(scanCount)
<1>1. \A e \in Exchanges : Quote(e).bid \in Nat /\ Quote(e).ask \in Nat /\ Quote(e).bid <= Quote(e).ask
  BY QuoteSpread
<1>2. IsFiniteSet(Exchanges) /\ Exchanges # {} /\ MIN_EDGE \in Nat
  BY ScannerAssumption
<1>3. high \in Exchanges /\ \A f \in Exchanges : Quote(f).bid <= Quote(high).bid
  <2> DEFINE bids == [e \in Exchanges |-> Quote(e).bid]
  <2>1. \A e \in Exchanges : bids[e] = Quote(e).bid /\ bids[e] \in Int
    BY <1>1
  <2> HIDE DEF bids
  <2>2. \E e \in Exchanges : \A f \in Exchanges : bids[e] >= bids[f]
    BY <1>2, <2>1, GreatestAt
  <2>3. \E e \in Exchanges : \A f \in Exchanges : Quote(e).bid >= Quote(f).bid
    BY <2>1, <2>2
  <2>4. high \in Exchanges /\ \A f \in Exchanges : Quote(high).bid >= Quote(f).bid
    BY <2>3
  <2>5. QED BY <1>1, <2>4
<1>4. low \in Exchanges /\ \A f \in Exchanges : Quote(low).ask <= Quote(f).ask
  <2> DEFINE asks == [e \in Exchanges |-> -Quote(e).ask]
  <2>1. \A e \in Exchanges : asks[e] = -Quote(e).ask /\ asks[e] \in Int
    BY <1>1
  <2> HIDE DEF asks
  <2>2. PICK e \in Exchanges : \A f \in Exchanges : asks[e] >= asks[f]
    BY <1>2, <2>1, GreatestAt
  <2>3. \A f \in Exchanges : Quote(e).ask <= Quote(f).ask
    BY <1>1, <2>1, <2>2
  <2>4. QED BY <2>3
<1> HIDE DEF high, low
<1>5. found = Offered(scanCount)
  BY DEF ScanInv
<1> HIDE DEF found
<1>6. ASSUME found # {} PROVE Pays(Quote(low), Quote(high))
  <2>1. PICK p \in Pairs : Pays(Quote(p[1]), Quote(p[2]))
    BY <1>5, <1>6 DEF Offered
  <2>2. p[1] \in Exchanges /\ p[2] \in Exchanges
    BY DEF Pairs
  <2>3. PICK a \in Nat : a = Quote(p[1]).ask
    BY <1>1, <2>2
  <2>4. PICK b \in Nat : b = Quote(p[2]).bid
    BY <1>1, <2>2
  <2>5. b > a /\ 100 * (b - a) >= MIN_EDGE * a
    BY <2>1, <2>3, <2>4 DEF Pays
  <2>6. Quote(low).ask <= a /\ b <= Quote(high).bid /\ Quote(low).ask \in Nat /\ Quote(high).bid \in Nat
    BY <1>1, <1>3, <1>4, <2>2, <2>3, <2>4
  <2>7. PICK l \in Nat, h \in Nat : l = Quote(low).ask /\ h = Quote(high).bid
    BY <2>6
  <2>8. l <= a /\ b <= h
    BY <2>6, <2>7
  <2>9. h > l /\ 100 * (h - l) >= MIN_EDGE * l
    BY <1>2, <2>5, <2>8, BestPays
  <2>10. QED BY <2>7, <2>9 DEF Pays
<1>7. ASSUME Pays(Quote(low), Quote(high))
      PROVE  \E o \in found : o.ask = Quote(low).ask /\ o.bid = Quote(high).bid
  <2>1. low # high
    <3>1. Quote(high).bid > Quote(low).ask
      BY <1>7 DEF Pays
    <3>2. Quote(high).bid <= Quote(high).ask /\ Quote(high).bid \in Nat /\ Quote(high).ask \in Nat
      BY <1>1, <1>3
    <3>3. QED BY <3>1, <3>2
  <2>2. <<low, high>> \in Pairs
    BY <1>3, <1>4, <2>1 DEF Pairs
  <2> DEFINE o == [scan |-> scanCount, buy |-> low, sell |-> high,
                   ask |-> Quote(low).ask, bid |-> Quote(high).bid]
  <2>3. o \in Offered(scanCount)
    <3>1. PICK p \in Pairs : p = <<low, high>> /\ p[1] = low /\ p[2] = high
      BY <2>2
    <3>2. /\ Pays(Quote(p[1]), Quote(p[2]))
          /\ o = [scan |-> scanCount, buy |-> p[1], sell |-> p[2],
                  ask |-> Quote(p[1]).ask, bid |-> Quote(p[2]).bid]
      BY <1>7, <3>1
    <3> HIDE DEF o
    <3>3. QED BY <3>2 DEF Offered
  <2>4. QED BY <1>5, <2>3
<1>8. (found # {} <=> Pays(Quote(low), Quote(high)))
      /\ (found # {} => \E o \in found : o.ask = Quote(low).ask /\ o.bid = Quote(high).bid)
  BY <1>6, <1>7
<1>9. QED BY <1>8 DEF BestPairIsFound, high, low, found

\* Behind a scan the best pair of quotes was reported if it pays, and nothing was
\* reported if it does not; the trades of one scan lead uphill (scanner.py 62-114),
\* for every set of exchanges, spreads, prices, edge and number of scans.
THEOREM ScansAgreeHolds == ScannerSpec => []ScansAgree
BY ScanStarts, ScanStep, ScanImplies, PTL DEF ScannerSpec

-----------------------------------------------------------------------------
(***************************************************************************)
(* FraudDetector: what is blocked, what is at least seen, and who has no   *)
(* baseline yet.                                                           *)
(***************************************************************************)

Transaction == [amount : TxAmounts, time : Times, z : {0, 2, 3, 4},
                vel : BOOLEAN, geo : BOOLEAN, risk : Risks]

\* The i-th transaction of a history was judged by its flags, and these by those before it.
JudgedWell(h, i) ==
  /\ h[i].risk = Classify(h[i].z, h[i].vel, h[i].geo)
  /\ Cardinality({j \in 1 .. (i - 1) : h[j].time >= h[i].time - VELOCITY_WINDOW}) >= VELOCITY_LIMIT
       => h[i].vel
  /\ i <= 3 => h[i].z = 0
  /\ i > 3 => \A a \in TxAmounts : (\A j \in 1 .. (i - 1) : h[j].amount = a)
                 => h[i].z = IF h[i].amount = a THEN 0 ELSE 4

FraudInv ==
  /\ userHistory \in [Users -> Seq(Transaction)]
  /\ \A u \in Users : /\ Len(userHistory[u]) <= MaxScreened
                      /\ \A i \in DOMAIN userHistory[u] : JudgedWell(userHistory[u], i)
  /\ blocked = {s \in Screened : Tx(s).risk = "BLOCK"}

LEMMA ClassifyIs ==
  ASSUME NEW z \in {0, 2, 3, 4}, NEW vel \in BOOLEAN, NEW geo \in BOOLEAN
  PROVE  /\ Classify(z, vel, geo) \in Risks
         /\ Classify(z, vel, geo) = "BLOCK" <=> \/ z >= 4
                                                \/ z >= 3 /\ (vel \/ geo)
                                                \/ z >= 2 /\ vel /\ geo
         /\ vel => Classify(z, vel, geo) \in {"ALERT", "BLOCK"}
<1>1. Score(z, vel, geo) = (IF z >= 3 THEN 3 ELSE IF z = 2 THEN 1 ELSE 0)
                             + (IF vel THEN 2 ELSE 0) + (IF geo THEN 1 ELSE 0)
  BY DEF Score, Z_ALERT, Z_WATCH
<1>2. Classify(z, vel, geo) =
        CASE z = 4 \/ Score(z, vel, geo) >= 4 -> "BLOCK"
          [] z < 4 /\ Score(z, vel, geo) \in {2, 3} -> "ALERT"
          [] Score(z, vel, geo) = 1 -> "WATCH"
          [] Score(z, vel, geo) = 0 -> "CLEAR"
  BY DEF Classify, Z_BLOCK
<1>3. CASE z = 4
  BY <1>1, <1>2, <1>3 DEF Risks
<1>4. CASE z = 3
  BY <1>1, <1>2, <1>4 DEF Risks
<1>5. CASE z = 2
  BY <1>1, <1>2, <1>5 DEF Risks
<1>6. CASE z = 0
  BY <1>1, <1>2, <1>6 DEF Risks
<1>7. QED BY <1>3, <1>4, <1>5, <1>6

\* What a transaction is judged by does not change with later ones.
LEMMA JudgementStays ==
  ASSUME NEW h, NEW g, NEW i \in Nat, \A j \in 1 .. i : g[j] = h[j], i > 0, JudgedWell(h, i)
  PROVE  JudgedWell(g, i)
<1>1. g[i] = h[i] /\ \A j \in 1 .. (i - 1) : g[j] = h[j]
  OBVIOUS
<1>2. {j \in 1 .. (i - 1) : g[j].time >= g[i].time - VELOCITY_WINDOW}
        = {j \in 1 .. (i - 1) : h[j].time >= h[i].time - VELOCITY_WINDOW}
  BY <1>1
<1>3. /\ g[i].risk = Classify(g[i].z, g[i].vel, g[i].geo)
      /\ i <= 3 => g[i].z = 0
  BY <1>1 DEF JudgedWell
<1>4. Cardinality({j \in 1 .. (i - 1) : g[j].time >= g[i].time - VELOCITY_WINDOW}) >= VELOCITY_LIMIT
        => g[i].vel
  BY <1>1, <1>2 DEF JudgedWell
<1>5. i > 3 => \A a \in TxAmounts : (\A j \in 1 .. (i - 1) : g[j].amount = a)
                 => g[i].z = IF g[i].amount = a THEN 0 ELSE 4
  BY <1>1 DEF JudgedWell
<1>6. QED BY <1>3, <1>4, <1>5 DEF JudgedWell

\* The highest threshold that the deviation reaches.
Reached(amount, h) == {k \in {Z_WATCH, Z_ALERT, Z_BLOCK} : ZReaches(amount, h, k)}

LEMMA DeviationIs ==
  ASSUME NEW h \in Seq(Transaction), NEW amount \in TxAmounts, NEW z, z = Max({0} \cup Reached(amount, h))
  PROVE  /\ z \in {0, 2, 3, 4}
         /\ Len(h) < 3 => z = 0
         /\ Len(h) >= 3 => \A a \in TxAmounts : (\A j \in 1 .. Len(h) : h[j].amount = a)
                              => z = IF amount = a THEN 0 ELSE 4
<1>1. PICK R : R = {0} \cup Reached(amount, h)
  OBVIOUS
<1>2. R \subseteq {0, 2, 3, 4} /\ 0 \in R
  BY <1>1 DEF Reached, Z_WATCH, Z_ALERT, Z_BLOCK
<1>3. z \in {0, 2, 3, 4}
  <2>1. R \in SUBSET Int /\ R # {} /\ 4 \in Int /\ \A x \in R : x <= 4
    BY <1>2
  <2>2. Max(R) \in R
    BY <2>1, MaxIsGreatest
  <2>3. QED BY <1>1, <1>2, <2>2
<1>4. ASSUME R = {0} PROVE z = 0
  <2>1. R \in SUBSET Int /\ 0 \in R /\ \A y \in R : y <= 0
    BY <1>4
  <2>2. QED BY <1>1, <2>1, MaxIs
<1>5. ASSUME Len(h) < 3 PROVE z = 0
  <2>1. \A k : ~ZReaches(amount, h, k)
    BY <1>5 DEF ZReaches, Baseline
  <2>2. QED BY <1>1, <1>4, <2>1 DEF Reached
<1>6. ASSUME Len(h) >= 3, NEW a \in TxAmounts, \A j \in 1 .. Len(h) : h[j].amount = a
      PROVE  z = IF amount = a THEN 0 ELSE 4
  <2>1. PICK n \in Nat : n = Len(h) /\ n >= 3
    BY <1>6
  <2>2. a \in Int /\ amount \in Int /\ Square(a) \in Int
    BY FraudAssumption DEF Square
  <2>3. IsFiniteSet(1 .. n) /\ Cardinality(1 .. n) = n
    BY IntervalSize
  <2> DEFINE amounts == [i \in 1 .. Len(h) |-> h[i].amount]
             squares == [i \in 1 .. Len(h) |-> Square(h[i].amount)]
  <2>4. /\ \A i \in 1 .. n : amounts[i] = a /\ squares[i] = Square(a)
        /\ DOMAIN amounts = 1 .. n /\ DOMAIN squares = 1 .. n
    BY <1>6, <2>1
  <2> HIDE DEF amounts, squares
  <2>5. SumOf(amounts) = n * a
    <3>1. SumFunctionOnSet(amounts, 1 .. n) = Cardinality(1 .. n) * a
      BY <2>2, <2>3, <2>4, SumConstant
    <3>2. QED BY <2>3, <2>4, <3>1 DEF SumOf
  <2>6. SumOf(squares) = n * Square(a)
    <3>1. SumFunctionOnSet(squares, 1 .. n) = Cardinality(1 .. n) * Square(a)
      BY <2>2, <2>3, <2>4, SumConstant
    <3>2. QED BY <2>3, <2>4, <3>1 DEF SumOf
  <2>7. n * SumOf(squares) - Square(SumOf(amounts)) = 0
    <3>1. n * (n * (a * a)) = (n * a) * (n * a)
      BY <2>1, <2>2
    <3>2. (n * a) * (n * a) \in Int
      BY <2>1, <2>2
    <3>3. QED BY <2>5, <2>6, <3>1, <3>2 DEF Square
  <2>8. ASSUME NEW k PROVE ZReaches(amount, h, k) <=> n * amount # n * a
    BY <2>1, <2>5, <2>7 DEF ZReaches, Baseline, amounts, squares
  <2>9. n * amount # n * a <=> amount # a
    BY <2>1, <2>2
  <2>10. CASE amount = a
    BY <1>1, <1>4, <2>8, <2>9, <2>10 DEF Reached
  <2>11. CASE amount # a
    <3>1. R = {0, 2, 3, 4}
      BY <1>1, <2>8, <2>9, <2>11 DEF Reached, Z_WATCH, Z_ALERT, Z_BLOCK
    <3>2. R \in SUBSET Int /\ 4 \in R /\ \A y \in R : y <= 4
      BY <3>1
    <3>3. QED BY <1>1, <2>11, <3>2, MaxIs
  <2>12. QED BY <2>10, <2>11
<1>7. QED BY <1>3, <1>5, <1>6

LEMMA FraudStarts == FraudInit => FraudInv
<1> SUFFICES ASSUME FraudInit PROVE FraudInv
  OBVIOUS
<1>1. \A u \in Users : userHistory[u] = << >>
  BY DEF FraudInit
<1>2. Screened = {}
  BY <1>1 DEF Screened
<1>3. QED BY <1>1, <1>2, FraudAssumption DEF FraudInit, FraudInv

LEMMA ScreenKeeps ==
  ASSUME FraudInv, NEW u \in Users, NEW amount \in TxAmounts, NEW time \in Times, NEW abroad \in BOOLEAN,
         Screen(u, amount, time, abroad)
  PROVE  FraudInv'
<1>1. PICK h \in Seq(Transaction) : h = userHistory[u]
  BY DEF FraudInv
<1>2. PICK n \in Nat : n = Len(h) /\ DOMAIN h = 1 .. n
  BY <1>1
<1>3. PICK z : z = Max({0} \cup Reached(amount, h))
  OBVIOUS
<1>4. PICK vel \in BOOLEAN : vel = VelocityCheck(time, h)
  <2>1. VelocityCheck(time, h) \in BOOLEAN
    BY DEF VelocityCheck
  <2>2. QED BY <2>1
<1>5. PICK geo \in BOOLEAN : geo = GeoCheck(u, abroad)
  <2>1. GeoCheck(u, abroad) \in BOOLEAN
    BY DEF GeoCheck
  <2>2. QED BY <2>1
<1>6. PICK e : e = [amount |-> amount, time |-> time, z |-> z, vel |-> vel, geo |-> geo,
                    risk |-> Classify(z, vel, geo)]
  OBVIOUS
<1>7. /\ n < MaxScreened
      /\ userHistory' = [userHistory EXCEPT ![u] = Append(h, e)]
      /\ blocked' = IF Classify(z, vel, geo) = "BLOCK" THEN blocked \cup {<<u, n + 1>>} ELSE blocked
  BY <1>1, <1>2, <1>3, <1>4, <1>5, <1>6 DEF Screen, Reached
<1>8. /\ z \in {0, 2, 3, 4}
      /\ n < 3 => z = 0
      /\ n >= 3 => \A a \in TxAmounts : (\A j \in 1 .. n : h[j].amount = a) => z = IF amount = a THEN 0 ELSE 4
  BY <1>2, <1>3, DeviationIs
<1>9. /\ e \in Transaction /\ e.risk = Classify(z, vel, geo) /\ e.z = z /\ e.vel = vel /\ e.geo = geo
      /\ e.amount = amount /\ e.time = time
  <2>1. Classify(z, vel, geo) \in Risks
    BY <1>8, ClassifyIs
  <2>2. QED BY <1>6, <1>8, <2>1 DEF Transaction
<1>10. PICK g \in Seq(Transaction) : g = Append(h, e)
  <2>1. e \in Transaction
    BY <1>9
  <2>2. Append(h, e) \in Seq(Transaction)
    BY <2>1
  <2>3. QED BY <2>2
<1>11. /\ Len(g) = n + 1 /\ DOMAIN g = 1 .. (n + 1) /\ g[n + 1] = e
       /\ \A j \in 1 .. n : g[j] = h[j]
  BY <1>2, <1>9, <1>10
<1>12. /\ userHistory' \in [Users -> Seq(Transaction)] /\ userHistory'[u] = g
       /\ \A v \in Users \ {u} : userHistory'[v] = userHistory[v]
  BY <1>7, <1>10 DEF FraudInv
<1>13. JudgedWell(g, n + 1)
  <2> PICK m \in Nat : m = n + 1 /\ m - 1 = n
    BY <1>2
  <2>1. \A j \in 1 .. (m - 1) : g[j] = h[j]
    BY <1>11
  <2>2. Cardinality({j \in 1 .. (m - 1) : g[j].time >= g[m].time - VELOCITY_WINDOW}) >= VELOCITY_LIMIT
          => g[m].vel
    <3>1. {j \in 1 .. (m - 1) : g[j].time >= g[m].time - VELOCITY_WINDOW}
            = {j \in DOMAIN h : h[j].time >= time - VELOCITY_WINDOW}
      BY <1>2, <1>9, <1>11, <2>1
    <3>2. QED BY <1>4, <1>9, <1>11, <3>1 DEF VelocityCheck
  <2>3. m <= 3 => g[m].z = 0
    BY <1>8, <1>9, <1>11
  <2>4. m > 3 => \A a \in TxAmounts : (\A j \in 1 .. (m - 1) : g[j].amount = a)
                        => g[m].z = IF g[m].amount = a THEN 0 ELSE 4
    BY <1>8, <1>9, <1>11, <2>1
  <2>5. g[m].risk = Classify(g[m].z, g[m].vel, g[m].geo)
    BY <1>9, <1>11
  <2>6. JudgedWell(g, m)
    BY ONLY <2>2, <2>3, <2>4, <2>5 DEF JudgedWell
  <2>7. QED BY <2>6
<1>14. ASSUME NEW v \in Users
       PROVE  /\ Len(userHistory'[v]) <= MaxScreened
              /\ \A i \in DOMAIN userHistory'[v] : JudgedWell(userHistory'[v], i)
  <2>1. CASE v # u
    BY <1>12, <2>1 DEF FraudInv
  <2>2. CASE v = u
    <3>1. \A i \in 1 .. n : JudgedWell(h, i)
      BY <1>1, <1>2 DEF FraudInv
    <3>2. ASSUME NEW i \in 1 .. n PROVE JudgedWell(g, i)
      <4>1. i \in Nat /\ i > 0 /\ \A j \in 1 .. i : g[j] = h[j]
        BY <1>11
      <4>2. QED BY <3>1, <4>1, JudgementStays
    <3>3. \A i \in DOMAIN g : i \in 1 .. n \/ i = n + 1
      BY <1>11
    <3>4. n + 1 <= MaxScreened
      BY <1>7, FraudAssumption
    <3>5. QED BY <1>11, <1>12, <1>13, <2>2, <3>2, <3>3, <3>4
  <2>3. QED BY <2>1, <2>2
<1>15. blocked' = {s \in Screened' : Tx(s)'.risk = "BLOCK"}
  <2>1. ASSUME NEW s \in Users \X (1 .. MaxScreened)
        PROVE  s \in Screened' <=> s \in Screened \/ s = <<u, n + 1>>
    <3>1. PICK v \in Users, i \in 1 .. MaxScreened : s = <<v, i>>
      OBVIOUS
    <3>2. s \in Screened <=> i <= Len(userHistory[v])
      BY <3>1 DEF Screened
    <3>3. s \in Screened' <=> i <= Len(userHistory'[v])
      BY <3>1 DEF Screened
    <3>4. CASE v # u
      BY <1>12, <3>1, <3>2, <3>3, <3>4
    <3>5. CASE v = u
      BY <1>1, <1>2, <1>11, <1>12, <3>1, <3>2, <3>3, <3>5
    <3>6. QED BY <3>4, <3>5
  <2>2. n + 1 \in 1 .. MaxScreened /\ <<u, n + 1>> \in Users \X (1 .. MaxScreened)
    BY <1>7, FraudAssumption
  <2>3. Screened' = Screened \cup {<<u, n + 1>>} /\ <<u, n + 1>> \notin Screened
    <3>1. <<u, n + 1>> \notin Screened
      BY <1>1, <1>2 DEF Screened
    <3>2. Screened \subseteq Users \X (1 .. MaxScreened) /\ Screened' \subseteq Users \X (1 .. MaxScreened)
      BY DEF Screened
    <3>3. QED BY <2>1, <2>2, <3>1, <3>2
  <2>4. ASSUME NEW s \in Screened PROVE Tx(s)' = Tx(s)
    <3>1. PICK v \in Users, i \in 1 .. MaxScreened : s = <<v, i>> /\ i <= Len(userHistory[v])
      BY DEF Screened
    <3>2. CASE v # u
      BY <1>12, <3>1, <3>2 DEF Tx
    <3>3. CASE v = u
      <4>1. i \in 1 .. n
        BY <1>1, <1>2, <3>1, <3>3
      <4>2. QED BY <1>1, <1>11, <1>12, <3>1, <3>3, <4>1 DEF Tx
    <3>4. QED BY <3>2, <3>3
  <2>5. Tx(<<u, n + 1>>)' = e
    BY <1>11, <1>12 DEF Tx
  <2>6. blocked = {s \in Screened : Tx(s).risk = "BLOCK"}
    BY DEF FraudInv
  <2>7. ASSUME NEW s PROVE s \in blocked' <=> s \in Screened' /\ Tx(s)'.risk = "BLOCK"
    BY <1>7, <1>9, <2>3, <2>4, <2>5, <2>6
  <2>8. QED BY <2>7
<1>16. QED BY <1>12, <1>14, <1>15 DEF FraudInv

LEMMA FraudStep == FraudInv /\ [FraudNext]_fraudVars => FraudInv'
<1> SUFFICES ASSUME FraudInv, [FraudNext]_fraudVars PROVE FraudInv'
  OBVIOUS
<1>1. CASE UNCHANGED <<userHistory, blocked>>
  BY <1>1 DEF FraudInv, Screened, Tx
<1>2. CASE \E u \in Users, amount \in TxAmounts, time \in Times, abroad \in BOOLEAN :
             Screen(u, amount, time, abroad)
  BY <1>2, ScreenKeeps
<1>3. QED BY <1>1, <1>2 DEF FraudNext, RegisterProfile, fraudVars

LEMMA ScreenedIs ==
  ASSUME FraudInv, NEW s \in Screened
  PROVE  /\ s[1] \in Users /\ s[2] \in DOMAIN userHistory[s[1]] /\ s[2] \in Nat /\ s[2] > 0
         /\ s = <<s[1], s[2]>> /\ Tx(s) \in Transaction /\ JudgedWell(userHistory[s[1]], s[2])
<1>1. PICK u \in Users, i \in 1 .. MaxScreened : s = <<u, i>> /\ i <= Len(userHistory[u])
  BY DEF Screened
<1>2. i \in Nat /\ i > 0 /\ i \in DOMAIN userHistory[u] /\ userHistory[u][i] \in Transaction
  BY <1>1, FraudAssumption DEF FraudInv
<1>3. QED BY <1>1, <1>2 DEF Tx, FraudInv

LEMMA FraudImplies == FraudInv => FraudVerdicts
<1> SUFFICES ASSUME FraudInv PROVE FraudVerdicts
  OBVIOUS
<1>1. ASSUME NEW s \in Screened
      PROVE  s \in blocked <=> \/ Tx(s).z >= 4
                               \/ Tx(s).z >= 3 /\ (Tx(s).vel \/ Tx(s).geo)
                               \/ Tx(s).z >= 2 /\ Tx(s).vel /\ Tx(s).geo
  <2>1. PICK e \in Transaction : e = Tx(s) /\ e.risk = Classify(e.z, e.vel, e.geo)
    BY ScreenedIs DEF Tx, JudgedWell
  <2>2. s \in blocked <=> e.risk = "BLOCK"
    BY <2>1 DEF FraudInv
  <2>3. e.z \in {0, 2, 3, 4} /\ e.vel \in BOOLEAN /\ e.geo \in BOOLEAN
    BY DEF Transaction
  <2>4. QED BY <2>1, <2>2, <2>3, ClassifyIs
<1>2. BlockedIff
  <2>1. blocked \subseteq Screened
    BY DEF FraudInv
  <2>2. QED BY <1>1, <2>1 DEF BlockedIff
<1>3. BurstIsSeen
  <2> SUFFICES ASSUME NEW u \in Users, NEW start \in Times, NEW burst,
                      burst = {i \in DOMAIN userHistory[u] :
                                 userHistory[u][i].time \in start .. start + VELOCITY_WINDOW},
                      Cardinality(burst) > VELOCITY_LIMIT
               PROVE  \E i \in burst : userHistory[u][i].risk \in {"ALERT", "BLOCK"}
    BY DEF BurstIsSeen
  <2>1. PICK h \in Seq(Transaction) : h = userHistory[u]
    BY DEF FraudInv
  <2>2. PICK n \in Nat : n = Len(h) /\ DOMAIN h = 1 .. n
    BY <2>1
  <2>3. start \in Int /\ VELOCITY_WINDOW \in Nat /\ VELOCITY_LIMIT \in Nat /\ n \in Int
    BY FraudAssumption
  <2>4. burst \in SUBSET (1 .. n) /\ \A i \in burst : h[i].time \in start .. start + VELOCITY_WINDOW
    BY <2>1, <2>2
  <2>5. IsFiniteSet(burst) /\ Cardinality(burst) \in Nat
    BY <2>3, <2>4, FinitePart
  <2>6. burst # {}
    <3>1. Cardinality({}) = 0 /\ ~(0 > VELOCITY_LIMIT)
      BY <2>3, FS_EmptySet
    <3>2. QED BY <3>1
  <2>7. PICK last \in burst : \A i \in burst : i <= last
    <3>1. burst \in SUBSET Int /\ \A i \in burst : i <= n
      BY <2>4
    <3>2. QED BY <2>3, <2>6, <3>1, MaxIsGreatest
  <2>8. last \in 1 .. n /\ last \in Nat /\ last > 0 /\ last - 1 \in Int
    BY <2>4
  <2> DEFINE near == {j \in 1 .. (last - 1) : h[j].time >= h[last].time - VELOCITY_WINDOW}
  <2>9. burst \ {last} \in SUBSET near
    <3> SUFFICES ASSUME NEW j \in burst, j # last
                 PROVE  j \in 1 .. (last - 1) /\ h[j].time >= h[last].time - VELOCITY_WINDOW
      OBVIOUS
    <3>1. j \in 1 .. n /\ j <= last
      BY <2>4, <2>7
    <3>2. h[j].time \in start .. start + VELOCITY_WINDOW /\ h[last].time \in start .. start + VELOCITY_WINDOW
      BY <2>4
    <3>3. j \in 1 .. (last - 1)
      BY <2>8, <3>1
    <3>4. h[j].time >= h[last].time - VELOCITY_WINDOW
      BY <2>3, <3>2
    <3>5. QED BY <3>3, <3>4
  <2>10. near \in SUBSET (1 .. (last - 1))
    OBVIOUS
  <2>11. JudgedWell(h, last) /\ (Cardinality(near) >= VELOCITY_LIMIT => h[last].vel)
    <3>1. JudgedWell(h, last)
      BY <2>1, <2>2, <2>8 DEF FraudInv
    <3>2. QED BY ONLY <3>1 DEF JudgedWell
  <2> HIDE DEF near
  <2>12. IsFiniteSet(near) /\ Cardinality(near) \in Nat
    BY <2>8, <2>10, FinitePart
  <2>13. Cardinality(burst \ {last}) <= Cardinality(near) /\ Cardinality(burst \ {last}) = Cardinality(burst) - 1
    BY <2>5, <2>9, <2>12, FiniteSize, FS_RemoveElement
  <2>14. h[last].vel
    BY <2>3, <2>5, <2>11, <2>12, <2>13
  <2>15. h[last] \in Transaction
    BY <2>2, <2>8
  <2>16. /\ h[last].z \in {0, 2, 3, 4} /\ h[last].vel \in BOOLEAN /\ h[last].geo \in BOOLEAN
         /\ h[last].risk = Classify(h[last].z, h[last].vel, h[last].geo)
    BY <2>11, <2>15 DEF Transaction, JudgedWell
  <2>17. h[last].risk \in {"ALERT", "BLOCK"}
    BY <2>14, <2>16, ClassifyIs
  <2>18. QED BY <2>1, <2>17
<1>4. NoBaselineNoBlock
  <2> SUFFICES ASSUME NEW s \in Screened, NEW before, before = {Tx(<<s[1], i>>).amount : i \in 1 .. s[2] - 1}
               PROVE  /\ s[2] <= 3 => s \notin blocked
                      /\ s[2] > 3 /\ Cardinality(before) = 1 => (s \in blocked <=> Tx(s).amount \notin before)
    BY DEF NoBaselineNoBlock
  <2>1. /\ s[1] \in Users /\ s[2] \in DOMAIN userHistory[s[1]] /\ s[2] \in Nat /\ s[2] > 0
        /\ s = <<s[1], s[2]>> /\ Tx(s) \in Transaction /\ JudgedWell(userHistory[s[1]], s[2])
    BY ScreenedIs
  <2>2. PICK h \in Seq(Transaction) : h = userHistory[s[1]]
    BY <2>1 DEF FraudInv
  <2>3. PICK i \in Nat : i = s[2] /\ i > 0 /\ i \in DOMAIN h
    BY <2>1, <2>2
  <2>4. PICK e \in Transaction : e = h[i] /\ e = Tx(s)
    BY <2>1, <2>2, <2>3 DEF Tx
  <2>5. JudgedWell(h, i)
    BY <2>1, <2>2, <2>3
  <2>6. e.z = 0 => s \notin blocked
    BY <1>1, <2>4
  <2>7. e.z = 4 => s \in blocked
    BY <1>1, <2>4
  <2>8. i <= 3 => s \notin blocked
    BY <2>4, <2>5, <2>6 DEF JudgedWell
  <2>9. ASSUME i > 3, Cardinality(before) = 1 PROVE s \in blocked <=> e.amount \notin before
    <3>1. before = {h[j].amount : j \in 1 .. i - 1}
      BY <2>2, <2>3 DEF Tx
    <3>2. IsFiniteSet(before)
      <4>1. IsFiniteSet(1 .. i - 1)
        <5>1. 1 .. i - 1 \in SUBSET (1 .. i) /\ i \in Int
          BY <2>3
        <5>2. QED BY <5>1, FinitePart
      <4>2. PICK f : f = [k \in 1 .. i - 1 |-> h[k].amount]
        OBVIOUS
      <4>3. \A b \in before : \E j \in 1 .. i - 1 : b = f[j]
        BY <3>1, <4>2
      <4>4. PICK S : S = 1 .. i - 1
        OBVIOUS
      <4>5. IsFiniteSet(S) /\ \A b \in before : \E j \in S : b = f[j]
        BY <4>1, <4>3, <4>4
      <4>6. QED BY ONLY <4>5, FiniteImage
    <3>3. PICK a : before = {a}
      BY <2>9, <3>2, FS_Singleton
    <3>4. \A j \in 1 .. (i - 1) : h[j].amount = a
      BY <3>1, <3>3
    <3>5. a \in TxAmounts
      <4>1. PICK j \in 1 .. (i - 1) : h[j].amount = a
        BY <3>1, <3>3
      <4>2. DOMAIN h = 1 .. Len(h) /\ Len(h) \in Nat
        OBVIOUS
      <4>3. h[j] \in Transaction
        BY <2>3, <4>1, <4>2
      <4>4. QED BY <4>1, <4>3 DEF Transaction
    <3>6. e.z = IF e.amount = a THEN 0 ELSE 4
      BY <2>4, <2>5, <2>9, <3>4, <3>5 DEF JudgedWell
    <3>7. QED BY <2>6, <2>7, <3>3, <3>6
  <2>10. QED BY <2>3, <2>4, <2>8, <2>9
<1>5. QED BY <1>2, <1>3, <1>4 DEF FraudVerdicts

\* What is blocked is what the scores say; a burst of more than VELOCITY_LIMIT
\* transactions in one window is an alert at least; a user of fewer than three is never
\* blocked, and one of a single amount for every other (rules_engine.py 84-134), for
\* every set of users, integer amounts and times, window, limit and number of calls.
THEOREM FraudVerdictsHolds == FraudSpec => []FraudVerdicts
BY FraudStarts, FraudStep, FraudImplies, PTL DEF FraudSpec

=============================================================================
