--------------------------- MODULE WebhookLedger ---------------------------
(* The webhook processor of payment-webhook-processor/webhook.py: signed      *)
(* events of a payment gateway, which retries, reorders and repeats them, a   *)
(* set of the event ids already seen, and a ledger of payments. One call of   *)
(* receive() is one action; its body decides which.                           *)
EXTENDS Integers, Sequences, FiniteSets, FiniteSetsExt, Functions

CONSTANTS Events,        \* event ids the gateway uses
          NoId,          \* an event without id: receive() makes up a fresh one
          Payments,      \* payment ids
          Amounts,       \* amounts, natural numbers
          MaxDeliveries  \* bound on the calls of receive()

VARIABLES processed,     \* _processed_events
          ledger,        \* _ledger: payment id -> amount and status
          eventLog,      \* _event_log, with the body each event had
          webhookStats,  \* _stats
          raised         \* history: identified events whose handler raised

ledgerVars == <<processed, ledger, eventLog, webhookStats, raised>>

Bodies == [type: {"completed", "failed"}, payment: Payments, amount: Amounts]
            \cup [type: {"refunded"}, payment: Payments]
            \cup [type: {"unknown", "broken"}]

Statuses == {"CONFIRMED", "FAILED", "REFUNDED"}

WebhookInit == /\ processed = {}
               /\ ledger = <<>>
               /\ eventLog = <<>>
               /\ webhookStats = [received |-> 0, verified |-> 0, rejected |-> 0, duplicates |-> 0]
               /\ raised = {}

----------------------------------------------------------------------------
(* receive() *)

Bump(counters) ==
  [k \in DOMAIN webhookStats |-> IF k \in counters \cup {"received"}
                                   THEN webhookStats[k] + 1 ELSE webhookStats[k]]

Open == webhookStats.received < MaxDeliveries

RejectForged ==
  /\ Open
  /\ webhookStats' = Bump({"rejected"})
  /\ UNCHANGED <<processed, ledger, eventLog, raised>>

\* The signature is right and the body is not a JSON object.
RejectMalformed ==
  /\ Open
  /\ webhookStats' = Bump({"verified"})
  /\ UNCHANGED <<processed, ledger, eventLog, raised>>

Duplicate(e) ==
  /\ Open
  /\ e \in processed
  /\ webhookStats' = Bump({"verified", "duplicates"})
  /\ UNCHANGED <<processed, ledger, eventLog, raised>>

MarkedNever(e) == processed

Marked(e) == processed \cup ({e} \ {NoId})

Fresh(e) == Open /\ e \notin processed

----------------------------------------------------------------------------
(* _route() and its handlers *)

Put(payment, entry) ==
  [p \in DOMAIN ledger \cup {payment} |-> IF p = payment THEN entry ELSE ledger[p]]

HandleCompleted(b) == Put(b.payment, [amount |-> b.amount, status |-> "CONFIRMED"])

HandleFailed(b) ==
  IF b.payment \in DOMAIN ledger
    THEN [ledger EXCEPT ![b.payment].status = "FAILED"]
    ELSE Put(b.payment, [amount |-> b.amount, status |-> "FAILED"])

HandleRefund(b) ==
  IF b.payment \in DOMAIN ledger
    THEN [ledger EXCEPT ![b.payment].status = "REFUNDED"] ELSE ledger

Route(b) == CASE b.type = "completed" -> HandleCompleted(b)
              [] b.type = "failed" -> HandleFailed(b)
              [] b.type = "refunded" -> HandleRefund(b)
              [] OTHER -> ledger

Process(e, b) ==
  /\ Fresh(e)
  /\ b.type # "broken"
  /\ webhookStats' = Bump({"verified"})
  /\ processed' = Marked(e)
  /\ ledger' = Route(b)
  /\ eventLog' = Append(eventLog, [event |-> e, body |-> b])
  /\ UNCHANGED raised

\* A payload that is not an object: p.get raises after the event was marked.
HandlerRaises(e) ==
  /\ Fresh(e)
  /\ webhookStats' = Bump({"verified"})
  /\ processed' = Marked(e)
  /\ raised' = raised \cup ({e} \ {NoId})
  /\ UNCHANGED <<ledger, eventLog>>

WebhookNext == \/ RejectForged \/ RejectMalformed
               \/ \E e \in Events \cup {NoId} :
                    \/ Duplicate(e) \/ HandlerRaises(e)
                    \/ \E b \in Bodies : Process(e, b)

LedgerSpec == WebhookInit /\ [][WebhookNext]_ledgerVars

----------------------------------------------------------------------------
(* reconcile() *)

With(status) == {p \in DOMAIN ledger : ledger[p].status = status}

Volume(ps) == SumFunctionOnSet([p \in ps |-> ledger[p].amount], ps)

NetRevenue == Volume(With("CONFIRMED")) - Volume(With("REFUNDED"))

----------------------------------------------------------------------------
(* Properties *)

\* webhook.py 91-104: an identified event is applied at most once however often
\* it is delivered, and every identified event that was taken was either applied
\* or lost with the exception of its handler; a retry never repairs the latter.
EventOnce ==
  /\ \A i, j \in DOMAIN eventLog :
       eventLog[i].event = eventLog[j].event /\ eventLog[i].event # NoId => i = j
  /\ processed \ raised = {eventLog[i].event : i \in DOMAIN eventLog} \ {NoId}
  /\ raised \cap {eventLog[i].event : i \in DOMAIN eventLog} = {}

\* Positions of the events about payment p in the order they were applied.
About(p, types) ==
  {i \in DOMAIN eventLog : eventLog[i].body.type \in types /\ eventLog[i].body.payment = p}

Born(p) == Min(About(p, {"completed", "failed"}))

\* webhook.py 121-162: whatever the order of delivery, a payment has the status
\* of the last event applied to it (a refund before the first completed or failed
\* event leaves no trace) and the amount of its last completion, or of the failure
\* it was born with. A late completion therefore revives a refunded payment.
LastEventDecides ==
  \A p \in Payments :
    IF About(p, {"completed", "failed"}) = {} THEN p \notin DOMAIN ledger
    ELSE LET last == eventLog[Max(About(p, {"completed", "failed", "refunded"}))].body.type
             paid == About(p, {"completed"})
         IN /\ p \in DOMAIN ledger
            /\ ledger[p].status = CASE last = "completed" -> "CONFIRMED"
                                    [] last = "failed" -> "FAILED"
                                    [] last = "refunded" -> "REFUNDED"
            /\ ledger[p].amount = eventLog[IF paid = {} THEN Born(p) ELSE Max(paid)].body.amount

\* Money of the payments whose last event is a completion, from the log alone.
Held ==
  LET kept == {p \in Payments : LET is == About(p, {"completed", "failed", "refunded"})
                                IN is # {} /\ eventLog[Max(is)].body.type = "completed"}
  IN SumFunctionOnSet([p \in kept |-> eventLog[Max(About(p, {"completed"}))].body.amount], kept)

\* webhook.py 179: net_revenue is what the log says is held, less every refunded
\* payment once more: refunded payments are not in the confirmed sum they are
\* subtracted from.
RefundsCountedTwice == NetRevenue = Held - Volume(With("REFUNDED"))

\* webhook.py 91-189: the ledger and what is reconciled from it follow the events
\* as they were applied, each once, in the order they came.
LedgerFollowsLog == EventOnce /\ LastEventDecides /\ RefundsCountedTwice
=============================================================================
