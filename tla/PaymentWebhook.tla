--------------------------- MODULE PaymentWebhook ---------------------------
(***************************************************************************)
(* The event log of PaymentService: how a gateway's events about one       *)
(* payment intent are deduplicated, recorded and applied, when they are    *)
(* delivered at least once, concurrently and in any order, and deliveries  *)
(* die half way.                                                           *)
(*                                                                         *)
(* A capture reaches the service as several events (Razorpay sends         *)
(* payment.captured and order.paid, both taken for a capture), and every   *)
(* failed attempt of the buyer as one more.  A delivery reads the log,     *)
(* then claims the event in a transaction: the unique index makes a second *)
(* claim wait until the first transaction ends.  What a transaction reads  *)
(* before its first write to the payment, it reads with no lock.           *)
(*                                                                         *)
(* The unique key of an event is also taken by the FAILED row of a         *)
(* delivery that is refused: one whose signature does not verify (the      *)
(* sandbox's path), or one that comes before the order's transaction has   *)
(* committed its payment and finds none.  And the catch around the insert  *)
(* takes every error for a race that was lost.                             *)
(*                                                                         *)
(* Left out: an event whose amount is not the payment's, which is answered *)
(* with an error and writes nothing.                                       *)
(***************************************************************************)
EXTENDS Naturals, FiniteSets

CONSTANTS
  Captures,  \* events that report the money captured
  Failures,  \* events that report a failed attempt
  Copies,    \* the deliveries of an event that may be in flight at once
  MaxLost    \* bound of the model: deliveries that die, lose their answer,
             \* do not verify or fail to insert their row

Events == Captures \cup Failures
Deliveries == UNION {{e} \X Copies[e] : e \in Events}

ASSUME WebhookAssumption == Captures \cap Failures = {} /\ MaxLost \in Nat

VARIABLES
  payment,    \* payments.state ("NONE": the order is not committed yet)
  payStatus,  \* orders.paymentStatus
  entry,      \* payment_webhooks.processingStatus ("NONE": no committed row)
  effects,    \* payment_transactions rows written for an event
  work,       \* where a delivery is
  answered,   \* events the gateway got a 2xx answer for
  swallowed,  \* history: events whose insert failed, and not on the key
  lost

webhookVars == <<payment, payStatus, entry, effects, work, answered, swallowed, lost>>

WebhookInit ==
  /\ payment = "NONE"
  /\ payStatus = "PENDING"
  /\ entry = [e \in Events |-> "NONE"]
  /\ effects = [e \in Events |-> 0]
  /\ work = [d \in Deliveries |-> "idle"]
  /\ answered = {}
  /\ swallowed = {}
  /\ lost = 0

-----------------------------------------------------------------------------
(* The order's transaction commits, and its payment with it.                *)
CreateIntent ==
  /\ payment = "NONE"
  /\ payment' = "INITIATED"
  /\ UNCHANGED <<payStatus, entry, effects, work, answered, swallowed, lost>>

-----------------------------------------------------------------------------
(* The gateway: it delivers an event again and again, and not only while it *)
(* waits for the answer.  (External.)                                       *)

Goto(d, stage) == work' = [work EXCEPT ![d] = stage]

(* The reads: only a PROCESSED event is answered at once, and any other     *)
(* needs its payment.                                                       *)
Receive(e, c) ==
  /\ work[<<e, c>>] = "idle"
  /\ Goto(<<e, c>>, CASE entry[e] = "PROCESSED" -> "done"
                      [] entry[e] # "PROCESSED" /\ payment = "NONE" -> "unfound"
                      [] OTHER -> "read")
  /\ UNCHANGED <<payment, payStatus, entry, effects, answered, swallowed, lost>>

(* The process dies, the transaction fails and rolls back, or the answer    *)
(* gets lost.                                                               *)
Lose(e, c) ==
  /\ work[<<e, c>>] # "idle"
  /\ lost < MaxLost
  /\ lost' = lost + 1
  /\ Goto(<<e, c>>, "idle")
  /\ UNCHANGED <<payment, payStatus, entry, effects, answered, swallowed>>

Answer(e, c) ==
  /\ work[<<e, c>>] = "done"
  /\ answered' = answered \cup {e}
  /\ Goto(<<e, c>>, "idle")
  /\ UNCHANGED <<payment, payStatus, entry, effects, swallowed, lost>>

-----------------------------------------------------------------------------
(* The transaction *)

OnlyRead(e) == entry[e] = "NONE"  \* mutation: a look at the log, no unique index
Claimable(e) == entry[e] = "NONE" /\ \A c \in Copies[e] : work[<<e, c>>] # "claimed"

(* The row of a refused delivery.  It waits for an open claim of the event, *)
(* and its failure on the key is dropped.                                   *)
RecordFailed(e) ==
  /\ \A c \in Copies[e] : work[<<e, c>>] # "claimed"
  /\ entry' = [entry EXCEPT ![e] = IF @ = "NONE" THEN "FAILED" ELSE @]

(* 404: there was no payment.                                               *)
Unfound(e, c) ==
  /\ work[<<e, c>>] = "unfound"
  /\ RecordFailed(e)
  /\ Goto(<<e, c>>, "idle")
  /\ UNCHANGED <<payment, payStatus, effects, answered, swallowed, lost>>

(* 403: the signature does not verify.                                      *)
Unverified(e) ==
  /\ lost < MaxLost
  /\ lost' = lost + 1
  /\ RecordFailed(e)
  /\ UNCHANGED <<payment, payStatus, effects, work, answered, swallowed>>

(* The insert failed on the unique index: a row is there, whoever wrote it. *)
Refuse(e, c) ==  \* mutation: answered with an error
  /\ work[<<e, c>>] = "read"
  /\ entry[e] # "NONE"
  /\ Goto(<<e, c>>, "idle")
  /\ UNCHANGED <<payment, payStatus, entry, effects, answered, swallowed, lost>>
InFlight(e, c) ==  \* mutation: an open claim counts as won
  /\ work[<<e, c>>] = "read"
  /\ ~Claimable(e)
  /\ Goto(<<e, c>>, "done")
  /\ UNCHANGED <<payment, payStatus, entry, effects, answered, swallowed, lost>>
Duplicate(e, c) ==
  /\ work[<<e, c>>] = "read"
  /\ entry[e] # "NONE"
  /\ Goto(<<e, c>>, "done")
  /\ UNCHANGED <<payment, payStatus, entry, effects, answered, swallowed, lost>>

(* The insert failed otherwise.  The catch ends the callback like a race    *)
(* that was lost; the commit of the failed transaction rolls it back.       *)
InsertFails(e, c) ==
  /\ work[<<e, c>>] = "read"
  /\ lost < MaxLost
  /\ lost' = lost + 1
  /\ swallowed' = swallowed \cup {e}
  /\ Goto(<<e, c>>, "done")
  /\ UNCHANGED <<payment, payStatus, entry, effects, answered>>

Untouched == payment # "INITIATED"  \* mutation: any earlier event will do
Confirmed == payment = "CONFIRMED"

(* A capture of a payment that is confirmed already is recorded only.       *)
Ignore(e, c) ==
  /\ work[<<e, c>>] = "read"
  /\ Claimable(e)
  /\ e \in Captures /\ Confirmed
  /\ entry' = [entry EXCEPT ![e] = "IGNORED"]
  /\ Goto(<<e, c>>, "done")
  /\ UNCHANGED <<payment, payStatus, effects, answered, swallowed, lost>>

Claim(e, c) ==
  /\ work[<<e, c>>] = "read"
  /\ Claimable(e)
  /\ ~(e \in Captures /\ Confirmed)
  /\ Goto(<<e, c>>, "claimed")
  /\ UNCHANGED <<payment, payStatus, entry, effects, answered, swallowed, lost>>

CapturesOnly(e) == IF e \in Captures THEN "PAID" ELSE payStatus  \* mutation: no word of a failure
StatusAfter(e) == IF e \in Captures THEN "PAID" ELSE "FAILED"

Processed == "PROCESSED"

(* What was decided at the claim is written, whatever the payment is now.   *)
Apply(e, c) ==
  /\ work[<<e, c>>] = "claimed"
  /\ payment' = IF e \in Captures THEN "CONFIRMED" ELSE "FAILED"
  /\ payStatus' = StatusAfter(e)
  /\ effects' = [effects EXCEPT ![e] = @ + 1]
  /\ entry' = [entry EXCEPT ![e] = Processed]
  /\ Goto(<<e, c>>, "done")
  /\ UNCHANGED <<answered, swallowed, lost>>

Transact(e, c) ==
  Unfound(e, c) \/ Duplicate(e, c) \/ InsertFails(e, c) \/ Ignore(e, c) \/ Claim(e, c) \/ Apply(e, c)

WebhookNext ==
  \/ CreateIntent
  \/ \E e \in Events : Unverified(e)
  \/ \E e \in Events : \E c \in Copies[e] :
       Receive(e, c) \/ Lose(e, c) \/ Answer(e, c) \/ Transact(e, c)

WebhookSpec == WebhookInit /\ [][WebhookNext]_webhookVars

(* The order is committed, a handler runs to its end unless it is lost, and *)
(* the gateway repeats an event until it is answered.                       *)
Fairness ==
  /\ WF_webhookVars(CreateIntent)
  /\ \A e \in Events : \A c \in Copies[e] : WF_webhookVars(Transact(e, c) \/ Answer(e, c))
  /\ \A e \in Events : WF_webhookVars(e \notin answered /\ \E c \in Copies[e] : Receive(e, c))

LiveSpec == WebhookSpec /\ Fairness

-----------------------------------------------------------------------------
(* Types of the rows and of the deliveries. *)
WebhookTypeOK ==
  /\ payment \in {"NONE", "INITIATED", "CONFIRMED", "FAILED"}
  /\ payStatus \in {"PENDING", "PAID", "FAILED"}
  /\ entry \in [Events -> {"NONE", "PROCESSED", "IGNORED", "FAILED"}]
  /\ effects \in [Events -> Nat]
  /\ work \in [Deliveries -> {"idle", "unfound", "read", "claimed", "done"}]
  /\ answered \subseteq Events
  /\ swallowed \subseteq Events
  /\ lost \in Nat

(* However often an event is delivered, and wherever a delivery dies, it    *)
(* leaves its transaction row exactly once, when its log entry says so.     *)
AppliedOnce ==
  \A e \in Events : effects[e] = IF entry[e] = "PROCESSED" THEN 1 ELSE 0

(* The gateway stops repeating an event that was answered.  By then it is   *)
(* applied or ignored for good (a delivery that loses the race for the      *)
(* claim does not answer before the winner has committed), but for what the *)
(* code lets pass: the row of a refused delivery held the key, or an insert *)
(* failed for another reason than the key.                                  *)
AnsweredIsApplied ==
  \A e \in answered \ swallowed :
    effects[e] = 1 \/ entry[e] \in {"IGNORED", "FAILED"}

(* A capture is ignored only when another one has been applied: the money   *)
(* never goes unrecorded because two events took each other for the first.  *)
IgnoredIsCaptured ==
  \A e \in Captures : entry[e] = "IGNORED" =>
    \E f \in Captures : f # e /\ effects[f] > 0

Cleared == \E e \in Captures : effects[e] > 0

(* What the order sees of all this, once it is there, is what               *)
(* OrderLifecycle takes for a payment event: the payment and the order      *)
(* change together, as a capture that leaves its row or as a failure.       *)
OrderSeesEvents ==
  [][\/ payment = "NONE" /\ payment' = "INITIATED" /\ UNCHANGED <<payStatus, Cleared>>
     \/ payment # "NONE" /\ payment' = "CONFIRMED" /\ payStatus' = "PAID" /\ Cleared'
     \/ payment # "NONE" /\ payment' = "FAILED" /\ payStatus' = "FAILED" /\ Cleared' = Cleared
    ]_<<payment, payStatus, Cleared>>

(* Every event is answered in the end, however deliveries overlap, as long  *)
(* as not all of them die.                                                  *)
EveryEventAnswered == \A e \in Events : <>(e \in answered)

-----------------------------------------------------------------------------
(* Stated by the documents, and not kept by the code. *)

(* "Unique (provider, providerEventId) race: another request won": what is  *)
(* answered as PROCESSED has been applied, or ignored next to what was.     *)
AnsweredIsDone == \A e \in answered : effects[e] = 1 \/ entry[e] = "IGNORED"

(* "Repeated provider callbacks must produce ONE PAYMENT RESULT": the money *)
(* of one intent is booked as captured once.                                *)
OneCapture == Cardinality({e \in Captures : effects[e] > 0}) <= 1

(* "The system must prevent an event from incorrectly causing an earlier    *)
(* state after a later state has already been committed": money that was    *)
(* captured stays captured when an older failure arrives late.              *)
CaptureStands == [][Confirmed => Confirmed']_payment
=============================================================================
