---------------------------- MODULE LedgerProofs ----------------------------
(***************************************************************************)
(* What the shop keeps a row of for somebody outside it.  The event log of *)
(* the payment webhooks, for any number of events, deliveries and losses;  *)
(* the notification outbox, for any number of rows, overlapping passes,    *)
(* attempts and crashes: both stand between the shop and a provider which  *)
(* may lose, repeat and delay what is sent.  And the seller's money, for   *)
(* any number of payables, settlements and calls in flight, any amounts    *)
(* and any commission: what the database guards keep whatever overlaps,    *)
(* what holds of payables no write raced for, and what the totals of       *)
(* settlements and the rounding of returns come to.                        *)
(***************************************************************************)
EXTENDS PaymentWebhook, NotificationOutbox, Settlement, FiniteSums

-----------------------------------------------------------------------------
(* The event log of the payment webhooks *)

(* At most one open transaction holds an event, and its entry is not in the *)
(* log yet: what the unique index is there for.                             *)
OneClaim ==
  \A e \in Events : \A c \in Copies[e] : work[<<e, c>>] = "claimed" =>
    /\ entry[e] = "NONE"
    /\ \A b \in Copies[e] : work[<<e, b>>] = "claimed" => b = c

(* A delivery that is about to answer has, or another one has, committed,   *)
(* unless its insert failed.                                                *)
DoneIsLogged ==
  \A e \in Events \ swallowed : \A c \in Copies[e] :
    work[<<e, c>>] = "done" => entry[e] # "NONE"

(* What was answered is in the log, whatever its row says.                  *)
AnsweredIsLogged == \A e \in answered \ swallowed : entry[e] # "NONE"

(* A delivery only gets to the transaction with a payment it has found.     *)
FoundIsThere ==
  \A e \in Events : \A c \in Copies[e] :
    work[<<e, c>>] \in {"read", "claimed"} => payment # "NONE"

ConfirmedIsCaptured == Confirmed => \E e \in Captures : entry[e] = "PROCESSED"

IgnoredHasOther ==
  \A e \in Captures : entry[e] = "IGNORED" => \E f \in Captures : entry[f] = "PROCESSED"

LogInv ==
  /\ WebhookTypeOK
  /\ OneClaim
  /\ AppliedOnce
  /\ DoneIsLogged
  /\ AnsweredIsLogged
  /\ FoundIsThere
  /\ ConfirmedIsCaptured
  /\ IgnoredHasOther

(* The log starts empty, and so does everything that depends on it. *)
LEMMA LogInit == WebhookInit => LogInv
  BY DEF WebhookInit, LogInv, WebhookTypeOK, OneClaim, AppliedOnce, DoneIsLogged, AnsweredIsLogged,
         FoundIsThere, ConfirmedIsCaptured, IgnoredHasOther, Confirmed, Deliveries, Events

(* A step that only moves one delivery, to a stage that is not "claimed",   *)
(* is "read" with a payment only and "done" for a logged event or a failed  *)
(* insert only, disturbs nothing.                                           *)
LEMMA MoveStep ==
  ASSUME LogInv, NEW e \in Events, NEW c \in Copies[e],
         NEW stage \in {"idle", "unfound", "read", "done"},
         Goto(<<e, c>>, stage),
         stage = "read" => payment # "NONE",
         stage = "done" => entry[e] # "NONE" \/ e \in swallowed',
         UNCHANGED <<payment, payStatus, entry, effects>>,
         lost' \in Nat, swallowed' \in SUBSET Events, swallowed \subseteq swallowed',
         answered' \subseteq Events, \A f \in answered' \ swallowed' : entry[f] # "NONE"
  PROVE  LogInv'
  <1>1. <<e, c>> \in Deliveries
    BY DEF Deliveries
  <1>2. WebhookTypeOK'
    BY <1>1 DEF LogInv, WebhookTypeOK, Goto
  <1>3. \A f \in Events : \A b \in Copies[f] :
          work'[<<f, b>>] = IF <<f, b>> = <<e, c>> THEN stage ELSE work[<<f, b>>]
    BY DEF LogInv, WebhookTypeOK, Goto, Deliveries
  <1>4. OneClaim'
    BY <1>3 DEF LogInv, OneClaim
  <1>5. DoneIsLogged' /\ FoundIsThere'
    BY <1>3 DEF LogInv, DoneIsLogged, FoundIsThere
  <1>6. AppliedOnce' /\ AnsweredIsLogged' /\ ConfirmedIsCaptured' /\ IgnoredHasOther'
    BY DEF LogInv, AppliedOnce, AnsweredIsLogged, ConfirmedIsCaptured, Confirmed,
           IgnoredHasOther
  <1> QED
    BY <1>2, <1>4, <1>5, <1>6 DEF LogInv

(* The row of a refused delivery takes the key of an event nobody holds,    *)
(* and disturbs nothing else.                                               *)
LEMMA FailedStep ==
  ASSUME LogInv, NEW e \in Events, RecordFailed(e),
         UNCHANGED <<payment, payStatus, effects, work, answered, swallowed>>, lost' \in Nat
  PROVE  LogInv'
  <1>1. /\ \A c \in Copies[e] : work[<<e, c>>] # "claimed"
        /\ entry' = [entry EXCEPT ![e] = IF entry[e] = "NONE" THEN "FAILED" ELSE entry[e]]
    BY DEF RecordFailed
  <1>2. WebhookTypeOK'
    BY <1>1 DEF LogInv, WebhookTypeOK
  <1>3. \A f \in Events : /\ f # e => entry'[f] = entry[f]
                          /\ entry[f] # "NONE" => entry'[f] = entry[f]
                          /\ entry[f] = "NONE" => entry'[f] \in {"NONE", "FAILED"}
    BY <1>1 DEF LogInv, WebhookTypeOK
  <1>4. OneClaim' /\ DoneIsLogged' /\ FoundIsThere'
    BY <1>1, <1>3 DEF LogInv, OneClaim, DoneIsLogged, FoundIsThere
  <1>5. AppliedOnce' /\ AnsweredIsLogged'
    BY <1>3 DEF LogInv, WebhookTypeOK, AppliedOnce, AnsweredIsLogged
  <1>6. ConfirmedIsCaptured' /\ IgnoredHasOther'
    BY <1>3 DEF LogInv, ConfirmedIsCaptured, Confirmed, IgnoredHasOther, Events
  <1> QED
    BY <1>2, <1>4, <1>5, <1>6 DEF LogInv

(* Every step of a delivery, of the gateway or of fate keeps the log sound. *)
LEMMA LogStep ==
  ASSUME LogInv, [WebhookNext]_webhookVars
  PROVE  LogInv'
  <1>1. CASE UNCHANGED webhookVars
    BY <1>1 DEF webhookVars, LogInv, WebhookTypeOK, OneClaim, AppliedOnce, DoneIsLogged,
                AnsweredIsLogged, FoundIsThere, ConfirmedIsCaptured, IgnoredHasOther, Confirmed
  <1>2. CASE CreateIntent
    <2>1. /\ payment = "NONE" /\ payment' = "INITIATED"
          /\ UNCHANGED <<payStatus, entry, effects, work, answered, swallowed, lost>>
      BY <1>2 DEF CreateIntent
    <2>2. WebhookTypeOK'
      BY <2>1 DEF LogInv, WebhookTypeOK
    <2>3. OneClaim' /\ DoneIsLogged' /\ FoundIsThere'
      BY <2>1 DEF LogInv, OneClaim, DoneIsLogged, FoundIsThere
    <2>4. AppliedOnce' /\ AnsweredIsLogged' /\ ConfirmedIsCaptured' /\ IgnoredHasOther'
      BY <2>1 DEF LogInv, AppliedOnce, AnsweredIsLogged, ConfirmedIsCaptured, Confirmed,
                  IgnoredHasOther
    <2> QED
      BY <2>2, <2>3, <2>4 DEF LogInv
  <1>3. ASSUME NEW e \in Events, Unverified(e)
        PROVE  LogInv'
    <2>1. lost' \in Nat
      BY <1>3 DEF Unverified, LogInv, WebhookTypeOK
    <2> QED
      BY <1>3, <2>1, FailedStep DEF Unverified
  <1>4. ASSUME NEW e \in Events, NEW c \in Copies[e],
               Receive(e, c) \/ Lose(e, c) \/ Answer(e, c) \/ Transact(e, c)
        PROVE  LogInv'
    <2> <<e, c>> \in Deliveries
      BY DEF Deliveries
    <2>1. CASE Receive(e, c)
      <3> DEFINE stage == CASE entry[e] = "PROCESSED" -> "done"
                            [] entry[e] # "PROCESSED" /\ payment = "NONE" -> "unfound"
                            [] OTHER -> "read"
      <3>1. /\ stage \in {"idle", "unfound", "read", "done"}
            /\ stage = "read" => payment # "NONE"
            /\ stage = "done" => entry[e] # "NONE"
        OBVIOUS
      <3>2. /\ Goto(<<e, c>>, stage)
            /\ UNCHANGED <<payment, payStatus, entry, effects, answered, swallowed, lost>>
        BY <2>1 DEF Receive
      <3>3. /\ lost' \in Nat /\ swallowed' \in SUBSET Events /\ swallowed \subseteq swallowed'
            /\ answered' \subseteq Events /\ \A f \in answered' \ swallowed' : entry[f] # "NONE"
        BY <3>2 DEF LogInv, WebhookTypeOK, AnsweredIsLogged
      <3> HIDE DEF stage
      <3> QED
        BY <3>1, <3>2, <3>3, MoveStep
    <2>2. CASE Lose(e, c)
      <3>1. /\ lost' \in Nat /\ swallowed' \in SUBSET Events /\ swallowed \subseteq swallowed'
            /\ answered' \subseteq Events /\ \A f \in answered' \ swallowed' : entry[f] # "NONE"
        BY <2>2 DEF Lose, LogInv, WebhookTypeOK, AnsweredIsLogged
      <3> QED
        BY <2>2, <3>1, MoveStep DEF Lose
    <2>3. CASE Answer(e, c)
      <3>1. /\ lost' \in Nat /\ swallowed' \in SUBSET Events /\ swallowed \subseteq swallowed'
            /\ answered' \subseteq Events /\ \A f \in answered' \ swallowed' : entry[f] # "NONE"
        BY <2>3 DEF Answer, LogInv, WebhookTypeOK, AnsweredIsLogged, DoneIsLogged
      <3> QED
        BY <2>3, <3>1, MoveStep DEF Answer
    <2>4. CASE Duplicate(e, c)
      <3>1. /\ lost' \in Nat /\ swallowed' \in SUBSET Events /\ swallowed \subseteq swallowed'
            /\ answered' \subseteq Events /\ \A f \in answered' \ swallowed' : entry[f] # "NONE"
        BY <2>4 DEF Duplicate, LogInv, WebhookTypeOK, AnsweredIsLogged
      <3> QED
        BY <2>4, <3>1, MoveStep DEF Duplicate
    <2>5. CASE Ignore(e, c)
      <3>1. work' = [work EXCEPT ![<<e, c>>] = "done"]
            /\ entry' = [entry EXCEPT ![e] = "IGNORED"]
            /\ UNCHANGED <<payment, payStatus, effects, answered, swallowed, lost>>
        BY <2>5 DEF Ignore, Goto
      <3>2. /\ entry[e] = "NONE" /\ e \in Captures /\ Confirmed
            /\ \A b \in Copies[e] : work[<<e, b>>] # "claimed"
        BY <2>5 DEF Ignore, Claimable
      <3>3. WebhookTypeOK'
        BY <3>1 DEF LogInv, WebhookTypeOK
      <3>4. OneClaim' /\ DoneIsLogged' /\ FoundIsThere'
        BY <3>1, <3>2 DEF LogInv, WebhookTypeOK, OneClaim, DoneIsLogged, FoundIsThere, Deliveries
      <3>5. AppliedOnce' /\ AnsweredIsLogged'
        BY <3>1, <3>2 DEF LogInv, WebhookTypeOK, AppliedOnce, AnsweredIsLogged
      <3>6. ConfirmedIsCaptured' /\ IgnoredHasOther'
        BY <3>1, <3>2 DEF LogInv, WebhookTypeOK, ConfirmedIsCaptured, Confirmed,
                          IgnoredHasOther, Events
      <3> QED
        BY <3>3, <3>4, <3>5, <3>6 DEF LogInv
    <2>6. CASE Claim(e, c)
      <3>1. work[<<e, c>>] = "read"
            /\ work' = [work EXCEPT ![<<e, c>>] = "claimed"]
            /\ UNCHANGED <<payment, payStatus, entry, effects, answered, swallowed, lost>>
        BY <2>6 DEF Claim, Goto
      <3>2. entry[e] = "NONE" /\ \A b \in Copies[e] : work[<<e, b>>] # "claimed"
        BY <2>6 DEF Claim, Claimable
      <3>3. WebhookTypeOK'
        BY <3>1 DEF LogInv, WebhookTypeOK
      <3>4. OneClaim' /\ DoneIsLogged' /\ FoundIsThere'
        BY <3>1, <3>2 DEF LogInv, WebhookTypeOK, OneClaim, DoneIsLogged, FoundIsThere, Deliveries
      <3>5. AppliedOnce' /\ AnsweredIsLogged' /\ ConfirmedIsCaptured' /\ IgnoredHasOther'
        BY <3>1 DEF LogInv, AppliedOnce, AnsweredIsLogged, ConfirmedIsCaptured,
                    Confirmed, IgnoredHasOther
      <3> QED
        BY <3>3, <3>4, <3>5 DEF LogInv
    <2>7. CASE Apply(e, c)
      <3>1. /\ work' = [work EXCEPT ![<<e, c>>] = "done"]
            /\ entry' = [entry EXCEPT ![e] = "PROCESSED"]
            /\ effects' = [effects EXCEPT ![e] = @ + 1]
            /\ UNCHANGED <<answered, swallowed, lost>>
        BY <2>7 DEF Apply, Goto, Processed
      <3>2. /\ payment' = IF e \in Captures THEN "CONFIRMED" ELSE "FAILED"
            /\ payStatus' = IF e \in Captures THEN "PAID" ELSE "FAILED"
        BY <2>7 DEF Apply, StatusAfter
      <3>3. /\ entry[e] = "NONE"
            /\ \A b \in Copies[e] : work[<<e, b>>] = "claimed" => b = c
        BY <2>7 DEF Apply, LogInv, OneClaim
      <3>4. WebhookTypeOK'
        BY <3>1, <3>2 DEF LogInv, WebhookTypeOK
      <3>5. OneClaim' /\ DoneIsLogged'
        BY <3>1, <3>3 DEF LogInv, WebhookTypeOK, OneClaim, DoneIsLogged, Deliveries
      <3>8. FoundIsThere'
        BY <3>2 DEF FoundIsThere
      <3>6. AppliedOnce' /\ AnsweredIsLogged'
        BY <3>1, <3>3 DEF LogInv, WebhookTypeOK, AppliedOnce, AnsweredIsLogged
      <3>7. ConfirmedIsCaptured' /\ IgnoredHasOther'
        BY <3>1, <3>2, <3>3 DEF LogInv, WebhookTypeOK, ConfirmedIsCaptured, Confirmed,
                                IgnoredHasOther, Events
      <3> QED
        BY <3>4, <3>5, <3>6, <3>7, <3>8 DEF LogInv
    <2>8. CASE Unfound(e, c)
      <3>1. /\ \A b \in Copies[e] : work[<<e, b>>] # "claimed"
            /\ entry' = [entry EXCEPT ![e] = IF entry[e] = "NONE" THEN "FAILED" ELSE entry[e]]
            /\ work' = [work EXCEPT ![<<e, c>>] = "idle"]
            /\ UNCHANGED <<payment, payStatus, effects, answered, swallowed, lost>>
        BY <2>8 DEF Unfound, RecordFailed, Goto
      <3>2. WebhookTypeOK'
        BY <3>1 DEF LogInv, WebhookTypeOK
      <3>3. \A f \in Events : /\ f # e => entry'[f] = entry[f]
                              /\ entry[f] # "NONE" => entry'[f] = entry[f]
                              /\ entry[f] = "NONE" => entry'[f] \in {"NONE", "FAILED"}
        BY <3>1 DEF LogInv, WebhookTypeOK
      <3>4. \A f \in Events : \A b \in Copies[f] :
              work'[<<f, b>>] # "idle" => work'[<<f, b>>] = work[<<f, b>>]
        BY <3>1 DEF LogInv, WebhookTypeOK, Deliveries
      <3>5. OneClaim' /\ DoneIsLogged' /\ FoundIsThere'
        BY <3>1, <3>3, <3>4 DEF LogInv, OneClaim, DoneIsLogged, FoundIsThere
      <3>6. AppliedOnce' /\ AnsweredIsLogged'
        BY <3>1, <3>3 DEF LogInv, WebhookTypeOK, AppliedOnce, AnsweredIsLogged
      <3>7. ConfirmedIsCaptured' /\ IgnoredHasOther'
        BY <3>1, <3>3 DEF LogInv, ConfirmedIsCaptured, Confirmed, IgnoredHasOther, Events
      <3> QED
        BY <3>2, <3>5, <3>6, <3>7 DEF LogInv
    <2>9. CASE InsertFails(e, c)
      <3>1. /\ lost' \in Nat /\ swallowed' \in SUBSET Events /\ swallowed \subseteq swallowed'
            /\ answered' \subseteq Events /\ \A f \in answered' \ swallowed' : entry[f] # "NONE"
        BY <2>9 DEF InsertFails, LogInv, WebhookTypeOK, AnsweredIsLogged
      <3> QED
        BY <2>9, <3>1, MoveStep DEF InsertFails
    <2> QED
      BY <1>4, <2>1, <2>2, <2>3, <2>4, <2>5, <2>6, <2>7, <2>8, <2>9 DEF Transact
  <1> QED
    BY <1>1, <1>2, <1>3, <1>4 DEF WebhookNext

(* The inductive invariant of the event log. *)
LEMMA LogInvariant == WebhookSpec => []LogInv
  BY LogInit, LogStep, PTL DEF WebhookSpec

(* The log and the deliveries are well formed at all times.                 *)
THEOREM LogIsTyped == WebhookSpec => []WebhookTypeOK
  BY LogInvariant, PTL DEF LogInv

(* An event leaves its transaction row exactly once, for any number of      *)
(* overlapping and lost deliveries of any number of events.                 *)
THEOREM EventsAppliedOnce == WebhookSpec => []AppliedOnce
  BY LogInvariant, PTL DEF LogInv

(* An event is not answered before a delivery of it has committed, and then *)
(* it was applied or ignored, but for an insert that failed for another     *)
(* reason than the key and for the row of a refused delivery.               *)
THEOREM AnswersAreTrue == WebhookSpec => []AnsweredIsApplied
  <1>1. LogInv => AnsweredIsApplied
    BY DEF LogInv, WebhookTypeOK, AppliedOnce, AnsweredIsLogged, AnsweredIsApplied
  <1> QED
    BY <1>1, LogInvariant, PTL

(* A capture is ignored only next to one that was applied.                  *)
THEOREM CapturesAreNotLost == WebhookSpec => []IgnoredIsCaptured
  <1>1. LogInv => IgnoredIsCaptured
    BY DEF LogInv, AppliedOnce, IgnoredHasOther, IgnoredIsCaptured, Events
  <1> QED
    BY <1>1, LogInvariant, PTL

(* The log shows the order nothing but the payment events of OrderLifecycle.*)
THEOREM OrderSeesPaymentEvents == WebhookSpec => OrderSeesEvents
  <1> DEFINE Step ==
        \/ payment = "NONE" /\ payment' = "INITIATED" /\ UNCHANGED <<payStatus, Cleared>>
        \/ payment # "NONE" /\ payment' = "CONFIRMED" /\ payStatus' = "PAID" /\ Cleared'
        \/ payment # "NONE" /\ payment' = "FAILED" /\ payStatus' = "FAILED" /\ Cleared' = Cleared
  <1>1. ASSUME LogInv, [WebhookNext]_webhookVars
        PROVE  [Step]_<<payment, payStatus, Cleared>>
    <2>1. CASE UNCHANGED <<payment, payStatus, effects>>
      BY <2>1 DEF Cleared
    <2>2. ASSUME NEW e \in Events, NEW c \in Copies[e], Apply(e, c)
          PROVE  Step
      <3>1. effects' = [effects EXCEPT ![e] = @ + 1] /\ effects \in [Events -> Nat]
        BY <1>1, <2>2 DEF Apply, LogInv, WebhookTypeOK
      <3> payment # "NONE"
        BY <1>1, <2>2 DEF Apply, LogInv, FoundIsThere
      <3>2. CASE e \in Captures
        BY <2>2, <3>1, <3>2 DEF Apply, StatusAfter, Cleared
      <3>3. CASE e \notin Captures
        <4>1. \A f \in Captures : effects'[f] = effects[f]
          BY <3>1, <3>3 DEF Events
        <4> QED
          BY <2>2, <3>3, <4>1 DEF Apply, StatusAfter, Cleared
      <3> QED
        BY <3>2, <3>3
    <2>3. CASE CreateIntent
      BY <2>3 DEF CreateIntent, Cleared
    <2> QED
      BY <1>1, <2>1, <2>2, <2>3
         DEF WebhookNext, webhookVars, Unverified, Receive, Lose, Answer, Transact, Unfound,
             Duplicate, InsertFails, Ignore, Claim
  <1> QED
    BY <1>1, LogInvariant, PTL DEF WebhookSpec, OrderSeesEvents

-----------------------------------------------------------------------------
(* The notification outbox. *)

USE OutboxAssumption

Answered(p, n) == InHand(p, n) /\ answer[p] # "none"

(* What a pass relies on, whatever the others do meanwhile: the attempts it *)
(* has read are not used up and were all sends, and the row it has an answer*)
(* about was sent once more since.                                          *)
PassesAreGood ==
  \A p \in Passes :
    /\ left[p] = {} => answer[p] = "none"
    /\ \A n \in left[p] : seen[p][n] < MaxAttempts /\ seen[p][n] <= sends[n]
    /\ \A n \in Rows : Answered(p, n) =>
         /\ seen[p][n] < sends[n]
         /\ answer[p] = "ok" => n \in accepted

(* Without overlaps and crashes a pass also knows that its rows have not    *)
(* been sent, and every send but the one in hand is counted.                *)
Alone == ~overlapped /\ crashes = 0

OnePass == \A p, q \in Passes : left[p] # {} /\ left[q] # {} => p = q
ReadsHold == \A p \in Passes : \A n \in left[p] : seen[p][n] = attempt[n] /\ status[n] # "SENT"
SendsAreCounted ==
  \A n \in Rows :
    /\ \A p \in Passes : Answered(p, n) => sends[n] = attempt[n] + 1
    /\ (\A p \in Passes : ~Answered(p, n)) => sends[n] = attempt[n]

OutboxInv ==
  /\ OutboxTypeOK
  /\ PassesAreGood
  /\ SentWasAccepted
  /\ GivenUpAfterTrying
  /\ Alone => OnePass /\ ReadsHold /\ SendsAreCounted

-----------------------------------------------------------------------------
(* The outbox starts empty. *)
LEMMA OutboxStarts == OutboxInit => OutboxInv
  <1> SUFFICES ASSUME OutboxInit PROVE OutboxInv
    OBVIOUS
  <1>1. /\ \A p \in Passes : left[p] = {} /\ answer[p] = "none"
        /\ \A n \in Rows : status[n] = "NONE" /\ attempt[n] = 0 /\ sends[n] = 0
    BY DEF OutboxInit
  <1>2. OutboxTypeOK
    <2>1. 0 \in 0 .. MaxAttempts /\ 0 \in 0 .. Contacts /\ 0 \in 0 .. MaxCrashes
      OBVIOUS
    <2>2. status \in [Rows -> OutboxStatus] /\ answer \in [Passes -> Answers]
      BY DEF OutboxInit, OutboxStatus, Answers
    <2>3. attempt \in [Rows -> 0 .. MaxAttempts] /\ sends \in [Rows -> Nat]
      BY <2>1 DEF OutboxInit
    <2>4. left \in [Passes -> SUBSET Rows] /\ seen \in [Passes -> [Rows -> 0 .. MaxAttempts]]
      BY <2>1 DEF OutboxInit
    <2> QED
      BY <2>1, <2>2, <2>3, <2>4 DEF OutboxInit, OutboxTypeOK
  <1>3. PassesAreGood /\ SentWasAccepted /\ GivenUpAfterTrying
    BY <1>1 DEF PassesAreGood, SentWasAccepted, GivenUpAfterTrying, Answered, InHand
  <1>4. OnePass /\ ReadsHold /\ SendsAreCounted
    BY <1>1 DEF OnePass, ReadsHold, SendsAreCounted, Answered, InHand
  <1> QED
    BY <1>2, <1>3, <1>4 DEF OutboxInv

(* A notice only turns rows that were not there into PENDING ones.          *)
LEMMA WriteStep ==
  ASSUME OutboxInv, NEW k, Write(k), todo' \in 0 .. Contacts
  PROVE  OutboxInv'
  <1>1. /\ status' \in [Rows -> OutboxStatus]
        /\ \A n \in Rows : status'[n] = "SENT" => status[n] = "SENT"
    BY DEF Write, OutboxInv, OutboxTypeOK, OutboxStatus
  <1>2. UNCHANGED <<attempt, left, seen, answer, sends, accepted, overlapped, crashes>>
    BY DEF Write, passVars
  <1>3. OutboxTypeOK'
    BY <1>1, <1>2 DEF OutboxInv, OutboxTypeOK
  <1>4. PassesAreGood' /\ SentWasAccepted' /\ GivenUpAfterTrying'
    BY <1>1, <1>2 DEF OutboxInv, PassesAreGood, Answered, InHand, SentWasAccepted, GivenUpAfterTrying
  <1>5. Alone' => OnePass' /\ ReadsHold' /\ SendsAreCounted'
    BY <1>1, <1>2 DEF OutboxInv, OutboxTypeOK, Alone, OnePass, ReadsHold, SendsAreCounted, Answered, InHand
  <1> QED
    BY <1>3, <1>4, <1>5 DEF OutboxInv

(* The rows of a pass, and the one in hand.                                 *)
LEMMA OneInHand ==
  ASSUME OutboxTypeOK, NEW p \in Passes, NEW m, NEW n, InHand(p, m), InHand(p, n)
  PROVE  m = n /\ n \in Rows
  <1>1. left[p] \subseteq Rows /\ m \in left[p] /\ n \in left[p] /\ m <= n /\ n <= m
    BY DEF OutboxTypeOK, InHand
  <1> QED
    BY <1>1 DEF Rows

(* A pass that begins holds nothing yet, and has read what is there.        *)
LEMMA ReadIsGood ==
  ASSUME OutboxInv, NEW p \in Passes, ReadPass(p)
  PROVE  OutboxInv'
  <1>1. /\ left[p] = {} /\ answer[p] = "none"
        /\ left' = [left EXCEPT ![p] = Oldest]
        /\ seen' = [seen EXCEPT ![p] = [n \in Rows |-> IF n \in Oldest THEN attempt[n] ELSE 0]]
        /\ overlapped' = (overlapped \/ \E q \in Passes : left[q] # {})
        /\ UNCHANGED <<status, attempt, todo, answer, sends, accepted, crashes>>
    BY DEF ReadPass, OutboxInv, PassesAreGood
  <1>2. /\ Oldest \subseteq Rows
        /\ \A n \in Oldest : attempt[n] < MaxAttempts /\ status[n] # "SENT"
    BY DEF Oldest, Due
  <1>3. /\ left' \in [Passes -> SUBSET Rows] /\ seen' \in [Passes -> [Rows -> 0 .. MaxAttempts]]
        /\ left'[p] = Oldest /\ \A n \in Oldest : seen'[p][n] = attempt[n]
        /\ \A q \in Passes \ {p} : left'[q] = left[q] /\ seen'[q] = seen[q]
    BY <1>1, <1>2 DEF OutboxInv, OutboxTypeOK
  <1>4. OutboxTypeOK'
    BY <1>1, <1>3 DEF OutboxInv, OutboxTypeOK
  <1>5. \A q \in Passes, n \in Rows : Answered(q, n)' => q # p /\ Answered(q, n)
    BY <1>1, <1>3 DEF Answered, InHand
  <1>6. PassesAreGood'
    <2>1. ASSUME NEW n \in Oldest PROVE attempt[n] <= sends[n]
      BY <2>1, <1>2 DEF OutboxInv, GivenUpAfterTrying, OutboxTypeOK
    <2> QED
      BY <1>1, <1>2, <1>3, <1>5, <2>1 DEF OutboxInv, PassesAreGood
  <1>7. SentWasAccepted' /\ GivenUpAfterTrying'
    BY <1>1 DEF OutboxInv, SentWasAccepted, GivenUpAfterTrying
  <1>8. ASSUME Alone' PROVE OnePass' /\ ReadsHold' /\ SendsAreCounted'
    <2>1. Alone /\ \A q \in Passes : left[q] = {}
      BY <1>8, <1>1 DEF Alone, OutboxInv, OutboxTypeOK
    <2>2. OnePass' /\ ReadsHold'
      BY <1>1, <1>2, <1>3, <2>1 DEF OnePass, ReadsHold
    <2>3. \A q \in Passes, n \in Rows : ~Answered(q, n) /\ ~Answered(q, n)'
      BY <1>5, <2>1 DEF Answered, InHand
    <2>4. SendsAreCounted'
      BY <1>1, <2>1, <2>3 DEF OutboxInv, SendsAreCounted
    <2> QED
      BY <2>2, <2>4
  <1> QED
    BY <1>4, <1>6, <1>7, <1>8 DEF OutboxInv

(* A send is one more than was counted, and its answer tells the truth about*)
(* what was taken, if it is a good one.                                     *)
LEMMA SendIsGood ==
  ASSUME OutboxInv, NEW p \in Passes, NEW n \in Rows, Send(p, n)
  PROVE  OutboxInv'
  <1>1. /\ InHand(p, n) /\ answer[p] = "none"
        /\ sends' = [sends EXCEPT ![n] = @ + 1]
        /\ answer' \in [Passes -> Answers]
        /\ answer'[p] # "none" /\ \A q \in Passes \ {p} : answer'[q] = answer[q]
        /\ accepted' \in {accepted, accepted \cup {n}}
        /\ answer'[p] = "ok" => n \in accepted'
        /\ UNCHANGED <<status, attempt, todo, left, seen, overlapped, crashes>>
    BY DEF Send, OutboxInv, OutboxTypeOK, Answers
  <1>2. /\ \A m \in Rows : /\ sends[m] \in Nat /\ sends'[m] \in Nat
                           /\ sends'[m] = IF m = n THEN sends[m] + 1 ELSE sends[m]
        /\ n \in left[p] /\ \A q \in Passes : left[q] \subseteq Rows
        /\ \A q \in Passes, m \in Rows : seen[q][m] \in Nat /\ attempt[m] \in Nat
    BY <1>1 DEF OutboxInv, OutboxTypeOK, InHand
  <1>3. OutboxTypeOK'
    BY <1>1 DEF OutboxInv, OutboxTypeOK
  <1>4. \A q \in Passes, m \in Rows :
          Answered(q, m)' <=> Answered(q, m) \/ (q = p /\ m = n)
    <2>1. \A m \in Rows : InHand(p, m) => m = n
      BY <1>1, OneInHand DEF OutboxInv
    <2> QED
      BY <1>1, <2>1 DEF Answered, InHand
  <1>5. PassesAreGood'
    <2> SUFFICES ASSUME NEW q \in Passes
                 PROVE  /\ left[q] = {} => answer'[q] = "none"
                        /\ \A m \in left[q] : seen[q][m] < MaxAttempts /\ seen[q][m] <= sends'[m]
                        /\ \A m \in Rows : Answered(q, m)' =>
                             /\ seen[q][m] < sends'[m]
                             /\ answer'[q] = "ok" => m \in accepted'
      BY <1>1 DEF PassesAreGood
    <2>1. left[q] = {} => answer'[q] = "none"
      BY <1>1, <1>2 DEF OutboxInv, PassesAreGood
    <2>2. \A m \in left[q] : seen[q][m] < MaxAttempts /\ seen[q][m] <= sends'[m]
      BY <1>2 DEF OutboxInv, PassesAreGood
    <2>3. ASSUME NEW m \in Rows, Answered(q, m)'
          PROVE  seen[q][m] < sends'[m] /\ (answer'[q] = "ok" => m \in accepted')
      <3>1. CASE q = p /\ m = n
        BY <3>1, <2>2, <1>1, <1>2 DEF OutboxInv, PassesAreGood
      <3>2. CASE Answered(q, m) /\ q # p
        BY <3>2, <1>1, <1>2 DEF OutboxInv, PassesAreGood
      <3> QED
        BY <2>3, <1>1, <1>4, <3>1, <3>2 DEF Answered
    <2> QED
      BY <2>1, <2>2, <2>3
  <1>6. SentWasAccepted' /\ GivenUpAfterTrying'
    BY <1>1, <1>2 DEF OutboxInv, SentWasAccepted, GivenUpAfterTrying
  <1>7. ASSUME Alone' PROVE OnePass' /\ ReadsHold' /\ SendsAreCounted'
    <2>1. Alone /\ OnePass /\ ReadsHold /\ SendsAreCounted
      BY <1>7, <1>1 DEF Alone, OutboxInv
    <2>2. OnePass' /\ ReadsHold'
      BY <1>1, <2>1 DEF OnePass, ReadsHold
    <2>3. \A q \in Passes : left[q] # {} => q = p
      BY <1>2, <2>1 DEF OnePass
    <2>4. \A q \in Passes, m \in Rows : ~Answered(q, m)
      BY <1>1, <2>3 DEF Answered, InHand
    <2>5. SendsAreCounted'
      BY <1>1, <1>2, <1>4, <2>1, <2>4 DEF SendsAreCounted
    <2> QED
      BY <2>2, <2>5
  <1> QED
    BY <1>3, <1>5, <1>6, <1>7 DEF OutboxInv

(* The mark counts that send, or a smaller number if another pass was faster*)
(* to count.                                                                *)
LEMMA MarkIsGood ==
  ASSUME OutboxInv, NEW p \in Passes, NEW n \in Rows, Mark(p, n)
  PROVE  OutboxInv'
  <1>1. /\ Answered(p, n)
        /\ status' = [status EXCEPT ![n] = Outcome(p)]
        /\ attempt' = [attempt EXCEPT ![n] = seen[p][n] + 1]
        /\ left' = [left EXCEPT ![p] = @ \ {n}]
        /\ seen' = [seen EXCEPT ![p][n] = 0]
        /\ answer' = [answer EXCEPT ![p] = "none"]
        /\ UNCHANGED <<todo, sends, accepted, overlapped, crashes>>
    BY DEF Mark, Answered, NextAttempt
  <1>2. /\ n \in left[p] /\ seen[p][n] \in Nat /\ sends[n] \in Nat
        /\ seen[p][n] < MaxAttempts /\ seen[p][n] < sends[n]
        /\ answer[p] = "ok" => n \in accepted
    BY <1>1 DEF OutboxInv, OutboxTypeOK, PassesAreGood, Answered, InHand
  <1>3. /\ left'[p] = left[p] \ {n} /\ answer'[p] = "none"
        /\ \A m \in left'[p] : seen'[p][m] = seen[p][m]
        /\ \A q \in Passes \ {p} : left'[q] = left[q] /\ seen'[q] = seen[q] /\ answer'[q] = answer[q]
        /\ \A m \in Rows \ {n} : attempt'[m] = attempt[m] /\ status'[m] = status[m]
        /\ attempt'[n] = seen[p][n] + 1 /\ status'[n] = Outcome(p)
    BY <1>1 DEF OutboxInv, OutboxTypeOK
  <1>4. OutboxTypeOK'
    <2>1. seen[p][n] + 1 \in 0 .. MaxAttempts /\ 0 \in 0 .. MaxAttempts
      BY <1>2
    <2>2. attempt' \in [Rows -> 0 .. MaxAttempts] /\ status' \in [Rows -> OutboxStatus]
      BY <1>1, <2>1 DEF OutboxInv, OutboxTypeOK, Outcome, OutboxStatus
    <2>3. left' \in [Passes -> SUBSET Rows] /\ answer' \in [Passes -> Answers]
      BY <1>1 DEF OutboxInv, OutboxTypeOK, Answers
    <2>4. seen' \in [Passes -> [Rows -> 0 .. MaxAttempts]]
      BY <1>1, <2>1 DEF OutboxInv, OutboxTypeOK
    <2> QED
      BY <1>1, <2>2, <2>3, <2>4 DEF OutboxInv, OutboxTypeOK
  <1>5. \A q \in Passes, m \in Rows : Answered(q, m)' => q # p /\ Answered(q, m)
    BY <1>3 DEF Answered, InHand
  <1>6. PassesAreGood'
    <2> SUFFICES ASSUME NEW q \in Passes
                 PROVE  /\ left'[q] = {} => answer'[q] = "none"
                        /\ \A m \in left'[q] : seen'[q][m] < MaxAttempts /\ seen'[q][m] <= sends[m]
                        /\ \A m \in Rows : Answered(q, m)' =>
                             /\ seen'[q][m] < sends[m]
                             /\ answer'[q] = "ok" => m \in accepted
      BY <1>1 DEF PassesAreGood
    <2>1. CASE q = p
      BY <2>1, <1>3, <1>5 DEF OutboxInv, PassesAreGood
    <2>2. CASE q # p
      BY <2>2, <1>3, <1>5 DEF OutboxInv, PassesAreGood
    <2> QED
      BY <2>1, <2>2
  <1>7. SentWasAccepted'
    BY <1>1, <1>2, <1>3 DEF OutboxInv, SentWasAccepted, Outcome
  <1>8. GivenUpAfterTrying'
    <2>1. sends[n] >= seen[p][n] + 1
      BY <1>2
    <2> QED
      BY <1>1, <1>3, <2>1 DEF OutboxInv, GivenUpAfterTrying
  <1>9. ASSUME Alone' PROVE OnePass' /\ ReadsHold' /\ SendsAreCounted'
    <2>1. Alone /\ OnePass /\ ReadsHold /\ SendsAreCounted
      BY <1>9, <1>1 DEF Alone, OutboxInv
    <2>2. \A q \in Passes \ {p} : left[q] = {} /\ left'[q] = {}
      BY <1>2, <1>3, <2>1 DEF OnePass
    <2>3. OnePass'
      BY <2>2 DEF OnePass
    <2>4. ReadsHold'
      <3>1. \A m \in left'[p] : m \in left[p] /\ m # n /\ m \in Rows
        BY <1>3 DEF OutboxInv, OutboxTypeOK
      <3> QED
        BY <1>3, <2>1, <2>2, <3>1 DEF ReadsHold
    <2>5. \A q \in Passes, m \in Rows : ~Answered(q, m)'
      BY <1>5, <2>2 DEF Answered, InHand
    <2>6. \A m \in Rows \ {n} : \A q \in Passes : ~Answered(q, m)
      BY <1>1, <2>2, OneInHand DEF OutboxInv, Answered, InHand
    <2>7. sends[n] = attempt[n] + 1 /\ seen[p][n] = attempt[n]
      BY <1>1, <1>2, <2>1 DEF SendsAreCounted, ReadsHold
    <2>8. SendsAreCounted'
      BY <1>1, <1>3, <2>1, <2>5, <2>6, <2>7 DEF SendsAreCounted
    <2> QED
      BY <2>3, <2>4, <2>8
  <1> QED
    BY <1>4, <1>6, <1>7, <1>8, <1>9 DEF OutboxInv

(* A pass that dies forgets what it had in hand, and is a crash.            *)
LEMMA DeathIsGood ==
  ASSUME OutboxInv, NEW p \in Passes, PassDies(p)
  PROVE  OutboxInv'
  <1>1. /\ left' = [left EXCEPT ![p] = {}]
        /\ seen' = [seen EXCEPT ![p] = [n \in Rows |-> 0]]
        /\ answer' = [answer EXCEPT ![p] = "none"]
        /\ crashes' = crashes + 1 /\ crashes < MaxCrashes /\ crashes \in Nat
        /\ UNCHANGED <<status, attempt, todo, sends, accepted, overlapped>>
    BY DEF PassDies, OutboxInv, OutboxTypeOK
  <1>2. OutboxTypeOK'
    BY <1>1 DEF OutboxInv, OutboxTypeOK, Answers
  <1>3. /\ left'[p] = {} /\ answer'[p] = "none"
        /\ \A q \in Passes \ {p} : left'[q] = left[q] /\ seen'[q] = seen[q] /\ answer'[q] = answer[q]
    BY <1>1 DEF OutboxInv, OutboxTypeOK
  <1>4. PassesAreGood'
    BY <1>1, <1>3 DEF OutboxInv, PassesAreGood, Answered, InHand
  <1>5. SentWasAccepted' /\ GivenUpAfterTrying' /\ ~Alone'
    BY <1>1 DEF OutboxInv, SentWasAccepted, GivenUpAfterTrying, Alone
  <1> QED
    BY <1>2, <1>4, <1>5 DEF OutboxInv

(* Every step of the writers, the passes and fate keeps the invariant.      *)
LEMMA OutboxStep ==
  ASSUME OutboxInv, [OutboxNext]_outboxVars
  PROVE  OutboxInv'
  <1>1. CASE UNCHANGED <<status, attempt, passVars, sends, accepted, overlapped>>
             /\ todo' \in 0 .. Contacts /\ crashes' \in 0 .. MaxCrashes
             /\ (crashes' = 0 => crashes = 0)
    <2>1. OutboxTypeOK'
      BY <1>1 DEF OutboxInv, OutboxTypeOK, passVars
    <2>2. PassesAreGood' /\ SentWasAccepted' /\ GivenUpAfterTrying'
      BY <1>1 DEF OutboxInv, passVars, PassesAreGood, Answered, InHand, SentWasAccepted, GivenUpAfterTrying
    <2>3. Alone' => OnePass' /\ ReadsHold' /\ SendsAreCounted'
      BY <1>1 DEF OutboxInv, passVars, Alone, OnePass, ReadsHold, SendsAreCounted, Answered, InHand
    <2> QED
      BY <2>1, <2>2, <2>3 DEF OutboxInv
  <1>2. CASE EnqueueTx
    BY <1>2, WriteStep DEF EnqueueTx, OutboxInv, OutboxTypeOK
  <1>3. CASE Enqueue
    BY <1>3, <1>1 DEF Enqueue, OutboxInv, OutboxTypeOK
  <1>4. CASE WriteRow
    <2>1. Write(1) /\ todo' \in 0 .. Contacts
      BY <1>4 DEF WriteRow, OutboxInv, OutboxTypeOK
    <2> QED
      BY <2>1, WriteStep
  <1>5. CASE WriterDies
    BY <1>5, <1>1 DEF WriterDies, OutboxInv, OutboxTypeOK
  <1>6. CASE UNCHANGED outboxVars
    BY <1>6, <1>1 DEF outboxVars, OutboxInv, OutboxTypeOK
  <1> QED
    BY <1>2, <1>3, <1>4, <1>5, <1>6, ReadIsGood, SendIsGood, MarkIsGood, DeathIsGood DEF OutboxNext, PassStep

(* The inductive invariant of the outbox. *)
LEMMA OutboxInvariant == OutboxSpec => []OutboxInv
  BY OutboxStarts, OutboxStep, PTL DEF OutboxSpec

(* No row ever counts more attempts than it may have.                       *)
THEOREM AttemptsAreBounded == OutboxSpec => []OutboxTypeOK
  BY OutboxInvariant, PTL DEF OutboxInv

(* A row that counts as SENT was taken by the provider.                     *)
THEOREM SentRowsWereTaken == OutboxSpec => []SentWasAccepted
  BY OutboxInvariant, PTL DEF OutboxInv

(* Every attempt that is counted was a send.                                *)
THEOREM AttemptsWereSends == OutboxSpec => []GivenUpAfterTrying
  BY OutboxInvariant, PTL DEF OutboxInv

(* Passes that do not overlap or die send no row too often.                 *)
THEOREM SendsAreBounded == OutboxSpec => []NoSurplusSends
  <1>1. ASSUME OutboxInv PROVE NoSurplusSends
    <2> SUFFICES ASSUME Alone, NEW n \in Rows
                 PROVE  sends[n] <= MaxAttempts /\ (status[n] = "SENT" => sends[n] = attempt[n])
      BY DEF NoSurplusSends, Alone
    <2>1. ReadsHold /\ SendsAreCounted /\ attempt[n] \in 0 .. MaxAttempts
      BY <1>1 DEF OutboxInv, OutboxTypeOK
    <2>2. CASE \E p \in Passes : Answered(p, n)
      <3>1. PICK p \in Passes : Answered(p, n)
        BY <2>2
      <3>2. n \in left[p] /\ seen[p][n] < MaxAttempts
        BY <1>1, <3>1 DEF OutboxInv, PassesAreGood, Answered, InHand
      <3>3. seen[p][n] = attempt[n] /\ status[n] # "SENT" /\ sends[n] = attempt[n] + 1
        BY <2>1, <3>1, <3>2 DEF ReadsHold, SendsAreCounted
      <3> QED
        BY <2>1, <3>2, <3>3
    <2>3. CASE \A p \in Passes : ~Answered(p, n)
      BY <2>1, <2>3 DEF SendsAreCounted
    <2> QED
      BY <2>2, <2>3
  <1> QED
    BY <1>1, OutboxInvariant, PTL

-----------------------------------------------------------------------------
(* Payables and settlements *)

Amounts(x) == x.op \in {"adjust", "debit"}

(* What a call in flight still knows. *)
GoodCall(x) ==
  /\ Amounts(x) => /\ payable[x.id] # "NONE"
                   /\ x.net + x.amount >= 0
                   /\ x.id \notin raced => x.net = NetOf(Goods[x.id]) + x.adjusted
  /\ x.op = "batch" => \A p \in x.ids : payable[p] # "NONE"
  /\ x.op = "advance" => <<x.from, x.to>> \in Settlement_Next

GoodCalls == \A r \in Requests : GoodCall(req[r])

Unearned == \A p \in Payables : payable[p] = "NONE" => ledger[p] = 0 /\ adjusted[p] = 0

SettlementInv == TypeOK /\ SettledIsPaid /\ BooksBalance /\ Unearned /\ GoodCalls

LEMMA SettlementInit == Init => SettlementInv
  <1> SUFFICES ASSUME Init PROVE SettlementInv
    OBVIOUS
  <1>1. TypeOK
    BY SettlementAssumption DEF Init, TypeOK, PayableStatus, SettlementStatus, Request, Idle
  <1>2. SettledIsPaid /\ BooksBalance /\ Unearned
    BY SettlementAssumption DEF Init, SettledIsPaid, BooksBalance, Unearned
  <1>3. GoodCalls
    BY DEF Init, GoodCalls, GoodCall, Amounts, Idle
  <1> QED
    BY <1>1, <1>2, <1>3 DEF SettlementInv

-----------------------------------------------------------------------------
(* Calls that read, and calls that end *)

LEMMA BeginStep ==
  ASSUME SettlementInv, NEW r \in Requests, NEW x \in Request, GoodCall(x), Begin(r, x)
  PROVE  SettlementInv'
  <1>1. TypeOK'
    BY DEF SettlementInv, TypeOK, Begin, payableVars, batchVars, history
  <1>2. \A q \in Requests : req'[q] = IF q = r THEN x ELSE req[q]
    BY DEF SettlementInv, TypeOK, Begin
  <1>3. GoodCalls'
    BY <1>2 DEF SettlementInv, GoodCalls, GoodCall, Amounts, Begin, payableVars, history
  <1>4. SettledIsPaid' /\ BooksBalance' /\ Unearned'
    BY DEF SettlementInv, SettledIsPaid, BooksBalance, Unearned, Begin, payableVars, batchVars, history
  <1> QED
    BY <1>1, <1>3, <1>4 DEF SettlementInv

LEMMA EndType ==
  ASSUME TypeOK, NEW r \in Requests, End(r)
  PROVE  /\ req' \in [Requests -> Request]
         /\ \A q \in Requests : req'[q] = IF q = r THEN Idle ELSE req[q]
  BY DEF TypeOK, End, Request

(* Calls stay good while payables stay earned and races are remembered.     *)
LEMMA EndStep ==
  ASSUME SettlementInv, NEW r \in Requests, End(r), raced \subseteq raced',
         \A p \in Payables : payable[p] # "NONE" => payable'[p] # "NONE"
  PROVE  GoodCalls'
  <1> SUFFICES ASSUME NEW q \in Requests PROVE GoodCall(req[q])'
    BY DEF GoodCalls
  <1>1. req'[q] = IF q = r THEN Idle ELSE req[q]
    BY EndType DEF SettlementInv
  <1>2. CASE q = r
    BY <1>1, <1>2 DEF GoodCall, Amounts, Idle
  <1>3. CASE q # r
    <2>1. req'[q] = req[q] /\ req[q] \in Request /\ GoodCall(req[q])
      BY <1>1, <1>3 DEF SettlementInv, TypeOK, GoodCalls
    <2>2. /\ Amounts(req[q]) => req[q].id \in Payables
          /\ req[q].op = "batch" => req[q].ids \subseteq Payables
      BY <2>1 DEF Amounts, Request, Idle
    <2> QED
      BY <2>1, <2>2 DEF GoodCall, Amounts
  <1> QED
    BY <1>2, <1>3

LEMMA ReadStep ==
  ASSUME SettlementInv, NEW r \in Requests,
         \/ \E p \in Payables : \/ \E a \in Adjustments : ReadAdjustment(r, p, a)
                                \/ \E v \in Returned : ReadDebit(r, p, v)
         \/ \E S \in SUBSET Payables : ReadBatch(r, S)
         \/ \E s \in Settlements, to \in SettlementStatus : ReadAdvance(r, s, to)
  PROVE  SettlementInv'
  <1> USE SettlementAssumption
  <1>0. TypeOK /\ BooksBalance
    BY DEF SettlementInv
  <1>1. ASSUME NEW p \in Payables, NEW a \in Adjustments, ReadAdjustment(r, p, a)
        PROVE  SettlementInv'
    <2> DEFINE x == [op |-> "adjust", id |-> p, net |-> net[p], adjusted |-> ledger[p],
                     amount |-> a, value |-> 0]
    <2>1. x \in Request
      BY <1>0 DEF TypeOK, Request
    <2>2. GoodCall(x)
      BY <1>0, <1>1 DEF ReadAdjustment, NotNegative, Unsettled, BooksBalance, GoodCall, Amounts, TypeOK
    <2>3. Begin(r, x)
      BY <1>1 DEF ReadAdjustment
    <2> QED
      BY <2>1, <2>2, <2>3, BeginStep
  <1>2. ASSUME NEW p \in Payables, NEW v \in Returned, ReadDebit(r, p, v)
        PROVE  SettlementInv'
    <2>1. PICK d \in 1 .. net[p] :
            Begin(r, [op |-> "debit", id |-> p, net |-> net[p], adjusted |-> adjusted[p],
                      amount |-> 0 - d, value |-> v])
      BY <1>2 DEF ReadDebit
    <2> DEFINE x == [op |-> "debit", id |-> p, net |-> net[p], adjusted |-> adjusted[p],
                     amount |-> 0 - d, value |-> v]
    <2>2. net[p] \in Nat /\ d \in Nat /\ d <= net[p] /\ adjusted[p] \in Int /\ v \in Nat
      BY <1>0, <2>1 DEF TypeOK
    <2>3. x \in Request
      BY <2>2 DEF Request
    <2>4. GoodCall(x)
      <3>1. payable[p] = "EARNED"
        BY <1>2 DEF ReadDebit, Unsettled
      <3>2. p \notin raced => net[p] = NetOf(Goods[p]) + adjusted[p]
        BY <1>0, <3>1 DEF BooksBalance
      <3> QED
        BY <2>2, <3>1, <3>2 DEF GoodCall, Amounts
    <2> QED
      BY <2>1, <2>3, <2>4, BeginStep
  <1>3. ASSUME NEW S \in SUBSET Payables, ReadBatch(r, S)
        PROVE  SettlementInv'
    <2> DEFINE x == [op |-> "batch", ids |-> S, net |-> [p \in Payables |-> IF p \in S THEN net[p] ELSE 0]]
    <2>1. x \in Request
      BY <1>0 DEF TypeOK, Request
    <2>2. GoodCall(x)
      BY <1>3 DEF ReadBatch, AllUnsettled, Unsettled, GoodCall, Amounts
    <2>3. Begin(r, x)
      BY <1>3 DEF ReadBatch
    <2> QED
      BY <2>1, <2>2, <2>3, BeginStep
  <1>4. ASSUME NEW s \in Settlements, NEW to \in SettlementStatus, ReadAdvance(r, s, to)
        PROVE  SettlementInv'
    <2> DEFINE x == [op |-> "advance", id |-> s, from |-> batch[s], to |-> to]
    <2>1. x \in Request
      BY <1>0 DEF TypeOK, Request
    <2>2. GoodCall(x)
      BY <1>4 DEF ReadAdvance, GoodCall, Amounts
    <2>3. Begin(r, x)
      BY <1>4 DEF ReadAdvance
    <2> QED
      BY <2>1, <2>2, <2>3, BeginStep
  <1> QED
    BY <1>1, <1>2, <1>3, <1>4

-----------------------------------------------------------------------------
(* Calls that write *)

LEMMA EarnStep ==
  ASSUME SettlementInv, NEW p \in Payables, Earn(p)
  PROVE  SettlementInv'
  <1>0. TypeOK /\ SettledIsPaid /\ BooksBalance /\ Unearned /\ GoodCalls
    BY DEF SettlementInv
  <1>1. NetOf(Goods[p]) \in Nat
    BY SettlementAssumption
  <1>2. TypeOK'
    BY <1>0, <1>1 DEF Earn, TypeOK, PayableStatus, batchVars, history
  <1>3. \A q \in Payables : payable'[q] = (IF q = p THEN "EARNED" ELSE payable[q])
                           /\ net'[q] = (IF q = p THEN NetOf(Goods[p]) ELSE net[q])
    BY <1>0 DEF Earn, TypeOK
  <1>4. SettledIsPaid' /\ BooksBalance' /\ Unearned'
    BY <1>0, <1>1, <1>3 DEF Earn, SettledIsPaid, BooksBalance, Unearned, batchVars, history
  <1>5. GoodCalls'
    <2> SUFFICES ASSUME NEW q \in Requests PROVE GoodCall(req[q])'
      BY DEF GoodCalls
    <2>1. req'[q] = req[q] /\ req[q] \in Request /\ GoodCall(req[q]) /\ raced' = raced
      BY <1>0 DEF Earn, TypeOK, GoodCalls, history
    <2>2. /\ Amounts(req[q]) => req[q].id \in Payables
          /\ req[q].op = "batch" => req[q].ids \subseteq Payables
      BY <2>1 DEF Amounts, Request, Idle
    <2> QED
      BY <1>3, <2>1, <2>2 DEF GoodCall, Amounts
  <1> QED
    BY <1>2, <1>4, <1>5 DEF SettlementInv

LEMMA AmountsStep ==
  ASSUME SettlementInv, NEW r \in Requests, CommitAmounts(r)
  PROVE  SettlementInv'
  <1>0. TypeOK /\ SettledIsPaid /\ BooksBalance /\ Unearned /\ req[r] \in Request /\ GoodCall(req[r])
    BY DEF SettlementInv, TypeOK, GoodCalls
  <1>1. PICK x \in Request : x = req[r]
    BY <1>0
  <1>2. PICK p \in Payables : p = x.id
    BY <1>1 DEF CommitAmounts, Request, Idle
  <1>3. /\ x.net \in Nat /\ x.adjusted \in Int /\ x.amount \in Int /\ x.value \in Nat
        /\ x.net + x.amount >= 0 /\ payable[p] # "NONE"
        /\ p \notin raced => x.net = NetOf(Goods[p]) + x.adjusted
    BY <1>0, <1>1, <1>2 DEF CommitAmounts, GoodCall, Amounts, Request, Idle
  <1>4. /\ ledger' = [ledger EXCEPT ![p] = @ + x.amount]
        /\ net' = [net EXCEPT ![p] = x.net + x.amount]
        /\ adjusted' = [adjusted EXCEPT ![p] = x.adjusted + x.amount]
        /\ returned' = [returned EXCEPT ![p] = @ + x.value]
        /\ returns' = [returns EXCEPT ![p] = IF x.op = "debit" THEN @ + 1 ELSE @]
        /\ steered' = IF x.op = "adjust" THEN steered \cup {p} ELSE steered
        /\ raced' = IF net[p] = x.net /\ payable[p] = "EARNED" THEN raced ELSE raced \cup {p}
        /\ End(r)
        /\ UNCHANGED <<payable, item, paying, batch, total>>
    BY <1>1, <1>2 DEF CommitAmounts, NewAdjusted, batchVars
  <1>5. TypeOK'
    <2>1. req' \in [Requests -> Request]
      BY <1>0, <1>4, EndType
    <2>2. x.net + x.amount \in Nat
      BY <1>3
    <2> QED
      BY <1>0, <1>3, <1>4, <2>1, <2>2 DEF TypeOK
  <1>6. SettledIsPaid'
    BY <1>0, <1>4 DEF SettledIsPaid
  <1>7. \A q \in Payables \ {p} : net'[q] = net[q] /\ ledger'[q] = ledger[q] /\ adjusted'[q] = adjusted[q]
    BY <1>0, <1>4 DEF TypeOK
  <1>8. /\ net'[p] = x.net + x.amount /\ ledger'[p] = ledger[p] + x.amount
        /\ adjusted'[p] = x.adjusted + x.amount
    BY <1>0, <1>4 DEF TypeOK
  <1>9. BooksBalance'
    <2> SUFFICES ASSUME NEW q \in Payables, q \notin raced'
                 PROVE  /\ payable'[q] # "NONE" => net'[q] = NetOf(Goods[q]) + ledger'[q]
                        /\ adjusted'[q] = ledger'[q]
                        /\ item'[q] # None => paying'[q] = net'[q]
      BY DEF BooksBalance
    <2>1. CASE q # p
      BY <1>0, <1>4, <1>7, <2>1 DEF BooksBalance
    <2>2. CASE q = p
      <3>1. p \notin raced /\ net[p] = x.net /\ payable[p] = "EARNED"
        BY <1>4, <2>2
      <3>2. NetOf(Goods[p]) \in Nat /\ ledger[p] \in Int
        BY <1>0, SettlementAssumption DEF TypeOK
      <3>3. net[p] = NetOf(Goods[p]) + ledger[p]
        BY <1>0, <3>1 DEF BooksBalance
      <3>4. x.adjusted = ledger[p]
        BY <1>3, <3>1, <3>2, <3>3
      <3>5. item[p] = None
        BY <1>0, <3>1 DEF SettledIsPaid
      <3> QED
        BY <1>3, <1>4, <1>8, <2>2, <3>1, <3>2, <3>3, <3>4, <3>5
    <2> QED
      BY <2>1, <2>2
  <1>10. Unearned'
    BY <1>0, <1>3, <1>4, <1>7 DEF Unearned
  <1>11. GoodCalls'
    BY <1>4, EndStep
  <1> QED
    BY <1>5, <1>6, <1>9, <1>10, <1>11 DEF SettlementInv

LEMMA BatchStep ==
  ASSUME SettlementInv, NEW r \in Requests, NEW s \in Settlements, CommitBatch(r, s)
  PROVE  SettlementInv'
  <1>0. TypeOK /\ SettledIsPaid /\ BooksBalance /\ Unearned /\ req[r] \in Request /\ GoodCall(req[r])
    BY DEF SettlementInv, TypeOK, GoodCalls
  <1>1. PICK x \in Request : x = req[r]
    BY <1>0
  <1>2. x.ids \subseteq Payables /\ x.net \in [Payables -> Nat]
    BY <1>1 DEF CommitBatch, Request, Idle
  <1>3. \A p \in x.ids : item[p] = None
    BY <1>1 DEF CommitBatch, NotBatched
  <1>4. /\ batch[s] = "NONE" /\ batch' = [batch EXCEPT ![s] = "PENDING"]
        /\ item' = [p \in Payables |-> IF p \in x.ids THEN s ELSE item[p]]
        /\ paying' = [p \in Payables |-> IF p \in x.ids THEN x.net[p] ELSE paying[p]]
        /\ payable' = [p \in Payables |-> IF p \in x.ids THEN "IN_SETTLEMENT" ELSE payable[p]]
        /\ raced' = raced \cup {p \in x.ids : net[p] # x.net[p]}
        /\ End(r)
        /\ UNCHANGED <<net, adjusted, ledger, returned, returns, steered>>
    BY <1>1 DEF CommitBatch, ItemAmount
  <1>5. PICK t \in Nat : total' = [total EXCEPT ![s] = t]
    <2>1. PICK n \in 0 .. MaxNet * Cardinality(Payables) :
            n = SumOf(req[r].net, req[r].ids) /\ total' = [total EXCEPT ![s] = n]
      BY Zenon DEF CommitBatch
    <2>2. n \in Nat
      OBVIOUS
    <2> QED
      BY <2>1, <2>2
  <1>6. TypeOK'
    <2>1. req' \in [Requests -> Request]
      BY <1>0, <1>4, EndType
    <2>2. /\ payable' \in [Payables -> PayableStatus] /\ batch' \in [Settlements -> SettlementStatus]
          /\ item' \in [Payables -> Settlements \cup {None}] /\ paying' \in [Payables -> Nat]
          /\ total' \in [Settlements -> Nat] /\ raced' \subseteq Payables
      BY <1>0, <1>2, <1>4, <1>5 DEF TypeOK, PayableStatus, SettlementStatus
    <2> QED
      BY <1>0, <1>4, <2>1, <2>2 DEF TypeOK
  <1>7. s # None /\ \A p \in Payables : item[p] # s
    BY <1>0, <1>4, SettlementAssumption DEF SettledIsPaid
  <1>8. \A z \in Settlements : batch'[z] = IF z = s THEN "PENDING" ELSE batch[z]
    BY <1>0, <1>4 DEF TypeOK
  <1>9. SettledIsPaid'
    <2> SUFFICES ASSUME NEW p \in Payables
                 PROVE  /\ payable'[p] \in {"NONE", "EARNED"} <=> item'[p] = None
                        /\ item'[p] # None => /\ batch'[item'[p]] # "NONE"
                                              /\ payable'[p] = "SETTLED" <=> batch'[item'[p]] \in PaidOut
      BY DEF SettledIsPaid
    <2>1. CASE p \in x.ids
      BY <1>4, <1>7, <1>8, <2>1 DEF PaidOut
    <2>2. CASE p \notin x.ids
      <3>1. payable'[p] = payable[p] /\ item'[p] = item[p] /\ item[p] # s
        BY <1>4, <1>7, <2>2
      <3>2. item[p] # None => batch'[item[p]] = batch[item[p]]
        BY <1>0, <1>8, <3>1 DEF TypeOK
      <3> QED
        BY <1>0, <3>1, <3>2 DEF SettledIsPaid
    <2> QED
      BY <2>1, <2>2
  <1>10. BooksBalance'
    <2> SUFFICES ASSUME NEW p \in Payables, p \notin raced'
                 PROVE  /\ payable'[p] # "NONE" => net'[p] = NetOf(Goods[p]) + ledger'[p]
                        /\ adjusted'[p] = ledger'[p]
                        /\ item'[p] # None => paying'[p] = net'[p]
      BY DEF BooksBalance
    <2>1. p \notin raced
      BY <1>4
    <2>2. CASE p \in x.ids
      <3>1. net[p] = x.net[p]
        BY <1>4, <2>2
      <3>2. payable[p] # "NONE" => net[p] = NetOf(Goods[p]) + ledger[p]
        BY <1>0, <2>1 DEF BooksBalance
      <3>3. adjusted[p] = ledger[p]
        BY <1>0, <2>1 DEF BooksBalance
      <3>4. payable[p] # "NONE"
        BY <1>0, <1>1, <2>2 DEF CommitBatch, GoodCall
      <3> QED
        BY <1>4, <2>2, <3>1, <3>2, <3>3, <3>4
    <2>3. CASE p \notin x.ids
      BY <1>0, <1>4, <2>1, <2>3 DEF BooksBalance
    <2> QED
      BY <2>2, <2>3
  <1>11. Unearned'
    BY <1>0, <1>4 DEF Unearned
  <1>12. GoodCalls'
    <2>1. \A p \in Payables : payable[p] # "NONE" => payable'[p] # "NONE"
      BY <1>4
    <2> QED
      BY <1>4, <2>1, EndStep
  <1> QED
    BY <1>6, <1>9, <1>10, <1>11, <1>12 DEF SettlementInv

LEMMA AdvanceStep ==
  ASSUME SettlementInv, NEW r \in Requests, CommitAdvance(r)
  PROVE  SettlementInv'
  <1>0. TypeOK /\ SettledIsPaid /\ BooksBalance /\ Unearned /\ req[r] \in Request /\ GoodCall(req[r])
    BY DEF SettlementInv, TypeOK, GoodCalls
  <1>1. PICK x \in Request : x = req[r] /\ <<x.from, x.to>> \in Settlement_Next
    BY <1>0 DEF CommitAdvance, GoodCall
  <1>2. PICK s \in Settlements : s = x.id /\ x.to \in SettlementStatus
    BY <1>1 DEF CommitAdvance, Request, Idle
  <1>3. /\ batch[s] = x.from
        /\ batch' = [batch EXCEPT ![s] = x.to]
        /\ payable' = [p \in Payables |-> IF x.to = "PAID" /\ item[p] = s THEN "SETTLED" ELSE payable[p]]
        /\ End(r)
        /\ UNCHANGED <<net, adjusted, ledger, item, paying, total, returned, returns, steered, raced>>
    BY <1>1, <1>2 DEF CommitAdvance, StillIs, history
  <1>4. TypeOK'
    BY <1>0, <1>2, <1>3, EndType DEF TypeOK, PayableStatus
  <1>5. \A z \in Settlements : batch'[z] = IF z = s THEN x.to ELSE batch[z]
    BY <1>0, <1>3 DEF TypeOK
  <1>6. x.to # "NONE" /\ (x.from \in PaidOut => x.to \in PaidOut)
        /\ (x.to \in PaidOut => x.to = "PAID" \/ x.from \in PaidOut)
    BY <1>1 DEF Settlement_Next, PaidOut
  <1>7. SettledIsPaid'
    <2> SUFFICES ASSUME NEW p \in Payables
                 PROVE  /\ payable'[p] \in {"NONE", "EARNED"} <=> item'[p] = None
                        /\ item'[p] # None => /\ batch'[item'[p]] # "NONE"
                                              /\ payable'[p] = "SETTLED" <=> batch'[item'[p]] \in PaidOut
      BY DEF SettledIsPaid
    <2>1. item'[p] = item[p] /\ item[p] \in Settlements \cup {None} /\ s # None
      BY <1>0, <1>3, SettlementAssumption DEF TypeOK
    <2>2. CASE item[p] = s
      BY <1>0, <1>3, <1>5, <1>6, <2>1, <2>2 DEF SettledIsPaid, PaidOut
    <2>3. CASE item[p] # s
      BY <1>0, <1>3, <1>5, <2>1, <2>3 DEF SettledIsPaid
    <2> QED
      BY <2>2, <2>3
  <1>8. \A p \in Payables : payable[p] = "NONE" <=> payable'[p] = "NONE"
    <2> SUFFICES ASSUME NEW p \in Payables PROVE payable[p] = "NONE" <=> payable'[p] = "NONE"
      OBVIOUS
    <2>1. item[p] = s => payable[p] # "NONE"
      BY <1>0, SettlementAssumption DEF SettledIsPaid
    <2> QED
      BY <1>3, <2>1
  <1>9. BooksBalance' /\ Unearned'
    BY <1>0, <1>3, <1>8 DEF BooksBalance, Unearned
  <1>10. GoodCalls'
    BY <1>3, <1>8, EndStep
  <1> QED
    BY <1>4, <1>7, <1>9, <1>10 DEF SettlementInv

(* SettlementInv holds in every state, for every value of the constants.    *)
THEOREM SettlementInvariant == Spec => []SettlementInv
  <1>1. SettlementInv /\ [Next]_vars => SettlementInv'
    <2> SUFFICES ASSUME SettlementInv, [Next]_vars PROVE SettlementInv'
      OBVIOUS
    <2>1. CASE UNCHANGED vars
      BY <2>1 DEF vars, payableVars, batchVars, history, SettlementInv, TypeOK, SettledIsPaid, BooksBalance,
                  Unearned, GoodCalls, GoodCall, Amounts
    <2>2. ASSUME NEW r \in Requests, Drop(r) PROVE SettlementInv'
      <3>1. TypeOK'
        BY <2>2, EndType DEF Drop, SettlementInv, TypeOK, payableVars, batchVars, history
      <3>2. GoodCalls'
        BY <2>2, EndStep DEF Drop, payableVars, history
      <3> QED
        BY <2>2, <3>1, <3>2
           DEF Drop, SettlementInv, SettledIsPaid, BooksBalance, Unearned, payableVars, batchVars, history
    <2>3. ASSUME NEW r \in Requests, Call(r) PROVE SettlementInv'
      BY <2>2, <2>3, ReadStep, AmountsStep, BatchStep, AdvanceStep DEF Call
    <2> QED
      BY <2>1, <2>3, EarnStep DEF Next
  <1> QED
    BY <1>1, SettlementInit, PTL DEF Spec

-----------------------------------------------------------------------------
(* The properties that TLC checks on two payables *)

(* Every row is well formed; no payable and no settlement goes below zero.  *)
THEOREM SettlementTypes == Spec => []TypeOK
  <1>1. SettlementInv => TypeOK
    BY DEF SettlementInv
  <1> QED
    BY <1>1, SettlementInvariant, PTL

(* A payable counts as settled exactly when its settlement has been paid.   *)
THEOREM SettledWhenPaid == Spec => []SettledIsPaid
  <1>1. SettlementInv => SettledIsPaid
    BY DEF SettlementInv
  <1> QED
    BY <1>1, SettlementInvariant, PTL

(* Payables no write raced for agree with their ledger, and are paid as such.*)
THEOREM LedgerIsKept == Spec => []BooksBalance
  <1>1. SettlementInv => BooksBalance
    BY DEF SettlementInv
  <1> QED
    BY <1>1, SettlementInvariant, PTL

(* A settlement that was paid stays paid, and settled money is never batched *)
(* again.                                                                    *)
THEOREM PaymentIsFinal == Spec => PaidIsPaid
  <1> DEFINE Final == /\ \A s \in Settlements : batch[s] \in PaidOut => batch'[s] \in PaidOut
                      /\ \A p \in Payables :
                           payable[p] = "SETTLED" => payable'[p] = "SETTLED" /\ item'[p] = item[p]
  <1>1. SettlementInv /\ [Next]_vars => [Final]_vars
    <2> SUFFICES ASSUME SettlementInv, [Next]_vars PROVE Final \/ UNCHANGED vars
      OBVIOUS
    <2>0. TypeOK /\ SettledIsPaid /\ \A r \in Requests : req[r] \in Request /\ GoodCall(req[r])
      BY DEF SettlementInv, TypeOK, GoodCalls
    <2>1. CASE UNCHANGED <<payable, item, batch>>
      BY <2>1
    <2>2. ASSUME NEW p \in Payables, Earn(p) PROVE Final
      BY <2>0, <2>2 DEF Earn, TypeOK, batchVars
    <2>3. ASSUME NEW r \in Requests, NEW s \in Settlements, CommitBatch(r, s) PROVE Final
      <3>1. \A p \in req[r].ids : item[p] = None
        BY <2>3 DEF CommitBatch, NotBatched
      <3>2. /\ batch[s] = "NONE" /\ batch' = [batch EXCEPT ![s] = "PENDING"]
            /\ item' = [p \in Payables |-> IF p \in req[r].ids THEN s ELSE item[p]]
            /\ payable' = [p \in Payables |-> IF p \in req[r].ids THEN "IN_SETTLEMENT" ELSE payable[p]]
        BY <2>3 DEF CommitBatch
      <3>3. \A p \in Payables : payable[p] = "SETTLED" => p \notin req[r].ids
        BY <2>0, <3>1 DEF SettledIsPaid
      <3>4. \A z \in Settlements : batch[z] \in PaidOut => batch'[z] = batch[z]
        BY <2>0, <3>2 DEF TypeOK, PaidOut
      <3> QED
        BY <3>2, <3>3, <3>4
    <2>4. ASSUME NEW r \in Requests, CommitAdvance(r) PROVE Final
      <3>1. <<req[r].from, req[r].to>> \in Settlement_Next
        BY <2>0, <2>4 DEF CommitAdvance, GoodCall
      <3>2. req[r].from \in PaidOut => req[r].to \in PaidOut
        BY <3>1 DEF Settlement_Next, PaidOut
      <3>3. /\ batch[req[r].id] = req[r].from
            /\ batch' = [batch EXCEPT ![req[r].id] = req[r].to]
            /\ item' = item
            /\ \A p \in Payables : payable'[p] \in {"SETTLED", payable[p]}
        BY <2>4 DEF CommitAdvance, StillIs
      <3> QED
        BY <2>0, <3>2, <3>3 DEF TypeOK
    <2>5. ASSUME NEW r \in Requests, Call(r), ~UNCHANGED <<payable, item, batch>>
          PROVE  (\E s \in Settlements : CommitBatch(r, s)) \/ CommitAdvance(r)
      BY <2>5 DEF Call, ReadAdjustment, ReadDebit, ReadBatch, ReadAdvance, Begin, CommitAmounts, Drop,
                  payableVars, batchVars
    <2> QED
      BY <2>1, <2>2, <2>3, <2>4, <2>5 DEF Next, vars, payableVars, batchVars
  <1> QED
    BY <1>1, SettlementInvariant, PTL DEF Spec, PaidIsPaid

-----------------------------------------------------------------------------
(* What a settlement pays, and what its items add up to *)

Items(s) == {p \in Payables : item[p] = s}
Sum(amount, S) == SumFunctionOnSet(amount, S)

LEMMA SumOfIsSum ==
  ASSUME NEW amount, NEW S
  PROVE  SumOf(amount, S) = Sum(amount, S)
  BY Zenon DEF SumOf, Sum, MapThenSumSet, MapThenFoldSet, SumFunctionOnSet, FoldFunctionOnSet

LEMMA TotalsInit == Init => TotalOfItems
  <1> SUFFICES ASSUME Init, NEW s \in Settlements
               PROVE  total[s] = SumOf(paying, {p \in Payables : item[p] = s})
    BY DEF TotalOfItems
  <1>1. {p \in Payables : item[p] = s} = {}
    BY SettlementAssumption DEF Init
  <1>2. SumOf(paying, {}) = 0
    BY SumOfIsSum, SumEmpty DEF Sum
  <1> QED
    BY <1>1, <1>2 DEF Init

(* A settlement keeps its total while its items and their amounts stay.    *)
LEMMA TotalStays ==
  ASSUME TypeOK, TotalOfItems, NEW s \in Settlements,
         Items(s)' = Items(s), total'[s] = total[s],
         \A p \in Items(s) : paying'[p] = paying[p]
  PROVE  total'[s] = SumOf(paying', Items(s)')
  <1>1. total[s] = Sum(paying, Items(s))
    BY SumOfIsSum DEF TotalOfItems, Items
  <1>2. Sum(paying, Items(s)) = Sum(paying', Items(s))
    <2>1. Items(s) \in SUBSET Payables /\ \A p \in Items(s) : paying[p] \in Int
      BY DEF Items, TypeOK
    <2> QED
      BY <2>1, SettlementAssumption, FS_Subset, SumSame DEF Sum, Numbers
  <1>3. SumOf(paying', Items(s)') = Sum(paying', Items(s)')
    BY SumOfIsSum
  <1> QED
    BY <1>1, <1>2, <1>3

LEMMA TotalsUnchanged ==
  ASSUME TypeOK, TotalOfItems, UNCHANGED <<item, paying, total>>
  PROVE  TotalOfItems'
  <1>1. ASSUME NEW s \in Settlements PROVE total'[s] = SumOf(paying', Items(s)')
    BY TotalStays DEF Items
  <1> QED
    BY <1>1, Zenon DEF TotalOfItems, Items

LEMMA TotalsBatch ==
  ASSUME SettlementInv, TotalOfItems, NEW r \in Requests, NEW s \in Settlements, CommitBatch(r, s)
  PROVE  TotalOfItems'
  <1>0. TypeOK /\ SettledIsPaid /\ req[r] \in Request
    BY DEF SettlementInv, TypeOK
  <1>1. PICK x \in Request : x = req[r]
    BY <1>0
  <1>2. x.ids \in SUBSET Payables /\ x.net \in [Payables -> Nat]
    BY <1>1 DEF CommitBatch, Request, Idle
  <1>3. /\ batch[s] = "NONE"
        /\ \A p \in x.ids : item[p] = None
        /\ item' = [p \in Payables |-> IF p \in x.ids THEN s ELSE item[p]]
        /\ paying' = [p \in Payables |-> IF p \in x.ids THEN x.net[p] ELSE paying[p]]
    BY <1>1 DEF CommitBatch, ItemAmount, NotBatched
  <1>4. total' = [total EXCEPT ![s] = SumOf(x.net, x.ids)]
    BY <1>1, Zenon DEF CommitBatch
  <1>5. s # None /\ \A p \in Payables : item[p] # s
    BY <1>0, <1>3, SettlementAssumption DEF SettledIsPaid
  <1>6. ASSUME NEW z \in Settlements PROVE total'[z] = SumOf(paying', Items(z)')
    <2>1. CASE z = s
      <3>1. Items(z)' = x.ids
        BY <1>2, <1>3, <1>5, <2>1 DEF Items
      <3>2. total'[z] = Sum(x.net, x.ids)
        BY <1>0, <1>4, <2>1, SumOfIsSum DEF TypeOK
      <3>3. Sum(x.net, x.ids) = Sum(paying', x.ids)
        <4>1. IsFiniteSet(x.ids)
          BY <1>2, SettlementAssumption, FS_Subset
        <4>2. \A p \in x.ids : x.net[p] \in Int /\ x.net[p] = paying'[p]
          BY <1>2, <1>3
        <4> QED
          BY <4>1, <4>2, SumSame DEF Sum, Numbers
      <3> QED
        BY <3>1, <3>2, <3>3, SumOfIsSum
    <2>2. CASE z # s
      <3>1. z # None
        BY SettlementAssumption
      <3>2. Items(z)' = Items(z)
        BY <1>3, <2>2, <3>1 DEF Items
      <3>3. total'[z] = total[z]
        BY <1>0, <1>4, <2>2 DEF TypeOK
      <3>4. \A p \in Items(z) : paying'[p] = paying[p]
        BY <1>3, <3>1 DEF Items
      <3> QED
        BY <1>0, <3>2, <3>3, <3>4, TotalStays
    <2> QED
      BY <2>1, <2>2
  <1> QED
    BY <1>6, Zenon DEF TotalOfItems, Items

LEMMA TotalsStep ==
  ASSUME SettlementInv, TotalOfItems, [Next]_vars
  PROVE  TotalOfItems'
  <1>0. TypeOK
    BY DEF SettlementInv
  <1>1. ASSUME NEW r \in Requests, NEW s \in Settlements, CommitBatch(r, s) PROVE TotalOfItems'
    BY <1>1, TotalsBatch
  <1>2. CASE UNCHANGED <<item, paying, total>>
    BY <1>0, <1>2, TotalsUnchanged
  <1>3. ASSUME NEW r \in Requests, Call(r), \A s \in Settlements : ~CommitBatch(r, s)
        PROVE  UNCHANGED <<item, paying, total>>
    BY <1>3 DEF Call, ReadAdjustment, ReadDebit, ReadBatch, ReadAdvance, Begin, CommitAmounts, CommitAdvance,
                Drop, batchVars
  <1>4. ASSUME NEW p \in Payables, Earn(p) PROVE UNCHANGED <<item, paying, total>>
    BY <1>4 DEF Earn, batchVars
  <1> QED
    BY <1>1, <1>2, <1>3, <1>4 DEF Next, vars, batchVars
-----------------------------------------------------------------------------
(* What rounding leaves the seller *)

LEMMA RoundIsNear ==
  ASSUME NEW n \in Int
  PROVE  /\ Round(n, AllBps) \in Int
         /\ 2 * n - AllBps < 2 * AllBps * Round(n, AllBps)
         /\ 2 * AllBps * Round(n, AllBps) <= 2 * n + AllBps
  BY SMT DEF Round, AllBps

(* What a seller is due for goods of this value, to the fraction of a paisa,*)
(* times the basis points.                                                  *)
Owed(v) == v * (AllBps - Rate)

LEMMA DueIsAdditive ==
  ASSUME NEW v \in Int, NEW w \in Int
  PROVE  Owed(v) \in Int /\ Owed(v + w) = Owed(v) + Owed(w)
  BY SettlementAssumption, SMT DEF Owed, AllBps

LEMMA DueIsNatural ==
  ASSUME NEW v \in Nat
  PROVE  Owed(v) >= 0
  <1>1. AllBps - Rate \in Nat
    BY SettlementAssumption DEF AllBps
  <1> QED
    BY <1>1, SMT DEF Owed

LEMMA NetIsNear ==
  ASSUME NEW v \in Nat
  PROVE  2 * AllBps * NetOf(v) <= 2 * Owed(v) + AllBps
  <1>1. Rate \in Nat /\ v * Rate \in Int
    BY SettlementAssumption DEF AllBps
  <1>2. /\ Commission(v) \in Int /\ 2 * (v * Rate) - AllBps < 2 * AllBps * Commission(v)
    BY <1>1, RoundIsNear DEF Commission
  <1> QED
    BY <1>1, <1>2, SMT DEF NetOf, Owed, AllBps

LEMMA DebitIsNear ==
  ASSUME NEW v \in Nat
  PROVE  Debit(v) \in Int /\ 2 * Owed(v) - AllBps < 2 * AllBps * Debit(v)
  BY DueIsAdditive, RoundIsNear DEF Debit, Owed

(* What is left of a payable that only returns have written to: nothing, or *)
(* what the goods kept are worth, with half a paisa for each rounding.      *)
Left(p) ==
  \/ net[p] = 0
  \/ 2 * AllBps * net[p] <= 2 * Owed(Goods[p] - returned[p]) + AllBps * (1 + returns[p])

LeftOver ==
  \A p \in Payables \ (raced \cup steered) : payable[p] # "NONE" => Left(p)

NothingReturned == \A p \in Payables : payable[p] = "NONE" => returned[p] = 0 /\ returns[p] = 0

(* A debit in flight will take the returned goods off, or all there is.     *)
DebitCall(x) ==
  x.op = "debit" => x.amount = 0 - x.net \/ x.amount = 0 - Debit(x.value)

DebitCalls == \A r \in Requests : DebitCall(req[r])

LeftInv == LeftOver /\ NothingReturned /\ DebitCalls

LEMMA LeftInit == Init => LeftInv
  BY DEF Init, LeftInv, LeftOver, Left, NothingReturned, DebitCalls, DebitCall, Idle

(* Nothing but a debit, an adjustment and an earning touches what is left.  *)
LEMMA LeftReads ==
  ASSUME TypeOK, LeftInv, NEW r \in Requests, NEW x, DebitCall(x), req' = [req EXCEPT ![r] = x],
         UNCHANGED <<net, returned, returns, steered>>, raced \subseteq raced',
         \A p \in Payables : payable[p] = "NONE" <=> payable'[p] = "NONE"
  PROVE  LeftInv'
  <1>1. DebitCalls'
    BY DEF TypeOK, LeftInv, DebitCalls, DebitCall
  <1>2. LeftOver' /\ NothingReturned'
    BY DEF LeftInv, LeftOver, Left, NothingReturned
  <1> QED
    BY <1>1, <1>2 DEF LeftInv

LEMMA LeftEarn ==
  ASSUME SettlementInv, LeftInv, NEW p \in Payables, Earn(p)
  PROVE  LeftInv'
  <1>0. TypeOK /\ returned[p] = 0 /\ returns[p] = 0 /\ Goods[p] \in Nat
    BY SettlementAssumption DEF SettlementInv, LeftInv, NothingReturned, Earn
  <1>1. /\ UNCHANGED <<req, returned, returns, steered, raced>>
        /\ \A q \in Payables : q # p => payable'[q] = payable[q] /\ net'[q] = net[q]
        /\ payable'[p] = "EARNED" /\ net'[p] = NetOf(Goods[p])
    BY <1>0 DEF Earn, TypeOK, history
  <1>2. Left(p)'
    <2>1. Goods[p] - returned'[p] = Goods[p] /\ AllBps * (1 + returns'[p]) = AllBps
      BY <1>0, <1>1 DEF AllBps
    <2> QED
      BY <1>0, <1>1, <2>1, NetIsNear DEF Left
  <1>3. \A q \in Payables : q # p => (Left(q)' <=> Left(q))
    BY <1>1 DEF Left
  <1> QED
    BY <1>1, <1>2, <1>3 DEF LeftInv, LeftOver, NothingReturned, DebitCalls, DebitCall

LEMMA LeftAmounts ==
  ASSUME SettlementInv, LeftInv, NEW r \in Requests, CommitAmounts(r)
  PROVE  LeftInv'
  <1>0. TypeOK /\ req[r] \in Request /\ GoodCall(req[r]) /\ DebitCall(req[r])
    BY DEF SettlementInv, TypeOK, GoodCalls, LeftInv, DebitCalls
  <1>1. PICK x \in Request : x = req[r]
    BY <1>0
  <1>2. PICK p \in Payables : p = x.id
    BY <1>1 DEF CommitAmounts, Request, Idle
  <1>3. /\ x.op \in {"adjust", "debit"} /\ DebitCall(x)
        /\ x.net \in Nat /\ x.amount \in Int /\ x.value \in Nat
        /\ x.net + x.amount >= 0 /\ payable[p] # "NONE"
    BY <1>0, <1>1, <1>2 DEF CommitAmounts, GoodCall, Amounts, Request, Idle
  <1>4. /\ net' = [net EXCEPT ![p] = x.net + x.amount]
        /\ returned' = [returned EXCEPT ![p] = @ + x.value]
        /\ returns' = [returns EXCEPT ![p] = IF x.op = "debit" THEN @ + 1 ELSE @]
        /\ steered' = IF x.op = "adjust" THEN steered \cup {p} ELSE steered
        /\ raced' = IF net[p] = x.net /\ payable[p] = "EARNED" THEN raced ELSE raced \cup {p}
        /\ End(r)
        /\ payable' = payable
    BY <1>1, <1>2 DEF CommitAmounts
  <1>5. DebitCalls'
    <2>1. \A q \in Requests : req'[q] = IF q = r THEN Idle ELSE req[q]
      BY <1>0, <1>4, EndType
    <2> QED
      BY <2>1 DEF LeftInv, DebitCalls, DebitCall, Idle
  <1>6. \A q \in Payables : q # p => /\ net'[q] = net[q] /\ returned'[q] = returned[q]
                                      /\ returns'[q] = returns[q]
    BY <1>0, <1>4 DEF TypeOK
  <1>7. NothingReturned'
    BY <1>3, <1>4, <1>6 DEF LeftInv, NothingReturned
  <1>8. ASSUME p \notin raced' \cup steered' PROVE Left(p)'
    <2>1. /\ p \notin raced /\ p \notin steered /\ net[p] = x.net /\ x.op = "debit"
          /\ x.amount = 0 - x.net \/ x.amount = 0 - Debit(x.value)
      BY <1>3, <1>4, <1>8 DEF DebitCall
    <2>2. /\ net'[p] = x.net + x.amount /\ returned'[p] = returned[p] + x.value
          /\ returns'[p] = returns[p] + 1
          /\ returned[p] \in Nat /\ returns[p] \in Nat /\ Goods[p] \in Nat
      BY <1>0, <1>4, <2>1, SettlementAssumption DEF TypeOK
    <2>3. CASE x.amount = 0 - x.net
      BY <1>3, <2>2, <2>3 DEF Left
    <2>4. CASE x.amount = 0 - Debit(x.value)
      <3> DEFINE d == Debit(x.value)
                 kept == Owed(Goods[p] - returned[p])
                 still == Owed(Goods[p] - returned'[p])
      <3>1. d \in Int /\ 2 * Owed(x.value) - AllBps < 2 * AllBps * d
        BY <1>3, DebitIsNear
      <3>2. kept \in Int /\ still \in Int /\ Owed(x.value) \in Int /\ kept = still + Owed(x.value)
        <4>1. Goods[p] - returned[p] = (Goods[p] - returned'[p]) + x.value
          BY <1>3, <2>2
        <4>2. Goods[p] - returned[p] \in Int /\ Goods[p] - returned'[p] \in Int /\ x.value \in Int
          BY <1>3, <2>2
        <4> QED
          BY ONLY <4>1, <4>2, DueIsAdditive
      <3>3. x.net = 0 \/ 2 * AllBps * x.net <= 2 * kept + AllBps * (1 + returns[p])
        BY <1>3, <2>1 DEF LeftInv, LeftOver, Left
      <3>4. net'[p] = x.net - d
        BY <1>3, <2>2, <2>4, <3>1
      <3> HIDE DEF d, kept, still
      <3>5. CASE x.net = 0
        <4>1. Owed(x.value) >= 0
          BY <1>3, DueIsNatural
        <4>2. d >= 0
          BY <3>1, <3>2, <4>1, SMT DEF AllBps
        <4>3. d <= x.net
          BY <1>3, <3>1, <2>4 DEF d
        <4> QED
          BY <1>3, <3>1, <3>4, <3>5, <4>2, <4>3 DEF Left
      <3>6. CASE 2 * AllBps * x.net <= 2 * kept + AllBps * (1 + returns[p])
        <4>1. 2 * AllBps * (x.net - d) <= 2 * still + AllBps * (1 + (returns[p] + 1))
          BY <1>3, <2>2, <3>1, <3>2, <3>6, SMT DEF AllBps
        <4> QED
          BY <2>2, <3>4, <4>1 DEF Left, still
      <3> QED
        BY <3>3, <3>5, <3>6
    <2> QED
      BY <2>1, <2>3, <2>4
  <1>9. LeftOver'
    <2>1. ASSUME NEW q \in Payables, q \notin raced' \cup steered', payable'[q] # "NONE", q # p
          PROVE  Left(q)'
      <3>1. q \notin raced \cup steered /\ payable[q] # "NONE"
        BY <1>4, <2>1
      <3> QED
        BY <1>6, <2>1, <3>1 DEF LeftInv, LeftOver, Left
    <2> QED
      BY <1>8, <2>1 DEF LeftOver
  <1> QED
    BY <1>5, <1>7, <1>9 DEF LeftInv

LEMMA LeftStep ==
  ASSUME SettlementInv, LeftInv, [Next]_vars
  PROVE  LeftInv'
  <1> USE SettlementAssumption
  <1>0. TypeOK /\ GoodCalls
    BY DEF SettlementInv
  <1>1. ASSUME NEW p \in Payables, Earn(p) PROVE LeftInv'
    BY <1>1, LeftEarn
  <1>2. CASE UNCHANGED vars
    BY <1>2 DEF vars, payableVars, history, LeftInv, LeftOver, Left, NothingReturned, DebitCalls, DebitCall
  <1>3. ASSUME NEW r \in Requests, Call(r) PROVE LeftInv'
    <2>1. CASE CommitAmounts(r)
      BY <2>1, LeftAmounts
    <2>2. ASSUME NEW p \in Payables, NEW v \in Returned, ReadDebit(r, p, v) PROVE LeftInv'
      <3>1. PICK d \in 1 .. net[p] :
              /\ d = Applied(p, v)
              /\ Begin(r, [op |-> "debit", id |-> p, net |-> net[p], adjusted |-> adjusted[p],
                           amount |-> 0 - d, value |-> v])
        BY <2>2 DEF ReadDebit
      <3> DEFINE x == [op |-> "debit", id |-> p, net |-> net[p], adjusted |-> adjusted[p],
                       amount |-> 0 - d, value |-> v]
      <3>2. DebitCall(x)
        BY <3>1 DEF DebitCall, Applied
      <3> HIDE DEF x
      <3> QED
        BY <1>0, <3>1, <3>2, LeftReads DEF Begin, payableVars, history, x
    <2>3. ASSUME NEW x, x.op # "debit", Begin(r, x) PROVE LeftInv'
      <3>1. DebitCall(x)
        BY <2>3 DEF DebitCall
      <3> QED
        BY <1>0, <2>3, <3>1, LeftReads DEF Begin, payableVars, history
    <2>4. CASE \/ \E p \in Payables, a \in Adjustments : ReadAdjustment(r, p, a)
               \/ \E S \in SUBSET Payables : ReadBatch(r, S)
               \/ \E s \in Settlements, to \in SettlementStatus : ReadAdvance(r, s, to)
      BY <2>3, <2>4 DEF ReadAdjustment, ReadBatch, ReadAdvance
    <2>5. ASSUME End(r), UNCHANGED <<net, returned, returns, steered>>, raced \subseteq raced',
                 \A p \in Payables : payable[p] = "NONE" <=> payable'[p] = "NONE"
          PROVE  LeftInv'
      <3>1. DebitCall(Idle)
        BY DEF DebitCall, Idle
      <3> QED
        BY <1>0, <2>5, <3>1, LeftReads DEF End
    <2>6. CASE Drop(r)
      BY <2>5, <2>6 DEF Drop, payableVars, history
    <2>7. CASE CommitAdvance(r)
      <3>1. SettledIsPaid /\ <<req[r].from, req[r].to>> \in Settlement_Next /\ req[r].id \in Settlements
        BY <1>0, <2>7 DEF SettlementInv, TypeOK, GoodCalls, GoodCall, CommitAdvance, Request, Idle
      <3>2. \A p \in Payables : payable[p] = "NONE" <=> payable'[p] = "NONE"
        BY <2>7, <3>1 DEF CommitAdvance, SettledIsPaid
      <3> QED
        BY <2>5, <2>7, <3>2 DEF CommitAdvance, history
    <2>8. ASSUME NEW s \in Settlements, CommitBatch(r, s) PROVE LeftInv'
      <3>1. /\ \A p \in req[r].ids : payable[p] # "NONE"
            /\ payable' = [p \in Payables |-> IF p \in req[r].ids THEN "IN_SETTLEMENT" ELSE payable[p]]
        BY <1>0, <2>8 DEF CommitBatch, GoodCalls, GoodCall
      <3> QED
        BY <2>5, <2>8, <3>1 DEF CommitBatch
    <2> QED
      BY <1>3, <2>1, <2>2, <2>4, <2>6, <2>7, <2>8 DEF Call
  <1> QED
    BY <1>1, <1>2, <1>3 DEF Next

(* Every settlement pays the sum of its items; goods that all came back     *)
(* leave the seller no more than half a paisa for each return, and half.    *)
THEOREM SettlementsAddUp == Spec => []SettledInFull
  <1> DEFINE Inv == SettlementInv /\ TotalOfItems /\ LeftInv
  <1>1. Init => Inv
    BY SettlementInit, TotalsInit, LeftInit
  <1>2. SettlementInv /\ Inv /\ [Next]_vars => TotalOfItems' /\ LeftInv'
    BY TotalsStep, LeftStep
  <1>3. Inv => SettledInFull
    <2> SUFFICES ASSUME Inv, NEW p \in Payables \ (raced \cup steered),
                        payable[p] = "EARNED", returned[p] = Goods[p]
                 PROVE  2 * net[p] <= returns[p] + 1
      BY DEF SettledInFull, NothingKept
    <2>1. net[p] \in Nat /\ returns[p] \in Nat /\ Goods[p] \in Nat
      BY SettlementAssumption DEF SettlementInv, TypeOK
    <2>2. Owed(Goods[p] - returned[p]) = 0
      BY <2>1, SettlementAssumption DEF Owed, AllBps
    <2>3. net[p] = 0 \/ 2 * AllBps * net[p] <= AllBps * (1 + returns[p])
      BY <2>1, <2>2, SMT DEF LeftInv, LeftOver, Left, AllBps
    <2> QED
      BY <2>1, <2>3 DEF AllBps
  <1> QED
    BY <1>1, <1>2, <1>3, SettlementInvariant, PTL DEF Spec

=============================================================================
