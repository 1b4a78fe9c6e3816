------------------------- MODULE NotificationOutbox -------------------------
(***************************************************************************)
(* The notification outbox of NotificationService: notices leave a row per *)
(* contact, and dispatch passes, which the worker's interval timer and the *)
(* operators start, send the rows through the gateway.                     *)
(*                                                                         *)
(* A pass works through what it read when it began and writes absolute     *)
(* values by id.  The timer does not wait for the last pass, so passes     *)
(* overlap.  The process may die between a send and its mark, and the      *)
(* provider may have taken a message whose answer is an error or a timeout.*)
(*                                                                         *)
(* Rows are numbered in the order of createdAt.                            *)
(***************************************************************************)
EXTENDS Naturals, FiniteSets

CONSTANTS
  MaxRows,       \* notification_outbox rows that are ever written
  Contacts,      \* most rows of one notice (EMAIL and SMS)
  Batch,         \* rows of one pass
  MaxAttempts,   \* MAX_ATTEMPTS of dispatch
  Passes,        \* passes at the same time
  MaxCrashes     \* passes and writers that die

ASSUME OutboxAssumption ==
  /\ MaxRows \in Nat /\ Contacts \in Nat /\ MaxCrashes \in Nat
  /\ Batch \in Nat \ {0} /\ MaxAttempts \in Nat \ {0}

Rows == 1 .. MaxRows

VARIABLES
  status,     \* notification_outbox.status ("NONE": not written yet)
  attempt,    \* notification_outbox.attempt
  todo,       \* rows that a notice outside any transaction has yet to write
  left,       \* rows a pass has not dealt with
  seen,       \* the attempt of those rows when the pass read them (0 of others)
  answer,     \* the gateway's answer about the row in hand ("none": not sent)
  sends,      \* sends of a row
  accepted,   \* rows that the provider has taken
  overlapped, \* a pass has begun while another was under way
  crashes     \* passes and writers that died

passVars == <<left, seen, answer>>
outboxVars == <<status, attempt, todo, passVars, sends, accepted, overlapped, crashes>>

OutboxStatus == {"NONE", "PENDING", "SENT", "FAILED"}
Answers      == {"none", "ok", "failed"}

OutboxInit ==
  /\ status = [n \in Rows |-> "NONE"]
  /\ attempt = [n \in Rows |-> 0]
  /\ todo = 0
  /\ left = [p \in Passes |-> {}]
  /\ seen = [p \in Passes |-> [n \in Rows |-> 0]]
  /\ answer = [p \in Passes |-> "none"]
  /\ sends = [n \in Rows |-> 0]
  /\ accepted = {}
  /\ overlapped = FALSE
  /\ crashes = 0

-----------------------------------------------------------------------------
(* write, in the caller's transaction (enqueueTx, enqueueSellerTx): all rows *)
(* of the notice; or outside of one (enqueue, enqueueSeller): one by one.    *)

Written(n) == status[n] # "NONE"
Unwritten(k) == {n \in Rows : ~Written(n) /\ Cardinality({m \in Rows : m < n /\ ~Written(m)}) < k}

Write(k) ==
  /\ status' = [n \in Rows |-> IF n \in Unwritten(k) THEN "PENDING" ELSE status[n]]
  /\ UNCHANGED <<attempt, passVars, sends, accepted, overlapped, crashes>>

EnqueueTx == \E k \in 1 .. Contacts : Write(k) /\ UNCHANGED todo

Enqueue ==
  /\ todo = 0
  /\ todo' \in 1 .. Contacts
  /\ UNCHANGED <<status, attempt, passVars, sends, accepted, overlapped, crashes>>

WriteRow == todo > 0 /\ Write(1) /\ todo' = todo - 1

WriterDies ==
  /\ todo > 0 /\ crashes < MaxCrashes
  /\ todo' = 0
  /\ crashes' = crashes + 1
  /\ UNCHANGED <<status, attempt, passVars, sends, accepted, overlapped>>

-----------------------------------------------------------------------------
(* dispatch *)

AnyStatus(n) == Written(n) /\ attempt[n] < MaxAttempts     \* mutation: SENT rows too
OnlyNew(n) == status[n] = "PENDING" /\ attempt[n] < MaxAttempts   \* mutation: failures are left
Due(n) == status[n] \in {"PENDING", "FAILED"} /\ attempt[n] < MaxAttempts

Oldest == {n \in Rows : Due(n) /\ Cardinality({m \in Rows : m < n /\ Due(m)}) < Batch}

ReadPass(p) ==
  /\ left[p] = {}
  /\ Oldest # {}
  /\ left' = [left EXCEPT ![p] = Oldest]
  /\ seen' = [seen EXCEPT ![p] = [n \in Rows |-> IF n \in Oldest THEN attempt[n] ELSE 0]]
  /\ overlapped' = (overlapped \/ \E q \in Passes : left[q] # {})
  /\ UNCHANGED <<status, attempt, todo, answer, sends, accepted, crashes>>

InHand(p, n) == n \in left[p] /\ \A m \in left[p] : n <= m

Send(p, n) ==
  /\ InHand(p, n)
  /\ answer[p] = "none"
  /\ sends' = [sends EXCEPT ![n] = @ + 1]
  /\ \/ /\ answer' = [answer EXCEPT ![p] = "ok"]
        /\ accepted' = accepted \cup {n}
     \/ /\ answer' = [answer EXCEPT ![p] = "failed"]
        /\ accepted' \in {accepted, accepted \cup {n}}
  /\ UNCHANGED <<status, attempt, todo, left, seen, overlapped, crashes>>

NextAttempt(a) == a + 1
Outcome(p) == IF answer[p] = "ok" THEN "SENT" ELSE "FAILED"

Mark(p, n) ==
  /\ InHand(p, n)
  /\ answer[p] # "none"
  /\ status' = [status EXCEPT ![n] = Outcome(p)]
  /\ attempt' = [attempt EXCEPT ![n] = NextAttempt(seen[p][n])]
  /\ left' = [left EXCEPT ![p] = @ \ {n}]
  /\ seen' = [seen EXCEPT ![p][n] = 0]
  /\ answer' = [answer EXCEPT ![p] = "none"]
  /\ UNCHANGED <<todo, sends, accepted, overlapped, crashes>>

PassDies(p) ==
  /\ left[p] # {} /\ crashes < MaxCrashes
  /\ left' = [left EXCEPT ![p] = {}]
  /\ seen' = [seen EXCEPT ![p] = [n \in Rows |-> 0]]
  /\ answer' = [answer EXCEPT ![p] = "none"]
  /\ crashes' = crashes + 1
  /\ UNCHANGED <<status, attempt, todo, sends, accepted, overlapped>>

-----------------------------------------------------------------------------
PassStep(p) == ReadPass(p) \/ \E n \in Rows : Send(p, n) \/ Mark(p, n)

OutboxNext ==
  \/ EnqueueTx \/ Enqueue \/ WriteRow \/ WriterDies
  \/ \E p \in Passes : PassStep(p) \/ PassDies(p)

OutboxSpec == OutboxInit /\ [][OutboxNext]_outboxVars

(* The timer starts passes again and again, and a send ends: the gateway     *)
(* aborts it after eight seconds.                                            *)
FairOutboxSpec == OutboxSpec /\ \A p \in Passes : WF_outboxVars(PassStep(p))

-----------------------------------------------------------------------------
(* Rows and passes are well formed, and no row counts more attempts than it  *)
(* may have, however passes overlap.                                         *)
OutboxTypeOK ==
  /\ status \in [Rows -> OutboxStatus]
  /\ attempt \in [Rows -> 0 .. MaxAttempts]
  /\ todo \in 0 .. Contacts
  /\ left \in [Passes -> SUBSET Rows]
  /\ seen \in [Passes -> [Rows -> 0 .. MaxAttempts]]
  /\ answer \in [Passes -> Answers]
  /\ sends \in [Rows -> Nat]
  /\ accepted \subseteq Rows
  /\ overlapped \in BOOLEAN
  /\ crashes \in 0 .. MaxCrashes

(* A row that counts as SENT is one that the provider has taken, whichever   *)
(* of the overlapping passes marked it.                                      *)
SentWasAccepted == \A n \in Rows : status[n] = "SENT" => n \in accepted

(* A row is not given up before MAX_ATTEMPTS sends: an overlapping pass or a *)
(* crash costs it no attempt.                                                *)
GivenUpAfterTrying == \A n \in Rows : sends[n] >= attempt[n]

(* As long as passes do not overlap and none dies, a row is sent at most     *)
(* MAX_ATTEMPTS times and never again once it is marked as SENT.             *)
NoSurplusSends ==
  ~overlapped /\ crashes = 0 =>
    \A n \in Rows :
      /\ sends[n] <= MaxAttempts
      /\ status[n] = "SENT" => sends[n] = attempt[n]

(* Even when passes overlap and overwrite one another, every row ends: it is *)
(* SENT for good, or has used up its attempts.                               *)
EveryRowEnds ==
  <>[](\A n \in Rows : Written(n) => status[n] = "SENT" \/ attempt[n] = MaxAttempts)

-----------------------------------------------------------------------------
(* Stated by the code, and not kept by it. *)

(* "retry ceiling": a row is sent at most MAX_ATTEMPTS times.                *)
RetryCeiling == \A n \in Rows : sends[n] <= MaxAttempts
=============================================================================
