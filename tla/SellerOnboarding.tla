-------------------------- MODULE SellerOnboarding --------------------------
(***************************************************************************)
(* SellerOnboardingService about one self-registered seller: its profile,  *)
(* the submission of its application, the reviewers' decisions, activation *)
(* and the operators' switch.                                              *)
(*                                                                         *)
(* Every call reads, checks what it has read and writes by id.  A decision *)
(* and a change of status are transactions; a submission is three writes   *)
(* on their own, and the process may die between them.                     *)
(*                                                                         *)
(* Registration always leaves an application, so the branches that create  *)
(* a missing one are not taken.  KYC documents decide nothing, and the     *)
(* status history repeats the statuses written: both are left out.         *)
(***************************************************************************)
CONSTANTS
  Desk,   \* calls at the same time
  None    \* no call, no value

VARIABLES
  seller,    \* sellers.status
  app,       \* seller_applications.status
  terms,     \* seller_applications.agreedToTerms
  vetted,    \* "approved": a reviewer has; else "switched": an operator has set it ACTIVE
  call,      \* the call at each place of the desk: what it does, has read and will write,
             \* and whether no status was written since it read
  torn       \* a status was written over outdated reads, or a submission died half way

sellerVars == <<seller, app, terms, vetted>>
vars == <<sellerVars, call, torn>>

SellerStatus == {"PENDING", "UNDER_REVIEW", "APPROVED", "ACTIVE", "REJECTED", "SUSPENDED", "DEACTIVATED"}
OwnerEditable == {"PENDING", "UNDER_REVIEW"}
Operational == {"ACTIVE", "SUSPENDED", "DEACTIVATED"}

(* CORRECTION_REQUIRED stands for ADDITIONAL_INFORMATION_REQUIRED as well:    *)
(* every check and every effect is the same.                                 *)
AppStatus == {"DRAFT", "SUBMITTED", "RESUBMITTED", "CORRECTION_REQUIRED", "APPROVED", "REJECTED"}
Closed == {"APPROVED", "REJECTED"}
Resubmit == {"CORRECTION_REQUIRED", "RESUBMITTED"}

Decision == {"APPROVE", "REJECT", "CORRECTION_REQUIRED"}

Terms == {"AGREED", "NOT_AGREED"}

Idle == [op |-> "idle", app |-> None, to |-> None, held |-> TRUE]
Call == [op : {"profile", "read", "app", "seller", "review", "activate", "switch"},
         app : AppStatus \cup {None}, to : Decision \cup Operational \cup Terms \cup {None},
         held : BOOLEAN]

(* sellerRegister *)
Init ==
  /\ seller = "PENDING"
  /\ app = "DRAFT"
  /\ terms = FALSE
  /\ vetted = "no"
  /\ call = [c \in Desk |-> Idle]
  /\ torn = FALSE

Begin(c, op, to) ==
  /\ call[c] = Idle
  /\ call' = [call EXCEPT ![c] = [op |-> op, app |-> None, to |-> to, held |-> TRUE]]
  /\ UNCHANGED <<sellerVars, torn>>

End(c) == call' = [call EXCEPT ![c] = Idle]

(* A write of a status.  What the other calls have read no longer holds.     *)
Write(c, next) ==
  /\ torn' = (torn \/ ~call[c].held)
  /\ call' = [d \in Desk |-> IF d = c THEN next ELSE
                             IF call[d] = Idle THEN Idle ELSE [call[d] EXCEPT !.held = FALSE]]

Dies(c) ==
  /\ call[c] # Idle
  /\ End(c)
  /\ torn' = (torn \/ call[c].op = "seller")
  /\ UNCHANGED sellerVars

-----------------------------------------------------------------------------
(* updateProfile *)

ReadProfile(c) == seller \in OwnerEditable /\ \E t \in Terms : Begin(c, "profile", t)

CommitProfile(c) ==
  /\ call[c].op = "profile"
  /\ terms' = (call[c].to = "AGREED")
  /\ End(c)
  /\ UNCHANGED <<seller, app, vetted, torn>>

-----------------------------------------------------------------------------
(* submitApplication *)

Open(a) == a \notin Closed

ReadSeller(c) ==
  /\ seller \in OwnerEditable
  /\ call[c] = Idle
  /\ call' = [call EXCEPT ![c] = [Idle EXCEPT !.op = "read"]]
  /\ UNCHANGED <<sellerVars, torn>>

ReadApplication(c) ==
  /\ call[c].op = "read"
  /\ Open(app)
  /\ terms
  /\ call' = [call EXCEPT ![c].op = "app", ![c].app = app]
  /\ UNCHANGED <<sellerVars, torn>>

WriteApplication(c) ==
  /\ call[c].op = "app"
  /\ app' = IF call[c].app \in Resubmit THEN "RESUBMITTED" ELSE "SUBMITTED"
  /\ Write(c, [call[c] EXCEPT !.op = "seller", !.app = None])
  /\ UNCHANGED <<seller, terms, vetted>>

SkipSeller(s) == s   \* mutation: the seller's own status is left
UnderReview(s) == "UNDER_REVIEW"

WriteSeller(c) ==
  /\ call[c].op = "seller"
  /\ seller' = UnderReview(seller)
  /\ Write(c, Idle)
  /\ UNCHANGED <<app, terms, vetted>>

-----------------------------------------------------------------------------
(* reviewApplication: of any open application, submitted or not.             *)

ReadReview(c) == Open(app) /\ \E d \in Decision : Begin(c, "review", d)

AppAfter(d) == CASE d = "APPROVE" -> "APPROVED" [] d = "REJECT" -> "REJECTED" [] OTHER -> d
SellerAfter(d) == CASE d = "APPROVE" -> "APPROVED" [] d = "REJECT" -> "REJECTED" [] OTHER -> "PENDING"

CommitReview(c) ==
  /\ call[c].op = "review"
  /\ seller' = SellerAfter(call[c].to)
  /\ app' = AppAfter(call[c].to)
  /\ vetted' = IF call[c].to = "APPROVE" THEN "approved" ELSE vetted
  /\ Write(c, Idle)
  /\ UNCHANGED terms

-----------------------------------------------------------------------------
(* activateSeller, adminSetSellerStatus *)

Approved(s) == s = "APPROVED"

ReadActivate(c) == Approved(seller) /\ Begin(c, "activate", None)

CommitActivate(c) ==
  /\ call[c].op = "activate"
  /\ seller' = "ACTIVE"
  /\ Write(c, Idle)
  /\ UNCHANGED <<app, terms, vetted>>

ReadSwitch(c) == \E to \in Operational \ {seller} : Begin(c, "switch", to)

CommitSwitch(c) ==
  /\ call[c].op = "switch"
  /\ seller' = call[c].to
  /\ vetted' = IF vetted = "no" /\ seller' = "ACTIVE" THEN "switched" ELSE vetted
  /\ Write(c, Idle)
  /\ UNCHANGED <<app, terms>>

-----------------------------------------------------------------------------
Step(c) ==
  \/ ReadProfile(c) \/ CommitProfile(c)
  \/ ReadSeller(c) \/ ReadApplication(c) \/ WriteApplication(c) \/ WriteSeller(c)
  \/ ReadReview(c) \/ CommitReview(c)
  \/ ReadActivate(c) \/ CommitActivate(c)
  \/ ReadSwitch(c) \/ CommitSwitch(c)
  \/ Dies(c)

Next == \E c \in Desk : Step(c)

Spec == Init /\ [][Next]_vars

-----------------------------------------------------------------------------
(* The seller, its application and the calls about them are well formed.     *)
TypeOK ==
  /\ seller \in SellerStatus
  /\ app \in AppStatus
  /\ terms \in BOOLEAN
  /\ vetted \in {"no", "approved", "switched"}
  /\ call \in [Desk -> Call \cup {Idle}]
  /\ torn \in BOOLEAN

(* No submission is between its writes.                                      *)
Quiet == \A c \in Desk : call[c].op # "seller"

Following(a) ==
  CASE a \in {"SUBMITTED", "RESUBMITTED"} -> {"UNDER_REVIEW"}
    [] a \in Closed -> {a}
    [] OTHER -> {"PENDING"}

(* The status of the seller and that of its application, written by          *)
(* submissions, decisions, activations and switches, go together as long as  *)
(* no write was over outdated reads and no submission has died half way.     *)
(* A seller under review thus always has an application to decide on.        *)
SellerFollowsApplication ==
  ~torn /\ Quiet => seller \in Following(app) \cup Operational

(* A decision on an application is final, unless a submission that read it   *)
(* before the decision writes after it.                                      *)
DecisionStands == app' = app \/ app \notin Closed \/ torn'

-----------------------------------------------------------------------------
(* Stated by the code, and not kept by it. *)

(* "The seller cannot operate until a REVIEWER approves and an operator      *)
(* ACTIVATES it."                                                            *)
OperatesOnceApproved == seller = "ACTIVE" => vetted = "approved"
=============================================================================
