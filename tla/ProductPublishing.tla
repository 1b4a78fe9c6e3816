------------------------- MODULE ProductPublishing -------------------------
(***************************************************************************)
(* ProductPublishingService about one product: the seller drafts, edits,   *)
(* submits and archives it, the staff approves or rejects it.              *)
(*                                                                         *)
(* Every call checks what it has read outside the transaction that writes  *)
(* the product by id.  Only an active seller may author; the seller's      *)
(* status belongs to SellerOnboarding.  Every write of the status sets the *)
(* visibility with it, LIVE for APPROVED and HIDDEN for the rest, and adds *)
(* its history row, so neither is kept apart.                              *)
(***************************************************************************)
EXTENDS Naturals

CONSTANTS
  Authors,   \* calls at the same time
  MaxEdits,  \* edits that are modelled
  None       \* no call, no value

VARIABLES
  seller,      \* sellers.status: read here, written by SellerOnboarding
  product,     \* products.status (None: not created)
  content,     \* edits of the product so far
  reviewed,    \* the content that the last approval had read
  req,         \* the call of each author: what it does and has read
  stale        \* a write whose reads no longer held

productVars == <<product, content, reviewed>>
vars == <<seller, productVars, req, stale>>

ProductStatus == {"DRAFT", "PENDING_REVIEW", "APPROVED", "REJECTED", "ARCHIVED"}

Idle == [op |-> "idle", product |-> None, content |-> 0]

Init ==
  /\ product = None
  /\ content = 0
  /\ reviewed = 0
  /\ req = [a \in Authors |-> Idle]
  /\ stale = FALSE

Read(a, op) ==
  /\ req[a] = Idle
  /\ req' = [req EXCEPT ![a] = [op |-> op, product |-> product, content |-> content]]
  /\ UNCHANGED <<seller, productVars, stale>>

End(a) == req' = [req EXCEPT ![a] = Idle]

Drop(a) == req[a] # Idle /\ End(a) /\ UNCHANGED <<seller, productVars, stale>>

Changed(a) == product # req[a].product \/ content # req[a].content

Commit(a, op, to) ==
  /\ req[a].op = op
  /\ product' = to
  /\ stale' = (stale \/ Changed(a))
  /\ End(a)
  /\ UNCHANGED seller

AnySeller == TRUE   \* mutation: of a seller in any status
ActiveSeller == seller = "ACTIVE"

-----------------------------------------------------------------------------
(* createDraft, updateDraft, submitForReview, archiveMine *)

ReadCreateAgain(a) == ActiveSeller /\ Read(a, "create")   \* mutation: over a product that exists
ReadCreate(a) == ActiveSeller /\ product = None /\ Read(a, "create")

CommitCreate(a) ==
  /\ product = None
  /\ Commit(a, "create", "DRAFT")
  /\ UNCHANGED <<content, reviewed>>

EditableOrSold == product \in {"DRAFT", "REJECTED", "APPROVED"}   \* mutation: and a published one
Editable == product \in {"DRAFT", "REJECTED"}

ReadEdit(a) == ActiveSeller /\ Editable /\ content < MaxEdits /\ Read(a, "edit")

CommitEdit(a) ==
  /\ req[a].op = "edit"
  /\ content < MaxEdits
  /\ content' = content + 1
  /\ stale' = (stale \/ Changed(a))
  /\ End(a)
  /\ UNCHANGED <<seller, product, reviewed>>

ReadSubmit(a) == ActiveSeller /\ Editable /\ Read(a, "submit")

CommitSubmit(a) ==
  /\ Commit(a, "submit", "PENDING_REVIEW")
  /\ UNCHANGED <<content, reviewed>>

ArchivableOrSold ==   \* mutation: and a published one
  product \in {"DRAFT", "REJECTED", "PENDING_REVIEW", "APPROVED"}
Archivable == product \in {"DRAFT", "REJECTED", "PENDING_REVIEW"}

ReadArchive(a) == ActiveSeller /\ Archivable /\ Read(a, "archive")

CommitArchive(a) ==
  /\ Commit(a, "archive", "ARCHIVED")
  /\ UNCHANGED <<content, reviewed>>

-----------------------------------------------------------------------------
(* approve, reject *)

UnderReview == product = "PENDING_REVIEW"

ReadApprove(a) == UnderReview /\ Read(a, "approve")

CommitApprove(a) ==
  /\ Commit(a, "approve", "APPROVED")
  /\ reviewed' = req[a].content
  /\ UNCHANGED content

ReadReject(a) == UnderReview /\ Read(a, "reject")

CommitReject(a) ==
  /\ Commit(a, "reject", "REJECTED")
  /\ UNCHANGED <<content, reviewed>>

-----------------------------------------------------------------------------
Step(a) ==
  \/ ReadCreate(a) \/ CommitCreate(a)
  \/ ReadEdit(a) \/ CommitEdit(a)
  \/ ReadSubmit(a) \/ CommitSubmit(a)
  \/ ReadArchive(a) \/ CommitArchive(a)
  \/ ReadApprove(a) \/ CommitApprove(a)
  \/ ReadReject(a) \/ CommitReject(a)
  \/ Drop(a)

Next == \E a \in Authors : Step(a)

-----------------------------------------------------------------------------
(* The product and the calls about it are well formed.                       *)
TypeOK ==
  /\ product \in ProductStatus \cup {None}
  /\ content \in 0 .. MaxEdits
  /\ reviewed \in 0 .. content
  /\ \A a \in Authors :
       \/ req[a] = Idle
       \/ /\ req[a].op \in {"create", "edit", "submit", "archive", "approve", "reject"}
          /\ req[a].op = "create" <=> req[a].product = None
          /\ req[a].content <= content
  /\ stale \in BOOLEAN

(* A product is on sale with the content that the staff has approved, unless *)
(* a write was over outdated reads: an edit that was under way during the    *)
(* approval changes what is on sale.                                         *)
OnSaleAsReviewed == ~stale /\ product = "APPROVED" => content = reviewed

(* A published or archived product keeps its status, unless a call that read *)
(* it before writes after it.                                                *)
PublicationStands ==
  product' = product \/ product \notin {"APPROVED", "ARCHIVED"} \/ stale'
=============================================================================
