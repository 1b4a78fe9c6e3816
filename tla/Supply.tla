------------------------------- MODULE Supply -------------------------------
(***************************************************************************)
(* A seller from its registration to its products on sale: its onboarding  *)
(* and its catalogue, which share the seller's status.  The owner, the     *)
(* reviewers, the operators and the catalogue staff call both at any time; *)
(* at most MaxBusy calls are under way together.                           *)
(***************************************************************************)
EXTENDS Naturals, FiniteSets

CONSTANTS Desk, Authors, MaxEdits, MaxBusy, None

VARIABLES
  seller, app, terms, vetted, call, torn,
  product, content, reviewed, req, stale

Onboarding == INSTANCE SellerOnboarding
Publishing == INSTANCE ProductPublishing

vars == <<seller, app, terms, vetted, call, torn,
          product, content, reviewed, req, stale>>

Busy == Cardinality({c \in Desk : call[c] # Onboarding!Idle})
        + Cardinality({a \in Authors : req[a] # Publishing!Idle})

Init == Onboarding!Init /\ Publishing!Init

Next ==
  /\ \/ Onboarding!Next /\ UNCHANGED <<product, content, reviewed, req, stale>>
     \/ Publishing!Next /\ UNCHANGED <<app, terms, vetted, call, torn>>
  /\ Busy' <= MaxBusy

Spec == Init /\ [][Next]_vars

-----------------------------------------------------------------------------
(* The seller, its application and the calls about them are well formed.     *)
SellerTypeOK == Onboarding!TypeOK

(* The product and the calls about it are well formed.                       *)
ProductTypeOK == Publishing!TypeOK

(* The seller's status goes with its application's, unless a write was over  *)
(* outdated reads or a submission died half way.                             *)
SellerFollowsApplication == Onboarding!SellerFollowsApplication

(* A decision on an application is final, with the same exception.           *)
DecisionStands == Onboarding!DecisionStands

(* What is on sale is what the staff has approved, unless a write was over   *)
(* outdated reads.                                                           *)
OnSaleAsReviewed == Publishing!OnSaleAsReviewed

(* A published or archived product stays so, with the same exception.        *)
PublicationStands == Publishing!PublicationStands

(* There is a product only of a seller whom a reviewer has approved or an    *)
(* operator has switched on, however the calls about the two overlap.        *)
CatalogueIsVetted == product # None => vetted # "no"

(* Stated by the code, and not kept by it: see SellerOnboarding.             *)
OperatesOnceApproved == Onboarding!OperatesOnceApproved
=============================================================================
