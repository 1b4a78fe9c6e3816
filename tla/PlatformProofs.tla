--------------------------- MODULE PlatformProofs ---------------------------
(***************************************************************************)
(* The supply of products and the courier of a replacement, for any number *)
(* of calls at the same time, of edits, assignments and payouts; the       *)
(* checkout page, the landing shop and the boards of the console, for any  *)
(* number of calls under way; and what follows of all the pages and of the *)
(* reports, with the lemmas of StorefrontProofs.                           *)
(* The calls of the back office check what they have read and write by id: *)
(* the invariants say what a call still knows when it writes, and how      *)
(* long.  Those of a page say what an answer is still good for when it     *)
(* comes.                                                                  *)
(***************************************************************************)
EXTENDS StorefrontProofs

-----------------------------------------------------------------------------
(* Onboarding *)

SeatedCall ==
  [op : {"profile", "read", "app", "seller", "review", "activate", "switch"},
   app : Supply!Onboarding!AppStatus \cup {None},
   to : Supply!Onboarding!Decision \cup Supply!Onboarding!Operational \cup Supply!Onboarding!Terms \cup {None},
   held : {TRUE, FALSE}]

DeskCall == {Supply!Onboarding!Idle} \cup SeatedCall

SellerTypes ==
  /\ seller \in Supply!Onboarding!SellerStatus
  /\ app \in Supply!Onboarding!AppStatus
  /\ terms \in BOOLEAN
  /\ vetted \in {"no", "approved", "switched"}
  /\ call \in [Desk -> DeskCall]
  /\ torn \in BOOLEAN

(* What a call has read is so until a status is written, and that the seller *)
(* was vetted is so for good.                                                *)
KnowsSeller(x) ==
  /\ x.op = "review" => x.to \in Supply!Onboarding!Decision
  /\ x.op = "switch" => x.to \in Supply!Onboarding!Operational
  /\ x.op = "activate" => vetted # "no"
  /\ x.held => /\ x.op = "seller" => app \in {"SUBMITTED", "RESUBMITTED"}
               /\ x.op \in {"app", "review"} => app \notin Supply!Onboarding!Closed

SellerInv ==
  /\ SellerTypes
  /\ \A c \in Desk : KnowsSeller(call[c])
  /\ seller \in {"APPROVED", "ACTIVE"} => vetted # "no"
  /\ SellerFollowsApplication

LEMMA SellerInit == Supply!Onboarding!Init => SellerInv
  <1> SUFFICES ASSUME Supply!Onboarding!Init PROVE SellerInv
    OBVIOUS
  <1>1. SellerTypes
    BY DEF Supply!Onboarding!Init, SellerTypes, DeskCall, SeatedCall, Supply!Onboarding!SellerStatus, Supply!Onboarding!AppStatus
  <1>2. \A c \in Desk : KnowsSeller(call[c])
    BY DEF Supply!Onboarding!Init, KnowsSeller, Supply!Onboarding!Idle
  <1>3. SellerFollowsApplication
    BY DEF Supply!Onboarding!Init, SellerFollowsApplication, Supply!SellerFollowsApplication,
           Supply!Onboarding!SellerFollowsApplication, Supply!Onboarding!Following, Supply!Onboarding!Closed
  <1> QED
    BY <1>1, <1>2, <1>3 DEF SellerInv, Supply!Onboarding!Init

(* Reads, and calls that end without a status written: a submission that     *)
(* dies half way is on record.                                               *)
LEMMA SellerReads ==
  ASSUME SellerInv, NEW c \in Desk, NEW x \in DeskCall, call' = [call EXCEPT ![c] = x], KnowsSeller(x),
         UNCHANGED <<seller, app, vetted>>, terms' \in BOOLEAN, torn' \in BOOLEAN, torn => torn',
         ~torn' => call[c].op # "seller"
  PROVE  SellerInv'
  <1>0. SellerTypes
    BY DEF SellerInv
  <1>1. call' \in [Desk -> DeskCall] /\ \A d \in Desk : call'[d] = IF d = c THEN x ELSE call[d]
    BY <1>0 DEF SellerTypes
  <1>2. SellerTypes'
    BY <1>0, <1>1 DEF SellerTypes, DeskCall, SeatedCall, Supply!Onboarding!Idle, Supply!Onboarding!AppStatus,
       Supply!Onboarding!SellerStatus, Supply!Onboarding!Decision, Supply!Onboarding!Operational, Supply!Onboarding!Terms
  <1>3. \A d \in Desk : KnowsSeller(call[d])'
    BY <1>1 DEF SellerInv, KnowsSeller, Supply!Onboarding!Decision, Supply!Onboarding!Operational,
       Supply!Onboarding!Closed
  <1>4. ~torn' /\ Supply!Onboarding!Quiet' => ~torn /\ Supply!Onboarding!Quiet
    BY <1>1 DEF Supply!Onboarding!Quiet
  <1>5. SellerFollowsApplication'
    BY <1>4 DEF SellerInv, SellerFollowsApplication, Supply!SellerFollowsApplication,
       Supply!Onboarding!SellerFollowsApplication, Supply!Onboarding!Following, Supply!Onboarding!Closed,
       Supply!Onboarding!Operational
  <1> QED
    BY <1>2, <1>3, <1>5 DEF SellerInv

(* After a write of a status only its own call holds what it has read.       *)
LEMMA SellerWrites ==
  ASSUME SellerInv, NEW c \in Desk, NEW x \in DeskCall, Supply!Onboarding!Write(c, x), KnowsSeller(x)',
         seller' \in Supply!Onboarding!SellerStatus, app' \in Supply!Onboarding!AppStatus, terms' = terms,
         vetted' \in {"no", "approved", "switched"}, vetted # "no" => vetted' # "no",
         seller' \in {"APPROVED", "ACTIVE"} => vetted' # "no",
         SellerFollowsApplication'
  PROVE  SellerInv'
  <1>0. SellerTypes
    BY DEF SellerInv
  <1>1. call' = [d \in Desk |-> IF d = c THEN x ELSE
                                IF call[d] = Supply!Onboarding!Idle THEN Supply!Onboarding!Idle
                                ELSE [call[d] EXCEPT !.held = FALSE]]
    BY DEF Supply!Onboarding!Write
  <1>2. torn' \in BOOLEAN
    BY Zenon DEF Supply!Onboarding!Write
  <1>3. ASSUME NEW d \in Desk PROVE call'[d] \in DeskCall /\ KnowsSeller(call[d])'
    <2>1. CASE d = c
      BY <1>1, <2>1
    <2>2. CASE d # c /\ call[d] = Supply!Onboarding!Idle
      BY <1>1, <2>2 DEF DeskCall, SeatedCall, KnowsSeller, Supply!Onboarding!Idle
    <2>3. CASE d # c /\ call[d] # Supply!Onboarding!Idle
      <3>1. call'[d] = [call[d] EXCEPT !.held = FALSE] /\ call[d] \in DeskCall \ {Supply!Onboarding!Idle}
        BY <1>0, <1>1, <2>3 DEF SellerTypes
      <3>2. /\ call'[d] \in DeskCall /\ ~call'[d].held
            /\ call'[d].op = call[d].op /\ call'[d].to = call[d].to
        BY <3>1 DEF DeskCall, SeatedCall, SeatedCall
      <3>3. KnowsSeller(call[d])
        BY DEF SellerInv
      <3> QED
        BY <3>2, <3>3 DEF KnowsSeller, Supply!Onboarding!Decision, Supply!Onboarding!Operational
    <2> QED
      BY <2>1, <2>2, <2>3
  <1>4. SellerTypes'
    <2>1. call' \in [Desk -> DeskCall]
      BY <1>1, <1>3
    <2> QED
      BY <1>0, <1>2, <2>1 DEF SellerTypes, DeskCall, SeatedCall, Supply!Onboarding!Idle, Supply!Onboarding!AppStatus,
         Supply!Onboarding!SellerStatus, Supply!Onboarding!Decision, Supply!Onboarding!Operational,
         Supply!Onboarding!Terms
  <1> QED
    BY <1>3, <1>4 DEF SellerInv

(* What a call that reads the seller and its application then knows.        *)
LEMMA SellerBegins ==
  ASSUME SellerInv, NEW c \in Desk, NEW op \in {"profile", "review", "activate", "switch"},
         NEW to \in Supply!Onboarding!Decision \cup Supply!Onboarding!Operational \cup Supply!Onboarding!Terms \cup {None},
         Supply!Onboarding!Begin(c, op, to),
         op = "review" => to \in Supply!Onboarding!Decision /\ app \notin Supply!Onboarding!Closed,
         op = "switch" => to \in Supply!Onboarding!Operational,
         op = "activate" => vetted # "no"
  PROVE  SellerInv'
  <1>0. SellerTypes
    BY DEF SellerInv
  <1>1. PICK x : x = [op |-> op, app |-> None, to |-> to, held |-> TRUE]
    OBVIOUS
  <1>2. x \in DeskCall /\ KnowsSeller(x)
    BY <1>0, <1>1 DEF DeskCall, SeatedCall, SellerTypes, KnowsSeller
  <1>3. call' = [call EXCEPT ![c] = x] /\ UNCHANGED <<seller, app, terms, vetted, torn>>
    BY <1>1 DEF Supply!Onboarding!Begin, Supply!Onboarding!sellerVars
  <1>4. call[c].op # "seller"
    BY DEF Supply!Onboarding!Begin, Supply!Onboarding!Idle
  <1> QED
    BY <1>0, <1>2, <1>3, <1>4, SellerReads DEF SellerTypes

LEMMA SellerRead ==
  ASSUME SellerInv, NEW c \in Desk,
         \/ Supply!Onboarding!ReadProfile(c) \/ Supply!Onboarding!ReadReview(c)
         \/ Supply!Onboarding!ReadActivate(c) \/ Supply!Onboarding!ReadSwitch(c)
  PROVE  SellerInv'
  <1>1. CASE Supply!Onboarding!ReadProfile(c)
    BY <1>1, SellerBegins DEF Supply!Onboarding!ReadProfile
  <1>2. CASE Supply!Onboarding!ReadReview(c)
    BY <1>2, SellerBegins DEF Supply!Onboarding!ReadReview, Supply!Onboarding!Open
  <1>3. CASE Supply!Onboarding!ReadActivate(c)
    BY <1>3, SellerBegins DEF Supply!Onboarding!ReadActivate, Supply!Onboarding!Approved, SellerInv
  <1>4. CASE Supply!Onboarding!ReadSwitch(c)
    BY <1>4, SellerBegins DEF Supply!Onboarding!ReadSwitch
  <1> QED
    BY <1>1, <1>2, <1>3, <1>4

(* The steps of a call that write no status. *)
LEMMA SellerGoesOn ==
  ASSUME SellerInv, NEW c \in Desk,
         \/ Supply!Onboarding!CommitProfile(c) \/ Supply!Onboarding!Dies(c)
         \/ Supply!Onboarding!ReadSeller(c) \/ Supply!Onboarding!ReadApplication(c)
  PROVE  SellerInv'
  <1>0. SellerTypes /\ call[c] \in DeskCall
    BY DEF SellerInv, SellerTypes
  <1>i. Supply!Onboarding!Idle \in DeskCall /\ KnowsSeller(Supply!Onboarding!Idle)
    BY DEF DeskCall, SeatedCall, KnowsSeller, Supply!Onboarding!Idle
  <1>1. CASE Supply!Onboarding!CommitProfile(c)
    <2>1. terms' \in BOOLEAN
      BY <1>1, Zenon DEF Supply!Onboarding!CommitProfile
    <2>2. call' = [call EXCEPT ![c] = Supply!Onboarding!Idle] /\ call[c].op # "seller"
          /\ UNCHANGED <<seller, app, vetted, torn>>
      BY <1>1 DEF Supply!Onboarding!CommitProfile, Supply!Onboarding!End
    <2> QED
      BY <1>0, <1>i, <2>1, <2>2, SellerReads DEF SellerTypes
  <1>2. CASE Supply!Onboarding!Dies(c)
    <2>1. torn' = (torn \/ call[c].op = "seller")
      BY <1>2 DEF Supply!Onboarding!Dies
    <2>2. torn' \in BOOLEAN /\ (torn => torn') /\ (~torn' => call[c].op # "seller")
      BY <2>1, Zenon
    <2>3. call' = [call EXCEPT ![c] = Supply!Onboarding!Idle] /\ UNCHANGED <<seller, app, terms, vetted>>
      BY <1>2 DEF Supply!Onboarding!Dies, Supply!Onboarding!End, Supply!Onboarding!sellerVars
    <2> QED
      BY <1>0, <1>i, <2>2, <2>3, SellerReads DEF SellerTypes
  <1>3. CASE Supply!Onboarding!ReadSeller(c)
    <2>1. PICK x : x = [Supply!Onboarding!Idle EXCEPT !.op = "read"]
      OBVIOUS
    <2>2. x \in DeskCall /\ KnowsSeller(x)
      BY <2>1 DEF DeskCall, SeatedCall, KnowsSeller, Supply!Onboarding!Idle
    <2>3. call' = [call EXCEPT ![c] = x] /\ UNCHANGED <<seller, app, terms, vetted, torn>>
      BY <1>3, <2>1 DEF Supply!Onboarding!ReadSeller, Supply!Onboarding!sellerVars
    <2>4. call[c].op # "seller"
      BY <1>3 DEF Supply!Onboarding!ReadSeller, Supply!Onboarding!Idle
    <2> QED
      BY <1>0, <2>2, <2>3, <2>4, SellerReads DEF SellerTypes
  <1>4. CASE Supply!Onboarding!ReadApplication(c)
    <2>1. PICK x : x = [call[c] EXCEPT !.op = "app", !.app = app]
      OBVIOUS
    <2>2. app \notin Supply!Onboarding!Closed /\ call[c].op = "read"
      BY <1>4 DEF Supply!Onboarding!ReadApplication, Supply!Onboarding!Open
    <2>3. call[c] \in SeatedCall
      BY <1>0, <2>2 DEF DeskCall, Supply!Onboarding!Idle
    <2>5. x \in SeatedCall /\ x.op = "app"
      BY <1>0, <2>1, <2>3 DEF SeatedCall, SellerTypes
    <2>6. x \in DeskCall /\ KnowsSeller(x)
      BY <2>2, <2>5 DEF DeskCall, KnowsSeller
    <2>4. call' = [call EXCEPT ![c] = x] /\ UNCHANGED <<seller, app, terms, vetted, torn>>
      BY <1>0, <1>4, <2>1 DEF Supply!Onboarding!ReadApplication, Supply!Onboarding!sellerVars, SellerTypes
    <2> QED
      BY <1>0, <2>2, <2>4, <2>6, SellerReads DEF SellerTypes
  <1> QED
    BY <1>1, <1>2, <1>3, <1>4

LEMMA SellerSubmits ==
  ASSUME SellerInv, NEW c \in Desk,
         Supply!Onboarding!WriteApplication(c) \/ Supply!Onboarding!WriteSeller(c)
  PROVE  SellerInv'
  <1>0. SellerTypes /\ call[c] \in DeskCall /\ KnowsSeller(call[c])
    BY DEF SellerInv, SellerTypes
  <1>1. CASE Supply!Onboarding!WriteApplication(c)
    <2>1. PICK x : x = [call[c] EXCEPT !.op = "seller", !.app = None]
      OBVIOUS
    <2>2. app' \in {"SUBMITTED", "RESUBMITTED"} /\ Supply!Onboarding!Write(c, x) /\ call[c].op = "app"
          /\ UNCHANGED <<seller, terms, vetted>>
      BY <1>1, <2>1 DEF Supply!Onboarding!WriteApplication
    <2>3. x \in DeskCall /\ x.op = "seller"
      <3>1. call[c] \in SeatedCall
        BY <1>0, <2>2 DEF DeskCall, Supply!Onboarding!Idle
      <3> QED
        BY <2>1, <3>1 DEF DeskCall, SeatedCall
    <2>4. KnowsSeller(x)'
      BY <2>2, <2>3 DEF KnowsSeller
    <2>5. ~Supply!Onboarding!Quiet'
      BY <2>2, <2>3 DEF Supply!Onboarding!Quiet, Supply!Onboarding!Write
    <2>6. SellerFollowsApplication'
      BY <2>5 DEF SellerFollowsApplication, Supply!SellerFollowsApplication,
         Supply!Onboarding!SellerFollowsApplication
    <2> QED
      BY <1>0, <2>2, <2>3, <2>4, <2>6, SellerWrites DEF SellerTypes, SellerInv, Supply!Onboarding!AppStatus
  <1>2. CASE Supply!Onboarding!WriteSeller(c)
    <2>1. /\ seller' = "UNDER_REVIEW" /\ Supply!Onboarding!Write(c, Supply!Onboarding!Idle)
          /\ call[c].op = "seller" /\ UNCHANGED <<app, terms, vetted>>
      BY <1>2 DEF Supply!Onboarding!WriteSeller, Supply!Onboarding!UnderReview
    <2>2. torn' = (torn \/ ~call[c].held)
      BY <2>1 DEF Supply!Onboarding!Write
    <2>3. ~torn' => call[c].held
      BY <2>2, Zenon
    <2>4. SellerFollowsApplication'
      <3>1. ASSUME ~torn' PROVE seller' \in Supply!Onboarding!Following(app')
        <4>1. app' \in {"SUBMITTED", "RESUBMITTED"}
          BY <1>0, <2>1, <2>3, <3>1 DEF KnowsSeller
        <4> QED
          BY <2>1, <4>1 DEF Supply!Onboarding!Following, Supply!Onboarding!Closed
      <3> QED
        BY <3>1 DEF SellerFollowsApplication, Supply!SellerFollowsApplication,
           Supply!Onboarding!SellerFollowsApplication, Supply!Onboarding!Following
    <2>5. Supply!Onboarding!Idle \in DeskCall /\ KnowsSeller(Supply!Onboarding!Idle)'
      BY DEF DeskCall, SeatedCall, KnowsSeller, Supply!Onboarding!Idle
    <2> QED
      BY <1>0, <2>1, <2>4, <2>5, SellerWrites DEF SellerTypes, Supply!Onboarding!SellerStatus
  <1> QED
    BY <1>1, <1>2

LEMMA SellerDecided ==
  ASSUME SellerInv, NEW c \in Desk,
         \/ Supply!Onboarding!CommitReview(c) \/ Supply!Onboarding!CommitActivate(c)
         \/ Supply!Onboarding!CommitSwitch(c)
  PROVE  SellerInv'
  <1>0. SellerTypes /\ call[c] \in DeskCall /\ KnowsSeller(call[c])
    BY DEF SellerInv, SellerTypes
  <1>i. Supply!Onboarding!Idle \in DeskCall /\ KnowsSeller(Supply!Onboarding!Idle)'
    BY DEF DeskCall, SeatedCall, KnowsSeller, Supply!Onboarding!Idle
  <1>1. CASE Supply!Onboarding!CommitReview(c)
    <2>1. PICK d \in Supply!Onboarding!Decision : d = call[c].to
      BY <1>0, <1>1 DEF Supply!Onboarding!CommitReview, KnowsSeller
    <2>2. /\ seller' = Supply!Onboarding!SellerAfter(d) /\ app' = Supply!Onboarding!AppAfter(d)
          /\ vetted' = IF d = "APPROVE" THEN "approved" ELSE vetted
          /\ Supply!Onboarding!Write(c, Supply!Onboarding!Idle) /\ terms' = terms
      BY <1>1, <2>1 DEF Supply!Onboarding!CommitReview
    <2>3. /\ seller' \in {"APPROVED", "REJECTED", "PENDING"} /\ app' \in Supply!Onboarding!AppStatus
          /\ seller' = "APPROVED" => d = "APPROVE"
          /\ seller' \in Supply!Onboarding!Following(app')
      BY <2>2 DEF Supply!Onboarding!SellerAfter, Supply!Onboarding!AppAfter, Supply!Onboarding!Decision,
         Supply!Onboarding!AppStatus, Supply!Onboarding!Following, Supply!Onboarding!Closed
    <2>4. SellerFollowsApplication'
      BY <2>3 DEF SellerFollowsApplication, Supply!SellerFollowsApplication,
         Supply!Onboarding!SellerFollowsApplication, Supply!Onboarding!Following
    <2> QED
      BY <1>0, <1>i, <2>2, <2>3, <2>4, SellerWrites DEF SellerTypes, Supply!Onboarding!SellerStatus
  <1>2. ASSUME Supply!Onboarding!CommitActivate(c) \/ Supply!Onboarding!CommitSwitch(c)
        PROVE  SellerInv'
    <2>1. /\ seller' \in Supply!Onboarding!Operational /\ Supply!Onboarding!Write(c, Supply!Onboarding!Idle)
          /\ UNCHANGED <<app, terms>>
          /\ vetted' \in {"no", "approved", "switched"} /\ (vetted # "no" => vetted' # "no")
          /\ seller' \in {"APPROVED", "ACTIVE"} => vetted' # "no"
      BY <1>0, <1>2 DEF Supply!Onboarding!CommitActivate, Supply!Onboarding!CommitSwitch, KnowsSeller,
         Supply!Onboarding!Operational, SellerTypes
    <2>2. SellerFollowsApplication'
      BY <2>1 DEF SellerFollowsApplication, Supply!SellerFollowsApplication,
         Supply!Onboarding!SellerFollowsApplication, Supply!Onboarding!Operational
    <2> QED
      BY <1>0, <1>i, <2>1, <2>2, SellerWrites DEF SellerTypes, Supply!Onboarding!SellerStatus,
         Supply!Onboarding!Operational
  <1> QED
    BY <1>1, <1>2

LEMMA SellerStep ==
  ASSUME SellerInv, Supply!Onboarding!Next
  PROVE  SellerInv'
  BY SellerRead, SellerGoesOn, SellerSubmits, SellerDecided
     DEF Supply!Onboarding!Next, Supply!Onboarding!Step

(* A call that writes a decided application has not held what it read.      *)
LEMMA DecisionKept ==
  ASSUME SellerInv, Supply!Onboarding!Next
  PROVE  Supply!DecisionStands
  <1>1. PICK c \in Desk : Supply!Onboarding!Step(c)
    BY DEF Supply!Onboarding!Next
  <1>2. CASE Supply!Onboarding!WriteApplication(c) \/ Supply!Onboarding!CommitReview(c)
    <2>1. torn' = (torn \/ ~call[c].held) /\ call[c].op \in {"app", "review"}
      BY <1>2 DEF Supply!Onboarding!WriteApplication, Supply!Onboarding!CommitReview, Supply!Onboarding!Write
    <2>2. ~torn' => call[c].held
      BY <2>1, Zenon
    <2> QED
      BY <2>1, <2>2 DEF SellerInv, KnowsSeller, Supply!DecisionStands, Supply!Onboarding!DecisionStands
  <1>3. CASE app' = app
    BY <1>3 DEF Supply!DecisionStands, Supply!Onboarding!DecisionStands
  <1> QED
    BY <1>1, <1>2, <1>3
       DEF Supply!Onboarding!Step, Supply!Onboarding!ReadProfile, Supply!Onboarding!CommitProfile,
           Supply!Onboarding!ReadSeller, Supply!Onboarding!ReadApplication, Supply!Onboarding!WriteSeller,
           Supply!Onboarding!ReadReview, Supply!Onboarding!ReadActivate, Supply!Onboarding!CommitActivate,
           Supply!Onboarding!ReadSwitch, Supply!Onboarding!CommitSwitch, Supply!Onboarding!Dies,
           Supply!Onboarding!Begin, Supply!Onboarding!sellerVars
-----------------------------------------------------------------------------
(* Publishing *)

AuthorCall ==
  [op : {"create", "edit", "submit", "archive", "approve", "reject"},
   product : Supply!Publishing!ProductStatus \cup {None}, content : Nat]

ProductTypes ==
  /\ product \in Supply!Publishing!ProductStatus \cup {None}
  /\ content \in 0 .. MaxEdits
  /\ reviewed \in 0 .. content
  /\ req \in [Authors -> AuthorCall \cup {Supply!Publishing!Idle}]
  /\ stale \in BOOLEAN

(* A call has checked the status that it has read; a seller who could read   *)
(* was vetted.                                                               *)
KnowsProduct(x) ==
  /\ x.op = "create" <=> x.product = None
  /\ x.op \in {"edit", "submit"} => x.product \in {"DRAFT", "REJECTED"}
  /\ x.op = "archive" => x.product \in {"DRAFT", "REJECTED", "PENDING_REVIEW"}
  /\ x.op \in {"approve", "reject"} => x.product = "PENDING_REVIEW"
  /\ x.content <= content
  /\ vetted # "no"

ProductInv ==
  /\ ProductTypes
  /\ \A a \in Authors : req[a] # Supply!Publishing!Idle => KnowsProduct(req[a])
  /\ Supply!CatalogueIsVetted
  /\ Supply!OnSaleAsReviewed

LEMMA ProductInit == Supply!Publishing!Init => ProductInv
  <1> SUFFICES ASSUME Supply!Publishing!Init PROVE ProductInv
    OBVIOUS
  <1>1. ProductTypes
    <2>1. stale \in BOOLEAN
      BY DEF Supply!Publishing!Init
    <2>2. content \in 0 .. MaxEdits /\ reviewed \in 0 .. content
      BY PlatformAssumption DEF Supply!Publishing!Init
    <2> QED
      BY <2>1, <2>2 DEF Supply!Publishing!Init, ProductTypes
  <1>2. \A a \in Authors : req[a] = Supply!Publishing!Idle
    BY DEF Supply!Publishing!Init
  <1>3. Supply!CatalogueIsVetted /\ Supply!OnSaleAsReviewed
    BY PlatformAssumption DEF Supply!Publishing!Init, Supply!CatalogueIsVetted, Supply!OnSaleAsReviewed,
       Supply!Publishing!OnSaleAsReviewed
  <1> QED
    BY <1>1, <1>2, <1>3 DEF ProductInv

LEMMA ProductCalls ==
  ASSUME ProductInv, NEW a \in Authors, NEW x \in AuthorCall \cup {Supply!Publishing!Idle},
         req' = [req EXCEPT ![a] = x], x # Supply!Publishing!Idle => KnowsProduct(x)',
         product' \in Supply!Publishing!ProductStatus \cup {None}, content' \in 0 .. MaxEdits,
         reviewed' \in 0 .. content', stale' \in BOOLEAN, content <= content', vetted' = vetted,
         Supply!CatalogueIsVetted', Supply!OnSaleAsReviewed'
  PROVE  ProductInv'
  <1>0. ProductTypes
    BY DEF ProductInv
  <1>1. /\ req' \in [Authors -> AuthorCall \cup {Supply!Publishing!Idle}]
        /\ \A b \in Authors : req'[b] = IF b = a THEN x ELSE req[b]
    BY <1>0 DEF ProductTypes
  <1>2. ProductTypes'
    BY <1>0, <1>1 DEF ProductTypes, AuthorCall, Supply!Publishing!Idle, Supply!Publishing!ProductStatus
  <1>3. ASSUME NEW b \in Authors, req'[b] # Supply!Publishing!Idle PROVE KnowsProduct(req[b])'
    <2>1. CASE b = a
      BY <1>1, <1>3, <2>1
    <2>2. CASE b # a
      <3>1. req'[b] = req[b] /\ KnowsProduct(req[b]) /\ req[b] \in AuthorCall
        BY <1>0, <1>1, <1>3, <2>2 DEF ProductInv, ProductTypes
      <3>2. req[b].content <= content'
        BY <1>0, <3>1 DEF KnowsProduct, AuthorCall, ProductTypes
      <3> QED
        BY <3>1, <3>2 DEF KnowsProduct
    <2> QED
      BY <2>1, <2>2
  <1> QED
    BY <1>2, <1>3 DEF ProductInv, Supply!Publishing!Idle

LEMMA ProductReads ==
  ASSUME ProductInv, NEW a \in Authors, seller \in {"APPROVED", "ACTIVE"} => vetted # "no", vetted' = vetted,
         \/ Supply!Publishing!ReadCreate(a) \/ Supply!Publishing!ReadEdit(a) \/ Supply!Publishing!ReadSubmit(a)
         \/ Supply!Publishing!ReadArchive(a) \/ Supply!Publishing!ReadApprove(a)
         \/ Supply!Publishing!ReadReject(a) \/ Supply!Publishing!Drop(a)
  PROVE  ProductInv'
  <1>0. ProductTypes /\ Supply!CatalogueIsVetted /\ Supply!OnSaleAsReviewed
    BY DEF ProductInv
  <1>1. PICK x \in AuthorCall \cup {Supply!Publishing!Idle} :
          /\ req' = [req EXCEPT ![a] = x] /\ (x # Supply!Publishing!Idle => KnowsProduct(x))
          /\ UNCHANGED <<product, content, reviewed, stale>>
    <2>1. CASE Supply!Publishing!Drop(a)
      BY <2>1 DEF Supply!Publishing!Drop, Supply!Publishing!End, Supply!Publishing!productVars
    <2>2. CASE ~Supply!Publishing!Drop(a)
      <3>1. PICK op \in {"create", "edit", "submit", "archive", "approve", "reject"} :
              /\ Supply!Publishing!Read(a, op)
              /\ op = "create" => product = None
              /\ op \in {"edit", "submit"} => product \in {"DRAFT", "REJECTED"}
              /\ op = "archive" => product \in {"DRAFT", "REJECTED", "PENDING_REVIEW"}
              /\ op \in {"approve", "reject"} => product = "PENDING_REVIEW"
              /\ vetted # "no"
        BY <1>0, <2>2, PlatformAssumption
           DEF Supply!Publishing!ReadCreate, Supply!Publishing!ReadEdit, Supply!Publishing!ReadSubmit,
               Supply!Publishing!ReadArchive, Supply!Publishing!ReadApprove, Supply!Publishing!ReadReject,
               Supply!Publishing!ActiveSeller, Supply!Publishing!Editable, Supply!Publishing!Archivable,
               Supply!Publishing!UnderReview, Supply!CatalogueIsVetted
      <3>2. PICK x : x = [op |-> op, product |-> product, content |-> content]
        OBVIOUS
      <3>3. x \in AuthorCall /\ KnowsProduct(x)
        BY <1>0, <3>1, <3>2, PlatformAssumption DEF AuthorCall, KnowsProduct, ProductTypes
      <3>4. req' = [req EXCEPT ![a] = x] /\ UNCHANGED <<product, content, reviewed, stale>>
        BY <3>1, <3>2 DEF Supply!Publishing!Read, Supply!Publishing!productVars
      <3> QED
        BY <3>3, <3>4
    <2> QED
      BY <2>1, <2>2
  <1>2. Supply!CatalogueIsVetted' /\ Supply!OnSaleAsReviewed'
    BY <1>0, <1>1 DEF Supply!CatalogueIsVetted, Supply!OnSaleAsReviewed, Supply!Publishing!OnSaleAsReviewed
  <1>3. x # Supply!Publishing!Idle => KnowsProduct(x)'
    BY <1>1 DEF KnowsProduct
  <1>4. /\ product' \in Supply!Publishing!ProductStatus \cup {None} /\ content' \in 0 .. MaxEdits
        /\ reviewed' \in 0 .. content' /\ content <= content'
    BY <1>0, <1>1 DEF ProductTypes
  <1>5. stale' \in BOOLEAN
    BY <1>0, <1>1 DEF ProductTypes
  <1> QED
    BY <1>1, <1>2, <1>3, <1>4, <1>5, ProductCalls

LEMMA ProductCommits ==
  ASSUME ProductInv, NEW a \in Authors, vetted' = vetted,
         \/ Supply!Publishing!CommitCreate(a) \/ Supply!Publishing!CommitEdit(a)
         \/ Supply!Publishing!CommitSubmit(a) \/ Supply!Publishing!CommitArchive(a)
         \/ Supply!Publishing!CommitApprove(a) \/ Supply!Publishing!CommitReject(a)
  PROVE  ProductInv' /\ Supply!PublicationStands
  <1>0. ProductTypes /\ Supply!CatalogueIsVetted /\ Supply!OnSaleAsReviewed
    BY DEF ProductInv
  <1>r. PICK x : x = req[a]
    OBVIOUS
  <1>1. x.op # "idle"
    BY <1>r DEF Supply!Publishing!CommitCreate, Supply!Publishing!CommitEdit, Supply!Publishing!CommitSubmit,
       Supply!Publishing!CommitArchive, Supply!Publishing!CommitApprove, Supply!Publishing!CommitReject,
       Supply!Publishing!Commit
  <1>2. x \in AuthorCall /\ KnowsProduct(x)
    BY <1>r, <1>0, <1>1 DEF ProductInv, ProductTypes, Supply!Publishing!Idle
  <1>3. /\ req' = [req EXCEPT ![a] = Supply!Publishing!Idle]
        /\ stale' = (stale \/ Supply!Publishing!Changed(a))
    BY DEF Supply!Publishing!CommitCreate, Supply!Publishing!CommitEdit, Supply!Publishing!CommitSubmit,
       Supply!Publishing!CommitArchive, Supply!Publishing!CommitApprove, Supply!Publishing!CommitReject,
       Supply!Publishing!Commit, Supply!Publishing!End
  <1>4. stale' \in BOOLEAN /\ (~stale' => ~stale /\ ~Supply!Publishing!Changed(a))
    BY <1>3, Zenon
  <1>5. ~stale' => ~stale /\ product = x.product /\ content = x.content
    BY <1>r, <1>4 DEF Supply!Publishing!Changed
  <1>6. /\ product' \in Supply!Publishing!ProductStatus \cup {None} /\ content' \in 0 .. MaxEdits
        /\ reviewed' \in 0 .. content' /\ content <= content' /\ Supply!CatalogueIsVetted'
    <2>1. CASE Supply!Publishing!CommitEdit(a)
      BY <1>0, <2>1, PlatformAssumption DEF Supply!Publishing!CommitEdit, ProductTypes, Supply!CatalogueIsVetted
    <2>2. CASE Supply!Publishing!CommitApprove(a)
      <3>1. reviewed' = x.content /\ product' = "APPROVED" /\ content' = content
        BY <1>r, <2>2 DEF Supply!Publishing!CommitApprove, Supply!Publishing!Commit
      <3>2. x.content \in Nat /\ x.content <= content /\ vetted' # "no"
        BY <1>2 DEF AuthorCall, KnowsProduct
      <3> QED
        BY <1>0, <3>1, <3>2 DEF ProductTypes, Supply!CatalogueIsVetted, Supply!Publishing!ProductStatus
    <2>3. ASSUME \/ Supply!Publishing!CommitCreate(a) \/ Supply!Publishing!CommitSubmit(a)
                 \/ Supply!Publishing!CommitArchive(a) \/ Supply!Publishing!CommitReject(a)
          PROVE  /\ product' \in Supply!Publishing!ProductStatus \cup {None} /\ content' \in 0 .. MaxEdits
                 /\ reviewed' \in 0 .. content' /\ content <= content' /\ Supply!CatalogueIsVetted'
      <3>1. content' = content /\ reviewed' = reviewed /\ product' \in Supply!Publishing!ProductStatus
        BY <2>3 DEF Supply!Publishing!CommitCreate, Supply!Publishing!CommitSubmit,
           Supply!Publishing!CommitArchive, Supply!Publishing!CommitReject, Supply!Publishing!Commit,
           Supply!Publishing!ProductStatus
      <3>2. vetted' # "no"
        BY <1>2 DEF KnowsProduct
      <3> QED
        BY <1>0, <3>1, <3>2 DEF ProductTypes, Supply!CatalogueIsVetted
    <2> QED
      BY <2>1, <2>2, <2>3
  <1>7. Supply!OnSaleAsReviewed'
    <2>1. SUFFICES ASSUME ~stale', product' = "APPROVED" PROVE content' = reviewed'
      BY DEF Supply!OnSaleAsReviewed, Supply!Publishing!OnSaleAsReviewed
    <2>2. CASE Supply!Publishing!CommitEdit(a)
      BY <1>r, <1>2, <1>5, <2>1, <2>2 DEF Supply!Publishing!CommitEdit, KnowsProduct
    <2>3. CASE Supply!Publishing!CommitApprove(a)
      BY <1>r, <1>5, <2>1, <2>3 DEF Supply!Publishing!CommitApprove
    <2> QED
      BY <2>1, <2>2, <2>3
         DEF Supply!Publishing!CommitCreate, Supply!Publishing!CommitSubmit, Supply!Publishing!CommitArchive,
             Supply!Publishing!CommitReject, Supply!Publishing!Commit
  <1>8. ProductInv'
    BY <1>3, <1>4, <1>6, <1>7, ProductCalls
  <1>9. Supply!PublicationStands
    <2>1. product' = product \/ product = None \/ x.op \in {"submit", "archive", "approve", "reject"}
      BY <1>r DEF Supply!Publishing!CommitCreate, Supply!Publishing!CommitEdit, Supply!Publishing!CommitSubmit,
         Supply!Publishing!CommitArchive, Supply!Publishing!CommitApprove, Supply!Publishing!CommitReject,
         Supply!Publishing!Commit
    <2> QED
      BY <1>2, <1>5, <2>1, PlatformAssumption
         DEF KnowsProduct, Supply!PublicationStands, Supply!Publishing!PublicationStands
  <1> QED
    BY <1>8, <1>9
LEMMA ProductStep ==
  ASSUME ProductInv, seller \in {"APPROVED", "ACTIVE"} => vetted # "no", vetted' = vetted, Supply!Publishing!Next
  PROVE  ProductInv' /\ Supply!PublicationStands
  <1>1. PICK a \in Authors : Supply!Publishing!Step(a)
    BY DEF Supply!Publishing!Next
  <1>2. CASE \/ Supply!Publishing!ReadCreate(a) \/ Supply!Publishing!ReadEdit(a) \/ Supply!Publishing!ReadSubmit(a)
             \/ Supply!Publishing!ReadArchive(a) \/ Supply!Publishing!ReadApprove(a)
             \/ Supply!Publishing!ReadReject(a) \/ Supply!Publishing!Drop(a)
    <2>1. product' = product
      BY <1>2 DEF Supply!Publishing!ReadCreate, Supply!Publishing!ReadEdit, Supply!Publishing!ReadSubmit,
         Supply!Publishing!ReadArchive, Supply!Publishing!ReadApprove, Supply!Publishing!ReadReject,
         Supply!Publishing!Drop, Supply!Publishing!Read, Supply!Publishing!productVars
    <2> QED
      BY <1>2, <2>1, ProductReads DEF Supply!PublicationStands, Supply!Publishing!PublicationStands
  <1> QED
    BY <1>1, <1>2, ProductCommits DEF Supply!Publishing!Step

-----------------------------------------------------------------------------
(* The two together *)

SupplyInv == SellerInv /\ ProductInv

LEMMA SellerStays ==
  ASSUME SellerInv, UNCHANGED <<seller, app, terms, vetted, call, torn>>
  PROVE  SellerInv'
  <1>1. SellerTypes'
    BY DEF SellerInv, SellerTypes, DeskCall, SeatedCall, Supply!Onboarding!Idle, Supply!Onboarding!AppStatus,
       Supply!Onboarding!SellerStatus, Supply!Onboarding!Decision, Supply!Onboarding!Operational,
       Supply!Onboarding!Terms
  <1>2. \A c \in Desk : KnowsSeller(call[c])'
    BY DEF SellerInv, KnowsSeller, Supply!Onboarding!Decision, Supply!Onboarding!Operational,
       Supply!Onboarding!Closed
  <1>3. SellerFollowsApplication'
    BY DEF SellerInv, SellerFollowsApplication, Supply!SellerFollowsApplication,
       Supply!Onboarding!SellerFollowsApplication, Supply!Onboarding!Following, Supply!Onboarding!Closed,
       Supply!Onboarding!Operational, Supply!Onboarding!Quiet
  <1> QED
    BY <1>1, <1>2, <1>3 DEF SellerInv

LEMMA ProductStays ==
  ASSUME ProductInv, UNCHANGED <<product, content, reviewed, req, stale>>, vetted # "no" => vetted' # "no"
  PROVE  ProductInv'
  <1>1. ProductTypes'
    BY DEF ProductInv, ProductTypes, AuthorCall, Supply!Publishing!Idle, Supply!Publishing!ProductStatus
  <1>2. \A a \in Authors : req'[a] # Supply!Publishing!Idle => KnowsProduct(req[a])'
    BY DEF ProductInv, KnowsProduct
  <1>3. Supply!CatalogueIsVetted' /\ Supply!OnSaleAsReviewed'
    BY DEF ProductInv, Supply!CatalogueIsVetted, Supply!OnSaleAsReviewed, Supply!Publishing!OnSaleAsReviewed
  <1> QED
    BY <1>1, <1>2, <1>3 DEF ProductInv, Supply!Publishing!Idle

(* Nobody is unvetted again. *)
LEMMA VettedStays ==
  ASSUME Supply!Onboarding!Next
  PROVE  vetted # "no" => vetted' # "no"
  BY DEF Supply!Onboarding!Next, Supply!Onboarding!Step, Supply!Onboarding!ReadProfile,
     Supply!Onboarding!CommitProfile, Supply!Onboarding!ReadSeller, Supply!Onboarding!ReadApplication,
     Supply!Onboarding!WriteApplication, Supply!Onboarding!WriteSeller, Supply!Onboarding!ReadReview,
     Supply!Onboarding!CommitReview, Supply!Onboarding!ReadActivate, Supply!Onboarding!CommitActivate,
     Supply!Onboarding!ReadSwitch, Supply!Onboarding!CommitSwitch, Supply!Onboarding!Dies,
     Supply!Onboarding!Begin, Supply!Onboarding!sellerVars

LEMMA SupplyStep ==
  ASSUME SupplyInv, Supply!Next
  PROVE  SupplyInv' /\ Supply!DecisionStands /\ Supply!PublicationStands
  <1>0. SellerInv /\ ProductInv
    BY DEF SupplyInv
  <1>1. CASE Supply!Onboarding!Next /\ UNCHANGED <<product, content, reviewed, req, stale>>
    <2>1. SellerInv' /\ Supply!DecisionStands
      BY <1>0, <1>1, SellerStep, DecisionKept
    <2>2. ProductInv'
      BY <1>0, <1>1, VettedStays, ProductStays
    <2>3. Supply!PublicationStands
      BY <1>1 DEF Supply!PublicationStands, Supply!Publishing!PublicationStands
    <2> QED
      BY <2>1, <2>2, <2>3 DEF SupplyInv
  <1>2. CASE Supply!Publishing!Next /\ UNCHANGED <<app, terms, vetted, call, torn>>
    <2>1. ProductInv' /\ Supply!PublicationStands
      BY <1>0, <1>2, ProductStep DEF SellerInv
    <2>2. seller' = seller
      BY <1>2 DEF Supply!Publishing!Next, Supply!Publishing!Step, Supply!Publishing!ReadCreate,
         Supply!Publishing!ReadEdit, Supply!Publishing!ReadSubmit, Supply!Publishing!ReadArchive,
         Supply!Publishing!ReadApprove, Supply!Publishing!ReadReject, Supply!Publishing!Drop,
         Supply!Publishing!Read, Supply!Publishing!CommitCreate, Supply!Publishing!CommitEdit,
         Supply!Publishing!CommitSubmit, Supply!Publishing!CommitArchive, Supply!Publishing!CommitApprove,
         Supply!Publishing!CommitReject, Supply!Publishing!Commit
    <2>3. SellerInv'
      BY <1>0, <1>2, <2>2, SellerStays
    <2>4. Supply!DecisionStands
      BY <1>2 DEF Supply!DecisionStands, Supply!Onboarding!DecisionStands
    <2> QED
      BY <2>1, <2>3, <2>4 DEF SupplyInv
  <1> QED
    BY <1>1, <1>2 DEF Supply!Next

-----------------------------------------------------------------------------
(* The courier of a replacement *)

(* What a call has checked, and what it has left at the provider. *)
KnowsTask(x) ==
  /\ x.op = "operator" => /\ <<x.from, x.to>> \in Replacement!OperatorSteps
                          /\ x.to = "COMPLETED" => ~x.occupied
  /\ x.op = "assign" => ~x.occupied
  /\ x.op = "task" => <<x.from, x.to>> \in Replacement!TaskSteps
  /\ x.op = "deliver" => x.from = "DISPATCHED"
  /\ x.op = "waybill" => shipments[x.id] > 0

(* As long as nothing was written over: of a call that is to book a shipment *)
(* there is one, and it is the first to book it.                             *)
Started == {"PICKED_UP", "OUT_FOR_DELIVERY", "DELIVERED", "FAILED", "CANCELLED"}

Booking(r) == replReq[r].op = "book"

Bookings ==
  /\ \A r \in Requests : Booking(r) => shipments[replReq[r].id] = 0 /\ task[replReq[r].id] \in Started
  /\ \A r, q \in Requests : Booking(r) /\ Booking(q) /\ replReq[r].id = replReq[q].id => r = q

Taken == Replacement!Active \cup {"DELIVERED"}

(* One courier takes the replacement and hands it over. *)
Couriers ==
  /\ \A a, b \in Assignments : task[a] \in Taken /\ task[b] \in Taken => a = b
  /\ repl = "COMPLETED" => ~Replacement!Occupied
  /\ repl = "PENDING_DISPATCH" => \A a \in Assignments : task[a] = "NONE"
  /\ \A a \in Assignments : task[a] = "DELIVERED" => repl = "COMPLETED"

Shipments ==
  \A a \in Assignments : shipments[a] <= 1 /\ (shipments[a] > 0 => task[a] \in Started)

Paid == {a \in Assignments : fee[a] = "SETTLED"}

Fees ==
  /\ \A a \in Assignments : fee[a] # "NONE" <=> task[a] = "DELIVERED"
  /\ paid = Cardinality(Paid)

ReplacementInv ==
  /\ Replacement!TypeOK
  /\ \A r \in Requests : KnowsTask(replReq[r])
  /\ \A a \in waybill : shipments[a] > 0
  /\ ~replStale => Bookings /\ Couriers /\ Shipments /\ Fees

LEMMA ReplacementCardinality == \A S : Replacement!Cardinality(S) = Cardinality(S)
  BY Zenon DEF Replacement!Cardinality, Cardinality

LEMMA ReplacementInit == Replacement!Init => ReplacementInv
  <1> SUFFICES ASSUME Replacement!Init PROVE ReplacementInv
    OBVIOUS
  <1>1. Replacement!TypeOK
    <2>1. replReq \in [Requests -> Replacement!Request] /\ replStale \in BOOLEAN
      BY DEF Replacement!Init, Replacement!Request
    <2>2. shipments \in [Assignments -> Nat] /\ paid \in Nat
      BY DEF Replacement!Init
    <2> QED
      BY <2>1, <2>2 DEF Replacement!Init, Replacement!TypeOK, Replacement!ReplacementStatus, Replacement!TaskStatus,
         Replacement!FeeStatus
  <1>2. (\A r \in Requests : KnowsTask(replReq[r])) /\ Bookings
    BY DEF Replacement!Init, KnowsTask, Bookings, Booking, Replacement!Idle
  <1>3. Couriers /\ Shipments
    BY DEF Replacement!Init, Couriers, Shipments, Taken, Replacement!Active, Replacement!PartnerActive
  <1>4. Fees
    <2>1. Paid = {}
      BY DEF Replacement!Init, Paid
    <2> QED
      BY <2>1, FS_EmptySet DEF Replacement!Init, Fees
  <1> QED
    BY <1>1, <1>2, <1>3, <1>4 DEF ReplacementInv, Replacement!Init

(* A call goes on, and what the others know of shipments stays so. *)
LEMMA ReplacementCalls ==
  ASSUME ReplacementInv, NEW r \in Requests, NEW x \in Replacement!Request, replReq' = [replReq EXCEPT ![r] = x],
         KnowsTask(x)',
         repl' \in Replacement!ReplacementStatus, task' \in [Assignments -> Replacement!TaskStatus],
         waybill' \subseteq Assignments, shipments' \in [Assignments -> Nat],
         fee' \in [Assignments -> Replacement!FeeStatus], paid' \in Nat, replStale' \in BOOLEAN,
         \A a \in Assignments : shipments[a] > 0 => shipments'[a] > 0,
         \A a \in waybill' : shipments'[a] > 0,
         ~replStale' => Bookings' /\ Couriers' /\ Shipments' /\ Fees'
  PROVE  ReplacementInv'
  <1>0. Replacement!TypeOK /\ \A q \in Requests : KnowsTask(replReq[q])
    BY DEF ReplacementInv
  <1>1. replReq' \in [Requests -> Replacement!Request] /\ \A q \in Requests : replReq'[q] = IF q = r THEN x ELSE replReq[q]
    BY <1>0 DEF Replacement!TypeOK
  <1>2. Replacement!TypeOK'
    BY <1>1 DEF Replacement!TypeOK, Replacement!Request, Replacement!Idle, Replacement!ReplacementStatus,
       Replacement!TaskStatus, Replacement!FeeStatus
  <1>3. ASSUME NEW q \in Requests PROVE KnowsTask(replReq[q])'
    <2>1. CASE q = r
      BY <1>1, <2>1
    <2>2. CASE q # r
      <3>1. replReq'[q] = replReq[q] /\ KnowsTask(replReq[q]) /\ replReq[q] \in Replacement!Request
        BY <1>0, <1>1, <2>2 DEF Replacement!TypeOK
      <3>2. replReq[q].op = "waybill" => replReq[q].id \in Assignments
        BY <3>1 DEF Replacement!Request, Replacement!Idle
      <3> QED
        BY <3>1, <3>2 DEF KnowsTask, Replacement!OperatorSteps, Replacement!TaskSteps, Replacement!Active,
           Replacement!PartnerActive
    <2> QED
      BY <2>1, <2>2
  <1> QED
    BY <1>2, <1>3 DEF ReplacementInv

LEMMA BookingsStay ==
  ASSUME Replacement!TypeOK, Bookings, NEW r \in Requests, NEW x \in Replacement!Request,
         replReq' = [replReq EXCEPT ![r] = x], x.op # "book",
         \A a \in Assignments : task[a] \in Started => task'[a] \in Started,
         \A q \in Requests : q # r /\ Booking(q) => shipments'[replReq[q].id] = shipments[replReq[q].id]
  PROVE  Bookings'
  <1>1. \A q \in Requests : replReq'[q] = IF q = r THEN x ELSE replReq[q]
    BY DEF Replacement!TypeOK
  <1>2. \A q \in Requests : Booking(q)' => q # r /\ Booking(q) /\ replReq'[q] = replReq[q]
    BY <1>1 DEF Booking
  <1>3. ASSUME NEW q \in Requests, Booking(q) PROVE replReq[q].id \in Assignments
    <2>1. PICK y \in Replacement!Request : y = replReq[q] /\ y.op = "book"
      BY <1>3 DEF Replacement!TypeOK, Booking
    <2>2. y.id \in Assignments
      BY <2>1 DEF Replacement!Request, Replacement!Idle
    <2> QED
      BY <2>1, <2>2
  <1> QED
    BY <1>2, <1>3 DEF Bookings

(* Reads, the storing of a waybill, and calls that end without a write. *)
LEMMA ReplacementReads ==
  ASSUME ReplacementInv, NEW r \in Requests, NEW x \in Replacement!Request, replReq' = [replReq EXCEPT ![r] = x],
         KnowsTask(x), x.op # "book", UNCHANGED <<repl, task, shipments, fee, paid, replStale>>,
         waybill' \subseteq Assignments, \A a \in waybill' : shipments[a] > 0
  PROVE  ReplacementInv'
  <1>0. Replacement!TypeOK
    BY DEF ReplacementInv
  <1>1. KnowsTask(x)'
    BY DEF KnowsTask, Replacement!OperatorSteps, Replacement!TaskSteps, Replacement!Active, Replacement!PartnerActive
  <1>2. ASSUME ~replStale' PROVE Bookings' /\ Couriers' /\ Shipments' /\ Fees'
    <2>1. Bookings /\ Couriers /\ Shipments /\ Fees
      BY <1>2 DEF ReplacementInv
    <2>2. Bookings'
      BY <1>0, <2>1, BookingsStay DEF Started
    <2>3. Couriers' /\ Shipments'
      BY <2>1 DEF Couriers, Shipments, Taken, Replacement!Active, Replacement!PartnerActive, Replacement!Occupied,
         Started
    <2>4. Fees'
      <3>1. Paid' = Paid
        BY DEF Paid
      <3> QED
        BY <2>1, <3>1 DEF Fees
    <2> QED
      BY <2>2, <2>3, <2>4
  <1>3. /\ repl' \in Replacement!ReplacementStatus /\ task' \in [Assignments -> Replacement!TaskStatus]
        /\ shipments' \in [Assignments -> Nat] /\ fee' \in [Assignments -> Replacement!FeeStatus] /\ paid' \in Nat
        /\ \A a \in Assignments : shipments[a] > 0 => shipments'[a] > 0
        /\ \A a \in waybill' : shipments'[a] > 0
    BY <1>0 DEF Replacement!TypeOK
  <1>4. replStale' \in BOOLEAN
    BY <1>0 DEF Replacement!TypeOK
  <1> QED
    BY <1>1, <1>2, <1>3, <1>4, ReplacementCalls

(* A call that begins knows what it has checked. *)
LEMMA ReplacementBegins ==
  ASSUME ReplacementInv, NEW r \in Requests,
         \/ \E to \in Replacement!ReplacementStatus : Replacement!ReadOperator(r, to)
         \/ \E a \in Assignments : \/ Replacement!ReadDeliver(r, a)
                                   \/ \E to \in Replacement!TaskStatus : Replacement!ReadTask(r, a, to)
         \/ Replacement!ReadAssign(r) \/ Replacement!ReadPayout(r)
  PROVE  ReplacementInv'
  <1>0. Replacement!TypeOK
    BY DEF ReplacementInv
  <1>1. PICK x \in Replacement!Request : KnowsTask(x) /\ x.op # "book" /\ Replacement!Begin(r, x)
    <2>1. CASE \E to \in Replacement!ReplacementStatus : Replacement!ReadOperator(r, to)
      <3>1. PICK to \in Replacement!ReplacementStatus : Replacement!ReadOperator(r, to)
        BY <2>1
      <3> DEFINE x == [op |-> "operator", from |-> repl, to |-> to, occupied |-> Replacement!Occupied,
                       loaded |-> to = "DISPATCHED"]
      <3>3. x \in Replacement!Request
        BY <1>0 DEF Replacement!Request, Replacement!TypeOK, Replacement!Occupied
      <3>4. KnowsTask(x)
        BY <3>1 DEF KnowsTask, Replacement!ReadOperator, Replacement!NoCourier
      <3>5. Replacement!Begin(r, x)
        BY <3>1 DEF Replacement!ReadOperator
      <3> QED
        BY <3>3, <3>4, <3>5
    <2>2. CASE \E a \in Assignments : Replacement!ReadDeliver(r, a)
      <3>1. PICK a \in Assignments : Replacement!ReadDeliver(r, a)
        BY <2>2
      <3> DEFINE x == [op |-> "deliver", id |-> a, from |-> repl]
      <3>2. x \in Replacement!Request /\ KnowsTask(x) /\ Replacement!Begin(r, x)
        BY <1>0, <3>1 DEF Replacement!ReadDeliver, Replacement!Deliverable, Replacement!Request, KnowsTask,
           Replacement!TypeOK
      <3> QED
        BY <3>2
    <2>3. CASE \E a \in Assignments : \E to \in Replacement!TaskStatus : Replacement!ReadTask(r, a, to)
      <3>1. PICK a \in Assignments, to \in Replacement!TaskStatus : Replacement!ReadTask(r, a, to)
        BY <2>3
      <3> DEFINE x == [op |-> "task", id |-> a, from |-> task[a], to |-> to]
      <3>2. x \in Replacement!Request /\ KnowsTask(x) /\ Replacement!Begin(r, x)
        BY <1>0, <3>1 DEF Replacement!ReadTask, Replacement!Request, KnowsTask, Replacement!TypeOK
      <3> QED
        BY <3>2
    <2>4. CASE Replacement!ReadAssign(r)
      <3> DEFINE x == [op |-> "assign", occupied |-> Replacement!Occupied]
      <3>1. x \in Replacement!Request
        BY DEF Replacement!Request, Replacement!Occupied
      <3>2. KnowsTask(x) /\ Replacement!Begin(r, x)
        BY <2>4 DEF Replacement!ReadAssign, Replacement!Free, KnowsTask
      <3> QED
        BY <3>1, <3>2
    <2>5. CASE Replacement!ReadPayout(r)
      <3> DEFINE x == [op |-> "payout", ids |-> Replacement!Earned]
      <3>1. x \in Replacement!Request /\ KnowsTask(x) /\ Replacement!Begin(r, x)
        BY <2>5 DEF Replacement!ReadPayout, Replacement!Request, KnowsTask, Replacement!Earned
      <3> QED
        BY <3>1
    <2> QED
      BY <2>1, <2>2, <2>3, <2>4, <2>5
  <1>2. replReq' = [replReq EXCEPT ![r] = x] /\ UNCHANGED <<repl, task, waybill, shipments, fee, paid, replStale>>
    BY <1>1 DEF Replacement!Begin, Replacement!rows
  <1>3. waybill' \subseteq Assignments /\ \A a \in waybill' : shipments[a] > 0
    BY <1>2 DEF ReplacementInv, Replacement!TypeOK
  <1> QED
    BY <1>1, <1>2, <1>3, ReplacementReads

LEMMA ReplacementGoesOn ==
  ASSUME ReplacementInv, NEW r \in Requests,
         Replacement!LoadAgain(r) \/ Replacement!StoreWaybill(r) \/ Replacement!Drop(r)
  PROVE  ReplacementInv'
  <1>r. PICK y \in Replacement!Request : y = replReq[r] /\ KnowsTask(y)
    BY DEF ReplacementInv, Replacement!TypeOK
  <1>0. waybill \subseteq Assignments /\ \A a \in waybill : shipments[a] > 0
    BY DEF ReplacementInv, Replacement!TypeOK
  <1>i. Replacement!Idle \in Replacement!Request /\ KnowsTask(Replacement!Idle) /\ Replacement!Idle.op # "book"
    BY DEF Replacement!Request, Replacement!Idle, KnowsTask
  <1>1. CASE Replacement!LoadAgain(r)
    <2>1. PICK x : x = [y EXCEPT !.loaded = TRUE]
      OBVIOUS
    <2>2. y.op = "operator"
      BY <1>r, <1>1 DEF Replacement!LoadAgain
    <2>3. y \in [op : {"operator"}, from : Replacement!ReplacementStatus, to : Replacement!ReplacementStatus,
                 occupied : BOOLEAN, loaded : BOOLEAN]
      BY <2>2 DEF Replacement!Request, Replacement!Idle
    <2>4. x \in Replacement!Request
      <3>1. x \in [op : {"operator"}, from : Replacement!ReplacementStatus, to : Replacement!ReplacementStatus,
                   occupied : BOOLEAN, loaded : BOOLEAN]
        BY <2>1, <2>3
      <3> QED
        BY <3>1 DEF Replacement!Request
    <2>5. KnowsTask(x) /\ x.op # "book"
      BY <1>r, <2>1, <2>2, <2>3 DEF KnowsTask
    <2>6. replReq' = [replReq EXCEPT ![r] = x] /\ UNCHANGED <<repl, task, waybill, shipments, fee, paid, replStale>>
      BY <1>r, <1>1, <2>1 DEF Replacement!LoadAgain, Replacement!rows, ReplacementInv, Replacement!TypeOK
    <2> QED
      BY <1>0, <2>4, <2>5, <2>6, ReplacementReads
  <1>2. CASE Replacement!StoreWaybill(r)
    <2>1. y.op = "waybill"
      BY <1>r, <1>2 DEF Replacement!StoreWaybill
    <2>2. y.id \in Assignments /\ shipments[y.id] > 0
      BY <1>r, <2>1 DEF Replacement!Request, Replacement!Idle, KnowsTask
    <2>3. /\ replReq' = [replReq EXCEPT ![r] = Replacement!Idle] /\ waybill' = waybill \cup {y.id}
          /\ UNCHANGED <<repl, task, shipments, fee, paid, replStale>>
      BY <1>r, <1>2 DEF Replacement!StoreWaybill, Replacement!End
    <2> QED
      BY <1>0, <1>i, <2>2, <2>3, ReplacementReads
  <1>3. CASE Replacement!Drop(r)
    <2>1. /\ replReq' = [replReq EXCEPT ![r] = Replacement!Idle]
          /\ UNCHANGED <<repl, task, waybill, shipments, fee, paid, replStale>>
      BY <1>3 DEF Replacement!Drop, Replacement!End, Replacement!rows
    <2> QED
      BY <1>0, <1>i, <2>1, ReplacementReads
  <1> QED
    BY <1>1, <1>2, <1>3

LEMMA CallEnds ==
  /\ Replacement!Idle \in Replacement!Request /\ Replacement!Idle.op # "book" /\ KnowsTask(Replacement!Idle)'
  BY DEF Replacement!Request, Replacement!Idle, KnowsTask

LEMMA OperatorCommits ==
  ASSUME ReplacementInv, NEW r \in Requests, Replacement!CommitOperator(r)
  PROVE  ReplacementInv' /\ Replacement!ReplacementStands
  <1>0. Replacement!TypeOK
    BY DEF ReplacementInv
  <1>r. PICK y \in Replacement!Request : y = replReq[r] /\ KnowsTask(y) /\ y.op = "operator"
    BY DEF ReplacementInv, Replacement!TypeOK, Replacement!CommitOperator
  <1>1. <<y.from, y.to>> \in Replacement!OperatorSteps /\ (y.to = "COMPLETED" => ~y.occupied)
    BY <1>r DEF KnowsTask
  <1>2. /\ y.to \in {"DISPATCHED", "COMPLETED", "CANCELLED"}
        /\ y.from \in {"PENDING_DISPATCH", "DISPATCHED"}
    BY <1>1 DEF Replacement!OperatorSteps
  <1>3. /\ repl' = y.to /\ replReq' = [replReq EXCEPT ![r] = Replacement!Idle]
        /\ UNCHANGED <<task, waybill, shipments, fee, paid>>
        /\ replStale' = (replStale \/ ~(repl = y.from /\ (y.to = "COMPLETED" => Replacement!Occupied = y.occupied)))
    BY <1>r DEF Replacement!CommitOperator, Replacement!Unchanged, Replacement!End
  <1>4. replStale' \in BOOLEAN /\ (~replStale' => ~replStale /\ repl = y.from
                                     /\ (y.to = "COMPLETED" => Replacement!Occupied = y.occupied))
    BY <1>3, Zenon
  <1>5. ASSUME ~replStale' PROVE Bookings' /\ Couriers' /\ Shipments' /\ Fees'
    <2>1. Bookings /\ Couriers /\ Shipments /\ Fees
      BY <1>4, <1>5 DEF ReplacementInv
    <2>2. Bookings'
      BY <1>0, <1>3, <2>1, CallEnds, BookingsStay DEF Started
    <2>3. y.to = "COMPLETED" => ~Replacement!Occupied
      BY <1>1, <1>4, <1>5
    <2>4. \A a \in Assignments : task[a] # "DELIVERED"
      BY <1>2, <1>4, <1>5, <2>1 DEF Couriers
    <2>5. Couriers'
      BY <1>2, <1>3, <2>1, <2>3, <2>4 DEF Couriers, Taken, Replacement!Active, Replacement!PartnerActive,
         Replacement!Occupied
    <2>6. Shipments'
      BY <1>3, <2>1 DEF Shipments, Started
    <2>7. Fees'
      <3>1. Paid' = Paid
        BY <1>3 DEF Paid
      <3> QED
        BY <1>3, <2>1, <3>1 DEF Fees
    <2> QED
      BY <2>2, <2>5, <2>6, <2>7
  <1>6. /\ repl' \in Replacement!ReplacementStatus /\ task' \in [Assignments -> Replacement!TaskStatus]
        /\ waybill' \subseteq Assignments
        /\ shipments' \in [Assignments -> Nat] /\ fee' \in [Assignments -> Replacement!FeeStatus] /\ paid' \in Nat
        /\ \A a \in Assignments : shipments[a] > 0 => shipments'[a] > 0
        /\ \A a \in waybill' : shipments'[a] > 0
    BY <1>0, <1>2, <1>3 DEF Replacement!TypeOK, ReplacementInv, Replacement!ReplacementStatus
  <1>7. ReplacementInv'
    BY <1>3, <1>4, <1>5, <1>6, CallEnds, ReplacementCalls
  <1> QED
    BY <1>2, <1>4, <1>7 DEF Replacement!ReplacementStands

LEMMA AssignCommits ==
  ASSUME ReplacementInv, NEW r \in Requests, NEW a \in Assignments, Replacement!CommitAssign(r, a)
  PROVE  ReplacementInv'
  <1>0. Replacement!TypeOK
    BY DEF ReplacementInv
  <1>r. PICK y \in Replacement!Request : y = replReq[r] /\ ~y.occupied
    BY DEF ReplacementInv, Replacement!TypeOK, Replacement!CommitAssign, KnowsTask
  <1>1. /\ task[a] = "NONE" /\ task' = [task EXCEPT ![a] = "ASSIGNED"]
        /\ replReq' = [replReq EXCEPT ![r] = Replacement!Idle] /\ UNCHANGED <<repl, waybill, shipments, fee, paid>>
        /\ replStale' = (replStale \/ ~(repl = "DISPATCHED" /\ Replacement!Occupied = y.occupied))
    BY <1>r DEF Replacement!CommitAssign, Replacement!Unchanged, Replacement!End
  <1>2. /\ replStale' \in BOOLEAN
        /\ ~replStale' => ~replStale /\ repl = "DISPATCHED" /\ Replacement!Occupied = y.occupied
    BY <1>1, Zenon
  <1>3. /\ task' \in [Assignments -> Replacement!TaskStatus]
        /\ \A b \in Assignments : task'[b] = IF b = a THEN "ASSIGNED" ELSE task[b]
    BY <1>0, <1>1 DEF Replacement!TypeOK, Replacement!TaskStatus
  <1>4. ASSUME ~replStale' PROVE Bookings' /\ Couriers' /\ Shipments' /\ Fees'
    <2>1. Bookings /\ Couriers /\ Shipments /\ Fees /\ ~Replacement!Occupied /\ repl = "DISPATCHED"
      BY <1>r, <1>2, <1>4 DEF ReplacementInv
    <2>2. Bookings'
      BY <1>0, <1>1, <1>3, <2>1, CallEnds, BookingsStay DEF Started
    <2>3. \A b \in Assignments : task[b] \notin Taken
      BY <2>1 DEF Couriers, Taken, Replacement!Occupied
    <2>4. Couriers'
      BY <1>1, <1>3, <2>1, <2>3 DEF Couriers, Taken, Replacement!Active, Replacement!PartnerActive
    <2>5. Shipments'
      BY <1>1, <1>3, <2>1 DEF Shipments, Started
    <2>6. Fees'
      <3>1. Paid' = Paid
        BY <1>1 DEF Paid
      <3> QED
        BY <1>1, <1>3, <2>1, <3>1 DEF Fees
    <2> QED
      BY <2>2, <2>4, <2>5, <2>6
  <1>5. /\ repl' \in Replacement!ReplacementStatus /\ waybill' \subseteq Assignments
        /\ shipments' \in [Assignments -> Nat] /\ fee' \in [Assignments -> Replacement!FeeStatus] /\ paid' \in Nat
        /\ \A b \in Assignments : shipments[b] > 0 => shipments'[b] > 0
        /\ \A b \in waybill' : shipments'[b] > 0
    BY <1>0, <1>1 DEF Replacement!TypeOK, ReplacementInv
  <1> QED
    BY <1>1, <1>2, <1>3, <1>4, <1>5, CallEnds, ReplacementCalls

(* A step of the courier's leg: after the pickup, a shipment is to be booked. *)
LEMMA TaskCommits ==
  ASSUME ReplacementInv, NEW r \in Requests, Replacement!CommitTask(r)
  PROVE  ReplacementInv'
  <1>0. Replacement!TypeOK
    BY DEF ReplacementInv
  <1>r. PICK y \in Replacement!Request : y = replReq[r] /\ KnowsTask(y) /\ y.op = "task"
    BY DEF ReplacementInv, Replacement!TypeOK, Replacement!CommitTask
  <1>k. PICK k \in Assignments : k = y.id
    BY <1>r DEF Replacement!Request, Replacement!Idle
  <1>1. <<y.from, y.to>> \in Replacement!TaskSteps
    BY <1>r DEF KnowsTask
  <1>2. /\ y.from \in Replacement!Active
        /\ y.to \in Replacement!TaskStatus \ {"NONE", "ASSIGNED", "DELIVERED"}
        /\ y.to \in Started \/ y.from = "ASSIGNED"
        /\ y.to = "PICKED_UP" => y.from = "ACCEPTED"
        /\ y.from \in {"PICKED_UP", "OUT_FOR_DELIVERY"} => y.to \in Started
    BY <1>1 DEF Replacement!TaskSteps, Replacement!Active, Replacement!PartnerActive, Replacement!TaskStatus, Started
  <1>3. PICK x : x = IF y.to = "PICKED_UP" THEN [op |-> "book", id |-> k] ELSE Replacement!Idle
    OBVIOUS
  <1>4. /\ task' = [task EXCEPT ![k] = y.to] /\ replReq' = [replReq EXCEPT ![r] = x]
        /\ UNCHANGED <<repl, waybill, shipments, fee, paid>>
        /\ replStale' = (replStale \/ ~(task[k] = y.from))
    BY <1>r, <1>k, <1>3 DEF Replacement!CommitTask, Replacement!Unchanged
  <1>5. x \in Replacement!Request /\ KnowsTask(x)'
    BY <1>3 DEF Replacement!Request, Replacement!Idle, KnowsTask
  <1>6. replStale' \in BOOLEAN /\ (~replStale' => ~replStale /\ task[k] = y.from)
    BY <1>4, Zenon
  <1>7. /\ task' \in [Assignments -> Replacement!TaskStatus]
        /\ \A b \in Assignments : task'[b] = IF b = k THEN y.to ELSE task[b]
    BY <1>0, <1>2, <1>4 DEF Replacement!TypeOK
  <1>8. ASSUME ~replStale' PROVE Bookings' /\ Couriers' /\ Shipments' /\ Fees'
    <2>1. Bookings /\ Couriers /\ Shipments /\ Fees /\ task[k] = y.from
      BY <1>6, <1>8 DEF ReplacementInv
    <2>2. \A b \in Assignments : task[b] \in Started => task'[b] \in Started
      BY <1>2, <1>7, <2>1 DEF Started, Replacement!Active, Replacement!PartnerActive
    <2>3. Bookings'
      <3>1. CASE x.op # "book"
        BY <1>0, <1>4, <1>5, <2>1, <2>2, <3>1, BookingsStay
      <3>2. CASE x.op = "book"
        <4>1. y.to = "PICKED_UP" /\ x.id = k /\ task[k] = "ACCEPTED"
          BY <1>2, <1>3, <2>1, <3>2 DEF Replacement!Idle
        <4>2. shipments[k] = 0
          BY <1>0, <2>1, <4>1 DEF Shipments, Started, Replacement!TypeOK
        <4>3. \A q \in Requests : replReq'[q] = IF q = r THEN x ELSE replReq[q]
          BY <1>4 DEF Replacement!TypeOK, ReplacementInv
        <4>4. ASSUME NEW q \in Requests, Booking(q)
              PROVE  replReq[q].id \in Assignments /\ replReq[q].id # k
          <5>1. PICK z \in Replacement!Request : z = replReq[q] /\ z.op = "book"
            BY <1>0, <4>4 DEF Replacement!TypeOK, Booking
          <5>2. z.id \in Assignments
            BY <5>1 DEF Replacement!Request, Replacement!Idle
          <5>3. task[z.id] \in Started
            BY <2>1, <4>4, <5>1 DEF Bookings
          <5> QED
            BY <4>1, <5>1, <5>2, <5>3 DEF Started
        <4>5. \A q \in Requests : Booking(q)' => q = r \/ (Booking(q) /\ replReq'[q] = replReq[q])
          BY <4>3 DEF Booking
        <4>6. replReq'[r] = x /\ task'[k] \in Started /\ shipments'[k] = 0
          BY <1>4, <1>7, <4>1, <4>2, <4>3 DEF Started
        <4>7. \A q \in Requests : Booking(q)' => shipments'[replReq'[q].id] = 0 /\ task'[replReq'[q].id] \in Started
          BY <1>4, <2>1, <2>2, <4>1, <4>4, <4>5, <4>6 DEF Bookings
        <4>8. \A q, p \in Requests : Booking(q)' /\ Booking(p)' /\ replReq'[q].id = replReq'[p].id => q = p
          BY <2>1, <4>1, <4>4, <4>5, <4>6 DEF Bookings
        <4> QED
          BY <4>7, <4>8 DEF Bookings
      <3> QED
        BY <3>1, <3>2
    <2>4. Couriers'
      <3>1. Replacement!Occupied /\ task[k] \in Taken
        BY <1>2, <2>1 DEF Replacement!Occupied, Taken
      <3>2. repl \notin {"COMPLETED", "PENDING_DISPATCH"}
        BY <1>2, <2>1, <3>1 DEF Couriers, Replacement!Active, Replacement!PartnerActive
      <3>3. \A b \in Assignments : task'[b] \in Taken => b = k
        BY <1>7, <2>1, <3>1 DEF Couriers, Taken, Replacement!Active, Replacement!PartnerActive
      <3> QED
        BY <1>2, <1>4, <1>7, <2>1, <3>2, <3>3 DEF Couriers, Taken, Replacement!Active, Replacement!PartnerActive
    <2>5. Shipments'
      BY <1>4, <2>1, <2>2 DEF Shipments
    <2>6. Fees'
      <3>1. Paid' = Paid
        BY <1>4 DEF Paid
      <3>2. task[k] # "DELIVERED" /\ task'[k] # "DELIVERED"
        BY <1>2, <1>7, <2>1 DEF Replacement!Active, Replacement!PartnerActive
      <3> QED
        BY <1>4, <1>7, <2>1, <3>1, <3>2 DEF Fees
    <2> QED
      BY <2>3, <2>4, <2>5, <2>6
  <1>9. /\ repl' \in Replacement!ReplacementStatus /\ waybill' \subseteq Assignments
        /\ shipments' \in [Assignments -> Nat] /\ fee' \in [Assignments -> Replacement!FeeStatus] /\ paid' \in Nat
        /\ \A b \in Assignments : shipments[b] > 0 => shipments'[b] > 0
        /\ \A b \in waybill' : shipments'[b] > 0
    BY <1>0, <1>4 DEF Replacement!TypeOK, ReplacementInv
  <1> QED
    BY <1>4, <1>5, <1>6, <1>7, <1>8, <1>9, ReplacementCalls

LEMMA ShipmentBooked ==
  ASSUME ReplacementInv, NEW r \in Requests, Replacement!BookShipment(r)
  PROVE  ReplacementInv'
  <1>0. Replacement!TypeOK
    BY DEF ReplacementInv
  <1>r. PICK y \in Replacement!Request : y = replReq[r] /\ y.op = "book"
    BY DEF ReplacementInv, Replacement!TypeOK, Replacement!BookShipment
  <1>k. PICK k \in Assignments : k = y.id
    BY <1>r DEF Replacement!Request, Replacement!Idle
  <1>1. PICK x : x = [y EXCEPT !.op = "waybill"]
    OBVIOUS
  <1>2. y \in [op : {"book"}, id : Assignments]
    BY <1>r DEF Replacement!Request, Replacement!Idle
  <1>3. x.op = "waybill" /\ x.id = k /\ x \in [op : {"waybill"}, id : Assignments]
    BY <1>k, <1>1, <1>2
  <1>4. x \in Replacement!Request
    BY <1>3 DEF Replacement!Request
  <1>5. /\ shipments' = [shipments EXCEPT ![k] = @ + 1] /\ replReq' = [replReq EXCEPT ![r] = x]
        /\ UNCHANGED <<repl, task, waybill, fee, paid, replStale>>
    BY <1>0, <1>r, <1>k, <1>1 DEF Replacement!BookShipment, Replacement!TypeOK
  <1>6. /\ shipments' \in [Assignments -> Nat]
        /\ \A b \in Assignments : shipments'[b] = IF b = k THEN shipments[b] + 1 ELSE shipments[b]
        /\ \A b \in Assignments : shipments[b] > 0 => shipments'[b] > 0
        /\ shipments'[k] > 0
    BY <1>0, <1>5 DEF Replacement!TypeOK
  <1>7. KnowsTask(x)'
    BY <1>3, <1>6 DEF KnowsTask
  <1>8. ASSUME ~replStale' PROVE Bookings' /\ Couriers' /\ Shipments' /\ Fees'
    <2>1. Bookings /\ Couriers /\ Shipments /\ Fees
      BY <1>5, <1>8 DEF ReplacementInv
    <2>2. shipments[k] = 0 /\ task[k] \in Started
      BY <1>r, <1>k, <2>1 DEF Bookings, Booking
    <2>3. ASSUME NEW q \in Requests, q # r, Booking(q)
          PROVE  shipments'[replReq[q].id] = shipments[replReq[q].id]
      <3>1. PICK z \in Replacement!Request : z = replReq[q] /\ z.op = "book"
        BY <1>0, <2>3 DEF Replacement!TypeOK, Booking
      <3>2. z.id \in Assignments
        BY <3>1 DEF Replacement!Request, Replacement!Idle
      <3>3. z.id # k
        BY <1>r, <1>k, <2>1, <2>3, <3>1 DEF Bookings, Booking
      <3> QED
        BY <1>6, <3>1, <3>2, <3>3
    <2>4. Bookings'
      BY <1>0, <1>3, <1>4, <1>5, <2>1, <2>3, BookingsStay
    <2>5. Couriers'
      BY <1>5, <2>1 DEF Couriers, Taken, Replacement!Active, Replacement!PartnerActive, Replacement!Occupied
    <2>6. Shipments'
      BY <1>5, <1>6, <2>1, <2>2 DEF Shipments, Started
    <2>7. Fees'
      <3>1. Paid' = Paid
        BY <1>5 DEF Paid
      <3> QED
        BY <1>5, <2>1, <3>1 DEF Fees
    <2> QED
      BY <2>4, <2>5, <2>6, <2>7
  <1>9. /\ repl' \in Replacement!ReplacementStatus /\ waybill' \subseteq Assignments
        /\ task' \in [Assignments -> Replacement!TaskStatus]
        /\ fee' \in [Assignments -> Replacement!FeeStatus] /\ paid' \in Nat
    BY <1>0, <1>5 DEF Replacement!TypeOK
  <1>10. \A b \in waybill' : shipments'[b] > 0
    BY <1>0, <1>5, <1>6 DEF ReplacementInv, Replacement!TypeOK
  <1>11. replStale' \in BOOLEAN
    BY <1>0, <1>5 DEF Replacement!TypeOK
  <1> QED
    BY <1>4, <1>5, <1>6, <1>7, <1>8, <1>9, <1>10, <1>11, ReplacementCalls

LEMMA DeliverCommits ==
  ASSUME ReplacementInv, NEW r \in Requests, Replacement!CommitDeliver(r)
  PROVE  ReplacementInv' /\ Replacement!ReplacementStands
  <1>0. Replacement!TypeOK
    BY DEF ReplacementInv
  <1>r. PICK y \in Replacement!Request : y = replReq[r] /\ y.op = "deliver" /\ y.from = "DISPATCHED"
    BY DEF ReplacementInv, Replacement!TypeOK, Replacement!CommitDeliver, KnowsTask
  <1>k. PICK k \in Assignments : k = y.id
    BY <1>r DEF Replacement!Request, Replacement!Idle
  <1>1. /\ task' = [task EXCEPT ![k] = "DELIVERED"] /\ repl' = "COMPLETED"
        /\ fee' = [fee EXCEPT ![k] = IF fee[k] = "NONE" THEN "EARNED" ELSE fee[k]]
        /\ replReq' = [replReq EXCEPT ![r] = Replacement!Idle] /\ UNCHANGED <<waybill, shipments, paid>>
        /\ replStale' = (replStale \/ ~(task[k] = "OUT_FOR_DELIVERY" /\ repl = y.from))
    BY <1>r, <1>k DEF Replacement!CommitDeliver, Replacement!Unchanged, Replacement!End, Replacement!Earn
  <1>2. replStale' \in BOOLEAN /\ (~replStale' => ~replStale /\ task[k] = "OUT_FOR_DELIVERY" /\ repl = y.from)
    BY <1>1, Zenon
  <1>3. /\ task' \in [Assignments -> Replacement!TaskStatus] /\ fee' \in [Assignments -> Replacement!FeeStatus]
        /\ \A b \in Assignments : task'[b] = IF b = k THEN "DELIVERED" ELSE task[b]
        /\ \A b \in Assignments : fee'[b] = IF b = k /\ fee[b] = "NONE" THEN "EARNED" ELSE fee[b]
    BY <1>0, <1>1 DEF Replacement!TypeOK, Replacement!TaskStatus, Replacement!FeeStatus
  <1>4. ASSUME ~replStale' PROVE Bookings' /\ Couriers' /\ Shipments' /\ Fees'
    <2>1. Bookings /\ Couriers /\ Shipments /\ Fees /\ task[k] = "OUT_FOR_DELIVERY"
      BY <1>2, <1>4 DEF ReplacementInv
    <2>2. Bookings'
      BY <1>0, <1>1, <1>3, <2>1, CallEnds, BookingsStay DEF Started
    <2>3. Couriers'
      <3>1. task[k] \in Taken
        BY <2>1 DEF Taken, Replacement!Active, Replacement!PartnerActive
      <3>2. \A b \in Assignments : task'[b] \in Taken => b = k
        BY <1>3, <2>1, <3>1 DEF Couriers
      <3> QED
        BY <1>1, <1>3, <3>2 DEF Couriers, Taken, Replacement!Active, Replacement!PartnerActive, Replacement!Occupied
    <2>4. Shipments'
      BY <1>1, <1>3, <2>1 DEF Shipments, Started
    <2>5. Fees'
      <3>1. Paid' = Paid
        BY <1>3 DEF Paid
      <3>2. fee'[k] # "NONE"
        BY <1>3
      <3> QED
        BY <1>1, <1>3, <2>1, <3>1, <3>2 DEF Fees
    <2> QED
      BY <2>2, <2>3, <2>4, <2>5
  <1>5. /\ repl' \in Replacement!ReplacementStatus /\ waybill' \subseteq Assignments
        /\ shipments' \in [Assignments -> Nat] /\ paid' \in Nat
        /\ \A b \in Assignments : shipments[b] > 0 => shipments'[b] > 0
        /\ \A b \in waybill' : shipments'[b] > 0
    BY <1>0, <1>1 DEF Replacement!TypeOK, ReplacementInv, Replacement!ReplacementStatus
  <1>6. ReplacementInv'
    BY <1>1, <1>2, <1>3, <1>4, <1>5, CallEnds, ReplacementCalls
  <1> QED
    BY <1>r, <1>2, <1>6 DEF Replacement!ReplacementStands

(* What is settled is what was earned, and no fee twice. *)
LEMMA PayoutCommits ==
  ASSUME ReplacementInv, NEW r \in Requests, Replacement!CommitPayout(r)
  PROVE  ReplacementInv'
  <1>0. Replacement!TypeOK
    BY DEF ReplacementInv
  <1>r. PICK y \in Replacement!Request : y = replReq[r] /\ y.op = "payout"
    BY DEF ReplacementInv, Replacement!TypeOK, Replacement!CommitPayout
  <1>s. y.ids \in SUBSET Assignments
    BY <1>r DEF Replacement!Request, Replacement!Idle
  <1>1. PICK E : E = Replacement!Earned
    OBVIOUS
  <1>2. /\ fee' = [a \in Assignments |-> IF a \in E THEN "SETTLED" ELSE fee[a]]
        /\ paid' = paid + Cardinality(y.ids)
        /\ replReq' = [replReq EXCEPT ![r] = Replacement!Idle] /\ UNCHANGED <<repl, task, waybill, shipments>>
        /\ replStale' = (replStale \/ ~(E = y.ids))
    BY <1>r, <1>1, ReplacementCardinality DEF Replacement!CommitPayout, Replacement!Unchanged, Replacement!End,
       Replacement!Settled
  <1>3. replStale' \in BOOLEAN /\ (~replStale' => ~replStale /\ E = y.ids)
    BY <1>2, Zenon
  <1>4. IsFiniteSet(E) /\ IsFiniteSet(Paid) /\ IsFiniteSet(y.ids) /\ E \cap Paid = {} /\ Paid' = Paid \cup E
    <2>1. E \subseteq Assignments /\ Paid \subseteq Assignments
      BY <1>1 DEF Replacement!Earned, Paid
    <2>2. E \cap Paid = {} /\ Paid' = Paid \cup E
      BY <1>1, <1>2 DEF Replacement!Earned, Paid
    <2> QED
      BY <1>s, <2>1, <2>2, FS_Subset, PlatformAssumption
  <1>5. Cardinality(y.ids) \in Nat
    BY <1>4, FS_CardinalityType
  <1>6. ASSUME ~replStale' PROVE Bookings' /\ Couriers' /\ Shipments' /\ Fees'
    <2>1. Bookings /\ Couriers /\ Shipments /\ Fees
      BY <1>3, <1>6 DEF ReplacementInv
    <2>2. Bookings'
      BY <1>0, <1>2, <2>1, CallEnds, BookingsStay DEF Started
    <2>3. Couriers' /\ Shipments'
      BY <1>2, <2>1 DEF Couriers, Shipments, Taken, Replacement!Active, Replacement!PartnerActive,
         Replacement!Occupied, Started
    <2>4. Fees'
      <3>1. Cardinality(Paid \cup E) = Cardinality(Paid) + Cardinality(E) - Cardinality(Paid \cap E)
        BY <1>4, FS_Union
      <3>2. Cardinality(Paid \cap E) = 0
        BY <1>4, FS_EmptySet
      <3>3. paid' = Cardinality(Paid) + Cardinality(E)
        BY <1>2, <1>3, <1>6, <2>1 DEF Fees
      <3>4. Cardinality(Paid) \in Nat /\ Cardinality(E) \in Nat
        BY <1>4, FS_CardinalityType
      <3>5. paid' = Cardinality(Paid')
        BY <1>4, <3>1, <3>2, <3>3, <3>4
      <3>6. \A a \in Assignments : fee'[a] # "NONE" <=> fee[a] # "NONE"
        BY <1>1, <1>2 DEF Replacement!Earned
      <3> QED
        BY <1>2, <2>1, <3>5, <3>6 DEF Fees
    <2> QED
      BY <2>2, <2>3, <2>4
  <1>7. /\ repl' \in Replacement!ReplacementStatus /\ waybill' \subseteq Assignments
        /\ task' \in [Assignments -> Replacement!TaskStatus] /\ shipments' \in [Assignments -> Nat] /\ paid' \in Nat
        /\ fee' \in [Assignments -> Replacement!FeeStatus]
        /\ \A b \in Assignments : shipments[b] > 0 => shipments'[b] > 0
        /\ \A b \in waybill' : shipments'[b] > 0
    BY <1>0, <1>2, <1>5 DEF Replacement!TypeOK, ReplacementInv, Replacement!FeeStatus
  <1> QED
    BY <1>2, <1>3, <1>6, <1>7, CallEnds, ReplacementCalls

LEMMA ReplacementStep ==
  ASSUME ReplacementInv, Replacement!Next
  PROVE  ReplacementInv' /\ Replacement!ReplacementStands
  <1>1. PICK r \in Requests : Replacement!Call(r)
    BY DEF Replacement!Next
  <1>2. CASE \/ \E to \in Replacement!ReplacementStatus : Replacement!ReadOperator(r, to)
             \/ \E a \in Assignments : \/ Replacement!ReadDeliver(r, a)
                                       \/ \E to \in Replacement!TaskStatus : Replacement!ReadTask(r, a, to)
             \/ Replacement!ReadAssign(r) \/ Replacement!ReadPayout(r)
    <2>1. repl' = repl
      BY <1>2 DEF Replacement!ReadOperator, Replacement!ReadDeliver, Replacement!ReadTask, Replacement!ReadAssign,
         Replacement!ReadPayout, Replacement!Begin, Replacement!rows
    <2> QED
      BY <1>2, <2>1, ReplacementBegins DEF Replacement!ReplacementStands
  <1>3. CASE Replacement!LoadAgain(r) \/ Replacement!StoreWaybill(r) \/ Replacement!Drop(r)
    <2>1. repl' = repl
      BY <1>3 DEF Replacement!LoadAgain, Replacement!StoreWaybill, Replacement!Drop, Replacement!rows
    <2> QED
      BY <1>3, <2>1, ReplacementGoesOn DEF Replacement!ReplacementStands
  <1>4. CASE \/ (\E a \in Assignments : Replacement!CommitAssign(r, a)) \/ Replacement!CommitTask(r)
             \/ Replacement!BookShipment(r) \/ Replacement!CommitPayout(r)
    <2>1. repl' = repl
      BY <1>4 DEF Replacement!CommitAssign, Replacement!CommitTask, Replacement!BookShipment,
         Replacement!CommitPayout
    <2> QED
      BY <1>4, <2>1, AssignCommits, TaskCommits, ShipmentBooked, PayoutCommits DEF Replacement!ReplacementStands
  <1> QED
    BY <1>1, <1>2, <1>3, <1>4, OperatorCommits, DeliverCommits DEF Replacement!Call

(* A fee that was paid out is left alone by every write, whatever overlaps.  *)
LEMMA FeeStands ==
  ASSUME Replacement!TypeOK, Replacement!Next
  PROVE  Replacement!PaidFeeStands
  <1>1. PICK r \in Requests : Replacement!Call(r)
    BY DEF Replacement!Next
  <1>2. fee' = fee \/ Replacement!CommitDeliver(r) \/ Replacement!CommitPayout(r)
    BY <1>1 DEF Replacement!Call, Replacement!ReadOperator, Replacement!ReadDeliver, Replacement!ReadTask,
       Replacement!ReadAssign, Replacement!ReadPayout, Replacement!Begin, Replacement!rows, Replacement!LoadAgain,
       Replacement!StoreWaybill, Replacement!Drop, Replacement!CommitAssign, Replacement!CommitTask,
       Replacement!BookShipment, Replacement!CommitOperator
  <1> QED
    BY <1>2 DEF Replacement!PaidFeeStands, Replacement!CommitDeliver, Replacement!CommitPayout, Replacement!Earn,
       Replacement!Settled, Replacement!TypeOK

-----------------------------------------------------------------------------
(* All of it: whatever part is followed, these rows are its own or nobody's. *)

BackOfficeInv == SupplyInv /\ ReplacementInv

LEMMA ReplacementStays ==
  ASSUME ReplacementInv, UNCHANGED <<repl, task, waybill, shipments, fee, paid, replReq, replStale>>
  PROVE  ReplacementInv'
  <1>1. Replacement!TypeOK'
    BY DEF ReplacementInv, Replacement!TypeOK, Replacement!Request, Replacement!Idle, Replacement!ReplacementStatus,
       Replacement!TaskStatus, Replacement!FeeStatus
  <1>2. \A r \in Requests : KnowsTask(replReq[r])'
    BY DEF ReplacementInv, KnowsTask, Replacement!OperatorSteps, Replacement!TaskSteps, Replacement!Active,
       Replacement!PartnerActive
  <1>3. Bookings' = Bookings
    BY DEF Bookings, Booking, Started
  <1>4. Couriers' = Couriers
    BY DEF Couriers, Taken, Replacement!Occupied, Replacement!Active, Replacement!PartnerActive
  <1>5. Shipments' = Shipments
    BY DEF Shipments, Started
  <1>6. Fees' = Fees
    BY DEF Fees, Paid
  <1>7. \A a \in waybill' : shipments'[a] > 0
    BY DEF ReplacementInv
  <1> QED
    BY <1>1, <1>2, <1>3, <1>4, <1>5, <1>6, <1>7 DEF ReplacementInv

LEMMA BackOfficeInit == Init => BackOfficeInv
  BY SellerInit, ProductInit, ReplacementInit DEF Init, Supply!Init, BackOfficeInv, SupplyInv

LEMMA BackOfficeStep ==
  ASSUME BackOfficeInv, [Next]_vars
  PROVE  /\ BackOfficeInv'
         /\ Supply!DecisionStands /\ Supply!PublicationStands
         /\ Replacement!ReplacementStands /\ Replacement!PaidFeeStands
  <1>0. SupplyInv /\ ReplacementInv
    BY DEF BackOfficeInv
  <1>1. /\ Supply!Next \/ UNCHANGED supplyVars
        /\ Replacement!Next \/ UNCHANGED replacementVars
    BY DEF Next, vars, Apart
  <1>2. SupplyInv' /\ Supply!DecisionStands /\ Supply!PublicationStands
    <2>1. CASE UNCHANGED supplyVars
      <3>1. SellerInv'
        BY <1>0, <2>1, SellerStays DEF supplyVars, SupplyInv
      <3>2. ProductInv'
        BY <1>0, <2>1, ProductStays DEF supplyVars, SupplyInv
      <3>3. Supply!DecisionStands /\ Supply!PublicationStands
        BY <2>1 DEF supplyVars, Supply!DecisionStands, Supply!Onboarding!DecisionStands, Supply!PublicationStands,
           Supply!Publishing!PublicationStands
      <3> QED
        BY <3>1, <3>2, <3>3 DEF SupplyInv
    <2> QED
      BY <1>0, <1>1, <2>1, SupplyStep
  <1>3. ReplacementInv' /\ Replacement!ReplacementStands /\ Replacement!PaidFeeStands
    <2>1. CASE UNCHANGED replacementVars
      <3>1. ReplacementInv'
        BY <1>0, <2>1, ReplacementStays DEF replacementVars
      <3>2. Replacement!ReplacementStands /\ Replacement!PaidFeeStands
        BY <2>1 DEF replacementVars, Replacement!ReplacementStands, Replacement!PaidFeeStands
      <3> QED
        BY <3>1, <3>2
    <2>2. CASE Replacement!Next
      BY <1>0, <2>2, ReplacementStep, FeeStands DEF ReplacementInv
    <2> QED
      BY <1>1, <2>1, <2>2
  <1> QED
    BY <1>2, <1>3 DEF BackOfficeInv

LEMMA BackOfficeAlways == Spec => []BackOfficeInv
  <1>1. BackOfficeInv /\ [Next]_vars => BackOfficeInv'
    BY BackOfficeStep
  <1> QED
    BY <1>1, BackOfficeInit, PTL DEF Spec

(* The rows and calls of the seller, its product and the replacement are    *)
(* well formed: no product is created twice or reviewed ahead of its edits. *)
THEOREM BackOfficeTypes == Spec => []TypeOK
  <1>1. BackOfficeInv => TypeOK
    <2> SUFFICES ASSUME BackOfficeInv PROVE Supply!SellerTypeOK /\ Supply!ProductTypeOK /\ Replacement!TypeOK
      BY DEF TypeOK, Follows
    <2>1. Supply!SellerTypeOK
      <3>1. SellerTypes
        BY DEF BackOfficeInv, SupplyInv, SellerInv
      <3>2. DeskCall \subseteq Supply!Onboarding!Call \cup {Supply!Onboarding!Idle}
        BY DEF DeskCall, SeatedCall, Supply!Onboarding!Call
      <3>3. call \in [Desk -> Supply!Onboarding!Call \cup {Supply!Onboarding!Idle}]
        BY <3>1, <3>2 DEF SellerTypes
      <3> QED
        BY <3>1, <3>3 DEF SellerTypes, Supply!SellerTypeOK, Supply!Onboarding!TypeOK
    <2>2. Supply!ProductTypeOK
      <3>1. ProductTypes
        BY DEF BackOfficeInv, SupplyInv, ProductInv
      <3>2. ASSUME NEW a \in Authors, req[a] # Supply!Publishing!Idle
            PROVE  /\ req[a].op \in {"create", "edit", "submit", "archive", "approve", "reject"}
                   /\ req[a].op = "create" <=> req[a].product = None
                   /\ req[a].content <= content
        BY <3>1, <3>2 DEF ProductTypes, BackOfficeInv, SupplyInv, ProductInv, KnowsProduct, AuthorCall
      <3> QED
        BY <3>1, <3>2 DEF ProductTypes, Supply!ProductTypeOK, Supply!Publishing!TypeOK
    <2> QED
      BY <2>1, <2>2 DEF BackOfficeInv, ReplacementInv
  <1> QED
    BY <1>1, BackOfficeAlways, PTL

(* The statuses of the seller and of its application go together, unless a  *)
(* status was written over outdated reads or a submission died half way.    *)
THEOREM SellerIsAsDecided == Spec => []SellerFollowsApplication
  <1>1. BackOfficeInv => SellerFollowsApplication
    BY DEF BackOfficeInv, SupplyInv, SellerInv
  <1> QED
    BY <1>1, BackOfficeAlways, PTL

(* A seller who has a product was vetted, and what is on sale is what the   *)
(* staff has seen, unless a write was over outdated reads.                  *)
THEOREM OnSaleIsVetted == Spec => []OnSaleAsVetted
  <1>1. BackOfficeInv => OnSaleAsVetted
    BY DEF BackOfficeInv, SupplyInv, ProductInv, OnSaleAsVetted
  <1> QED
    BY <1>1, BackOfficeAlways, PTL

(* One courier hands a replacement over, in one shipment, for one fee,      *)
(* until a call writes over what another has changed.                       *)
THEOREM ReplacementIsDeliveredOnce == Spec => []OneDelivery
  <1>1. BackOfficeInv => OneDelivery
    <2> SUFFICES ASSUME BackOfficeInv
                 PROVE  Replacement!OneCourier /\ Replacement!OneShipment /\ Replacement!FeeForDelivery
      BY DEF OneDelivery, Follows
    <2>0. ReplacementInv /\ Replacement!TypeOK
      BY DEF BackOfficeInv, ReplacementInv
    <2>1. Replacement!OneCourier
      <3> SUFFICES ASSUME Couriers
                   PROVE  /\ Replacement!Cardinality({a \in Assignments :
                               task[a] \in Replacement!Active \cup {"DELIVERED"}}) <= 1
                          /\ repl = "COMPLETED" => ~Replacement!Occupied
                          /\ repl = "PENDING_DISPATCH" => \A a \in Assignments : task[a] = "NONE"
                          /\ \A a \in Assignments : task[a] = "DELIVERED" => repl = "COMPLETED"
        BY <2>0 DEF ReplacementInv, Replacement!OneCourier
      <3> DEFINE S == {a \in Assignments : task[a] \in Taken}
      <3>1. Cardinality(S) <= 1
        <4>1. CASE S = {}
          BY <4>1, FS_EmptySet
        <4>2. CASE S # {}
          <5>1. PICK a : S = {a}
            BY <4>2 DEF Couriers
          <5> QED
            BY <5>1, FS_Singleton
        <4> QED
          BY <4>1, <4>2
      <3> QED
        BY <3>1, ReplacementCardinality DEF Couriers, Taken
    <2>2. Replacement!OneShipment
      <3>1. \A a \in waybill : shipments[a] > 0
        BY <2>0 DEF ReplacementInv
      <3>2. ~replStale => Shipments
        BY <2>0 DEF ReplacementInv
      <3> QED
        BY <3>1, <3>2 DEF Replacement!OneShipment, Shipments, Started
    <2>3. Replacement!FeeForDelivery
      BY <2>0, ReplacementCardinality DEF ReplacementInv, Replacement!FeeForDelivery, Fees, Paid
    <2> QED
      BY <2>1, <2>2, <2>3
  <1> QED
    BY <1>1, BackOfficeAlways, PTL

(* A decision, a publication and the end of a replacement stand unless a    *)
(* call writes over what it had not read; a fee once paid out stands.       *)
THEOREM WhatIsFinalStands == Spec => FinalIsFinal
  <1> DEFINE Stands == /\ Supply!DecisionStands /\ Supply!PublicationStands
                       /\ Replacement!ReplacementStands /\ Replacement!PaidFeeStands
  <1>1. BackOfficeInv /\ [Next]_vars => [Stands]_vars
    BY BackOfficeStep
  <1>2. Spec => [][Stands]_vars
    <2> HIDE DEF Stands
    <2> QED
      BY <1>1, BackOfficeAlways, PTL DEF Spec
  <1> QED
    BY <1>2 DEF FinalIsFinal

-----------------------------------------------------------------------------
(* The cart page and the checkout page *)

Amounts == [cart : Nat, lines : Nat]
Prices == [lines : Nat, code : (CouponCodes \cap Codes) \cup {NoCode}]
Placing == [cart : Nat, code : Codes \cup {NoCode}, shown : [price : Prices, sure : BOOLEAN]]

CheckoutScreen ==
  [page : {"home", "cart", "checkout", "order"}, clicks : Nat, badge : Nat, cart : {None} \cup Amounts,
   code : Codes \cup {NoCode}, applied : Codes \cup {NoCode, None}, preview : {None} \cup Prices,
   busy : BOOLEAN, sure : BOOLEAN]

CheckoutCall(c) ==
  /\ c = [kind |-> c.kind, arg |-> c.arg, live |-> c.live, reply |-> c.reply]
  /\ c.kind \in {"badge", "load", "add", "set", "clear", "preview", "place"} /\ c.live \in BOOLEAN
  /\ c.kind = "set" => c.arg \in Amounts
  /\ c.kind = "preview" => c.arg \in [cart : Nat, code : Codes \cup {NoCode}]
  /\ c.kind = "place" => c.arg \in Placing
  /\ c.reply \in {None, Refused} \cup (IF c.kind = "preview" THEN Prices ELSE Amounts)

HeldTypes ==
  /\ held = [cart |-> held.cart, lines |-> held.lines, orders |-> held.orders]
  /\ held.cart \in Nat /\ held.lines \in 0 .. Stock

CheckoutTypes == screen \in CheckoutScreen /\ (\A c \in calls : CheckoutCall(c)) /\ HeldTypes

(* The active cart has not been ordered yet.                                 *)
OrdersOfCarts ==
  \A o \in held.orders :
    /\ o.cart \in Nat /\ o.cart < held.cart
    /\ o.shown.sure => o.charged = o.shown.price
    /\ \A p \in held.orders : p.cart = o.cart => p = o

(* A placement that has shown what the cart costs is the only write, and the *)
(* cart still costs that.                                                    *)
PlacingAsShown ==
  \A c \in calls : c.kind = "place" /\ c.arg.shown.sure =>
    /\ \A d \in calls : d.kind \in Checkout!Writes => d = c
    /\ c.reply = None /\ Checkout!OwnActiveCart(c) => c.arg.shown.price = Checkout!Price(c)

(* What is asked for on which page.                                          *)
AskedOnPage ==
  /\ screen.page # "checkout" => screen.preview = None
  /\ screen.page \in {"home", "order"} => screen.cart = None
  /\ \A c \in calls :
       /\ c.live /\ c.kind = "preview" => screen.page = "checkout"
       /\ c.live /\ c.kind = "load" => screen.page \in {"cart", "checkout"}
       /\ c.live /\ c.kind \in {"set", "clear"} => screen.page = "cart"
       /\ c.kind \in {"badge", "load"} => c.reply # Refused

Written(c) == c.kind \in Checkout!Writes /\ c.reply \notin {None, Refused}

(* While the page is sure, no call under way crosses another: a write is     *)
(* alone and on its page, and what was answered is so.                       *)
InTime(c) ==
  /\ c.kind \in {"badge", "load"} /\ c.reply # None => c.reply = Checkout!Cart(held)
  /\ c.kind = "preview" /\ c.reply \notin {None, Refused} => c.reply = Checkout!Price(c)
  /\ c.kind = "preview" /\ c.live =>
       /\ c.arg.cart = held.cart
       /\ screen.applied # None => c.arg.code = screen.applied
  /\ c.kind \in {"set", "clear"} => c.live
  /\ c.kind = "add" => screen.page = "home"
  /\ c.kind \in {"set", "clear", "add"} /\ Written(c) => c.reply = Checkout!Cart(held)

ShownInTime ==
  /\ screen.cart # None => screen.cart = Checkout!Cart(held)
  /\ (\A c \in calls : c.kind # "badge") => screen.badge = held.lines
  /\ (\A c \in calls : c.kind = "preview" => ~c.live) /\ screen.preview # None /\ screen.applied # None /\ held.lines > 0
       => screen.preview = [lines |-> held.lines, code |-> screen.applied]

SureIsInTime ==
  screen.sure =>
    /\ \A c, d \in calls : c # d => ~Checkout!Cross(c, d)
    /\ \A c \in calls : InTime(c)
    /\ (\A c \in calls : ~Written(c)) => ShownInTime

CheckoutPageInv == CheckoutTypes /\ OrdersOfCarts /\ PlacingAsShown /\ AskedOnPage /\ SureIsInTime

LEMMA CheckoutPageInit == Checkout!Init => CheckoutPageInv
  <1> SUFFICES ASSUME Checkout!Init PROVE CheckoutPageInv
    OBVIOUS
  <1>1. /\ screen = [page |-> "home", clicks |-> 0, badge |-> 0, cart |-> None, code |-> NoCode,
                     applied |-> NoCode, preview |-> None, busy |-> FALSE, sure |-> TRUE]
        /\ calls = {[kind |-> "badge", arg |-> None, live |-> TRUE, reply |-> None]}
        /\ held = [cart |-> 1, lines |-> 1, orders |-> {}]
    BY DEF Checkout!Init, Checkout!Blank, Checkout!Call
  <1>2. CheckoutTypes
    BY <1>1, PageAssumption DEF CheckoutTypes, HeldTypes, CheckoutScreen, CheckoutCall
  <1>3. OrdersOfCarts /\ PlacingAsShown /\ AskedOnPage
    BY <1>1, PageAssumption DEF OrdersOfCarts, PlacingAsShown, AskedOnPage
  <1>4. SureIsInTime
    BY <1>1 DEF SureIsInTime, InTime, ShownInTime, Written, Checkout!Writes
  <1> QED
    BY <1>2, <1>3, <1>4 DEF CheckoutPageInv

(* What becomes of a call while it is under way.                             *)
LEMMA CallChanges ==
  ASSUME NEW c, CheckoutCall(c)
  PROVE  /\ [c EXCEPT !.live = FALSE] = [kind |-> c.kind, arg |-> c.arg, live |-> FALSE, reply |-> c.reply]
         /\ \A r : [c EXCEPT !.reply = r] = [kind |-> c.kind, arg |-> c.arg, live |-> c.live, reply |-> r]
         /\ c.kind = "place" =>
              [c EXCEPT !.arg.shown.sure = FALSE]
                = [kind |-> "place", live |-> c.live, reply |-> c.reply,
                   arg |-> [cart |-> c.arg.cart, code |-> c.arg.code,
                            shown |-> [price |-> c.arg.shown.price, sure |-> FALSE]]]
  <1>0. PICK k, a, l, r : c = [kind |-> k, arg |-> a, live |-> l, reply |-> r]
    BY DEF CheckoutCall
  <1>1. /\ \A x : [c EXCEPT !.live = x] = [kind |-> k, arg |-> a, live |-> x, reply |-> r]
        /\ \A x : [c EXCEPT !.reply = x] = [kind |-> k, arg |-> a, live |-> l, reply |-> x]
        /\ \A x : [c EXCEPT !.arg = x] = [kind |-> k, arg |-> x, live |-> l, reply |-> r]
    BY <1>0
  <1>2. ASSUME c.kind = "place"
        PROVE  [c EXCEPT !.arg.shown.sure = FALSE]
                = [kind |-> "place", live |-> c.live, reply |-> c.reply,
                   arg |-> [cart |-> c.arg.cart, code |-> c.arg.code,
                            shown |-> [price |-> c.arg.shown.price, sure |-> FALSE]]]
    <2>1. PICK n, x, p, t : a = [cart |-> n, code |-> x, shown |-> [price |-> p, sure |-> t]]
      <3>1. a \in Placing
        BY <1>0, <1>2 DEF CheckoutCall
      <3>2. a = [cart |-> a.cart, code |-> a.code, shown |-> a.shown]
        BY <3>1 DEF Placing
      <3>3. a.shown = [price |-> a.shown.price, sure |-> a.shown.sure]
        BY <3>1 DEF Placing
      <3> QED
        BY <3>2, <3>3
    <2>2. \A y : [a EXCEPT !.shown.sure = y] = [cart |-> n, code |-> x, shown |-> [price |-> p, sure |-> y]]
      BY <2>1
    <2>3. [c EXCEPT !.arg.shown.sure = FALSE] = [c EXCEPT !.arg = [a EXCEPT !.shown.sure = FALSE]]
      BY <1>0
    <2>4. a.cart = n /\ a.code = x /\ a.shown.price = p
      BY <2>1
    <2>5. c.arg = a /\ c.live = l /\ c.reply = r /\ k = "place"
      BY <1>0, <1>2
    <2> QED
      BY <1>1, <2>2, <2>3, <2>4, <2>5, Zenon
  <1>3. c.kind = k /\ c.arg = a /\ c.live = l /\ c.reply = r
    BY <1>0
  <1> QED
    BY <1>1, <1>2, <1>3, Zenon

(* A call after others were sent.                                            *)
After(c, d) ==
  /\ c.kind = d.kind /\ c.live = d.live /\ c.reply = d.reply
  /\ c = d \/ (c.kind = "place" /\ ~c.arg.shown.sure)

(* What the screen shows, but for the flag.                                  *)
ButSure(s, t) ==
  /\ s.page = t.page /\ s.clicks = t.clicks /\ s.badge = t.badge /\ s.cart = t.cart /\ s.code = t.code
  /\ s.applied = t.applied /\ s.preview = t.preview /\ s.busy = t.busy

(* Sending keeps the types; and a placement among the others is not sure any *)
(* longer of what it has shown.                                              *)
LEMMA CheckoutSends ==
  ASSUME CheckoutTypes, NEW s \in CheckoutScreen, NEW new, NEW others, Checkout!Send(s, new, others),
         \A c \in new \cup others : CheckoutCall(c)
  PROVE  /\ CheckoutTypes' /\ ButSure(screen', s) /\ held' = held
         /\ screen'.sure = (s.sure /\ ~\E c \in others, d \in new : Checkout!Cross(c, d))
         /\ \A c \in calls' : c \in new \/ \E d \in others : After(c, d)
         /\ screen'.sure => calls' = others \cup new
         /\ new # {} => \A c \in calls' : c.kind = "place" /\ c.arg.shown.sure => c \in new
  <1> DEFINE crossed == \E c \in others, d \in new : Checkout!Cross(c, d)
  <1>1. /\ calls' = (IF crossed THEN Checkout!Unsure(others) ELSE others) \cup new
        /\ screen' = [s EXCEPT !.sure = @ /\ ~crossed]
        /\ held' = held
    BY DEF Checkout!Send
  <1>2. screen' \in CheckoutScreen /\ ButSure(screen', s) /\ screen'.sure = (s.sure /\ ~crossed)
    <2>1. crossed \in BOOLEAN
      OBVIOUS
    <2> HIDE DEF crossed
    <2> QED
      BY <1>1, <2>1 DEF CheckoutScreen, ButSure
  <1>3. ASSUME NEW c \in Checkout!Unsure(others)
        PROVE  /\ CheckoutCall(c) /\ \E d \in others : After(c, d)
               /\ c.kind = "place" => ~c.arg.shown.sure
    <2>1. PICK d \in others : c = IF d.kind = "place" THEN [d EXCEPT !.arg.shown.sure = FALSE] ELSE d
      BY DEF Checkout!Unsure
    <2>2. CASE d.kind # "place"
      BY <2>1, <2>2 DEF After
    <2>3. CASE d.kind = "place"
      <3>1. c = [kind |-> "place", live |-> d.live, reply |-> d.reply,
                 arg |-> [cart |-> d.arg.cart, code |-> d.arg.code,
                          shown |-> [price |-> d.arg.shown.price, sure |-> FALSE]]]
        BY <2>1, <2>3, CallChanges
      <3>2. CheckoutCall(d) /\ d.arg \in Placing
        BY <2>3 DEF CheckoutCall
      <3>3. c.arg \in Placing
        BY <3>1, <3>2 DEF Placing
      <3> QED
        BY <2>3, <3>1, <3>2, <3>3 DEF CheckoutCall, After
    <2> QED
      BY <2>2, <2>3
  <1>4. \A c \in calls' : CheckoutCall(c) /\ (c \in new \/ \E d \in others : After(c, d))
    <2> SUFFICES ASSUME NEW c \in calls', c \notin new
                 PROVE  CheckoutCall(c) /\ \E d \in others : After(c, d)
      OBVIOUS
    <2>1. CASE crossed
      BY <1>1, <1>3, <2>1
    <2>2. CASE ~crossed
      BY <1>1, <2>2 DEF After
    <2> QED
      BY <2>1, <2>2
  <1>5. ASSUME new # {}, NEW c \in calls', c.kind = "place", c.arg.shown.sure, c \notin new PROVE FALSE
    <2>1. CASE crossed
      BY <1>1, <1>3, <1>5, <2>1
    <2>2. CASE ~crossed
      BY <1>1, <1>5, <2>2 DEF Checkout!Cross, Checkout!Writes
    <2> QED
      BY <2>1, <2>2
  <1>6. CheckoutTypes'
    BY <1>1, <1>2, <1>4 DEF CheckoutTypes, HeldTypes
  <1>7. screen'.sure => calls' = others \cup new
    <2> HIDE DEF crossed
    <2> QED
      BY <1>1, <1>2
  <1> QED
    BY <1>1, <1>2, <1>4, <1>5, <1>6, <1>7

(* A page opens: what it asks for crosses any write.                         *)
LEMMA PageOpens ==
  ASSUME CheckoutPageInv, NEW S \in SUBSET calls, NEW page \in {"home", "cart", "checkout", "order"},
         NEW clicks \in Nat, NEW new,
         NEW loads \in BOOLEAN, loads => page \in {"cart", "checkout"},
         new = {Checkout!Call("badge", None)} \cup (IF loads THEN {Checkout!Call("load", None)} ELSE {}),
         Checkout!Send(Checkout!Blank(page, screen.badge, screen.sure \/ S = {}, clicks), new, Checkout!Orphans(S))
  PROVE  CheckoutPageInv'
  <1>1. PICK s : s = Checkout!Blank(page, screen.badge, screen.sure \/ S = {}, clicks)
    OBVIOUS
  <1>2. PICK others : others = Checkout!Orphans(S)
    OBVIOUS
  <1>3. /\ s \in CheckoutScreen /\ s.page = page /\ s.preview = None /\ s.cart = None
        /\ s.sure = (screen.sure \/ S = {})
    <2>1. (screen.sure \/ S = {}) \in BOOLEAN
      OBVIOUS
    <2>2. s = [page |-> page, clicks |-> clicks, badge |-> screen.badge, cart |-> None, code |-> NoCode,
               applied |-> NoCode, preview |-> None, busy |-> FALSE, sure |-> (screen.sure \/ S = {})]
      BY <1>1 DEF Checkout!Blank
    <2> QED
      BY <2>1, <2>2 DEF CheckoutPageInv, CheckoutTypes, HeldTypes, CheckoutScreen
  <1>4. \A c \in new : /\ CheckoutCall(c) /\ c.reply = None /\ c.kind \in {"badge", "load"}
                       /\ c.kind = "load" => page \in {"cart", "checkout"}
    <2>1. ASSUME NEW k \in {"badge", "load"}, NEW c, c = Checkout!Call(k, None)
          PROVE  CheckoutCall(c) /\ c.reply = None /\ c.kind = k
      BY <2>1 DEF Checkout!Call, CheckoutCall
    <2>2. \A c \in new : c = Checkout!Call("badge", None) \/ (loads /\ c = Checkout!Call("load", None))
      OBVIOUS
    <2>3. Checkout!Call("badge", None).kind = "badge"
      BY DEF Checkout!Call
    <2> QED
      BY <2>1, <2>2, <2>3
  <1>5. (\E c \in new : c.kind = "badge") /\ new # {}
    <2>1. Checkout!Call("badge", None) \in new /\ Checkout!Call("badge", None).kind = "badge"
      BY DEF Checkout!Call
    <2> QED
      BY <2>1
  <1>6. ASSUME NEW c \in others
        PROVE  \E d \in S : c = [kind |-> d.kind, arg |-> d.arg, live |-> FALSE, reply |-> d.reply] /\ CheckoutCall(d)
    BY <1>2, CallChanges DEF Checkout!Orphans, CheckoutPageInv, CheckoutTypes, HeldTypes
  <1>7. ASSUME NEW c \in others PROVE CheckoutCall(c) /\ ~c.live
    <2>1. PICK d \in S : c = [kind |-> d.kind, arg |-> d.arg, live |-> FALSE, reply |-> d.reply] /\ CheckoutCall(d)
      BY <1>6
    <2> QED
      BY <2>1 DEF CheckoutCall
  <1>8. /\ CheckoutTypes' /\ ButSure(screen', s) /\ held' = held
        /\ screen'.sure = (s.sure /\ ~\E c \in others, d \in new : Checkout!Cross(c, d))
        /\ \A c \in calls' : c \in new \/ \E d \in others : After(c, d)
        /\ screen'.sure => calls' = others \cup new
        /\ new # {} => \A c \in calls' : c.kind = "place" /\ c.arg.shown.sure => c \in new
    <2>1. Checkout!Send(s, new, others)
      BY <1>1, <1>2
    <2>2. \A c \in new \cup others : CheckoutCall(c)
      BY <1>4, <1>7
    <2> QED
      BY <1>3, <2>1, <2>2, CheckoutSends DEF CheckoutPageInv
  <1>9. OrdersOfCarts'
    BY <1>8 DEF CheckoutPageInv, OrdersOfCarts
  <1>10. PlacingAsShown'
    BY <1>4, <1>5, <1>8 DEF PlacingAsShown
  <1>11. AskedOnPage'
    <2>1. \A c \in others : c.kind \in {"badge", "load"} => c.reply # Refused
      BY <1>6 DEF CheckoutPageInv, AskedOnPage
    <2> QED
      BY <1>3, <1>4, <1>7, <1>8, <2>1, PageAssumption DEF ButSure, After, AskedOnPage
  <1>12. SureIsInTime'
    <2> SUFFICES ASSUME screen'.sure PROVE SureIsInTime'
      BY DEF SureIsInTime
    <2>1. /\ calls' = others \cup new
          /\ screen.sure \/ S = {}
          /\ \A c \in others, d \in new : ~Checkout!Cross(c, d)
      BY <1>3, <1>8
    <2>2. \A c \in others : c.kind \notin Checkout!Writes
      BY <1>5, <2>1 DEF Checkout!Cross
    <2>3. ASSUME NEW c \in others, NEW d \in others, c # d PROVE ~Checkout!Cross(c, d)
      <3>1. PICK x \in S : c = [kind |-> x.kind, arg |-> x.arg, live |-> FALSE, reply |-> x.reply] /\ CheckoutCall(x)
        BY <1>6
      <3>2. PICK y \in S : d = [kind |-> y.kind, arg |-> y.arg, live |-> FALSE, reply |-> y.reply] /\ CheckoutCall(y)
        BY <1>6
      <3>3. x # y /\ screen.sure
        BY <2>1, <2>3, <3>1, <3>2
      <3>4. ~Checkout!Cross(x, y)
        BY <3>3 DEF CheckoutPageInv, SureIsInTime
      <3> QED
        BY <3>1, <3>2, <3>4 DEF Checkout!Cross
    <2>4. \A c, d \in calls' : c # d => ~Checkout!Cross(c, d)
      <3>1. \A c \in new, d \in new \cup others : ~Checkout!Cross(c, d) /\ ~Checkout!Cross(d, c)
        BY <1>4, <2>2 DEF Checkout!Cross, Checkout!Writes
      <3> QED
        BY <2>1, <2>3, <3>1
    <2>5. ASSUME NEW c \in others PROVE InTime(c)'
      <3>1. PICK x \in S : c = [kind |-> x.kind, arg |-> x.arg, live |-> FALSE, reply |-> x.reply] /\ CheckoutCall(x)
        BY <1>6
      <3>2. InTime(x)
        BY <2>1 DEF CheckoutPageInv, SureIsInTime
      <3>3. c.kind \notin Checkout!Writes /\ c.live = FALSE
        BY <2>2, <3>1
      <3> QED
        BY <1>8, <3>1, <3>2, <3>3 DEF InTime, Checkout!Writes, Checkout!Price, Checkout!Cart
    <2>6. \A c \in calls' : InTime(c)'
      <3>1. \A c \in new : InTime(c)'
        BY <1>4 DEF InTime
      <3> QED
        BY <2>1, <2>5, <3>1
    <2>7. ShownInTime'
      BY <1>3, <1>5, <1>8, <2>1 DEF ShownInTime, ButSure
    <2> QED
      BY <2>4, <2>6, <2>7 DEF SureIsInTime
  <1> QED
    BY <1>8, <1>9, <1>10, <1>11, <1>12 DEF CheckoutPageInv

(* What a screen has when a button is clicked: all that it had, and a click. *)
SameBut(s, fields) ==
  \A f \in {"page", "badge", "cart", "code", "applied", "preview", "busy", "sure"} \ fields : s[f] = screen[f]

LEMMA CheckoutClicked ==
  ASSUME CheckoutTypes
  PROVE  Checkout!Clicked \in CheckoutScreen /\ SameBut(Checkout!Clicked, {})
  BY DEF CheckoutTypes, HeldTypes, CheckoutScreen, SameBut, Checkout!Clicked

(* A write crosses every other call: if the page stays sure, it is alone.    *)
LEMMA PageWrites ==
  ASSUME CheckoutPageInv, NEW s \in CheckoutScreen, SameBut(s, {"clicks", "busy"}), NEW w, CheckoutCall(w),
         w.kind \in Checkout!Writes, w.live, w.reply = None, Checkout!Send(s, {w}, calls),
         w.kind \in {"set", "clear"} => screen.page = "cart",
         w.kind = "add" => screen.page = "home",
         w.kind = "place" /\ w.arg.shown.sure =>
           /\ \A c \in calls : c.kind \notin Checkout!Writes
           /\ Checkout!OwnActiveCart(w) => w.arg.shown.price = Checkout!Price(w)
  PROVE  CheckoutPageInv'
  <1>1. /\ CheckoutTypes' /\ ButSure(screen', s) /\ held' = held
        /\ screen'.sure = (s.sure /\ ~\E c \in calls, d \in {w} : Checkout!Cross(c, d))
        /\ \A c \in calls' : c \in {w} \/ \E d \in calls : After(c, d)
        /\ screen'.sure => calls' = calls \cup {w}
        /\ {w} # {} => \A c \in calls' : c.kind = "place" /\ c.arg.shown.sure => c \in {w}
    <2>1. \A c \in {w} \cup calls : CheckoutCall(c)
      BY DEF CheckoutPageInv, CheckoutTypes, HeldTypes
    <2>2. PICK new : new = {w}
      OBVIOUS
    <2> QED
      BY <2>1, <2>2, CheckoutSends DEF CheckoutPageInv
  <1>2. OrdersOfCarts'
    BY <1>1 DEF CheckoutPageInv, OrdersOfCarts
  <1>3. /\ screen'.page = screen.page /\ screen'.preview = screen.preview /\ screen'.cart = screen.cart
        /\ screen'.badge = screen.badge /\ screen'.applied = screen.applied /\ (screen'.sure => screen.sure)
    BY <1>1 DEF SameBut, ButSure
  <1>4. PlacingAsShown'
    <2> SUFFICES ASSUME NEW c \in calls', c.kind = "place", c.arg.shown.sure
                 PROVE  /\ \A d \in calls' : d.kind \in Checkout!Writes => d = c
                        /\ c.reply = None /\ Checkout!OwnActiveCart(c)' => c.arg.shown.price = Checkout!Price(c)'
      BY DEF PlacingAsShown
    <2>1. c = w
      BY <1>1
    <2>2. \A d \in calls' : d.kind \in Checkout!Writes => d = c
      BY <1>1, <2>1 DEF After
    <2> QED
      BY <1>1, <2>1, <2>2 DEF Checkout!OwnActiveCart, Checkout!Price
  <1>5. AskedOnPage'
    BY <1>1, <1>3 DEF AskedOnPage, After, CheckoutPageInv, Checkout!Writes
  <1>6. SureIsInTime'
    <2> SUFFICES ASSUME screen'.sure PROVE SureIsInTime'
      BY DEF SureIsInTime
    <2>1. calls = {} /\ calls' = {w}
      BY <1>1 DEF Checkout!Cross
    <2>2. InTime(w)'
      BY <1>3 DEF InTime, Written, Checkout!Writes
    <2>3. ShownInTime
      BY <1>3, <2>1 DEF CheckoutPageInv, SureIsInTime
    <2>4. ShownInTime'
      BY <1>1, <1>3, <2>1, <2>3 DEF ShownInTime, Checkout!Cart
    <2> QED
      BY <2>1, <2>2, <2>4 DEF SureIsInTime
  <1> QED
    BY <1>1, <1>2, <1>4, <1>5, <1>6 DEF CheckoutPageInv

(* A price is asked for under the coupon that is typed in.                   *)
LEMMA PageAsks ==
  ASSUME CheckoutPageInv, NEW s \in CheckoutScreen, SameBut(s, {"clicks", "cart"}), s.cart \in Amounts,
         s.page = "checkout", NEW others \in SUBSET calls, \A c \in calls \ others : c.kind = "load",
         screen.sure /\ (\A c \in calls : ~Written(c)) => s.cart = Checkout!Cart(held),
         Checkout!FetchPreview(s, others)
  PROVE  CheckoutPageInv'
  <1>1. PICK t : t = [s EXCEPT !.applied = s.code]
    OBVIOUS
  <1>2. PICK w : w = Checkout!Call("preview", [cart |-> s.cart.cart, code |-> s.code])
    OBVIOUS
  <1>3. /\ t \in CheckoutScreen /\ t.page = "checkout" /\ t.badge = screen.badge /\ t.cart = s.cart
        /\ t.applied = s.code /\ t.preview = screen.preview /\ t.sure = screen.sure
    BY <1>1 DEF CheckoutScreen, SameBut
  <1>4. /\ CheckoutCall(w) /\ w.kind = "preview" /\ w.reply = None
        /\ w.arg.cart = s.cart.cart /\ w.arg.code = s.code
    <2>1. s.cart.cart \in Nat /\ s.code \in Codes \cup {NoCode}
      BY DEF Amounts, CheckoutScreen
    <2>2. PICK a : a = [cart |-> s.cart.cart, code |-> s.code]
      OBVIOUS
    <2>3. a \in [cart : Nat, code : Codes \cup {NoCode}] /\ a.cart = s.cart.cart /\ a.code = s.code
      BY <2>1, <2>2
    <2>4. w = [kind |-> "preview", arg |-> a, live |-> TRUE, reply |-> None]
      BY <1>2, <2>2 DEF Checkout!Call
    <2> QED
      BY <2>3, <2>4 DEF CheckoutCall
  <1>5. /\ CheckoutTypes' /\ ButSure(screen', t) /\ held' = held
        /\ screen'.sure = (t.sure /\ ~\E c \in others, d \in {w} : Checkout!Cross(c, d))
        /\ \A c \in calls' : c \in {w} \/ \E d \in others : After(c, d)
        /\ screen'.sure => calls' = others \cup {w}
        /\ {w} # {} => \A c \in calls' : c.kind = "place" /\ c.arg.shown.sure => c \in {w}
    <2>1. \A c \in {w} \cup others : CheckoutCall(c)
      BY <1>4 DEF CheckoutPageInv, CheckoutTypes, HeldTypes
    <2>2. PICK new : new = {w}
      OBVIOUS
    <2>3. Checkout!Send(t, new, others)
      BY <1>1, <1>2, <2>2 DEF Checkout!FetchPreview
    <2> QED
      BY <1>3, <2>1, <2>2, <2>3, CheckoutSends DEF CheckoutPageInv
  <1>6. OrdersOfCarts'
    BY <1>5 DEF CheckoutPageInv, OrdersOfCarts
  <1>7. PlacingAsShown'
    BY <1>4, <1>5 DEF PlacingAsShown
  <1>8. AskedOnPage'
    <2>1. screen'.page = screen.page /\ screen.page = "checkout"
      BY <1>3, <1>5 DEF ButSure, SameBut
    <2> QED
      BY <1>4, <1>5, <2>1 DEF AskedOnPage, After, CheckoutPageInv
  <1>9. SureIsInTime'
    <2> SUFFICES ASSUME screen'.sure PROVE SureIsInTime'
      BY DEF SureIsInTime
    <2>1. /\ calls' = others \cup {w} /\ screen.sure
          /\ \A c \in others : ~Checkout!Cross(c, w)
      BY <1>3, <1>5
    <2>2. /\ \A c \in calls : c.kind \notin Checkout!Writes /\ ~Written(c)
          /\ \A c \in others : c.kind = "preview" => c.arg = w.arg
      BY <1>4, <2>1 DEF Checkout!Cross, Checkout!Writes, Written
    <2>3. ShownInTime /\ s.cart = Checkout!Cart(held)
      BY <2>1, <2>2 DEF CheckoutPageInv, SureIsInTime
    <2>4. w.arg.cart = held.cart /\ w.arg.code = screen'.applied /\ screen'.cart = Checkout!Cart(held)
      BY <1>3, <1>4, <1>5, <2>3 DEF ButSure, Checkout!Cart
    <2>5. \A c, d \in calls' : c # d => ~Checkout!Cross(c, d)
      <3>1. \A c \in others : ~Checkout!Cross(c, w) /\ ~Checkout!Cross(w, c)
        BY <2>1 DEF Checkout!Cross
      <3>2. \A c, d \in others : c # d => ~Checkout!Cross(c, d)
        BY <2>1 DEF CheckoutPageInv, SureIsInTime
      <3> QED
        BY <2>1, <3>1, <3>2
    <2>6. ASSUME NEW c \in calls' PROVE InTime(c)'
      <3>1. CASE c = w
        BY PageAssumption, <1>4, <1>5, <2>4, <3>1 DEF InTime
      <3>2. CASE c \in others
        <4>1. InTime(c) /\ c.kind \notin Checkout!Writes
          BY <2>1, <2>2, <3>2 DEF CheckoutPageInv, SureIsInTime
        <4>2. c.kind = "preview" => c.arg.cart = held.cart /\ c.arg.code = screen'.applied
          BY <2>2, <2>4, <3>2
        <4> QED
          BY <1>5, <4>1, <4>2 DEF InTime, Checkout!Writes, Checkout!Cart, Checkout!Price
      <3> QED
        BY <2>1, <3>1, <3>2
    <2>7. ShownInTime'
      <3>1. (\A c \in calls' : c.kind # "badge") => \A c \in calls : c.kind # "badge"
        BY <2>1
      <3>2. \E c \in calls' : c.kind = "preview" /\ c.live
        BY <1>2, <2>1 DEF Checkout!Call
      <3> QED
        BY <1>3, <1>5, <2>3, <2>4, <3>1, <3>2 DEF ShownInTime, ButSure, Checkout!Cart
    <2> QED
      BY <2>5, <2>6, <2>7 DEF SureIsInTime
  <1> QED
    BY <1>5, <1>6, <1>7, <1>8, <1>9 DEF CheckoutPageInv

(* An answer is taken off, and shown: what does not depend on what it says.  *)
LEMMA PageShows ==
  ASSUME CheckoutPageInv, NEW c \in calls, NEW s \in CheckoutScreen, s.page = screen.page,
         s.page # "checkout" => s.preview = None, s.page \in {"home", "order"} => s.cart = None,
         Checkout!Show(s, c), s.sure => SureIsInTime'
  PROVE  CheckoutPageInv'
  <1>1. screen' = s /\ calls' = calls \ {c} /\ held' = held
    BY DEF Checkout!Show
  <1>2. CheckoutTypes'
    BY <1>1 DEF CheckoutPageInv, CheckoutTypes, HeldTypes
  <1>3. OrdersOfCarts' /\ PlacingAsShown'
    BY <1>1 DEF CheckoutPageInv, OrdersOfCarts, PlacingAsShown, Checkout!OwnActiveCart, Checkout!Price
  <1>4. AskedOnPage'
    BY <1>1 DEF CheckoutPageInv, AskedOnPage
  <1>5. SureIsInTime'
    BY <1>1 DEF SureIsInTime
  <1> QED
    BY <1>2, <1>3, <1>4, <1>5 DEF CheckoutPageInv

(* What remains of the calls is in time while the page does not change, and  *)
(* what was shown before is shown still.                                     *)
LEMMA OthersInTime ==
  ASSUME CheckoutPageInv, NEW c \in calls, NEW s \in CheckoutScreen, Checkout!Show(s, c),
         s.page = screen.page, s.applied \in {screen.applied, None}, s.sure => screen.sure,
         s.sure /\ (\A d \in calls \ {c} : ~Written(d)) => ShownInTime'
  PROVE  SureIsInTime'
  <1>1. screen' = s /\ calls' = calls \ {c} /\ held' = held
    BY DEF Checkout!Show
  <1> SUFFICES ASSUME screen'.sure PROVE SureIsInTime'
    BY DEF SureIsInTime
  <1>2. \A d \in calls' : InTime(d)'
    BY <1>1 DEF CheckoutPageInv, SureIsInTime, InTime, Written, Checkout!Price, Checkout!Cart
  <1>3. \A d, e \in calls' : d # e => ~Checkout!Cross(d, e)
    BY <1>1 DEF CheckoutPageInv, SureIsInTime
  <1>4. (\A d \in calls' : ~Written(d)) => ShownInTime'
    BY <1>1
  <1> QED
    BY <1>2, <1>3, <1>4 DEF SureIsInTime, Written

(* A write that was answered is the only call there is.                      *)
LEMMA AloneInTime ==
  ASSUME CheckoutPageInv, screen.sure, NEW c \in calls, c.kind \in Checkout!Writes
  PROVE  calls = {c} /\ InTime(c)
  BY DEF CheckoutPageInv, SureIsInTime, Checkout!Cross

LEMMA BadgeAnswered ==
  ASSUME CheckoutPageInv, NEW c \in calls, Checkout!AnswerBadge(c)
  PROVE  CheckoutPageInv'
  <1>1. PICK s : s = [screen EXCEPT !.badge = c.reply.lines]
    OBVIOUS
  <1>2. c.reply \in Amounts /\ c.reply \notin {None, Refused} /\ c.kind \in {"badge", "add"} /\ Checkout!Show(s, c)
    BY <1>1 DEF Checkout!AnswerBadge, Checkout!Received, CheckoutPageInv, CheckoutTypes, HeldTypes, CheckoutCall
  <1>3. s \in CheckoutScreen /\ SameBut(s, {"badge"}) /\ s.badge = c.reply.lines
    BY <1>1, <1>2 DEF CheckoutPageInv, CheckoutTypes, HeldTypes, CheckoutScreen, SameBut, Amounts
  <1>4. screen' = s /\ calls' = calls \ {c} /\ held' = held
    BY <1>2 DEF Checkout!Show
  <1>5. ASSUME s.sure, \A d \in calls \ {c} : ~Written(d) PROVE ShownInTime'
    <2>1. screen.sure /\ InTime(c)
      BY <1>3, <1>5 DEF SameBut, CheckoutPageInv, SureIsInTime
    <2>2. c.reply = Checkout!Cart(held)
      BY <1>2, <2>1 DEF InTime, Written, Checkout!Writes
    <2>3. CASE c.kind = "badge"
      <3>1. ShownInTime
        BY <1>5, <2>1, <2>3 DEF CheckoutPageInv, SureIsInTime, Written, Checkout!Writes
      <3> QED
        BY <1>3, <1>4, <2>2, <2>3, <3>1 DEF ShownInTime, SameBut, Checkout!Cart
    <2>4. CASE c.kind = "add"
      <3>1. screen.page = "home" /\ screen.cart = None /\ screen.preview = None
        BY <2>1, <2>4 DEF InTime, CheckoutPageInv, AskedOnPage
      <3> QED
        BY <1>3, <1>4, <2>2, <3>1 DEF ShownInTime, SameBut, Checkout!Cart
    <2> QED
      BY <1>2, <2>3, <2>4
  <1>6. SureIsInTime'
    BY <1>2, <1>3, <1>5, OthersInTime DEF SameBut
  <1> QED
    BY <1>2, <1>3, <1>6, PageShows DEF SameBut, CheckoutPageInv, AskedOnPage

LEMMA LoadAnswered ==
  ASSUME CheckoutPageInv, NEW c \in calls, Checkout!AnswerLoad(c)
  PROVE  CheckoutPageInv'
  <1>1. PICK s : s = [screen EXCEPT !.cart = c.reply]
    OBVIOUS
  <1>2. c.reply \in Amounts /\ c.reply \notin {None, Refused} /\ c.kind = "load"
    BY DEF Checkout!AnswerLoad, Checkout!Received, CheckoutPageInv, CheckoutTypes, HeldTypes, CheckoutCall
  <1>3. s \in CheckoutScreen /\ SameBut(s, {"cart"}) /\ s.cart = c.reply
    BY <1>1, <1>2 DEF CheckoutPageInv, CheckoutTypes, HeldTypes, CheckoutScreen, SameBut
  <1>4. screen.sure => c.reply = Checkout!Cart(held)
    BY <1>2 DEF CheckoutPageInv, SureIsInTime, InTime
  <1>5. CASE c.live /\ screen.page = "checkout"
    <2>1. Checkout!FetchPreview(s, calls \ {c})
      BY <1>1, <1>5 DEF Checkout!AnswerLoad
    <2>2. \A d \in calls \ (calls \ {c}) : d.kind = "load"
      BY <1>2
    <2>3. PICK others \in SUBSET calls : others = calls \ {c}
      OBVIOUS
    <2>4. s.cart \in Amounts /\ s.page = "checkout" /\ SameBut(s, {"clicks", "cart"})
      BY <1>2, <1>3, <1>5 DEF SameBut
    <2> QED
      BY <1>3, <1>4, <2>1, <2>2, <2>3, <2>4, PageAsks
  <1>6. CASE ~(c.live /\ screen.page = "checkout")
    <2>1. PICK t : t = IF c.live THEN s ELSE screen
      OBVIOUS
    <2>2. Checkout!Show(t, c)
      BY <1>1, <1>6, <2>1 DEF Checkout!AnswerLoad
    <2>3. /\ t \in CheckoutScreen /\ SameBut(t, {"cart"})
          /\ t.cart = IF c.live THEN c.reply ELSE screen.cart
      BY <1>3, <2>1 DEF CheckoutPageInv, CheckoutTypes, HeldTypes, SameBut
    <2>4. screen' = t /\ calls' = calls \ {c} /\ held' = held
      BY <2>2 DEF Checkout!Show
    <2>5. ASSUME t.sure, \A d \in calls \ {c} : ~Written(d) PROVE ShownInTime'
      <3>1. ShownInTime /\ c.reply = Checkout!Cart(held)
        BY <1>2, <1>4, <2>3, <2>5 DEF SameBut, CheckoutPageInv, SureIsInTime, Written, Checkout!Writes
      <3> QED
        BY <1>2, <2>3, <2>4, <3>1 DEF ShownInTime, SameBut, Checkout!Cart
    <2>6. SureIsInTime'
      BY <2>2, <2>3, <2>5, OthersInTime DEF SameBut
    <2>7. t.page \in {"home", "order"} => t.cart = None
      BY <1>2, <2>3 DEF SameBut, CheckoutPageInv, AskedOnPage
    <2> QED
      BY <2>2, <2>3, <2>6, <2>7, PageShows DEF SameBut, CheckoutPageInv, AskedOnPage
  <1> QED
    BY <1>5, <1>6

LEMMA LineAnswered ==
  ASSUME CheckoutPageInv, NEW c \in calls, Checkout!AnswerLine(c)
  PROVE  CheckoutPageInv'
  <1>1. PICK s : s = [screen EXCEPT !.badge = c.reply.lines, !.cart = IF c.live THEN c.reply ELSE @]
    OBVIOUS
  <1>2. /\ c.reply \in Amounts /\ c.reply \notin {None, Refused} /\ c.kind \in {"set", "clear"}
        /\ Checkout!Show(s, c)
    BY <1>1 DEF Checkout!AnswerLine, Checkout!Received, CheckoutPageInv, CheckoutTypes, HeldTypes, CheckoutCall
  <1>3. /\ s \in CheckoutScreen /\ SameBut(s, {"badge", "cart"}) /\ s.badge = c.reply.lines
        /\ s.cart = IF c.live THEN c.reply ELSE screen.cart
    BY <1>1, <1>2 DEF CheckoutPageInv, CheckoutTypes, HeldTypes, CheckoutScreen, SameBut, Amounts
  <1>4. screen' = s /\ calls' = calls \ {c} /\ held' = held
    BY <1>2 DEF Checkout!Show
  <1>5. ASSUME s.sure PROVE SureIsInTime'
    <2>1. screen.sure /\ calls = {c} /\ InTime(c)
      BY <1>2, <1>3, <1>5, AloneInTime DEF SameBut, Checkout!Writes
    <2>2. c.reply = Checkout!Cart(held) /\ c.live /\ screen.page = "cart" /\ screen.preview = None
      BY <1>2, <2>1 DEF InTime, Written, Checkout!Writes, CheckoutPageInv, AskedOnPage
    <2>3. ShownInTime'
      BY <1>3, <1>4, <2>2 DEF ShownInTime, SameBut, Checkout!Cart
    <2> QED
      BY <1>4, <2>1, <2>3 DEF SureIsInTime
  <1>6. s.page \in {"home", "order"} => s.cart = None
    BY <1>2, <1>3 DEF SameBut, CheckoutPageInv, AskedOnPage
  <1> QED
    BY <1>2, <1>3, <1>5, <1>6, PageShows DEF SameBut, CheckoutPageInv, AskedOnPage

LEMMA PreviewAnswered ==
  ASSUME CheckoutPageInv, NEW c \in calls, Checkout!AnswerPreview(c)
  PROVE  CheckoutPageInv'
  <1>1. PICK s : s = [screen EXCEPT !.preview = IF c.live THEN c.reply ELSE @]
    OBVIOUS
  <1>2. c.reply \in Prices /\ c.reply \notin {None, Refused} /\ c.kind = "preview" /\ Checkout!Show(s, c)
    BY <1>1 DEF Checkout!AnswerPreview, Checkout!Received, CheckoutPageInv, CheckoutTypes, HeldTypes, CheckoutCall
  <1>3. /\ s \in CheckoutScreen /\ SameBut(s, {"preview"})
        /\ s.preview = IF c.live THEN c.reply ELSE screen.preview
    BY <1>1, <1>2 DEF CheckoutPageInv, CheckoutTypes, HeldTypes, CheckoutScreen, SameBut
  <1>4. screen' = s /\ calls' = calls \ {c} /\ held' = held
    BY <1>2 DEF Checkout!Show
  <1>5. ASSUME s.sure, \A d \in calls \ {c} : ~Written(d) PROVE ShownInTime'
    <2>1. ShownInTime /\ InTime(c)
      BY <1>2, <1>3, <1>5 DEF SameBut, CheckoutPageInv, SureIsInTime, Written, Checkout!Writes
    <2>2. /\ c.reply = [lines |-> held.lines, code |-> c.arg.code]
          /\ c.live /\ screen.applied # None => c.arg.code = screen.applied
      BY <1>2, <2>1 DEF InTime, Checkout!Price
    <2>3. CASE c.live
      BY <1>2, <1>3, <1>4, <2>1, <2>2, <2>3 DEF ShownInTime, SameBut, Checkout!Cart
    <2>4. CASE ~c.live
      BY <1>2, <1>3, <1>4, <2>1, <2>4 DEF ShownInTime, SameBut, Checkout!Cart
    <2> QED
      BY <2>3, <2>4
  <1>6. SureIsInTime'
    BY <1>2, <1>3, <1>5, OthersInTime DEF SameBut
  <1>7. s.page # "checkout" => s.preview = None
    BY <1>2, <1>3 DEF SameBut, CheckoutPageInv, AskedOnPage
  <1> QED
    BY <1>2, <1>3, <1>6, <1>7, PageShows DEF SameBut, CheckoutPageInv, AskedOnPage

LEMMA PlaceAnswered ==
  ASSUME CheckoutPageInv, NEW c \in calls, Checkout!AnswerPlace(c)
  PROVE  CheckoutPageInv'
  <1>1. PICK S \in SUBSET calls : S = calls \ {c}
    OBVIOUS
  <1>2. PICK b : b = (screen.sure \/ S = {})
    OBVIOUS
  <1>3. b = (screen.sure \/ calls = {c})
    BY <1>1, <1>2
  <1>4. screen.clicks \in Nat
    BY DEF CheckoutPageInv, CheckoutTypes, HeldTypes, CheckoutScreen
  <1>5. PICK new : new = {Checkout!Call("badge", None)}
    OBVIOUS
  <1>6. Checkout!Send(Checkout!Blank("order", screen.badge, b, screen.clicks), new, Checkout!Orphans(S))
    BY <1>1, <1>3, <1>5, Zenon DEF Checkout!AnswerPlace
  <1> QED
    BY <1>2, <1>4, <1>5, <1>6, PageOpens

(* What fails leaves the page, or leaves it unsure.                          *)
LEMMA CheckoutFails ==
  ASSUME CheckoutPageInv, NEW c \in calls, Checkout!Refuse(c) \/ Checkout!Lose(c)
  PROVE  CheckoutPageInv'
  <1>1. PICK f : f = Checkout!Failed(c)
    OBVIOUS
  <1>2. /\ f \in CheckoutScreen /\ SameBut(f, {"busy", "applied"})
        /\ f.applied = IF c.kind = "preview" /\ c.live THEN None ELSE screen.applied
    <2>1. PICK b \in BOOLEAN : b = (screen.busy /\ ~(c.kind = "place" /\ c.live))
      OBVIOUS
    <2>2. PICK k \in Codes \cup {NoCode, None} : k = IF c.kind = "preview" /\ c.live THEN None ELSE screen.applied
      BY DEF CheckoutPageInv, CheckoutTypes, CheckoutScreen
    <2>3. f = [screen EXCEPT !.busy = b, !.applied = k]
      BY <1>1, <2>1, <2>2 DEF Checkout!Failed
    <2> QED
      BY <2>2, <2>3 DEF CheckoutPageInv, CheckoutTypes, CheckoutScreen, SameBut
  <1>3. CASE Checkout!Refuse(c)
    <2>1. Checkout!Show(f, c) /\ c.reply = Refused
      BY <1>1, <1>3 DEF Checkout!Refuse
    <2>2. screen' = f /\ calls' = calls \ {c} /\ held' = held
      BY <2>1 DEF Checkout!Show
    <2>3. ASSUME f.sure, \A d \in calls \ {c} : ~Written(d) PROVE ShownInTime'
      <3>1. ShownInTime /\ InTime(c) /\ c.kind # "badge"
        BY <1>2, <2>1, <2>3 DEF SameBut, CheckoutPageInv, SureIsInTime, AskedOnPage, Written
      <3> QED
        BY <1>2, <2>2, <3>1 DEF ShownInTime, SameBut, Checkout!Cart
    <2>4. SureIsInTime'
      BY <1>2, <2>1, <2>3, OthersInTime DEF SameBut
    <2> QED
      BY <1>2, <2>1, <2>4, PageShows DEF SameBut, CheckoutPageInv, AskedOnPage
  <1>4. CASE Checkout!Lose(c)
    <2>1. PICK s : s = [f EXCEPT !.sure = FALSE]
      OBVIOUS
    <2>2. s \in CheckoutScreen /\ SameBut(s, {"busy", "applied", "sure"}) /\ ~s.sure
      BY <1>2, <2>1 DEF CheckoutScreen, SameBut
    <2>3. Checkout!Show(s, c)
      BY <1>1, <1>4, <2>1 DEF Checkout!Lose
    <2> QED
      BY <2>2, <2>3, PageShows DEF SameBut, CheckoutPageInv, AskedOnPage
  <1> QED
    BY <1>3, <1>4

-----------------------------------------------------------------------------

(* The server answers a call.  A read says what there is.                    *)
LEMMA CheckoutReplies ==
  ASSUME CheckoutPageInv, NEW c \in calls, NEW r, Checkout!Replied(c, r), c.reply = None, r # None,
         r \in {Refused} \cup (IF c.kind = "preview" THEN Prices ELSE Amounts)
  PROVE  /\ \A d \in calls' : CheckoutCall(d)
         /\ \E e \in calls' : /\ e.kind = c.kind /\ e.arg = c.arg /\ e.live = c.live /\ e.reply = r
                             /\ calls' = (calls \ {c}) \cup {e}
  <1>1. CheckoutCall(c)
    BY DEF CheckoutPageInv, CheckoutTypes, HeldTypes
  <1>2. PICK e : e = [kind |-> c.kind, arg |-> c.arg, live |-> c.live, reply |-> r]
    OBVIOUS
  <1>3. calls' = (calls \ {c}) \cup {e}
    BY <1>1, <1>2, CallChanges DEF Checkout!Replied
  <1>4. CheckoutCall(e)
    BY <1>1, <1>2 DEF CheckoutCall
  <1> QED
    BY <1>2, <1>3, <1>4 DEF CheckoutPageInv, CheckoutTypes, HeldTypes

LEMMA ReadServed ==
  ASSUME CheckoutPageInv, NEW c \in calls, c.kind \notin Checkout!Writes, c.reply = None, NEW r, Checkout!Replied(c, r),
         UNCHANGED <<screen, held>>, r # None,
         c.kind # "preview" => r = Checkout!Cart(held),
         c.kind = "preview" => r = Refused \/ (r = Checkout!Price(c) /\ r \in Prices)
  PROVE  CheckoutPageInv'
  <1>1. r \in {Refused} \cup (IF c.kind = "preview" THEN Prices ELSE Amounts)
    BY DEF CheckoutPageInv, CheckoutTypes, HeldTypes, CheckoutCall, Checkout!Cart, Checkout!Price, Amounts, Prices
  <1>2. /\ \A d \in calls' : CheckoutCall(d)
        /\ \E e \in calls' : /\ e.kind = c.kind /\ e.arg = c.arg /\ e.live = c.live /\ e.reply = r
                            /\ calls' = (calls \ {c}) \cup {e}
    BY <1>1, CheckoutReplies
  <1>3. PICK e \in calls' : /\ e.kind = c.kind /\ e.arg = c.arg /\ e.live = c.live /\ e.reply = r
                            /\ calls' = (calls \ {c}) \cup {e}
    BY <1>2
  <1>4. CheckoutTypes'
    BY <1>2 DEF CheckoutPageInv, CheckoutTypes, HeldTypes
  <1>5. OrdersOfCarts'
    BY DEF CheckoutPageInv, OrdersOfCarts
  <1>6. PlacingAsShown'
    BY <1>3 DEF CheckoutPageInv, PlacingAsShown, Checkout!OwnActiveCart, Checkout!Price, Checkout!Writes
  <1>7. AskedOnPage'
    <2>1. c.kind # "preview" => r # Refused
      BY PageAssumption, <1>1 DEF CheckoutPageInv, CheckoutTypes, HeldTypes, Checkout!Cart
    <2> QED
      BY <1>3, <2>1 DEF CheckoutPageInv, AskedOnPage
  <1>8. SureIsInTime'
    <2> SUFFICES ASSUME screen.sure PROVE SureIsInTime'
      BY DEF SureIsInTime
    <2>1. \A d, x \in calls' : d # x => ~Checkout!Cross(d, x)
      BY <1>3 DEF CheckoutPageInv, SureIsInTime, Checkout!Cross
    <2>2. InTime(e)'
      <3>1. InTime(c)
        BY DEF CheckoutPageInv, SureIsInTime
      <3>2. CASE c.kind # "preview"
        BY <1>3, <3>2 DEF InTime, Checkout!Writes, Checkout!Cart
      <3>3. CASE c.kind = "preview" /\ r = Checkout!Price(c)
        <4>1. e.reply = Checkout!Price(e)'
          BY <1>3, <3>3 DEF Checkout!Price
        <4> QED
          BY <1>3, <3>1, <3>3, <4>1 DEF InTime
      <3>4. CASE c.kind = "preview" /\ r = Refused
        BY <1>3, <3>1, <3>4 DEF InTime
      <3> QED
        BY <3>2, <3>3, <3>4
    <2>3. \A d \in calls' : InTime(d)'
      <3>1. \A d \in calls : InTime(d)'
        BY DEF CheckoutPageInv, SureIsInTime, InTime, Written, Checkout!Price, Checkout!Cart
      <3> QED
        BY <1>3, <2>2, <3>1
    <2>4. (\A d \in calls' : ~Written(d)) => ShownInTime'
      <3>1. (\A d \in calls' : ~Written(d)) => \A d \in calls : ~Written(d)
        BY <1>3 DEF Written
      <3>2. /\ (\A d \in calls' : d.kind # "badge") => \A d \in calls : d.kind # "badge"
            /\ (\A d \in calls' : d.kind = "preview" => ~d.live) => \A d \in calls : d.kind = "preview" => ~d.live
        BY <1>3
      <3> QED
        BY <3>1, <3>2 DEF CheckoutPageInv, SureIsInTime, ShownInTime, Checkout!Cart
    <2> QED
      BY <2>1, <2>3, <2>4 DEF SureIsInTime, Written
  <1> QED
    BY <1>4, <1>5, <1>6, <1>7, <1>8 DEF CheckoutPageInv

(* A write is served, or refused.                                            *)
LEMMA WriteServed ==
  ASSUME CheckoutPageInv, NEW c \in calls, c.kind \in Checkout!Writes, c.reply = None,
         NEW r \in {Refused} \cup Amounts, Checkout!Replied(c, r), screen' = screen,
         HeldTypes', OrdersOfCarts',
         r = Refused => held' = held,
         r # Refused /\ c.kind # "place" => r = Checkout!Cart(held)'
  PROVE  CheckoutPageInv'
  <1>0. r # None
    BY PageAssumption DEF Amounts
  <1>1. /\ \A d \in calls' : CheckoutCall(d)
        /\ \E e \in calls' : /\ e.kind = c.kind /\ e.arg = c.arg /\ e.live = c.live /\ e.reply = r
                            /\ calls' = (calls \ {c}) \cup {e}
    BY <1>0, CheckoutReplies DEF Checkout!Writes
  <1>2. PICK e \in calls' : /\ e.kind = c.kind /\ e.arg = c.arg /\ e.live = c.live /\ e.reply = r
                            /\ calls' = (calls \ {c}) \cup {e}
    BY <1>1
  <1>3. CheckoutTypes'
    BY <1>1 DEF CheckoutPageInv, CheckoutTypes, HeldTypes
  <1>4. PlacingAsShown'
    <2> SUFFICES ASSUME NEW d \in calls', d.kind = "place", d.arg.shown.sure
                 PROVE  /\ \A x \in calls' : x.kind \in Checkout!Writes => x = d
                        /\ d.reply # None
      BY DEF PlacingAsShown
    <2>1. d = e
      <3> SUFFICES ASSUME d # e PROVE FALSE
        OBVIOUS
      <3>1. d \in calls /\ d # c
        BY <1>2
      <3> QED
        BY <3>1 DEF CheckoutPageInv, PlacingAsShown, Checkout!Writes
    <2>2. \A x \in calls : x.kind \in Checkout!Writes => x = c
      BY <1>2, <2>1 DEF CheckoutPageInv, PlacingAsShown
    <2> QED
      BY <1>0, <1>2, <2>1, <2>2
  <1>5. AskedOnPage'
    BY <1>2 DEF CheckoutPageInv, AskedOnPage, Checkout!Writes
  <1>6. SureIsInTime'
    <2> SUFFICES ASSUME screen.sure PROVE SureIsInTime'
      BY DEF SureIsInTime
    <2>1. calls = {c} /\ InTime(c)
      BY AloneInTime
    <2>2. calls' = {e}
      BY <1>2, <2>1
    <2>3. InTime(e)'
      <3>1. c.kind \notin {"badge", "load", "preview"}
        BY DEF Checkout!Writes
      <3> QED
        BY <1>2, <2>1, <3>1 DEF InTime, Written
    <2>4. ~Written(e) => ShownInTime'
      <3> SUFFICES ASSUME ~Written(e) PROVE ShownInTime'
        OBVIOUS
      <3>1. r = Refused /\ held' = held
        BY <1>0, <1>2 DEF Written
      <3>2. ShownInTime
        BY <2>1 DEF CheckoutPageInv, SureIsInTime, Written
      <3> QED
        BY <1>2, <2>1, <2>2, <3>1, <3>2 DEF ShownInTime, Checkout!Cart, Checkout!Writes
    <2> QED
      BY <2>2, <2>3, <2>4 DEF SureIsInTime, Written
  <1> QED
    BY <1>3, <1>4, <1>5, <1>6 DEF CheckoutPageInv

LEMMA CartServed ==
  ASSUME CheckoutPageInv, NEW c \in calls, Checkout!ServeCart(c)
  PROVE  CheckoutPageInv'
  <1>1. PICK h : h = IF c.kind \in Checkout!Writes THEN [held EXCEPT !.lines = Checkout!NewLines(c)] ELSE held
    OBVIOUS
  <1>2. /\ c.kind \in {"badge", "load", "add", "set", "clear"} /\ c.reply = None /\ screen' = screen
        /\ h.lines <= Stock => held' = h /\ Checkout!Replied(c, Checkout!Cart(h))
        /\ ~(h.lines <= Stock) => Checkout!Replied(c, Refused) /\ held' = held
    BY <1>1 DEF Checkout!ServeCart
  <1>3. held.cart \in Nat /\ held.lines \in 0 .. Stock /\ Stock \in Nat /\ CheckoutCall(c)
    BY PageAssumption DEF CheckoutPageInv, CheckoutTypes, HeldTypes
  <1>4. CASE c.kind \notin Checkout!Writes
    <2>1. h = held /\ h.lines <= Stock /\ Checkout!Cart(h) # None
      BY PageAssumption, <1>1, <1>3, <1>4 DEF Checkout!Cart
    <2> QED
      BY <1>2, <1>4, <2>1, ReadServed
  <1>5. CASE c.kind \in Checkout!Writes
    <2>1. Checkout!NewLines(c) \in Nat
      BY <1>2, <1>3 DEF Checkout!NewLines, CheckoutCall, Amounts
    <2>2. h = [cart |-> held.cart, lines |-> Checkout!NewLines(c), orders |-> held.orders]
      BY <1>1, <1>5 DEF CheckoutPageInv, CheckoutTypes, HeldTypes
    <2>3. h.cart \in Nat /\ h.lines \in Nat /\ h.orders = held.orders /\ h.cart = held.cart
      BY <1>3, <2>1, <2>2
    <2>4. CASE h.lines <= Stock
      <3>1. held' = h /\ Checkout!Replied(c, Checkout!Cart(h)) /\ Checkout!Cart(h) \in Amounts
        BY <1>2, <2>3, <2>4 DEF Checkout!Cart, Amounts
      <3>2. HeldTypes'
        BY <1>3, <2>2, <2>3, <2>4, <3>1 DEF HeldTypes
      <3>3. OrdersOfCarts'
        BY <2>3, <3>1 DEF CheckoutPageInv, OrdersOfCarts
      <3>4. Checkout!Cart(h) = Checkout!Cart(held)'
        BY <3>1 DEF Checkout!Cart
      <3>5. PICK r \in Amounts : r = Checkout!Cart(h)
        BY <3>1
      <3>6. Checkout!Replied(c, r) /\ r = Checkout!Cart(held)' /\ r # Refused
        BY <3>1, <3>4, <3>5, PageAssumption DEF Amounts
      <3> QED
        BY <1>2, <1>5, <3>2, <3>3, <3>6, WriteServed
    <2>5. CASE ~(h.lines <= Stock)
      <3>1. HeldTypes' /\ OrdersOfCarts'
        BY <1>2, <2>5 DEF CheckoutPageInv, CheckoutTypes, HeldTypes, OrdersOfCarts
      <3> QED
        BY <1>2, <1>5, <2>5, <3>1, WriteServed
    <2> QED
      BY <2>4, <2>5
  <1> QED
    BY <1>4, <1>5

LEMMA PreviewServed ==
  ASSUME CheckoutPageInv, NEW c \in calls, Checkout!ServePreview(c)
  PROVE  CheckoutPageInv'
  <1>1. PICK r : /\ Checkout!Replied(c, r)
                 /\ (Checkout!Quotable(c) /\ r = Checkout!Price(c)) \/ r = Refused
    BY DEF Checkout!ServePreview
  <1>2. c.kind = "preview" /\ c.reply = None /\ UNCHANGED <<screen, held>>
    BY DEF Checkout!ServePreview
  <1>3. r = Refused \/ (r = Checkout!Price(c) /\ r \in Prices)
    <2>1. CASE Checkout!Quotable(c) /\ r = Checkout!Price(c)
      <3>1. held.lines \in Nat /\ c.arg.code \in Codes \cup {NoCode}
        BY <1>2, PageAssumption DEF CheckoutPageInv, CheckoutTypes, HeldTypes, CheckoutCall
      <3> QED
        BY <2>1, <3>1 DEF Checkout!Price, Prices, Checkout!Quotable
    <2> QED
      BY <1>1, <2>1
  <1>4. r # None
    BY <1>3, PageAssumption DEF Prices
  <1> QED
    BY <1>1, <1>2, <1>3, <1>4, ReadServed DEF Checkout!Writes

(* A placement makes the order of the active cart; the next cart is empty.   *)
LEMMA PlaceServed ==
  ASSUME CheckoutPageInv, NEW c \in calls, Checkout!ServePlace(c)
  PROVE  CheckoutPageInv'
  <1>1. c.kind = "place" /\ c.kind \in Checkout!Writes /\ c.reply = None /\ screen' = screen
    BY DEF Checkout!ServePlace, Checkout!Writes
  <1>2. held.cart \in Nat /\ held.lines \in 0 .. Stock /\ Stock \in Nat
    BY PageAssumption DEF CheckoutPageInv, CheckoutTypes, HeldTypes
  <1>3. CASE Checkout!Replied(c, Refused) /\ held' = held
    <2>1. Checkout!Replied(c, Refused) /\ held' = held
      BY <1>3
    <2>2. HeldTypes' /\ OrdersOfCarts'
      BY <2>1 DEF CheckoutPageInv, CheckoutTypes, HeldTypes, OrdersOfCarts
    <2> QED
      BY <1>1, <2>1, <2>2, WriteServed
  <1>4. CASE /\ Checkout!Quotable(c) /\ Checkout!Replied(c, Checkout!Cart(held))
             /\ held' = [cart |-> held.cart + 1, lines |-> 0, orders |-> held.orders \cup {Checkout!Order(c)}]
    <2>1. PICK o : o = Checkout!Order(c)
      OBVIOUS
    <2>2. /\ Checkout!Replied(c, Checkout!Cart(held))
          /\ held' = [cart |-> held.cart + 1, lines |-> 0, orders |-> held.orders \cup {o}]
      BY <1>4, <2>1
    <2>3. o.cart = held.cart /\ o.charged = Checkout!Price(c) /\ o.shown = c.arg.shown
      BY <2>1 DEF Checkout!Order
    <2>4. o.shown.sure => o.charged = o.shown.price
      BY <1>1, <1>4, <2>3 DEF CheckoutPageInv, PlacingAsShown, Checkout!Quotable
    <2>5. OrdersOfCarts'
      <3>1. \A p \in held.orders : p.cart \in Nat /\ p.cart < held.cart /\ p.cart # o.cart
        BY <1>2, <2>3 DEF CheckoutPageInv, OrdersOfCarts
      <3>2. held'.cart = held.cart + 1 /\ held'.orders = held.orders \cup {o}
        BY <2>2
      <3>3. ASSUME NEW p \in held'.orders PROVE p.cart \in Nat /\ p.cart < held'.cart
        <4>1. CASE p \in held.orders
          BY <1>2, <3>1, <3>2, <4>1
        <4>2. CASE p = o
          BY <1>2, <2>3, <3>2, <4>2
        <4> QED
          BY <3>2, <4>1, <4>2
      <3> QED
        BY <2>4, <3>1, <3>2, <3>3 DEF CheckoutPageInv, OrdersOfCarts
    <2>6. HeldTypes'
      BY <1>2, <2>2 DEF HeldTypes
    <2>7. Checkout!Cart(held) \in Amounts
      BY <1>2 DEF Checkout!Cart, Amounts
    <2>8. Checkout!Cart(held) # Refused
      BY <2>7, PageAssumption DEF Amounts
    <2>9. PICK r : r = Checkout!Cart(held)
      OBVIOUS
    <2> QED
      BY <1>1, <2>2, <2>5, <2>6, <2>7, <2>8, <2>9, WriteServed
  <1> QED
    BY <1>3, <1>4 DEF Checkout!ServePlace

-----------------------------------------------------------------------------

LEMMA CheckoutClicks ==
  ASSUME CheckoutPageInv,
         \/ \E page \in {"home", "cart", "checkout"} : Checkout!Open(page)
         \/ Checkout!AddToCart \/ Checkout!SetQuantity \/ Checkout!Remove \/ Checkout!ClearAll
         \/ Checkout!TypeCoupon \/ Checkout!Apply \/ Checkout!Place
  PROVE  CheckoutPageInv'
  <1>1. PICK s : s = Checkout!Clicked
    OBVIOUS
  <1>2. s \in CheckoutScreen /\ SameBut(s, {})
    BY <1>1, CheckoutClicked DEF CheckoutPageInv
  <1>3. ASSUME NEW page \in {"home", "cart", "checkout"}, Checkout!Open(page) PROVE CheckoutPageInv'
    <2>1. PICK new : new = {Checkout!Call("badge", None)} \cup (IF page = "home" THEN {} ELSE {Checkout!Call("load", None)})
      OBVIOUS
    <2>2. PICK loads \in BOOLEAN : loads = (page # "home")
      OBVIOUS
    <2>3. new = {Checkout!Call("badge", None)} \cup (IF loads THEN {Checkout!Call("load", None)} ELSE {})
      BY <2>1, <2>2
    <2>4. PICK S \in SUBSET calls : S = calls
      OBVIOUS
    <2>5. PICK clicks \in Nat : clicks = screen.clicks + 1
      BY DEF CheckoutPageInv, CheckoutTypes, HeldTypes, CheckoutScreen
    <2>6. Checkout!Send(Checkout!Blank(page, screen.badge, screen.sure \/ S = {}, clicks), new, Checkout!Orphans(S))
      BY <1>3, <2>1, <2>4, <2>5, Zenon DEF Checkout!Open
    <2>7. loads => page \in {"cart", "checkout"}
      BY <2>2
    <2> QED
      BY <2>3, <2>6, <2>7, PageOpens
  <1>4. ASSUME NEW k, NEW a, Checkout!Send(s, {Checkout!Call(k, a)}, calls), k \in {"add", "clear", "set"},
               k = "set" => a \in Amounts, k = "add" => screen.page = "home", k # "add" => screen.page = "cart"
        PROVE  CheckoutPageInv'
    <2>1. PICK w : w = Checkout!Call(k, a)
      OBVIOUS
    <2>2. /\ CheckoutCall(w) /\ w.kind = k /\ w.kind \in Checkout!Writes /\ w.live = TRUE /\ w.reply = None
      BY <1>4, <2>1 DEF Checkout!Call, CheckoutCall, Checkout!Writes
    <2> QED
      BY <1>2, <1>4, <2>1, <2>2, PageWrites DEF SameBut
  <1>5. CASE Checkout!AddToCart
    BY <1>1, <1>4, <1>5 DEF Checkout!AddToCart
  <1>6. CASE Checkout!ClearAll
    BY <1>1, <1>4, <1>6 DEF Checkout!ClearAll
  <1>7. Checkout!HasLines => screen.cart \in Amounts
    BY DEF Checkout!HasLines, CheckoutPageInv, CheckoutTypes, HeldTypes, CheckoutScreen
  <1>8. CASE Checkout!SetQuantity
    <2>1. PICK q \in {screen.cart.lines - 1, screen.cart.lines + 1} \ {0} :
            Checkout!Send(s, {Checkout!Call("set", [cart |-> screen.cart.cart, lines |-> q])}, calls)
      BY <1>1, <1>8 DEF Checkout!SetQuantity
    <2>2. screen.page = "cart" /\ screen.cart.lines > 0
      BY <1>8 DEF Checkout!SetQuantity, Checkout!HasLines
    <2>3. q \in Nat /\ [cart |-> screen.cart.cart, lines |-> q] \in Amounts
      BY <1>7, <1>8, <2>2 DEF Checkout!SetQuantity, Amounts
    <2> QED
      BY <1>4, <2>1, <2>2, <2>3
  <1>9. CASE Checkout!Remove
    <2>1. /\ Checkout!Send(s, {Checkout!Call("set", [cart |-> screen.cart.cart, lines |-> 0])}, calls)
          /\ screen.page = "cart"
      BY <1>1, <1>9 DEF Checkout!Remove
    <2>2. [cart |-> screen.cart.cart, lines |-> 0] \in Amounts
      BY <1>7, <1>9 DEF Checkout!Remove, Amounts
    <2> QED
      BY <1>4, <2>1, <2>2
  <1>10. CASE Checkout!TypeCoupon
    <2>1. PICK k \in Codes : screen' = [s EXCEPT !.code = k]
      BY <1>1, <1>10 DEF Checkout!TypeCoupon
    <2>2. /\ screen' \in CheckoutScreen /\ SameBut(screen', {"code"}) /\ calls' = calls /\ held' = held
      BY <1>2, <1>10, <2>1 DEF CheckoutScreen, SameBut, Checkout!TypeCoupon
    <2>3. CheckoutTypes' /\ OrdersOfCarts'
      BY <2>2 DEF CheckoutPageInv, CheckoutTypes, HeldTypes, OrdersOfCarts
    <2>4. PlacingAsShown'
      BY <2>2 DEF CheckoutPageInv, PlacingAsShown, Checkout!OwnActiveCart, Checkout!Price
    <2>5. AskedOnPage'
      BY <2>2 DEF CheckoutPageInv, AskedOnPage, SameBut
    <2>6. SureIsInTime'
      BY <2>2 DEF CheckoutPageInv, SureIsInTime, InTime, ShownInTime, Written, SameBut, Checkout!Cart, Checkout!Price
    <2> QED
      BY <2>3, <2>4, <2>5, <2>6 DEF CheckoutPageInv
  <1>11. CASE Checkout!Apply
    <2>1. Checkout!FetchPreview(s, calls) /\ screen.page = "checkout" /\ screen.cart \in Amounts
      BY <1>1, <1>7, <1>11 DEF Checkout!Apply
    <2>2. screen.cart # None
      BY <1>11 DEF Checkout!Apply, Checkout!HasLines
    <2>3. s.cart = screen.cart /\ s.page = "checkout"
      BY <1>2, <2>1 DEF SameBut
    <2>4. screen.sure /\ (\A c \in calls : ~Written(c)) => s.cart = Checkout!Cart(held)
      BY <2>2, <2>3 DEF CheckoutPageInv, SureIsInTime, ShownInTime
    <2>5. PICK others \in SUBSET calls : others = calls
      OBVIOUS
    <2> QED
      BY <1>2, <2>1, <2>3, <2>4, <2>5, PageAsks DEF SameBut
  <1>12. CASE Checkout!Place
    <2>1. PICK t : t = [s EXCEPT !.busy = TRUE]
      OBVIOUS
    <2>2. PICK a : a = [cart |-> screen.cart.cart, code |-> Trimmed[screen.code], shown |-> Checkout!Shown]
      OBVIOUS
    <2>3. PICK w : w = Checkout!Call("place", a)
      OBVIOUS
    <2>4. Checkout!Send(t, {w}, calls) /\ screen.page = "checkout" /\ Checkout!HasLines /\ screen.preview # None
      BY <1>1, <1>12, <2>1, <2>2, <2>3 DEF Checkout!Place, Checkout!Ready
    <2>5. t \in CheckoutScreen /\ SameBut(t, {"clicks", "busy"})
      BY <1>2, <2>1 DEF CheckoutScreen, SameBut
    <2>6. PICK b : b = (/\ screen.sure /\ screen.code = screen.applied
                        /\ ~\E c \in calls : c.kind \in Checkout!Writes \cup {"preview"})
      OBVIOUS
    <2>7. Checkout!Shown = [price |-> screen.preview, sure |-> b]
      BY <2>6, Zenon DEF Checkout!Shown
    <2>8. /\ a.cart = screen.cart.cart /\ a.code = Trimmed[screen.code] /\ a.shown = Checkout!Shown
          /\ Checkout!Shown.price = screen.preview /\ Checkout!Shown.sure = b /\ b \in BOOLEAN
      BY <2>2, <2>6, <2>7
    <2>9. a \in Placing
      <3>0. screen.code \in Codes \cup {NoCode} /\ screen.preview \in Prices
        BY <2>4 DEF CheckoutPageInv, CheckoutTypes, CheckoutScreen
      <3>1. screen.cart.cart \in Nat /\ Trimmed[screen.code] \in Codes \cup {NoCode} /\ screen.preview \in Prices
        BY <1>7, <2>4, <3>0, PageAssumption DEF Amounts
      <3>2. Checkout!Shown \in [price : Prices, sure : BOOLEAN]
        BY <2>7, <2>8, <3>1
      <3> QED
        BY <2>2, <3>1, <3>2 DEF Placing
    <2>10. CheckoutCall(w) /\ w.kind = "place" /\ w.live = TRUE /\ w.reply = None /\ w.arg = a
      BY <2>3, <2>9 DEF CheckoutCall, Checkout!Call
    <2>11. ASSUME w.arg.shown.sure
           PROVE  /\ \A c \in calls : c.kind \notin Checkout!Writes
                  /\ Checkout!OwnActiveCart(w) => w.arg.shown.price = Checkout!Price(w)
      <3>1. /\ screen.sure /\ screen.code = screen.applied
            /\ \A c \in calls : c.kind \notin Checkout!Writes /\ c.kind # "preview"
        BY <2>6, <2>8, <2>10, <2>11
      <3>2. ShownInTime
        BY <3>1 DEF CheckoutPageInv, SureIsInTime, Written
      <3>3. screen.applied # None /\ screen.preview \in Prices
        BY <2>4, <3>1, PageAssumption DEF CheckoutPageInv, CheckoutTypes, CheckoutScreen
      <3>4. Checkout!OwnActiveCart(w) => screen.preview = [lines |-> held.lines, code |-> screen.code]
        BY <2>4, <3>1, <3>2, <3>3 DEF ShownInTime, Checkout!OwnActiveCart
      <3>5. Checkout!OwnActiveCart(w) => Trimmed[screen.code] = screen.code
        BY <3>3, <3>4, PageAssumption DEF Prices
      <3> QED
        BY <2>8, <2>10, <3>1, <3>4, <3>5 DEF Checkout!Price
    <2> QED
      BY <2>4, <2>5, <2>10, <2>11, PageWrites DEF Checkout!Writes
  <1> QED
    BY <1>3, <1>5, <1>6, <1>8, <1>9, <1>10, <1>11, <1>12

LEMMA CheckoutPageStep == CheckoutPageInv /\ Checkout!Next => CheckoutPageInv'
  <1> SUFFICES ASSUME CheckoutPageInv, Checkout!Next PROVE CheckoutPageInv'
    OBVIOUS
  <1>1. ASSUME NEW c \in calls,
               \/ Checkout!ServeCart(c) \/ Checkout!ServePreview(c) \/ Checkout!ServePlace(c)
               \/ Checkout!AnswerBadge(c) \/ Checkout!AnswerLoad(c) \/ Checkout!AnswerLine(c)
               \/ Checkout!AnswerPreview(c) \/ Checkout!AnswerPlace(c)
               \/ Checkout!Refuse(c) \/ Checkout!Lose(c)
        PROVE  CheckoutPageInv'
    BY <1>1, CartServed, PreviewServed, PlaceServed, BadgeAnswered, LoadAnswered, LineAnswered, PreviewAnswered,
       PlaceAnswered, CheckoutFails
  <1> QED
    BY <1>1, CheckoutClicks DEF Checkout!Next

(* What the page promises follows. *)
LEMMA CheckoutPageKeeps == CheckoutPageInv => Checkout!ChargedAsShown /\ Checkout!ShowsTheCart
  BY DEF CheckoutPageInv, OrdersOfCarts, SureIsInTime, ShownInTime, Checkout!ChargedAsShown, Checkout!ShowsTheCart

-----------------------------------------------------------------------------
(* The landing shop *)

GoodsIds == {Goods[i].id : i \in DOMAIN Goods}
BundleIds == {b.id : b \in Bundles}
BoxSet == {BoxIds[k] : k \in DOMAIN BoxIds}

BagLines ==
  {l \in [id : GoodsIds \cup BundleIds \cup BoxSet, price : Nat \ {0}, quantity : Nat \ {0}] :
     l.id \in BundleIds \cup BoxSet => l.price >= Landing!FREE_SHIPPING_THRESHOLD}

AnyPin == Pins \cup {DefaultPin}
ShopForms == [pin : AnyPin, method : {"upi", "cod", "card"}]
ShopCoupons == Landing!Coupons \cup {""}
Decided == {"fiery", "tangy", "savory", "healthy"}

QuizSteps == 1 .. 4
Tastes == Decided \cup {""}
Occasions == {"party", "other", ""}
QuizMatches == GoodsIds \cup {None}
Quizzes == [step : QuizSteps, spice : Tastes, occasion : Occasions, match : QuizMatches]

Overlays == {"drawer", "detail", "checkout", "success", "search", "pincode"}

LandingScreen ==
  [lines : Seq(BagLines), coupon : ShopCoupons, couponError : BOOLEAN, pin : AnyPin, form : ShopForms,
   overlays : SUBSET Overlays,
   product : GoodsIds \cup {None}, quantity : Nat \ {0},
   category : {"all", "bestseller"} \cup {Goods[i].category : i \in DOMAIN Goods},
   spice : {Landing!AnySpice} \cup {Goods[i].spice : i \in DOMAIN Goods},
   box : Seq(GoodsIds), boxes : 0 .. Len(BoxIds),
   quiz : Quizzes,
   shown : Nat, clicks : Nat]

SoldOrders ==
  [items : Seq(BagLines), total : Nat, customer : ShopForms, shown : Nat, coupon : ShopCoupons, pin : AnyPin]

LandingTypes == screen \in LandingScreen /\ held \in Seq(SoldOrders)

(* An order is of goods, charges what was shown, and ships free if it has to. *)
SoldRight(o) ==
  /\ o.items # <<>> /\ o.total = o.shown
  /\ (\E i \in DOMAIN o.items : o.items[i].id \in BundleIds \cup BoxSet) => o.total <= Landing!Subtotal(o.items)

(* A box that was made is in the bag or in one order, or was taken out.      *)
BoxesOf(lines) == {lines[i].id : i \in DOMAIN lines} \cap BoxSet
Made(n) == {BoxIds[k] : k \in 1 .. n}

BoxesSoldOnce ==
  /\ BoxesOf(screen.lines) \subseteq Made(screen.boxes)
  /\ \A i \in DOMAIN held :
       /\ BoxesOf(held[i].items) \subseteq Made(screen.boxes)
       /\ BoxesOf(held[i].items) \cap BoxesOf(screen.lines) = {}
       /\ \A j \in DOMAIN held : i # j => BoxesOf(held[i].items) \cap BoxesOf(held[j].items) = {}

(* What the overlays, and the quiz, have been opened for.                    *)
OpenedFor ==
  /\ "checkout" \in screen.overlays => screen.lines # <<>> /\ screen.shown = Landing!DrawerTotal
  /\ "detail" \in screen.overlays => screen.product \in GoodsIds
  /\ screen.quiz.step >= 2 => screen.quiz.spice \in Decided
  /\ screen.quiz.step = 4 => screen.quiz.match \in GoodsIds

LandingInv == LandingTypes /\ (\A i \in DOMAIN held : SoldRight(held[i])) /\ BoxesSoldOnce /\ OpenedFor

(* The equation of the function that collects the entries of a sequence at   *)
(* some positions.                                                           *)
Collects(f, s, P, n) ==
  f = [k \in 0 .. n |-> IF k = 0 THEN <<>> ELSE IF k \in P THEN Append(f[k - 1], s[k]) ELSE f[k - 1]]

LEMMA CollectsExists ==
  ASSUME NEW s, NEW P, NEW n \in Nat
  PROVE  \E f : Collects(f, s, P, n)
  <1> DEFINE B == {k \in 0 .. n : ~\E f : Collects(f, s, P, k)}
  <1>1. SUFFICES ASSUME B # {} PROVE FALSE
    OBVIOUS
  <1>2. PICK m \in B : \A k \in 0 .. m - 1 : k \notin B
    <2> HIDE DEF B
    <2>1. B \in SUBSET (0 .. n)
      BY DEF B
    <2> QED
      BY <1>1, <2>1, LeastNumber
  <1>3. m \in Nat /\ m <= n /\ ~\E f : Collects(f, s, P, m)
    BY <1>2
  <1>4. CASE m = 0
    <2> DEFINE f == [k \in 0 .. 0 |-> <<>>]
    <2>1. Collects(f, s, P, 0)
      BY DEF Collects
    <2> QED
      BY <1>3, <1>4, <2>1
  <1>5. CASE m # 0
    <2>1. m - 1 \in 0 .. m - 1 /\ m - 1 \in 0 .. n
      BY <1>3, <1>5
    <2>2. PICK f : Collects(f, s, P, m - 1)
      BY <1>2, <2>1
    <2>3. \A k \in 0 .. m - 1 :
            f[k] = IF k = 0 THEN <<>> ELSE IF k \in P THEN Append(f[k - 1], s[k]) ELSE f[k - 1]
      BY <2>2 DEF Collects
    <2> DEFINE last == IF m \in P THEN Append(f[m - 1], s[m]) ELSE f[m - 1]
               g == [k \in 0 .. m |-> IF k = m THEN last ELSE f[k]]
    <2> HIDE DEF last
    <2>4. g[m] = last /\ \A k \in 0 .. m - 1 : g[k] = f[k]
      BY <1>3
    <2>5. ASSUME NEW k \in 0 .. m
          PROVE  g[k] = IF k = 0 THEN <<>> ELSE IF k \in P THEN Append(g[k - 1], s[k]) ELSE g[k - 1]
      <3> HIDE DEF g
      <3>1. CASE k = m
        <4>1. g[k - 1] = f[k - 1]
          BY <1>3, <1>5, <2>4, <3>1
        <4> QED
          BY <1>5, <2>4, <3>1, <4>1 DEF last
      <3>2. CASE k # m
        <4>1. k \in 0 .. m - 1 /\ (k # 0 => k - 1 \in 0 .. m - 1)
          BY <1>3, <3>2
        <4> QED
          BY <2>3, <2>4, <4>1
      <3> QED
        BY <3>1, <3>2
    <2>6. g = [k \in 0 .. m |-> g[k]]
      OBVIOUS
    <2> HIDE DEF g
    <2>7. g = [k \in 0 .. m |-> IF k = 0 THEN <<>> ELSE IF k \in P THEN Append(g[k - 1], s[k]) ELSE g[k - 1]]
      BY <2>5, <2>6
    <2>8. Collects(g, s, P, m)
      BY <2>7 DEF Collects
    <2> QED
      BY <1>3, <2>8
  <1> QED
    BY <1>4, <1>5

(* What is kept of a sequence is a sequence of its entries.                  *)
LEMMA KeptEntries ==
  ASSUME NEW S, NEW s \in Seq(S), NEW P, NEW T, \A i \in DOMAIN s : i \in P => s[i] \in T
  PROVE  Landing!Kept(s, P) \in Seq(T)
  <1> DEFINE f == CHOOSE f : Collects(f, s, P, Len(s))
  <1>0. Len(s) \in Nat /\ DOMAIN s = 1 .. Len(s)
    OBVIOUS
  <1>1. Collects(f, s, P, Len(s))
    BY <1>0, CollectsExists
  <1>2. Landing!Kept(s, P) = f[Len(s)]
    BY Zenon DEF Landing!Kept, Collects
  <1> HIDE DEF f
  <1>3. \A k \in 0 .. Len(s) :
          f[k] = IF k = 0 THEN <<>> ELSE IF k \in P THEN Append(f[k - 1], s[k]) ELSE f[k - 1]
    BY <1>1 DEF Collects
  <1> DEFINE B == {k \in 0 .. Len(s) : f[k] \notin Seq(T)}
  <1>4. ASSUME B # {} PROVE FALSE
    <2>1. PICK m \in B : \A k \in 0 .. m - 1 : k \notin B
      <3>1. B \in SUBSET (0 .. Len(s))
        OBVIOUS
      <3> HIDE DEF B
      <3> QED
        BY <1>0, <1>4, <3>1, LeastNumber
    <2>2. m \in 0 .. Len(s) /\ m \in Nat /\ f[m] \notin Seq(T)
      BY <1>0, <2>1
    <2>3. CASE m = 0
      <3>1. f[m] = <<>>
        BY <1>3, <2>2, <2>3
      <3> QED
        BY <2>2, <3>1
    <2>4. CASE m # 0
      <3>1. m - 1 \in 0 .. m - 1 /\ m - 1 \in 0 .. Len(s) /\ m \in DOMAIN s
        BY <1>0, <2>2, <2>4
      <3>2. f[m - 1] \in Seq(T)
        BY <2>1, <3>1
      <3>3. f[m] = IF m \in P THEN Append(f[m - 1], s[m]) ELSE f[m - 1]
        BY <1>3, <2>2, <2>4
      <3> QED
        BY <2>2, <3>1, <3>2, <3>3
    <2> QED
      BY <2>3, <2>4
  <1>5. f[Len(s)] \in Seq(T)
    BY <1>0, <1>4
  <1> QED
    BY <1>2, <1>5

LEMMA SubtotalAtLeast ==
  ASSUME NEW lines \in Seq(BagLines)
  PROVE  /\ Landing!Subtotal(lines) \in Nat
         /\ \A i \in DOMAIN lines : lines[i].price <= Landing!Subtotal(lines)
  <1>1. PICK g : g = [i \in DOMAIN lines |-> Landing!Amount(lines[i])]
    OBVIOUS
  <1>2. Landing!Subtotal(lines) = SumFunctionOnSet(g, DOMAIN lines)
    <2>1. Landing!Subtotal(lines) = Landing!SumFunctionOnSet(g, DOMAIN g) /\ DOMAIN g = DOMAIN lines
      BY <1>1 DEF Landing!Subtotal, Landing!Total
    <2>2. \A h, S : Landing!SumFunctionOnSet(h, S) = SumFunctionOnSet(h, S)
      BY Zenon DEF Landing!SumFunctionOnSet, SumFunctionOnSet, Landing!FoldFunctionOnSet, FoldFunctionOnSet,
         Landing!MapThenFoldSet, MapThenFoldSet
    <2> QED
      BY <2>1, <2>2
  <1>3. IsFiniteSet(DOMAIN lines)
    <2>1. Len(lines) \in Int /\ DOMAIN lines = 1 .. Len(lines)
      OBVIOUS
    <2> QED
      BY <2>1, FS_Interval
  <1>4. ASSUME NEW i \in DOMAIN lines PROVE g[i] \in Nat /\ lines[i].price \in Nat /\ lines[i].price <= g[i]
    <2>1. lines[i] \in BagLines
      OBVIOUS
    <2>2. PICK p, q \in Nat \ {0} : p = lines[i].price /\ q = lines[i].quantity
      BY <2>1 DEF BagLines
    <2>3. p * q \in Nat /\ p <= p * q
      <3>1. p * q = p + p * (q - 1) /\ q - 1 \in Nat
        BY <2>2
      <3>2. p * (q - 1) \in Nat
        BY <2>2, <3>1
      <3> QED
        BY <2>2, <3>1, <3>2
    <2> QED
      BY <1>1, <2>2, <2>3 DEF Landing!Amount
  <1>5. SumFunctionOnSet(g, DOMAIN lines) \in Nat
    BY <1>3, <1>4, SumNat
  <1>6. ASSUME NEW i \in DOMAIN lines PROVE g[i] <= SumFunctionOnSet(g, DOMAIN lines)
    <2>1. PICK E, R : E = {} /\ R = {i}
      OBVIOUS
    <2>2. i \notin E /\ E \cup {i} = R /\ R \subseteq DOMAIN lines /\ SumFunctionOnSet(g, E) = 0 /\ IsFiniteSet(E)
      BY <2>1, SumEmpty, FS_EmptySet
    <2>3. Numbers(g, E \cup {i})
      BY <1>4, <2>1 DEF Numbers
    <2>4. SumFunctionOnSet(g, E \cup {i}) = SumFunctionOnSet(g, E) + g[i]
      BY <2>2, <2>3, SumAdd
    <2>5. SumFunctionOnSet(g, R) = g[i]
      <3>1. SumFunctionOnSet(g, R) = SumFunctionOnSet(g, E \cup {i})
        BY <2>2, Zenon
      <3> QED
        BY <1>4, <2>2, <2>4, <3>1
    <2> QED
      BY <1>3, <1>4, <2>2, <2>5, SumSubset
  <1> QED
    BY <1>2, <1>4, <1>5, <1>6

(* The topmost overlay is open, and covers those that come before it.        *)
LEMMA TopLayer ==
  ASSUME LandingTypes
  PROVE  /\ Landing!Top = "page" <=> screen.overlays = {}
         /\ Landing!Top # "page" => Landing!Top \in screen.overlays
         /\ Landing!Top \in {"page", "drawer", "detail"} => "checkout" \notin screen.overlays
  <1>1. screen.overlays \in SUBSET {"drawer", "detail", "checkout", "success", "search", "pincode"}
    BY DEF LandingTypes, LandingScreen, Overlays
  <1>2. PICK o : o = screen.overlays
    OBVIOUS
  <1> DEFINE IsTop(n) == Landing!Layers[n] \in o /\ \A m \in n + 1 .. Len(Landing!Layers) : Landing!Layers[m] \notin o
  <1>3. /\ DOMAIN Landing!Layers = 1 .. 6 /\ Len(Landing!Layers) = 6
        /\ Landing!Layers[1] = "drawer" /\ Landing!Layers[2] = "detail" /\ Landing!Layers[3] = "checkout"
        /\ Landing!Layers[4] = "success" /\ Landing!Layers[5] = "search" /\ Landing!Layers[6] = "pincode"
    BY DEF Landing!Layers
  <1>4. CASE o = {}
    BY <1>2, <1>4 DEF Landing!Top
  <1>5. CASE o # {}
    <2>1. \E n \in 1 .. 6 : IsTop(n)
      <3>1. \/ "drawer" \in o \/ "detail" \in o \/ "checkout" \in o
            \/ "success" \in o \/ "search" \in o \/ "pincode" \in o
        BY <1>1, <1>2, <1>5
      <3>2. CASE "pincode" \in o
        <4>1. IsTop(6)
          BY <1>3, <3>2
        <4> QED
          BY <4>1
      <3>3. CASE "pincode" \notin o /\ "search" \in o
        <4>1. IsTop(5)
          BY <1>3, <3>3
        <4> QED
          BY <4>1
      <3>4. CASE "pincode" \notin o /\ "search" \notin o /\ "success" \in o
        <4>1. \A m \in 4 + 1 .. 6 : m = 5 \/ m = 6
          OBVIOUS
        <4>2. IsTop(4)
          BY <1>3, <3>4, <4>1
        <4> QED
          BY <4>2
      <3>5. CASE "pincode" \notin o /\ "search" \notin o /\ "success" \notin o /\ "checkout" \in o
        <4>1. \A m \in 3 + 1 .. 6 : m = 4 \/ m = 5 \/ m = 6
          OBVIOUS
        <4>2. IsTop(3)
          BY <1>3, <3>5, <4>1
        <4> QED
          BY <4>2
      <3>6. CASE "pincode" \notin o /\ "search" \notin o /\ "success" \notin o /\ "checkout" \notin o /\ "detail" \in o
        <4>1. \A m \in 2 + 1 .. 6 : m = 3 \/ m = 4 \/ m = 5 \/ m = 6
          OBVIOUS
        <4>2. IsTop(2)
          BY <1>3, <3>6, <4>1
        <4> QED
          BY <4>2
      <3>7. CASE "pincode" \notin o /\ "search" \notin o /\ "success" \notin o /\ "checkout" \notin o /\ "detail" \notin o
        <4>1. "drawer" \in o
          BY <3>1, <3>7
        <4>2. \A m \in 1 + 1 .. 6 : m = 2 \/ m = 3 \/ m = 4 \/ m = 5 \/ m = 6
          OBVIOUS
        <4>3. IsTop(1)
          BY <1>3, <3>7, <4>1, <4>2
        <4> QED
          BY <4>3
      <3> QED
        BY <3>2, <3>3, <3>4, <3>5, <3>6, <3>7
    <2>2. PICK n \in 1 .. 6 : IsTop(n) /\ Landing!Top = Landing!Layers[n]
      <3>1. Landing!Top = Landing!Layers[CHOOSE n \in 1 .. 6 : IsTop(n)]
        BY <1>2, <1>3, <1>5 DEF Landing!Top
      <3> QED
        BY <2>1, <3>1
    <2>3. n \in {1, 2} => Landing!Layers[3] \notin o
      <3>1. n \in {1, 2} => 3 \in n + 1 .. 6
        BY <2>2
      <3> QED
        BY <1>3, <2>2, <3>1
    <2>4. n = 1 \/ n = 2 \/ n = 3 \/ n = 4 \/ n = 5 \/ n = 6
      BY <2>2
    <2>5. /\ Landing!Top \in o /\ Landing!Top # "page"
          /\ Landing!Top \in {"drawer", "detail"} => n \in {1, 2}
      BY <1>3, <2>2, <2>4
    <2> QED
      BY <1>2, <1>3, <1>5, <2>3, <2>5
  <1> QED
    BY <1>4, <1>5

(* The total is a number, the same in the drawer and in the checkout; with a *)
(* bundle or a box nothing is added for the way.                             *)
LEMMA TotalsAgree ==
  ASSUME LandingTypes
  PROVE  /\ Landing!DrawerTotal \in Nat
         /\ screen.lines # <<>> => Landing!CheckoutTotal = Landing!DrawerTotal
         /\ (\E i \in DOMAIN screen.lines : screen.lines[i].id \in BundleIds \cup BoxSet)
              => Landing!CheckoutTotal <= Landing!Subtotal(screen.lines)
  <1>1. PICK s : s = Landing!Subtotal(screen.lines)
    OBVIOUS
  <1>2. screen.lines \in Seq(BagLines)
    BY DEF LandingTypes, LandingScreen
  <1>3. s \in Nat /\ \A i \in DOMAIN screen.lines : screen.lines[i].price <= s
    BY <1>1, <1>2, SubtotalAtLeast
  <1>4. screen.lines # <<>> => s > 0
    <2> SUFFICES ASSUME screen.lines # <<>> PROVE s > 0
      OBVIOUS
    <2>1. 1 \in DOMAIN screen.lines
      BY <1>2
    <2>2. screen.lines[1].price \in Nat \ {0}
      BY <1>2, <2>1 DEF BagLines
    <2> QED
      BY <1>3, <2>1, <2>2
  <1>5. PICK d : d = Landing!Discount(s)
    OBVIOUS
  <1>6. d \in Nat
    <2>1. (2 * (s * 20) + 100) \div 200 \in Nat
      BY <1>3
    <2> QED
      BY <1>3, <1>5, <2>1 DEF Landing!Discount, Landing!Rounded, Landing!Least
  <1>7. /\ Landing!DrawerTotal = Landing!NotBelowZero(s - d + Landing!DrawerShipping(s))
        /\ Landing!CheckoutTotal = Landing!NotBelowZero(s - d + Landing!CheckoutShipping(s))
    BY <1>1, <1>5 DEF Landing!DrawerTotal, Landing!CheckoutTotal
  <1>8. Landing!DrawerTotal \in Nat
    BY <1>3, <1>6, <1>7 DEF Landing!NotBelowZero, Landing!DrawerShipping
  <1>9. screen.lines # <<>> => Landing!CheckoutTotal = Landing!DrawerTotal
    BY <1>3, <1>4, <1>7 DEF Landing!CheckoutShipping, Landing!DrawerShipping
  <1>10. ASSUME NEW i \in DOMAIN screen.lines, screen.lines[i].id \in BundleIds \cup BoxSet
         PROVE  Landing!CheckoutTotal <= s
    <2>1. screen.lines[i].price \in Nat /\ screen.lines[i].price >= Landing!FREE_SHIPPING_THRESHOLD
      BY <1>2, <1>10 DEF BagLines
    <2>2. s >= Landing!FREE_SHIPPING_THRESHOLD
      BY <1>3, <2>1 DEF Landing!FREE_SHIPPING_THRESHOLD
    <2>3. Landing!CheckoutTotal = Landing!NotBelowZero(s - d)
      BY <1>3, <1>6, <1>7, <2>2 DEF Landing!CheckoutShipping
    <2> QED
      BY <1>3, <1>6, <2>3 DEF Landing!NotBelowZero
  <1> QED
    BY <1>1, <1>8, <1>9, <1>10

-----------------------------------------------------------------------------

(* The assumptions about the goods, by the sets of their ids.                *)
LEMMA GoodsFacts ==
  /\ 1 \in DOMAIN Goods /\ \A g \in Landing!GoodsSet : g.id \in GoodsIds /\ g.price \in Nat \ {0}
  /\ \A b \in Bundles : b.id \in BundleIds /\ b.price \in Nat /\ b.price >= 399
  /\ \A a \in {"fiery", "tangy", "healthy", "party", "crisp", "other"} : Recommended[a] \in GoodsIds
  /\ Len(BoxIds) \in Nat /\ DOMAIN BoxIds = 1 .. Len(BoxIds)
  /\ \A k, l \in DOMAIN BoxIds : BoxIds[k] = BoxIds[l] => k = l
  /\ GoodsIds \cap (BundleIds \cup BoxSet) = {} /\ BundleIds \cap BoxSet = {}
  BY GoodsAssumption DEF GoodsIds, BundleIds, BoxSet, Landing!GoodsSet, Landing!Range

LEMMA NamedGoods ==
  ASSUME NEW id \in GoodsIds
  PROVE  Landing!Named(id) \in Landing!GoodsSet /\ Landing!Named(id).id = id
  <1>1. \E g \in Landing!GoodsSet : g.id = id
    BY DEF GoodsIds, Landing!GoodsSet, Landing!Range
  <1> QED
    BY <1>1 DEF Landing!Named

-----------------------------------------------------------------------------

(* The fields that a state has in common with the one on screen.             *)
LandingFields ==
  {"lines", "coupon", "couponError", "pin", "form", "overlays", "product", "quantity", "category", "spice",
   "box", "boxes", "quiz", "shown", "clicks"}
AllBut(s, fields) == \A f \in LandingFields \ fields : s[f] = screen[f]

(* What a state has to keep of the one on screen.                            *)
SoundNext(s) ==
  /\ s \in LandingScreen
  /\ s.boxes = screen.boxes /\ BoxesOf(s.lines) \subseteq BoxesOf(screen.lines)
  /\ "checkout" \in s.overlays =>
       /\ "checkout" \in screen.overlays
       /\ s.lines = screen.lines /\ s.coupon = screen.coupon /\ s.shown = screen.shown
  /\ "detail" \in s.overlays => s.product \in GoodsIds
  /\ s.quiz.step >= 2 => s.quiz.spice \in Decided
  /\ s.quiz.step = 4 => s.quiz.match \in GoodsIds

LEMMA ShopShows ==
  ASSUME LandingInv, NEW s, SoundNext(s), Landing!Show(s)
  PROVE  LandingInv'
  <1>1. screen' = s /\ held' = held
    BY DEF Landing!Show
  <1>2. LandingTypes'
    BY <1>1 DEF LandingInv, LandingTypes, SoundNext
  <1>3. BoxesSoldOnce'
    BY <1>1 DEF LandingInv, BoxesSoldOnce, SoundNext
  <1>4. OpenedFor'
    <2>1. ASSUME "checkout" \in s.overlays PROVE s.lines # <<>> /\ s.shown = Landing!DrawerTotal'
      <3>1. /\ screen'.lines = screen.lines /\ screen'.coupon = screen.coupon /\ s.shown = screen.shown
            /\ screen.lines # <<>> /\ screen.shown = Landing!DrawerTotal /\ s.lines = screen.lines
        BY <1>1, <2>1 DEF LandingInv, OpenedFor, SoundNext
      <3>2. Landing!DrawerTotal' = Landing!DrawerTotal
        BY <3>1 DEF Landing!DrawerTotal, Landing!Discount
      <3> QED
        BY <3>1, <3>2
    <2> QED
      BY <1>1, <2>1 DEF OpenedFor, SoundNext
  <1>5. \A i \in DOMAIN held' : SoldRight(held'[i])
    BY <1>1 DEF LandingInv
  <1> QED
    BY <1>1, <1>2, <1>3, <1>4, <1>5 DEF LandingInv

LEMMA ShopClicks ==
  ASSUME LandingInv, NEW s, SoundNext(s), Landing!Click(s)
  PROVE  LandingInv'
  <1>1. PICK t : t = [s EXCEPT !.clicks = @ + 1]
    OBVIOUS
  <1>2. t \in LandingScreen /\ \A f \in LandingFields \ {"clicks"} : t[f] = s[f]
    <2>1. PICK n \in Nat : n = s.clicks + 1
      <3>1. s.clicks \in Nat
        BY DEF SoundNext, LandingScreen
      <3> QED
        BY <3>1
    <2>2. t = [s EXCEPT !.clicks = n]
      BY <1>1, <2>1 DEF SoundNext, LandingScreen
    <2> QED
      BY <2>2 DEF SoundNext, LandingScreen, LandingFields
  <1>3. SoundNext(t)
    BY <1>2 DEF SoundNext, LandingFields
  <1>4. Landing!Show(t)
    BY <1>1 DEF Landing!Click
  <1> QED
    BY <1>3, <1>4, ShopShows

(* What the bag, the coupon and the overlays have no part in.                *)
LEMMA SmallChange ==
  ASSUME LandingInv, NEW s \in LandingScreen,
         AllBut(s, {"category", "spice", "pin", "form", "box", "couponError", "quantity"})
  PROVE  SoundNext(s)
  BY DEF LandingInv, OpenedFor, AllBut, LandingFields, SoundNext

-----------------------------------------------------------------------------
(* Lines join the bag and leave it. *)

LEMMA BagGrows ==
  ASSUME NEW lines \in Seq(BagLines), NEW l \in BagLines
  PROVE  /\ Append(lines, l) \in Seq(BagLines)
         /\ BoxesOf(Append(lines, l)) \subseteq BoxesOf(lines) \cup ({l.id} \cap BoxSet)
  <1>1. PICK m : m = Append(lines, l)
    OBVIOUS
  <1>2. /\ m \in Seq(BagLines) /\ DOMAIN m = 1 .. Len(lines) + 1 /\ m[Len(lines) + 1] = l
        /\ \A i \in DOMAIN lines : m[i] = lines[i]
    BY <1>1
  <1>3. DOMAIN lines = 1 .. Len(lines) /\ Len(lines) \in Nat
    OBVIOUS
  <1>4. ASSUME NEW i \in DOMAIN m PROVE i \in DOMAIN lines \/ m[i] = l
    BY <1>2, <1>3
  <1> QED
    BY <1>1, <1>2, <1>4 DEF BoxesOf

LEMMA BagShown ==
  ASSUME LandingInv, NEW lines \in Seq(BagLines),
         NEW s, s = [[screen EXCEPT !.lines = lines] EXCEPT !.overlays = @ \cup {"drawer"}]
  PROVE  /\ s \in LandingScreen /\ AllBut(s, {"lines", "overlays"})
         /\ s.lines = lines /\ s.overlays = screen.overlays \cup {"drawer"}
  <1>1. screen \in LandingScreen
    BY DEF LandingInv, LandingTypes
  <1>2. PICK o : o = screen.overlays \cup {"drawer"}
    OBVIOUS
  <1>3. o \in SUBSET Overlays
    BY <1>1, <1>2 DEF LandingScreen, Overlays
  <1>4. s = [screen EXCEPT !.lines = lines, !.overlays = o]
    BY <1>1, <1>2 DEF LandingScreen
  <1>5. s \in LandingScreen
    <2>1. PICK t : t = [screen EXCEPT !.lines = lines]
      OBVIOUS
    <2>2. t \in LandingScreen /\ t.overlays = screen.overlays
      BY <1>1, <2>1 DEF LandingScreen
    <2>3. s = [t EXCEPT !.overlays = o]
      BY <1>2, <2>1, <2>2
    <2> QED
      BY <1>3, <2>2, <2>3 DEF LandingScreen
  <1>6. AllBut(s, {"lines", "overlays"}) /\ s.lines = lines /\ s.overlays = o
    BY <1>1, <1>4 DEF LandingScreen, AllBut, LandingFields
  <1> QED
    BY <1>2, <1>5, <1>6

LEMMA ProductAdded ==
  ASSUME LandingInv, NEW g \in Landing!GoodsSet, NEW n \in Nat \ {0}, NEW s, s = Landing!AddedProduct(screen, g, n)
  PROVE  /\ s \in LandingScreen /\ AllBut(s, {"lines", "overlays"})
         /\ s.overlays = screen.overlays \cup {"drawer"}
         /\ BoxesOf(s.lines) \subseteq BoxesOf(screen.lines)
  <1> DEFINE more(line) == IF line.id = g.id THEN [line EXCEPT !.quantity = @ + n] ELSE line
             known == \E i \in DOMAIN screen.lines : screen.lines[i].id = g.id
  <1>1. screen \in LandingScreen /\ screen.lines \in Seq(BagLines)
    BY DEF LandingInv, LandingTypes, LandingScreen
  <1>2. PICK lines : lines = IF known THEN [i \in DOMAIN screen.lines |-> more(screen.lines[i])]
                             ELSE Append(screen.lines, Landing!Line(g.id, g.price, n))
    OBVIOUS
  <1>3. s = [[screen EXCEPT !.lines = lines] EXCEPT !.overlays = @ \cup {"drawer"}]
    BY <1>1, <1>2 DEF Landing!AddedProduct, Landing!Opened, LandingScreen
  <1>4. lines \in Seq(BagLines) /\ BoxesOf(lines) \subseteq BoxesOf(screen.lines)
    <2>1. CASE known
      <3>1. lines = [i \in DOMAIN screen.lines |-> more(screen.lines[i])]
        BY <1>2, <2>1
      <3>2. ASSUME NEW i \in DOMAIN screen.lines
            PROVE  more(screen.lines[i]) \in BagLines /\ more(screen.lines[i]).id = screen.lines[i].id
        <4>1. screen.lines[i] \in BagLines
          BY <1>1
        <4> QED
          BY <4>1 DEF BagLines
      <3>3. DOMAIN screen.lines = 1 .. Len(screen.lines) /\ Len(screen.lines) \in Nat
        BY <1>1
      <3> HIDE DEF more
      <3>4. lines \in Seq(BagLines)
        BY <3>1, <3>2, <3>3
      <3>5. DOMAIN lines = DOMAIN screen.lines /\ \A i \in DOMAIN lines : lines[i].id = screen.lines[i].id
        BY <3>1, <3>2
      <3> QED
        BY <3>4, <3>5 DEF BoxesOf
    <2>2. CASE ~known
      <3>1. PICK l : l = Landing!Line(g.id, g.price, n)
        OBVIOUS
      <3>2. l \in BagLines /\ l.id \notin BoxSet
        BY <3>1, GoodsFacts DEF Landing!Line, BagLines
      <3>3. lines = Append(screen.lines, l)
        BY <1>2, <2>2, <3>1
      <3> QED
        BY <1>1, <3>2, <3>3, BagGrows
    <2> QED
      BY <2>1, <2>2
  <1> QED
    BY <1>3, <1>4, BagShown

LEMMA LineAdded ==
  ASSUME LandingInv, NEW l \in BagLines, NEW s, s = Landing!AddedLine(screen, l)
  PROVE  /\ s \in LandingScreen /\ AllBut(s, {"lines", "overlays"})
         /\ s.overlays = screen.overlays \cup {"drawer"}
         /\ BoxesOf(s.lines) \subseteq BoxesOf(screen.lines) \cup ({l.id} \cap BoxSet)
  <1>1. screen \in LandingScreen /\ screen.lines \in Seq(BagLines)
    BY DEF LandingInv, LandingTypes, LandingScreen
  <1>2. PICK lines : lines = Append(screen.lines, l)
    OBVIOUS
  <1>3. s = [[screen EXCEPT !.lines = lines] EXCEPT !.overlays = @ \cup {"drawer"}]
    BY <1>1, <1>2 DEF Landing!AddedLine, Landing!Opened, LandingScreen
  <1>4. lines \in Seq(BagLines) /\ BoxesOf(lines) \subseteq BoxesOf(screen.lines) \cup ({l.id} \cap BoxSet)
    BY <1>1, <1>2, BagGrows
  <1> QED
    BY <1>3, <1>4, BagShown

LEMMA LinesKept ==
  ASSUME LandingInv, NEW S, NEW lines \in Seq(S), NEW P,
         \A i \in DOMAIN lines : i \in P => lines[i] \in BagLines,
         \A i \in DOMAIN lines : i \in DOMAIN screen.lines /\ lines[i].id = screen.lines[i].id,
         NEW s, s = [screen EXCEPT !.lines = Landing!Kept(lines, P)]
  PROVE  s \in LandingScreen /\ AllBut(s, {"lines"}) /\ BoxesOf(s.lines) \subseteq BoxesOf(screen.lines)
  <1>1. screen \in LandingScreen
    BY DEF LandingInv, LandingTypes
  <1>2. PICK T : T = {l \in BagLines : \E i \in DOMAIN screen.lines : l.id = screen.lines[i].id}
    OBVIOUS
  <1>3. PICK kept : kept = Landing!Kept(lines, P)
    OBVIOUS
  <1>4. kept \in Seq(T)
    <2>1. \A i \in DOMAIN lines : i \in P => lines[i] \in T
      BY <1>2
    <2> QED
      BY <1>3, <2>1, KeptEntries
  <1>5. kept \in Seq(BagLines) /\ BoxesOf(kept) \subseteq BoxesOf(screen.lines)
    <2>1. \A i \in DOMAIN kept : kept[i] \in T
      BY <1>4
    <2>2. \A i \in DOMAIN kept : kept[i] \in BagLines
      BY <1>2, <2>1
    <2>3. DOMAIN kept = 1 .. Len(kept) /\ Len(kept) \in Nat /\ kept = [i \in 1 .. Len(kept) |-> kept[i]]
      BY <1>4
    <2> QED
      BY <1>2, <2>1, <2>2, <2>3 DEF BoxesOf
  <1> QED
    BY <1>1, <1>3, <1>5 DEF LandingScreen, AllBut, LandingFields

-----------------------------------------------------------------------------
(* The steps on the page. *)

LEMMA FiltersChange ==
  ASSUME LandingInv, Landing!PickCategory \/ Landing!PickSpice \/ Landing!ResetFilters \/ Landing!SetPincode
  PROVE  LandingInv'
  <1>1. screen \in LandingScreen
    BY DEF LandingInv, LandingTypes
  <1>2. CASE Landing!PickCategory
    <2>1. PICK c \in {"all", "bestseller"} \cup {Goods[i].category : i \in DOMAIN Goods} :
            Landing!Click([screen EXCEPT !.category = c])
      BY <1>2 DEF Landing!PickCategory, Landing!GoodsSet, Landing!Range
    <2>2. PICK s : s = [screen EXCEPT !.category = c]
      OBVIOUS
    <2>3. s \in LandingScreen /\ AllBut(s, {"category"})
      BY <1>1, <2>2 DEF LandingScreen, AllBut, LandingFields
    <2>4. SoundNext(s)
      BY <2>3, SmallChange DEF AllBut
    <2> QED
      BY <2>1, <2>2, <2>4, ShopClicks
  <1>3. CASE Landing!PickSpice
    <2>1. PICK l \in {Landing!AnySpice} \cup {Goods[i].spice : i \in DOMAIN Goods} :
            Landing!Click([screen EXCEPT !.spice = l])
      BY <1>3 DEF Landing!PickSpice, Landing!GoodsSet, Landing!Range
    <2>2. PICK s : s = [screen EXCEPT !.spice = l]
      OBVIOUS
    <2>3. s \in LandingScreen /\ AllBut(s, {"spice"})
      BY <1>1, <2>2 DEF LandingScreen, AllBut, LandingFields
    <2>4. SoundNext(s)
      BY <2>3, SmallChange DEF AllBut
    <2> QED
      BY <2>1, <2>2, <2>4, ShopClicks
  <1>4. CASE Landing!ResetFilters
    <2>1. PICK s : s = [screen EXCEPT !.category = "all", !.spice = Landing!AnySpice]
      OBVIOUS
    <2>2. s \in LandingScreen /\ AllBut(s, {"category", "spice"})
      BY <1>1, <2>1 DEF LandingScreen, AllBut, LandingFields
    <2>3. SoundNext(s)
      BY <2>2, SmallChange DEF AllBut
    <2>4. Landing!Click(s)
      BY <1>4, <2>1 DEF Landing!ResetFilters
    <2> QED
      BY <2>3, <2>4, ShopClicks
  <1>5. CASE Landing!SetPincode
    <2>1. PICK p \in Pins : Landing!Click([screen EXCEPT !.pin = p])
      BY <1>5 DEF Landing!SetPincode
    <2>2. PICK s : s = [screen EXCEPT !.pin = p]
      OBVIOUS
    <2>3. s \in LandingScreen /\ AllBut(s, {"pin"})
      BY <1>1, <2>2 DEF LandingScreen, AllBut, LandingFields, AnyPin
    <2>4. SoundNext(s)
      BY <2>3, SmallChange DEF AllBut
    <2> QED
      BY <2>1, <2>2, <2>4, ShopClicks
  <1> QED
    BY <1>2, <1>3, <1>4, <1>5

(* A click on the page is not one on the checkout, which covers it.          *)
LEMMA AddedFromPage ==
  ASSUME LandingInv, NEW s \in LandingScreen, "checkout" \notin screen.overlays,
         AllBut(s, {"lines", "overlays"}), BoxesOf(s.lines) \subseteq BoxesOf(screen.lines),
         s.overlays \subseteq screen.overlays \cup {"drawer"}
  PROVE  SoundNext(s)
  BY DEF LandingInv, OpenedFor, AllBut, LandingFields, SoundNext

LEMMA ProductViewed ==
  ASSUME LandingInv, NEW id \in GoodsIds, NEW s, s = Landing!Viewed(screen, id)
  PROVE  SoundNext(s) /\ AllBut(s, {"product", "overlays"}) /\ s.overlays = screen.overlays \cup {"detail"} /\ s.product = id
  <1>1. screen \in LandingScreen
    BY DEF LandingInv, LandingTypes
  <1>2. PICK o : o = screen.overlays \cup {"detail"}
    OBVIOUS
  <1>3. PICK t : t = [screen EXCEPT !.product = id]
    OBVIOUS
  <1>4. t \in LandingScreen /\ AllBut(t, {"product"}) /\ t.product = id
    BY <1>1, <1>3 DEF LandingScreen, AllBut, LandingFields
  <1>5. s = [t EXCEPT !.overlays = o]
    BY <1>2, <1>3, <1>4 DEF Landing!Viewed, Landing!Opened, LandingScreen, AllBut, LandingFields
  <1>6. o \in SUBSET Overlays
    BY <1>1, <1>2 DEF LandingScreen, Overlays
  <1>7. s \in LandingScreen /\ AllBut(s, {"product", "overlays"}) /\ s.product = id /\ s.overlays = o
    BY <1>4, <1>5, <1>6 DEF LandingScreen, AllBut, LandingFields
  <1>8. SoundNext(s)
    BY <1>2, <1>7 DEF LandingInv, OpenedFor, SoundNext, AllBut, LandingFields
  <1> QED
    BY <1>2, <1>7, <1>8

LEMMA AddsFromPage ==
  ASSUME LandingInv, Landing!QuickAdd \/ Landing!QuickView \/ Landing!AddBundle
  PROVE  LandingInv'
  <1>1. "checkout" \notin screen.overlays
    BY TopLayer DEF LandingInv, Landing!QuickAdd, Landing!QuickView, Landing!AddBundle
  <1>2. CASE Landing!QuickAdd
    <2>1. PICK g \in Landing!GoodsSet : Landing!Click(Landing!AddedProduct(screen, g, 1))
      BY <1>2, GoodsFacts DEF Landing!QuickAdd, Landing!Grid, Landing!GoodsSet, Landing!Range
    <2>2. PICK s, n : s = Landing!AddedProduct(screen, g, n) /\ n = 1
      OBVIOUS
    <2>3. n \in Nat \ {0}
      BY <2>2
    <2>4. /\ s \in LandingScreen /\ AllBut(s, {"lines", "overlays"})
          /\ s.overlays = screen.overlays \cup {"drawer"}
          /\ BoxesOf(s.lines) \subseteq BoxesOf(screen.lines)
      BY <2>2, <2>3, ProductAdded
    <2>5. SoundNext(s)
      BY <1>1, <2>4, AddedFromPage
    <2> QED
      BY <2>1, <2>2, <2>5, ShopClicks
  <1>3. CASE Landing!QuickView
    <2>1. PICK g \in Landing!GoodsSet : Landing!Click(Landing!Viewed(screen, g.id))
      BY <1>3 DEF Landing!QuickView, Landing!Grid
    <2>2. PICK s : s = Landing!Viewed(screen, g.id)
      OBVIOUS
    <2>3. g.id \in GoodsIds
      BY GoodsFacts
    <2>4. SoundNext(s)
      BY <2>2, <2>3, ProductViewed
    <2> QED
      BY <2>1, <2>2, <2>4, ShopClicks
  <1>4. CASE Landing!AddBundle
    <2>1. PICK b \in Bundles : Landing!Click(Landing!AddedLine(screen, Landing!Line(b.id, b.price, 1)))
      BY <1>4 DEF Landing!AddBundle
    <2>2. PICK l : l = Landing!Line(b.id, b.price, 1)
      OBVIOUS
    <2>3. l \in BagLines /\ l.id \notin BoxSet
      BY <2>2, GoodsFacts DEF Landing!Line, BagLines, Landing!FREE_SHIPPING_THRESHOLD
    <2>4. PICK s : s = Landing!AddedLine(screen, l)
      OBVIOUS
    <2>5. /\ s \in LandingScreen /\ AllBut(s, {"lines", "overlays"})
          /\ s.overlays = screen.overlays \cup {"drawer"}
          /\ BoxesOf(s.lines) \subseteq BoxesOf(screen.lines)
      BY <2>3, <2>4, LineAdded
    <2>6. SoundNext(s)
      BY <1>1, <2>5, AddedFromPage
    <2> QED
      BY <2>1, <2>2, <2>4, <2>6, ShopClicks
  <1> QED
    BY <1>2, <1>3, <1>4

-----------------------------------------------------------------------------
(* The quiz. *)

LEMMA QuizOf ==
  ASSUME NEW n \in QuizSteps, NEW a \in Tastes, NEW o \in Occasions, NEW m \in QuizMatches, NEW q,
         q = [step |-> n, spice |-> a, occasion |-> o, match |-> m]
  PROVE  q \in Quizzes /\ q.step = n /\ q.spice = a /\ q.occasion = o /\ q.match = m
  BY DEF Quizzes

LEMMA QuizMoves ==
  ASSUME LandingInv, NEW q \in Quizzes, q.step >= 2 => q.spice \in Decided, q.step = 4 => q.match \in GoodsIds,
         Landing!Click([screen EXCEPT !.quiz = q])
  PROVE  LandingInv'
  <1>1. screen \in LandingScreen
    BY DEF LandingInv, LandingTypes
  <1>2. PICK s : s = [screen EXCEPT !.quiz = q]
    OBVIOUS
  <1>3. s \in LandingScreen /\ AllBut(s, {"quiz"}) /\ s.quiz = q
    BY <1>1, <1>2 DEF LandingScreen, AllBut, LandingFields, Quizzes
  <1>4. SoundNext(s)
    BY <1>3 DEF LandingInv, OpenedFor, SoundNext, AllBut, LandingFields
  <1> QED
    BY <1>2, <1>4, ShopClicks

LEMMA QuizAnswered ==
  ASSUME LandingInv, Landing!AnswerQuiz \/ Landing!CalculateMatch \/ Landing!BackInQuiz \/ Landing!ResetQuiz
  PROVE  LandingInv'
  <1>1. PICK k \in Quizzes : k = screen.quiz
    BY DEF LandingInv, LandingTypes, LandingScreen, Quizzes
  <1>2. k.step >= 2 => k.spice \in Decided
    BY <1>1 DEF LandingInv, OpenedFor
  <1>8. PICK n0 \in QuizSteps, a0 \in Tastes, o0 \in Occasions, m0 \in QuizMatches :
          k = [step |-> n0, spice |-> a0, occasion |-> o0, match |-> m0]
    BY DEF Quizzes
  <1>9. k.step = n0 /\ k.spice = a0
    BY <1>8
  <1>3. CASE Landing!AnswerQuiz /\ k.step = 1
    <2>1. PICK a \in Decided : Landing!Click([screen EXCEPT !.quiz = [@ EXCEPT !.step = 2, !.spice = a]])
      BY <1>1, <1>3 DEF Landing!AnswerQuiz, Decided
    <2>2. PICK q : q = [k EXCEPT !.step = 2, !.spice = a]
      OBVIOUS
    <2>3. q \in Quizzes /\ q.step = 2 /\ q.spice = a
      <3>1. a \in Tastes
        BY DEF Tastes
      <3>2. PICK n \in QuizSteps : n = 2
        BY DEF QuizSteps
      <3>3. q = [step |-> n, spice |-> a, occasion |-> o0, match |-> m0]
        BY <1>8, <2>2, <3>2
      <3> QED
        BY <3>1, <3>2, <3>3, QuizOf
    <2>4. Landing!Click([screen EXCEPT !.quiz = q])
      BY <1>1, <2>1, <2>2 DEF LandingInv, LandingTypes, LandingScreen
    <2> QED
      BY <2>3, <2>4, QuizMoves
  <1>4. CASE Landing!AnswerQuiz /\ k.step # 1
    <2>1. PICK a \in {"party", "other"} :
            k.step = 2 /\ Landing!Click([screen EXCEPT !.quiz = [@ EXCEPT !.step = 3, !.occasion = a]])
      BY <1>1, <1>4 DEF Landing!AnswerQuiz
    <2>2. PICK q : q = [k EXCEPT !.step = 3, !.occasion = a]
      OBVIOUS
    <2>3. q \in Quizzes /\ q.step = 3 /\ q.spice \in Decided
      <3>1. PICK n \in QuizSteps : n = 3
        BY DEF QuizSteps
      <3>2. PICK o \in Occasions : o = a
        BY DEF Occasions
      <3>3. q = [step |-> n, spice |-> a0, occasion |-> o, match |-> m0]
        BY <1>8, <2>2, <3>1, <3>2
      <3>4. a0 \in Decided
        BY <1>2, <1>9, <2>1
      <3> QED
        BY <3>1, <3>3, <3>4, QuizOf
    <2>4. Landing!Click([screen EXCEPT !.quiz = q])
      BY <1>1, <2>1, <2>2 DEF LandingInv, LandingTypes, LandingScreen
    <2> QED
      BY <2>3, <2>4, QuizMoves
  <1>5. CASE Landing!CalculateMatch
    <2>1. PICK x \in {"crisp", "other"} :
            Landing!Click([screen EXCEPT !.quiz = [@ EXCEPT !.step = 4, !.match = Recommended[Landing!Decisive(x)]]])
      BY <1>5 DEF Landing!CalculateMatch
    <2>2. k.step = 3 /\ k.spice \in Decided
      BY <1>1, <1>2, <1>5 DEF Landing!CalculateMatch
    <2>3. PICK d : d = Landing!Decisive(x)
      OBVIOUS
    <2>4. d \in {"fiery", "tangy", "healthy", "party", "crisp", "other"}
      BY <1>1, <2>2, <2>3 DEF Landing!Decisive, Decided
    <2>5. PICK m \in GoodsIds : m = Recommended[d]
      BY <2>4, GoodsFacts
    <2>6. PICK q : q = [k EXCEPT !.step = 4, !.match = m]
      OBVIOUS
    <2>7. q \in Quizzes /\ q.step = 4 /\ q.spice \in Decided /\ q.match = m
      <3>1. PICK n \in QuizSteps : n = 4
        BY DEF QuizSteps
      <3>2. m \in QuizMatches
        BY DEF QuizMatches
      <3>3. q = [step |-> n, spice |-> a0, occasion |-> o0, match |-> m]
        BY <1>8, <2>6, <3>1
      <3> QED
        BY <1>9, <2>2, <3>1, <3>2, <3>3, QuizOf
    <2>8. Landing!Click([screen EXCEPT !.quiz = q])
      BY <1>1, <2>1, <2>3, <2>5, <2>6 DEF LandingInv, LandingTypes, LandingScreen
    <2> QED
      BY <2>5, <2>7, <2>8, QuizMoves
  <1>6. CASE Landing!BackInQuiz
    <2>1. k.step \in {2, 3} /\ Landing!Click([screen EXCEPT !.quiz.step = @ - 1])
      BY <1>1, <1>6 DEF Landing!BackInQuiz
    <2>2. PICK q : q = [k EXCEPT !.step = @ - 1]
      OBVIOUS
    <2>3. PICK n \in {1, 2} : n = k.step - 1
      BY <2>1
    <2>4. q = [k EXCEPT !.step = n]
      BY <2>2, <2>3 DEF Quizzes
    <2>5. q \in Quizzes /\ q.step = n /\ q.spice = k.spice
      <3>1. n \in QuizSteps
        BY <2>3 DEF QuizSteps
      <3>2. q = [step |-> n, spice |-> a0, occasion |-> o0, match |-> m0]
        BY <1>8, <2>4
      <3> QED
        BY <1>9, <3>1, <3>2, QuizOf
    <2>6. Landing!Click([screen EXCEPT !.quiz = q])
      BY <1>1, <2>1, <2>2 DEF LandingInv, LandingTypes, LandingScreen, Quizzes
    <2> QED
      BY <1>2, <2>1, <2>5, <2>6, QuizMoves
  <1>7. CASE Landing!ResetQuiz
    <2>1. PICK q : q = Landing!NewQuiz
      OBVIOUS
    <2>2. q \in Quizzes /\ q.step = 1
      <3>1. PICK n \in QuizSteps : n = 1
        BY DEF QuizSteps
      <3>2. PICK a \in Tastes : a = ""
        BY DEF Tastes
      <3>3. PICK m \in QuizMatches : m = None
        BY DEF QuizMatches
      <3>4. PICK o \in Occasions : o = ""
        BY DEF Occasions
      <3>5. q = [step |-> n, spice |-> a, occasion |-> o, match |-> m]
        BY <2>1, <3>1, <3>2, <3>3, <3>4 DEF Landing!NewQuiz
      <3> QED
        BY <3>1, <3>5, QuizOf
    <2>3. Landing!Click([screen EXCEPT !.quiz = q])
      BY <1>7, <2>1 DEF Landing!ResetQuiz
    <2> QED
      BY <2>2, <2>3, QuizMoves
  <1> QED
    BY <1>3, <1>4, <1>5, <1>6, <1>7

LEMMA MatchTaken ==
  ASSUME LandingInv, Landing!TakeMatch
  PROVE  LandingInv'
  <1>1. PICK m \in GoodsIds : m = screen.quiz.match
    BY DEF LandingInv, OpenedFor, Landing!TakeMatch
  <1>2. "checkout" \notin screen.overlays
    BY TopLayer DEF LandingInv, Landing!TakeMatch
  <1>3. CASE Landing!Click(Landing!AddedProduct(screen, Landing!Named(m), 1))
    <2>1. PICK g, n : g = Landing!Named(m) /\ n = 1
      OBVIOUS
    <2>2. g \in Landing!GoodsSet /\ n \in Nat \ {0}
      BY <2>1, NamedGoods
    <2>3. PICK s : s = Landing!AddedProduct(screen, g, n)
      OBVIOUS
    <2>4. /\ s \in LandingScreen /\ AllBut(s, {"lines", "overlays"})
          /\ s.overlays = screen.overlays \cup {"drawer"}
          /\ BoxesOf(s.lines) \subseteq BoxesOf(screen.lines)
      BY <2>2, <2>3, ProductAdded
    <2>5. SoundNext(s)
      BY <1>2, <2>4, AddedFromPage
    <2> QED
      BY <1>3, <2>1, <2>3, <2>5, ShopClicks
  <1>4. CASE Landing!Click(Landing!Viewed(screen, m))
    <2>1. PICK s : s = Landing!Viewed(screen, m)
      OBVIOUS
    <2>2. SoundNext(s)
      BY <2>1, ProductViewed
    <2> QED
      BY <1>4, <2>1, <2>2, ShopClicks
  <1> QED
    BY <1>1, <1>3, <1>4 DEF Landing!TakeMatch

-----------------------------------------------------------------------------
(* The box builder. *)

LEMMA BoxFilled ==
  ASSUME LandingInv, Landing!SelectItem \/ Landing!RemoveFromBox
  PROVE  LandingInv'
  <1>1. screen \in LandingScreen /\ screen.box \in Seq(GoodsIds)
    BY DEF LandingInv, LandingTypes, LandingScreen
  <1>2. ASSUME NEW box \in Seq(GoodsIds), Landing!Click([screen EXCEPT !.box = box]) PROVE LandingInv'
    <2>1. PICK s : s = [screen EXCEPT !.box = box]
      OBVIOUS
    <2>2. s \in LandingScreen /\ AllBut(s, {"box"})
      BY <1>1, <2>1 DEF LandingScreen, AllBut, LandingFields
    <2>3. SoundNext(s)
      BY <2>2, SmallChange DEF AllBut
    <2> QED
      BY <1>2, <2>1, <2>3, ShopClicks
  <1>3. CASE Landing!SelectItem
    <2>1. PICK g \in Landing!GoodsSet : Landing!Click([screen EXCEPT !.box = Append(@, g.id)])
      BY <1>3 DEF Landing!SelectItem
    <2>2. PICK box : box = Append(screen.box, g.id)
      OBVIOUS
    <2>3. box \in Seq(GoodsIds)
      BY <1>1, <2>2, GoodsFacts
    <2>4. Landing!Click([screen EXCEPT !.box = box])
      BY <1>1, <2>1, <2>2 DEF LandingScreen
    <2> QED
      BY <1>2, <2>3, <2>4
  <1>4. CASE Landing!RemoveFromBox
    <2>1. PICK i \in DOMAIN screen.box : Landing!Click([screen EXCEPT !.box = Landing!RemoveAt(@, i)])
      BY <1>4 DEF Landing!RemoveFromBox
    <2>2. PICK box : box = Landing!RemoveAt(screen.box, i)
      OBVIOUS
    <2>3. box \in Seq(GoodsIds)
      <3>1. PICK b \in Seq(GoodsIds) : b = screen.box
        BY <1>1
      <3>2. i \in 1 .. Len(b)
        BY <3>1
      <3>3. SubSeq(b, 1, i - 1) \in Seq(GoodsIds) /\ SubSeq(b, i + 1, Len(b)) \in Seq(GoodsIds)
        BY <3>2
      <3>4. box = SubSeq(b, 1, i - 1) \o SubSeq(b, i + 1, Len(b))
        BY <2>2, <3>1 DEF Landing!RemoveAt
      <3> QED
        BY <3>3, <3>4
    <2>4. Landing!Click([screen EXCEPT !.box = box])
      BY <1>1, <2>1, <2>2 DEF LandingScreen
    <2> QED
      BY <1>2, <2>3, <2>4
  <1> QED
    BY <1>3, <1>4

(* Each box takes an id of its own from the clock.                           *)
LEMMA BoxAdded ==
  ASSUME LandingInv, Landing!AddBox
  PROVE  LandingInv'
  <1>1. screen \in LandingScreen /\ screen.boxes \in Nat /\ screen.boxes < Len(BoxIds)
    BY GoodsFacts DEF LandingInv, LandingTypes, LandingScreen, Landing!AddBox
  <1>2. "checkout" \notin screen.overlays
    BY TopLayer DEF LandingInv, Landing!AddBox
  <1>3. PICK n : n = screen.boxes + 1
    OBVIOUS
  <1>4. n \in 1 .. Len(BoxIds) /\ n \in 0 .. Len(BoxIds)
    BY <1>1, <1>3, GoodsFacts
  <1>5. PICK l : l = Landing!Line(BoxIds[n], Landing!COMBO_PRICE, 1)
    OBVIOUS
  <1>6. l \in BagLines /\ l.id = BoxIds[n] /\ BoxIds[n] \in BoxSet
    <2>1. BoxIds[n] \in BoxSet
      BY <1>4, GoodsFacts DEF BoxSet
    <2> QED
      BY <1>5, <2>1 DEF Landing!Line, BagLines, Landing!COMBO_PRICE, Landing!FREE_SHIPPING_THRESHOLD
  <1>7. PICK r : r = Landing!AddedLine(screen, l)
    OBVIOUS
  <1>8. /\ r \in LandingScreen /\ AllBut(r, {"lines", "overlays"})
        /\ r.overlays = screen.overlays \cup {"drawer"}
        /\ BoxesOf(r.lines) \subseteq BoxesOf(screen.lines) \cup ({l.id} \cap BoxSet)
    BY <1>6, <1>7, LineAdded
  <1>9. PICK c \in Nat : c = r.clicks + 1
    <2>1. r.clicks \in Nat
      BY <1>8 DEF LandingScreen
    <2> QED
      BY <2>1
  <1>10. screen' = [r EXCEPT !.boxes = n, !.clicks = c] /\ held' = held
    <2>1. r.boxes = screen.boxes
      BY <1>8 DEF AllBut, LandingFields
    <2>2. /\ screen' = [[r EXCEPT !.boxes = @ + 1] EXCEPT !.clicks = @ + 1]
          /\ held' = held
      BY <1>3, <1>5, <1>7 DEF Landing!AddBox, Landing!Click, Landing!Show
    <2> QED
      BY <1>3, <1>8, <1>9, <2>1, <2>2 DEF LandingScreen
  <1>11. screen' \in LandingScreen /\ \A f \in LandingFields \ {"boxes", "clicks"} : screen'[f] = r[f]
    <2>1. PICK t : t = [r EXCEPT !.boxes = n]
      OBVIOUS
    <2>2. t \in LandingScreen /\ \A f \in LandingFields \ {"boxes"} : t[f] = r[f]
      BY <1>4, <1>8, <2>1 DEF LandingScreen, LandingFields
    <2>3. screen' = [t EXCEPT !.clicks = c]
      BY <1>10, <2>1
    <2>4. screen' \in LandingScreen
      BY <1>9, <2>2, <2>3 DEF LandingScreen
    <2>5. \A f \in LandingFields \ {"clicks"} : screen'[f] = t[f]
      BY <2>2, <2>3 DEF LandingScreen, LandingFields
    <2> QED
      BY <2>2, <2>4, <2>5 DEF LandingFields
  <1>12. screen'.boxes = n
    BY <1>8, <1>10 DEF LandingScreen
  <1>13. BoxesSoldOnce'
    <2>1. Made(n) = Made(screen.boxes) \cup {BoxIds[n]} /\ BoxIds[n] \notin Made(screen.boxes)
      <3>1. 1 .. n = (1 .. screen.boxes) \cup {n} /\ n \notin 1 .. screen.boxes
        BY <1>1, <1>3
      <3>2. \A k \in 1 .. screen.boxes : k \in DOMAIN BoxIds
        BY <1>1, GoodsFacts
      <3>3. n \in DOMAIN BoxIds
        BY <1>4, GoodsFacts
      <3> QED
        BY <3>1, <3>2, <3>3, GoodsFacts DEF Made
    <2>2. BoxesOf(screen'.lines) \subseteq BoxesOf(screen.lines) \cup {BoxIds[n]}
      BY <1>6, <1>8, <1>11 DEF LandingFields
    <2> QED
      BY <1>10, <1>12, <2>1, <2>2 DEF LandingInv, BoxesSoldOnce
  <1>14. "checkout" \notin screen'.overlays
    BY <1>2, <1>8, <1>11 DEF LandingFields
  <1>15. OpenedFor'
    BY <1>8, <1>11, <1>14 DEF LandingInv, OpenedFor, AllBut, LandingFields
  <1> QED
    BY <1>10, <1>11, <1>13, <1>15 DEF LandingInv, LandingTypes

-----------------------------------------------------------------------------
(* The overlays. *)

LEMMA StaysSound ==
  ASSUME LandingInv
  PROVE  SoundNext(screen)
  BY DEF LandingInv, LandingTypes, OpenedFor, SoundNext

LEMMA ClosedSound ==
  ASSUME NEW t, SoundNext(t), NEW layer, NEW s, s = Landing!Closed(t, layer)
  PROVE  SoundNext(s)
  <1>1. PICK o : o = t.overlays \ {layer}
    OBVIOUS
  <1>2. o \in SUBSET Overlays /\ t \in LandingScreen
    BY <1>1 DEF SoundNext, LandingScreen
  <1>3. s = [t EXCEPT !.overlays = o]
    BY <1>1, <1>2 DEF Landing!Closed, LandingScreen
  <1>4. s \in LandingScreen /\ s.overlays = o /\ \A f \in LandingFields \ {"overlays"} : s[f] = t[f]
    BY <1>2, <1>3 DEF LandingScreen, LandingFields
  <1> QED
    BY <1>1, <1>4 DEF SoundNext, LandingFields

LEMMA OpenedSound ==
  ASSUME LandingInv, NEW layer \in {"drawer", "pincode", "search"}, NEW s, s = Landing!Opened(screen, layer)
  PROVE  SoundNext(s)
  <1>1. PICK o : o = screen.overlays \cup {layer}
    OBVIOUS
  <1>2. screen \in LandingScreen
    BY DEF LandingInv, LandingTypes
  <1>3. o \in SUBSET Overlays
    BY <1>1, <1>2 DEF LandingScreen, Overlays
  <1>4. s = [screen EXCEPT !.overlays = o]
    BY <1>1, <1>2 DEF Landing!Opened, LandingScreen
  <1>5. s \in LandingScreen /\ s.overlays = o /\ AllBut(s, {"overlays"})
    BY <1>2, <1>3, <1>4 DEF LandingScreen, LandingFields, AllBut
  <1> QED
    BY <1>1, <1>5 DEF LandingInv, OpenedFor, SoundNext, AllBut, LandingFields

LEMMA OverlaysChange ==
  ASSUME LandingInv, Landing!OpenOverlay \/ Landing!CloseOverlay \/ Landing!SelectFound
  PROVE  LandingInv'
  <1>1. CASE Landing!OpenOverlay
    <2>1. PICK layer \in {"drawer", "pincode", "search"} : Landing!Click(Landing!Opened(screen, layer))
      BY <1>1 DEF Landing!OpenOverlay
    <2>2. PICK s : s = Landing!Opened(screen, layer)
      OBVIOUS
    <2>3. SoundNext(s)
      BY <2>2, OpenedSound
    <2> QED
      BY <2>1, <2>2, <2>3, ShopClicks
  <1>2. CASE Landing!CloseOverlay
    <2>1. PICK s, layer : s = Landing!Closed(screen, layer) /\ layer = Landing!Top
      OBVIOUS
    <2>2. SoundNext(s)
      BY <2>1, StaysSound, ClosedSound
    <2>3. Landing!Show(s)
      BY <1>2, <2>1 DEF Landing!CloseOverlay
    <2> QED
      BY <2>2, <2>3, ShopShows
  <1>3. CASE Landing!SelectFound
    <2>1. PICK g \in Landing!GoodsSet : Landing!Click(Landing!Closed(Landing!Viewed(screen, g.id), "search"))
      BY <1>3 DEF Landing!SelectFound
    <2>2. PICK t, id : t = Landing!Viewed(screen, id) /\ id = g.id
      OBVIOUS
    <2>3. id \in GoodsIds
      BY <2>2, GoodsFacts
    <2>4. SoundNext(t)
      BY <2>2, <2>3, ProductViewed
    <2>5. PICK s : s = Landing!Closed(t, "search")
      OBVIOUS
    <2>6. SoundNext(s)
      BY <2>4, <2>5, ClosedSound
    <2> QED
      BY <2>1, <2>2, <2>5, <2>6, ShopClicks
  <1> QED
    BY <1>1, <1>2, <1>3

LEMMA ProductLookedAt ==
  ASSUME LandingInv, Landing!StepQuantity \/ Landing!AddViewed
  PROVE  LandingInv'
  <1>1. screen \in LandingScreen /\ screen.quantity \in Nat \ {0}
    BY DEF LandingInv, LandingTypes, LandingScreen
  <1>2. CASE Landing!StepQuantity
    <2>1. PICK n \in {screen.quantity - 1, screen.quantity + 1} \ {0, MaxUnits + 1} :
            Landing!Click([screen EXCEPT !.quantity = n])
      BY <1>2 DEF Landing!StepQuantity
    <2>2. n \in Nat \ {0}
      BY <1>1, <2>1
    <2>3. PICK s : s = [screen EXCEPT !.quantity = n]
      OBVIOUS
    <2>4. s \in LandingScreen /\ AllBut(s, {"quantity"})
      BY <1>1, <2>2, <2>3 DEF LandingScreen, AllBut, LandingFields
    <2>5. SoundNext(s)
      BY <2>4, SmallChange DEF AllBut
    <2> QED
      BY <2>1, <2>3, <2>5, ShopClicks
  <1>3. CASE Landing!AddViewed
    <2>1. "checkout" \notin screen.overlays /\ screen.product \in GoodsIds
      BY <1>3, TopLayer DEF LandingInv, OpenedFor, Landing!AddViewed
    <2>2. PICK id, g, n : id = screen.product /\ g = Landing!Named(id) /\ n = screen.quantity
      OBVIOUS
    <2>3. g \in Landing!GoodsSet /\ n \in Nat \ {0}
      BY <1>1, <2>1, <2>2, NamedGoods
    <2>4. PICK t : t = Landing!AddedProduct(screen, g, n)
      OBVIOUS
    <2>5. /\ t \in LandingScreen /\ AllBut(t, {"lines", "overlays"})
          /\ t.overlays = screen.overlays \cup {"drawer"}
          /\ BoxesOf(t.lines) \subseteq BoxesOf(screen.lines)
      BY <2>3, <2>4, ProductAdded
    <2>6. SoundNext(t)
      BY <2>1, <2>5, AddedFromPage
    <2>7. PICK s : s = Landing!Closed(t, "detail")
      OBVIOUS
    <2>8. SoundNext(s)
      BY <2>6, <2>7, ClosedSound
    <2>9. Landing!Click(s)
      BY <1>3, <2>2, <2>4, <2>7 DEF Landing!AddViewed
    <2> QED
      BY <2>8, <2>9, ShopClicks
  <1> QED
    BY <1>2, <1>3

-----------------------------------------------------------------------------
(* The drawer and the checkout. *)

LEMMA LineChanges ==
  ASSUME LandingInv, Landing!ChangeLine
  PROVE  LandingInv'
  <1>1. screen \in LandingScreen /\ screen.lines \in Seq(BagLines)
    BY DEF LandingInv, LandingTypes, LandingScreen
  <1>2. "checkout" \notin screen.overlays
    BY TopLayer DEF LandingInv, Landing!ChangeLine
  <1>3. ASSUME NEW s, s \in LandingScreen /\ AllBut(s, {"lines"}) /\ BoxesOf(s.lines) \subseteq BoxesOf(screen.lines),
               Landing!Click(s)
        PROVE  LandingInv'
    <2>1. AllBut(s, {"lines", "overlays"}) /\ s.overlays \subseteq screen.overlays \cup {"drawer"}
      BY <1>3 DEF AllBut, LandingFields
    <2>2. SoundNext(s)
      BY <1>2, <1>3, <2>1, AddedFromPage
    <2> QED
      BY <1>3, <2>2, ShopClicks
  <1>4. ASSUME NEW id, NEW d \in Int, Landing!Click(Landing!UpdateQuantity(id, d)) PROVE LandingInv'
    <2> DEFINE moved(line) == IF line.id = id THEN [line EXCEPT !.quantity = @ + d] ELSE line
               Moving == [id : GoodsIds \cup BundleIds \cup BoxSet, price : Nat \ {0}, quantity : Int]
    <2>1. PICK lines : lines = [i \in DOMAIN screen.lines |-> moved(screen.lines[i])]
      OBVIOUS
    <2>2. ASSUME NEW i \in DOMAIN screen.lines
          PROVE  /\ moved(screen.lines[i]) \in Moving /\ moved(screen.lines[i]).id = screen.lines[i].id
                 /\ moved(screen.lines[i]).quantity > 0 => moved(screen.lines[i]) \in BagLines
      <3>1. PICK l \in BagLines : l = screen.lines[i]
        BY <1>1
      <3>2. CASE l.id = id
        <4>1. PICK n \in Int : n = l.quantity + d
          BY DEF BagLines
        <4>2. PICK m : m = [l EXCEPT !.quantity = n]
          OBVIOUS
        <4>3. m \in Moving /\ m.id = l.id /\ m.price = l.price /\ m.quantity = n
          BY <4>1, <4>2 DEF BagLines
        <4>4. n > 0 => m \in BagLines
          BY <4>2, <4>3 DEF BagLines
        <4>5. moved(screen.lines[i]) = m
          BY <3>1, <3>2, <4>1, <4>2
        <4> QED
          BY <3>1, <4>3, <4>4, <4>5
      <3>3. CASE l.id # id
        <4>1. l \in Moving
          BY DEF BagLines
        <4> QED
          BY <3>1, <3>3, <4>1
      <3> QED
        BY <3>2, <3>3
    <2>3. DOMAIN screen.lines = 1 .. Len(screen.lines) /\ Len(screen.lines) \in Nat
      BY <1>1
    <2>4. PICK P : P = {i \in DOMAIN lines : lines[i].quantity > 0}
      OBVIOUS
    <2>5. PICK S : S = Moving
      OBVIOUS
    <2>6. PICK s : s = [screen EXCEPT !.lines = Landing!Kept(lines, P)]
      OBVIOUS
    <2>7. Landing!Click(s)
      BY <1>4, <2>1, <2>4, <2>6 DEF Landing!UpdateQuantity
    <2> HIDE DEF moved, Moving
    <2>8. lines \in Seq(S)
      BY <2>1, <2>2, <2>3, <2>5
    <2>9. \A i \in DOMAIN lines : /\ i \in DOMAIN screen.lines /\ lines[i].id = screen.lines[i].id
                                  /\ i \in P => lines[i] \in BagLines
      BY <2>1, <2>2, <2>4
    <2> QED
      BY <1>3, <2>6, <2>7, <2>8, <2>9, LinesKept
  <1>5. ASSUME NEW id, Landing!Click(Landing!RemoveItem(id)) PROVE LandingInv'
    <2>1. PICK lines \in Seq(BagLines) : lines = screen.lines
      BY <1>1
    <2>2. PICK P : P = {i \in DOMAIN lines : lines[i].id # id}
      OBVIOUS
    <2>3. PICK s : s = [screen EXCEPT !.lines = Landing!Kept(lines, P)]
      OBVIOUS
    <2>4. Landing!Click(s)
      BY <1>1, <1>5, <2>1, <2>2, <2>3 DEF Landing!RemoveItem, LandingScreen
    <2>5. \A i \in DOMAIN lines : /\ i \in DOMAIN screen.lines /\ lines[i].id = screen.lines[i].id
                                  /\ i \in P => lines[i] \in BagLines
      BY <2>1
    <2> QED
      BY <1>3, <2>3, <2>4, <2>5, LinesKept
  <1>6. PICK id : \/ Landing!Click(Landing!UpdateQuantity(id, 1))
                  \/ Landing!Click(Landing!UpdateQuantity(id, -1))
                  \/ Landing!Click(Landing!RemoveItem(id))
    BY DEF Landing!ChangeLine
  <1> QED
    BY <1>4, <1>5, <1>6

LEMMA CouponApplied ==
  ASSUME LandingInv, Landing!ApplyCoupon
  PROVE  LandingInv'
  <1>1. screen \in LandingScreen
    BY DEF LandingInv, LandingTypes
  <1>2. "checkout" \notin screen.overlays
    BY TopLayer DEF LandingInv, Landing!ApplyCoupon
  <1>3. ASSUME NEW s \in LandingScreen, AllBut(s, {"coupon", "couponError"}), Landing!Click(s) PROVE LandingInv'
    <2>1. SoundNext(s)
      BY <1>2, <1>3 DEF LandingInv, OpenedFor, SoundNext, AllBut, LandingFields
    <2> QED
      BY <1>3, <2>1, ShopClicks
  <1>4. ASSUME NEW k \in ShopCoupons, NEW e \in BOOLEAN,
               Landing!Click([screen EXCEPT !.coupon = k, !.couponError = e])
        PROVE  LandingInv'
    <2>1. PICK s : s = [screen EXCEPT !.coupon = k, !.couponError = e]
      OBVIOUS
    <2>2. s \in LandingScreen /\ AllBut(s, {"coupon", "couponError"})
      BY <1>1, <2>1 DEF LandingScreen, AllBut, LandingFields
    <2> QED
      BY <1>3, <1>4, <2>1, <2>2
  <1>5. PICK yes \in BOOLEAN, no \in BOOLEAN : yes = TRUE /\ no = FALSE
    OBVIOUS
  <1>6. CASE \E k \in Landing!Coupons : Landing!Click([screen EXCEPT !.coupon = k, !.couponError = FALSE])
    BY <1>4, <1>5, <1>6 DEF ShopCoupons
  <1>7. CASE Landing!Click([screen EXCEPT !.couponError = TRUE])
    <2>1. PICK k \in ShopCoupons : k = screen.coupon
      BY <1>1 DEF LandingScreen
    <2>2. [screen EXCEPT !.couponError = yes] = [screen EXCEPT !.coupon = k, !.couponError = yes]
      BY <1>1, <2>1 DEF LandingScreen
    <2> QED
      BY <1>4, <1>5, <1>7, <2>2
  <1>8. CASE Landing!Click([screen EXCEPT !.coupon = ""])
    <2>1. PICK k \in ShopCoupons : k = ""
      BY DEF ShopCoupons
    <2>2. PICK e \in BOOLEAN : e = screen.couponError
      BY <1>1 DEF LandingScreen
    <2>3. [screen EXCEPT !.coupon = k] = [screen EXCEPT !.coupon = k, !.couponError = e]
      BY <1>1, <2>2 DEF LandingScreen
    <2> QED
      BY <1>4, <1>8, <2>1, <2>3
  <1> QED
    BY <1>6, <1>7, <1>8 DEF Landing!ApplyCoupon

(* The checkout opens on the total that the drawer shows.                    *)
LEMMA CheckoutOpened ==
  ASSUME LandingInv, Landing!ProceedToCheckout
  PROVE  LandingInv'
  <1>1. screen \in LandingScreen /\ screen.lines # <<>>
    BY DEF LandingInv, LandingTypes, Landing!ProceedToCheckout
  <1>2. PICK d \in Nat : d = Landing!DrawerTotal
    BY TotalsAgree DEF LandingInv
  <1>3. PICK o : o = (screen.overlays \ {"drawer"}) \cup {"checkout"}
    OBVIOUS
  <1>4. o \in SUBSET Overlays
    BY <1>1, <1>3 DEF LandingScreen, Overlays
  <1>5. PICK t : t = [screen EXCEPT !.shown = d]
    OBVIOUS
  <1>6. t \in LandingScreen /\ t.shown = d /\ AllBut(t, {"shown"})
    BY <1>1, <1>5 DEF LandingScreen, AllBut, LandingFields
  <1>7. screen' = [t EXCEPT !.overlays = o] /\ held' = held
    <2>1. screen' = Landing!Opened(Landing!Closed(t, "drawer"), "checkout") /\ held' = held
      BY <1>2, <1>5 DEF Landing!ProceedToCheckout, Landing!Show
    <2>2. t.overlays = screen.overlays
      BY <1>6 DEF AllBut, LandingFields
    <2> QED
      BY <1>3, <1>6, <2>1, <2>2 DEF Landing!Opened, Landing!Closed, LandingScreen
  <1>8. screen' \in LandingScreen /\ screen'.overlays = o /\ screen'.shown = d /\ AllBut(screen', {"shown", "overlays"})
    BY <1>4, <1>6, <1>7 DEF LandingScreen, AllBut, LandingFields
  <1>9. screen'.lines = screen.lines /\ screen'.coupon = screen.coupon /\ screen'.boxes = screen.boxes
    BY <1>8 DEF AllBut, LandingFields
  <1>10. Landing!DrawerTotal' = d
    BY <1>2, <1>9 DEF Landing!DrawerTotal, Landing!Discount
  <1>11. OpenedFor'
    BY <1>1, <1>3, <1>8, <1>9, <1>10 DEF LandingInv, OpenedFor, AllBut, LandingFields
  <1>12. BoxesSoldOnce'
    BY <1>7, <1>9 DEF LandingInv, BoxesSoldOnce
  <1> QED
    BY <1>7, <1>8, <1>11, <1>12 DEF LandingInv, LandingTypes

LEMMA FormFilled ==
  ASSUME LandingInv, Landing!FillForm
  PROVE  LandingInv'
  <1>1. screen \in LandingScreen /\ screen.form \in ShopForms
    BY DEF LandingInv, LandingTypes, LandingScreen
  <1>2. ASSUME NEW form \in ShopForms, Landing!Click([screen EXCEPT !.form = form]) PROVE LandingInv'
    <2>1. PICK s : s = [screen EXCEPT !.form = form]
      OBVIOUS
    <2>2. s \in LandingScreen /\ AllBut(s, {"form"})
      BY <1>1, <2>1 DEF LandingScreen, AllBut, LandingFields
    <2>3. SoundNext(s)
      BY <2>2, SmallChange DEF AllBut
    <2> QED
      BY <1>2, <2>1, <2>3, ShopClicks
  <1>3. CASE \E p \in Pins : Landing!Click([screen EXCEPT !.form.pin = p])
    <2>1. PICK p \in Pins : Landing!Click([screen EXCEPT !.form.pin = p])
      BY <1>3
    <2>2. PICK form : form = [screen.form EXCEPT !.pin = p]
      OBVIOUS
    <2>3. form \in ShopForms
      BY <1>1, <2>2 DEF ShopForms, AnyPin
    <2>4. Landing!Click([screen EXCEPT !.form = form])
      BY <1>1, <2>1, <2>2 DEF LandingScreen
    <2> QED
      BY <1>2, <2>3, <2>4
  <1>4. CASE \E m \in {"upi", "cod", "card"} : Landing!Click([screen EXCEPT !.form.method = m])
    <2>1. PICK m \in {"upi", "cod", "card"} : Landing!Click([screen EXCEPT !.form.method = m])
      BY <1>4
    <2>2. PICK form : form = [screen.form EXCEPT !.method = m]
      OBVIOUS
    <2>3. form \in ShopForms
      BY <1>1, <2>2 DEF ShopForms
    <2>4. Landing!Click([screen EXCEPT !.form = form])
      BY <1>1, <2>1, <2>2 DEF LandingScreen
    <2> QED
      BY <1>2, <2>3, <2>4
  <1> QED
    BY <1>3, <1>4 DEF Landing!FillForm

(* An order takes the bag, its boxes with it.                                *)
LEMMA LandingOrdered ==
  ASSUME LandingInv, Landing!PlaceOrder
  PROVE  LandingInv'
  <1>1. screen \in LandingScreen /\ held \in Seq(SoldOrders)
    BY DEF LandingInv, LandingTypes
  <1>2. "checkout" \in screen.overlays
    BY TopLayer DEF LandingInv, Landing!PlaceOrder
  <1>3. screen.lines # <<>> /\ screen.shown = Landing!CheckoutTotal
    BY <1>2, TotalsAgree DEF LandingInv, OpenedFor
  <1>4. PICK a : a = Landing!Order
    OBVIOUS
  <1>5. /\ a.items = screen.lines /\ a.total = screen.shown /\ a.shown = screen.shown
        /\ a \in SoldOrders
    BY <1>1, <1>3, <1>4 DEF Landing!Order, SoldOrders, LandingScreen
  <1>6. SoldRight(a)
    BY <1>3, <1>5, TotalsAgree DEF SoldRight, LandingInv
  <1>7. held' = Append(held, a)
    BY <1>4 DEF Landing!PlaceOrder
  <1>8. PICK n : n = Len(held) + 1
    OBVIOUS
  <1>9. /\ held' \in Seq(SoldOrders) /\ DOMAIN held' = DOMAIN held \cup {n} /\ n \notin DOMAIN held
        /\ held'[n] = a /\ \A i \in DOMAIN held : held'[i] = held[i]
    BY <1>1, <1>5, <1>7, <1>8
  <1>10. PICK o : o = (screen.overlays \ {"checkout"}) \cup {"success"}
    OBVIOUS
  <1>11. o \in SUBSET Overlays
    BY <1>1, <1>10 DEF LandingScreen, Overlays
  <1>12. PICK none : none = <<>>
    OBVIOUS
  <1>13. PICK t : t = [screen EXCEPT !.lines = none]
    OBVIOUS
  <1>14. t \in LandingScreen /\ t.lines = none /\ AllBut(t, {"lines"})
    <2>1. none \in Seq(BagLines)
      BY <1>12
    <2> QED
      BY <1>1, <1>13, <2>1 DEF LandingScreen, AllBut, LandingFields
  <1>15. screen' = [t EXCEPT !.overlays = o]
    <2>1. screen' = Landing!Opened(Landing!Closed(t, "checkout"), "success")
      BY <1>12, <1>13 DEF Landing!PlaceOrder, Landing!OrderSuccess
    <2>2. t.overlays = screen.overlays
      BY <1>14 DEF AllBut, LandingFields
    <2> QED
      BY <1>10, <1>14, <2>1, <2>2 DEF Landing!Opened, Landing!Closed, LandingScreen
  <1>16. screen' \in LandingScreen /\ screen'.overlays = o /\ screen'.lines = none /\ AllBut(screen', {"lines", "overlays"})
    BY <1>11, <1>14, <1>15 DEF LandingScreen, AllBut, LandingFields
  <1>17. OpenedFor'
    BY <1>10, <1>16 DEF LandingInv, OpenedFor, AllBut, LandingFields
  <1>18. BoxesSoldOnce'
    <2>1. BoxesOf(screen'.lines) = {} /\ screen'.boxes = screen.boxes
      BY <1>12, <1>16 DEF BoxesOf, AllBut, LandingFields
    <2>2. BoxesOf(held'[n].items) = BoxesOf(screen.lines)
      BY <1>5, <1>9
    <2> QED
      BY <1>9, <2>1, <2>2 DEF LandingInv, BoxesSoldOnce
  <1>19. \A i \in DOMAIN held' : SoldRight(held'[i])
    BY <1>6, <1>9 DEF LandingInv
  <1> QED
    BY <1>9, <1>16, <1>17, <1>18, <1>19 DEF LandingInv, LandingTypes

LEMMA LandingStep ==
  ASSUME LandingInv, Landing!Next
  PROVE  LandingInv'
  BY FiltersChange, AddsFromPage, QuizAnswered, MatchTaken, BoxFilled, BoxAdded, OverlaysChange, ProductLookedAt,
     LineChanges, CouponApplied, CheckoutOpened, FormFilled, LandingOrdered DEF Landing!Next

LEMMA LandingInit ==
  ASSUME Landing!Init
  PROVE  LandingInv
  <1>1. PICK l : l = Landing!Line(Goods[1].id, Goods[1].price, 2)
    OBVIOUS
  <1>2. l \in BagLines /\ l.id \notin BoxSet
    <2>1. Goods[1] \in Landing!GoodsSet
      BY GoodsFacts DEF Landing!GoodsSet, Landing!Range
    <2> QED
      BY <1>1, <2>1, GoodsFacts DEF Landing!Line, BagLines
  <1>3. PICK lines, none, form, quiz : lines = <<l>> /\ none = <<>> /\ form = [pin |-> DefaultPin, method |-> "upi"] /\ quiz = Landing!NewQuiz
    OBVIOUS
  <1>4. lines \in Seq(BagLines) /\ none \in Seq(GoodsIds) /\ form \in ShopForms
    BY <1>2, <1>3 DEF ShopForms, AnyPin
  <1>5. quiz \in Quizzes /\ quiz.step = 1
    <2>1. PICK n \in QuizSteps : n = 1
      BY DEF QuizSteps
    <2>2. PICK a \in Tastes : a = ""
      BY DEF Tastes
    <2>3. PICK m \in QuizMatches : m = None
      BY DEF QuizMatches
    <2>4. PICK o \in Occasions : o = ""
      BY DEF Occasions
    <2>5. quiz = [step |-> n, spice |-> a, occasion |-> o, match |-> m]
      BY <1>3, <2>1, <2>2, <2>3, <2>4 DEF Landing!NewQuiz
    <2> QED
      BY <2>1, <2>5, QuizOf
  <1>6. PICK e \in BOOLEAN : e = FALSE
    OBVIOUS
  <1>7. 0 \in 0 .. Len(BoxIds) /\ DefaultPin \in AnyPin
    BY GoodsFacts DEF AnyPin
  <1>8. screen = [lines |-> lines, coupon |-> "BILOKAT20", couponError |-> e, pin |-> DefaultPin, form |-> form,
                  overlays |-> {}, product |-> None, quantity |-> 1, category |-> "all", spice |-> Landing!AnySpice,
                  box |-> none, boxes |-> 0, quiz |-> quiz, shown |-> 0, clicks |-> 0]
    BY <1>1, <1>3, <1>6 DEF Landing!Init
  <1>9. screen \in LandingScreen
    BY <1>4, <1>5, <1>6, <1>7, <1>8 DEF LandingScreen, ShopCoupons, Landing!Coupons
  <1>10. screen.lines = lines /\ screen.overlays = {} /\ screen.quiz = quiz
    BY <1>8
  <1>11. held = <<>>
    BY DEF Landing!Init
  <1>12. held \in Seq(SoldOrders) /\ DOMAIN held = {}
    BY <1>11
  <1>13. BoxesOf(screen.lines) = {}
    BY <1>2, <1>3, <1>10 DEF BoxesOf
  <1>14. OpenedFor
    BY <1>5, <1>10 DEF OpenedFor
  <1> QED
    BY <1>9, <1>12, <1>13, <1>14 DEF LandingInv, LandingTypes, BoxesSoldOnce

LEMMA LandingKeeps ==
  ASSUME LandingInv
  PROVE  Landing!SoldAsShown
  <1>1. held \in Seq(SoldOrders)
    BY DEF LandingInv, LandingTypes
  <1>2. ASSUME NEW i \in DOMAIN held
        PROVE  /\ held[i].items # <<>> /\ held[i].total = held[i].shown
               /\ (\E line \in Landing!ItemsOf(held[i]) : Landing!IsBox(line) \/ line.id \in {b.id : b \in Bundles})
                    => held[i].total <= Landing!Subtotal(held[i].items)
    BY <1>2 DEF LandingInv, SoldRight, Landing!ItemsOf, Landing!Range, Landing!IsBox, BundleIds, BoxSet
  <1>3. ASSUME NEW i \in DOMAIN held, NEW j \in DOMAIN held \ {i}, NEW line \in Landing!ItemsOf(held[i]),
               Landing!IsBox(line), line \in Landing!ItemsOf(held[j])
        PROVE  FALSE
    <2>1. line.id \in BoxesOf(held[i].items) /\ line.id \in BoxesOf(held[j].items)
      BY <1>3 DEF BoxesOf, Landing!ItemsOf, Landing!Range, Landing!IsBox, BoxSet
    <2> QED
      BY <1>3, <2>1 DEF LandingInv, BoxesSoldOnce
  <1> QED
    BY <1>2, <1>3 DEF Landing!SoldAsShown

-----------------------------------------------------------------------------
(* The boards of the console *)

ListsOn(board) == UNION {[S -> Console!States(board)] : S \in SUBSET Rows}
BoardLists == UNION {ListsOn(board) : board \in Console!Boards}
BoardPrompts == {None} \cup [row : Rows, do : Console!Dos]
BoardFilters == UNION {Console!Filters(board) : board \in Console!Boards}

BoardScreen ==
  [board : Console!Boards, filter : BoardFilters, asked : BoardFilters, list : BoardLists, hidden : BOOLEAN,
   prompt : BoardPrompts, ticked : SUBSET Rows, unsent : SUBSET Console!Dos, sure : BOOLEAN, clicks : Nat]

BoardCall(board, c) ==
  /\ c = [kind |-> c.kind, row |-> c.row, do |-> c.do, then |-> c.then, reply |-> c.reply]
  /\ c.kind \in {"list", "act"} /\ c.then \in BoardFilters
  /\ c.kind = "list" => c.reply \in {None} \cup BoardLists
  /\ c.kind = "act" => /\ c.row \in (IF board = "earned" THEN SUBSET Rows ELSE Rows)
                       /\ c.reply \in {None, "done", Refused}

BoardTypes(s, cs, h) ==
  /\ s \in BoardScreen /\ (\A c \in cs : BoardCall(s.board, c)) /\ h \in [Rows -> Console!States(s.board)]
  /\ s.board = "tasks" => s.filter = Console!Unfiltered

(* A list that comes is the one of the filter that was asked for last, and   *)
(* a step was taken under the filter that is marked.                         *)
CallOnBoard(c, s, h) ==
  /\ c.kind = "list" => c.then = s.asked /\ c.reply \in {None, Console!Listed(s.board, h, c.then)}
  /\ c.kind = "act" => c.then = s.filter \/ s.board = "sessions"

Awaited(cs) == \E c \in cs : c.kind = "list" \/ c.reply = "done"

BoardIsSure(s, cs, h) ==
  /\ \A c, d \in cs : c # d => ~Console!Cross(c, d)
  /\ \A c \in cs : CallOnBoard(c, s, h)
  /\ s.asked = s.filter \/ s.board \in {"payables", "sessions"}
  /\ Awaited(cs) \/ s.list = Console!Listed(s.board, h, s.asked)

BoardOK(s, cs, h) == BoardTypes(s, cs, h) /\ (s.sure => BoardIsSure(s, cs, h))

BoardInv == BoardOK(screen, calls, held)

LEMMA NoListIsAnAnswer ==
  /\ None # Refused /\ "done" # None /\ "done" # Refused
  /\ \A list \in BoardLists : list # None /\ list # Refused
  <1>1. ASSUME NEW S \in SUBSET Rows, NEW board \in Console!Boards, NEW list \in [S -> Console!States(board)]
        PROVE  list # None /\ list # Refused
    BY ConsoleAssumption
  <1>2. None # Refused /\ "done" # None /\ "done" # Refused
    BY ConsoleAssumption, PageAssumption
  <1> QED
    BY <1>1, <1>2 DEF BoardLists, ListsOn

BoardNames ==
  {"orders", "returns", "settlements", "payables", "earned", "payouts", "tasks", "products", "reviews",
   "slices", "catalog", "partners", "sessions"}

LEMMA BoardsAre == Console!Boards = BoardNames
  BY DEF Console!Boards, Console!Steps, BoardNames

LEMMA StepsAre ==
  /\ Console!Steps["orders"] = Console!FulfilmentSteps
  /\ Console!Steps["returns"] = Console!ReturnSteps
  /\ Console!Steps["settlements"] = Console!SettlementSteps
  /\ Console!Steps["payables"] = {Console!Step("EARNED", "adjust", "EARNED")}
  /\ Console!Steps["earned"] = Console!EarnedSteps
  /\ Console!Steps["payouts"] = {Console!Step("EARNED", "settle", "SETTLED")}
  /\ Console!Steps["tasks"] = Console!TaskSteps
  /\ Console!Steps["products"] = Console!ReviewSteps
  /\ Console!Steps["reviews"] = Console!ModerationSteps
  /\ Console!Steps["slices"] = Console!SliceSteps
  /\ Console!Steps["catalog"] = Console!PublishingSteps
  /\ Console!Steps["partners"] = Console!PartnerSteps
  /\ Console!Steps["sessions"] = {Console!Step("active", "revoke", "revoked")}
  BY DEF Console!Steps

LEMMA NoRowIsAList == <<>> \in BoardLists
  <1>1. PICK board \in Console!Boards : TRUE
    BY BoardsAre DEF BoardNames
  <1>2. <<>> \in [{} -> Console!States(board)]
    OBVIOUS
  <1>3. {} \in SUBSET Rows
    OBVIOUS
  <1>4. <<>> \in ListsOn(board)
    BY <1>2, <1>3 DEF ListsOn
  <1> QED
    BY <1>1, <1>4 DEF BoardLists

Bare(r) == r = Console!Row(r.status)

(* Whatever a board shows but returns and payables to be settled has no leg. *)
LEMMA RowsAreBare ==
  ASSUME NEW board \in BoardNames \ {"returns", "earned"}
  PROVE  \A r \in Console!States(board) : Bare(r)
  <1> DEFINE Fine(S) == \A s \in S : Bare(s.from) /\ Bare(s.to)
  <1>2. Fine(Console!FulfilmentSteps)
    BY DEF Console!FulfilmentSteps, Bare, Console!Step, Console!Row
  <1>3. Fine(Console!SettlementSteps)
    BY DEF Console!SettlementSteps, Bare, Console!Step, Console!Row
  <1>4. Fine(Console!TaskSteps)
    BY DEF Console!TaskSteps, Bare, Console!Step, Console!Row
  <1>5. Fine(Console!PublishingSteps)
    BY DEF Console!PublishingSteps, Bare, Console!Step, Console!Row
  <1>6. Fine(Console!ReviewSteps) /\ Fine(Console!SliceSteps)
    BY DEF Console!ReviewSteps, Console!SliceSteps, Bare, Console!Step, Console!Row
  <1>7. Fine(Console!ModerationSteps)
    BY DEF Console!ModerationSteps, Bare, Console!Step, Console!Row
  <1>8. Fine(Console!PartnerSteps)
    BY DEF Console!PartnerSteps, Bare, Console!Step, Console!Row
  <1>9. /\ Fine({Console!Step("EARNED", "adjust", "EARNED")})
        /\ Fine({Console!Step("EARNED", "settle", "SETTLED")})
        /\ Fine({Console!Step("active", "revoke", "revoked")})
    BY DEF Bare, Console!Step, Console!Row
  <1>10. Fine(Console!Steps[board])
    <2> HIDE DEF Fine
    <2> QED
      BY <1>2, <1>3, <1>4, <1>5, <1>6, <1>7, <1>8, <1>9, StepsAre DEF BoardNames
  <1>11. Bare(Console!Entry(board))
    BY DEF Console!Entry, Bare, Console!Row, BoardNames
  <1> QED
    BY <1>10, <1>11 DEF Console!States

(* Whatever a board offers on a row, its service takes from it.              *)
Takes(board, r, do) == \E s \in Console!Steps[board] : s.from = r /\ s.do = do

LEMMA TakesMoves ==
  ASSUME NEW board, NEW r, NEW do, Takes(board, r, do)
  PROVE  Console!Moves(board, r, do) # {}
  BY DEF Takes, Console!Moves

LEMMA OrdersAreTaken ==
  ASSUME NEW r \in Console!States("orders"), NEW do \in Console!OrderButtons(r)
  PROVE  Takes("orders", r, do)
  <1>1. Bare(r)
    BY RowsAreBare DEF BoardNames
  <1>2. Console!Steps["orders"] = Console!FulfilmentSteps
    BY StepsAre
  <1>3. \/ r.status = "PLACED" /\ do = "CONFIRMED"
        \/ r.status = "CONFIRMED" /\ do = "PACKED"
        \/ r.status = "PACKED" /\ do = "SHIPPED"
        \/ r.status = "SHIPPED" /\ do \in {"OUT_FOR_DELIVERY", "DELIVERED"}
        \/ r.status = "OUT_FOR_DELIVERY" /\ do = "DELIVERED"
    BY DEF Console!OrderButtons
  <1> QED
    BY <1>1, <1>2, <1>3 DEF Takes, Bare, Console!FulfilmentSteps, Console!Step

LEMMA SettlementsAreTaken ==
  ASSUME NEW r \in Console!States("settlements"), NEW do \in Console!SettlementButtons(r)
  PROVE  Takes("settlements", r, do)
  <1>1. Bare(r)
    BY RowsAreBare DEF BoardNames
  <1>2. Console!Steps["settlements"] = Console!SettlementSteps
    BY StepsAre
  <1> QED
    BY <1>1, <1>2 DEF Takes, Bare, Console!SettlementSteps, Console!Step, Console!SettlementButtons

LEMMA TasksAreTaken ==
  ASSUME NEW r \in Console!States("tasks"), NEW do \in Console!TaskButtons(r)
  PROVE  Takes("tasks", r, do)
  <1>1. Bare(r)
    BY RowsAreBare DEF BoardNames
  <1>2. Console!Steps["tasks"] = Console!TaskSteps
    BY StepsAre
  <1>3. \/ r.status = "ASSIGNED" /\ do \in {"accept", "reject"}
        \/ r.status = "ACCEPTED" /\ do = "pickup"
        \/ r.status = "PICKED_UP" /\ do = "out"
        \/ r.status = "OUT_FOR_DELIVERY" /\ do = "deliver"
        \/ r.status \in {"ACCEPTED", "PICKED_UP", "OUT_FOR_DELIVERY"} /\ do = "fail"
    BY DEF Console!TaskButtons
  <1>4. CASE r.status \in {"ACCEPTED", "PICKED_UP", "OUT_FOR_DELIVERY"} /\ do = "fail"
    <2>1. Console!Step(r.status, "fail", "FAILED") \in Console!TaskSteps
      BY <1>4 DEF Console!TaskSteps
    <2>2. Console!Step(r.status, "fail", "FAILED").from = r /\ Console!Step(r.status, "fail", "FAILED").do = do
      BY <1>1, <1>4 DEF Console!Step, Bare
    <2> QED
      BY <1>2, <2>1, <2>2 DEF Takes
  <1>5. CASE do # "fail"
    <2>1. PICK to : Console!Step(r.status, do, to) \in Console!TaskSteps
      BY <1>3, <1>5 DEF Console!TaskSteps
    <2>2. Console!Step(r.status, do, to).from = r /\ Console!Step(r.status, do, to).do = do
      BY <1>1 DEF Console!Step, Bare
    <2> QED
      BY <1>2, <2>1, <2>2 DEF Takes
  <1> QED
    BY <1>3, <1>4, <1>5

LEMMA ModerationIsTaken ==
  ASSUME NEW r \in Console!States("reviews"), NEW do \in Console!ModerationButtons(r)
  PROVE  Takes("reviews", r, do)
  <1>1. Bare(r)
    BY RowsAreBare DEF BoardNames
  <1>2. Console!Steps["reviews"] = Console!ModerationSteps
    BY StepsAre
  <1> QED
    BY <1>1, <1>2 DEF Takes, Bare, Console!ModerationSteps, Console!Step, Console!ModerationButtons

LEMMA CatalogIsTaken ==
  ASSUME NEW r \in Console!States("catalog"), NEW do \in Console!CatalogButtons(r)
  PROVE  Takes("catalog", r, do)
  <1>1. Bare(r)
    BY RowsAreBare DEF BoardNames
  <1>2. Console!Steps["catalog"] = Console!PublishingSteps
    BY StepsAre
  <1>3. \/ r.status \in {"DRAFT", "REJECTED"} /\ do = "submit"
        \/ r.status \in {"DRAFT", "REJECTED", "PENDING_REVIEW"} /\ do = "archive"
    BY DEF Console!CatalogButtons
  <1> DEFINE To == IF do = "submit" THEN "PENDING_REVIEW" ELSE "ARCHIVED"
             x == Console!Step(r.status, do, To)
  <1>4. x \in Console!PublishingSteps
    BY <1>3 DEF Console!PublishingSteps
  <1>5. x.from = r /\ x.do = do
    BY <1>1 DEF Console!Step, Bare
  <1> QED
    BY <1>2, <1>4, <1>5 DEF Takes

LEMMA DecisionsAreTaken ==
  /\ \A r \in Console!States("slices") : \A do \in Console!SliceButtons(r) : Takes("slices", r, do)
  /\ \A r \in Console!States("products") : \A do \in Console!DecisionButtons(r) : Takes("products", r, do)
  <1>1. ASSUME NEW r \in Console!States("slices"), NEW do \in Console!SliceButtons(r)
        PROVE  Takes("slices", r, do)
    <2>1. Bare(r)
      BY RowsAreBare DEF BoardNames
    <2>2. Console!Steps["slices"] = Console!SliceSteps
      BY StepsAre
    <2> QED
      BY <1>1, <2>1, <2>2 DEF Takes, Bare, Console!SliceSteps, Console!Step, Console!SliceButtons
  <1>2. ASSUME NEW r \in Console!States("products"), NEW do \in Console!DecisionButtons(r)
        PROVE  Takes("products", r, do)
    <2>1. Bare(r)
      BY RowsAreBare DEF BoardNames
    <2>2. Console!Steps["products"] = Console!ReviewSteps
      BY StepsAre
    <2> QED
      BY <1>2, <2>1, <2>2 DEF Takes, Bare, Console!ReviewSteps, Console!Step, Console!DecisionButtons
  <1> QED
    BY <1>1, <1>2

LEMMA MoneyIsTaken ==
  /\ \A r \in Console!States("payables") : \A do \in Console!MoneyButtons(r, "adjust") : Takes("payables", r, do)
  /\ \A r \in Console!States("payouts") : \A do \in Console!MoneyButtons(r, "settle") : Takes("payouts", r, do)
  /\ \A r \in Console!States("sessions") : \A do \in Console!SessionButtons(r) : Takes("sessions", r, do)
  <1>1. ASSUME NEW r \in Console!States("payables"), NEW do \in Console!MoneyButtons(r, "adjust")
        PROVE  Takes("payables", r, do)
    <2>1. Bare(r)
      BY RowsAreBare DEF BoardNames
    <2>2. Console!Steps["payables"] = {Console!Step("EARNED", "adjust", "EARNED")}
      BY StepsAre
    <2> QED
      BY <1>1, <2>1, <2>2 DEF Takes, Bare, Console!Step, Console!MoneyButtons
  <1>2. ASSUME NEW r \in Console!States("payouts"), NEW do \in Console!MoneyButtons(r, "settle")
        PROVE  Takes("payouts", r, do)
    <2>1. Bare(r)
      BY RowsAreBare DEF BoardNames
    <2>2. Console!Steps["payouts"] = {Console!Step("EARNED", "settle", "SETTLED")}
      BY StepsAre
    <2> QED
      BY <1>2, <2>1, <2>2 DEF Takes, Bare, Console!Step, Console!MoneyButtons
  <1>3. ASSUME NEW r \in Console!States("sessions"), NEW do \in Console!SessionButtons(r)
        PROVE  Takes("sessions", r, do)
    <2>1. Bare(r)
      BY RowsAreBare DEF BoardNames
    <2>2. Console!Steps["sessions"] = {Console!Step("active", "revoke", "revoked")}
      BY StepsAre
    <2> QED
      BY <1>3, <2>1, <2>2 DEF Takes, Bare, Console!Step, Console!SessionButtons
  <1> QED
    BY <1>1, <1>2, <1>3

LEMMA PartnersAreTaken ==
  ASSUME NEW r \in Console!States("partners"), NEW do \in Console!PartnerButtons(r)
  PROVE  Takes("partners", r, do)
  <1>1. Bare(r)
    BY RowsAreBare DEF BoardNames
  <1>2. Console!Steps["partners"] = Console!PartnerSteps
    BY StepsAre
  <1>3. do \in {"ACTIVE", "SUSPENDED"}
    BY DEF Console!PartnerButtons
  <1>4. r.status \in {"REGISTERED", "ACTIVE", "SUSPENDED"}
    <2>1. \A s \in Console!PartnerSteps : {s.from.status, s.to.status} \in SUBSET {"REGISTERED", "ACTIVE", "SUSPENDED"}
      BY DEF Console!PartnerSteps, Console!Step, Console!Row
    <2>2. Console!Entry("partners").status = "REGISTERED"
      BY DEF Console!Entry, Console!Row
    <2> QED
      BY <1>2, <2>1, <2>2 DEF Console!States
  <1>5. Console!Step(r.status, do, do) \in Console!PartnerSteps
    BY <1>3, <1>4 DEF Console!PartnerSteps
  <1>6. Console!Step(r.status, do, do).from = r /\ Console!Step(r.status, do, do).do = do
    BY <1>1 DEF Console!Step, Bare
  <1> QED
    BY <1>2, <1>5, <1>6 DEF Takes

(* A payable to be settled, and a return, have their leg.                    *)
EarnedStates == {Console!Leg(s, l) : s \in {"EARNED", "IN_SETTLEMENT"}, l \in {"inside", "outside"}}

LEMMA EarnedAre == Console!States("earned") \in SUBSET EarnedStates
  <1>1. Console!Steps["earned"] = Console!EarnedSteps
    BY StepsAre
  <1>2. ASSUME NEW s \in Console!EarnedSteps PROVE s.from \in EarnedStates /\ s.to \in EarnedStates
    <2>1. PICK l \in {"inside", "outside"} : s = Console!LegStep(Console!Leg("EARNED", l), "settle", Console!Leg("IN_SETTLEMENT", l))
      BY DEF Console!EarnedSteps
    <2>2. s.from = Console!Leg("EARNED", l) /\ s.to = Console!Leg("IN_SETTLEMENT", l)
      BY <2>1 DEF Console!LegStep
    <2> QED
      BY <2>1, <2>2 DEF EarnedStates
  <1>3. Console!Entry("earned") = Console!Leg("EARNED", "outside")
    BY DEF Console!Entry
  <1>4. Console!Entry("earned") \in EarnedStates
    BY <1>3 DEF EarnedStates
  <1> QED
    BY <1>1, <1>2, <1>4 DEF Console!States

LEMMA EarnedIsTaken ==
  ASSUME NEW r \in Console!States("earned"), NEW do \in Console!MoneyButtons(r, "settle")
  PROVE  Takes("earned", r, do)
  <1>1. PICK s \in {"EARNED", "IN_SETTLEMENT"}, l \in {"inside", "outside"} : r = Console!Leg(s, l)
    BY EarnedAre DEF EarnedStates
  <1>2. r = Console!Leg("EARNED", l) /\ do = "settle"
    BY <1>1 DEF Console!MoneyButtons, Console!Leg
  <1> DEFINE x == Console!LegStep(Console!Leg("EARNED", l), "settle", Console!Leg("IN_SETTLEMENT", l))
  <1>3. x \in Console!EarnedSteps
    BY DEF Console!EarnedSteps
  <1>4. x.from = r /\ x.do = do
    BY <1>2 DEF Console!LegStep
  <1> QED
    BY <1>3, <1>4, StepsAre DEF Takes

ReturnStates ==
  {Console!Row(s) : s \in {"REQUESTED", "APPROVED", "REJECTED", "PICKUP_SCHEDULED", "PICKED_UP", "APPROVED_FOR_REFUND"}}
  \cup {Console!ForRefund(l) : l \in {"none", "PENDING", "PROCESSING"}}
  \cup {Console!Issued(l) : l \in {"PENDING_DISPATCH", "DISPATCHED", "COMPLETED"}}
  \cup {Console!Leg("COMPLETED", "COMPLETED")}

LEMMA ReturnsAre == Console!States("returns") \in SUBSET ReturnStates
  <1>1. Console!Steps["returns"] = Console!ReturnSteps
    BY StepsAre
  <1>2. \A s \in Console!ReturnSteps : s.from \in ReturnStates /\ s.to \in ReturnStates
    BY DEF Console!ReturnSteps, Console!Step, Console!LegStep, ReturnStates
  <1>3. Console!Entry("returns") \in ReturnStates
    BY DEF Console!Entry, ReturnStates
  <1> QED
    BY <1>1, <1>2, <1>3 DEF Console!States

LEMMA ReturnsAreTaken ==
  ASSUME NEW r \in Console!States("returns"), NEW doing, NEW do \in Console!ReturnButtons(r, doing)
  PROVE  Takes("returns", r, do)
  <1>1. r \in ReturnStates
    BY ReturnsAre
  <1>2. \/ do \in {"approve", "reject"} /\ r.status = "REQUESTED"
        \/ do = "pickup" /\ r.status = "APPROVED"
        \/ do = "pickedUp" /\ r.status = "PICKUP_SCHEDULED"
        \/ do = "inspect" /\ r.status = "PICKED_UP"
        \/ do = "initiate" /\ r = Console!ForRefund("none")
        \/ do = "refund" /\ r = Console!ForRefund("PENDING")
        \/ do = "dispatch" /\ r.leg = "PENDING_DISPATCH"
        \/ do = "complete" /\ r.leg = "DISPATCHED"
    BY DEF Console!ReturnButtons
  <1>3. /\ r.status \in {"REQUESTED", "APPROVED", "PICKUP_SCHEDULED", "PICKED_UP"} => Bare(r)
        /\ r.leg \in {"PENDING_DISPATCH", "DISPATCHED"} => r = Console!Issued(r.leg)
    BY <1>1 DEF ReturnStates, Bare, Console!Row, Console!Leg, Console!ForRefund, Console!Issued
  <1>4. PICK to : \/ Console!Step(r.status, do, to) \in Console!ReturnSteps /\ Bare(r)
                  \/ Console!LegStep(r, do, to) \in Console!ReturnSteps
    BY <1>2, <1>3 DEF Console!ReturnSteps
  <1>5. /\ Bare(r) => Console!Step(r.status, do, to).from = r
        /\ Console!Step(r.status, do, to).do = do
        /\ Console!LegStep(r, do, to).from = r /\ Console!LegStep(r, do, to).do = do
    BY DEF Bare, Console!Step, Console!LegStep
  <1> QED
    BY <1>4, <1>5, StepsAre DEF Takes

LEMMA ButtonsAreTaken ==
  ASSUME NEW board \in Console!Boards, NEW r \in Console!States(board), NEW doing,
         NEW do \in Console!Buttons(board, r, doing)
  PROVE  Console!Moves(board, r, do) # {}
  <1>1. Takes(board, r, do)
    BY BoardsAre, OrdersAreTaken, ReturnsAreTaken, SettlementsAreTaken, MoneyIsTaken, EarnedIsTaken, TasksAreTaken,
       DecisionsAreTaken, ModerationIsTaken, CatalogIsTaken, PartnersAreTaken
       DEF Console!Buttons, BoardNames
  <1> QED
    BY <1>1, TakesMoves

LEMMA FirstFilters == \A board \in Console!Boards : Console!FirstFilter(board) \in BoardFilters
  <1>1. ASSUME NEW board \in BoardNames PROVE Console!FirstFilter(board) \in Console!Filters(board)
    <2>1. CASE board = "slices"
      <3>1. Console!Step("PLACED", "accept", "ACCEPTED") \in Console!Steps["slices"]
        BY StepsAre DEF Console!SliceSteps
      <3>2. Console!Step("PLACED", "accept", "ACCEPTED").from.status = "PLACED"
        BY DEF Console!Step, Console!Row
      <3>3. "PLACED" \in {s.from.status : s \in Console!Steps["slices"]}
        BY <3>1, <3>2
      <3> QED
        BY <2>1, <3>3 DEF Console!FirstFilter, Console!Filters
    <2>2. CASE board \in {"sessions", "products", "reviews"}
      BY <2>2 DEF Console!FirstFilter, Console!Filters
    <2>3. CASE board \notin {"slices", "sessions", "products", "reviews"}
      BY <2>3 DEF Console!FirstFilter, Console!Filters, Console!Unfiltered, BoardNames
    <2> QED
      BY <2>1, <2>2, <2>3
  <1> QED
    BY <1>1, BoardsAre DEF BoardFilters

LEMMA EntriesAre == \A board : Console!Entry(board) \in Console!States(board)
  BY DEF Console!States

LEMMA BoardStarts == Console!Init => BoardInv
  <1> SUFFICES ASSUME Console!Init PROVE BoardInv
    OBVIOUS
  <1>1. PICK board \in Console!Boards :
          /\ screen = Console!Blank(board) /\ calls = {Console!ListCall(Console!FirstFilter(board))}
          /\ held \in [Rows -> Console!States(board)]
    BY DEF Console!Init
  <1>2. /\ screen \in BoardScreen /\ screen.board = board
        /\ screen.filter = Console!FirstFilter(board) /\ screen.asked = Console!FirstFilter(board)
    BY <1>1, FirstFilters, NoRowIsAList DEF Console!Blank, BoardScreen, BoardPrompts
  <1> DEFINE d == Console!ListCall(Console!FirstFilter(board))
  <1>3. BoardCall(board, d) /\ d.kind = "list" /\ d.then = Console!FirstFilter(board) /\ d.reply = None
    BY FirstFilters DEF BoardCall, Console!ListCall
  <1>4. board = "tasks" => Console!FirstFilter(board) = Console!Unfiltered
    BY DEF Console!FirstFilter
  <1> HIDE DEF d
  <1>5. BoardTypes(screen, calls, held)
    BY <1>1, <1>2, <1>3, <1>4 DEF BoardTypes, d
  <1>6. BoardIsSure(screen, calls, held)
    BY <1>1, <1>2, <1>3 DEF BoardIsSure, CallOnBoard, Awaited, d
  <1> QED
    BY <1>5, <1>6 DEF BoardInv, BoardOK

(* What is true of a board that was sure, and of the call that is sent, is   *)
(* true after.                                                               *)
LEMMA BoardSends ==
  ASSUME NEW s, NEW d, NEW others, BoardTypes(s, others \cup {d}, held), Console!Send(s, {d}, others),
         s.sure /\ (\A c \in others : ~Console!Cross(c, d)) => BoardIsSure(s, others \cup {d}, held)
  PROVE  BoardInv'
  <1> DEFINE sure == s.sure /\ ~\E c \in others, e \in {d} : Console!Cross(c, e)
  <1>1. screen' = [s EXCEPT !.sure = sure] /\ calls' = others \cup {d} /\ held' = held
    BY DEF Console!Send
  <1>2. s \in BoardScreen /\ sure \in BOOLEAN
    BY DEF BoardTypes
  <1>3. sure => BoardIsSure(s, others \cup {d}, held)
    OBVIOUS
  <1> HIDE DEF sure
  <1>4. /\ screen' \in BoardScreen /\ screen'.sure = sure
        /\ screen'.board = s.board /\ screen'.asked = s.asked
        /\ screen'.filter = s.filter /\ screen'.list = s.list
    BY <1>1, <1>2 DEF BoardScreen
  <1>5. BoardTypes(screen', calls', held')
    BY <1>1, <1>4 DEF BoardTypes
  <1>6. screen'.sure => BoardIsSure(screen', calls', held')
    BY <1>1, <1>3, <1>4 DEF BoardIsSure, CallOnBoard
  <1> QED
    BY <1>5, <1>6 DEF BoardInv, BoardOK

(* A list is asked for: the calls that it does not cross ask for the same.   *)
LEMMA ListIsSent ==
  ASSUME NEW s, NEW f \in BoardFilters, NEW others, BoardTypes(s, others, held), s.asked = f,
         Console!Send(s, {Console!ListCall(f)}, others),
         s.sure => /\ f = s.filter \/ s.board \in {"payables", "sessions"}
                   /\ \A c, e \in others : c # e => ~Console!Cross(c, e)
                   /\ \A c \in others : c.kind = "list" => c.reply \in {None, Console!Listed(s.board, held, c.then)}
  PROVE  BoardInv'
  <1>1. PICK d : d = Console!ListCall(f)
    OBVIOUS
  <1>2. BoardCall(s.board, d) /\ d.kind = "list" /\ d.then = f /\ d.reply = None
    BY <1>1 DEF BoardCall, Console!ListCall
  <1>3. BoardTypes(s, others \cup {d}, held)
    BY <1>2 DEF BoardTypes
  <1>4. ASSUME s.sure, \A c \in others : ~Console!Cross(c, d)
        PROVE  BoardIsSure(s, others \cup {d}, held)
    <2>1. \A c \in others : c.kind = "list" /\ c.then = f
      BY <1>2, <1>4 DEF Console!Cross, BoardTypes, BoardCall
    <2>2. \A c, e \in others \cup {d} : ~Console!Cross(c, e)
      BY <1>2, <2>1 DEF Console!Cross
    <2>3. \A c \in others \cup {d} : CallOnBoard(c, s, held)
      BY <1>2, <1>4, <2>1 DEF CallOnBoard
    <2> QED
      BY <1>2, <1>4, <2>2, <2>3 DEF BoardIsSure, Awaited
  <1> QED
    BY <1>1, <1>3, <1>4, BoardSends

(* A step is asked for: it crosses whatever is under way.                    *)
LEMMA ActIsSent ==
  ASSUME NEW s, NEW i, NEW do, BoardOK(s, calls, held),
         i \in (IF s.board = "earned" THEN SUBSET Rows ELSE Rows),
         Console!Send(s, {Console!ActCall(i, do, s.filter)}, calls)
  PROVE  BoardInv'
  <1>1. PICK d : d = Console!ActCall(i, do, s.filter)
    OBVIOUS
  <1>2. BoardCall(s.board, d) /\ d.kind = "act" /\ d.then = s.filter /\ d.reply = None
    BY <1>1 DEF BoardCall, Console!ActCall, BoardOK, BoardTypes, BoardScreen
  <1>3. BoardTypes(s, calls \cup {d}, held)
    BY <1>2 DEF BoardTypes, BoardOK
  <1>4. ASSUME s.sure, \A c \in calls : ~Console!Cross(c, d)
        PROVE  BoardIsSure(s, calls \cup {d}, held)
    <2>1. calls = {}
      BY <1>2, <1>4 DEF Console!Cross
    <2> QED
      BY <1>2, <1>4, <2>1 DEF BoardOK, BoardIsSure, CallOnBoard, Awaited
  <1> QED
    BY <1>1, <1>3, <1>4, BoardSends

(* Something else is shown on the same board.                                *)
LEMMA BoardShows ==
  ASSUME BoardInv, screen' \in BoardScreen, UNCHANGED <<calls, held>>,
         screen'.board = screen.board, screen'.asked = screen.asked, screen'.list = screen.list,
         screen'.sure = screen.sure, screen'.filter = screen.filter \/ screen.board = "sessions"
  PROVE  BoardInv'
  <1>1. BoardTypes(screen', calls', held')
    BY DEF BoardInv, BoardOK, BoardTypes
  <1>2. screen'.sure => BoardIsSure(screen', calls', held')
    BY DEF BoardInv, BoardOK, BoardIsSure, CallOnBoard
  <1> QED
    BY <1>1, <1>2 DEF BoardInv, BoardOK

-----------------------------------------------------------------------------
(* What the user does *)

LEMMA Clicks1 ==
  ASSUME screen \in BoardScreen
  PROVE  /\ Console!Clicked \in BoardScreen
         /\ Console!Clicked.board = screen.board /\ Console!Clicked.filter = screen.filter
         /\ Console!Clicked.asked = screen.asked /\ Console!Clicked.list = screen.list
         /\ Console!Clicked.sure = screen.sure /\ Console!Clicked.prompt = screen.prompt
         /\ Console!Clicked.ticked = screen.ticked /\ Console!Clicked.hidden = screen.hidden
         /\ Console!Clicked.unsent = screen.unsent
  BY DEF BoardScreen, Console!Clicked

LEMMA BoardReloads ==
  ASSUME NEW s, NEW f \in BoardFilters, NEW others, NEW picked, BoardTypes(s, others, held),
         Console!Reload(s, f, others, picked),
         s.sure => /\ f = s.filter \/ s.board \in {"payables", "sessions"}
                   /\ \A c, e \in others : c # e => ~Console!Cross(c, e)
                   /\ \A c \in others : c.kind = "list" => c.reply \in {None, Console!Listed(s.board, held, c.then)}
  PROVE  BoardInv'
  <1> DEFINE hidden == s.hidden \/ Console!Hides(s.board, picked)
  <1>1. PICK t : t = [s EXCEPT !.asked = f, !.hidden = hidden]
    OBVIOUS
  <1>2. Console!Send(t, {Console!ListCall(f)}, others)
    BY <1>1 DEF Console!Reload
  <1>3. hidden \in BOOLEAN /\ s \in BoardScreen
    BY DEF BoardTypes, BoardScreen, Console!Hides
  <1> HIDE DEF hidden
  <1>4. /\ t \in BoardScreen /\ t.asked = f /\ t.board = s.board /\ t.filter = s.filter /\ t.sure = s.sure
    BY <1>1, <1>3 DEF BoardScreen
  <1>5. BoardTypes(t, others, held)
    BY <1>4 DEF BoardTypes
  <1> QED
    BY <1>2, <1>4, <1>5, ListIsSent

LEMMA SureCalls ==
  ASSUME BoardInv
  PROVE  /\ BoardTypes(screen, calls, held)
         /\ screen.sure => /\ \A c, e \in calls : c # e => ~Console!Cross(c, e)
                           /\ \A c \in calls : c.kind = "list" => c.reply \in {None, Console!Listed(screen.board, held, c.then)}
  BY DEF BoardInv, BoardOK, BoardIsSure, CallOnBoard

LEMMA BoardPick ==
  ASSUME BoardInv, NEW f \in Console!Filters(screen.board), Console!Pick(f)
  PROVE  BoardInv'
  <1> DEFINE prompt == IF screen.board = "returns" THEN None ELSE screen.prompt
  <1>1. PICK s : s = [Console!Clicked EXCEPT !.filter = f, !.prompt = prompt]
    OBVIOUS
  <1>2. screen \in BoardScreen /\ f \in BoardFilters /\ prompt \in BoardPrompts
    BY DEF BoardInv, BoardOK, BoardTypes, BoardScreen, BoardFilters, BoardPrompts
  <1>3. /\ s \in BoardScreen /\ s.board = screen.board /\ s.filter = f /\ s.sure = screen.sure
        /\ s.asked = screen.asked /\ s.list = screen.list
    <2> HIDE DEF prompt
    <2>1. Console!Clicked \in BoardScreen
      BY <1>2, Clicks1
    <2>2. /\ s \in BoardScreen /\ s.board = Console!Clicked.board /\ s.filter = f
          /\ s.sure = Console!Clicked.sure /\ s.asked = Console!Clicked.asked /\ s.list = Console!Clicked.list
      BY <1>1, <1>2, <2>1 DEF BoardScreen
    <2> QED
      BY <1>2, <2>2, Clicks1
  <1>4. screen.board = "tasks" => f = Console!Unfiltered
    BY DEF Console!Filters
  <1>5. BoardTypes(s, calls, held)
    BY <1>3, <1>4 DEF BoardInv, BoardOK, BoardTypes
  <1>6. \/ screen.board = "payables" /\ Console!Reload(s, screen.filter, calls, TRUE)
        \/ screen.board = "sessions" /\ screen' = s /\ UNCHANGED <<calls, held>>
        \/ screen.board # "sessions" /\ Console!Reload(s, f, calls, TRUE)
    BY <1>1, <1>2, Clicks1 DEF Console!Pick
  <1>7. CASE screen.board = "payables" /\ Console!Reload(s, screen.filter, calls, TRUE)
    <2>1. screen.filter \in BoardFilters
      BY <1>2 DEF BoardScreen
    <2> QED
      BY <1>3, <1>5, <1>7, <2>1, SureCalls, BoardReloads
  <1>8. CASE screen.board = "sessions" /\ screen' = s /\ UNCHANGED <<calls, held>>
    BY <1>3, <1>8, BoardShows
  <1>9. CASE screen.board # "sessions" /\ Console!Reload(s, f, calls, TRUE)
    BY <1>2, <1>3, <1>5, <1>9, SureCalls, BoardReloads
  <1> QED
    BY <1>6, <1>7, <1>8, <1>9

LEMMA BoardSearch ==
  ASSUME BoardInv, Console!Search \/ Console!Refresh
  PROVE  BoardInv'
  <1>1. screen \in BoardScreen /\ screen.filter \in BoardFilters
    BY DEF BoardInv, BoardOK, BoardTypes, BoardScreen
  <1>2. BoardTypes(Console!Clicked, calls, held)
    BY <1>1, Clicks1 DEF BoardInv, BoardOK, BoardTypes
  <1>3. CASE Console!Search
    <2>1. PICK s : s = [Console!Clicked EXCEPT !.asked = screen.filter]
      OBVIOUS
    <2>2. Console!Send(s, {Console!ListCall(screen.filter)}, calls)
      BY <1>3, <2>1 DEF Console!Search
    <2>3. Console!Clicked \in BoardScreen
      BY <1>1, Clicks1
    <2>4. /\ s \in BoardScreen /\ s.board = Console!Clicked.board /\ s.filter = Console!Clicked.filter
          /\ s.sure = Console!Clicked.sure /\ s.asked = screen.filter
      BY <1>1, <2>1, <2>3 DEF BoardScreen
    <2>5. BoardTypes(s, calls, held)
      BY <1>2, <2>4 DEF BoardTypes
    <2> QED
      BY <1>1, <2>2, <2>4, <2>5, Clicks1, SureCalls, ListIsSent
  <1>4. CASE Console!Refresh
    <2>1. screen.board = "tasks" /\ Console!Reload(Console!Clicked, Console!Unfiltered, calls, FALSE)
      BY <1>4 DEF Console!Refresh
    <2>2. screen.filter = Console!Unfiltered
      BY <2>1 DEF BoardInv, BoardOK, BoardTypes
    <2> QED
      BY <1>1, <1>2, <2>1, <2>2, Clicks1, SureCalls, BoardReloads
  <1> QED
    BY <1>3, <1>4

LEMMA BoardDo ==
  ASSUME BoardInv, NEW s, NEW i, NEW do, Console!Do(s, i, do), s \in BoardScreen,
         s.board = screen.board, s.filter = screen.filter, s.asked = screen.asked,
         s.list = screen.list, s.sure = screen.sure,
         i \in (IF s.board = "earned" THEN SUBSET Rows ELSE Rows)
  PROVE  BoardInv'
  <1>1. Console!Send(s, {Console!ActCall(i, do, screen.filter)}, calls)
    BY DEF Console!Do
  <1>2. BoardTypes(s, calls, held)
    BY DEF BoardInv, BoardOK, BoardTypes
  <1>3. s.sure => BoardIsSure(s, calls, held)
    BY DEF BoardInv, BoardOK, BoardIsSure, CallOnBoard
  <1> QED
    BY <1>1, <1>2, <1>3, ActIsSent DEF BoardOK

LEMMA BoardClick ==
  ASSUME BoardInv, NEW i \in Rows, NEW do, Console!Click(i, do)
  PROVE  BoardInv'
  <1>1. screen \in BoardScreen
    BY DEF BoardInv, BoardOK, BoardTypes
  <1>2. screen.board # "earned" /\ Console!Do(Console!Clicked, i, do)
    BY DEF Console!Click
  <1> QED
    BY <1>1, <1>2, Clicks1, BoardDo

LEMMA BoardConfirm ==
  ASSUME BoardInv, Console!Confirm \/ Console!CreateSettlement
  PROVE  BoardInv'
  <1>1. screen \in BoardScreen
    BY DEF BoardInv, BoardOK, BoardTypes
  <1>2. Console!Clicked \in BoardScreen
    BY <1>1, Clicks1
  <1>3. CASE Console!Confirm
    <2> DEFINE hidden == Console!Clicked.hidden \/ screen.board = "sessions"
    <2>1. PICK s : s = [Console!Clicked EXCEPT !.hidden = hidden]
      OBVIOUS
    <2>2. /\ screen.board \in {"returns", "sessions"} /\ screen.prompt # None
          /\ Console!Do(s, screen.prompt.row, screen.prompt.do)
      BY <1>3, <2>1 DEF Console!Confirm
    <2>3. screen.prompt.row \in Rows
      BY <1>1, <2>2 DEF BoardScreen, BoardPrompts
    <2>4. hidden \in BOOLEAN
      BY <1>2 DEF BoardScreen
    <2> HIDE DEF hidden
    <2>5. /\ s \in BoardScreen /\ s.board = Console!Clicked.board /\ s.filter = Console!Clicked.filter
          /\ s.sure = Console!Clicked.sure /\ s.asked = Console!Clicked.asked /\ s.list = Console!Clicked.list
      BY <1>2, <2>1, <2>4 DEF BoardScreen
    <2> QED
      BY <1>1, <2>2, <2>3, <2>5, Clicks1, BoardDo
  <1>4. CASE Console!CreateSettlement
    <2>1. screen.board = "earned" /\ Console!Do(Console!Clicked, screen.ticked, "settle")
      BY <1>4 DEF Console!CreateSettlement
    <2>2. screen.ticked \in SUBSET Rows
      BY <1>1 DEF BoardScreen
    <2> QED
      BY <1>1, <1>2, <2>1, <2>2, Clicks1, BoardDo
  <1> QED
    BY <1>3, <1>4

(* A block is opened or put away, a row is ticked, and nothing is sent.      *)
LEMMA BoardMarks ==
  ASSUME BoardInv, NEW prompt \in BoardPrompts, NEW ticked \in SUBSET Rows, NEW unsent \in SUBSET Console!Dos,
         \/ screen' = [Console!Clicked EXCEPT !.prompt = prompt]
         \/ screen' = [Console!Clicked EXCEPT !.ticked = ticked]
         \/ screen' = [Console!Clicked EXCEPT !.unsent = unsent],
         UNCHANGED <<calls, held>>
  PROVE  BoardInv'
  <1>1. screen \in BoardScreen
    BY DEF BoardInv, BoardOK, BoardTypes
  <1>2. Console!Clicked \in BoardScreen
    BY <1>1, Clicks1
  <1>3. /\ screen' \in BoardScreen
        /\ screen'.board = Console!Clicked.board /\ screen'.asked = Console!Clicked.asked
        /\ screen'.list = Console!Clicked.list /\ screen'.sure = Console!Clicked.sure
        /\ screen'.filter = Console!Clicked.filter
    BY <1>2 DEF BoardScreen
  <1> QED
    BY <1>1, <1>3, Clicks1, BoardShows

LEMMA Unmarked == {} \in SUBSET Rows /\ {} \in SUBSET Console!Dos /\ None \in BoardPrompts
  BY DEF BoardPrompts

LEMMA BoardPrompted ==
  ASSUME BoardInv, NEW i \in Rows, NEW do \in Console!Dos, Console!Ask(i, do) \/ Console!CourierAction(i, do)
  PROVE  BoardInv'
  <1>1. CASE Console!Ask(i, do)
    <2>1. [row |-> i, do |-> do] \in BoardPrompts
      BY DEF BoardPrompts
    <2>2. screen' = [Console!Clicked EXCEPT !.prompt = [row |-> i, do |-> do]] /\ UNCHANGED <<calls, held>>
      BY <1>1 DEF Console!Ask
    <2> QED
      BY <2>1, <2>2, Unmarked, BoardMarks
  <1>2. CASE Console!CourierAction(i, do)
    <2>1. Console!Clicked.unsent \in SUBSET Console!Dos
      BY Clicks1 DEF BoardInv, BoardOK, BoardTypes, BoardScreen
    <2>2. PICK unsent : unsent = Console!Clicked.unsent \cup {do}
      OBVIOUS
    <2>3. screen' = [Console!Clicked EXCEPT !.unsent = unsent] /\ UNCHANGED <<calls, held>>
      BY <1>2, <2>2 DEF Console!CourierAction
    <2> QED
      BY <2>1, <2>2, <2>3, Unmarked, BoardMarks
  <1> QED
    BY <1>1, <1>2

LEMMA BoardPutAway ==
  ASSUME BoardInv, Console!PutAway
  PROVE  BoardInv'
  BY Unmarked, BoardMarks DEF Console!PutAway

LEMMA BoardTick ==
  ASSUME BoardInv, NEW i \in Rows, Console!Tick(i)
  PROVE  BoardInv'
  <1>1. Console!Clicked.ticked \in SUBSET Rows
    BY Clicks1 DEF BoardInv, BoardOK, BoardTypes, BoardScreen
  <1>2. PICK with, without : with = Console!Clicked.ticked \cup {i} /\ without = Console!Clicked.ticked \ {i}
    OBVIOUS
  <1>3. /\ \/ screen' = [Console!Clicked EXCEPT !.ticked = with]
           \/ screen' = [Console!Clicked EXCEPT !.ticked = without]
        /\ UNCHANGED <<calls, held>>
    BY <1>2 DEF Console!Tick
  <1>4. with \in SUBSET Rows /\ without \in SUBSET Rows
    BY <1>1, <1>2
  <1> QED
    BY <1>3, <1>4, Unmarked, BoardMarks

-----------------------------------------------------------------------------
(* The server, and another desk *)

LEMMA StatesOfSteps ==
  ASSUME NEW board, NEW s \in Console!Steps[board]
  PROVE  s.to \in Console!States(board)
  BY DEF Console!States

LEMMA ResultsAreStates ==
  ASSUME NEW board \in Console!Boards, NEW rows \in [Rows -> Console!States(board)], NEW c,
         c.row \in (IF board = "earned" THEN SUBSET Rows ELSE Rows),
         NEW after \in Console!Results(board, rows, c)
  PROVE  after \in [Rows -> Console!States(board)]
  <1>1. CASE board = "payouts"
    <2>1. Console!Row("SETTLED") \in Console!States("payouts")
      <3>1. Console!Step("EARNED", "settle", "SETTLED") \in Console!Steps["payouts"]
        BY StepsAre
      <3>2. Console!Step("EARNED", "settle", "SETTLED").to = Console!Row("SETTLED")
        BY DEF Console!Step
      <3> QED
        BY <3>1, <3>2, StatesOfSteps
    <2>2. after = [i \in Rows |-> IF rows[i] = Console!Row("EARNED") THEN Console!Row("SETTLED") ELSE rows[i]]
      BY <1>1 DEF Console!Results
    <2> QED
      BY <1>1, <2>1, <2>2
  <1>2. CASE board = "earned"
    <2>1. /\ \A i \in c.row : rows[i].status = "EARNED"
          /\ after = [i \in Rows |-> IF i \in c.row THEN [rows[i] EXCEPT !.status = "IN_SETTLEMENT"] ELSE rows[i]]
      BY <1>2 DEF Console!Results
    <2>2. ASSUME NEW r \in Console!States("earned"), r.status = "EARNED"
          PROVE  [r EXCEPT !.status = "IN_SETTLEMENT"] \in Console!States("earned")
      <3>1. PICK l \in {"inside", "outside"} : r = Console!Leg("EARNED", l)
        BY <2>2, EarnedAre DEF EarnedStates, Console!Leg
      <3>2. [r EXCEPT !.status = "IN_SETTLEMENT"] = Console!Leg("IN_SETTLEMENT", l)
        BY <3>1 DEF Console!Leg
      <3> DEFINE x == Console!LegStep(Console!Leg("EARNED", l), "settle", Console!Leg("IN_SETTLEMENT", l))
      <3>3. x \in Console!Steps["earned"]
        BY StepsAre DEF Console!EarnedSteps
      <3>4. x.to = Console!Leg("IN_SETTLEMENT", l)
        BY DEF Console!LegStep
      <3> HIDE DEF x
      <3> QED
        BY <3>2, <3>3, <3>4, StatesOfSteps
    <2>3. c.row \in SUBSET Rows
      BY <1>2
    <2> QED
      BY <1>2, <2>1, <2>2, <2>3
  <1>3. CASE board \notin {"payouts", "earned"}
    <2>1. PICK t \in Console!Moves(board, rows[c.row], c.do) : after = [rows EXCEPT ![c.row] = t]
      BY <1>3 DEF Console!Results
    <2>2. t \in Console!States(board)
      BY <2>1, StatesOfSteps DEF Console!Moves
    <2> QED
      BY <2>1, <2>2
  <1> QED
    BY <1>1, <1>2, <1>3

LEMMA RepliedCall ==
  ASSUME NEW board, NEW c, BoardCall(board, c), NEW r,
         c.kind = "list" => r \in {None} \cup BoardLists,
         c.kind = "act" => r \in {None, "done", Refused}
  PROVE  LET d == [c EXCEPT !.reply = r]
         IN /\ BoardCall(board, d) /\ d.kind = c.kind /\ d.then = c.then /\ d.reply = r
  <1>1. PICK k, i, do, f, q : c = [kind |-> k, row |-> i, do |-> do, then |-> f, reply |-> q]
    BY DEF BoardCall
  <1>2. [c EXCEPT !.reply = r] = [kind |-> k, row |-> i, do |-> do, then |-> f, reply |-> r]
    BY <1>1
  <1> QED
    BY <1>1, <1>2 DEF BoardCall

LEMMA ListedIsAList ==
  ASSUME NEW board \in Console!Boards, NEW rows \in [Rows -> Console!States(board)], NEW f
  PROVE  Console!Listed(board, rows, f) \in BoardLists
  <1>1. PICK S \in SUBSET Rows : Console!Listed(board, rows, f) = [i \in S |-> rows[i]]
    BY DEF Console!Listed
  <1>2. [i \in S |-> rows[i]] \in [S -> Console!States(board)]
    OBVIOUS
  <1> QED
    BY <1>1, <1>2 DEF BoardLists, ListsOn

LEMMA BoardServesList ==
  ASSUME BoardInv, NEW c \in calls, Console!ServeList(c)
  PROVE  BoardInv'
  <1>1. BoardTypes(screen, calls, held) /\ screen.board \in Console!Boards
    BY DEF BoardInv, BoardOK, BoardTypes, BoardScreen
  <1>2. PICK r, d : /\ r = Console!Listed(screen.board, held, c.then) /\ d = [c EXCEPT !.reply = r]
                    /\ calls' = (calls \ {c}) \cup {d}
    BY DEF Console!ServeList, Console!Replied
  <1>3. c.kind = "list" /\ screen' = screen /\ held' = held
    BY DEF Console!ServeList
  <1>4. r \in BoardLists
    BY <1>1, <1>2, ListedIsAList DEF BoardTypes
  <1>5. BoardCall(screen.board, d) /\ d.kind = "list" /\ d.then = c.then /\ d.reply = r
    BY <1>1, <1>2, <1>3, <1>4, RepliedCall DEF BoardTypes
  <1>6. BoardTypes(screen', calls', held')
    BY <1>1, <1>2, <1>3, <1>5 DEF BoardTypes
  <1>7. ASSUME screen.sure PROVE BoardIsSure(screen, (calls \ {c}) \cup {d}, held)
    <2>1. BoardIsSure(screen, calls, held)
      BY <1>7 DEF BoardInv, BoardOK
    <2>2. \A x, y \in (calls \ {c}) \cup {d} : x # y => ~Console!Cross(x, y)
      BY <1>3, <1>5, <2>1 DEF BoardIsSure, Console!Cross
    <2>3. \A x \in (calls \ {c}) \cup {d} : CallOnBoard(x, screen, held)
      BY <1>2, <1>3, <1>5, <2>1 DEF BoardIsSure, CallOnBoard
    <2> QED
      BY <1>5, <2>1, <2>2, <2>3 DEF BoardIsSure, Awaited
  <1> QED
    BY <1>2, <1>3, <1>6, <1>7 DEF BoardInv, BoardOK

(* A step is taken, or refused, while no other call is under way.            *)
LEMMA ActIsAlone ==
  ASSUME BoardInv, NEW c \in calls, c.kind = "act", screen.sure
  PROVE  calls = {c} /\ CallOnBoard(c, screen, held) /\ BoardIsSure(screen, calls, held)
  BY DEF BoardInv, BoardOK, BoardIsSure, Console!Cross

LEMMA BoardServesAct ==
  ASSUME BoardInv, NEW c \in calls, Console!ServeAct(c)
  PROVE  BoardInv'
  <1>1. BoardTypes(screen, calls, held) /\ screen.board \in Console!Boards
    BY DEF BoardInv, BoardOK, BoardTypes, BoardScreen
  <1>2. c.kind = "act" /\ c.reply = None /\ screen' = screen
    BY DEF Console!ServeAct
  <1>3. PICK r \in {"done", Refused} :
          /\ Console!Replied(c, r)
          /\ r = "done" \/ held' = held
          /\ held' = held \/ held' \in Console!Results(screen.board, held, c)
    BY DEF Console!ServeAct
  <1>4. held' \in [Rows -> Console!States(screen.board)]
    <2>1. c.row \in (IF screen.board = "earned" THEN SUBSET Rows ELSE Rows)
      BY <1>1, <1>2 DEF BoardTypes, BoardCall
    <2>2. held \in [Rows -> Console!States(screen.board)]
      BY <1>1 DEF BoardTypes
    <2> QED
      BY <1>1, <1>3, <2>1, <2>2, ResultsAreStates
  <1>5. PICK d : d = [c EXCEPT !.reply = r] /\ calls' = (calls \ {c}) \cup {d}
    BY <1>3 DEF Console!Replied
  <1>6. BoardCall(screen.board, d) /\ d.kind = "act" /\ d.then = c.then /\ d.reply = r
    BY <1>1, <1>2, <1>3, <1>5, RepliedCall DEF BoardTypes
  <1>7. BoardTypes(screen', calls', held')
    BY <1>1, <1>2, <1>4, <1>5, <1>6 DEF BoardTypes
  <1>8. ASSUME screen.sure PROVE BoardIsSure(screen, calls', held')
    <2>1. calls = {c} /\ CallOnBoard(c, screen, held) /\ BoardIsSure(screen, calls, held)
      BY <1>2, <1>8, ActIsAlone
    <2>2. calls' = {d}
      BY <1>5, <2>1
    <2>3. CallOnBoard(d, screen, held')
      BY <1>2, <1>6, <2>1 DEF CallOnBoard
    <2>4. screen.asked = screen.filter \/ screen.board \in {"payables", "sessions"}
      BY <2>1 DEF BoardIsSure
    <2>5. CASE r = "done"
      BY <1>6, <2>2, <2>3, <2>4, <2>5 DEF BoardIsSure, Awaited
    <2>6. CASE r # "done"
      <3>1. held' = held /\ screen.list = Console!Listed(screen.board, held, screen.asked)
        BY <1>2, <1>3, <2>1, <2>6, NoListIsAnAnswer DEF BoardIsSure, Awaited
      <3> QED
        BY <2>2, <2>3, <2>4, <3>1 DEF BoardIsSure
    <2> QED
      BY <2>5, <2>6
  <1> QED
    BY <1>2, <1>7, <1>8 DEF BoardInv, BoardOK

LEMMA BoardElsewhere ==
  ASSUME BoardInv, Console!Elsewhere
  PROVE  BoardInv'
  <1>1. BoardTypes(screen, calls, held) /\ screen \in BoardScreen
    BY DEF BoardInv, BoardOK, BoardTypes
  <1>2. PICK i \in Rows, s \in Console!Steps[screen.board] : held' = [held EXCEPT ![i] = s.to]
    BY DEF Console!Elsewhere
  <1>3. held' \in [Rows -> Console!States(screen.board)]
    BY <1>1, <1>2, StatesOfSteps DEF BoardTypes
  <1>4. screen' = [Console!Clicked EXCEPT !.sure = FALSE] /\ calls' = calls
    BY DEF Console!Elsewhere
  <1>5. Console!Clicked \in BoardScreen
    BY <1>1, Clicks1
  <1>6. /\ screen' \in BoardScreen /\ ~screen'.sure
        /\ screen'.board = Console!Clicked.board /\ screen'.filter = Console!Clicked.filter
    BY <1>4, <1>5 DEF BoardScreen
  <1> QED
    BY <1>1, <1>3, <1>4, <1>6, Clicks1 DEF BoardInv, BoardOK, BoardTypes

-----------------------------------------------------------------------------
(* The answers *)

LEMMA BoardAnswersList ==
  ASSUME BoardInv, NEW c \in calls, Console!AnswerList(c)
  PROVE  BoardInv'
  <1>1. BoardTypes(screen, calls, held) /\ screen \in BoardScreen
    BY DEF BoardInv, BoardOK, BoardTypes
  <1>2. /\ c.kind = "list" /\ c.reply # None
        /\ screen' = [screen EXCEPT !.list = c.reply, !.hidden = FALSE]
        /\ calls' = calls \ {c} /\ held' = held
    BY DEF Console!AnswerList
  <1>3. c.reply \in BoardLists
    BY <1>1, <1>2 DEF BoardTypes, BoardCall
  <1>4. /\ screen' \in BoardScreen /\ screen'.list = c.reply /\ screen'.board = screen.board
        /\ screen'.filter = screen.filter /\ screen'.asked = screen.asked /\ screen'.sure = screen.sure
    BY <1>1, <1>2, <1>3 DEF BoardScreen
  <1>5. BoardTypes(screen', calls', held')
    BY <1>1, <1>2, <1>4 DEF BoardTypes
  <1>6. ASSUME screen.sure PROVE BoardIsSure(screen', calls', held')
    <2>1. BoardIsSure(screen, calls, held)
      BY <1>6 DEF BoardInv, BoardOK
    <2>2. c.reply = Console!Listed(screen.board, held, screen.asked)
      BY <1>2, <2>1 DEF BoardIsSure, CallOnBoard
    <2> QED
      BY <1>2, <1>4, <2>1, <2>2 DEF BoardIsSure, CallOnBoard
  <1> QED
    BY <1>4, <1>5, <1>6 DEF BoardInv, BoardOK

LEMMA BoardAnswersAct ==
  ASSUME BoardInv, NEW c \in calls, Console!AnswerAct(c)
  PROVE  BoardInv'
  <1>1. BoardTypes(screen, calls, held) /\ screen \in BoardScreen
    BY DEF BoardInv, BoardOK, BoardTypes
  <1>2. c.kind = "act" /\ c.then \in BoardFilters
    BY <1>1 DEF Console!AnswerAct, BoardTypes, BoardCall
  <1>3. PICK prompt, filter :
          /\ prompt = (IF Console!Asks(screen.board, c.do) THEN None ELSE screen.prompt)
          /\ filter = (IF screen.board = "slices" THEN c.then ELSE screen.filter)
    OBVIOUS
  <1>4. PICK s : s = [screen EXCEPT !.prompt = prompt, !.ticked = {}, !.filter = filter]
    OBVIOUS
  <1>5. /\ s \in BoardScreen /\ s.board = screen.board /\ s.filter = filter /\ s.asked = screen.asked
        /\ s.sure = screen.sure
    <2>1. prompt \in BoardPrompts /\ filter \in BoardFilters
      BY <1>1, <1>2, <1>3 DEF BoardScreen, BoardPrompts
    <2> QED
      BY <1>1, <1>4, <2>1 DEF BoardScreen
  <1>6. BoardTypes(s, calls \ {c}, held)
    BY <1>1, <1>3, <1>5 DEF BoardTypes
  <1>7. ASSUME s.sure
        PROVE  /\ c.then = s.filter \/ s.board \in {"payables", "sessions"}
               /\ calls \ {c} = {}
    <2>1. calls = {c} /\ CallOnBoard(c, screen, held)
      BY <1>2, <1>5, <1>7, ActIsAlone
    <2> QED
      BY <1>2, <1>3, <1>5, <2>1 DEF CallOnBoard
  <1>8. Console!Reload(s, c.then, calls \ {c}, FALSE)
    BY <1>3, <1>4 DEF Console!AnswerAct
  <1> QED
    BY <1>2, <1>6, <1>7, <1>8, BoardReloads

LEMMA BoardRefuses ==
  ASSUME BoardInv, NEW c \in calls, Console!Refuse(c)
  PROVE  BoardInv'
  <1>1. BoardTypes(screen, calls, held) /\ screen \in BoardScreen
    BY DEF BoardInv, BoardOK, BoardTypes
  <1>2. c.reply = Refused /\ calls' = calls \ {c} /\ held' = held
    BY DEF Console!Refuse
  <1>3. PICK hidden \in BOOLEAN : screen' = [screen EXCEPT !.hidden = hidden]
    BY <1>1 DEF Console!Refuse, BoardScreen
  <1>4. c.kind = "act"
    BY <1>1, <1>2, NoListIsAnAnswer DEF BoardTypes, BoardCall
  <1>5. /\ screen' \in BoardScreen /\ screen'.list = screen.list /\ screen'.board = screen.board
        /\ screen'.filter = screen.filter /\ screen'.asked = screen.asked /\ screen'.sure = screen.sure
    BY <1>1, <1>3 DEF BoardScreen
  <1>6. BoardTypes(screen', calls', held')
    BY <1>1, <1>2, <1>5 DEF BoardTypes
  <1>7. ASSUME screen.sure PROVE BoardIsSure(screen', calls', held')
    <2>1. calls = {c} /\ BoardIsSure(screen, calls, held)
      BY <1>4, <1>7, ActIsAlone
    <2>2. screen.list = Console!Listed(screen.board, held, screen.asked)
      BY <1>2, <1>4, <2>1, NoListIsAnAnswer DEF BoardIsSure, Awaited
    <2> QED
      BY <1>2, <1>5, <2>1, <2>2 DEF BoardIsSure
  <1> QED
    BY <1>5, <1>6, <1>7 DEF BoardInv, BoardOK

LEMMA BoardLoses ==
  ASSUME BoardInv, NEW c \in calls, Console!Lose(c)
  PROVE  BoardInv'
  <1>1. BoardTypes(screen, calls, held) /\ screen \in BoardScreen
    BY DEF BoardInv, BoardOK, BoardTypes
  <1>2. PICK hidden \in BOOLEAN : screen' = [screen EXCEPT !.hidden = hidden, !.sure = FALSE]
    BY <1>1 DEF Console!Lose, BoardScreen
  <1>3. /\ screen' \in BoardScreen /\ ~screen'.sure
        /\ screen'.filter = screen.filter /\ screen'.board = screen.board
    BY <1>1, <1>2 DEF BoardScreen
  <1> QED
    BY <1>1, <1>3 DEF Console!Lose, BoardInv, BoardOK, BoardTypes

LEMMA BoardStep ==
  ASSUME BoardInv, Console!Next
  PROVE  BoardInv'
  <1>1. ASSUME Console!Elsewhere PROVE BoardInv'
    BY <1>1, BoardElsewhere
  <1>2. ASSUME NEW f \in Console!Filters(screen.board), Console!Pick(f) PROVE BoardInv'
    BY <1>2, BoardPick
  <1>3. ASSUME Console!Search \/ Console!Refresh PROVE BoardInv'
    BY <1>3, BoardSearch
  <1>4. ASSUME Console!Confirm \/ Console!CreateSettlement PROVE BoardInv'
    BY <1>4, BoardConfirm
  <1>5. ASSUME NEW i \in Rows, NEW do \in Console!Dos,
               Console!Click(i, do) \/ Console!Ask(i, do) \/ Console!CourierAction(i, do)
        PROVE  BoardInv'
    BY <1>5, BoardClick, BoardPrompted
  <1>6. ASSUME Console!PutAway PROVE BoardInv'
    BY <1>6, BoardPutAway
  <1>7. ASSUME NEW i \in Rows, Console!Tick(i) PROVE BoardInv'
    BY <1>7, BoardTick
  <1>8. ASSUME NEW c \in calls,
               \/ Console!ServeList(c) \/ Console!ServeAct(c) \/ Console!AnswerList(c)
               \/ Console!AnswerAct(c) \/ Console!Refuse(c) \/ Console!Lose(c)
        PROVE  BoardInv'
    BY <1>8, BoardServesList, BoardServesAct, BoardAnswersList, BoardAnswersAct, BoardRefuses, BoardLoses
  <1> QED
    BY <1>1, <1>2, <1>3, <1>4, <1>5, <1>6, <1>7, <1>8 DEF Console!Next

LEMMA BoardStays ==
  ASSUME BoardInv, UNCHANGED clientVars
  PROVE  BoardInv'
  BY DEF clientVars, BoardInv, BoardOK, BoardTypes, BoardIsSure, CallOnBoard

LEMMA BoardKeeps ==
  ASSUME BoardInv
  PROVE  Console!ShowsTheBoard
  <1> SUFFICES ASSUME Console!Settled
               PROVE  /\ screen.list = Console!Listed(screen.board, held, screen.asked)
                      /\ screen.asked = screen.filter \/ screen.board \in {"payables", "sessions"}
                      /\ \A i \in DOMAIN screen.list :
                           \A do \in Console!Buttons(screen.board, screen.list[i], Console!Doing) :
                             Console!Moves(screen.board, held[i], do) # {}
    BY DEF Console!ShowsTheBoard
  <1>1. /\ screen.list = Console!Listed(screen.board, held, screen.asked)
        /\ screen.asked = screen.filter \/ screen.board \in {"payables", "sessions"}
    BY DEF Console!Settled, BoardInv, BoardOK, BoardIsSure, Awaited
  <1>2. screen.board \in Console!Boards /\ held \in [Rows -> Console!States(screen.board)]
    BY DEF BoardInv, BoardOK, BoardTypes, BoardScreen
  <1>3. ASSUME NEW i \in DOMAIN screen.list,
               NEW do \in Console!Buttons(screen.board, screen.list[i], Console!Doing)
        PROVE  Console!Moves(screen.board, held[i], do) # {}
    <2>1. i \in Rows /\ screen.list[i] = held[i]
      BY <1>1, <1>3 DEF Console!Listed
    <2>2. held[i] \in Console!States(screen.board)
      BY <1>2, <2>1
    <2> QED
      BY <1>2, <1>3, <2>1, <2>2, ButtonsAreTaken
  <1> QED
    BY <1>1, <1>3

-----------------------------------------------------------------------------
(* The pages, the landing shop, the console and the reports, each when it is *)
(* followed.                                                                 *)

PagesInv ==
  /\ part = "checkout" => CheckoutPageInv
  /\ part = "order" => OrderPageInv
  /\ part = "shop" => ShopPageInv
  /\ part = "landing" => LandingInv
  /\ part = "console" => BoardInv
  /\ part = "reports" => ReportInv

LEMMA CheckoutPageStays ==
  ASSUME CheckoutPageInv, UNCHANGED clientVars
  PROVE  CheckoutPageInv'
  <1>1. screen' = screen /\ calls' = calls /\ held' = held
    BY DEF clientVars
  <1>2. CheckoutTypes' /\ OrdersOfCarts'
    BY <1>1 DEF CheckoutPageInv, CheckoutTypes, HeldTypes, OrdersOfCarts
  <1>3. PlacingAsShown'
    BY <1>1 DEF CheckoutPageInv, PlacingAsShown, Checkout!OwnActiveCart, Checkout!Price
  <1>4. AskedOnPage'
    BY <1>1 DEF CheckoutPageInv, AskedOnPage
  <1>5. SureIsInTime'
    BY <1>1 DEF CheckoutPageInv, SureIsInTime, InTime, ShownInTime, Written, Checkout!Cart, Checkout!Price
  <1> QED
    BY <1>2, <1>3, <1>4, <1>5 DEF CheckoutPageInv

LEMMA LandingStays ==
  ASSUME LandingInv, UNCHANGED clientVars
  PROVE  LandingInv'
  BY StaysSound, ShopShows DEF Landing!Show, clientVars

LEMMA PagesInit == Init => PagesInv
  BY CheckoutPageInit, OrderPageInit, ShopPageInit, LandingInit, BoardStarts, ReportStarts DEF Init, PagesInv

LEMMA PagesStep == PagesInv /\ [Next]_vars => PagesInv'
  <1> SUFFICES ASSUME PagesInv, [Next]_vars PROVE PagesInv'
    OBVIOUS
  <1>1. part' = part
    BY DEF Next, vars, Apart
  <1>2. ASSUME part = "checkout" PROVE CheckoutPageInv'
    <2>1. CheckoutPageInv /\ (Checkout!Next \/ UNCHANGED clientVars)
      BY <1>2 DEF PagesInv, Next, vars
    <2> QED
      BY <2>1, CheckoutPageStep, CheckoutPageStays
  <1>3. ASSUME part = "landing" PROVE LandingInv'
    <2>1. LandingInv /\ (Landing!Next \/ UNCHANGED clientVars)
      BY <1>3 DEF PagesInv, Next, vars
    <2> QED
      BY <2>1, LandingStep, LandingStays
  <1>4. ASSUME part = "order" PROVE OrderPageInv'
    <2>1. OrderPageInv /\ (Order!Next \/ UNCHANGED clientVars)
      BY <1>4 DEF PagesInv, Next, vars
    <2> QED
      BY <2>1, OrderPageStep, OrderPageStays
  <1>5. ASSUME part = "shop" PROVE ShopPageInv'
    <2>1. ShopPageInv /\ (Shop!Next \/ UNCHANGED clientVars)
      BY <1>5 DEF PagesInv, Next, vars
    <2> QED
      BY <2>1, ShopPageStep, ShopPageStays
  <1>6. ASSUME part = "console" PROVE BoardInv'
    <2>1. BoardInv /\ (Console!Next \/ UNCHANGED clientVars)
      BY <1>6 DEF PagesInv, Next, vars
    <2> QED
      BY <2>1, BoardStep, BoardStays
  <1>7. ASSUME part = "reports" PROVE ReportInv'
    <2>1. ReportInv /\ (Reports!Next \/ UNCHANGED clientVars)
      BY <1>7 DEF PagesInv, Next, vars
    <2> QED
      BY <2>1, ReportStep, ReportStays
  <1> QED
    BY <1>1, <1>2, <1>3, <1>4, <1>5, <1>6, <1>7 DEF PagesInv

LEMMA PagesAlways == Spec => []PagesInv
  BY PagesInit, PagesStep, PTL DEF Spec

(* What is charged is what the buyer was shown, and a cart and a box are     *)
(* sold once, however the calls and the answers cross.                       *)
THEOREM BothShopsChargeAsShown == Spec => []ChargedAsShown
  <1>1. PagesInv => ChargedAsShown
    BY CheckoutPageKeeps, LandingKeeps DEF PagesInv, ChargedAsShown, Follows
  <1> QED
    BY <1>1, PagesAlways, PTL

(* Once no call is under way, each page of the storefront shows what the     *)
(* server holds, unless calls crossed, one was lost or others wrote.         *)
THEOREM PagesShowWhatIsHeld == Spec => []PagesShowTheServer
  <1>1. PagesInv => PagesShowTheServer
    BY CheckoutPageKeeps, OrderPageKeeps, ShopPageKeeps DEF PagesInv, PagesShowTheServer, Follows
  <1> QED
    BY <1>1, PagesAlways, PTL

(* Once no call is under way, the console's board lists the rows it asked    *)
(* for and offers no step that the service refuses, unless calls crossed,    *)
(* one was lost or another desk took a step.                                 *)
THEOREM BoardsShowWhatIsHeld == Spec => []ShowsTheBoard
  <1>1. PagesInv => ShowsTheBoard
    BY BoardKeeps DEF PagesInv, ShowsTheBoard, Follows
  <1> QED
    BY <1>1, PagesAlways, PTL

(* Reports of the back office drawn from the same tables for the same period *)
(* agree, whatever was ordered, for whatever periods and goods.              *)
THEOREM TheReportsAgree == Spec => []ReportsAgree
  <1>1. PagesInv => ReportsAgree
    BY ReportKeeps DEF PagesInv, ReportsAgree, Follows
  <1> QED
    BY <1>1, PagesAlways, PTL

=============================================================================
