--------------------------- MODULE ProductReviews ---------------------------
(***************************************************************************)
(* ReviewsService about one product on sale: its buyers write, correct and *)
(* remove reviews, moderators approve, reject, hide and unhide them, and   *)
(* the product row keeps their number and average.                         *)
(*                                                                         *)
(* Every call checks what it has read and then writes the review by id.    *)
(* Approving, hiding and unhiding are transactions that write the review,  *)
(* aggregate the published reviews as far as they are committed, and write *)
(* the product; a review they have written is locked until they commit.    *)
(***************************************************************************)
EXTENDS Naturals, FiniteSets, FiniteSetsExt

CONSTANTS
  Buyers,       \* customers with a delivered order of the product
  MaxReviews,   \* product_reviews rows that are ever written
  Ratings,      \* ratings that are given
  Calls,        \* calls at the same time
  None          \* no buyer, no call, no value

Rows == 1 .. MaxReviews

VARIABLES
  author,    \* product_reviews.userId (None: not written, or deleted)
  status,    \* product_reviews.status (None likewise)
  rating,    \* product_reviews.rating (0 likewise)
  passed,    \* the rating that the last approval of the review had read
  written,   \* rows written so far
  summary,   \* products.reviewCount, and ratingAvg as the sum of the ratings
  req,       \* the calls: what they do, to which review, and what they have read
  stale      \* a write over an outdated read

rowVars == <<author, status, rating, passed, written>>
vars == <<rowVars, summary, req, stale>>

ReviewStatus == {"PENDING", "PUBLISHED", "REJECTED", "HIDDEN"}

Idle == [op |-> "idle", row |-> None, by |-> None, status |-> None, rating |-> 0, sum |-> None]

Init ==
  /\ author = [n \in Rows |-> None]
  /\ status = [n \in Rows |-> None]
  /\ rating = [n \in Rows |-> 0]
  /\ passed = [n \in Rows |-> 0]
  /\ written = 0
  /\ summary = [count |-> 0, sum |-> 0]
  /\ req = [c \in Calls |-> Idle]
  /\ stale = FALSE

Read(c, op, n) ==
  /\ req[c] = Idle
  /\ req' = [req EXCEPT ![c] = [Idle EXCEPT !.op = op, !.row = n, !.status = status[n], !.rating = rating[n]]]
  /\ UNCHANGED <<rowVars, summary, stale>>

End(c) == req' = [req EXCEPT ![c] = Idle]

Drop(c) == req[c] # Idle /\ End(c) /\ UNCHANGED <<rowVars, summary, stale>>

Locked(n) == \E c \in Calls : req[c].row = n /\ req[c].sum # None

(* The review is there to be written by id, and no transaction holds it.     *)
Writable(c, n) == req[c].row = n /\ author[n] # None /\ ~Locked(n)
Outdated(c, n) == req[c].status # status[n] \/ req[c].rating # rating[n]

-----------------------------------------------------------------------------
(* create, update, remove *)

ReviewsOf(b) == {n \in Rows : author[n] = b}
Unreviewed(b) == ReviewsOf(b) = {}

ReadCreate(c, b) ==
  /\ ReviewsOf(b) = {}
  /\ req[c] = Idle
  /\ req' = [req EXCEPT ![c] = [Idle EXCEPT !.op = "create", !.by = b]]
  /\ UNCHANGED <<rowVars, summary, stale>>

(* The pair of product and user is unique.                                   *)
CommitCreate(c) ==
  /\ req[c].op = "create"
  /\ Unreviewed(req[c].by)
  /\ written < MaxReviews
  /\ written' = written + 1
  /\ author' = [author EXCEPT ![written'] = req[c].by]
  /\ status' = [status EXCEPT ![written'] = "PENDING"]
  /\ \E r \in Ratings : rating' = [rating EXCEPT ![written'] = r]
  /\ End(c)
  /\ UNCHANGED <<passed, summary, stale>>

Correctable(n) == author[n] # None /\ status[n] # "PUBLISHED"

Reopened(s) == IF s \in {"REJECTED", "HIDDEN"} THEN "PENDING" ELSE s

ReadUpdate(c, n) == Correctable(n) /\ Read(c, "update", n)

(* Only a reopened review has its status written.                            *)
CommitUpdate(c, n) ==
  /\ req[c].op = "update"
  /\ Writable(c, n)
  /\ \E r \in Ratings : rating' = [rating EXCEPT ![n] = r]
  /\ status' = [status EXCEPT ![n] =
       IF Reopened(req[c].status) # req[c].status THEN Reopened(req[c].status) ELSE @]
  /\ stale' = (stale \/ Outdated(c, n))
  /\ End(c)
  /\ UNCHANGED <<author, passed, written, summary>>

ReadRemove(c, n) == Correctable(n) /\ Read(c, "remove", n)

CommitRemove(c, n) ==
  /\ req[c].op = "remove"
  /\ Writable(c, n)
  /\ author' = [author EXCEPT ![n] = None]
  /\ status' = [status EXCEPT ![n] = None]
  /\ rating' = [rating EXCEPT ![n] = 0]
  /\ passed' = [passed EXCEPT ![n] = 0]
  /\ stale' = (stale \/ Outdated(c, n))
  /\ End(c)
  /\ UNCHANGED <<written, summary>>

-----------------------------------------------------------------------------
(* reject *)

ReadReject(c, n) == status[n] = "PENDING" /\ Read(c, "reject", n)

CommitReject(c, n) ==
  /\ req[c].op = "reject"
  /\ Writable(c, n)
  /\ status' = [status EXCEPT ![n] = "REJECTED"]
  /\ stale' = (stale \/ Outdated(c, n))
  /\ End(c)
  /\ UNCHANGED <<author, rating, passed, written, summary>>

-----------------------------------------------------------------------------
(* approve, hide, unhide *)

From == [approve |-> "PENDING", hide |-> "PUBLISHED", unhide |-> "HIDDEN"]
To == [approve |-> "PUBLISHED", hide |-> "HIDDEN", unhide |-> "PUBLISHED"]

ReadModerate(c, n) == \E op \in DOMAIN From : status[n] = From[op] /\ Read(c, op, n)

PublishedWith(n, s) == {m \in Rows : IF m = n THEN s = "PUBLISHED" ELSE status[m] = "PUBLISHED"}
SumOver(S) == [count |-> Cardinality(S), sum |-> MapThenSumSet(LAMBDA m : rating[m], S)]
Everything(n, s) == {m \in Rows : status[m] \in {"PUBLISHED", "HIDDEN"}}   \* mutation: hidden reviews count
Counted(n, s) == PublishedWith(n, s)

Aggregate(c, n) ==
  /\ req[c].op \in DOMAIN To
  /\ req[c].sum = None
  /\ Writable(c, n)
  /\ req' = [req EXCEPT ![c].sum = SumOver(Counted(n, To[req[c].op]))]
  /\ stale' = (stale \/ Outdated(c, n))
  /\ UNCHANGED <<rowVars, summary>>

CommitModerate(c, n) ==
  /\ req[c].row = n
  /\ req[c].sum # None
  /\ status' = [status EXCEPT ![n] = To[req[c].op]]
  /\ passed' = [passed EXCEPT ![n] = IF req[c].op = "approve" THEN req[c].rating ELSE @]
  /\ summary' = req[c].sum
  /\ stale' = (stale \/ req[c].sum # SumOver(Counted(n, To[req[c].op])))
  /\ End(c)
  /\ UNCHANGED <<author, rating, written>>

-----------------------------------------------------------------------------
Call(c) ==
  \/ \E b \in Buyers : ReadCreate(c, b)
  \/ CommitCreate(c)
  \/ \E n \in Rows :
       \/ ReadUpdate(c, n) \/ CommitUpdate(c, n)
       \/ ReadRemove(c, n) \/ CommitRemove(c, n)
       \/ ReadReject(c, n) \/ CommitReject(c, n)
       \/ ReadModerate(c, n) \/ Aggregate(c, n) \/ CommitModerate(c, n)
  \/ Drop(c)

Next == \E c \in Calls : Call(c)

Spec == Init /\ [][Next]_vars

-----------------------------------------------------------------------------
(* The reviews and the calls about them are well formed, and however calls   *)
(* overlap a buyer has at most one review of the product.                    *)
TypeOK ==
  /\ author \in [Rows -> Buyers \cup {None}]
  /\ \A n \in Rows :
       /\ status[n] \in ReviewStatus \cup {None}
       /\ status[n] = None <=> author[n] = None
       /\ rating[n] \in IF author[n] = None THEN {0} ELSE Ratings
       /\ n > written => author[n] = None
  /\ \A b \in Buyers : Cardinality(ReviewsOf(b)) <= 1
  /\ passed \in [Rows -> Ratings \cup {0}]
  /\ written \in 0 .. MaxReviews
  /\ summary.count \in 0 .. MaxReviews
  /\ \A c \in Calls : req[c] = Idle \/ req[c].op \in {"create", "update", "remove", "reject"} \cup DOMAIN To
  /\ stale \in BOOLEAN

(* The number and the average on the product are those of the published      *)
(* reviews, and each of these reads as a moderator has approved it, through  *)
(* any sequence of corrections, removals and decisions (also when a review   *)
(* was hidden, corrected and shown again), unless a write was over an        *)
(* outdated read.                                                            *)
SummaryAgrees ==
  ~stale =>
    /\ summary = SumOver(PublishedWith(0, None))
    /\ \A n \in Rows : status[n] = "PUBLISHED" => rating[n] = passed[n]

-----------------------------------------------------------------------------
(* Stated by the code, and not kept by it. *)

(* "Recompute Product.ratingAvg/reviewCount from PUBLISHED (visible)         *)
(* reviews", and a rejection leaves them alone because the review was never  *)
(* published: when no call is under way the two agree.                       *)
SummaryIsOfPublished ==
  (\A c \in Calls : req[c] = Idle) => summary = SumOver(PublishedWith(0, None))
=============================================================================
