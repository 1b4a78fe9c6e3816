----------------------------- MODULE Settlement -----------------------------
(***************************************************************************)
(* The money of one seller, in SettlementService: the payables that        *)
(* delivered slices earn, the operator's adjustments and the debits of     *)
(* returned goods, and the settlements that pay them out.                  *)
(*                                                                         *)
(* Every handler reads a payable and later writes absolute amounts by id:  *)
(* a call in flight is a slot of req that holds what it has read.  The     *)
(* transactions run at READ COMMITTED, so this is as true of the reads     *)
(* inside them.  Only two writes are guarded by the database: a payable is *)
(* in one settlement (settlement_items.sellerPayableId is unique) and the  *)
(* status of a settlement is replaced where it still is what was read.     *)
(*                                                                         *)
(* Money is counted in paise.                                              *)
(***************************************************************************)
EXTENDS Integers, FiniteSets, FiniteSetsExt

CONSTANTS
  Payables,      \* seller_payables of the seller, one per accepted slice
  Goods,         \* goodsValue of each
  Rate,          \* sellers.commissionRateBps
  Returned,      \* goods values of one return
  Adjustments,   \* amounts the operator may add to a payable
  MaxNet,        \* bound on what a payable may grow to
  MaxAdjusted,   \* bound on how far the operator may take its ledger
  Settlements,
  Requests,      \* calls in flight at the same time
  None

AllBps == 10000
Round(n, d) == (2 * n + d) \div (2 * d)   \* Math.round

(* computePayableBreakdown, debitReturnedGoodsForRefund *)
Commission(value) == Round(value * Rate, AllBps)
NetOf(value) == value - Commission(value)
Debit(value) == Round(value * (AllBps - Rate), AllBps)

ASSUME SettlementAssumption ==
  /\ IsFiniteSet(Payables)
  /\ Goods \in [Payables -> Nat]
  /\ Rate \in 0 .. AllBps
  /\ Returned \subseteq Nat \ {0}
  /\ Adjustments \subseteq Int \ {0}
  /\ \A p \in Payables : NetOf(Goods[p]) \in Nat
  /\ None \notin Settlements

VARIABLES
  payable,    \* seller_payables.status ("NONE": not earned yet)
  net,        \* netPayable
  adjusted,   \* adjustmentAmount
  ledger,     \* sum of the payable's seller_payable_adjustments rows
  item,       \* settlement_items: the settlement a payable is in
  paying,     \* settlement_items.amount
  batch,      \* settlements.status ("NONE": no row yet)
  total,      \* settlements.netPayable
  req,        \* the calls in flight
  returned,   \* goods value of the returns that debited a payable
  returns,    \* and their number
  steered,    \* payables that the operator has adjusted
  raced       \* payables written by a call that had read other amounts

payableVars == <<payable, net, adjusted, ledger>>
batchVars   == <<item, paying, batch, total>>
history     == <<returned, returns, steered, raced>>
vars == <<payableVars, batchVars, req, history>>

PayableStatus    == {"NONE", "EARNED", "IN_SETTLEMENT", "SETTLED"}
SettlementStatus == {"NONE", "PENDING", "APPROVED", "PROCESSING", "PAID", "FAILED", "RECONCILED"}
PaidOut          == {"PAID", "RECONCILED"}

(* SETTLEMENT_NEXT *)
Settlement_Next ==
  {<<"PENDING", "APPROVED">>, <<"APPROVED", "PROCESSING">>, <<"PROCESSING", "PAID">>,
   <<"PROCESSING", "FAILED">>, <<"FAILED", "PROCESSING">>, <<"PAID", "RECONCILED">>}

Idle == [op |-> "idle"]

(* net and adjusted as the call has read them, amount as it will add it.     *)
Request ==
       {Idle}
  \cup [op : {"adjust", "debit"}, id : Payables, net : Nat, adjusted : Int, amount : Int, value : Nat]
  \cup [op : {"batch"}, ids : SUBSET Payables, net : [Payables -> Nat]]
  \cup [op : {"advance"}, id : Settlements, from : SettlementStatus, to : SettlementStatus]

Init ==
  /\ payable = [p \in Payables |-> "NONE"]
  /\ net = [p \in Payables |-> 0]
  /\ adjusted = [p \in Payables |-> 0]
  /\ ledger = [p \in Payables |-> 0]
  /\ item = [p \in Payables |-> None]
  /\ paying = [p \in Payables |-> 0]
  /\ batch = [s \in Settlements |-> "NONE"]
  /\ total = [s \in Settlements |-> 0]
  /\ req = [r \in Requests |-> Idle]
  /\ returned = [p \in Payables |-> 0]
  /\ returns = [p \in Payables |-> 0]
  /\ steered = {}
  /\ raced = {}

Begin(r, snapshot) ==
  /\ req[r] = Idle
  /\ req' = [req EXCEPT ![r] = snapshot]
  /\ UNCHANGED <<payableVars, batchVars, history>>

End(r) == req' = [req EXCEPT ![r] = Idle]

(* A refused check, a lost update guard, a database error, a crash.         *)
Drop(r) ==
  /\ req[r] # Idle
  /\ End(r)
  /\ UNCHANGED <<payableVars, batchVars, history>>

-----------------------------------------------------------------------------
(* earnDeliveredSlices, for the slice of one payable *)
Earn(p) ==
  /\ payable[p] = "NONE"
  /\ payable' = [payable EXCEPT ![p] = "EARNED"]
  /\ net' = [net EXCEPT ![p] = NetOf(Goods[p])]
  /\ UNCHANGED <<adjusted, ledger, batchVars, req, history>>

-----------------------------------------------------------------------------
(* addAdjustment and debitReturnedGoodsForRefund: a row of the append-only   *)
(* ledger, and absolute amounts from the values read.                        *)

NotNegative(n) == n >= 0
Unsettled(p) == payable[p] = "EARNED"

ReadAdjustment(r, p, a) ==
  /\ Unsettled(p)
  /\ NotNegative(net[p] + a)
  /\ net[p] + a <= MaxNet
  /\ ledger[p] + a \in (0 - MaxAdjusted) .. MaxAdjusted
  /\ Begin(r, [op |-> "adjust", id |-> p, net |-> net[p], adjusted |-> ledger[p],
               amount |-> a, value |-> 0])

(* Of the debit, only what the payable still holds.                          *)
Applied(p, v) == IF Debit(v) <= net[p] THEN Debit(v) ELSE net[p]

ReadDebit(r, p, v) ==
  /\ Unsettled(p)
  /\ returned[p] + v <= Goods[p]
  /\ \E d \in 1 .. net[p] :
       /\ d = Applied(p, v)
       /\ Begin(r, [op |-> "debit", id |-> p, net |-> net[p], adjusted |-> adjusted[p],
                    amount |-> 0 - d, value |-> v])

Latest(x) == x.amount   \* mutation: the column holds the last adjustment
NewAdjusted(x) == x.adjusted + x.amount

CommitAmounts(r) ==
  /\ req[r].op \in {"adjust", "debit"}
  /\ LET x == req[r]
         p == x.id
     IN /\ ledger' = [ledger EXCEPT ![p] = @ + x.amount]
        /\ net' = [net EXCEPT ![p] = x.net + x.amount]
        /\ adjusted' = [adjusted EXCEPT ![p] = NewAdjusted(x)]
        /\ returned' = [returned EXCEPT ![p] = @ + x.value]
        /\ returns' = [returns EXCEPT ![p] = IF x.op = "debit" THEN @ + 1 ELSE @]
        /\ steered' = IF x.op = "adjust" THEN steered \cup {p} ELSE steered
        /\ raced' = IF net[p] = x.net /\ payable[p] = "EARNED" THEN raced ELSE raced \cup {p}
  /\ End(r)
  /\ UNCHANGED <<payable, batchVars>>

-----------------------------------------------------------------------------
(* createSettlement *)

AllUnsettled(S) == \A p \in S : Unsettled(p)
SumOf(amount, S) == MapThenSumSet(LAMBDA p : amount[p], S)
NetAgain(x, p) == net[p]   \* mutation: an item takes the net of the row, read again
ItemAmount(x, p) == x.net[p]
NotBatched(S) == \A p \in S : item[p] = None

ReadBatch(r, S) ==
  /\ S # {}
  /\ AllUnsettled(S)
  /\ Begin(r, [op |-> "batch", ids |-> S, net |-> [p \in Payables |-> IF p \in S THEN net[p] ELSE 0]])

CommitBatch(r, s) ==
  /\ req[r].op = "batch"
  /\ batch[s] = "NONE"
  /\ NotBatched(req[r].ids)
  /\ LET x == req[r] IN
       /\ batch' = [batch EXCEPT ![s] = "PENDING"]
       /\ \E t \in 0 .. MaxNet * Cardinality(Payables) :
            /\ t = SumOf(x.net, x.ids)
            /\ total' = [total EXCEPT ![s] = t]
       /\ item' = [p \in Payables |-> IF p \in x.ids THEN s ELSE item[p]]
       /\ paying' = [p \in Payables |-> IF p \in x.ids THEN ItemAmount(x, p) ELSE paying[p]]
       /\ payable' = [p \in Payables |-> IF p \in x.ids THEN "IN_SETTLEMENT" ELSE payable[p]]
       /\ raced' = raced \cup {p \in x.ids : net[p] # x.net[p]}
  /\ End(r)
  /\ UNCHANGED <<net, adjusted, ledger, returned, returns, steered>>

-----------------------------------------------------------------------------
(* advanceSettlement *)

AnyBatch(s, from) == TRUE   \* mutation: the update is not guarded by the status read
StillIs(s, from) == batch[s] = from

ReadAdvance(r, s, to) ==
  /\ <<batch[s], to>> \in Settlement_Next
  /\ Begin(r, [op |-> "advance", id |-> s, from |-> batch[s], to |-> to])

CommitAdvance(r) ==
  /\ req[r].op = "advance"
  /\ StillIs(req[r].id, req[r].from)
  /\ batch' = [batch EXCEPT ![req[r].id] = req[r].to]
  /\ payable' = [p \in Payables |-> IF req[r].to = "PAID" /\ item[p] = req[r].id
                                     THEN "SETTLED" ELSE payable[p]]
  /\ End(r)
  /\ UNCHANGED <<net, adjusted, ledger, item, paying, total, history>>

-----------------------------------------------------------------------------
Call(r) ==
  \/ \E p \in Payables :
       \/ \E a \in Adjustments : ReadAdjustment(r, p, a)
       \/ \E v \in Returned : ReadDebit(r, p, v)
  \/ \E S \in SUBSET Payables : ReadBatch(r, S)
  \/ \E s \in Settlements :
       CommitBatch(r, s) \/ \E to \in SettlementStatus : ReadAdvance(r, s, to)
  \/ CommitAmounts(r) \/ CommitAdvance(r) \/ Drop(r)

Next == (\E r \in Requests : Call(r)) \/ (\E p \in Payables : Earn(p))

Spec == Init /\ [][Next]_vars

-----------------------------------------------------------------------------
(* Every row, and every call in flight, is well formed; in particular no     *)
(* payable and no settlement ever goes below zero, however writes overlap.   *)
TypeOK ==
  /\ payable \in [Payables -> PayableStatus]
  /\ net \in [Payables -> Nat]
  /\ adjusted \in [Payables -> Int]
  /\ ledger \in [Payables -> Int]
  /\ item \in [Payables -> Settlements \cup {None}]
  /\ paying \in [Payables -> Nat]
  /\ batch \in [Settlements -> SettlementStatus]
  /\ total \in [Settlements -> Nat]
  /\ req \in [Requests -> Request]
  /\ returned \in [Payables -> Nat]
  /\ returns \in [Payables -> Nat]
  /\ steered \subseteq Payables
  /\ raced \subseteq Payables

(* A payable counts as settled exactly when the settlement it is in has been *)
(* paid, and can be adjusted or batched only while it is in none: neither a  *)
(* batch of outdated payables nor an outdated advance comes between.         *)
SettledIsPaid ==
  \A p \in Payables :
    /\ payable[p] \in {"NONE", "EARNED"} <=> item[p] = None
    /\ item[p] # None => /\ batch[item[p]] # "NONE"
                         /\ payable[p] = "SETTLED" <=> batch[item[p]] \in PaidOut

(* A payable no write raced for agrees with its append-only ledger, and what *)
(* its settlement pays for it is what it held.                               *)
BooksBalance ==
  \A p \in Payables \ raced :
    /\ payable[p] # "NONE" => net[p] = NetOf(Goods[p]) + ledger[p]
    /\ adjusted[p] = ledger[p]
    /\ item[p] # None => paying[p] = net[p]

(* A settlement pays the sum of its items, whatever happened to the payables *)
(* since they were read.                                                     *)
TotalOfItems ==
  \A s \in Settlements :
    total[s] = SumOf(paying, {p \in Payables : item[p] = s})

(* Goods that all came back leave the seller no more than what rounding each *)
(* return by itself is off.                                                  *)
NothingKept ==
  \A p \in Payables \ (raced \cup steered) :
    payable[p] = "EARNED" /\ returned[p] = Goods[p] => 2 * net[p] <= returns[p] + 1

(* The sellers are settled in full: both of these.                           *)
SettledInFull == TotalOfItems /\ NothingKept

(* A settlement that was paid stays paid, and money that has been settled is *)
(* never batched again.                                                      *)
PaidIsPaid ==
  [][/\ \A s \in Settlements : batch[s] \in PaidOut => batch'[s] \in PaidOut
     /\ \A p \in Payables : payable[p] = "SETTLED" => payable'[p] = "SETTLED" /\ item'[p] = item[p]]_vars

-----------------------------------------------------------------------------
(* Stated by the code, and not kept by it. *)

(* runReconciliation: "net == goodsValue - commission + SUM(adjustments)".   *)
LedgerAgrees ==
  \A p \in Payables : payable[p] # "NONE" => net[p] = NetOf(Goods[p]) + ledger[p]

(* "net-zero on full return: the seller keeps nothing for returned goods".   *)
NetZeroOnFullReturn ==
  \A p \in Payables \ (raced \cup steered) :
    payable[p] = "EARNED" /\ returned[p] = Goods[p] => net[p] = 0
=============================================================================
