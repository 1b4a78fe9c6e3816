-------------------------- MODULE CourierDelivery --------------------------
(***************************************************************************)
(* The last mile of DeliveryService: the operator gives an accepted slice  *)
(* of a shipped order to a delivery partner, the partner carries it, and   *)
(* the call that delivers the last outstanding slice finalizes the order.  *)
(* The order itself, with everything else that may happen to it meanwhile, *)
(* is OrderLifecycle.                                                      *)
(*                                                                         *)
(* A call is a slot of call, as a request is of req: it reads, and writes  *)
(* by id later.  The transaction of deliver() counts the outstanding       *)
(* slices while the stamps of other open transactions are invisible to it, *)
(* so the count and the commit are two steps.  The registry of partners    *)
(* and the waybill of the courier provider are left out.                   *)
(***************************************************************************)
EXTENDS OrderLifecycle

CONSTANTS
  Tasks,   \* ids of delivery_assignments rows
  Calls,   \* calls of the operator and of partners that may be in flight
  NoSlice  \* what an assignment that is not there carries

ASSUME CourierAssumption == NoSlice \notin Slices

VARIABLES
  task,          \* delivery_assignments.status ("NONE": no such row yet)
  parcel,        \* the slice an assignment carries
  fees,          \* assignments with a courier_payouts row (unique column)
  deliveredNow,  \* DeliveryService._deliveredNow, one flag for the whole process
  notices,       \* order statuses at which an "Order delivered" notice was enqueued
  call           \* the calls in flight

taskVars  == <<task, parcel, fees, deliveredNow, notices>>
lastMile  == <<taskVars, call>>
allVars   == <<vars, lastMile>>

TaskStatus == {"NONE", "ASSIGNED", "ACCEPTED", "PICKED_UP", "OUT_FOR_DELIVERY",
               "DELIVERED", "REJECTED", "FAILED", "CANCELLED"}
CourierStages == {"SHIPPED", "OUT_FOR_DELIVERY"}
ActiveTask == {"ASSIGNED", "ACCEPTED", "PICKED_UP", "OUT_FOR_DELIVERY"}

Call ==
       [op : {"idle", "notify", "reset"}]
  \cup [op : {"assign"}, slice : Slices]
  \cup [op : {"step"}, task : Tasks, to : TaskStatus]
  \cup [op : {"deliver"}, task : Tasks]
  \cup [op : {"stamped"}, task : Tasks, last : BOOLEAN]

-----------------------------------------------------------------------------
TaskInit ==
  /\ task = [t \in Tasks |-> "NONE"]
  /\ parcel = [t \in Tasks |-> NoSlice]
  /\ fees = {}
  /\ deliveredNow = FALSE
  /\ notices = {}
  /\ call = [c \in Calls |-> Idle]

Enter(c, snapshot) ==
  /\ call[c] = Idle
  /\ call' = [call EXCEPT ![c] = snapshot]
  /\ UNCHANGED <<taskVars, vars>>

Proceed(c, next) == call' = [call EXCEPT ![c] = next]
Leave(c) == Proceed(c, Idle)

(* A write fails or the process drops the call; the flag stays as it is.    *)
Drop(c) ==
  /\ call[c] # Idle
  /\ Leave(c)
  /\ UNCHANGED <<taskVars, vars>>

-----------------------------------------------------------------------------
(* assignSlice, reassignSlice *)

CarriedBy(s) == {t \in Tasks : parcel[t] = s}

NotYetThere(s) == s \notin delivered   \* mutation: the answer of the seller is not asked for
Dispatchable(s) == slice[s] = "ACCEPTED" /\ s \notin delivered

ReadAssign(c, s) ==
  /\ Dispatchable(s)
  /\ order \in CourierStages
  /\ \A t \in CarriedBy(s) : task[t] \notin ActiveTask
  /\ Enter(c, [op |-> "assign", slice |-> s])

CommitAssign(c, t) ==
  /\ call[c].op = "assign"
  /\ task[t] = "NONE"
  /\ task' = [task EXCEPT ![t] = "ASSIGNED"]
  /\ parcel' = [parcel EXCEPT ![t] = call[c].slice]
  /\ Leave(c)
  /\ UNCHANGED <<fees, deliveredNow, notices, vars>>

-----------------------------------------------------------------------------
(* acceptTask, rejectTask, pickup, outForDelivery, fail, cancelAssignment:  *)
(* each checks the status it read, and writes by id.                        *)

TaskMoves ==
       {"ASSIGNED"} \X {"ACCEPTED", "REJECTED"}
  \cup {<<"ACCEPTED", "PICKED_UP">>, <<"PICKED_UP", "OUT_FOR_DELIVERY">>}
  \cup (ActiveTask \ {"ASSIGNED"}) \X {"FAILED"}
  \cup ActiveTask \X {"CANCELLED"}

ReadStep(c, t) ==
  \E to \in TaskStatus :
    <<task[t], to>> \in TaskMoves /\ Enter(c, [op |-> "step", task |-> t, to |-> to])

CommitStep(c) ==
  /\ call[c].op = "step"
  /\ task' = [task EXCEPT ![call[c].task] = call[c].to]
  /\ Leave(c)
  /\ UNCHANGED <<parcel, fees, deliveredNow, notices, vars>>

-----------------------------------------------------------------------------
(* deliver *)

ReadDeliver(c, t) ==
  /\ task[t] = "OUT_FOR_DELIVERY"
  /\ order \in CourierStages
  /\ Enter(c, [op |-> "deliver", task |-> t])

(* The row lock an open delivery holds on its slice.                        *)
Stamping(s) == \E c \in Calls : call[c].op = "stamped" /\ parcel[call[c].task] = s

NoneOpen(s) == \A z \in Slices : slice[z] # "PLACED"  \* mutation: no look at deliveredAt
AllStamped(s) == {z \in Slices : slice[z] # "CANCELLED"} \subseteq delivered \cup {s}

(* Inside the transaction: the slice is stamped (and locked), the fee is    *)
(* earned, and the slices still outstanding are looked up.  When none is,   *)
(* the flag is raised, although nothing has been committed yet.             *)
CountOutstanding(c) ==
  /\ call[c].op = "deliver"
  /\ LET s == parcel[call[c].task] IN
       /\ ~Stamping(s)
       /\ Proceed(c, [op |-> "stamped", task |-> call[c].task, last |-> AllStamped(s)])
       /\ deliveredNow' = (deliveredNow \/ AllStamped(s))
  /\ UNCHANGED <<task, parcel, fees, notices, vars>>

CommitDeliver(c) ==
  /\ call[c].op = "stamped"
  /\ LET t == call[c].task IN
       /\ delivered' = delivered \cup {parcel[t]}
       /\ task' = [task EXCEPT ![t] = "DELIVERED"]
       /\ fees' = fees \cup {t}
  /\ IF call[c].last /\ order \in CourierStages
       THEN /\ order' = "DELIVERED"
            /\ payStatus' = IF Method = "COD" THEN "COD_PAID" ELSE payStatus
            /\ EarnDeliveredSlices
       ELSE UNCHANGED <<order, payStatus, payables>>
  /\ Proceed(c, [op |-> "notify"])
  /\ UNCHANGED <<payment, cleared, codVars, sliceVars, req, parcel, deliveredNow, notices>>

(* After the transaction: the buyer is told when the flag is up, and the    *)
(* flag is lowered.                                                         *)
TellBuyer(c) ==
  /\ call[c].op = "notify"
  /\ deliveredNow
  /\ notices' = notices \cup {order}
  /\ Proceed(c, [op |-> "reset"])
  /\ UNCHANGED <<task, parcel, fees, deliveredNow, vars>>

LowerFlag(c) ==
  /\ call[c].op \in {"notify", "reset"}
  /\ call[c].op = "notify" => ~deliveredNow
  /\ deliveredNow' = FALSE
  /\ Leave(c)
  /\ UNCHANGED <<task, parcel, fees, notices, vars>>

-----------------------------------------------------------------------------
CourierCall(c) ==
  \/ \E s \in Slices : ReadAssign(c, s)
  \/ \E t \in Tasks : CommitAssign(c, t) \/ ReadStep(c, t) \/ ReadDeliver(c, t)
  \/ CommitStep(c) \/ CountOutstanding(c) \/ CommitDeliver(c)
  \/ TellBuyer(c) \/ LowerFlag(c) \/ Drop(c)

(* The operator who advances to DELIVERED stamps the accepted slices, and   *)
(* waits for (or loses a deadlock against) the deliveries that hold them.   *)
OrderStep ==
  /\ Next
  /\ (order # "DELIVERED" /\ order' = "DELIVERED") => \A s \in Slices : ~Stamping(s)
  /\ UNCHANGED lastMile

CourierNext == OrderStep \/ \E c \in Calls : CourierCall(c)

CourierSpec == Init /\ TaskInit /\ [][CourierNext]_allVars

-----------------------------------------------------------------------------
(* Types of the last mile, and of the order it works on. *)
CourierTypeOK ==
  /\ TypeOK
  /\ task \in [Tasks -> TaskStatus]
  /\ parcel \in [Tasks -> Slices \cup {NoSlice}]
  /\ fees \subseteq Tasks
  /\ deliveredNow \in BOOLEAN
  /\ notices \subseteq OrderStatus
  /\ call \in [Calls -> Call]

(* Whoever finalizes the order, the courier with the last slice or the      *)
(* operator, every slice that was not dropped has been delivered by then,   *)
(* although the courier's look at the outstanding slices is old when it     *)
(* commits.                                                                 *)
DeliveredIsComplete ==
  order = "DELIVERED" => \A s \in Slices : slice[s] # "CANCELLED" => s \in delivered

(* The goods handed over are goods of a seller who accepted, and whose      *)
(* slice was not cancelled: the answer was read when the task was assigned, *)
(* several calls before.                                                    *)
DeliveredWasAccepted == \A s \in delivered : slice[s] = "ACCEPTED"

-----------------------------------------------------------------------------
(* Stated by the code, and not kept by it. *)

(* "Finalize the order once every non-cancelled slice is delivered": when   *)
(* nothing is in flight, a fully delivered order is not still on its way.   *)
FinalizedOnceDelivered ==
  ~ /\ \A c \in Calls : call[c] = Idle
    /\ \A r \in Requests : req[r] = Idle
    /\ order \in CourierStages
    /\ delivered # {}
    /\ \A s \in Slices : slice[s] # "CANCELLED" => s \in delivered

(* "the current deliver() call finalized the order to DELIVERED": the buyer *)
(* is told of a delivery that has happened.                                 *)
NoticeAfterDelivery == notices \subseteq {"DELIVERED"}
=============================================================================
