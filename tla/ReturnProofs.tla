---------------------------- MODULE ReturnProofs ----------------------------
(***************************************************************************)
(* Goods, then money, then books: for any number of return requests,       *)
(* items, calls in flight and refunds at the gateway, however calls        *)
(* overlap and events come.  Then what the refunds add up to, and which    *)
(* events may be swallowed.                                                *)
(***************************************************************************)
EXTENDS ReturnCases, FiniteSums, TLAPS

(* What reference g stands for in a call or a row of case c: a refund that  *)
(* the gateway has taken, or cash.                                          *)
Sent(c, g) ==
  IF g = None THEN method = "COD" ELSE gateway[g].case = c /\ gateway[g].state # "NONE"
Received(c, g) ==
  IF g = None THEN method = "COD" ELSE gateway[g].case = c /\ gateway[g].state = "PROCESSED"

(* What a call in flight still knows, however old its reads are.            *)
GoodCall(x) ==
  /\ x.op = "step" => /\ ret[x.case] # "NONE"
                      /\ x.to \notin {"NONE", "APPROVED_FOR_REFUND", "COMPLETED"}
  /\ x.op = "inspect" => ret[x.case] # "NONE"
  /\ x.op \in {"initiate", "refund", "book", "event", "close"} => Inspected(x.case)
  /\ x.op \in {"book", "event"} => /\ Sent(x.case, x.ref)
                                   /\ x.terminal => Received(x.case, x.ref)
  /\ x.op = "close" => Received(x.case, x.ref)

GoodCalls == \A r \in Requests : GoodCall(req[r])

GoodRow(c) ==
  /\ ret[c] = "APPROVED_FOR_REFUND" \/ refund[c] # "NONE" \/ completions[c] > 0 => Inspected(c)
  /\ gatewayRef[c] # None => Sent(c, gatewayRef[c])
  /\ ret[c] = "COMPLETED" => completions[c] > 0
  /\ completions[c] > 0 => InHand(c)

GoodRows == \A c \in Cases : GoodRow(c)

(* What the gateway has taken belongs to an inspected case.                 *)
GoodGateway ==
  \A g \in GatewayRefunds :
    /\ gateway[g].state = "NONE" => gateway[g].case = None
    /\ \A c \in Cases : gateway[g].case = c => Inspected(c)

ReturnInv == TypeOK /\ GoodCalls /\ GoodRows /\ GoodGateway

(* Nothing has been returned yet. *)
LEMMA ReturnInit == Init => ReturnInv
  <1> SUFFICES ASSUME Init PROVE ReturnInv
    OBVIOUS
  <1>1. TypeOK
    <2>1. sliceRefunds \in Nat /\ method \in {"GATEWAY", "COD"}
      BY ReturnAssumption DEF Init, ResolvedAmounts
    <2>2. /\ ret \in [Cases -> ReturnStatus] /\ remedy \in [Cases -> Remedies]
          /\ pick \in [Cases -> [Items -> Nat]] /\ result \in [Cases -> Found] /\ issued \subseteq Cases
      BY DEF Init, ReturnStatus, Remedies, Found
    <2>3. /\ refund \in [Cases -> RefundState] /\ amount \in [Cases -> Nat]
          /\ gatewayRef \in [Cases -> GatewayRefunds \cup {None}] /\ completions \in [Cases -> Nat]
          /\ gateway \in [GatewayRefunds -> [case : Cases \cup {None}, state : GatewayStates]]
      BY DEF Init, RefundState, GatewayStates
    <2>4. req \in [Requests -> Request]
      BY DEF Init, Request
    <2> QED
      BY <2>1, <2>2, <2>3, <2>4 DEF Init, TypeOK
  <1>2. GoodCalls
    BY DEF Init, GoodCalls, GoodCall, Idle
  <1>3. GoodRows
    BY DEF Init, GoodRows, GoodRow
  <1>4. GoodGateway
    BY ReturnAssumption DEF Init, GoodGateway
  <1> QED
    BY <1>1, <1>2, <1>3, <1>4 DEF ReturnInv

-----------------------------------------------------------------------------
(* Types *)

(* The one slot that a call changes. *)
LEMMA SlotType ==
  ASSUME TypeOK, NEW r \in Requests, NEW x \in Request, Proceed(r, x)
  PROVE  /\ req' \in [Requests -> Request]
         /\ \A q \in Requests : req'[q] = IF q = r THEN x ELSE req[q]
  BY DEF TypeOK, Proceed

LEMMA BeginType ==
  ASSUME TypeOK, NEW r \in Requests, NEW x \in Request, Begin(r, x)
  PROVE  TypeOK' /\ \A q \in Requests : req'[q] = IF q = r THEN x ELSE req[q]
  BY DEF TypeOK, Begin, caseVars, refundVars, gatewayVars

(* Reading fills the slot with a record of its kind.                        *)
LEMMA ReadType ==
  ASSUME TypeOK, NEW r \in Requests,
         \/ ReadRequest(r)
         \/ \E c \in Cases : \/ ReadStep(r, c) \/ ReadInspect(r, c) \/ ReadInitiate(r, c)
                            \/ ReadComplete(r, c)
                            \/ \E g \in GatewayRefunds : ReadEvent(r, g, c)
  PROVE  \E x \in Request : Begin(r, x)
  <1>1. CASE ReadRequest(r)
    <2>1. PICK p \in [Items -> UNION {0 .. Bought[i] : i \in Items}] :
            Begin(r, [op |-> "request", pick |-> p])
      BY <1>1 DEF ReadRequest
    <2>2. UNION {0 .. Bought[i] : i \in Items} \subseteq Nat
      BY ReturnAssumption
    <2>3. [op |-> "request", pick |-> p] \in Request
      BY <2>2 DEF Request
    <2> QED
      BY <2>1, <2>3
  <1>2. ASSUME NEW c \in Cases, ReadStep(r, c)
        PROVE  \E x \in Request : Begin(r, x)
    BY <1>2 DEF ReadStep, Request
  <1>3. ASSUME NEW c \in Cases, ReadInspect(r, c)
        PROVE  \E x \in Request : Begin(r, x)
    BY <1>3 DEF ReadInspect, Request
  <1>4. ASSUME NEW c \in Cases, ReadInitiate(r, c)
        PROVE  \E x \in Request : Begin(r, x)
    <2>1. Refundable(c) \in Nat
      BY <1>4 DEF ReadInitiate, MayInitiate
    <2> QED
      BY <1>4, <2>1 DEF ReadInitiate, Request
  <1>5. ASSUME NEW c \in Cases, ReadComplete(r, c)
        PROVE  \E x \in Request : Begin(r, x)
    BY <1>5 DEF ReadComplete, Request
  <1>6. ASSUME NEW c \in Cases, NEW g \in GatewayRefunds, ReadEvent(r, g, c)
        PROVE  \E x \in Request : Begin(r, x)
    BY <1>6 DEF ReadEvent, Request
  <1> QED
    BY <1>1, <1>2, <1>3, <1>4, <1>5, <1>6

(* A step of a call keeps the rows well formed. *)
LEMMA CallType ==
  ASSUME TypeOK, NEW r \in Requests, Call(r)
  PROVE  TypeOK'
  <1> USE ReturnAssumption
  <1>0. req[r] \in Request /\ Idle \in Request
    BY DEF TypeOK, Request
  <1>1. ASSUME \/ ReadRequest(r)
               \/ \E c \in Cases : \/ ReadStep(r, c) \/ ReadInspect(r, c) \/ ReadInitiate(r, c)
                                  \/ ReadComplete(r, c)
                                  \/ \E g \in GatewayRefunds : ReadEvent(r, g, c)
        PROVE  TypeOK'
    BY <1>1, ReadType, BeginType
  <1>2. CASE Drop(r)
    BY <1>0, <1>2, SlotType DEF Drop, End, TypeOK, caseVars, refundVars, gatewayVars
  <1>3. ASSUME NEW c \in Cases, CommitRequest(r, c)
        PROVE  TypeOK'
    <2>1. req[r].pick \in [Items -> Nat]
      BY <1>0, <1>3 DEF CommitRequest, Request, Idle
    <2> QED
      BY <1>0, <1>3, <2>1, SlotType
         DEF CommitRequest, End, TypeOK, ReturnStatus, Remedies, refundVars, gatewayVars
  <1>4. CASE CommitStep(r)
    <2>1. req[r].case \in Cases /\ req[r].to \in ReturnStatus
      BY <1>0, <1>4 DEF CommitStep, Request, Idle
    <2> QED
      BY <1>0, <1>4, <2>1, SlotType DEF CommitStep, End, TypeOK, refundVars, gatewayVars
  <1>5. ASSUME NEW found \in Found, CommitInspect(r, found)
        PROVE  TypeOK'
    <2>1. req[r].case \in Cases
      BY <1>0, <1>5 DEF CommitInspect, Request, Idle
    <2>2. req' \in [Requests -> Request]
      BY <1>0, <1>5, SlotType DEF CommitInspect, End
    <2>3. ret' \in [Cases -> ReturnStatus] /\ issued' \subseteq Cases
      BY <1>0, <1>5, <2>1 DEF CommitInspect, TypeOK, ReturnStatus
    <2>4. result' \in [Cases -> Found]
      BY <1>0, <1>5, <2>1 DEF CommitInspect, TypeOK
    <2> QED
      BY <1>0, <1>5, <2>2, <2>3, <2>4 DEF CommitInspect, TypeOK, refundVars, gatewayVars
  <1>6. CASE CommitInitiate(r)
    <2>1. req[r].case \in Cases /\ req[r].amount \in Nat
      BY <1>0, <1>6 DEF CommitInitiate, Request, Idle
    <2> QED
      BY <1>0, <1>6, <2>1, SlotType
         DEF CommitInitiate, End, TypeOK, RefundState, caseVars, gatewayVars
  <1>7. ASSUME NEW g \in GatewayRefunds, CallGateway(r, g)
        PROVE  TypeOK'
    <2>1. req[r].case \in Cases
      BY <1>0, <1>7 DEF CallGateway, Request, Idle
    <2>2. PICK state \in {"PROCESSING", "PROCESSED"} :
            /\ gateway' = [gateway EXCEPT ![g] = [case |-> req[r].case, state |-> state]]
            /\ Proceed(r, [op |-> "book", case |-> req[r].case, ref |-> g,
                           terminal |-> state = "PROCESSED"])
      BY <1>7 DEF CallGateway
    <2>3. [op |-> "book", case |-> req[r].case, ref |-> g, terminal |-> state = "PROCESSED"] \in Request
      BY <2>1 DEF Request
    <2> QED
      BY <1>7, <2>1, <2>2, <2>3, SlotType
         DEF CallGateway, TypeOK, GatewayStates, caseVars, refundVars
  <1>8. CASE BookProcessing(r)
    <2>1. req[r].case \in Cases /\ req[r].ref \in GatewayRefunds \cup {None}
      BY <1>0, <1>8 DEF BookProcessing, Request, Idle
    <2> QED
      BY <1>0, <1>8, <2>1, SlotType
         DEF BookProcessing, NextRefundState, End, TypeOK, RefundState, caseVars, gatewayVars
  <1>9. CASE BookFailure(r)
    <2>1. req[r].case \in Cases /\ req[r].ref \in GatewayRefunds
      BY <1>0, <1>9 DEF BookFailure, Request, Idle
    <2> QED
      BY <1>0, <1>9, <2>1, SlotType
         DEF BookFailure, Told, End, TypeOK, RefundState, caseVars
  <1>10. CASE CountCompleted(r)
    <2>1. /\ req[r].case \in Cases
          /\ req[r].ref \in GatewayRefunds \cup {None}
      BY <1>0, <1>10 DEF CountCompleted, Request, Idle
    <2>2. PICK full \in BOOLEAN :
            Proceed(r, [op |-> "close", case |-> req[r].case, ref |-> req[r].ref,
                        event |-> req[r].op = "event", full |-> full])
      BY <1>10 DEF CountCompleted
    <2>3. [op |-> "close", case |-> req[r].case, ref |-> req[r].ref,
           event |-> req[r].op = "event", full |-> full] \in Request
      BY <2>1 DEF Request
    <2> QED
      BY <1>10, <2>2, <2>3, SlotType DEF CountCompleted, TypeOK, caseVars, refundVars, gatewayVars
  <1>11. CASE CommitClose(r)
    <2>1. /\ req[r].case \in Cases
          /\ req[r].ref \in GatewayRefunds \cup {None}
          /\ req[r].event \in BOOLEAN
      BY <1>0, <1>11 DEF CommitClose, Request, Idle
    <2>3. req' \in [Requests -> Request]
      BY <1>0, <1>11, SlotType DEF CommitClose, End
    <2>4. completions' \in [Cases -> Nat] /\ gatewayRef' \in [Cases -> GatewayRefunds \cup {None}]
      BY <1>11, <2>1 DEF CommitClose, TypeOK
    <2>5. told' \subseteq GatewayRefunds /\ told \subseteq told'
      BY <1>11, <2>1 DEF CommitClose, Told, TypeOK
    <2> QED
      BY <1>11, <2>1, <2>3, <2>4, <2>5 DEF CommitClose, TypeOK, RefundState, ReturnStatus
  <1> QED
    BY <1>1, <1>2, <1>3, <1>4, <1>5, <1>6, <1>7, <1>8, <1>9, <1>10, <1>11 DEF Call

(* Every step keeps the rows, the calls and the gateway's records well formed. *)
LEMMA TypeStep ==
  ASSUME TypeOK, [Next]_vars
  PROVE  TypeOK'
  <1>1. CASE UNCHANGED vars
    BY <1>1 DEF vars, caseVars, refundVars, gatewayVars, TypeOK
  <1>2. ASSUME NEW g \in GatewayRefunds, Settle(g) \/ Dismiss(g)
        PROVE  TypeOK'
    BY <1>2 DEF Settle, Dismiss, TypeOK, GatewayStates, caseVars, refundVars
  <1> QED
    BY <1>1, <1>2, CallType DEF Next

-----------------------------------------------------------------------------
(* The invariant *)

(* Nothing that a call or a row relies on is ever taken back. *)
LEMMA Grow ==
  ASSUME ReturnInv, [Next]_vars
  PROVE  /\ \A c \in Cases : ret[c] # "NONE" => ret'[c] # "NONE"
         /\ \A c \in Cases : Inspected(c) => Inspected(c)'
         /\ method' = method
         /\ \A c \in Cases : completions'[c] >= completions[c]
         /\ \A g \in GatewayRefunds :
              /\ gateway[g].state # "NONE" => gateway'[g].case = gateway[g].case /\ gateway'[g].state # "NONE"
              /\ gateway[g].state = "PROCESSED" => gateway'[g].state = "PROCESSED"
  <1>0. TypeOK
    BY DEF ReturnInv
  <1>1. CASE UNCHANGED vars
    BY <1>0, <1>1 DEF vars, caseVars, refundVars, gatewayVars, Inspected, Complete, Picked, TypeOK
  <1>2. ASSUME UNCHANGED <<method, ret, pick, result, completions, gateway>>
        PROVE  /\ UNCHANGED <<method, ret, pick, result, completions, gateway>>
               /\ \A c \in Cases : Inspected(c) => Inspected(c)'
               /\ \A c \in Cases : completions'[c] >= completions[c]
    BY <1>0, <1>2 DEF Inspected, Complete, Picked, TypeOK
  <1>3. ASSUME NEW r \in Requests, Call(r),
               ~UNCHANGED <<method, ret, pick, result, completions, gateway>>
        PROVE  \/ \E c \in Cases : CommitRequest(r, c)
               \/ CommitStep(r)
               \/ \E found \in Found : CommitInspect(r, found)
               \/ \E g \in GatewayRefunds : CallGateway(r, g)
               \/ CommitClose(r)
    BY <1>3 DEF Call, ReadRequest, ReadStep, ReadInspect, ReadInitiate, ReadComplete, ReadEvent, Begin,
                Drop, CommitInitiate, BookProcessing, BookFailure, CountCompleted,
                caseVars, refundVars, gatewayVars
  <1>4. ASSUME NEW r \in Requests, NEW c \in Cases, CommitRequest(r, c)
        PROVE  /\ \A d \in Cases : ret[d] # "NONE" => ret'[d] = ret[d] /\ pick'[d] = pick[d]
               /\ UNCHANGED <<method, result, completions, gateway>>
    BY <1>0, <1>4 DEF CommitRequest, TypeOK, refundVars, gatewayVars
  <1>5. ASSUME NEW r \in Requests, CommitStep(r) \/ CommitClose(r)
        PROVE  /\ \A d \in Cases : ret[d] # "NONE" => ret'[d] # "NONE"
               /\ \A d \in Cases : completions'[d] >= completions[d]
               /\ UNCHANGED <<method, pick, result, gateway>>
    <2>1. req[r] \in Request /\ GoodCall(req[r])
      BY <1>0 DEF TypeOK, ReturnInv, GoodCalls
    <2> QED
      BY <1>0, <1>5, <2>1 DEF CommitStep, CommitClose, TypeOK, GoodCall, refundVars, gatewayVars
  <1>6. ASSUME NEW r \in Requests, NEW found \in Found, CommitInspect(r, found)
        PROVE  /\ \A d \in Cases : ret[d] # "NONE" => ret'[d] # "NONE"
               /\ \A d \in Cases : Complete(d, result[d]) => Complete(d, result[d])'
               /\ UNCHANGED <<method, pick, completions, gateway>>
    <2>1. PICK new \in Found : found = Merge(result[req[r].case], new)
      BY <1>6 DEF CommitInspect
    <2>2. \A i \in Items : result[req[r].case][i] # "NONE" => found[i] # "NONE"
      BY <2>1 DEF Merge
    <2>3. result' = [result EXCEPT ![req[r].case] = found] /\ pick' = pick
      BY <1>6 DEF CommitInspect
    <2>4. \A d \in Cases : Complete(d, result[d]) => Complete(d, result[d])'
      BY <1>0, <2>2, <2>3 DEF Complete, Picked, TypeOK
    <2> QED
      BY <1>0, <1>6, <2>4 DEF CommitInspect, TypeOK, refundVars, gatewayVars
  <1>7. ASSUME NEW r \in Requests, NEW g \in GatewayRefunds, CallGateway(r, g)
        PROVE  /\ UNCHANGED <<method, ret, pick, result, completions>>
               /\ \A h \in GatewayRefunds : gateway[h].state # "NONE" => gateway'[h] = gateway[h]
    BY <1>0, <1>7 DEF CallGateway, TypeOK, caseVars, refundVars
  <1>8. ASSUME NEW g \in GatewayRefunds, Settle(g) \/ Dismiss(g)
        PROVE  /\ UNCHANGED <<method, ret, pick, result, completions>>
               /\ \A h \in GatewayRefunds :
                    /\ gateway[h].state # "NONE" => gateway'[h].case = gateway[h].case /\ gateway'[h].state # "NONE"
                    /\ gateway[h].state = "PROCESSED" => gateway'[h].state = "PROCESSED"
    BY <1>0, <1>8 DEF Settle, Dismiss, TypeOK, caseVars, refundVars
  <1>9. ASSUME \A d \in Cases : ret[d] # "NONE" => ret'[d] # "NONE" /\ pick'[d] = pick[d],
               \A d \in Cases : Complete(d, result[d]) => Complete(d, result[d])'
        PROVE  \A c \in Cases : Inspected(c) => Inspected(c)'
    BY <1>9 DEF Inspected
  <1>10. ASSUME UNCHANGED result, \A d \in Cases : ret[d] # "NONE" => ret'[d] # "NONE" /\ pick'[d] = pick[d]
         PROVE  \A c \in Cases : Inspected(c) => Inspected(c)'
    BY <1>10 DEF Inspected, Complete, Picked
  <1>11. \A c \in Cases : completions[c] \in Nat
    BY <1>0 DEF TypeOK
  <1>12. ASSUME NEW r \in Requests, NEW c \in Cases, CommitRequest(r, c)
         PROVE  \A d \in Cases : Inspected(d) => Inspected(d)'
    BY <1>4, <1>10, <1>12
  <1>13. ASSUME NEW r \in Requests, CommitStep(r) \/ CommitClose(r)
         PROVE  \A d \in Cases : Inspected(d) => Inspected(d)'
    BY <1>5, <1>10, <1>13
  <1>14. ASSUME NEW r \in Requests, NEW found \in Found, CommitInspect(r, found)
         PROVE  \A d \in Cases : Inspected(d) => Inspected(d)'
    BY <1>6, <1>9, <1>14
  <1>15. CASE UNCHANGED <<method, ret, pick, result, completions, gateway>>
    BY <1>2, <1>15
  <1>16. CASE \E r \in Requests : Call(r) /\ ~UNCHANGED <<method, ret, pick, result, completions, gateway>>
    <2>1. PICK r \in Requests : Call(r) /\ ~UNCHANGED <<method, ret, pick, result, completions, gateway>>
      BY <1>16
    <2>2. CASE \E c \in Cases : CommitRequest(r, c)
      BY <2>2, <1>4, <1>11, <1>12
    <2>3. CASE CommitStep(r) \/ CommitClose(r)
      BY <2>3, <1>5, <1>13
    <2>4. CASE \E found \in Found : CommitInspect(r, found)
      BY <2>4, <1>6, <1>11, <1>14
    <2>5. CASE \E g \in GatewayRefunds : CallGateway(r, g)
      BY <2>5, <1>7, <1>10, <1>11
    <2> QED
      BY <2>1, <1>3, <2>2, <2>3, <2>4, <2>5
  <1>17. CASE \E g \in GatewayRefunds : Settle(g) \/ Dismiss(g)
    BY <1>17, <1>8, <1>10, <1>11
  <1> QED
    BY <1>1, <1>15, <1>16, <1>17 DEF Next, vars, caseVars, refundVars, gatewayVars

(* So a call that was good stays good. *)
LEMMA CallsStayGood ==
  ASSUME ReturnInv, [Next]_vars, NEW x \in Request, GoodCall(x)
  PROVE  GoodCall(x)'
  <1>1. \A c \in Cases, g \in GatewayRefunds \cup {None} :
          (Sent(c, g) => Sent(c, g)') /\ (Received(c, g) => Received(c, g)')
    BY Grow DEF Sent, Received
  <1>2. x.op \in {"step", "inspect", "initiate", "refund", "book", "event", "close"} => x.case \in Cases
    BY DEF Request, Idle
  <1>3. x.op \in {"book", "event", "close"} => x.ref \in GatewayRefunds \cup {None}
    BY DEF Request, Idle
  <1> QED
    BY <1>1, <1>2, <1>3, Grow DEF GoodCall

(* A step that only fills or empties slots with good calls. *)
LEMMA SlotStep ==
  ASSUME ReturnInv, [Next]_vars, NEW r \in Requests, NEW x \in Request, GoodCall(x)',
         \A q \in Requests : req'[q] = IF q = r THEN x ELSE req[q]
  PROVE  GoodCalls'
  <1>1. \A q \in Requests : req[q] \in Request /\ GoodCall(req[q])
    BY DEF ReturnInv, TypeOK, GoodCalls
  <1>2. \A q \in Requests : GoodCall(req[q])'
    <2> SUFFICES ASSUME NEW q \in Requests PROVE GoodCall(req[q])'
      OBVIOUS
    <2>1. CASE q = r
      BY <2>1 DEF GoodCall
    <2>2. CASE q # r
      <3>1. req'[q] = req[q] /\ req[q] \in Request /\ GoodCall(req[q])
        BY <1>1, <2>2
      <3>2. PICK y \in Request : y = req[q] /\ y = req'[q] /\ GoodCall(y)
        BY <3>1
      <3>3. GoodCall(y)'
        BY <3>2, CallsStayGood
      <3> QED
        BY <3>2, <3>3
    <2> QED
      BY <2>1, <2>2
  <1> QED
    BY <1>2 DEF GoodCalls

(* A step of a call leaves every slot with a good call. *)
LEMMA CallKeepsCalls ==
  ASSUME ReturnInv, [Next]_vars, NEW r \in Requests, Call(r)
  PROVE  GoodCalls'
  <1>0. /\ TypeOK /\ GoodRows /\ GoodGateway
        /\ req[r] \in Request /\ Idle \in Request /\ GoodCall(req[r])
    BY DEF ReturnInv, TypeOK, Request, GoodCalls
  <1>1. GoodCall(Idle)'
    BY DEF GoodCall, Idle
  <1>2. ASSUME End(r) PROVE GoodCalls'
    BY <1>0, <1>1, <1>2, SlotType, SlotStep DEF End
  <1>3. ASSUME NEW x \in Request, GoodCall(x), Begin(r, x) \/ Proceed(r, x)
        PROVE  GoodCalls'
    BY <1>0, <1>3, CallsStayGood, SlotType, BeginType, SlotStep
  <1>4. CASE ReadRequest(r)
    <2>1. PICK p : Begin(r, [op |-> "request", pick |-> p])
      BY <1>4 DEF ReadRequest
    <2>2. PICK x \in Request : Begin(r, x)
      BY <1>0, <1>4, ReadType
    <2>3. x.op = "request"
      BY <1>0, <2>1, <2>2 DEF Begin, TypeOK
    <2>4. GoodCall(x)
      BY <2>3 DEF GoodCall
    <2> QED
      BY <1>3, <2>2, <2>4
  <1>5. ASSUME NEW c \in Cases, ReadStep(r, c) PROVE GoodCalls'
    <2>1. PICK to \in ReturnStatus :
            <<ret[c], to>> \in Steps /\ Begin(r, [op |-> "step", case |-> c, to |-> to])
      BY <1>5 DEF ReadStep
    <2>2. [op |-> "step", case |-> c, to |-> to] \in Request
      BY DEF Request
    <2>3. GoodCall([op |-> "step", case |-> c, to |-> to])
      BY <2>1 DEF GoodCall, Steps
    <2> QED
      BY <1>3, <2>1, <2>2, <2>3
  <1>6. ASSUME NEW c \in Cases, ReadInspect(r, c) PROVE GoodCalls'
    <2>1. [op |-> "inspect", case |-> c] \in Request
      BY DEF Request
    <2>2. GoodCall([op |-> "inspect", case |-> c])
      BY <1>6 DEF ReadInspect, MayInspect, GoodCall
    <2> QED
      BY <1>3, <1>6, <2>1, <2>2 DEF ReadInspect
  <1>7. ASSUME NEW c \in Cases, ReadInitiate(r, c) PROVE GoodCalls'
    <2>1. [op |-> "initiate", case |-> c, amount |-> Refundable(c)] \in Request
      BY <1>7 DEF Request, ReadInitiate, MayInitiate
    <2>2. GoodCall([op |-> "initiate", case |-> c, amount |-> Refundable(c)])
      BY <1>0, <1>7 DEF ReadInitiate, MayInitiate, GoodCall, GoodRows, GoodRow
    <2> QED
      BY <1>3, <1>7, <2>1, <2>2 DEF ReadInitiate
  <1>8. ASSUME NEW c \in Cases, ReadComplete(r, c) PROVE GoodCalls'
    <2>1. Inspected(c)
      BY <1>0, <1>8 DEF ReadComplete, MayComplete, GoodRows, GoodRow
    <2>2. CASE method = "GATEWAY"
      <3>1. [op |-> "refund", case |-> c] \in Request
        BY DEF Request
      <3>2. GoodCall([op |-> "refund", case |-> c])
        BY <2>1 DEF GoodCall
      <3> QED
        BY <1>3, <1>8, <2>2, <3>1, <3>2 DEF ReadComplete
    <2>3. CASE method # "GATEWAY"
      <3>1. method = "COD"
        BY <1>0, <2>3 DEF TypeOK
      <3>2. [op |-> "book", case |-> c, ref |-> None, terminal |-> TRUE] \in Request
        BY DEF Request
      <3>3. GoodCall([op |-> "book", case |-> c, ref |-> None, terminal |-> TRUE])
        BY <2>1, <3>1 DEF GoodCall, Sent, Received
      <3> QED
        BY <1>3, <1>8, <2>3, <3>2, <3>3 DEF ReadComplete
    <2> QED
      BY <2>2, <2>3
  <1>9. ASSUME NEW c \in Cases, NEW g \in GatewayRefunds, ReadEvent(r, g, c) PROVE GoodCalls'
    <2> DEFINE x == [op |-> "event", case |-> c, ref |-> g, terminal |-> gateway[g].state = "PROCESSED"]
    <2>1. x \in Request
      BY DEF Request
    <2>2. Inspected(c) /\ Sent(c, g) /\ g # None
      BY <1>0, <1>9, ReturnAssumption
         DEF ReadEvent, Actionable, InFlight, GoodRows, GoodRow
    <2>3. GoodCall(x)
      BY <2>2 DEF GoodCall, Sent, Received
    <2> QED
      BY <1>3, <1>9, <2>1, <2>3 DEF ReadEvent
  <1>10. ASSUME NEW g \in GatewayRefunds, CallGateway(r, g) PROVE GoodCalls'
    <2>0. req[r].case \in Cases /\ Inspected(req[r].case)
      BY <1>0, <1>10 DEF CallGateway, Request, Idle, GoodCall
    <2>1. PICK c \in Cases : c = req[r].case /\ Inspected(c) /\ Inspected(c)'
      BY <2>0, Grow
    <2>2. PICK state \in {"PROCESSING", "PROCESSED"} :
            /\ gateway' = [gateway EXCEPT ![g] = [case |-> c, state |-> state]]
            /\ Proceed(r, [op |-> "book", case |-> c, ref |-> g, terminal |-> state = "PROCESSED"])
      BY <1>10, <2>1 DEF CallGateway
    <2>3. PICK x : x = [op |-> "book", case |-> c, ref |-> g, terminal |-> state = "PROCESSED"]
      OBVIOUS
    <2>4. x \in Request
      BY <2>3 DEF Request
    <2>5. gateway'[g] = [case |-> c, state |-> state] /\ g # None
      BY <1>0, <2>2, ReturnAssumption DEF TypeOK
    <2>6. GoodCall(x)'
      <3>1. x.op = "book" /\ x.case = c /\ x.ref = g /\ (x.terminal <=> state = "PROCESSED")
        BY <2>3
      <3>2. Sent(c, g)' /\ (x.terminal => Received(c, g)')
        BY <2>2, <2>5, <3>1 DEF Sent, Received
      <3> QED
        BY <2>1, <3>1, <3>2 DEF GoodCall
    <2>7. \A q \in Requests : req'[q] = IF q = r THEN x ELSE req[q]
      <3>1. Proceed(r, x)
        BY <2>2, <2>3
      <3> QED
        BY <1>0, <2>4, <3>1, SlotType
    <2> QED
      BY <2>4, <2>6, <2>7, SlotStep
  <1>11. CASE CountCompleted(r)
    <2>1. PICK full \in BOOLEAN :
            Proceed(r, [op |-> "close", case |-> req[r].case, ref |-> req[r].ref,
                        event |-> req[r].op = "event", full |-> full])
      BY <1>11 DEF CountCompleted
    <2> DEFINE x == [op |-> "close", case |-> req[r].case, ref |-> req[r].ref,
                     event |-> req[r].op = "event", full |-> full]
    <2>2. req[r].case \in Cases /\ req[r].ref \in GatewayRefunds \cup {None}
      BY <1>0, <1>11 DEF CountCompleted, Request, Idle
    <2>3. x \in Request
      BY <2>2 DEF Request
    <2>4. GoodCall(x)
      BY <1>0, <1>11 DEF CountCompleted, Successful, GoodCall
    <2> QED
      BY <1>3, <2>1, <2>3, <2>4
  <1>12. ASSUME \/ \E c \in Cases : CommitRequest(r, c)
                \/ CommitStep(r) \/ (\E found \in Found : CommitInspect(r, found)) \/ CommitInitiate(r)
                \/ BookProcessing(r) \/ BookFailure(r) \/ CommitClose(r) \/ Drop(r)
         PROVE  GoodCalls'
    BY <1>2, <1>12 DEF CommitRequest, CommitStep, CommitInspect, CommitInitiate, BookProcessing,
       BookFailure, CommitClose, Drop
  <1> QED
    BY <1>4, <1>5, <1>6, <1>7, <1>8, <1>9, <1>10, <1>11, <1>12 DEF Call

(* What a call writes into the rows, and the gateway into its records, is    *)
(* what the call knows.                                                      *)
LEMMA RowsStep ==
  ASSUME ReturnInv, [Next]_vars
  PROVE  GoodRows'
  <1> SUFFICES ASSUME NEW c \in Cases PROVE GoodRow(c)'
    BY DEF GoodRows
  <1>0. TypeOK /\ TypeOK' /\ GoodRow(c)
    BY TypeStep DEF ReturnInv, GoodRows
  <1>1. \A g \in GatewayRefunds \cup {None} :
          (Sent(c, g) => Sent(c, g)') /\ (Received(c, g) => Received(c, g)')
    BY Grow DEF Sent, Received
  <1>2. (Inspected(c) => Inspected(c)') /\ (ret[c] # "NONE" => ret'[c] # "NONE")
        /\ completions'[c] >= completions[c]
    BY Grow
  <1>3. InHand(c) => InHand(c)'
    <2>1. \A g \in GatewayRefunds :
            gateway[g].case = c /\ gateway[g].state = "PROCESSED"
              => gateway'[g].case = c /\ gateway'[g].state = "PROCESSED"
      BY Grow
    <2>2. method' = method /\ completions[c] \in Nat /\ completions'[c] \in Nat
          /\ completions'[c] >= completions[c]
      BY <1>0, Grow DEF TypeOK
    <2> QED
      BY <2>1, <2>2 DEF InHand, Taken
  <1>7. ASSUME gatewayRef'[c] = gatewayRef[c]
        PROVE  (gatewayRef[c] # None => Sent(c, gatewayRef[c]))'
    <2>1. PICK g \in GatewayRefunds \cup {None} : g = gatewayRef[c] /\ g = gatewayRef'[c]
      BY <1>0, <1>7 DEF TypeOK
    <2> QED
      BY <1>0, <1>1, <2>1 DEF GoodRow, Sent
  <1>4. ASSUME UNCHANGED <<ret, refund, gatewayRef, completions>> PROVE GoodRow(c)'
    <2>1. ret'[c] = ret[c] /\ refund'[c] = refund[c] /\ completions'[c] = completions[c]
          /\ (gatewayRef[c] # None => Sent(c, gatewayRef[c]))'
      BY <1>4, <1>7
    <2> QED
      BY <1>0, <1>2, <1>3, <2>1 DEF GoodRow
  <1>5. ASSUME NEW r \in Requests, Call(r),
               ~UNCHANGED <<ret, refund, gatewayRef, completions>>
        PROVE  GoodRow(c)'
    <2>0. req[r] \in Request /\ GoodCall(req[r])
      BY DEF ReturnInv, TypeOK, GoodCalls
    <2>1. \/ \E d \in Cases : CommitRequest(r, d)
          \/ CommitStep(r) \/ (\E found \in Found : CommitInspect(r, found)) \/ CommitInitiate(r)
          \/ BookProcessing(r) \/ BookFailure(r) \/ CommitClose(r)
      BY <1>5 DEF Call, ReadRequest, ReadStep, ReadInspect, ReadInitiate, ReadComplete, ReadEvent, Begin,
                  Drop, CallGateway, CountCompleted, caseVars, refundVars, gatewayVars
    <2>2. ASSUME NEW d \in Cases, CommitRequest(r, d) PROVE GoodRow(c)'
      BY <1>0, <1>2, <1>3, <1>7, <2>2 DEF CommitRequest, GoodRow, TypeOK, refundVars, gatewayVars
    <2>3. CASE CommitStep(r)
      <3>1. ret'[c] # "COMPLETED" \/ ret'[c] = ret[c]
        BY <1>0, <2>0, <2>3 DEF CommitStep, GoodCall, TypeOK
      <3>2. ret'[c] # "APPROVED_FOR_REFUND" \/ ret'[c] = ret[c]
        BY <1>0, <2>0, <2>3 DEF CommitStep, GoodCall, TypeOK
      <3> QED
        BY <1>0, <1>2, <1>3, <1>7, <2>3, <3>1, <3>2 DEF CommitStep, GoodRow, TypeOK, refundVars, gatewayVars
    <2>4. ASSUME NEW found \in Found, CommitInspect(r, found) PROVE GoodRow(c)'
      <3>1. req[r].case \in Cases
        BY <2>0, <2>4 DEF CommitInspect, Request, Idle
      <3>2. ret'[c] = ret[c] \/ ret'[c] \in {"INSPECTION", "APPROVED_FOR_REFUND", "REPLACEMENT_ISSUED"}
        BY <1>0, <2>4, <3>1 DEF CommitInspect, TypeOK
      <3>3. ret'[c] = "APPROVED_FOR_REFUND" /\ ret'[c] # ret[c] => Inspected(c)'
        BY <1>0, <2>0, <2>4, <3>1 DEF CommitInspect, AllInspected, Inspected, Complete, Picked, TypeOK
      <3> QED
        BY <1>0, <1>2, <1>3, <1>7, <2>4, <3>2, <3>3 DEF CommitInspect, GoodRow, TypeOK, refundVars, gatewayVars
    <2>5. CASE CommitInitiate(r)
      <3>1. req[r].case \in Cases /\ Inspected(req[r].case)
        BY <2>0, <2>5 DEF CommitInitiate, Request, Idle, GoodCall
      <3>2. refund'[c] # refund[c] => Inspected(c)
        BY <1>0, <2>5, <3>1 DEF CommitInitiate, TypeOK
      <3> QED
        BY <1>0, <1>2, <1>3, <1>7, <2>5, <3>2 DEF CommitInitiate, GoodRow, TypeOK, caseVars, gatewayVars
    <2>6. CASE BookProcessing(r)
      <3>1. /\ req[r].case \in Cases /\ Inspected(req[r].case)
            /\ req[r].ref \in GatewayRefunds \cup {None} /\ Sent(req[r].case, req[r].ref)
        BY <2>0, <2>6 DEF BookProcessing, Request, Idle, GoodCall
      <3>2. refund'[c] # refund[c] => Inspected(c)
        BY <1>0, <2>6, <3>1 DEF BookProcessing, TypeOK
      <3>3. (gatewayRef[c] # None => Sent(c, gatewayRef[c]))'
        <4>1. CASE c = req[r].case
          <5>1. PICK g \in GatewayRefunds \cup {None} : g = req[r].ref /\ Sent(c, g) /\ Sent(c, g)'
            BY <1>1, <3>1, <4>1
          <5>2. gatewayRef'[c] = g
            BY <1>0, <2>6, <4>1, <5>1 DEF BookProcessing, TypeOK
          <5> QED
            BY <5>1, <5>2 DEF Sent
        <4>2. CASE c # req[r].case
          BY <1>0, <1>7, <2>6, <4>2 DEF BookProcessing, TypeOK
        <4> QED
          BY <4>1, <4>2
      <3> QED
        BY <1>0, <1>2, <1>3, <2>6, <3>2, <3>3 DEF BookProcessing, GoodRow, TypeOK, caseVars, gatewayVars
    <2>7. CASE BookFailure(r)
      <3>1. req[r].case \in Cases /\ Inspected(req[r].case)
        BY <2>0, <2>7 DEF BookFailure, Request, Idle, GoodCall
      <3>2. refund'[c] # refund[c] => Inspected(c)
        BY <1>0, <2>7, <3>1 DEF BookFailure, TypeOK
      <3> QED
        BY <1>0, <1>2, <1>3, <1>7, <2>7, <3>2 DEF BookFailure, GoodRow, TypeOK, caseVars
    <2>8. CASE CommitClose(r)
      <3>1. /\ req[r].case \in Cases /\ Inspected(req[r].case)
            /\ req[r].ref \in GatewayRefunds \cup {None} /\ Received(req[r].case, req[r].ref)
        BY <2>0, <2>8 DEF CommitClose, Request, Idle, GoodCall
      <3>2. method' = method /\ gateway' = gateway
        BY <2>8 DEF CommitClose
      <3>3. CASE c # req[r].case
        BY <1>0, <1>2, <1>3, <1>7, <2>8, <3>3 DEF CommitClose, GoodRow, TypeOK
      <3>4. CASE c = req[r].case
        <4>1. Inspected(c)'
          BY <1>2, <3>1, <3>4
        <4>2. completions'[c] > 0
          BY <1>0, <2>8, <3>1, <3>4 DEF CommitClose, TypeOK
        <4>3. InHand(c)'
          BY <3>1, <3>2, <3>4, <4>2 DEF Received, InHand, Taken
        <4>4. (gatewayRef[c] # None => Sent(c, gatewayRef[c]))'
          <5>1. gatewayRef'[c] = gatewayRef[c] \/ gatewayRef'[c] = req[r].ref
            BY <1>0, <2>8, <3>1, <3>4 DEF CommitClose, TypeOK
          <5>2. gatewayRef[c] # None => Sent(c, gatewayRef[c])
            BY <1>0 DEF GoodRow
          <5> QED
            BY <3>1, <3>2, <3>4, <5>1, <5>2 DEF Sent, Received
        <4> QED
          BY <4>1, <4>2, <4>3, <4>4 DEF GoodRow
      <3> QED
        BY <3>3, <3>4
    <2> QED
      BY <2>1, <2>2, <2>3, <2>4, <2>5, <2>6, <2>7, <2>8
  <1>6. ASSUME NEW g \in GatewayRefunds, Settle(g) \/ Dismiss(g)
        PROVE  UNCHANGED <<ret, refund, gatewayRef, completions>>
    BY <1>6 DEF Settle, Dismiss, caseVars, refundVars
  <1> QED
    BY <1>4, <1>5, <1>6 DEF Next, vars, caseVars, refundVars, gatewayVars

LEMMA GatewayStep ==
  ASSUME ReturnInv, [Next]_vars
  PROVE  GoodGateway'
  <1>0. TypeOK /\ GoodGateway
    BY DEF ReturnInv
  <1>1. \A c \in Cases : Inspected(c) => Inspected(c)'
    BY Grow
  <1>2. CASE UNCHANGED gateway
    BY <1>0, <1>1, <1>2 DEF GoodGateway
  <1>3. ASSUME NEW r \in Requests, NEW g \in GatewayRefunds, CallGateway(r, g)
        PROVE  GoodGateway'
    <2>1. GoodCall(req[r]) /\ req[r] \in Request
      BY DEF ReturnInv, TypeOK, GoodCalls
    <2>2. req[r].case \in Cases /\ Inspected(req[r].case)
      BY <1>3, <2>1 DEF CallGateway, Request, Idle, GoodCall
    <2>3. PICK state \in {"PROCESSING", "PROCESSED"} :
            gateway' = [gateway EXCEPT ![g] = [case |-> req[r].case, state |-> state]]
      BY <1>3 DEF CallGateway
    <2>4. \A h \in GatewayRefunds :
            IF h = g THEN gateway'[h].case = req[r].case /\ gateway'[h].state # "NONE"
            ELSE gateway'[h] = gateway[h]
      BY <1>0, <2>3 DEF TypeOK
    <2> QED
      BY <1>0, <1>1, <2>2, <2>4 DEF GoodGateway
  <1>4. ASSUME NEW g \in GatewayRefunds, Settle(g)
        PROVE  GoodGateway'
    <2>1. \A h \in GatewayRefunds :
            /\ gateway'[h].case = gateway[h].case
            /\ gateway'[h].state = "NONE" => gateway[h].state = "NONE"
      BY <1>0, <1>4 DEF Settle, TypeOK
    <2> QED
      BY <1>0, <1>1, <2>1 DEF GoodGateway
  <1>5. ASSUME NEW r \in Requests, Call(r), ~UNCHANGED gateway
        PROVE  \E g \in GatewayRefunds : CallGateway(r, g)
    BY <1>5 DEF Call, ReadRequest, ReadStep, ReadInspect, ReadInitiate, ReadComplete, ReadEvent, Begin,
                CommitRequest, CommitStep, CommitInspect, CommitInitiate, BookProcessing, BookFailure,
                CountCompleted, CommitClose, Drop, gatewayVars
  <1>6. ASSUME NEW g \in GatewayRefunds, Dismiss(g) PROVE UNCHANGED gateway
    BY <1>6 DEF Dismiss
  <1> QED
    BY <1>2, <1>3, <1>4, <1>5, <1>6 DEF Next, vars, gatewayVars

LEMMA CallsStep ==
  ASSUME ReturnInv, [Next]_vars
  PROVE  GoodCalls'
  <1>1. ASSUME UNCHANGED req
        PROVE  GoodCalls'
    <2> SUFFICES ASSUME NEW r \in Requests PROVE GoodCall(req[r])'
      BY DEF GoodCalls
    <2>1. PICK x \in Request : x = req[r] /\ x = req'[r] /\ GoodCall(x)
      BY <1>1 DEF ReturnInv, TypeOK, GoodCalls
    <2> QED
      BY <2>1, CallsStayGood DEF GoodCall
  <1>2. ASSUME NEW g \in GatewayRefunds, Settle(g) \/ Dismiss(g)
        PROVE  UNCHANGED req
    BY <1>2 DEF Settle, Dismiss
  <1> QED
    BY <1>1, <1>2, CallKeepsCalls DEF Next, vars

(* ReturnInv holds in every state, for every value of the constants.        *)
THEOREM ReturnInvariant == Spec => []ReturnInv
  <1>1. ReturnInv /\ [Next]_vars => ReturnInv'
    BY TypeStep, CallsStep, RowsStep, GatewayStep DEF ReturnInv
  <1> QED
    BY <1>1, ReturnInit, PTL DEF Spec

-----------------------------------------------------------------------------
(* The properties that TLC checks on two cases of one item *)

(* The rows, the gateway's records and the calls stay well formed.          *)
THEOREM ReturnTypes == Spec => []TypeOK
  <1>1. ReturnInv => TypeOK
    BY DEF ReturnInv
  <1> QED
    BY <1>1, ReturnInvariant, PTL

(* The gateway is never asked for the money of goods that have not all been *)
(* picked up and inspected.                                                 *)
THEOREM GoodsComeFirst == Spec => []GoodsBeforeMoney
  <1>1. ReturnInv => GoodsBeforeMoney
    <2> SUFFICES ASSUME ReturnInv, NEW c \in Cases, Taken(c) # {} \/ completions[c] > 0
                 PROVE  Inspected(c)
      BY DEF GoodsBeforeMoney
    <2>1. CASE Taken(c) # {}
      BY <2>1 DEF Taken, ReturnInv, GoodGateway
    <2>2. CASE completions[c] > 0
      BY <2>2 DEF ReturnInv, GoodRows, GoodRow
    <2> QED
      BY <2>1, <2>2
  <1> QED
    BY <1>1, ReturnInvariant, PTL

(* A return that counts as completed, and whose sellers were debited, is    *)
(* one whose buyer has the money.                                           *)
THEOREM BooksComeLast == Spec => []MoneyBeforeBooks
  <1>1. ReturnInv => MoneyBeforeBooks
    BY DEF ReturnInv, GoodRows, GoodRow, MoneyBeforeBooks
  <1> QED
    BY <1>1, ReturnInvariant, PTL

-----------------------------------------------------------------------------
(* The handlers implement RefundContract *)

LEMMA ContractInit == Init => Contract!Init
  BY ReturnAssumption DEF Init, Contract!Init, Inspected, InHand, Taken

(* A step that moves neither goods nor money is a stutter of the contract.  *)
LEMMA ContractStutter ==
  ASSUME UNCHANGED <<method, order, ret, pick, result, completions, gateway>>
  PROVE  UNCHANGED Contract!vars
  BY DEF Contract!vars, Inspected, Complete, Picked, InHand, Taken

(* A request that is filed, decided or inspected. *)
LEMMA ContractGoods ==
  ASSUME ReturnInv, [Next]_vars, NEW c \in Cases,
         UNCHANGED <<method, order, completions, gateway>>,
         \A d \in Cases \ {c} : ret'[d] = ret[d] /\ pick'[d] = pick[d] /\ result'[d] = result[d]
  PROVE  Contract!Inspect(c) \/ UNCHANGED Contract!vars
  <1>1. \A d \in Cases : InHand(d)' <=> InHand(d)
    BY DEF InHand, Taken
  <1>2. \A d \in Cases \ {c} : Inspected(d)' <=> Inspected(d)
    BY DEF Inspected, Complete, Picked
  <1>3. Inspected(c) => Inspected(c)'
    BY Grow
  <1>4. UNCHANGED <<{d \in Cases : InHand(d)}, {d \in Cases : completions[d] > 0}, order = "REFUNDED">>
    BY <1>1
  <1>5. CASE Inspected(c)' <=> Inspected(c)
    <2>1. UNCHANGED {d \in Cases : Inspected(d)}
      BY <1>2, <1>5
    <2> QED
      BY <1>4, <2>1 DEF Contract!vars
  <1>6. CASE Inspected(c)' /\ ~Inspected(c)
    <2>1. {d \in Cases : Inspected(d)}' = {d \in Cases : Inspected(d)} \cup {c}
      BY <1>2, <1>6
    <2> QED
      BY <1>4, <2>1 DEF Contract!Inspect
  <1> QED
    BY <1>3, <1>5, <1>6

(* The gateway moves the money of a case it has taken. *)
LEMMA ContractMoney ==
  ASSUME ReturnInv, [Next]_vars, NEW g \in GatewayRefunds,
         UNCHANGED <<method, order, ret, pick, result, completions>>,
         \A h \in GatewayRefunds \ {g} : gateway'[h] = gateway[h],
         NEW c \in Cases, gateway'[g].case = c, Inspected(c),
         gateway[g].state # "PROCESSED"
  PROVE  Contract!Pay(c) \/ UNCHANGED Contract!vars
  <1>1. \A d \in Cases : Inspected(d)' <=> Inspected(d)
    BY DEF Inspected, Complete, Picked
  <1>2. \A d \in Cases \ {c} : InHand(d)' <=> InHand(d)
    BY DEF InHand, Taken
  <1>3. InHand(c) => InHand(c)'
    BY DEF InHand, Taken
  <1>4. UNCHANGED <<{d \in Cases : Inspected(d)}, {d \in Cases : completions[d] > 0}, order = "REFUNDED">>
    BY <1>1
  <1>5. CASE InHand(c)' <=> InHand(c)
    <2>1. UNCHANGED {d \in Cases : InHand(d)}
      BY <1>2, <1>5
    <2> QED
      BY <1>4, <2>1 DEF Contract!vars
  <1>6. CASE InHand(c)' /\ ~InHand(c)
    <2>1. {d \in Cases : InHand(d)}' = {d \in Cases : InHand(d)} \cup {c}
      BY <1>2, <1>6
    <2> QED
      BY <1>4, <2>1 DEF Contract!Pay
  <1> QED
    BY <1>3, <1>5, <1>6

(* A refund that is booked as completed. *)
LEMMA ContractBooks ==
  ASSUME ReturnInv, [Next]_vars, NEW r \in Requests, CommitClose(r)
  PROVE  \E c \in Cases : Contract!Close(c)
  <1>0. TypeOK /\ TypeOK' /\ GoodRows /\ GoodRows' /\ req[r] \in Request /\ GoodCall(req[r])
    BY TypeStep, RowsStep DEF ReturnInv, TypeOK, GoodCalls
  <1>1. PICK c \in Cases : c = req[r].case /\ Inspected(c)
    BY <1>0 DEF CommitClose, Request, Idle, GoodCall
  <1>2. /\ completions' = [completions EXCEPT ![c] = @ + 1] /\ ret' = [ret EXCEPT ![c] = "COMPLETED"]
        /\ UNCHANGED <<method, pick, result, gateway>>
        /\ order' \in {order, "REFUNDED"}
    BY <1>1 DEF CommitClose
  <1>3. completions'[c] > 0 /\ \A d \in Cases \ {c} : completions'[d] = completions[d] /\ ret'[d] = ret[d]
    BY <1>0, <1>2 DEF TypeOK
  <1>4. \A d \in Cases : Inspected(d)' <=> Inspected(d)
    <2>1. ret[c] # "NONE" /\ ret'[c] # "NONE"
      BY <1>0, <1>1, <1>2 DEF Inspected, TypeOK
    <2> QED
      BY <1>2, <1>3, <2>1 DEF Inspected, Complete, Picked
  <1>5. \A d \in Cases \ {c} : InHand(d)' <=> InHand(d)
    BY <1>2, <1>3 DEF InHand, Taken
  <1>6. InHand(c)'
    BY <1>0, <1>3 DEF GoodRows, GoodRow
  <1>7. UNCHANGED {d \in Cases : Inspected(d)} /\ c \in {d \in Cases : Inspected(d)}
    BY <1>1, <1>4
  <1>8. {d \in Cases : InHand(d)}' = {d \in Cases : InHand(d)} \cup {c}
    BY <1>5, <1>6
  <1>9. {d \in Cases : completions[d] > 0}' = {d \in Cases : completions[d] > 0} \cup {c}
    BY <1>3
  <1>10. (order = "REFUNDED")' \in {order = "REFUNDED", TRUE}
    BY <1>2
  <1>11. Contract!Close(c)
    BY <1>7, <1>8, <1>9, <1>10 DEF Contract!Close
  <1> QED
    BY <1>11

(* Every step of the handlers is a step of the contract, or a stutter.      *)
LEMMA ContractStep ==
  ASSUME ReturnInv, [Next]_vars
  PROVE  [Contract!Next]_(Contract!vars)
  <1>0. TypeOK /\ GoodGateway
    BY DEF ReturnInv
  <1>1. CASE UNCHANGED vars
    BY <1>1, ContractStutter DEF vars, caseVars, refundVars, gatewayVars
  <1>2. ASSUME NEW r \in Requests, Call(r)
        PROVE  [Contract!Next]_(Contract!vars)
    <2>0. req[r] \in Request /\ GoodCall(req[r])
      BY DEF ReturnInv, TypeOK, GoodCalls
    <2>1. ASSUME NEW c \in Cases, CommitRequest(r, c) PROVE [Contract!Next]_(Contract!vars)
      <3>1. /\ UNCHANGED <<method, order, completions, gateway>>
            /\ \A d \in Cases \ {c} : ret'[d] = ret[d] /\ pick'[d] = pick[d] /\ result'[d] = result[d]
        BY <1>0, <2>1 DEF CommitRequest, TypeOK, refundVars, gatewayVars
      <3> QED
        BY <3>1, ContractGoods DEF Contract!Next
    <2>2. CASE CommitStep(r)
      <3>1. req[r].case \in Cases
        BY <2>0, <2>2 DEF CommitStep, Request, Idle
      <3>2. /\ UNCHANGED <<method, order, completions, gateway>>
            /\ \A d \in Cases \ {req[r].case} :
                 ret'[d] = ret[d] /\ pick'[d] = pick[d] /\ result'[d] = result[d]
        BY <1>0, <2>2, <3>1 DEF CommitStep, TypeOK, refundVars, gatewayVars
      <3>3. PICK c \in Cases : c = req[r].case
        BY <3>1
      <3> QED
        BY <3>2, <3>3, ContractGoods DEF Contract!Next
    <2>3. ASSUME NEW found \in Found, CommitInspect(r, found) PROVE [Contract!Next]_(Contract!vars)
      <3>1. req[r].case \in Cases
        BY <2>0, <2>3 DEF CommitInspect, Request, Idle
      <3>2. /\ UNCHANGED <<method, order, completions, gateway>>
            /\ \A d \in Cases \ {req[r].case} :
                 ret'[d] = ret[d] /\ pick'[d] = pick[d] /\ result'[d] = result[d]
        BY <1>0, <2>3, <3>1 DEF CommitInspect, TypeOK, refundVars, gatewayVars
      <3>3. PICK c \in Cases : c = req[r].case
        BY <3>1
      <3> QED
        BY <3>2, <3>3, ContractGoods DEF Contract!Next
    <2>4. ASSUME NEW g \in GatewayRefunds, CallGateway(r, g) PROVE [Contract!Next]_(Contract!vars)
      <3>1. PICK c \in Cases : c = req[r].case /\ Inspected(c)
        BY <2>0, <2>4 DEF CallGateway, Request, Idle, GoodCall
      <3>2. PICK state : gateway' = [gateway EXCEPT ![g] = [case |-> c, state |-> state]]
        BY <2>4, <3>1 DEF CallGateway
      <3>3. /\ gateway'[g].case = c
            /\ \A h \in GatewayRefunds \ {g} : gateway'[h] = gateway[h]
            /\ gateway[g].state # "PROCESSED"
            /\ UNCHANGED <<method, order, ret, pick, result, completions>>
        BY <1>0, <2>4, <3>2 DEF CallGateway, TypeOK, caseVars, refundVars
      <3> QED
        BY <3>1, <3>3, ContractMoney DEF Contract!Next
    <2>5. CASE CommitClose(r)
      BY <2>5, ContractBooks DEF Contract!Next
    <2>6. ASSUME ~\E c \in Cases : CommitRequest(r, c), ~CommitStep(r),
                 ~\E found \in Found : CommitInspect(r, found),
                 ~\E g \in GatewayRefunds : CallGateway(r, g), ~CommitClose(r)
          PROVE  UNCHANGED <<method, order, ret, pick, result, completions, gateway>>
      BY <1>2, <2>6 DEF Call, ReadRequest, ReadStep, ReadInspect, ReadInitiate, ReadComplete, ReadEvent,
         Begin, Drop, CommitInitiate, BookProcessing, BookFailure, CountCompleted,
         caseVars, refundVars, gatewayVars
    <2> QED
      BY <2>1, <2>2, <2>3, <2>4, <2>5, <2>6, ContractStutter
  <1>3. ASSUME NEW g \in GatewayRefunds, Settle(g) PROVE [Contract!Next]_(Contract!vars)
    <2>1. /\ UNCHANGED <<method, order, ret, pick, result, completions>>
          /\ \A h \in GatewayRefunds \ {g} : gateway'[h] = gateway[h]
          /\ gateway'[g].case = gateway[g].case
          /\ gateway[g].state # "PROCESSED"
      BY <1>0, <1>3 DEF Settle, TypeOK, caseVars, refundVars
    <2>2. CASE gateway[g].case \in Cases
      <3>1. PICK c \in Cases : c = gateway[g].case /\ Inspected(c)
        BY <1>0, <2>2 DEF GoodGateway
      <3> QED
        BY <2>1, <3>1, ContractMoney DEF Contract!Next
    <2>3. CASE gateway[g].case \notin Cases
      <3>1. \A d \in Cases : InHand(d)' <=> InHand(d)
        BY <2>1, <2>3 DEF InHand, Taken
      <3>2. \A d \in Cases : Inspected(d)' <=> Inspected(d)
        BY <2>1 DEF Inspected, Complete, Picked
      <3>3. UNCHANGED <<{d \in Cases : Inspected(d)}, {d \in Cases : InHand(d)},
                        {d \in Cases : completions[d] > 0}, order = "REFUNDED">>
        BY <2>1, <3>1, <3>2
      <3> QED
        BY <3>3 DEF Contract!vars
    <2> QED
      BY <2>2, <2>3
  <1>4. ASSUME NEW g \in GatewayRefunds, Dismiss(g) PROVE [Contract!Next]_(Contract!vars)
    BY <1>4, ContractStutter DEF Dismiss, caseVars, refundVars
  <1> QED
    BY <1>1, <1>2, <1>3, <1>4 DEF Next

(* Goods, then money, then books: the handlers, their outdated reads and the *)
(* gateway's late events implement RefundContract.                           *)
THEOREM ReturnsImplementContract == Spec => ContractSpec
  <1>1. Init => Contract!Init
    BY ContractInit
  <1>2. ReturnInv /\ [Next]_vars => [Contract!Next]_(Contract!vars)
    BY ContractStep
  <1> QED
    BY <1>1, <1>2, ReturnInvariant, PTL DEF Spec, ContractSpec, Contract!Spec

-----------------------------------------------------------------------------
(* Sums of quantities and amounts *)

(* The models' sums, over the amounts of rows and over one item's column of  *)
(* the quantities that the requests return.                                  *)
Total(S) == SumFunctionOnSet(amount, S)
Column(i) == [c \in Cases |-> pick[c][i]]
In(states) == {c \in Cases : refund[c] \in states}
Lives == {c \in Cases : Live(c)}

(* What the model adds up, in terms of FiniteSums. *)
LEMMA SumOfAmounts ==
  ASSUME NEW S
  PROVE  MapThenSumSet(LAMBDA c : amount[c], S) = Total(S)
  BY Zenon DEF Total, MapThenSumSet, MapThenFoldSet, SumFunctionOnSet, FoldFunctionOnSet

LEMMA AmountInIs ==
  ASSUME NEW states
  PROVE  AmountIn(states) = (IF "COMPLETED" \in states THEN sliceRefunds ELSE 0) + Total(In(states))
  BY Zenon DEF AmountIn, In, Total, MapThenSumSet, MapThenFoldSet, SumFunctionOnSet, FoldFunctionOnSet

Others(c) == {d \in Cases \ {c} : refund[d] = "COMPLETED"}

LEMMA CompletedWithIs ==
  ASSUME NEW c
  PROVE  CompletedWith(c) = sliceRefunds + amount[c] + Total(Others(c))
  BY Zenon DEF CompletedWith, Others, Total, MapThenSumSet, MapThenFoldSet, SumFunctionOnSet, FoldFunctionOnSet

(* An operator applied to the elements of the set is added up like a function. *)
LEMMA ColumnSum ==
  ASSUME NEW p, NEW i, NEW S \in SUBSET Cases
  PROVE  MapThenSumSet(LAMBDA c : p[c][i], S) = SumFunctionOnSet([c \in Cases |-> p[c][i]], S)
  <1> DEFINE unit(c) == p[c][i]
             col == [c \in Cases |-> p[c][i]]
             AddsUnit(it) ==
               it = [s \in SUBSET S |-> IF s = {} THEN 0 ELSE unit(Chosen(s)) + it[s \ {Chosen(s)}]]
  <1>1. MapThenSumSet(unit, S) = (CHOOSE it : AddsUnit(it))[S]
    BY Zenon DEF MapThenSumSet, MapThenFoldSet, Chosen
  <1>2. SumFunctionOnSet(col, S) = (CHOOSE it : Adds(it, col, S))[S]
    BY Zenon DEF SumFunctionOnSet, FoldFunctionOnSet, MapThenFoldSet, Adds, Chosen
  <1>3. ASSUME NEW it PROVE AddsUnit(it) <=> Adds(it, col, S)
    BY ChosenFrom DEF Adds
  <1> HIDE DEF AddsUnit
  <1> QED
    BY <1>1, <1>2, <1>3

LEMMA UsedIs ==
  ASSUME NEW i
  PROVE  Used(i) = SumFunctionOnSet(Column(i), Lives)
  <1>1. Used(i) = MapThenSumSet(LAMBDA c : pick[c][i], Lives)
    BY Zenon DEF Used, Lives
  <1>2. MapThenSumSet(LAMBDA c : pick[c][i], Lives) = SumFunctionOnSet([c \in Cases |-> pick[c][i]], Lives)
    BY ColumnSum DEF Lives
  <1> QED
    BY <1>1, <1>2 DEF Column

(* An order has something bought, so its total is not zero. *)
LEMMA GrandTotalIs ==
  /\ GrandTotal \in Nat
  /\ (\E i \in Items : Bought[i] > 0) => GrandTotal > 0
  <1> DEFINE worth == [i \in Items |-> 2 * Bought[i]]
             unit(i) == 2 * Bought[i]
             AddsUnit(it) ==
               it = [s \in SUBSET Items |-> IF s = {} THEN 0 ELSE unit(Chosen(s)) + it[s \ {Chosen(s)}]]
  <1>1. GrandTotal = SumFunctionOnSet(worth, Items)
    <2>1. GrandTotal = (CHOOSE it : AddsUnit(it))[Items]
      BY Zenon DEF GrandTotal, MapThenSumSet, MapThenFoldSet, Chosen
    <2>2. SumFunctionOnSet(worth, Items) = (CHOOSE it : Adds(it, worth, Items))[Items]
      BY Zenon DEF SumFunctionOnSet, FoldFunctionOnSet, MapThenFoldSet, Adds, Chosen
    <2>3. ASSUME NEW it PROVE AddsUnit(it) <=> Adds(it, worth, Items)
      BY ChosenFrom DEF Adds
    <2> HIDE DEF AddsUnit
    <2> QED
      BY <2>1, <2>2, <2>3
  <1>2. \A i \in Items : worth[i] = 2 * Bought[i] /\ worth[i] \in Nat /\ Bought[i] \in Nat
    BY ReturnAssumption
  <1> HIDE DEF worth
  <1>3. GrandTotal \in Nat
    BY <1>1, <1>2, SumNat, ReturnAssumption
  <1>4. ASSUME NEW i \in Items, Bought[i] > 0 PROVE GrandTotal > 0
    <2>1. GrandTotal = SumFunctionOnSet(worth, Items \ {i}) + worth[i]
      BY <1>1, <1>2, SumRemove, ReturnAssumption DEF Numbers
    <2>2. SumFunctionOnSet(worth, Items \ {i}) \in Nat
      BY <1>2, SumNat, ReturnAssumption, FS_Subset
    <2>3. worth[i] > 0 /\ worth[i] \in Nat
      BY <1>2, <1>4
    <2> QED
      BY <2>1, <2>2, <2>3
  <1> QED
    BY <1>3, <1>4

(* How much of an item live requests return, what is owed to the buyer or    *)
(* repaid, and what of it is repaid.                                         *)
Returned(i) == SumFunctionOnSet(Column(i), Lives)
Owed == sliceRefunds + Total(In(ToRefund))
Repaid == sliceRefunds + Total(In({"COMPLETED"}))

LEMMA OwedIs == AmountIn(ToRefund) = Owed /\ AmountIn({"COMPLETED"}) = Repaid
  BY AmountInIs DEF Owed, Repaid, ToRefund

(* The resolved slices of a delivered order are what they were. *)
LEMMA SlicesStay ==
  ASSUME [Next]_vars
  PROVE  sliceRefunds' = sliceRefunds
  <1>1. ASSUME NEW r \in Requests, Call(r) PROVE sliceRefunds' = sliceRefunds
    BY <1>1 DEF Call, ReadRequest, ReadStep, ReadInspect, ReadInitiate, ReadComplete, ReadEvent, Begin,
                Drop, CommitRequest, CommitStep, CommitInspect, CommitInitiate, CallGateway,
                BookProcessing, BookFailure, CountCompleted, CommitClose
  <1>2. ASSUME NEW g \in GatewayRefunds, Settle(g) \/ Dismiss(g) PROVE sliceRefunds' = sliceRefunds
    BY <1>2 DEF Settle, Dismiss
  <1> QED
    BY <1>1, <1>2 DEF Next, vars

(* There are finitely many rows, so the sums are numbers. *)
LEMMA SumTypes ==
  ASSUME TypeOK
  PROVE  /\ \A i \in Items : Returned(i) \in Nat
         /\ \A S \in SUBSET Cases : IsFiniteSet(S) /\ Total(S) \in Nat
         /\ Owed \in Nat /\ Repaid \in Nat
  <1>1. \A S \in SUBSET Cases : IsFiniteSet(S)
    BY ReturnAssumption, FS_Subset
  <1>2. \A S \in SUBSET Cases : Total(S) \in Nat
    BY <1>1, SumNat DEF Total, TypeOK
  <1>3. In(ToRefund) \in SUBSET Cases /\ In({"COMPLETED"}) \in SUBSET Cases /\ Lives \in SUBSET Cases
    BY DEF In, Lives
  <1>4. ASSUME NEW i \in Items PROVE Returned(i) \in Nat
    <2>1. \A c \in Lives : Column(i)[c] \in Nat
      BY DEF Column, Lives, TypeOK
    <2> QED
      BY <1>1, <1>3, <2>1, SumNat DEF Returned
  <1>5. sliceRefunds \in Nat
    BY DEF TypeOK
  <1> QED
    BY <1>1, <1>2, <1>3, <1>4, <1>5 DEF Owed, Repaid

SumsAreNumbers == (\A i \in Items : Returned(i) \in Nat) /\ Owed \in Nat /\ Repaid \in Nat

LEMMA SumsStayNumbers == (TypeOK => SumsAreNumbers) /\ (TypeOK' => SumsAreNumbers')
  <1>1. TypeOK => SumsAreNumbers
    BY SumTypes DEF SumsAreNumbers
  <1> QED
    BY <1>1, PTL

(* The sums over rows that stay as they are. *)
LEMMA SumsStay ==
  /\ UNCHANGED <<ret, pick>> => \A i \in Items : Returned(i)' = Returned(i)
  /\ UNCHANGED <<sliceRefunds, amount, refund>> =>
       Owed' = Owed /\ Repaid' = Repaid /\ In({"COMPLETED"})' = In({"COMPLETED"})
  BY DEF Returned, Column, Lives, Live, Owed, Repaid, Total, In

LEMMA ReturnedFalls ==
  ASSUME TypeOK, UNCHANGED pick, Lives' \subseteq Lives, NEW i \in Items
  PROVE  Returned(i)' <= Returned(i)
  <1>1. IsFiniteSet(Lives) /\ \A c \in Lives : Column(i)[c] \in Nat
    BY ReturnAssumption, FS_Subset DEF Lives, Column, TypeOK
  <1>2. SumFunctionOnSet(Column(i), Lives') <= SumFunctionOnSet(Column(i), Lives)
    BY <1>1, SumSubset
  <1>3. Column(i)' = Column(i)
    BY DEF Column
  <1> QED
    BY <1>2, <1>3 DEF Returned

(* A filed request adds its quantities to what is returned.                 *)
LEMMA ReturnedRises ==
  ASSUME TypeOK, TypeOK', NEW c \in Cases, ret[c] = "NONE", ret' = [ret EXCEPT ![c] = "REQUESTED"],
         NEW p \in [Items -> Nat], pick' = [pick EXCEPT ![c] = p], NEW i \in Items
  PROVE  Returned(i)' = Returned(i) + p[i]
  <1>1. c \notin Lives /\ Lives' = Lives \cup {c}
    BY DEF Lives, Live, TypeOK
  <1>2. IsFiniteSet(Lives) /\ Lives \subseteq Cases
    BY ReturnAssumption, FS_Subset DEF Lives
  <1>3. /\ \A d \in Lives : Column(i)[d] \in Nat /\ Column(i)'[d] = Column(i)[d]
        /\ Column(i)'[c] = p[i] /\ p[i] \in Nat
    BY <1>1, <1>2 DEF Column, TypeOK
  <1>4. SumFunctionOnSet(Column(i)', Lives) = SumFunctionOnSet(Column(i), Lives)
    BY <1>2, <1>3, SumSame DEF Numbers
  <1>5. SumFunctionOnSet(Column(i)', Lives \cup {c}) = SumFunctionOnSet(Column(i)', Lives) + Column(i)'[c]
    BY <1>1, <1>2, <1>3, SumAdd DEF Numbers
  <1> QED
    BY <1>1, <1>3, <1>4, <1>5 DEF Returned

(* Amounts over a set of rows whose amounts stay.                           *)
LEMMA TotalSame ==
  ASSUME TypeOK, NEW S \in SUBSET Cases, \A c \in S : amount'[c] = amount[c]
  PROVE  SumFunctionOnSet(amount', S) = Total(S)
  BY SumTypes, SumSame DEF Total, Numbers, TypeOK

LEMMA TotalGrows ==
  ASSUME TypeOK, TypeOK', NEW S \in SUBSET Cases, NEW T \in SUBSET Cases, S \subseteq T,
         \A c \in S : amount'[c] = amount[c]
  PROVE  Total(S) <= SumFunctionOnSet(amount', T)
  <1>1. IsFiniteSet(T) /\ \A c \in T : amount'[c] \in Nat
    BY SumTypes DEF TypeOK
  <1>2. SumFunctionOnSet(amount', S) <= SumFunctionOnSet(amount', T)
    BY <1>1, SumSubset
  <1> QED
    BY <1>2, TotalSame

LEMMA TotalAdd ==
  ASSUME TypeOK, NEW S \in SUBSET Cases, NEW c \in Cases \ S
  PROVE  Total(S \cup {c}) = Total(S) + amount[c]
  <1>1. IsFiniteSet(S) /\ c \notin S
    BY SumTypes
  <1>2. Numbers(amount, S \cup {c})
    BY DEF Numbers, TypeOK
  <1> QED
    BY <1>1, <1>2, SumAdd DEF Total

(* An initiated refund is owed. *)
LEMMA OwedRises ==
  ASSUME TypeOK, TypeOK', NEW c \in Cases, refund[c] = "NONE", refund' = [refund EXCEPT ![c] = "PENDING"],
         NEW n \in Nat, amount' = [amount EXCEPT ![c] = n], UNCHANGED sliceRefunds
  PROVE  /\ Owed' = Owed + n /\ Repaid' = Repaid
         /\ In({"COMPLETED"})' = In({"COMPLETED"})
  <1>1. /\ In(ToRefund)' = In(ToRefund) \cup {c} /\ c \notin In(ToRefund) /\ In(ToRefund) \in SUBSET Cases
        /\ In({"COMPLETED"})' = In({"COMPLETED"}) /\ In({"COMPLETED"}) \in SUBSET (Cases \ {c})
    BY DEF In, ToRefund, TypeOK
  <1>2. amount'[c] = n /\ \A d \in Cases \ {c} : amount'[d] = amount[d]
    BY DEF TypeOK
  <1>3. Repaid' = Repaid
    BY <1>1, <1>2, TotalSame DEF Repaid, Total
  <1>4. SumFunctionOnSet(amount', In(ToRefund)) = Total(In(ToRefund))
    BY <1>1, <1>2, TotalSame
  <1>5. SumFunctionOnSet(amount', In(ToRefund) \cup {c}) = SumFunctionOnSet(amount', In(ToRefund)) + n
    <2>1. IsFiniteSet(In(ToRefund)) /\ Numbers(amount', In(ToRefund) \cup {c})
      BY <1>1, SumTypes DEF Numbers, TypeOK
    <2>2. c \notin In(ToRefund)
      BY <1>1
    <2>3. PICK S : S = In(ToRefund)
      OBVIOUS
    <2>4. SumFunctionOnSet(amount', S \cup {c}) = SumFunctionOnSet(amount', S) + amount'[c]
      BY <2>1, <2>2, <2>3, SumAdd
    <2> QED
      BY <1>2, <2>3, <2>4
  <1>6. Owed' = Owed + n
    <2>1. SumFunctionOnSet(amount', In(ToRefund)') = Total(In(ToRefund)) + n
      BY <1>1, <1>4, <1>5
    <2>2. Owed' = sliceRefunds + SumFunctionOnSet(amount', In(ToRefund)')
      BY DEF Owed, Total
    <2>3. Total(In(ToRefund)) \in Nat /\ sliceRefunds \in Nat
      BY <1>1, SumTypes DEF TypeOK
    <2> QED
      BY <2>1, <2>2, <2>3 DEF Owed
  <1> QED
    BY <1>1, <1>3, <1>6

(* A refund that moves on stays owed, unless it fails; what is completed is repaid. *)
LEMMA RefundMoves ==
  ASSUME TypeOK, TypeOK', NEW c \in Cases, refund[c] \in {"PENDING", "PROCESSING"},
         UNCHANGED <<amount, sliceRefunds>>,
         NEW to \in {"PROCESSING", "COMPLETED", "FAILED"}, refund' = [refund EXCEPT ![c] = to]
  PROVE  /\ Owed' <= Owed
         /\ Repaid' = IF to = "COMPLETED" THEN amount[c] + Repaid ELSE Repaid
         /\ In({"COMPLETED"})' = IF to = "COMPLETED" THEN In({"COMPLETED"}) \cup {c} ELSE In({"COMPLETED"})
  <1>1. In(ToRefund)' \subseteq In(ToRefund) /\ In(ToRefund) \in SUBSET Cases
    BY DEF In, ToRefund, TypeOK
  <1>2. Owed' <= Owed
    <2>1. IsFiniteSet(In(ToRefund)) /\ \A d \in In(ToRefund) : amount[d] \in Nat
      BY <1>1, SumTypes DEF TypeOK
    <2>2. SumFunctionOnSet(amount, In(ToRefund)') <= SumFunctionOnSet(amount, In(ToRefund))
      BY <1>1, <2>1, SumSubset
    <2>3. /\ SumFunctionOnSet(amount, In(ToRefund)') \in Nat /\ SumFunctionOnSet(amount, In(ToRefund)) \in Nat
          /\ sliceRefunds \in Nat
      <3>1. PICK S \in SUBSET Cases : S = In(ToRefund)'
        BY <1>1
      <3> QED
        BY <1>1, <3>1, SumTypes DEF Total, TypeOK
    <2>4. /\ Owed' = sliceRefunds + SumFunctionOnSet(amount, In(ToRefund)')
          /\ Owed = sliceRefunds + SumFunctionOnSet(amount, In(ToRefund))
      BY DEF Owed, Total
    <2> QED
      BY <2>2, <2>3, <2>4
  <1>3. /\ In({"COMPLETED"})' = IF to = "COMPLETED" THEN In({"COMPLETED"}) \cup {c} ELSE In({"COMPLETED"})
        /\ In({"COMPLETED"}) \in SUBSET Cases /\ c \notin In({"COMPLETED"})
    BY DEF In, TypeOK
  <1>4. Total(In({"COMPLETED"}) \cup {c}) = Total(In({"COMPLETED"})) + amount[c]
    BY <1>3, TotalAdd
  <1>5. Repaid' = sliceRefunds + SumFunctionOnSet(amount, In({"COMPLETED"})')
    BY DEF Repaid, Total
  <1>6. Total(In({"COMPLETED"})) \in Nat /\ amount[c] \in Nat /\ sliceRefunds \in Nat
    BY <1>3, SumTypes DEF TypeOK
  <1>7. Repaid' = IF to = "COMPLETED" THEN amount[c] + Repaid ELSE Repaid
    BY <1>3, <1>4, <1>5, <1>6 DEF Repaid, Total
  <1> QED
    BY <1>2, <1>3, <1>7

-----------------------------------------------------------------------------
(* As long as calls follow one another *)

(* No two calls are in flight. *)
Alone == \A q, r \in Requests : req[q] # Idle /\ req[r] # Idle => q = r

(* Who will book a refund: the handler that called the gateway, or one that  *)
(* received an event.                                                        *)
Booking(x) == x.op = "book" \/ (x.op = "close" /\ ~x.event)
Reported(x) == x.op = "event" \/ (x.op = "close" /\ x.event)

(* What a call has read is still so: nobody has written since.               *)
Known(x) ==
  /\ x.op = "request" => \A i \in Items : x.pick[i] > 0 => x.pick[i] + Returned(i) <= Bought[i]
  /\ x.op = "step" => <<ret[x.case], x.to>> \in Steps
  /\ x.op = "inspect" => ret[x.case] = "PICKED_UP"
  /\ x.op = "initiate" => /\ ret[x.case] = "APPROVED_FOR_REFUND" /\ refund[x.case] = "NONE"
                          /\ Owed + x.amount <= GrandTotal
  /\ x.op = "refund" \/ Booking(x) => refund[x.case] = "PENDING"
  /\ Reported(x) => refund[x.case] = "PROCESSING"
  /\ x.op = "close" => (x.full <=> amount[x.case] + Repaid >= GrandTotal)

OneCall == Alone /\ \A r \in Requests : Known(req[r])

(* A refund belongs to an approved return, and is debited once it completes. *)
RefundRow(c) ==
  /\ refund[c] # "NONE" => ret[c] \in {"APPROVED_FOR_REFUND", "COMPLETED"}
  /\ completions[c] = IF refund[c] = "COMPLETED" THEN 1 ELSE 0

(* The gateway has taken a refund that a call is about to store.  It takes   *)
(* one for each case, besides those whose answer was lost: none while the    *)
(* row is PENDING and nobody is about to store one.                          *)
Waits(c) == \E r \in Requests : Booking(req[r]) /\ req[r].ref # None /\ req[r].case = c
Booked(c) == refund[c] \in {"PROCESSING", "COMPLETED", "FAILED"}
TakenOnce(c) ==
  /\ IsFiniteSet(Taken(c))
  /\ Cardinality(Taken(c)) <= lost + 1
  /\ ~Booked(c) /\ ~Waits(c) => Cardinality(Taken(c)) <= lost

(* Goods and money stay within what was bought and paid, and the order is    *)
(* closed exactly when a return has completed and the total is repaid.       *)
Covered ==
  /\ \A i \in Items : Returned(i) <= Bought[i]
  /\ Owed <= GrandTotal
  /\ order = "REFUNDED" <=> Repaid >= GrandTotal /\ In({"COMPLETED"}) # {}

SerialInv ==
  ~overlapped =>
    /\ OneCall
    /\ \A c \in Cases : RefundRow(c) /\ TakenOnce(c)
    /\ Covered

(* The fields of each kind of call. *)
LEMMA Fields ==
  ASSUME NEW x \in Request
  PROVE  /\ x.op = "request" => x.pick \in [Items -> Nat]
         /\ x.op \in {"step", "inspect", "initiate", "refund", "book", "event", "close"} => x.case \in Cases
         /\ x.op = "initiate" => x.amount \in Nat
         /\ x.op \in {"book", "event", "close"} => x.ref \in GatewayRefunds \cup {None}
         /\ x.op \in {"book", "event"} => x.terminal \in BOOLEAN
         /\ x.op = "close" => x.event \in BOOLEAN /\ x.full \in BOOLEAN
         /\ x = Idle <=> x.op = "idle"
  BY DEF Request, Idle

(* A call that others do not overlap is the only one. *)
LEMMA SerialStep ==
  ASSUME TypeOK, TypeOK', overlapped \/ Alone, NEW r \in Requests, Call(r), ~overlapped'
  PROVE  ~overlapped /\ Alone' /\ \A q \in Requests \ {r} : req[q] = Idle /\ req'[q] = Idle
  <1> SUFFICES ~overlapped /\ \A q \in Requests \ {r} : req[q] = Idle /\ req'[q] = Idle
    BY DEF Alone
  <1>1. ASSUME NEW x \in Request, Begin(r, x)
        PROVE  ~overlapped /\ \A q \in Requests \ {r} : req[q] = Idle /\ req'[q] = Idle
    <2>1. ~overlapped /\ \A q \in Requests : req[q] = Idle
      BY Zenon, <1>1 DEF Begin
    <2> QED
      BY <1>1, <2>1, BeginType
  <1>2. ASSUME req[r] # Idle, overlapped' = overlapped, NEW x, Proceed(r, x)
        PROVE  ~overlapped /\ \A q \in Requests \ {r} : req[q] = Idle /\ req'[q] = Idle
    <2>1. ~overlapped
      BY Zenon, <1>2
    <2>2. \A q \in Requests \ {r} : req[q] = Idle
      BY <1>2, <2>1 DEF Alone
    <2> QED
      BY <1>2, <2>1, <2>2 DEF Proceed, TypeOK
  <1>3. CASE \/ ReadRequest(r)
             \/ \E c \in Cases : \/ ReadStep(r, c) \/ ReadInspect(r, c) \/ ReadInitiate(r, c)
                                \/ ReadComplete(r, c)
                                \/ \E g \in GatewayRefunds : ReadEvent(r, g, c)
    BY <1>1, <1>3, ReadType
  <1>4. CASE ~(\/ ReadRequest(r)
               \/ \E c \in Cases : \/ ReadStep(r, c) \/ ReadInspect(r, c) \/ ReadInitiate(r, c)
                                  \/ ReadComplete(r, c)
                                  \/ \E g \in GatewayRefunds : ReadEvent(r, g, c))
    <2>0. req[r] # Idle
      <3>1. Idle.op = "idle"
        BY DEF Idle
      <3>2. CASE Drop(r)
        BY <3>2 DEF Drop
      <3>3. CASE ~Drop(r)
        <4>1. req[r].op \in {"request", "step", "inspect", "initiate", "refund", "book", "event", "close"}
          BY <1>4, <3>3 DEF Call, CommitRequest, CommitStep, CommitInspect, CommitInitiate, CallGateway,
             BookProcessing, BookFailure, CountCompleted, CommitClose
        <4> QED
          BY <3>1, <4>1
      <3> QED
        BY <3>2, <3>3
    <2>1. req[r] # Idle /\ \E x : Proceed(r, x)
      <3>1. CASE End(r)
        BY <2>0, <3>1 DEF End
      <3>2. CASE (\E g \in GatewayRefunds : CallGateway(r, g)) \/ CountCompleted(r)
        BY <2>0, <3>2 DEF CallGateway, CountCompleted
      <3> QED
        BY <1>4, <3>1, <3>2 DEF Call, Drop, CommitRequest, CommitStep, CommitInspect, CommitInitiate,
           BookProcessing, BookFailure, CommitClose
    <2>2. overlapped' = overlapped
      BY <1>4 DEF Call, Drop, CommitRequest, CommitStep, CommitInspect, CommitInitiate, CallGateway,
         BookProcessing, BookFailure, CountCompleted, CommitClose
    <2> QED
      BY <1>2, <2>1, <2>2
  <1> QED
    BY <1>3, <1>4

(* A call knows what it knew when the rows it read are unchanged. *)
LEMMA BooksStay ==
  ASSUME UNCHANGED <<sliceRefunds, ret, pick, amount, refund>>, NEW x \in Request, Known(x)
  PROVE  Known(x)'
  <1>1. (\A i \in Items : Returned(i)' = Returned(i)) /\ Owed' = Owed /\ Repaid' = Repaid
    BY SumsStay
  <1> QED
    BY <1>1 DEF Known

(* What a call has just read is what it knows.                              *)
LEMMA ReadKnown ==
  ASSUME ReturnInv, \A c \in Cases : RefundRow(c), NEW r \in Requests,
         \/ ReadRequest(r)
         \/ \E c \in Cases : \/ ReadStep(r, c) \/ ReadInspect(r, c) \/ ReadInitiate(r, c)
                            \/ ReadComplete(r, c)
                            \/ \E g \in GatewayRefunds : ReadEvent(r, g, c)
  PROVE  \E x \in Request : Begin(r, x) /\ Known(x)
  <1>0. PICK x \in Request : Begin(r, x)
    BY ReadType DEF ReturnInv
  <1>a. ASSUME NEW y, Begin(r, y) PROVE x = y
    BY <1>0, <1>a DEF Begin, ReturnInv, TypeOK
  <1> SUFFICES Known(x)
    BY <1>0
  <1>1. CASE ReadRequest(r)
    <2>1. PICK p : Returnable(p) /\ Begin(r, [op |-> "request", pick |-> p])
      BY <1>1 DEF ReadRequest
    <2>2. x.op = "request" /\ x.pick = p
      BY <1>a, <2>1
    <2>3. \A i \in Items : p[i] > 0 => p[i] + Returned(i) <= Bought[i]
      BY <2>1, UsedIs DEF Returnable, Returned
    <2> QED
      BY <2>2, <2>3 DEF Known, Booking, Reported
  <1>2. ASSUME NEW c \in Cases, ReadStep(r, c) PROVE Known(x)
    <2>1. PICK to \in ReturnStatus :
            <<ret[c], to>> \in Steps /\ Begin(r, [op |-> "step", case |-> c, to |-> to])
      BY <1>2 DEF ReadStep
    <2>2. x.op = "step" /\ x.case = c /\ x.to = to
      BY <1>a, <2>1
    <2> QED
      BY <2>1, <2>2 DEF Known, Booking, Reported
  <1>3. ASSUME NEW c \in Cases, ReadInspect(r, c) PROVE Known(x)
    <2>1. x.op = "inspect" /\ x.case = c
      BY <1>3, <1>a DEF ReadInspect
    <2> QED
      BY <1>3, <2>1 DEF ReadInspect, MayInspect, Known, Booking, Reported
  <1>4. ASSUME NEW c \in Cases, ReadInitiate(r, c) PROVE Known(x)
    <2>1. x.op = "initiate" /\ x.case = c /\ x.amount = Refundable(c)
      BY <1>4, <1>a DEF ReadInitiate
    <2>2. AmountIn(ToRefund) + Refundable(c) <= GrandTotal
      BY <1>4 DEF ReadInitiate, MayInitiate
    <2>3. Owed + x.amount <= GrandTotal
      BY <2>1, <2>2, OwedIs
    <2> QED
      BY <1>4, <2>1, <2>3 DEF ReadInitiate, MayInitiate, Known, Booking, Reported
  <1>5. ASSUME NEW c \in Cases, ReadComplete(r, c) PROVE Known(x)
    <2>1. x.op \in {"refund", "book"} /\ x.case = c
      BY <1>5, <1>a DEF ReadComplete
    <2> QED
      BY <1>5, <2>1 DEF ReadComplete, MayComplete, Known, Booking, Reported
  <1>6. ASSUME NEW c \in Cases, NEW g \in GatewayRefunds, ReadEvent(r, g, c) PROVE Known(x)
    <2>1. x.op = "event" /\ x.case = c
      BY <1>6, <1>a DEF ReadEvent
    <2> QED
      BY <1>6, <2>1 DEF ReadEvent, Actionable, InFlight, Known, Booking, Reported
  <1> QED
    BY <1>1, <1>2, <1>3, <1>4, <1>5, <1>6

(* The sum that a completing transaction has just read.                     *)
LEMMA CountKnown ==
  ASSUME ReturnInv, NEW r \in Requests, Known(req[r]), CountCompleted(r)
  PROVE  \E x \in Request : Proceed(r, x) /\ Known(x)
  <1>0. TypeOK /\ req[r] \in Request
    BY DEF ReturnInv, TypeOK
  <1>1. PICK c \in Cases : c = req[r].case
    BY <1>0, Fields DEF CountCompleted
  <1>2. PICK full \in BOOLEAN :
          /\ full = (CompletedWith(c) >= GrandTotal)
          /\ Proceed(r, [op |-> "close", case |-> c, ref |-> req[r].ref,
                         event |-> req[r].op = "event", full |-> full])
    BY <1>1 DEF CountCompleted
  <1>3. PICK x : x = [op |-> "close", case |-> c, ref |-> req[r].ref,
                      event |-> req[r].op = "event", full |-> full]
    OBVIOUS
  <1>4. req[r].op \in {"book", "event"} /\ req[r].ref \in GatewayRefunds \cup {None}
    BY <1>0, Fields DEF CountCompleted
  <1>5. x \in Request
    BY <1>3, <1>4 DEF Request
  <1>6. x.op = "close" /\ x.case = c /\ (x.event <=> req[r].op = "event") /\ x.full = full
    BY <1>3
  <1>7. refund[c] = IF req[r].op = "event" THEN "PROCESSING" ELSE "PENDING"
    BY <1>1, <1>4 DEF Known, Booking, Reported
  <1>8. Others(c) = In({"COMPLETED"})
    BY <1>7 DEF Others, In
  <1>9. CompletedWith(c) = amount[c] + Repaid
    <2>1. Total(In({"COMPLETED"})) \in Nat /\ amount[c] \in Nat /\ sliceRefunds \in Nat
      BY <1>0, SumTypes DEF TypeOK, In
    <2>2. CompletedWith(c) = sliceRefunds + amount[c] + Total(In({"COMPLETED"}))
      BY <1>8, CompletedWithIs
    <2> QED
      BY <2>1, <2>2 DEF Repaid
  <1>10. x.full <=> amount[x.case] + Repaid >= GrandTotal
    BY Zenon, <1>2, <1>6, <1>9
  <1>11. Known(x)
    <2>1. ~(x.op \in {"request", "step", "inspect", "initiate", "refund"})
      BY <1>6
    <2>2. Booking(x) => refund[x.case] = "PENDING"
      BY <1>6, <1>7 DEF Booking
    <2>3. Reported(x) => refund[x.case] = "PROCESSING"
      BY <1>6, <1>7 DEF Reported
    <2> QED
      BY <1>10, <2>1, <2>2, <2>3 DEF Known
  <1> QED
    BY <1>2, <1>3, <1>5, <1>11

(* The one call of a step still knows what it reads, or has ended. *)
LEMMA KnownStep ==
  ASSUME ReturnInv, SerialInv, [Next]_vars, NEW r \in Requests, Call(r), ~overlapped'
  PROVE  OneCall'
  <1>0. TypeOK /\ TypeOK' /\ req[r] \in Request /\ Idle \in Request
    BY TypeStep DEF ReturnInv, TypeOK, Request
  <1>1. ~overlapped /\ Alone' /\ \A q \in Requests \ {r} : req[q] = Idle /\ req'[q] = Idle
    BY <1>0, SerialStep DEF SerialInv, OneCall
  <1>2. /\ Known(req[r]) /\ \A c \in Cases : RefundRow(c)
    BY <1>1 DEF SerialInv, OneCall
  <1>3. Known(Idle)'
    BY DEF Known, Idle, Booking, Reported
  <1>4. ASSUME NEW x \in Request, Known(x)', Begin(r, x) \/ Proceed(r, x) PROVE OneCall'
    <2>1. req'[r] = x
      BY <1>0, <1>4, SlotType, BeginType
    <2>2. \A q \in Requests : Known(req[q])'
      BY <1>1, <1>3, <1>4, <2>1 DEF Known
    <2> QED
      BY <1>1, <2>2 DEF OneCall
  <1>5. CASE End(r)
    BY <1>0, <1>3, <1>4, <1>5 DEF End
  <1>6. CASE \/ ReadRequest(r)
             \/ \E c \in Cases : \/ ReadStep(r, c) \/ ReadInspect(r, c) \/ ReadInitiate(r, c)
                                \/ ReadComplete(r, c)
                                \/ \E g \in GatewayRefunds : ReadEvent(r, g, c)
    <2>1. PICK x \in Request : Begin(r, x) /\ Known(x)
      BY <1>2, <1>6, ReadKnown
    <2>2. Known(x)'
      BY <2>1, BooksStay DEF Begin, caseVars, refundVars
    <2> QED
      BY <1>4, <2>1, <2>2
  <1>7. CASE CountCompleted(r)
    <2>1. PICK x \in Request : Proceed(r, x) /\ Known(x)
      BY <1>2, <1>7, CountKnown
    <2>2. Known(x)'
      BY <1>7, <2>1, BooksStay DEF CountCompleted, caseVars, refundVars
    <2> QED
      BY <1>4, <2>1, <2>2
  <1>8. ASSUME NEW g \in GatewayRefunds, CallGateway(r, g) PROVE OneCall'
    <2>1. PICK c \in Cases : c = req[r].case /\ refund[c] = "PENDING"
      BY <1>0, <1>2, <1>8, Fields DEF CallGateway, Known
    <2>2. PICK state \in {"PROCESSING", "PROCESSED"} :
            Proceed(r, [op |-> "book", case |-> c, ref |-> g, terminal |-> state = "PROCESSED"])
      BY <1>8, <2>1 DEF CallGateway
    <2>3. PICK x : x = [op |-> "book", case |-> c, ref |-> g, terminal |-> state = "PROCESSED"]
      OBVIOUS
    <2>4. x \in Request /\ x.op = "book" /\ x.case = c
      BY <2>3 DEF Request
    <2>5. Known(x)
      BY <2>1, <2>4 DEF Known, Booking, Reported
    <2>6. Known(x)'
      BY <1>8, <2>4, <2>5, BooksStay DEF CallGateway, caseVars, refundVars
    <2> QED
      BY <1>4, <2>2, <2>3, <2>4, <2>6
  <1> QED
    BY <1>5, <1>6, <1>7, <1>8 DEF Call, CommitRequest, CommitStep, CommitInspect, CommitInitiate,
       BookProcessing, BookFailure, CommitClose, Drop

(* The rows that a call changes when no other call is in flight.            *)
LEMMA RowStep ==
  ASSUME TypeOK, NEW r \in Requests, Known(req[r]), Call(r), \A c \in Cases : RefundRow(c)
  PROVE  \A c \in Cases : RefundRow(c)'
  <1> SUFFICES ASSUME NEW c \in Cases PROVE RefundRow(c)'
    OBVIOUS
  <1>0. /\ req[r] \in Request /\ RefundRow(c)
        /\ ret[c] \in ReturnStatus /\ refund[c] \in RefundState /\ completions[c] \in Nat
    BY DEF TypeOK
  <1>1. CASE UNCHANGED <<ret, refund, completions>>
    BY <1>0, <1>1 DEF RefundRow
  <1>2. ASSUME NEW d \in Cases, CommitRequest(r, d) PROVE RefundRow(c)'
    <2>1. /\ UNCHANGED <<refund, completions>> /\ ret[d] = "NONE" /\ ret' = [ret EXCEPT ![d] = "REQUESTED"]
      BY <1>2 DEF CommitRequest, refundVars
    <2> QED
      BY <1>0, <2>1 DEF RefundRow, TypeOK
  <1>3. CASE CommitStep(r)
    <2>1. PICK d \in Cases : d = req[r].case
      BY <1>0, <1>3, Fields DEF CommitStep
    <2>2. /\ UNCHANGED <<refund, completions>> /\ <<ret[d], req[r].to>> \in Steps
          /\ ret' = [ret EXCEPT ![d] = req[r].to]
      BY <1>3, <2>1 DEF CommitStep, refundVars, Known
    <2>3. ret[d] \notin {"APPROVED_FOR_REFUND", "COMPLETED"}
      BY <2>2 DEF Steps
    <2> QED
      BY <1>0, <2>2, <2>3 DEF RefundRow, TypeOK
  <1>4. ASSUME NEW found \in Found, CommitInspect(r, found) PROVE RefundRow(c)'
    <2>1. PICK d \in Cases : d = req[r].case
      BY <1>0, <1>4, Fields DEF CommitInspect
    <2>2. /\ UNCHANGED <<refund, completions>> /\ ret[d] = "PICKED_UP"
          /\ \E to : ret' = [ret EXCEPT ![d] = to]
      BY <1>4, <2>1 DEF CommitInspect, refundVars, Known
    <2> QED
      BY <1>0, <2>2 DEF RefundRow, TypeOK
  <1>5. CASE CommitInitiate(r)
    <2>1. PICK d \in Cases : d = req[r].case
      BY <1>0, <1>5, Fields DEF CommitInitiate
    <2>2. /\ UNCHANGED <<ret, completions>> /\ ret[d] = "APPROVED_FOR_REFUND" /\ refund[d] = "NONE"
          /\ refund' = [refund EXCEPT ![d] = "PENDING"]
      BY <1>5, <2>1 DEF CommitInitiate, caseVars, Known
    <2> QED
      BY <1>0, <2>2 DEF RefundRow, TypeOK
  <1>6. CASE BookProcessing(r) \/ BookFailure(r)
    <2>1. PICK d \in Cases : d = req[r].case
      BY <1>0, <1>6, Fields DEF BookProcessing, BookFailure
    <2>2. /\ UNCHANGED <<ret, completions>> /\ refund[d] \in {"PENDING", "PROCESSING"}
          /\ \E to \in {"PROCESSING", "FAILED"} : refund' = [refund EXCEPT ![d] = to]
      BY <1>6, <2>1 DEF BookProcessing, BookFailure, NextRefundState, caseVars, Known, Booking, Reported
    <2> QED
      BY <1>0, <2>2 DEF RefundRow, TypeOK
  <1>7. CASE CommitClose(r)
    <2>1. PICK d \in Cases : d = req[r].case
      BY <1>0, <1>7, Fields DEF CommitClose
    <2>2. refund[d] \in {"PENDING", "PROCESSING"}
      BY <1>7, <2>1 DEF CommitClose, Known, Booking, Reported
    <2>3. /\ refund' = [refund EXCEPT ![d] = "COMPLETED"] /\ ret' = [ret EXCEPT ![d] = "COMPLETED"]
          /\ completions' = [completions EXCEPT ![d] = completions[d] + 1]
      BY <1>7, <2>1 DEF CommitClose
    <2>4. RefundRow(d) /\ completions[d] = 0
      BY <2>2 DEF RefundRow
    <2>5. CASE c = d
      <3>1. refund'[c] = "COMPLETED" /\ ret'[c] = "COMPLETED" /\ completions'[c] = 1
        BY <2>3, <2>4, <2>5 DEF TypeOK
      <3> QED
        BY <3>1 DEF RefundRow
    <2>6. CASE c # d
      <3>1. refund'[c] = refund[c] /\ ret'[c] = ret[c] /\ completions'[c] = completions[c]
        BY <2>3, <2>6 DEF TypeOK
      <3> QED
        BY <1>0, <3>1 DEF RefundRow
    <2> QED
      BY <2>5, <2>6
  <1>8. ASSUME ~UNCHANGED <<ret, refund, completions>>
        PROVE  \/ \E d \in Cases : CommitRequest(r, d)
               \/ CommitStep(r) \/ (\E found \in Found : CommitInspect(r, found)) \/ CommitInitiate(r)
               \/ BookProcessing(r) \/ BookFailure(r) \/ CommitClose(r)
    BY <1>8 DEF Call, ReadRequest, ReadStep, ReadInspect, ReadInitiate, ReadComplete, ReadEvent, Begin,
                Drop, CallGateway, CountCompleted, caseVars, refundVars
  <1> QED
    BY <1>1, <1>2, <1>3, <1>4, <1>5, <1>6, <1>7, <1>8

(* The sums after a step of the only call in flight. *)
LEMMA CoveredStep ==
  ASSUME TypeOK, TypeOK', NEW r \in Requests, Known(req[r]), Call(r), \A c \in Cases : RefundRow(c), Covered,
         UNCHANGED sliceRefunds
  PROVE  Covered'
  <1>0. /\ req[r] \in Request
        /\ \A i \in Items : Returned(i) \in Nat /\ Returned(i)' \in Nat /\ Bought[i] \in Nat
        /\ Owed \in Nat /\ Repaid \in Nat /\ Owed' \in Nat /\ Repaid' \in Nat /\ GrandTotal \in Nat
    <2>1. (\A i \in Items : Returned(i)' \in Nat) /\ Owed' \in Nat /\ Repaid' \in Nat
      BY SumsStayNumbers DEF SumsAreNumbers
    <2> QED
      BY <2>1, SumTypes, GrandTotalIs, ReturnAssumption DEF TypeOK
  <1>1. CASE UNCHANGED <<order, ret, pick, refund, amount>>
    BY <1>1, SumsStay DEF Covered
  <1>2. ASSUME NEW c \in Cases, CommitRequest(r, c) PROVE Covered'
    <2>1. /\ UNCHANGED <<order, refund, amount>> /\ ret[c] = "NONE" /\ ret' = [ret EXCEPT ![c] = "REQUESTED"]
          /\ pick' = [pick EXCEPT ![c] = req[r].pick]
      BY <1>2 DEF CommitRequest, refundVars
    <2>2. PICK p \in [Items -> Nat] :
            /\ p = req[r].pick
            /\ \A i \in Items : p[i] > 0 => p[i] + Returned(i) <= Bought[i]
      BY <1>0, <1>2, Fields DEF CommitRequest, Known
    <2>3. ASSUME NEW i \in Items PROVE Returned(i)' <= Bought[i]
      <3>1. Returned(i)' = Returned(i) + p[i]
        BY <2>1, <2>2, ReturnedRises
      <3> QED
        BY <1>0, <2>2, <3>1 DEF Covered
    <2> QED
      BY <2>1, <2>3, SumsStay DEF Covered
  <1>3. ASSUME Lives' \subseteq Lives, UNCHANGED <<order, pick, refund, amount>> PROVE Covered'
    <2>1. \A i \in Items : Returned(i)' <= Returned(i)
      BY <1>3, ReturnedFalls
    <2>2. \A i \in Items : Returned(i)' <= Bought[i]
      BY <1>0, <2>1 DEF Covered
    <2> QED
      BY <1>3, <2>2, SumsStay DEF Covered
  <1>4. CASE CommitStep(r)
    <2>1. PICK d \in Cases : d = req[r].case
      BY <1>0, <1>4, Fields DEF CommitStep
    <2>2. /\ UNCHANGED <<order, pick, refund, amount>> /\ <<ret[d], req[r].to>> \in Steps
          /\ ret' = [ret EXCEPT ![d] = req[r].to]
      BY <1>4, <2>1 DEF CommitStep, refundVars, Known
    <2>3. ret[d] \notin {"NONE", "REJECTED"}
      BY <2>2 DEF Steps
    <2>4. Lives' \subseteq Lives
      BY <2>2, <2>3 DEF Lives, Live, TypeOK
    <2> QED
      BY <1>3, <2>2, <2>4
  <1>5. ASSUME NEW found \in Found, CommitInspect(r, found) PROVE Covered'
    <2>1. PICK d \in Cases : d = req[r].case
      BY <1>0, <1>5, Fields DEF CommitInspect
    <2>2. /\ UNCHANGED <<order, pick, refund, amount>> /\ ret[d] = "PICKED_UP"
          /\ \E to : ret' = [ret EXCEPT ![d] = to]
      BY <1>5, <2>1 DEF CommitInspect, refundVars, Known
    <2>3. Lives' \subseteq Lives
      BY <2>2 DEF Lives, Live, TypeOK
    <2> QED
      BY <1>3, <2>2, <2>3
  <1>6. CASE CommitInitiate(r)
    <2>1. PICK d \in Cases : d = req[r].case
      BY <1>0, <1>6, Fields DEF CommitInitiate
    <2>2. PICK n \in Nat : n = req[r].amount /\ Owed + n <= GrandTotal
      BY <1>0, <1>6, Fields DEF CommitInitiate, Known
    <2>3. /\ UNCHANGED <<order, ret, pick>> /\ refund[d] = "NONE"
          /\ refund' = [refund EXCEPT ![d] = "PENDING"] /\ amount' = [amount EXCEPT ![d] = n]
      BY <1>6, <2>1, <2>2 DEF CommitInitiate, caseVars
    <2>4. Owed' = Owed + n /\ Repaid' = Repaid /\ In({"COMPLETED"})' = In({"COMPLETED"})
      BY <2>3, OwedRises
    <2> QED
      BY <2>2, <2>3, <2>4, SumsStay DEF Covered
  <1>7. CASE BookProcessing(r) \/ BookFailure(r)
    <2>1. PICK d \in Cases : d = req[r].case
      BY <1>0, <1>7, Fields DEF BookProcessing, BookFailure
    <2>2. UNCHANGED <<order, ret, pick, amount>> /\ refund[d] \in {"PENDING", "PROCESSING"}
      BY <1>7, <2>1 DEF BookProcessing, BookFailure, caseVars, Known, Booking, Reported
    <2>3. PICK to \in {"PROCESSING", "FAILED"} : refund' = [refund EXCEPT ![d] = to]
      BY <1>7, <2>1 DEF BookProcessing, BookFailure, NextRefundState
    <2>4. Owed' <= Owed /\ Repaid' = Repaid /\ In({"COMPLETED"})' = In({"COMPLETED"})
      BY <2>2, <2>3, RefundMoves
    <2>5. Owed' <= GrandTotal
      BY <1>0, <2>4 DEF Covered
    <2> QED
      BY <2>2, <2>4, <2>5, SumsStay DEF Covered
  <1>8. CASE CommitClose(r)
    <2>1. PICK d \in Cases : d = req[r].case
      BY <1>0, <1>8, Fields DEF CommitClose
    <2>2. refund[d] \in {"PENDING", "PROCESSING"}
      BY <1>8, <2>1 DEF CommitClose, Known, Booking, Reported
    <2>3. /\ refund' = [refund EXCEPT ![d] = "COMPLETED"] /\ ret' = [ret EXCEPT ![d] = "COMPLETED"]
          /\ UNCHANGED <<pick, amount>>
      BY <1>8, <2>1 DEF CommitClose
    <2>4. Owed' <= Owed /\ Repaid' = amount[d] + Repaid /\ amount[d] \in Nat /\ In({"COMPLETED"})' # {}
      BY <2>2, <2>3, RefundMoves DEF TypeOK
    <2>5. Owed' <= GrandTotal
      BY <1>0, <2>4 DEF Covered
    <2>6. RefundRow(d) /\ ret[d] \notin {"NONE", "REJECTED"}
      BY <2>2 DEF RefundRow
    <2>7. Lives' \subseteq Lives
      BY <2>3, <2>6 DEF Lives, Live, TypeOK
    <2>8. \A i \in Items : Returned(i)' <= Returned(i)
      BY <2>3, <2>7, ReturnedFalls
    <2>9. \A i \in Items : Returned(i)' <= Bought[i]
      BY <1>0, <2>8 DEF Covered
    <2>10. req[r].full <=> amount[d] + Repaid >= GrandTotal
      BY <1>8, <2>1 DEF CommitClose, Known
    <2>11. order' = IF req[r].full THEN "REFUNDED" ELSE order
      BY <1>8 DEF CommitClose
    <2>12. order' = "REFUNDED" <=> Repaid' >= GrandTotal /\ In({"COMPLETED"})' # {}
      <3>1. CASE req[r].full
        BY <2>4, <2>10, <2>11, <3>1
      <3>2. CASE ~req[r].full
        <4>1. ~(amount[d] + Repaid >= GrandTotal) /\ order' = order
          BY <2>10, <2>11, <3>2
        <4>2. ~(Repaid >= GrandTotal)
          BY <1>0, <2>4, <4>1
        <4> QED
          BY <2>4, <4>1, <4>2 DEF Covered
      <3> QED
        BY <3>1, <3>2
    <2> QED
      BY <2>5, <2>9, <2>12 DEF Covered
  <1>9. ASSUME ~UNCHANGED <<order, ret, pick, refund, amount>>
        PROVE  \/ \E d \in Cases : CommitRequest(r, d)
               \/ CommitStep(r) \/ (\E found \in Found : CommitInspect(r, found)) \/ CommitInitiate(r)
               \/ BookProcessing(r) \/ BookFailure(r) \/ CommitClose(r)
    BY <1>9 DEF Call, ReadRequest, ReadStep, ReadInspect, ReadInitiate, ReadComplete, ReadEvent, Begin,
                Drop, CallGateway, CountCompleted, caseVars, refundVars
  <1> QED
    BY <1>1, <1>2, <1>4, <1>5, <1>6, <1>7, <1>8, <1>9

(* Nothing more is taken, and what was settled or waiting still is, or its  *)
(* answer was lost.                                                         *)
LEMMA TakenStays ==
  ASSUME TypeOK, TypeOK', NEW c \in Cases, TakenOnce(c), Taken(c)' = Taken(c), lost' >= lost,
         ~Booked(c)' /\ ~Waits(c)' => (~Booked(c) /\ ~Waits(c)) \/ lost' = lost + 1
  PROVE  TakenOnce(c)'
  <1>1. IsFiniteSet(Taken(c)) /\ Cardinality(Taken(c)) \in Nat /\ lost \in Nat /\ lost' \in Nat
    BY FS_CardinalityType DEF TakenOnce, TypeOK
  <1>2. Cardinality(Taken(c)') = Cardinality(Taken(c)) /\ IsFiniteSet(Taken(c)')
    BY <1>1
  <1>3. Cardinality(Taken(c)) <= lost' + 1
    BY <1>1 DEF TakenOnce
  <1>4. ~Booked(c)' /\ ~Waits(c)' => Cardinality(Taken(c)) <= lost'
    BY <1>1 DEF TakenOnce
  <1> QED
    BY <1>2, <1>3, <1>4 DEF TakenOnce

(* The gateway takes a refund for a call that awaits its answer, and whose  *)
(* row is still pending.                                                    *)
LEMMA TakenMore ==
  ASSUME TypeOK, TypeOK', NEW c \in Cases, TakenOnce(c), ~Booked(c), ~Waits(c), Waits(c)', lost' = lost,
         NEW g \in GatewayRefunds, Taken(c)' = Taken(c) \cup {g}
  PROVE  TakenOnce(c)'
  <1>1. IsFiniteSet(Taken(c)) /\ Cardinality(Taken(c)) \in Nat /\ lost \in Nat /\ Cardinality(Taken(c)) <= lost
    BY FS_CardinalityType DEF TakenOnce, TypeOK
  <1>2. /\ IsFiniteSet(Taken(c) \cup {g})
        /\ Cardinality(Taken(c) \cup {g}) <= Cardinality(Taken(c)) + 1
    <2>1. PICK S : S = Taken(c)
      OBVIOUS
    <2>2. /\ IsFiniteSet(S \cup {g})
          /\ Cardinality(S \cup {g}) = IF g \in S THEN Cardinality(S) ELSE Cardinality(S) + 1
      BY <1>1, <2>1, FS_AddElement
    <2> QED
      BY <1>1, <2>1, <2>2
  <1>3. IsFiniteSet(Taken(c)') /\ Cardinality(Taken(c)') <= lost + 1
    <2>1. PICK S : S = Taken(c) \cup {g}
      OBVIOUS
    <2>2. Cardinality(S) \in Nat
      BY <1>2, <2>1, FS_CardinalityType
    <2> QED
      BY <1>1, <1>2, <2>1, <2>2
  <1> QED
    BY <1>3 DEF TakenOnce

(* The refunds that the gateway has taken, after a step of the only call. *)
LEMMA TakenStep ==
  ASSUME ReturnInv, TypeOK', NEW r \in Requests, Known(req[r]), Call(r), ~overlapped,
         \A q \in Requests \ {r} : req[q] = Idle /\ req'[q] = Idle,
         \A c \in Cases : RefundRow(c) /\ TakenOnce(c)
  PROVE  \A c \in Cases : TakenOnce(c)'
  <1> SUFFICES ASSUME NEW c \in Cases PROVE TakenOnce(c)'
    OBVIOUS
  <1>0. TypeOK /\ TakenOnce(c) /\ RefundRow(c) /\ req[r] \in Request /\ lost \in Nat /\ Idle \in Request
    BY DEF ReturnInv, TypeOK, Request
  <1>1. /\ Waits(c) <=> Booking(req[r]) /\ req[r].ref # None /\ req[r].case = c
        /\ Waits(c)' <=> Booking(req'[r]) /\ req'[r].ref # None /\ req'[r].case = c
    <2>1. ~Booking(Idle)
      BY DEF Booking, Idle
    <2> QED
      BY <2>1 DEF Waits, Booking
  <1>2. ASSUME UNCHANGED gateway PROVE Taken(c)' = Taken(c)
    BY <1>2 DEF Taken
  <1>3. CASE \/ ReadRequest(r)
             \/ \E d \in Cases : \/ ReadStep(r, d) \/ ReadInspect(r, d) \/ ReadInitiate(r, d)
                                \/ ReadComplete(r, d)
                                \/ \E g \in GatewayRefunds : ReadEvent(r, g, d)
    <2>1. PICK x : Begin(r, x)
      BY <1>0, <1>3, ReadType
    <2>2. ~Booking(req[r]) /\ UNCHANGED <<gateway, refund, lost>>
      BY <2>1 DEF Begin, Booking, Idle, refundVars, gatewayVars
    <2>3. ~Waits(c) /\ (Booked(c)' <=> Booked(c))
      BY <1>1, <2>2 DEF Booked
    <2> QED
      BY <1>0, <1>2, <2>2, <2>3, TakenStays
  <1>4. CASE Drop(r)
    <2>1. /\ UNCHANGED <<gateway, refund>>
          /\ lost' = IF req[r].op \in {"book", "close"} /\ req[r].ref # None THEN lost + 1 ELSE lost
      BY <1>4 DEF Drop, refundVars, gatewayVars
    <2>2. Booked(c)' <=> Booked(c)
      BY <2>1 DEF Booked
    <2>3. Waits(c) => lost' = lost + 1
      BY <1>1, <2>1 DEF Booking
    <2>4. lost' >= lost
      BY <1>0, <2>1
    <2> QED
      BY <1>0, <1>2, <2>1, <2>2, <2>3, <2>4, TakenStays
  <1>5. ASSUME NEW g \in GatewayRefunds, CallGateway(r, g) PROVE TakenOnce(c)'
    <2>1. PICK d \in Cases : d = req[r].case /\ refund[d] = "PENDING"
      BY <1>0, <1>5, Fields DEF CallGateway, Known
    <2>2. PICK state \in {"PROCESSING", "PROCESSED"} :
            /\ gateway' = [gateway EXCEPT ![g] = [case |-> d, state |-> state]]
            /\ Proceed(r, [op |-> "book", case |-> d, ref |-> g, terminal |-> state = "PROCESSED"])
      BY <1>5, <2>1 DEF CallGateway
    <2>3. UNCHANGED <<refund, lost>> /\ gateway[g].state = "NONE" /\ req[r].op = "refund"
      BY <1>5 DEF CallGateway, refundVars
    <2>4. gateway[g].case # c
      BY <2>3, ReturnAssumption DEF ReturnInv, GoodGateway
    <2>5. req'[r].op = "book" /\ req'[r].case = d /\ req'[r].ref = g /\ g # None
      BY <1>0, <2>2, ReturnAssumption DEF Proceed, TypeOK
    <2>6. ~Waits(c) /\ (Waits(c)' <=> c = d) /\ (Booked(c)' <=> Booked(c)) /\ (c = d => ~Booked(c))
      BY <1>1, <2>1, <2>3, <2>5 DEF Booking, Booked
    <2>7. Taken(c)' = IF c = d THEN Taken(c) \cup {g} ELSE Taken(c)
      BY <1>0, <2>2, <2>4 DEF Taken, TypeOK
    <2>8. CASE c = d
      BY <1>0, <2>3, <2>6, <2>7, <2>8, TakenMore
    <2>9. CASE c # d
      BY <1>0, <2>3, <2>6, <2>7, <2>9, TakenStays
    <2> QED
      BY <2>8, <2>9
  <1>6. CASE CountCompleted(r)
    <2>1. PICK full \in BOOLEAN :
            Proceed(r, [op |-> "close", case |-> req[r].case, ref |-> req[r].ref,
                        event |-> req[r].op = "event", full |-> full])
      BY <1>6 DEF CountCompleted
    <2>2. /\ req'[r].op = "close" /\ req'[r].case = req[r].case /\ req'[r].ref = req[r].ref
          /\ req'[r].event <=> req[r].op = "event"
      BY <1>0, <2>1 DEF Proceed, TypeOK
    <2>3. Waits(c)' <=> Waits(c)
      BY <1>1, <1>6, <2>2 DEF Booking, CountCompleted
    <2>4. UNCHANGED <<gateway, refund, lost>>
      BY <1>6 DEF CountCompleted, refundVars, gatewayVars
    <2> QED
      BY <1>0, <1>2, <2>3, <2>4, TakenStays DEF Booked
  <1>7. CASE BookProcessing(r) \/ BookFailure(r) \/ CommitClose(r)
    <2>1. PICK d \in Cases : d = req[r].case
      BY <1>0, <1>7, Fields DEF BookProcessing, BookFailure, CommitClose
    <2>2. PICK to \in {"PROCESSING", "FAILED", "COMPLETED"} : refund' = [refund EXCEPT ![d] = to]
      BY <1>7, <2>1 DEF BookProcessing, BookFailure, NextRefundState, CommitClose
    <2>3. IF c = d THEN Booked(c)' ELSE ~Waits(c) /\ (Booked(c)' <=> Booked(c))
      BY <1>0, <1>1, <2>1, <2>2 DEF Booked, TypeOK
    <2>4. UNCHANGED <<gateway, lost>>
      BY <1>7 DEF BookProcessing, BookFailure, CommitClose, gatewayVars
    <2> QED
      BY <1>0, <1>2, <2>3, <2>4, TakenStays
  <1>8. CASE \/ \E d \in Cases : CommitRequest(r, d)
             \/ CommitStep(r) \/ (\E found \in Found : CommitInspect(r, found)) \/ CommitInitiate(r)
    <2>1. UNCHANGED <<gateway, lost>> /\ ~Booking(req[r])
      BY <1>8 DEF CommitRequest, CommitStep, CommitInspect, CommitInitiate, gatewayVars, Booking
    <2>2. refund'[c] = refund[c] \/ refund[c] = "NONE"
      <3>1. CASE CommitInitiate(r)
        <4>1. refund[req[r].case] = "NONE" /\ refund' = [refund EXCEPT ![req[r].case] = "PENDING"]
          BY <3>1 DEF CommitInitiate
        <4> QED
          BY <1>0, <4>1 DEF TypeOK
      <3>2. CASE ~CommitInitiate(r)
        BY <1>8, <3>2 DEF CommitRequest, CommitStep, CommitInspect, refundVars
      <3> QED
        BY <3>1, <3>2
    <2>3. ~Waits(c) /\ (Booked(c) => Booked(c)')
      BY <1>1, <2>1, <2>2 DEF Booked
    <2> QED
      BY <1>0, <1>2, <2>1, <2>3, TakenStays
  <1> QED
    BY <1>3, <1>4, <1>5, <1>6, <1>7, <1>8 DEF Call

(* What happens at the gateway, or to an event that is dismissed.           *)
LEMMA OutsideStep ==
  ASSUME TypeOK, SerialInv,
         UNCHANGED <<sliceRefunds, order, ret, pick, refund, amount, completions, req, overlapped, lost>>,
         \A g \in GatewayRefunds : gateway'[g].case = gateway[g].case
  PROVE  SerialInv'
  <1> SUFFICES ASSUME ~overlapped, ~overlapped' PROVE OneCall' /\ (\A c \in Cases : RefundRow(c)' /\ TakenOnce(c)') /\ Covered'
    BY DEF SerialInv
  <1>1. OneCall /\ (\A c \in Cases : RefundRow(c) /\ TakenOnce(c)) /\ Covered
    BY DEF SerialInv
  <1>2. OneCall'
    <2>1. \A q \in Requests : Known(req[q])'
      <3> SUFFICES ASSUME NEW q \in Requests PROVE Known(req[q])'
        OBVIOUS
      <3>1. PICK x \in Request : x = req[q] /\ x = req'[q]
        BY DEF TypeOK
      <3>2. Known(x)'
        BY <1>1, <3>1, BooksStay DEF OneCall
      <3> QED
        BY <3>1, <3>2 DEF Known
    <2> QED
      BY <1>1, <2>1 DEF OneCall, Alone
  <1>3. ASSUME NEW c \in Cases PROVE RefundRow(c)' /\ TakenOnce(c)'
    <2>1. Taken(c)' = Taken(c)
      BY DEF Taken
    <2>2. (Booked(c)' <=> Booked(c)) /\ (Waits(c)' <=> Waits(c))
      BY DEF Booked, Waits
    <2> QED
      BY <1>1, <2>1, <2>2 DEF RefundRow, TakenOnce
  <1>4. Covered'
    BY <1>1, SumsStay DEF Covered
  <1> QED
    BY <1>2, <1>3, <1>4

(* Nothing has been returned or refunded, and something was bought. *)
LEMMA SerialInvInit == Init => SerialInv
  <1> SUFFICES ASSUME Init PROVE OneCall /\ (\A c \in Cases : RefundRow(c) /\ TakenOnce(c)) /\ Covered
    BY DEF SerialInv
  <1>1. OneCall
    BY DEF Init, OneCall, Alone, Known, Idle, Booking, Reported
  <1>2. ASSUME NEW c \in Cases PROVE RefundRow(c) /\ TakenOnce(c)
    <2>1. Taken(c) = {}
      BY ReturnAssumption DEF Init, Taken
    <2> QED
      BY <2>1, FS_EmptySet DEF Init, RefundRow, TakenOnce
  <1>3. Covered
    <2>1. Lives = {} /\ In(ToRefund) = {} /\ In({"COMPLETED"}) = {} /\ order = "DELIVERED"
      BY DEF Init, Lives, Live, In, ToRefund
    <2>2. Owed = sliceRefunds + 0 /\ \A i \in Items : Returned(i) = 0
      BY <2>1, SumEmpty DEF Owed, Returned, Total
    <2>3. sliceRefunds \in Nat /\ sliceRefunds <= GrandTotal
      BY GrandTotalIs, ReturnAssumption DEF Init, ResolvedAmounts
    <2> QED
      BY <2>1, <2>2, <2>3, ReturnAssumption DEF Covered
  <1> QED
    BY <1>1, <1>2, <1>3

(* SerialInv survives every step. *)
LEMMA SerialInvStep ==
  ASSUME ReturnInv, SerialInv, [Next]_vars
  PROVE  SerialInv'
  <1>0. TypeOK /\ TypeOK'
    BY TypeStep DEF ReturnInv
  <1>1. CASE UNCHANGED vars
    BY <1>0, <1>1, OutsideStep DEF vars, caseVars, refundVars, gatewayVars
  <1>2. ASSUME NEW g \in GatewayRefunds, Settle(g) \/ Dismiss(g) PROVE SerialInv'
    BY <1>0, <1>2, OutsideStep DEF Settle, Dismiss, TypeOK, caseVars, refundVars
  <1>3. ASSUME NEW r \in Requests, Call(r) PROVE SerialInv'
    <2> SUFFICES ASSUME ~overlapped' PROVE SerialInv'
      BY DEF SerialInv
    <2>1. ~overlapped /\ \A q \in Requests \ {r} : req[q] = Idle /\ req'[q] = Idle
      BY <1>0, <1>3, SerialStep DEF SerialInv, OneCall
    <2>2. Known(req[r]) /\ (\A c \in Cases : RefundRow(c) /\ TakenOnce(c)) /\ Covered
      BY <2>1 DEF SerialInv, OneCall
    <2>3. OneCall'
      BY <1>3, KnownStep
    <2>4. \A c \in Cases : RefundRow(c)'
      BY <1>0, <1>3, <2>2, RowStep
    <2>5. Covered'
      BY <1>0, <1>3, <2>2, SlicesStay, CoveredStep
    <2>6. \A c \in Cases : TakenOnce(c)'
      BY <1>0, <1>3, <2>1, <2>2, TakenStep
    <2> QED
      BY <2>3, <2>4, <2>5, <2>6 DEF SerialInv
  <1> QED
    BY <1>1, <1>2, <1>3 DEF Next

-----------------------------------------------------------------------------
(* Events that are answered and not acted upon *)

(* What an answered event, and the call that stores a reference, say of the *)
(* gateway's refund.                                                        *)
Unstored(x) ==
  x.op = "book" /\ x.ref # None =>
    /\ \A c \in Cases : gatewayRef[c] # x.ref
    /\ x.ref \in told => x.ref \in early

(* Only refunds that the gateway has taken are told about.  As long as calls *)
(* follow one another, an event about a reference that is yet to be stored   *)
(* counts as early, and no other leaves its row PROCESSING.                  *)
EventInv ==
  /\ \A g \in told : gateway[g].state # "NONE"
  /\ ~overlapped => \A r \in Requests : Unstored(req[r])
  /\ NoEventSwallowed

(* No event has come. *)
LEMMA EventInit == Init => EventInv
  BY DEF Init, EventInv, Unstored, Idle, NoEventSwallowed

(* A step that answers no event and stores no reference. *)
LEMMA NoNews ==
  ASSUME EventInv, TypeOK, ~overlapped, UNCHANGED <<told, early, gatewayRef>>,
         \A g \in GatewayRefunds : gateway[g].state # "NONE" => gateway'[g].state # "NONE",
         \A c \in Cases : refund'[c] = "PROCESSING" => refund[c] = "PROCESSING",
         ~overlapped' => \A r \in Requests : Unstored(req[r])'
  PROVE  EventInv'
  <1>1. \A g \in told' : gateway'[g].state # "NONE"
    BY DEF EventInv, TypeOK
  <1>2. NoEventSwallowed'
    BY DEF EventInv, NoEventSwallowed
  <1> QED
    BY <1>1, <1>2 DEF EventInv

(* The answer to an event about a refund that its row no longer calls       *)
(* PROCESSING.                                                              *)
LEMMA Answered ==
  ASSUME ReturnInv, EventInv, ~overlapped, NEW c \in Cases, NEW g \in GatewayRefunds, Sent(c, g),
         told' = told \cup {g}, UNCHANGED <<early, gateway, gatewayRef>>,
         refund'[c] # "PROCESSING", \A d \in Cases \ {c} : refund'[d] = refund[d],
         \A r \in Requests : req'[r].op # "book"
  PROVE  EventInv'
  <1>0. g # None
    BY ReturnAssumption
  <1>1. \A h \in told' : gateway'[h].state # "NONE"
    BY <1>0 DEF EventInv, Sent
  <1>2. \A d \in Cases : gatewayRef[d] = g => d = c
    BY <1>0 DEF ReturnInv, GoodRows, GoodRow, Sent
  <1>3. NoEventSwallowed'
    BY <1>2 DEF EventInv, NoEventSwallowed
  <1> QED
    BY <1>1, <1>3 DEF EventInv, Unstored

(* A step of the only call in flight. *)
LEMMA EventCall ==
  ASSUME ReturnInv, SerialInv, EventInv, [Next]_vars, NEW r \in Requests, Call(r), ~overlapped'
  PROVE  EventInv'
  <1>0. /\ TypeOK /\ TypeOK' /\ GoodRows /\ GoodCall(req[r]) /\ req[r] \in Request /\ Idle \in Request
    BY TypeStep DEF ReturnInv, TypeOK, GoodCalls, Request
  <1>1. ~overlapped /\ \A q \in Requests \ {r} : req[q] = Idle /\ req'[q] = Idle
    BY <1>0, SerialStep DEF SerialInv, OneCall
  <1>2. /\ Known(req[r]) /\ Unstored(req[r])
        /\ \A g \in GatewayRefunds : gateway[g].state # "NONE" => gateway'[g].state # "NONE"
    BY <1>1, Grow DEF SerialInv, OneCall, EventInv
  <1>3. Idle.op = "idle"
    BY DEF Idle
  <1>4. ASSUME req'[r].op # "book" \/ req'[r].ref = None PROVE \A q \in Requests : Unstored(req[q])'
    BY <1>1, <1>3, <1>4 DEF Unstored
  <1>5. ASSUME End(r) PROVE req'[r] = Idle /\ \A q \in Requests : req'[q].op # "book"
    BY <1>0, <1>1, <1>3, <1>5 DEF End, Proceed, TypeOK
  <1>6. CASE \/ ReadRequest(r)
             \/ \E d \in Cases : \/ ReadStep(r, d) \/ ReadInspect(r, d) \/ ReadInitiate(r, d)
                                \/ ReadComplete(r, d)
                                \/ \E g \in GatewayRefunds : ReadEvent(r, g, d)
    <2>1. PICK x \in Request : Begin(r, x)
      BY <1>0, <1>6, ReadType
    <2>2. UNCHANGED <<told, early, gatewayRef, refund>> /\ req'[r] = x
      BY <1>0, <2>1 DEF Begin, TypeOK, refundVars, gatewayVars
    <2>3. req'[r].op # "book" \/ req'[r].ref = None
      <3>1. ASSUME NEW y, Begin(r, y) PROVE req'[r] = y
        BY <1>0, <3>1 DEF Begin, TypeOK
      <3>2. CASE ReadRequest(r)
        BY <3>1, <3>2 DEF ReadRequest
      <3>3. ASSUME NEW d \in Cases, ReadStep(r, d) PROVE req'[r].op # "book"
        BY <3>1, <3>3 DEF ReadStep
      <3>6. ASSUME NEW d \in Cases, ReadInspect(r, d) PROVE req'[r].op # "book"
        BY <3>1, <3>6 DEF ReadInspect
      <3>7. ASSUME NEW d \in Cases, ReadInitiate(r, d) PROVE req'[r].op # "book"
        BY <3>1, <3>7 DEF ReadInitiate
      <3>4. ASSUME NEW d \in Cases, ReadComplete(r, d) PROVE req'[r].op # "book" \/ req'[r].ref = None
        BY <3>1, <3>4 DEF ReadComplete
      <3>5. ASSUME NEW d \in Cases, NEW g \in GatewayRefunds, ReadEvent(r, g, d) PROVE req'[r].op # "book"
        BY <3>1, <3>5 DEF ReadEvent
      <3> QED
        BY <1>6, <3>2, <3>3, <3>4, <3>5, <3>6, <3>7
    <2> QED
      BY <1>0, <1>1, <1>2, <1>4, <2>2, <2>3, NoNews
  <1>7. ASSUME NEW g \in GatewayRefunds, CallGateway(r, g) PROVE EventInv'
    <2>1. UNCHANGED <<told, early, gatewayRef, refund>> /\ gateway[g].state = "NONE"
      BY <1>7 DEF CallGateway, refundVars
    <2>2. g \notin told /\ \A c \in Cases : gatewayRef[c] # g
      BY <1>0, <2>1, ReturnAssumption DEF EventInv, GoodRows, GoodRow, Sent
    <2>3. req'[r].ref = g
      BY <1>0, <1>7 DEF CallGateway, Proceed, TypeOK
    <2>4. \A q \in Requests : Unstored(req[q])'
      BY <1>1, <1>3, <2>1, <2>2, <2>3 DEF Unstored
    <2> QED
      BY <1>0, <1>1, <1>2, <2>1, <2>4, NoNews
  <1>8. CASE CountCompleted(r)
    <2>1. UNCHANGED <<told, early, gatewayRef, refund>>
      BY <1>8 DEF CountCompleted, refundVars, gatewayVars
    <2>2. req'[r].op # "book"
      BY <1>0, <1>8 DEF CountCompleted, Proceed, TypeOK
    <2> QED
      BY <1>0, <1>1, <1>2, <1>4, <2>1, <2>2, NoNews
  <1>9. CASE \/ \E d \in Cases : CommitRequest(r, d)
             \/ CommitStep(r) \/ (\E found \in Found : CommitInspect(r, found)) \/ Drop(r)
    <2>1. UNCHANGED <<told, early, gatewayRef, refund>> /\ End(r)
      BY <1>9 DEF CommitRequest, CommitStep, CommitInspect, Drop, refundVars, gatewayVars
    <2> QED
      BY <1>0, <1>1, <1>2, <1>4, <1>5, <2>1, NoNews
  <1>10. CASE CommitInitiate(r)
    <2>1. /\ UNCHANGED <<told, early, gatewayRef>> /\ End(r)
          /\ refund' = [refund EXCEPT ![req[r].case] = "PENDING"]
      BY <1>10 DEF CommitInitiate, gatewayVars
    <2>2. \A c \in Cases : refund'[c] = "PROCESSING" => refund[c] = "PROCESSING"
      BY <1>0, <2>1 DEF TypeOK
    <2>3. \A q \in Requests : Unstored(req[q])'
      BY <1>4, <1>5, <2>1
    <2> QED
      BY <1>0, <1>1, <1>2, <2>1, <2>2, <2>3, NoNews
  <1>11. CASE BookProcessing(r)
    <2>1. PICK c \in Cases : c = req[r].case
      BY <1>0, <1>11, Fields DEF BookProcessing
    <2>2. /\ UNCHANGED <<told, early, gateway>> /\ End(r)
          /\ \A d \in Cases \ {c} : refund'[d] = refund[d] /\ gatewayRef'[d] = gatewayRef[d]
          /\ gatewayRef'[c] = req[r].ref /\ req[r].op = "book"
      BY <1>0, <1>11, <2>1 DEF BookProcessing, TypeOK, gatewayVars
    <2>3. gatewayRef'[c] \in told => gatewayRef'[c] \in early
      BY <1>0, <1>2, <2>2, ReturnAssumption DEF Unstored, TypeOK
    <2>4. NoEventSwallowed'
      BY <1>1, <2>2, <2>3 DEF EventInv, NoEventSwallowed
    <2>5. \A q \in Requests : Unstored(req[q])'
      BY <1>4, <1>5, <2>2
    <2> QED
      BY <1>1, <2>2, <2>4, <2>5 DEF EventInv
  <1>12. CASE BookFailure(r)
    <2>1. PICK c \in Cases, g \in GatewayRefunds : c = req[r].case /\ g = req[r].ref /\ Sent(c, g)
      BY <1>0, <1>12 DEF BookFailure, Request, Idle, GoodCall
    <2>2. /\ UNCHANGED <<early, gateway, gatewayRef>> /\ End(r) /\ told' = told \cup {g}
          /\ refund' = [refund EXCEPT ![c] = "FAILED"]
      BY <1>1, <1>12, <2>1, ReturnAssumption DEF BookFailure, Told
    <2>3. refund'[c] # "PROCESSING" /\ \A d \in Cases \ {c} : refund'[d] = refund[d]
      BY <1>0, <2>2 DEF TypeOK
    <2>4. \A q \in Requests : req'[q].op # "book"
      BY <1>5, <2>2
    <2> QED
      BY <1>1, <2>1, <2>2, <2>3, <2>4, Answered
  <1>13. CASE CommitClose(r)
    <2>1. PICK c \in Cases : c = req[r].case /\ Received(c, req[r].ref) /\ req[r].ref \in GatewayRefunds \cup {None}
      BY <1>0, <1>13, Fields DEF CommitClose, GoodCall
    <2>2. /\ UNCHANGED <<early, gateway>> /\ End(r)
          /\ refund' = [refund EXCEPT ![c] = "COMPLETED"]
          /\ gatewayRef' = [gatewayRef EXCEPT ![c] = IF req[r].event THEN @ ELSE req[r].ref]
          /\ told' = IF req[r].event THEN Told(req[r].ref) ELSE told
      BY <1>13, <2>1 DEF CommitClose
    <2>3. /\ refund'[c] # "PROCESSING"
          /\ \A d \in Cases \ {c} : refund'[d] = refund[d] /\ gatewayRef'[d] = gatewayRef[d]
      BY <1>0, <2>2 DEF TypeOK
    <2>4. \A q \in Requests : req'[q].op # "book"
      BY <1>5, <2>2
    <2>5. CASE req[r].event /\ req[r].ref # None
      <3>1. PICK g \in GatewayRefunds : g = req[r].ref /\ Sent(c, g)
        BY <2>1, <2>5 DEF Sent, Received
      <3>2. told' = told \cup {g}
        BY <1>1, <2>2, <2>5, <3>1 DEF Told
      <3>3. gatewayRef' = gatewayRef
        BY <1>0, <2>2, <2>5 DEF TypeOK
      <3> QED
        BY <1>1, <2>2, <2>3, <2>4, <3>1, <3>2, <3>3, Answered
    <2>6. CASE ~(req[r].event /\ req[r].ref # None)
      <3>1. told' = told
        BY <1>1, <2>2, <2>6 DEF Told
      <3>2. NoEventSwallowed'
        BY <1>1, <2>2, <2>3, <3>1 DEF EventInv, NoEventSwallowed
      <3> QED
        BY <2>2, <2>4, <3>1, <3>2 DEF EventInv, Unstored
    <2> QED
      BY <2>5, <2>6
  <1> QED
    BY <1>6, <1>7, <1>8, <1>9, <1>10, <1>11, <1>12, <1>13 DEF Call

(* An event that nothing is done about. *)
LEMMA EventDismissed ==
  ASSUME ReturnInv, EventInv, NEW g \in GatewayRefunds, Dismiss(g)
  PROVE  EventInv'
  <1>0. TypeOK /\ g # None /\ ~overlapped
    BY ReturnAssumption DEF ReturnInv, Dismiss
  <1>1. /\ UNCHANGED <<refund, gatewayRef, gateway, req>> /\ told' = told \cup {g}
        /\ \A c \in Cases : gatewayRef[c] = g => refund[c] # "PROCESSING"
        /\ gateway[g].state # "NONE"
        /\ early' = IF \E c \in Cases : gatewayRef[c] = g THEN early ELSE early \cup {g}
    BY DEF Dismiss, Ended, Actionable, InFlight, refundVars
  <1>2. NoEventSwallowed'
    BY <1>0, <1>1 DEF EventInv, NoEventSwallowed
  <1>3. \A r \in Requests : Unstored(req[r])'
    BY <1>0, <1>1 DEF EventInv, Unstored
  <1> QED
    BY <1>1, <1>2, <1>3 DEF EventInv

(* Once calls overlap, only what was told before is remembered.             *)
LEMMA EventAfter ==
  ASSUME ReturnInv, EventInv, [Next]_vars, overlapped'
  PROVE  EventInv'
  <1>1. \A g \in told' : gateway'[g].state # "NONE"
    <2>1. \A g \in told : gateway'[g].state # "NONE"
      BY Grow DEF EventInv, ReturnInv, TypeOK
    <2>2. ASSUME told' # told
          PROVE  \E r \in Requests : BookFailure(r) \/ CommitClose(r)
      <3>1. ~\E g \in GatewayRefunds : Dismiss(g)
        BY DEF Dismiss
      <3>2. ~\E g \in GatewayRefunds : Settle(g)
        BY <2>2 DEF Settle
      <3>3. ASSUME NEW r \in Requests, Call(r) PROVE BookFailure(r) \/ CommitClose(r)
        BY <2>2, <3>3 DEF Call, ReadRequest, ReadStep, ReadInspect, ReadInitiate, ReadComplete, ReadEvent,
           Begin, Drop, CommitRequest, CommitStep, CommitInspect, CommitInitiate, CallGateway,
           BookProcessing, CountCompleted, gatewayVars
      <3> QED
        BY <2>2, <3>1, <3>2, <3>3 DEF Next, vars, gatewayVars
    <2>3. ASSUME NEW r \in Requests, BookFailure(r) \/ CommitClose(r) PROVE told' = told
      BY <2>3 DEF BookFailure, CommitClose, Told
    <2> QED
      BY <2>1, <2>2, <2>3
  <1> QED
    BY <1>1 DEF EventInv, NoEventSwallowed

(* EventInv survives every step. *)
LEMMA EventStep ==
  ASSUME ReturnInv, SerialInv, EventInv, [Next]_vars
  PROVE  EventInv'
  <1>0. TypeOK
    BY DEF ReturnInv
  <1>1. CASE UNCHANGED vars
    BY <1>1 DEF vars, refundVars, gatewayVars, EventInv, Unstored, NoEventSwallowed
  <1>2. ASSUME NEW g \in GatewayRefunds, Settle(g) PROVE EventInv'
    <2>1. /\ UNCHANGED <<told, early, gatewayRef, refund, req, overlapped>>
          /\ \A h \in GatewayRefunds : gateway[h].state # "NONE" => gateway'[h].state # "NONE"
      BY <1>0, <1>2 DEF Settle, TypeOK, refundVars
    <2>2. \A h \in told' : gateway'[h].state # "NONE"
      BY <1>0, <2>1 DEF EventInv, TypeOK
    <2> QED
      BY <2>1, <2>2 DEF EventInv, Unstored, NoEventSwallowed
  <1>3. ASSUME NEW g \in GatewayRefunds, Dismiss(g) PROVE EventInv'
    BY <1>3, EventDismissed
  <1>4. ASSUME NEW r \in Requests, Call(r) PROVE EventInv'
    <2>1. CASE overlapped'
      BY <2>1, EventAfter
    <2>2. CASE ~overlapped'
      BY <1>4, <2>2, EventCall
    <2> QED
      BY <2>1, <2>2
  <1> QED
    BY <1>1, <1>2, <1>3, <1>4 DEF Next

-----------------------------------------------------------------------------
(* An order that counts as REFUNDED *)

(* The cases whose buyer has the money. *)
InHands == {c \in Cases : InHand(c)}

(* The refunds of these cases make up, with the resolved slices, the total. *)
Covers(S) == sliceRefunds + Total(S) >= GrandTotal

(* The money of a refund that a transaction is about to complete counts.    *)
CoverInv ==
  /\ \A c \in Cases : refund[c] = "COMPLETED" => completions[c] > 0
  /\ \A c \in Cases : refund[c] = "NONE" => completions[c] = 0 /\ Taken(c) = {}
  /\ \A r \in Requests : req[r].op \in {"refund", "book", "event", "close"} => refund[req[r].case] # "NONE"
  /\ \A r \in Requests :
       req[r].op = "close" /\ req[r].full => Covers(InHands \cup {req[r].case})
  /\ order = "REFUNDED" => Covers(InHands)

(* No refund exists. *)
LEMMA CoverInit == Init => CoverInv
  BY ReturnAssumption DEF Init, CoverInv, Taken, Idle

(* A refund row stays, its amount is fixed, and money in hand stays there.  *)
LEMMA RefundsStay ==
  ASSUME ReturnInv, CoverInv, [Next]_vars, NEW c \in Cases
  PROVE  /\ refund[c] # "NONE" => refund'[c] # "NONE" /\ amount'[c] = amount[c]
         /\ InHand(c) => InHand(c)' /\ refund[c] # "NONE"
  <1>0. TypeOK /\ TypeOK'
    BY TypeStep DEF ReturnInv
  <1>1. refund[c] # "NONE" => refund'[c] # "NONE" /\ amount'[c] = amount[c]
    <2>1. CASE UNCHANGED <<refund, amount>>
      BY <2>1
    <2>2. ASSUME NEW r \in Requests,
                 CommitInitiate(r) \/ BookProcessing(r) \/ BookFailure(r) \/ CommitClose(r)
          PROVE  refund[c] # "NONE" => refund'[c] # "NONE" /\ amount'[c] = amount[c]
      BY <1>0, <2>2 DEF CommitInitiate, BookProcessing, NextRefundState, BookFailure, CommitClose, TypeOK
    <2>3. ASSUME NEW r \in Requests, Call(r), ~UNCHANGED <<refund, amount>>
          PROVE  CommitInitiate(r) \/ BookProcessing(r) \/ BookFailure(r) \/ CommitClose(r)
      BY <2>3 DEF Call, ReadRequest, ReadStep, ReadInspect, ReadInitiate, ReadComplete, ReadEvent, Begin,
                  Drop, CommitRequest, CommitStep, CommitInspect, CallGateway, CountCompleted, refundVars
    <2>4. ASSUME NEW g \in GatewayRefunds, Settle(g) \/ Dismiss(g) PROVE UNCHANGED <<refund, amount>>
      BY <2>4 DEF Settle, Dismiss, refundVars
    <2> QED
      BY <2>1, <2>2, <2>3, <2>4 DEF Next, vars, refundVars
  <1>2. InHand(c) => InHand(c)'
    <2>1. \A g \in GatewayRefunds :
            gateway[g].case = c /\ gateway[g].state = "PROCESSED"
              => gateway'[g].case = c /\ gateway'[g].state = "PROCESSED"
      BY Grow
    <2>2. method' = method /\ completions[c] \in Nat /\ completions'[c] \in Nat
          /\ completions'[c] >= completions[c]
      BY <1>0, Grow DEF TypeOK
    <2> QED
      BY <2>1, <2>2 DEF InHand, Taken
  <1>3. InHand(c) => refund[c] # "NONE"
    BY <1>0 DEF CoverInv, InHand, TypeOK
  <1> QED
    BY <1>1, <1>2, <1>3

(* What covers the total still does when more money is in hand. *)
LEMMA CoverGrows ==
  ASSUME ReturnInv, CoverInv, [Next]_vars, NEW S \in SUBSET Cases, NEW T \in SUBSET Cases,
         \A c \in S : refund[c] # "NONE", S \subseteq T, Covers(S)
  PROVE  Covers(T)'
  <1>0. TypeOK /\ TypeOK'
    BY TypeStep DEF ReturnInv
  <1>1. \A c \in S : amount'[c] = amount[c]
    BY RefundsStay
  <1>2. Total(S) <= SumFunctionOnSet(amount', T)
    BY <1>0, <1>1, TotalGrows
  <1>3. /\ Total(S) \in Nat /\ GrandTotal \in Nat /\ sliceRefunds \in Nat /\ sliceRefunds' = sliceRefunds
        /\ SumFunctionOnSet(amount', T) \in Nat
    <2>1. IsFiniteSet(T) /\ \A c \in T : amount'[c] \in Nat
      BY <1>0, SumTypes DEF TypeOK
    <2> QED
      BY <1>0, <2>1, SumTypes, SumNat, GrandTotalIs, SlicesStay DEF TypeOK
  <1>4. sliceRefunds' + SumFunctionOnSet(amount', T) >= GrandTotal
    BY <1>2, <1>3 DEF Covers
  <1> QED
    BY <1>4 DEF Covers, Total

(* The sum that a transaction reads is of money that is in hand, but for    *)
(* the refund it is about.                                                  *)
LEMMA CountCovers ==
  ASSUME ReturnInv, CoverInv, NEW c \in Cases, CompletedWith(c) >= GrandTotal
  PROVE  Covers(InHands \cup {c})
  <1>0. TypeOK
    BY DEF ReturnInv
  <1>1. Others(c) \subseteq InHands /\ Others(c) \in SUBSET Cases /\ c \in Cases \ Others(c)
        /\ InHands \cup {c} \in SUBSET Cases
    BY DEF Others, InHands, CoverInv, ReturnInv, GoodRows, GoodRow
  <1>2. CompletedWith(c) = sliceRefunds + Total(Others(c) \cup {c})
    <2>1. CompletedWith(c) = sliceRefunds + amount[c] + Total(Others(c))
      BY CompletedWithIs
    <2>2. Total(Others(c) \cup {c}) = Total(Others(c)) + amount[c]
      BY <1>0, <1>1, TotalAdd
    <2>3. amount[c] \in Nat /\ Total(Others(c)) \in Nat /\ sliceRefunds \in Nat
      BY <1>0, <1>1, SumTypes DEF TypeOK
    <2> QED
      BY <2>1, <2>2, <2>3
  <1>3. Total(Others(c) \cup {c}) <= Total(InHands \cup {c})
    <2>1. (Others(c) \cup {c}) \subseteq (InHands \cup {c}) /\ IsFiniteSet(InHands \cup {c})
          /\ \A d \in InHands \cup {c} : amount[d] \in Nat
      BY <1>0, <1>1, SumTypes DEF TypeOK
    <2>2. PICK R, S : R = Others(c) \cup {c} /\ S = InHands \cup {c}
      OBVIOUS
    <2>3. SumFunctionOnSet(amount, R) <= SumFunctionOnSet(amount, S)
      BY <2>1, <2>2, SumSubset
    <2> QED
      BY <2>2, <2>3 DEF Total
  <1>4. /\ GrandTotal \in Nat /\ sliceRefunds \in Nat
        /\ Total(Others(c) \cup {c}) \in Nat /\ Total(InHands \cup {c}) \in Nat
    <2>1. Others(c) \cup {c} \in SUBSET Cases
      BY <1>1
    <2> QED
      BY <1>0, <1>1, <2>1, SumTypes, GrandTotalIs DEF TypeOK
  <1> QED
    BY <1>2, <1>3, <1>4 DEF Covers

(* What CoverInv says of one call. *)
Covering(x) ==
  /\ x.op \in {"refund", "book", "event", "close"} => refund[x.case] # "NONE"
  /\ x.op = "close" /\ x.full => Covers(InHands \cup {x.case})

(* A covered call stays covered. *)
LEMMA CoveringStays ==
  ASSUME ReturnInv, CoverInv, [Next]_vars, NEW x \in Request, Covering(x)
  PROVE  Covering(x)'
  <1>1. x.op \in {"refund", "book", "event", "close"} => x.case \in Cases
    BY Fields
  <1>2. x.op \in {"refund", "book", "event", "close"} => refund'[x.case] # "NONE"
    BY <1>1, RefundsStay DEF Covering
  <1>3. ASSUME x.op = "close", x.full PROVE Covers(InHands \cup {x.case})'
    <2>1. PICK c \in Cases : c = x.case /\ refund[c] # "NONE"
      BY <1>1, <1>3 DEF Covering
    <2>2. PICK S, T : S = InHands \cup {c} /\ T = InHands' \cup {c}
      OBVIOUS
    <2>3. S \in SUBSET Cases /\ T \in SUBSET Cases /\ S \subseteq T /\ \A d \in S : refund[d] # "NONE"
      BY <2>1, <2>2, RefundsStay DEF InHands
    <2>4. Covers(S)
      BY <1>3, <2>1, <2>2 DEF Covering
    <2>5. Covers(T)'
      BY <2>3, <2>4, CoverGrows
    <2> QED
      BY <2>1, <2>2, <2>5 DEF Covers, Total
  <1> QED
    BY <1>2, <1>3 DEF Covering

(* A call that has just read is about a refund that exists, or about none. *)
LEMMA ReadCovers ==
  ASSUME ReturnInv, NEW r \in Requests, NEW x \in Request, Begin(r, x), Call(r)
  PROVE  Covering(x)
  <1>0. TypeOK /\ req[r] = Idle
    BY DEF ReturnInv, Begin
  <1>a. ASSUME NEW y, Begin(r, y) PROVE x = y
    BY <1>0, <1>a DEF Begin, TypeOK
  <1>1. CASE ReadRequest(r)
    <2>1. x.op = "request"
      BY <1>1, <1>a DEF ReadRequest
    <2> QED
      BY <2>1 DEF Covering
  <1>2. ASSUME NEW c \in Cases, ReadStep(r, c) PROVE Covering(x)
    <2>1. x.op = "step"
      BY <1>2, <1>a DEF ReadStep
    <2> QED
      BY <2>1 DEF Covering
  <1>3. ASSUME NEW c \in Cases, ReadInspect(r, c) PROVE Covering(x)
    <2>1. x.op = "inspect"
      BY <1>3, <1>a DEF ReadInspect
    <2> QED
      BY <2>1 DEF Covering
  <1>4. ASSUME NEW c \in Cases, ReadInitiate(r, c) PROVE Covering(x)
    <2>1. x.op = "initiate"
      BY <1>4, <1>a DEF ReadInitiate
    <2> QED
      BY <2>1 DEF Covering
  <1>5. ASSUME NEW c \in Cases, ReadComplete(r, c) PROVE Covering(x)
    <2>1. x.op \in {"refund", "book"} /\ x.case = c
      BY <1>5, <1>a DEF ReadComplete
    <2> QED
      BY <1>5, <2>1 DEF ReadComplete, MayComplete, Covering
  <1>6. ASSUME NEW c \in Cases, NEW g \in GatewayRefunds, ReadEvent(r, g, c) PROVE Covering(x)
    <2>1. x.op = "event" /\ x.case = c
      BY <1>6, <1>a DEF ReadEvent
    <2> QED
      BY <1>6, <2>1 DEF ReadEvent, Actionable, InFlight, Covering
  <1>7. req[r].op = "idle"
    BY <1>0 DEF Idle
  <1> QED
    BY <1>0, <1>1, <1>2, <1>3, <1>4, <1>5, <1>6, <1>7
       DEF Call, Drop, CommitRequest, CommitStep, CommitInspect, CommitInitiate, CallGateway,
           BookProcessing, BookFailure, CountCompleted, CommitClose

(* Every call that a step leaves in flight is covered. *)
LEMMA CoveringCalls ==
  ASSUME ReturnInv, CoverInv, [Next]_vars, NEW r \in Requests, Call(r)
  PROVE  \A q \in Requests : Covering(req[q])'
  <1>0. /\ TypeOK /\ req[r] \in Request /\ Idle \in Request
        /\ \A q \in Requests : req[q] \in Request /\ Covering(req[q])
    BY DEF ReturnInv, TypeOK, Request, CoverInv, Covering
  <1>1. ASSUME NEW x \in Request, Covering(x)', Begin(r, x) \/ Proceed(r, x)
        PROVE  \A q \in Requests : Covering(req[q])'
    <2> SUFFICES ASSUME NEW q \in Requests PROVE Covering(req[q])'
      OBVIOUS
    <2>1. req'[q] = IF q = r THEN x ELSE req[q]
      BY <1>0, <1>1, SlotType, BeginType
    <2>2. CASE q = r
      BY <1>1, <2>1, <2>2 DEF Covering
    <2>3. CASE q # r
      <3>1. PICK y \in Request : y = req[q] /\ y = req'[q] /\ Covering(y)
        BY <1>0, <2>1, <2>3
      <3>2. Covering(y)'
        BY <3>1, CoveringStays
      <3> QED
        BY <3>1, <3>2 DEF Covering
    <2> QED
      BY <2>2, <2>3
  <1>2. CASE End(r)
    <2>1. Covering(Idle)'
      BY DEF Covering, Idle
    <2> QED
      BY <1>0, <1>1, <1>2, <2>1 DEF End
  <1>3. CASE \/ ReadRequest(r)
             \/ \E c \in Cases : \/ ReadStep(r, c) \/ ReadInspect(r, c) \/ ReadInitiate(r, c)
                                \/ ReadComplete(r, c)
                                \/ \E g \in GatewayRefunds : ReadEvent(r, g, c)
    <2>1. PICK x \in Request : Begin(r, x) /\ Covering(x)
      BY <1>0, <1>3, ReadType, ReadCovers
    <2> QED
      BY <1>1, <2>1, CoveringStays
  <1>4. ASSUME NEW g \in GatewayRefunds, CallGateway(r, g) PROVE \A q \in Requests : Covering(req[q])'
    <2>1. PICK c \in Cases : c = req[r].case /\ refund[c] # "NONE"
      BY <1>0, <1>4, Fields DEF CallGateway, Covering
    <2>2. PICK state \in {"PROCESSING", "PROCESSED"} :
            Proceed(r, [op |-> "book", case |-> c, ref |-> g, terminal |-> state = "PROCESSED"])
      BY <1>4, <2>1 DEF CallGateway
    <2>3. PICK x : x = [op |-> "book", case |-> c, ref |-> g, terminal |-> state = "PROCESSED"]
      OBVIOUS
    <2>4. x \in Request /\ x.op = "book" /\ x.case = c
      BY <2>3 DEF Request
    <2>5. Covering(x)
      BY <2>1, <2>4 DEF Covering
    <2> QED
      BY <1>1, <2>2, <2>3, <2>4, <2>5, CoveringStays
  <1>5. CASE CountCompleted(r)
    <2>1. PICK c \in Cases : c = req[r].case /\ refund[c] # "NONE"
      BY <1>0, <1>5, Fields DEF CountCompleted, Covering
    <2>2. PICK full \in BOOLEAN :
            /\ full = (CompletedWith(c) >= GrandTotal)
            /\ Proceed(r, [op |-> "close", case |-> c, ref |-> req[r].ref,
                           event |-> req[r].op = "event", full |-> full])
      BY <1>5, <2>1 DEF CountCompleted
    <2>3. PICK x : x = [op |-> "close", case |-> c, ref |-> req[r].ref,
                        event |-> req[r].op = "event", full |-> full]
      OBVIOUS
    <2>4. req[r].ref \in GatewayRefunds \cup {None}
      BY <1>0, <1>5, Fields DEF CountCompleted
    <2>5. x \in Request /\ x.op = "close" /\ x.case = c /\ x.full = full
      BY <2>3, <2>4 DEF Request
    <2>6. x.full => CompletedWith(c) >= GrandTotal
      BY Zenon, <2>2, <2>5
    <2>7. Covering(x)
      BY <2>1, <2>5, <2>6, CountCovers DEF Covering
    <2> QED
      BY <1>1, <2>2, <2>3, <2>5, <2>7, CoveringStays
  <1> QED
    BY <1>2, <1>3, <1>4, <1>5 DEF Call, Drop, CommitRequest, CommitStep, CommitInspect, CommitInitiate,
       BookProcessing, BookFailure, CommitClose

(* A refund row stands for every debit and for every refund at the gateway. *)
LEMMA CoverRows ==
  ASSUME ReturnInv, CoverInv, [Next]_vars, NEW c \in Cases
  PROVE  /\ refund'[c] = "COMPLETED" => completions'[c] > 0
         /\ refund'[c] = "NONE" => completions'[c] = 0 /\ Taken(c)' = {}
  <1>0. /\ TypeOK /\ TypeOK'
        /\ refund[c] # "NONE" => refund'[c] # "NONE"
        /\ completions'[c] >= completions[c] /\ completions[c] \in Nat /\ completions'[c] \in Nat
        /\ refund[c] = "COMPLETED" => completions[c] > 0
        /\ refund[c] = "NONE" => completions[c] = 0 /\ Taken(c) = {}
    BY TypeStep, Grow, RefundsStay DEF ReturnInv, CoverInv, TypeOK
  <1>1. CASE UNCHANGED <<refund, completions, gateway>>
    BY <1>0, <1>1 DEF Taken
  <1>2. ASSUME NEW r \in Requests, Call(r), ~UNCHANGED <<refund, completions, gateway>>
        PROVE  \/ CommitInitiate(r) \/ BookProcessing(r) \/ BookFailure(r) \/ CommitClose(r)
               \/ \E g \in GatewayRefunds : CallGateway(r, g)
    BY <1>2 DEF Call, ReadRequest, ReadStep, ReadInspect, ReadInitiate, ReadComplete, ReadEvent, Begin,
                Drop, CommitRequest, CommitStep, CommitInspect, CountCompleted, refundVars, gatewayVars
  <1>3. ASSUME NEW r \in Requests, CommitInitiate(r) \/ BookProcessing(r) \/ BookFailure(r)
        PROVE  /\ UNCHANGED <<completions, gateway>>
               /\ refund'[c] = refund[c] \/ refund'[c] \in {"PENDING", "PROCESSING", "FAILED"}
    BY <1>0, <1>3 DEF CommitInitiate, BookProcessing, NextRefundState, BookFailure, TypeOK, gatewayVars
  <1>4. ASSUME NEW r \in Requests, CommitClose(r)
        PROVE  /\ refund'[c] = "COMPLETED" => completions'[c] > 0
               /\ refund'[c] = "NONE" => completions'[c] = 0 /\ Taken(c)' = {}
    <2>1. PICK d \in Cases : d = req[r].case
      BY <1>4, Fields DEF CommitClose, ReturnInv, TypeOK
    <2>2. /\ refund' = [refund EXCEPT ![d] = "COMPLETED"] /\ gateway' = gateway
          /\ completions' = [completions EXCEPT ![d] = completions[d] + 1]
      BY <1>4, <2>1 DEF CommitClose
    <2>3. CASE c = d
      <3>1. refund'[c] = "COMPLETED" /\ completions'[c] = completions[c] + 1
        BY <1>0, <2>2, <2>3 DEF TypeOK
      <3> QED
        BY <1>0, <3>1
    <2>4. CASE c # d
      <3>1. refund'[c] = refund[c] /\ completions'[c] = completions[c] /\ Taken(c)' = Taken(c)
        BY <1>0, <2>2, <2>4 DEF TypeOK, Taken
      <3> QED
        BY <1>0, <3>1
    <2> QED
      BY <2>3, <2>4
  <1>5. ASSUME NEW r \in Requests, NEW g \in GatewayRefunds, CallGateway(r, g)
        PROVE  /\ UNCHANGED <<refund, completions>>
               /\ refund[c] = "NONE" => Taken(c)' = Taken(c)
    <2>1. PICK d \in Cases : d = req[r].case /\ refund[d] # "NONE"
      BY <1>5, Fields DEF CallGateway, ReturnInv, TypeOK, CoverInv
    <2>2. PICK state : gateway' = [gateway EXCEPT ![g] = [case |-> d, state |-> state]]
      BY <1>5, <2>1 DEF CallGateway
    <2>3. gateway[g].case # c
      BY <1>5, ReturnAssumption DEF CallGateway, ReturnInv, GoodGateway
    <2>4. c # d => Taken(c)' = Taken(c)
      BY <1>0, <2>2, <2>3 DEF Taken, TypeOK
    <2> QED
      BY <1>5, <2>1, <2>4 DEF CallGateway, refundVars
  <1>6. ASSUME NEW g \in GatewayRefunds, Settle(g) \/ Dismiss(g)
        PROVE  UNCHANGED <<refund, completions>> /\ Taken(c)' = Taken(c)
    <2>1. \A h \in GatewayRefunds : gateway'[h].case = gateway[h].case
      <3>1. TypeOK
        BY <1>0
      <3>2. CASE Settle(g)
        BY <3>1, <3>2 DEF Settle, TypeOK
      <3>3. CASE Dismiss(g)
        BY <3>3 DEF Dismiss
      <3> QED
        BY <1>6, <3>2, <3>3
    <2> QED
      BY <1>6, <2>1 DEF Settle, Dismiss, Taken, refundVars
  <1>7. ASSUME UNCHANGED gateway PROVE Taken(c)' = Taken(c)
    BY <1>7 DEF Taken
  <1>8. CASE \E r \in Requests : CommitInitiate(r) \/ BookProcessing(r) \/ BookFailure(r)
    BY <1>0, <1>3, <1>7, <1>8
  <1>9. CASE \E r \in Requests, g \in GatewayRefunds : CallGateway(r, g)
    BY <1>0, <1>5, <1>9
  <1>10. CASE \E g \in GatewayRefunds : Settle(g) \/ Dismiss(g)
    BY <1>0, <1>6, <1>10
  <1> QED
    BY <1>1, <1>2, <1>4, <1>8, <1>9, <1>10 DEF Next, vars, refundVars, gatewayVars

(* The order is closed by a transaction whose sum is in hand. *)
LEMMA CoverOrder ==
  ASSUME ReturnInv, CoverInv, [Next]_vars, order' = "REFUNDED"
  PROVE  Covers(InHands)'
  <1>0. TypeOK /\ GoodRows'
    BY RowsStep DEF ReturnInv
  <1>1. InHands' \in SUBSET Cases /\ InHands \in SUBSET Cases /\ InHands \subseteq InHands'
        /\ \A c \in InHands : refund[c] # "NONE"
    BY RefundsStay DEF InHands
  <1>2. ASSUME NEW S \in SUBSET Cases, S \subseteq InHands', \A c \in S : refund[c] # "NONE",
               Covers(S)
        PROVE  Covers(InHands)'
    <2>1. PICK T \in SUBSET Cases : T = InHands'
      BY <1>1
    <2>2. Covers(T)'
      BY <1>2, <2>1, CoverGrows
    <2> QED
      BY <2>1, <2>2 DEF Covers, Total
  <1>3. CASE order = "REFUNDED"
    BY <1>1, <1>2, <1>3 DEF CoverInv
  <1>4. CASE order # "REFUNDED"
    <2>1. ~\E g \in GatewayRefunds : Settle(g) \/ Dismiss(g)
      BY <1>4 DEF Settle, Dismiss
    <2>2. PICK r \in Requests : Call(r)
      BY <1>4, <2>1 DEF Next, vars
    <2>3. CommitClose(r) /\ req[r].full
      BY <1>4, <2>2 DEF Call, ReadRequest, ReadStep, ReadInspect, ReadInitiate, ReadComplete, ReadEvent, Begin,
         Drop, CommitRequest, CommitStep, CommitInspect, CommitInitiate, CallGateway, BookProcessing,
         BookFailure, CountCompleted, CommitClose
    <2>4. PICK c \in Cases : c = req[r].case
      BY <1>0, <2>3, Fields DEF CommitClose, TypeOK
    <2>5. refund[c] # "NONE" /\ Covers(InHands \cup {c})
      BY <2>3, <2>4 DEF CommitClose, CoverInv
    <2>6. InHand(c)'
      <3>1. completions' = [completions EXCEPT ![c] = completions[c] + 1]
        BY <2>3, <2>4 DEF CommitClose
      <3>2. completions'[c] > 0
        BY <1>0, <3>1 DEF TypeOK
      <3> QED
        BY <1>0, <3>2 DEF GoodRows, GoodRow
    <2>7. c \in InHands'
      BY <2>6 DEF InHands
    <2>8. PICK S : S = InHands \cup {c}
      OBVIOUS
    <2> QED
      BY <1>1, <1>2, <2>5, <2>7, <2>8
  <1> QED
    BY <1>3, <1>4

(* CoverInv survives every step. *)
LEMMA CoverStep ==
  ASSUME ReturnInv, CoverInv, [Next]_vars
  PROVE  CoverInv'
  <1>1. \A q \in Requests : Covering(req[q])'
    <2>1. ASSUME NEW r \in Requests, Call(r) PROVE \A q \in Requests : Covering(req[q])'
      BY <2>1, CoveringCalls
    <2>2. ASSUME UNCHANGED req PROVE \A q \in Requests : Covering(req[q])'
      <3> SUFFICES ASSUME NEW q \in Requests PROVE Covering(req[q])'
        OBVIOUS
      <3>1. PICK y \in Request : y = req[q] /\ y = req'[q] /\ Covering(y)
        BY <2>2 DEF ReturnInv, TypeOK, CoverInv, Covering
      <3>2. Covering(y)'
        BY <3>1, CoveringStays
      <3> QED
        BY <3>1, <3>2 DEF Covering
    <2>3. ASSUME NEW g \in GatewayRefunds, Settle(g) \/ Dismiss(g) PROVE UNCHANGED req
      BY <2>3 DEF Settle, Dismiss
    <2> QED
      BY <2>1, <2>2, <2>3 DEF Next, vars
  <1>2. \A c \in Cases : /\ refund'[c] = "COMPLETED" => completions'[c] > 0
                         /\ refund'[c] = "NONE" => completions'[c] = 0 /\ Taken(c)' = {}
    BY CoverRows
  <1>3. order' = "REFUNDED" => Covers(InHands)'
    BY CoverOrder
  <1> QED
    BY <1>1, <1>2, <1>3 DEF CoverInv, Covering

-----------------------------------------------------------------------------
(* The invariant of the refunds. *)
RefundInv == ReturnInv /\ SerialInv /\ EventInv /\ CoverInv

(* RefundInv holds in every state. *)
LEMMA RefundInvariant == Spec => []RefundInv
  <1>1. Init => RefundInv
    BY ReturnInit, SerialInvInit, EventInit, CoverInit DEF RefundInv
  <1>2. RefundInv /\ [Next]_vars => RefundInv'
    <2>1. ReturnInv /\ [Next]_vars => ReturnInv'
      BY TypeStep, CallsStep, RowsStep, GatewayStep DEF ReturnInv
    <2> QED
      BY <2>1, SerialInvStep, EventStep, CoverStep DEF RefundInv
  <1> QED
    BY <1>1, <1>2, PTL DEF Spec

(* An event about a refund that the books still call PROCESSING is only      *)
(* swallowed when it overtook the call that stores its reference, or calls   *)
(* overlapped.                                                               *)
THEOREM NoEventIsLost == Spec => []NoEventSwallowed
  <1>1. RefundInv => NoEventSwallowed
    BY DEF RefundInv, EventInv
  <1> QED
    BY <1>1, RefundInvariant, PTL

(* An order counts as REFUNDED only when the refunds of returns in the       *)
(* buyer's hands make up, with those of its resolved slices, its total,      *)
(* however calls overlap; and as long as they follow one another, nothing is *)
(* returned, refunded or debited twice, all refunds of the order together    *)
(* stay within its total, and the return that makes it up closes the order.  *)
THEOREM WhatIsDueIsRefunded == Spec => []RefundsAreDue
  <1>1. RefundInv => RefundedIsCovered
    <2> SUFFICES ASSUME RefundInv, order = "REFUNDED"
                 PROVE  sliceRefunds + MapThenSumSet(LAMBDA c : amount[c], {c \in Cases : InHand(c)})
                          >= GrandTotal
      BY DEF RefundedIsCovered
    <2>1. sliceRefunds + Total(InHands) >= GrandTotal
      BY DEF RefundInv, CoverInv, Covers
    <2>2. MapThenSumSet(LAMBDA c : amount[c], InHands) = Total(InHands)
      BY SumOfAmounts
    <2> QED
      BY <2>1, <2>2 DEF InHands
  <1>2. RefundInv => OneAtATime
    <2> SUFFICES ASSUME RefundInv, ~overlapped
                 PROVE  /\ \A i \in Items : Used(i) <= Bought[i]
                        /\ AmountIn(ToRefund) <= GrandTotal
                        /\ \A c \in Cases : completions[c] <= 1 /\ Cardinality(Taken(c)) <= 1 + lost
                        /\ order = "REFUNDED" <=>
                             AmountIn({"COMPLETED"}) >= GrandTotal /\ \E c \in Cases : refund[c] = "COMPLETED"
      BY DEF OneAtATime
    <2>1. Covered /\ \A c \in Cases : RefundRow(c) /\ TakenOnce(c)
      BY DEF RefundInv, SerialInv
    <2>2. \A i \in Items : Used(i) <= Bought[i]
      BY <2>1, UsedIs DEF Covered, Returned
    <2>3. In({"COMPLETED"}) # {} <=> \E c \in Cases : refund[c] = "COMPLETED"
      BY DEF In
    <2>4. /\ AmountIn(ToRefund) <= GrandTotal
          /\ order = "REFUNDED" <=>
               AmountIn({"COMPLETED"}) >= GrandTotal /\ \E c \in Cases : refund[c] = "COMPLETED"
      BY <2>1, <2>3, OwedIs DEF Covered
    <2>5. ASSUME NEW c \in Cases PROVE completions[c] <= 1 /\ Cardinality(Taken(c)) <= 1 + lost
      <3>1. lost \in Nat /\ Cardinality(Taken(c)) \in Nat
        BY <2>1, FS_CardinalityType DEF RefundInv, ReturnInv, TypeOK, TakenOnce
      <3> QED
        BY <2>1, <3>1 DEF RefundRow, TakenOnce
    <2> QED
      BY <2>2, <2>4, <2>5
  <1>3. RefundInv => RefundsAreDue
    BY <1>1, <1>2 DEF RefundsAreDue
  <1> QED
    BY <1>3, RefundInvariant, PTL
=============================================================================
