--------------------------- MODULE CustomerProofs ---------------------------
(***************************************************************************)
(* A customer's sessions, addresses, carts and reviews, for any number of  *)
(* rows, of calls at the same time, of buyers and ratings and any stock.   *)
(* Each service writes by id what it checked in an earlier read, so what a *)
(* call still knows of the rows it has read, and until when, is the heart  *)
(* of each of the inductive invariants.  Then the money of an order, for   *)
(* any goods, rates, coupons and number of lines.                          *)
(***************************************************************************)
EXTENDS Customer, Sequences, FiniteSums

-----------------------------------------------------------------------------
(* Sessions *)

(* A call about a session knows one that was opened. *)
SessionTypes ==
  /\ opened \in 0 .. MaxSessions
  /\ open \in [Sessions!Rows -> {TRUE, FALSE, None}]
  /\ login \in [Sessions!Rows -> Nat \cup {None}]
  /\ \A n \in Sessions!Opened : login[n] \in 1 .. n
  /\ \A l \in caught : \E n \in Sessions!Opened : login[n] = l
  /\ \A c \in Calls : sessionReq[c] # Sessions!Idle => sessionReq[c].row \in Sessions!Opened
  /\ sessionReq \in [Calls -> [op : {"idle", "reuse", "expired", "rotate", "open"}, row : Nat \cup {None}]]

(* Between its two writes, a refresh is all there is of its login. *)
Refreshing(c) == sessionReq[c].op = "open"
LoginOf(c) == login[sessionReq[c].row]

OneRefreshPerLogin ==
  /\ \A c \in Calls : Refreshing(c) => \A n \in Sessions!Live : login[n] # LoginOf(c)
  /\ \A c, d \in Calls : Refreshing(c) /\ Refreshing(d) /\ LoginOf(c) = LoginOf(d) => c = d

SessionInv == SessionTypes /\ (~raced => OneSessionPerLogin /\ OneRefreshPerLogin)

LEMMA SessionInit == Sessions!Init => SessionInv
  <1> SUFFICES ASSUME Sessions!Init PROVE SessionInv
    OBVIOUS
  <1>1. Sessions!Opened = {} /\ Sessions!Live = {}
    BY DEF Sessions!Init, Sessions!Opened, Sessions!Live
  <1>2. SessionTypes
    <2>1. caught = {}
      BY DEF Sessions!Init
    <2>2. open \in [Sessions!Rows -> {TRUE, FALSE, None}] /\ login \in [Sessions!Rows -> Nat \cup {None}]
      BY DEF Sessions!Init
    <2>3. sessionReq \in [Calls -> [op : {"idle", "reuse", "expired", "rotate", "open"}, row : Nat \cup {None}]]
      BY DEF Sessions!Init, Sessions!Idle
    <2>4. opened \in 0 .. MaxSessions
      BY CustomerAssumption DEF Sessions!Init
    <2> QED
      BY <1>1, <2>1, <2>2, <2>3, <2>4 DEF Sessions!Init, SessionTypes
  <1>3. OneRefreshPerLogin /\ OneSessionPerLogin
    BY <1>1 DEF Sessions!Init, OneRefreshPerLogin, OneSessionPerLogin, Sessions!OneSessionPerLogin,
                Refreshing, Sessions!Idle
  <1> QED
    BY <1>2, <1>3 DEF SessionInv

LEMMA SessionsStay ==
  ASSUME SessionInv, UNCHANGED <<open, login, opened, caught, sessionReq, raced>>
  PROVE  SessionInv'
  <1>1. Sessions!Opened' = Sessions!Opened /\ Sessions!Live' = Sessions!Live
    BY DEF Sessions!Opened, Sessions!Live
  <1>2. SessionTypes'
    BY <1>1 DEF SessionInv, SessionTypes, Sessions!Idle
  <1>3. ~raced' => OneSessionPerLogin' /\ OneRefreshPerLogin'
    BY <1>1 DEF SessionInv, OneRefreshPerLogin, OneSessionPerLogin, Sessions!OneSessionPerLogin, Refreshing,
                LoginOf
  <1> QED
    BY <1>2, <1>3 DEF SessionInv

(* No session is opened, and none of the calls is between its writes anew.  *)
LEMMA SessionsClose ==
  ASSUME SessionInv, NEW S \in SUBSET Sessions!Opened, Sessions!Close(S),
         UNCHANGED <<login, opened, caught, raced, sessionReq>>
  PROVE  SessionInv'
  <1>0. SessionTypes
    BY DEF SessionInv
  <1>1. \A n \in Sessions!Rows : open'[n] = IF n \in S THEN FALSE ELSE open[n]
    BY DEF Sessions!Close
  <1>2. Sessions!Opened' = Sessions!Opened
    BY DEF Sessions!Opened
  <1>3. Sessions!Opened \subseteq Sessions!Rows
    BY <1>0, CustomerAssumption DEF SessionTypes, Sessions!Opened, Sessions!Rows
  <1>4. Sessions!Live' \subseteq Sessions!Live
    BY <1>1, <1>2, <1>3 DEF Sessions!Live
  <1>5. open' \in [Sessions!Rows -> {TRUE, FALSE, None}]
    BY <1>0 DEF SessionTypes, Sessions!Close
  <1>6. SessionTypes'
    BY <1>0, <1>2, <1>5 DEF SessionTypes, Sessions!Idle
  <1>7. ~raced' => OneSessionPerLogin' /\ OneRefreshPerLogin'
    BY <1>4 DEF SessionInv, OneRefreshPerLogin, OneSessionPerLogin, Sessions!OneSessionPerLogin, Refreshing,
                LoginOf
  <1> QED
    BY <1>6, <1>7 DEF SessionInv

(* A call that only notes what it will do next, and with which session. *)
LEMMA SessionsCall ==
  ASSUME SessionInv, NEW c \in Calls,
         NEW x \in [op : {"idle", "reuse", "expired", "rotate", "open"}, row : Nat \cup {None}],
         x = Sessions!Idle \/ (x.op # "open" /\ x.row \in Sessions!Opened),
         sessionReq' = [sessionReq EXCEPT ![c] = x],
         UNCHANGED <<open, login, opened, caught, raced>>
  PROVE  SessionInv'
  <1>0. SessionTypes
    BY DEF SessionInv
  <1>1. /\ Sessions!Opened' = Sessions!Opened /\ Sessions!Live' = Sessions!Live
        /\ x.op # "open"
        /\ \A d \in Calls : sessionReq'[d] = IF d = c THEN x ELSE sessionReq[d]
    BY <1>0 DEF Sessions!Opened, Sessions!Live, Sessions!Idle, SessionTypes
  <1>2. SessionTypes'
    <2>1. sessionReq' \in [Calls -> [op : {"idle", "reuse", "expired", "rotate", "open"}, row : Nat \cup {None}]]
      BY <1>0 DEF SessionTypes
    <2>2. \A d \in Calls : sessionReq'[d] # Sessions!Idle => sessionReq'[d].row \in Sessions!Opened'
      BY <1>0, <1>1 DEF SessionTypes
    <2>3. (\A l \in caught' : \E n \in Sessions!Opened' : login'[n] = l) /\ \A n \in Sessions!Opened' : login'[n] \in 1 .. n
      BY <1>0, <1>1 DEF SessionTypes
    <2>4. opened' \in 0 .. MaxSessions /\ open' \in [Sessions!Rows -> {TRUE, FALSE, None}]
      BY <1>0 DEF SessionTypes
    <2>5. login' \in [Sessions!Rows -> Nat \cup {None}]
      BY <1>0 DEF SessionTypes
    <2> QED
      BY <2>1, <2>2, <2>3, <2>4, <2>5 DEF SessionTypes, Sessions!Idle
  <1>3. ~raced' => OneSessionPerLogin' /\ OneRefreshPerLogin'
    BY <1>1 DEF SessionInv, OneRefreshPerLogin, OneSessionPerLogin, Sessions!OneSessionPerLogin, Refreshing,
                LoginOf
  <1> QED
    BY <1>2, <1>3 DEF SessionInv

LEMMA SessionOpens ==
  ASSUME SessionInv, NEW c \in Calls,
         \/ Sessions!Login(c)
         \/ Sessions!OpenNext(c)
  PROVE  SessionInv'
  <1>0. SessionTypes
    BY DEF SessionInv
  <1> DEFINE n == opened + 1
  <1>1. PICK l : /\ opened < MaxSessions /\ opened' = n
                 /\ open' = [open EXCEPT ![n] = TRUE] /\ login' = [login EXCEPT ![n] = l]
                 /\ caught' = caught
                 /\ \/ l = n /\ UNCHANGED <<sessionReq, raced>>
                    \/ /\ l = LoginOf(c) /\ Refreshing(c)
                       /\ raced' = (raced \/ LoginOf(c) \in caught)
                       /\ sessionReq' = [sessionReq EXCEPT ![c] = Sessions!Idle]
    <2>1. CASE Sessions!Login(c)
      BY <2>1 DEF Sessions!Login, Sessions!Open
    <2>2. CASE Sessions!OpenNext(c)
      <3>1. sessionReq[c].row # None
        BY <1>0, <2>2, CustomerAssumption DEF Sessions!OpenNext, SessionTypes, Sessions!Idle, Sessions!Opened
      <3> QED
        BY <2>2, <3>1 DEF Sessions!OpenNext, Sessions!Open, Sessions!End, LoginOf, Refreshing
    <2> QED
      BY <2>1, <2>2
  <1>2. n \in Sessions!Rows /\ n \notin Sessions!Opened /\ Sessions!Opened' = Sessions!Opened \cup {n}
    BY <1>0, <1>1, CustomerAssumption DEF SessionTypes, Sessions!Rows, Sessions!Opened
  <1>3. Sessions!Opened \subseteq Sessions!Rows
    BY <1>0, CustomerAssumption DEF SessionTypes, Sessions!Opened, Sessions!Rows
  <1>4. \A m \in Sessions!Opened : login'[m] = login[m] /\ open'[m] = open[m] /\ login[m] \in 1 .. m /\ m # n
    BY <1>0, <1>1, <1>2, <1>3 DEF SessionTypes
  <1>5. login'[n] = l /\ open'[n] = TRUE
    BY <1>0, <1>1, <1>2 DEF SessionTypes
  <1>6. \A d \in Calls : Refreshing(d) => sessionReq[d].row \in Sessions!Opened
    BY <1>0 DEF SessionTypes, Refreshing, Sessions!Idle
  <1>7. l \in 1 .. n
    BY <1>0, <1>1, <1>4, <1>6 DEF SessionTypes, LoginOf, Sessions!Opened
  <1>8. Sessions!Live' = Sessions!Live \cup {n}
    BY <1>2, <1>4, <1>5 DEF Sessions!Live
  <1>9. \A d \in Calls : sessionReq'[d] \in {sessionReq[d], Sessions!Idle}
    BY <1>0, <1>1 DEF SessionTypes
  <1>10. SessionTypes'
    <2>1. open' \in [Sessions!Rows -> {TRUE, FALSE, None}]
      BY <1>0, <1>1 DEF SessionTypes
    <2>7. login' \in [Sessions!Rows -> Nat \cup {None}]
      <3>1. l \in Nat \cup {None}
        BY <1>7
      <3> HIDE DEF n
      <3> QED
        BY <1>0, <1>1, <3>1 DEF SessionTypes
    <2>2. sessionReq' \in [Calls -> [op : {"idle", "reuse", "expired", "rotate", "open"}, row : Nat \cup {None}]]
      BY <1>0, <1>1 DEF SessionTypes, Sessions!Idle
    <2>3. opened' \in 0 .. MaxSessions
      BY <1>0, <1>1, CustomerAssumption DEF SessionTypes
    <2>4. \A k \in caught' : \E m \in Sessions!Opened' : login'[m] = k
      BY <1>0, <1>1, <1>2, <1>4 DEF SessionTypes
    <2>5. \A m \in Sessions!Opened' : login'[m] \in 1 .. m
      BY <1>2, <1>4, <1>5, <1>7
    <2>6. \A d \in Calls : sessionReq'[d] # Sessions!Idle => sessionReq'[d].row \in Sessions!Opened'
      BY <1>0, <1>2, <1>9 DEF SessionTypes
    <2> QED
      BY <2>1, <2>2, <2>3, <2>4, <2>5, <2>6, <2>7 DEF SessionTypes, Sessions!Idle
  <1>11. ASSUME ~raced' PROVE OneSessionPerLogin' /\ OneRefreshPerLogin'
    <2>1. ~raced /\ OneSessionPerLogin /\ OneRefreshPerLogin
      <3>1. raced => raced'
        BY Zenon DEF Sessions!Login, Sessions!OpenNext
      <3> QED
        BY <1>11, <3>1 DEF SessionInv
    <2>2. l \notin caught /\ \A m \in Sessions!Live : login[m] # l
      <3>1. CASE l = n
        BY <1>0, <1>2, <1>4, <3>1 DEF SessionTypes, Sessions!Live, Sessions!Opened
      <3>2. CASE l = LoginOf(c) /\ Refreshing(c) /\ raced' = (raced \/ LoginOf(c) \in caught)
        BY <1>11, <2>1, <3>2 DEF OneRefreshPerLogin
      <3> QED
        BY <1>1, <3>1, <3>2
    <2>3. \A d \in Calls : Refreshing(d)' => Refreshing(d) /\ LoginOf(d)' = LoginOf(d) /\ LoginOf(d) # l
      <3> SUFFICES ASSUME NEW d \in Calls, Refreshing(d)'
                   PROVE  Refreshing(d) /\ LoginOf(d)' = LoginOf(d) /\ LoginOf(d) # l
        OBVIOUS
      <3>1. sessionReq'[d] = sessionReq[d] /\ Refreshing(d)
        BY <1>9 DEF Refreshing, Sessions!Idle
      <3>2. LoginOf(d)' = LoginOf(d)
        BY <1>4, <1>6, <3>1 DEF LoginOf
      <3>3. LoginOf(d) # l
        <4>1. CASE l = n
          <5>1. LoginOf(d) \in 1 .. opened
            BY <1>0, <1>4, <1>6, <3>1 DEF LoginOf, Sessions!Opened, SessionTypes
          <5> QED
            BY <1>0, <4>1, <5>1 DEF SessionTypes
        <4>2. CASE l = LoginOf(c) /\ Refreshing(c) /\ sessionReq' = [sessionReq EXCEPT ![c] = Sessions!Idle]
          <5>1. d # c
            BY <1>0, <3>1, <4>2 DEF SessionTypes, Refreshing, Sessions!Idle
          <5> QED
            BY <2>1, <3>1, <4>2, <5>1 DEF OneRefreshPerLogin
        <4> QED
          BY <1>1, <4>1, <4>2
      <3> QED
        BY <3>1, <3>2, <3>3
    <2>4. \A m \in Sessions!Live : login'[m] = login[m]
      BY <1>4 DEF Sessions!Live
    <2>5. OneSessionPerLogin'
      BY <1>1, <1>5, <1>8, <2>1, <2>2, <2>4, <1>11 DEF OneSessionPerLogin, Sessions!OneSessionPerLogin
    <2>6. OneRefreshPerLogin'
      BY <1>5, <1>8, <2>1, <2>3, <2>4 DEF OneRefreshPerLogin
    <2> QED
      BY <2>5, <2>6
  <1> QED
    BY <1>10, <1>11 DEF SessionInv

LEMMA SessionCloses ==
  ASSUME SessionInv, NEW c \in Calls,
         Sessions!CloseAll(c) \/ Sessions!CloseExpired(c) \/ Sessions!Rotate(c)
  PROVE  SessionInv'
  <1>0. SessionTypes
    BY DEF SessionInv
  <1>1. PICK S \in SUBSET Sessions!Opened :
          /\ open' = [n \in Sessions!Rows |-> IF n \in S THEN FALSE ELSE open[n]]
          /\ S = Sessions!Live \/ S = {sessionReq[c].row}
          /\ S = Sessions!Live \/ caught' = caught
    <2>1. sessionReq[c].op # "idle" => sessionReq[c].row \in Sessions!Opened
      BY <1>0 DEF SessionTypes, Sessions!Idle
    <2>2. sessionReq[c].op # "idle"
      BY DEF Sessions!CloseAll, Sessions!CloseExpired, Sessions!Rotate
    <2>3. CASE Sessions!CloseAll(c)
      BY <2>3 DEF Sessions!CloseAll, Sessions!Close, Sessions!AllOf, Sessions!Live
    <2>4. CASE Sessions!CloseExpired(c) \/ Sessions!Rotate(c)
      BY <2>1, <2>2, <2>4 DEF Sessions!CloseExpired, Sessions!Rotate, Sessions!Close, Sessions!Replaced
    <2> QED
      BY <2>3, <2>4
  <1>2. UNCHANGED <<login, opened>> /\ Sessions!Opened' = Sessions!Opened
    BY DEF Sessions!CloseAll, Sessions!CloseExpired, Sessions!Rotate, Sessions!Opened
  <1>3. Sessions!Opened \subseteq Sessions!Rows
    BY <1>0, CustomerAssumption DEF SessionTypes, Sessions!Opened, Sessions!Rows
  <1>4. Sessions!Live' = Sessions!Live \ S
    BY <1>1, <1>2, <1>3 DEF Sessions!Live
  <1>5. /\ caught \subseteq caught'
        /\ \A l \in caught' : \E n \in Sessions!Opened : login[n] = l
    BY <1>0 DEF Sessions!CloseAll, Sessions!CloseExpired, Sessions!Rotate, SessionTypes
  <1>6. \A d \in Calls : d # c => sessionReq'[d] = sessionReq[d]
    BY <1>0 DEF Sessions!CloseAll, Sessions!CloseExpired, Sessions!Rotate, Sessions!End, Sessions!To, SessionTypes
  <1>7. \/ sessionReq'[c] = Sessions!Idle
        \/ Sessions!Rotate(c) /\ sessionReq'[c] = [op |-> "open", row |-> sessionReq[c].row]
    BY <1>0 DEF Sessions!CloseAll, Sessions!CloseExpired, Sessions!Rotate, Sessions!End, Sessions!To, SessionTypes
  <1>8. SessionTypes'
    <2>1. open' \in [Sessions!Rows -> {TRUE, FALSE, None}]
      BY <1>0, <1>1 DEF SessionTypes
    <2>2. sessionReq' \in [Calls -> [op : {"idle", "reuse", "expired", "rotate", "open"}, row : Nat \cup {None}]]
      <3>1. \/ sessionReq' = [sessionReq EXCEPT ![c] = Sessions!Idle]
            \/ sessionReq' = [sessionReq EXCEPT ![c] = [op |-> "open", row |-> sessionReq[c].row]]
        BY DEF Sessions!CloseAll, Sessions!CloseExpired, Sessions!Rotate, Sessions!End, Sessions!To
      <3>2. sessionReq[c].row \in Nat \cup {None}
        BY <1>0 DEF SessionTypes
      <3> QED
        BY <1>0, <3>1, <3>2 DEF SessionTypes, Sessions!Idle
    <2>3. \A d \in Calls : sessionReq'[d] # Sessions!Idle => sessionReq'[d].row \in Sessions!Opened
      <3>1. Sessions!Rotate(c) => sessionReq[c].row \in Sessions!Opened
        BY <1>0 DEF SessionTypes, Sessions!Idle, Sessions!Rotate
      <3> QED
        BY <1>0, <1>6, <1>7, <3>1 DEF SessionTypes
    <2>4. opened' \in 0 .. MaxSessions /\ login' \in [Sessions!Rows -> Nat \cup {None}]
      BY <1>0, <1>2 DEF SessionTypes
    <2>5. \A n \in Sessions!Opened' : login'[n] \in 1 .. n
      BY <1>0, <1>2 DEF SessionTypes
    <2>6. \A l \in caught' : \E n \in Sessions!Opened' : login'[n] = l
      BY <1>2, <1>5
    <2> QED
      BY <1>2, <2>1, <2>2, <2>3, <2>4, <2>5, <2>6 DEF SessionTypes, Sessions!Idle
  <1>9. ASSUME ~raced' PROVE OneSessionPerLogin' /\ OneRefreshPerLogin'
    <2>1. ~raced
      <3>1. raced => raced'
        BY Zenon DEF Sessions!CloseAll, Sessions!CloseExpired, Sessions!Rotate
      <3> QED
        BY <1>9, <3>1
    <2>2. OneSessionPerLogin /\ OneRefreshPerLogin
      BY <2>1 DEF SessionInv
    <2>3. \A n \in Sessions!Live' : login[n] \notin caught'
      BY <1>1, <1>4, <2>1, <2>2 DEF OneSessionPerLogin, Sessions!OneSessionPerLogin
    <2>4. OneSessionPerLogin'
      BY <1>2, <1>4, <1>9, <2>1, <2>2, <2>3 DEF OneSessionPerLogin, Sessions!OneSessionPerLogin
    <2>5. CASE sessionReq'[c] = Sessions!Idle
      BY <1>2, <1>4, <1>6, <2>2, <2>4, <2>5 DEF OneRefreshPerLogin, Refreshing, LoginOf, Sessions!Idle
    <2>6. CASE Sessions!Rotate(c) /\ sessionReq'[c] = [op |-> "open", row |-> sessionReq[c].row]
      <3> DEFINE row == sessionReq[c].row
      <3>1. row \in Sessions!Live /\ S = {row}
        <4>1. open[row] = TRUE
          BY <1>9, <2>6, Zenon DEF Sessions!Rotate
        <4>2. row \in Sessions!Opened
          BY <1>0, <2>6 DEF SessionTypes, Sessions!Idle, Sessions!Rotate
        <4>3. open' = [n \in Sessions!Rows |-> IF n \in {row} THEN FALSE ELSE open[n]]
          BY <2>6 DEF Sessions!Rotate, Sessions!Close, Sessions!Replaced
        <4>4. row \in Sessions!Live
          BY <4>1, <4>2 DEF Sessions!Live
        <4>5. \A n \in Sessions!Live : n \in S => n = row
          BY <1>1, <1>3, <4>3 DEF Sessions!Live
        <4> QED
          BY <1>1, <4>4, <4>5
      <3>2. \A n \in Sessions!Live' : login[n] # login[row]
        BY <1>4, <2>1, <2>2, <3>1 DEF OneSessionPerLogin, Sessions!OneSessionPerLogin
      <3>3. \A d \in Calls : d # c /\ Refreshing(d)' =>
              /\ Refreshing(d) /\ LoginOf(d)' = LoginOf(d) /\ LoginOf(d) # login[row]
        BY <1>2, <1>6, <2>2, <3>1 DEF OneRefreshPerLogin, Refreshing, LoginOf
      <3>4. LoginOf(c)' = login[row]
        BY <1>2, <2>6 DEF LoginOf
      <3> QED
        BY <1>2, <1>4, <2>2, <2>4, <3>2, <3>3, <3>4 DEF OneRefreshPerLogin
    <2> QED
      BY <1>7, <2>4, <2>5, <2>6
  <1> QED
    BY <1>8, <1>9 DEF SessionInv

LEMMA SessionStep ==
  ASSUME SessionInv, Sessions!Next
  PROVE  SessionInv'
  <1>0. SessionTypes
    BY DEF SessionInv
  <1>1. Sessions!Live \subseteq Sessions!Opened
    BY DEF Sessions!Live
  <1>2. CASE Sessions!Expire
    BY <1>2, SessionsStay DEF Sessions!Expire
  <1>3. CASE Sessions!Logout \/ Sessions!RevokeAll
    BY <1>1, <1>3, SessionsClose DEF Sessions!Logout, Sessions!RevokeAll
  <1>4. ASSUME NEW c \in Calls, Sessions!Call(c) PROVE SessionInv'
    <2>1. CASE Sessions!Login(c) \/ Sessions!OpenNext(c)
      BY <2>1, SessionOpens
    <2>2. CASE Sessions!CloseAll(c) \/ Sessions!CloseExpired(c) \/ Sessions!Rotate(c)
      BY <2>2, SessionCloses
    <2>3. CASE Sessions!Drop(c)
      BY <2>3, SessionsCall DEF Sessions!Drop, Sessions!End, Sessions!Idle, Sessions!rowVars
    <2>4. CASE Sessions!ReadSession(c)
      <3>1. PICK n \in Sessions!Opened, op \in {"reuse", "expired", "rotate"} :
              Sessions!To(c, op, n)
        BY <2>4 DEF Sessions!ReadSession
      <3>2. n \in Nat
        BY <1>0 DEF Sessions!Opened, SessionTypes
      <3> QED
        BY <2>4, <3>1, <3>2, SessionsCall DEF Sessions!ReadSession, Sessions!To, Sessions!rowVars
    <2> QED
      BY <1>4, <2>1, <2>2, <2>3, <2>4 DEF Sessions!Call
  <1> QED
    BY <1>2, <1>3, <1>4 DEF Sessions!Next

(* A login has one open session through refreshes, their retries and the    *)
(* deaths of calls between the two writes of a refresh, and none once one   *)
(* of its replaced tokens came back, unless a refresh went on with a        *)
(* session that was closed since it was read.                               *)
THEOREM SessionsAreSingle == Spec => []OneSessionPerLogin
  <1>1. Init => SessionInv
    BY SessionInit DEF Init
  <1>2. SessionInv /\ [Next]_vars => SessionInv'
    <2>1. SessionInv /\ UNCHANGED sessionVars => SessionInv'
      BY SessionsStay DEF sessionVars
    <2>2. [Next]_vars => Sessions!Next \/ UNCHANGED sessionVars
      BY DEF Next, vars
    <2> QED
      BY <2>1, <2>2, SessionStep
  <1>3. SessionInv => OneSessionPerLogin
    BY DEF SessionInv, OneSessionPerLogin, Sessions!OneSessionPerLogin
  <1> QED
    BY <1>1, <1>2, <1>3, PTL DEF Spec

-----------------------------------------------------------------------------
(* Addresses *)

Flags == [Addresses!Rows -> {TRUE, FALSE, None}]

AddressCall ==
  [op : {"create", "update", "remove"}, row : Addresses!Rows \cup {None}, default : {TRUE, FALSE}, read : Flags,
   cleared : (SUBSET Addresses!Rows) \cup {None}]

AddressTypes ==
  /\ addressesWritten \in 0 .. MaxAddresses
  /\ flag \in Flags
  /\ \A n \in Addresses!Present : n <= addressesWritten
  /\ addressReq \in [Calls -> AddressCall \cup {Addresses!Idle}]

(* What a call in flight has read, and what its first statement cleared: of *)
(* the addresses it has read, all that are still there.                     *)
KnowsAddresses(x) ==
  /\ \A n \in Addresses!Rows : x.read[n] # None => n <= addressesWritten
  /\ x.op = "create" /\ x.default = FALSE => \E n \in Addresses!Rows : x.read[n] # None
  /\ x.op = "remove" /\ x.row # None => x.default = x.read[x.row]
  /\ x.cleared # None /\ x.default = FALSE => x.cleared = {}
  /\ x.cleared # None /\ x.default = TRUE =>
       \A n \in Addresses!Present : x.read[n] # None => n \in x.cleared

AddressCalls == \A c \in Calls : addressReq[c] # Addresses!Idle => KnowsAddresses(addressReq[c])

IsDefault(d) == d \in Addresses!Present /\ \A n \in Addresses!Present : flag[n] = TRUE <=> n = d

AddressInv ==
  /\ AddressTypes
  /\ AddressCalls
  /\ ~addressStale /\ Addresses!Present # {} => \E d \in Addresses!Rows : IsDefault(d)

LEMMA AddressInit == Addresses!Init => AddressInv
  <1> SUFFICES ASSUME Addresses!Init PROVE AddressInv
    OBVIOUS
  <1>1. Addresses!Present = {}
    BY DEF Addresses!Init, Addresses!Present
  <1>2. flag \in Flags
    BY DEF Addresses!Init, Flags
  <1>3. AddressTypes
    BY <1>1, <1>2, CustomerAssumption DEF Addresses!Init, AddressTypes
  <1> QED
    BY <1>1, <1>3 DEF Addresses!Init, AddressInv, AddressCalls

(* Calls keep what they know while addresses come and go, none of them      *)
(* twice.                                                                   *)
LEMMA AddressCallsStay ==
  ASSUME AddressTypes, AddressCalls, NEW c \in Calls,
         NEW x \in AddressCall \cup {Addresses!Idle}, addressReq' = [addressReq EXCEPT ![c] = x],
         x # Addresses!Idle => KnowsAddresses(x)',
         addressesWritten' \in Nat, addressesWritten <= addressesWritten',
         \A n \in Addresses!Present' : n \in Addresses!Present \/ n > addressesWritten
  PROVE  AddressCalls'
  <1> SUFFICES ASSUME NEW d \in Calls, addressReq'[d] # Addresses!Idle
               PROVE  KnowsAddresses(addressReq[d])'
    BY DEF AddressCalls, Addresses!Idle
  <1>1. CASE d = c
    BY <1>1 DEF AddressTypes
  <1>2. CASE d # c
    <2>1. addressReq'[d] = addressReq[d] /\ KnowsAddresses(addressReq[d])
      BY <1>2 DEF AddressTypes, AddressCalls
    <2>2. \A n \in Addresses!Rows : n \in Nat
      BY DEF Addresses!Rows
    <2>3. Addresses!Present' \subseteq Addresses!Rows
      BY DEF Addresses!Present
    <2>4. addressesWritten \in Nat
      BY DEF AddressTypes
    <2> QED
      BY <2>1, <2>2, <2>3, <2>4 DEF KnowsAddresses
  <1> QED
    BY <1>1, <1>2

(* Reads, the first statement of a new default, and calls that end.         *)
LEMMA AddressReads ==
  ASSUME AddressInv, NEW c \in Calls,
         NEW x \in AddressCall \cup {Addresses!Idle}, addressReq' = [addressReq EXCEPT ![c] = x],
         x # Addresses!Idle => KnowsAddresses(x),
         UNCHANGED <<flag, addressesWritten, addressStale>>
  PROVE  AddressInv'
  <1>1. Addresses!Present' = Addresses!Present
    BY DEF Addresses!Present
  <1>2. AddressTypes'
    BY <1>1 DEF AddressInv, AddressTypes, Flags, AddressCall, Addresses!Idle
  <1>3. AddressCalls'
    <2>1. x # Addresses!Idle => KnowsAddresses(x)'
      BY <1>1 DEF KnowsAddresses
    <2>2. AddressTypes /\ AddressCalls
      BY DEF AddressInv
    <2>3. addressesWritten' \in Nat /\ addressesWritten <= addressesWritten'
      BY <2>2 DEF AddressTypes
    <2>4. \A n \in Addresses!Present' : n \in Addresses!Present \/ n > addressesWritten
      BY <1>1
    <2> QED
      BY <2>1, <2>2, <2>3, <2>4, AddressCallsStay
  <1>4. \A d : IsDefault(d) => IsDefault(d)'
    BY <1>1 DEF IsDefault
  <1> QED
    BY <1>1, <1>2, <1>3, <1>4 DEF AddressInv

LEMMA AddressRead ==
  ASSUME AddressInv, NEW c \in Calls, NEW op \in {"create", "update", "remove"},
         NEW n \in Addresses!Rows \cup {None}, NEW default \in {TRUE, FALSE},
         op = "create" /\ default = FALSE => Addresses!Present # {},
         op = "remove" /\ n # None => default = flag[n],
         Addresses!Read(c, op, n, default)
  PROVE  AddressInv'
  <1> DEFINE x == [op |-> op, row |-> n, default |-> default, read |-> flag, cleared |-> None]
  <1>1. x \in AddressCall
    BY DEF AddressInv, AddressTypes, AddressCall
  <1>2. KnowsAddresses(x)
    BY DEF AddressInv, AddressTypes, Addresses!Present, KnowsAddresses
  <1> HIDE DEF x
  <1>3. addressReq' = [addressReq EXCEPT ![c] = x] /\ UNCHANGED <<flag, addressesWritten, addressStale>>
    BY DEF Addresses!Read, x
  <1> QED
    BY <1>1, <1>2, <1>3, AddressReads

LEMMA AddressClear ==
  ASSUME AddressInv, NEW c \in Calls, Addresses!Clear(c)
  PROVE  AddressInv'
  <1>1. addressReq[c] \in AddressCall /\ KnowsAddresses(addressReq[c])
    BY DEF AddressInv, AddressTypes, AddressCalls, Addresses!Clear, Addresses!Idle
  <1> DEFINE x == [addressReq[c] EXCEPT !.cleared =
                     IF addressReq[c].default THEN Addresses!Present ELSE {}]
  <1>2. Addresses!Present \subseteq Addresses!Rows
    BY DEF Addresses!Present
  <1>3. x \in AddressCall
    BY <1>1, <1>2 DEF AddressCall
  <1>4. KnowsAddresses(x)
    BY <1>1 DEF KnowsAddresses, AddressCall
  <1> HIDE DEF x
  <1>5. addressReq' = [addressReq EXCEPT ![c] = x] /\ UNCHANGED <<flag, addressesWritten, addressStale>>
    BY DEF Addresses!Clear, x, AddressInv, AddressTypes
  <1> QED
    BY <1>3, <1>4, <1>5, AddressReads

(* A write whose call had read the addresses as they are.                   *)
LEMMA AddressCommits ==
  ASSUME AddressInv, NEW c \in Calls, Addresses!Commit(c)
  PROVE  /\ addressReq' = [addressReq EXCEPT ![c] = Addresses!Idle]
         /\ ~addressStale' => ~addressStale /\ flag = addressReq[c].read
  <1>1. addressReq' = [addressReq EXCEPT ![c] = Addresses!Idle]
    BY DEF Addresses!Commit, Addresses!End
  <1>2. addressStale' = (addressStale \/ flag # addressReq[c].read)
    BY DEF Addresses!Commit
  <1>3. ~addressStale' => ~addressStale /\ flag = addressReq[c].read
    BY <1>2, Zenon
  <1> QED
    BY <1>1, <1>3

(* What a write leaves to be shown: its rows are well formed, and one is the*)
(* default if there was one before.                                         *)
LEMMA AddressWrites ==
  ASSUME AddressInv, NEW c \in Calls, Addresses!Commit(c),
         flag' \in Flags, addressesWritten' \in 0 .. MaxAddresses, addressesWritten <= addressesWritten',
         \A n \in Addresses!Present' : \/ n \in Addresses!Present
                                       \/ n > addressesWritten /\ n <= addressesWritten',
         /\ flag = addressReq[c].read
         /\ Addresses!Present # {} => \E d \in Addresses!Rows : IsDefault(d)
         /\ Addresses!Present' # {}
         => \E d \in Addresses!Rows : IsDefault(d)'
  PROVE  AddressInv'
  <1>0. AddressTypes /\ AddressCalls
    BY DEF AddressInv
  <1>1. addressReq' = [addressReq EXCEPT ![c] = Addresses!Idle]
    BY AddressCommits
  <1>2. AddressTypes'
    <2>1. addressReq' \in [Calls -> AddressCall \cup {Addresses!Idle}]
      BY <1>0, <1>1 DEF AddressTypes
    <2>2. \A n \in Addresses!Present' : n <= addressesWritten'
      <3>1. \A n \in Addresses!Present : n \in Nat /\ n <= addressesWritten
        BY <1>0 DEF AddressTypes, Addresses!Present, Addresses!Rows
      <3> QED
        BY <1>0, <3>1 DEF AddressTypes
    <2>3. AddressCall' = AddressCall /\ Addresses!Idle' = Addresses!Idle /\ Flags' = Flags
      BY DEF AddressCall, Flags, Addresses!Idle
    <2> QED
      BY <2>1, <2>2, <2>3 DEF AddressTypes
  <1>3. AddressCalls'
    <2>1. addressesWritten' \in Nat
      OBVIOUS
    <2>2. \A n \in Addresses!Present' : n \in Addresses!Present \/ n > addressesWritten
      OBVIOUS
    <2> QED
      BY <1>0, <1>1, <2>1, <2>2, AddressCallsStay
  <1>4. ~addressStale' /\ Addresses!Present' # {} => \E d \in Addresses!Rows : IsDefault(d)'
    BY AddressCommits DEF AddressInv
  <1> QED
    BY <1>2, <1>3, <1>4 DEF AddressInv

LEMMA AddressCreated ==
  ASSUME AddressInv, NEW c \in Calls, Addresses!CommitCreate(c)
  PROVE  AddressInv'
  <1> DEFINE x == addressReq[c]
  <1>new. PICK new : new = addressesWritten + 1
    OBVIOUS
  <1>0. AddressTypes /\ x \in AddressCall /\ KnowsAddresses(x) /\ x.op = "create" /\ x.cleared # None
    BY DEF AddressInv, AddressTypes, AddressCalls, Addresses!CommitCreate, Addresses!Idle
  <1>1. /\ new \in Addresses!Rows /\ addressesWritten' = new
        /\ flag' = [n \in Addresses!Rows |-> IF n = new THEN x.default
                                              ELSE IF Addresses!Cleared(c, n) THEN FALSE ELSE flag[n]]
        /\ Addresses!Commit(c)
    BY <1>0, <1>new, CustomerAssumption DEF Addresses!CommitCreate, Addresses!Rows, AddressTypes
  <1>2. \A n \in Addresses!Rows : n # new => flag'[n] = IF flag[n] # None /\ n \in x.cleared THEN FALSE ELSE flag[n]
    BY <1>1 DEF Addresses!Cleared
  <1>3. flag'[new] = x.default /\ x.default \in {TRUE, FALSE} /\ x.default # None
    BY <1>0, <1>1, CustomerAssumption DEF AddressCall
  <1>4. Addresses!Present' = Addresses!Present \cup {new} /\ new \notin Addresses!Present
    <2>1. new \notin Addresses!Present
      BY <1>0, <1>new DEF AddressTypes
    <2>2. \A n \in Addresses!Rows : n # new => (flag'[n] # None <=> flag[n] # None)
      BY <1>2, CustomerAssumption
    <2> QED
      BY <1>1, <1>3, <2>1, <2>2 DEF Addresses!Present
  <1>5. flag' \in Flags
    BY <1>0, <1>1, <1>3 DEF Flags, AddressTypes
  <1>6. ASSUME flag = x.read, Addresses!Present # {} => \E d \in Addresses!Rows : IsDefault(d)
        PROVE  \E d \in Addresses!Rows : IsDefault(d)'
    <2>1. CASE x.default = TRUE
      <3>1. \A n \in Addresses!Present : n \in x.cleared /\ n # new /\ n \in Addresses!Rows /\ flag[n] # None
        BY <1>0, <1>4, <1>6, <2>1 DEF KnowsAddresses, Addresses!Present
      <3>2. IsDefault(new)'
        BY <1>2, <1>3, <1>4, <2>1, <3>1 DEF IsDefault
      <3> QED
        BY <1>1, <3>2
    <2>2. CASE x.default = FALSE
      <3>1. Addresses!Present # {} /\ x.cleared = {}
        BY <1>0, <1>6, <2>2 DEF KnowsAddresses, Addresses!Present
      <3>2. PICK d \in Addresses!Rows : IsDefault(d)
        BY <1>6, <3>1
      <3>3. \A n \in Addresses!Present : n # new /\ flag'[n] = flag[n]
        BY <1>2, <1>4, <3>1 DEF Addresses!Present
      <3>4. IsDefault(d)'
        BY <1>3, <1>4, <2>2, <3>2, <3>3 DEF IsDefault
      <3> QED
        BY <3>4
    <2> QED
      BY <1>3, <2>1, <2>2
  <1>7. addressesWritten' \in 0 .. MaxAddresses /\ addressesWritten <= addressesWritten'
    BY <1>0, <1>new, <1>1, CustomerAssumption DEF AddressTypes, Addresses!Rows
  <1>8. \A n \in Addresses!Present' : \/ n \in Addresses!Present
                                      \/ n > addressesWritten /\ n <= addressesWritten'
    BY <1>0, <1>new, <1>1, <1>4 DEF AddressTypes
  <1> QED
    BY <1>1, <1>5, <1>6, <1>7, <1>8, AddressWrites

LEMMA AddressUpdated ==
  ASSUME AddressInv, NEW c \in Calls, NEW k \in Addresses!Rows, Addresses!CommitUpdate(c, k)
  PROVE  AddressInv'
  <1> DEFINE x == addressReq[c]
             kept == flag[k] \/ x.default
  <1>0. AddressTypes /\ x \in AddressCall /\ KnowsAddresses(x) /\ x.op = "update" /\ x.cleared # None
    BY DEF AddressInv, AddressTypes, AddressCalls, Addresses!CommitUpdate, Addresses!Idle
  <1>1. /\ addressesWritten' = addressesWritten /\ k \in Addresses!Present
        /\ flag' = [n \in Addresses!Rows |-> IF n = k THEN kept
                                              ELSE IF Addresses!Cleared(c, n) THEN FALSE ELSE flag[n]]
        /\ Addresses!Commit(c)
    BY DEF Addresses!CommitUpdate
  <1>2. \A n \in Addresses!Rows : n # k => flag'[n] = IF flag[n] # None /\ n \in x.cleared THEN FALSE ELSE flag[n]
    BY <1>1 DEF Addresses!Cleared
  <1>3. /\ flag[k] \in {TRUE, FALSE} /\ x.default \in {TRUE, FALSE}
        /\ flag'[k] \in {TRUE, FALSE} /\ flag'[k] # None
        /\ flag'[k] = TRUE <=> flag[k] = TRUE \/ x.default = TRUE
    <2>1. flag[k] \in {TRUE, FALSE}
      BY <1>0, <1>1 DEF AddressTypes, Flags, Addresses!Present
    <2>2. x.default \in {TRUE, FALSE}
      BY <1>0 DEF AddressCall
    <2>3. flag'[k] = kept
      BY <1>1
    <2>4. kept \in {TRUE, FALSE} /\ (kept = TRUE <=> flag[k] = TRUE \/ x.default = TRUE)
      BY <2>1, <2>2
    <2> HIDE DEF kept, x
    <2> QED
      BY <2>1, <2>2, <2>3, <2>4, CustomerAssumption
  <1>4. Addresses!Present' = Addresses!Present
    BY <1>1, <1>2, <1>3, CustomerAssumption DEF Addresses!Present
  <1>5. flag' \in Flags
    <2>1. \A n \in Addresses!Rows : flag'[n] \in {TRUE, FALSE, None}
      BY <1>0, <1>2, <1>3 DEF Flags, AddressTypes
    <2>2. flag' = [n \in Addresses!Rows |-> flag'[n]]
      BY <1>1
    <2> QED
      BY <2>1, <2>2 DEF Flags
  <1>6. ASSUME flag = x.read, Addresses!Present # {} => \E d \in Addresses!Rows : IsDefault(d)
        PROVE  \E d \in Addresses!Rows : IsDefault(d)'
    <2>1. CASE x.default = TRUE
      <3>1. \A n \in Addresses!Present : n \in x.cleared /\ n \in Addresses!Rows /\ flag[n] # None
        BY <1>0, <1>6, <2>1 DEF KnowsAddresses, Addresses!Present
      <3>2. IsDefault(k)'
        BY <1>1, <1>2, <1>3, <1>4, <2>1, <3>1 DEF IsDefault
      <3> QED
        BY <3>2
    <2>2. CASE x.default = FALSE
      <3>1. x.cleared = {}
        BY <1>0, <2>2 DEF KnowsAddresses
      <3>2. PICK d \in Addresses!Rows : IsDefault(d)
        BY <1>1, <1>6
      <3>3. \A n \in Addresses!Present : flag'[n] = TRUE <=> flag[n] = TRUE
        BY <1>2, <1>3, <2>2, <3>1 DEF Addresses!Present
      <3>4. IsDefault(d)'
        BY <1>4, <3>2, <3>3 DEF IsDefault
      <3> QED
        BY <3>4
    <2> QED
      BY <1>3, <2>1, <2>2
  <1>7. addressesWritten' \in 0 .. MaxAddresses /\ addressesWritten <= addressesWritten'
    BY <1>0, <1>1 DEF AddressTypes
  <1> HIDE DEF kept
  <1> QED
    BY <1>1, <1>4, <1>5, <1>6, <1>7, AddressWrites

LEMMA AddressRemoved ==
  ASSUME AddressInv, NEW c \in Calls, NEW k \in Addresses!Rows, Addresses!CommitRemove(c, k)
  PROVE  AddressInv'
  <1> DEFINE x == addressReq[c]
  <1>0. AddressTypes /\ x \in AddressCall /\ KnowsAddresses(x) /\ x.op = "remove" /\ x.row = k /\ k # None
    BY CustomerAssumption
       DEF AddressInv, AddressTypes, AddressCalls, Addresses!CommitRemove, Addresses!Idle, Addresses!Rows
  <1>1. PICK heir \in Addresses!Heirs(k, x.default) :
          flag' = [m \in Addresses!Rows |-> IF m = k THEN None ELSE IF m = heir THEN TRUE ELSE flag[m]]
    BY DEF Addresses!CommitRemove
  <1>2. addressesWritten' = addressesWritten /\ k \in Addresses!Present /\ Addresses!Commit(c)
    BY DEF Addresses!CommitRemove
  <1>3. \A n \in Addresses!Rows : flag'[n] = IF n = k THEN None ELSE IF n = heir THEN TRUE ELSE flag[n]
    BY <1>1
  <1>4. None \notin Addresses!Rows
    BY CustomerAssumption DEF Addresses!Rows
  <1>5. \/ x.default = TRUE /\ heir \in Addresses!Present \ {k}
        \/ x.default = TRUE /\ Addresses!Present = {k} /\ heir = None
        \/ x.default = FALSE /\ heir = None
    <2>1. x.default \in {TRUE, FALSE}
      BY <1>0 DEF AddressCall
    <2> QED
      BY <1>2, <2>1 DEF Addresses!Heirs
  <1>6. Addresses!Present' = Addresses!Present \ {k}
    BY <1>3, <1>4, <1>5, CustomerAssumption DEF Addresses!Present
  <1>7. flag' \in Flags
    BY <1>0, <1>1 DEF Flags, AddressTypes
  <1>8. ASSUME flag = x.read, Addresses!Present # {} => \E d \in Addresses!Rows : IsDefault(d),
               Addresses!Present' # {}
        PROVE  \E d \in Addresses!Rows : IsDefault(d)'
    <2>1. PICK d \in Addresses!Rows : IsDefault(d)
      BY <1>2, <1>8
    <2>2. x.default = flag[k]
      BY <1>0, <1>8 DEF KnowsAddresses
    <2>3. CASE x.default = TRUE
      <3>1. d = k /\ heir \in Addresses!Present \ {k} /\ heir \in Addresses!Rows
        BY <1>2, <1>5, <1>6, <1>8, <2>1, <2>2, <2>3 DEF IsDefault, Addresses!Present
      <3>2. IsDefault(heir)'
        BY <1>3, <1>6, <2>1, <3>1 DEF IsDefault, Addresses!Present
      <3> QED
        BY <3>1, <3>2
    <2>4. CASE x.default = FALSE
      <3>1. d # k /\ heir = None
        BY <1>5, <2>1, <2>2, <2>4 DEF IsDefault
      <3>2. IsDefault(d)'
        BY <1>3, <1>4, <1>6, <2>1, <3>1 DEF IsDefault, Addresses!Present
      <3> QED
        BY <3>2
    <2> QED
      BY <1>5, <2>3, <2>4
  <1>9. addressesWritten' \in 0 .. MaxAddresses /\ addressesWritten <= addressesWritten'
    BY <1>0, <1>2 DEF AddressTypes
  <1> QED
    BY <1>2, <1>6, <1>7, <1>8, <1>9, AddressWrites

LEMMA AddressStep ==
  ASSUME AddressInv, Addresses!Next
  PROVE  AddressInv'
  <1>1. PICK c \in Calls : Addresses!Call(c)
    BY DEF Addresses!Next
  <1>2. CASE Addresses!ReadCreate(c)
    <2>1. PICK wanted \in BOOLEAN : Addresses!Read(c, "create", None, Addresses!MakeDefault(wanted))
      BY <1>2 DEF Addresses!ReadCreate
    <2>2. /\ Addresses!MakeDefault(wanted) \in {TRUE, FALSE}
          /\ Addresses!MakeDefault(wanted) = FALSE => Addresses!Present # {}
      BY DEF Addresses!MakeDefault
    <2> QED
      BY <2>1, <2>2, AddressRead
  <1>3. CASE Addresses!Clear(c)
    BY <1>3, AddressClear
  <1>4. CASE Addresses!CommitCreate(c)
    BY <1>4, AddressCreated
  <1>5. CASE Addresses!Drop(c)
    BY <1>5, AddressReads DEF Addresses!Drop, Addresses!End
  <1>6. ASSUME NEW n \in Addresses!Rows, Addresses!ReadUpdate(c, n) PROVE AddressInv'
    <2>1. PICK wanted \in {TRUE, FALSE} : Addresses!Read(c, "update", n, wanted)
      BY <1>6 DEF Addresses!ReadUpdate
    <2> QED
      BY <2>1, AddressRead
  <1>7. ASSUME NEW n \in Addresses!Rows, Addresses!ReadRemove(c, n) PROVE AddressInv'
    <2>1. n \in Addresses!Present /\ Addresses!Read(c, "remove", n, flag[n])
      BY <1>7 DEF Addresses!ReadRemove
    <2>2. flag[n] \in {TRUE, FALSE}
      BY <2>1 DEF AddressInv, AddressTypes, Flags, Addresses!Present
    <2> QED
      BY <2>1, <2>2, AddressRead
  <1>8. ASSUME NEW n \in Addresses!Rows, Addresses!CommitUpdate(c, n) \/ Addresses!CommitRemove(c, n)
        PROVE  AddressInv'
    BY <1>8, AddressUpdated, AddressRemoved
  <1> QED
    BY <1>1, <1>2, <1>3, <1>4, <1>5, <1>6, <1>7, <1>8 DEF Addresses!Call

(* The same operator, seen through the instance. *)
LEMMA AddressCardinality == \A S : Addresses!Cardinality(S) = Cardinality(S)
  BY Zenon DEF Addresses!Cardinality, Cardinality

(* A customer who has addresses has exactly one default among them, through *)
(* any calls of which none writes over an outdated read.                    *)
THEOREM DefaultIsSingle == Spec => []OneDefault
  <1>1. Init => AddressInv
    BY AddressInit DEF Init
  <1>2. AddressInv /\ [Next]_vars => AddressInv'
    <2>1. ASSUME AddressInv, UNCHANGED addressVars PROVE AddressInv'
      <3>1. UNCHANGED <<flag, addressesWritten, addressReq, addressStale>>
        BY <2>1 DEF addressVars
      <3>2. Addresses!Present' = Addresses!Present
        BY <3>1 DEF Addresses!Present
      <3> QED
        BY <2>1, <3>1, <3>2 DEF AddressInv, AddressTypes, AddressCalls, KnowsAddresses, IsDefault, Flags, AddressCall,
                                Addresses!Idle
    <2>2. [Next]_vars => Addresses!Next \/ UNCHANGED addressVars
      BY DEF Next, vars
    <2> QED
      BY <2>1, <2>2, AddressStep
  <1>3. AddressInv => OneDefault
    <2> SUFFICES ASSUME AddressInv, ~addressStale, Addresses!Present # {}
                 PROVE  Addresses!Cardinality({n \in Addresses!Present : flag[n] = TRUE}) = 1
      BY DEF OneDefault, Addresses!OneDefault
    <2>1. PICK d \in Addresses!Rows : IsDefault(d)
      BY DEF AddressInv
    <2>2. {n \in Addresses!Present : flag[n] = TRUE} = {d}
      BY <2>1 DEF IsDefault
    <2> QED
      BY <2>2, AddressCardinality, FS_Singleton
  <1> QED
    BY <1>1, <1>2, <1>3, PTL DEF Spec

-----------------------------------------------------------------------------
(* Carts *)

CartCall ==
  [op : Carts!Ops, who : {"user", "guest"}, at : {"create", "copy", "merge", "item", "write"},
   cart : Carts!Carts \cup {None}, guest : Carts!Carts \cup {None}, read : Nat, n : Nat, to : Nat]

CartTypes ==
  /\ made \in 0 .. MaxCarts
  /\ owner \in [Carts!Carts -> {"user", "guest", None}]
  /\ cartStatus \in [Carts!Carts -> Carts!CartStatus \cup {None}]
  /\ qty \in [Carts!Carts -> Nat]
  /\ \A k \in Carts!Carts : k > made => owner[k] = None /\ qty[k] = 0
  /\ cartReq \in [Calls -> CartCall \cup {Carts!Idle}]

(* A call writes the cart of whom it is for, what it was asked to.          *)
KnowsCart(x) ==
  /\ x.at # "create" => x.cart \in Carts!Carts /\ owner[x.cart] = x.who
  /\ x.guest # None => x.who = "user" /\ owner[x.guest] = "guest"
  /\ x.at \in {"copy", "merge"} => x.guest # None
  /\ x.at = "write" => \/ x.op = "add" /\ x.to = x.read + x.n
                       \/ x.op = "update" /\ x.to = x.n

CartCalls == \A c \in Calls : cartReq[c] # Carts!Idle => KnowsCart(cartReq[c])

Asked ==
  /\ \A j, k \in Carts!Active : j = k
  /\ \A k \in Carts!Active : qty[k] = asked
  /\ Carts!Active = {} => asked = 0

CartInv == CartTypes /\ CartCalls /\ (~torn => Asked)

LEMMA CartInit == Carts!Init => CartInv
  <1> SUFFICES ASSUME Carts!Init PROVE CartInv
    OBVIOUS
  <1>1. Carts!Active = {}
    BY CustomerAssumption DEF Carts!Init, Carts!Active
  <1>2. CartTypes
    BY CustomerAssumption DEF Carts!Init, CartTypes
  <1> QED
    BY <1>1, <1>2 DEF Carts!Init, CartInv, CartCalls, Asked

(* Calls keep what they know while carts keep their owners.                 *)
LEMMA CartCallsStay ==
  ASSUME CartTypes, CartCalls, NEW c \in Calls,
         NEW x \in CartCall \cup {Carts!Idle}, cartReq' = [cartReq EXCEPT ![c] = x],
         x # Carts!Idle => KnowsCart(x)',
         \A k \in Carts!Carts : owner[k] # None => owner'[k] = owner[k]
  PROVE  CartCalls' /\ cartReq' \in [Calls -> CartCall \cup {Carts!Idle}]
  <1>1. cartReq' \in [Calls -> CartCall \cup {Carts!Idle}]
    BY DEF CartTypes
  <1>2. CartCalls'
    <2> SUFFICES ASSUME NEW d \in Calls, cartReq'[d] # Carts!Idle
                 PROVE  KnowsCart(cartReq[d])'
      BY DEF CartCalls, Carts!Idle
    <2>1. CASE d = c
      BY <2>1 DEF CartTypes
    <2>2. CASE d # c
      <3>1. cartReq'[d] = cartReq[d] /\ KnowsCart(cartReq[d]) /\ cartReq[d] \in CartCall
        BY <2>2 DEF CartTypes, CartCalls
      <3>2. /\ cartReq[d].who # None
            /\ cartReq[d].guest # None => cartReq[d].guest \in Carts!Carts
        BY <3>1, CustomerAssumption DEF CartCall
      <3> QED
        BY <3>1, <3>2, CustomerAssumption DEF KnowsCart
    <2> QED
      BY <2>1, <2>2
  <1> QED
    BY <1>1, <1>2

(* Reads, and calls that end, without a write.                              *)
LEMMA CartReads ==
  ASSUME CartInv, NEW c \in Calls,
         NEW x \in CartCall \cup {Carts!Idle}, cartReq' = [cartReq EXCEPT ![c] = x],
         x # Carts!Idle => KnowsCart(x),
         UNCHANGED <<owner, cartStatus, qty, made, asked>>, torn => torn'
  PROVE  CartInv'
  <1>0. CartTypes /\ CartCalls /\ Carts!Active' = Carts!Active /\ (~torn' => Asked)
    BY DEF CartInv, Carts!Active
  <1>1. x # Carts!Idle => KnowsCart(x)'
    BY DEF KnowsCart
  <1>2. CartCalls' /\ cartReq' \in [Calls -> CartCall \cup {Carts!Idle}]
    BY <1>0, <1>1, CartCallsStay
  <1>3. CartTypes'
    BY <1>0, <1>2 DEF CartTypes, CartCall, Carts!Idle
  <1> QED
    BY <1>0, <1>2, <1>3 DEF CartInv, Asked

LEMMA CartResolved ==
  ASSUME CartInv, NEW c \in Calls, NEW op \in Carts!Ops,
         Carts!ResolveUser(c, op) \/ Carts!ResolveGuest(c, op)
  PROVE  CartInv'
  <1>1. UNCHANGED <<owner, cartStatus, qty, made, asked, torn>>
    BY DEF Carts!ResolveUser, Carts!ResolveGuest, Carts!rowVars
  <1>2. \E x \in CartCall : KnowsCart(x) /\ cartReq' = [cartReq EXCEPT ![c] = x]
    <2>1. ASSUME NEW who \in {"user", "guest"}, NEW k \in Carts!Carts, owner[k] = who,
                 cartReq' = [cartReq EXCEPT ![c] = [Carts!Idle EXCEPT !.op = op, !.who = who, !.at = "item", !.cart = k]]
          PROVE  \E x \in CartCall : KnowsCart(x) /\ cartReq' = [cartReq EXCEPT ![c] = x]
      <3> DEFINE x == [Carts!Idle EXCEPT !.op = op, !.who = who, !.at = "item", !.cart = k]
      <3>1. x \in CartCall
        BY DEF CartCall, Carts!Idle
      <3>2. KnowsCart(x)
        BY <2>1 DEF KnowsCart, Carts!Idle
      <3> QED
        BY <2>1, <3>1, <3>2
    <2>2. ASSUME NEW who \in {"user", "guest"},
                 cartReq' = [cartReq EXCEPT ![c] = [Carts!Idle EXCEPT !.op = op, !.who = who, !.at = "create"]]
          PROVE  \E x \in CartCall : KnowsCart(x) /\ cartReq' = [cartReq EXCEPT ![c] = x]
      <3> DEFINE x == [Carts!Idle EXCEPT !.op = op, !.who = who, !.at = "create"]
      <3>1. x \in CartCall
        BY DEF CartCall, Carts!Idle
      <3>2. KnowsCart(x)
        BY DEF KnowsCart, Carts!Idle
      <3> QED
        BY <2>2, <3>1, <3>2
    <2>3. ASSUME NEW g \in Carts!Guest,
                 cartReq' = [cartReq EXCEPT ![c] = [Carts!Idle EXCEPT !.op = op, !.who = "user", !.at = "create",
                                                                      !.guest = g, !.read = qty[g]]]
          PROVE  \E x \in CartCall : KnowsCart(x) /\ cartReq' = [cartReq EXCEPT ![c] = x]
      <3> DEFINE x == [Carts!Idle EXCEPT !.op = op, !.who = "user", !.at = "create", !.guest = g, !.read = qty[g]]
      <3>1. x \in CartCall
        BY DEF CartCall, Carts!Idle, Carts!Guest, CartInv, CartTypes
      <3>2. KnowsCart(x)
        BY DEF KnowsCart, Carts!Idle, Carts!Guest
      <3> QED
        BY <2>3, <3>1, <3>2
    <2> QED
      BY <2>1, <2>2, <2>3 DEF Carts!ResolveUser, Carts!ResolveGuest, Carts!Active, Carts!Guest
  <1> QED
    BY <1>1, <1>2, CartReads

(* A write is shown to leave well-formed rows, whose owners stay, and the   *)
(* cart as it was asked for.                                                *)
LEMMA CartWrites ==
  ASSUME CartInv, NEW c \in Calls,
         NEW x \in CartCall \cup {Carts!Idle}, cartReq' = [cartReq EXCEPT ![c] = x],
         x # Carts!Idle => KnowsCart(x)',
         \A k \in Carts!Carts : owner[k] # None => owner'[k] = owner[k],
         made' \in 0 .. MaxCarts, owner' \in [Carts!Carts -> {"user", "guest", None}],
         cartStatus' \in [Carts!Carts -> Carts!CartStatus \cup {None}], qty' \in [Carts!Carts -> Nat],
         \A k \in Carts!Carts : k > made' => owner'[k] = None /\ qty'[k] = 0,
         ~torn' => Asked'
  PROVE  CartInv'
  <1>0. CartTypes /\ CartCalls
    BY DEF CartInv
  <1>1. CartCalls' /\ cartReq' \in [Calls -> CartCall \cup {Carts!Idle}]
    BY <1>0, CartCallsStay
  <1>2. CartTypes'
    BY <1>1 DEF CartTypes, CartCall, Carts!Idle
  <1> QED
    BY <1>1, <1>2 DEF CartInv

LEMMA CartCreated ==
  ASSUME CartInv, NEW c \in Calls, Carts!Create(c)
  PROVE  CartInv'
  <1>r. PICK r : r = cartReq[c]
    OBVIOUS
  <1>0. CartTypes /\ r \in CartCall /\ KnowsCart(r) /\ r.at = "create"
    BY <1>r, CustomerAssumption DEF CartInv, CartTypes, CartCalls, Carts!Create, Carts!Step, Carts!Idle
  <1>1. PICK k \in Carts!Carts : k = made + 1
    BY <1>0, CustomerAssumption DEF Carts!Create, Carts!Carts, CartTypes
  <1>x. PICK x : x = [r EXCEPT !.cart = k,
                      !.at = IF r.guest = None THEN "item" ELSE IF r.read > 0 THEN "copy" ELSE "merge"]
    OBVIOUS
  <1>2. /\ made' = k /\ owner' = [owner EXCEPT ![k] = r.who] /\ cartStatus' = [cartStatus EXCEPT ![k] = "ACTIVE"]
        /\ cartReq' = [cartReq EXCEPT ![c] = x]
        /\ qty' = qty /\ asked' = asked
    BY <1>0, <1>r, <1>1, <1>x DEF Carts!Create, CartTypes
  <1>3. x \in CartCall
    BY <1>0, <1>x DEF CartCall
  <1>4. owner[k] = None /\ qty[k] = 0
    BY <1>0, <1>1 DEF CartTypes
  <1>5. /\ owner'[k] = r.who /\ r.who \in {"user", "guest"} /\ cartStatus'[k] = "ACTIVE"
        /\ \A j \in Carts!Carts : j # k => owner'[j] = owner[j] /\ cartStatus'[j] = cartStatus[j]
    BY <1>0, <1>2 DEF CartTypes, CartCall
  <1>6. x # Carts!Idle => KnowsCart(x)'
    <2>1. x.guest # None => x.guest \in Carts!Carts /\ x.guest # k
      BY <1>0, <1>x, <1>4, CustomerAssumption DEF CartCall, KnowsCart
    <2>2. x.at \in {"item", "copy", "merge"} /\ x.cart = k /\ x.who = r.who /\ x.guest = r.guest
          /\ (x.at # "item" => r.guest # None)
      BY <1>0, <1>x DEF CartCall
    <2> QED
      BY <1>0, <1>5, <2>1, <2>2 DEF KnowsCart
  <1>7. /\ owner' \in [Carts!Carts -> {"user", "guest", None}]
        /\ cartStatus' \in [Carts!Carts -> Carts!CartStatus \cup {None}]
        /\ made' \in 0 .. MaxCarts /\ qty' \in [Carts!Carts -> Nat]
    BY <1>0, <1>2, <1>5 DEF CartTypes, Carts!CartStatus, Carts!Carts
  <1>8. \A j \in Carts!Carts : j > made' => owner'[j] = None /\ qty'[j] = 0
    BY <1>0, <1>1, <1>2, <1>5 DEF CartTypes, Carts!Carts
  <1>9. ASSUME ~torn' PROVE Asked'
    <2>1. ~torn /\ ~(r.who = "user" /\ Carts!Active # {})
      <3>1. torn' = (torn \/ (r.who = "user" /\ Carts!Active # {}))
        BY <1>r DEF Carts!Create
      <3> QED
        BY <1>9, <3>1, Zenon
    <2>2. Asked
      BY <2>1 DEF CartInv
    <2>3. Carts!Active' = IF r.who = "user" THEN Carts!Active \cup {k} ELSE Carts!Active
      BY <1>4, <1>5, CustomerAssumption DEF Carts!Active
    <2> QED
      BY <1>2, <1>4, <2>1, <2>2, <2>3 DEF Asked
  <1> QED
    BY <1>2, <1>3, <1>4, <1>5, <1>6, <1>7, <1>8, <1>9, CartWrites

(* A call of the user that is not torn writes the user's active cart.       *)
LEMMA CartNotSpent ==
  ASSUME CartInv, NEW c \in Calls, cartReq[c].at \in {"copy", "item", "write"}, cartReq[c].who = "user",
         ~Carts!Spent(c)
  PROVE  cartReq[c].cart \in Carts!Active
  BY CustomerAssumption DEF CartInv, CartTypes, CartCalls, KnowsCart, Carts!Spent, Carts!Active, Carts!Idle

LEMMA CartCopied ==
  ASSUME CartInv, NEW c \in Calls, Carts!CopyItem(c)
  PROVE  CartInv'
  <1>r. PICK r : r = cartReq[c]
    OBVIOUS
  <1>x. PICK x : x = [r EXCEPT !.at = "merge"]
    OBVIOUS
  <1> DEFINE k == r.cart
  <1>0. CartTypes /\ r \in CartCall /\ KnowsCart(r) /\ r.at = "copy"
    BY <1>r, CustomerAssumption DEF CartInv, CartTypes, CartCalls, Carts!CopyItem, Carts!Step, Carts!Idle
  <1>1. /\ k \in Carts!Carts /\ owner[k] = "user" /\ r.who = "user" /\ r.read \in Nat
        /\ r.guest # None /\ owner[r.guest] = "guest"
    BY <1>0 DEF KnowsCart, CartCall
  <1>2. /\ qty' = [qty EXCEPT ![k] = r.read] /\ cartReq' = [cartReq EXCEPT ![c] = x]
        /\ UNCHANGED <<owner, cartStatus, made>>
        /\ asked' = IF torn' THEN 0 ELSE asked + r.read
        /\ torn' = (torn \/ qty[k] # 0 \/ Carts!Spent(c))
    BY <1>0, <1>r, <1>x DEF Carts!CopyItem, Carts!Copied, Carts!Asks, CartTypes
  <1>3. x \in CartCall /\ KnowsCart(x)'
    BY <1>0, <1>x, <1>1, <1>2 DEF CartCall, KnowsCart
  <1>4. qty' \in [Carts!Carts -> Nat] /\ qty'[k] = r.read /\ \A j \in Carts!Carts : j # k => qty'[j] = qty[j]
    BY <1>0, <1>1, <1>2 DEF CartTypes
  <1>5. \A j \in Carts!Carts : j > made' => owner'[j] = None /\ qty'[j] = 0
    BY <1>0, <1>1, <1>2, <1>4, CustomerAssumption DEF CartTypes
  <1>6. ASSUME ~torn' PROVE Asked'
    <2>1. ~torn /\ qty[k] = 0 /\ ~Carts!Spent(c)
      BY <1>2, <1>6, Zenon
    <2>2. Asked /\ k \in Carts!Active
      BY <1>0, <1>r, <1>1, <2>1, CartNotSpent DEF CartInv
    <2>3. Carts!Active' = Carts!Active
      BY <1>2 DEF Carts!Active
    <2>4. asked' = r.read
      BY <1>1, <1>2, <1>6, <2>1, <2>2 DEF Asked
    <2> QED
      BY <1>4, <2>2, <2>3, <2>4 DEF Asked
  <1>7. made' \in 0 .. MaxCarts
    BY <1>0, <1>2 DEF CartTypes
  <1>8. /\ owner' \in [Carts!Carts -> {"user", "guest", None}]
        /\ cartStatus' \in [Carts!Carts -> Carts!CartStatus \cup {None}]
    BY <1>0, <1>2 DEF CartTypes
  <1> QED
    BY <1>2, <1>3, <1>4, <1>5, <1>6, <1>7, <1>8, CartWrites

LEMMA CartMerged ==
  ASSUME CartInv, NEW c \in Calls, Carts!MarkMerged(c)
  PROVE  CartInv'
  <1>r. PICK r : r = cartReq[c]
    OBVIOUS
  <1>x. PICK x : x = [r EXCEPT !.at = "item", !.guest = None, !.read = 0]
    OBVIOUS
  <1>0. CartTypes /\ r \in CartCall /\ KnowsCart(r) /\ r.at = "merge"
    BY <1>r, CustomerAssumption DEF CartInv, CartTypes, CartCalls, Carts!MarkMerged, Carts!Step, Carts!Idle
  <1>1. r.guest \in Carts!Carts /\ owner[r.guest] = "guest"
    BY <1>0 DEF KnowsCart, CartCall
  <1>2. /\ cartStatus' = [cartStatus EXCEPT ![r.guest] = "MERGED"] /\ cartReq' = [cartReq EXCEPT ![c] = x]
        /\ UNCHANGED <<owner, qty, made, asked>>
        /\ torn' = (torn \/ qty[r.guest] # r.read)
    BY <1>0, <1>r, <1>x DEF Carts!MarkMerged, CartTypes
  <1>3. x \in CartCall /\ KnowsCart(x)'
    BY <1>0, <1>x, <1>1, <1>2 DEF CartCall, KnowsCart
  <1>4. cartStatus' \in [Carts!Carts -> Carts!CartStatus \cup {None}]
    BY <1>0, <1>2 DEF CartTypes, Carts!CartStatus
  <1>5. ASSUME ~torn' PROVE Asked'
    <2>1. ~torn
      BY <1>2, <1>5, Zenon
    <2>2. Asked
      BY <2>1 DEF CartInv
    <2>3. Carts!Active' = Carts!Active
      BY <1>0, <1>1, <1>2 DEF Carts!Active, CartTypes
    <2> QED
      BY <1>2, <2>2, <2>3 DEF Asked
  <1>6. /\ made' \in 0 .. MaxCarts
        /\ owner' \in [Carts!Carts -> {"user", "guest", None}] /\ qty' \in [Carts!Carts -> Nat]
        /\ \A j \in Carts!Carts : j > made' => owner'[j] = None /\ qty'[j] = 0
    BY <1>0, <1>2 DEF CartTypes
  <1> QED
    BY <1>2, <1>3, <1>4, <1>5, <1>6, CartWrites

LEMMA CartItemRead ==
  ASSUME CartInv, NEW c \in Calls, NEW n \in 1 .. Stock, Carts!ReadItem(c, n)
  PROVE  CartInv'
  <1>r. PICK r : r = cartReq[c]
    OBVIOUS
  <1>0. CartTypes /\ r \in CartCall /\ KnowsCart(r) /\ r.at = "item"
    BY <1>r, CustomerAssumption DEF CartInv, CartTypes, CartCalls, Carts!ReadItem, Carts!Step, Carts!Idle
  <1>1. qty[r.cart] \in Nat /\ n \in Nat
    BY <1>0 DEF KnowsCart, CartTypes
  <1>2. PICK x : /\ cartReq' = [cartReq EXCEPT ![c] = x]
                 /\ \/ r.op = "add" /\ x = [r EXCEPT !.at = "write", !.read = qty[r.cart],
                                                     !.to = qty[r.cart] + n, !.n = n]
                    \/ r.op = "update" /\ x = [r EXCEPT !.at = "write", !.read = qty[r.cart], !.to = n, !.n = n]
    BY <1>0, <1>r DEF Carts!ReadItem, Carts!Target, CartTypes
  <1>3. x \in CartCall /\ KnowsCart(x)
    <2>0. qty[r.cart] + n \in Nat
      BY <1>1
    <2>1. x \in CartCall
      BY <1>0, <1>1, <1>2, <2>0, Zenon DEF CartCall
    <2>2. /\ x.at = "write" /\ x.cart = r.cart /\ x.who = r.who /\ x.guest = r.guest
          /\ \/ x.op = "add" /\ x.to = x.read + x.n
             \/ x.op = "update" /\ x.to = x.n
      BY <1>0, <1>2 DEF CartCall
    <2> QED
      BY <1>0, <2>1, <2>2 DEF KnowsCart
  <1>4. UNCHANGED <<owner, cartStatus, qty, made, asked, torn>>
    BY DEF Carts!ReadItem, Carts!rowVars
  <1> QED
    BY <1>2, <1>3, <1>4, CartReads

(* Writing, changing or removing the item ends the call.                    *)
ItemBecomes(c, to, n) ==
  /\ cartReq[c].at \in {"item", "write"}
  /\ qty' = [qty EXCEPT ![cartReq[c].cart] = to]
  /\ Carts!End(c)
  /\ UNCHANGED <<owner, cartStatus, made>>
  /\ ~torn' => /\ ~torn /\ ~Carts!Spent(c)
               /\ cartReq[c].who = "guest" => asked' = asked
               /\ cartReq[c].who = "user" => asked' = n
               /\ cartReq[c].who = "user" /\ asked = qty[cartReq[c].cart] => n = to

LEMMA CartItemWritten ==
  ASSUME CartInv, NEW c \in Calls, NEW to \in Nat, NEW n, ItemBecomes(c, to, n)
  PROVE  CartInv'
  <1>r. PICK r : r = cartReq[c]
    OBVIOUS
  <1>0. CartTypes /\ r \in CartCall /\ KnowsCart(r) /\ r.at \in {"item", "write"}
    BY <1>r, CustomerAssumption DEF ItemBecomes, CartInv, CartTypes, CartCalls, Carts!Idle
  <1>1. r.cart \in Carts!Carts /\ owner[r.cart] = r.who /\ r.who \in {"user", "guest"} /\ r.who # None
    BY <1>0, <1>r, CustomerAssumption DEF KnowsCart, CartCall
  <1>2. qty' \in [Carts!Carts -> Nat] /\ qty'[r.cart] = to
        /\ \A j \in Carts!Carts : j # r.cart => qty'[j] = qty[j]
    BY <1>0, <1>r, <1>1 DEF ItemBecomes, CartTypes
  <1>3. \A j \in Carts!Carts : j > made' => owner'[j] = None /\ qty'[j] = 0
    BY <1>0, <1>1, <1>2 DEF ItemBecomes, CartTypes
  <1>4. ASSUME ~torn' PROVE Asked'
    <2>1. Asked /\ Carts!Active' = Carts!Active
      BY <1>4 DEF ItemBecomes, CartInv, Carts!Active
    <2>2. asked' = IF r.who = "guest" THEN asked ELSE n
      BY <1>r, <1>1, <1>4 DEF ItemBecomes
    <2>3. CASE r.who = "guest"
      <3>1. r.cart \notin Carts!Active
        BY <1>1, <2>3 DEF Carts!Active
      <3>2. \A j \in Carts!Active : j \in Carts!Carts
        BY DEF Carts!Active
      <3> QED
        BY <1>2, <2>1, <2>2, <2>3, <3>1, <3>2 DEF Asked
    <2>4. CASE r.who = "user"
      <3>1. r.cart \in Carts!Active
        BY <1>r, <1>4, <2>4, CartNotSpent DEF ItemBecomes
      <3>2. n = to
        BY <1>r, <1>4, <2>1, <2>4, <3>1 DEF ItemBecomes, Asked
      <3> QED
        BY <1>2, <2>1, <2>2, <2>4, <3>1, <3>2 DEF Asked
    <2> QED
      BY <1>1, <2>3, <2>4
  <1>5. /\ made' \in 0 .. MaxCarts /\ owner' \in [Carts!Carts -> {"user", "guest", None}]
        /\ cartStatus' \in [Carts!Carts -> Carts!CartStatus \cup {None}]
    BY <1>0 DEF ItemBecomes, CartTypes
  <1>6. cartReq' = [cartReq EXCEPT ![c] = Carts!Idle] /\ \A k \in Carts!Carts : owner'[k] = owner[k]
    BY DEF ItemBecomes, Carts!End
  <1> QED
    BY <1>2, <1>3, <1>4, <1>5, <1>6, CartWrites

LEMMA CartItemChanged ==
  ASSUME CartInv, NEW c \in Calls, Carts!WriteItem(c) \/ Carts!RemoveItem(c)
  PROVE  CartInv'
  <1>r. PICK r : r = cartReq[c]
    OBVIOUS
  <1>0. CartTypes /\ r \in CartCall /\ KnowsCart(r) /\ r.at \in {"item", "write"}
    BY <1>r, CustomerAssumption
       DEF CartInv, CartTypes, CartCalls, Carts!WriteItem, Carts!RemoveItem, Carts!Step, Carts!Idle
  <1>1. CASE Carts!WriteItem(c)
    <2>n. PICK n : n = IF r.op = "add" THEN asked + r.n ELSE r.n
      OBVIOUS
    <2>1. /\ r.at = "write" /\ qty' = [qty EXCEPT ![r.cart] = r.to]
          /\ torn' = (torn \/ qty[r.cart] # r.read \/ Carts!Spent(c))
          /\ ~torn' => asked' = IF r.who = "guest" THEN asked ELSE n
          /\ Carts!End(c) /\ UNCHANGED <<owner, cartStatus, made>>
      BY <1>1, <1>r, <2>n DEF Carts!WriteItem, Carts!Step, Carts!Asks
    <2>2. ~torn' => ~torn /\ ~Carts!Spent(c) /\ qty[r.cart] = r.read
      BY <2>1, Zenon
    <2>3. r.to \in Nat /\ (~torn' /\ asked = qty[r.cart] => n = r.to)
      BY <1>0, <2>1, <2>2, <2>n DEF KnowsCart, CartCall
    <2>4. ItemBecomes(c, r.to, n)
      BY <1>r, <1>0, <2>1, <2>2, <2>3 DEF ItemBecomes
    <2> QED
      BY <2>3, <2>4, CartItemWritten
  <1>2. CASE Carts!RemoveItem(c)
    <2>1. /\ qty' = [qty EXCEPT ![r.cart] = 0]
          /\ torn' = (torn \/ Carts!Spent(c))
          /\ ~torn' => asked' = IF r.who = "guest" THEN asked ELSE 0
          /\ Carts!End(c) /\ UNCHANGED <<owner, cartStatus, made>>
      BY <1>2, <1>r DEF Carts!RemoveItem, Carts!Asks
    <2>2. ~torn' => ~torn /\ ~Carts!Spent(c)
      BY <2>1, Zenon
    <2>3. ItemBecomes(c, 0, 0)
      BY <1>r, <1>0, <2>1, <2>2 DEF ItemBecomes
    <2> QED
      BY <2>3, CartItemWritten
  <1> QED
    BY <1>1, <1>2

LEMMA CartCheckedOut ==
  ASSUME CartInv, NEW k \in Carts!Carts, Carts!Checkout(k)
  PROVE  CartInv'
  <1>1. /\ k \in Carts!Active /\ cartStatus' = [cartStatus EXCEPT ![k] = "CONVERTED"] /\ asked' = 0
        /\ UNCHANGED <<owner, qty, made, cartReq, torn>>
    BY DEF Carts!Checkout
  <1>2. CartTypes'
    BY <1>1 DEF CartInv, CartTypes, Carts!CartStatus, CartCall, Carts!Idle
  <1>3. CartCalls'
    BY <1>1 DEF CartInv, CartCalls, KnowsCart, Carts!Idle
  <1>4. Carts!Active' = Carts!Active \ {k}
    BY <1>1 DEF CartInv, CartTypes, Carts!Active
  <1>5. ~torn' => Asked'
    BY <1>1, <1>4 DEF CartInv, Asked
  <1> QED
    BY <1>2, <1>3, <1>5 DEF CartInv

LEMMA CartStep ==
  ASSUME CartInv, Carts!Next
  PROVE  CartInv'
  <1>1. ASSUME NEW c \in Calls, Carts!Call(c) PROVE CartInv'
    <2>1. CASE Carts!Dies(c)
      <3>1. torn => torn'
        BY <2>1, Zenon DEF Carts!Dies
      <3>2. cartReq' = [cartReq EXCEPT ![c] = Carts!Idle] /\ UNCHANGED <<owner, cartStatus, qty, made, asked>>
        BY <2>1 DEF Carts!Dies, Carts!End, Carts!rowVars
      <3> QED
        BY <3>1, <3>2, CartReads
    <2> QED
      BY <1>1, <2>1, CartResolved, CartCreated, CartCopied, CartMerged, CartItemRead, CartItemChanged
         DEF Carts!Call
  <1>2. ASSUME NEW k \in Carts!Carts, Carts!Checkout(k) PROVE CartInv'
    BY <1>2, CartCheckedOut
  <1> QED
    BY <1>1, <1>2 DEF Carts!Next

LEMMA CartCardinality == \A S : Carts!Cardinality(S) = Cardinality(S)
  BY Zenon DEF Carts!Cardinality, Cardinality

(* The user has at most one active cart, and it holds what was asked for    *)
(* since the last checkout, as long as no step writes over an outdated read *)
(* and no migration of the guest's cart dies half way.                      *)
THEOREM CartHoldsWhatWasAsked == Spec => []CartAsAsked
  <1>1. Init => CartInv
    BY CartInit DEF Init
  <1>2. CartInv /\ [Next]_vars => CartInv'
    <2>1. ASSUME CartInv, UNCHANGED cartVars PROVE CartInv'
      <3>1. UNCHANGED <<owner, cartStatus, qty, made, asked, cartReq, torn>>
        BY <2>1 DEF cartVars
      <3>2. Carts!Active' = Carts!Active
        BY <3>1 DEF Carts!Active
      <3> QED
        BY <2>1, <3>1, <3>2 DEF CartInv, CartTypes, CartCalls, KnowsCart, Asked, CartCall, Carts!Idle
    <2>2. [Next]_vars => Carts!Next \/ UNCHANGED cartVars
      BY DEF Next, vars
    <2> QED
      BY <2>1, <2>2, CartStep
  <1>3. CartInv => CartAsAsked
    <2> SUFFICES ASSUME CartInv, ~torn
                 PROVE  Carts!Cardinality(Carts!Active) <= 1 /\ \A k \in Carts!Active : qty[k] = asked
      BY DEF CartAsAsked, Carts!CartAsAsked
    <2>1. Asked
      BY DEF CartInv
    <2>2. CASE Carts!Active = {}
      BY <2>1, <2>2, CartCardinality, FS_EmptySet DEF Asked
    <2>3. CASE Carts!Active # {}
      <3>1. PICK k \in Carts!Active : TRUE
        BY <2>3
      <3>2. Carts!Active = {k}
        BY <2>1, <3>1 DEF Asked
      <3>3. Cardinality({k}) = 1
        BY FS_Singleton
      <3> QED
        BY <2>1, <3>2, <3>3, CartCardinality DEF Asked
    <2> QED
      BY <2>2, <2>3
  <1> QED
    BY <1>1, <1>2, <1>3, PTL DEF Spec

-----------------------------------------------------------------------------
(* Reviews *)

Moderations == {"approve", "hide", "unhide"}
Sums == [count : Nat, sum : Int]

ReviewCall ==
  [op : {"create", "update", "remove", "reject"} \cup Moderations, row : Reviews!Rows \cup {None},
   by : Buyers \cup {None}, status : Reviews!ReviewStatus \cup {None}, rating : Nat, sum : Sums \cup {None}]

ReviewTypes ==
  /\ reviewsWritten \in 0 .. MaxReviews
  /\ author \in [Reviews!Rows -> Buyers \cup {None}]
  /\ reviewStatus \in [Reviews!Rows -> Reviews!ReviewStatus \cup {None}]
  /\ rating \in [Reviews!Rows -> Nat]
  /\ passed \in [Reviews!Rows -> Nat]
  /\ \A n \in Reviews!Rows : /\ n > reviewsWritten => author[n] = None
                             /\ author[n] = None => reviewStatus[n] = None
  /\ reviewReq \in [Calls -> ReviewCall \cup {Reviews!Idle}]

(* A call has checked the status of what it read; if it holds the review it *)
(* decides about, the review is as it was read, unless that is outdated.    *)
Holds(x) == x.sum # None

KnowsReview(x) ==
  /\ x.op = "create" => x.by # None
  /\ x.op \in {"update", "remove"} => x.status # "PUBLISHED"
  /\ x.op = "reject" => x.status = "PENDING"
  /\ x.op \in Moderations => x.status = Reviews!From[x.op]
  /\ Holds(x) => /\ x.op \in Moderations
                 /\ x.row \in Reviews!Rows
                 /\ author[x.row] # None
                 /\ ~reviewStale => reviewStatus[x.row] = x.status /\ rating[x.row] = x.rating

ReviewCalls ==
  /\ \A c \in Calls : reviewReq[c] # Reviews!Idle => KnowsReview(reviewReq[c])
  /\ \A c, d \in Calls : c # d /\ Holds(reviewReq[c]) /\ Holds(reviewReq[d]) => reviewReq[c].row # reviewReq[d].row

Published == {n \in Reviews!Rows : reviewStatus[n] = "PUBLISHED"}

Approved ==
  /\ summary = Reviews!SumOver(Published)
  /\ \A n \in Reviews!Rows : reviewStatus[n] \in {"PUBLISHED", "HIDDEN"} => rating[n] = passed[n]

ReviewInv == ReviewTypes /\ ReviewCalls /\ (~reviewStale => Approved)

LEMMA ReviewSum ==
  ASSUME NEW S
  PROVE  /\ Reviews!SumOver(S) = [count |-> Cardinality(S), sum |-> SumFunctionOnSet(rating, S)]
         /\ Reviews!SumOver(S)' = [count |-> Cardinality(S), sum |-> SumFunctionOnSet(rating', S)]
  BY Zenon DEF Reviews!SumOver, Reviews!MapThenSumSet, Reviews!MapThenFoldSet, Reviews!Cardinality,
               SumFunctionOnSet, FoldFunctionOnSet, MapThenFoldSet, Cardinality

LEMMA ReviewRows == \A S \in SUBSET Reviews!Rows : IsFiniteSet(S)
  <1>1. IsFiniteSet(1 .. MaxReviews)
    BY CustomerAssumption, FS_Interval
  <1> QED
    BY <1>1, FS_Subset DEF Reviews!Rows

LEMMA SumsAreSums ==
  ASSUME ReviewTypes, NEW S \in SUBSET Reviews!Rows
  PROVE  Reviews!SumOver(S) \in Sums
  <1>1. IsFiniteSet(S)
    BY ReviewRows
  <1>2. SumFunctionOnSet(rating, S) \in Int
    BY <1>1, SumType DEF Numbers, ReviewTypes
  <1>3. Cardinality(S) \in Nat
    BY <1>1, FS_CardinalityType
  <1> QED
    BY <1>2, <1>3, ReviewSum DEF Sums

(* The summary depends on the reviews it counts alone.                      *)
LEMMA SumsStay ==
  ASSUME ReviewTypes, NEW S \in SUBSET Reviews!Rows, \A n \in S : rating'[n] = rating[n]
  PROVE  Reviews!SumOver(S)' = Reviews!SumOver(S)
  <1>1. IsFiniteSet(S)
    BY ReviewRows
  <1>2. SumFunctionOnSet(rating, S) = SumFunctionOnSet(rating', S)
    BY <1>1, SumSame DEF Numbers, ReviewTypes
  <1>3. Reviews!SumOver(S)' = [count |-> Cardinality(S), sum |-> SumFunctionOnSet(rating', S)]
    BY ReviewSum
  <1>4. Reviews!SumOver(S) = [count |-> Cardinality(S), sum |-> SumFunctionOnSet(rating, S)]
    BY ReviewSum
  <1> QED
    BY <1>2, <1>3, <1>4

LEMMA ReviewInit == Reviews!Init => ReviewInv
  <1> SUFFICES ASSUME Reviews!Init PROVE ReviewInv
    OBVIOUS
  <1>1. ReviewTypes
    BY CustomerAssumption DEF Reviews!Init, ReviewTypes
  <1>2. ReviewCalls
    BY DEF Reviews!Init, ReviewCalls, Reviews!Idle, Holds
  <1>3. Published = {} /\ \A n \in Reviews!Rows : reviewStatus[n] \notin {"PUBLISHED", "HIDDEN"}
    BY CustomerAssumption DEF Reviews!Init, Published
  <1>4. Reviews!SumOver({}) = [count |-> 0, sum |-> 0]
    BY ReviewSum, SumEmpty, FS_EmptySet
  <1>5. Approved
    BY <1>3, <1>4 DEF Reviews!Init, Approved
  <1> QED
    BY <1>1, <1>2, <1>5 DEF ReviewInv

(* Calls keep what they know while what is held by one is written by none.  *)
LEMMA ReviewCallsStay ==
  ASSUME ReviewTypes, ReviewCalls, NEW c \in Calls,
         NEW x \in ReviewCall \cup {Reviews!Idle}, reviewReq' = [reviewReq EXCEPT ![c] = x],
         x # Reviews!Idle => KnowsReview(x)',
         Holds(x) => \A d \in Calls : d # c /\ Holds(reviewReq[d]) => reviewReq[d].row # x.row,
         reviewStale => reviewStale',
         \A d \in Calls : d # c /\ Holds(reviewReq[d]) =>
           /\ author'[reviewReq[d].row] # None
           /\ reviewStatus'[reviewReq[d].row] = reviewStatus[reviewReq[d].row]
           /\ rating'[reviewReq[d].row] = rating[reviewReq[d].row]
  PROVE  ReviewCalls' /\ reviewReq' \in [Calls -> ReviewCall \cup {Reviews!Idle}]
  <1>1. reviewReq' \in [Calls -> ReviewCall \cup {Reviews!Idle}]
    BY DEF ReviewTypes
  <1>2. \A d \in Calls : reviewReq'[d] = IF d = c THEN x ELSE reviewReq[d]
    BY DEF ReviewTypes
  <1>3. ASSUME NEW d \in Calls, reviewReq'[d] # Reviews!Idle PROVE KnowsReview(reviewReq[d])'
    <2>1. CASE d = c
      BY <1>2, <1>3, <2>1
    <2>2. CASE d # c
      <3>1. reviewReq'[d] = reviewReq[d] /\ KnowsReview(reviewReq[d])
        BY <1>2, <1>3, <2>2 DEF ReviewCalls
      <3> QED
        BY <2>2, <3>1 DEF KnowsReview, Holds, Reviews!From
    <2> QED
      BY <2>1, <2>2
  <1>4. \A d, e \in Calls : d # e /\ Holds(reviewReq'[d]) /\ Holds(reviewReq'[e])
                           => reviewReq'[d].row # reviewReq'[e].row
    BY <1>2 DEF ReviewCalls
  <1>5. ReviewCalls'
    BY <1>3, <1>4 DEF ReviewCalls, Holds, Reviews!Idle
  <1> QED
    BY <1>1, <1>5

(* Reads, the taking of a review, and calls that end without a write.       *)
LEMMA ReviewReads ==
  ASSUME ReviewInv, NEW c \in Calls,
         NEW x \in ReviewCall \cup {Reviews!Idle}, reviewReq' = [reviewReq EXCEPT ![c] = x],
         x # Reviews!Idle => KnowsReview(x)',
         Holds(x) => \A d \in Calls : d # c /\ Holds(reviewReq[d]) => reviewReq[d].row # x.row,
         reviewStale => reviewStale',
         UNCHANGED <<author, reviewStatus, rating, passed, reviewsWritten, summary>>
  PROVE  ReviewInv'
  <1>0. ReviewTypes /\ ReviewCalls
    BY DEF ReviewInv
  <1>1. \A d \in Calls : d # c /\ Holds(reviewReq[d]) =>
          /\ author'[reviewReq[d].row] # None
          /\ reviewStatus'[reviewReq[d].row] = reviewStatus[reviewReq[d].row]
          /\ rating'[reviewReq[d].row] = rating[reviewReq[d].row]
    BY DEF ReviewInv, ReviewCalls, KnowsReview, Holds, Reviews!Idle
  <1>2. ReviewCalls' /\ reviewReq' \in [Calls -> ReviewCall \cup {Reviews!Idle}]
    BY <1>0, <1>1, ReviewCallsStay
  <1>3. ReviewTypes'
    BY <1>0, <1>2 DEF ReviewTypes, ReviewCall, Reviews!Idle, Sums
  <1>4. ~reviewStale' => Approved'
    <2>1. Published' = Published
      BY DEF Published
    <2>2. Reviews!SumOver(Published)' = Reviews!SumOver(Published)
      BY <1>0, SumsStay DEF Published
    <2> QED
      BY <2>1, <2>2 DEF ReviewInv, Approved
  <1> QED
    BY <1>2, <1>3, <1>4 DEF ReviewInv

(* What writes one row leaves the others to the calls that hold them.       *)
LEMMA ReviewWrites ==
  ASSUME ReviewInv, NEW c \in Calls, Reviews!End(c), NEW k \in Reviews!Rows,
         \A d \in Calls : d # c /\ Holds(reviewReq[d]) => reviewReq[d].row # k,
         \A n \in Reviews!Rows : n # k => /\ author'[n] = author[n] /\ reviewStatus'[n] = reviewStatus[n]
                                        /\ rating'[n] = rating[n] /\ passed'[n] = passed[n],
         author' \in [Reviews!Rows -> Buyers \cup {None}],
         reviewStatus' \in [Reviews!Rows -> Reviews!ReviewStatus \cup {None}],
         rating' \in [Reviews!Rows -> Nat], passed' \in [Reviews!Rows -> Nat],
         reviewsWritten' \in 0 .. MaxReviews, reviewsWritten <= reviewsWritten', k <= reviewsWritten',
         author'[k] = None => reviewStatus'[k] = None,
         reviewStale => reviewStale',
         ~reviewStale' => Approved'
  PROVE  ReviewInv'
  <1>0. ReviewTypes /\ ReviewCalls
    BY DEF ReviewInv
  <1>1. reviewReq' = [reviewReq EXCEPT ![c] = Reviews!Idle] /\ ~Holds(Reviews!Idle)
    BY DEF Reviews!End, Reviews!Idle, Holds
  <1>2. \A d \in Calls : d # c /\ Holds(reviewReq[d]) =>
          /\ author'[reviewReq[d].row] # None
          /\ reviewStatus'[reviewReq[d].row] = reviewStatus[reviewReq[d].row]
          /\ rating'[reviewReq[d].row] = rating[reviewReq[d].row]
    BY <1>0, <1>1 DEF ReviewCalls, KnowsReview
  <1>3. ReviewCalls' /\ reviewReq' \in [Calls -> ReviewCall \cup {Reviews!Idle}]
    BY <1>0, <1>1, <1>2, ReviewCallsStay
  <1>4. \A n \in Reviews!Rows : /\ n > reviewsWritten' => author'[n] = None
                                /\ author'[n] = None => reviewStatus'[n] = None
    <2>1. \A n \in Reviews!Rows : n \in Nat
      BY DEF Reviews!Rows
    <2>2. reviewsWritten \in Nat /\ reviewsWritten' \in Nat
      BY <1>0 DEF ReviewTypes
    <2> QED
      BY <1>0, <2>1, <2>2 DEF ReviewTypes
  <1>5. ReviewTypes'
    BY <1>3, <1>4 DEF ReviewTypes, ReviewCall, Reviews!Idle, Sums
  <1> QED
    BY <1>3, <1>5 DEF ReviewInv

(* Rows that were not published, and are not, do not count.                 *)
LEMMA UnpublishedWrites ==
  ASSUME ReviewTypes, Approved, NEW k \in Reviews!Rows, summary' = summary,
         reviewStatus[k] # "PUBLISHED", reviewStatus'[k] \notin {"PUBLISHED", "HIDDEN"},
         \A n \in Reviews!Rows : n # k => /\ reviewStatus'[n] = reviewStatus[n] /\ rating'[n] = rating[n]
                                        /\ passed'[n] = passed[n]
  PROVE  Approved'
  <1>1. Published' = Published
    BY DEF Published
  <1>2. Reviews!SumOver(Published)' = Reviews!SumOver(Published)
    BY SumsStay DEF Published
  <1> QED
    BY <1>1, <1>2 DEF Approved

LEMMA ReviewCreated ==
  ASSUME ReviewInv, NEW c \in Calls, Reviews!CommitCreate(c)
  PROVE  ReviewInv'
  <1>0. /\ ReviewTypes /\ ReviewCalls /\ reviewReq[c] \in ReviewCall /\ KnowsReview(reviewReq[c])
        /\ reviewReq[c].op = "create"
    BY DEF ReviewInv, ReviewTypes, ReviewCalls, Reviews!CommitCreate, Reviews!Idle
  <1>1. PICK k \in Reviews!Rows : k = reviewsWritten + 1
    BY <1>0, CustomerAssumption DEF Reviews!CommitCreate, Reviews!Rows, ReviewTypes
  <1>b. PICK b \in Buyers : b = reviewReq[c].by /\ b # None
    BY <1>0 DEF KnowsReview, ReviewCall
  <1>2. PICK r \in Ratings : rating' = [rating EXCEPT ![k] = r]
    BY <1>1 DEF Reviews!CommitCreate
  <1>3. /\ reviewsWritten' = k /\ author' = [author EXCEPT ![k] = b]
        /\ reviewStatus' = [reviewStatus EXCEPT ![k] = "PENDING"]
        /\ Reviews!End(c) /\ UNCHANGED <<passed, summary, reviewStale>>
    BY <1>1, <1>b DEF Reviews!CommitCreate
  <1>4. author[k] = None /\ reviewStatus[k] = None
    BY <1>0, <1>1 DEF ReviewTypes
  <1>5. \A d \in Calls : d # c /\ Holds(reviewReq[d]) => reviewReq[d].row # k
    BY <1>0, <1>4 DEF ReviewCalls, KnowsReview, Holds, Reviews!Idle
  <1>6. /\ author' \in [Reviews!Rows -> Buyers \cup {None}]
        /\ reviewStatus' \in [Reviews!Rows -> Reviews!ReviewStatus \cup {None}]
        /\ rating' \in [Reviews!Rows -> Nat] /\ passed' \in [Reviews!Rows -> Nat]
    <2>1. r \in Nat
      BY CustomerAssumption
    <2> QED
      BY <1>0, <1>2, <1>3, <2>1 DEF ReviewTypes, Reviews!ReviewStatus
  <1>7. \A n \in Reviews!Rows : n # k => /\ author'[n] = author[n] /\ reviewStatus'[n] = reviewStatus[n]
                                       /\ rating'[n] = rating[n] /\ passed'[n] = passed[n]
    BY <1>0, <1>2, <1>3 DEF ReviewTypes
  <1>8. author'[k] = b /\ reviewStatus'[k] = "PENDING"
    BY <1>0, <1>3 DEF ReviewTypes
  <1>9. ~reviewStale' => Approved'
    BY <1>0, <1>3, <1>4, <1>7, <1>8, CustomerAssumption, UnpublishedWrites DEF ReviewInv
  <1>10. reviewsWritten' \in 0 .. MaxReviews /\ reviewsWritten <= reviewsWritten' /\ k <= reviewsWritten'
    BY <1>0, <1>1, <1>3, CustomerAssumption DEF ReviewTypes, Reviews!Rows
  <1>11. reviewStale => reviewStale'
    BY <1>3
  <1> QED
    BY <1>b, <1>3, <1>5, <1>6, <1>7, <1>8, <1>9, <1>10, <1>11, ReviewWrites

(* What a call that writes a review knows of it. *)
LEMMA ReviewHeld ==
  ASSUME ReviewInv, NEW c \in Calls, NEW k \in Reviews!Rows, reviewReq[c].op # "idle", Reviews!Writable(c, k)
  PROVE  /\ reviewReq[c] \in ReviewCall /\ KnowsReview(reviewReq[c]) /\ reviewReq[c].row = k
         /\ author[k] # None /\ k <= reviewsWritten
         /\ \A d \in Calls : Holds(reviewReq[d]) => reviewReq[d].row # k
  <1>1. reviewReq[c] \in ReviewCall /\ KnowsReview(reviewReq[c])
    BY DEF ReviewInv, ReviewTypes, ReviewCalls, Reviews!Idle
  <1>2. /\ reviewReq[c].row = k /\ author[k] # None
        /\ \A d \in Calls : Holds(reviewReq[d]) => reviewReq[d].row # k
    BY DEF Reviews!Writable, Reviews!Locked, Holds
  <1>3. k \in Nat /\ reviewsWritten \in Nat /\ (k > reviewsWritten => author[k] = None)
    BY DEF ReviewInv, ReviewTypes, Reviews!Rows
  <1> QED
    BY <1>1, <1>2, <1>3

LEMMA ReviewCorrected ==
  ASSUME ReviewInv, NEW c \in Calls, NEW k \in Reviews!Rows,
         Reviews!CommitUpdate(c, k) \/ Reviews!CommitRemove(c, k) \/ Reviews!CommitReject(c, k)
  PROVE  ReviewInv'
  <1>r. PICK x : x = reviewReq[c]
    OBVIOUS
  <1>0. ReviewTypes /\ x.op \in {"update", "remove", "reject"} /\ Reviews!Writable(c, k)
    BY <1>r DEF ReviewInv, Reviews!CommitUpdate, Reviews!CommitRemove, Reviews!CommitReject
  <1>1. /\ x \in ReviewCall /\ KnowsReview(x) /\ author[k] # None /\ k <= reviewsWritten
        /\ \A d \in Calls : Holds(reviewReq[d]) => reviewReq[d].row # k
    BY <1>r, <1>0, ReviewHeld
  <1>2. PICK a, s, r, p : /\ author' = [author EXCEPT ![k] = a] /\ reviewStatus' = [reviewStatus EXCEPT ![k] = s]
                          /\ rating' = [rating EXCEPT ![k] = r] /\ passed' = [passed EXCEPT ![k] = p]
                          /\ r \in Nat /\ p \in Nat /\ UNCHANGED <<reviewsWritten, summary>> /\ Reviews!End(c)
                          /\ \/ a = None /\ s = None
                             \/ a = author[k] /\ s = "REJECTED"
                             \/ /\ a = author[k] /\ x.op = "update"
                                /\ s = IF Reviews!Reopened(x.status) # x.status
                                         THEN Reviews!Reopened(x.status) ELSE reviewStatus[k]
    <2>0. rating[k] \in Nat /\ passed[k] \in Nat
      BY <1>0 DEF ReviewTypes
    <2>1. author = [author EXCEPT ![k] = author[k]] /\ rating = [rating EXCEPT ![k] = rating[k]]
          /\ passed = [passed EXCEPT ![k] = passed[k]]
      BY <1>0 DEF ReviewTypes
    <2>2. CASE Reviews!CommitUpdate(c, k)
      <3>1. PICK r \in Ratings : rating' = [rating EXCEPT ![k] = r]
        BY <2>2 DEF Reviews!CommitUpdate
      <3>2. r \in Nat
        BY CustomerAssumption
      <3>3. /\ x.op = "update" /\ UNCHANGED <<author, passed, reviewsWritten, summary>> /\ Reviews!End(c)
            /\ reviewStatus' = [reviewStatus EXCEPT ![k] = IF Reviews!Reopened(x.status) # x.status
                                                           THEN Reviews!Reopened(x.status) ELSE reviewStatus[k]]
        BY <1>r, <2>2 DEF Reviews!CommitUpdate
      <3> QED
        BY <2>0, <2>1, <3>1, <3>2, <3>3
    <2>3. CASE Reviews!CommitRemove(c, k)
      BY <2>3 DEF Reviews!CommitRemove
    <2>4. CASE Reviews!CommitReject(c, k)
      BY <2>0, <2>1, <2>4 DEF Reviews!CommitReject
    <2> QED
      BY <2>2, <2>3, <2>4
  <1>3. reviewStale' = (reviewStale \/ Reviews!Outdated(c, k))
    BY DEF Reviews!CommitUpdate, Reviews!CommitRemove, Reviews!CommitReject
  <1>4. (reviewStale => reviewStale') /\ (~reviewStale' => ~reviewStale /\ ~Reviews!Outdated(c, k))
    BY <1>3, Zenon
  <1>5. s \in Reviews!ReviewStatus \cup {None} /\ a \in Buyers \cup {None} /\ (a = None => s = None)
    BY <1>0, <1>1, <1>2 DEF Reviews!Reopened, Reviews!ReviewStatus, ReviewTypes, ReviewCall
  <1>6. /\ author' \in [Reviews!Rows -> Buyers \cup {None}]
        /\ reviewStatus' \in [Reviews!Rows -> Reviews!ReviewStatus \cup {None}]
        /\ rating' \in [Reviews!Rows -> Nat] /\ passed' \in [Reviews!Rows -> Nat]
    BY <1>0, <1>2, <1>5 DEF ReviewTypes
  <1>7. /\ author'[k] = a /\ reviewStatus'[k] = s
        /\ \A n \in Reviews!Rows : n # k => /\ author'[n] = author[n] /\ reviewStatus'[n] = reviewStatus[n]
                                          /\ rating'[n] = rating[n] /\ passed'[n] = passed[n]
    BY <1>0, <1>2 DEF ReviewTypes
  <1>8. ASSUME ~reviewStale' PROVE Approved'
    <2>1. reviewStatus[k] = x.status /\ x.status # "PUBLISHED"
      BY <1>r, <1>0, <1>1, <1>4, <1>8 DEF Reviews!Outdated, KnowsReview
    <2>2. s \notin {"PUBLISHED", "HIDDEN"}
      BY <1>2, <2>1, CustomerAssumption DEF Reviews!Reopened
    <2>3. Approved /\ summary' = summary
      BY <1>2, <1>4, <1>8 DEF ReviewInv
    <2> QED
      BY <1>0, <1>7, <2>1, <2>2, <2>3, UnpublishedWrites
  <1>9. reviewsWritten' \in 0 .. MaxReviews /\ reviewsWritten <= reviewsWritten' /\ k <= reviewsWritten'
    BY <1>0, <1>1, <1>2 DEF ReviewTypes
  <1> QED
    BY <1>1, <1>2, <1>4, <1>5, <1>6, <1>7, <1>8, <1>9, ReviewWrites

LEMMA ReviewModerated ==
  ASSUME ReviewInv, NEW c \in Calls, NEW k \in Reviews!Rows, Reviews!CommitModerate(c, k)
  PROVE  ReviewInv'
  <1>r. PICK x : x = reviewReq[c]
    OBVIOUS
  <1>0. ReviewTypes /\ ReviewCalls /\ x.row = k /\ Holds(x)
    BY <1>r DEF ReviewInv, Reviews!CommitModerate, Holds
  <1>1. x \in ReviewCall /\ KnowsReview(x) /\ x.op \in Moderations
    BY <1>r, <1>0 DEF ReviewTypes, ReviewCalls, Holds, Reviews!Idle, KnowsReview
  <1>2. PICK s, p : /\ s = Reviews!To[x.op] /\ p = IF x.op = "approve" THEN x.rating ELSE passed[k]
                    /\ reviewStatus' = [reviewStatus EXCEPT ![k] = s] /\ passed' = [passed EXCEPT ![k] = p]
                    /\ summary' = x.sum /\ UNCHANGED <<author, rating, reviewsWritten>> /\ Reviews!End(c)
    BY <1>r DEF Reviews!CommitModerate
  <1>3. s \in {"PUBLISHED", "HIDDEN"} /\ p \in Nat
    BY <1>0, <1>1, <1>2 DEF Reviews!To, Moderations, ReviewTypes, ReviewCall
  <1>4. /\ reviewStatus' \in [Reviews!Rows -> Reviews!ReviewStatus \cup {None}]
        /\ passed' \in [Reviews!Rows -> Nat] /\ author' \in [Reviews!Rows -> Buyers \cup {None}]
        /\ rating' \in [Reviews!Rows -> Nat]
    BY <1>0, <1>2, <1>3 DEF ReviewTypes, Reviews!ReviewStatus
  <1>5. /\ reviewStatus'[k] = s /\ passed'[k] = p
        /\ \A n \in Reviews!Rows : n # k => /\ author'[n] = author[n] /\ reviewStatus'[n] = reviewStatus[n]
                                          /\ rating'[n] = rating[n] /\ passed'[n] = passed[n]
    BY <1>0, <1>2 DEF ReviewTypes
  <1>6. reviewStale' = (reviewStale \/ x.sum # Reviews!SumOver(Reviews!Counted(k, s)))
    BY <1>r, <1>2 DEF Reviews!CommitModerate
  <1>7. /\ reviewStale => reviewStale'
        /\ ~reviewStale' => ~reviewStale /\ x.sum = Reviews!SumOver(Reviews!Counted(k, s))
    BY <1>6, Zenon
  <1>8. author'[k] # None /\ k <= reviewsWritten'
    <2>1. author[k] # None
      BY <1>0, <1>1 DEF KnowsReview
    <2>2. k \in Nat /\ reviewsWritten \in Nat
      BY <1>0 DEF ReviewTypes, Reviews!Rows
    <2> QED
      BY <1>0, <1>2, <2>1, <2>2 DEF ReviewTypes
  <1>9. ASSUME ~reviewStale' PROVE Approved'
    <2>1. Published' = Reviews!Counted(k, s)
      BY <1>5 DEF Published, Reviews!Counted, Reviews!PublishedWith
    <2>2. Published' \in SUBSET Reviews!Rows
      BY DEF Published
    <2>3. summary' = Reviews!SumOver(Published)'
      <3> DEFINE P == Reviews!Counted(k, s)
      <3>1. P \in SUBSET Reviews!Rows
        BY <2>1, <2>2
      <3>2. summary' = Reviews!SumOver(P)
        BY <1>2, <1>7, <1>9
      <3> QED
        BY <1>2, <2>1, <2>2, <3>2, ReviewSum
    <2>4. reviewStatus[k] = x.status /\ rating[k] = x.rating /\ x.status = Reviews!From[x.op]
      BY <1>0, <1>1, <1>7, <1>9 DEF KnowsReview
    <2>5. rating[k] = p
      BY <1>1, <1>2, <1>7, <1>9, <2>4 DEF Reviews!From, Moderations, ReviewInv, Approved
    <2>6. \A n \in Reviews!Rows : reviewStatus'[n] \in {"PUBLISHED", "HIDDEN"} => rating'[n] = passed'[n]
      BY <1>2, <1>5, <1>7, <1>9, <2>5 DEF ReviewInv, Approved
    <2> QED
      BY <2>3, <2>6 DEF Approved
  <1>10. \A d \in Calls : d # c /\ Holds(reviewReq[d]) => reviewReq[d].row # k
    BY <1>r, <1>0 DEF ReviewCalls
  <1>11. reviewsWritten' \in 0 .. MaxReviews /\ reviewsWritten <= reviewsWritten'
    BY <1>0, <1>2 DEF ReviewTypes
  <1> QED
    BY <1>2, <1>4, <1>5, <1>7, <1>8, <1>9, <1>10, <1>11, ReviewWrites

LEMMA ReviewReadCreate ==
  ASSUME ReviewInv, NEW c \in Calls, NEW b \in Buyers, Reviews!ReadCreate(c, b)
  PROVE  ReviewInv'
  <1>1. PICK x : x = [Reviews!Idle EXCEPT !.op = "create", !.by = b]
    OBVIOUS
  <1>2. reviewReq' = [reviewReq EXCEPT ![c] = x]
    BY <1>1 DEF Reviews!ReadCreate
  <1>3. x \in ReviewCall /\ x.op = "create" /\ x.by = b /\ ~Holds(x)
    BY <1>1 DEF ReviewCall, Holds, Reviews!Idle
  <1>4. KnowsReview(x)'
    BY <1>3, CustomerAssumption DEF KnowsReview, Holds, Moderations
  <1>5. (reviewStale => reviewStale') /\ UNCHANGED <<author, reviewStatus, rating, passed, reviewsWritten, summary>>
    BY DEF Reviews!ReadCreate, Reviews!rowVars
  <1> QED
    BY <1>2, <1>3, <1>4, <1>5, ReviewReads

(* What a call checks of the review it reads, it knows. *)
LEMMA ReviewRead ==
  ASSUME ReviewInv, NEW c \in Calls, NEW n \in Reviews!Rows,
         NEW op \in {"update", "remove", "reject"} \cup Moderations, Reviews!Read(c, op, n),
         op \in {"update", "remove"} => reviewStatus[n] # "PUBLISHED",
         op = "reject" => reviewStatus[n] = "PENDING",
         op \in Moderations => reviewStatus[n] = Reviews!From[op]
  PROVE  ReviewInv'
  <1>1. PICK x : x = [Reviews!Idle EXCEPT !.op = op, !.row = n, !.status = reviewStatus[n], !.rating = rating[n]]
    OBVIOUS
  <1>2. reviewReq' = [reviewReq EXCEPT ![c] = x]
    BY <1>1 DEF Reviews!Read
  <1>3. x \in ReviewCall /\ x.op = op /\ x.status = reviewStatus[n] /\ ~Holds(x)
    <2>1. reviewStatus[n] \in Reviews!ReviewStatus \cup {None} /\ rating[n] \in Nat
      BY DEF ReviewInv, ReviewTypes
    <2> QED
      BY <1>1, <2>1 DEF ReviewCall, Holds, Reviews!Idle
  <1>4. KnowsReview(x)'
    BY <1>3 DEF KnowsReview, Holds, Moderations, Reviews!From
  <1>5. (reviewStale => reviewStale') /\ UNCHANGED <<author, reviewStatus, rating, passed, reviewsWritten, summary>>
    BY DEF Reviews!Read, Reviews!rowVars
  <1> QED
    BY <1>2, <1>3, <1>4, <1>5, ReviewReads

LEMMA ReviewTaken ==
  ASSUME ReviewInv, NEW c \in Calls, NEW k \in Reviews!Rows, Reviews!Aggregate(c, k)
  PROVE  ReviewInv'
  <1>r. PICK x : x = reviewReq[c]
    OBVIOUS
  <1>0. ReviewTypes /\ x.op \in Moderations /\ Reviews!Writable(c, k)
    BY <1>r DEF ReviewInv, Reviews!Aggregate, Reviews!To, Moderations
  <1>1. /\ x \in ReviewCall /\ KnowsReview(x) /\ x.row = k /\ author[k] # None
        /\ \A d \in Calls : Holds(reviewReq[d]) => reviewReq[d].row # k
    BY <1>r, <1>0, ReviewHeld DEF Moderations
  <1>2. PICK t : t = Reviews!SumOver(Reviews!Counted(k, Reviews!To[x.op]))
    OBVIOUS
  <1>3. t \in Sums
    <2>1. Reviews!Counted(k, Reviews!To[x.op]) \in SUBSET Reviews!Rows
      BY DEF Reviews!Counted, Reviews!PublishedWith
    <2> QED
      BY <1>0, <1>2, <2>1, SumsAreSums
  <1>4. PICK y : y = [x EXCEPT !.sum = t]
    OBVIOUS
  <1>5. reviewReq' = [reviewReq EXCEPT ![c] = y]
    BY <1>r, <1>0, <1>2, <1>4 DEF Reviews!Aggregate, ReviewTypes
  <1>6. /\ y \in ReviewCall /\ y.op = x.op /\ y.row = k /\ y.status = x.status /\ y.rating = x.rating
        /\ y.by = x.by /\ y.sum = t
    BY <1>1, <1>3, <1>4 DEF ReviewCall
  <1>7. reviewStale' = (reviewStale \/ Reviews!Outdated(c, k))
    BY DEF Reviews!Aggregate
  <1>8. (reviewStale => reviewStale') /\ (~reviewStale' => ~reviewStale /\ ~Reviews!Outdated(c, k))
    BY <1>7, Zenon
  <1>9. UNCHANGED <<author, reviewStatus, rating, passed, reviewsWritten, summary>>
    BY DEF Reviews!Aggregate, Reviews!rowVars
  <1>10. ~reviewStale' => reviewStatus[k] = x.status /\ rating[k] = x.rating
    BY <1>r, <1>8 DEF Reviews!Outdated
  <1>11. x.status = Reviews!From[x.op]
    BY <1>0, <1>1 DEF KnowsReview
  <1>12. KnowsReview(y)'
    BY <1>0, <1>1, <1>6, <1>9, <1>10, <1>11 DEF KnowsReview, Moderations, Reviews!From
  <1>13. \A d \in Calls : d # c /\ Holds(reviewReq[d]) => reviewReq[d].row # y.row
    BY <1>1, <1>6
  <1> QED
    BY <1>5, <1>6, <1>8, <1>9, <1>12, <1>13, ReviewReads

LEMMA ReviewDropped ==
  ASSUME ReviewInv, NEW c \in Calls, Reviews!Drop(c)
  PROVE  ReviewInv'
  <1>1. PICK x : x = Reviews!Idle
    OBVIOUS
  <1>2. reviewReq' = [reviewReq EXCEPT ![c] = x] /\ ~Holds(x)
    BY <1>1 DEF Reviews!Drop, Reviews!End, Reviews!Idle, Holds
  <1>3. (reviewStale => reviewStale') /\ UNCHANGED <<author, reviewStatus, rating, passed, reviewsWritten, summary>>
    BY DEF Reviews!Drop, Reviews!rowVars
  <1> QED
    BY <1>1, <1>2, <1>3, ReviewReads

LEMMA ReviewStep ==
  ASSUME ReviewInv, Reviews!Next
  PROVE  ReviewInv'
  <1>1. PICK c \in Calls : Reviews!Call(c)
    BY DEF Reviews!Next
  <1>2. CASE \E b \in Buyers : Reviews!ReadCreate(c, b)
    BY <1>2, ReviewReadCreate
  <1>3. CASE Reviews!CommitCreate(c)
    BY <1>3, ReviewCreated
  <1>4. ASSUME NEW n \in Reviews!Rows,
               Reviews!ReadUpdate(c, n) \/ Reviews!ReadRemove(c, n) \/ Reviews!ReadReject(c, n)
        PROVE  ReviewInv'
    <2>1. CASE Reviews!ReadUpdate(c, n)
      BY <2>1, ReviewRead DEF Reviews!ReadUpdate, Reviews!Correctable, Moderations
    <2>2. CASE Reviews!ReadRemove(c, n)
      BY <2>2, ReviewRead DEF Reviews!ReadRemove, Reviews!Correctable, Moderations
    <2>3. CASE Reviews!ReadReject(c, n)
      BY <2>3, ReviewRead DEF Reviews!ReadReject, Moderations
    <2> QED
      BY <1>4, <2>1, <2>2, <2>3
  <1>5. ASSUME NEW n \in Reviews!Rows, Reviews!ReadModerate(c, n) PROVE ReviewInv'
    <2>1. PICK op \in Moderations : reviewStatus[n] = Reviews!From[op] /\ Reviews!Read(c, op, n)
      BY <1>5 DEF Reviews!ReadModerate, Reviews!From, Moderations
    <2> QED
      BY <2>1, ReviewRead DEF Moderations
  <1>6. CASE Reviews!Drop(c)
    BY <1>6, ReviewDropped
  <1> QED
    BY <1>1, <1>2, <1>3, <1>4, <1>5, <1>6, ReviewCorrected, ReviewTaken, ReviewModerated DEF Reviews!Call

(* Number and average on the product are those of the published reviews,    *)
(* which read as they were approved, however corrections, removals and      *)
(* decisions follow one another, unless a write was over an outdated read.  *)
THEOREM SummaryIsOfApproved == Spec => []SummaryAgrees
  <1>1. Init => ReviewInv
    BY ReviewInit DEF Init
  <1>2. ReviewInv /\ [Next]_vars => ReviewInv'
    <2>1. ASSUME ReviewInv, UNCHANGED reviewVars PROVE ReviewInv'
      <3>1. UNCHANGED <<author, reviewStatus, rating, passed, reviewsWritten, summary, reviewReq, reviewStale>>
        BY <2>1 DEF reviewVars
      <3>2. ReviewTypes /\ ReviewCalls
        BY <2>1 DEF ReviewInv
      <3>3. ReviewTypes'
        BY <3>1, <3>2 DEF ReviewTypes, ReviewCall, Reviews!Idle, Sums
      <3>4. ReviewCalls'
        BY <3>1, <3>2 DEF ReviewCalls, KnowsReview, Holds, Reviews!Idle, Reviews!From
      <3>5. Published' = Published /\ Reviews!SumOver(Published)' = Reviews!SumOver(Published)
        BY <3>1, <3>2, SumsStay DEF Published
      <3> QED
        BY <2>1, <3>1, <3>3, <3>4, <3>5 DEF ReviewInv, Approved
    <2>2. [Next]_vars => Reviews!Next \/ UNCHANGED reviewVars
      BY DEF Next, vars
    <2> QED
      BY <2>1, <2>2, ReviewStep
  <1>3. ReviewInv => SummaryAgrees
    <2>1. Reviews!PublishedWith(0, None) = Published
      BY DEF Reviews!PublishedWith, Published, Reviews!Rows
    <2> QED
      BY <2>1 DEF ReviewInv, Approved, SummaryAgrees, Reviews!SummaryAgrees
  <1> QED
    BY <1>1, <1>2, <1>3, PTL DEF Spec

-----------------------------------------------------------------------------
(* The money of an order *)

(* What the lines of a basket come to, by line, by seller and in all.       *)
Worths(b) == [i \in DOMAIN b |-> b[i].unit * b[i].qty]
Worth(b, S) == SumFunctionOnSet(Worths(b), S)
SellersOf(b) == {b[i].seller : i \in DOMAIN b}
LinesIn(b, D) == {i \in DOMAIN b : b[i].seller \in D}

IsBasket(b, n) ==
  /\ IsFiniteSet(DOMAIN b) /\ n \in Nat
  /\ \A i \in DOMAIN b : b[i].unit \in Nat \ {0} /\ b[i].qty \in Nat \ {0}
  /\ SellersOf(b) = 1 .. n

(* By how much a share is more than its exact part, times the subtotal.     *)
Off(b, p, sh) == [s \in DOMAIN sh |-> p.subtotal * sh[s] - p.grand * Worth(b, LinesIn(b, {s}))]

IsSplit(b, p, sh, n) ==
  /\ p.subtotal = Worth(b, DOMAIN b) /\ p.subtotal \in Nat \ {0} /\ p.grand \in Nat
  /\ n > 0 /\ sh \in [1 .. n -> Int] /\ SumFunctionOnSet(sh, 1 .. n) = p.grand
  /\ \A s \in 1 .. n - 1 : 2 * Off(b, p, sh)[s] <= p.subtotal /\ -2 * Off(b, p, sh)[s] <= p.subtotal

(* Every line comes to something, and so do any of them. *)
LEMMA WorthTypes ==
  ASSUME NEW b, NEW n, IsBasket(b, n)
  PROVE  /\ \A i \in DOMAIN b : Worths(b)[i] \in Nat \ {0}
         /\ \A S \in SUBSET DOMAIN b : IsFiniteSet(S) /\ Numbers(Worths(b), S) /\ Worth(b, S) \in Nat
  <1>1. \A i \in DOMAIN b : Worths(b)[i] \in Nat \ {0}
    <2> SUFFICES ASSUME NEW i \in DOMAIN b PROVE Worths(b)[i] \in Nat \ {0}
      OBVIOUS
    <2>1. PICK u, q \in Nat \ {0} : u = b[i].unit /\ q = b[i].qty
      BY DEF IsBasket
    <2>2. u * q \in Nat \ {0}
      OBVIOUS
    <2> QED
      BY <2>1, <2>2 DEF Worths
  <1>2. ASSUME NEW S \in SUBSET DOMAIN b
        PROVE  IsFiniteSet(S) /\ Numbers(Worths(b), S) /\ Worth(b, S) \in Nat
    <2>1. IsFiniteSet(S)
      BY FS_Subset DEF IsBasket
    <2>2. \A i \in S : Worths(b)[i] \in Nat
      BY <1>1
    <2> HIDE DEF Worths
    <2>3. SumFunctionOnSet(Worths(b), S) \in Nat
      BY <2>1, <2>2, SumNat
    <2> QED
      BY <2>1, <2>2, <2>3 DEF Worth, Numbers
  <1> QED
    BY <1>1, <1>2

(* Some of the sellers are finitely many. *)
LEMMA SomeSellers ==
  ASSUME NEW b, NEW n, IsBasket(b, n), NEW D \in SUBSET (1 .. n)
  PROVE  IsFiniteSet(D)
  <1>1. IsFiniteSet(1 .. n)
    BY FS_Interval DEF IsBasket
  <1> QED
    BY <1>1, FS_Subset

(* What some sellers' lines come to is the sum of what each one's do. *)
LEMMA WorthBySeller ==
  ASSUME NEW b, NEW n, IsBasket(b, n), NEW D \in SUBSET (1 .. n),
         NEW w, \A s \in D : w[s] = Worth(b, LinesIn(b, {s}))
  PROVE  Worth(b, LinesIn(b, D)) = SumFunctionOnSet(w, D)
  <1> DEFINE ofSeller == [s \in D |-> LinesIn(b, {s})]
  <1>1. ofSeller \in [D -> SUBSET DOMAIN b] /\ \A c, d \in D : c # d => ofSeller[c] \cap ofSeller[d] = {}
    BY DEF LinesIn
  <1>a. FallsInto(ofSeller, D, DOMAIN b)
    BY <1>1 DEF FallsInto
  <1>2. LinesIn(b, D) = AllOf(ofSeller, D)
    <2>1. ASSUME NEW i \in LinesIn(b, D) PROVE \E s \in D : i \in ofSeller[s]
      BY DEF LinesIn
    <2>2. ASSUME NEW s \in D, NEW i \in ofSeller[s] PROVE i \in LinesIn(b, D)
      BY DEF LinesIn
    <2> HIDE DEF ofSeller
    <2> QED
      BY <2>1, <2>2 DEF AllOf
  <1>3. IsFiniteSet(D)
    BY SomeSellers
  <1>4. IsFiniteSet(DOMAIN b) /\ Numbers(Worths(b), DOMAIN b)
    BY WorthTypes
  <1>5. SumsOf(w, Worths(b), ofSeller, D)
    BY DEF Worth, SumsOf
  <1> HIDE DEF ofSeller
  <1>6. SumFunctionOnSet(Worths(b), AllOf(ofSeller, D)) = SumFunctionOnSet(w, D)
    <2>1. PICK g : g = Worths(b)
      OBVIOUS
    <2>2. PICK S : S = DOMAIN b
      OBVIOUS
    <2> QED
      BY <1>a, <1>3, <1>4, <1>5, <2>1, <2>2, SumParts
  <1> QED
    BY <1>2, <1>6 DEF Worth

(* The lines of some sellers and those of the others are all lines. *)
LEMMA WorthOfOthers ==
  ASSUME NEW b, NEW n, IsBasket(b, n), NEW D \in SUBSET (1 .. n)
  PROVE  Worth(b, LinesIn(b, D)) + Worth(b, LinesIn(b, (1 .. n) \ D)) = Worth(b, DOMAIN b)
  <1> DEFINE R == LinesIn(b, D)
             S == LinesIn(b, (1 .. n) \ D)
  <1>1. R \cup S = DOMAIN b /\ R \cap S = {} /\ R \in SUBSET DOMAIN b /\ S \in SUBSET DOMAIN b
    BY DEF LinesIn, IsBasket, SellersOf
  <1> HIDE DEF R, S
  <1>2. IsFiniteSet(R) /\ IsFiniteSet(S) /\ Numbers(Worths(b), R \cup S)
    BY <1>1, WorthTypes
  <1>3. SumFunctionOnSet(Worths(b), R \cup S) = SumFunctionOnSet(Worths(b), R) + SumFunctionOnSet(Worths(b), S)
    BY <1>1, <1>2, SumDisjoint
  <1> QED
    BY <1>1, <1>3 DEF Worth, R, S

(* The shares and what they are off by are numbers, and so are their sums. *)
LEMMA OffTypes ==
  ASSUME NEW b, NEW p, NEW sh, NEW n, IsBasket(b, n), IsSplit(b, p, sh, n)
  PROVE  /\ \A S \in SUBSET (1 .. n) : /\ IsFiniteSet(S) /\ Numbers(sh, S) /\ Numbers(Off(b, p, sh), S)
                                       /\ SumFunctionOnSet(sh, S) \in Int
                                       /\ SumFunctionOnSet(Off(b, p, sh), S) \in Int
         /\ \A s \in 1 .. n : sh[s] \in Int /\ Off(b, p, sh)[s] \in Int
  <1>1. ASSUME NEW s \in 1 .. n PROVE sh[s] \in Int /\ Off(b, p, sh)[s] \in Int
    <2>1. LinesIn(b, {s}) \in SUBSET DOMAIN b
      BY DEF LinesIn
    <2>2. PICK w \in Nat : w = Worth(b, LinesIn(b, {s}))
      BY <2>1, WorthTypes
    <2>3. sh[s] \in Int /\ p.subtotal \in Int /\ p.grand \in Int /\ s \in DOMAIN sh
      BY DEF IsSplit
    <2>4. p.subtotal * sh[s] - p.grand * w \in Int
      BY <2>3
    <2> QED
      BY <2>2, <2>3, <2>4 DEF Off
  <1>2. ASSUME NEW S \in SUBSET (1 .. n)
        PROVE  /\ IsFiniteSet(S) /\ Numbers(sh, S) /\ Numbers(Off(b, p, sh), S)
               /\ SumFunctionOnSet(sh, S) \in Int
               /\ SumFunctionOnSet(Off(b, p, sh), S) \in Int
    <2>1. IsFiniteSet(S)
      BY SomeSellers
    <2>2. Numbers(sh, S) /\ Numbers(Off(b, p, sh), S)
      BY <1>1 DEF Numbers
    <2> QED
      BY <2>1, <2>2, SumType
  <1> QED
    BY <1>1, <1>2

(* What some shares are more than their exact parts adds up. *)
LEMMA OffSum ==
  ASSUME NEW b, NEW p, NEW sh, NEW n, IsBasket(b, n), IsSplit(b, p, sh, n), NEW D \in SUBSET (1 .. n)
  PROVE  SumFunctionOnSet(Off(b, p, sh), D) = p.subtotal * SumFunctionOnSet(sh, D) - p.grand * Worth(b, LinesIn(b, D))
  <1> DEFINE w == [s \in D |-> Worth(b, LinesIn(b, {s}))]
  <1>1. Worth(b, LinesIn(b, D)) = SumFunctionOnSet(w, D)
    BY WorthBySeller
  <1>2. p.subtotal \in Int /\ p.grand \in Int /\ -p.grand \in Int
    BY DEF IsSplit
  <1>3. Numbers(w, D)
    BY WorthTypes DEF Numbers, LinesIn
  <1>4. ASSUME NEW s \in D PROVE Off(b, p, sh)[s] = p.subtotal * sh[s] + (-p.grand) * w[s]
    <2>1. s \in DOMAIN sh /\ sh[s] \in Int /\ w[s] \in Int
      BY <1>3, OffTypes DEF IsSplit, Numbers
    <2>2. Off(b, p, sh)[s] = p.subtotal * sh[s] - p.grand * w[s]
      BY <2>1 DEF Off
    <2> HIDE DEF w
    <2> QED
      BY <1>2, <2>1, <2>2
  <1>5. IsFiniteSet(D) /\ Numbers(sh, D)
    BY OffTypes
  <1> HIDE DEF w
  <1>6. SumFunctionOnSet(Off(b, p, sh), D) = p.subtotal * SumFunctionOnSet(sh, D) + (-p.grand) * SumFunctionOnSet(w, D)
    <2>1. PICK off : off = Off(b, p, sh)
      OBVIOUS
    <2>2. PICK a \in Int : a = p.subtotal
      BY <1>2
    <2>3. PICK c \in Int : c = -p.grand
      BY <1>2
    <2>4. Combines(off, a, sh, c, w, D)
      BY <1>4, <2>1, <2>2, <2>3 DEF Combines
    <2>5. SumFunctionOnSet(off, D) = a * SumFunctionOnSet(sh, D) + c * SumFunctionOnSet(w, D)
      BY <1>3, <1>5, <2>4, SumLinear
    <2> QED
      BY <2>1, <2>2, <2>3, <2>5
  <1>7. SumFunctionOnSet(w, D) \in Int /\ SumFunctionOnSet(sh, D) \in Int
    BY <1>3, <1>5, SumType
  <1> QED
    BY <1>1, <1>2, <1>6, <1>7

(* The shares before the last are rounded, by half a paisa each. *)
LEMMA OffBound ==
  ASSUME NEW b, NEW p, NEW sh, NEW n, IsBasket(b, n), IsSplit(b, p, sh, n), NEW T \in SUBSET (1 .. n - 1)
  PROVE  /\ 2 * SumFunctionOnSet(Off(b, p, sh), T) <= p.subtotal * (n - 1)
         /\ -2 * SumFunctionOnSet(Off(b, p, sh), T) <= p.subtotal * (n - 1)
  <1> DEFINE off == Off(b, p, sh)
             more == [s \in T |-> 2 * off[s]]
             less == [s \in T |-> -2 * off[s]]
  <1>1. n \in Nat /\ n > 0 /\ T \in SUBSET (1 .. n)
    BY DEF IsBasket, IsSplit
  <1>2. IsFiniteSet(T) /\ Numbers(off, T) /\ SumFunctionOnSet(off, T) \in Int
    BY <1>1, OffTypes
  <1>3. \A s \in T : off[s] \in Int /\ 2 * off[s] <= p.subtotal /\ -2 * off[s] <= p.subtotal
    BY <1>2 DEF IsSplit, Numbers
  <1>4. p.subtotal \in Nat
    BY DEF IsSplit
  <1> HIDE DEF off
  <1>5. Numbers(more, T) /\ Numbers(less, T)
    BY <1>3 DEF Numbers
  <1>6. /\ \A s \in T : more[s] = 2 * off[s] + 0 * off[s] /\ more[s] <= p.subtotal
        /\ \A s \in T : less[s] = -2 * off[s] + 0 * off[s] /\ less[s] <= p.subtotal
    BY <1>3
  <1> HIDE DEF more, less
  <1>7. /\ SumFunctionOnSet(more, T) = 2 * SumFunctionOnSet(off, T) + 0 * SumFunctionOnSet(off, T)
        /\ SumFunctionOnSet(less, T) = -2 * SumFunctionOnSet(off, T) + 0 * SumFunctionOnSet(off, T)
    <2>1. PICK a \in Int : a = 2
      OBVIOUS
    <2>2. PICK c \in Int : c = 0
      OBVIOUS
    <2>3. PICK d \in Int : d = -2
      OBVIOUS
    <2>4. Combines(more, a, off, c, off, T) /\ Combines(less, d, off, c, off, T)
      BY <1>3, <1>6, <2>1, <2>2, <2>3 DEF Combines
    <2>5. /\ SumFunctionOnSet(more, T) = a * SumFunctionOnSet(off, T) + c * SumFunctionOnSet(off, T)
          /\ SumFunctionOnSet(less, T) = d * SumFunctionOnSet(off, T) + c * SumFunctionOnSet(off, T)
      BY <1>2, <2>4, SumLinear
    <2> QED
      BY <1>2, <2>1, <2>2, <2>3, <2>5
  <1>8. /\ SumFunctionOnSet(more, T) <= p.subtotal * Cardinality(T)
        /\ SumFunctionOnSet(less, T) <= p.subtotal * Cardinality(T)
    <2>1. PICK c \in Int : c = p.subtotal
      BY <1>4
    <2>2. \A s \in T : more[s] <= c /\ less[s] <= c
      BY <1>6, <2>1
    <2>3. SumFunctionOnSet(more, T) <= c * Cardinality(T) /\ SumFunctionOnSet(less, T) <= c * Cardinality(T)
      BY <1>2, <1>5, <2>2, SumAtMost
    <2> QED
      BY <2>1, <2>3
  <1>9. Cardinality(T) \in Nat /\ Cardinality(T) <= n - 1
    <2>1. IsFiniteSet(1 .. n - 1) /\ Cardinality(1 .. n - 1) = n - 1
      BY <1>1, FS_Interval
    <2> QED
      BY <1>2, <2>1, FS_Subset, FS_CardinalityType
  <1>10. p.subtotal * Cardinality(T) <= p.subtotal * (n - 1)
    BY <1>1, <1>4, <1>9
  <1> QED
    BY <1>1, <1>2, <1>4, <1>7, <1>8, <1>9, <1>10 DEF off

(* The last share makes up for the others. *)
LEMMA LastOff ==
  ASSUME NEW b, NEW p, NEW sh, NEW n, IsBasket(b, n), IsSplit(b, p, sh, n)
  PROVE  Off(b, p, sh)[n] = -SumFunctionOnSet(Off(b, p, sh), 1 .. n - 1)
  <1>1. n \in Nat /\ n > 0 /\ p.subtotal \in Int /\ p.grand \in Int
    BY DEF IsBasket, IsSplit
  <1>2. LinesIn(b, 1 .. n) = DOMAIN b
    BY DEF LinesIn, IsBasket, SellersOf
  <1>3. SumFunctionOnSet(Off(b, p, sh), 1 .. n) = 0
    <2>1. SumFunctionOnSet(Off(b, p, sh), 1 .. n)
            = p.subtotal * SumFunctionOnSet(sh, 1 .. n) - p.grand * Worth(b, LinesIn(b, 1 .. n))
      BY OffSum
    <2>2. SumFunctionOnSet(sh, 1 .. n) = p.grand /\ Worth(b, DOMAIN b) = p.subtotal
      BY DEF IsSplit
    <2> QED
      BY <1>1, <1>2, <2>1, <2>2
  <1>4. (1 .. n) \ {n} = 1 .. n - 1 /\ n \in 1 .. n /\ (1 .. n - 1) \in SUBSET (1 .. n) /\ (1 .. n) \in SUBSET (1 .. n)
    BY <1>1
  <1>5. SumFunctionOnSet(Off(b, p, sh), 1 .. n) = SumFunctionOnSet(Off(b, p, sh), 1 .. n - 1) + Off(b, p, sh)[n]
    BY <1>4, OffTypes, SumRemove
  <1>6. SumFunctionOnSet(Off(b, p, sh), 1 .. n - 1) \in Int /\ Off(b, p, sh)[n] \in Int
    BY <1>4, OffTypes
  <1> QED
    BY <1>3, <1>5, <1>6

(* No sellers together have much more than their part. *)
LEMMA SharesBound ==
  ASSUME NEW b, NEW p, NEW sh, NEW n, IsBasket(b, n), IsSplit(b, p, sh, n), NEW D \in SUBSET (1 .. n)
  PROVE  p.subtotal * SumFunctionOnSet(sh, D) <= p.grand * Worth(b, LinesIn(b, D)) + p.subtotal * (n - 1)
  <1> DEFINE off == Off(b, p, sh)
             E == D \ {n}
  <1>1. n \in Nat /\ n > 0 /\ p.subtotal \in Nat /\ p.grand \in Nat
    BY DEF IsBasket, IsSplit
  <1>2. E \in SUBSET (1 .. n - 1) /\ (1 .. n - 1) \in SUBSET (1 .. n - 1) /\ n \in 1 .. n
    BY <1>1
  <1>3. SumFunctionOnSet(off, E) \in Int /\ SumFunctionOnSet(off, 1 .. n - 1) \in Int /\ SumFunctionOnSet(off, D) \in Int
    <2>1. E \in SUBSET (1 .. n) /\ (1 .. n - 1) \in SUBSET (1 .. n)
      BY <1>1
    <2> QED
      BY <2>1, OffTypes
  <1>4. off[n] \in Int /\ IsFiniteSet(D) /\ Numbers(off, D)
    BY <1>2, OffTypes
  <1>5. 2 * SumFunctionOnSet(off, E) <= p.subtotal * (n - 1)
    BY <1>2, OffBound
  <1>6. 2 * off[n] <= p.subtotal * (n - 1)
    <2>1. -2 * SumFunctionOnSet(off, 1 .. n - 1) <= p.subtotal * (n - 1)
      BY <1>2, OffBound
    <2>2. off[n] = -SumFunctionOnSet(off, 1 .. n - 1)
      BY LastOff
    <2> HIDE DEF off
    <2> QED
      BY <1>1, <1>3, <2>1, <2>2
  <1>7. SumFunctionOnSet(off, D) <= p.subtotal * (n - 1)
    <2>1. PICK m \in Nat : m = p.subtotal * (n - 1)
      BY <1>1
    <2>2. CASE n \in D
      <3>1. SumFunctionOnSet(off, D) = SumFunctionOnSet(off, E) + off[n]
        BY <2>2, <1>4, SumRemove
      <3> HIDE DEF off, E
      <3> QED
        BY <1>3, <1>4, <1>5, <1>6, <2>1, <3>1
    <2>3. CASE n \notin D
      <3>1. E = D
        BY <2>3
      <3> HIDE DEF off, E
      <3> QED
        BY <1>3, <1>5, <2>1, <3>1
    <2> QED
      BY <2>2, <2>3
  <1>8. SumFunctionOnSet(off, D) = p.subtotal * SumFunctionOnSet(sh, D) - p.grand * Worth(b, LinesIn(b, D))
    BY OffSum
  <1>9. SumFunctionOnSet(sh, D) \in Int /\ Worth(b, LinesIn(b, D)) \in Int
    BY OffTypes, WorthTypes DEF LinesIn
  <1> HIDE DEF off
  <1> QED
    BY <1>1, <1>3, <1>7, <1>8, <1>9

(* A factor on both sides. *)
LEMMA Cancel ==
  ASSUME NEW m \in Nat \ {0}, NEW x \in Int, NEW y \in Int, m * x <= m * y
  PROVE  x <= y
  <1>1. SUFFICES ASSUME x >= y + 1 PROVE FALSE
    OBVIOUS
  <1>2. m * x >= m * (y + 1)
    BY <1>1
  <1>3. m * (y + 1) = m * y + m
    OBVIOUS
  <1> QED
    BY <1>2, <1>3

(* No sellers together have more than the total and a paisa for each of the *)
(* others.                                                                  *)
LEMMA SharesWithin ==
  ASSUME NEW b, NEW p, NEW sh, NEW n, IsBasket(b, n), IsSplit(b, p, sh, n), NEW D \in SUBSET (1 .. n)
  PROVE  SumFunctionOnSet(sh, D) <= p.grand + n - 1
  <1>1. n \in Nat /\ n > 0 /\ p.subtotal \in Nat \ {0} /\ p.grand \in Nat /\ Worth(b, DOMAIN b) = p.subtotal
    BY DEF IsBasket, IsSplit
  <1>2. PICK w \in Nat : w = Worth(b, LinesIn(b, D))
    BY WorthTypes DEF LinesIn
  <1>3. PICK v \in Nat : v = Worth(b, LinesIn(b, (1 .. n) \ D))
    BY WorthTypes DEF LinesIn
  <1>4. w + v = p.subtotal
    BY <1>1, <1>2, <1>3, WorthOfOthers
  <1>5. PICK x \in Int : x = SumFunctionOnSet(sh, D)
    BY OffTypes
  <1>6. p.subtotal * x <= p.grand * w + p.subtotal * (n - 1)
    BY <1>2, <1>5, SharesBound
  <1>7. PICK g \in Nat : g = p.grand
    BY <1>1
  <1>8. PICK m \in Nat \ {0} : m = p.subtotal
    BY <1>1
  <1>9. g * w <= g * m
    BY <1>4, <1>8
  <1>10. m * x <= m * (g + (n - 1))
    BY <1>1, <1>6, <1>7, <1>8, <1>9
  <1>11. x <= g + (n - 1)
    BY <1>1, <1>10, Cancel
  <1> QED
    BY <1>1, <1>5, <1>7, <1>11

(* What the kept goods came to, of each line and of the lines of S. *)
Keeps(b, k) == [i \in DOMAIN b |-> b[i].unit * (b[i].qty - k[i])]
Keeping(b, k, S) == SumFunctionOnSet(Keeps(b, k), S)

Backs(b, k) == k \in [DOMAIN b -> Nat] /\ \A i \in DOMAIN b : k[i] <= b[i].qty

(* The refunds of goods, besides the shares of the sellers in D, are the     *)
(* part of what was sent back, to a paisa for each line of a return.         *)
Charged(b, p, sh, n, D, k, g, r) ==
  p.subtotal * (g - SumFunctionOnSet(sh, D)) + p.grand * Keeping(b, k, LinesIn(b, (1 .. n) \ D))
    <= p.grand * Worth(b, LinesIn(b, (1 .. n) \ D)) + p.subtotal * r

(* What is kept of each line comes to something. *)
LEMMA KeepTypes ==
  ASSUME NEW b, NEW n, IsBasket(b, n), NEW k, Backs(b, k)
  PROVE  /\ \A i \in DOMAIN b : Keeps(b, k)[i] \in Nat
         /\ \A S \in SUBSET DOMAIN b : Numbers(Keeps(b, k), S) /\ Keeping(b, k, S) \in Nat
  <1>1. \A i \in DOMAIN b : Keeps(b, k)[i] \in Nat
    <2> SUFFICES ASSUME NEW i \in DOMAIN b PROVE Keeps(b, k)[i] \in Nat
      OBVIOUS
    <2>1. PICK u, q \in Nat : u = b[i].unit /\ q = b[i].qty - k[i]
      BY DEF IsBasket, Backs
    <2>2. u * q \in Nat
      OBVIOUS
    <2> QED
      BY <2>1, <2>2 DEF Keeps
  <1>2. ASSUME NEW S \in SUBSET DOMAIN b
        PROVE  Numbers(Keeps(b, k), S) /\ Keeping(b, k, S) \in Nat
    <2>1. IsFiniteSet(S)
      BY WorthTypes
    <2>2. \A i \in S : Keeps(b, k)[i] \in Nat
      BY <1>1
    <2> HIDE DEF Keeps
    <2>3. SumFunctionOnSet(Keeps(b, k), S) \in Nat
      BY <2>1, <2>2, SumNat
    <2> QED
      BY <2>2, <2>3 DEF Keeping, Numbers
  <1> QED
    BY <1>1, <1>2

(* As long as nothing was sent back. *)
LEMMA ChargedAtFirst ==
  ASSUME NEW b, NEW p, NEW sh, NEW n, IsBasket(b, n), IsSplit(b, p, sh, n), NEW D \in SUBSET (1 .. n),
         NEW k, Backs(b, k), \A i \in DOMAIN b : k[i] = 0, NEW r \in Nat
  PROVE  Charged(b, p, sh, n, D, k, SumFunctionOnSet(sh, D), r)
  <1>1. PICK L : L = LinesIn(b, (1 .. n) \ D)
    OBVIOUS
  <1>2. L \in SUBSET DOMAIN b
    BY <1>1 DEF LinesIn
  <1>3. Keeping(b, k, L) = Worth(b, L)
    <2>1. IsFiniteSet(L) /\ Numbers(Worths(b), L)
      BY <1>2, WorthTypes
    <2>2. \A i \in L : Worths(b)[i] = Keeps(b, k)[i]
      BY <1>2 DEF Worths, Keeps, IsBasket
    <2> QED
      BY <2>1, <2>2, SumSame DEF Keeping, Worth
  <1>4. PICK w \in Nat : w = Worth(b, L)
    BY <1>2, WorthTypes
  <1>5. PICK x \in Int : x = SumFunctionOnSet(sh, D)
    BY OffTypes
  <1>6. p.subtotal \in Nat /\ p.grand \in Nat
    BY DEF IsSplit
  <1>7. p.subtotal * (x - x) + p.grand * w <= p.grand * w + p.subtotal * r
    BY <1>6
  <1> QED
    BY <1>1, <1>3, <1>4, <1>5, <1>7 DEF Charged

(* Then the buyer is charged for what it keeps. *)
LEMMA ChargedForTheRest ==
  ASSUME NEW b, NEW p, NEW sh, NEW n, IsBasket(b, n), IsSplit(b, p, sh, n), NEW D \in SUBSET (1 .. n),
         NEW k, Backs(b, k), NEW g \in Int, NEW r \in Nat, Charged(b, p, sh, n, D, k, g, r)
  PROVE  /\ p.grand * Keeping(b, k, LinesIn(b, (1 .. n) \ D)) <= (p.grand - g + n + r) * p.subtotal
         /\ g <= p.grand + n - 1 + r
  <1>1. n \in Nat /\ n > 0 /\ p.subtotal \in Nat \ {0} /\ p.grand \in Nat /\ Worth(b, DOMAIN b) = p.subtotal
    BY DEF IsBasket, IsSplit
  <1>2. PICK w \in Nat : w = Worth(b, LinesIn(b, D))
    BY WorthTypes DEF LinesIn
  <1>3. PICK v \in Nat : v = Worth(b, LinesIn(b, (1 .. n) \ D))
    BY WorthTypes DEF LinesIn
  <1>4. PICK x \in Int : x = SumFunctionOnSet(sh, D)
    BY OffTypes
  <1>5. PICK e \in Nat : e = Keeping(b, k, LinesIn(b, (1 .. n) \ D))
    BY KeepTypes DEF LinesIn
  <1>6. PICK t \in Nat : t = p.grand
    BY <1>1
  <1>7. PICK m \in Nat \ {0} : m = p.subtotal
    BY <1>1
  <1>8. w + v = m
    BY <1>1, <1>2, <1>3, <1>7, WorthOfOthers
  <1>9. m * x <= t * w + m * (n - 1)
    BY <1>2, <1>4, <1>6, <1>7, SharesBound
  <1>10. m * (g - x) + t * e <= t * v + m * r
    BY <1>3, <1>4, <1>5, <1>6, <1>7 DEF Charged
  <1>11. m * g + t * e <= t * m + m * (n - 1) + m * r
    <2>1. t * m = t * w + t * v
      BY <1>8
    <2>2. m * (g - x) = m * g - m * x
      OBVIOUS
    <2> QED
      BY <1>1, <1>9, <1>10, <2>1, <2>2
  <1>12. t * e <= (t - g + n + r) * m
    <2>1. (t - g + n + r) * m = t * m - m * g + m * (n - 1) + m + m * r
      BY <1>1
    <2> QED
      BY <1>1, <1>11, <2>1
  <1>13. g <= t + n - 1 + r
    <2>1. t * e >= 0
      OBVIOUS
    <2>2. m * g <= m * (t + n - 1 + r)
      <3>1. m * (t + n - 1 + r) = t * m + m * (n - 1) + m * r
        BY <1>1
      <3> QED
        BY <1>1, <1>11, <2>1, <3>1
    <2> QED
      BY <1>1, <2>2, Cancel
  <1> QED
    BY <1>5, <1>6, <1>7, <1>12, <1>13

(* Some of the lines sent back, and their parts of the total, each to a      *)
(* paisa.                                                                    *)
SentBack(b, k, l) == l \in [DOMAIN b -> Nat] /\ \A i \in DOMAIN b : k[i] <= l[i] /\ l[i] <= b[i].qty
AreParts(b, p, k, l, f, R) ==
  \A i \in R : f[i] \in Nat /\ p.subtotal * f[i] <= p.grand * (b[i].unit * (l[i] - k[i])) + p.subtotal

Gone(b, k, l) == [i \in DOMAIN b |-> b[i].unit * (l[i] - k[i])]

(* What was kept, and now is not.                                            *)
LEMMA KeepsWithGone ==
  ASSUME NEW b, NEW n, IsBasket(b, n), NEW k, Backs(b, k), NEW l, SentBack(b, k, l),
         NEW L \in SUBSET DOMAIN b
  PROVE  /\ \A i \in L : Gone(b, k, l)[i] \in Nat
         /\ Keeping(b, k, L) = Keeping(b, l, L) + SumFunctionOnSet(Gone(b, k, l), L)
  <1>1. Backs(b, l) /\ IsFiniteSet(L)
    BY WorthTypes DEF SentBack, Backs
  <1>2. ASSUME NEW i \in L
        PROVE  Gone(b, k, l)[i] \in Nat /\ Keeps(b, k)[i] = 1 * Keeps(b, l)[i] + 1 * Gone(b, k, l)[i]
    <2>1. PICK u, q, h, j \in Nat : u = b[i].unit /\ q = b[i].qty /\ h = k[i] /\ j = l[i]
      BY DEF IsBasket, Backs, SentBack
    <2>2. h <= j /\ j <= q
      BY <2>1 DEF SentBack
    <2>3. Keeps(b, k)[i] = u * (q - h) /\ Keeps(b, l)[i] = u * (q - j) /\ Gone(b, k, l)[i] = u * (j - h)
      BY <2>1 DEF Keeps, Gone
    <2>4. u * (q - h) = u * (q - j) + u * (j - h) /\ u * (j - h) \in Nat /\ u * (q - j) \in Int
      BY <2>2
    <2> QED
      BY <2>3, <2>4
  <1>3. PICK f, g, h : f = Keeps(b, l) /\ g = Gone(b, k, l) /\ h = Keeps(b, k)
    OBVIOUS
  <1>4. Numbers(f, L) /\ Numbers(g, L)
    BY <1>1, <1>2, <1>3, KeepTypes DEF Numbers
  <1>5. Combines(h, 1, f, 1, g, L)
    BY <1>2, <1>3 DEF Combines
  <1>6. SumFunctionOnSet(h, L) = 1 * SumFunctionOnSet(f, L) + 1 * SumFunctionOnSet(g, L)
    BY <1>1, <1>4, <1>5, SumLinear
  <1>7. SumFunctionOnSet(f, L) \in Int /\ SumFunctionOnSet(g, L) \in Int
    BY <1>1, <1>4, SumType
  <1> QED
    BY <1>2, <1>3, <1>6, <1>7 DEF Keeping

(* The parts together, to a paisa for each.                                  *)
LEMMA PartsTogether ==
  ASSUME NEW R, IsFiniteSet(R), NEW f, NEW h, NEW m \in Nat, NEW t \in Nat,
         \A i \in R : f[i] \in Nat /\ h[i] \in Nat /\ m * f[i] <= t * h[i] + m
  PROVE  m * SumFunctionOnSet(f, R) <= t * SumFunctionOnSet(h, R) + m * Cardinality(R)
  <1>1. Numbers(f, R) /\ Numbers(h, R)
    BY DEF Numbers
  <1>2. PICK z \in Int : z = 0 - t
    OBVIOUS
  <1>3. PICK e : e = [i \in R |-> m * f[i] + z * h[i]]
    OBVIOUS
  <1>4. Combines(e, m, f, z, h, R)
    BY <1>3 DEF Combines
  <1>5. PICK x \in Int : x = SumFunctionOnSet(f, R)
    BY <1>1, SumType
  <1>6. PICK y \in Int : y = SumFunctionOnSet(h, R)
    BY <1>1, SumType
  <1>7. SumFunctionOnSet(e, R) = m * x + z * y
    BY <1>1, <1>2, <1>4, <1>5, <1>6, SumLinear
  <1>8. ASSUME NEW i \in R PROVE e[i] \in Int /\ e[i] <= m
    <2>1. PICK a \in Nat : a = f[i]
      OBVIOUS
    <2>2. PICK c \in Nat : c = h[i]
      OBVIOUS
    <2>3. m * a <= t * c + m /\ e[i] = m * a + z * c
      BY <1>3, <2>1, <2>2
    <2>4. z * c = 0 - t * c
      BY <1>2
    <2> QED
      BY <2>3, <2>4
  <1>9. SumFunctionOnSet(e, R) <= m * Cardinality(R)
    BY <1>8, SumAtMost DEF Numbers
  <1>10. Cardinality(R) \in Nat
    BY FS_CardinalityType
  <1>11. z * y = 0 - t * y
    BY <1>2
  <1> QED
    BY <1>5, <1>6, <1>7, <1>9, <1>10, <1>11

(* One more refund of goods, of the parts of what is sent back.              *)
LEMMA ChargedOnce ==
  ASSUME NEW b, NEW p, NEW sh, NEW n, IsBasket(b, n), IsSplit(b, p, sh, n), NEW D \in SUBSET (1 .. n),
         NEW k, Backs(b, k), NEW g \in Int, NEW r \in Nat, Charged(b, p, sh, n, D, k, g, r),
         NEW R \in SUBSET DOMAIN b, \A i \in R : b[i].seller \notin D,
         NEW l, SentBack(b, k, l), NEW f, AreParts(b, p, k, l, f, R)
  PROVE  /\ Backs(b, l) /\ SumFunctionOnSet(f, R) \in Nat /\ Cardinality(R) \in Nat
         /\ Charged(b, p, sh, n, D, l, g + SumFunctionOnSet(f, R), r + Cardinality(R))
         /\ Charged(b, p, sh, n, D, l, g, r)
  <1>1. PICK L : L = LinesIn(b, (1 .. n) \ D)
    OBVIOUS
  <1>2. L \in SUBSET DOMAIN b /\ R \in SUBSET L
    BY <1>1 DEF LinesIn, IsBasket, SellersOf
  <1>3. Backs(b, l)
    BY DEF Backs, SentBack
  <1>4. IsFiniteSet(L) /\ IsFiniteSet(R)
    BY <1>2, WorthTypes
  <1>5. PICK h : h = Gone(b, k, l)
    OBVIOUS
  <1>6. (\A i \in L : h[i] \in Nat) /\ Keeping(b, k, L) = Keeping(b, l, L) + SumFunctionOnSet(h, L)
    BY <1>2, <1>5, KeepsWithGone
  <1>7. PICK e \in Nat : e = Keeping(b, l, L)
    BY <1>2, <1>3, KeepTypes
  <1>8. PICK w \in Nat : w = Worth(b, L)
    BY <1>2, WorthTypes
  <1>9. PICK x \in Int : x = SumFunctionOnSet(sh, D)
    BY OffTypes
  <1>10. PICK t, m \in Nat : t = p.grand /\ m = p.subtotal
    BY DEF IsSplit
  <1>11. PICK c \in Nat : c = SumFunctionOnSet(h, L)
    BY <1>4, <1>6, SumNat
  <1>12. PICK d \in Nat : d = SumFunctionOnSet(h, R)
    BY <1>2, <1>4, <1>6, SumNat
  <1>13. d <= c
    BY <1>2, <1>4, <1>6, <1>11, <1>12, SumSubset
  <1>14. PICK a \in Nat : a = SumFunctionOnSet(f, R)
    BY <1>4, SumNat DEF AreParts
  <1>15. PICK s \in Nat : s = Cardinality(R)
    BY <1>4, FS_CardinalityType
  <1>16. m * (g - x) + t * (e + c) <= t * w + m * r
    BY <1>1, <1>6, <1>7, <1>8, <1>9, <1>10, <1>11 DEF Charged
  <1>17. m * a <= t * d + m * s
    <2>1. \A i \in R : f[i] \in Nat /\ h[i] \in Nat /\ m * f[i] <= t * h[i] + m
      BY <1>2, <1>5, <1>6, <1>10 DEF AreParts, Gone
    <2> QED
      BY <1>4, <1>12, <1>14, <1>15, <2>1, PartsTogether
  <1>18. t * (e + c) = t * e + t * c /\ t * c >= 0
    OBVIOUS
  <1>19. t * d <= t * c
    BY <1>13
  <1>20. m * (g - x) + t * e <= t * w + m * r
    BY <1>16, <1>18
  <1>21. m * ((g + a) - x) + t * e <= t * w + m * (r + s)
    <2>1. m * ((g + a) - x) = m * (g - x) + m * a /\ m * (r + s) = m * r + m * s
      OBVIOUS
    <2> QED
      BY <1>16, <1>17, <1>18, <1>19, <2>1
  <1> QED
    BY <1>1, <1>3, <1>7, <1>8, <1>9, <1>10, <1>14, <1>15, <1>20, <1>21 DEF Charged

(* The definitions of OrderMoney, on the lines as they are. *)
LEMMA MoneySame ==
  /\ Money!Sellers = SellersOf(basket) /\ Money!Sellers' = SellersOf(basket')
  /\ \A s : Money!LinesOf(s) = LinesIn(basket, {s})
  /\ \A S : Money!SumOf(S) = Worth(basket, S)
  /\ \A f, S : Money!SumFunctionOnSet(f, S) = SumFunctionOnSet(f, S)
  /\ \A S : Money!Cardinality(S) = Cardinality(S)
  /\ Money!KeptValue = Keeping(basket, back, Money!Kept)
  <1>1. \A f, S : Money!SumFunctionOnSet(f, S) = SumFunctionOnSet(f, S)
    BY Zenon DEF Money!SumFunctionOnSet, Money!FoldFunctionOnSet, Money!MapThenFoldSet,
                 SumFunctionOnSet, FoldFunctionOnSet, MapThenFoldSet
  <1>2. Money!LineTotals = Worths(basket) /\ Money!KeptTotals = Keeps(basket, back)
    BY DEF Money!LineTotals, Worths, Money!KeptTotals, Keeps
  <1>3. Money!Sellers = SellersOf(basket) /\ Money!Sellers' = SellersOf(basket')
    BY DEF Money!Sellers, SellersOf
  <1>4. \A s : Money!LinesOf(s) = LinesIn(basket, {s})
    BY DEF Money!LinesOf, LinesIn
  <1>5. \A S : Money!SumOf(S) = Worth(basket, S)
    BY <1>1, <1>2 DEF Money!SumOf, Worth
  <1>6. \A S : Money!Cardinality(S) = Cardinality(S)
    BY Zenon DEF Money!Cardinality, Cardinality
  <1>7. Money!KeptValue = Keeping(basket, back, Money!Kept)
    BY <1>1, <1>2 DEF Money!KeptValue, Keeping
  <1> QED
    BY <1>1, <1>3, <1>4, <1>5, <1>6, <1>7

(* The books of one order. *)
SellerCount == Cardinality(SellersOf(basket))

Line == [seller : Nat, unit : Nat \ {0}, qty : Nat \ {0}]

(* Once it is placed, the split stands, and the refunds are accounted for;   *)
(* before the delivery they are the shares of the slices that were dropped.  *)
Placed ==
  /\ IsSplit(basket, price, share, SellerCount)
  /\ Backs(basket, back)
  /\ Charged(basket, price, share, SellerCount, dropped, back, given, roundings)
  /\ stage = "placed" => given = SumFunctionOnSet(share, dropped) /\ \A i \in DOMAIN basket : back[i] = 0
  /\ short < SellerCount + roundings + Len(basket)

MoneyInv ==
  /\ basket \in Seq(Line) /\ IsBasket(basket, SellerCount)
  /\ dropped \in SUBSET (1 .. SellerCount) /\ given \in Int /\ roundings \in Nat /\ short \in Int
  /\ stage = "basket" => given = 0 /\ roundings = 0 /\ short = 0 /\ dropped = {}
  /\ stage # "basket" => Placed

(* An order begins without lines. *)
LEMMA MoneyInit == Money!Init => MoneyInv
  <1> SUFFICES ASSUME Money!Init PROVE MoneyInv
    OBVIOUS
  <1>1. basket = << >> /\ stage = "basket" /\ dropped = {} /\ given = 0 /\ roundings = 0 /\ short = 0
    BY DEF Money!Init
  <1>2. SellersOf(basket) = {} /\ DOMAIN basket = {} /\ basket \in Seq(Line)
    BY <1>1 DEF SellersOf
  <1>3. SellerCount = 0 /\ IsFiniteSet(DOMAIN basket)
    BY <1>2, FS_EmptySet DEF SellerCount
  <1>4. IsBasket(basket, SellerCount)
    BY <1>2, <1>3 DEF IsBasket
  <1> QED
    BY <1>1, <1>2, <1>4 DEF MoneyInv

(* Nearest is the nearest. *)
LEMMA MoneyNearest ==
  ASSUME NEW n \in Int, NEW d \in Nat \ {0}, NEW h \in BOOLEAN
  PROVE  /\ Money!Nearest(n, d, h) \in Int
         /\ 2 * (d * Money!Nearest(n, d, h)) <= 2 * n + d
         /\ 2 * (d * Money!Nearest(n, d, h)) >= 2 * n - d
  <1> DEFINE a == 2 * n + (IF h THEN d ELSE d - 1)
  <1>1. a \in Int /\ a <= 2 * n + d /\ a >= 2 * n + d - 1 /\ 2 * d \in Int /\ 2 * d > 0
    OBVIOUS
  <1> HIDE DEF a
  <1>2. PICK q : q = a \div (2 * d)
    OBVIOUS
  <1>3. q \in Int /\ (2 * d) * q <= a /\ a < (2 * d) * q + 2 * d
    BY <1>1, <1>2
  <1>4. Money!Nearest(n, d, h) = q
    BY <1>2 DEF Money!Nearest, a
  <1>5. (2 * d) * q = 2 * (d * q) /\ d * q \in Int
    BY <1>3
  <1> QED
    BY <1>1, <1>3, <1>4, <1>5

(* A line that is added has a seller of the basket or the next one. *)
LEMMA MoneyAddLine ==
  ASSUME MoneyInv, NEW g \in Goods, Money!AddLine(g)
  PROVE  MoneyInv'
  <1>1. stage = "basket" /\ UNCHANGED <<stage, dropped, given, roundings, short>>
    BY DEF Money!AddLine
  <1>2. PICK s \in 1 .. SellerCount + 1 : basket' = Append(basket, [seller |-> s, unit |-> g.unit, qty |-> g.qty])
    BY MoneySame DEF Money!AddLine, SellerCount
  <1>3. SellerCount \in Nat /\ SellersOf(basket) = 1 .. SellerCount /\ basket \in Seq(Line)
    BY DEF MoneyInv, IsBasket
  <1>4. PICK x : x = [seller |-> s, unit |-> g.unit, qty |-> g.qty]
    OBVIOUS
  <1>5. x \in Line
    BY <1>3, <1>4, CustomerAssumption DEF Line
  <1>6. /\ basket' \in Seq(Line) /\ DOMAIN basket' = 1 .. Len(basket) + 1 /\ DOMAIN basket = 1 .. Len(basket)
        /\ Len(basket) \in Nat /\ basket'[Len(basket) + 1] = x
        /\ \A i \in DOMAIN basket : basket'[i] = basket[i]
    BY <1>2, <1>3, <1>4, <1>5
  <1>7. SellersOf(basket') = SellersOf(basket) \cup {s}
    BY <1>4, <1>6 DEF SellersOf
  <1>8. PICK m \in Nat : SellersOf(basket') = 1 .. m
    <2>1. CASE s = SellerCount + 1
      <3>1. SellersOf(basket') = 1 .. SellerCount + 1
        BY <2>1, <1>3, <1>7
      <3> QED
        BY <3>1, <1>3
    <2>2. CASE s # SellerCount + 1
      <3>1. SellersOf(basket') = 1 .. SellerCount
        BY <2>2, <1>3, <1>7
      <3> QED
        BY <3>1, <1>3
    <2> QED
      BY <2>1, <2>2
  <1>9. SellerCount' = m
    BY <1>8, FS_Interval DEF SellerCount
  <1>10. \A i \in DOMAIN basket' : basket'[i] \in Line
    BY <1>6
  <1>11. IsFiniteSet(DOMAIN basket')
    BY <1>6, FS_Interval
  <1>12. IsBasket(basket', SellerCount')
    BY <1>8, <1>9, <1>10, <1>11 DEF IsBasket, Line
  <1> QED
    BY <1>1, <1>6, <1>8, <1>9, <1>12 DEF MoneyInv

(* So is what is rounded to it, and it is never negative. *)
LEMMA MoneyRounded ==
  ASSUME NEW x \in Int, NEW d \in Nat \ {0}, NEW r \in Money!Rounded(x, d)
  PROVE  r \in Int /\ 2 * (d * r) <= 2 * x + d /\ (x >= 0 => r >= 0)
  <1>1. PICK h \in BOOLEAN : r = Money!Nearest(x, d, h)
    BY DEF Money!Rounded
  <1>2. r \in Int /\ 2 * (d * r) <= 2 * x + d /\ 2 * (d * r) >= 2 * x - d
    BY <1>1, MoneyNearest
  <1>3. ASSUME x >= 0, r <= -1 PROVE FALSE
    <2>1. d * r <= d * (-1)
      BY <1>2, <1>3
    <2> QED
      BY <1>2, <1>3, <2>1
  <1> QED
    BY <1>2, <1>3

(* The price: the subtotal is what the lines come to, and the total is not  *)
(* negative.                                                                *)
LEMMA MoneyQuote ==
  ASSUME MoneyInv, basket # << >>, NEW c \in Coupons, NEW p \in Money!Quotes(c)
  PROVE  p.subtotal = Worth(basket, DOMAIN basket) /\ p.subtotal \in Nat \ {0} /\ p.grand \in Nat
  <1>1. PICK m : m = Worth(basket, DOMAIN basket)
    OBVIOUS
  <1>2. m = Money!SumOf(DOMAIN basket)
    BY <1>1, MoneySame
  <1>3. PICK t \in Money!Rounded(m * TaxRate, 100), d \in Money!Discount(c, m) :
          /\ p.subtotal = m
          /\ p.grand = m + t + Money!Delivery(m) - Money!NotMore(d, m)
    BY <1>2 DEF Money!Quotes
  <1>4. m \in Nat \ {0}
    <2>1. basket \in Seq(Line) /\ IsBasket(basket, SellerCount)
      BY DEF MoneyInv
    <2>2. 1 \in DOMAIN basket /\ {1} \in SUBSET DOMAIN basket
      BY <2>1
    <2>3. IsFiniteSet(DOMAIN basket) /\ \A i \in DOMAIN basket : Worths(basket)[i] \in Nat \ {0}
      BY <2>1, WorthTypes
    <2>4. PICK w : w = Worths(basket)
      OBVIOUS
    <2>5. SumFunctionOnSet(w, {1}) <= SumFunctionOnSet(w, DOMAIN basket)
      <3>1. PICK S : S = DOMAIN basket
        OBVIOUS
      <3>2. PICK R : R = {1}
        OBVIOUS
      <3>3. \A i \in S : w[i] \in Nat
        BY <2>3, <2>4, <3>1
      <3> QED
        BY <2>2, <2>3, <3>1, <3>2, <3>3, SumSubset
    <2>6. SumFunctionOnSet(w, {1}) = w[1]
      <3>1. SumFunctionOnSet(w, {} \cup {1}) = SumFunctionOnSet(w, {}) + w[1]
        BY <2>2, <2>3, <2>4, FS_EmptySet, SumAdd DEF Numbers
      <3>2. w[1] \in Nat /\ {} \cup {1} = {1} /\ SumFunctionOnSet(w, {}) = 0
        BY <2>2, <2>3, <2>4, SumEmpty
      <3> QED
        BY <3>1, <3>2
    <2>7. m = SumFunctionOnSet(w, DOMAIN basket) /\ m \in Nat
      BY <1>1, <2>1, <2>4, WorthTypes DEF Worth
    <2> QED
      BY <2>2, <2>3, <2>4, <2>5, <2>6, <2>7
  <1>5. t \in Nat
    <2>1. PICK x \in Nat : x = m * TaxRate
      BY <1>4, CustomerAssumption
    <2>2. t \in Money!Rounded(x, 100) /\ 100 \in Nat \ {0}
      BY <1>3, <2>1
    <2>3. t \in Int /\ t >= 0
      BY <2>1, <2>2, MoneyRounded
    <2> QED
      BY <2>3
  <1>6. d \in Int
    <2>1. PICK v, u \in Nat : v = c.value /\ u = c.most
      BY CustomerAssumption
    <2>2. PICK x \in Nat : x = m * v
      BY <1>4, <2>1
    <2>3. \A r \in Money!Rounded(x, 100) : r \in Int
      BY <2>2, MoneyRounded
    <2>4. CASE c.type = "PERCENTAGE"
      BY <1>3, <2>1, <2>2, <2>3, <2>4 DEF Money!Discount
    <2>5. CASE c.type = "FIXED_AMOUNT"
      BY <1>3, <2>1, <2>5 DEF Money!Discount
    <2>6. CASE c.type = "FREE_SHIPPING"
      BY <1>3, <2>6 DEF Money!Discount
    <2> QED
      BY <2>4, <2>5, <2>6, CustomerAssumption
  <1>7. Money!NotMore(d, m) \in Int /\ Money!NotMore(d, m) <= m
    BY <1>4, <1>6 DEF Money!NotMore, Money!Least
  <1>8. Money!Delivery(m) \in Nat
    BY CustomerAssumption DEF Money!Delivery
  <1> QED
    BY <1>1, <1>3, <1>4, <1>5, <1>7, <1>8

(* The split: parts rounded, and the rest for the last. *)
LEMMA MoneySplit ==
  ASSUME MoneyInv, NEW p, p.subtotal = Worth(basket, DOMAIN basket), p.subtotal \in Nat \ {0}, p.grand \in Nat,
         NEW sh \in Money!Allocations(p)
  PROVE  IsSplit(basket, p, sh, SellerCount)
  <1>1. IsBasket(basket, SellerCount) /\ SellerCount \in Nat
    BY DEF MoneyInv, IsBasket
  <1>2. Money!Cardinality(Money!Sellers) = SellerCount
    BY MoneySame DEF SellerCount
  <1> DEFINE first(h) == [s \in 1 .. SellerCount - 1 |-> Money!Part(p, s, h[s])]
  <1>3. PICK h \in [1 .. SellerCount - 1 -> BOOLEAN] :
          sh = [s \in 1 .. SellerCount |-> IF s < SellerCount THEN first(h)[s] ELSE Money!Remainder(p, first(h), SellerCount)]
    BY <1>2 DEF Money!Allocations
  <1>4. PICK f : f = first(h)
    OBVIOUS
  <1>5. PICK m \in Nat \ {0}, t \in Nat : m = p.subtotal /\ t = p.grand
    OBVIOUS
  <1>6. ASSUME NEW s \in 1 .. SellerCount - 1
        PROVE  /\ f[s] \in Int
               /\ 2 * (m * f[s]) <= 2 * (t * Worth(basket, LinesIn(basket, {s}))) + m
               /\ 2 * (m * f[s]) >= 2 * (t * Worth(basket, LinesIn(basket, {s}))) - m
    <2>1. PICK w \in Nat : w = Worth(basket, LinesIn(basket, {s}))
      BY <1>1, WorthTypes DEF LinesIn
    <2>2. f[s] = Money!Nearest(t * w, m, h[s])
      BY <1>4, <1>5, <2>1, MoneySame DEF Money!Part
    <2>3. PICK x \in Nat : x = t * w
      BY <1>5
    <2>4. PICK e \in BOOLEAN : e = h[s]
      BY <1>3
    <2>5. PICK y : y = Money!Nearest(x, m, e)
      OBVIOUS
    <2>6. y \in Int /\ 2 * (m * y) <= 2 * x + m /\ 2 * (m * y) >= 2 * x - m
      BY <2>5, MoneyNearest
    <2>7. f[s] = y
      BY <2>2, <2>3, <2>4, <2>5
    <2> QED
      BY <2>1, <2>3, <2>6, <2>7
  <1>7. SellerCount > 0
    <2>1. ASSUME SellerCount = 0 PROVE FALSE
      <3>1. DOMAIN basket = {}
        <4>1. SellersOf(basket) = {}
          BY <1>1, <2>1 DEF IsBasket
        <4> QED
          BY <4>1 DEF SellersOf
      <3>2. Worth(basket, DOMAIN basket) = 0
        BY <3>1, SumEmpty DEF Worth
      <3> QED
        BY <3>2
    <2> QED
      BY <1>1, <2>1
  <1>8. /\ DOMAIN f = 1 .. SellerCount - 1 /\ IsFiniteSet(1 .. SellerCount - 1)
        /\ Numbers(f, 1 .. SellerCount - 1) /\ SumFunctionOnSet(f, 1 .. SellerCount - 1) \in Int
    <2>1. DOMAIN f = 1 .. SellerCount - 1
      BY <1>4
    <2>2. IsFiniteSet(1 .. SellerCount - 1)
      BY <1>1, FS_Interval
    <2>3. Numbers(f, 1 .. SellerCount - 1)
      BY <1>6 DEF Numbers
    <2> QED
      BY <2>1, <2>2, <2>3, SumType
  <1>9. Money!Remainder(p, f, SellerCount) = t - SumFunctionOnSet(f, 1 .. SellerCount - 1)
    <2>1. Money!SumFunction(f) = Money!SumFunctionOnSet(f, DOMAIN f)
      BY Zenon DEF Money!SumFunction
    <2> QED
      BY <1>5, <1>8, <2>1, MoneySame DEF Money!Remainder
  <1>10. /\ sh \in [1 .. SellerCount -> Int]
         /\ \A s \in 1 .. SellerCount - 1 : sh[s] = f[s]
         /\ sh[SellerCount] = t - SumFunctionOnSet(f, 1 .. SellerCount - 1)
    <2>1. sh = [s \in 1 .. SellerCount |-> IF s < SellerCount THEN f[s] ELSE Money!Remainder(p, f, SellerCount)]
      BY <1>3, <1>4
    <2> HIDE DEF first
    <2>2. \A s \in 1 .. SellerCount : IF s < SellerCount THEN f[s] \in Int ELSE Money!Remainder(p, f, SellerCount) \in Int
      <3> SUFFICES ASSUME NEW s \in 1 .. SellerCount
                   PROVE  IF s < SellerCount THEN f[s] \in Int ELSE Money!Remainder(p, f, SellerCount) \in Int
        OBVIOUS
      <3>1. s < SellerCount => s \in 1 .. SellerCount - 1
        BY <1>1
      <3>2. s < SellerCount => f[s] \in Int
        BY <3>1, <1>6
      <3>3. Money!Remainder(p, f, SellerCount) \in Int
        BY <1>8, <1>9
      <3> QED
        BY <3>2, <3>3
    <2> QED
      BY <1>1, <1>7, <1>9, <2>1, <2>2
  <1> HIDE DEF first
  <1>11. SumFunctionOnSet(sh, 1 .. SellerCount) = t
    <2>1. (1 .. SellerCount - 1) \cup {SellerCount} = 1 .. SellerCount /\ SellerCount \notin 1 .. SellerCount - 1
      BY <1>1, <1>7
    <2>2. Numbers(sh, 1 .. SellerCount)
      BY <1>10 DEF Numbers
    <2>3. PICK S : S = 1 .. SellerCount - 1
      OBVIOUS
    <2>4. SumFunctionOnSet(sh, S \cup {SellerCount}) = SumFunctionOnSet(sh, S) + sh[SellerCount]
      BY <1>8, <2>1, <2>2, <2>3, SumAdd
    <2>5. SumFunctionOnSet(f, S) = SumFunctionOnSet(sh, S)
      <3>1. IsFiniteSet(S) /\ Numbers(f, S) /\ \A s \in S : f[s] = sh[s]
        BY <1>8, <1>10, <2>3
      <3> QED
        BY <3>1, SumSame
    <2> QED
      <3>1. S \cup {SellerCount} = 1 .. SellerCount
        BY <2>1, <2>3
      <3>2. PICK x \in Int : x = SumFunctionOnSet(f, S)
        BY <1>8, <2>3
      <3>3. sh[SellerCount] = t - x
        BY <1>10, <2>3, <3>2
      <3>4. SumFunctionOnSet(sh, S \cup {SellerCount}) = x + (t - x)
        BY <2>4, <2>5, <3>2, <3>3
      <3>5. x + (t - x) = t
        BY <3>2
      <3> QED
        BY <3>1, <3>4, <3>5
  <1>12. ASSUME NEW s \in 1 .. SellerCount - 1
         PROVE  2 * Off(basket, p, sh)[s] <= m /\ -2 * Off(basket, p, sh)[s] <= m
    <2>1. PICK w \in Nat : w = Worth(basket, LinesIn(basket, {s}))
      BY <1>1, WorthTypes DEF LinesIn
    <2>2. PICK y \in Int : y = f[s]
      BY <1>6
    <2>3. s \in DOMAIN sh /\ sh[s] = y
      BY <1>1, <1>10, <2>2
    <2>4. Off(basket, p, sh)[s] = m * y - t * w
      BY <1>5, <2>1, <2>3 DEF Off
    <2>5. m * y \in Int /\ t * w \in Int
      OBVIOUS
    <2>6. 2 * (m * y) <= 2 * (t * w) + m /\ 2 * (m * y) >= 2 * (t * w) - m
      BY <1>6, <2>1, <2>2
    <2> QED
      BY <2>4, <2>5, <2>6
  <1> QED
    BY <1>5, <1>7, <1>10, <1>11, <1>12 DEF IsSplit

(* The lines of a basket are as many as it is long. *)
LEMMA MoneyLines ==
  ASSUME MoneyInv
  PROVE  /\ Len(basket) \in Nat /\ (basket # << >> => Len(basket) > 0)
         /\ \A R \in SUBSET DOMAIN basket : IsFiniteSet(R) /\ Cardinality(R) <= Len(basket)
  <1>1. basket \in Seq(Line)
    BY DEF MoneyInv
  <1>2. Len(basket) \in Nat /\ DOMAIN basket = 1 .. Len(basket) /\ (basket # << >> => Len(basket) > 0)
    BY <1>1
  <1>3. IsFiniteSet(1 .. Len(basket)) /\ Cardinality(1 .. Len(basket)) = Len(basket)
    <2>1. PICK z \in Nat : z = Len(basket)
      BY <1>2
    <2>2. /\ IsFiniteSet(1 .. z)
          /\ Cardinality(1 .. z) = IF 1 > z THEN 0 ELSE z - 1 + 1
      BY FS_Interval
    <2>3. (IF 1 > z THEN 0 ELSE z - 1 + 1) = z
      OBVIOUS
    <2> QED
      BY <2>1, <2>2, <2>3
  <1> QED
    BY <1>2, <1>3, FS_Subset

(* The placement: the quote and its split. *)
LEMMA MoneyPlace ==
  ASSUME MoneyInv, Money!Place
  PROVE  MoneyInv'
  <1>1. /\ stage = "basket" /\ basket # << >> /\ stage' = "placed"
        /\ back' = [i \in DOMAIN basket |-> 0]
        /\ UNCHANGED <<basket, dropped, given, roundings, short>>
    BY DEF Money!Place
  <1>a. PICK c \in Coupons : \E p \in Money!Quotes(c) : price' = p /\ share' \in Money!Allocations(p)
    BY DEF Money!Place
  <1>2. PICK p \in Money!Quotes(c) : price' = p /\ share' \in Money!Allocations(p)
    BY <1>a
  <1>3. IsBasket(basket, SellerCount) /\ SellerCount \in Nat /\ dropped = {} /\ given = 0 /\ roundings = 0 /\ short = 0
    BY <1>1 DEF MoneyInv, IsBasket
  <1>4. PICK sh : sh = share'
    OBVIOUS
  <1>5. PICK q : q = p
    OBVIOUS
  <1>6. IsSplit(basket, q, sh, SellerCount)
    BY <1>1, <1>2, <1>4, <1>5, MoneyQuote, MoneySplit
  <1>7. PICK k : k = back'
    OBVIOUS
  <1>8. Backs(basket, k) /\ \A i \in DOMAIN basket : k[i] = 0
    BY <1>1, <1>3, <1>7 DEF Backs, IsBasket
  <1>9. SumFunctionOnSet(sh, {}) = 0
    BY SumEmpty
  <1>10. Charged(basket, q, sh, SellerCount, {}, k, SumFunctionOnSet(sh, {}), 0)
    BY <1>3, <1>6, <1>8, ChargedAtFirst
  <1>11. SellerCount' = SellerCount
    BY <1>1 DEF SellerCount
  <1>b. 0 < SellerCount + 0 + Len(basket)
    BY <1>1, <1>3, MoneyLines
  <1>12. Placed'
    BY <1>1, <1>b, <1>2, <1>3, <1>4, <1>5, <1>6, <1>7, <1>8, <1>9, <1>10, <1>11 DEF Placed
  <1> QED
    BY <1>1, <1>3, <1>11, <1>12 DEF MoneyInv

(* The delivery changes no money. *)
LEMMA MoneyDeliver ==
  ASSUME MoneyInv, Money!Deliver
  PROVE  MoneyInv'
  <1>1. stage = "placed" /\ stage' = "delivered" /\ UNCHANGED <<basket, price, share, dropped, back, given, roundings, short>>
    BY DEF Money!Deliver
  <1>2. SellerCount' = SellerCount
    BY <1>1 DEF SellerCount
  <1>3. Placed'
    BY <1>1, <1>2 DEF MoneyInv, Placed
  <1> QED
    BY <1>1, <1>2, <1>3 DEF MoneyInv

(* The refund of a slice whose seller rejected it. *)
LEMMA MoneyResolve ==
  ASSUME MoneyInv, NEW s \in Money!Sellers, Money!ResolveSlice(s)
  PROVE  MoneyInv'
  <1>1. /\ stage = "placed" /\ s \notin dropped /\ Money!Refund(share[s], 0)
        /\ dropped' = IF given + share[s] <= Money!Cap THEN dropped \cup {s} ELSE dropped
        /\ UNCHANGED <<stage, basket, price, share, back>>
    BY DEF Money!ResolveSlice
  <1>2. /\ IsBasket(basket, SellerCount) /\ SellerCount' = SellerCount /\ s \in 1 .. SellerCount
        /\ dropped \in SUBSET (1 .. SellerCount) /\ dropped \cup {s} \in SUBSET (1 .. SellerCount)
    BY <1>1, MoneySame DEF MoneyInv, IsBasket, SellerCount
  <1>3. /\ IsSplit(basket, price, share, SellerCount) /\ Backs(basket, back) /\ \A i \in DOMAIN basket : back[i] = 0
        /\ given = SumFunctionOnSet(share, dropped) /\ short < SellerCount + roundings + Len(basket)
    BY <1>1 DEF MoneyInv, Placed
  <1>4. PICK D : D = dropped \cup {s}
    OBVIOUS
  <1>5. SumFunctionOnSet(share, D) = given + share[s]
    <2>1. IsFiniteSet(dropped) /\ Numbers(share, dropped \cup {s})
      BY <1>2, <1>3, OffTypes
    <2> QED
      BY <1>1, <1>3, <1>4, <2>1, SumAdd
  <1>6. /\ roundings \in Nat /\ Len(basket) \in Nat /\ SellerCount \in Nat
        /\ given \in Int /\ short \in Int /\ share[s] \in Int /\ price.grand \in Nat
    BY <1>2, <1>3, MoneyLines DEF MoneyInv, IsBasket, IsSplit
  <1>7. CASE given + share[s] <= Money!Cap
    <2>1. dropped' = D /\ given' = given + share[s] /\ roundings' = roundings /\ short' = short
      BY <1>1, <1>4, <1>6, <1>7 DEF Money!Refund
    <2>2. Charged(basket, price, share, SellerCount, D, back, SumFunctionOnSet(share, D), roundings)
      BY <1>2, <1>3, <1>4, <1>6, ChargedAtFirst
    <2>3. Placed'
      BY <1>1, <1>2, <1>3, <1>5, <1>6, <2>1, <2>2 DEF Placed
    <2> QED
      BY <1>1, <1>2, <1>4, <1>6, <2>1, <2>3 DEF MoneyInv
  <1>8. CASE ~(given + share[s] <= Money!Cap)
    <2>1. dropped' = dropped /\ given' = given /\ roundings' = roundings
          /\ short' = -Money!Least(-short, Money!Cap - given - share[s])
      BY <1>1, <1>8 DEF Money!Refund
    <2>2. given + share[s] <= price.grand + SellerCount - 1
      BY <1>2, <1>3, <1>4, <1>5, SharesWithin
    <2>3. short' \in Int /\ short' < SellerCount + roundings + Len(basket)
      <3>1. PICK z, y, x, w \in Int : z = short /\ y = price.grand /\ x = given + share[s] /\ w = SellerCount
        BY <1>6
      <3>2. PICK len, r \in Nat : len = Len(basket) /\ r = roundings
        BY <1>6
      <3>3. x <= y + w - 1 /\ z < w + r + len /\ w >= 0
        BY <1>3, <1>6, <2>2, <3>1, <3>2
      <3>4. short' = -Money!Least(-z, y - x)
        <4>1. price.grand - given - share[s] = y - x
          BY <1>6, <3>1
        <4> QED
          BY <2>1, <3>1, <4>1 DEF Money!Cap
      <3>5. short' = z \/ short' = x - y
        BY <3>4 DEF Money!Least
      <3> QED
        BY <3>1, <3>2, <3>3, <3>5
    <2>4. Placed'
      BY <1>1, <1>2, <1>3, <1>6, <2>1, <2>3 DEF MoneyInv, Placed
    <2> QED
      BY <1>1, <1>2, <1>6, <2>1, <2>3, <2>4 DEF MoneyInv
  <1> QED
    BY <1>7, <1>8

(* A refund of goods is their part, to less than a paisa. *)
LEMMA MoneyAmount ==
  ASSUME MoneyInv, stage # "basket", NEW i \in DOMAIN basket, NEW n \in Nat, NEW result,
         NEW a \in Money!Amounts(i, n, result)
  PROVE  a \in Nat /\ price.subtotal * a <= price.grand * (basket[i].unit * n) + price.subtotal
  <1>1. PICK m \in Nat \ {0}, t \in Nat : m = price.subtotal /\ t = price.grand
    BY DEF MoneyInv, Placed, IsSplit
  <1>2. PICK u \in Nat : u = basket[i].unit
    BY DEF MoneyInv, IsBasket
  <1>3. PICK x \in Nat : x = t * (u * n)
    OBVIOUS
  <1>4. t * u * n = x
    BY <1>3
  <1>5. ASSUME NEW r \in Money!Allotted(i, n)
        PROVE  r \in Nat /\ 2 * (m * r) <= 2 * x + m
    <2>1. r \in Money!Rounded(x, m)
      BY <1>1, <1>2, <1>4 DEF Money!Allotted
    <2> QED
      BY <2>1, MoneyRounded
  <1>6. a \in Nat /\ m * a <= x + m
    <2>1. CASE result = "PASS"
      <3>1. a \in Nat /\ 2 * (m * a) <= 2 * x + m
        BY <2>1, <1>5 DEF Money!Amounts
      <3> QED
        BY <3>1
    <2>2. CASE result # "PASS"
      <3>1. PICK r \in Money!Allotted(i, n) : a \in Money!Rounded(r, 2)
        BY <2>2 DEF Money!Amounts
      <3>2. r \in Nat /\ 2 * (m * r) <= 2 * x + m
        BY <1>5
      <3>3. a \in Nat /\ 2 * (2 * a) <= 2 * r + 2
        BY <3>1, <3>2, MoneyRounded
      <3>4. 2 * a <= r + 1
        BY <3>2, <3>3
      <3>5. m * (2 * a) <= m * (r + 1)
        BY <3>2, <3>3, <3>4
      <3>6. m * (2 * a) = 2 * (m * a) /\ m * (r + 1) = m * r + m
        BY <3>2, <3>3
      <3> QED
        BY <3>2, <3>3, <3>5, <3>6
    <2> QED
      BY <2>1, <2>2
  <1> QED
    BY <1>1, <1>2, <1>3, <1>6

(* Passed or passed in part. *)
LEMMA MoneyLine ==
  ASSUME MoneyInv, stage # "basket", NEW i \in DOMAIN basket, NEW n \in Nat, NEW a \in Money!MayComeTo(i, n)
  PROVE  a \in Nat /\ price.subtotal * a <= price.grand * (basket[i].unit * n) + price.subtotal
  <1>1. PICK result \in {"PASS", "PARTIAL_PASS"} : a \in Money!Amounts(i, n, result)
    BY DEF Money!MayComeTo
  <1> QED
    BY <1>1, MoneyAmount

(* A return, refunded or refused for the cap. *)
LEMMA MoneyReturn ==
  ASSUME MoneyInv, NEW R \in SUBSET DOMAIN basket, NEW n \in [R -> Money!Units], Money!Return(n)
  PROVE  MoneyInv'
  <1>1. /\ stage = "delivered"
        /\ \A i \in R : basket[i].seller \notin dropped /\ n[i] <= basket[i].qty - back[i]
        /\ back' = [i \in DOMAIN back |-> IF i \in R THEN back[i] + n[i] ELSE back[i]]
        /\ UNCHANGED <<stage, basket, price, share, dropped>>
    BY DEF Money!Return
  <1>2. PICK f : (\A i \in R : f[i] \in Money!MayComeTo(i, n[i])) /\ DOMAIN f = R
                 /\ Money!Refund(Money!SumFunction(f), Money!Cardinality(R))
    BY DEF Money!Return
  <1>3. /\ IsBasket(basket, SellerCount) /\ SellerCount' = SellerCount
        /\ dropped \in SUBSET (1 .. SellerCount) /\ given \in Int /\ roundings \in Nat /\ short \in Int
        /\ IsSplit(basket, price, share, SellerCount) /\ Backs(basket, back)
        /\ Charged(basket, price, share, SellerCount, dropped, back, given, roundings)
        /\ short < SellerCount + roundings + Len(basket)
    BY <1>1 DEF MoneyInv, Placed, SellerCount
  <1>4. /\ SellerCount \in Nat /\ price.grand \in Nat /\ Len(basket) \in Nat
        /\ IsFiniteSet(R) /\ Cardinality(R) <= Len(basket)
    BY <1>3, MoneyLines DEF IsBasket, IsSplit
  <1>5. PICK l : l = back'
    OBVIOUS
  <1>6. ASSUME NEW i \in DOMAIN basket
        PROVE  /\ back[i] \in Nat /\ basket[i].qty \in Nat /\ l[i] \in Nat
               /\ back[i] <= l[i] /\ l[i] <= basket[i].qty
               /\ i \in R => n[i] \in Nat /\ l[i] - back[i] = n[i]
    <2>1. back[i] \in Nat /\ basket[i].qty \in Nat /\ back[i] <= basket[i].qty /\ i \in DOMAIN back
      BY <1>3 DEF IsBasket, Backs
    <2>2. l[i] = IF i \in R THEN back[i] + n[i] ELSE back[i]
      BY <1>1, <1>5, <2>1
    <2>3. i \in R => n[i] \in Nat
      <3>1. SUFFICES ASSUME i \in R PROVE n[i] \in Nat
        OBVIOUS
      <3>2. PICK good \in Goods : n[i] \in 1 .. good.qty
        BY <3>1 DEF Money!Units
      <3> QED
        BY <3>2, CustomerAssumption
    <2> QED
      BY <1>1, <2>1, <2>2, <2>3
  <1>7. PICK a : a = SumFunctionOnSet(f, R)
    OBVIOUS
  <1>8. PICK c : c = Cardinality(R)
    OBVIOUS
  <1>9. Money!Refund(a, c)
    <2>1. Money!SumFunction(f) = Money!SumFunctionOnSet(f, DOMAIN f)
      BY Zenon DEF Money!SumFunction
    <2> QED
      BY <1>2, <1>7, <1>8, <2>1, MoneySame
  <1>10. /\ Backs(basket, l) /\ a \in Nat /\ c \in Nat
         /\ Charged(basket, price, share, SellerCount, dropped, l, given + a, roundings + c)
         /\ Charged(basket, price, share, SellerCount, dropped, l, given, roundings)
    <2>1. SentBack(basket, back, l)
      <3>1. l \in [DOMAIN basket -> Nat]
        BY <1>1, <1>3, <1>5, <1>6 DEF Backs
      <3> QED
        BY <1>6, <3>1 DEF SentBack
    <2>2. AreParts(basket, price, back, l, f, R)
      <3>1. ASSUME NEW i \in R
            PROVE  f[i] \in Nat
                   /\ price.subtotal * f[i] <= price.grand * (basket[i].unit * (l[i] - back[i])) + price.subtotal
        <4>1. n[i] \in Nat /\ l[i] - back[i] = n[i] /\ i \in DOMAIN basket
          BY <1>6
        <4>2. f[i] \in Money!MayComeTo(i, n[i])
          BY <1>2
        <4>3. f[i] \in Nat /\ price.subtotal * f[i] <= price.grand * (basket[i].unit * n[i]) + price.subtotal
          BY <1>1, <4>1, <4>2, MoneyLine
        <4> QED
          BY <4>1, <4>3
      <3> QED
        BY <3>1 DEF AreParts
    <2>3. PICK b, p, sh, nn, D, k, g, r :
            /\ b = basket /\ p = price /\ sh = share /\ nn = SellerCount /\ D = dropped
            /\ k = back /\ g = given /\ r = roundings
      OBVIOUS
    <2>4. /\ IsBasket(b, nn) /\ IsSplit(b, p, sh, nn) /\ D \in SUBSET (1 .. nn) /\ Backs(b, k)
          /\ g \in Int /\ r \in Nat /\ Charged(b, p, sh, nn, D, k, g, r)
      BY <1>3, <2>3
    <2>5. /\ R \in SUBSET DOMAIN b /\ \A i \in R : b[i].seller \notin D
          /\ SentBack(b, k, l) /\ AreParts(b, p, k, l, f, R)
      BY <1>1, <2>1, <2>2, <2>3
    <2>6. /\ Backs(b, l) /\ SumFunctionOnSet(f, R) \in Nat /\ Cardinality(R) \in Nat
          /\ Charged(b, p, sh, nn, D, l, g + SumFunctionOnSet(f, R), r + Cardinality(R))
          /\ Charged(b, p, sh, nn, D, l, g, r)
      BY <2>4, <2>5, ChargedOnce
    <2> QED
      BY <1>7, <1>8, <2>3, <2>6
  <1>11. CASE given + a <= Money!Cap
    <2>1. given' = given + a /\ roundings' = roundings + c /\ short' = short
      BY <1>9, <1>11 DEF Money!Refund
    <2>2. Placed'
      BY <1>1, <1>3, <1>4, <1>5, <1>10, <2>1 DEF Placed
    <2> QED
      BY <1>1, <1>3, <1>10, <2>1, <2>2 DEF MoneyInv
  <1>12. CASE ~(given + a <= Money!Cap)
    <2>1. given' = given /\ roundings' = roundings /\ short' = -Money!Least(-short, Money!Cap - given - a)
      BY <1>9, <1>12 DEF Money!Refund
    <2>2. given + a <= price.grand + SellerCount - 1 + (roundings + c)
      <3>1. PICK b, p, sh, nn, D, x, r :
              /\ b = basket /\ p = price /\ sh = share /\ nn = SellerCount /\ D = dropped /\ x = given + a /\ r = roundings + c
        OBVIOUS
      <3>2. /\ IsBasket(b, nn) /\ IsSplit(b, p, sh, nn) /\ D \in SUBSET (1 .. nn) /\ Backs(b, l)
            /\ x \in Int /\ r \in Nat /\ Charged(b, p, sh, nn, D, l, x, r)
        BY <1>3, <1>10, <3>1
      <3>3. x <= p.grand + nn - 1 + r
        BY <3>2, ChargedForTheRest
      <3> QED
        BY <3>1, <3>3
    <2>3. short' \in Int /\ short' < SellerCount + roundings + Len(basket)
      <3>1. PICK z, y, x, w \in Int : z = short /\ y = price.grand /\ x = given + a /\ w = SellerCount
        BY <1>3, <1>4, <1>10
      <3>2. PICK len, r \in Nat : len = Len(basket) /\ r = roundings
        BY <1>3, <1>4
      <3>3. x <= y + w - 1 + (r + c) /\ z < w + r + len /\ c <= len
        BY <1>3, <1>4, <1>8, <2>2, <3>1, <3>2
      <3>4. short' = -Money!Least(-z, y - x)
        <4>1. price.grand - given - a = y - x
          BY <1>3, <1>4, <1>10, <3>1
        <4> QED
          BY <2>1, <3>1, <4>1 DEF Money!Cap
      <3>5. short' = z \/ short' = x - y
        BY <3>4 DEF Money!Least
      <3>6. PICK e \in Nat : e = c
        BY <1>10
      <3>7. x - y < w + r + len
        BY <3>1, <3>2, <3>3, <3>6
      <3>8. short' \in Int /\ short' < w + r + len
        BY <3>1, <3>3, <3>5, <3>7
      <3> QED
        BY <3>1, <3>2, <3>8
    <2>4. Placed'
      BY <1>1, <1>3, <1>4, <1>5, <1>10, <2>1, <2>3 DEF Placed
    <2> QED
      BY <1>1, <1>3, <1>10, <2>1, <2>3, <2>4 DEF MoneyInv
  <1> QED
    BY <1>11, <1>12

(* The other operations of the order. *)
LEMMA MoneyStays ==
  ASSUME MoneyInv, UNCHANGED moneyVars
  PROVE  MoneyInv'
  <1>1. UNCHANGED <<stage, basket, price, share, dropped, back, given, roundings, short>>
    BY DEF moneyVars
  <1>2. SellerCount' = SellerCount
    BY <1>1 DEF SellerCount
  <1>3. Placed' = Placed
    BY <1>1, <1>2 DEF Placed
  <1> QED
    BY <1>1, <1>2, <1>3 DEF MoneyInv

(* Every operation of the order keeps the books. *)
LEMMA MoneyNext ==
  ASSUME MoneyInv, Money!Next
  PROVE  MoneyInv'
  <1>1. ASSUME NEW g \in Goods, Money!AddLine(g) PROVE MoneyInv'
    BY <1>1, MoneyAddLine
  <1>2. ASSUME NEW s \in Money!Sellers, Money!ResolveSlice(s) PROVE MoneyInv'
    BY <1>2, MoneyResolve
  <1>3. ASSUME NEW R \in SUBSET DOMAIN basket, NEW n \in [R -> Money!Units], Money!Return(n)
        PROVE  MoneyInv'
    BY <1>3, MoneyReturn
  <1> QED
    BY <1>1, <1>2, <1>3, MoneyPlace, MoneyDeliver DEF Money!Next

(* And so does every step of the customer. *)
LEMMA MoneyStep ==
  ASSUME MoneyInv, [Next]_vars
  PROVE  MoneyInv'
  <1>1. CASE Money!Next
    BY <1>1, MoneyNext
  <1>2. CASE UNCHANGED moneyVars
    BY <1>2, MoneyStays
  <1>3. Money!Next \/ UNCHANGED moneyVars
    BY DEF Next, vars
  <1> QED
    BY <1>1, <1>2, <1>3

(* The shares are the sellers' parts of the total. *)
LEMMA MoneyIsSplit ==
  ASSUME MoneyInv
  PROVE  Money!SplitIsFair
  <1> SUFFICES ASSUME stage # "basket" PROVE Money!SplitIsFair
    BY DEF Money!SplitIsFair
  <1>1. PICK b, p, sh, n : b = basket /\ p = price /\ sh = share /\ n = SellerCount
    OBVIOUS
  <1>2. IsBasket(b, n) /\ IsSplit(b, p, sh, n)
    BY <1>1 DEF MoneyInv, Placed
  <1>3. Money!Sellers = 1 .. n /\ Money!Cardinality(Money!Sellers) = n
    BY <1>1, <1>2, MoneySame DEF SellerCount, IsBasket
  <1>4. PICK m \in Nat \ {0}, t \in Nat : m = p.subtotal /\ t = p.grand
    BY <1>2 DEF IsSplit
  <1>5. n \in Nat
    BY <1>2 DEF IsBasket
  <1>6. Money!SumFunctionOnSet(share, Money!Sellers) = price.grand
    BY <1>1, <1>2, <1>3, MoneySame DEF IsSplit
  <1>7. ASSUME NEW s \in 1 .. n
        PROVE  LET off == share[s] * price.subtotal - price.grand * Money!SumOf(Money!LinesOf(s))
                   steps == IF s < n THEN 1 ELSE n - 1
               IN 2 * off <= steps * price.subtotal /\ -2 * off <= steps * price.subtotal
    <2>1. PICK w \in Nat : w = Worth(b, LinesIn(b, {s}))
      BY <1>2, WorthTypes DEF LinesIn
    <2>2. Money!SumOf(Money!LinesOf(s)) = w
      BY <1>1, <2>1, MoneySame
    <2>3. PICK y \in Int : y = sh[s]
      BY <1>2 DEF IsSplit
    <2>4. PICK x \in Int : x = m * y - t * w
      OBVIOUS
    <2>5. Off(b, p, sh)[s] = x
      BY <1>2, <1>4, <2>1, <2>3, <2>4 DEF Off, IsSplit
    <2>6. share[s] * price.subtotal - price.grand * Money!SumOf(Money!LinesOf(s)) = x
      BY <1>1, <1>4, <2>2, <2>3, <2>4
    <2>7. CASE s < n
      <3>1. s \in 1 .. n - 1
        BY <1>5, <2>7
      <3>2. 2 * x <= m /\ -2 * x <= m
        BY <1>2, <1>4, <2>5, <3>1 DEF IsSplit
      <3>3. 1 * price.subtotal = m
        BY <1>1, <1>4
      <3> QED
        BY <2>6, <2>7, <3>2, <3>3
    <2>8. CASE s = n
      <3>1. PICK z \in Int : z = SumFunctionOnSet(Off(b, p, sh), 1 .. n - 1)
        <4>1. (1 .. n - 1) \in SUBSET (1 .. n)
          BY <1>5
        <4> QED
          BY <1>2, <4>1, OffTypes
      <3>2. 2 * z <= m * (n - 1) /\ -2 * z <= m * (n - 1)
        BY <1>2, <1>4, <3>1, OffBound
      <3>3. x = -z
        BY <1>2, <2>5, <2>8, <3>1, LastOff
      <3>4. PICK y1 \in Int : y1 = m * (n - 1)
        BY <1>5
      <3>5. 2 * x <= y1 /\ -2 * x <= y1
        BY <3>2, <3>3, <3>4
      <3>6. (n - 1) * price.subtotal = y1
        BY <1>1, <1>4, <1>5, <3>4
      <3> QED
        BY <1>5, <2>6, <2>8, <3>5, <3>6
    <2> QED
      BY <1>5, <2>7, <2>8
  <1> QED
    BY <1>3, <1>6, <1>7 DEF Money!SplitIsFair

(* The buyer is charged for what it keeps. *)
LEMMA MoneyIsKept ==
  ASSUME MoneyInv
  PROVE  Money!ChargedForKept
  <1>1. PICK b, p, sh, n, D, k, g, r :
          b = basket /\ p = price /\ sh = share /\ n = SellerCount /\ D = dropped /\ k = back /\ g = given /\ r = roundings
    OBVIOUS
  <1>2. IsBasket(b, n) /\ D \in SUBSET (1 .. n) /\ n \in Nat /\ g \in Int /\ r \in Nat
    BY <1>1 DEF MoneyInv, IsBasket
  <1>3. Money!Sellers = 1 .. n /\ Money!Tolerance = n + r
    BY <1>1, <1>2, MoneySame DEF SellerCount, IsBasket, Money!Tolerance
  <1>4. Money!Kept = LinesIn(b, (1 .. n) \ D)
    <2>1. Money!Kept = UNION {Money!LinesOf(s) : s \in (1 .. n) \ D}
      BY <1>1, <1>3 DEF Money!Kept
    <2> QED
      BY <1>1, <2>1 DEF Money!LinesOf, LinesIn
  <1>5. CASE stage = "basket"
    BY <1>1, <1>2, <1>3, <1>5 DEF MoneyInv, Money!ChargedForKept
  <1>6. CASE stage # "basket"
    <2>1. IsSplit(b, p, sh, n) /\ Backs(b, k) /\ Charged(b, p, sh, n, D, k, g, r) /\ short < n + r + Len(basket)
      BY <1>1, <1>6 DEF MoneyInv, Placed
    <2>2. p.grand * Keeping(b, k, LinesIn(b, (1 .. n) \ D)) <= (p.grand - g + n + r) * p.subtotal
      BY <1>2, <2>1, ChargedForTheRest
    <2>3. Money!KeptValue = Keeping(b, k, LinesIn(b, (1 .. n) \ D))
      BY <1>1, <1>4, MoneySame
    <2>4. p.grand - g + n + r = p.grand - g + (n + r)
      BY <1>2, <2>1 DEF IsSplit
    <2> QED
      BY <1>1, <1>3, <2>1, <2>2, <2>3, <2>4 DEF Money!ChargedForKept
  <1> QED
    BY <1>5, <1>6

(* OrderMoney: through placement, slices and returns the shares add up and  *)
(* the buyer has paid for what it keeps.                                    *)
THEOREM OrderMoneyAddsUp == Spec => []MoneyAddsUp
  <1>1. Init => MoneyInv
    BY MoneyInit DEF Init
  <1>2. MoneyInv /\ [Next]_vars => MoneyInv'
    BY MoneyStep
  <1>3. MoneyInv => MoneyAddsUp
    BY MoneyIsSplit, MoneyIsKept DEF MoneyAddsUp
  <1> QED
    BY <1>1, <1>2, <1>3, PTL DEF Spec
=============================================================================
