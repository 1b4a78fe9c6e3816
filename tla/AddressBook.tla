---------------------------- MODULE AddressBook ----------------------------
(***************************************************************************)
(* AddressesService for one customer: addresses are added, changed and     *)
(* removed, and one of them is the default.                                *)
(*                                                                         *)
(* A call reads the customer's addresses outside its transaction.  A new   *)
(* default first clears the flag of the addresses that are there when that *)
(* statement begins, and is set when the transaction commits.              *)
(***************************************************************************)
EXTENDS Naturals, FiniteSets

CONSTANTS
  MaxAddresses,   \* addresses rows that are ever written
  Calls,          \* calls at the same time
  None            \* no address, no call

Rows == 1 .. MaxAddresses

VARIABLES
  flag,      \* addresses.isDefault (None: not written, or removed)
  written,   \* rows written so far
  req,       \* the calls: what they do, to which address, and what they have read
  stale      \* a write over an outdated read

vars == <<flag, written, req, stale>>

Idle == [op |-> "idle", row |-> None, default |-> FALSE, read |-> None, cleared |-> None]

Init ==
  /\ flag = [n \in Rows |-> None]
  /\ written = 0
  /\ req = [c \in Calls |-> Idle]
  /\ stale = FALSE

Present == {n \in Rows : flag[n] # None}

Read(c, op, n, default) ==
  /\ req[c] = Idle
  /\ req' = [req EXCEPT ![c] = [op |-> op, row |-> n, default |-> default, read |-> flag, cleared |-> None]]
  /\ UNCHANGED <<flag, written, stale>>

End(c) == req' = [req EXCEPT ![c] = Idle]

Drop(c) == req[c] # Idle /\ End(c) /\ UNCHANGED <<flag, written, stale>>

Commit(c) ==
  /\ stale' = (stale \/ flag # req[c].read)
  /\ End(c)

-----------------------------------------------------------------------------
(* create, update *)

OnlyIfAsked(wanted) == wanted   \* mutation: the first address is not special
MakeDefault(wanted) == wanted \/ Present = {}

ReadCreate(c) == \E wanted \in BOOLEAN : Read(c, "create", None, MakeDefault(wanted))

ReadUpdate(c, n) == n \in Present /\ \E wanted \in BOOLEAN : Read(c, "update", n, wanted)

Clear(c) ==
  /\ req[c].op \in {"create", "update"}
  /\ req[c].cleared = None
  /\ req' = [req EXCEPT ![c].cleared = IF req[c].default THEN Present ELSE {}]
  /\ UNCHANGED <<flag, written, stale>>

Cleared(c, n) == flag[n] # None /\ n \in req[c].cleared

CommitCreate(c) ==
  /\ req[c].op = "create" /\ req[c].cleared # None
  /\ written < MaxAddresses
  /\ written' = written + 1
  /\ flag' = [n \in Rows |-> IF n = written' THEN req[c].default
                             ELSE IF Cleared(c, n) THEN FALSE ELSE flag[n]]
  /\ Commit(c)

CommitUpdate(c, n) ==
  /\ req[c].op = "update" /\ req[c].row = n /\ req[c].cleared # None
  /\ n \in Present
  /\ flag' = [m \in Rows |-> IF m = n THEN flag[n] \/ req[c].default
                             ELSE IF Cleared(c, m) THEN FALSE ELSE flag[m]]
  /\ Commit(c)
  /\ UNCHANGED written

-----------------------------------------------------------------------------
(* remove: of a default, the address updated last takes its place.  Clearing *)
(* touches all addresses at once, so that may be any of them.                *)

ReadRemove(c, n) == n \in Present /\ Read(c, "remove", n, flag[n])

Heirs(n, default) == IF default /\ Present \ {n} # {} THEN Present \ {n} ELSE {None}

CommitRemove(c, n) ==
  /\ req[c].op = "remove" /\ req[c].row = n
  /\ n \in Present
  /\ \E heir \in Heirs(n, req[c].default) :
       flag' = [m \in Rows |-> IF m = n THEN None ELSE IF m = heir THEN TRUE ELSE flag[m]]
  /\ Commit(c)
  /\ UNCHANGED written

-----------------------------------------------------------------------------
Call(c) ==
  \/ ReadCreate(c) \/ Clear(c) \/ CommitCreate(c)
  \/ \E n \in Rows : ReadUpdate(c, n) \/ CommitUpdate(c, n) \/ ReadRemove(c, n) \/ CommitRemove(c, n)
  \/ Drop(c)

Next == \E c \in Calls : Call(c)

Spec == Init /\ [][Next]_vars

-----------------------------------------------------------------------------
(* The customer's addresses and the calls about them are well formed.        *)
TypeOK ==
  /\ \A n \in Rows : flag[n] = None \/ flag[n] \in BOOLEAN
  /\ \A n \in Present : n <= written
  /\ written \in 0 .. MaxAddresses
  /\ \A c \in Calls :
       /\ req[c].op \in {"idle", "create", "update", "remove"}
       /\ req[c].op \in {"update", "remove"} <=> req[c].row \in Rows
       /\ req[c].cleared = None \/ req[c].cleared \in SUBSET Rows
  /\ stale \in BOOLEAN

(* A customer with addresses has exactly one default among them, through any *)
(* sequence of calls in which none writes over an outdated read.             *)
OneDefault ==
  ~stale /\ Present # {} => Cardinality({n \in Present : flag[n] = TRUE}) = 1
=============================================================================
