---------------------------- MODULE ShoppingCart ----------------------------
(***************************************************************************)
(* CartService for one user, who has also been a guest, and one product:   *)
(* finding or making the cart, moving the guest's items into it, adding,   *)
(* changing and removing the item.  Nothing runs in a transaction: each    *)
(* step is a write of its own by id, after what the call has read.         *)
(* The checkout of the cart is an event here, taken from OrderService.     *)
(***************************************************************************)
EXTENDS Naturals, FiniteSets

CONSTANTS
  MaxCarts,   \* carts rows that are ever written
  Stock,      \* products.stockOnHand
  Calls,      \* calls at the same time
  None        \* no cart, no call

Carts == 1 .. MaxCarts

VARIABLES
  owner,    \* "user" or "guest": carts.userId or carts.guestSessionId (None: not written)
  status,   \* carts.status
  qty,      \* the item's quantity (0: no item)
  made,     \* rows written so far
  asked,    \* what the user has asked for since the last checkout
  req,      \* the calls: who, what, next step, cart, guest cart, and the quantities
  torn,     \* a write over an outdated read, or a migration that died half way
  again     \* a guest cart was migrated once more

rowVars == <<owner, status, qty, made>>
vars == <<rowVars, asked, req, torn, again>>

CartStatus == {"ACTIVE", "MERGED", "CONVERTED"}

Idle == [op |-> "idle", who |-> None, at |-> None, cart |-> None, guest |-> None, read |-> 0, n |-> 0, to |-> 0]

Init ==
  /\ owner = [k \in Carts |-> None]
  /\ status = [k \in Carts |-> None]
  /\ qty = [k \in Carts |-> 0]
  /\ made = 0
  /\ asked = 0
  /\ req = [c \in Calls |-> Idle]
  /\ torn = FALSE
  /\ again = FALSE

Active == {k \in Carts : owner[k] = "user" /\ status[k] = "ACTIVE"}
Guest == {k \in Carts : owner[k] = "guest"}

Step(c, at) == req[c].at = at
End(c) == req' = [req EXCEPT ![c] = Idle]

(* Once torn, the two need not agree any more.                               *)
Asks(n) == asked' = IF torn' THEN 0 ELSE n

(* A cart that a user's call writes is one that was the active one.          *)
Spent(c) == req[c].who = "user" /\ status[req[c].cart] # "ACTIVE"

Dies(c) ==
  /\ req[c] # Idle
  /\ torn' = (torn \/ Step(c, "copy") \/ Step(c, "merge"))
  /\ End(c)
  /\ UNCHANGED <<rowVars, asked, again>>

-----------------------------------------------------------------------------
(* resolveCart and migrateGuestToUser *)

ResolveUser(c, op) ==
  /\ req[c] = Idle
  /\ \/ \E k \in Active :
          req' = [req EXCEPT ![c] = [Idle EXCEPT !.op = op, !.who = "user", !.at = "item", !.cart = k]]
     \/ /\ Active = {}
        /\ \/ req' = [req EXCEPT ![c] = [Idle EXCEPT !.op = op, !.who = "user", !.at = "create"]]
           \/ \E g \in Guest :
                req' = [req EXCEPT ![c] = [Idle EXCEPT !.op = op, !.who = "user", !.at = "create",
                                                       !.guest = g, !.read = qty[g]]]
  /\ UNCHANGED <<rowVars, asked, torn, again>>

ResolveGuest(c, op) ==
  /\ req[c] = Idle
  /\ \/ \E g \in Guest :
          req' = [req EXCEPT ![c] = [Idle EXCEPT !.op = op, !.who = "guest", !.at = "item", !.cart = g]]
     \/ /\ Guest = {}
        /\ req' = [req EXCEPT ![c] = [Idle EXCEPT !.op = op, !.who = "guest", !.at = "create"]]
  /\ UNCHANGED <<rowVars, asked, torn, again>>

(* guestSessionId is unique; userId is not.                                  *)
Create(c) ==
  /\ Step(c, "create")
  /\ req[c].who = "guest" => Guest = {}
  /\ made < MaxCarts
  /\ made' = made + 1
  /\ owner' = [owner EXCEPT ![made'] = req[c].who]
  /\ status' = [status EXCEPT ![made'] = "ACTIVE"]
  /\ req' = [req EXCEPT ![c].cart = made',
                        ![c].at = IF req[c].guest = None THEN "item" ELSE IF req[c].read > 0 THEN "copy" ELSE "merge"]
  /\ torn' = (torn \/ (req[c].who = "user" /\ Active # {}))
  /\ UNCHANGED <<qty, asked, again>>

Copied(n) == n

CopyItem(c) ==
  /\ Step(c, "copy")
  /\ qty' = [qty EXCEPT ![req[c].cart] = Copied(req[c].read)]
  /\ torn' = (torn \/ qty[req[c].cart] # 0 \/ Spent(c))
  /\ Asks(asked + req[c].read)
  /\ req' = [req EXCEPT ![c].at = "merge"]
  /\ UNCHANGED <<owner, status, made, again>>

MarkMerged(c) ==
  /\ Step(c, "merge")
  /\ status' = [status EXCEPT ![req[c].guest] = "MERGED"]
  /\ again' = (again \/ status[req[c].guest] = "MERGED")
  /\ torn' = (torn \/ qty[req[c].guest] # req[c].read)
  /\ req' = [req EXCEPT ![c].at = "item", ![c].guest = None, ![c].read = 0]
  /\ UNCHANGED <<owner, qty, made, asked>>

-----------------------------------------------------------------------------
(* addItem, updateItem, removeItem and clear *)

Ops == {"add", "update", "remove"}

OnlyNew(read, n) == n          \* mutation: what is there already is forgotten
Target(read, n) == read + n

ReadItem(c, n) ==
  /\ Step(c, "item")
  /\ LET read == qty[req[c].cart]
     IN \/ /\ req[c].op = "add"
           /\ Target(read, n) <= Stock
           /\ req' = [req EXCEPT ![c].at = "write", ![c].read = read, ![c].to = Target(read, n), ![c].n = n]
        \/ /\ req[c].op = "update"
           /\ read > 0
           /\ req' = [req EXCEPT ![c].at = "write", ![c].read = read, ![c].to = n, ![c].n = n]
  /\ UNCHANGED <<rowVars, asked, torn, again>>

(* Only an item that is still there is updated; an added one is upserted.    *)
WriteItem(c) ==
  /\ Step(c, "write")
  /\ req[c].op = "update" => qty[req[c].cart] > 0
  /\ qty' = [qty EXCEPT ![req[c].cart] = req[c].to]
  /\ torn' = (torn \/ qty[req[c].cart] # req[c].read \/ Spent(c))
  /\ Asks(IF req[c].who = "guest" THEN asked ELSE IF req[c].op = "add" THEN asked + req[c].n ELSE req[c].n)
  /\ End(c)
  /\ UNCHANGED <<owner, status, made, again>>

RemoveItem(c) ==
  /\ Step(c, "item")
  /\ req[c].op = "remove"
  /\ qty' = [qty EXCEPT ![req[c].cart] = 0]
  /\ torn' = (torn \/ Spent(c))
  /\ Asks(IF req[c].who = "guest" THEN asked ELSE 0)
  /\ End(c)
  /\ UNCHANGED <<owner, status, made, again>>

-----------------------------------------------------------------------------
(* The claim of OrderService.checkout; it succeeds or is rolled back.        *)
Checkout(k) ==
  /\ k \in Active
  /\ qty[k] > 0
  /\ status' = [status EXCEPT ![k] = "CONVERTED"]
  /\ asked' = 0
  /\ UNCHANGED <<owner, qty, made, req, torn, again>>

-----------------------------------------------------------------------------
Call(c) ==
  \/ \E op \in Ops : ResolveUser(c, op) \/ ResolveGuest(c, op)
  \/ Create(c) \/ CopyItem(c) \/ MarkMerged(c)
  \/ \E n \in 1 .. Stock : ReadItem(c, n)
  \/ WriteItem(c) \/ RemoveItem(c)
  \/ Dies(c)

Next == (\E c \in Calls : Call(c)) \/ (\E k \in Carts : Checkout(k))

Spec == Init /\ [][Next]_vars

-----------------------------------------------------------------------------
(* The carts and the calls about them are well formed, and however calls     *)
(* overlap a cart holds no more of the product than there is.                *)
TypeOK ==
  /\ made \in 0 .. MaxCarts
  /\ \A k \in Carts :
       IF k <= made THEN owner[k] \in {"user", "guest"} /\ status[k] \in CartStatus
                    ELSE owner[k] = None /\ status[k] = None /\ qty[k] = 0
  /\ qty \in [Carts -> 0 .. Stock]
  /\ Cardinality(Guest) <= 1
  /\ asked \in 0 .. Stock
  /\ \A c \in Calls : req[c].at \in {None, "create", "copy", "merge", "item", "write"}
  /\ torn \in BOOLEAN
  /\ again \in BOOLEAN

(* The user has at most one active cart, and it holds what the user has      *)
(* asked for since the last checkout, the guest's item included, as long as  *)
(* no step writes over an outdated read and no migration dies half way.      *)
CartAsAsked ==
  ~torn => /\ Cardinality(Active) <= 1
           /\ \A k \in Active : qty[k] = asked

-----------------------------------------------------------------------------
(* Stated by the code, and not kept by it. *)

(* "Merge a guest cart into the user cart on first login": a guest cart that *)
(* has been merged is not merged again.                                      *)
MergedOnce == ~again
=============================================================================
