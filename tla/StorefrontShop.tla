--------------------------- MODULE StorefrontShop ---------------------------
(***************************************************************************)
(* The storefront around the checkout: starting up with a stored token,    *)
(* signing in and out, the hearts of the wishlist, the notification bell,  *)
(* and the pages that show a list of the server's rows under a filter and  *)
(* act on them.  Calls are sent, served and answered in three steps and in *)
(* any order; whatever an answer says is shown, without a look at what was *)
(* asked for since.  There is one account.                                 *)
(***************************************************************************)
EXTENDS Naturals, FiniteSets

CONSTANTS Ids, TagOf, All, PageSize, MaxCalls, MaxClicks, None, Refused

VARIABLES
  screen,  \* what the application and its page know
  calls,   \* the calls under way
  held     \* what the server holds

vars == <<screen, calls, held>>

Tags == {TagOf[n] : n \in Ids}
Pages == {"home", "wishlist", "reviews", "notes", "addresses"}
Row(n, tag, on) == [id |-> n, tag |-> tag, on |-> on]

Call(kind, arg) == [kind |-> kind, arg |-> arg, live |-> TRUE, reply |-> None]
List(page, tag, number) == Call("list", [page |-> page, tag |-> tag, number |-> number])

(* hearts are the products shown as saved, bell the notices shown as unread  *)
(* and their number.  sure and removed are for the properties: which of the  *)
(* three is known from calls that did not cross, and which products were     *)
(* taken off on the wishlist page.                                           *)
Start ==
  [user |-> FALSE, page |-> None, tag |-> All, list |-> None, number |-> 1, loading |-> FALSE,
   hearts |-> {}, bell |-> [unread |-> {}, count |-> 0],
   sure |-> {"list", "hearts", "bell"}, removed |-> {}, clicks |-> 0]

Mounted(s, page, sure) ==
  [s EXCEPT !.page = page, !.tag = All, !.list = None, !.number = 1, !.loading = TRUE, !.sure = sure]

(* Who comes with a token is asked for; who comes without is shown the shop. *)
Init ==
  /\ LET rows == {Row(n, TagOf[n], FALSE) : n \in Ids}
     IN \E default \in Ids :
          held = [wish |-> {}, home |-> rows, reviews |-> rows, notes |-> rows,
                  addresses |-> {Row(n, All, n = default) : n \in Ids}]
  /\ \/ screen = Start /\ calls = {Call("me", None)}
     \/ screen = Mounted(Start, "home", Start.sure) /\ calls = {List("home", All, 1)}

(* What a call reads or writes.                                              *)
Topic(c) ==
  CASE c.kind \in {"ids", "heart", "unsave"} -> {"hearts", "list"}
    [] c.kind = "bell" -> {"bell"}
    [] c.kind \in {"read", "readInBell"} -> {"list", "bell"}
    [] c.kind \in {"list", "write"} -> {"list"}
    [] OTHER -> {"list", "hearts", "bell"}

Writes == {"heart", "unsave", "read", "readInBell", "write", "login"}
Cross(c, d) ==
  \/ c.kind \in Writes \/ d.kind \in Writes
  \/ c.kind = "list" /\ d.kind = "list" /\ c.arg # d.arg

Crossed(new, others) ==
  UNION {Topic(x[1]) \cap Topic(x[2]) : x \in {p \in others \X new : Cross(p[1], p[2])}}

Send(s, new, others) ==
  /\ calls' = others \cup new
  /\ Cardinality(calls') <= MaxCalls
  /\ screen' = [s EXCEPT !.sure = @ \ Crossed(new, others)]
  /\ UNCHANGED held

Show(s, c) == screen' = s /\ calls' = calls \ {c} /\ UNCHANGED held

Clicked == [screen EXCEPT !.clicks = @ + 1]

Orphans(cs) == {[c EXCEPT !.live = FALSE] : c \in cs}
Mount(s, page, new, others) ==
  Send(Mounted(s, page, IF others = {} THEN s.sure \cup {"list"} ELSE s.sure),
       new \cup {List(page, All, 1)}, Orphans(others))

-----------------------------------------------------------------------------
(* The clicks.                                                               *)
Open(page) ==
  /\ screen.page \notin {None, page} /\ (screen.user \/ page = "home")
  /\ Mount(Clicked, page, {}, calls)

(* The tabs and chips of a page ask for its first page under the new filter. *)
AsksForShown(tag) == screen.tag   \* mutation: the filter that was chosen before
AsksFor(tag) == tag
PickTag(tag) ==
  /\ screen.page \in {"home", "reviews", "notes"} /\ tag # screen.tag
  /\ Send([Clicked EXCEPT !.tag = tag, !.loading = TRUE], {List(screen.page, AsksFor(tag), 1)}, calls)

TurnPage ==
  /\ screen.page = "home" /\ ~screen.loading /\ screen.list # None
  /\ \E number \in {screen.number - 1, screen.number + 1} :
       /\ number \in 1..Cardinality(Ids)
       /\ Send([Clicked EXCEPT !.loading = TRUE], {List("home", screen.tag, number)}, calls)

(* A heart adds what is not shown as saved, and takes off what is.           *)
ToggleWish ==
  /\ screen.page = "home" /\ screen.user /\ screen.list # None
  /\ \E r \in screen.list :
       Send(Clicked, {Call("heart", [id |-> r.id, on |-> r.id \notin screen.hearts])}, calls)

RemoveSaved ==
  /\ screen.page = "wishlist" /\ screen.list # None
  /\ \E r \in screen.list : Send(Clicked, {Call("unsave", [id |-> r.id, on |-> FALSE])}, calls)

(* One unread notice of the page, or all of them.                            *)
Unread(rows) == {r.id : r \in {x \in rows : ~x.on}}
MarkRead ==
  /\ screen.page = "notes" /\ screen.list # None
  /\ \E ns \in {{n} : n \in Unread(screen.list)} \cup ({Unread(screen.list), Ids} \ {{}}) :
       Send(Clicked, {Call("read", ns)}, calls)

MarkInBell ==
  /\ screen.user
  /\ \E n \in screen.bell.unread : Send(Clicked, {Call("readInBell", {n})}, calls)

(* Deleting a review, making an address the default or deleting it.  What is *)
(* loaded afterwards is what the page was filtered by at the click.          *)
Changes(page) == IF page = "reviews" THEN {"remove"} ELSE {"default", "remove"}
Change ==
  /\ screen.page \in {"reviews", "addresses"} /\ screen.list # None
  /\ \E r \in screen.list, op \in Changes(screen.page) :
       /\ op = "default" => ~r.on
       /\ Send(Clicked, {Call("write", [page |-> screen.page, op |-> op, id |-> r.id, tag |-> screen.tag])}, calls)

(* The sign-in form takes the place of the page; one attempt at a time.      *)
SignIn ==
  /\ ~screen.user /\ screen.page # None
  /\ \A c \in calls : c.kind = "login" => ~c.live
  /\ Send([Clicked EXCEPT !.page = "signin", !.list = None], {Call("login", None)}, Orphans(calls))

(* Everything known of the account is forgotten, its token with it.          *)
SignOut ==
  /\ screen.user /\ screen.page = "reviews"
  /\ Mount([Clicked EXCEPT !.user = FALSE, !.hearts = {}, !.bell = Start.bell], "home", {}, calls)

(* The bell asks every 30 seconds.                                           *)
Poll == screen.user /\ (\A c \in calls : c.kind # "bell") /\ Send(Clicked, {Call("bell", None)}, calls)

-----------------------------------------------------------------------------
(* The server.                                                               *)
Pick(rows, arg) ==
  LET chosen == {r \in rows : arg.tag \in {All, r.tag}}
      Before(r) == Cardinality({x \in chosen : x.id < r.id})
  IN {r \in chosen : Before(r) \div PageSize = arg.number - 1}

Listing(h, arg) ==
  CASE arg.page = "home" -> Pick(h.home, arg)
    [] arg.page = "wishlist" -> {r \in h.home : r.id \in h.wish}
    [] arg.page = "reviews" -> {r \in h.reviews : arg.tag \in {All, r.tag}}
    [] arg.page = "notes" -> h.notes     \* the filter is not among its parameters
    [] OTHER -> h.addresses

MarkedRead(rows, ns) == {IF r.id \in ns THEN [r EXCEPT !.on = TRUE] ELSE r : r \in rows}

Changed(h, w) ==
  CASE w.page = "reviews" -> {[h EXCEPT !.reviews = {r \in @ : r.id # w.id}]}
    [] w.op = "default" -> {[h EXCEPT !.addresses = {[r EXCEPT !.on = r.id = w.id] : r \in @}]}
    [] OTHER ->
         LET left == {r \in h.addresses : r.id # w.id}
         IN IF left = {} \/ \E r \in left : r.on THEN {[h EXCEPT !.addresses = left]}
            ELSE {[h EXCEPT !.addresses = {[r EXCEPT !.on = r.id = heir.id] : r \in left}] : heir \in left}

Present(h, w) == \E r \in (IF w.page = "reviews" THEN h.reviews ELSE h.addresses) : r.id = w.id

(* What is left, and what is answered.                                       *)
Served(c, h) ==
  CASE c.kind \in {"heart", "unsave"} ->
         {[h EXCEPT !.wish = IF c.arg.on THEN @ \cup {c.arg.id} ELSE @ \ {c.arg.id}]}
    [] c.kind \in {"read", "readInBell"} -> {[h EXCEPT !.notes = MarkedRead(@, c.arg)]}
    [] c.kind = "write" -> IF Present(h, c.arg) THEN Changed(h, c.arg) ELSE {h}
    [] OTHER -> {h}

Reply(c, h) ==
  CASE c.kind = "list" -> Listing(h, c.arg)
    [] c.kind = "ids" -> h.wish
    [] c.kind = "bell" -> Unread(h.notes)
    [] c.kind = "write" /\ ~Present(h, c.arg) -> Refused
    [] OTHER -> TRUE

Serve(c) ==
  /\ c.reply = None
  /\ \E h \in Served(c, held) :
       /\ held' = h
       /\ calls' = (calls \ {c}) \cup {[c EXCEPT !.reply = Reply(c, held)]}
  /\ UNCHANGED screen

-----------------------------------------------------------------------------
(* The answers.                                                              *)
Received(c) == c \in calls /\ c.reply \notin {None, Refused}
Pageless(s, c) == IF c.live THEN s ELSE screen

(* A stored token that is good: the shop opens with the hearts of its user.  *)
AnswerMe(c) ==
  /\ Received(c) /\ c.kind = "me"
  /\ Mount([screen EXCEPT !.user = TRUE], "home", {Call("ids", "start"), Call("bell", None)}, calls \ {c})

(* The form gives way to the account's page, unless it was left before.      *)
AnswerLogin(c) ==
  /\ Received(c) /\ c.kind = "login"
  /\ LET s == [screen EXCEPT !.user = TRUE]
         new == {Call("ids", "login")} \cup (IF screen.user THEN {} ELSE {Call("bell", None)})
     IN IF c.live THEN Mount(s, "reviews", new, calls \ {c}) ELSE Send(s, new, calls \ {c})

(* After a sign-in the shop opens, whatever is on the screen by then.        *)
AnswerIds(c) ==
  /\ Received(c) /\ c.kind = "ids"
  /\ LET s == [screen EXCEPT !.hearts = c.reply]
     IN IF c.arg = "login" /\ screen.page # "home" THEN Mount(s, "home", {}, calls \ {c}) ELSE Show(s, c)

AnswerList(c) ==
  /\ Received(c) /\ c.kind = "list"
  /\ Show(Pageless([screen EXCEPT !.list = c.reply, !.number = c.arg.number, !.loading = FALSE], c), c)

(* The hearts follow the answer to their click, on whatever page it finds.   *)
AnswerHeart(c) ==
  /\ Received(c) /\ c.kind = "heart"
  /\ Show([screen EXCEPT !.hearts = IF c.arg.on THEN @ \cup {c.arg.id} ELSE @ \ {c.arg.id}], c)

AnswerUnsave(c) ==
  /\ Received(c) /\ c.kind = "unsave"
  /\ LET s == [screen EXCEPT !.removed = @ \cup {c.arg.id}]
     IN Show(IF c.live THEN [s EXCEPT !.list = {r \in @ : r.id # c.arg.id}] ELSE s, c)

AnswerRead(c) ==
  /\ Received(c) /\ c.kind = "read"
  /\ Show(Pageless([screen EXCEPT !.list = MarkedRead(@, c.arg)], c), c)

AnswerInBell(c) ==
  /\ Received(c) /\ c.kind = "readInBell"
  /\ Show([screen EXCEPT !.bell = [unread |-> @.unread \ c.arg, count |-> IF @.count = 0 THEN 0 ELSE @.count - 1],
                         !.sure = @ \ {"list"}], c)

AnswerBell(c) ==
  /\ Received(c) /\ c.kind = "bell"
  /\ Show([screen EXCEPT !.bell = [unread |-> c.reply, count |-> Cardinality(c.reply)]], c)

AnswerChange(c) ==
  /\ Received(c) /\ c.kind = "write"
  /\ IF c.live THEN Send([screen EXCEPT !.loading = TRUE], {List(c.arg.page, c.arg.tag, 1)}, calls \ {c})
     ELSE Show(screen, c)

Refuse(c) == c \in calls /\ c.reply = Refused /\ Show([screen EXCEPT !.sure = @ \ {"list"}], c)

(* A call or its answer is lost.  Of a token that could not be looked up the *)
(* application takes leave, for whatever reason.                             *)
Lose(c) ==
  /\ c \in calls
  /\ LET s == [Pageless([screen EXCEPT !.loading = @ /\ c.kind # "list"], c) EXCEPT !.sure = @ \ Topic(c)]
     IN CASE c.kind = "me" -> Mount(Start, "home", {}, {})
          [] c.kind = "ids" /\ c.arg = "login" /\ screen.page # "home" -> Mount(s, "home", {}, calls \ {c})
          [] OTHER -> Show(s, c)

Next ==
  \/ /\ screen.clicks < MaxClicks
     /\ \/ \E page \in Pages : Open(page)
        \/ \E tag \in Tags \cup {All} : PickTag(tag)
        \/ TurnPage \/ ToggleWish \/ RemoveSaved \/ MarkRead \/ MarkInBell \/ Change \/ SignIn \/ SignOut \/ Poll
  \/ \E c \in calls :
       \/ Serve(c) \/ AnswerMe(c) \/ AnswerLogin(c) \/ AnswerIds(c) \/ AnswerList(c) \/ AnswerHeart(c)
       \/ AnswerUnsave(c) \/ AnswerRead(c) \/ AnswerInBell(c) \/ AnswerBell(c) \/ AnswerChange(c)
       \/ Refuse(c) \/ Lose(c)

Spec == Init /\ [][Next]_vars

-----------------------------------------------------------------------------
(* Once no call is under way, the page lists the server's rows under the     *)
(* filter that is chosen, the hearts are what is saved except what the       *)
(* wishlist page took off, and the bell counts no fewer notices than there   *)
(* are unread, unless calls about them crossed or one was lost.              *)
ShowsTheShop ==
  calls = {} =>
    /\ "list" \in screen.sure /\ screen.page # "signin" =>
         screen.list = Listing(held, [page |-> screen.page, tag |-> screen.tag, number |-> screen.number])
    /\ "hearts" \in screen.sure /\ screen.user => screen.hearts \ screen.removed = held.wish \ screen.removed
    /\ "bell" \in screen.sure /\ screen.user => screen.bell.count >= Cardinality(Unread(held.notes))

(* Not kept by the code.                                                     *)
HeartsAreSaved == calls = {} /\ "hearts" \in screen.sure /\ screen.user => screen.hearts = held.wish
TabIsOfItsCategory ==
  calls = {} /\ "list" \in screen.sure /\ screen.page = "notes" => \A r \in screen.list : screen.tag \in {All, r.tag}
KeepsItsToken == screen'.page = "home" /\ screen.page = None => screen'.user
=============================================================================
