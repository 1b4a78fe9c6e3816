---------------------------- MODULE AuthSessions ----------------------------
(***************************************************************************)
(* The refresh sessions of one user: AuthService opens one at login,       *)
(* replaces it at every refresh and closes it at logout; a replaced token  *)
(* that comes back closes all of them, and so do the user and the staff.   *)
(*                                                                         *)
(* A refresh reads the session, closes it by id and opens the next in two  *)
(* writes of their own.  A client that did not get an answer may present   *)
(* the same token again.                                                   *)
(***************************************************************************)
EXTENDS Naturals, FiniteSets

CONSTANTS
  MaxSessions,   \* user_sessions rows that are ever written
  Calls,         \* calls at the same time
  None           \* no session, no call

Rows == 1 .. MaxSessions

VARIABLES
  open,      \* user_sessions.revokedAt is not set (None: not written)
  expired,   \* user_sessions.expiresAt is over
  login,     \* the first session of the row's chain of refreshes
  opened,    \* rows written so far
  caught,    \* logins whose token came back after it was replaced
  req,       \* the calls: what they do next, to which session
  raced      \* a refresh went on although its session had been closed since it read it

rowVars == <<open, expired, login, opened, caught>>
vars == <<rowVars, req, raced>>

Idle == [op |-> "idle", row |-> None]

Init ==
  /\ open = [n \in Rows |-> None]
  /\ expired = {}
  /\ login = [n \in Rows |-> None]
  /\ opened = 0
  /\ caught = {}
  /\ req = [c \in Calls |-> Idle]
  /\ raced = FALSE

Opened == 1 .. opened
Live == {n \in Opened : open[n] = TRUE}

To(c, op, n) == req' = [req EXCEPT ![c] = [op |-> op, row |-> n]]
End(c) == req' = [req EXCEPT ![c] = Idle]
Close(S) == open' = [n \in Rows |-> IF n \in S THEN FALSE ELSE open[n]]

Drop(c) == req[c] # Idle /\ End(c) /\ UNCHANGED <<rowVars, raced>>

Expire == \E n \in Live \ expired : expired' = expired \cup {n} /\ UNCHANGED <<open, login, opened, caught, req, raced>>

-----------------------------------------------------------------------------
(* register, login, and the second write of issueTokens                      *)

Open(c, of) ==
  /\ opened < MaxSessions
  /\ opened' = opened + 1
  /\ open' = [open EXCEPT ![opened'] = TRUE]
  /\ login' = [login EXCEPT ![opened'] = IF of = None THEN opened' ELSE login[of]]
  /\ UNCHANGED <<expired, caught>>

Login(c) == req[c] = Idle /\ Open(c, None) /\ UNCHANGED <<req, raced>>

-----------------------------------------------------------------------------
(* refresh *)

ReadSession(c) ==
  /\ req[c] = Idle
  /\ \E n \in Opened :
       To(c, IF n \notin Live THEN "reuse" ELSE IF n \in expired THEN "expired" ELSE "rotate", n)
  /\ UNCHANGED <<rowVars, raced>>

AllOf(n) == Live

CloseAll(c) ==
  /\ req[c].op = "reuse"
  /\ Close(AllOf(req[c].row))
  /\ caught' = caught \cup {login[n] : n \in Opened}
  /\ End(c)
  /\ UNCHANGED <<expired, login, opened, raced>>

CloseExpired(c) ==
  /\ req[c].op = "expired"
  /\ Close({req[c].row})
  /\ End(c)
  /\ UNCHANGED <<expired, login, opened, caught, raced>>

NotReplaced(n) == {}   \* mutation: the old session stays
Replaced(n) == {n}

Rotate(c) ==
  /\ req[c].op = "rotate"
  /\ Close(Replaced(req[c].row))
  /\ raced' = (raced \/ open[req[c].row] # TRUE)
  /\ To(c, "open", req[c].row)
  /\ UNCHANGED <<expired, login, opened, caught>>

OpenNext(c) ==
  /\ req[c].op = "open"
  /\ Open(c, req[c].row)
  /\ raced' = (raced \/ login[req[c].row] \in caught)
  /\ End(c)

-----------------------------------------------------------------------------
(* logout, revokeAllSessions, and the staff's revokeSession and              *)
(* revokeAllUserSessions: single writes of the sessions that are open.       *)

Logout == \E n \in Live : Close({n}) /\ UNCHANGED <<expired, login, opened, caught, req, raced>>
RevokeAll == Live # {} /\ Close(Live) /\ UNCHANGED <<expired, login, opened, caught, req, raced>>

-----------------------------------------------------------------------------
Call(c) ==
  \/ Login(c)
  \/ ReadSession(c) \/ CloseAll(c) \/ CloseExpired(c) \/ Rotate(c) \/ OpenNext(c)
  \/ Drop(c)

Next == Expire \/ Logout \/ RevokeAll \/ \E c \in Calls : Call(c)

Spec == Init /\ [][Next]_vars

-----------------------------------------------------------------------------
(* The sessions and the calls about them are well formed.                    *)
TypeOK ==
  /\ opened \in 0 .. MaxSessions
  /\ \A n \in Rows : IF n \in Opened THEN open[n] \in BOOLEAN /\ login[n] \in 1 .. n
                                     ELSE open[n] = None /\ login[n] = None
  /\ expired \subseteq Opened
  /\ caught \subseteq {login[n] : n \in Opened}
  /\ \A c \in Calls :
       /\ req[c].op \in {"idle", "reuse", "expired", "rotate", "open"}
       /\ req[c].op = "idle" <=> req[c].row = None
  /\ raced \in BOOLEAN

(* A login has one open session at a time through all its refreshes, their   *)
(* retries and the deaths of calls between the two writes, and none once a   *)
(* replaced token of that time has come back, as long as no refresh goes on  *)
(* with a session that was closed since it was read.                         *)
OneSessionPerLogin ==
  ~raced =>
    /\ \A m, n \in Live : login[m] = login[n] => m = n
    /\ \A n \in Live : login[n] \notin caught
=============================================================================
