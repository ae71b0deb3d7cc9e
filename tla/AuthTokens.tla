----------------------------- MODULE AuthTokens -----------------------------
(***************************************************************************)
(* Accounts, logins and refresh tokens (services/auth.py, services/user.py,*)
(* dependencies/auth.py, core/permissions.py).  A refresh token counts     *)
(* while its jti has a key in Redis; refresh checks the key, loads the     *)
(* account, deletes the key and writes a new one, four separate calls with *)
(* other requests between them.  An access token is only a signed claim:   *)
(* every request that carries one loads the account again.                 *)
(*                                                                         *)
(* Nothing ties a client to one call at a time.  Whoever has a token may   *)
(* send it again while an earlier call that carries it is still served,    *)
(* because it gave up waiting or has two windows open.  An answer that is  *)
(* lost on its way is a token that nobody sends.                           *)
(***************************************************************************)
EXTENDS Naturals, FiniteSets

CONSTANTS
  None,          \* no account, no token, no call yet
  Users,         \* account ids
  Roles,         \* the roles accounts have in this instance
  Permissions,   \* the permissions routes require in this instance
  CallCount,     \* bound: how many calls are made
  MaxChange      \* bound: how often an administrator edits an account

\* Calls are numbered in the order they arrive, and a refresh token's jti is
\* the number of the call it was issued to.
Calls == 1..CallCount

VARIABLES
  users,      \* the account rows, None when deleted
  keys,       \* the whitelist: the jtis that have a key in Redis
  expired,    \* the refresh tokens whose exp has passed
  call,       \* what each call asks for and carries, None before it arrives
  pc,         \* the next step of its handler, or its answer
  loaded,     \* the account row that handler holds
  beside,     \* history: the calls in progress when each call arrived
  during,     \* history: the account rows there were while it was served
  changes     \* how many edits were made

vars == <<users, keys, expired, call, pc, loaded, beside, during, changes>>

Row == [active : BOOLEAN, role : Roles, password : {"old", "new"}]

----------------------------------------------------------------------------
(* Permissions of a role. *)

OperatorPermissions ==
  {"supplier:read", "product:read", "movement:read", "movement:create",
   "alert:read", "alert:acknowledge"}

ManagerPermissions ==
  OperatorPermissions \cup
  {"supplier:write", "product:write", "alert:resolve", "dashboard:read", "report:read"}

AdminPermissions == ManagerPermissions \cup {"user:manage"}

ASSUME AuthAssumption ==
  /\ CallCount \in Nat /\ MaxChange \in Nat
  /\ Roles \subseteq {"admin", "manager", "operator"}
  /\ Permissions \subseteq AdminPermissions
  /\ None \notin Nat \cup Roles /\ None \notin Row /\ None \notin {"old", "new"}
  /\ None \notin [password : {"old", "new", None},
                  asks : {"login", "refresh", "logout"} \cup Permissions, user : Users,
                  token : Nat \cup {None}, login : Nat]

PermissionsFor(role) ==
  CASE role = "operator" -> OperatorPermissions
    [] role = "manager"  -> ManagerPermissions
    [] role = "admin"    -> AdminPermissions

HasPermissions(role, required) == required \subseteq PermissionsFor(role)

----------------------------------------------------------------------------
(* Calls. *)

\* What a call asks for; the account its password or its token names; the
\* token; and, history, the login call that token descends from.
Call ==
  [password : {"old", "new", None},
   asks : {"login", "refresh", "logout"} \cup Permissions, user : Users,
   token : Calls \cup {None}, login : Calls]

\* "lost" ends a call that was granted a token pair and does not hand it
\* over; "error" is any other 500 or death of the process.
Answers == {"ok", "unauthorized", "forbidden", "error", "lost"}

Running(r) == pc[r] # "idle" /\ pc[r] \notin Answers

Goto(r, step) == pc' = [pc EXCEPT ![r] = step]

\* The row that matters to call r.
RowOf(r) == users[call[r].user]

Arrive(r, c, step) ==
  /\ pc[r] = "idle"
  /\ \A s \in Calls : s < r => pc[s] # "idle"
  /\ call' = [call EXCEPT ![r] = c]
  /\ beside' = [beside EXCEPT ![r] = {s \in Calls : Running(s)}]
  /\ during' = [during EXCEPT ![r] = {users[c.user]}]
  /\ Goto(r, step)
  /\ UNCHANGED <<users, keys, expired, loaded, changes>>

\* The token decodes: decode_token, whose only moving part is exp.
Decodes(t) == t \notin expired

\* A call that has been issued a token pair, and one whose client has it.
Issued(t) == call[t] # None /\ (call[t].asks \in {"login", "refresh"} /\ pc[t] \in {"ok", "lost"})

Received(t) == Issued(t) /\ pc[t] = "ok"

Carrying(t, what) ==
  [password |-> None, asks |-> what, user |-> call[t].user, token |-> t, login |-> call[t].login]

AskLogin(r, u, password) ==
  Arrive(r, [password |-> password, asks |-> "login", user |-> u, token |-> None, login |-> r],
         "authenticate")

\* refresh decodes the token first.
AskRefresh(r, t) ==
  /\ Received(t)
  /\ Arrive(r, Carrying(t, "refresh"), IF Decodes(t) THEN "exists" ELSE "unauthorized")

\* So does logout, for which a token that does not decode is no error.
AskLogout(r, t) ==
  /\ Received(t)
  /\ Arrive(r, Carrying(t, "logout"), IF Decodes(t) THEN "revoke" ELSE "ok")

AskUse(r, t, permission) ==
  /\ Received(t)
  /\ Arrive(r, Carrying(t, permission), "authorize")

----------------------------------------------------------------------------
(* Handlers. *)

\* Fault: is_active is not looked at.
Exists(row) == row # None

Live(row) == row # None /\ row.active

\* authenticate: one SELECT by e-mail, the password, is_active.
Authenticate(r) ==
  /\ pc[r] = "authenticate"
  /\ Goto(r, IF Live(RowOf(r)) /\ RowOf(r).password = call[r].password
             THEN "issue" ELSE "unauthorized")
  /\ loaded' = [loaded EXCEPT ![r] = RowOf(r)]
  /\ UNCHANGED <<users, keys, expired, call, beside, during, changes>>

\* refresh, to the lookup of the key.
CheckKey(r) ==
  /\ pc[r] = "exists"
  /\ Goto(r, IF call[r].token \in keys THEN "load" ELSE "unauthorized")
  /\ UNCHANGED <<users, keys, expired, call, loaded, beside, during, changes>>

LoadUser(r) ==
  /\ pc[r] = "load"
  /\ Goto(r, IF Live(RowOf(r)) THEN "rotate" ELSE "unauthorized")
  /\ loaded' = [loaded EXCEPT ![r] = RowOf(r)]
  /\ UNCHANGED <<users, keys, expired, call, beside, during, changes>>

\* Fault: the old key stays.
RotateKeepsKey(r) ==
  /\ pc[r] = "rotate"
  /\ Goto(r, "issue")
  /\ UNCHANGED <<users, keys, expired, call, loaded, beside, during, changes>>

\* The old key goes; that it may be gone already is not looked at.
Rotate(r) ==
  /\ pc[r] = "rotate"
  /\ keys' = keys \ {call[r].token}
  /\ Goto(r, "issue")
  /\ UNCHANGED <<users, expired, call, loaded, beside, during, changes>>

\* Fault: one jti for all.
SameJti(r) == 1

\* uuid4: a jti nobody has.
FreshJti(r) == r

\* _issue_token_pair: a fresh jti gets its key, and the answer may get lost.
IssueTokenPair(r) ==
  /\ pc[r] = "issue"
  /\ keys' = keys \cup {FreshJti(r)}
  /\ \E answer \in {"ok", "lost"} : Goto(r, answer)
  /\ UNCHANGED <<users, expired, call, loaded, beside, during, changes>>

\* Fault: the logout only answers.
RevokeNothing(r) ==
  /\ pc[r] = "revoke"
  /\ Goto(r, "ok")
  /\ UNCHANGED <<users, keys, expired, call, loaded, beside, during, changes>>

Revoke(r) ==
  /\ pc[r] = "revoke"
  /\ keys' = keys \ {call[r].token}
  /\ Goto(r, "ok")
  /\ UNCHANGED <<users, expired, call, loaded, beside, during, changes>>

\* Fault: the role is taken from the access token.
AuthorizeByClaim(r) ==
  /\ pc[r] = "authorize"
  /\ Live(RowOf(r))
  /\ Goto(r, IF HasPermissions(loaded[call[r].token].role, {call[r].asks})
             THEN "ok" ELSE "forbidden")
  /\ UNCHANGED <<users, keys, expired, call, loaded, beside, during, changes>>

\* get_current_active_user and require_permission.  An access token that
\* has expired is refused whatever the account.
Authorize(r) ==
  /\ pc[r] = "authorize"
  /\ \/ Goto(r, "unauthorized")
     \/ /\ Live(RowOf(r))
        /\ Goto(r, IF HasPermissions(RowOf(r).role, {call[r].asks}) THEN "ok" ELSE "forbidden")
  /\ UNCHANGED <<users, keys, expired, call, loaded, beside, during, changes>>

\* The process dies in the middle, or Redis or PostgreSQL fails the call.
Crash(r) ==
  /\ Running(r)
  /\ Goto(r, IF pc[r] = "issue" THEN "lost" ELSE "error")
  /\ UNCHANGED <<users, keys, expired, call, loaded, beside, during, changes>>

----------------------------------------------------------------------------
(* Around them. *)

\* UserService.update and delete: any of role, is_active and password, or
\* the row itself.  No key in Redis is touched.
EditUser(u, row) ==
  /\ changes < MaxChange
  /\ users[u] # None
  /\ row # users[u]
  /\ users' = [users EXCEPT ![u] = row]
  /\ changes' = changes + 1
  /\ during' = [r \in Calls |->
                  IF Running(r) /\ call[r].user = u THEN during[r] \cup {row} ELSE during[r]]
  /\ UNCHANGED <<keys, expired, call, pc, loaded, beside>>

\* exp passes first, the key's TTL, counted from a later moment, after it.
ExpireToken(t) ==
  /\ Issued(t)
  /\ t \notin expired
  /\ expired' = expired \cup {t}
  /\ UNCHANGED <<users, keys, call, pc, loaded, beside, during, changes>>

ExpireKey(t) ==
  /\ t \in keys \cap expired
  /\ keys' = keys \ {t}
  /\ UNCHANGED <<users, expired, call, pc, loaded, beside, during, changes>>

Init ==
  /\ \E role \in Roles :
       users = [u \in Users |-> [active |-> TRUE, role |-> role, password |-> "old"]]
  /\ keys = {}
  /\ expired = {}
  /\ call = [r \in Calls |-> None]
  /\ pc = [r \in Calls |-> "idle"]
  /\ loaded = [r \in Calls |-> None]
  /\ beside = [r \in Calls |-> {}]
  /\ during = [r \in Calls |-> {}]
  /\ changes = 0

Ask(r) ==
  \/ \E u \in Users, password \in {"old", "new"} : AskLogin(r, u, password)
  \/ \E t \in Calls :
       \/ AskRefresh(r, t)
       \/ AskLogout(r, t)
       \/ \E permission \in Permissions : AskUse(r, t, permission)

Serve(r) ==
  \/ Authenticate(r) \/ CheckKey(r) \/ LoadUser(r) \/ Rotate(r) \/ IssueTokenPair(r)
  \/ Revoke(r) \/ Authorize(r)

\* Every call has its answer and the instance is over.
Finished == (\A r \in Calls : pc[r] \in Answers) /\ UNCHANGED vars

Next ==
  \/ \E r \in Calls : Ask(r) \/ Serve(r) \/ Crash(r)
  \/ \E u \in Users, row \in Row \cup {None} : EditUser(u, row)
  \/ \E t \in Calls : ExpireToken(t) \/ ExpireKey(t)
  \/ Finished

Spec == Init /\ [][Next]_vars

----------------------------------------------------------------------------
(* Properties. *)

\* The shape of every variable; only jtis that were issued have a key or an
\* exp that passed.  Code: the User model, the refresh keys.
AuthTypeOK ==
  /\ users \in [Users -> Row \cup {None}]
  /\ call \in [Calls -> Call \cup {None}]
  /\ pc \in [Calls -> {"idle", "authenticate", "exists", "load", "rotate", "issue", "revoke",
                       "authorize"} \cup Answers]
  /\ \A r \in Calls : pc[r] # "idle" <=> call[r] # None
  /\ \A t \in keys \cup expired : t \in Calls /\ Issued(t)
  /\ loaded \in [Calls -> Row \cup {None}]
  /\ beside \in [Calls -> SUBSET Calls]
  /\ during \in [Calls -> SUBSET (Row \cup {None})]

\* Call r was granted a token pair: for its password, or for token t, whose
\* key it deleted.
Granted(r) ==
  call[r] # None /\ (call[r].asks \in {"login", "refresh"} /\ pc[r] \in {"issue", "ok", "lost"})

Rotated(r, t) == Granted(r) /\ call[r].token = t

\* The refresh tokens of login l that would be accepted now.
Usable(l) == {t \in keys \ expired : call[t].login = l}

\* Two calls have rotated one token of login l, the later of which arrived
\* while the earlier was being served.
Forked(l) ==
  \E t \in Calls, q, r \in Calls :
    q \in beside[r] /\ Rotated(q, t) /\ Rotated(r, t) /\ call[t].login = l

\* A login has at most one usable refresh token, whatever answer is lost or
\* process dies, unless one of its tokens was sent twice at once: two
\* refreshes that overlap can both find the key, and then both issue.  One
\* sent again after the first was answered issues nothing.  Code: the
\* exists, delete and set of refresh.
OnlyOverlapForks ==
  \A s, t \in keys \ expired : call[s].login = call[t].login => s = t \/ Forked(call[t].login)

\* After a logout the login has no usable refresh token, unless its tokens
\* had forked or the token logged out with was not the last: a refresh that
\* did not wait for the logout's answer has rotated it.  Nothing sent after
\* the answer can.  Code: logout, and the key that refresh looks up.
LogoutEndsLogin ==
  \A q \in Calls : call[q] # None =>
    (call[q].asks = "logout" /\ pc[q] = "ok" =>
       \/ Usable(call[q].login) = {}
       \/ Forked(call[q].login)
       \/ \E r \in Calls : Rotated(r, call[q].token) /\ (r < q \/ q \in beside[r]))

\* A token pair goes only to an account that was active while the call was
\* served, and a login only with the password it then had: deactivating an
\* account ends its refreshes although their keys stay.  Code: authenticate
\* and refresh.
TokensForLiveAccounts ==
  \A r \in Calls : Granted(r) =>
    \E row \in during[r] :
      /\ row # None /\ row.active
      /\ (call[r].asks = "login" => row.password = call[r].password)

\* A protected route serves a call only if the account's role, as it was
\* while the call was served, has the permission, whatever role the access
\* token was issued with.  Code: get_current_user and require_permission.
ServedByCurrentRole ==
  \A r \in Calls : call[r] # None =>
    (pc[r] = "ok" /\ call[r].asks \in Permissions =>
       \E row \in during[r] :
         row # None /\ row.active /\ call[r].asks \in PermissionsFor(row.role))

----------------------------------------------------------------------------
(* The invariant the proofs rest on. *)

Spent(t) == \E r \in Calls : Rotated(r, t)

Overlap(q, r) == q \in beside[r] \/ r \in beside[q]

\* What a call carries was issued, and its handler is one for what it asks.
CallSound(r) ==
  call[r] # None =>
    /\ call[r].asks = "login" => call[r].token = None /\ call[r].login = r
    /\ call[r].asks # "login" => /\ call[r].token \in Calls /\ Issued(call[r].token)
                                /\ call[r].login = call[call[r].token].login
                                /\ Issued(call[r].login)
    /\ pc[r] = "authenticate" => call[r].asks = "login"
    /\ pc[r] \in {"exists", "load", "rotate"} => call[r].asks = "refresh"
    /\ pc[r] = "issue" => call[r].asks \in {"login", "refresh"}
    /\ pc[r] = "revoke" => call[r].asks = "logout"
    /\ pc[r] = "authorize" => call[r].asks \in Permissions

\* Calls arrive in order, and each knows the ones it found in progress.
ArrivalSound ==
  \A q, r \in Calls : pc[r] # "idle" /\ q < r =>
    pc[q] # "idle" /\ (Running(q) => q \in beside[r])

\* A rotated token has no key, and a login's tokens that nobody rotated are
\* one, or the login has forked.
KeysSound == \A t \in keys : ~Spent(t)

ForkSound ==
  \A s, t \in Calls :
    Granted(s) /\ Granted(t) /\ ~Spent(s) /\ ~Spent(t) /\ call[s].login = call[t].login =>
      s = t \/ Forked(call[s].login)

\* Two calls past the lookup of one token's key, one of which has rotated
\* it, were in progress together.
RaceSound ==
  \A q, r \in Calls :
    Granted(q) /\ q # r /\ call[r] # None /\ call[q].token = call[r].token
        /\ call[q].asks = "refresh" /\ call[r].asks = "refresh"
        /\ pc[r] \in {"load", "rotate", "issue", "ok", "lost"} => Overlap(q, r)

\* A token logged out with stays useless, to a refresh that arrives after.
LogoutSound ==
  \A q \in Calls : call[q] # None /\ (call[q].asks = "logout" /\ pc[q] = "ok") =>
    /\ call[q].token \in keys => call[q].token \in expired
    /\ \A r \in Calls : pc[r] # "idle" /\ q < r /\ q \notin beside[r] =>
         (call[r].asks = "refresh" /\ call[r].token = call[q].token =>
            /\ pc[r] \in {"exists", "unauthorized", "error"}
            /\ pc[r] = "exists" => call[q].token \notin keys)

\* The row a call was granted something for was there while it was served.
HistorySound(r) ==
  call[r] # None =>
    /\ Running(r) => RowOf(r) \in during[r]
    /\ pc[r] = "rotate" => \E row \in during[r] : Live(row)
    /\ Granted(r) => \E row \in during[r] :
         Live(row) /\ (call[r].asks = "login" => row.password = call[r].password)
    /\ pc[r] = "ok" /\ call[r].asks \in Permissions => \E row \in during[r] :
         Live(row) /\ call[r].asks \in PermissionsFor(row.role)

AuthInv ==
  /\ AuthTypeOK
  /\ \A r \in Calls : CallSound(r) /\ HistorySound(r)
  /\ ArrivalSound /\ KeysSound /\ ForkSound /\ RaceSound /\ LogoutSound
=============================================================================
