-------------------------- MODULE AuthTokensProofs --------------------------
(***************************************************************************)
(* Proofs about AuthTokens for any number of accounts, calls and edits: a  *)
(* login has more than one usable refresh token only after two refreshes   *)
(* of one token overlapped, a logout leaves it none unless an overlapping  *)
(* refresh got ahead, and tokens and permissions come from an account row  *)
(* that was there while the call was served.  All from the inductive       *)
(* invariant AuthInv.                                                      *)
(***************************************************************************)
EXTENDS AuthTokens, TLAPS

Steps ==
  {"idle", "authenticate", "exists", "load", "rotate", "issue", "revoke", "authorize"}
    \cup Answers

\* What was granted stays granted, to the same call.
Kept ==
  \A t \in Calls : Granted(t) => /\ Granted(t)' /\ call'[t] = call[t]
                                 /\ beside'[t] = beside[t]

----------------------------------------------------------------------------
(* Facts of one state. *)

LEMMA CallFacts ==
  ASSUME AuthTypeOK, NEW r \in Calls, call[r] # None
  PROVE  /\ call[r] \in Call /\ call[r].user \in Users /\ RowOf(r) \in Row \cup {None}
         /\ call[r].asks \in {"login", "refresh", "logout"} \cup Permissions
         /\ call[r].token \in Calls \cup {None} /\ call[r].login \in Calls
         /\ call[r].password \in {"old", "new", None}
BY DEF AuthTypeOK, Call, RowOf

\* What a route asks for is none of the three calls about tokens.
LEMMA PermissionNames ==
  "login" \notin Permissions /\ "refresh" \notin Permissions /\ "logout" \notin Permissions
BY AuthAssumption DEF AdminPermissions, ManagerPermissions, OperatorPermissions

LEMMA IssuedGranted ==
  ASSUME NEW t, Issued(t)
  PROVE  Granted(t) /\ ~Running(t) /\ pc[t] # "idle" /\ call[t] # None
BY DEF Issued, Granted, Running, Answers

\* A rotated token had been issued.
LEMMA RotatedIssued ==
  ASSUME AuthInv, NEW q \in Calls, NEW t \in Calls, Rotated(q, t)
  PROVE  Issued(t) /\ call[q].asks = "refresh"
<1>1. call[q] # None /\ call[q].token = t /\ call[q].asks \in {"login", "refresh"}
  BY DEF Rotated, Granted
<1>2. t # None
  BY AuthAssumption DEF Calls
<1> QED
  BY <1>1, <1>2 DEF AuthInv, CallSound

\* Two calls of which one was in progress when the other arrived.
LEMMA BothRunning ==
  ASSUME AuthInv, NEW q \in Calls, NEW r \in Calls, q # r, Running(q), Running(r)
  PROVE  Overlap(q, r)
<1>1. q \in Nat /\ r \in Nat
  BY AuthAssumption DEF Calls
<1>2. q < r \/ r < q
  BY <1>1
<1> QED
  BY <1>2 DEF AuthInv, ArrivalSound, Running, Overlap

LEMMA ForkedKept ==
  ASSUME AuthInv, Kept, NEW l, Forked(l)
  PROVE  Forked(l)'
<1>1. PICK t \in Calls, q \in Calls, r \in Calls :
        q \in beside[r] /\ Rotated(q, t) /\ Rotated(r, t) /\ call[t].login = l
  BY DEF Forked
<1>2. Granted(t) /\ Granted(q) /\ Granted(r) /\ call[q].token = t /\ call[r].token = t
  BY <1>1, RotatedIssued, IssuedGranted DEF Rotated
<1>3. /\ Granted(q)' /\ Granted(r)' /\ call'[q] = call[q] /\ call'[r] = call[r]
      /\ call'[t] = call[t] /\ beside'[r] = beside[r]
  BY <1>2 DEF Kept
<1>4. Rotated(q, t)' /\ Rotated(r, t)' /\ q \in beside'[r] /\ call'[t].login = l
  BY <1>1, <1>2, <1>3 DEF Rotated
<1> QED
  BY <1>4 DEF Forked

\* Two calls that overlapped and rotated one token of a login fork it.
LEMMA OverlapForks ==
  ASSUME NEW q \in Calls, NEW r \in Calls, NEW t \in Calls,
         Overlap(q, r), Rotated(q, t), Rotated(r, t)
  PROVE  Forked(call[t].login)
BY DEF Overlap, Forked

----------------------------------------------------------------------------
(* A call arrives. *)

\* A call and the step it starts with, as the four Ask actions have them.
Fits(r, c, step) ==
  /\ c.asks = "login" => c.token = None /\ c.login = r /\ step = "authenticate"
  /\ c.asks # "login" => /\ c.token \in Calls /\ Issued(c.token)
                         /\ c.login = call[c.token].login
  /\ c.asks = "refresh" => step = IF c.token \in expired THEN "unauthorized" ELSE "exists"
  /\ c.asks = "logout" => step = "revoke" \/ (step = "ok" /\ c.token \in expired)
  /\ c.asks \in Permissions => step = "authorize"

LEMMA ArriveStep ==
  ASSUME AuthInv, NEW r \in Calls, NEW c \in Call, NEW step, Arrive(r, c, step),
         Fits(r, c, step)
  PROVE  AuthInv'
<1>1. /\ pc[r] = "idle" /\ (\A s \in Calls : s < r => pc[s] # "idle")
      /\ call' = [call EXCEPT ![r] = c] /\ pc' = [pc EXCEPT ![r] = step]
      /\ beside' = [beside EXCEPT ![r] = {s \in Calls : Running(s)}]
      /\ during' = [during EXCEPT ![r] = {users[c.user]}]
      /\ UNCHANGED <<users, keys, expired, loaded>>
  BY DEF Arrive, Goto
<1>2. /\ AuthTypeOK /\ call \in [Calls -> Call \cup {None}] /\ pc \in [Calls -> Steps]
      /\ beside \in [Calls -> SUBSET Calls] /\ during \in [Calls -> SUBSET (Row \cup {None})]
  BY DEF AuthInv, AuthTypeOK, Steps
<1>3. /\ call'[r] = c /\ pc'[r] = step /\ during'[r] = {users[c.user]}
      /\ beside'[r] = {s \in Calls : Running(s)}
      /\ \A s \in Calls : s # r => /\ call'[s] = call[s] /\ pc'[s] = pc[s]
                                   /\ beside'[s] = beside[s] /\ during'[s] = during[s]
  BY <1>1, <1>2
<1>4. c # None /\ call[r] = None /\ c.user \in Users /\ c.login \in Calls
  <2>1. c # None
    BY AuthAssumption DEF Call, Calls
  <2> QED
    BY <1>1, <1>2, <2>1 DEF AuthTypeOK, Call
<1>5. c.asks \in {"login", "refresh", "logout"} \cup Permissions
  BY DEF Call
<1>6. step \in Steps /\ step # "idle" /\ (step = "ok" => c.asks = "logout") /\ step # "lost"
      /\ step # "issue"
  BY <1>5 DEF Fits, Steps, Answers
<1>7. ~Granted(r) /\ ~Granted(r)' /\ ~Issued(r) /\ ~Issued(r)'
  BY <1>1, <1>3, <1>4, <1>6 DEF Granted, Issued
<1>8. \A s \in Calls : (Granted(s)' <=> Granted(s)) /\ (Issued(s)' <=> Issued(s))
  BY <1>3, <1>7 DEF Granted, Issued
<1>9. \A s \in Calls : Granted(s) => /\ s # r /\ call'[s] = call[s]
                                     /\ beside'[s] = beside[s]
  BY <1>3, <1>7
<1>10. Kept
  BY <1>8, <1>9 DEF Kept
<1>11. \A q \in Calls, t \in Calls : Rotated(q, t)' <=> Rotated(q, t)
  BY <1>8, <1>9 DEF Rotated
<1>12. \A t \in Calls : Spent(t)' <=> Spent(t)
  BY <1>11 DEF Spent
<1>13. AuthTypeOK'
  <2>1. call' \in [Calls -> Call \cup {None}]
    BY <1>1, <1>2
  <2>2. pc' \in [Calls -> Steps]
    BY <1>1, <1>2, <1>6
  <2>3. beside' \in [Calls -> SUBSET Calls] /\ during' \in [Calls -> SUBSET (Row \cup {None})]
    BY <1>1, <1>2, <1>4 DEF AuthTypeOK
  <2>4. \A s \in Calls : pc'[s] # "idle" <=> call'[s] # None
    BY <1>2, <1>3, <1>4, <1>6 DEF AuthTypeOK
  <2>5. \A t \in keys' \cup expired' : t \in Calls /\ Issued(t)'
    BY <1>1, <1>2, <1>8 DEF AuthTypeOK
  <2> QED
    BY <1>1, <1>2, <2>1, <2>2, <2>3, <2>4, <2>5 DEF AuthTypeOK, Steps
<1>14. CallSound(r)'
  <2>1. c.asks # "login" => /\ c.token # r /\ call'[c.token] = call[c.token]
                            /\ Issued(c.token)' /\ c.token \in Calls
    BY <1>3, <1>7, <1>8 DEF Fits
  <2>2. c.asks # "login" => Issued(c.login)'
    <3>1. SUFFICES ASSUME c.asks # "login"
                   PROVE  Issued(c.login)
      BY <1>4, <1>8
    <3>2. /\ c.token \in Calls /\ Issued(c.token) /\ call[c.token] # None
          /\ c.login = call[c.token].login
      BY <3>1, IssuedGranted DEF Fits
    <3>3. CallSound(c.token)
      BY <3>2 DEF AuthInv
    <3> QED
      BY <3>2, <3>3 DEF CallSound
  <2>3. /\ c.asks = "login" => c.token = None /\ c.login = r
        /\ c.asks # "login" => c.login = call'[c.token].login
    BY <2>1 DEF Fits
  <2>4. /\ step = "authenticate" => c.asks = "login"
        /\ step \in {"exists", "load", "rotate"} => c.asks = "refresh"
        /\ step = "revoke" => c.asks = "logout"
        /\ step = "authorize" => c.asks \in Permissions
    BY <1>5 DEF Fits
  <2> QED
    BY <1>3, <1>6, <2>1, <2>2, <2>3, <2>4 DEF CallSound
<1>15. HistorySound(r)'
  <2>1. RowOf(r)' \in during'[r]
    BY <1>1, <1>3 DEF RowOf
  <2>2. step # "rotate" /\ (step = "ok" => c.asks \notin Permissions)
    BY <1>5, <1>6, PermissionNames DEF Fits
  <2> QED
    BY <1>3, <1>7, <2>1, <2>2 DEF HistorySound
<1>16. ASSUME NEW s \in Calls, s # r
       PROVE  CallSound(s)' /\ HistorySound(s)'
  <2>1. call'[s] = call[s] /\ pc'[s] = pc[s] /\ during'[s] = during[s] /\ users' = users
    BY <1>1, <1>3, <1>16
  <2>2. CallSound(s) /\ HistorySound(s)
    BY DEF AuthInv
  <2>3. CallSound(s)'
    <3>1. call[s] # None => /\ call[s].login \in Calls
                            /\ call[s].asks # "login" => call'[call[s].token] = call[call[s].token]
      <4>1. call[s] # None /\ call[s].asks # "login" =>
              call[s].token \in Calls /\ Issued(call[s].token)
        BY <2>2 DEF CallSound
      <4>2. call[s] # None => call[s].login \in Calls
        BY <1>2, CallFacts
      <4> QED
        BY <1>3, <1>7, <4>1, <4>2
    <3> QED
      BY <1>8, <2>1, <2>2, <3>1 DEF CallSound
  <2>4. HistorySound(s)'
    BY <1>8, <2>1, <2>2 DEF HistorySound, Running, RowOf
  <2> QED
    BY <2>3, <2>4
<1>17. ArrivalSound'
  <2>1. SUFFICES ASSUME NEW q \in Calls, NEW s \in Calls, pc'[s] # "idle", q < s
                 PROVE  pc'[q] # "idle" /\ (Running(q)' => q \in beside'[s])
    BY DEF ArrivalSound
  <2>2. CASE s = r
    <3>1. q # r /\ pc[q] # "idle" /\ pc'[q] = pc[q]
      BY <1>1, <1>3, <2>1, <2>2, AuthAssumption DEF Calls
    <3>2. Running(q)' => Running(q)
      BY <3>1 DEF Running
    <3> QED
      BY <1>3, <2>2, <3>1, <3>2
  <2>3. CASE s # r
    <3>1. pc[s] # "idle" /\ beside'[s] = beside[s]
      BY <1>3, <2>1, <2>3
    <3>2. pc[q] # "idle" /\ (Running(q) => q \in beside[s])
      BY <2>1, <3>1 DEF AuthInv, ArrivalSound
    <3>3. q # r /\ pc'[q] = pc[q]
      BY <1>1, <1>3, <3>2
    <3> QED
      BY <3>1, <3>2, <3>3 DEF Running
  <2> QED
    BY <2>2, <2>3
<1>18. KeysSound'
  BY <1>1, <1>2, <1>12 DEF AuthInv, KeysSound, AuthTypeOK
<1>19. ForkSound'
  <2>1. SUFFICES ASSUME NEW s \in Calls, NEW t \in Calls, Granted(s)', Granted(t)',
                        ~Spent(s)', ~Spent(t)', call'[s].login = call'[t].login, s # t
                 PROVE  Forked(call[s].login)'
    BY DEF ForkSound
  <2>2. /\ Granted(s) /\ Granted(t) /\ ~Spent(s) /\ ~Spent(t)
        /\ call'[s] = call[s] /\ call'[t] = call[t]
    BY <1>8, <1>9, <1>12, <2>1
  <2>3. Forked(call[s].login)
    BY <2>1, <2>2 DEF AuthInv, ForkSound
  <2> QED
    BY <1>10, <2>2, <2>3, ForkedKept
<1>20. RaceSound'
  <2>1. SUFFICES ASSUME NEW q \in Calls, NEW s \in Calls, Granted(q)', q # s, call'[s] # None,
                        call'[q].token = call'[s].token, call'[q].asks = "refresh",
                        call'[s].asks = "refresh",
                        pc'[s] \in {"load", "rotate", "issue", "ok", "lost"}
                 PROVE  Overlap(q, s)'
    BY DEF RaceSound
  <2>2. s # r
    BY <1>3, <2>1 DEF Fits
  <2>3. /\ Granted(q) /\ call'[q] = call[q] /\ beside'[q] = beside[q]
        /\ call'[s] = call[s] /\ beside'[s] = beside[s] /\ pc'[s] = pc[s]
    BY <1>3, <1>8, <1>9, <2>1, <2>2
  <2>4. Overlap(q, s)
    BY <2>1, <2>3 DEF AuthInv, RaceSound
  <2> QED
    BY <2>3, <2>4 DEF Overlap
<1>21. LogoutSound'
  <2>1. SUFFICES ASSUME NEW q \in Calls, call'[q] # None, call'[q].asks = "logout",
                        pc'[q] = "ok"
                 PROVE  /\ call'[q].token \in keys' => call'[q].token \in expired'
                        /\ \A s \in Calls : pc'[s] # "idle" /\ q < s /\ q \notin beside'[s] =>
                             (call'[s].asks = "refresh" /\ call'[s].token = call'[q].token =>
                                /\ pc'[s] \in {"exists", "unauthorized", "error"}
                                /\ pc'[s] = "exists" => call'[q].token \notin keys')
    BY DEF LogoutSound
  <2>2. CASE q = r
    <3>1. c.token \in expired
      BY <1>3, <2>1, <2>2 DEF Fits
    <3>2. ASSUME NEW s \in Calls, pc'[s] # "idle", r < s
          PROVE  FALSE
      <4>1. s # r /\ pc[s] # "idle"
        BY <1>3, <3>2, AuthAssumption DEF Calls
      <4> QED
        BY <1>1, <3>2, <4>1 DEF AuthInv, ArrivalSound
    <3> QED
      BY <1>1, <1>3, <2>2, <3>1, <3>2
  <2>3. CASE q # r
    <3>1. call'[q] = call[q] /\ pc[q] = "ok"
      BY <1>3, <2>1, <2>3
    <3>2. call[q].token \in keys => call[q].token \in expired
      BY <2>1, <3>1 DEF AuthInv, LogoutSound
    <3>3. ASSUME NEW s \in Calls, pc'[s] # "idle", q < s, q \notin beside'[s],
                 call'[s].asks = "refresh", call'[s].token = call'[q].token
          PROVE  /\ pc'[s] \in {"exists", "unauthorized", "error"}
                 /\ pc'[s] = "exists" => call'[q].token \notin keys'
      <4>1. CASE s = r
        BY <1>1, <1>3, <3>1, <3>2, <3>3, <4>1 DEF Fits
      <4>2. CASE s # r
        <5>1. call'[s] = call[s] /\ pc'[s] = pc[s] /\ beside'[s] = beside[s] /\ keys' = keys
          BY <1>1, <1>3, <4>2
        <5> QED
          BY <2>1, <3>1, <3>3, <5>1 DEF AuthInv, LogoutSound
      <4> QED
        BY <4>1, <4>2
    <3> QED
      BY <1>1, <3>1, <3>2, <3>3
  <2> QED
    BY <2>2, <2>3
<1> QED
  BY <1>13, <1>14, <1>15, <1>16, <1>17, <1>18, <1>19, <1>20, <1>21 DEF AuthInv

----------------------------------------------------------------------------
(* A step of the handler of call r. *)

\* What every step of a handler leaves alone, and where it may go.
Handles(r, step) ==
  /\ Running(r) /\ step # "idle"
  /\ pc' = [pc EXCEPT ![r] = step]
  /\ keys' \subseteq keys \cup {r}
  /\ r \in keys' => pc[r] = "issue" /\ step \in {"ok", "lost"}
  /\ call[r].asks = "logout" /\ step = "ok" => call[r].token \notin keys'
  /\ call[r].asks = "refresh" /\ pc[r] = "exists" =>
       step \in {"unauthorized", "error"} \/ (step = "load" /\ call[r].token \in keys)
  /\ pc[r] = "issue" => step \in {"ok", "lost"}
  /\ UNCHANGED <<users, expired, call, beside, during>>

LEMMA HandlerFacts ==
  ASSUME AuthInv, NEW r \in Calls, NEW step \in Steps, Handles(r, step)
  PROVE  /\ AuthTypeOK /\ call[r] # None /\ pc'[r] = step /\ pc[r] # "idle" /\ ~Issued(r)
         /\ \A s \in Calls : s # r => pc'[s] = pc[s]
         /\ \A s \in Calls : s # r => (Granted(s)' <=> Granted(s)) /\ (Issued(s)' <=> Issued(s))
         /\ Granted(r) => Granted(r)'
         /\ UNCHANGED <<users, expired, call, beside, during>>
         /\ CallSound(r) /\ HistorySound(r)
<1>1. /\ AuthTypeOK /\ pc \in [Calls -> Steps] /\ CallSound(r) /\ HistorySound(r)
  BY DEF AuthInv, AuthTypeOK, Steps
<1>2. /\ pc'[r] = step /\ pc[r] # "idle" /\ call[r] # None /\ ~Issued(r)
      /\ \A s \in Calls : s # r => pc'[s] = pc[s]
      /\ UNCHANGED <<users, expired, call, beside, during>>
  BY <1>1, IssuedGranted DEF Handles, Running, AuthTypeOK
<1>3. \A s \in Calls : s # r => (Granted(s)' <=> Granted(s)) /\ (Issued(s)' <=> Issued(s))
  BY <1>2 DEF Granted, Issued
<1>4. Granted(r) => Granted(r)'
  BY <1>2 DEF Handles, Granted, Running, Answers
<1> QED
  BY <1>1, <1>2, <1>3, <1>4

LEMMA HandlerStep ==
  ASSUME AuthInv, NEW r \in Calls, NEW step \in Steps, Handles(r, step),
         loaded' \in [Calls -> Row \cup {None}],
         CallSound(r)', HistorySound(r)'
  PROVE  /\ AuthTypeOK' /\ ArrivalSound' /\ LogoutSound' /\ Kept
         /\ \A s \in Calls : CallSound(s)' /\ HistorySound(s)'
<1>1. \A t \in Calls : Issued(t) => t # r /\ Issued(t)'
  BY HandlerFacts
<1>2. Kept
  BY HandlerFacts DEF Kept
<1>3. AuthTypeOK'
  <2>1. pc' \in [Calls -> Steps]
    BY HandlerFacts DEF Handles, AuthTypeOK, Steps
  <2>2. \A s \in Calls : pc'[s] # "idle" <=> call'[s] # None
    BY HandlerFacts DEF Handles, AuthTypeOK
  <2>3. r \in keys' => Issued(r)'
    <3>1. call' = call /\ pc'[r] = step /\ call[r] # None /\ CallSound(r)
      BY HandlerFacts
    <3>2. r \in keys' => pc[r] = "issue" /\ step \in {"ok", "lost"}
      BY DEF Handles
    <3>3. pc[r] = "issue" => call[r].asks \in {"login", "refresh"}
      BY <3>1 DEF CallSound
    <3> QED
      BY <3>1, <3>2, <3>3 DEF Issued
  <2>4. \A t \in keys' \cup expired' : t \in Calls /\ Issued(t)'
    BY <1>1, <2>3, HandlerFacts DEF Handles, AuthTypeOK
  <2> QED
    BY <2>1, <2>2, <2>4, HandlerFacts DEF AuthTypeOK, Steps
<1>4. ASSUME NEW s \in Calls, s # r
      PROVE  CallSound(s)' /\ HistorySound(s)'
  <2>1. /\ pc'[s] = pc[s] /\ (Granted(s)' <=> Granted(s)) /\ CallSound(s) /\ HistorySound(s)
        /\ UNCHANGED <<users, expired, call, beside, during>>
    BY <1>4, HandlerFacts DEF AuthInv
  <2>2. call[s] # None => call[s].login \in Calls
    BY HandlerFacts, CallFacts
  <2>3. CallSound(s)'
    BY <1>1, <2>1, <2>2 DEF CallSound
  <2>4. HistorySound(s)'
    BY <2>1 DEF HistorySound, Running, RowOf
  <2> QED
    BY <2>3, <2>4
<1>5. ArrivalSound'
  <2>1. SUFFICES ASSUME NEW q \in Calls, NEW s \in Calls, pc'[s] # "idle", q < s
                 PROVE  pc'[q] # "idle" /\ (Running(q)' => q \in beside'[s])
    BY DEF ArrivalSound
  <2>2. pc[s] # "idle" /\ beside' = beside
    BY <2>1, HandlerFacts
  <2>3. pc[q] # "idle" /\ (Running(q) => q \in beside[s])
    BY <2>1, <2>2 DEF AuthInv, ArrivalSound
  <2>4. pc'[q] # "idle" /\ (Running(q)' => Running(q))
    BY <2>3, HandlerFacts DEF Running, Handles
  <2> QED
    BY <2>2, <2>3, <2>4
<1>6. LogoutSound'
  <2>1. SUFFICES ASSUME NEW q \in Calls, call'[q] # None, call'[q].asks = "logout",
                        pc'[q] = "ok"
                 PROVE  /\ call'[q].token \in keys' => call'[q].token \in expired'
                        /\ \A s \in Calls : pc'[s] # "idle" /\ q < s /\ q \notin beside'[s] =>
                             (call'[s].asks = "refresh" /\ call'[s].token = call'[q].token =>
                                /\ pc'[s] \in {"exists", "unauthorized", "error"}
                                /\ pc'[s] = "exists" => call'[q].token \notin keys')
    BY DEF LogoutSound
  <2>2. call' = call /\ beside' = beside /\ expired' = expired
    BY HandlerFacts
  <2>3. call[q].token \in keys' => call[q].token \in keys
    <3>1. CallSound(q)
      BY DEF AuthInv
    <3>2. Issued(call[q].token) /\ call[q].token \in Calls
      BY <2>1, <2>2, <3>1 DEF CallSound
    <3> QED
      BY <1>1, <3>2 DEF Handles
  <2>4. CASE q = r
    <3>1. call[r].token \notin keys'
      BY <2>1, <2>2, <2>4, HandlerFacts DEF Handles
    <3>2. ASSUME NEW s \in Calls, pc'[s] # "idle", r < s
          PROVE  r \in beside[s]
      <4>1. pc[s] # "idle"
        BY <3>2, HandlerFacts
      <4> QED
        BY <3>2, <4>1 DEF AuthInv, ArrivalSound, Handles
    <3> QED
      BY <2>2, <2>4, <3>1, <3>2
  <2>5. CASE q # r
    <3>1. pc[q] = "ok" /\ call[q] # None /\ call[q].asks = "logout"
      BY <2>1, <2>2, <2>5, HandlerFacts
    <3>2. call[q].token \in keys => call[q].token \in expired
      BY <3>1 DEF AuthInv, LogoutSound
    <3>3. ASSUME NEW s \in Calls, pc'[s] # "idle", q < s, q \notin beside[s],
                 call[s].asks = "refresh", call[s].token = call[q].token
          PROVE  /\ pc'[s] \in {"exists", "unauthorized", "error"}
                 /\ pc'[s] = "exists" => call[q].token \notin keys'
      <4>1. pc[s] # "idle"
        BY <3>3, HandlerFacts
      <4>2. /\ pc[s] \in {"exists", "unauthorized", "error"}
            /\ pc[s] = "exists" => call[q].token \notin keys
        BY <3>1, <3>3, <4>1 DEF AuthInv, LogoutSound
      <4>3. CASE s = r
        <5>1. pc[r] = "exists"
          BY <4>2, <4>3 DEF Handles, Running, Answers
        <5>2. pc'[r] \in {"unauthorized", "error"}
          BY <3>3, <4>2, <4>3, <5>1, HandlerFacts DEF Handles
        <5> QED
          BY <4>3, <5>2
      <4>4. CASE s # r
        BY <2>3, <4>2, <4>4, HandlerFacts
      <4> QED
        BY <4>3, <4>4
    <3> QED
      BY <2>2, <2>3, <3>2, <3>3
  <2> QED
    BY <2>4, <2>5
<1> QED
  BY <1>2, <1>3, <1>4, <1>5, <1>6

\* A step that grants nothing new.
LEMMA QuietStep ==
  ASSUME AuthInv, NEW r \in Calls, NEW step \in Steps, Handles(r, step),
         loaded' \in [Calls -> Row \cup {None}],
         Granted(r)' => Granted(r), CallSound(r)', HistorySound(r)',
         call[r].asks = "refresh" /\ step \in {"load", "rotate", "issue", "ok", "lost"} =>
           pc[r] \in {"load", "rotate", "issue"} \/ call[r].token \in keys
  PROVE  AuthInv'
<1>1. \A s \in Calls : Granted(s)' <=> Granted(s)
  BY HandlerFacts
<1>2. UNCHANGED <<users, expired, call, beside, during>>
  BY HandlerFacts
<1>3. \A q, t \in Calls : Rotated(q, t)' <=> Rotated(q, t)
  BY <1>1, <1>2 DEF Rotated
<1>4. \A t \in Calls : Spent(t)' <=> Spent(t)
  BY <1>3 DEF Spent
<1>5. KeysSound'
  <2>1. ~Spent(r)
    BY RotatedIssued, HandlerFacts DEF Spent
  <2>2. \A t \in keys' : t \in Calls /\ ~Spent(t)
    BY <2>1, HandlerFacts DEF Handles, AuthInv, KeysSound, AuthTypeOK
  <2> QED
    BY <1>4, <2>2 DEF KeysSound
<1>6. ForkSound'
  <2>1. SUFFICES ASSUME NEW s \in Calls, NEW t \in Calls, Granted(s)', Granted(t)',
                        ~Spent(s)', ~Spent(t)', call'[s].login = call'[t].login, s # t
                 PROVE  Forked(call[s].login)'
    BY DEF ForkSound
  <2>2. Granted(s) /\ Granted(t) /\ ~Spent(s) /\ ~Spent(t) /\ call[s].login = call[t].login
    BY <1>1, <1>2, <1>4, <2>1
  <2>3. Forked(call[s].login)
    BY <2>1, <2>2 DEF AuthInv, ForkSound
  <2>4. Kept
    BY HandlerStep
  <2> QED
    BY <1>2, <2>3, <2>4, ForkedKept
<1>7. RaceSound'
  <2>1. SUFFICES ASSUME NEW q \in Calls, NEW s \in Calls, Granted(q), q # s, call[s] # None,
                        call[q].token = call[s].token, call[q].asks = "refresh",
                        call[s].asks = "refresh",
                        pc'[s] \in {"load", "rotate", "issue", "ok", "lost"}
                 PROVE  Overlap(q, s)
    BY <1>1, <1>2 DEF RaceSound, Overlap
  <2>2. CASE pc[s] \in {"load", "rotate", "issue", "ok", "lost"}
    BY <2>1, <2>2 DEF AuthInv, RaceSound
  <2>3. CASE pc[s] \notin {"load", "rotate", "issue", "ok", "lost"}
    <3>1. s = r /\ call[s].token \in keys
      BY <2>1, <2>3, HandlerFacts
    <3>2. ~Spent(call[s].token)
      BY <3>1 DEF AuthInv, KeysSound
    <3> QED
      BY <2>1, <3>2 DEF Spent, Rotated
  <2> QED
    BY <2>2, <2>3
<1> QED
  BY <1>5, <1>6, <1>7, HandlerStep DEF AuthInv

----------------------------------------------------------------------------
(* The steps of the handlers. *)

\* A handler on its way keeps what its call carries.
LEMMA OwnCallSound ==
  ASSUME AuthInv, NEW r \in Calls, NEW step \in Steps, Handles(r, step),
         step \notin {"authenticate", "revoke", "authorize"},
         step \in {"exists", "load", "rotate"} => call[r].asks = "refresh",
         step = "issue" => call[r].asks \in {"login", "refresh"}
  PROVE  CallSound(r)'
<1>1. CallSound(r) /\ call[r] # None /\ pc'[r] = step /\ call' = call
  BY HandlerFacts
<1>2. \A t \in Calls : Issued(t) => Issued(t)'
  BY HandlerFacts
<1>3. call[r].login \in Calls
  BY HandlerFacts, CallFacts
<1> QED
  BY <1>1, <1>2, <1>3 DEF CallSound

LEMMA AuthenticateStep ==
  ASSUME AuthInv, NEW r \in Calls, Authenticate(r)
  PROVE  AuthInv'
<1> DEFINE step == IF Live(RowOf(r)) /\ RowOf(r).password = call[r].password
                   THEN "issue" ELSE "unauthorized"
<1>1. /\ pc[r] = "authenticate" /\ pc' = [pc EXCEPT ![r] = step]
      /\ loaded' = [loaded EXCEPT ![r] = RowOf(r)]
      /\ UNCHANGED <<users, keys, expired, call, beside, during>>
  BY DEF Authenticate, Goto
<1>2. step \in {"issue", "unauthorized"}
  OBVIOUS
<1>3. step = "issue" => Live(RowOf(r)) /\ RowOf(r).password = call[r].password
  OBVIOUS
<1> HIDE DEF step
<1>4. /\ AuthTypeOK /\ call[r] # None /\ call[r].asks = "login" /\ call[r].login = r
      /\ CallSound(r) /\ HistorySound(r) /\ r \notin keys
  BY <1>1 DEF AuthInv, CallSound, AuthTypeOK, Issued
<1>5. step \in Steps /\ Handles(r, step)
  BY <1>1, <1>2, <1>4 DEF Handles, Steps, Answers, Running
<1>6. loaded' \in [Calls -> Row \cup {None}]
  BY <1>1, <1>4, CallFacts DEF AuthTypeOK
<1>7. pc'[r] = step /\ call' = call /\ during' = during /\ users' = users
  BY <1>5, HandlerFacts
<1>8. CallSound(r)'
  BY <1>2, <1>4, <1>7 DEF CallSound
<1>9. HistorySound(r)'
  <2>1. RowOf(r) \in during[r]
    BY <1>1, <1>4 DEF HistorySound, Running, Answers
  <2>2. Granted(r)' => step = "issue"
    BY <1>2, <1>7 DEF Granted
  <2> QED
    BY <1>2, <1>3, <1>4, <1>7, <2>1, <2>2 DEF HistorySound, RowOf
<1>10. CASE step = "unauthorized"
  BY <1>4, <1>5, <1>6, <1>7, <1>8, <1>9, <1>10, QuietStep DEF Granted
<1>11. CASE step = "issue"
  <2>1. AuthTypeOK' /\ ArrivalSound' /\ LogoutSound' /\ Kept
        /\ \A s \in Calls : CallSound(s)' /\ HistorySound(s)'
    BY <1>5, <1>6, <1>8, <1>9, HandlerStep
  <2>2. /\ \A s \in Calls : s # r => (Granted(s)' <=> Granted(s))
        /\ UNCHANGED <<keys, call, beside>> /\ call[r].token = None
        /\ \A s \in Calls : s # r => pc'[s] = pc[s]
    BY <1>1, <1>4, <1>5, HandlerFacts DEF CallSound
  <2>3. \A q, t \in Calls : Rotated(q, t)' <=> Rotated(q, t)
    BY <2>2, AuthAssumption DEF Rotated, Calls
  <2>4. \A t \in Calls : Spent(t)' <=> Spent(t)
    BY <2>3 DEF Spent
  <2>5. KeysSound'
    BY <2>2, <2>4 DEF KeysSound, AuthInv, AuthTypeOK
  <2>6. ASSUME NEW t \in Calls, Granted(t), call[t].login = r
        PROVE  FALSE
    <3>1. CallSound(t) /\ call[t] # None
      BY <2>6 DEF AuthInv, Granted
    <3>2. ~Issued(r) /\ t # r
      BY <1>1, <2>6 DEF Issued, Granted
    <3> QED
      BY <2>6, <3>1, <3>2 DEF CallSound
  <2>7. ForkSound'
    <3>1. SUFFICES ASSUME NEW s \in Calls, NEW t \in Calls, Granted(s)', Granted(t)',
                          ~Spent(s)', ~Spent(t)', call'[s].login = call'[t].login, s # t
                   PROVE  Forked(call[s].login)'
      BY DEF ForkSound
    <3>2. s # r /\ t # r
      BY <1>4, <2>2, <2>6, <3>1
    <3>3. Forked(call[s].login)
      BY <2>2, <2>4, <3>1, <3>2 DEF AuthInv, ForkSound
    <3> QED
      BY <2>1, <2>2, <3>3, ForkedKept
  <2>8. RaceSound'
    <3>1. SUFFICES ASSUME NEW q \in Calls, NEW s \in Calls, Granted(q)', q # s, call[s] # None,
                          call[q].token = call[s].token, call[q].asks = "refresh",
                          call[s].asks = "refresh",
                          pc'[s] \in {"load", "rotate", "issue", "ok", "lost"}
                   PROVE  Overlap(q, s)
      BY <2>2 DEF RaceSound, Overlap
    <3>2. q # r /\ s # r
      BY <1>4, <3>1
    <3> QED
      BY <2>2, <3>1, <3>2 DEF AuthInv, RaceSound
  <2> QED
    BY <2>1, <2>5, <2>7, <2>8 DEF AuthInv
<1> QED
  BY <1>2, <1>10, <1>11

LEMMA CheckKeyStep ==
  ASSUME AuthInv, NEW r \in Calls, CheckKey(r)
  PROVE  AuthInv'
<1>1. PICK step \in {"load", "unauthorized"} :
        /\ pc[r] = "exists" /\ pc' = [pc EXCEPT ![r] = step]
        /\ step = "load" => call[r].token \in keys
        /\ UNCHANGED <<users, keys, expired, call, loaded, beside, during>>
  BY DEF CheckKey, Goto
<1>2. /\ AuthTypeOK /\ call[r] # None /\ call[r].asks = "refresh"
      /\ CallSound(r) /\ HistorySound(r) /\ r \notin keys
  BY <1>1 DEF AuthInv, CallSound, AuthTypeOK, Issued
<1>3. step \in Steps /\ Handles(r, step)
  BY <1>1, <1>2 DEF Handles, Steps, Answers, Running
<1>4. pc'[r] = step /\ call' = call /\ during' = during /\ users' = users
  BY <1>3, HandlerFacts
<1>5. CallSound(r)'
  BY <1>2, <1>3, OwnCallSound
<1>6. ~Granted(r)'
  BY <1>1, <1>4 DEF Granted
<1>7. HistorySound(r)'
  BY <1>1, <1>2, <1>4, <1>6 DEF HistorySound, RowOf, Running, Answers
<1> QED
  BY <1>1, <1>2, <1>3, <1>5, <1>6, <1>7, QuietStep DEF AuthTypeOK

LEMMA LoadUserStep ==
  ASSUME AuthInv, NEW r \in Calls, LoadUser(r)
  PROVE  AuthInv'
<1>1. PICK step \in {"rotate", "unauthorized"} :
        /\ pc[r] = "load" /\ pc' = [pc EXCEPT ![r] = step]
        /\ step = "rotate" => Live(RowOf(r))
        /\ loaded' = [loaded EXCEPT ![r] = RowOf(r)]
        /\ UNCHANGED <<users, keys, expired, call, beside, during>>
  BY DEF LoadUser, Goto
<1>2. /\ AuthTypeOK /\ call[r] # None /\ call[r].asks = "refresh"
      /\ CallSound(r) /\ HistorySound(r) /\ r \notin keys
  BY <1>1 DEF AuthInv, CallSound, AuthTypeOK, Issued
<1>3. step \in Steps /\ Handles(r, step)
  BY <1>1, <1>2 DEF Handles, Steps, Answers, Running
<1>4. pc'[r] = step /\ call' = call /\ during' = during /\ users' = users
  BY <1>3, HandlerFacts
<1>5. CallSound(r)'
  BY <1>2, <1>3, OwnCallSound
<1>6. ~Granted(r)'
  BY <1>1, <1>4 DEF Granted
<1>7. HistorySound(r)'
  <2>1. RowOf(r) \in during[r]
    BY <1>1, <1>2 DEF HistorySound, Running, Answers
  <2> QED
    BY <1>1, <1>2, <1>4, <1>6, <2>1 DEF HistorySound, RowOf
<1>8. loaded' \in [Calls -> Row \cup {None}]
  BY <1>1, <1>2, CallFacts DEF AuthTypeOK
<1> QED
  BY <1>1, <1>2, <1>3, <1>5, <1>6, <1>7, <1>8, QuietStep

LEMMA IssueTokenPairStep ==
  ASSUME AuthInv, NEW r \in Calls, IssueTokenPair(r)
  PROVE  AuthInv'
<1>1. PICK step \in {"ok", "lost"} :
        /\ pc[r] = "issue" /\ pc' = [pc EXCEPT ![r] = step]
        /\ keys' = keys \cup {r}
        /\ UNCHANGED <<users, expired, call, loaded, beside, during>>
  BY DEF IssueTokenPair, Goto, FreshJti
<1>2. /\ AuthTypeOK /\ call[r] # None /\ call[r].asks \in {"login", "refresh"}
      /\ CallSound(r) /\ HistorySound(r)
  BY <1>1 DEF AuthInv, CallSound, AuthTypeOK
<1>3. step \in Steps /\ Handles(r, step)
  BY <1>1, <1>2 DEF Handles, Steps, Answers, Running
<1>4. pc'[r] = step /\ call' = call /\ during' = during /\ users' = users
  BY <1>3, HandlerFacts
<1>5. CallSound(r)'
  BY <1>2, <1>3, OwnCallSound
<1>6. Granted(r)
  BY <1>1, <1>2 DEF Granted
<1>7. HistorySound(r)'
  <2>1. step # "rotate" /\ call[r].asks \notin Permissions /\ ~Running(r)'
    BY <1>2, <1>4, PermissionNames DEF Running, Answers
  <2> QED
    BY <1>2, <1>4, <1>6, <2>1 DEF HistorySound
<1> QED
  BY <1>1, <1>2, <1>3, <1>5, <1>6, <1>7, QuietStep DEF AuthTypeOK

LEMMA RevokeStep ==
  ASSUME AuthInv, NEW r \in Calls, Revoke(r)
  PROVE  AuthInv'
<1>1. /\ pc[r] = "revoke" /\ pc' = [pc EXCEPT ![r] = "ok"]
      /\ keys' = keys \ {call[r].token}
      /\ UNCHANGED <<users, expired, call, loaded, beside, during>>
  BY DEF Revoke, Goto
<1>2. /\ AuthTypeOK /\ call[r] # None /\ call[r].asks = "logout"
      /\ CallSound(r) /\ HistorySound(r) /\ r \notin keys
  BY <1>1 DEF AuthInv, CallSound, AuthTypeOK, Issued
<1>3. "ok" \in Steps /\ Handles(r, "ok")
  BY <1>1, <1>2 DEF Handles, Steps, Answers, Running
<1>4. pc'[r] = "ok" /\ call' = call /\ during' = during /\ users' = users
  BY <1>3, HandlerFacts
<1>5. CallSound(r)'
  BY <1>2, <1>3, OwnCallSound
<1>6. ~Granted(r)'
  BY <1>2, <1>4 DEF Granted
<1>7. HistorySound(r)'
  BY <1>2, <1>4, <1>6, PermissionNames DEF HistorySound, Running, Answers
<1> QED
  BY <1>1, <1>2, <1>3, <1>5, <1>6, <1>7, QuietStep DEF AuthTypeOK

LEMMA AuthorizeStep ==
  ASSUME AuthInv, NEW r \in Calls, Authorize(r)
  PROVE  AuthInv'
<1>1. PICK step \in {"ok", "unauthorized", "forbidden"} :
        /\ pc[r] = "authorize" /\ pc' = [pc EXCEPT ![r] = step]
        /\ step = "ok" => Live(RowOf(r)) /\ HasPermissions(RowOf(r).role, {call[r].asks})
        /\ UNCHANGED <<users, keys, expired, call, loaded, beside, during>>
  <2>1. pc[r] = "authorize" /\ UNCHANGED <<users, keys, expired, call, loaded, beside, during>>
    BY DEF Authorize
  <2>2. CASE Goto(r, "unauthorized")
    BY <2>1, <2>2 DEF Goto
  <2>3. CASE /\ Live(RowOf(r))
             /\ Goto(r, IF HasPermissions(RowOf(r).role, {call[r].asks})
                        THEN "ok" ELSE "forbidden")
    BY <2>1, <2>3 DEF Goto
  <2> QED
    BY <2>2, <2>3 DEF Authorize
<1>2. /\ AuthTypeOK /\ call[r] # None /\ call[r].asks \in Permissions
      /\ CallSound(r) /\ HistorySound(r) /\ r \notin keys
  BY <1>1 DEF AuthInv, CallSound, AuthTypeOK, Issued
<1>3. step \in Steps /\ Handles(r, step)
  BY <1>1, <1>2, PermissionNames DEF Handles, Steps, Answers, Running
<1>4. pc'[r] = step /\ call' = call /\ during' = during /\ users' = users
  BY <1>3, HandlerFacts
<1>5. CallSound(r)'
  BY <1>2, <1>3, OwnCallSound
<1>6. ~Granted(r)'
  BY <1>2, <1>4, PermissionNames DEF Granted
<1>7. HistorySound(r)'
  <2>1. RowOf(r) \in during[r]
    BY <1>1, <1>2 DEF HistorySound, Running, Answers
  <2>2. step = "ok" => Live(RowOf(r)) /\ call[r].asks \in PermissionsFor(RowOf(r).role)
    BY <1>1 DEF HasPermissions
  <2>3. ~Running(r)' /\ step # "rotate"
    BY <1>4 DEF Running, Answers
  <2> QED
    BY <1>2, <1>4, <1>6, <2>1, <2>2, <2>3 DEF HistorySound
<1> QED
  BY <1>1, <1>2, <1>3, <1>5, <1>6, <1>7, PermissionNames, QuietStep DEF AuthTypeOK

LEMMA CrashStep ==
  ASSUME AuthInv, NEW r \in Calls, Crash(r)
  PROVE  AuthInv'
<1>1. PICK step \in {"lost", "error"} :
        /\ Running(r) /\ pc' = [pc EXCEPT ![r] = step]
        /\ step = "lost" <=> pc[r] = "issue"
        /\ UNCHANGED <<users, keys, expired, call, loaded, beside, during>>
  BY DEF Crash, Goto
<1>2. /\ AuthTypeOK /\ call[r] # None /\ CallSound(r) /\ HistorySound(r) /\ r \notin keys
  BY <1>1, IssuedGranted DEF AuthInv, AuthTypeOK, Running
<1>3. step \in Steps /\ Handles(r, step)
  BY <1>1, <1>2 DEF Handles, Steps, Answers
<1>4. pc'[r] = step /\ call' = call /\ during' = during /\ users' = users
  BY <1>3, HandlerFacts
<1>5. CallSound(r)'
  BY <1>2, <1>3, OwnCallSound
<1>6. Granted(r)' => Granted(r)
  BY <1>1, <1>4 DEF Granted
<1>7. HistorySound(r)'
  BY <1>2, <1>4, <1>6 DEF HistorySound, Running, Answers
<1> QED
  BY <1>1, <1>2, <1>3, <1>5, <1>6, <1>7, QuietStep DEF AuthTypeOK

\* The step that counts: the token is spent, and whoever else spent it was
\* in progress together with this call.
LEMMA RotateStep ==
  ASSUME AuthInv, NEW r \in Calls, Rotate(r)
  PROVE  AuthInv'
<1>0. PICK x, l : x = call[r].token /\ l = call[r].login
  OBVIOUS
<1>1. /\ pc[r] = "rotate" /\ pc' = [pc EXCEPT ![r] = "issue"]
      /\ keys' = keys \ {x}
      /\ UNCHANGED <<users, expired, call, loaded, beside, during>>
  BY <1>0 DEF Rotate, Goto
<1>2. /\ AuthTypeOK /\ call[r] # None /\ call[r].asks = "refresh"
      /\ CallSound(r) /\ HistorySound(r) /\ r \notin keys /\ ~Issued(r) /\ ~Granted(r)
      /\ x \in Calls /\ Issued(x) /\ call[x].login = l
  BY <1>0, <1>1 DEF AuthInv, CallSound, AuthTypeOK, Issued, Granted
<1>3. "issue" \in Steps /\ Handles(r, "issue")
  BY <1>1, <1>2 DEF Handles, Steps, Answers, Running
<1>4. /\ pc'[r] = "issue" /\ UNCHANGED <<users, expired, call, beside, during>>
      /\ \A s \in Calls : s # r => pc'[s] = pc[s]
      /\ \A s \in Calls : s # r => (Granted(s)' <=> Granted(s))
  BY <1>3, HandlerFacts
<1>5. CallSound(r)'
  BY <1>2, <1>3, OwnCallSound
<1>6. Granted(r)'
  BY <1>2, <1>4 DEF Granted
<1>7. HistorySound(r)'
  <2>1. RowOf(r) \in during[r] /\ \E row \in during[r] : Live(row)
    BY <1>1, <1>2 DEF HistorySound, Running, Answers
  <2> QED
    BY <1>2, <1>4, <2>1 DEF HistorySound, RowOf
<1>8. /\ AuthTypeOK' /\ ArrivalSound' /\ LogoutSound' /\ Kept
      /\ \A s \in Calls : CallSound(s)' /\ HistorySound(s)'
  BY <1>1, <1>2, <1>3, <1>5, <1>7, HandlerStep DEF AuthTypeOK
<1>9. \A q \in Calls, t \in Calls : Rotated(q, t)' <=> Rotated(q, t) \/ (q = r /\ t = x)
  <2>1. \A t \in Calls : Rotated(r, t)' <=> t = x
    BY <1>0, <1>4, <1>6 DEF Rotated
  <2>2. \A t \in Calls : ~Rotated(r, t)
    BY <1>2 DEF Rotated
  <2>3. ASSUME NEW q \in Calls, q # r, NEW t \in Calls
        PROVE  Rotated(q, t)' <=> Rotated(q, t)
    BY <1>4, <2>3 DEF Rotated
  <2> QED
    BY <2>1, <2>2, <2>3
<1>10. \A t \in Calls : Spent(t)' <=> Spent(t) \/ t = x
  BY <1>9 DEF Spent
<1>11. KeysSound'
  BY <1>1, <1>2, <1>10 DEF AuthInv, KeysSound, AuthTypeOK
<1>12. ASSUME NEW s \in Calls, Granted(s), s # x, ~Spent(s), call[s].login = l
       PROVE  Forked(l)'
  <2>1. CASE Spent(x)
    <3>1. PICK q \in Calls : Rotated(q, x)
      BY <2>1 DEF Spent
    <3>2. q # r /\ call[q].asks = "refresh" /\ Granted(q) /\ call[q].token = x
      BY <1>2, <3>1, RotatedIssued DEF Rotated
    <3>3. Overlap(q, r)
      BY <1>0, <1>1, <1>2, <3>2 DEF AuthInv, RaceSound
    <3>4. Overlap(q, r)' /\ Rotated(q, x)' /\ Rotated(r, x)'
      BY <1>2, <1>4, <1>9, <3>1, <3>3 DEF Overlap
    <3> QED
      BY <1>2, <1>4, <3>4 DEF Overlap, Forked
  <2>2. CASE ~Spent(x)
    <3>1. Forked(l)
      BY <1>2, <1>12, <2>2, IssuedGranted DEF AuthInv, ForkSound
    <3> QED
      BY <1>8, <3>1, ForkedKept
  <2> QED
    BY <2>1, <2>2
<1>13. ForkSound'
  <2>1. SUFFICES ASSUME NEW s \in Calls, NEW t \in Calls, Granted(s)', Granted(t)',
                        ~Spent(s)', ~Spent(t)', s # t,
                        NEW k, call[s].login = k, call[t].login = k
                 PROVE  Forked(k)'
    BY <1>4 DEF ForkSound
  <2>2. /\ ~Spent(s) /\ ~Spent(t) /\ s # x /\ t # x
    BY <1>10, <2>1
  <2>3. CASE s # r /\ t # r
    <3>1. Forked(k)
      BY <1>4, <2>1, <2>2, <2>3 DEF AuthInv, ForkSound
    <3> QED
      BY <1>8, <3>1, ForkedKept
  <2>4. CASE s = r
    <3>1. Granted(t) /\ k = l
      BY <1>0, <1>4, <2>1, <2>4
    <3> QED
      BY <1>12, <2>1, <2>2, <3>1
  <2>5. CASE t = r
    <3>1. Granted(s) /\ k = l
      BY <1>0, <1>4, <2>1, <2>5
    <3> QED
      BY <1>12, <2>1, <2>2, <3>1
  <2> QED
    BY <2>3, <2>4, <2>5
<1>14. RaceSound'
  <2>1. SUFFICES ASSUME NEW q \in Calls, NEW s \in Calls, Granted(q)', q # s, call[s] # None,
                        call[q].token = call[s].token, call[q].asks = "refresh",
                        call[s].asks = "refresh",
                        pc'[s] \in {"load", "rotate", "issue", "ok", "lost"}
                 PROVE  Overlap(q, s)
    BY <1>4 DEF RaceSound, Overlap
  <2>2. CASE q # r
    <3>1. Granted(q) /\ pc[s] \in {"load", "rotate", "issue", "ok", "lost"}
      BY <1>1, <1>4, <2>1, <2>2
    <3> QED
      BY <2>1, <3>1 DEF AuthInv, RaceSound
  <2>3. CASE q = r
    <3>1. pc[s] \in {"load", "rotate", "issue", "ok", "lost"}
      BY <1>4, <2>1, <2>3
    <3>2. CASE Granted(s)
      <4>1. Overlap(s, q)
        BY <1>1, <1>2, <2>1, <2>3, <3>2 DEF AuthInv, RaceSound
      <4> QED
        BY <4>1 DEF Overlap
    <3>3. CASE ~Granted(s)
      <4>1. Running(s) /\ Running(r)
        BY <1>1, <2>1, <3>1, <3>3 DEF Granted, Running, Answers
      <4> QED
        BY <2>1, <2>3, <4>1, BothRunning
    <3> QED
      BY <3>2, <3>3
  <2> QED
    BY <2>2, <2>3
<1> QED
  BY <1>8, <1>11, <1>13, <1>14 DEF AuthInv

----------------------------------------------------------------------------
(* The administrator, and time. *)

\* A step that leaves every call alone, and lets keys go or tokens expire.
LEMMA AroundStep ==
  ASSUME AuthInv, UNCHANGED <<call, pc, loaded, beside>>, AuthTypeOK',
         keys' \subseteq keys, expired \subseteq expired',
         \A s \in Calls : HistorySound(s)'
  PROVE  AuthInv'
<1>1. \A s \in Calls : (Granted(s)' <=> Granted(s)) /\ (Issued(s)' <=> Issued(s))
  BY DEF Granted, Issued
<1>2. \A q, t \in Calls : Rotated(q, t)' <=> Rotated(q, t)
  BY <1>1 DEF Rotated
<1>3. \A t \in Calls : Spent(t)' <=> Spent(t)
  BY <1>2 DEF Spent
<1>4. Kept
  BY <1>1 DEF Kept
<1>5. ASSUME NEW s \in Calls
      PROVE  CallSound(s)'
  <2>1. CallSound(s) /\ (call[s] # None => call[s].login \in Calls)
    BY CallFacts DEF AuthInv
  <2> QED
    BY <1>1, <2>1 DEF CallSound
<1>6. ArrivalSound'
  BY DEF AuthInv, ArrivalSound, Running
<1>7. KeysSound'
  BY <1>3 DEF AuthInv, KeysSound, AuthTypeOK
<1>8. ForkSound'
  <2>1. SUFFICES ASSUME NEW s \in Calls, NEW t \in Calls, Granted(s), Granted(t),
                        ~Spent(s), ~Spent(t), call[s].login = call[t].login, s # t
                 PROVE  Forked(call[s].login)'
    BY <1>1, <1>3 DEF ForkSound
  <2>2. Forked(call[s].login)
    BY <2>1 DEF AuthInv, ForkSound
  <2> QED
    BY <1>4, <2>2, ForkedKept
<1>9. RaceSound'
  BY <1>1 DEF AuthInv, RaceSound, Overlap
<1>10. LogoutSound'
  BY DEF AuthInv, LogoutSound
<1> QED
  BY <1>5, <1>6, <1>7, <1>8, <1>9, <1>10 DEF AuthInv

LEMMA EditUserStep ==
  ASSUME AuthInv, NEW u \in Users, NEW row \in Row \cup {None}, EditUser(u, row)
  PROVE  AuthInv'
<1>1. /\ users' = [users EXCEPT ![u] = row]
      /\ during' = [r \in Calls |->
                      IF Running(r) /\ call[r].user = u THEN during[r] \cup {row} ELSE during[r]]
      /\ UNCHANGED <<keys, expired, call, pc, loaded, beside>>
  BY DEF EditUser
<1>2. AuthTypeOK
  BY DEF AuthInv
<1>3. AuthTypeOK'
  <2>1. during' \in [Calls -> SUBSET (Row \cup {None})]
    BY <1>1, <1>2 DEF AuthTypeOK
  <2>2. users' \in [Users -> Row \cup {None}]
    BY <1>1, <1>2 DEF AuthTypeOK
  <2> QED
    BY <1>1, <1>2, <2>1, <2>2 DEF AuthTypeOK, Issued
<1>4. ASSUME NEW s \in Calls
      PROVE  HistorySound(s)'
  <2>1. HistorySound(s) /\ during[s] \subseteq during'[s]
    BY <1>1, <1>2 DEF AuthInv, AuthTypeOK
  <2>2. ASSUME call[s] # None, Running(s)
        PROVE  RowOf(s)' \in during'[s]
    <3>1. CASE call[s].user = u
      BY <1>1, <1>2, <2>2, <3>1 DEF RowOf, AuthTypeOK
    <3>2. CASE call[s].user # u
      BY <1>1, <1>2, <2>1, <2>2, <3>2, CallFacts DEF RowOf, AuthTypeOK, HistorySound
    <3> QED
      BY <3>1, <3>2
  <2>3. (Granted(s)' <=> Granted(s)) /\ (Running(s)' <=> Running(s))
    BY <1>1 DEF Granted, Running
  <2> QED
    BY <1>1, <2>1, <2>2, <2>3 DEF HistorySound
<1> QED
  BY <1>1, <1>3, <1>4, AroundStep

LEMMA ExpireStep ==
  ASSUME AuthInv, NEW t \in Calls, ExpireToken(t) \/ ExpireKey(t)
  PROVE  AuthInv'
<1>1. /\ UNCHANGED <<users, call, pc, loaded, beside, during>>
      /\ keys' \subseteq keys /\ expired \subseteq expired'
      /\ \A s \in expired' : s \in expired \/ (s = t /\ Issued(t))
  BY DEF ExpireToken, ExpireKey
<1>2. AuthTypeOK'
  BY <1>1 DEF AuthInv, AuthTypeOK, Issued
<1>3. \A s \in Calls : HistorySound(s)'
  BY <1>1 DEF AuthInv, HistorySound, Running, RowOf, Granted
<1> QED
  BY <1>1, <1>2, <1>3, AroundStep

----------------------------------------------------------------------------
(* The four ways to call. *)

\* A call made with a token that its client has received.
LEMMA CarryingFits ==
  ASSUME AuthInv, NEW r \in Calls, NEW t \in Calls, Received(t),
         NEW what \in {"refresh", "logout"} \cup Permissions, NEW step,
         what = "refresh" => step = IF t \in expired THEN "unauthorized" ELSE "exists",
         what = "logout" => step = "revoke" \/ (step = "ok" /\ t \in expired),
         what \in Permissions => step = "authorize"
  PROVE  Carrying(t, what) \in Call /\ Fits(r, Carrying(t, what), step)
<1>1. Issued(t) /\ call[t] # None /\ AuthTypeOK
  BY DEF Received, Issued, AuthInv
<1>2. call[t].user \in Users /\ call[t].login \in Calls
  BY <1>1, CallFacts
<1>3. Carrying(t, what) \in Call
  BY <1>2 DEF Carrying, Call
<1>4. /\ Carrying(t, what).asks = what /\ Carrying(t, what).token = t
      /\ Carrying(t, what).login = call[t].login
  BY DEF Carrying
<1>5. what # "login"
  BY PermissionNames
<1> QED
  BY <1>1, <1>3, <1>4, <1>5 DEF Fits

LEMMA AskStep ==
  ASSUME AuthInv, NEW r \in Calls, Ask(r)
  PROVE  AuthInv'
<1>1. ASSUME NEW u \in Users, NEW password \in {"old", "new"}, AskLogin(r, u, password)
      PROVE  AuthInv'
  <2>1. PICK c : c = [password |-> password, asks |-> "login", user |-> u, token |-> None,
                      login |-> r]
    OBVIOUS
  <2>2. c \in Call /\ Arrive(r, c, "authenticate")
    BY <1>1, <2>1 DEF AskLogin, Call
  <2>3. c.asks = "login" /\ c.token = None /\ c.login = r
    BY <2>1
  <2>4. Fits(r, c, "authenticate")
    BY <2>3, PermissionNames DEF Fits
  <2> QED
    BY <2>2, <2>4, ArriveStep
<1>2. ASSUME NEW t \in Calls, Received(t), NEW what \in {"refresh", "logout"} \cup Permissions,
             NEW step, Arrive(r, Carrying(t, what), step),
             what = "refresh" => step = IF t \in expired THEN "unauthorized" ELSE "exists",
             what = "logout" => step = "revoke" \/ (step = "ok" /\ t \in expired),
             what \in Permissions => step = "authorize"
      PROVE  AuthInv'
  <2>1. PICK c : c = Carrying(t, what)
    OBVIOUS
  <2>2. c \in Call /\ Fits(r, c, step)
    BY <1>2, <2>1, CarryingFits
  <2>3. Arrive(r, c, step)
    BY <1>2, <2>1
  <2> QED
    BY <2>2, <2>3, ArriveStep
<1>3. ASSUME NEW t \in Calls, AskRefresh(r, t)
      PROVE  AuthInv'
  <2>1. PICK step : step = IF t \in expired THEN "unauthorized" ELSE "exists"
    OBVIOUS
  <2>2. Received(t) /\ Arrive(r, Carrying(t, "refresh"), step)
    BY <1>3, <2>1 DEF AskRefresh, Decodes
  <2> QED
    BY <1>2, <2>1, <2>2, PermissionNames
<1>4. ASSUME NEW t \in Calls, AskLogout(r, t)
      PROVE  AuthInv'
  <2>1. PICK step : step = IF t \in expired THEN "ok" ELSE "revoke"
    OBVIOUS
  <2>2. Received(t) /\ Arrive(r, Carrying(t, "logout"), step)
    BY <1>4, <2>1 DEF AskLogout, Decodes
  <2> QED
    BY <1>2, <2>1, <2>2, PermissionNames
<1>5. ASSUME NEW t \in Calls, NEW permission \in Permissions, AskUse(r, t, permission)
      PROVE  AuthInv'
  <2>1. Received(t) /\ Arrive(r, Carrying(t, permission), "authorize")
    BY <1>5 DEF AskUse
  <2> QED
    BY <1>2, <2>1, PermissionNames
<1> QED
  BY <1>1, <1>3, <1>4, <1>5 DEF Ask

----------------------------------------------------------------------------
(* The invariant of the specification. *)

LEMMA AuthInit ==
  ASSUME Init
  PROVE  AuthInv
<1>1. PICK role \in Roles :
        users = [u \in Users |-> [active |-> TRUE, role |-> role, password |-> "old"]]
  BY DEF Init
<1>2. users \in [Users -> Row \cup {None}]
  BY <1>1 DEF Row
<1>3. /\ keys = {} /\ expired = {} /\ call = [r \in Calls |-> None]
      /\ pc = [r \in Calls |-> "idle"] /\ loaded = [r \in Calls |-> None]
      /\ beside = [r \in Calls |-> {}] /\ during = [r \in Calls |-> {}]
  BY DEF Init
<1>4. AuthTypeOK
  BY <1>2, <1>3 DEF AuthTypeOK, Answers
<1>5. \A r \in Calls : call[r] = None /\ pc[r] = "idle" /\ ~Granted(r)
  BY <1>3 DEF Granted
<1> QED
  BY <1>3, <1>4, <1>5 DEF AuthInv, CallSound, HistorySound, ArrivalSound, KeysSound,
                          ForkSound, RaceSound, LogoutSound

LEMMA AuthStep ==
  ASSUME AuthInv, [Next]_vars
  PROVE  AuthInv'
<1>1. CASE UNCHANGED vars
  BY <1>1 DEF vars, AuthInv, AuthTypeOK, Issued, CallSound, HistorySound, ArrivalSound,
              KeysSound, ForkSound, RaceSound, LogoutSound, Granted, Running, RowOf, Spent,
              Rotated, Overlap, Forked
<1>2. ASSUME NEW r \in Calls, Ask(r) \/ Serve(r) \/ Crash(r)
      PROVE  AuthInv'
  BY <1>2, AskStep, AuthenticateStep, CheckKeyStep, LoadUserStep, RotateStep,
     IssueTokenPairStep, RevokeStep, AuthorizeStep, CrashStep DEF Serve
<1> QED
  BY <1>1, <1>2, EditUserStep, ExpireStep DEF Next, Finished

\* The inductive invariant holds.
THEOREM AuthInvariant == Spec => []AuthInv
BY AuthInit, AuthStep, PTL DEF Spec

\* Every variable has its type; only issued jtis have a key.
THEOREM AuthTypeCorrect == Spec => []AuthTypeOK
<1>1. AuthInv => AuthTypeOK
  BY DEF AuthInv
<1> QED
  BY <1>1, AuthInvariant, PTL

\* However many calls are in progress, a login whose tokens were never
\* rotated twice by overlapping refreshes has one usable refresh token at
\* most, whatever answers are lost and whatever processes die.
THEOREM ForksNeedOverlap == Spec => []OnlyOverlapForks
<1>1. AuthInv => OnlyOverlapForks
  <2> SUFFICES ASSUME AuthInv, NEW s \in keys \ expired, NEW t \in keys \ expired,
                      call[s].login = call[t].login, s # t
               PROVE  Forked(call[t].login)
    BY DEF OnlyOverlapForks
  <2>1. s \in Calls /\ t \in Calls /\ Granted(s) /\ Granted(t)
    BY IssuedGranted DEF AuthInv, AuthTypeOK
  <2>2. ~Spent(s) /\ ~Spent(t)
    BY DEF AuthInv, KeysSound
  <2> QED
    BY <2>1, <2>2 DEF AuthInv, ForkSound
<1> QED
  BY <1>1, AuthInvariant, PTL

\* A logout leaves its login no usable refresh token, unless a refresh that
\* did not wait for it rotated the token, or two had forked the login before.
THEOREM LogoutIsFinal == Spec => []LogoutEndsLogin
<1>1. AuthInv => LogoutEndsLogin
  <2> SUFFICES ASSUME AuthInv, NEW q \in Calls, call[q] # None, call[q].asks = "logout",
                      pc[q] = "ok", ~Forked(call[q].login), NEW s \in Usable(call[q].login),
                      \A r \in Calls : Rotated(r, call[q].token) => ~(r < q \/ q \in beside[r])
               PROVE  FALSE
    BY DEF LogoutEndsLogin
  <2>1. PICK x : x = call[q].token
    OBVIOUS
  <2>2. x \in Calls /\ Issued(x) /\ call[q].login = call[x].login
    BY <2>1 DEF AuthInv, CallSound
  <2>3. /\ s \in keys /\ s \notin expired /\ s \in Calls /\ Granted(s) /\ ~Spent(s)
        /\ call[s].login = call[x].login
    BY <2>2, IssuedGranted DEF Usable, AuthInv, AuthTypeOK, KeysSound
  <2>4. ~Spent(x)
    <3>1. SUFFICES ASSUME NEW r \in Calls, Rotated(r, x)
                   PROVE  FALSE
      BY DEF Spent
    <3>2. /\ call[r] # None /\ call[r].asks = "refresh" /\ call[r].token = x
          /\ pc[r] \in {"issue", "ok", "lost"}
      BY <2>2, <3>1, RotatedIssued DEF Rotated, Granted
    <3>3. ~(r < q) /\ q \notin beside[r] /\ r # q
      BY <2>1, <3>1, <3>2
    <3>4. q < r
      BY <3>3, AuthAssumption DEF Calls
    <3> QED
      BY <2>1, <3>2, <3>3, <3>4 DEF AuthInv, LogoutSound
  <2>5. s = x
    BY <2>2, <2>3, <2>4, IssuedGranted DEF AuthInv, ForkSound
  <2> QED
    BY <2>1, <2>3, <2>5 DEF AuthInv, LogoutSound
<1> QED
  BY <1>1, AuthInvariant, PTL

\* Tokens go to accounts that were active while the call was served.
THEOREM TokensOfTheLiving == Spec => []TokensForLiveAccounts
<1>1. AuthInv => TokensForLiveAccounts
  BY DEF AuthInv, TokensForLiveAccounts, HistorySound, Granted, Live
<1> QED
  BY <1>1, AuthInvariant, PTL

\* A permission comes from the role the account had while the call was
\* served, not from the token.
THEOREM RolesAreCurrent == Spec => []ServedByCurrentRole
<1>1. AuthInv => ServedByCurrentRole
  BY DEF AuthInv, ServedByCurrentRole, HistorySound, Live
<1> QED
  BY <1>1, AuthInvariant, PTL
=============================================================================
