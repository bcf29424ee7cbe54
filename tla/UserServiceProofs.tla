-------------------------- MODULE UserServiceProofs -------------------------
(***************************************************************************)
(* Proofs about UserService, for any number of connections, users, tokens  *)
(* and requests.  All but LogoutFinal and the two theorems at the end,     *)
(* which are about one connection, allow lost Redis commands, SQL errors   *)
(* and crashes.                                                            *)
(***************************************************************************)
EXTENDS UserService, TLAPS

(* The requests a worker may be serving at an access. *)
OpsAt(l) ==
  CASE l \in {"select", "markOnline", "setSession", "getOld", "delOld",
              "setCurrent"} -> {"login"}
    [] l \in {"getSession", "getCurrent", "validBeat", "validJoin"} ->
         {"logout", "heartbeat"}
    [] l \in {"findOwner", "delCurrent", "delSession", "leave", "dbOffline"} ->
         {"logout"}
    [] l \in {"manage", "statusBeat", "dbStatus", "reselect"} -> {"status"}
    [] l \in {"join", "getStatus"} -> {"heartbeat"}
    [] l \in {"cacheName", "cacheStatus", "cacheExpire"} -> {"login", "status"}
    [] l = "beat" -> {"login", "heartbeat"}
    [] l = "delBeat" -> {"logout", "status"}
    [] OTHER -> {"login", "logout", "status", "heartbeat"}

(* What a worker knows of the request it serves and of its token.          *)
Holds(w) ==
  /\ pc[w] # "idle" =>
       /\ req[w] \in Requests
       /\ req[w].op \in OpsAt(pc[w])
       /\ reply[w] = None
  /\ reply[w] # None => req[w] \in Requests
  /\ tok[w] # None <=> (pc[w] # "idle" /\ req[w].op = "login")
  /\ tok[w] # None => issued[tok[w]] = User(w)
  /\ (pc[w] \notin {"idle", "getSession"} /\ req[w].op \in {"logout", "heartbeat"}) =>
       /\ issued[req[w].token] = User(w)
       /\ ~Pending(req[w].token)
  /\ (reply[w] # None /\ reply[w].ok /\ req[w].op \in {"logout", "heartbeat"}) =>
       issued[req[w].token] = User(w)

LocalsHold == \A w \in Workers : Holds(w)

KeysOwned ==
  /\ \A t \in Tokens : Live(t) => sessionKey[t] = issued[t]
  /\ \A u \in Users : userSession[u] # None => issued[userSession[u]] = u

(* A token is one worker's, and stored by it alone. *)
TokensApart ==
  \A v, w \in Workers : tok[v] # None /\ tok[v] = tok[w] => v = w
PendingUnstored == \A t \in Tokens : Pending(t) => ~Live(t)

Inv == TypeOK /\ LocalsHold /\ KeysOwned /\ TokensApart /\ PendingUnstored

Replies == [ok : BOOLEAN, token : Tokens \cup {None}]

LEMMA ReplyTypes ==
  /\ Failed \in Replies
  /\ \A t \in Tokens \cup {None} : Success(t) \in Replies
  BY DEF Failed, Success, Replies

(* What the caller of a step may assume of the request it serves. *)
LEMMA Serving ==
  ASSUME Inv, NEW w \in Workers, pc[w] # "idle"
  PROVE  /\ req[w] \in RequestSpace
         /\ req[w].user \in Users
         /\ req[w].token \in Tokens
         /\ User(w) \in Users
         /\ NewStatus(w) \in Statuses
  <1>1. req[w] \in RequestSpace
    BY RequestsAssumption DEF Inv, LocalsHold, Holds
  <1> QED
    BY <1>1 DEF RequestSpace, User, NewStatus, Statuses

(* A write of a key, done or lost, keeps the type of the map. *)
LEMMA PutTypes ==
  ASSUME NEW S, NEW T, NEW f \in [S -> T], NEW k, NEW v \in T, NEW g \in Put(f, k, v)
  PROVE  g \in [S -> T]
  BY DEF Put, Written

LEMMA DoneTypes ==
  ASSUME TypeOK, NEW w \in Workers, NEW r \in Replies, Done(w, r)
  PROVE  /\ pc' \in [Workers -> Labels]
         /\ req' \in [Workers -> Requests \cup {None}]
         /\ tok' \in [Workers -> Tokens \cup {None}]
         /\ got' \in [Workers -> Users \cup Tokens \cup {None}]
         /\ reply' \in [Workers -> Replies \cup {None}]
  BY DEF TypeOK, Done, Labels, Replies

LEMMA MoveTypes ==
  ASSUME TypeOK, NEW w \in Workers, NEW l, NEW m \in Labels, Move(w, l, m)
  PROVE  /\ pc' \in [Workers -> Labels]
         /\ req' \in [Workers -> Requests \cup {None}]
         /\ tok' \in [Workers -> Tokens \cup {None}]
         /\ got' \in [Workers -> Users \cup Tokens \cup {None}]
         /\ reply' \in [Workers -> Replies \cup {None}]
  BY DEF TypeOK, Move, Goto, Replies

(* A step of a worker is made at its label, not between requests. *)
LEMMA StepBusy ==
  ASSUME NEW w \in Workers, Step(w)
  PROVE  pc[w] # "idle"
  BY DEF Step, Move, At, SelectUser, MarkOnline, SetSession, GetOld, DelOld,
     SetCurrent, PutStatus, PutUserStatus, PutOnline, Beat, CacheName,
     CacheStatus, CacheExpire, GetSession, GetCurrent, ValidBeat, Join,
     GetStatus, FindOwner, DelCurrent, DelSession, Leave, DelBeat, DbOffline,
     Manage, DbStatus, Reselect

LEMMA TypeStep ==
  ASSUME Inv, [Next]_vars
  PROVE  TypeOK'
  <1> USE DEF TypeOK, Replies
  <1>1. CASE UNCHANGED vars
    BY <1>1 DEF Inv, vars, sessions, userHash, presence, control, checker
  <1>2. ASSUME NEW w \in Workers, Arrival(w)
        PROVE  TypeOK'
    <2>1. /\ pc' \in [Workers -> Labels]
          /\ req' \in [Workers -> Requests \cup {None}]
          /\ reply' \in [Workers -> Replies \cup {None}]
          /\ UNCHANGED <<dbStatus, sessionKey, userSession, presence, got, checker>>
          /\ req'[w] \in Requests
      BY <1>2 DEF Inv, Arrival, Login, Logout, UpdateStatus, UpdateHeartbeat,
         Receive, Goto, Labels
    <2>2. req'[w].user \in Users
      BY <2>1, RequestsAssumption DEF RequestSpace
    <2>3. tok' \in [Workers -> Tokens \cup {None}] /\ issued' \in [Tokens -> Users \cup {None}]
      BY <1>2, <2>2 DEF Inv, Arrival, Login, Logout, UpdateStatus, UpdateHeartbeat
    <2> QED
      BY <2>1, <2>3 DEF Inv, presence, userHash, checker
  <1>3. ASSUME NEW w \in Workers, Step(w)
        PROVE  TypeOK'
    <2>0. pc[w] # "idle"
      BY <1>3, StepBusy
    <2> USE <2>0, Serving, ReplyTypes, DoneTypes, MoveTypes
        DEF Inv, At, Seen, sessions, presence, userHash, checker
    <2> DEFINE Control ==
          /\ pc' \in [Workers -> Labels]
          /\ req' \in [Workers -> Requests \cup {None}]
          /\ tok' \in [Workers -> Tokens \cup {None}]
          /\ got' \in [Workers -> Users \cup Tokens \cup {None}]
          /\ reply' \in [Workers -> Replies \cup {None}]
    <2>1. CASE SelectUser(w)  BY <2>1 DEF SelectUser, Labels
    <2>2. CASE MarkOnline(w)  BY <2>2 DEF MarkOnline, Labels, Statuses
    <2>3. CASE SetSession(w)
      <3>1. sessionKey' \in [Tokens -> Users \cup {None}]
        BY <2>3, PutTypes DEF SetSession
      <3> QED
        BY <2>3, <3>1 DEF SetSession, Labels
    <2>4. CASE GetOld(w)  BY <2>4 DEF GetOld, Goto, Labels
    <2>5. CASE DelOld(w)  BY <2>5 DEF DelOld, Put, Written, Labels
    <2>6. CASE SetCurrent(w)
      <3>1. userSession' \in [Users -> Tokens \cup {None}]
        BY <2>6, PutTypes DEF SetCurrent
      <3> QED
        BY <2>6, <3>1 DEF SetCurrent, Labels
    <2>7. CASE PutStatus(w)
      <3>1. statusKey' \in [Users -> Statuses \cup {None}]
        BY <2>7, PutTypes DEF PutStatus
      <3> QED
        BY <2>7, <3>1 DEF PutStatus, Labels
    <2>8. CASE PutUserStatus(w)
      <3>1. userStatus' \in [Users -> Statuses \cup {None}]
        BY <2>8, PutTypes DEF PutUserStatus
      <3> QED
        BY <2>8, <3>1 DEF PutUserStatus, Labels
    <2>9. CASE PutOnline(w)
      <3>1. Control
        BY <2>9 DEF PutOnline, Labels
      <3>2. online' \subseteq Users
        BY <2>9 DEF PutOnline, Written
      <3> QED
        BY <2>9, <3>1, <3>2 DEF PutOnline
    <2>10. CASE Beat(w)  BY <2>10 DEF Beat, Put, Written, Labels
    <2>11. CASE CacheName(w)  BY <2>11 DEF CacheName, Put, Written, Labels
    <2>12. CASE CacheStatus(w)
      <3>1. userStatus' \in [Users -> Statuses \cup {None}]
        BY <2>12, PutTypes DEF CacheStatus
      <3> QED
        BY <2>12, <3>1 DEF CacheStatus, Labels
    <2>13. CASE CacheExpire(w)  BY <2>13 DEF CacheExpire, Put, Written, Labels
    <2>14. CASE GetSession(w)  BY <2>14 DEF GetSession, Labels
    <2>15. CASE GetCurrent(w)  BY <2>15 DEF GetCurrent, Labels
    <2>16. CASE ValidBeat(w)  BY <2>16 DEF ValidBeat, Put, Written, Labels
    <2>17. CASE Join(w)  BY <2>17 DEF Join, Put, Written, Labels
    <2>18. CASE GetStatus(w)  BY <2>18 DEF GetStatus, Labels
    <2>19. CASE FindOwner(w)  BY <2>19 DEF FindOwner, Goto, Labels
    <2>20. CASE DelCurrent(w)  BY <2>20 DEF DelCurrent, Put, Written, Labels
    <2>21. CASE DelSession(w)  BY <2>21 DEF DelSession, Put, Written, Labels
    <2>22. CASE Leave(w)  BY <2>22 DEF Leave, Put, Written, Labels
    <2>23. CASE DelBeat(w)  BY <2>23 DEF DelBeat, Put, Written, Labels
    <2>24. CASE DbOffline(w)  BY <2>24 DEF DbOffline, StoreStatus, Labels
    <2>25. CASE Manage(w)
      <3>1. Control
        BY <2>25 DEF Manage, Labels
      <3>2. online' \subseteq Users
        BY <2>25 DEF Manage, Written
      <3> QED
        BY <2>25, <3>1, <3>2 DEF Manage
    <2>26. CASE DbStatus(w)  BY <2>26 DEF DbStatus, StoreStatus, Labels
    <2>27. CASE Reselect(w)  BY <2>27 DEF Reselect, Labels
    <2> QED
      BY <1>3, <2>1, <2>2, <2>3, <2>4, <2>5, <2>6, <2>7, <2>8, <2>9, <2>10,
         <2>11, <2>12, <2>13, <2>14, <2>15, <2>16, <2>17, <2>18, <2>19, <2>20,
         <2>21, <2>22, <2>23, <2>24, <2>25, <2>26, <2>27 DEF Step
  <1>4. ASSUME NEW w \in Workers, SqlError(w)
        PROVE  TypeOK'
    <2>1. \E r \in Replies : Done(w, r)
      BY <1>4, ReplyTypes DEF SqlError
    <2>2. CASE UNCHANGED dbStatus
      BY <1>4, <2>1, <2>2, DoneTypes
         DEF Inv, SqlError, StoreStatus, sessions, presence, userHash, checker
    <2>3. CASE StoreStatus(w)
      <3>1. pc[w] # "idle"
        BY <1>4 DEF SqlError
      <3>2. dbStatus' \in [Users -> Statuses \cup {None}]
        BY <2>3, <3>1, Serving DEF StoreStatus, Inv
      <3> QED
        BY <2>1, <2>3, <3>2, DoneTypes
           DEF Inv, StoreStatus, sessions, presence, userHash, checker
    <2> QED
      BY <1>4, <2>2, <2>3 DEF SqlError
  <1>5. CASE CheckerStep
    <2> USE DEF Inv, control, sessions, presence, userHash, CheckerLabels,
                Statuses, Put, Written
    <2>1. CASE Scan  BY <2>1 DEF Scan
    <2>2. CASE CheckBeat  BY <2>2 DEF CheckBeat
    <2>3. CASE Sleep  BY <2>3 DEF Sleep
    <2>4. CASE ExpireStatus  BY <2>4 DEF ExpireStatus
    <2>5. CASE RemoveOnline  BY <2>5 DEF RemoveOnline
    <2>6. CASE HashOffline  BY <2>6 DEF HashOffline
    <2>7. CASE RowOffline  BY <2>7 DEF RowOffline
    <2> QED
      BY <1>5, <2>1, <2>2, <2>3, <2>4, <2>5, <2>6, <2>7 DEF CheckerStep
  <1>6. CASE Crash
    BY <1>6 DEF Inv, Crash, sessions, presence, userHash, Labels, CheckerLabels
  <1>7. CASE Expiry
    BY <1>7 DEF Inv, Expiry, ExpireSession, ExpireUserSession, ExpireHeartbeat,
       ExpireUser, control, checker, presence, userHash, sessions
  <1> QED
    BY <1>1, <1>2, <1>3, <1>4, <1>5, <1>6, <1>7 DEF Next

-----------------------------------------------------------------------------
(* A worker's locals are its own. *)
LEMMA OthersKeep ==
  ASSUME TypeOK, NEW w \in Workers, Arrival(w) \/ Step(w) \/ SqlError(w),
         NEW v \in Workers \ {w}
  PROVE  UNCHANGED <<pc[v], req[v], tok[v], got[v], reply[v]>>
  <1> USE DEF TypeOK
  <1>1. ASSUME NEW l, NEW m, Move(w, l, m)
        PROVE  UNCHANGED <<pc[v], req[v], tok[v], got[v], reply[v]>>
    BY <1>1 DEF Move, Goto
  <1>2. ASSUME NEW r, Done(w, r)
        PROVE  UNCHANGED <<pc[v], req[v], tok[v], got[v], reply[v]>>
    BY <1>2 DEF Done
  <1>3. CASE Arrival(w)
    BY <1>3 DEF Arrival, Login, Logout, UpdateStatus, UpdateHeartbeat, Receive, Goto
  <1>4. CASE Step(w)
    <2>1. CASE GetOld(w) \/ FindOwner(w)
      BY <2>1 DEF GetOld, FindOwner, Goto
    <2>2. CASE ~GetOld(w) /\ ~FindOwner(w)
      BY <1>1, <1>2, <1>4, <2>2 DEF Step, SelectUser, MarkOnline, SetSession, DelOld,
         SetCurrent, PutStatus, PutUserStatus, PutOnline, Beat, CacheName,
         CacheStatus, CacheExpire, GetSession, GetCurrent, ValidBeat, Join,
         GetStatus, DelCurrent, DelSession, Leave, DelBeat, DbOffline, Manage,
         DbStatus, Reselect
    <2> QED
      BY <2>1, <2>2
  <1>5. CASE SqlError(w)
    BY <1>2, <1>5 DEF SqlError
  <1> QED
    BY <1>3, <1>4, <1>5

(* Only Login issues tokens, and never one twice. *)
LEMMA IssuedStep ==
  ASSUME Inv, [Next]_vars, NEW t \in Tokens, issued[t] # None
  PROVE  issued'[t] = issued[t]
  <1>1. CASE \E w \in Workers : Login(w)
    BY <1>1 DEF Inv, TypeOK, Login
  <1>2. CASE ~\E w \in Workers : Login(w)
    BY <1>2, ZenonT(60) DEF Next, vars, sessions, Arrival, Step, Logout, UpdateStatus, UpdateHeartbeat,
       SelectUser, MarkOnline, SetSession, GetOld, DelOld,
       SetCurrent, PutStatus, PutUserStatus, PutOnline, Beat, CacheName,
       CacheStatus, CacheExpire, GetSession, GetCurrent, ValidBeat, Join,
       GetStatus, FindOwner, DelCurrent, DelSession, Leave, DelBeat, DbOffline,
       StoreStatus, Manage, DbStatus, Reselect, SqlError, CheckerStep, Scan, CheckBeat,
       Sleep, ExpireStatus, RemoveOnline, HashOffline, RowOffline, Crash, Expiry,
       ExpireSession, ExpireUserSession, ExpireHeartbeat, ExpireUser
  <1> QED
    BY <1>1, <1>2

PendingLabels == {"select", "markOnline", "setSession"}

(* A handler comes to SET session:<t> from its login alone. *)
LEMMA PendingBefore ==
  ASSUME TypeOK, NEW w \in Workers, Step(w) \/ SqlError(w), pc'[w] \in PendingLabels
  PROVE  pc[w] \in PendingLabels /\ tok'[w] = tok[w]
  <1> USE DEF TypeOK, PendingLabels
  <1>1. ASSUME NEW l, NEW m, Move(w, l, m)
        PROVE  pc[w] = l /\ pc'[w] = m /\ tok'[w] = tok[w]
    BY <1>1 DEF Move, At, Goto
  <1>2. ASSUME NEW r, Done(w, r)
        PROVE  pc'[w] = "idle"
    BY <1>2 DEF Done
  <1>3. CASE GetOld(w) \/ FindOwner(w)
    BY <1>3 DEF GetOld, FindOwner, Goto
  <1>4. CASE SqlError(w)
    BY <1>2, <1>4 DEF SqlError
  <1>5. CASE SelectUser(w) \/ MarkOnline(w) \/ SetSession(w)
    BY <1>1, <1>2, <1>5 DEF SelectUser, MarkOnline, SetSession
  <1>6. CASE Step(w) /\ ~GetOld(w) /\ ~FindOwner(w) /\ ~SelectUser(w)
               /\ ~MarkOnline(w) /\ ~SetSession(w)
    BY <1>1, <1>2, <1>6 DEF Step, DelOld,
       SetCurrent, PutStatus, PutUserStatus, PutOnline, Beat, CacheName,
       CacheStatus, CacheExpire, GetSession, GetCurrent, ValidBeat, Join,
       GetStatus, DelCurrent, DelSession, Leave, DelBeat, DbOffline, Manage,
       DbStatus, Reselect
  <1> QED
    BY <1>3, <1>4, <1>5, <1>6

(* A token that has had its chance of being stored gets no other. *)
LEMMA PendingStep ==
  ASSUME Inv, [Next]_vars, NEW t \in Tokens, issued[t] # None, ~Pending(t)
  PROVE  ~Pending(t)'
  <1> DEFINE Holder(v) == tok[v] = t /\ pc[v] \in PendingLabels
  <1>1. \A v \in Workers : ~Holder(v)
    BY DEF Pending, PendingLabels
  <1>2. SUFFICES ASSUME NEW v \in Workers
                 PROVE  ~Holder(v)'
    BY DEF Pending, PendingLabels
  <1>3. CASE UNCHANGED <<pc[v], tok[v]>>
    BY <1>1, <1>3
  <1>4. CASE Arrival(v)
    <2>1. CASE Login(v)
      BY <2>1 DEF Inv, TypeOK, Login
    <2>2. CASE Logout(v) \/ UpdateStatus(v) \/ UpdateHeartbeat(v)
      BY <2>2 DEF Inv, TypeOK, Logout, UpdateStatus, UpdateHeartbeat, Receive, Goto,
         PendingLabels
    <2> QED
      BY <1>4, <2>1, <2>2 DEF Arrival
  <1>5. CASE Step(v) \/ SqlError(v)
    BY <1>1, <1>5, PendingBefore DEF Inv
  <1>6. ASSUME NEW w \in Workers \ {v}, Arrival(w) \/ Step(w) \/ SqlError(w)
        PROVE  ~Holder(v)'
    BY <1>3, <1>6, OthersKeep DEF Inv
  <1>7. CASE Crash
    BY <1>7 DEF Crash, PendingLabels
  <1>8. CASE CheckerStep \/ Expiry \/ UNCHANGED vars
    BY <1>3, <1>8 DEF vars, control, CheckerStep, Scan, CheckBeat,
       Sleep, ExpireStatus, RemoveOnline, HashOffline, RowOffline, Expiry
  <1> QED
    BY <1>4, <1>5, <1>6, <1>7, <1>8 DEF Next

-----------------------------------------------------------------------------
(* What a worker knows stays true while others run: tokens keep their      *)
(* owners.                                                                 *)
LEMMA HoldsStable ==
  ASSUME Inv, [Next]_vars, NEW v \in Workers,
         UNCHANGED <<pc[v], req[v], tok[v], reply[v]>>
  PROVE  Holds(v)'
  <1>1. Holds(v) /\ tok[v] \in Tokens \cup {None}
    BY DEF Inv, LocalsHold, TypeOK
  <1>2. User(v)' = User(v) /\ (req[v] \in Requests => User(v) \in Users /\ User(v) # None /\ req[v].token \in Tokens)
    BY RequestsAssumption, NoneAssumption DEF User, RequestSpace
  <1>3. tok[v] # None => issued'[tok[v]] = User(v)
    BY <1>1, <1>2, IssuedStep DEF Holds
  <1>4. (reply[v] # None /\ reply[v].ok /\ req[v].op \in {"logout", "heartbeat"}) =>
          issued'[req[v].token] = User(v)
    BY <1>1, <1>2, IssuedStep DEF Holds
  <1>5. (pc[v] \notin {"idle", "getSession"} /\ req[v].op \in {"logout", "heartbeat"}) =>
          issued'[req[v].token] = User(v) /\ ~Pending(req[v].token)'
    <2>1. SUFFICES ASSUME pc[v] \notin {"idle", "getSession"}, req[v].op \in {"logout", "heartbeat"}
                   PROVE  issued'[req[v].token] = User(v) /\ ~Pending(req[v].token)'
      OBVIOUS
    <2>2. /\ req[v] \in Requests
          /\ issued[req[v].token] = User(v)
          /\ ~Pending(req[v].token)
      BY <1>1, <2>1 DEF Holds
    <2>3. req[v].token \in Tokens /\ issued[req[v].token] # None
      BY <1>2, <2>2
    <2>4. \A t \in Tokens : issued[t] # None /\ ~Pending(t) => ~Pending(t)'
      BY PendingStep
    <2>5. ~Pending(req[v].token)'
      BY <2>2, <2>3, <2>4 DEF Pending
    <2> QED
      BY <2>2, <2>3, <2>5, IssuedStep
  <1> QED
    BY <1>1, <1>2, <1>3, <1>4, <1>5 DEF Holds

(* An access made, and another to come. *)
LEMMA MoveHolds ==
  ASSUME Inv, [Next]_vars, NEW w \in Workers, NEW l, NEW m, Move(w, l, m),
         l \notin {"idle", "getSession"}, m # "idle", OpsAt(l) \subseteq OpsAt(m) \/ req[w].op \in OpsAt(m)
  PROVE  Holds(w)'
  <1>1. /\ pc[w] = l
        /\ pc'[w] = m
        /\ UNCHANGED <<req[w], tok[w], reply[w]>>
    BY DEF Move, At, Goto, Inv, TypeOK
  <1>2. Holds(w)
    BY DEF Inv, LocalsHold
  <1>3. tok[w] \in Tokens \cup {None}
    BY DEF Inv, TypeOK
  <1>4. req[w] \in Requests /\ User(w)' = User(w) /\ User(w) \in Users /\ User(w) # None
    BY <1>1, <1>2, Serving, NoneAssumption DEF Holds, User
  <1>5. req[w].op \in {"logout", "heartbeat"} =>
          issued'[req[w].token] = User(w) /\ ~Pending(req[w].token)'
    <2>1. SUFFICES ASSUME req[w].op \in {"logout", "heartbeat"}
                   PROVE  issued'[req[w].token] = User(w) /\ ~Pending(req[w].token)'
      OBVIOUS
    <2>2. issued[req[w].token] = User(w) /\ ~Pending(req[w].token) /\ req[w].token \in Tokens
      BY <1>1, <1>2, <2>1, Serving DEF Holds
    <2>3. \A t \in Tokens : issued[t] # None /\ ~Pending(t) => ~Pending(t)'
      BY PendingStep
    <2>4. ~Pending(req[w].token)'
      BY <1>1, <1>4, <2>2, <2>3 DEF Pending
    <2> QED
      BY <1>4, <2>2, <2>4, IssuedStep
  <1>6. tok[w] # None => issued'[tok[w]] = User(w)
    BY <1>2, <1>3, <1>4, IssuedStep DEF Holds
  <1> QED
    BY <1>1, <1>2, <1>4, <1>5, <1>6 DEF Holds

(* A handler that answers. *)
LEMMA DoneHolds ==
  ASSUME Inv, [Next]_vars, NEW w \in Workers, pc[w] # "idle", NEW r, Done(w, r),
         r.ok => pc[w] # "getSession"
  PROVE  Holds(w)'
  <1>1. /\ pc'[w] = "idle"
        /\ reply'[w] = r
        /\ tok'[w] = None
        /\ req'[w] = req[w]
    BY DEF Done, Inv, TypeOK
  <1>2. Holds(w)
    BY DEF Inv, LocalsHold
  <1>3. req[w] \in Requests /\ User(w)' = User(w) /\ User(w) \in Users /\ User(w) # None
        /\ req[w].token \in Tokens
    BY <1>1, <1>2, Serving, NoneAssumption DEF Holds, User
  <1>4. (r.ok /\ req[w].op \in {"logout", "heartbeat"}) => issued'[req[w].token] = User(w)
    BY <1>2, <1>3, IssuedStep DEF Holds
  <1> QED
    BY <1>1, <1>3, <1>4 DEF Holds

LEMMA ArrivalHolds ==
  ASSUME Inv, NEW w \in Workers, Arrival(w)
  PROVE  Holds(w)'
  <1>1. Holds(w) /\ pc[w] = "idle"
    BY DEF Inv, LocalsHold, Arrival, Login, Logout, UpdateStatus, UpdateHeartbeat,
       Receive, At
  <1>2. CASE Login(w)
    <2>1. /\ pc'[w] = "select"
          /\ req'[w] \in Requests
          /\ req'[w].op = "login"
          /\ reply'[w] = None
          /\ tok'[w] # None
          /\ issued'[tok'[w]] = req'[w].user
      BY <1>2, NoneAssumption DEF Login, Receive, Goto, Inv, TypeOK
    <2> QED
      BY <2>1 DEF Holds, OpsAt, User
  <1>3. CASE ~Login(w)
    <2>1. /\ \/ pc'[w] = "getSession" /\ req'[w].op \in {"logout", "heartbeat"}
             \/ pc'[w] = "putStatus" /\ req'[w].op = "status"
          /\ req'[w] \in Requests
          /\ reply'[w] = None
          /\ tok'[w] = tok[w]
      BY <1>3 DEF Arrival, Logout, UpdateStatus, UpdateHeartbeat, Receive, Goto, Inv, TypeOK
    <2> QED
      BY <1>1, <2>1 DEF Holds, OpsAt
  <1> QED
    BY <1>2, <1>3

LEMMA StepHolds ==
  ASSUME Inv, [Next]_vars, NEW w \in Workers, Step(w)
  PROVE  Holds(w)'
  <1>0. Holds(w) /\ pc[w] # "idle"
    BY StepBusy DEF Inv, LocalsHold
  <1>1. ~Failed.ok /\ \A t : Success(t).ok
    BY DEF Failed, Success
  <1> USE <1>0, <1>1, DoneHolds, MoveHolds DEF At, OpsAt
  <1>2. CASE GetSession(w)
    <2>1. CASE Move(w, "getSession", "getCurrent")
      <3>1. /\ pc'[w] = "getCurrent"
            /\ UNCHANGED <<req[w], tok[w], reply[w], issued>>
            /\ pc[w] = "getSession"
        BY <1>2, <2>1 DEF Move, Goto, Inv, TypeOK, GetSession, sessions
      <3>2. req[w] \in Requests /\ req[w].token \in Tokens /\ User(w) # None /\ User(w)' = User(w)
        BY <3>1, Serving, NoneAssumption DEF Holds, User
      <3>3. sessionKey[req[w].token] = User(w)
        BY <1>2, <2>1, <3>1, <3>2 DEF GetSession, Seen, Done, Inv, TypeOK
      <3>4. issued[req[w].token] = User(w) /\ ~Pending(req[w].token)
        BY <3>2, <3>3 DEF Inv, KeysOwned, PendingUnstored, Live
      <3>5. \A t \in Tokens : issued[t] # None /\ ~Pending(t) => ~Pending(t)'
        BY PendingStep
      <3>6. ~Pending(req[w].token)'
        BY <3>1, <3>2, <3>4, <3>5 DEF Pending
      <3> QED
        BY <3>1, <3>2, <3>4, <3>6 DEF Holds
    <2>2. CASE ~Move(w, "getSession", "getCurrent")
      BY <1>2, <2>2 DEF GetSession
    <2> QED
      BY <2>1, <2>2
  <1>3. CASE GetOld(w)
    <2>1. /\ pc[w] = "getOld"
          /\ pc'[w] \in {"setCurrent", "delOld"}
          /\ UNCHANGED <<req[w], tok[w], reply[w], issued>>
      BY <1>3 DEF GetOld, Goto, Inv, TypeOK, sessions
    <2> QED
      BY <2>1 DEF Holds, User
  <1>4. CASE FindOwner(w)
    <2>1. /\ pc[w] = "findOwner"
          /\ pc'[w] \in {"delCurrent", "delSession"}
          /\ UNCHANGED <<req[w], tok[w], reply[w], issued>>
      BY <1>4 DEF FindOwner, Goto, Inv, TypeOK, sessions
    <2>2. /\ req[w] \in Requests
          /\ req[w].op = "logout"
          /\ req[w].token \in Tokens
          /\ issued[req[w].token] = User(w)
          /\ ~Pending(req[w].token)
          /\ User(w) # None
          /\ User(w)' = User(w)
      BY <2>1, Serving, NoneAssumption DEF Holds, User
    <2>3. \A t \in Tokens : issued[t] # None /\ ~Pending(t) => ~Pending(t)'
      BY PendingStep
    <2>4. ~Pending(req[w].token)'
      BY <2>1, <2>2, <2>3 DEF Pending
    <2> QED
      BY <2>1, <2>2, <2>4 DEF Holds
  <1>5. CASE SelectUser(w)  BY <1>5 DEF SelectUser
  <1>6. CASE MarkOnline(w)  BY <1>6 DEF MarkOnline
  <1>7. CASE SetSession(w)  BY <1>7 DEF SetSession
  <1>8. CASE DelOld(w)  BY <1>8 DEF DelOld
  <1>9. CASE SetCurrent(w)  BY <1>9 DEF SetCurrent
  <1>10. CASE PutStatus(w)  BY <1>10 DEF PutStatus
  <1>11. CASE PutUserStatus(w)  BY <1>11 DEF PutUserStatus
  <1>12. CASE PutOnline(w)  BY <1>12 DEF PutOnline
  <1>13. CASE Beat(w)  BY <1>13 DEF Beat
  <1>14. CASE CacheName(w)  BY <1>14 DEF CacheName
  <1>15. CASE CacheStatus(w)  BY <1>15 DEF CacheStatus
  <1>16. CASE CacheExpire(w)  BY <1>16 DEF CacheExpire
  <1>17. CASE GetCurrent(w)  BY <1>17 DEF GetCurrent
  <1>18. CASE ValidBeat(w)  BY <1>18 DEF ValidBeat
  <1>19. CASE Join(w)  BY <1>19 DEF Join
  <1>20. CASE GetStatus(w)  BY <1>20 DEF GetStatus
  <1>21. CASE DelCurrent(w)  BY <1>21 DEF DelCurrent
  <1>22. CASE DelSession(w)  BY <1>22 DEF DelSession
  <1>23. CASE Leave(w)  BY <1>23 DEF Leave
  <1>24. CASE DelBeat(w)  BY <1>24 DEF DelBeat
  <1>25. CASE DbOffline(w)  BY <1>25 DEF DbOffline
  <1>26. CASE Manage(w)  BY <1>26 DEF Manage
  <1>27. CASE DbStatus(w)  BY <1>27 DEF DbStatus
  <1>28. CASE Reselect(w)  BY <1>28 DEF Reselect
  <1> QED
    BY <1>2, <1>3, <1>4, <1>5, <1>6, <1>7, <1>8, <1>9, <1>10, <1>11, <1>12,
       <1>13, <1>14, <1>15, <1>16, <1>17, <1>18, <1>19, <1>20, <1>21, <1>22,
       <1>23, <1>24, <1>25, <1>26, <1>27, <1>28 DEF Step

LEMMA LocalsStep ==
  ASSUME Inv, [Next]_vars
  PROVE  LocalsHold'
  <1>1. SUFFICES ASSUME NEW v \in Workers
                 PROVE  Holds(v)'
    BY DEF LocalsHold
  <1>2. CASE Arrival(v)
    BY <1>2, ArrivalHolds
  <1>3. CASE Step(v)
    BY <1>3, StepHolds
  <1>4. CASE SqlError(v)
    <2>1. /\ pc[v] \in {"select", "markOnline", "dbOffline", "dbStatus", "reselect"}
          /\ \E r : Done(v, r)
      BY <1>4 DEF SqlError
    <2> QED
      BY <2>1, DoneHolds
  <1>5. ASSUME NEW w \in Workers \ {v}, Arrival(w) \/ Step(w) \/ SqlError(w)
        PROVE  Holds(v)'
    BY <1>5, OthersKeep, HoldsStable DEF Inv
  <1>6. CASE Crash
    <2>1. Holds(v) /\ pc'[v] = "idle" /\ tok'[v] = None /\ UNCHANGED <<req[v], reply[v], issued>>
      BY <1>6 DEF Inv, LocalsHold, Crash, sessions
    <2> QED
      BY <2>1 DEF Holds, User
  <1>7. CASE CheckerStep \/ Expiry \/ UNCHANGED vars
    <2>1. UNCHANGED control
      BY <1>7 DEF vars, CheckerStep, Scan, CheckBeat, Sleep, ExpireStatus,
         RemoveOnline, HashOffline, RowOffline, Expiry
    <2> QED
      BY <2>1, HoldsStable DEF control
  <1> QED
    BY <1>2, <1>3, <1>4, <1>5, <1>6, <1>7 DEF Next

(* Login draws a token nobody holds; a token is never passed on.           *)
LEMMA TokensStep ==
  ASSUME Inv, [Next]_vars
  PROVE  TokensApart'
  <1>1. ASSUME NEW v \in Workers
        PROVE  \/ tok'[v] \in {tok[v], None}
               \/ /\ issued[tok'[v]] = None
                  /\ \A w \in Workers \ {v} : tok'[w] = tok[w]
    <2>1. CASE Arrival(v)
      BY <2>1, OthersKeep DEF Inv, TypeOK, Arrival, Login, Logout, UpdateStatus,
         UpdateHeartbeat
    <2>2. CASE Step(v) \/ SqlError(v)
      <3>1. ASSUME NEW l, NEW m, Move(v, l, m)
            PROVE  tok'[v] = tok[v]
        BY <3>1 DEF Move
      <3>2. ASSUME NEW r, Done(v, r)
            PROVE  tok'[v] = None
        BY <3>2 DEF Done, Inv, TypeOK
      <3> QED
        BY <2>2, <3>1, <3>2 DEF Step, SqlError, SelectUser, MarkOnline, SetSession,
           GetOld, DelOld, SetCurrent, PutStatus, PutUserStatus, PutOnline, Beat,
           CacheName, CacheStatus, CacheExpire, GetSession, GetCurrent, ValidBeat,
           Join, GetStatus, FindOwner, DelCurrent, DelSession, Leave, DelBeat,
           DbOffline, Manage, DbStatus, Reselect
    <2>3. ASSUME NEW w \in Workers \ {v}, Arrival(w) \/ Step(w) \/ SqlError(w)
          PROVE  tok'[v] = tok[v]
      BY <2>3, OthersKeep DEF Inv
    <2>4. CASE Crash
      BY <2>4 DEF Crash
    <2>5. CASE CheckerStep \/ Expiry \/ UNCHANGED vars
      BY <2>5 DEF vars, control, CheckerStep, Scan, CheckBeat, Sleep, ExpireStatus,
         RemoveOnline, HashOffline, RowOffline, Expiry
    <2> QED
      BY <2>1, <2>2, <2>3, <2>4, <2>5 DEF Next
  <1>2. \A w \in Workers : tok[w] # None => issued[tok[w]] # None
    BY Serving, NoneAssumption DEF Inv, LocalsHold, Holds
  <1> QED
    BY <1>1, <1>2 DEF Inv, TokensApart

(* session:<t> is written by the one login that drew t. *)
LEMMA SessionWrites ==
  ASSUME Inv, [Next]_vars, NEW t \in Tokens
  PROVE  \/ sessionKey'[t] \in {sessionKey[t], None}
         \/ \E w \in Workers :
              /\ SetSession(w)
              /\ pc[w] = "setSession"
              /\ t = tok[w]
              /\ sessionKey'[t] = User(w)
              /\ issued' = issued
  <1>1. CASE \E w \in Workers : SetSession(w)
    BY <1>1 DEF SetSession, Move, At, Put, Written, Inv, TypeOK
  <1>2. CASE \A w \in Workers : ~SetSession(w)
    BY <1>2, ZenonT(60) DEF Inv, TypeOK, Next, vars, sessions, Put, Written, Arrival, Step,
       Login, Logout, UpdateStatus, UpdateHeartbeat, Receive, SelectUser,
       MarkOnline, GetOld, DelOld, SetCurrent, PutStatus, PutUserStatus,
       PutOnline, Beat, CacheName, CacheStatus, CacheExpire, GetSession,
       GetCurrent, ValidBeat, Join, GetStatus, FindOwner, DelCurrent,
       DelSession, Leave, DelBeat, DbOffline, StoreStatus, Manage, DbStatus,
       Reselect, SqlError, CheckerStep, Scan, CheckBeat, Sleep, ExpireStatus,
       RemoveOnline, HashOffline, RowOffline, Crash, Expiry, ExpireSession,
       ExpireUserSession, ExpireHeartbeat, ExpireUser
  <1> QED
    BY <1>1, <1>2

LEMMA UnstoredStep ==
  ASSUME Inv, [Next]_vars
  PROVE  PendingUnstored'
  <1>1. SUFFICES ASSUME NEW t \in Tokens, Pending(t)'
                 PROVE  ~Live(t)'
    BY DEF PendingUnstored
  <1>2. issued[t] = None \/ Pending(t)
    BY <1>1, PendingStep
  <1>3. ~Live(t)
    <2>1. Live(t) => issued[t] # None
      BY NoneAssumption DEF Inv, TypeOK, KeysOwned, Live
    <2> QED
      BY <1>2, <2>1 DEF Inv, PendingUnstored
  <1>4. ASSUME NEW w \in Workers, SetSession(w), t = tok[w]
        PROVE  FALSE
    <2>1. /\ pc'[w] = "getOld"
          /\ tok' = tok
          /\ \A v \in Workers \ {w} : pc'[v] = pc[v]
      BY <1>4 DEF SetSession, Move, Goto, Inv, TypeOK
    <2>2. PICK v \in Workers : tok'[v] = t /\ pc'[v] \in PendingLabels
      BY <1>1 DEF Pending, PendingLabels
    <2>3. v # w /\ tok[v] = tok[w] /\ tok[v] # None
      BY <1>4, <2>1, <2>2, NoneAssumption DEF PendingLabels
    <2> QED
      BY <2>3 DEF Inv, TokensApart
  <1> QED
    BY <1>3, <1>4, SessionWrites DEF Live

(* The two keys are written with a token and the user it was drawn for.    *)
LEMMA KeysStep ==
  ASSUME Inv, [Next]_vars
  PROVE  KeysOwned'
  <1>1. \A t \in Tokens : issued[t] # None => issued'[t] = issued[t]
    BY IssuedStep
  <1>2. ASSUME NEW w \in Workers, pc[w] \in {"setSession", "setCurrent"}
        PROVE  /\ tok[w] \in Tokens
               /\ User(w) \in Users
               /\ User(w) # None
               /\ issued[tok[w]] = User(w)
    BY <1>2, Serving, NoneAssumption DEF Inv, TypeOK, LocalsHold, Holds, OpsAt
  <1>3. /\ \A t \in Tokens : Live(t) => sessionKey[t] = issued[t] /\ issued[t] # None
        /\ \A u \in Users : userSession[u] # None =>
             /\ userSession[u] \in Tokens
             /\ issued[userSession[u]] = u
             /\ u # None
    BY NoneAssumption DEF Inv, TypeOK, KeysOwned, Live
  <1>4. ASSUME NEW t \in Tokens, Live(t)'
        PROVE  sessionKey'[t] = issued'[t]
    BY <1>1, <1>2, <1>3, <1>4, SessionWrites DEF Live
  <1>5. ASSUME NEW u \in Users, userSession'[u] # None
        PROVE  issued'[userSession'[u]] = u
    <2>1. CASE userSession'[u] \in {userSession[u], None}
      BY <1>1, <1>3, <1>5, <2>1
    <2>2. ASSUME NEW w \in Workers, SetCurrent(w)
          PROVE  issued'[userSession'[u]] = u
      <3>1. /\ pc[w] = "setCurrent"
            /\ issued' = issued
            /\ \/ userSession'[u] = userSession[u]
               \/ u = User(w) /\ userSession'[u] = tok[w]
        BY <2>2 DEF SetCurrent, Move, At, Put, Written, Inv, TypeOK
      <3> QED
        BY <1>2, <2>1, <3>1
    <2>3. CASE \A w \in Workers : ~SetCurrent(w)
      <3>1. userSession'[u] \in {userSession[u], None}
        BY <2>3, ZenonT(60) DEF Inv, TypeOK, Next, vars, sessions, Put, Written, Arrival, Step,
           Login, Logout, UpdateStatus, UpdateHeartbeat, Receive, SelectUser,
           MarkOnline, SetSession, GetOld, DelOld, PutStatus, PutUserStatus,
           PutOnline, Beat, CacheName, CacheStatus, CacheExpire, GetSession,
           GetCurrent, ValidBeat, Join, GetStatus, FindOwner, DelCurrent,
           DelSession, Leave, DelBeat, DbOffline, StoreStatus, Manage, DbStatus,
           Reselect, SqlError, CheckerStep, Scan, CheckBeat, Sleep, ExpireStatus,
           RemoveOnline, HashOffline, RowOffline, Crash, Expiry, ExpireSession,
           ExpireUserSession, ExpireHeartbeat, ExpireUser
      <3> QED
        BY <2>1, <3>1
    <2> QED
      BY <2>2, <2>3
  <1> QED
    BY <1>4, <1>5 DEF KeysOwned

LEMMA Initially ==
  ASSUME Init
  PROVE  Inv
  <1>1. TypeOK
    BY NoneAssumption DEF Init, TypeOK, Statuses, Labels, CheckerLabels
  <1>2. LocalsHold /\ KeysOwned /\ TokensApart /\ PendingUnstored
    BY DEF Init, LocalsHold, Holds, KeysOwned, TokensApart, PendingUnstored, Live,
       Pending
  <1> QED
    BY <1>1, <1>2 DEF Inv

THEOREM Invariance == Spec => []Inv
  <1>1. Inv /\ [Next]_vars => Inv'
    BY TypeStep, LocalsStep, KeysStep, TokensStep, UnstoredStep DEF Inv
  <1> QED
    BY <1>1, Initially, PTL DEF Spec

(* Every variable keeps to the values the code can give it. *)
THEOREM TypeCorrect == Spec => []TypeOK
  <1>1. Inv => TypeOK
    BY DEF Inv
  <1> QED
    BY <1>1, Invariance, PTL

(* The session keys name the user a token was drawn for, and no handler    *)
(* past validateSession answers for anybody else.                          *)
THEOREM OnlyOwners == Spec => []SessionsOwned
  <1>1. Inv => SessionsOwned
    BY DEF Inv, KeysOwned, LocalsHold, Holds, SessionsOwned
  <1> QED
    BY <1>1, Invariance, PTL

(* A session that ended stays ended, however requests interleave, whatever *)
(* the lost commands, errors and crashes.                                  *)
LEMMA EndedStep ==
  ASSUME Inv, [Next]_vars, NEW t \in Tokens, Dead(t)
  PROVE  Dead(t)'
  <1>1. issued'[t] = issued[t] /\ ~Pending(t)'
    BY IssuedStep, PendingStep DEF Dead
  <1> QED
    BY <1>1, SessionWrites DEF Dead, Live, Pending

THEOREM NoRevival == Spec => EndedStaysEnded
  <1>1. Inv /\ [Next]_vars => [\A t \in Tokens : Dead(t) => Dead(t)']_vars
    BY EndedStep
  <1> QED
    BY <1>1, Invariance, PTL DEF Spec, EndedStaysEnded

-----------------------------------------------------------------------------
(* From DEL session:<t> on, a logout knows that its token has ended.       *)
LateLabels == {"putStatus", "putUserStatus", "putOnline", "leave", "delBeat", "dbOffline"}
Ended(w) ==
  (/\ req[w] \in Requests
   /\ req[w].op = "logout"
   /\ pc[w] \in LateLabels \/ (reply[w] # None /\ reply[w].ok))
  => Dead(req[w].token)

LEMMA EndedKept ==
  ASSUME Inv, [Next]_vars, NEW v \in Workers, Ended(v), req'[v] = req[v],
         pc'[v] \in LateLabels => pc[v] \in LateLabels,
         (reply'[v] # None /\ reply'[v].ok) =>
            pc[v] \in LateLabels \/ (reply[v] # None /\ reply[v].ok)
  PROVE  Ended(v)'
  <1>1. req[v] \in Requests => req[v].token \in Tokens
    BY RequestsAssumption DEF RequestSpace
  <1>2. \A t \in Tokens : Dead(t) => Dead(t)'
    BY EndedStep
  <1>3. ASSUME NEW t \in Tokens, req'[v].token = t, Dead(t)'
        PROVE  Dead(req[v].token)'
    BY <1>3 DEF Dead, Pending, Live
  <1> QED
    BY <1>1, <1>2, <1>3 DEF Ended

LEMMA EndedOwn ==
  ASSUME ~LossyRedis, Inv, [Next]_vars, NEW w \in Workers, Ended(w),
         Arrival(w) \/ Step(w) \/ SqlError(w)
  PROVE  Ended(w)'
  <1>0. Holds(w) /\ TypeOK
    BY DEF Inv, LocalsHold
  <1>1. ASSUME NEW l, NEW m, Move(w, l, m), l # "idle",
               m \in LateLabels => l \in LateLabels \/ req[w].op # "logout"
        PROVE  Ended(w)'
    <2>1. pc[w] = l /\ pc'[w] = m /\ req'[w] = req[w] /\ reply'[w] = None
      BY <1>0, <1>1 DEF Move, At, Goto, TypeOK, Holds
    <2>2. CASE req[w].op = "logout"
      BY <1>1, <2>1, <2>2, EndedKept
    <2>3. CASE req[w].op # "logout"
      BY <2>1, <2>3 DEF Ended
    <2> QED
      BY <2>2, <2>3
  <1>2. ASSUME NEW r, Done(w, r), r.ok => pc[w] \in LateLabels \/ req[w].op # "logout"
        PROVE  Ended(w)'
    <2>1. pc'[w] = "idle" /\ req'[w] = req[w] /\ reply'[w] = r
      BY <1>0, <1>2 DEF Done, TypeOK
    <2>2. CASE req[w].op = "logout"
      BY <1>2, <2>1, <2>2, EndedKept DEF LateLabels
    <2>3. CASE req[w].op # "logout"
      BY <2>1, <2>3 DEF Ended
    <2> QED
      BY <2>2, <2>3
  <1>3. CASE Arrival(w)
    <2>1. /\ reply'[w] = None
          /\ pc'[w] \in LateLabels => req'[w].op = "status"
      BY <1>0, <1>3 DEF TypeOK, Arrival, Login, Logout, UpdateStatus, UpdateHeartbeat,
         Receive, Goto, LateLabels
    <2> QED
      BY <2>1 DEF Ended
  <1>4. CASE DelSession(w)
    <2>1. /\ pc[w] = "delSession"
          /\ req'[w] = req[w]
          /\ sessionKey' = [sessionKey EXCEPT ![req[w].token] = None]
          /\ issued' = issued
      BY <1>0, <1>4 DEF DelSession, Move, At, Put, Written, TypeOK
    <2>2. /\ req[w].token \in Tokens
          /\ User(w) # None
          /\ issued[req[w].token] = User(w)
          /\ ~Pending(req[w].token)
      BY <1>0, <2>1, Serving, NoneAssumption DEF Holds, OpsAt
    <2>3. ASSUME NEW t \in Tokens, t = req[w].token
          PROVE  Dead(t)'
      BY <1>0, <2>1, <2>2, <2>3, PendingStep DEF Dead, Live, TypeOK
    <2>4. Dead(req[w].token)'
      BY <2>1, <2>2, <2>3 DEF Dead, Pending, Live
    <2> QED
      BY <2>4 DEF Ended
  <1>5. CASE SqlError(w)
    <2>1. PICK r : Done(w, r) /\ (r.ok => pc[w] = "dbOffline")
      BY <1>5 DEF SqlError, At, Failed
    <2> QED
      BY <1>2, <2>1 DEF LateLabels
  <1>6. CASE Step(w) /\ ~DelSession(w)
    <2> USE <1>1, <1>2 DEF LateLabels
    <2>0. pc[w] # "idle" /\ ~Failed.ok
      BY <1>6, StepBusy DEF Failed
    <2>1. req[w].op \in OpsAt(pc[w])
      BY <1>0, <2>0 DEF Holds
    <2>2. CASE GetOld(w) \/ FindOwner(w)
      <3>1. pc'[w] \notin LateLabels /\ req'[w] = req[w] /\ reply'[w] = reply[w]
        BY <1>0, <2>2 DEF GetOld, FindOwner, Goto, TypeOK
      <3> QED
        BY <3>1, EndedKept
    <2>3. CASE SelectUser(w)  BY <2>0, <2>3 DEF SelectUser
    <2>4. CASE MarkOnline(w)  BY <2>4 DEF MarkOnline
    <2>5. CASE SetSession(w)  BY <2>5 DEF SetSession
    <2>6. CASE DelOld(w)  BY <2>6 DEF DelOld
    <2>7. CASE SetCurrent(w)  BY <2>1, <2>7 DEF SetCurrent, Move, At, OpsAt
    <2>8. CASE PutStatus(w)  BY <2>8 DEF PutStatus
    <2>9. CASE PutUserStatus(w)  BY <2>9 DEF PutUserStatus
    <2>10. CASE PutOnline(w)  BY <2>10 DEF PutOnline, At
    <2>11. CASE Beat(w)  BY <2>11 DEF Beat
    <2>12. CASE CacheName(w)  BY <2>12 DEF CacheName
    <2>13. CASE CacheStatus(w)  BY <2>13 DEF CacheStatus
    <2>14. CASE CacheExpire(w)  BY <2>1, <2>14 DEF CacheExpire, At, OpsAt
    <2>15. CASE GetSession(w)  BY <2>0, <2>15 DEF GetSession
    <2>16. CASE GetCurrent(w)  BY <2>0, <2>16 DEF GetCurrent
    <2>17. CASE ValidBeat(w)  BY <2>17 DEF ValidBeat
    <2>18. CASE Join(w)  BY <2>18 DEF Join
    <2>19. CASE GetStatus(w)  BY <2>1, <2>19 DEF GetStatus, At, Move, OpsAt
    <2>20. CASE DelCurrent(w)  BY <2>20 DEF DelCurrent
    <2>21. CASE Leave(w)  BY <2>21 DEF Leave
    <2>22. CASE DelBeat(w)  BY <2>22 DEF DelBeat
    <2>23. CASE DbOffline(w)  BY <2>23 DEF DbOffline, At
    <2>24. CASE Manage(w)  BY <2>1, <2>24 DEF Manage, At, OpsAt
    <2>25. CASE DbStatus(w)  BY <2>25 DEF DbStatus
    <2>26. CASE Reselect(w)  BY <2>0, <2>26 DEF Reselect
    <2> QED
      BY <1>6, <2>2, <2>3, <2>4, <2>5, <2>6, <2>7, <2>8, <2>9, <2>10, <2>11,
         <2>12, <2>13, <2>14, <2>15, <2>16, <2>17, <2>18, <2>19, <2>20, <2>21,
         <2>22, <2>23, <2>24, <2>25, <2>26 DEF Step
  <1> QED
    BY <1>3, <1>4, <1>5, <1>6

LEMMA EndedAll ==
  ASSUME ~LossyRedis, Inv, [Next]_vars, \A v \in Workers : Ended(v)
  PROVE  \A v \in Workers : Ended(v)'
  <1>1. TAKE v \in Workers
  <1>2. CASE Arrival(v) \/ Step(v) \/ SqlError(v)
    BY <1>2, EndedOwn
  <1>3. ASSUME UNCHANGED <<pc[v], req[v], reply[v]>>
        PROVE  Ended(v)'
    BY <1>3, EndedKept
  <1>4. ASSUME NEW w \in Workers \ {v}, Arrival(w) \/ Step(w) \/ SqlError(w)
        PROVE  Ended(v)'
    BY <1>3, <1>4, OthersKeep DEF Inv
  <1>5. CASE Crash
    <2>1. pc'[v] = "idle" /\ UNCHANGED <<req[v], reply[v]>>
      BY <1>5 DEF Crash
    <2> QED
      BY <2>1, EndedKept DEF LateLabels
  <1>6. CASE CheckerStep \/ Expiry \/ UNCHANGED vars
    BY <1>3, <1>6 DEF vars, control, CheckerStep, Scan, CheckBeat, Sleep,
       ExpireStatus, RemoveOnline, HashOffline, RowOffline, Expiry
  <1> QED
    BY <1>2, <1>4, <1>5, <1>6 DEF Next

(* When Redis loses no command, the token of an answered logout is of no   *)
(* more use, whatever else its user's connections do.                      *)
THEOREM LogoutFinal ==
  ASSUME ~LossyRedis
  PROVE  Spec => []LogoutEnds
  <1> DEFINE AllEnded == \A w \in Workers : Ended(w)
  <1>1. Init => AllEnded
    BY DEF Init, Ended, LateLabels
  <1>2. Inv /\ AllEnded /\ [Next]_vars => AllEnded'
    BY EndedAll
  <1>3. Inv /\ AllEnded => LogoutEnds
    BY DEF Inv, LocalsHold, Holds, Ended, LogoutEnds
  <1> QED
    BY <1>1, <1>2, <1>3, Invariance, PTL DEF Spec
-----------------------------------------------------------------------------
(* One connection at a time, beside the checker: what its handler leaves   *)
(* behind.  With two, a login overlaps a logout or another login of the    *)
(* same user, and neither invariant below holds.                           *)
StoringLabels == {"getOld", "delOld", "setCurrent"}
SessionLabels == StoringLabels \cup {"delCurrent", "delSession"}

AllCurrent == \A t \in Tokens : Live(t) => userSession[issued[t]] = t

(* The sessions that are not current while a handler replaces or removes   *)
(* one: the token just stored, the old one about to be deleted, and the    *)
(* one whose user key is gone already.                                     *)
Current(w) ==
  /\ \A t \in Tokens : Live(t) =>
       \/ /\ userSession[issued[t]] = t
          /\ pc[w] \in {"delOld", "setCurrent"} => issued[t] # User(w)
       \/ pc[w] \in StoringLabels /\ t = tok[w]
       \/ pc[w] = "delOld" /\ t = got[w]
       \/ pc[w] = "delSession" /\ t = req[w].token
  /\ pc[w] = "delCurrent" =>
       got[w] = User(w) /\ userSession[User(w)] \in {req[w].token, None}

LEMMA PlainCurrent ==
  ASSUME NEW w \in Workers, pc[w] \notin SessionLabels
  PROVE  Current(w) <=> AllCurrent
  BY DEF SessionLabels, StoringLabels, Current, AllCurrent

LEMMA PlainCurrentNext ==
  ASSUME NEW w \in Workers, pc'[w] \notin SessionLabels, AllCurrent'
  PROVE  Current(w)'
  BY DEF SessionLabels, StoringLabels, Current, AllCurrent

(* The other accesses of a handler leave the session keys alone. *)
LEMMA PlainSteps ==
  ASSUME TypeOK, NEW w \in Workers, Step(w),
         ~SetSession(w), ~GetOld(w), ~DelOld(w), ~SetCurrent(w), ~FindOwner(w),
         ~DelCurrent(w), ~DelSession(w)
  PROVE  /\ UNCHANGED sessions
         /\ pc[w] \notin SessionLabels
         /\ pc'[w] \notin SessionLabels
  <1>1. ASSUME NEW l, NEW m, Move(w, l, m)
        PROVE  pc[w] = l /\ pc'[w] = m
    BY <1>1 DEF Move, At, Goto, TypeOK
  <1>2. ASSUME NEW r, Done(w, r)
        PROVE  pc'[w] = "idle"
    BY <1>2 DEF Done, TypeOK
  <1> USE <1>1, <1>2 DEF SessionLabels, StoringLabels, At
  <1>3. CASE SelectUser(w) \/ MarkOnline(w) \/ PutStatus(w) \/ PutUserStatus(w)
               \/ PutOnline(w) \/ Beat(w) \/ CacheName(w) \/ CacheStatus(w)
    BY <1>3 DEF SelectUser, MarkOnline, PutStatus, PutUserStatus, PutOnline, Beat,
       CacheName, CacheStatus
  <1>4. CASE CacheExpire(w) \/ GetSession(w) \/ GetCurrent(w) \/ ValidBeat(w)
               \/ Join(w) \/ GetStatus(w) \/ Leave(w)
    BY <1>4 DEF CacheExpire, GetSession, GetCurrent, ValidBeat, Join, GetStatus, Leave
  <1>5. CASE DelBeat(w) \/ DbOffline(w) \/ Manage(w) \/ DbStatus(w) \/ Reselect(w)
    BY <1>5 DEF DelBeat, DbOffline, StoreStatus, Manage, DbStatus, Reselect
  <1> QED
    BY <1>3, <1>4, <1>5 DEF Step

(* The accesses of storeSession and removeSession, one by one. *)
LEMMA StoringStep ==
  ASSUME ~LossyRedis, Inv, NEW w \in Workers, Current(w),
         SetSession(w) \/ GetOld(w) \/ DelOld(w) \/ SetCurrent(w)
  PROVE  Current(w)'
  <1>0. /\ TypeOK
        /\ \A t \in Tokens : Live(t) => issued[t] \in Users
        /\ pc[w] # "idle"
    BY DEF Inv, KeysOwned, TypeOK, Live, SetSession, GetOld, DelOld, SetCurrent,
       Move, At
  <1>1. User(w) \in Users /\ User(w) # None /\ tok[w] \in Tokens /\ issued[tok[w]] = User(w)
    BY <1>0, Serving, NoneAssumption DEF Inv, TypeOK, LocalsHold, Holds, OpsAt,
       SetSession, GetOld, DelOld, SetCurrent, Move, At
  <1>2. CASE SetSession(w)
    <2>1. /\ pc[w] = "setSession" /\ pc'[w] = "getOld"
          /\ tok' = tok
          /\ sessionKey' = [sessionKey EXCEPT ![tok[w]] = User(w)]
          /\ UNCHANGED <<userSession, issued>>
      BY <1>0, <1>2 DEF SetSession, Move, At, Goto, TypeOK, Put, Written
    <2>2. \A t \in Tokens \ {tok[w]} : sessionKey'[t] = sessionKey[t]
      BY <1>0, <2>1 DEF TypeOK
    <2> QED
      BY <2>1, <2>2 DEF Current, StoringLabels, Live
  <1>3. CASE GetOld(w)
    <2>1. /\ pc[w] = "getOld"
          /\ got' = [got EXCEPT ![w] = userSession[User(w)]]
          /\ pc'[w] = (IF userSession[User(w)] = None THEN "setCurrent" ELSE "delOld")
          /\ UNCHANGED <<sessionKey, userSession, issued, tok, req>>
      BY <1>0, <1>3 DEF GetOld, At, Goto, TypeOK, Seen, sessions
    <2>2. got'[w] = userSession[User(w)] /\ User(w)' = User(w)
      BY <1>0, <2>1 DEF TypeOK, User
    <2>3. \A t \in Tokens \ {tok[w]} : Live(t) => userSession[issued[t]] = t
      BY <2>1 DEF Current
    <2> QED
      BY <1>0, <2>1, <2>2, <2>3, NoneAssumption DEF Current, StoringLabels, Live
  <1>4. CASE DelOld(w)
    <2>1. /\ pc[w] = "delOld" /\ pc'[w] = "setCurrent"
          /\ UNCHANGED <<tok, req, userSession, issued>>
          /\ sessionKey' = [sessionKey EXCEPT ![got[w]] = None]
      BY <1>0, <1>4 DEF DelOld, Move, At, Goto, TypeOK, Put, Written
    <2>2. /\ User(w)' = User(w)
          /\ \A t \in Tokens : Live(t)' => Live(t) /\ t # got[w]
      BY <1>0, <2>1 DEF TypeOK, User, Live
    <2> QED
      BY <2>1, <2>2 DEF Current, StoringLabels
  <1>5. CASE SetCurrent(w)
    <2>1. /\ pc[w] = "setCurrent" /\ pc'[w] = "putStatus"
          /\ UNCHANGED <<sessionKey, issued>>
          /\ userSession' = [userSession EXCEPT ![User(w)] = tok[w]]
      BY <1>0, <1>5 DEF SetCurrent, Move, At, Goto, TypeOK, Put, Written
    <2>2. ASSUME NEW t \in Tokens, Live(t)
          PROVE  userSession'[issued[t]] = t
      <3>1. t = tok[w] \/ (userSession[issued[t]] = t /\ issued[t] # User(w))
        BY <2>1, <2>2 DEF Current
      <3> QED
        BY <1>0, <1>1, <2>1, <2>2, <3>1 DEF TypeOK
    <2>3. AllCurrent'
      BY <2>1, <2>2 DEF AllCurrent, Live
    <2> QED
      BY <2>1, <2>3, PlainCurrentNext DEF SessionLabels, StoringLabels
  <1> QED
    BY <1>2, <1>3, <1>4, <1>5

LEMMA RemovingStep ==
  ASSUME ~LossyRedis, Inv, NEW w \in Workers, Current(w),
         FindOwner(w) \/ DelCurrent(w) \/ DelSession(w)
  PROVE  Current(w)'
  <1>0. /\ TypeOK
        /\ \A t \in Tokens : Live(t) => sessionKey[t] = issued[t] /\ issued[t] \in Users
        /\ pc[w] # "idle"
    BY DEF Inv, KeysOwned, TypeOK, Live, FindOwner, DelCurrent, DelSession, Move, At
  <1>1. /\ User(w) \in Users
        /\ req[w].token \in Tokens
        /\ issued[req[w].token] = User(w)
    BY <1>0, Serving DEF Inv, LocalsHold, Holds, OpsAt, FindOwner, DelCurrent,
       DelSession, Move, At
  <1>2. CASE FindOwner(w)
    <2>1. /\ pc[w] = "findOwner"
          /\ got' = [got EXCEPT ![w] = sessionKey[req[w].token]]
          /\ pc'[w] = (IF sessionKey[req[w].token] = None THEN "delSession"
                       ELSE "delCurrent")
          /\ UNCHANGED <<sessionKey, userSession, issued, req>>
      BY <1>0, <1>2 DEF FindOwner, At, Goto, TypeOK, Seen, sessions
    <2>2. got'[w] = sessionKey[req[w].token] /\ User(w)' = User(w)
      BY <1>0, <2>1 DEF TypeOK, User
    <2>3. \A t \in Tokens : Live(t) => userSession[issued[t]] = t
      BY <2>1 DEF Current, StoringLabels
    <2>4. CASE sessionKey[req[w].token] = None
      BY <2>1, <2>3, <2>4 DEF Current, StoringLabels, Live
    <2>5. CASE sessionKey[req[w].token] # None
      <3>1. Live(req[w].token)
        BY <2>5 DEF Live
      <3>2. got'[w] = User(w)' /\ userSession'[User(w)'] = req'[w].token
        BY <1>0, <1>1, <2>1, <2>2, <2>3, <3>1
      <3> QED
        BY <2>1, <2>3, <2>5, <3>2 DEF Current, StoringLabels, Live
    <2> QED
      BY <2>4, <2>5
  <1>3. CASE DelCurrent(w)
    <2>1. /\ pc[w] = "delCurrent" /\ pc'[w] = "delSession"
          /\ UNCHANGED <<sessionKey, issued, req>>
          /\ userSession' = [userSession EXCEPT ![got[w]] = None]
      BY <1>0, <1>3 DEF DelCurrent, Move, At, Goto, TypeOK, Put, Written
    <2>2. got[w] = User(w) /\ userSession[User(w)] \in {req[w].token, None}
      BY <2>1 DEF Current
    <2>3. ASSUME NEW t \in Tokens, Live(t), t # req[w].token
          PROVE  userSession'[issued[t]] = t
      <3>1. userSession[issued[t]] = t
        BY <2>1, <2>3 DEF Current, StoringLabels
      <3>2. issued[t] # User(w)
        BY <2>2, <2>3, <3>1, NoneAssumption
      <3> QED
        BY <1>0, <1>1, <2>1, <2>2, <2>3, <3>1, <3>2 DEF TypeOK
    <2> QED
      BY <2>1, <2>3 DEF Current, StoringLabels, Live
  <1>4. CASE DelSession(w)
    <2>1. /\ pc[w] = "delSession" /\ pc'[w] = "putStatus"
          /\ UNCHANGED <<userSession, issued>>
          /\ sessionKey' = [sessionKey EXCEPT ![req[w].token] = None]
      BY <1>0, <1>4 DEF DelSession, Move, At, Goto, TypeOK, Put, Written
    <2>2. \A t \in Tokens : Live(t)' => Live(t) /\ t # req[w].token
      BY <1>0, <2>1 DEF TypeOK, Live
    <2>3. AllCurrent'
      BY <2>1, <2>2 DEF AllCurrent, Current, StoringLabels
    <2> QED
      BY <2>1, <2>3, PlainCurrentNext DEF SessionLabels, StoringLabels
  <1> QED
    BY <1>2, <1>3, <1>4

LEMMA CurrentStep ==
  ASSUME ~LossyRedis, ~Faults, Inv, [Next]_vars, NEW w \in Workers, Workers = {w},
         Current(w)
  PROVE  Current(w)'
  <1>0. TypeOK /\ Holds(w)
    BY DEF Inv, LocalsHold
  <1>1. CASE Arrival(w)
    <2>1. /\ pc[w] = "idle" /\ pc'[w] \in {"select", "getSession", "putStatus"}
          /\ UNCHANGED <<sessionKey, userSession>>
          /\ \A t \in Tokens : issued[t] # None => issued'[t] = issued[t]
      BY <1>0, <1>1 DEF Arrival, Login, Logout, UpdateStatus, UpdateHeartbeat, Receive,
         At, Goto, TypeOK
    <2>2. \A t \in Tokens : Live(t) => issued[t] # None
      BY <1>0 DEF Inv, KeysOwned, Live
    <2>3. AllCurrent
      BY <2>1, PlainCurrent DEF SessionLabels, StoringLabels
    <2>4. AllCurrent'
      BY <2>1, <2>2, <2>3 DEF AllCurrent, Live
    <2> QED
      BY <2>1, <2>4, PlainCurrentNext DEF SessionLabels, StoringLabels
  <1>2. CASE Step(w)
    <2>1. CASE SetSession(w) \/ GetOld(w) \/ DelOld(w) \/ SetCurrent(w)
      BY <2>1, StoringStep
    <2>2. CASE FindOwner(w) \/ DelCurrent(w) \/ DelSession(w)
      BY <2>2, RemovingStep
    <2>3. CASE ~(SetSession(w) \/ GetOld(w) \/ DelOld(w) \/ SetCurrent(w)
                 \/ FindOwner(w) \/ DelCurrent(w) \/ DelSession(w))
      <3>1. /\ UNCHANGED <<sessionKey, userSession, issued>>
            /\ pc[w] \notin SessionLabels
            /\ pc'[w] \notin SessionLabels
        BY <1>0, <1>2, <2>3, PlainSteps DEF sessions
      <3>2. AllCurrent'
        BY <3>1, PlainCurrent DEF AllCurrent, Live
      <3> QED
        BY <3>1, <3>2, PlainCurrentNext
    <2> QED
      BY <2>1, <2>2, <2>3
  <1>3. CASE CheckerStep \/ UNCHANGED vars
    BY <1>3 DEF CheckerStep, Scan, CheckBeat, Sleep, ExpireStatus, RemoveOnline,
       HashOffline, RowOffline, vars, sessions, control, Current, Live, User
  <1>4. CASE Expiry
    <2>1. /\ UNCHANGED <<issued, pc, req, tok, got>>
          /\ \A t \in Tokens : Live(t)' => Live(t)
          /\ \A u \in Users : \/ userSession'[u] = userSession[u]
                              \/ userSession'[u] = None
      BY <1>0, <1>4 DEF Expiry, ExpireSession, ExpireUserSession, ExpireHeartbeat,
         ExpireUser, sessions, control, TypeOK, Live
    <2>2. ASSUME NEW t \in Tokens, Live(t)', userSession[issued[t]] = t
          PROVE  userSession'[issued[t]] = t
      <3>1. issued[t] \in Users /\ sessionKey[t] # None /\ t # None
        BY <1>0, <2>1, <2>2, NoneAssumption DEF Inv, KeysOwned, TypeOK, Live
      <3> QED
        BY <1>0, <1>4, <2>2, <3>1 DEF Expiry, ExpireSession, ExpireUserSession,
           ExpireHeartbeat, ExpireUser, sessions, TypeOK
    <2>3. pc[w] = "delCurrent" => User(w) \in Users
      BY Serving
    <2> QED
      BY <2>1, <2>2, <2>3 DEF Current, User, StoringLabels
  <1> QED
    BY <1>1, <1>2, <1>3, <1>4 DEF Next, SqlError, Crash

(* Between requests of one connection, a user's one stored session is the  *)
(* current one.                                                            *)
THEOREM AloneLiveIsCurrent ==
  ASSUME ~LossyRedis, ~Faults, NEW me, Workers = {me}
  PROVE  Spec => []LiveIsCurrent
  <1>1. Init => Current(me)
    BY DEF Init, Current, Live, StoringLabels
  <1>2. Inv /\ Current(me) /\ [Next]_vars => Current(me)'
    BY CurrentStep
  <1>3. Current(me) => LiveIsCurrent
    BY DEF Current, LiveIsCurrent, Quiet, At, StoringLabels
  <1> QED
    BY <1>1, <1>2, <1>3, Invariance, PTL DEF Spec

(* What a logout has cleared once it is past an access, and all of it once *)
(* it has answered; the checker can only clear more.                       *)
Left(w) == pc[w] = "idle" /\ reply[w] # None /\ reply[w].ok
StatusDone == {"putUserStatus", "putOnline", "leave", "delBeat", "dbOffline"}
HashDone == {"putOnline", "leave", "delBeat", "dbOffline"}
OnlineDone == {"leave", "delBeat", "dbOffline"}

Cleared(w) ==
  (req[w] \in Requests /\ req[w].op = "logout") =>
    /\ pc[w] \in StatusDone \/ Left(w) => statusKey[User(w)] = "OFFLINE"
    /\ pc[w] \in HashDone \/ Left(w) => userStatus[User(w)] \in {None, "OFFLINE"}
    /\ pc[w] \in OnlineDone \/ Left(w) => User(w) \notin online
    /\ pc[w] = "dbOffline" \/ Left(w) => User(w) \notin heartbeat
    /\ Left(w) => dbStatus[User(w)] \in {None, "OFFLINE"}

(* The checker and the times to live take a user offline or leave him.     *)
LEMMA BesidesClear ==
  ASSUME ~LossyRedis, TypeOK, NEW u \in Users, CheckerStep \/ Expiry
  PROVE  /\ statusKey'[u] \in {statusKey[u], "OFFLINE"}
         /\ userStatus'[u] \in {userStatus[u], "OFFLINE", None}
         /\ dbStatus'[u] \in {dbStatus[u], "OFFLINE"}
         /\ online' \subseteq online
         /\ heartbeat' \subseteq heartbeat
         /\ UNCHANGED control
  <1> USE DEF TypeOK, Put, Written, presence, userHash
  <1>1. CASE Scan \/ CheckBeat \/ Sleep
    BY <1>1 DEF Scan, CheckBeat, Sleep
  <1>2. CASE ExpireStatus \/ RemoveOnline \/ HashOffline \/ RowOffline
    BY <1>2 DEF ExpireStatus, RemoveOnline, HashOffline, RowOffline
  <1>3. CASE Expiry
    BY <1>3 DEF Expiry, ExpireSession, ExpireUserSession, ExpireHeartbeat, ExpireUser
  <1> QED
    BY <1>1, <1>2, <1>3 DEF CheckerStep

(* Only a row that exists has a status. *)
RowsRegistered ==
  /\ \A u \in Users \ Registered : dbStatus[u] = None
  /\ \A w \in Workers : pc[w] = "markOnline" => User(w) \in Registered

LEMMA RowsStep ==
  ASSUME Inv, [Next]_vars, RowsRegistered
  PROVE  RowsRegistered'
  <1>0. TypeOK
    BY DEF Inv
  <1>1. \A u \in Users \ Registered : dbStatus'[u] = None
    <2>1. CASE \E w \in Workers :
                 MarkOnline(w) \/ DbOffline(w) \/ DbStatus(w) \/ StoreStatus(w)
      BY <1>0, <2>1 DEF MarkOnline, DbOffline, DbStatus, StoreStatus, Move, At,
         RowsRegistered, TypeOK
    <2>2. CASE RowOffline
      BY <1>0, <2>2 DEF RowOffline, RowsRegistered, TypeOK
    <2>3. CASE /\ ~RowOffline
               /\ \A w \in Workers :
                    ~MarkOnline(w) /\ ~DbOffline(w) /\ ~DbStatus(w) /\ ~StoreStatus(w)
      <3>1. dbStatus' = dbStatus
        BY <2>3, ZenonT(60) DEF Next, vars, Arrival, Step,
           Login, Logout, UpdateStatus, UpdateHeartbeat, Receive, SelectUser,
           SetSession, GetOld, DelOld, SetCurrent, PutStatus, PutUserStatus,
           PutOnline, Beat, CacheName, CacheStatus, CacheExpire, GetSession,
           GetCurrent, ValidBeat, Join, GetStatus, FindOwner, DelCurrent,
           DelSession, Leave, DelBeat, Manage,
           Reselect, SqlError, CheckerStep, Scan, CheckBeat, Sleep, ExpireStatus,
           RemoveOnline, HashOffline, Crash, Expiry
      <3> QED
        BY <3>1 DEF RowsRegistered
    <2> QED
      BY <2>1, <2>2, <2>3
  <1>2. ASSUME NEW v \in Workers, pc'[v] = "markOnline"
        PROVE  User(v)' \in Registered
    <2>1. CASE UNCHANGED <<pc[v], req[v]>>
      BY <1>2, <2>1 DEF RowsRegistered, User
    <2>2. CASE Arrival(v)
      BY <1>0, <1>2, <2>2 DEF Arrival, Login, Logout, UpdateStatus, UpdateHeartbeat,
         Receive, Goto, TypeOK
    <2>3. CASE Step(v) \/ SqlError(v)
      <3>1. ASSUME NEW l, NEW m, Move(v, l, m)
            PROVE  pc'[v] = m
        BY <1>0, <3>1 DEF Move, Goto, TypeOK
      <3>2. ASSUME NEW r, Done(v, r)
            PROVE  pc'[v] = "idle"
        BY <1>0, <3>2 DEF Done, TypeOK
      <3>3. CASE SelectUser(v)
        BY <1>0, <1>2, <3>2, <3>3 DEF SelectUser, Move, User
      <3>4. CASE GetOld(v) \/ FindOwner(v)
        BY <1>0, <1>2, <3>4 DEF GetOld, FindOwner, Goto, TypeOK
      <3>5. CASE ~SelectUser(v) /\ ~GetOld(v) /\ ~FindOwner(v)
        BY <1>2, <2>3, <3>1, <3>2, <3>5 DEF Step, SqlError, MarkOnline, SetSession,
           DelOld, SetCurrent, PutStatus, PutUserStatus, PutOnline, Beat,
           CacheName, CacheStatus, CacheExpire, GetSession, GetCurrent, ValidBeat,
           Join, GetStatus, DelCurrent, DelSession, Leave, DelBeat,
           DbOffline, Manage, DbStatus, Reselect
      <3> QED
        BY <3>3, <3>4, <3>5
    <2>4. ASSUME NEW w \in Workers \ {v}, Arrival(w) \/ Step(w) \/ SqlError(w)
          PROVE  User(v)' \in Registered
      BY <1>0, <2>1, <2>4, OthersKeep
    <2>5. CASE Crash
      BY <1>2, <2>5 DEF Crash
    <2>6. CASE CheckerStep \/ Expiry \/ UNCHANGED vars
      BY <2>1, <2>6 DEF vars, control, CheckerStep, Scan, CheckBeat, Sleep,
         ExpireStatus, RemoveOnline, HashOffline, RowOffline, Expiry
    <2> QED
      BY <2>2, <2>3, <2>4, <2>5, <2>6 DEF Next
  <1> QED
    BY <1>1, <1>2 DEF RowsRegistered

(* The accesses no logout makes. *)
LEMMA NoLogoutStep ==
  ASSUME Inv, NEW w \in Workers,
         Beat(w) \/ CacheName(w) \/ CacheStatus(w) \/ CacheExpire(w) \/ GetStatus(w)
         \/ Manage(w) \/ DbStatus(w) \/ Reselect(w)
  PROVE  req[w].op # "logout"
  <1>1. pc[w] \in {"beat", "statusBeat", "cacheName", "cacheStatus", "cacheExpire",
                   "getStatus", "manage", "dbStatus", "reselect"}
    BY DEF Beat, CacheName, CacheStatus, CacheExpire, GetStatus, Manage, DbStatus,
       Reselect, Move, At
  <1>2. req[w].op \in OpsAt(pc[w])
    BY <1>1 DEF Inv, LocalsHold, Holds
  <1> QED
    BY <1>1, <1>2 DEF OpsAt

(* The accesses of a logout; the others are made for other requests.       *)
LEMMA LogoutClears ==
  ASSUME ~LossyRedis, Inv, NEW w \in Workers, Step(w), Cleared(w),
         RowsRegistered, req[w].op = "logout"
  PROVE  Cleared(w)'
  <1>0. TypeOK /\ pc[w] # "idle" /\ NewStatus(w) = "OFFLINE" /\ Present = {"ONLINE", "BUSY", "AWAY"}
    BY StepBusy DEF Inv, NewStatus, Present
  <1>1. User(w) \in Users /\ req[w].op \in OpsAt(pc[w]) /\ req[w] \in Requests
    BY <1>0, Serving DEF Inv, LocalsHold, Holds
  <1>2. ASSUME NEW l, NEW m, Move(w, l, m)
        PROVE  /\ pc[w] = l /\ pc'[w] = m
               /\ req'[w] = req[w] /\ User(w)' = User(w)
    BY <1>0, <1>2 DEF Move, At, Goto, TypeOK, User
  <1>3. ASSUME NEW r, Done(w, r)
        PROVE  /\ pc'[w] = "idle" /\ reply'[w] = r
               /\ req'[w] = req[w] /\ User(w)' = User(w)
    BY <1>0, <1>3 DEF Done, TypeOK, User
  <1>4. ~Failed.ok
    BY DEF Failed
  <1> USE <1>0, <1>1, <1>2, <1>3, <1>4
      DEF StatusDone, HashDone, OnlineDone, Left, Cleared, OpsAt, At
  <1>5. CASE GetSession(w)  BY <1>5 DEF GetSession
  <1>6. CASE GetCurrent(w)  BY <1>6 DEF GetCurrent
  <1>7. CASE ValidBeat(w)  BY <1>7 DEF ValidBeat
  <1>8. CASE Join(w)  BY <1>8 DEF Join
  <1>9. CASE FindOwner(w)  BY <1>9 DEF FindOwner, Goto, TypeOK
  <1>10. CASE DelCurrent(w)  BY <1>10 DEF DelCurrent
  <1>11. CASE DelSession(w)  BY <1>11 DEF DelSession
  <1>12. CASE PutStatus(w)
    <2>1. statusKey'[User(w)] = "OFFLINE"
      BY <1>12 DEF PutStatus, Put, Written, TypeOK
    <2> QED
      BY <1>12, <2>1 DEF PutStatus
  <1>13. CASE PutUserStatus(w)
    <2>1. userStatus'[User(w)] = "OFFLINE" /\ statusKey' = statusKey
      BY <1>13 DEF PutUserStatus, Put, Written, TypeOK
    <2> QED
      BY <1>13, <2>1 DEF PutUserStatus
  <1>14. CASE PutOnline(w)
    <2>1. User(w) \notin online' /\ Move(w, "putOnline", "leave")
          /\ UNCHANGED <<statusKey, userStatus>>
      BY <1>14 DEF PutOnline, Written, userHash
    <2> QED
      BY <2>1
  <1>15. CASE Leave(w)
    <2>1. User(w) \notin online' /\ Move(w, "leave", "delBeat")
          /\ UNCHANGED <<statusKey, userStatus>>
      BY <1>15 DEF Leave, Written, userHash
    <2> QED
      BY <2>1
  <1>16. CASE DelBeat(w)
    <2>1. User(w) \notin heartbeat' /\ Move(w, "delBeat", "dbOffline")
          /\ UNCHANGED <<statusKey, userStatus, online>>
      BY <1>16 DEF DelBeat, Written, userHash
    <2> QED
      BY <2>1
  <1>17. CASE DbOffline(w)
    <2>1. /\ Done(w, Success(None)) /\ pc[w] = "dbOffline"
          /\ UNCHANGED <<statusKey, userStatus, online, heartbeat>>
          /\ dbStatus'[User(w)] \in {None, "OFFLINE"}
      BY <1>17 DEF DbOffline, StoreStatus, presence, userHash, RowsRegistered, TypeOK
    <2> QED
      BY <1>17, <2>1
  <1> QED
    <2>1. CASE SelectUser(w) \/ MarkOnline(w) \/ SetSession(w) \/ GetOld(w) \/ DelOld(w)
                 \/ SetCurrent(w)
      BY <2>1 DEF SelectUser, MarkOnline, SetSession, GetOld, DelOld, SetCurrent, Move
    <2>2. CASE Beat(w) \/ CacheName(w) \/ CacheStatus(w) \/ CacheExpire(w)
                 \/ GetStatus(w) \/ Manage(w) \/ DbStatus(w) \/ Reselect(w)
      <3>1. req[w].op # "logout"
        BY <2>2, NoLogoutStep
      <3> QED
        BY <3>1
    <2> QED
      BY <1>5, <1>6, <1>7, <1>8, <1>9, <1>10, <1>11, <1>12, <1>13, <1>14, <1>15,
         <1>16, <1>17, <2>1, <2>2 DEF Step

LEMMA ClearedStep ==
  ASSUME ~LossyRedis, ~Faults, Inv, RowsRegistered, [Next]_vars,
         NEW w \in Workers, Workers = {w}, Cleared(w)
  PROVE  Cleared(w)'
  <1>0. TypeOK
    BY DEF Inv
  <1>1. CASE Arrival(w)
    <2>1. /\ pc'[w] = "putStatus" => req'[w].op = "status"
          /\ pc'[w] \in {"select", "getSession", "putStatus"}
          /\ reply'[w] = None
      BY <1>0, <1>1 DEF Arrival, Login, Logout, UpdateStatus, UpdateHeartbeat,
         Receive, Goto, TypeOK
    <2> QED
      BY <2>1 DEF Cleared, Left, StatusDone, HashDone, OnlineDone
  <1>2. CASE Step(w)
    <2>1. CASE req[w].op = "logout"
      BY <1>2, <2>1, LogoutClears
    <2>2. CASE req[w].op # "logout"
      <3>1. req' = req
        BY <1>2 DEF Step, SelectUser, MarkOnline, SetSession, GetOld, DelOld,
           SetCurrent, PutStatus, PutUserStatus, PutOnline, Beat, CacheName,
           CacheStatus, CacheExpire, GetSession, GetCurrent, ValidBeat, Join,
           GetStatus, FindOwner, DelCurrent, DelSession, Leave, DelBeat, DbOffline,
           Manage, DbStatus, Reselect, Move, Done
      <3> QED
        BY <2>2, <3>1 DEF Cleared
    <2> QED
      BY <2>1, <2>2
  <1>3. CASE CheckerStep \/ Expiry
    <2>1. SUFFICES ASSUME req'[w] \in Requests, req'[w].op = "logout"
                   PROVE  Cleared(w)'
      BY DEF Cleared
    <2>2. UNCHANGED <<pc, req, reply>>
      BY <1>3 DEF control, CheckerStep, Scan, CheckBeat, Sleep, ExpireStatus,
         RemoveOnline, HashOffline, RowOffline, Expiry
    <2>3. User(w) \in Users /\ User(w)' = User(w)
      BY <2>1, <2>2, RequestsAssumption DEF User, RequestSpace
    <2>4. /\ statusKey'[User(w)] \in {statusKey[User(w)], "OFFLINE"}
          /\ userStatus'[User(w)] \in {userStatus[User(w)], "OFFLINE", None}
          /\ dbStatus'[User(w)] \in {dbStatus[User(w)], "OFFLINE"}
          /\ online' \subseteq online
          /\ heartbeat' \subseteq heartbeat
      BY <1>0, <1>3, <2>3, BesidesClear
    <2> QED
      BY <2>1, <2>2, <2>3, <2>4 DEF Cleared, Left
  <1>4. CASE UNCHANGED vars
    BY <1>4 DEF vars, presence, userHash, control, Cleared, Left, User
  <1> QED
    BY <1>1, <1>2, <1>3, <1>4 DEF Next, SqlError, Crash

(* Alone beside the checker, an answered logout has taken the user out of  *)
(* every record of his presence.                                           *)
THEOREM AloneLogoutLeavesNoTrace ==
  ASSUME ~LossyRedis, ~Faults, NEW me, Workers = {me}
  PROVE  Spec => []LogoutLeavesNoTrace
  <1>1. Init => RowsRegistered /\ Cleared(me)
    BY DEF Init, RowsRegistered, Cleared, Left, StatusDone, HashDone, OnlineDone
  <1>2. Inv /\ RowsRegistered /\ [Next]_vars => RowsRegistered'
    BY RowsStep
  <1>3. Inv /\ RowsRegistered /\ Cleared(me) /\ [Next]_vars => Cleared(me)'
    BY ClearedStep
  <1>4. Inv /\ Cleared(me) => LogoutLeavesNoTrace
    BY DEF Inv, LocalsHold, Holds, Cleared, Left, LogoutLeavesNoTrace, Quiet, At
  <1> QED
    BY <1>1, <1>2, <1>3, <1>4, Invariance, PTL DEF Spec
=============================================================================
