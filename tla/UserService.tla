---------------------------- MODULE UserService -----------------------------
(***************************************************************************)
(* Sessions and presence: Login, Logout, UpdateStatus and UpdateHeartbeat  *)
(* of UserServiceImpl, and the heartbeat checker thread of main.cpp.       *)
(*                                                                         *)
(* An action is one Redis command or one SQL statement of one worker; a    *)
(* worker is a connection's thread, and the checker runs beside them.      *)
(***************************************************************************)
EXTENDS Integers, FiniteSets

CONSTANTS Workers,    \* connections being served
          Users,      \* user identifiers that occur in requests
          Registered, \* those with a row in table users
          Tokens,     \* session tokens generateSessionToken may produce
          Requests,   \* the requests that may arrive
          LossyRedis, \* whether a Redis command may fail (it is then ignored)
          Faults,     \* whether SQL statements may fail and the server crash
          Checking,   \* whether the checker wakes up (it sleeps a minute at a time)
          Expiring,   \* the keys whose time to live may run out
          None        \* absent key or value

Statuses == {"UNKNOWN", "OFFLINE", "ONLINE", "BUSY", "AWAY"}
Present == {"ONLINE", "BUSY", "AWAY"}

RequestSpace ==
  [op : {"login", "logout", "status", "heartbeat"}, user : Users,
   token : Tokens, status : Statuses, password : {"right", "wrong"}]

ASSUME RegisteredAssumption == Registered \subseteq Users
ASSUME RequestsAssumption == Requests \subseteq RequestSpace
ASSUME FlagsAssumption ==
  /\ LossyRedis \in BOOLEAN
  /\ Faults \in BOOLEAN
  /\ Checking \in BOOLEAN
  /\ Expiring \subseteq {"session", "heartbeat", "user"}
ASSUME NoneAssumption == None \notin Users \cup Tokens \cup Statuses

VARIABLES
  dbStatus,    \* users.status, None where there is no row
  sessionKey,  \* session:<t> -> user
  userSession, \* user:session:<u> -> token
  statusKey,   \* field u of user:status
  userStatus,  \* field status of user:<u>
  userName,    \* the users whose user:<u> has the field username
  userTTL,     \* the users whose user:<u> has a time to live
  online,      \* users:online
  heartbeat,   \* the users whose user:heartbeat:<u> exists
  issued,      \* tokens generated so far, and whose they are
  pc,          \* the access a worker makes next
  req,         \* the request it serves, or served last
  tok,         \* local sessionToken of Login
  got,         \* local oldToken of storeSession, userIdStr of removeSession
  reply,       \* what it answered to req
  cpc,         \* the access the checker makes next
  todo,        \* users of onlineUsers still to be looked at
  cur          \* local userId of the checker

sessions == <<sessionKey, userSession, issued>>
userHash == <<userStatus, userName, userTTL>>
presence == <<statusKey, userHash, online, heartbeat>>
control == <<pc, req, tok, got, reply>>
checker == <<cpc, todo, cur>>
vars == <<dbStatus, sessions, presence, control, checker>>

Failed == [ok |-> FALSE, token |-> None]
Success(t) == [ok |-> TRUE, token |-> t]

(* RedisManager swallows exceptions: a failed write changes nothing and a  *)
(* failed read finds nothing.                                              *)
Written(new, old) == IF LossyRedis THEN {new, old} ELSE {new}
Put(f, k, v) == Written([f EXCEPT ![k] = v], f)
Seen(v) == IF LossyRedis THEN {v, None} ELSE {v}

At(w, l) == pc[w] = l
Goto(w, l) == pc' = [pc EXCEPT ![w] = l]

(* Control moves from one access to the next, all locals kept. *)
Move(w, from, to) ==
  /\ At(w, from)
  /\ Goto(w, to)
  /\ UNCHANGED <<req, tok, got, reply>>

Done(w, r) ==
  /\ pc' = [pc EXCEPT ![w] = "idle"]
  /\ reply' = [reply EXCEPT ![w] = r]
  /\ tok' = [tok EXCEPT ![w] = None]
  /\ got' = [got EXCEPT ![w] = None]
  /\ UNCHANGED req

Init ==
  /\ dbStatus = [u \in Users |-> IF u \in Registered THEN "OFFLINE" ELSE None]
  /\ sessionKey = [t \in Tokens |-> None]
  /\ userSession = [u \in Users |-> None]
  /\ statusKey = [u \in Users |-> None]
  /\ userStatus = [u \in Users |-> None]
  /\ userName = {}
  /\ userTTL = {}
  /\ online = {}
  /\ heartbeat = {}
  /\ issued = [t \in Tokens |-> None]
  /\ pc = [w \in Workers |-> "idle"]
  /\ req = [w \in Workers |-> None]
  /\ tok = [w \in Workers |-> None]
  /\ got = [w \in Workers |-> None]
  /\ reply = [w \in Workers |-> None]
  /\ cpc = "sleep"
  /\ todo = {}
  /\ cur = None

User(w) == req[w].user
(* The status a handler passes to updateUserStatusInCache. *)
NewStatus(w) ==
  CASE req[w].op = "logout" -> "OFFLINE"
    [] req[w].op = "status" -> req[w].status
    [] OTHER -> "ONLINE"

-----------------------------------------------------------------------------
Receive(w, op, l) ==
  /\ At(w, "idle")
  /\ \E r \in Requests : r.op = op /\ req' = [req EXCEPT ![w] = r]
  /\ Goto(w, l)
  /\ reply' = [reply EXCEPT ![w] = None]
  /\ UNCHANGED <<dbStatus, sessionKey, userSession, presence, got, checker>>

(* Mutant: a token may be drawn again. *)
LoginAnyToken(w) ==
  /\ Receive(w, "login", "select")
  /\ \E t \in Tokens :
       /\ tok' = [tok EXCEPT ![w] = t]
       /\ issued' = [issued EXCEPT ![t] = req'[w].user]

(* Login draws its token here; nobody sees it before SET session:<t>.  The *)
(* tokens bound the number of logins.                                      *)
Login(w) ==
  /\ Receive(w, "login", "select")
  /\ \E t \in Tokens :
       /\ issued[t] = None
       /\ tok' = [tok EXCEPT ![w] = t]
       /\ issued' = [issued EXCEPT ![t] = req'[w].user]

Logout(w) == Receive(w, "logout", "getSession") /\ UNCHANGED <<tok, issued>>
UpdateStatus(w) == Receive(w, "status", "putStatus") /\ UNCHANGED <<tok, issued>>
UpdateHeartbeat(w) ==
  Receive(w, "heartbeat", "getSession") /\ UNCHANGED <<tok, issued>>

(* SELECT * FROM users, and the password check. *)
SelectUser(w) ==
  /\ At(w, "select")
  /\ \/ /\ User(w) \in Registered
        /\ req[w].password = "right"
        /\ Move(w, "select", "markOnline")
     \/ /\ User(w) \notin Registered \/ req[w].password = "wrong"
        /\ Done(w, Failed)
  /\ UNCHANGED <<dbStatus, sessions, presence, checker>>

(* UPDATE users SET status = ONLINE, last_login_time, login_attempts = 0 *)
MarkOnline(w) ==
  /\ Move(w, "markOnline", "setSession")
  /\ dbStatus' = [dbStatus EXCEPT ![User(w)] = "ONLINE"]
  /\ UNCHANGED <<sessions, presence, checker>>

(* storeSession: SET session:<t>, GET user:session:<u>, DEL the old        *)
(* session, SET user:session:<u>.                                          *)
SetSession(w) ==
  /\ Move(w, "setSession", "getOld")
  /\ sessionKey' \in Put(sessionKey, tok[w], User(w))
  /\ UNCHANGED <<dbStatus, userSession, issued, presence, checker>>

GetOld(w) ==
  /\ At(w, "getOld")
  /\ \E t \in Seen(userSession[User(w)]) :
       /\ got' = [got EXCEPT ![w] = t]
       /\ Goto(w, IF t = None THEN "setCurrent" ELSE "delOld")
  /\ UNCHANGED <<dbStatus, sessions, presence, req, tok, reply, checker>>

(* Mutant: the old session stays. *)
KeepOld(w) ==
  /\ Move(w, "delOld", "setCurrent")
  /\ UNCHANGED <<dbStatus, sessions, presence, checker>>

DelOld(w) ==
  /\ Move(w, "delOld", "setCurrent")
  /\ sessionKey' \in Put(sessionKey, got[w], None)
  /\ UNCHANGED <<dbStatus, userSession, issued, presence, checker>>

(* Mutant: the user, not the token, is stored under user:session:<u>. *)
SetCurrentToUser(w) ==
  /\ Move(w, "setCurrent", "putStatus")
  /\ userSession' \in Put(userSession, User(w), User(w))
  /\ UNCHANGED <<dbStatus, sessionKey, issued, presence, checker>>

SetCurrent(w) ==
  /\ Move(w, "setCurrent", "putStatus")
  /\ userSession' \in Put(userSession, User(w), tok[w])
  /\ UNCHANGED <<dbStatus, sessionKey, issued, presence, checker>>

-----------------------------------------------------------------------------
(* updateUserStatusInCache: HSET user:status, HSET user:<u> status, then   *)
(* SADD or SREM users:online.  An HSET on an absent user:<u> creates it    *)
(* with no time to live.                                                   *)
PutStatus(w) ==
  /\ Move(w, "putStatus", "putUserStatus")
  /\ statusKey' \in Put(statusKey, User(w), NewStatus(w))
  /\ UNCHANGED <<dbStatus, sessions, userHash, online, heartbeat, checker>>

PutUserStatus(w) ==
  /\ Move(w, "putUserStatus", "putOnline")
  /\ userStatus' \in Put(userStatus, User(w), NewStatus(w))
  /\ UNCHANGED <<dbStatus, sessions, statusKey, userName, userTTL, online,
                 heartbeat, checker>>

PutOnline(w) ==
  /\ At(w, "putOnline")
  /\ online' \in Written(IF NewStatus(w) \in Present THEN online \cup {User(w)}
                         ELSE online \ {User(w)}, online)
  /\ \/ req[w].op = "login" /\ Move(w, "putOnline", "beat")
     \/ req[w].op = "logout" /\ Move(w, "putOnline", "leave")
     \/ req[w].op = "status" /\ Move(w, "putOnline", "manage")
     \/ req[w].op = "heartbeat" /\ Done(w, Success(None))
  /\ UNCHANGED <<dbStatus, sessions, statusKey, userHash, heartbeat, checker>>

(* SET user:heartbeat:<u>, by Login, UpdateHeartbeat and UpdateStatus *)
Beat(w) ==
  /\ \/ /\ At(w, "beat")
        /\ \/ req[w].op = "login" /\ Move(w, "beat", "cacheName")
           \/ req[w].op = "heartbeat" /\ Move(w, "beat", "join")
     \/ Move(w, "statusBeat", "dbStatus")
  /\ heartbeat' \in Written(heartbeat \cup {User(w)}, heartbeat)
  /\ UNCHANGED <<dbStatus, sessions, statusKey, userHash, online, checker>>

(* cacheUserInfo: HSET username and the profile, HSET status, EXPIRE. *)
CacheName(w) ==
  /\ Move(w, "cacheName", "cacheStatus")
  /\ userName' \in Written(userName \cup {User(w)}, userName)
  /\ UNCHANGED <<dbStatus, sessions, statusKey, userStatus, userTTL, online,
                 heartbeat, checker>>

CacheStatus(w) ==
  /\ Move(w, "cacheStatus", "cacheExpire")
  /\ userStatus' \in Put(userStatus, User(w), NewStatus(w))
  /\ UNCHANGED <<dbStatus, sessions, statusKey, userName, userTTL, online,
                 heartbeat, checker>>

CacheExpire(w) ==
  /\ At(w, "cacheExpire")
  /\ \/ /\ userStatus[User(w)] = None /\ User(w) \notin userName
        /\ UNCHANGED userTTL
     \/ /\ userStatus[User(w)] # None \/ User(w) \in userName
        /\ userTTL' \in Written(userTTL \cup {User(w)}, userTTL)
  /\ Done(w, Success(tok[w]))
  /\ UNCHANGED <<dbStatus, sessions, statusKey, userStatus, userName, online,
                 heartbeat, checker>>

-----------------------------------------------------------------------------
(* validateSession: GET session:<t>, GET user:session:<u>, SET heartbeat,  *)
(* SADD users:online.                                                      *)
GetSession(w) ==
  /\ At(w, "getSession")
  /\ \E u \in Seen(sessionKey[req[w].token]) :
       \/ u = User(w) /\ Move(w, "getSession", "getCurrent")
       \/ u # User(w) /\ Done(w, Failed)
  /\ UNCHANGED <<dbStatus, sessions, presence, checker>>

GetCurrent(w) ==
  /\ At(w, "getCurrent")
  /\ \E t \in Seen(userSession[User(w)]) :
       \/ t = req[w].token /\ Move(w, "getCurrent", "validBeat")
       \/ t # req[w].token /\ Done(w, Failed)
  /\ UNCHANGED <<dbStatus, sessions, presence, checker>>

(* Mutant: the time to live is renewed by SET session:<t>, not by EXPIRE. *)
ValidBeatBySet(w) ==
  /\ Move(w, "validBeat", "validJoin")
  /\ heartbeat' \in Written(heartbeat \cup {User(w)}, heartbeat)
  /\ sessionKey' \in Put(sessionKey, req[w].token, User(w))
  /\ UNCHANGED <<dbStatus, userSession, issued, statusKey, userHash, online, checker>>

ValidBeat(w) ==
  /\ Move(w, "validBeat", "validJoin")
  /\ heartbeat' \in Written(heartbeat \cup {User(w)}, heartbeat)
  /\ UNCHANGED <<dbStatus, sessions, statusKey, userHash, online, checker>>

(* SADD users:online, in validateSession and then in UpdateHeartbeat *)
Join(w) ==
  /\ \/ /\ At(w, "validJoin")
        /\ \/ req[w].op = "logout" /\ Move(w, "validJoin", "findOwner")
           \/ req[w].op = "heartbeat" /\ Move(w, "validJoin", "beat")
     \/ Move(w, "join", "getStatus")
  /\ online' \in Written(online \cup {User(w)}, online)
  /\ UNCHANGED <<dbStatus, sessions, statusKey, userHash, heartbeat, checker>>

(* HGET user:status; a user with no status counts as offline. *)
GetStatus(w) ==
  /\ At(w, "getStatus")
  /\ \E s \in Seen(statusKey[User(w)]) :
       \/ s \in {None, "OFFLINE"} /\ Move(w, "getStatus", "putStatus")
       \/ s \notin {None, "OFFLINE"} /\ Done(w, Success(None))
  /\ UNCHANGED <<dbStatus, sessions, presence, checker>>

(* removeSession: GET session:<t>, DEL user:session:<owner>, DEL session:<t> *)
FindOwner(w) ==
  /\ At(w, "findOwner")
  /\ \E u \in Seen(sessionKey[req[w].token]) :
       /\ got' = [got EXCEPT ![w] = u]
       /\ Goto(w, IF u = None THEN "delSession" ELSE "delCurrent")
  /\ UNCHANGED <<dbStatus, sessions, presence, req, tok, reply, checker>>

DelCurrent(w) ==
  /\ Move(w, "delCurrent", "delSession")
  /\ userSession' \in Put(userSession, got[w], None)
  /\ UNCHANGED <<dbStatus, sessionKey, issued, presence, checker>>

(* Mutant: removeSession forgets session:<t>. *)
KeepSession(w) ==
  /\ Move(w, "delSession", "putStatus")
  /\ UNCHANGED <<dbStatus, sessions, presence, checker>>

DelSession(w) ==
  /\ Move(w, "delSession", "putStatus")
  /\ sessionKey' \in Put(sessionKey, req[w].token, None)
  /\ UNCHANGED <<dbStatus, userSession, issued, presence, checker>>

(* Logout: SREM users:online and DEL the heartbeat *)
Leave(w) ==
  /\ Move(w, "leave", "delBeat")
  /\ online' \in Written(online \ {User(w)}, online)
  /\ UNCHANGED <<dbStatus, sessions, statusKey, userHash, heartbeat, checker>>

(* Mutant: the heartbeat outlives the logout. *)
KeepBeat(w) ==
  /\ At(w, "delBeat")
  /\ \/ req[w].op = "logout" /\ Move(w, "delBeat", "dbOffline")
     \/ req[w].op = "status" /\ Move(w, "delBeat", "dbStatus")
  /\ UNCHANGED <<dbStatus, sessions, presence, checker>>

DelBeat(w) ==
  /\ At(w, "delBeat")
  /\ \/ req[w].op = "logout" /\ Move(w, "delBeat", "dbOffline")
     \/ req[w].op = "status" /\ Move(w, "delBeat", "dbStatus")
  /\ heartbeat' \in Written(heartbeat \ {User(w)}, heartbeat)
  /\ UNCHANGED <<dbStatus, sessions, statusKey, userHash, online, checker>>

(* UPDATE users SET status; an unknown id updates no row.                  *)
StoreStatus(w) ==
  /\ dbStatus' = IF User(w) \in Registered
                 THEN [dbStatus EXCEPT ![User(w)] = NewStatus(w)] ELSE dbStatus
  /\ UNCHANGED <<sessions, presence, checker>>

DbOffline(w) ==
  /\ At(w, "dbOffline")
  /\ StoreStatus(w)
  /\ Done(w, Success(None))

(* UpdateStatus: SADD or SREM again, then SET or DEL the heartbeat; a      *)
(* status that is neither present nor OFFLINE does neither.                *)
Manage(w) ==
  /\ At(w, "manage")
  /\ \/ /\ NewStatus(w) \in Present
        /\ online' \in Written(online \cup {User(w)}, online)
        /\ Move(w, "manage", "statusBeat")
     \/ /\ NewStatus(w) = "OFFLINE"
        /\ online' \in Written(online \ {User(w)}, online)
        /\ Move(w, "manage", "delBeat")
     \/ /\ NewStatus(w) = "UNKNOWN"
        /\ UNCHANGED online
        /\ Move(w, "manage", "dbStatus")
  /\ UNCHANGED <<dbStatus, sessions, statusKey, userHash, heartbeat, checker>>

DbStatus(w) ==
  /\ Move(w, "dbStatus", "reselect")
  /\ StoreStatus(w)

(* SELECT the row again; cacheUserInfo when there is one. *)
Reselect(w) ==
  /\ At(w, "reselect")
  /\ \/ User(w) \in Registered /\ Move(w, "reselect", "cacheName")
     \/ User(w) \notin Registered /\ Done(w, Failed)
  /\ UNCHANGED <<dbStatus, sessions, presence, checker>>

-----------------------------------------------------------------------------
(* The checker: SMEMBERS users:online, and for every user found EXISTS     *)
(* user:heartbeat:<u>.                                                     *)
Scan ==
  /\ Checking
  /\ cpc = "sleep"
  /\ todo' \in Written(online, {})
  /\ cpc' = "check"
  /\ UNCHANGED <<dbStatus, sessions, presence, control, cur>>

(* A failed EXISTS reads as false. *)
CheckBeat ==
  /\ cpc = "check"
  /\ \E u \in todo :
       /\ todo' = todo \ {u}
       /\ \/ /\ u \notin heartbeat \/ LossyRedis
             /\ cur' = u
             /\ cpc' = "expired"
          \/ /\ u \in heartbeat
             /\ UNCHANGED <<cur, cpc>>
  /\ UNCHANGED <<dbStatus, sessions, presence, control>>

Sleep ==
  /\ cpc = "check"
  /\ todo = {}
  /\ cpc' = "sleep"
  /\ UNCHANGED <<dbStatus, sessions, presence, control, todo, cur>>

(* HSET user:status OFFLINE, SREM users:online, HSET user:<u> status,      *)
(* UPDATE users (skipped on an SQL error).                                 *)
ExpireStatus ==
  /\ cpc = "expired"
  /\ statusKey' \in Put(statusKey, cur, "OFFLINE")
  /\ cpc' = "remove"
  /\ UNCHANGED <<dbStatus, sessions, userHash, online, heartbeat, control,
                 todo, cur>>

(* Mutant: the checker forgets SREM users:online. *)
KeepOnline ==
  /\ cpc = "remove"
  /\ cpc' = "hashOffline"
  /\ UNCHANGED <<dbStatus, sessions, presence, control, todo, cur>>

RemoveOnline ==
  /\ cpc = "remove"
  /\ online' \in Written(online \ {cur}, online)
  /\ cpc' = "hashOffline"
  /\ UNCHANGED <<dbStatus, sessions, statusKey, userHash, heartbeat, control,
                 todo, cur>>

HashOffline ==
  /\ cpc = "hashOffline"
  /\ userStatus' \in Put(userStatus, cur, "OFFLINE")
  /\ cpc' = "rowOffline"
  /\ UNCHANGED <<dbStatus, sessions, statusKey, userName, userTTL, online,
                 heartbeat, control, todo, cur>>

RowOffline ==
  /\ cpc = "rowOffline"
  /\ \/ dbStatus' = IF cur \in Registered
                    THEN [dbStatus EXCEPT ![cur] = "OFFLINE"] ELSE dbStatus
     \/ Faults /\ UNCHANGED dbStatus
  /\ cpc' = "check"
  /\ cur' = None
  /\ UNCHANGED <<sessions, presence, control, todo>>

CheckerStep ==
  \/ Scan \/ CheckBeat \/ Sleep \/ ExpireStatus \/ RemoveOnline \/ HashOffline
  \/ RowOffline

-----------------------------------------------------------------------------
(* A statement throws, an UPDATE perhaps after it was committed, or no     *)
(* connection is to be had.  Logout and UpdateStatus skip the database     *)
(* when they get no connection, and answer.                                *)
SqlError(w) ==
  /\ Faults
  /\ pc[w] \in {"select", "markOnline", "dbOffline", "dbStatus", "reselect"}
  /\ \E r \in {Failed} \cup (IF At(w, "dbOffline") THEN {Success(None)} ELSE {}) :
       Done(w, r)
  /\ \/ UNCHANGED <<dbStatus, sessions, presence, checker>>
     \/ pc[w] \in {"markOnline", "dbOffline", "dbStatus"} /\ StoreStatus(w)

(* The process dies and is started again. *)
Crash ==
  /\ Faults
  /\ pc' = [w \in Workers |-> "idle"]
  /\ tok' = [w \in Workers |-> None]
  /\ got' = [w \in Workers |-> None]
  /\ cpc' = "sleep"
  /\ todo' = {}
  /\ cur' = None
  /\ UNCHANGED <<dbStatus, sessions, presence, req, reply>>

(* Times to live run out.  session:<t> and user:session:<u> live 24 hours  *)
(* from writes and refreshes made in this order, so the second never goes  *)
(* before the first, unless a refresh failed or a crash came between two.  *)
ExpireSession(t) ==
  /\ "session" \in Expiring
  /\ sessionKey[t] # None
  /\ sessionKey' = [sessionKey EXCEPT ![t] = None]
  /\ UNCHANGED <<userSession, issued, presence>>

ExpireUserSession(u) ==
  /\ "session" \in Expiring
  /\ userSession[u] # None
  /\ LossyRedis \/ Faults \/ sessionKey[userSession[u]] = None
  /\ userSession' = [userSession EXCEPT ![u] = None]
  /\ UNCHANGED <<sessionKey, issued, presence>>

ExpireHeartbeat(u) ==
  /\ "heartbeat" \in Expiring
  /\ u \in heartbeat
  /\ heartbeat' = heartbeat \ {u}
  /\ UNCHANGED <<sessions, statusKey, userHash, online>>

ExpireUser(u) ==
  /\ "user" \in Expiring
  /\ u \in userTTL
  /\ userStatus' = [userStatus EXCEPT ![u] = None]
  /\ userName' = userName \ {u}
  /\ userTTL' = userTTL \ {u}
  /\ UNCHANGED <<sessions, statusKey, online, heartbeat>>

Expiry ==
  /\ \/ \E t \in Tokens : ExpireSession(t)
     \/ \E u \in Users : ExpireUserSession(u) \/ ExpireHeartbeat(u) \/ ExpireUser(u)
  /\ UNCHANGED <<dbStatus, control, checker>>

Arrival(w) == Login(w) \/ Logout(w) \/ UpdateStatus(w) \/ UpdateHeartbeat(w)

Step(w) ==
  \/ SelectUser(w) \/ MarkOnline(w) \/ SetSession(w) \/ GetOld(w) \/ DelOld(w)
  \/ SetCurrent(w) \/ PutStatus(w) \/ PutUserStatus(w) \/ PutOnline(w)
  \/ Beat(w) \/ CacheName(w) \/ CacheStatus(w) \/ CacheExpire(w)
  \/ GetSession(w) \/ GetCurrent(w) \/ ValidBeat(w) \/ Join(w) \/ GetStatus(w)
  \/ FindOwner(w) \/ DelCurrent(w) \/ DelSession(w) \/ Leave(w) \/ DelBeat(w)
  \/ DbOffline(w) \/ Manage(w) \/ DbStatus(w) \/ Reselect(w)

Next ==
  \/ \E w \in Workers : Arrival(w) \/ Step(w) \/ SqlError(w)
  \/ CheckerStep
  \/ Crash
  \/ Expiry

Spec == Init /\ [][Next]_vars

(* Threads are scheduled: a handler runs on, and the checker loops.        *)
FairSpec ==
  /\ Spec
  /\ \A w \in Workers : WF_vars(Step(w))
  /\ WF_vars(CheckerStep)

-----------------------------------------------------------------------------
Labels == {"idle", "select", "markOnline", "setSession", "getOld", "delOld",
           "setCurrent", "putStatus", "putUserStatus", "putOnline", "beat",
           "cacheName", "cacheStatus", "cacheExpire", "getSession", "getCurrent",
           "validBeat", "validJoin", "join", "getStatus", "findOwner",
           "delCurrent", "delSession", "leave", "delBeat", "dbOffline", "manage",
           "statusBeat", "dbStatus", "reselect"}
CheckerLabels == {"sleep", "check", "expired", "remove", "hashOffline", "rowOffline"}

(* Every variable keeps to the values the code can give it. *)
TypeOK ==
  /\ dbStatus \in [Users -> Statuses \cup {None}]
  /\ sessionKey \in [Tokens -> Users \cup {None}]
  /\ userSession \in [Users -> Tokens \cup {None}]
  /\ statusKey \in [Users -> Statuses \cup {None}]
  /\ userStatus \in [Users -> Statuses \cup {None}]
  /\ userName \subseteq Users
  /\ userTTL \subseteq Users
  /\ online \subseteq Users
  /\ heartbeat \subseteq Users
  /\ issued \in [Tokens -> Users \cup {None}]
  /\ pc \in [Workers -> Labels]
  /\ req \in [Workers -> Requests \cup {None}]
  /\ tok \in [Workers -> Tokens \cup {None}]
  /\ got \in [Workers -> Users \cup Tokens \cup {None}]
  /\ reply \in [Workers -> [ok : BOOLEAN, token : Tokens \cup {None}] \cup {None}]
  /\ cpc \in CheckerLabels
  /\ todo \subseteq Users
  /\ cur \in Users \cup {None}

(* A token between its generation and SET session:<t>; one whose session   *)
(* is stored; one that had its time: deleted, expired or never stored.     *)
Pending(t) == \E w \in Workers :
  tok[w] = t /\ pc[w] \in {"select", "markOnline", "setSession"}
Live(t) == sessionKey[t] # None
Dead(t) == issued[t] # None /\ ~Pending(t) /\ ~Live(t)

(* The two session keys name only the user the token was made for, and a   *)
(* handler past validateSession serves the owner of its token, whatever    *)
(* logins and logouts of the same user ran between the two GETs.           *)
SessionsOwned ==
  /\ \A t \in Tokens : Live(t) => sessionKey[t] = issued[t]
  /\ \A u \in Users : userSession[u] # None => issued[userSession[u]] = u
  /\ \A w \in Workers :
       /\ reply[w] # None
       /\ reply[w].ok
       /\ req[w].op \in {"logout", "heartbeat"}
       => issued[req[w].token] = User(w)

(* A session that ended is never brought back, neither by a handler that   *)
(* validated it before it ended nor by a refresh of its time to live.      *)
EndedStaysEnded == [][\A t \in Tokens : Dead(t) => Dead(t)']_vars

(* Once Logout has answered, its token is of no more use. *)
LogoutEnds ==
  \A w \in Workers :
    /\ reply[w] # None
    /\ reply[w].ok
    /\ req[w].op = "logout"
    => Dead(req[w].token)

Quiet == (\A w \in Workers : At(w, "idle")) /\ cpc = "sleep"

(* Between requests the stored sessions of a user are one, the current one:*)
(* a login removes the session before it (user_service_impl.cpp:868).      *)
LiveIsCurrent ==
  Quiet => \A t \in Tokens : Live(t) => userSession[issued[t]] = t

(* After a logout every record says that the user is gone, the checker's   *)
(* steps between those of the handler notwithstanding.                     *)
LogoutLeavesNoTrace ==
  \A w \in Workers :
    /\ Quiet
    /\ reply[w] # None
    /\ reply[w].ok
    /\ req[w].op = "logout"
    => /\ User(w) \notin online \cup heartbeat
       /\ statusKey[User(w)] = "OFFLINE"
       /\ userStatus[User(w)] \in {None, "OFFLINE"}
       /\ dbStatus[User(w)] \in {None, "OFFLINE"}

(* The checker finds every user in users:online whose heartbeat stays away *)
(* and takes it out of the set.                                            *)
SilentLeavesOnline ==
  \A u \in Users :
    (u \in online /\ u \notin heartbeat) ~> (u \notin online \/ u \in heartbeat)

(* "Heartbeat expired, the user may have dropped: marking as offline"      *)
(* (main.cpp:33): whoever stays silent does not stay online.               *)
SilentGoesOffline ==
  \A u \in Users :
    (statusKey[u] \in Present /\ u \notin heartbeat)
      ~> (statusKey[u] \notin Present \/ u \in heartbeat)
=============================================================================
