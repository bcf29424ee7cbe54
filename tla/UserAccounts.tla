---------------------------- MODULE UserAccounts ----------------------------
(***************************************************************************)
(* The accounts of UserServiceImpl: RegisterUser, GetUser, UpdateProfile   *)
(* and GetFriends, and what Login and UpdateStatus do to the same keys.    *)
(* Their sessions, presence and statuses are in UserService.               *)
(*                                                                         *)
(* An action is one Redis command or one SQL statement of one worker; the  *)
(* hash user:<u> is filled by one HSET after the other, so that others see *)
(* and write its fields in between.  Of its fields the name is kept and    *)
(* the nickname, for all that UpdateProfile changes; an empty one and a    *)
(* missing one read the same, and both are None.                           *)
(***************************************************************************)
EXTENDS Integers, FiniteSets

CONSTANTS Workers,    \* connections being served
          Names,      \* user names
          Nicks,      \* nicknames
          MaxId,      \* bound: AUTO_INCREMENT hands out 1..MaxId
          FriendsLimit, \* the LIMIT of GetFriends
          Requests,   \* the requests that may arrive
          LossyRedis, \* whether a Redis command may fail (it is then ignored)
          Faults,     \* whether SQL statements may fail and the server crash
          Expiring,   \* the keys whose time to live may run out
          None        \* empty string, absent row or key

Ids == 1..MaxId
Profile == [name : Names \cup {None}, nick : Nicks \cup {None}]
Listings == SUBSET (Ids \X (Nicks \cup {None}))
RequestSpace ==
  [op : {"register", "login", "get", "update", "status", "friends"}, user : Ids,
   name : Names \cup {None}, nick : Nicks \cup {None}]

ASSUME IdsAssumption == MaxId \in Nat /\ IsFiniteSet(Names) /\ Cardinality(Names) <= MaxId
ASSUME LimitAssumption == FriendsLimit \in Nat
ASSUME RequestsAssumption == Requests \subseteq RequestSpace
ASSUME FlagsAssumption == {LossyRedis, Faults} \subseteq BOOLEAN
ASSUME NoneAssumption ==
  None \notin Names \cup Nicks \cup Nat \cup RequestSpace \cup Profile

VARIABLES
  users,    \* table users: id -> row
  nameToId, \* hash username:to:id, which has no time to live
  profile,  \* hash user:<u>, field by field
  friends,  \* user:friends:<u>: the ids and nicknames in it, or None
  pc,       \* the access a worker makes next
  req,      \* the request it serves
  id,       \* local userId
  row,      \* local user, as read or made
  found,    \* the friends selected
  reply,    \* what it answered last
  held,     \* history: every row a user has had
  crowded   \* history: workers whose handler has overlapped another

redis == <<nameToId, profile, friends>>
local == <<req, id, row, found>>
history == <<held, crowded>>
vars == <<users, redis, pc, local, reply, history>>

Labels == {"idle", "refuse", "checkMap", "checkRow", "insert", "loginMap", "loginRow",
           "verify", "hash", "update", "updateStatus", "select", "putName", "putNick",
           "putMap", "list", "others", "storeFriends"}
Blank == [name |-> None, nick |-> None]
Replies == [result : {"ok", "exists", "error"}, id : Ids \cup {None},
            shown : Profile \cup {None}]
Failed == [result |-> "error", id |-> None, shown |-> None]
Exists == [result |-> "exists", id |-> None, shown |-> None]
Ok(u, p) == [result |-> "ok", id |-> u, shown |-> p]

Stored == {u \in Ids : users[u] # None}
Named(n) == {u \in Stored : users[u].name = n}

(* RedisManager swallows exceptions: a failed read looks like a missing    *)
(* key, a failed write leaves the key as it was.                           *)
Seen(v) == IF LossyRedis THEN {v, None} ELSE {v}
Written(new, old) == IF LossyRedis THEN {new, old} ELSE {new}

At(w, l) == pc[w] = l
Goto(w, l) == pc' = [pc EXCEPT ![w] = l]
Set(f, w, x) == f' = [f EXCEPT ![w] = x]
Move(w, l) == Goto(w, l) /\ UNCHANGED reply

(* done(response): the handler returns and its locals are gone. *)
Done(w, r) ==
  /\ Goto(w, "idle")
  /\ Set(reply, w, r)
  /\ Set(req, w, None)
  /\ Set(id, w, None)
  /\ Set(row, w, None)
  /\ Set(found, w, {})

Init ==
  /\ users = [u \in Ids |-> None]
  /\ nameToId = [n \in Names |-> None]
  /\ profile = [u \in Ids |-> Blank]
  /\ friends = [u \in Ids |-> None]
  /\ pc = [w \in Workers |-> "idle"]
  /\ req = [w \in Workers |-> None]
  /\ id = [w \in Workers |-> None]
  /\ row = [w \in Workers |-> None]
  /\ found = [w \in Workers |-> {}]
  /\ reply = [w \in Workers |-> None]
  /\ held = [u \in Ids |-> {}]
  /\ crowded = {}

-----------------------------------------------------------------------------
(* Arrival of a request.  An empty name, or a profile without a field to   *)
(* change, is refused at once.                                             *)
First(q) ==
  CASE q.op = "register" -> IF q.name = None THEN "refuse" ELSE "checkMap"
    [] q.op = "login" -> IF q.name = None THEN "refuse" ELSE "loginMap"
    [] q.op = "get" -> "hash"
    [] q.op = "update" -> IF q.nick = None THEN "refuse" ELSE "update"
    [] q.op = "status" -> "updateStatus"
    [] q.op = "friends" -> "list"

Busy == {v \in Workers : ~At(v, "idle")}

Receive(w) ==
  /\ At(w, "idle")
  /\ \E q \in Requests :
       /\ Set(req, w, q)
       /\ Goto(w, First(q))
       /\ Set(id, w, IF q.op \in {"register", "login"} THEN None ELSE q.user)
  /\ Set(reply, w, None)
  /\ crowded' = IF Busy = {} THEN {} ELSE crowded \cup Busy \cup {w}
  /\ UNCHANGED <<users, redis, row, found, held>>

Refuse(w) ==
  /\ At(w, "refuse")
  /\ Done(w, Failed)
  /\ UNCHANGED <<users, redis, history>>

-----------------------------------------------------------------------------
(* RegisterUser: HGET username:to:id, SELECT of the name, INSERT. *)
CheckMap(w) ==
  /\ At(w, "checkMap")
  /\ \E u \in Seen(nameToId[req[w].name]) :
       \/ u # None /\ Done(w, Exists)
       \/ u = None /\ Move(w, "checkRow") /\ UNCHANGED local
  /\ UNCHANGED <<users, redis, history>>

CheckRow(w) ==
  /\ At(w, "checkRow")
  /\ \/ Named(req[w].name) # {} /\ Done(w, Exists)
     \/ Named(req[w].name) = {} /\ Move(w, "insert") /\ UNCHANGED local
  /\ UNCHANGED <<users, redis, history>>

NewRow(w) == [name |-> req[w].name, nick |-> req[w].nick]

(* Mutant: the table has no unique key on the name. *)
AddRowTwice(w, u) ==
  /\ Stored = 1 .. (u - 1)
  /\ users' = [users EXCEPT ![u] = NewRow(w)]
  /\ held' = [held EXCEPT ![u] = {NewRow(w)}]

(* The row gets the next number; the name is a unique key. *)
AddRow(w, u) ==
  /\ Stored = 1 .. (u - 1)
  /\ Named(req[w].name) = {}
  /\ users' = [users EXCEPT ![u] = NewRow(w)]
  /\ held' = [held EXCEPT ![u] = {NewRow(w)}]

Insert(w) ==
  /\ At(w, "insert")
  /\ \/ /\ \E u \in Ids : AddRow(w, u) /\ Set(id, w, u)
        /\ Set(row, w, NewRow(w))
        /\ Move(w, "putName")
        /\ UNCHANGED <<req, found>>
     \/ /\ Named(req[w].name) # {}
        /\ Done(w, Failed)
        /\ UNCHANGED <<users, held>>
  /\ UNCHANGED <<redis, crowded>>

-----------------------------------------------------------------------------
(* Login: the id by the name map, the row by that id or by the name. *)
LoginMap(w) ==
  /\ At(w, "loginMap")
  /\ \E u \in Seen(nameToId[req[w].name]) : Set(id, w, u)
  /\ Move(w, "loginRow")
  /\ UNCHANGED <<users, redis, req, row, found, history>>

LoginRow(w) ==
  /\ At(w, "loginRow")
  /\ LET U == IF id[w] # None THEN {id[w]} \cap Stored ELSE Named(req[w].name) IN
       \/ /\ U = {}
          /\ Done(w, Failed)
       \/ /\ \E u \in U : Set(id, w, u) /\ Set(row, w, users[u])
          /\ Move(w, "verify")
          /\ UNCHANGED <<req, found>>
  /\ UNCHANGED <<users, redis, history>>

(* The password is wrong, or UPDATE of status and time; sessions follow.   *)
Verify(w) ==
  /\ At(w, "verify")
  /\ \/ Done(w, Failed)
     \/ Move(w, "putName") /\ UNCHANGED local
  /\ UNCHANGED <<users, redis, history>>

-----------------------------------------------------------------------------
(* Mutant: any hash is taken for a hit. *)
ReadAnyHash(w) ==
  /\ At(w, "hash")
  /\ Done(w, Ok(id[w], profile[id[w]]))
  /\ UNCHANGED <<users, redis, history>>

(* GetUser: HGETALL; a hash without a name is taken for a miss. *)
ReadHash(w) ==
  /\ At(w, "hash")
  /\ \E p \in IF LossyRedis THEN {profile[id[w]], Blank} ELSE {profile[id[w]]} :
       \/ p.name # None /\ Done(w, Ok(id[w], p))
       \/ p.name = None /\ Move(w, "select") /\ UNCHANGED local
  /\ UNCHANGED <<users, redis, history>>

(* UpdateProfile: UPDATE of the fields that are not empty. *)
Changed(r, q) == [r EXCEPT !.nick = q.nick]

ChangeRow(w) ==
  /\ id[w] \in Stored
  /\ users' = [users EXCEPT ![id[w]] = Changed(@, req[w])]
  /\ held' = [held EXCEPT ![id[w]] = @ \cup {Changed(users[id[w]], req[w])}]

Update(w) ==
  /\ At(w, "update")
  /\ \/ /\ ChangeRow(w)
        /\ Move(w, "select")
        /\ UNCHANGED local
     \/ /\ id[w] \notin Stored
        /\ Done(w, Failed)
        /\ UNCHANGED <<users, held>>
  /\ UNCHANGED <<redis, crowded>>

(* UpdateStatus, after its part in UserService: UPDATE of the status. *)
UpdateStatus(w) ==
  /\ At(w, "updateStatus")
  /\ Move(w, "select")
  /\ UNCHANGED <<users, redis, local, history>>

(* Mutant: without the condition id = ?, so that any row may come first. *)
SelectAny(w) ==
  /\ At(w, "select")
  /\ \E u \in Stored : Set(row, w, users[u])
  /\ Move(w, "putName")
  /\ UNCHANGED <<users, redis, req, id, found, history>>

(* SELECT * FROM users WHERE id = ? *)
Select(w) ==
  /\ At(w, "select")
  /\ \/ /\ id[w] \in Stored
        /\ Set(row, w, users[id[w]])
        /\ Move(w, "putName")
        /\ UNCHANGED <<req, id, found>>
     \/ /\ id[w] \notin Stored
        /\ Done(w, Failed)
  /\ UNCHANGED <<users, redis, history>>

-----------------------------------------------------------------------------
(* cacheUserInfo: one HSET per field, then username:to:id, then EXPIRE. *)
PutField(w, p) == profile' \in Written([profile EXCEPT ![id[w]] = p], profile)

PutName(w) ==
  /\ At(w, "putName")
  /\ PutField(w, [profile[id[w]] EXCEPT !.name = row[w].name])
  /\ Move(w, "putNick")
  /\ UNCHANGED <<users, nameToId, friends, local, history>>

(* Mutant: HSETNX, which leaves a nickname that is there. *)
PutNickOnce(w) ==
  /\ At(w, "putNick")
  /\ PutField(w, [profile[id[w]] EXCEPT
                    !.nick = IF @ = None THEN row[w].nick ELSE @])
  /\ Move(w, "putMap")
  /\ UNCHANGED <<users, nameToId, friends, local, history>>

PutNick(w) ==
  /\ At(w, "putNick")
  /\ PutField(w, [profile[id[w]] EXCEPT !.nick = row[w].nick])
  /\ Move(w, "putMap")
  /\ UNCHANGED <<users, nameToId, friends, local, history>>

PutMap(w) ==
  /\ At(w, "putMap")
  /\ nameToId' \in Written([nameToId EXCEPT ![row[w].name] = id[w]], nameToId)
  /\ Done(w, Ok(id[w], row[w]))
  /\ UNCHANGED <<users, profile, friends, history>>

-----------------------------------------------------------------------------
(* GetFriends: everybody else is a friend; kept for five minutes. *)
ListFriends(w) ==
  /\ At(w, "list")
  /\ \E F \in Seen(friends[id[w]]) :
       \/ F # None /\ Done(w, Ok(id[w], None))
       \/ F = None /\ Move(w, "others") /\ UNCHANGED local
  /\ UNCHANGED <<users, redis, history>>

(* At most FriendsLimit of the rows, in no order. *)
Listed(w, Rows) ==
  \E F \in SUBSET Rows :
    /\ Cardinality(F) <= FriendsLimit
    /\ F = Rows \/ Cardinality(F) = FriendsLimit
    /\ Set(found, w, F)

(* Mutant: the column of the names instead of the nicknames. *)
SelectNames(w) ==
  /\ At(w, "others")
  /\ Listed(w, {<<u, users[u].name>> : u \in Stored \ {id[w]}})
  /\ Move(w, "storeFriends")
  /\ UNCHANGED <<users, redis, req, id, row, history>>

SelectOthers(w) ==
  /\ At(w, "others")
  /\ Listed(w, {<<u, users[u].nick>> : u \in Stored \ {id[w]}})
  /\ Move(w, "storeFriends")
  /\ UNCHANGED <<users, redis, req, id, row, history>>

StoreFriends(w) ==
  /\ At(w, "storeFriends")
  /\ friends' \in Written([friends EXCEPT ![id[w]] = found[w]], friends)
  /\ Done(w, Ok(id[w], None))
  /\ UNCHANGED <<users, nameToId, profile, history>>

-----------------------------------------------------------------------------
(* A statement throws, or there is no connection. *)
SqlError(w) ==
  /\ Faults
  /\ pc[w] \in {"checkRow", "insert", "loginRow", "verify", "update", "updateStatus",
                "select", "others"}
  /\ Done(w, Failed)
  /\ UNCHANGED <<users, redis, history>>

(* The INSERT is committed and its answer lost. *)
LostInsert(w) ==
  /\ Faults
  /\ At(w, "insert")
  /\ \E u \in Ids : AddRow(w, u)
  /\ Done(w, Failed)
  /\ UNCHANGED <<redis, crowded>>

(* The UPDATE is committed and its answer lost.  (Those of Verify and       *)
(* UpdateStatus write no field that is kept here.)                         *)
LostUpdate(w) ==
  /\ Faults
  /\ At(w, "update")
  /\ ChangeRow(w)
  /\ Done(w, Failed)
  /\ UNCHANGED <<redis, crowded>>

(* The process dies; database and Redis keep what they have. *)
Crash ==
  /\ Faults
  /\ pc' = [w \in Workers |-> "idle"]
  /\ req' = [w \in Workers |-> None]
  /\ id' = [w \in Workers |-> None]
  /\ row' = [w \in Workers |-> None]
  /\ found' = [w \in Workers |-> {}]
  /\ reply' = [w \in Workers |-> None]
  /\ UNCHANGED <<users, redis, history>>

(* user:<u> and user:friends:<u> have a time to live. *)
Expiry ==
  /\ \/ /\ "user" \in Expiring
        /\ \E u \in Ids : profile[u] # Blank /\ profile' = [profile EXCEPT ![u] = Blank]
        /\ UNCHANGED friends
     \/ /\ "friends" \in Expiring
        /\ \E u \in Ids : friends[u] # None /\ friends' = [friends EXCEPT ![u] = None]
        /\ UNCHANGED profile
  /\ UNCHANGED <<users, nameToId, pc, local, reply, history>>

Step(w) ==
  \/ Refuse(w) \/ CheckMap(w) \/ CheckRow(w) \/ Insert(w)
  \/ LoginMap(w) \/ LoginRow(w) \/ Verify(w)
  \/ ReadHash(w) \/ Update(w) \/ UpdateStatus(w) \/ Select(w)
  \/ PutName(w) \/ PutNick(w) \/ PutMap(w)
  \/ ListFriends(w) \/ SelectOthers(w) \/ StoreFriends(w)

Next ==
  \/ \E w \in Workers :
       Receive(w) \/ Step(w) \/ SqlError(w) \/ LostInsert(w) \/ LostUpdate(w)
  \/ Crash
  \/ Expiry

Spec == Init /\ [][Next]_vars

-----------------------------------------------------------------------------
(* Every variable keeps to its type. *)
TypeOK ==
  /\ users \in [Ids -> Profile \cup {None}]
  /\ nameToId \in [Names -> Ids \cup {None}]
  /\ profile \in [Ids -> Profile]
  /\ friends \in [Ids -> Listings \cup {None}]
  /\ pc \in [Workers -> Labels]
  /\ req \in [Workers -> Requests \cup {None}]
  /\ id \in [Workers -> Ids \cup {None}]
  /\ row \in [Workers -> Profile \cup {None}]
  /\ found \in [Workers -> Listings]
  /\ reply \in [Workers -> Replies \cup {None}]
  /\ held \in [Ids -> SUBSET Profile]
  /\ crowded \subseteq Workers

(* No name belongs to two accounts, although two registrations of it may   *)
(* both find it free; and username:to:id, which never expires and by which *)
(* Login finds the row, names the account that has the name.               *)
NamesTrue ==
  /\ \A u, v \in Stored : users[u].name = users[v].name => u = v
  /\ \A n \in Names : nameToId[n] # None =>
       nameToId[n] \in Stored /\ users[nameToId[n]].name = n

(* Whatever overlaps or fails, no field of user:<u>, of a list of friends  *)
(* or of a profile shown is another user's, or one the user never had;     *)
(* they need not be of the same time.                                      *)
FieldsHeld(u, p) ==
  /\ p.name \in {None} \cup {r.name : r \in held[u]}
  /\ p.nick \in {None} \cup {r.nick : r \in held[u]}

ProfilesHeld ==
  /\ \A u \in Ids : FieldsHeld(u, profile[u])
  /\ \A u \in Ids : friends[u] # None =>
       \A f \in friends[u] : f[1] # u /\ f[2] \in {r.nick : r \in held[f[1]]}
  /\ \A w \in Workers : reply[w] # None /\ reply[w].shown # None =>
       FieldsHeld(reply[w].id, reply[w].shown)

(* A handler that writes user:<u> and overlaps no other leaves no field    *)
(* behind that differs from the row, however stale or mixed the hash was   *)
(* that earlier, overlapping handlers had left.                            *)
Repaired(u) ==
  \A f \in {"name", "nick"} : profile'[u][f] \in {None, users[u][f]}

WritersRepair ==
  [][\A w \in Workers :
       At(w, "putMap") /\ pc'[w] = "idle" /\ reply'[w] # None /\ w \notin crowded =>
         Repaired(id[w])]_vars

-----------------------------------------------------------------------------
(* RegisterUser, Login, GetUser, UpdateProfile and UpdateStatus keep a     *)
(* register of names, through every overlap, failure and restart.          *)
Holder(U) == IF U = {} THEN None ELSE CHOOSE u \in U : TRUE
Owner == [n \in Names |-> Holder(Named(n))]
Mine == [w \in Workers |->
           IF req[w] # None /\ req[w].op = "register" THEN id[w] ELSE None]

Register == INSTANCE NameRegister
              WITH owner <- Owner, asked <- req, mine <- Mine, answer <- reply
RegisterSpec == Register!Spec
=============================================================================
