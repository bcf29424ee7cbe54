------------------------------ MODULE ChatRooms ------------------------------
(***************************************************************************)
(* Chat rooms: the eight room handlers of ChatServiceImpl, the room part   *)
(* of GetUserChats, and isValidChatMember and getChatMembers of            *)
(* MessageServiceImpl, which share the key chat_room:<id>:members.         *)
(*                                                                         *)
(* An action is one Redis command or one SQL statement of one worker.  The *)
(* transaction of DissolveChatRoom holds its locks until it commits and is *)
(* one action.                                                             *)
(***************************************************************************)
EXTENDS Integers, FiniteSets

CONSTANTS Workers,    \* connections being served
          Users,      \* user identifiers that occur in requests
          Registered, \* those with a row in table users
          Rooms,      \* identifiers AUTO_INCREMENT may hand out
          Names,      \* what UpdateChatRoom may set: name, description, avatar
          Requests,   \* the requests that may arrive
          LossyRedis, \* whether a Redis command may fail (it is then ignored)
          Faults,     \* whether SQL statements may fail and the server crash
          Expiring,   \* whether times to live may run out
          None        \* absent row, key or value

Roles == {"UNKNOWN", "OWNER", "ADMIN", "MEMBER"}
Ops == {"create", "get", "update", "dissolve", "add", "remove", "role", "leave",
        "list", "validate", "members"}
RequestSpace ==
  [op : Ops, user : Users, room : Rooms, targets : SUBSET Users, role : Roles,
   name : Names \cup {None}]
Row == [name : Names \cup {None}, count : Nat]

ASSUME UsersAssumption == IsFiniteSet(Users)
ASSUME RequestsAssumption ==
  /\ Requests \subseteq RequestSpace
  /\ \A r \in Requests : r.op = "role" => \E u \in Users : r.targets = {u}
ASSUME FlagsAssumption ==
  LossyRedis \in BOOLEAN /\ Faults \in BOOLEAN /\ Expiring \in BOOLEAN
ASSUME NoneAssumption == None \notin Roles /\ None \notin Row

VARIABLES
  rooms,      \* table chat_rooms: id -> [name, count]
  used,       \* identifiers handed out so far
  roles,      \* table chat_room_members: <<room, user>> -> role
  held,       \* history: the roles any user ever had
  roomKey,    \* chat_room:<id>
  membersKey, \* chat_room:<id>:members, a set; {} is no key
  memberKey,  \* chat_room:<id>:member:<u>, a string or a hash, with a role
  userChats,  \* user:chats:<u>, the rooms of a serialized chat list
  pc,         \* the access a worker makes next
  req,        \* the request it serves, or served last
  room,       \* local chatRoomId
  check,      \* the isChatRoom... function it is in
  who, role,  \* locals userId and role of the member at hand
  todo,       \* the <<user, role>> its loop has left
  found,      \* users or rooms it will answer with
  row, count, \* locals chatRoom and memberCount
  reply       \* what it answered to req

db == <<rooms, used, roles, held>>
redis == <<roomKey, membersKey, memberKey, userChats>>
member == <<check, who, role, todo>>
local == <<room, member, found, row, count>>
vars == <<db, redis, pc, req, local, reply>>

Failed == [ok |-> FALSE, found |-> {}]
Answered(S) == [ok |-> TRUE, found |-> S]

(* RedisManager swallows exceptions: a failed write changes nothing and a  *)
(* failed read finds nothing.                                              *)
Written(new, old) == IF LossyRedis THEN {new, old} ELSE {new}
Put(f, k, v) == Written([f EXCEPT ![k] = v], f)
Seen(v, missing) == IF LossyRedis THEN {v, missing} ELSE {v}

(* SET makes the key a string; HSET makes a hash, or fails on a string.    *)
Info(r) == [kind |-> "string", role |-> r]
Hash(r) == [kind |-> "hash", role |-> r]
IsHash(v) == v # None /\ v.kind = "hash"
IsInfo(v) == v # None /\ v.kind = "string"
HSet(k, r) == Written(IF IsInfo(memberKey[k]) THEN memberKey
                      ELSE [memberKey EXCEPT ![k] = Hash(r)], memberKey)

At(w, l) == pc[w] = l
Goto(w, l) == pc' = [pc EXCEPT ![w] = l]
Move(w, from, to) ==
  /\ At(w, from)
  /\ Goto(w, to)
  /\ UNCHANGED <<req, local, reply>>

Reset(w) ==
  /\ room' = [room EXCEPT ![w] = None]
  /\ check' = [check EXCEPT ![w] = None]
  /\ who' = [who EXCEPT ![w] = None]
  /\ role' = [role EXCEPT ![w] = None]
  /\ todo' = [todo EXCEPT ![w] = {}]
  /\ found' = [found EXCEPT ![w] = {}]
  /\ row' = [row EXCEPT ![w] = None]
  /\ count' = [count EXCEPT ![w] = 0]

Done(w, r) ==
  /\ pc' = [pc EXCEPT ![w] = "idle"]
  /\ reply' = [reply EXCEPT ![w] = r]
  /\ Reset(w)
  /\ UNCHANGED req

Init ==
  /\ rooms = [r \in Rooms |-> None]
  /\ used = {}
  /\ roles = [k \in Rooms \X Users |-> None]
  /\ held = {}
  /\ roomKey = [r \in Rooms |-> None]
  /\ membersKey = [r \in Rooms |-> {}]
  /\ memberKey = [k \in Rooms \X Users |-> None]
  /\ userChats = [u \in Users |-> None]
  /\ pc = [w \in Workers |-> "idle"]
  /\ req = [w \in Workers |-> None]
  /\ room = [w \in Workers |-> None]
  /\ check = [w \in Workers |-> None]
  /\ who = [w \in Workers |-> None]
  /\ role = [w \in Workers |-> None]
  /\ todo = [w \in Workers |-> {}]
  /\ found = [w \in Workers |-> {}]
  /\ row = [w \in Workers |-> None]
  /\ count = [w \in Workers |-> 0]
  /\ reply = [w \in Workers |-> None]

Key(w) == <<room[w], who[w]>>
MembersOf(r) == {u \in Users : roles[<<r, u>>] # None}
RowsOf(r) == {m \in Users \X Roles : roles[<<r, m[1]>>] = m[2]}
RoomsOf(u) == {r \in Rooms : roles[<<r, u>>] # None}

-----------------------------------------------------------------------------
(* Arrival of a request.  A handler starts with a check of its caller (k), *)
(* and loops over the users it names.                                      *)
Receive(w, op, k, l) ==
  /\ At(w, "idle")
  /\ \E r \in Requests :
       /\ r.op = op
       /\ req' = [req EXCEPT ![w] = r]
       /\ room' = [room EXCEPT ![w] = IF op = "create" THEN None ELSE r.room]
       /\ who' = [who EXCEPT ![w] = r.user]
       /\ todo' = [todo EXCEPT ![w] =
            CASE op = "create" -> (r.targets \ {r.user}) \X {"MEMBER"}
              [] op \in {"add", "remove"} -> r.targets \X {"MEMBER"}
              [] op = "role" -> r.targets \X {r.role}
              [] OTHER -> {}]
  /\ check' = [check EXCEPT ![w] = k]
  /\ Goto(w, l)
  /\ reply' = [reply EXCEPT ![w] = None]
  /\ UNCHANGED <<db, redis, role, found, row, count>>

CreateChatRoom(w) == Receive(w, "create", None, "insertRoom")
GetChatRoom(w) == Receive(w, "get", "member", "readMembers")
UpdateChatRoom(w) == Receive(w, "update", "admin", "readRole")
DissolveChatRoom(w) == Receive(w, "dissolve", "owner", "readRole")
AddChatRoomMember(w) == Receive(w, "add", "admin", "readRole")
RemoveChatRoomMember(w) == Receive(w, "remove", "admin", "readRole")
UpdateMemberRole(w) == Receive(w, "role", "owner", "readRole")
LeaveChatRoom(w) == Receive(w, "leave", "member", "readMembers")
GetUserChats(w) == Receive(w, "list", None, "readList")
IsValidChatMember(w) == Receive(w, "validate", None, "validMembers")
GetChatMembers(w) == Receive(w, "members", None, "listMembers")

(* What follows a check that says yes or no. *)
Onward(op, k, yes) ==
  CASE op = "get" /\ yes -> "readRoom"
    [] op = "update" /\ yes -> "updateRoom"
    [] op = "dissolve" /\ yes -> "readToTell"
    [] op = "role" /\ yes -> "updateRole"
    [] op \in {"add", "remove"} /\ k = "admin" /\ yes -> "next"
    [] op = "add" /\ k = "member" -> IF yes THEN "next" ELSE "insertMember"
    [] op = "remove" /\ k = "owner" -> IF yes THEN "next" ELSE "deleteMember"
    [] op = "leave" /\ k = "member" /\ yes -> "readRole"
    [] op = "leave" /\ k = "owner" /\ ~yes -> "deleteMember"
    [] OTHER -> "refuse"

Verdict(w, yes) ==
  LET to == Onward(req[w].op, check[w], yes) IN
  \/ /\ to = "refuse"
     /\ Done(w, Failed)
  \/ /\ to # "refuse"
     /\ Goto(w, to)
     /\ check' = [check EXCEPT ![w] = IF to = "readRole" THEN "owner" ELSE None]
     /\ UNCHANGED <<req, room, who, role, todo, found, row, count, reply>>

(* Mutant: owners are looked for among the admins. *)
AllowedShifted(k) == IF k = "owner" THEN {"ADMIN"} ELSE {"OWNER", "ADMIN"}

Allowed(k) == IF k = "owner" THEN {"OWNER"} ELSE {"OWNER", "ADMIN"}

(* isChatRoomOwner, isChatRoomAdmin: HGET role; WRONGTYPE reads as absent. *)
ReadRole(w) ==
  /\ At(w, "readRole")
  /\ \E v \in Seen(memberKey[Key(w)], None) :
       \/ IsHash(v) /\ Verdict(w, v.role \in Allowed(check[w]))
       \/ ~IsHash(v) /\ Move(w, "readRole", "selectRole")
  /\ UNCHANGED <<db, redis>>

(* SELECT role (isChatRoomOwner asks for owners only) *)
SelectRole(w) ==
  LET r == roles[Key(w)]
      cacheable == r # None /\ (check[w] = "owner" => r = "OWNER")
  IN
  /\ At(w, "selectRole")
  /\ \/ /\ cacheable
        /\ role' = [role EXCEPT ![w] = r]
        /\ Goto(w, "cacheRole")
        /\ UNCHANGED <<req, room, check, who, todo, found, row, count, reply>>
     \/ /\ ~cacheable
        /\ Verdict(w, FALSE)
  /\ UNCHANGED <<db, redis>>

CacheRole(w) ==
  /\ At(w, "cacheRole")
  /\ memberKey' \in HSet(Key(w), role[w])
  /\ Verdict(w, role[w] \in Allowed(check[w]))
  /\ UNCHANGED <<db, roomKey, membersKey, userChats>>

(* isChatRoomMember: SMEMBERS, EXISTS the member's key, SELECT, SADD. *)
ReadMembers(w) ==
  /\ At(w, "readMembers")
  /\ \E S \in Seen(membersKey[room[w]], {}) :
       \/ S # {} /\ Verdict(w, who[w] \in S)
       \/ S = {} /\ Move(w, "readMembers", "existsMember")
  /\ UNCHANGED <<db, redis>>

ExistsMember(w) ==
  /\ At(w, "existsMember")
  /\ \E v \in Seen(memberKey[Key(w)], None) :
       \/ v # None /\ Verdict(w, TRUE)
       \/ v = None /\ Move(w, "existsMember", "selectMember")
  /\ UNCHANGED <<db, redis>>

(* Mutant: the result of the SELECT is not looked at. *)
SelectMemberIgnored(w) ==
  /\ Move(w, "selectMember", "joinMembers")
  /\ UNCHANGED <<db, redis>>

SelectMember(w) ==
  /\ At(w, "selectMember")
  /\ \/ roles[Key(w)] # None /\ Move(w, "selectMember", "joinMembers")
     \/ roles[Key(w)] = None /\ Verdict(w, FALSE)
  /\ UNCHANGED <<db, redis>>

SAdd(r, u) == membersKey' \in Put(membersKey, r, membersKey[r] \cup {u})

JoinMembers(w) ==
  /\ At(w, "joinMembers")
  /\ SAdd(room[w], who[w])
  /\ Verdict(w, TRUE)
  /\ UNCHANGED <<db, roomKey, memberKey, userChats>>

-----------------------------------------------------------------------------
(* INSERT ... ON DUPLICATE KEY UPDATE role, for a room and a user there are.*)
Insertable(r, u) == r \in Rooms /\ rooms[r] # None /\ u \in Registered
(* Mutant: the user is bound where the role belongs. *)
SetRowSwapped(r, u, x) ==
  /\ roles' = [roles EXCEPT ![<<r, u>>] = u]
  /\ held' = held \cup {<<r, u, x>>}
  /\ UNCHANGED <<rooms, used>>

SetRow(r, u, x) ==
  /\ roles' = [roles EXCEPT ![<<r, u>>] = x]
  /\ held' = held \cup {<<r, u, x>>}
  /\ UNCHANGED <<rooms, used>>

(* INSERT INTO chat_rooms; identifiers are never handed out again.         *)
InsertRoom(w) ==
  /\ At(w, "insertRoom")
  /\ \/ /\ who[w] \in Registered
        /\ \E r \in Rooms \ used :
             /\ rooms' = [rooms EXCEPT ![r] = [name |-> req[w].name, count |-> 0]]
             /\ used' = used \cup {r}
             /\ \/ /\ room' = [room EXCEPT ![w] = r]
                   /\ Goto(w, "insertOwner")
                   /\ UNCHANGED <<req, member, found, row, count, reply>>
                \/ Faults /\ Done(w, Failed)
     \/ /\ who[w] \notin Registered \/ used = Rooms
        /\ Done(w, Failed)
        /\ UNCHANGED <<rooms, used>>
  /\ UNCHANGED <<roles, held, redis>>

InsertOwner(w) ==
  /\ At(w, "insertOwner")
  /\ \/ /\ Insertable(room[w], who[w])
        /\ SetRow(room[w], who[w], "OWNER")
        /\ Move(w, "insertOwner", "next") \/ (Faults /\ Done(w, Failed))
     \/ /\ ~Insertable(room[w], who[w])
        /\ Done(w, Failed)
        /\ UNCHANGED db
  /\ UNCHANGED redis

(* The loops of CreateChatRoom, AddChatRoomMember and RemoveChatRoomMember.*)
NextMember(w) ==
  /\ At(w, "next")
  /\ \/ todo[w] = {} /\ Move(w, "next", "countMembers")
     \/ \E m \in todo[w] :
          /\ todo' = [todo EXCEPT ![w] = @ \ {m}]
          /\ who' = [who EXCEPT ![w] = m[1]]
          /\ role' = [role EXCEPT ![w] = m[2]]
          /\ \/ /\ req[w].op = "create"
                /\ Goto(w, "insertMember")
                /\ UNCHANGED check
             \/ /\ req[w].op = "add"
                /\ Goto(w, "readMembers")
                /\ check' = [check EXCEPT ![w] = "member"]
             \/ /\ req[w].op = "remove"
                /\ m[1] # req[w].user
                /\ Goto(w, "readRole")
                /\ check' = [check EXCEPT ![w] = "owner"]
             \/ /\ req[w].op = "remove"
                /\ m[1] = req[w].user
                /\ UNCHANGED <<pc, check>>
          /\ UNCHANGED <<req, room, found, row, count, reply>>
  /\ UNCHANGED <<db, redis>>

InsertMember(w) ==
  /\ At(w, "insertMember")
  /\ \/ /\ Insertable(room[w], who[w])
        /\ SetRow(room[w], who[w], role[w])
        /\ \/ req[w].op = "create" /\ Move(w, "insertMember", "next")
           \/ req[w].op = "add" /\ Move(w, "insertMember", "selectNickname")
           \/ Faults /\ Move(w, "insertMember", "next")
     \/ /\ ~Insertable(room[w], who[w])
        /\ Move(w, "insertMember", "next")
        /\ UNCHANGED db
  /\ UNCHANGED redis

(* SELECT nickname: users are never deleted. *)
SelectNickname(w) ==
  /\ Move(w, "selectNickname", "setInfo")
  /\ UNCHANGED <<db, redis>>

(* cacheChatRoomMember (SET the member's key, SADD, HSET role), twice in   *)
(* AddChatRoomMember and followed there by addChatRoomMemberToCache (SADD, *)
(* HSET).                                                                  *)
SetInfo(w) ==
  /\ Move(w, "setInfo", "joinInfo") \/ Move(w, "setAgain", "joinAgain")
  /\ memberKey' \in Put(memberKey, Key(w), Info(role[w]))
  /\ UNCHANGED <<db, roomKey, membersKey, userChats>>

JoinInfo(w) ==
  /\ \/ Move(w, "joinInfo", "putInfo")
     \/ Move(w, "joinAgain", "putAgain")
     \/ Move(w, "joinCache", "putCache")
  /\ SAdd(room[w], who[w])
  /\ UNCHANGED <<db, roomKey, memberKey, userChats>>

PutRole(w) ==
  /\ \/ /\ At(w, "putInfo")
        /\ \/ req[w].op = "add" /\ Move(w, "putInfo", "setAgain")
           \/ req[w].op = "role" /\ Move(w, "putInfo", "delRoom")
           \/ req[w].op = "get" /\ Move(w, "putInfo", "fill")
     \/ Move(w, "putAgain", "joinCache")
     \/ Move(w, "putCache", "dropList")
  /\ memberKey' \in HSet(Key(w), role[w])
  /\ UNCHANGED <<db, roomKey, membersKey, userChats>>

(* invalidateUserChatsListCache, the end of a turn of each loop *)
DropList(w) ==
  /\ At(w, "dropList")
  /\ \/ req[w].op \in {"add", "remove"} /\ Move(w, "dropList", "next")
     \/ req[w].op = "leave" /\ Move(w, "dropList", "countMembers")
     \/ req[w].op = "dissolve" /\ Move(w, "dropList", "tell")
  /\ userChats' \in Put(userChats, who[w], None)
  /\ UNCHANGED <<db, roomKey, membersKey, memberKey>>

-----------------------------------------------------------------------------
(* removeChatRoomMemberFromDB, and what its callers do when no row went.   *)
KeepMember(w) ==
  \/ req[w].op = "remove" /\ Move(w, "deleteMember", "next")
  \/ req[w].op = "leave" /\ Done(w, Failed)

DeleteMember(w) ==
  /\ At(w, "deleteMember")
  /\ roles' = [roles EXCEPT ![Key(w)] = None]
  /\ \/ roles[Key(w)] # None /\ Move(w, "deleteMember", "leaveSet")
     \/ (roles[Key(w)] = None \/ Faults) /\ KeepMember(w)
  /\ UNCHANGED <<rooms, used, held, redis>>

(* Mutants: either key is forgotten. *)
KeepInSet(w) ==
  /\ Move(w, "leaveSet", "delMember")
  /\ UNCHANGED <<db, redis>>

KeepMemberKey(w) ==
  /\ Move(w, "delMember", "dropList")
  /\ UNCHANGED <<db, redis>>

(* removeChatRoomMemberFromCache: SREM, DEL the member's key. *)
LeaveSet(w) ==
  /\ Move(w, "leaveSet", "delMember")
  /\ membersKey' \in Put(membersKey, room[w], membersKey[room[w]] \ {who[w]})
  /\ UNCHANGED <<db, roomKey, memberKey, userChats>>

DelMember(w) ==
  /\ Move(w, "delMember", "dropList")
  /\ memberKey' \in Put(memberKey, Key(w), None)
  /\ UNCHANGED <<db, roomKey, membersKey, userChats>>

(* updateChatRoomMemberCount: SELECT COUNT, UPDATE, then GET and SET the   *)
(* cached room.  It returns at the first that fails, and its caller goes on.*)
Counted(w) ==
  \/ /\ req[w].op = "create"
     /\ Goto(w, "selectRoom")
     /\ UNCHANGED <<req, local, reply>>
  \/ /\ req[w].op # "create"
     /\ Done(w, Answered({}))

(* Mutant: the count leaves out the member at hand, as if still to join.   *)
CountOthers(w) ==
  /\ At(w, "countMembers")
  /\ count' = [count EXCEPT ![w] = Cardinality(MembersOf(room[w]) \ {who[w]})]
  /\ Goto(w, "storeCount")
  /\ UNCHANGED <<db, redis, req, room, member, found, row, reply>>

CountMembers(w) ==
  /\ At(w, "countMembers")
  /\ count' = [count EXCEPT ![w] = Cardinality(MembersOf(room[w]))]
  /\ Goto(w, "storeCount")
  /\ UNCHANGED <<db, redis, req, room, member, found, row, reply>>

StoreCount(w) ==
  /\ At(w, "storeCount")
  /\ \/ /\ rooms[room[w]] # None
        /\ rooms' = [rooms EXCEPT ![room[w]].count = count[w]]
        /\ Move(w, "storeCount", "readCached") \/ (Faults /\ Counted(w))
     \/ /\ rooms[room[w]] = None
        /\ Counted(w)
        /\ UNCHANGED rooms
  /\ UNCHANGED <<used, roles, held, redis>>

ReadCached(w) ==
  /\ At(w, "readCached")
  /\ \E v \in Seen(roomKey[room[w]], None) :
       \/ /\ v # None
          /\ row' = [row EXCEPT ![w] = [v EXCEPT !.count = count[w]]]
          /\ Goto(w, "storeCached")
          /\ UNCHANGED <<req, room, member, found, count, reply>>
       \/ /\ v = None
          /\ Counted(w)
  /\ UNCHANGED <<db, redis>>

StoreCached(w) ==
  /\ At(w, "storeCached")
  /\ roomKey' \in Put(roomKey, room[w], row[w])
  /\ Counted(w)
  /\ UNCHANGED <<db, membersKey, memberKey, userChats>>

-----------------------------------------------------------------------------
(* GetChatRoom: GET the room, SMEMBERS, GET every member's key.            *)
ReadRoom(w) ==
  /\ At(w, "readRoom")
  /\ \E v \in Seen(roomKey[room[w]], None) :
       \/ v # None /\ Move(w, "readRoom", "readIds")
       \/ v = None /\ Move(w, "readRoom", "selectRoom")
  /\ UNCHANGED <<db, redis>>

ReadIds(w) ==
  /\ At(w, "readIds")
  /\ \E S \in Seen(membersKey[room[w]], {}) :
       todo' = [todo EXCEPT ![w] = S \X {"MEMBER"}]
  /\ Goto(w, "readInfo")
  /\ UNCHANGED <<db, redis, req, room, check, who, role, found, row, count, reply>>

ReadInfo(w) ==
  /\ At(w, "readInfo")
  /\ \/ \E m \in todo[w] :
          /\ todo' = [todo EXCEPT ![w] = @ \ {m}]
          /\ \E v \in Seen(memberKey[<<room[w], m[1]>>], None) :
               found' = [found EXCEPT ![w] = IF IsInfo(v) THEN @ \cup {m[1]} ELSE @]
          /\ UNCHANGED <<pc, req, room, check, who, role, row, count, reply>>
     \/ todo[w] = {} /\ found[w] # {} /\ Done(w, Answered(found[w]))
     \/ todo[w] = {} /\ found[w] = {} /\ Move(w, "readInfo", "selectRoom")
  /\ UNCHANGED <<db, redis>>

(* SELECT * FROM chat_rooms and cacheChatRoom, after CreateChatRoom, after *)
(* UpdateChatRoom and after a miss of GetChatRoom                          *)
SelectRoom(w) ==
  /\ At(w, "selectRoom")
  /\ \/ /\ rooms[room[w]] # None
        /\ row' = [row EXCEPT ![w] = rooms[room[w]]]
        /\ Goto(w, "storeRoom")
        /\ UNCHANGED <<req, room, member, found, count, reply>>
     \/ /\ rooms[room[w]] = None
        /\ Done(w, Failed)
  /\ UNCHANGED <<db, redis>>

StoreRoom(w) ==
  /\ At(w, "storeRoom")
  /\ roomKey' \in Put(roomKey, room[w], row[w])
  /\ \/ req[w].op = "create" /\ Done(w, Answered({}))
     \/ req[w].op = "update" /\ Move(w, "storeRoom", "delRoom")
     \/ req[w].op = "get" /\ Move(w, "storeRoom", "selectRows")
  /\ UNCHANGED <<db, membersKey, memberKey, userChats>>

(* SELECT the member rows, cacheChatRoomMember for each; the members of    *)
(* the answer stay empty.                                                  *)
SelectRows(w) ==
  /\ At(w, "selectRows")
  /\ todo' = [todo EXCEPT ![w] = RowsOf(room[w])]
  /\ Goto(w, "fill")
  /\ UNCHANGED <<db, redis, req, room, check, who, role, found, row, count, reply>>

Fill(w) ==
  /\ At(w, "fill")
  /\ \/ todo[w] = {} /\ Done(w, Answered({}))
     \/ \E m \in todo[w] :
          /\ todo' = [todo EXCEPT ![w] = @ \ {m}]
          /\ who' = [who EXCEPT ![w] = m[1]]
          /\ role' = [role EXCEPT ![w] = m[2]]
          /\ Goto(w, "setInfo")
          /\ UNCHANGED <<req, room, check, found, row, count, reply>>
  /\ UNCHANGED <<db, redis>>

(* UPDATE chat_rooms; a request without any field is refused.              *)
UpdateRoom(w) ==
  /\ At(w, "updateRoom")
  /\ \/ /\ rooms[room[w]] # None
        /\ req[w].name # None
        /\ rooms' = [rooms EXCEPT ![room[w]].name = req[w].name]
        /\ Move(w, "updateRoom", "selectRoom") \/ (Faults /\ Done(w, Failed))
     \/ /\ rooms[room[w]] = None \/ req[w].name = None
        /\ Done(w, Failed)
        /\ UNCHANGED rooms
  /\ UNCHANGED <<used, roles, held, redis>>

(* UPDATE chat_room_members SET role, for anybody but the caller           *)
UpdateRole(w) ==
  /\ At(w, "updateRole")
  /\ \E m \in todo[w] :
       \/ /\ m[1] # req[w].user
          /\ roles[<<room[w], m[1]>>] # None
          /\ SetRow(room[w], m[1], m[2])
          /\ \/ /\ who' = [who EXCEPT ![w] = m[1]]
                /\ Goto(w, "reselect")
                /\ UNCHANGED <<req, room, check, role, todo, found, row, count, reply>>
             \/ Faults /\ Done(w, Failed)
       \/ /\ m[1] = req[w].user \/ roles[<<room[w], m[1]>>] = None
          /\ Done(w, Failed)
          /\ UNCHANGED db
  /\ UNCHANGED redis

(* Mutant: a change of role leaves the cached role as it was. *)
ReselectUncached(w) ==
  /\ Move(w, "reselect", "delRoom")
  /\ UNCHANGED <<db, redis>>

(* SELECT the row again, to cache it. *)
Reselect(w) ==
  /\ At(w, "reselect")
  /\ \/ /\ roles[Key(w)] # None
        /\ role' = [role EXCEPT ![w] = roles[Key(w)]]
        /\ Goto(w, "setInfo")
        /\ UNCHANGED <<req, room, check, who, todo, found, row, count, reply>>
     \/ /\ roles[Key(w)] = None
        /\ Done(w, Failed)
  /\ UNCHANGED <<db, redis>>

-----------------------------------------------------------------------------
(* DissolveChatRoom: whom to tell, from SMEMBERS or else from the table    *)
ReadToTell(w) ==
  /\ At(w, "readToTell")
  /\ \E S \in Seen(membersKey[room[w]], {}) :
       /\ todo' = [todo EXCEPT ![w] = S \X {"MEMBER"}]
       /\ Goto(w, IF S = {} THEN "selectToTell" ELSE "dissolve")
  /\ UNCHANGED <<db, redis, req, room, check, who, role, found, row, count, reply>>

SelectToTell(w) ==
  /\ At(w, "selectToTell")
  /\ todo' = [todo EXCEPT ![w] = MembersOf(room[w]) \X {"MEMBER"}]
  /\ Goto(w, "dissolve")
  /\ UNCHANGED <<db, redis, req, room, check, who, role, found, row, count, reply>>

(* DELETE the members and the room, COMMIT; ROLLBACK when there is no room.*)
Dissolve(w) ==
  /\ At(w, "dissolve")
  /\ \/ /\ rooms[room[w]] # None
        /\ rooms' = [rooms EXCEPT ![room[w]] = None]
        /\ roles' = [k \in Rooms \X Users |-> IF k[1] = room[w] THEN None ELSE roles[k]]
        /\ Move(w, "dissolve", "delRoom") \/ (Faults /\ Done(w, Failed))
     \/ /\ rooms[room[w]] = None
        /\ Done(w, Failed)
        /\ UNCHANGED <<rooms, roles>>
  /\ UNCHANGED <<used, held, redis>>

(* invalidateChatRoomCache: DEL the room, DEL the members set. *)
DelRoom(w) ==
  /\ Move(w, "delRoom", "delMembers")
  /\ roomKey' \in Put(roomKey, room[w], None)
  /\ UNCHANGED <<db, membersKey, memberKey, userChats>>

DelMembers(w) ==
  /\ At(w, "delMembers")
  /\ membersKey' \in Put(membersKey, room[w], {})
  /\ \/ req[w].op = "dissolve" /\ Move(w, "delMembers", "tell")
     \/ req[w].op \in {"update", "role"} /\ Done(w, Answered({}))
  /\ UNCHANGED <<db, roomKey, memberKey, userChats>>

Tell(w) ==
  /\ At(w, "tell")
  /\ \/ todo[w] = {} /\ Done(w, Answered({}))
     \/ \E m \in todo[w] :
          /\ todo' = [todo EXCEPT ![w] = @ \ {m}]
          /\ who' = [who EXCEPT ![w] = m[1]]
          /\ Goto(w, "dropList")
          /\ UNCHANGED <<req, room, check, role, found, row, count, reply>>
  /\ UNCHANGED <<db, redis>>

-----------------------------------------------------------------------------
(* GetUserChats: GET user:chats:<u>; a miss is filled from the table.      *)
ReadList(w) ==
  /\ At(w, "readList")
  /\ \E l \in Seen(userChats[who[w]], None) :
       \/ l # None /\ Done(w, Answered(l))
       \/ l = None /\ Move(w, "readList", "selectRooms")
  /\ UNCHANGED <<db, redis>>

SelectRooms(w) ==
  /\ At(w, "selectRooms")
  /\ found' = [found EXCEPT ![w] = RoomsOf(who[w])]
  /\ Goto(w, "storeList")
  /\ UNCHANGED <<db, redis, req, room, member, row, count, reply>>

StoreList(w) ==
  /\ At(w, "storeList")
  /\ userChats' \in Put(userChats, who[w], found[w])
  /\ Done(w, Answered(found[w]))
  /\ UNCHANGED <<db, roomKey, membersKey, memberKey>>

(* isValidChatMember: SMEMBERS, SELECT, SADD of the caller alone.          *)
ValidMembers(w) ==
  /\ At(w, "validMembers")
  /\ \E S \in Seen(membersKey[room[w]], {}) :
       \/ S # {} /\ Done(w, IF who[w] \in S THEN Answered({who[w]}) ELSE Failed)
       \/ S = {} /\ Move(w, "validMembers", "validSelect")
  /\ UNCHANGED <<db, redis>>

(* Mutant: the result of the SELECT is not looked at. *)
ValidSelectIgnored(w) ==
  /\ Move(w, "validSelect", "validJoin")
  /\ UNCHANGED <<db, redis>>

ValidSelect(w) ==
  /\ At(w, "validSelect")
  /\ \/ roles[Key(w)] # None /\ Move(w, "validSelect", "validJoin")
     \/ roles[Key(w)] = None /\ Done(w, Failed)
  /\ UNCHANGED <<db, redis>>

ValidJoin(w) ==
  /\ At(w, "validJoin")
  /\ SAdd(room[w], who[w])
  /\ Done(w, Answered({who[w]}))
  /\ UNCHANGED <<db, roomKey, memberKey, userChats>>

(* getChatMembers: SMEMBERS, or SELECT and SADD of every row               *)
ListMembers(w) ==
  /\ At(w, "listMembers")
  /\ \E S \in Seen(membersKey[room[w]], {}) :
       \/ S # {} /\ Done(w, Answered(S))
       \/ S = {} /\ Move(w, "listMembers", "selectAll")
  /\ UNCHANGED <<db, redis>>

SelectAll(w) ==
  /\ At(w, "selectAll")
  /\ todo' = [todo EXCEPT ![w] = MembersOf(room[w]) \X {"MEMBER"}]
  /\ found' = [found EXCEPT ![w] = MembersOf(room[w])]
  /\ Goto(w, "joinAll")
  /\ UNCHANGED <<db, redis, req, room, check, who, role, row, count, reply>>

JoinAll(w) ==
  /\ At(w, "joinAll")
  /\ \/ /\ todo[w] = {}
        /\ Done(w, Answered(found[w]))
        /\ UNCHANGED membersKey
     \/ \E m \in todo[w] :
          /\ todo' = [todo EXCEPT ![w] = @ \ {m}]
          /\ SAdd(room[w], m[1])
          /\ UNCHANGED <<pc, req, room, check, who, role, found, row, count, reply>>
  /\ UNCHANGED <<db, roomKey, memberKey, userChats>>

-----------------------------------------------------------------------------
CheckSql == {"selectRole", "selectMember"}
CountSql == {"countMembers", "storeCount"}
HandlerSql == {"insertRoom", "insertOwner", "selectNickname", "selectRoom", "selectRows",
               "updateRoom", "updateRole", "reselect", "selectToTell", "dissolve",
               "selectRooms", "validSelect"}

(* A statement throws.  Checks catch it and say no; the helpers on the     *)
(* tables catch it and report failure; elsewhere the handler fails.        *)
SqlError(w) ==
  /\ Faults
  /\ \/ pc[w] \in CheckSql /\ Verdict(w, FALSE)
     \/ pc[w] \in CountSql /\ Counted(w)
     \/ pc[w] \in HandlerSql /\ Done(w, Failed)
     \/ Move(w, "insertMember", "next")
     \/ At(w, "deleteMember") /\ KeepMember(w)
     \/ At(w, "selectAll") /\ Done(w, Answered({}))
  /\ UNCHANGED <<db, redis>>

(* The process dies and is started again. *)
Crash ==
  /\ Faults
  /\ pc' = [w \in Workers |-> "idle"]
  /\ room' = [w \in Workers |-> None]
  /\ check' = [w \in Workers |-> None]
  /\ who' = [w \in Workers |-> None]
  /\ role' = [w \in Workers |-> None]
  /\ todo' = [w \in Workers |-> {}]
  /\ found' = [w \in Workers |-> {}]
  /\ row' = [w \in Workers |-> None]
  /\ count' = [w \in Workers |-> 0]
  /\ UNCHANGED <<db, redis, req, reply>>

(* Times to live run out.  Keys whose EXPIRE was never reached may outlive *)
(* this; the runs and proofs cover both.                                   *)
Expiry ==
  /\ Expiring
  /\ \/ \E r \in Rooms :
          /\ roomKey[r] # None
          /\ roomKey' = [roomKey EXCEPT ![r] = None]
          /\ UNCHANGED <<membersKey, memberKey, userChats>>
     \/ \E r \in Rooms :
          /\ membersKey[r] # {}
          /\ membersKey' = [membersKey EXCEPT ![r] = {}]
          /\ UNCHANGED <<roomKey, memberKey, userChats>>
     \/ \E k \in Rooms \X Users :
          /\ memberKey[k] # None
          /\ memberKey' = [memberKey EXCEPT ![k] = None]
          /\ UNCHANGED <<roomKey, membersKey, userChats>>
     \/ \E u \in Users :
          /\ userChats[u] # None
          /\ userChats' = [userChats EXCEPT ![u] = None]
          /\ UNCHANGED <<roomKey, membersKey, memberKey>>
  /\ UNCHANGED <<db, pc, req, local, reply>>

Arrival(w) ==
  \/ CreateChatRoom(w) \/ GetChatRoom(w) \/ UpdateChatRoom(w) \/ DissolveChatRoom(w)
  \/ AddChatRoomMember(w) \/ RemoveChatRoomMember(w) \/ UpdateMemberRole(w)
  \/ LeaveChatRoom(w) \/ GetUserChats(w) \/ IsValidChatMember(w) \/ GetChatMembers(w)

CheckStep(w) ==
  \/ ReadRole(w) \/ SelectRole(w) \/ CacheRole(w) \/ ReadMembers(w)
  \/ ExistsMember(w) \/ SelectMember(w) \/ JoinMembers(w)

MemberStep(w) ==
  \/ InsertRoom(w) \/ InsertOwner(w) \/ NextMember(w) \/ InsertMember(w)
  \/ SelectNickname(w) \/ SetInfo(w) \/ JoinInfo(w) \/ PutRole(w) \/ DropList(w)
  \/ DeleteMember(w) \/ LeaveSet(w) \/ DelMember(w) \/ CountMembers(w)
  \/ StoreCount(w) \/ ReadCached(w) \/ StoreCached(w)

RoomStep(w) ==
  \/ ReadRoom(w) \/ ReadIds(w) \/ ReadInfo(w) \/ SelectRoom(w) \/ StoreRoom(w)
  \/ SelectRows(w) \/ Fill(w) \/ UpdateRoom(w) \/ UpdateRole(w) \/ Reselect(w)
  \/ ReadToTell(w) \/ SelectToTell(w) \/ Dissolve(w) \/ DelRoom(w) \/ DelMembers(w)
  \/ Tell(w)

ReadStep(w) ==
  \/ ReadList(w) \/ SelectRooms(w) \/ StoreList(w) \/ ValidMembers(w)
  \/ ValidSelect(w) \/ ValidJoin(w) \/ ListMembers(w) \/ SelectAll(w) \/ JoinAll(w)

Step(w) == CheckStep(w) \/ MemberStep(w) \/ RoomStep(w) \/ ReadStep(w)

Next ==
  \/ \E w \in Workers : Arrival(w) \/ Step(w) \/ SqlError(w)
  \/ Crash
  \/ Expiry

Spec == Init /\ [][Next]_vars

-----------------------------------------------------------------------------
Labels ==
  {"idle", "next", "fill", "tell", "cacheRole", "readRole", "readMembers", "existsMember",
   "joinMembers", "insertMember", "setInfo", "setAgain", "joinInfo", "joinAgain",
   "joinCache", "putInfo", "putAgain", "putCache", "dropList", "deleteMember", "leaveSet",
   "delMember", "readCached", "storeCached", "readRoom", "readIds", "readInfo",
   "storeRoom", "readToTell", "delRoom", "delMembers", "readList", "storeList",
   "validMembers", "validJoin", "listMembers", "selectAll", "joinAll"}
  \cup CheckSql \cup CountSql \cup HandlerSql

(* The state stays within its types.                                       *)
TypeOK ==
  /\ rooms \in [Rooms -> Row \cup {None}]
  /\ used \subseteq Rooms
  /\ roles \in [Rooms \X Users -> Roles \cup {None}]
  /\ held \subseteq Rooms \X Users \X Roles
  /\ roomKey \in [Rooms -> Row \cup {None}]
  /\ membersKey \in [Rooms -> SUBSET Users]
  /\ memberKey \in [Rooms \X Users -> [kind : {"string", "hash"}, role : Roles] \cup {None}]
  /\ userChats \in [Users -> {None} \cup SUBSET Rooms]
  /\ pc \in [Workers -> Labels]
  /\ req \in [Workers -> Requests \cup {None}]
  /\ room \in [Workers -> Rooms \cup {None}]
  /\ check \in [Workers -> {"owner", "admin", "member", None}]
  /\ who \in [Workers -> Users \cup {None}]
  /\ role \in [Workers -> Roles \cup {None}]
  /\ todo \in [Workers -> SUBSET (Users \X Roles)]
  /\ found \in [Workers -> SUBSET (Users \cup Rooms)]
  /\ row \in [Workers -> Row \cup {None}]
  /\ count \in [Workers -> Nat]
  /\ reply \in [Workers -> [ok : BOOLEAN, found : SUBSET (Users \cup Rooms)] \cup {None}]

EverMember(r, u) == \E x \in Roles : <<r, u, x>> \in held
EverAdmin(r, u) == <<r, u, "OWNER">> \in held \/ <<r, u, "ADMIN">> \in held
EverOwner(r, u) == <<r, u, "OWNER">> \in held

(* The caches never invent a membership: a cached role is one the user had *)
(* in that room, cached members and listed rooms were members and theirs,  *)
(* however lookups, changes, failures and restarts interleave.             *)
CachesHeld ==
  /\ \A r \in Rooms, u \in Users :
       /\ memberKey[<<r, u>>] # None => <<r, u, memberKey[<<r, u>>].role>> \in held
       /\ u \in membersKey[r] => EverMember(r, u)
  /\ \A u \in Users :
       userChats[u] # None => \A r \in userChats[u] : EverMember(r, u)

(* Nobody changes a room without a role that allows it, if perhaps an old  *)
(* one: whoever updates it, adds or removes members was its owner or admin,*)
(* whoever dissolves it or changes roles its owner, and whoever reads it,  *)
(* leaves it or is let to its messages a member.                           *)
Authorised ==
  \A w \in Workers :
    LET caller == req[w].user IN
    /\ pc[w] \in {"updateRoom", "next", "insertMember", "deleteMember"}
       /\ req[w].op \in {"update", "add", "remove"} => EverAdmin(room[w], caller)
    /\ pc[w] \in {"readToTell", "dissolve", "updateRole"} => EverOwner(room[w], caller)
    /\ pc[w] \in {"readRoom", "readIds", "selectRows", "deleteMember"}
       /\ req[w].op \in {"get", "leave"} => EverMember(room[w], caller)
    /\ reply[w] # None /\ reply[w].ok /\ req[w].op = "validate"
       => EverMember(req[w].room, caller)

Quiet == \A w \in Workers : At(w, "idle")
Standing == {r \in Rooms : rooms[r] # None}

(* One request at a time keeps every cached role of a room the role of its *)
(* table: removing and role changes reach the key that the checks of       *)
(* isChatRoomOwner and isChatRoomAdmin fill.                               *)
RolesFresh ==
  Quiet => \A r \in Standing, u \in Users :
    memberKey[<<r, u>>] # None => roles[<<r, u>>] = memberKey[<<r, u>>].role

(* One request at a time leaves nobody in the cached members of a room who *)
(* was removed, left or was refused by the table.                          *)
MembersFresh ==
  Quiet => \A r \in Standing : membersKey[r] \subseteq MembersOf(r)

(* Between requests member_count is the number of member rows, and the     *)
(* cached room is the stored one.                                          *)
CountFresh ==
  Quiet => \A r \in Rooms :
    /\ r \in Standing => rooms[r].count = Cardinality(MembersOf(r))
    /\ roomKey[r] # None => roomKey[r] = rooms[r]

(* Removing and leaving take no owner from a room: only dissolving it does.*)
OwnerKept ==
  [][\A r \in Standing, u \in Users :
       roles[<<r, u>>] = "OWNER" /\ rooms'[r] # None => roles'[<<r, u>>] # None]_vars

(* What a step of w that ends or changes its room may be: dissolving it by *)
(* its owner, renaming it, adding or removing by its owner or admin, a     *)
(* change of roles by its owner; showing it or letting to its messages a   *)
(* member.  Only who adds himself, and became a plain member by it, goes   *)
(* on adding the others.                                                   *)
ByPresentRole(w) ==
  LET q == req[w]
      r == room[w]
      mine == roles[<<r, q.user>>]
      touched == {u \in Users : roles'[<<r, u>>] # roles[<<r, u>>]}
  IN
  /\ rooms'[r] = None => q.op = "dissolve" /\ mine = "OWNER"
  /\ rooms'[r] # None /\ rooms'[r].name # rooms[r].name => mine \in {"OWNER", "ADMIN"}
  /\ rooms'[r] # None /\ touched \ {q.user} # {} =>
       \/ q.op = "create"
       \/ q.op = "role" /\ mine = "OWNER"
       \/ q.op \in {"add", "remove"} /\ mine \in {"OWNER", "ADMIN"}
       \/ q.op = "add" /\ q.user \in q.targets /\ mine = "MEMBER"
  /\ rooms'[r] # None /\ q.user \in touched =>
       q.op = "create" \/ roles'[<<r, q.user>>] \in {"MEMBER", None}
  /\ q.op \in {"get", "validate"} /\ pc'[w] = "idle" /\ reply'[w] # None =>
       (reply'[w].ok => mine # None)

(* Served one at a time, requests act by the role their caller has in the  *)
(* table at that step, not by one that a check read long ago or a cache    *)
(* remembers, and nobody raises his own.                                   *)
ActsByPresentRole ==
  [][\A w \in Workers : pc'[w] # pc[w] /\ room[w] \in Standing => ByPresentRole(w)]_vars

(* "Owner cannot leave chat room. Dissolve it instead": a room keeps an    *)
(* owner while it stands.                                                  *)
OwnerRemains ==
  [][\A r \in Standing :
       (\E u \in Users : roles[<<r, u>>] = "OWNER") /\ rooms'[r] # None
       => \E u \in Users : roles'[<<r, u>>] = "OWNER"]_vars

=============================================================================
