---------------------------- MODULE PrivateChats ----------------------------
(***************************************************************************)
(* Private chats of StarryChat: the handlers CreatePrivateChat,            *)
(* GetPrivateChat and GetUserChats of ChatServiceImpl, and the two         *)
(* functions of MessageServiceImpl that read and fill the same Redis keys, *)
(* isValidChatMember and getChatMembers, for private chats.                *)
(*                                                                         *)
(* The server runs one handler per connection on a pool of threads.  Every *)
(* Redis command and every SQL statement is atomic and nothing else is, so *)
(* an action below is one such access; accesses of different connections   *)
(* interleave freely.                                                      *)
(***************************************************************************)
EXTENDS Integers, FiniteSets

CONSTANTS Workers,    \* connections being served
          Users,      \* user identifiers that occur in requests
          Registered, \* those with a row in table users
          ChatIds,    \* identifiers AUTO_INCREMENT may hand out
          Requests,   \* the requests that may arrive
          LossyRedis, \* whether a Redis command may fail (it is then ignored)
          Faults,     \* whether SQL statements may fail and the server crash
          None        \* absent row, key or value

RequestSpace ==
  [op : {"create", "get", "list", "validate", "members"},
   user : Users, other : Users, chat : ChatIds]
Replies == [ok : BOOLEAN, chats : SUBSET ChatIds, who : SUBSET Users]

ASSUME UsersAssumption == Users \subseteq Nat
ASSUME RegisteredAssumption == Registered \subseteq Users
ASSUME RequestsAssumption == Requests \subseteq RequestSpace
ASSUME FlagsAssumption == LossyRedis \in BOOLEAN /\ Faults \in BOOLEAN
ASSUME NoneAssumption == None \notin ChatIds \cup (Users \X Users) \cup Replies

VARIABLES
  privateChats, \* table private_chats: id -> <<user1_id, user2_id>>
  pairKey,      \* private_chat:users:<a>:<b> -> id
  chatKey,      \* private_chat:<id> -> <<user1_id, user2_id>>
  membersKey,   \* private_chat:<id>:members, a set; {} is no key
  membersTTL,   \* the ids whose members key has a time to live
  userChats,    \* user:chats:<u> -> the chats of a serialized chat list
  pc,           \* the access a worker makes next
  req,          \* the request it serves, or served last
  chat,         \* local privateChatId
  row,          \* local privateChat
  found,        \* local chats of GetUserChats
  reply         \* what it answered to req

store == <<privateChats, pairKey, chatKey, membersKey, membersTTL, userChats>>
local == <<chat, row, found>>
vars == <<store, pc, req, local, reply>>

Pairs == Users \X Users
Labels == {"idle", "receiver", "lookup", "find", "insert", "mapPair", "load",
           "getChat", "select", "storeChat", "storePair", "addFirst",
           "addSecond", "expireMembers", "drop1", "drop2", "drop3", "drop4",
           "partner", "getList", "selectChats", "storeList", "readMembers",
           "checkRow", "addCaller", "listMembers", "selectMembers"}
Failed == [ok |-> FALSE, chats |-> {}, who |-> {}]
Answered(C, W) == [ok |-> TRUE, chats |-> C, who |-> W]

Participants(p) == IF p = None THEN {} ELSE {p[1], p[2]}
(* Mutant: the pair is taken as the caller names it. *)
UnorderedPair(a, b) == <<a, b>>
(* user1Id and user2Id are swapped so that the smaller one comes first. *)
Ordered(a, b) == IF a > b THEN <<b, a>> ELSE <<a, b>>
Wanted(w) == Ordered(req[w].user, req[w].other)

(* RedisManager swallows exceptions: a failed read looks like a missing    *)
(* key, a failed write leaves the key as it was.                           *)
Seen(v, missing) == IF LossyRedis THEN {v, missing} ELSE {v}
Written(new, old) == IF LossyRedis THEN {new, old} ELSE {new}

At(w, l) == pc[w] = l
Goto(w, l) == pc' = [pc EXCEPT ![w] = l]

(* done(response): the handler returns and its locals are gone. *)
Done(w, r) ==
  /\ pc' = [pc EXCEPT ![w] = "idle"]
  /\ reply' = [reply EXCEPT ![w] = r]
  /\ chat' = [chat EXCEPT ![w] = None]
  /\ row' = [row EXCEPT ![w] = None]
  /\ found' = [found EXCEPT ![w] = {}]

Init ==
  /\ privateChats = [c \in ChatIds |-> None]
  /\ pairKey = [p \in Pairs |-> None]
  /\ chatKey = [c \in ChatIds |-> None]
  /\ membersKey = [c \in ChatIds |-> {}]
  /\ membersTTL = {}
  /\ userChats = [u \in Users |-> None]
  /\ pc = [w \in Workers |-> "idle"]
  /\ req = [w \in Workers |-> None]
  /\ chat = [w \in Workers |-> None]
  /\ row = [w \in Workers |-> None]
  /\ found = [w \in Workers |-> {}]
  /\ reply = [w \in Workers |-> None]

-----------------------------------------------------------------------------
(* Arrival of a request: the RPC layer calls the handler. *)
Receive(w, op, l) ==
  /\ At(w, "idle")
  /\ \E r \in Requests :
       /\ r.op = op
       /\ req' = [req EXCEPT ![w] = r]
  /\ Goto(w, l)
  /\ reply' = [reply EXCEPT ![w] = None]
  /\ UNCHANGED <<store, local>>

CreatePrivateChat(w) == Receive(w, "create", "receiver")
GetPrivateChat(w) == Receive(w, "get", "getChat")
GetUserChats(w) == Receive(w, "list", "getList")
IsValidChatMember(w) == Receive(w, "validate", "readMembers")
GetChatMembers(w) == Receive(w, "members", "listMembers")

(* SELECT 1 FROM users WHERE id = receiver_id *)
CheckReceiver(w) ==
  /\ At(w, "receiver")
  /\ \/ /\ req[w].other \in Registered
        /\ Goto(w, "lookup")
        /\ UNCHANGED <<local, reply>>
     \/ /\ req[w].other \notin Registered
        /\ Done(w, Failed)
  /\ UNCHANGED <<store, req>>

(* Mutant: a pair that is not cached is taken for a pair without a chat and *)
(* refused.                                                                 *)
LookupCacheOnly(w) ==
  /\ At(w, "lookup")
  /\ \E id \in Seen(pairKey[Wanted(w)], None) :
       \/ /\ id # None
          /\ chat' = [chat EXCEPT ![w] = id]
          /\ Goto(w, "load")
          /\ UNCHANGED <<row, found, reply>>
       \/ /\ id = None
          /\ Done(w, Failed)
  /\ UNCHANGED <<store, req>>

(* findOrCreatePrivateChat: GET private_chat:users:<a>:<b> *)
LookupPair(w) ==
  /\ At(w, "lookup")
  /\ \E id \in Seen(pairKey[Wanted(w)], None) :
       \/ /\ id # None
          /\ chat' = [chat EXCEPT ![w] = id]
          /\ Goto(w, "load")
       \/ /\ id = None
          /\ Goto(w, "find")
          /\ UNCHANGED chat
  /\ UNCHANGED <<store, req, row, found, reply>>

(* SELECT id FROM private_chats WHERE user1_id = ? AND user2_id = ? *)
FindChat(w) ==
  /\ At(w, "find")
  /\ \/ \E id \in ChatIds :
          /\ privateChats[id] = Wanted(w)
          /\ chat' = [chat EXCEPT ![w] = id]
          /\ Goto(w, "mapPair")
     \/ /\ \A id \in ChatIds : privateChats[id] # Wanted(w)
        /\ Goto(w, "insert")
        /\ UNCHANGED chat
  /\ UNCHANGED <<store, req, row, found, reply>>

(* The INSERT passes uk_users and the foreign keys on users. *)
Insertable(p) ==
  /\ Participants(p) \subseteq Registered
  /\ \A c \in ChatIds : privateChats[c] # p

(* INSERT INTO private_chats.  A constraint that fails throws, and the     *)
(* function returns 0; so does a reply of the database that is lost after  *)
(* the row was committed.                                                  *)
InsertChat(w) ==
  /\ At(w, "insert")
  /\ \/ /\ Insertable(Wanted(w))
        /\ \E id \in ChatIds :
             /\ privateChats[id] = None
             /\ privateChats' = [privateChats EXCEPT ![id] = Wanted(w)]
             /\ \/ /\ chat' = [chat EXCEPT ![w] = id]
                   /\ Goto(w, "mapPair")
                   /\ UNCHANGED <<row, found, reply>>
                \/ /\ Faults
                   /\ Done(w, Failed)
     \/ /\ ~Insertable(Wanted(w))
        /\ Done(w, Failed)
        /\ UNCHANGED privateChats
  /\ UNCHANGED <<pairKey, chatKey, membersKey, membersTTL, userChats, req>>

(* SET private_chat:users:<a>:<b> <id>, in findOrCreatePrivateChat *)
MapPair(w) ==
  /\ At(w, "mapPair")
  /\ \E id \in Written(chat[w], pairKey[Wanted(w)]) :
       pairKey' = [pairKey EXCEPT ![Wanted(w)] = id]
  /\ Goto(w, "load")
  /\ UNCHANGED <<privateChats, chatKey, membersKey, membersTTL, userChats,
                 req, local, reply>>

(* SELECT * FROM private_chats WHERE id = ?, for CreatePrivateChat (from   *)
(* "load") and for GetPrivateChat after a cache miss (from "select").      *)
SelectChat(w) ==
  /\ pc[w] \in {"load", "select"}
  /\ \/ /\ privateChats[chat[w]] # None
        /\ row' = [row EXCEPT ![w] = privateChats[chat[w]]]
        /\ Goto(w, "storeChat")
        /\ UNCHANGED <<chat, found, reply>>
     \/ /\ privateChats[chat[w]] = None
        /\ Done(w, Failed)
  /\ UNCHANGED <<store, req>>

-----------------------------------------------------------------------------
(* cachePrivateChat: SET private_chat:<id>, SET private_chat:users:<a>:<b>, *)
(* SADD both participants, EXPIRE the members.                              *)
StoreChat(w) ==
  /\ At(w, "storeChat")
  /\ \E p \in Written(row[w], chatKey[chat[w]]) :
       chatKey' = [chatKey EXCEPT ![chat[w]] = p]
  /\ Goto(w, "storePair")
  /\ UNCHANGED <<privateChats, pairKey, membersKey, membersTTL, userChats,
                 req, local, reply>>

StorePair(w) ==
  /\ At(w, "storePair")
  /\ \E id \in Written(chat[w], pairKey[row[w]]) :
       pairKey' = [pairKey EXCEPT ![row[w]] = id]
  /\ Goto(w, "addFirst")
  /\ UNCHANGED <<privateChats, chatKey, membersKey, membersTTL, userChats,
                 req, local, reply>>

(* SADD of the i-th user; getChatMembers fills the key the same way. *)
AddMember(w, from, i, to) ==
  /\ At(w, from)
  /\ \E S \in Written(membersKey[chat[w]] \cup {row[w][i]}, membersKey[chat[w]]) :
       membersKey' = [membersKey EXCEPT ![chat[w]] = S]
  /\ Goto(w, to)
  /\ UNCHANGED <<privateChats, pairKey, chatKey, membersTTL, userChats,
                 req, local, reply>>

AddFirst(w) == AddMember(w, "addFirst", 1, "addSecond")
AddSecond(w) == AddMember(w, "addSecond", 2, "expireMembers")

(* EXPIRE private_chat:<id>:members; a missing key stays missing.  Then    *)
(* CreatePrivateChat goes on to notifyPrivateChatCreated, GetPrivateChat   *)
(* to the participant check, and getChatMembers returns both users.        *)
ExpireMembers(w) ==
  /\ At(w, "expireMembers")
  /\ \E T \in Written(membersTTL \cup {chat[w]}, membersTTL) :
       membersTTL' = IF membersKey[chat[w]] = {} THEN membersTTL ELSE T
  /\ \/ /\ req[w].op = "create"
        /\ Goto(w, "drop1")
        /\ UNCHANGED <<local, reply>>
     \/ /\ req[w].op = "get"
        /\ Goto(w, "partner")
        /\ UNCHANGED <<local, reply>>
     \/ /\ req[w].op = "members"
        /\ Done(w, Answered({chat[w]}, Participants(row[w])))
  /\ UNCHANGED <<privateChats, pairKey, chatKey, membersKey, userChats, req>>

(* DEL user:chats:<u> *)
DropList(u) ==
  /\ \E l \in Written(None, userChats[u]) :
       userChats' = [userChats EXCEPT ![u] = l]
  /\ UNCHANGED <<privateChats, pairKey, chatKey, membersKey, membersTTL>>

(* notifyPrivateChatCreated drops both lists, and CreatePrivateChat drops  *)
(* them again before it answers.                                           *)
DropLists(w) ==
  \/ \E s \in {<<"drop1", 1, "drop2">>, <<"drop2", 2, "drop3">>,
               <<"drop3", 1, "drop4">>} :
       /\ At(w, s[1])
       /\ DropList(row[w][s[2]])
       /\ Goto(w, s[3])
       /\ UNCHANGED <<req, local, reply>>
  \/ /\ At(w, "drop4")
     /\ DropList(row[w][2])
     /\ Done(w, Answered({chat[w]}, Participants(row[w])))
     /\ UNCHANGED req

-----------------------------------------------------------------------------
(* Mutant: a miss is taken for a hit. *)
ReadChatUnchecked(w) ==
  /\ At(w, "getChat")
  /\ chat' = [chat EXCEPT ![w] = req[w].chat]
  /\ row' = [row EXCEPT ![w] = chatKey[req[w].chat]]
  /\ Goto(w, "partner")
  /\ UNCHANGED <<store, req, found, reply>>

(* GetPrivateChat: GET private_chat:<id> *)
ReadChat(w) ==
  /\ At(w, "getChat")
  /\ chat' = [chat EXCEPT ![w] = req[w].chat]
  /\ \E p \in Seen(chatKey[req[w].chat], None) :
       \/ /\ p # None
          /\ row' = [row EXCEPT ![w] = p]
          /\ Goto(w, "partner")
       \/ /\ p = None
          /\ Goto(w, "select")
          /\ UNCHANGED row
  /\ UNCHANGED <<store, req, found, reply>>

(* Mutant: anybody gets the chat. *)
PartnerUnchecked(w) ==
  /\ At(w, "partner")
  /\ Done(w, Answered({chat[w]}, Participants(row[w])))
  /\ UNCHANGED <<store, req>>

(* Only a participant gets the chat; the partner's user record is read and *)
(* nothing is written.                                                     *)
Partner(w) ==
  /\ At(w, "partner")
  /\ \/ /\ req[w].user \in Participants(row[w])
        /\ Done(w, Answered({chat[w]}, Participants(row[w])))
     \/ /\ req[w].user \notin Participants(row[w])
        /\ Done(w, Failed)
  /\ UNCHANGED <<store, req>>

(* GetUserChats: GET user:chats:<u>; a hit is the whole answer. *)
ReadList(w) ==
  /\ At(w, "getList")
  /\ \E l \in Seen(userChats[req[w].user], None) :
       \/ /\ l # None
          /\ Done(w, Answered(l, {req[w].user}))
       \/ /\ l = None
          /\ Goto(w, "selectChats")
          /\ UNCHANGED <<local, reply>>
  /\ UNCHANGED <<store, req>>

ChatsOf(u) == {c \in ChatIds : u \in Participants(privateChats[c])}

(* SELECT * FROM private_chats WHERE user1_id = ? OR user2_id = ?          *)
SelectChats(w) ==
  /\ At(w, "selectChats")
  /\ found' = [found EXCEPT ![w] = ChatsOf(req[w].user)]
  /\ Goto(w, "storeList")
  /\ UNCHANGED <<store, req, chat, row, reply>>

(* cacheUserChatsList *)
StoreList(w) ==
  /\ At(w, "storeList")
  /\ \E l \in Written(found[w], userChats[req[w].user]) :
       userChats' = [userChats EXCEPT ![req[w].user] = l]
  /\ Done(w, Answered(found[w], {req[w].user}))
  /\ UNCHANGED <<privateChats, pairKey, chatKey, membersKey, membersTTL, req>>

-----------------------------------------------------------------------------
(* isValidChatMember: SMEMBERS; a set that is not empty decides. *)
ReadMembers(w) ==
  /\ At(w, "readMembers")
  /\ \E S \in Seen(membersKey[req[w].chat], {}) :
       \/ /\ S # {}
          /\ Done(w, IF req[w].user \in S
                     THEN Answered({req[w].chat}, {req[w].user}) ELSE Failed)
       \/ /\ S = {}
          /\ Goto(w, "checkRow")
          /\ UNCHANGED <<local, reply>>
  /\ UNCHANGED <<store, req>>

(* Mutant: the result of the SELECT is not looked at. *)
CheckRowIgnored(w) ==
  /\ At(w, "checkRow")
  /\ Goto(w, "addCaller")
  /\ UNCHANGED <<store, req, local, reply>>

(* SELECT 1 FROM private_chats WHERE id = ? AND (user1_id = ? OR user2_id = ?) *)
CheckRow(w) ==
  /\ At(w, "checkRow")
  /\ \/ /\ req[w].user \in Participants(privateChats[req[w].chat])
        /\ Goto(w, "addCaller")
        /\ UNCHANGED <<local, reply>>
     \/ /\ req[w].user \notin Participants(privateChats[req[w].chat])
        /\ Done(w, Failed)
  /\ UNCHANGED <<store, req>>

(* SADD of the caller alone, with no EXPIRE. *)
AddCaller(w) ==
  /\ At(w, "addCaller")
  /\ \E S \in Written(membersKey[req[w].chat] \cup {req[w].user},
                      membersKey[req[w].chat]) :
       membersKey' = [membersKey EXCEPT ![req[w].chat] = S]
  /\ Done(w, Answered({req[w].chat}, {req[w].user}))
  /\ UNCHANGED <<privateChats, pairKey, chatKey, membersTTL, userChats, req>>

(* Mutant: members and chat change places in the answer. *)
ListMembersSwapped(w) ==
  /\ At(w, "listMembers")
  /\ Done(w, Answered(membersKey[req[w].chat], {req[w].chat}))
  /\ UNCHANGED <<store, req>>

(* getChatMembers: SMEMBERS, or the row and then both SADDs. *)
ListMembers(w) ==
  /\ At(w, "listMembers")
  /\ \E S \in Seen(membersKey[req[w].chat], {}) :
       \/ /\ S # {}
          /\ Done(w, Answered({req[w].chat}, S))
       \/ /\ S = {}
          /\ Goto(w, "selectMembers")
          /\ UNCHANGED <<local, reply>>
  /\ UNCHANGED <<store, req>>

SelectMembers(w) ==
  /\ At(w, "selectMembers")
  /\ \/ /\ privateChats[req[w].chat] # None
        /\ chat' = [chat EXCEPT ![w] = req[w].chat]
        /\ row' = [row EXCEPT ![w] = privateChats[req[w].chat]]
        /\ Goto(w, "addFirst")
        /\ UNCHANGED <<found, reply>>
     \/ /\ privateChats[req[w].chat] = None
        /\ Done(w, Answered({req[w].chat}, {}))
  /\ UNCHANGED <<store, req>>

-----------------------------------------------------------------------------
SqlLabels == {"receiver", "find", "insert", "load", "select", "partner",
              "selectChats", "checkRow", "selectMembers"}

(* A statement throws, or no connection is to be had: every catch block    *)
(* ends in an unsuccessful reply, in false or in no members.               *)
SqlError(w) ==
  /\ Faults
  /\ pc[w] \in SqlLabels
  /\ Done(w, Failed)
  /\ UNCHANGED <<store, req>>

(* The process dies, on its own or on a null connection that a handler     *)
(* dereferences; database and Redis keep what they have.                   *)
Crash ==
  /\ Faults
  /\ pc' = [w \in Workers |-> "idle"]
  /\ chat' = [w \in Workers |-> None]
  /\ row' = [w \in Workers |-> None]
  /\ found' = [w \in Workers |-> {}]
  /\ UNCHANGED <<store, req, reply>>

(* A time to live runs out; every key has one but a members key that       *)
(* isValidChatMember alone has filled.                                     *)
ExpirePair(p) ==
  /\ pairKey[p] # None
  /\ pairKey' = [pairKey EXCEPT ![p] = None]
  /\ UNCHANGED <<privateChats, chatKey, membersKey, membersTTL, userChats>>

ExpireChat(c) ==
  /\ chatKey[c] # None
  /\ chatKey' = [chatKey EXCEPT ![c] = None]
  /\ UNCHANGED <<privateChats, pairKey, membersKey, membersTTL, userChats>>

ExpireMembersKey(c) ==
  /\ c \in membersTTL
  /\ membersKey' = [membersKey EXCEPT ![c] = {}]
  /\ membersTTL' = membersTTL \ {c}
  /\ UNCHANGED <<privateChats, pairKey, chatKey, userChats>>

ExpireList(u) ==
  /\ userChats[u] # None
  /\ userChats' = [userChats EXCEPT ![u] = None]
  /\ UNCHANGED <<privateChats, pairKey, chatKey, membersKey, membersTTL>>

Expiry ==
  /\ \/ \E p \in Pairs : ExpirePair(p)
     \/ \E c \in ChatIds : ExpireChat(c) \/ ExpireMembersKey(c)
     \/ \E u \in Users : ExpireList(u)
  /\ UNCHANGED <<pc, req, local, reply>>

Arrival(w) ==
  \/ CreatePrivateChat(w) \/ GetPrivateChat(w) \/ GetUserChats(w)
  \/ IsValidChatMember(w) \/ GetChatMembers(w)

Step(w) ==
  \/ CheckReceiver(w) \/ LookupPair(w) \/ FindChat(w) \/ InsertChat(w)
  \/ MapPair(w) \/ SelectChat(w) \/ StoreChat(w) \/ StorePair(w)
  \/ AddFirst(w) \/ AddSecond(w) \/ ExpireMembers(w) \/ DropLists(w)
  \/ ReadChat(w) \/ Partner(w) \/ ReadList(w) \/ SelectChats(w)
  \/ StoreList(w) \/ ReadMembers(w) \/ CheckRow(w) \/ AddCaller(w)
  \/ ListMembers(w) \/ SelectMembers(w)

Next ==
  \/ \E w \in Workers : Arrival(w) \/ Step(w) \/ SqlError(w)
  \/ Crash
  \/ Expiry

Spec == Init /\ [][Next]_vars

-----------------------------------------------------------------------------
(* Every variable keeps to the values the code can give it. *)
TypeOK ==
  /\ privateChats \in [ChatIds -> Pairs \cup {None}]
  /\ pairKey \in [Pairs -> ChatIds \cup {None}]
  /\ chatKey \in [ChatIds -> Pairs \cup {None}]
  /\ membersKey \in [ChatIds -> SUBSET Users]
  /\ membersTTL \subseteq ChatIds
  /\ userChats \in [Users -> (SUBSET ChatIds) \cup {None}]
  /\ pc \in [Workers -> Labels]
  /\ req \in [Workers -> Requests \cup {None}]
  /\ chat \in [Workers -> ChatIds \cup {None}]
  /\ row \in [Workers -> Pairs \cup {None}]
  /\ found \in [Workers -> SUBSET ChatIds]
  /\ reply \in [Workers -> Replies \cup {None}]

(* Whichever of two users asks first, from however many connections at     *)
(* once, there is one chat between them: the swap of findOrCreatePrivateChat *)
(* and uk_users together make the pair unordered.                          *)
OneChatPerPair ==
  \A c, d \in ChatIds :
    /\ privateChats[c] # None
    /\ Participants(privateChats[c]) = Participants(privateChats[d])
    => c = d

(* No Redis key about private chats says anything the table does not: not  *)
(* the pair's identifier, not the chat, not a member, not a list entry.    *)
(* Keys are filled after the row was read, with no lock between, and a     *)
(* retry after a crash or a lost write fills them again.                   *)
CachesTrue ==
  /\ \A p \in Pairs : pairKey[p] # None => privateChats[pairKey[p]] = p
  /\ \A c \in ChatIds :
       /\ chatKey[c] # None => chatKey[c] = privateChats[c]
       /\ membersKey[c] \subseteq Participants(privateChats[c])
  /\ \A u \in Users : userChats[u] # None => userChats[u] \subseteq ChatsOf(u)

(* The handlers that may be at each label. *)
OpsAt(l) ==
  CASE l \in {"receiver", "lookup", "find", "insert", "mapPair", "load",
              "drop1", "drop2", "drop3", "drop4"} -> {"create"}
    [] l \in {"getChat", "select", "partner"} -> {"get"}
    [] l \in {"getList", "selectChats", "storeList"} -> {"list"}
    [] l \in {"readMembers", "checkRow", "addCaller"} -> {"validate"}
    [] l \in {"listMembers", "selectMembers"} -> {"members"}
    [] l \in {"storeChat", "storePair"} -> {"create", "get"}
    [] l \in {"addFirst", "addSecond", "expireMembers"}
         -> {"create", "get", "members"}
    [] OTHER -> {}

(* The labels at which a handler holds a loaded row. *)
RowLabels == {"storeChat", "storePair", "addFirst", "addSecond", "expireMembers",
              "drop1", "drop2", "drop3", "drop4", "partner"}

(* What a handler read before its latest access still holds when it makes  *)
(* the next one: the identifier found for the pair, the row loaded for the *)
(* identifier, the list collected for the user.  No lock protects it.      *)
LocalsTrue ==
  \A w \in Workers :
    /\ pc[w] # "idle" =>
         /\ req[w] \in Requests
         /\ req[w].op \in OpsAt(pc[w])
         /\ reply[w] = None
    /\ pc[w] \in {"mapPair", "load"} =>
         /\ chat[w] \in ChatIds
         /\ privateChats[chat[w]] = Wanted(w)
    /\ pc[w] = "select" => chat[w] = req[w].chat
    /\ pc[w] \in RowLabels =>
         /\ chat[w] \in ChatIds
         /\ row[w] \in Pairs
         /\ privateChats[chat[w]] = row[w]
         /\ req[w].op = "create" => row[w] = Wanted(w)
         /\ req[w].op # "create" => chat[w] = req[w].chat
    /\ pc[w] = "storeList" => found[w] \subseteq ChatsOf(req[w].user)
    /\ pc[w] = "addCaller" =>
         req[w].user \in Participants(privateChats[req[w].chat])

(* "Check that the user is a participant" (message_service_impl.cpp:516):  *)
(* a participant is not turned away.                                       *)
ParticipantAdmitted ==
  \A w \in Workers :
    /\ reply[w] = Failed
    /\ req[w].op = "validate"
    => req[w].user \notin Participants(privateChats[req[w].chat])

(* The service implements the directory: the table is the directory, and   *)
(* caches, races, expiry, lost writes and crashes never make a reply say   *)
(* what the directory does not.                                            *)
Directory == INSTANCE PrivateChatDirectory WITH
  Questions <- Requests,
  directory <- [c \in ChatIds |-> Participants(privateChats[c])],
  asked <- req,
  answer <- reply

DirectorySpec == Directory!DSpec
=============================================================================
