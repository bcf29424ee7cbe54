------------------------------ MODULE Messages ------------------------------
(***************************************************************************)
(* The messages of one chat: SendMessage, GetMessages, UpdateMessageStatus *)
(* and RecallMessage of MessageServiceImpl, and getLastMessagePreview,     *)
(* which ChatServiceImpl calls for its chat list.                          *)
(*                                                                         *)
(* An action is one Redis command or one SQL statement of one worker (a    *)
(* connection's thread); those of different workers interleave.  No key    *)
(* and no row of one chat depends on another chat.                         *)
(*                                                                         *)
(* isValidChatMember and getChatMembers are modelled access by access in   *)
(* PrivateChats and ChatRooms.  Here they are the answers those modules    *)
(* allow: a stranger is never admitted nor returned, and with              *)
(* PartialMembers a member may be overlooked.                              *)
(***************************************************************************)
EXTENDS Integers, FiniteSets

CONSTANTS Workers,        \* connections being served
          Users,          \* user identifiers that occur in requests
          Registered,     \* those with a row in table users
          Members,        \* the members of the chat
          MaxId,          \* bound: the chat's messages are 1..MaxId, as they come
          Precedes(_, _), \* the order of their identifiers as strings, in Redis
          MaxTime,        \* bound: the clock runs from 0 to MaxTime
          Window,         \* for how long a message may be recalled (120 s)
          Keep,           \* how many entries a timeline keeps (1000)
          DefaultLimit,   \* the limit used when a request has none (20)
          Requests,       \* the requests that may arrive
          PartialMembers, \* whether a members key may be partly filled
          LossyRedis,     \* whether a Redis command may fail (it is then ignored)
          Faults,         \* whether SQL statements may fail and the server crash
          Expiring,       \* the kinds of keys whose time to live may run out
          None            \* absent row, key or value

Ids == 1..MaxId
Statuses == {"SENT", "DELIVERED", "READ", "RECALLED"}
RequestSpace ==
  [op : {"send", "get", "status", "recall", "summary"}, user : Users,
   msg : 0..MaxId, kind : {"TEXT", "IMAGE"}, mentions : SUBSET Users,
   status : Statuses, limit : Nat, since : 0..MaxTime, until : 0..MaxTime]
Row == [sender : Users, kind : {"TEXT", "RECALL"}, time : 0..MaxTime,
        status : Statuses]
Copy == [status : Statuses, mentions : SUBSET Users]
Replies == [ok : BOOLEAN, shown : SUBSET (Ids \X Statuses)]
Entries == [sender : Users, kind : {"TEXT", "RECALL"}, statuses : SUBSET Statuses]

ASSUME BoundsAssumption ==
  /\ {MaxId, MaxTime, Window, Keep, DefaultLimit} \subseteq Nat
  /\ Keep > 0 /\ DefaultLimit > 0
ASSUME OrderAssumption ==
  /\ \A i \in Ids : ~Precedes(i, i)
  /\ \A i, j \in Ids : i = j \/ Precedes(i, j) \/ Precedes(j, i)
  /\ \A i, j, k \in Ids : Precedes(i, j) /\ Precedes(j, k) => Precedes(i, k)
ASSUME MembersAssumption ==
  Members \subseteq Registered /\ Registered \subseteq Users /\ IsFiniteSet(Users)
ASSUME RequestsAssumption == Requests \subseteq RequestSpace
ASSUME FlagsAssumption ==
  /\ {PartialMembers, LossyRedis, Faults} \subseteq BOOLEAN
  /\ Expiring \subseteq {"copy", "timeline", "preview"}
ASSUME NoneAssumption ==
  None \notin Nat \cup RequestSpace \cup Row \cup Copy \cup Replies \cup Entries

VARIABLES
  messages, \* table messages: id -> row
  mentions, \* table message_mentions: id -> users
  copies,   \* message:<id>: the status and the mentions of a cached message
  timeline, \* timeline:<type>:<chat>; the score of an entry is its row's timestamp
  preview,  \* chat:last_message:<type>:<chat>: the message whose text it shows
  unread,   \* unread:<u>:<type>:<chat>; a missing key counts as 0
  now,      \* the clock
  pc,       \* the access a worker makes next
  req,      \* the request it serves, or served last
  mid,      \* local messageId, of a new message or of the preview
  at,       \* local timestamp
  todo,     \* what a loop has still to visit
  got,      \* pairs <<id, status>>: the response so far, or the cached message read
  marks,    \* the mentions of that cached message
  reply,    \* what it answered to req
  held,     \* history: the statuses a row has had
  unseen    \* history: texts of others stored since a user's counter was reset

db == <<messages, mentions>>
redis == <<copies, timeline, preview, unread>>
local == <<mid, at, todo, got, marks>>
vars == <<db, redis, now, pc, req, local, reply, held, unseen>>

Labels == {"idle", "admit", "insert", "mention", "cache", "zadd", "trim",
           "setPreview", "members", "incr", "find", "update", "readCopy",
           "storeCopy", "range", "fetch", "query", "refill", "reset",
           "readPreview", "selectLast", "storePreview"}
Failed == [ok |-> FALSE, shown |-> {}]

Stored == {i \in Ids : messages[i] # None}
(* ZREVRANGE: the higher score first; of one second, the member whose      *)
(* string comes last, which need not be the newer message.                 *)
Later(i, j) ==
  \/ messages[i].time > messages[j].time
  \/ messages[i].time = messages[j].time /\ Precedes(j, i)
Latest(S, n) == {i \in S : Cardinality({j \in S : Later(j, i)}) < n}
Newest(S) == {i \in S : \A j \in S : messages[j].time <= messages[i].time}
(* ORDER BY timestamp DESC LIMIT n: rows of one second come in any order *)
Queried(S, n) ==
  {T \in SUBSET S :
     /\ \A i \in T, j \in S \ T : messages[i].time >= messages[j].time
     /\ T = S \/ Cardinality(T) = n
     /\ Cardinality(T) <= n}

Limit(q) == IF q.limit > 0 THEN q.limit ELSE DefaultLimit
HasMore(q, shown) == Cardinality(shown) >= q.limit

(* What RedisManager makes of a command: it is carried out, or its         *)
(* exception is logged and the caller sees nothing.                        *)
Seen(x, nothing) == IF LossyRedis THEN {x, nothing} ELSE {x}
Written(new, old) == IF LossyRedis THEN {new, old} ELSE {new}

At(w, l) == pc[w] = l
Goto(w, l) == pc' = [pc EXCEPT ![w] = l]
Set(f, w, x) == f' = [f EXCEPT ![w] = x]

(* done(response): the handler returns and its locals are gone. *)
Done(w, r) ==
  /\ Goto(w, "idle")
  /\ Set(reply, w, r)
  /\ Set(mid, w, None)
  /\ Set(at, w, 0)
  /\ Set(todo, w, {})
  /\ Set(got, w, {})
  /\ Set(marks, w, {})

(* Go on with the handler; the locals named in the action may change. *)
Move(w, l) == Goto(w, l) /\ UNCHANGED reply

Init ==
  /\ messages = [i \in Ids |-> None]
  /\ mentions = [i \in Ids |-> {}]
  /\ copies = [i \in Ids |-> None]
  /\ timeline = {}
  /\ preview = None
  /\ unread = [u \in Users |-> 0]
  /\ now = 0
  /\ pc = [w \in Workers |-> "idle"]
  /\ req = [w \in Workers |-> None]
  /\ mid = [w \in Workers |-> None]
  /\ at = [w \in Workers |-> 0]
  /\ todo = [w \in Workers |-> {}]
  /\ got = [w \in Workers |-> {}]
  /\ marks = [w \in Workers |-> {}]
  /\ reply = [w \in Workers |-> None]
  /\ held = [i \in Ids |-> {}]
  /\ unseen = [u \in Users |-> {}]

-----------------------------------------------------------------------------
(* Arrival of a request.  SendMessage, GetMessages and the summary of a    *)
(* chat list begin with the membership; the other two with the row.        *)
First(op) == CASE op \in {"send", "get"} -> "admit"
               [] op \in {"status", "recall"} -> "find"
               [] op = "summary" -> "readPreview"

Posting(q) == q.op \in {"send", "recall"}
Unposted == {v \in Workers : ~At(v, "idle") /\ Posting(req[v]) /\ mid[v] = None}

Receive(w) ==
  /\ At(w, "idle")
  /\ \E q \in Requests :
       /\ Posting(q) => Cardinality(Stored) + Cardinality(Unposted) < MaxId \* bound
       /\ Set(req, w, q)
       /\ Goto(w, First(q.op))
  /\ Set(reply, w, None)
  /\ UNCHANGED <<db, redis, now, local, held, unseen>>

(* isValidChatMember; then SendMessage reads the clock and refuses kinds   *)
(* other than text.                                                        *)
Admit(w) ==
  /\ At(w, "admit")
  /\ LET q == req[w] IN
       \/ /\ q.user \in Members
          /\ \/ /\ q.op = "send" /\ q.kind = "TEXT"
                /\ Set(at, w, now)
                /\ Move(w, "insert")
                /\ UNCHANGED <<mid, todo, got, marks>>
             \/ /\ q.op = "get"
                /\ Move(w, "range")
                /\ UNCHANGED local
             \/ /\ q.op = "status"
                /\ Move(w, "update")
                /\ UNCHANGED local
       \/ /\ \/ q.user \notin Members \/ PartialMembers
             \/ q.op = "send" /\ q.kind # "TEXT"
          /\ Done(w, Failed)
  /\ UNCHANGED <<db, redis, now, req, held, unseen>>

-----------------------------------------------------------------------------
(* saveMessageToDatabase: INSERT INTO messages, of the text of SendMessage *)
(* or of the notice of RecallMessage.                                      *)
NewRow(w) ==
  [sender |-> req[w].user, kind |-> IF req[w].op = "send" THEN "TEXT" ELSE "RECALL",
   time |-> at[w], status |-> "SENT"]
Wanted(w) == IF req[w].op = "send" THEN req[w].mentions ELSE {}
Texts(u) == {i \in Stored : messages[i].kind = "TEXT" /\ messages[i].sender # u}

Insert(w) ==
  /\ At(w, "insert")
  /\ \E i \in Ids :
       /\ Stored = 1 .. (i - 1)
       /\ messages' = [messages EXCEPT ![i] = NewRow(w)]
       /\ held' = [held EXCEPT ![i] = {"SENT"}]
       /\ unseen' = [u \in Users |->
            IF req[w].op = "send" /\ u \in Members \ {req[w].user}
            THEN unseen[u] \cup {i} ELSE unseen[u]]
       /\ Set(mid, w, i)
  /\ Set(todo, w, Wanted(w))
  /\ Move(w, IF Wanted(w) = {} THEN "cache" ELSE "mention")
  /\ UNCHANGED <<mentions, redis, now, req, at, got, marks>>

(* Mutant: an INSERT that fails is passed over. *)
MentionIgnored(w) ==
  /\ At(w, "mention")
  /\ \E u \in todo[w] :
       /\ mentions' = [mentions EXCEPT ![mid[w]] = @ \cup ({u} \cap Registered)]
       /\ Set(todo, w, todo[w] \ {u})
       /\ Move(w, IF todo[w] = {u} THEN "cache" ELSE "mention")
  /\ UNCHANGED <<messages, redis, now, req, mid, at, got, marks, held, unseen>>

(* One INSERT INTO message_mentions per mention; each commits by itself.   *)
(* One that violates a key throws, and the function returns 0.             *)
Mention(w) ==
  /\ At(w, "mention")
  /\ \E u \in todo[w] :
       \/ /\ u \in Registered
          /\ mentions' = [mentions EXCEPT ![mid[w]] = @ \cup {u}]
          /\ Set(todo, w, todo[w] \ {u})
          /\ Move(w, IF todo[w] = {u} THEN "cache" ELSE "mention")
          /\ UNCHANGED <<mid, at, got, marks>>
       \/ /\ u \notin Registered
          /\ Done(w, Failed)
          /\ UNCHANGED mentions
  /\ UNCHANGED <<messages, redis, now, req, held, unseen>>

(* cacheMessage *)
SetCopy(i, s, m) ==
  copies' \in Written([copies EXCEPT ![i] = [status |-> s, mentions |-> m]], copies)

Cache(w) ==
  /\ At(w, "cache")
  /\ SetCopy(mid[w], "SENT", Wanted(w))
  /\ Move(w, "zadd")
  /\ UNCHANGED <<db, timeline, preview, unread, now, req, local, held, unseen>>

(* updateMessageTimeline: ZADD, then ZREMRANGEBYRANK 0 -1001.  The timeline *)
(* of a notice is the last thing RecallMessage writes.                      *)
Zadd(w) ==
  /\ At(w, "zadd")
  /\ timeline' \in Written(timeline \cup {mid[w]}, timeline)
  /\ Move(w, "trim")
  /\ UNCHANGED <<db, copies, preview, unread, now, req, local, held, unseen>>

(* Mutant: the ranks are counted from the other end. *)
TrimNewest(w) ==
  /\ At(w, "trim")
  /\ timeline' \in Written({i \in timeline :
                             Cardinality({j \in timeline : Later(i, j)}) < Keep}, timeline)
  /\ \/ /\ req[w].op = "send"
        /\ Move(w, "setPreview")
        /\ UNCHANGED local
     \/ /\ req[w].op = "recall"
        /\ Done(w, [ok |-> TRUE, shown |-> {}])
  /\ UNCHANGED <<db, copies, preview, unread, now, req, held, unseen>>

Trim(w) ==
  /\ At(w, "trim")
  /\ timeline' \in Written(Latest(timeline, Keep), timeline)
  /\ \/ /\ req[w].op = "send"
        /\ Move(w, "setPreview")
        /\ UNCHANGED local
     \/ /\ req[w].op = "recall"
        /\ Done(w, [ok |-> TRUE, shown |-> {}])
  /\ UNCHANGED <<db, copies, preview, unread, now, req, held, unseen>>

(* Mutant: a preview that is there is not replaced. *)
KeepPreview(w) ==
  /\ At(w, "setPreview")
  /\ preview' \in Written(IF preview = None THEN mid[w] ELSE preview, preview)
  /\ Move(w, "members")
  /\ UNCHANGED <<db, copies, timeline, unread, now, req, local, held, unseen>>

(* updateLastMessage: SET chat:last_message *)
SetPreview(w) ==
  /\ At(w, "setPreview")
  /\ preview' \in Written(mid[w], preview)
  /\ Move(w, "members")
  /\ UNCHANGED <<db, copies, timeline, unread, now, req, local, held, unseen>>

(* Mutant: the sender's counter is raised, too. *)
ListEveryone(w) ==
  /\ At(w, "members")
  /\ \E M \in IF PartialMembers THEN SUBSET Members ELSE {Members} : Set(todo, w, M)
  /\ Move(w, "incr")
  /\ UNCHANGED <<db, redis, now, req, mid, at, got, marks, held, unseen>>

(* getChatMembers *)
ListMembers(w) ==
  /\ At(w, "members")
  /\ \E M \in IF PartialMembers THEN SUBSET Members ELSE {Members} :
       Set(todo, w, M \ {req[w].user})
  /\ Move(w, "incr")
  /\ UNCHANGED <<db, redis, now, req, mid, at, got, marks, held, unseen>>

(* incrementUnreadCount of every member but the sender *)
Increment(w) ==
  /\ At(w, "incr")
  /\ \/ \E u \in todo[w] :
          /\ unread' \in Written([unread EXCEPT ![u] = @ + 1], unread)
          /\ Set(todo, w, todo[w] \ {u})
          /\ Move(w, "incr")
          /\ UNCHANGED <<mid, at, got, marks>>
     \/ /\ todo[w] = {}
        /\ Done(w, [ok |-> TRUE, shown |-> {<<mid[w], "SENT">>}])
        /\ UNCHANGED unread
  /\ UNCHANGED <<db, copies, timeline, preview, now, req, held, unseen>>

-----------------------------------------------------------------------------
(* Mutant: whose it is, is not asked. *)
RecallableByAll(m, u) == now - m.time <= Window

(* SELECT of the row.  RecallMessage is for the sender, within the window; *)
(* it does not ask whether he is a member.                                 *)
Recallable(m, u) == m.sender = u /\ now - m.time <= Window

Find(w) ==
  /\ At(w, "find")
  /\ LET q == req[w] IN
       \/ /\ q.op = "status" /\ q.msg \in Stored
          /\ Move(w, "admit")
          /\ UNCHANGED local
       \/ /\ q.op = "recall" /\ q.msg \in Stored
          /\ Recallable(messages[q.msg], q.user)
          /\ Set(at, w, now)
          /\ Move(w, "update")
          /\ UNCHANGED <<mid, todo, got, marks>>
       \/ /\ q.msg \in Stored =>
                q.op = "recall" /\ ~Recallable(messages[q.msg], q.user)
          /\ Done(w, Failed)
  /\ UNCHANGED <<db, redis, now, req, held, unseen>>

(* updateMessageStatusInDB; a row is never deleted, so it is matched. *)
Target(w) == IF req[w].op = "recall" THEN "RECALLED" ELSE req[w].status
SetStatus(w) ==
  /\ messages' = [messages EXCEPT ![req[w].msg].status = Target(w)]
  /\ held' = [held EXCEPT ![req[w].msg] = @ \cup {Target(w)}]

Update(w) ==
  /\ At(w, "update")
  /\ SetStatus(w)
  /\ Move(w, "readCopy")
  /\ UNCHANGED <<mentions, redis, now, req, local, unseen>>

(* What follows the cached copy: a notice, or the counter of a reader. *)
AfterCopy(w) ==
  LET q == req[w] IN
    \/ /\ q.op = "recall"
       /\ Move(w, "insert")
       /\ Set(got, w, {}) /\ Set(marks, w, {})
       /\ UNCHANGED <<mid, at, todo>>
    \/ /\ q.op = "status" /\ q.status = "READ" /\ q.user # messages[q.msg].sender
       /\ Move(w, "reset")
       /\ Set(got, w, {}) /\ Set(marks, w, {})
       /\ UNCHANGED <<mid, at, todo>>
    \/ /\ q.op = "status" /\ (q.status = "READ" => q.user = messages[q.msg].sender)
       /\ Done(w, [ok |-> TRUE, shown |-> {}])

(* getMessageFromCache, then cacheMessage with the new status. *)
ReadCopy(w) ==
  /\ At(w, "readCopy")
  /\ \E c \in Seen(copies[req[w].msg], None) :
       \/ /\ c # None
          /\ Set(marks, w, c.mentions)
          /\ Move(w, "storeCopy")
          /\ UNCHANGED <<mid, at, todo, got>>
       \/ /\ c = None
          /\ AfterCopy(w)
  /\ UNCHANGED <<db, redis, now, req, held, unseen>>

(* Mutant: what was read is stored again. *)
KeepCopy(w) ==
  /\ At(w, "storeCopy")
  /\ UNCHANGED copies
  /\ AfterCopy(w)
  /\ UNCHANGED <<db, timeline, preview, unread, now, req, held, unseen>>

StoreCopy(w) ==
  /\ At(w, "storeCopy")
  /\ SetCopy(req[w].msg, Target(w), marks[w])
  /\ AfterCopy(w)
  /\ UNCHANGED <<db, timeline, preview, unread, now, req, held, unseen>>

-----------------------------------------------------------------------------
(* getRecentMessageIds: the newest entries of the timeline, or those after *)
(* the rank of before_msg_id; the times of the request play no part.       *)
InTimeline(q) ==
  CASE q.msg = 0 -> Latest(timeline, Limit(q))
    [] q.msg \in timeline -> Latest({i \in timeline : Later(q.msg, i)}, Limit(q))
    [] OTHER -> {}

ReadTimeline(w) ==
  /\ At(w, "range")
  /\ \E S \in Seen(InTimeline(req[w]), {}) :
       /\ Set(todo, w, S)
       /\ Move(w, IF S = {} THEN "query" ELSE "fetch")
  /\ UNCHANGED <<db, redis, now, req, mid, at, got, marks, held, unseen>>

(* getMessageFromCache, newest first.  The first miss sends the handler to *)
(* the database for all of them; the cached ones stay in the response      *)
(* until the database has answered.                                        *)
Fetch(w) ==
  /\ At(w, "fetch")
  /\ \E i \in Latest(todo[w], 1) : \E c \in Seen(copies[i], None) :
       \/ /\ c # None
          /\ Set(got, w, got[w] \cup {<<i, c.status>>})
          /\ Set(todo, w, todo[w] \ {i})
          /\ Move(w, IF todo[w] = {i} THEN "reset" ELSE "fetch")
       \/ /\ c = None
          /\ Set(todo, w, {})
          /\ Move(w, "query")
          /\ UNCHANGED got
  /\ UNCHANGED <<db, redis, now, req, mid, at, marks, held, unseen>>

(* SELECT * FROM messages WHERE ... ORDER BY timestamp DESC LIMIT ?; its   *)
(* rows replace what the response has so far (clear_messages).             *)
Matching(q) ==
  {i \in Stored : /\ q.msg > 0 => i < q.msg
                  /\ q.since > 0 => messages[i].time >= q.since
                  /\ q.until > 0 => messages[i].time <= q.until}

Query(w) ==
  /\ At(w, "query")
  /\ \E S \in Queried(Matching(req[w]), Limit(req[w])) :
       /\ Set(got, w, {<<i, messages[i].status>> : i \in S})
       /\ Set(todo, w, S)
       /\ Move(w, IF S = {} THEN "reset" ELSE "refill")
  /\ UNCHANGED <<db, redis, now, req, mid, at, marks, held, unseen>>

(* cacheMessage of a row: the mentions are in another table, and not read. *)
Refill(w) ==
  /\ At(w, "refill")
  /\ \E i \in Newest(todo[w]) :
       /\ \E s \in Statuses : <<i, s>> \in got[w] /\ SetCopy(i, s, {})
       /\ Set(todo, w, todo[w] \ {i})
       /\ Move(w, IF todo[w] = {i} THEN "reset" ELSE "refill")
  /\ UNCHANGED <<db, timeline, preview, unread, now, req, mid, at, got, marks>>
  /\ UNCHANGED <<held, unseen>>

(* Mutant: the count goes down by one message. *)
DecreaseOne(w) ==
  /\ At(w, "reset")
  /\ unread' \in Written([unread EXCEPT ![req[w].user] = @ - 1], unread)
  /\ unseen' = [unseen EXCEPT ![req[w].user] = {}]
  /\ Done(w, [ok |-> TRUE, shown |-> got[w]])
  /\ UNCHANGED <<db, copies, timeline, preview, now, req, held>>

(* resetUnreadCount, for GetMessages and for a message marked as read *)
Reset(w) ==
  /\ At(w, "reset")
  /\ unread' \in Written([unread EXCEPT ![req[w].user] = 0], unread)
  /\ unseen' = [unseen EXCEPT ![req[w].user] = {}]
  /\ Done(w, [ok |-> TRUE, shown |-> got[w]])
  /\ UNCHANGED <<db, copies, timeline, preview, now, req, held>>

-----------------------------------------------------------------------------
(* getLastMessagePreview: GET; or SELECT of the latest row, and SET. *)
ReadPreview(w) ==
  /\ At(w, "readPreview")
  /\ \E p \in Seen(preview, None) :
       \/ /\ p # None
          /\ Done(w, [ok |-> TRUE, shown |-> {}])
       \/ /\ p = None
          /\ Move(w, "selectLast")
          /\ UNCHANGED local
  /\ UNCHANGED <<db, redis, now, req, held, unseen>>

SelectLast(w) ==
  /\ At(w, "selectLast")
  /\ \/ /\ Stored = {}
        /\ Done(w, [ok |-> TRUE, shown |-> {}])
     \/ \E i \in Newest(Stored) :
          /\ Set(mid, w, i)
          /\ Move(w, "storePreview")
          /\ UNCHANGED <<at, todo, got, marks>>
  /\ UNCHANGED <<db, redis, now, req, held, unseen>>

StorePreview(w) ==
  /\ At(w, "storePreview")
  /\ preview' \in Written(mid[w], preview)
  /\ Done(w, [ok |-> TRUE, shown |-> {}])
  /\ UNCHANGED <<db, copies, timeline, unread, now, req, held, unseen>>

-----------------------------------------------------------------------------
(* A statement throws, or there is no connection.  saveMessageToDatabase   *)
(* then returns 0: SendMessage fails, RecallMessage goes without a notice. *)
(* GetMessages answers an error, and the cached messages it had by then.   *)
SqlError(w) ==
  /\ Faults
  /\ pc[w] \in {"insert", "mention", "find", "update", "query", "selectLast"}
  /\ Done(w, [ok |-> \/ req[w].op = "summary"
                     \/ req[w].op = "recall" /\ At(w, "insert"),
              shown |-> IF At(w, "query") THEN got[w] ELSE {}])
  /\ UNCHANGED <<db, redis, now, req, held, unseen>>

(* A statement is committed, and its answer is lost. *)
LostInsert(w) ==
  /\ Faults
  /\ At(w, "insert")
  /\ \E i \in Ids :
       /\ Stored = 1 .. (i - 1)
       /\ messages' = [messages EXCEPT ![i] = NewRow(w)]
       /\ held' = [held EXCEPT ![i] = {"SENT"}]
  /\ Done(w, [ok |-> req[w].op = "recall", shown |-> {}])
  /\ UNCHANGED <<mentions, redis, now, req, unseen>>

LostMention(w) ==
  /\ Faults
  /\ At(w, "mention")
  /\ \E u \in todo[w] \cap Registered :
       mentions' = [mentions EXCEPT ![mid[w]] = @ \cup {u}]
  /\ Done(w, Failed)
  /\ UNCHANGED <<messages, redis, now, req, held, unseen>>

LostUpdate(w) ==
  /\ Faults
  /\ At(w, "update")
  /\ SetStatus(w)
  /\ Done(w, Failed)
  /\ UNCHANGED <<mentions, redis, now, req, unseen>>

(* The process dies; database and Redis keep what they have. *)
Crash ==
  /\ Faults
  /\ pc' = [w \in Workers |-> "idle"]
  /\ req' = [w \in Workers |-> None]
  /\ reply' = [w \in Workers |-> None]
  /\ mid' = [w \in Workers |-> None]
  /\ at' = [w \in Workers |-> 0]
  /\ todo' = [w \in Workers |-> {}]
  /\ got' = [w \in Workers |-> {}]
  /\ marks' = [w \in Workers |-> {}]
  /\ UNCHANGED <<db, redis, now, held, unseen>>

(* Every key has a time to live but the unread counters. *)
Expiry ==
  /\ \/ /\ "copy" \in Expiring
        /\ \E i \in Ids : copies[i] # None /\ copies' = [copies EXCEPT ![i] = None]
        /\ UNCHANGED <<timeline, preview>>
     \/ /\ "timeline" \in Expiring
        /\ timeline # {} /\ timeline' = {}
        /\ UNCHANGED <<copies, preview>>
     \/ /\ "preview" \in Expiring
        /\ preview # None /\ preview' = None
        /\ UNCHANGED <<copies, timeline>>
  /\ UNCHANGED <<db, unread, now, pc, req, local, reply, held, unseen>>

Tick ==
  /\ now < MaxTime
  /\ now' = now + 1
  /\ UNCHANGED <<db, redis, pc, req, local, reply, held, unseen>>

Step(w) ==
  \/ Admit(w) \/ Insert(w) \/ Mention(w) \/ Cache(w) \/ Zadd(w) \/ Trim(w)
  \/ SetPreview(w) \/ ListMembers(w) \/ Increment(w) \/ Find(w) \/ Update(w)
  \/ ReadCopy(w) \/ StoreCopy(w) \/ ReadTimeline(w) \/ Fetch(w) \/ Query(w)
  \/ Refill(w) \/ Reset(w) \/ ReadPreview(w) \/ SelectLast(w) \/ StorePreview(w)

Next ==
  \/ \E w \in Workers :
       \/ Receive(w) \/ Step(w)
       \/ SqlError(w) \/ LostInsert(w) \/ LostMention(w) \/ LostUpdate(w)
  \/ Crash
  \/ Expiry
  \/ Tick

Spec == Init /\ [][Next]_vars

-----------------------------------------------------------------------------
(* Every variable keeps to its type. *)
TypeOK ==
  /\ messages \in [Ids -> Row \cup {None}]
  /\ mentions \in [Ids -> SUBSET Users]
  /\ copies \in [Ids -> Copy \cup {None}]
  /\ timeline \subseteq Ids
  /\ preview \in Ids \cup {None}
  /\ unread \in [Users -> Nat]
  /\ now \in 0..MaxTime
  /\ pc \in [Workers -> Labels]
  /\ req \in [Workers -> Requests \cup {None}]
  /\ mid \in [Workers -> Ids \cup {None}]
  /\ at \in [Workers -> 0..MaxTime]
  /\ todo \in [Workers -> SUBSET (Ids \cup Users)]
  /\ got \in [Workers -> SUBSET (Ids \X Statuses)]
  /\ marks \in [Workers -> SUBSET Users]
  /\ reply \in [Workers -> Replies \cup {None}]
  /\ held \in [Ids -> SUBSET Statuses]
  /\ unseen \in [Users -> SUBSET Ids]

(* Whatever overlaps or fails, Redis invents nothing: what it keeps of a   *)
(* message is of a row that is there, with a status the row has had and    *)
(* with all of its mentions or, when it was read back from the table, with *)
(* none; timeline and preview name rows.                                   *)
CopiesTrue ==
  /\ timeline \cup ({preview} \ {None}) \subseteq Stored
  /\ \A i \in Ids : copies[i] # None =>
       /\ i \in Stored
       /\ copies[i].status \in held[i]
       /\ copies[i].mentions \in {{}, mentions[i]}

(* A message is counted at most once for each member, and never for its    *)
(* sender: no counter exceeds the texts others have written, although the  *)
(* counters of one message are raised one by one and a reader may reset    *)
(* his in between.                                                         *)
UnreadBounded == \A u \in Users : unread[u] <= Cardinality(Texts(u))

(* Between the requests of connections that have never overlapped, with    *)
(* nothing failed so far, and keys expiring at any moment:                 *)
Rest == \A w \in Workers : At(w, "idle")

(* a cached message has the status of its row;                             *)
CopyFresh ==
  Rest => \A i \in Ids : copies[i] # None => copies[i].status = messages[i].status

(* the timeline has no gap: it begins with the newest message and lacks    *)
(* none that is newer than its last, and keeps to its length.  Of messages *)
(* of one second it may lack a newer one whose string Redis sorts first    *)
(* (10 before 9);                                                          *)
Newer(j, i) ==
  \/ messages[j].time > messages[i].time
  \/ messages[j].time = messages[i].time /\ j > i /\ Precedes(i, j)
TimelineGapless ==
  Rest => /\ Cardinality(timeline) <= Keep
          /\ \A i \in timeline, j \in Stored : Newer(j, i) => j \in timeline

(* a member's counter is the number of texts stored since he last read;    *)
UnreadExact == Rest => \A u \in Users : unread[u] = Cardinality(unseen[u])

(* and no text is newer than the message whose preview is shown.           *)
PreviewFresh ==
  Rest /\ preview # None =>
    \A i \in Stored : messages[i].kind = "TEXT" =>
      messages[i].time <= messages[preview].time

(* A client may stop asking when a reply has fewer messages than it asked  *)
(* for (has_more): nothing that matches its request was left out.          *)
Ended(w) ==
  /\ reply[w] # None
  /\ reply[w].ok
  /\ req[w].op = "get"
  /\ ~HasMore(req[w], reply[w].shown)
HistoryComplete ==
  \A w \in Workers : Ended(w) =>
    \A i \in Matching(req[w]) : \E s \in Statuses : <<i, s>> \in reply[w].shown

-----------------------------------------------------------------------------
(* SendMessage, GetMessages, UpdateMessageStatus and RecallMessage keep    *)
(* the conversation's log, through every overlap, failure and restart.     *)
Log == [i \in Ids |-> IF messages[i] = None THEN None
                      ELSE [sender |-> messages[i].sender, kind |-> messages[i].kind,
                            statuses |-> held[i]]]
Posted == [w \in Workers |->
             IF req[w] # None /\ Posting(req[w]) THEN mid[w] ELSE None]

Talk == INSTANCE Conversation
          WITH log <- Log, asked <- req, posted <- Posted, answer <- reply
ConversationSpec == Talk!Spec
=============================================================================
