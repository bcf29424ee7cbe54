--------------------------- MODULE MessagesProofs ---------------------------
(***************************************************************************)
(* Proofs about Messages, for any users, members, connections, requests    *)
(* and bounds, with or without overlooked members, lost Redis writes, SQL  *)
(* errors and crashes.                                                     *)
(***************************************************************************)
EXTENDS Messages, FiniteSetTheorems, TLAPS

OpsAt(l) ==
  CASE l = "admit" -> {"send", "get", "status"}
    [] l \in {"insert", "cache", "zadd", "trim"} -> {"send", "recall"}
    [] l \in {"mention", "setPreview", "members", "incr"} -> {"send"}
    [] l = "find" -> {"status", "recall"}
    [] l \in {"update", "readCopy", "storeCopy"} -> {"status", "recall"}
    [] l \in {"range", "fetch", "query", "refill"} -> {"get"}
    [] l = "reset" -> {"get", "status"}
    [] l \in {"readPreview", "selectLast", "storePreview"} -> {"summary"}
    [] OTHER -> {}

(* Between the INSERT of a message and the answer. *)
PostedLabels == {"mention", "cache", "zadd", "trim", "setPreview", "members", "incr"}

(* What was asked, and what has been found out about it. *)
Granted(w) ==
  pc[w] # "idle" =>
    /\ req[w] \in Requests
    /\ reply[w] = None
    /\ req[w].op \in OpsAt(pc[w])
    /\ pc[w] # "admit" /\ req[w].op \in {"send", "get"} => req[w].user \in Members
    /\ pc[w] # "admit" /\ req[w].op = "send" => req[w].kind = "TEXT"
    /\ pc[w] \notin {"find", "admit"} /\ req[w].op = "status" => req[w].user \in Members
    /\ pc[w] # "find" /\ req[w].op \in {"status", "recall"} => req[w].msg \in Stored
    /\ pc[w] # "find" /\ req[w].op = "recall" =>
         messages[req[w].msg].sender = req[w].user
    /\ pc[w] \notin {"find", "admit", "update"} /\ req[w].op \in {"status", "recall"} =>
         Target(w) \in held[req[w].msg]

(* The message a request has posted. *)
Owned(w) ==
  /\ pc[w] \in PostedLabels =>
       /\ mid[w] \in Stored
       /\ "SENT" \in held[mid[w]]
       /\ messages[mid[w]].sender = req[w].user
       /\ messages[mid[w]].kind = IF req[w].op = "send" THEN "TEXT" ELSE "RECALL"
  /\ pc[w] = "idle" => mid[w] = None
  /\ pc[w] \notin PostedLabels /\ pc[w] # "idle" /\ Posting(req[w]) => mid[w] = None
  /\ pc[w] = "storePreview" => mid[w] \in Stored
  /\ pc[w] = "mention" =>
       todo[w] \subseteq Wanted(w) /\ mentions[mid[w]] = Wanted(w) \ todo[w]
  /\ pc[w] = "cache" => mentions[mid[w]] = Wanted(w)
  /\ pc[w] = "incr" => todo[w] \subseteq Members \ {req[w].user}

(* Mentions read back are all of them, or none. *)
Whole(i, m) ==
  m = {} \/ (m = mentions[i] /\ \A w \in Workers : ~(pc[w] = "mention" /\ mid[w] = i))

(* The messages collected for a response. *)
Shown(S) == \A x \in S : x[1] \in Stored /\ x[2] \in held[x[1]]
Functional(S) == \A x, y \in S : x[1] = y[1] => x = y

Collected(w) ==
  /\ pc[w] \in {"fetch", "refill"} => todo[w] \subseteq Stored
  /\ pc[w] = "fetch" => \A x \in got[w] : x[1] \notin todo[w]
  /\ pc[w] \notin {"fetch", "query", "refill", "reset"} => got[w] = {}
  /\ Shown(got[w]) /\ Functional(got[w])
  /\ pc[w] = "storeCopy" => Whole(req[w].msg, marks[w])

LocalsTrue == \A w \in Workers : Granted(w) /\ Owned(w) /\ Collected(w)

(* No message belongs to two requests. *)
Distinct ==
  \A v, w \in Workers :
    v # w /\ pc[v] \in PostedLabels /\ pc[w] \in PostedLabels => mid[v] # mid[w]

RowsTrue ==
  \A i \in Ids :
    /\ messages[i] = None => mentions[i] = {} /\ held[i] = {}
    /\ messages[i] # None => messages[i].status \in held[i]

RedisTrue ==
  /\ timeline \subseteq Stored
  /\ preview # None => preview \in Stored
  /\ \A i \in Ids : copies[i] # None =>
       i \in Stored /\ copies[i].status \in held[i] /\ Whole(i, copies[i].mentions)

Inv == TypeOK /\ RowsTrue /\ Distinct /\ LocalsTrue /\ RedisTrue

(* Rows stay, their senders, kinds and times too; they only gain statuses. *)
Grows ==
  \A i \in Ids :
    /\ messages[i] # None =>
         /\ messages'[i] # None
         /\ messages'[i].sender = messages[i].sender
         /\ messages'[i].kind = messages[i].kind
         /\ messages'[i].time = messages[i].time
    /\ held[i] \subseteq held'[i]

-----------------------------------------------------------------------------
LEMMA IdsNumbers ==
  /\ Ids \subseteq Nat
  /\ None \notin Ids
  /\ \A n \in 0..MaxId : n \in Nat
  BY BoundsAssumption, NoneAssumption DEF Ids

LEMMA Serving ==
  ASSUME Inv, NEW w \in Workers, pc[w] # "idle"
  PROVE  /\ req[w] \in Requests /\ req[w] \in RequestSpace /\ req[w] # None
         /\ req[w].user \in Users
         /\ req[w].op \in OpsAt(pc[w])
         /\ req[w].op \in {"send", "get", "status", "recall", "summary"}
         /\ req[w].kind \in {"TEXT", "IMAGE"}
         /\ req[w].mentions \in SUBSET Users
         /\ req[w].status \in Statuses
         /\ reply[w] = None
         /\ Granted(w)
  BY RequestsAssumption, NoneAssumption DEF Inv, LocalsTrue, Granted, RequestSpace

LEMMA NoneNot ==
  ASSUME Inv
  PROVE  \A i \in Stored : i \in Ids /\ messages[i] \in Row
  BY DEF Inv, TypeOK, Stored

(* TypeOK in two halves: what handlers share, and what is each one's own. *)
SharedTypes ==
  /\ messages \in [Ids -> Row \cup {None}]
  /\ mentions \in [Ids -> SUBSET Users]
  /\ copies \in [Ids -> Copy \cup {None}]
  /\ timeline \subseteq Ids
  /\ preview \in Ids \cup {None}
  /\ unread \in [Users -> Nat]
  /\ now \in 0..MaxTime
  /\ held \in [Ids -> SUBSET Statuses]
  /\ unseen \in [Users -> SUBSET Ids]

LocalTypes ==
  /\ pc \in [Workers -> Labels]
  /\ req \in [Workers -> Requests \cup {None}]
  /\ mid \in [Workers -> Ids \cup {None}]
  /\ at \in [Workers -> 0..MaxTime]
  /\ todo \in [Workers -> SUBSET (Ids \cup Users)]
  /\ got \in [Workers -> SUBSET (Ids \X Statuses)]
  /\ marks \in [Workers -> SUBSET Users]
  /\ reply \in [Workers -> Replies \cup {None}]

LEMMA TypeHalves ==
  /\ TypeOK <=> SharedTypes /\ LocalTypes
  /\ TypeOK' <=> SharedTypes' /\ LocalTypes'
  BY DEF TypeOK, SharedTypes, LocalTypes

(* A handler that returns leaves its part of the state well typed. *)
Returns(w) == \E r \in Replies : Done(w, r)

LEMMA DoneTypes ==
  ASSUME LocalTypes, NEW w \in Workers, Returns(w), UNCHANGED req
  PROVE  LocalTypes'
  <1>1. "idle" \in Labels /\ 0 \in 0..MaxTime
    BY BoundsAssumption DEF Labels
  <1> QED
    BY <1>1 DEF LocalTypes, Returns, Done, Goto, Set

LEMMA RepliesTyped ==
  /\ Failed \in Replies
  /\ \A b \in BOOLEAN, S \in SUBSET (Ids \X Statuses) : [ok |-> b, shown |-> S] \in Replies
  /\ \A b \in BOOLEAN : [ok |-> b, shown |-> {}] \in Replies
  BY DEF Failed, Replies

(* Which row INSERT makes. *)
Inserts(w, i) ==
  /\ Stored = 1 .. (i - 1)
  /\ messages' = [messages EXCEPT ![i] = NewRow(w)]
  /\ held' = [held EXCEPT ![i] = {"SENT"}]

LEMMA InsertMakes ==
  ASSUME Inv, NEW w \in Workers, NEW i \in Ids, At(w, "insert"), Inserts(w, i)
  PROVE  /\ NewRow(w) \in Row /\ NewRow(w) # None
         /\ messages[i] = None /\ i \notin Stored
         /\ Stored' = Stored \cup {i}
         /\ mentions[i] = {} /\ held[i] = {}
  <1>1. /\ req[w].user \in Users /\ at[w] \in 0..MaxTime
        /\ req[w].op \in {"send", "recall"}
    BY Serving DEF At, OpsAt, Inv, TypeOK
  <1>2. NewRow(w) \in Row
    BY <1>1 DEF NewRow, Row, Statuses
  <1>3. i \notin Stored
    BY IdsNumbers DEF Inserts
  <1>4. messages[i] = None
    BY <1>3 DEF Stored
  <1>5. NewRow(w) # None
    BY <1>2, NoneAssumption
  <1> QED
    BY <1>2, <1>3, <1>4, <1>5 DEF Inserts, Stored, Inv, TypeOK, RowsTrue

LEMMA UpdateMakes ==
  ASSUME Inv, NEW w \in Workers, At(w, "update"), SetStatus(w)
  PROVE  /\ req[w].msg \in Ids /\ messages[req[w].msg] \in Row
         /\ Target(w) \in Statuses
         /\ [messages[req[w].msg] EXCEPT !.status = Target(w)] \in Row
         /\ messages' = [messages EXCEPT ![req[w].msg] =
                           [messages[req[w].msg] EXCEPT !.status = Target(w)]]
         /\ held' = [held EXCEPT ![req[w].msg] = held[req[w].msg] \cup {Target(w)}]
  <1>1. req[w].msg \in Stored /\ req[w].status \in Statuses
    BY Serving DEF At, OpsAt, Granted
  <1>2. req[w].msg \in Ids /\ messages[req[w].msg] \in Row
    BY <1>1, NoneNot
  <1>3. Target(w) \in Statuses
    BY <1>1 DEF Target, Statuses
  <1>4. [messages[req[w].msg] EXCEPT !.status = Target(w)] \in Row
    BY <1>2, <1>3 DEF Row
  <1> QED
    BY <1>2, <1>3, <1>4 DEF SetStatus

(* The rows change by INSERT and UPDATE alone. *)
LEMMA RowsChange ==
  ASSUME Inv, [Next]_vars
  PROVE  \/ UNCHANGED <<messages, held>>
         \/ \E w \in Workers, i \in Ids : At(w, "insert") /\ Inserts(w, i)
         \/ \E w \in Workers : At(w, "update") /\ SetStatus(w)
  <1>1. ASSUME NEW w \in Workers, Insert(w) \/ LostInsert(w)
        PROVE  At(w, "insert") /\ \E i \in Ids : Inserts(w, i)
    BY <1>1 DEF Insert, LostInsert, Inserts
  <1>2. ASSUME NEW w \in Workers, Step(w)
        PROVE  UNCHANGED <<messages, held>> \/ Insert(w) \/ Update(w)
    BY <1>2
    DEF db, Step, Admit, Mention, Cache, Zadd, Trim, SetPreview, ListMembers, Increment,
        Find, ReadCopy, StoreCopy, ReadTimeline, Fetch, Query, Refill, Reset,
        ReadPreview, SelectLast, StorePreview
  <1>3. ASSUME NEW w \in Workers, Receive(w) \/ SqlError(w) \/ LostMention(w)
        PROVE  UNCHANGED <<messages, held>>
    BY <1>3 DEF db, Receive, SqlError, LostMention
  <1>4. CASE Crash \/ Expiry \/ Tick \/ UNCHANGED vars
    BY <1>4 DEF Crash, Expiry, Tick, vars, db
  <1>5. ASSUME NEW w \in Workers, Update(w) \/ LostUpdate(w)
        PROVE  At(w, "update") /\ SetStatus(w)
    BY <1>5 DEF Update, LostUpdate
  <1> QED
    BY <1>1, <1>2, <1>3, <1>4, <1>5 DEF Next

LEMMA RowsStep ==
  ASSUME Inv, [Next]_vars
  PROVE  /\ messages' \in [Ids -> Row \cup {None}]
         /\ held' \in [Ids -> SUBSET Statuses]
         /\ \A i \in Ids : messages'[i] # None => messages'[i].status \in held'[i]
         /\ \A i \in Ids : messages'[i] = None => held'[i] = {}
         /\ Grows
  <1> USE DEF Inv, RowsTrue, Grows
  <1>1. CASE UNCHANGED <<messages, held>>
    BY <1>1 DEF TypeOK
  <1>2. ASSUME NEW w \in Workers, NEW i \in Ids, At(w, "insert"), Inserts(w, i)
        PROVE  /\ messages' \in [Ids -> Row \cup {None}]
               /\ held' \in [Ids -> SUBSET Statuses]
               /\ \A j \in Ids : messages'[j] # None => messages'[j].status \in held'[j]
               /\ \A j \in Ids : messages'[j] = None => held'[j] = {}
               /\ Grows
    <2>1. /\ NewRow(w) \in Row /\ NewRow(w) # None /\ messages[i] = None /\ held[i] = {}
          /\ NewRow(w).status = "SENT" /\ {"SENT"} \in SUBSET Statuses
      BY <1>2, InsertMakes DEF NewRow, Statuses
    <2> QED
      BY <1>2, <2>1 DEF Inserts, TypeOK
  <1>3. ASSUME NEW w \in Workers, At(w, "update"), SetStatus(w)
        PROVE  /\ messages' \in [Ids -> Row \cup {None}]
               /\ held' \in [Ids -> SUBSET Statuses]
               /\ \A j \in Ids : messages'[j] # None => messages'[j].status \in held'[j]
               /\ \A j \in Ids : messages'[j] = None => held'[j] = {}
               /\ Grows
    <2>1. PICK i \in Ids, s \in Statuses, r \in Row :
            /\ messages[i] \in Row /\ messages[i] # None /\ r # None
            /\ r = [messages[i] EXCEPT !.status = s]
            /\ messages' = [messages EXCEPT ![i] = r]
            /\ held' = [held EXCEPT ![i] = held[i] \cup {s}]
      BY <1>3, UpdateMakes, NoneAssumption
    <2>2. /\ r.status = s /\ r.sender = messages[i].sender
          /\ r.kind = messages[i].kind /\ r.time = messages[i].time
      BY <2>1 DEF Row
    <2> QED
      BY <2>1, <2>2 DEF TypeOK
  <1> QED
    BY <1>1, <1>2, <1>3, RowsChange

(* The mentions change by the INSERT of a mention. *)
Mentions(w, u) ==
  /\ pc[w] = "mention" /\ mid[w] \in Stored
  /\ u \in todo[w]
  /\ mentions' = [mentions EXCEPT ![mid[w]] = mentions[mid[w]] \cup {u}]
  /\ pc'[w] # pc[w] \/ todo'[w] # todo[w]

LEMMA MentionsStep ==
  ASSUME Inv, [Next]_vars
  PROVE  /\ mentions' \in [Ids -> SUBSET Users]
         /\ \/ mentions' = mentions
            \/ \E w \in Workers, u \in Registered : Mentions(w, u)
  <1>1. ASSUME NEW w \in Workers, Mention(w), mentions' # mentions
        PROVE  \E u \in Registered : Mentions(w, u)
    <2>1. mid[w] \in Stored
      BY <1>1 DEF Mention, At, Inv, LocalsTrue, Owned, PostedLabels
    <2>2. PICK u \in todo[w] :
            /\ u \in Registered
            /\ mentions' = [mentions EXCEPT ![mid[w]] = mentions[mid[w]] \cup {u}]
            /\ Set(todo, w, todo[w] \ {u})
      BY <1>1 DEF Mention
    <2>3. todo'[w] = todo[w] \ {u}
      BY <2>2 DEF Set, Inv, TypeOK
    <2> QED
      BY <1>1, <2>1, <2>2, <2>3 DEF Mention, Mentions, At
  <1>2. ASSUME NEW w \in Workers, LostMention(w)
        PROVE  \E u \in Registered : Mentions(w, u)
    <2>1. mid[w] \in Stored
      BY <1>2 DEF LostMention, At, Inv, LocalsTrue, Owned, PostedLabels
    <2>2. pc[w] = "mention" /\ pc'[w] = "idle"
      BY <1>2 DEF LostMention, At, Done, Goto, Inv, TypeOK
    <2> QED
      BY <1>2, <2>1, <2>2 DEF LostMention, Mentions
  <1>3. mentions' = mentions \/ \E w \in Workers : Mention(w) \/ LostMention(w)
    BY ZenonT(60) DEF Next, vars, db, Receive, Step, SqlError, LostInsert, LostUpdate,
       Crash,
       Expiry, Tick, Admit, Insert, Cache, Zadd, Trim, SetPreview, ListMembers, Increment,
       Find, Update, ReadCopy, StoreCopy, ReadTimeline, Fetch, Query, Refill, Reset,
       ReadPreview, SelectLast, StorePreview
  <1>4. CASE mentions' = mentions
    BY <1>4 DEF Inv, TypeOK
  <1>5. CASE mentions' # mentions
    <2>1. PICK w \in Workers, u \in Registered : Mentions(w, u)
      BY <1>1, <1>2, <1>3, <1>5
    <2>2. mentions[mid[w]] \cup {u} \in SUBSET Users /\ mid[w] \in Ids
      BY <2>1, MembersAssumption DEF Mentions, Inv, TypeOK, Stored
    <2>3. mentions' \in [Ids -> SUBSET Users]
      BY <2>1, <2>2 DEF Mentions, Inv, TypeOK
    <2> QED
      BY <2>1, <2>3
  <1> QED
    BY <1>4, <1>5

(* The cached messages change by cacheMessage and by expiry. *)
Cached(i, s, m) == [copies EXCEPT ![i] = [status |-> s, mentions |-> m]]

LEMMA CopiesChange ==
  ASSUME Inv, [Next]_vars
  PROVE  \/ copies' = copies
         \/ \E i \in Ids : copies' = [copies EXCEPT ![i] = None]
         \/ /\ UNCHANGED <<messages, mentions, held>>
            /\ \E w \in Workers, i \in Ids, s \in Statuses, m \in SUBSET Users :
                 /\ i \in Stored /\ s \in held[i] /\ Whole(i, m)
                 /\ copies' = Cached(i, s, m)
                 /\ \A v \in Workers :
                      pc'[v] = "mention" => pc[v] = "mention" /\ mid'[v] = mid[v]
  <1>1. ASSUME NEW w \in Workers, Cache(w)
        PROVE  \/ copies' = copies
               \/ /\ UNCHANGED <<messages, mentions, held>>
                  /\ \E i \in Ids, s \in Statuses, m \in SUBSET Users :
                       /\ i \in Stored /\ s \in held[i] /\ Whole(i, m)
                       /\ copies' = Cached(i, s, m)
                       /\ \A v \in Workers :
                            pc'[v] = "mention" => pc[v] = "mention" /\ mid'[v] = mid[v]
    <2>1. /\ mid[w] \in Stored /\ mid[w] \in Ids /\ "SENT" \in held[mid[w]]
          /\ mentions[mid[w]] = Wanted(w)
          /\ \A v \in Workers : pc[v] = "mention" => mid[v] # mid[w]
      BY <1>1 DEF Cache, At, Inv, LocalsTrue, Owned, Distinct, PostedLabels, Stored
    <2>2. Wanted(w) \in SUBSET Users
      BY <2>1 DEF Inv, TypeOK
    <2>3. Whole(mid[w], Wanted(w))
      BY <2>1 DEF Whole
    <2>4. "SENT" \in Statuses
      BY DEF Statuses
    <2>5. copies' = copies \/ copies' = Cached(mid[w], "SENT", Wanted(w))
      BY <1>1 DEF Cache, SetCopy, Written, Cached
    <2>6. UNCHANGED <<messages, mentions, held>>
      BY <1>1 DEF Cache, db
    <2>7. \A v \in Workers : pc'[v] = "mention" => pc[v] = "mention" /\ mid'[v] = mid[v]
      BY <1>1 DEF Cache, Move, Goto, local, Inv, TypeOK
    <2> QED
      BY <2>1, <2>2, <2>3, <2>4, <2>5, <2>6, <2>7
  <1>2. ASSUME NEW w \in Workers, StoreCopy(w)
        PROVE  \/ copies' = copies
               \/ /\ UNCHANGED <<messages, mentions, held>>
                  /\ \E i \in Ids, s \in Statuses, m \in SUBSET Users :
                       /\ i \in Stored /\ s \in held[i] /\ Whole(i, m)
                       /\ copies' = Cached(i, s, m)
                       /\ \A v \in Workers :
                            pc'[v] = "mention" => pc[v] = "mention" /\ mid'[v] = mid[v]
    <2>1. /\ req[w].msg \in Stored /\ req[w].msg \in Ids /\ Target(w) \in held[req[w].msg]
          /\ Whole(req[w].msg, marks[w]) /\ marks[w] \in SUBSET Users
      BY <1>2, Serving
      DEF StoreCopy, At, OpsAt, Granted, Inv, LocalsTrue, Collected, Stored, TypeOK
    <2>2. Target(w) \in Statuses
      BY <2>1 DEF Inv, TypeOK
    <2>3. copies' = copies \/ copies' = Cached(req[w].msg, Target(w), marks[w])
      BY <1>2 DEF StoreCopy, SetCopy, Written, Cached
    <2>4. UNCHANGED <<messages, mentions, held>>
      BY <1>2 DEF StoreCopy, db
    <2>5. \A v \in Workers : pc'[v] = "mention" => pc[v] = "mention" /\ mid'[v] = mid[v]
      BY <1>2 DEF StoreCopy, AfterCopy, Move, Done, Goto, Set, Inv, TypeOK
    <2> QED
      BY <2>1, <2>2, <2>3, <2>4, <2>5
  <1>3. ASSUME NEW w \in Workers, Refill(w)
        PROVE  \/ copies' = copies
               \/ /\ UNCHANGED <<messages, mentions, held>>
                  /\ \E i \in Ids, s \in Statuses, m \in SUBSET Users :
                       /\ i \in Stored /\ s \in held[i] /\ Whole(i, m)
                       /\ copies' = Cached(i, s, m)
                       /\ \A v \in Workers :
                            pc'[v] = "mention" => pc[v] = "mention" /\ mid'[v] = mid[v]
    <2>1. PICK i \in Newest(todo[w]) :
            \E s \in Statuses : <<i, s>> \in got[w] /\ SetCopy(i, s, {})
      BY <1>3 DEF Refill
    <2>2. PICK s \in Statuses : <<i, s>> \in got[w] /\ SetCopy(i, s, {})
      BY <2>1
    <2>3. i \in Stored /\ i \in Ids /\ s \in held[i]
      BY <2>2 DEF Inv, LocalsTrue, Collected, Shown, Stored
    <2>4. copies' = copies \/ copies' = Cached(i, s, {})
      BY <2>2 DEF SetCopy, Written, Cached
    <2>5. UNCHANGED <<messages, mentions, held>>
      BY <1>3 DEF Refill, db
    <2>6. \A v \in Workers : pc'[v] = "mention" => pc[v] = "mention" /\ mid'[v] = mid[v]
      BY <1>3 DEF Refill, Move, Goto, Inv, TypeOK
    <2>7. Whole(i, {}) /\ {} \in SUBSET Users
      BY DEF Whole
    <2> QED
      BY <2>3, <2>4, <2>5, <2>6, <2>7
  <1>4. CASE Expiry
    BY <1>4 DEF Expiry
  <1>5. \/ copies' = copies \/ Expiry
        \/ \E w \in Workers : Cache(w) \/ StoreCopy(w) \/ Refill(w)
    BY ZenonT(60) DEF Next, vars, redis, Receive, Step, SqlError, LostInsert,
       LostMention, LostUpdate, Crash, Tick, Admit,
       Insert, Mention, Zadd, Trim, SetPreview, ListMembers, Increment, Find, Update,
       ReadCopy, ReadTimeline, Fetch, Query, Reset, ReadPreview, SelectLast, StorePreview
  <1> QED
    BY <1>1, <1>2, <1>3, <1>4, <1>5

-----------------------------------------------------------------------------
(* A step of one worker leaves the locals of the others alone. *)
Untouched(w) ==
  /\ pc'[w] = pc[w] /\ req'[w] = req[w] /\ reply'[w] = reply[w]
  /\ mid'[w] = mid[w] /\ at'[w] = at[w] /\ todo'[w] = todo[w]
  /\ got'[w] = got[w] /\ marks'[w] = marks[w]

(* An SQL statement fails, or its answer is lost. *)
Fails(w) == SqlError(w) \/ LostInsert(w) \/ LostMention(w) \/ LostUpdate(w)

Acts(w) == Receive(w) \/ Step(w) \/ Fails(w)

LEMMA OthersStay ==
  ASSUME Inv, NEW w \in Workers, Acts(w), NEW v \in Workers, v # w
  PROVE  Untouched(v)
  <1> USE DEF Inv, TypeOK, Untouched, Done, Move, Goto, Set, local
  <1>1. CASE Receive(w) \/ Fails(w)
    BY <1>1 DEF Receive, Fails, SqlError, LostInsert, LostMention, LostUpdate
  <1>2. CASE Admit(w) \/ Insert(w) \/ Mention(w) \/ Cache(w) \/ Zadd(w) \/ Trim(w)
             \/ SetPreview(w) \/ ListMembers(w) \/ Increment(w)
    BY <1>2, ZenonT(60) DEF Admit, Insert, Mention, Cache, Zadd, Trim, SetPreview, ListMembers,
       Increment
  <1>3. CASE Find(w) \/ Update(w) \/ ReadCopy(w) \/ StoreCopy(w)
    BY <1>3 DEF Find, Update, ReadCopy, StoreCopy, AfterCopy
  <1>4. CASE ReadTimeline(w) \/ Fetch(w) \/ Query(w) \/ Refill(w) \/ Reset(w)
             \/ ReadPreview(w) \/ SelectLast(w) \/ StorePreview(w)
    BY <1>4 DEF ReadTimeline, Fetch, Query, Refill, Reset, ReadPreview, SelectLast,
       StorePreview
  <1> QED
    BY <1>1, <1>2, <1>3, <1>4 DEF Acts, Step

(* A handler has posted a message only by its INSERT. *)
LEMMA OwnPosted ==
  ASSUME Inv, NEW w \in Workers, Acts(w), pc'[w] \in PostedLabels, ~Insert(w)
  PROVE  /\ pc[w] \in PostedLabels /\ mid'[w] = mid[w]
         /\ pc'[w] = "mention" => pc[w] = "mention"
  <1> USE DEF Inv, TypeOK, Done, Move, Goto, Set, local, PostedLabels, At
  <1>1. CASE Receive(w) \/ Fails(w)
    BY <1>1, RequestsAssumption DEF Receive, Fails, SqlError, LostInsert, LostMention,
       LostUpdate, First, RequestSpace
  <1>2. CASE Admit(w) \/ Mention(w) \/ Cache(w) \/ Zadd(w) \/ Trim(w)
             \/ SetPreview(w) \/ ListMembers(w) \/ Increment(w)
    BY <1>2 DEF Admit, Mention, Cache, Zadd, Trim, SetPreview, ListMembers, Increment
  <1>3. CASE Find(w) \/ Update(w) \/ ReadCopy(w) \/ StoreCopy(w)
    BY <1>3 DEF Find, Update, ReadCopy, StoreCopy, AfterCopy
  <1>4. CASE ReadTimeline(w) \/ Fetch(w) \/ Query(w) \/ Refill(w) \/ Reset(w)
             \/ ReadPreview(w) \/ SelectLast(w) \/ StorePreview(w)
    BY <1>4 DEF ReadTimeline, Fetch, Query, Refill, Reset, ReadPreview, SelectLast,
       StorePreview
  <1> QED
    BY <1>1, <1>2, <1>3, <1>4 DEF Acts, Step

LEMMA PostedFrom ==
  ASSUME Inv, [Next]_vars, NEW v \in Workers, pc'[v] \in PostedLabels
  PROVE  \/ /\ pc[v] \in PostedLabels /\ mid'[v] = mid[v]
            /\ pc'[v] = "mention" => pc[v] = "mention"
         \/ /\ pc[v] \notin PostedLabels
            /\ mid'[v] \in Ids /\ mid'[v] \notin Stored
            /\ \A u \in Workers : u # v => Untouched(u)
  <1>1. CASE UNCHANGED <<pc, mid>>
    BY <1>1
  <1>2. ASSUME NEW w \in Workers, Acts(w), w # v
        PROVE  pc'[v] = pc[v] /\ mid'[v] = mid[v]
    BY <1>2, OthersStay DEF Untouched
  <1>3. CASE Insert(v)
    <2>1. \A u \in Workers : u # v => Untouched(u)
      BY <1>3, OthersStay DEF Acts, Step
    <2>2. PICK i \in Ids : Inserts(v, i) /\ Set(mid, v, i)
      BY <1>3 DEF Insert, Inserts
    <2>3. mid'[v] = i /\ i \notin Stored
      BY <1>3, <2>2, InsertMakes DEF Insert, Set, Inv, TypeOK
    <2>4. pc[v] \notin PostedLabels
      BY <1>3 DEF Insert, At, PostedLabels
    <2> QED
      BY <2>1, <2>3, <2>4
  <1>4. CASE Acts(v) /\ ~Insert(v)
    BY <1>4, OwnPosted
  <1>5. CASE Crash
    BY <1>5 DEF Crash, PostedLabels
  <1> QED
    BY <1>1, <1>2, <1>3, <1>4, <1>5
    DEF Next, Acts, Fails, Step, vars, local, Expiry, Tick

LEMMA DistinctStep ==
  ASSUME Inv, [Next]_vars
  PROVE  Distinct'
  <1> SUFFICES ASSUME NEW v \in Workers, NEW w \in Workers, v # w,
                      pc'[v] \in PostedLabels, pc'[w] \in PostedLabels
               PROVE  mid'[v] # mid'[w]
    BY DEF Distinct
  <1>1. \A u \in Workers : pc[u] \in PostedLabels => mid[u] \in Stored
    BY DEF Inv, LocalsTrue, Owned
  <1> QED
    BY <1>1, PostedFrom DEF Inv, Distinct, Untouched

(* What is whole stays whole. *)
LEMMA WholeStays ==
  ASSUME Inv, [Next]_vars, NEW i \in Stored, NEW m \in SUBSET Users, Whole(i, m)
  PROVE  Whole(i, m)'
  <1>1. CASE m = {}
    BY <1>1 DEF Whole
  <1>2. CASE m = mentions[i] /\ \A w \in Workers : ~(pc[w] = "mention" /\ mid[w] = i)
    <2>1. mentions'[i] = mentions[i]
      BY <1>2, MentionsStep DEF Mentions, Stored, Inv, TypeOK
    <2>2. ASSUME NEW w \in Workers, pc'[w] = "mention", mid'[w] = i
          PROVE  FALSE
      BY <1>2, <2>2, PostedFrom DEF PostedLabels
    <2> QED
      BY <1>2, <2>1, <2>2 DEF Whole
  <1> QED
    BY <1>1, <1>2 DEF Whole

LEMMA CopiesStep ==
  ASSUME Inv, [Next]_vars
  PROVE  /\ copies' \in [Ids -> Copy \cup {None}]
         /\ \A i \in Ids : copies'[i] # None =>
              /\ i \in Stored' /\ copies'[i].status \in held'[i]
              /\ Whole(i, copies[i].mentions)'
  <1>0. Stored \subseteq Stored' /\ \A i \in Ids : held[i] \subseteq held'[i]
    BY RowsStep DEF Grows, Stored
  <1>1. ASSUME NEW i \in Ids, copies[i] # None, copies'[i] = copies[i]
        PROVE  /\ i \in Stored' /\ copies'[i].status \in held'[i]
               /\ Whole(i, copies[i].mentions)'
    <2>1. /\ i \in Stored /\ copies[i].status \in held[i]
          /\ copies[i].mentions \in SUBSET Users
          /\ Whole(i, copies[i].mentions)
      BY <1>1 DEF Inv, RedisTrue, TypeOK, Copy
    <2>2. PICK m \in SUBSET Users : m = copies[i].mentions
      BY <2>1
    <2>3. Whole(i, m)
      BY <2>1, <2>2
    <2>4. Whole(i, m)'
      BY <2>1, <2>3, WholeStays
    <2>5. copies'[i].mentions = m
      BY <1>1, <2>2
    <2> QED
      BY <1>0, <1>1, <2>1, <2>4, <2>5 DEF Whole
  <1>2. CASE copies' = copies
    BY <1>1, <1>2 DEF Inv, TypeOK
  <1>3. CASE \E i \in Ids : copies' = [copies EXCEPT ![i] = None]
    BY <1>1, <1>3 DEF Inv, TypeOK
  <1>4. ASSUME UNCHANGED <<messages, mentions, held>>,
               NEW i \in Ids, NEW s \in Statuses, NEW m \in SUBSET Users,
               i \in Stored, s \in held[i], Whole(i, m), copies' = Cached(i, s, m),
               \A v \in Workers : pc'[v] = "mention" => pc[v] = "mention" /\ mid'[v] = mid[v]
        PROVE  /\ copies' \in [Ids -> Copy \cup {None}]
               /\ \A j \in Ids : copies'[j] # None =>
                    /\ j \in Stored' /\ copies'[j].status \in held'[j]
                    /\ Whole(j, copies[j].mentions)'
    <2>1. [status |-> s, mentions |-> m] \in Copy
      BY DEF Copy
    <2>2. copies' \in [Ids -> Copy \cup {None}]
      BY <1>4, <2>1 DEF Cached, Inv, TypeOK
    <2>3. copies'[i].status = s /\ copies'[i].mentions = m
      BY <1>4 DEF Cached, Inv, TypeOK
    <2>4. Whole(i, m)'
      BY <1>4, WholeStays
    <2>5. Whole(i, copies[i].mentions)'
      BY <2>3, <2>4 DEF Whole
    <2>6. \A j \in Ids : j # i => copies'[j] = copies[j]
      BY <1>4 DEF Cached, Inv, TypeOK
    <2> QED
      BY <1>0, <1>1, <1>4, <2>2, <2>3, <2>5, <2>6
  <1> QED
    BY <1>2, <1>3, <1>4, CopiesChange

-----------------------------------------------------------------------------
LEMMA RowsTrueStep ==
  ASSUME Inv, [Next]_vars
  PROVE  RowsTrue'
  <1>1. \A i \in Ids : messages'[i] = None => messages[i] = None
    BY RowsStep DEF Grows
  <1>2. ASSUME NEW i \in Ids, messages'[i] = None
        PROVE  mentions'[i] = {}
    <2>1. messages[i] = None /\ mentions[i] = {}
      BY <1>1, <1>2 DEF Inv, RowsTrue
    <2>2. i \notin Stored
      BY <2>1 DEF Stored
    <2> QED
      BY <2>1, <2>2, MentionsStep DEF Mentions, Stored, Inv, TypeOK
  <1> QED
    BY <1>2, RowsStep DEF RowsTrue

(* Timeline and preview name rows. *)
LEMMA ListsStep ==
  ASSUME Inv, [Next]_vars
  PROVE  timeline' \subseteq Stored' /\ (preview' # None => preview' \in Stored')
  <1>0. /\ Stored \subseteq Stored'
        /\ timeline \subseteq Stored /\ (preview # None => preview \in Stored)
    BY RowsStep DEF Grows, Stored, Inv, RedisTrue
  <1>1. CASE UNCHANGED <<timeline, preview>>
    BY <1>0, <1>1
  <1>2. ASSUME NEW w \in Workers, Zadd(w)
        PROVE  timeline' \subseteq Stored' /\ preview' = preview
    <2>1. mid[w] \in Stored
      BY <1>2 DEF Zadd, At, Inv, LocalsTrue, Owned, PostedLabels
    <2> QED
      BY <1>0, <1>2, <2>1 DEF Zadd, Written
  <1>3. ASSUME NEW w \in Workers, Trim(w)
        PROVE  timeline' \subseteq Stored' /\ preview' = preview
    BY <1>0, <1>3 DEF Trim, Written, Latest
  <1>4. ASSUME NEW w \in Workers, SetPreview(w)
        PROVE  timeline' = timeline /\ preview' \in Stored' \cup {preview}
    <2>1. mid[w] \in Stored
      BY <1>4 DEF SetPreview, At, Inv, LocalsTrue, Owned, PostedLabels
    <2> QED
      BY <1>0, <1>4, <2>1 DEF SetPreview, Written
  <1>5. ASSUME NEW w \in Workers, StorePreview(w)
        PROVE  timeline' = timeline /\ preview' \in Stored' \cup {preview}
    <2>1. mid[w] \in Stored
      BY <1>5 DEF StorePreview, At, Inv, LocalsTrue, Owned
    <2> QED
      BY <1>0, <1>5, <2>1 DEF StorePreview, Written
  <1>6. CASE Expiry
    BY <1>0, <1>6 DEF Expiry
  <1>7. ASSUME NEW w \in Workers, Step(w)
        PROVE  \/ UNCHANGED <<timeline, preview>>
               \/ Zadd(w) \/ Trim(w) \/ SetPreview(w) \/ StorePreview(w)
    BY <1>7
    DEF redis, Step, Admit, Insert, Mention, Cache, ListMembers, Increment, Find, Update,
        ReadCopy, StoreCopy, ReadTimeline, Fetch, Query, Refill, Reset, ReadPreview,
        SelectLast
  <1>8. \/ UNCHANGED <<timeline, preview>> \/ Expiry \/ \E w \in Workers : Step(w)
    BY DEF Next, vars, redis, Receive, SqlError, LostInsert, LostMention, LostUpdate,
       Crash, Tick
  <1> QED
    BY <1>0, <1>1, <1>2, <1>3, <1>4, <1>5, <1>6, <1>7, <1>8

LEMMA RedisStep ==
  ASSUME Inv, [Next]_vars
  PROVE  RedisTrue'
  BY CopiesStep, ListsStep DEF RedisTrue

LEMMA CountersStep ==
  ASSUME Inv, [Next]_vars
  PROVE  /\ unread' \in [Users -> Nat]
         /\ unseen' \in [Users -> SUBSET Ids]
         /\ now' \in 0..MaxTime
  <1>0. unread \in [Users -> Nat] /\ unseen \in [Users -> SUBSET Ids] /\ now \in 0..MaxTime
    BY DEF Inv, TypeOK
  <1>1. ASSUME NEW w \in Workers, Increment(w)
        PROVE  unread' \in [Users -> Nat] /\ UNCHANGED <<unseen, now>>
    <2>1. todo[w] \subseteq Users
      BY <1>1, MembersAssumption DEF Increment, At, Inv, LocalsTrue, Owned
    <2>2. \A u \in Users : [unread EXCEPT ![u] = unread[u] + 1] \in [Users -> Nat]
      BY <1>0
    <2> QED
      BY <1>0, <1>1, <2>1, <2>2 DEF Increment, Written
  <1>2. ASSUME NEW w \in Workers, Reset(w)
        PROVE  /\ unread' \in [Users -> Nat] /\ unseen' \in [Users -> SUBSET Ids]
               /\ now' = now
    <2>1. /\ unread' = unread \/ unread' = [unread EXCEPT ![req[w].user] = 0]
          /\ unseen' = [unseen EXCEPT ![req[w].user] = {}]
          /\ now' = now
      BY <1>2 DEF Reset, Written
    <2>2. \A u : /\ [unread EXCEPT ![u] = 0] \in [Users -> Nat]
                 /\ [unseen EXCEPT ![u] = {}] \in [Users -> SUBSET Ids]
      BY <1>0
    <2> QED
      BY <1>0, <2>1, <2>2
  <1>3. ASSUME NEW w \in Workers, Insert(w)
        PROVE  unseen' \in [Users -> SUBSET Ids] /\ UNCHANGED <<unread, now>>
    <2>1. PICK i \in Ids : unseen' = [u \in Users |->
            IF req[w].op = "send" /\ u \in Members \ {req[w].user}
            THEN unseen[u] \cup {i} ELSE unseen[u]]
      BY <1>3 DEF Insert
    <2>2. unseen' \in [Users -> SUBSET Ids]
      BY <1>0, <2>1
    <2> QED
      BY <1>3, <2>2 DEF Insert, redis
  <1>4. CASE Tick
    BY <1>0, <1>4, BoundsAssumption DEF Tick, redis
  <1>5. ASSUME NEW w \in Workers, Step(w)
        PROVE  UNCHANGED <<unread, unseen, now>> \/ Increment(w) \/ Reset(w) \/ Insert(w)
    BY <1>5
    DEF redis, Step, Admit, Mention, Cache, Zadd, Trim, SetPreview, ListMembers, Find,
        Update, ReadCopy, StoreCopy, ReadTimeline, Fetch, Query, Refill, ReadPreview,
        SelectLast, StorePreview
  <1>6. \/ UNCHANGED <<unread, unseen, now>> \/ Tick \/ \E w \in Workers : Step(w)
    BY DEF Next, vars, redis, Receive, SqlError, LostInsert, LostMention, LostUpdate,
       Crash, Expiry
  <1> QED
    BY <1>0, <1>1, <1>2, <1>3, <1>4, <1>5, <1>6

LEMMA SharedStep ==
  ASSUME Inv, [Next]_vars
  PROVE  SharedTypes'
  <1>1. Stored' \subseteq Ids
    BY DEF Stored
  <1>2. timeline' \subseteq Ids /\ preview' \in Ids \cup {None}
    BY <1>1, ListsStep
  <1> QED
    BY <1>2, RowsStep, MentionsStep, CopiesStep, CountersStep DEF SharedTypes

LEMMA EmptyTypes ==
  ASSUME LocalTypes, NEW w \in Workers, UNCHANGED req,
         NEW b \in BOOLEAN, Done(w, [ok |-> b, shown |-> {}])
  PROVE  LocalTypes'
  BY RepliesTyped, DoneTypes DEF Returns

LEMMA PostingTypes ==
  ASSUME Inv, LocalTypes, NEW w \in Workers,
         Admit(w) \/ Insert(w) \/ Mention(w) \/ Cache(w) \/ Zadd(w) \/ Trim(w)
         \/ SetPreview(w) \/ ListMembers(w) \/ Increment(w)
  PROVE  LocalTypes'
  <1>1. CASE Admit(w)
    <2>1. CASE Done(w, Failed)
      BY <1>1, <2>1, DoneTypes, RepliesTyped DEF Admit, Returns
    <2>2. CASE ~Done(w, Failed)
      BY <1>1, <2>2, SMTT(30)
      DEF Admit, Move, Goto, Set, local, LocalTypes, Labels, Inv, TypeOK
    <2> QED
      BY <2>1, <2>2
  <1>2. CASE Insert(w)
    <2>1. Wanted(w) \in SUBSET (Ids \cup Users)
      BY <1>2, Serving DEF Insert, At, Wanted
    <2> QED
      BY <1>2, <2>1 DEF Insert, Move, Goto, Set, LocalTypes, Labels
  <1>3. CASE Mention(w)
    <2>1. CASE Done(w, Failed)
      BY <1>3, <2>1, DoneTypes, RepliesTyped DEF Mention, Returns
    <2>2. CASE ~Done(w, Failed)
      BY <1>3, <2>2 DEF Mention, Move, Goto, Set, LocalTypes, Labels
    <2> QED
      BY <2>1, <2>2
  <1>4. CASE Cache(w) \/ Zadd(w) \/ SetPreview(w)
    BY <1>4 DEF Cache, Zadd, SetPreview, Move, Goto, local, LocalTypes, Labels
  <1>5. CASE Trim(w)
    <2>1. CASE req[w].op = "send"
      BY <1>5, <2>1 DEF Trim, Move, Goto, local, LocalTypes, Labels
    <2>2. CASE req[w].op # "send"
      <3>1. Done(w, [ok |-> TRUE, shown |-> {}]) /\ UNCHANGED req
        BY <1>5, <2>2 DEF Trim
      <3> QED
        BY <3>1, EmptyTypes
    <2> QED
      BY <2>1, <2>2
  <1>6. CASE ListMembers(w)
    <2>1. PICK M \in SUBSET Members : Set(todo, w, M \ {req[w].user})
      BY <1>6 DEF ListMembers
    <2>2. M \ {req[w].user} \in SUBSET (Ids \cup Users)
      BY MembersAssumption
    <2> QED
      BY <1>6, <2>1, <2>2 DEF ListMembers, Move, Goto, Set, LocalTypes, Labels
  <1>7. CASE Increment(w)
    <2>1. CASE todo[w] = {}
      <3>1. {<<mid[w], "SENT">>} \in SUBSET (Ids \X Statuses)
        BY <1>7 DEF Increment, At, Inv, LocalsTrue, Owned, PostedLabels, Stored, Statuses
      <3>2. PICK r \in Replies : r = [ok |-> TRUE, shown |-> {<<mid[w], "SENT">>}]
        BY <3>1, RepliesTyped
      <3>3. Done(w, r) /\ UNCHANGED req
        BY <1>7, <2>1, <3>2 DEF Increment, Done, Set
      <3> QED
        BY <3>3, DoneTypes DEF Returns
    <2>2. CASE todo[w] # {}
      BY <1>7, <2>2, ZenonT(60) DEF Increment, Move, Goto, Set, LocalTypes, Labels
    <2> QED
      BY <2>1, <2>2
  <1> QED
    BY <1>1, <1>2, <1>3, <1>4, <1>5, <1>6, <1>7

LEMMA AfterTypes ==
  ASSUME LocalTypes, NEW w \in Workers, AfterCopy(w), UNCHANGED req
  PROVE  LocalTypes'
  <1>1. CASE Done(w, [ok |-> TRUE, shown |-> {}])
    BY <1>1, EmptyTypes
  <1>2. CASE ~Done(w, [ok |-> TRUE, shown |-> {}])
    BY <1>2 DEF AfterCopy, Move, Goto, Set, LocalTypes, Labels
  <1> QED
    BY <1>1, <1>2

LEMMA ChangingTypes ==
  ASSUME Inv, LocalTypes, NEW w \in Workers,
         Find(w) \/ Update(w) \/ ReadCopy(w) \/ StoreCopy(w)
  PROVE  LocalTypes'
  <1>1. CASE Find(w)
    <2>1. CASE Done(w, Failed)
      BY <1>1, <2>1, DoneTypes, RepliesTyped DEF Find, Returns
    <2>2. CASE ~Done(w, Failed)
      BY <1>1, <2>2, SMTT(30) DEF Find, Move, Goto, Set, local, LocalTypes, Labels, Inv, TypeOK
    <2> QED
      BY <2>1, <2>2
  <1>2. CASE Update(w)
    BY <1>2 DEF Update, Move, Goto, local, LocalTypes, Labels
  <1>3. CASE ReadCopy(w)
    <2>1. CASE AfterCopy(w)
      BY <1>3, <2>1, AfterTypes DEF ReadCopy
    <2>2. CASE ~AfterCopy(w)
      <3>1. req[w].msg \in Ids
        BY <1>3, Serving, NoneNot DEF ReadCopy, At, OpsAt, Granted
      <3>2. copies[req[w].msg] \in Copy \cup {None}
        BY <3>1 DEF Inv, TypeOK
      <3>3. PICK c \in Copy \cup {None} : c # None /\ Set(marks, w, c.mentions)
        BY <1>3, <2>2, <3>2 DEF ReadCopy, Seen
      <3>4. c.mentions \in SUBSET Users
        BY <3>3 DEF Copy
      <3> QED
        BY <1>3, <2>2, <3>3, <3>4 DEF ReadCopy, Move, Goto, Set, LocalTypes, Labels
    <2> QED
      BY <2>1, <2>2
  <1>4. CASE StoreCopy(w)
    BY <1>4, AfterTypes DEF StoreCopy
  <1> QED
    BY <1>1, <1>2, <1>3, <1>4

LEMMA ReadingTypes ==
  ASSUME Inv, LocalTypes, NEW w \in Workers,
         ReadTimeline(w) \/ Fetch(w) \/ Query(w) \/ Refill(w) \/ Reset(w)
         \/ ReadPreview(w) \/ SelectLast(w) \/ StorePreview(w)
  PROVE  LocalTypes'
  <1>1. CASE ReadTimeline(w)
    <2>1. InTimeline(req[w]) \in SUBSET Ids
      BY DEF InTimeline, Latest, Inv, TypeOK
    <2>2. PICK S \in SUBSET Ids :
            Set(todo, w, S) /\ Move(w, IF S = {} THEN "query" ELSE "fetch")
      BY <1>1, <2>1 DEF ReadTimeline, Seen
    <2> QED
      BY <1>1, <2>2 DEF ReadTimeline, Move, Goto, Set, LocalTypes, Labels
  <1>2. CASE Fetch(w)
    <2>1. PICK i \in Latest(todo[w], 1) : \E c \in Seen(copies[i], None) :
            \/ /\ c # None
               /\ Set(got, w, got[w] \cup {<<i, c.status>>})
               /\ Set(todo, w, todo[w] \ {i})
               /\ Move(w, IF todo[w] = {i} THEN "reset" ELSE "fetch")
            \/ /\ c = None
               /\ Set(todo, w, {})
               /\ Move(w, "query")
               /\ UNCHANGED got
      BY <1>2 DEF Fetch
    <2>2. i \in Ids
      BY <1>2, <2>1 DEF Fetch, At, Latest, Inv, LocalsTrue, Collected, Stored
    <2>3. copies[i] \in Copy \cup {None}
      BY <2>2 DEF Inv, TypeOK
    <2>4. PICK c \in Copy \cup {None} :
            \/ /\ c # None
               /\ Set(got, w, got[w] \cup {<<i, c.status>>})
               /\ Set(todo, w, todo[w] \ {i})
               /\ Move(w, IF todo[w] = {i} THEN "reset" ELSE "fetch")
            \/ /\ c = None
               /\ Set(todo, w, {})
               /\ Move(w, "query")
               /\ UNCHANGED got
      BY <2>1, <2>3 DEF Seen
    <2>5. c # None => <<i, c.status>> \in Ids \X Statuses
      BY <2>2 DEF Copy
    <2> QED
      BY <1>2, <2>4, <2>5 DEF Fetch, Move, Goto, Set, LocalTypes, Labels
  <1>3. CASE Query(w)
    <2>1. PICK S \in Queried(Matching(req[w]), Limit(req[w])) :
            /\ Set(got, w, {<<i, messages[i].status>> : i \in S})
            /\ Set(todo, w, S)
            /\ Move(w, IF S = {} THEN "reset" ELSE "refill")
      BY <1>3 DEF Query
    <2>2. S \subseteq Stored
      BY DEF Queried, Matching
    <2>3. {<<i, messages[i].status>> : i \in S} \in SUBSET (Ids \X Statuses)
      BY <2>2, NoneNot DEF Row
    <2>4. S \in SUBSET (Ids \cup Users)
      BY <2>2 DEF Stored
    <2> QED
      BY <1>3, <2>1, <2>3, <2>4 DEF Query, Move, Goto, Set, LocalTypes, Labels
  <1>4. CASE Refill(w)
    BY <1>4 DEF Refill, Move, Goto, Set, LocalTypes, Labels
  <1>5. CASE Reset(w)
    <2>1. got[w] \in SUBSET (Ids \X Statuses)
      BY DEF LocalTypes
    <2>2. PICK r \in Replies : r = [ok |-> TRUE, shown |-> got[w]]
      BY <2>1, RepliesTyped
    <2>3. Done(w, r) /\ UNCHANGED req
      BY <1>5, <2>2 DEF Reset, Done, Set
    <2> QED
      BY <2>3, DoneTypes DEF Returns
  <1>6. CASE ReadPreview(w) \/ StorePreview(w)
    <2>1. CASE Done(w, [ok |-> TRUE, shown |-> {}])
      <3>1. UNCHANGED req
        BY <1>6 DEF ReadPreview, StorePreview
      <3> QED
        BY <2>1, <3>1, EmptyTypes
    <2>2. CASE ~Done(w, [ok |-> TRUE, shown |-> {}])
      BY <1>6, <2>2
      DEF ReadPreview, StorePreview, Move, Goto, local, LocalTypes, Labels
    <2> QED
      BY <2>1, <2>2
  <1>7. CASE SelectLast(w)
    <2>1. CASE Done(w, [ok |-> TRUE, shown |-> {}])
      <3>1. UNCHANGED req
        BY <1>7 DEF SelectLast
      <3> QED
        BY <2>1, <3>1, EmptyTypes
    <2>2. CASE ~Done(w, [ok |-> TRUE, shown |-> {}])
      BY <1>7, <2>2
      DEF SelectLast, Newest, Stored, Move, Goto, Set, LocalTypes, Labels
    <2> QED
      BY <2>1, <2>2
  <1> QED
    BY <1>1, <1>2, <1>3, <1>4, <1>5, <1>6, <1>7

LEMMA TypeStep ==
  ASSUME Inv, [Next]_vars
  PROVE  TypeOK'
  <1>0. LocalTypes
    BY TypeHalves DEF Inv
  <1>1. ASSUME NEW w \in Workers, Receive(w)
        PROVE  LocalTypes'
    <2>1. PICK q \in Requests : Set(req, w, q) /\ Goto(w, First(q.op))
      BY <1>1 DEF Receive
    <2>2. First(q.op) \in Labels
      BY RequestsAssumption DEF First, Labels, RequestSpace
    <2> QED
      BY <1>0, <1>1, <2>1, <2>2 DEF Receive, Goto, Set, local, LocalTypes
  <1>2. ASSUME NEW w \in Workers, Step(w)
        PROVE  LocalTypes'
    BY <1>0, <1>2, PostingTypes, ChangingTypes, ReadingTypes DEF Step
  <1>3. ASSUME NEW w \in Workers, Fails(w)
        PROVE  LocalTypes'
    <2>1. PICK r \in Replies : Done(w, r)
      <3>1. CASE SqlError(w)
        <4>1. PICK b \in BOOLEAN :
                b = (\/ req[w].op = "summary"
                     \/ req[w].op = "recall" /\ At(w, "insert"))
          OBVIOUS
        <4>2. PICK S \in SUBSET (Ids \X Statuses) :
                S = IF At(w, "query") THEN got[w] ELSE {}
          BY DEF Inv, TypeOK
        <4>3. Done(w, [ok |-> b, shown |-> S])
          BY <3>1, <4>1, <4>2 DEF SqlError, Done, Set
        <4> QED
          BY <4>3, RepliesTyped
      <3>2. CASE LostInsert(w)
        <4>1. PICK b \in BOOLEAN : b = (req[w].op = "recall")
          OBVIOUS
        <4>2. Done(w, [ok |-> b, shown |-> {}])
          BY <3>2, <4>1 DEF LostInsert, Done, Set
        <4> QED
          BY <4>2, RepliesTyped
      <3>3. CASE LostMention(w) \/ LostUpdate(w)
        BY <3>3, RepliesTyped DEF LostMention, LostUpdate
      <3> QED
        BY <1>3, <3>1, <3>2, <3>3 DEF Fails
    <2>2. UNCHANGED req
      BY <1>3 DEF Fails, SqlError, LostInsert, LostMention, LostUpdate
    <2> QED
      BY <1>0, <2>1, <2>2, DoneTypes DEF Returns
  <1>4. ASSUME Crash
        PROVE  LocalTypes'
    <2>1. "idle" \in Labels /\ 0 \in 0..MaxTime
      BY BoundsAssumption DEF Labels
    <2>2. /\ pc' \in [Workers -> Labels] /\ at' \in [Workers -> 0..MaxTime]
          /\ mid' \in [Workers -> Ids \cup {None}]
          /\ req' \in [Workers -> Requests \cup {None}]
          /\ reply' \in [Workers -> Replies \cup {None}]
      BY <1>4, <2>1 DEF Crash
    <2>3. /\ todo' \in [Workers -> SUBSET (Ids \cup Users)]
          /\ got' \in [Workers -> SUBSET (Ids \X Statuses)]
          /\ marks' \in [Workers -> SUBSET Users]
      BY <1>4 DEF Crash
    <2> QED
      BY <2>2, <2>3 DEF LocalTypes
  <1>5. ASSUME Expiry \/ Tick \/ UNCHANGED vars
        PROVE  LocalTypes'
    <2>1. UNCHANGED <<pc, req, mid, at, todo, got, marks, reply>>
      BY <1>5 DEF Expiry, Tick, vars, local
    <2> QED
      BY <1>0, <2>1 DEF LocalTypes
  <1>6. LocalTypes'
    BY <1>1, <1>2, <1>3, <1>4, <1>5 DEF Next, Fails
  <1> QED
    BY <1>6, SharedStep, TypeHalves

-----------------------------------------------------------------------------
(* What a handler has found out stays true while rows grow. *)
LEMMA StoredStays ==
  ASSUME Inv, [Next]_vars
  PROVE  /\ Stored \subseteq Stored'
         /\ \A i \in Stored : /\ messages'[i].sender = messages[i].sender
                              /\ messages'[i].kind = messages[i].kind
         /\ \A i \in Ids : held[i] \subseteq held'[i]
  BY RowsStep DEF Grows, Stored

LEMMA GrantedMoves ==
  ASSUME Inv, [Next]_vars, NEW w \in Workers, pc[w] # "idle",
         req'[w] = req[w], reply'[w] = reply[w],
         \/ pc'[w] = pc[w]
         \/ /\ pc[w] \notin {"admit", "find", "update"}
            /\ pc'[w] # "idle" => req[w].op \in OpsAt(pc'[w])
  PROVE  Granted(w)'
  <1>1. Granted(w) /\ req[w].op \in {"send", "get", "status", "recall", "summary"}
    BY Serving
  <1>2. Target(w)' = Target(w)
    BY DEF Target
  <1>3. req[w].msg \in Stored =>
          /\ req'[w].msg \in Stored'
          /\ messages'[req'[w].msg].sender = messages[req[w].msg].sender
          /\ held[req[w].msg] \subseteq held'[req'[w].msg]
    BY StoredStays DEF Stored
  <1>4. CASE pc'[w] = "idle"
    BY <1>4 DEF Granted
  <1>5. CASE pc'[w] # "idle"
    <2>1. /\ req'[w] \in Requests /\ reply'[w] = None
          /\ req'[w].op \in OpsAt(pc'[w])
      BY <1>1, <1>5 DEF Granted
    <2>2. /\ pc'[w] # "admit" /\ req'[w].op \in {"send", "get"} => req'[w].user \in Members
          /\ pc'[w] # "admit" /\ req'[w].op = "send" => req'[w].kind = "TEXT"
          /\ pc'[w] \notin {"find", "admit"} /\ req'[w].op = "status" => req'[w].user \in Members
      BY <1>1, <1>5 DEF Granted
    <2>3. /\ pc'[w] # "find" /\ req'[w].op \in {"status", "recall"} =>
               req'[w].msg \in Stored'
          /\ pc'[w] # "find" /\ req'[w].op = "recall" =>
               messages'[req'[w].msg].sender = req'[w].user
          /\ pc'[w] \notin {"find", "admit", "update"} /\ req'[w].op \in {"status", "recall"} =>
               Target(w)' \in held'[req'[w].msg]
      BY <1>1, <1>2, <1>3, <1>5 DEF Granted
    <2> QED
      BY <2>1, <2>2, <2>3 DEF Granted
  <1> QED
    BY <1>4, <1>5

(* The message a request has posted stays its own. *)
Holds(w) ==
  /\ mid[w] \in Stored
  /\ "SENT" \in held[mid[w]]
  /\ messages[mid[w]].sender = req[w].user
  /\ messages[mid[w]].kind = IF req[w].op = "send" THEN "TEXT" ELSE "RECALL"

LEMMA HoldsStays ==
  ASSUME Inv, [Next]_vars, NEW w \in Workers, Holds(w),
         req'[w] = req[w], mid'[w] = mid[w]
  PROVE  Holds(w)'
  BY StoredStays DEF Holds, Stored

LEMMA OwnedMoves ==
  ASSUME Inv, [Next]_vars, NEW w \in Workers,
         pc[w] \in PostedLabels, pc'[w] \in {"zadd", "trim", "setPreview", "members"},
         req'[w] = req[w], mid'[w] = mid[w]
  PROVE  Owned(w)'
  <1>1. Holds(w)'
    BY HoldsStays DEF Inv, LocalsTrue, Owned, Holds
  <1> QED
    BY <1>1 DEF Owned, Holds, PostedLabels

LEMMA WholeMarks ==
  ASSUME Inv, [Next]_vars, NEW w \in Workers, req'[w] = req[w], marks'[w] = marks[w],
         req[w].msg \in Stored, marks[w] \in SUBSET Users, Whole(req[w].msg, marks[w])
  PROVE  Whole(req[w].msg, marks[w])'
  <1>1. PICK i \in Stored, m \in SUBSET Users : i = req[w].msg /\ m = marks[w]
    OBVIOUS
  <1>2. Whole(i, m)'
    BY <1>1, WholeStays DEF Whole
  <1> QED
    BY <1>1, <1>2 DEF Whole

LEMMA ShownStays ==
  ASSUME Inv, [Next]_vars, NEW w \in Workers, got'[w] = got[w]
  PROVE  Shown(got[w])' /\ Functional(got[w])'
  BY StoredStays DEF Inv, LocalsTrue, Collected, Shown, Functional, Stored

(* A worker that another one's step leaves alone. *)
LEMMA UntouchedLocals ==
  ASSUME Inv, [Next]_vars, NEW v \in Workers, Untouched(v)
  PROVE  Granted(v)' /\ Owned(v)' /\ Collected(v)'
  <1> USE DEF Untouched
  <1>1. CASE pc[v] = "idle"
    BY <1>1, ShownStays
    DEF Granted, Owned, Collected, PostedLabels, Inv, LocalsTrue
  <1>2. CASE pc[v] # "idle"
    <2>1. Granted(v)'
      BY <1>2, GrantedMoves
    <2>2. Owned(v)'
      <3>1. pc[v] \in PostedLabels => Holds(v)'
        BY HoldsStays DEF Inv, LocalsTrue, Owned, Holds
      <3>2. Wanted(v)' = Wanted(v)
        BY DEF Wanted
      <3>3. pc[v] \in {"mention", "cache"} => mentions'[mid[v]] = mentions[mid[v]]
        <4>1. CASE mentions' = mentions
          BY <4>1
        <4>2. ASSUME pc[v] \in {"mention", "cache"},
                     NEW w \in Workers, NEW u \in Registered, Mentions(w, u)
              PROVE  mentions'[mid[v]] = mentions[mid[v]]
          <5>1. w # v
            BY <4>2 DEF Mentions
          <5>2. mid[w] # mid[v]
            BY <4>2, <5>1 DEF Mentions, Inv, Distinct, PostedLabels
          <5> QED
            BY <4>2, <5>2 DEF Mentions, Inv, TypeOK
        <4> QED
          BY <4>1, <4>2, MentionsStep
      <3>4. pc[v] = "storePreview" => mid'[v] \in Stored'
        BY StoredStays DEF Inv, LocalsTrue, Owned
      <3>5. Owned(v)
        BY DEF Inv, LocalsTrue
      <3>6. pc'[v] \in PostedLabels => Holds(v)'
        BY <3>1
      <3>7. /\ pc'[v] = "mention" => /\ todo'[v] \subseteq Wanted(v)'
                                     /\ mentions'[mid'[v]] = Wanted(v)' \ todo'[v]
            /\ pc'[v] = "cache" => mentions'[mid'[v]] = Wanted(v)'
        BY <3>2, <3>3, <3>5 DEF Owned
      <3>8. /\ pc'[v] = "idle" => mid'[v] = None
            /\ pc'[v] \notin PostedLabels /\ pc'[v] # "idle" /\ Posting(req'[v]) => mid'[v] = None
            /\ pc'[v] = "incr" => todo'[v] \subseteq Members \ {req'[v].user}
        BY <3>5 DEF Owned
      <3> QED
        BY <3>4, <3>6, <3>7, <3>8 DEF Owned, Holds
    <2>3. Collected(v)'
      <3>1. Shown(got[v])' /\ Functional(got[v])'
        BY ShownStays
      <3>2. pc[v] = "storeCopy" => Whole(req[v].msg, marks[v])'
        <4>1. SUFFICES ASSUME pc[v] = "storeCopy" PROVE Whole(req[v].msg, marks[v])'
          OBVIOUS
        <4>2. Granted(v) /\ Collected(v)
          BY DEF Inv, LocalsTrue
        <4>3. req[v].msg \in Stored
          BY <4>1, <4>2 DEF Granted, OpsAt
        <4>4. marks[v] \in SUBSET Users
          BY DEF Inv, TypeOK
        <4>5. Whole(req[v].msg, marks[v])
          BY <4>1, <4>2 DEF Collected
        <4> QED
          BY <4>3, <4>4, <4>5, WholeMarks
      <3>3. Collected(v)
        BY DEF Inv, LocalsTrue
      <3>4. /\ pc'[v] \in {"fetch", "refill"} => todo'[v] \subseteq Stored'
            /\ pc'[v] = "fetch" => \A x \in got'[v] : x[1] \notin todo'[v]
            /\ pc'[v] \notin {"fetch", "query", "refill", "reset"} => got'[v] = {}
        BY <3>3, StoredStays DEF Collected
      <3> QED
        BY <3>1, <3>2, <3>4 DEF Collected
    <2> QED
      BY <2>1, <2>2, <2>3
  <1> QED
    BY <1>1, <1>2

(* A handler that returns has nothing left. *)
LEMMA StepIdle ==
  ASSUME Inv, NEW w \in Workers, Acts(w), pc'[w] = "idle"
  PROVE  mid'[w] = None /\ got'[w] = {}
  <1> USE DEF Inv, TypeOK, Done, Move, Goto, Set, At
  <1>1. CASE Receive(w) \/ Fails(w)
    BY <1>1, RequestsAssumption DEF Receive, Fails, SqlError, LostInsert, LostMention,
       LostUpdate, First, RequestSpace
  <1>2. CASE Admit(w) \/ Insert(w) \/ Mention(w) \/ Cache(w) \/ Zadd(w) \/ Trim(w)
             \/ SetPreview(w) \/ ListMembers(w) \/ Increment(w)
    BY <1>2 DEF Admit, Insert, Mention, Cache, Zadd, Trim, SetPreview, ListMembers,
       Increment
  <1>3. CASE Find(w) \/ Update(w) \/ ReadCopy(w) \/ StoreCopy(w)
    BY <1>3 DEF Find, Update, ReadCopy, StoreCopy, AfterCopy
  <1>4. CASE ReadTimeline(w) \/ Fetch(w) \/ Query(w) \/ Refill(w) \/ Reset(w)
             \/ ReadPreview(w) \/ SelectLast(w) \/ StorePreview(w)
    BY <1>4 DEF ReadTimeline, Fetch, Query, Refill, Reset, ReadPreview, SelectLast,
       StorePreview
  <1> QED
    BY <1>1, <1>2, <1>3, <1>4 DEF Acts, Step

LEMMA IdleLocals ==
  ASSUME NEW w \in Workers, pc'[w] = "idle", mid'[w] = None, got'[w] = {}
  PROVE  Granted(w)' /\ Owned(w)' /\ Collected(w)'
  BY DEF Granted, Owned, Collected, PostedLabels, Shown, Functional

LEMMA OwnedPlain ==
  ASSUME NEW w \in Workers, pc'[w] \notin PostedLabels \cup {"idle", "storePreview"},
         Posting(req'[w]) => mid'[w] = None
  PROVE  Owned(w)'
  BY DEF Owned, PostedLabels

LEMMA CollectedNone ==
  ASSUME NEW w \in Workers, got'[w] = {}, pc'[w] \notin {"fetch", "refill", "storeCopy"}
  PROVE  Collected(w)'
  BY DEF Collected, Shown, Functional

LEMMA PostingLocals ==
  ASSUME Inv, [Next]_vars, NEW w \in Workers, pc'[w] # "idle",
         Admit(w) \/ Insert(w) \/ Mention(w) \/ Cache(w) \/ Zadd(w) \/ Trim(w)
         \/ SetPreview(w) \/ ListMembers(w) \/ Increment(w)
  PROVE  Granted(w)' /\ Owned(w)' /\ Collected(w)'
  <1>0. Granted(w) /\ Owned(w) /\ Collected(w)
    BY DEF Inv, LocalsTrue
  <1>1. CASE Admit(w)
    <2>1. /\ pc[w] = "admit" /\ req'[w] = req[w] /\ mid'[w] = mid[w] /\ got'[w] = got[w]
          /\ reply'[w] = reply[w]
          /\ req[w].user \in Members
          /\ \/ pc'[w] = "insert" /\ req[w].op = "send" /\ req[w].kind = "TEXT"
             \/ pc'[w] = "range" /\ req[w].op = "get"
             \/ pc'[w] = "update" /\ req[w].op = "status"
      BY <1>1 DEF Admit, Done, Move, Goto, Set, At, local, Inv, TypeOK
    <2>2. Owned(w)'
      BY <1>0, <2>1, OwnedPlain DEF Owned, PostedLabels
    <2>3. Collected(w)'
      BY <1>0, <2>1, CollectedNone DEF Collected
    <2>4. Granted(w)'
      BY <1>0, <2>1, StoredStays DEF Granted, OpsAt
    <2> QED
      BY <2>2, <2>3, <2>4
  <1>2. CASE Insert(w)
    <2>1. PICK i \in Ids : Inserts(w, i) /\ Set(mid, w, i)
      BY <1>2 DEF Insert, Inserts
    <2>2. /\ pc[w] = "insert" /\ req'[w] = req[w] /\ reply'[w] = reply[w] /\ got'[w] = got[w]
          /\ mid'[w] = i /\ todo'[w] = Wanted(w) /\ mentions' = mentions
          /\ pc'[w] = IF Wanted(w) = {} THEN "cache" ELSE "mention"
      BY <1>2, <2>1 DEF Insert, Move, Goto, Set, At, Inv, TypeOK
    <2>3. Wanted(w)' = Wanted(w)
      BY <2>2 DEF Wanted
    <2>4. Wanted(w) # {} => req[w].op = "send"
      BY DEF Wanted
    <2>5. Granted(w)'
      BY <2>2, <2>4, Serving, GrantedMoves DEF OpsAt
    <2>6. /\ mentions[i] = {} /\ i \in Stored'
          /\ messages'[i] = NewRow(w) /\ held'[i] = {"SENT"}
      <3>1. At(w, "insert")
        BY <1>2 DEF Insert
      <3>2. mentions[i] = {} /\ i \in Stored'
        BY <2>1, <3>1, InsertMakes
      <3>3. messages'[i] = NewRow(w) /\ held'[i] = {"SENT"}
        BY <2>1 DEF Inserts, Inv, TypeOK
      <3> QED
        BY <3>2, <3>3
    <2>7. Holds(w)'
      BY <2>2, <2>6 DEF Holds, NewRow
    <2>8. Owned(w)'
      BY <2>2, <2>3, <2>6, <2>7 DEF Owned, Holds, PostedLabels
    <2>9. Collected(w)'
      BY <1>0, <2>2, CollectedNone DEF Collected
    <2> QED
      BY <2>5, <2>8, <2>9
  <1>3. CASE Mention(w)
    <2>1. PICK u \in todo[w] :
            /\ mentions' = [mentions EXCEPT ![mid[w]] = mentions[mid[w]] \cup {u}]
            /\ todo'[w] = todo[w] \ {u}
            /\ pc'[w] = IF todo[w] = {u} THEN "cache" ELSE "mention"
      BY <1>3 DEF Mention, Move, Done, Goto, Set, Inv, TypeOK
    <2>2. /\ pc[w] = "mention" /\ req'[w] = req[w] /\ reply'[w] = reply[w]
          /\ got'[w] = got[w] /\ mid'[w] = mid[w]
      BY <1>3 DEF Mention, Move, Done, Goto, Set, At, Inv, TypeOK
    <2>3. Granted(w)'
      BY <2>1, <2>2, Serving, GrantedMoves DEF OpsAt
    <2>4. Holds(w)' /\ Wanted(w)' = Wanted(w)
      BY <1>0, <2>2, HoldsStays DEF Owned, Holds, PostedLabels, Wanted
    <2>5. mentions'[mid[w]] = mentions[mid[w]] \cup {u}
      BY <1>0, <2>1, <2>2 DEF Owned, PostedLabels, Stored, Inv, TypeOK
    <2>6. /\ todo[w] \subseteq Wanted(w) /\ mentions[mid[w]] = Wanted(w) \ todo[w]
      BY <1>0, <2>2 DEF Owned
    <2>7. /\ todo'[w] \subseteq Wanted(w) /\ mentions'[mid'[w]] = Wanted(w) \ todo'[w]
      BY <2>1, <2>2, <2>5, <2>6
    <2>8. pc'[w] = "cache" => mentions'[mid'[w]] = Wanted(w)
      BY <2>1, <2>7
    <2>9. pc'[w] \in {"mention", "cache"}
      BY <2>1
    <2>10. Owned(w)'
      BY <2>4, <2>7, <2>8, <2>9 DEF Owned, Holds, PostedLabels
    <2>11. Collected(w)'
      BY <1>0, <2>2, <2>9, CollectedNone DEF Collected
    <2> QED
      BY <2>3, <2>10, <2>11
  <1>4. CASE Cache(w) \/ Zadd(w) \/ Trim(w) \/ SetPreview(w)
    <2>1. /\ pc[w] \in {"cache", "zadd", "trim", "setPreview"}
          /\ req'[w] = req[w] /\ reply'[w] = reply[w] /\ got'[w] = got[w] /\ mid'[w] = mid[w]
          /\ \/ pc[w] = "cache" /\ pc'[w] = "zadd"
             \/ pc[w] = "zadd" /\ pc'[w] = "trim"
             \/ pc[w] = "trim" /\ pc'[w] = "setPreview" /\ req[w].op = "send"
             \/ pc[w] = "setPreview" /\ pc'[w] = "members"
      BY <1>4
      DEF Cache, Zadd, Trim, SetPreview, Move, Done, Goto, At, local, Inv, TypeOK
    <2>2. Granted(w)'
      BY <2>1, Serving, GrantedMoves DEF OpsAt
    <2>3. Owned(w)'
      BY <2>1, OwnedMoves DEF PostedLabels
    <2>4. Collected(w)'
      BY <1>0, <2>1, CollectedNone DEF Collected
    <2> QED
      BY <2>2, <2>3, <2>4
  <1>5. CASE ListMembers(w) \/ Increment(w)
    <2>1. /\ pc[w] \in {"members", "incr"} /\ pc'[w] = "incr"
          /\ req'[w] = req[w] /\ reply'[w] = reply[w] /\ got'[w] = got[w] /\ mid'[w] = mid[w]
      BY <1>5 DEF ListMembers, Increment, Move, Done, Goto, At, Inv, TypeOK
    <2>2. todo'[w] \subseteq Members \ {req[w].user}
      <3>1. CASE ListMembers(w)
        BY <3>1 DEF ListMembers, Set, Inv, TypeOK
      <3>2. CASE Increment(w)
        <4>1. ~ Done(w, [ok |-> TRUE, shown |-> {<<mid[w], "SENT">>}])
          BY <2>1 DEF Done, Goto, Inv, TypeOK
        <4>2. PICK u \in todo[w] : Set(todo, w, todo[w] \ {u})
          BY <3>2, <4>1 DEF Increment
        <4>3. todo'[w] = todo[w] \ {u}
          BY <4>2 DEF Set, Inv, TypeOK
        <4>4. todo[w] \subseteq Members \ {req[w].user}
          BY <1>0, <3>2 DEF Increment, At, Owned
        <4> QED
          BY <4>3, <4>4
      <3> QED
        BY <1>5, <3>1, <3>2
    <2>3. Granted(w)'
      BY <2>1, Serving, GrantedMoves DEF OpsAt
    <2>4. Holds(w)'
      BY <1>0, <2>1, HoldsStays DEF Owned, Holds, PostedLabels
    <2>5. Owned(w)'
      BY <2>1, <2>2, <2>4 DEF Owned, Holds, PostedLabels
    <2>6. Collected(w)'
      BY <1>0, <2>1, CollectedNone DEF Collected
    <2> QED
      BY <2>3, <2>5, <2>6
  <1> QED
    BY <1>1, <1>2, <1>3, <1>4, <1>5

LEMMA ChangingLocals ==
  ASSUME Inv, [Next]_vars, NEW w \in Workers, pc'[w] # "idle",
         Find(w) \/ Update(w) \/ ReadCopy(w) \/ StoreCopy(w)
  PROVE  Granted(w)' /\ Owned(w)' /\ Collected(w)'
  <1>0. Granted(w) /\ Owned(w) /\ Collected(w)
    BY DEF Inv, LocalsTrue
  <1>1. CASE Find(w)
    <2>1. /\ pc[w] = "find" /\ req'[w] = req[w] /\ mid'[w] = mid[w] /\ got'[w] = got[w]
          /\ reply'[w] = reply[w] /\ req[w].msg \in Stored
          /\ \/ pc'[w] = "admit" /\ req[w].op = "status"
             \/ /\ pc'[w] = "update" /\ req[w].op = "recall"
                /\ messages[req[w].msg].sender = req[w].user
      BY <1>1 DEF Find, Recallable, Done, Move, Goto, Set, At, local, Inv, TypeOK
    <2>2. Owned(w)'
      BY <1>0, <2>1, OwnedPlain DEF Owned, PostedLabels
    <2>3. Collected(w)'
      BY <1>0, <2>1, CollectedNone DEF Collected
    <2>4. /\ req'[w].msg \in Stored'
          /\ messages'[req'[w].msg].sender = messages[req[w].msg].sender
      BY <2>1, StoredStays
    <2>5. Granted(w)'
      BY <1>0, <2>1, <2>4 DEF Granted, OpsAt
    <2> QED
      BY <2>2, <2>3, <2>5
  <1>2. CASE Update(w)
    <2>1. /\ pc[w] = "update" /\ pc'[w] = "readCopy"
          /\ req'[w] = req[w] /\ mid'[w] = mid[w] /\ got'[w] = got[w] /\ reply'[w] = reply[w]
      BY <1>2 DEF Update, Move, Goto, At, local, Inv, TypeOK
    <2>2. Owned(w)'
      BY <1>0, <2>1, OwnedPlain DEF Owned, PostedLabels
    <2>3. Collected(w)'
      BY <1>0, <2>1, CollectedNone DEF Collected
    <2>4. req[w].op \in {"status", "recall"} /\ req[w].msg \in Stored
      BY <2>1, Serving DEF OpsAt, Granted
    <2>5. /\ req'[w].msg \in Stored'
          /\ messages'[req'[w].msg].sender = messages[req[w].msg].sender
      BY <2>1, <2>4, StoredStays
    <2>6. Target(w)' = Target(w)
      BY <2>1 DEF Target
    <2>7. Target(w)' \in held'[req'[w].msg]
      <3>1. PICK i \in Ids, t \in Statuses :
              /\ i = req[w].msg /\ t = Target(w)
              /\ held' = [held EXCEPT ![i] = held[i] \cup {t}]
        BY <1>2, UpdateMakes DEF Update
      <3>2. t \in held'[i]
        BY <3>1 DEF Inv, TypeOK
      <3> QED
        BY <2>1, <2>6, <3>1, <3>2
    <2>8. Granted(w)'
      BY <1>0, <2>1, <2>4, <2>5, <2>7 DEF Granted, OpsAt
    <2> QED
      BY <2>2, <2>3, <2>8
  <1>3. ASSUME pc[w] \in {"readCopy", "storeCopy"}, AfterCopy(w), UNCHANGED req
        PROVE  Granted(w)' /\ Owned(w)' /\ Collected(w)'
    <2>1. /\ req'[w] = req[w] /\ mid'[w] = mid[w] /\ got'[w] = {} /\ reply'[w] = reply[w]
          /\ \/ pc'[w] = "insert" /\ req[w].op = "recall"
             \/ pc'[w] = "reset" /\ req[w].op = "status"
      BY <1>3 DEF AfterCopy, Done, Move, Goto, Set, Inv, TypeOK
    <2>2. Owned(w)'
      BY <1>0, <1>3, <2>1, OwnedPlain DEF Owned, PostedLabels
    <2>3. Collected(w)'
      BY <2>1, CollectedNone
    <2>4. Granted(w)'
      BY <1>3, <2>1, GrantedMoves DEF OpsAt
    <2> QED
      BY <2>2, <2>3, <2>4
  <1>4. CASE ReadCopy(w)
    <2>1. pc[w] = "readCopy" /\ UNCHANGED <<req, messages, mentions>>
      BY <1>4 DEF ReadCopy, At, db
    <2>2. CASE AfterCopy(w)
      BY <1>3, <2>1, <2>2
    <2>3. CASE ~AfterCopy(w)
      <3>1. req[w].msg \in Stored /\ req[w].msg \in Ids /\ req[w].op \in {"status", "recall"}
        BY <2>1, Serving, NoneNot DEF OpsAt, Granted
      <3>2. PICK i \in Stored : i = req[w].msg
        BY <3>1
      <3>3. copies[i] \in Copy \cup {None}
        BY <3>1, <3>2 DEF Inv, TypeOK
      <3>4. /\ copies[i] # None
            /\ Set(marks, w, copies[i].mentions)
            /\ Move(w, "storeCopy")
            /\ UNCHANGED <<mid, at, todo, got>>
        BY <1>4, <2>3, <3>2 DEF ReadCopy, Seen
      <3>5. PICK m \in SUBSET Users : m = copies[i].mentions
        BY <3>3, <3>4 DEF Copy
      <3>6. Whole(i, m)
        BY <3>1, <3>2, <3>4, <3>5 DEF Inv, RedisTrue
      <3>7. Whole(i, m)'
        BY <3>6, WholeStays
      <3>8. /\ pc'[w] = "storeCopy" /\ req'[w] = req[w] /\ reply'[w] = reply[w]
            /\ mid'[w] = mid[w] /\ got'[w] = got[w] /\ marks'[w] = m
        BY <2>1, <3>4, <3>5 DEF Move, Goto, Set, Inv, TypeOK
      <3>9. Owned(w)'
        BY <1>0, <2>1, <3>8, OwnedPlain DEF Owned, PostedLabels
      <3>10. Granted(w)'
        BY <2>1, <3>1, <3>8, GrantedMoves DEF OpsAt
      <3>11. Whole(req[w].msg, marks[w])'
        BY <3>2, <3>7, <3>8 DEF Whole
      <3>12. Collected(w)'
        BY <1>0, <2>1, <3>8, <3>11 DEF Collected, Shown, Functional
      <3> QED
        BY <3>9, <3>10, <3>12
    <2> QED
      BY <2>2, <2>3
  <1>5. CASE StoreCopy(w)
    <2>1. pc[w] = "storeCopy" /\ AfterCopy(w) /\ UNCHANGED req
      BY <1>5 DEF StoreCopy, At
    <2> QED
      BY <1>3, <2>1
  <1> QED
    BY <1>1, <1>2, <1>4, <1>5

LEMMA ReadingLocals ==
  ASSUME Inv, [Next]_vars, NEW w \in Workers, pc'[w] # "idle",
         ReadTimeline(w) \/ Fetch(w) \/ Query(w) \/ Refill(w) \/ Reset(w)
         \/ ReadPreview(w) \/ SelectLast(w) \/ StorePreview(w)
  PROVE  Granted(w)' /\ Owned(w)' /\ Collected(w)'
  <1>0. Granted(w) /\ Owned(w) /\ Collected(w)
    BY DEF Inv, LocalsTrue
  <1>1. /\ pc[w] \in {"range", "fetch", "query", "refill", "readPreview", "selectLast"}
        /\ req'[w] = req[w] /\ reply'[w] = reply[w]
        /\ \/ pc[w] = "range" /\ pc'[w] \in {"query", "fetch"}
           \/ pc[w] = "fetch" /\ pc'[w] \in {"fetch", "reset", "query"}
           \/ pc[w] \in {"query", "refill"} /\ pc'[w] \in {"refill", "reset"}
           \/ pc[w] = "readPreview" /\ pc'[w] = "selectLast"
           \/ pc[w] = "selectLast" /\ pc'[w] = "storePreview"
    BY DEF ReadTimeline, Fetch, Query, Refill, Reset, ReadPreview, SelectLast,
       StorePreview, Done, Move, Goto, At, Inv, TypeOK
  <1>2. Granted(w)'
    BY <1>1, Serving, GrantedMoves DEF OpsAt
  <1>3. Owned(w)'
    <2>1. ~Posting(req[w])
      BY <1>1, Serving DEF Posting, OpsAt
    <2>2. pc'[w] = "storePreview" => mid'[w] \in Stored'
      <3>1. ASSUME SelectLast(w), pc'[w] = "storePreview"
            PROVE  mid'[w] \in Stored'
        BY <1>1, <3>1, StoredStays
        DEF SelectLast, Newest, Done, Goto, Set, Inv, TypeOK
      <3>2. pc'[w] = "storePreview" => SelectLast(w)
        BY <1>1 DEF ReadTimeline, Fetch, Query, Refill, Reset, ReadPreview, StorePreview, At
      <3> QED
        BY <3>1, <3>2
    <2> QED
      BY <1>1, <2>1, <2>2 DEF Owned, PostedLabels
  <1>4. CASE ReadTimeline(w)
    <2>1. InTimeline(req[w]) \subseteq Stored
      BY DEF InTimeline, Latest, Inv, RedisTrue
    <2>2. PICK S \in SUBSET Stored : Set(todo, w, S)
      BY <1>4, <2>1 DEF ReadTimeline, Seen
    <2>3. todo'[w] = S /\ got'[w] = got[w]
      BY <1>4, <2>2 DEF ReadTimeline, Set, Inv, TypeOK
    <2>4. got'[w] = {} /\ todo'[w] \subseteq Stored'
      BY <1>0, <1>1, <1>4, <2>3, StoredStays DEF ReadTimeline, At, Collected
    <2> QED
      BY <1>1, <1>2, <1>3, <2>4 DEF Collected, Shown, Functional
  <1>5. CASE Fetch(w)
    <2>1. PICK i \in Latest(todo[w], 1) : \E c \in Seen(copies[i], None) :
            \/ /\ c # None
               /\ Set(got, w, got[w] \cup {<<i, c.status>>})
               /\ Set(todo, w, todo[w] \ {i})
               /\ Move(w, IF todo[w] = {i} THEN "reset" ELSE "fetch")
            \/ /\ c = None
               /\ Set(todo, w, {})
               /\ Move(w, "query")
               /\ UNCHANGED got
      BY <1>5 DEF Fetch
    <2>2. pc[w] = "fetch" /\ i \in todo[w] /\ i \in Stored /\ i \in Ids
      BY <1>0, <1>5, <2>1 DEF Fetch, At, Latest, Collected, Stored
    <2>3. CASE Move(w, "query") /\ UNCHANGED got
      <3>1. pc'[w] = "query" /\ got'[w] = got[w]
        BY <2>3 DEF Move, Goto, Inv, TypeOK
      <3>2. Shown(got[w])' /\ Functional(got[w])'
        BY <3>1, ShownStays
      <3> QED
        BY <1>2, <1>3, <3>1, <3>2 DEF Collected
    <2>4. CASE /\ copies[i] # None
               /\ Set(got, w, got[w] \cup {<<i, copies[i].status>>})
               /\ Set(todo, w, todo[w] \ {i})
               /\ Move(w, IF todo[w] = {i} THEN "reset" ELSE "fetch")
      <3>1. /\ got'[w] = got[w] \cup {<<i, copies[i].status>>}
            /\ todo'[w] = todo[w] \ {i}
            /\ pc'[w] \in {"reset", "fetch"}
        BY <2>4 DEF Move, Goto, Set, Inv, TypeOK
      <3>2. copies[i].status \in held[i]
        BY <2>2, <2>4 DEF Inv, RedisTrue
      <3>3. \A x \in got[w] : x[1] # i
        BY <1>0, <2>2 DEF Collected
      <3>4. Shown(got[w]) /\ Functional(got[w])
        BY <1>0 DEF Collected
      <3>5. \A x \in got'[w] :
              \/ x \in got[w]
              \/ x[1] = i /\ x[2] = copies[i].status /\ x = <<i, copies[i].status>>
        BY <3>1
      <3>6. Functional(got[w])'
        BY <3>3, <3>4, <3>5 DEF Functional
      <3>7. Shown(got[w])'
        BY <2>2, <3>2, <3>4, <3>5, StoredStays DEF Shown, Stored
      <3>8. todo'[w] \subseteq Stored'
        BY <1>0, <2>2, <3>1, StoredStays DEF Collected
      <3>9. \A x \in got'[w] : x[1] \notin todo'[w]
        BY <1>0, <2>2, <3>1, <3>5 DEF Collected
      <3> QED
        BY <1>2, <1>3, <3>1, <3>6, <3>7, <3>8, <3>9 DEF Collected
    <2> QED
      BY <2>1, <2>3, <2>4 DEF Seen
  <1>6. CASE Query(w)
    <2>1. PICK S \in Queried(Matching(req[w]), Limit(req[w])) :
            /\ Set(got, w, {<<i, messages[i].status>> : i \in S})
            /\ Set(todo, w, S)
      BY <1>6 DEF Query
    <2>2. S \subseteq Stored
      BY DEF Queried, Matching
    <2>3. /\ got'[w] = {<<i, messages[i].status>> : i \in S} /\ todo'[w] = S
          /\ pc[w] = "query"
      BY <1>6, <2>1 DEF Query, Set, At, Inv, TypeOK
    <2>4. \A i \in S : messages[i].status \in held[i]
      BY <2>2 DEF Inv, RowsTrue, Stored
    <2>5. Functional(got[w])'
      BY <2>3 DEF Functional
    <2>6. Shown(got[w])'
      BY <2>2, <2>3, <2>4, StoredStays DEF Shown, Stored
    <2>7. todo'[w] \subseteq Stored'
      BY <2>2, <2>3, StoredStays
    <2> QED
      BY <1>1, <1>2, <1>3, <2>3, <2>5, <2>6, <2>7 DEF Collected
  <1>7. CASE Refill(w)
    <2>1. /\ got'[w] = got[w] /\ todo'[w] \subseteq todo[w] /\ pc[w] = "refill"
      BY <1>7 DEF Refill, Set, At, Inv, TypeOK
    <2>2. Shown(got[w])' /\ Functional(got[w])'
      BY <2>1, ShownStays
    <2>3. todo'[w] \subseteq Stored'
      BY <1>0, <2>1, StoredStays DEF Collected
    <2> QED
      BY <1>1, <1>2, <1>3, <2>1, <2>2, <2>3 DEF Collected
  <1>8. CASE ReadPreview(w) \/ SelectLast(w)
    <2>1. got'[w] = got[w] /\ pc'[w] \in {"selectLast", "storePreview"}
      BY <1>1, <1>8
      DEF ReadPreview, SelectLast, Done, Goto, Move, At, local, Inv, TypeOK
    <2>2. Collected(w)'
      BY <1>0, <1>1, <2>1, CollectedNone DEF Collected
    <2> QED
      BY <1>2, <1>3, <2>2
  <1>9. ~Reset(w) /\ ~StorePreview(w)
    BY <1>1 DEF Reset, StorePreview, At
  <1> QED
    BY <1>4, <1>5, <1>6, <1>7, <1>8, <1>9

LEMMA LocalsStep ==
  ASSUME Inv, [Next]_vars
  PROVE  LocalsTrue'
  <1>1. ASSUME NEW w \in Workers, Receive(w)
        PROVE  Granted(w)' /\ Owned(w)' /\ Collected(w)'
    <2>1. PICK q \in Requests : Set(req, w, q) /\ Goto(w, First(q.op))
      BY <1>1 DEF Receive
    <2>2. q.op \in {"send", "get", "status", "recall", "summary"}
      BY RequestsAssumption DEF RequestSpace
    <2>3. /\ pc[w] = "idle" /\ pc'[w] = First(q.op) /\ req'[w] = q /\ reply'[w] = None
          /\ mid'[w] = mid[w] /\ got'[w] = got[w]
      BY <1>1, <2>1 DEF Receive, Goto, Set, At, local, Inv, TypeOK
    <2>4. mid[w] = None /\ got[w] = {}
      BY <2>3 DEF Inv, LocalsTrue, Owned, Collected
    <2>5. pc'[w] \in {"admit", "find", "readPreview"} /\ q.op \in OpsAt(pc'[w])
      BY <2>2, <2>3 DEF First, OpsAt
    <2>6. \/ pc'[w] = "admit" /\ q.op \in {"send", "get"}
          \/ pc'[w] = "find" /\ q.op \in {"status", "recall"}
          \/ pc'[w] = "readPreview" /\ q.op = "summary"
      BY <2>2, <2>3 DEF First
    <2>7. q \in Requests
      OBVIOUS
    <2>8. Granted(w)'
      <3>1. CASE pc'[w] = "admit" /\ q.op \in {"send", "get"}
        BY <2>3, <2>5, <2>7, <3>1 DEF Granted
      <3>2. CASE pc'[w] = "find" /\ q.op \in {"status", "recall"}
        BY <2>3, <2>5, <2>7, <3>2 DEF Granted
      <3>3. CASE pc'[w] = "readPreview" /\ q.op = "summary"
        BY <2>3, <2>5, <2>7, <3>3 DEF Granted
      <3> QED
        BY <2>6, <3>1, <3>2, <3>3
    <2>9. Owned(w)'
      BY <2>3, <2>4, <2>5, OwnedPlain DEF PostedLabels
    <2>10. Collected(w)'
      BY <2>3, <2>4, <2>5, CollectedNone
    <2> QED
      BY <2>8, <2>9, <2>10
  <1>2. ASSUME NEW w \in Workers, Step(w) \/ Fails(w)
        PROVE  Granted(w)' /\ Owned(w)' /\ Collected(w)'
    <2>1. CASE pc'[w] = "idle"
      BY <1>2, <2>1, StepIdle, IdleLocals DEF Acts
    <2>2. CASE pc'[w] # "idle"
      <3>1. Step(w)
        BY <1>2, <2>2
        DEF Fails, SqlError, LostInsert, LostMention, LostUpdate, Done, Goto, Inv,
           TypeOK
      <3> QED
        BY <2>2, <3>1, PostingLocals, ChangingLocals, ReadingLocals DEF Step
    <2> QED
      BY <2>1, <2>2
  <1>3. ASSUME NEW w \in Workers, Acts(w)
        PROVE  LocalsTrue'
    BY <1>1, <1>2, <1>3, OthersStay, UntouchedLocals DEF Acts, LocalsTrue
  <1>4. ASSUME Crash
        PROVE  LocalsTrue'
    BY <1>4, IdleLocals DEF Crash, LocalsTrue
  <1>5. ASSUME Expiry \/ Tick \/ UNCHANGED vars
        PROVE  LocalsTrue'
    <2>1. \A w \in Workers : Untouched(w)
      BY <1>5 DEF Expiry, Tick, vars, local, Untouched
    <2> QED
      BY <2>1, UntouchedLocals DEF LocalsTrue
  <1> QED
    BY <1>3, <1>4, <1>5 DEF Next, Acts, Fails

LEMMA InvInit == Init => Inv
  <1> SUFFICES ASSUME Init PROVE Inv
    OBVIOUS
  <1>1. /\ "idle" \in Labels /\ 0 \in 0..MaxTime
    BY BoundsAssumption DEF Labels
  <1>2. SharedTypes
    BY <1>1 DEF Init, SharedTypes
  <1>3. LocalTypes
    BY <1>1 DEF Init, LocalTypes
  <1>4. RowsTrue /\ Distinct /\ RedisTrue
    BY NoneAssumption DEF Init, RowsTrue, Distinct, PostedLabels, RedisTrue
  <1>5. LocalsTrue
    BY DEF Init, LocalsTrue, Granted, Owned, Collected, PostedLabels, Shown, Functional
  <1> QED
    BY <1>2, <1>3, <1>4, <1>5, TypeHalves DEF Inv

LEMMA InvStep ==
  ASSUME Inv, [Next]_vars
  PROVE  Inv'
  BY TypeStep, RowsTrueStep, DistinctStep, LocalsStep, RedisStep DEF Inv

LEMMA Invariance == Spec => []Inv
  BY InvInit, InvStep, PTL DEF Spec

(* Whatever the handlers, their failures and the crashes do, every         *)
(* variable keeps to its type.                                             *)
THEOREM TypeCorrect == Spec => []TypeOK
  <1>1. Inv => TypeOK
    BY DEF Inv
  <1> QED
    BY <1>1, Invariance, PTL

(* What cacheMessage, updateMessageTimeline and the previews leave in      *)
(* Redis is always of a row that is there, with a status it has had and    *)
(* with all of its mentions or none.                                       *)
THEOREM CopiesCorrect == Spec => []CopiesTrue
  <1>1. Inv => CopiesTrue
    BY NoneAssumption DEF Inv, TypeOK, RedisTrue, CopiesTrue, Whole
  <1> QED
    BY <1>1, Invariance, PTL

-----------------------------------------------------------------------------
(* The log of Conversation. *)
LEMMA LogNone ==
  ASSUME Inv
  PROVE  /\ Talk!Logged = Stored
         /\ \A i \in Ids : (messages[i] = None) <=> (Log[i] = None)
         /\ \A i \in Stored : /\ Log[i].sender = messages[i].sender
                              /\ Log[i].statuses = held[i]
         /\ \A i \in Ids : messages[i] # None =>
              Log[i] = [sender |-> messages[i].sender, kind |-> messages[i].kind,
                        statuses |-> held[i]]
  <1>1. ASSUME NEW i \in Ids, messages[i] # None
        PROVE  /\ Log[i] = [sender |-> messages[i].sender, kind |-> messages[i].kind,
                            statuses |-> held[i]]
               /\ Log[i] # None
               /\ Log[i].sender = messages[i].sender /\ Log[i].statuses = held[i]
    <2>1. messages[i].sender \in Users /\ messages[i].kind \in {"TEXT", "RECALL"}
      BY <1>1 DEF Inv, TypeOK, Row
    <2>2. Log[i] = [sender |-> messages[i].sender, kind |-> messages[i].kind,
                    statuses |-> held[i]]
      BY <1>1 DEF Log
    <2>3. Log[i] \in Entries
      BY <2>1, <2>2 DEF Entries, Inv, TypeOK
    <2> QED
      BY <2>2, <2>3, NoneAssumption
  <1>2. \A i \in Ids : messages[i] = None => Log[i] = None
    BY DEF Log
  <1>3. Talk!Logged = Stored
    BY <1>1, <1>2 DEF Stored, Talk!Logged
  <1>4. \A i \in Stored : i \in Ids /\ messages[i] # None
    BY DEF Stored
  <1>5. \A i \in Stored : Log[i].sender = messages[i].sender /\ Log[i].statuses = held[i]
    BY <1>1, <1>4
  <1>6. \A i \in Ids : messages[i] # None =>
          Log[i] = [sender |-> messages[i].sender, kind |-> messages[i].kind,
                    statuses |-> held[i]]
    BY <1>1
  <1>7. \A i \in Ids : (messages[i] = None) <=> (Log[i] = None)
    BY <1>1, <1>2
  <1> QED
    BY <1>3, <1>5, <1>6, <1>7

LEMMA LogStays ==
  ASSUME UNCHANGED <<messages, held>>
  PROVE  UNCHANGED Log
  BY DEF Log

LEMMA LogAppends ==
  ASSUME Inv, Inv', NEW w \in Workers, NEW i \in Ids, At(w, "insert"), Inserts(w, i)
  PROVE  Talk!Append(w, i)
  <1>1. NewRow(w) # None /\ i \notin Stored
    BY InsertMakes
  <1>2. i \notin Talk!Logged
    BY <1>1, LogNone
  <1>3. messages'[i] = NewRow(w) /\ held'[i] = {"SENT"}
    BY DEF Inserts, Inv, TypeOK
  <1>4. Log'[i] = Talk!Entry(req[w])
    BY <1>1, <1>3 DEF Log, Talk!Entry, NewRow
  <1>5. \A j \in Ids : j # i => messages'[j] = messages[j] /\ held'[j] = held[j]
    BY DEF Inserts, Inv, TypeOK
  <1>6. \A j \in Ids : j # i => Log'[j] = Log[j]
    BY <1>5 DEF Log
  <1>7. Log' = [Log EXCEPT ![i] = Talk!Entry(req[w])]
    BY <1>4, <1>6 DEF Log
  <1> QED
    BY <1>2, <1>7 DEF Talk!Append

(* The message a request has posted. *)
LEMMA PostedMoves ==
  ASSUME Inv, NEW w \in Workers, Acts(w), UNCHANGED req,
         req[w] # None /\ Posting(req[w]) => mid'[w] = mid[w]
  PROVE  UNCHANGED Posted
  BY OthersStay DEF Posted, Untouched

LEMMA PostedSet ==
  ASSUME Inv, NEW w \in Workers, Acts(w), UNCHANGED req,
         NEW i, (IF req[w] # None /\ Posting(req[w]) THEN mid'[w] ELSE None) = i
  PROVE  Posted' = [Posted EXCEPT ![w] = i]
  BY OthersStay DEF Posted, Untouched

(* A handler that returns a truthful reply answers. *)
LEMMA DoneAnswers ==
  ASSUME Inv, NEW w \in Workers, Acts(w), UNCHANGED <<messages, held, req>>,
         pc[w] # "idle", NEW r \in Replies, Done(w, r), Talk!Truthful(w, r)
  PROVE  Talk!Answer(w)
  <1>1. req[w] # None /\ reply[w] = None
    BY Serving
  <1>2. reply'[w] = r /\ reply' = [reply EXCEPT ![w] = r] /\ mid'[w] = None
    BY DEF Done, Set, Inv, TypeOK
  <1>3. Posted' = [Posted EXCEPT ![w] = None]
    BY <1>2, PostedSet
  <1>4. UNCHANGED Log
    BY LogStays
  <1>5. r \in Talk!Replies
    BY DEF Replies, Talk!Replies, Statuses, Talk!Statuses
  <1> QED
    BY <1>1, <1>2, <1>3, <1>4, <1>5 DEF Talk!Answer

(* What a handler knows of its request when it returns. *)
LEMMA Known ==
  ASSUME Inv, NEW w \in Workers, pc[w] \notin {"idle", "find", "admit", "update"}
  PROVE  /\ req[w].op = "get" => req[w].user \in Members
         /\ req[w].op = "status" =>
              /\ req[w].msg \in Talk!Logged /\ req[w].msg \in Stored
              /\ req[w].status \in Log[req[w].msg].statuses
              /\ req[w].status \in held[req[w].msg]
         /\ req[w].op = "recall" =>
              /\ req[w].msg \in Talk!Logged /\ req[w].msg \in Stored
              /\ Log[req[w].msg].sender = req[w].user
              /\ "RECALLED" \in Log[req[w].msg].statuses
         /\ req[w].op = "send" => req[w].user \in Members /\ req[w].kind = "TEXT"
  BY Serving, LogNone DEF Granted, Target

LEMMA OkTruthful ==
  ASSUME Inv, NEW w \in Workers, pc[w] \notin {"idle", "find", "admit", "update"},
         req[w].op # "send"
  PROVE  Talk!Truthful(w, [ok |-> TRUE, shown |-> {}])
  <1>1. PICK r : r = [ok |-> TRUE, shown |-> {}]
    OBVIOUS
  <1>2. r.ok = TRUE /\ r.shown = {} /\ Talk!Shows(r.shown)
    BY <1>1 DEF Talk!Shows
  <1>3. Talk!Truthful(w, r)
    BY <1>2, Known DEF Talk!Truthful
  <1> QED
    BY <1>1, <1>3

LEMMA NotOkTruthful ==
  ASSUME NEW w \in Workers
  PROVE  Talk!Truthful(w, [ok |-> FALSE, shown |-> {}])
  BY DEF Talk!Truthful, Talk!Shows

LEMMA SentTruthful ==
  ASSUME Inv, NEW w \in Workers, pc[w] = "incr",
         NEW r, r = [ok |-> TRUE, shown |-> {<<mid[w], "SENT">>}]
  PROVE  r \in Replies /\ Talk!Truthful(w, r)
  <1>1. mid[w] \in Stored /\ "SENT" \in held[mid[w]] /\ req[w] # None /\ req[w].op = "send"
    BY Serving DEF Inv, LocalsTrue, Owned, PostedLabels, OpsAt
  <1>2. mid[w] \in Talk!Logged /\ "SENT" \in Log[mid[w]].statuses
    BY <1>1, LogNone
  <1>3. Posted[w] = mid[w] /\ mid[w] # None
    BY <1>1, IdsNumbers DEF Posted, Posting, Stored
  <1>4. r \in Replies
    BY <1>1 DEF Replies, Stored, Statuses
  <1> QED
    BY <1>1, <1>2, <1>3, <1>4 DEF Talk!Truthful, Talk!Shows

LEMMA ShownTruthful ==
  ASSUME Inv, NEW w \in Workers, pc[w] = "reset",
         NEW r, r = [ok |-> TRUE, shown |-> got[w]]
  PROVE  r \in Replies /\ Talk!Truthful(w, r)
  <1>1. Shown(got[w]) /\ Functional(got[w])
    BY DEF Inv, LocalsTrue, Collected
  <1>2. Talk!Shows(got[w])
    BY <1>1, LogNone DEF Shown, Functional, Talk!Shows
  <1>3. r \in Replies
    BY DEF Replies, Inv, TypeOK
  <1>4. req[w].op \in {"get", "status"}
    BY Serving DEF OpsAt
  <1> QED
    BY <1>1, <1>2, <1>3, <1>4, Known DEF Talk!Truthful

(* Every return is an answer of Conversation. *)
LEMMA EmptyAnswers ==
  ASSUME Inv, NEW w \in Workers, Acts(w), UNCHANGED <<messages, held, req>>,
         pc[w] # "idle", NEW b \in BOOLEAN, Done(w, [ok |-> b, shown |-> {}]),
         b => pc[w] \notin {"find", "admit", "update"} /\ req[w].op # "send"
  PROVE  Talk!Answer(w)
  <1>1. PICK r \in Replies : r = [ok |-> b, shown |-> {}]
    BY RepliesTyped
  <1>2. Done(w, r)
    BY <1>1 DEF Done, Set
  <1>3. Talk!Truthful(w, r)
    BY <1>1, OkTruthful, NotOkTruthful DEF Talk!Truthful, Talk!Shows
  <1> QED
    BY <1>2, <1>3, DoneAnswers

LEMMA ReturnsAnswer ==
  ASSUME Inv, NEW w \in Workers, Step(w), ~Insert(w), ~Update(w), pc'[w] = "idle"
  PROVE  Talk!Answer(w)
  <1>0. UNCHANGED <<messages, held, req>> /\ Acts(w) /\ pc[w] # "idle"
    BY DEF db, Step, Acts, Admit, Mention, Cache, Zadd, Trim, SetPreview, ListMembers,
       Increment, Find, ReadCopy, StoreCopy, ReadTimeline, Fetch, Query, Refill, Reset,
       ReadPreview, SelectLast, StorePreview, At
  <1>1. ASSUME NEW l \in Labels \ {"idle"}, Move(w, l)
        PROVE  FALSE
    BY <1>1 DEF Move, Goto, Inv, TypeOK
  <1>2. CASE Done(w, Failed)
    BY <1>0, <1>2, EmptyAnswers DEF Failed
  <1>3. CASE /\ Done(w, [ok |-> TRUE, shown |-> {}])
             /\ pc[w] \in {"trim", "readCopy", "storeCopy", "readPreview", "selectLast",
                           "storePreview"}
             /\ req[w].op # "send"
    BY <1>0, <1>3, EmptyAnswers
  <1>4. CASE Reset(w)
    <2>1. pc[w] = "reset"
      BY <1>4 DEF Reset, At
    <2>2. PICK r : r = [ok |-> TRUE, shown |-> got[w]]
      OBVIOUS
    <2>3. Done(w, r)
      BY <1>4, <2>2 DEF Reset, Done, Set
    <2> QED
      BY <1>0, <2>1, <2>2, <2>3, ShownTruthful, DoneAnswers
  <1>5. CASE Increment(w)
    <2>1. pc[w] = "incr" /\ ~Move(w, "incr")
      BY <1>1, <1>5 DEF Increment, At, Labels
    <2>2. PICK r : r = [ok |-> TRUE, shown |-> {<<mid[w], "SENT">>}]
      OBVIOUS
    <2>3. Done(w, r)
      BY <1>5, <2>1, <2>2 DEF Increment, Done, Set
    <2> QED
      BY <1>0, <2>1, <2>2, <2>3, SentTruthful, DoneAnswers
  <1>6. CASE Admit(w) \/ Mention(w) \/ Find(w)
    <2>1. Done(w, Failed)
      BY <1>1, <1>6 DEF Admit, Mention, Find, Labels
    <2> QED
      BY <1>2, <2>1
  <1>7. CASE Trim(w) \/ ReadCopy(w) \/ StoreCopy(w) \/ ReadPreview(w) \/ SelectLast(w)
             \/ StorePreview(w)
    <2>1. pc[w] \in {"trim", "readCopy", "storeCopy", "readPreview", "selectLast",
                     "storePreview"}
      BY <1>7 DEF Trim, ReadCopy, StoreCopy, ReadPreview, SelectLast, StorePreview, At
    <2>2. Done(w, [ok |-> TRUE, shown |-> {}])
      BY <1>1, <1>7
      DEF Trim, ReadCopy, StoreCopy, AfterCopy, ReadPreview, SelectLast, StorePreview, Labels
    <2>3. req[w].op # "send"
      <3>1. CASE Trim(w)
        BY <1>1, <3>1 DEF Trim, Labels
      <3>2. CASE ~Trim(w)
        BY <1>7, <3>2, Serving
        DEF ReadCopy, StoreCopy, ReadPreview, SelectLast, StorePreview, At, OpsAt
      <3> QED
        BY <3>1, <3>2
    <2> QED
      BY <1>3, <2>1, <2>2, <2>3
  <1>8. CASE Cache(w) \/ Zadd(w) \/ SetPreview(w) \/ ListMembers(w)
    BY <1>1, <1>8 DEF Cache, Zadd, SetPreview, ListMembers, Labels
  <1>9. CASE ReadTimeline(w) \/ Fetch(w) \/ Query(w) \/ Refill(w)
    BY <1>9
    DEF ReadTimeline, Fetch, Query, Refill, Move, Goto, Inv, TypeOK
  <1> QED
    BY <1>4, <1>5, <1>6, <1>7, <1>8, <1>9 DEF Step

(* A step that goes on is none of Conversation. *)
LEMMA GoesOn ==
  ASSUME Inv, NEW w \in Workers, Step(w), ~Insert(w), ~Update(w), pc'[w] # "idle"
  PROVE  UNCHANGED Talk!cvars
  <1>0. UNCHANGED <<messages, held, req>> /\ Acts(w) /\ pc[w] # "idle"
    BY DEF db, Step, Acts, Admit, Mention, Cache, Zadd, Trim, SetPreview, ListMembers,
       Increment, Find, ReadCopy, StoreCopy, ReadTimeline, Fetch, Query, Refill, Reset,
       ReadPreview, SelectLast, StorePreview, At
  <1>1. ASSUME NEW r, Done(w, r)
        PROVE  FALSE
    BY <1>1 DEF Done, Goto, Inv, TypeOK
  <1>2. reply' = reply /\ (mid'[w] = mid[w] \/ SelectLast(w))
    <2> USE DEF Done, Move, Goto, Set, Inv, TypeOK, local
    <2>1. CASE Admit(w) \/ Mention(w) \/ Cache(w) \/ Zadd(w) \/ Trim(w)
               \/ SetPreview(w) \/ ListMembers(w) \/ Increment(w)
      BY <2>1 DEF Admit, Mention, Cache, Zadd, Trim, SetPreview, ListMembers, Increment
    <2>2. CASE Find(w) \/ ReadCopy(w) \/ StoreCopy(w)
      BY <2>2 DEF Find, ReadCopy, StoreCopy, AfterCopy
    <2>3. CASE ReadTimeline(w) \/ Fetch(w) \/ Query(w) \/ Refill(w) \/ Reset(w)
               \/ ReadPreview(w) \/ SelectLast(w) \/ StorePreview(w)
      BY <2>3 DEF ReadTimeline, Fetch, Query, Refill, Reset, ReadPreview, SelectLast,
         StorePreview
    <2> QED
      BY <2>1, <2>2, <2>3 DEF Step
  <1>3. SelectLast(w) => ~Posting(req[w])
    BY Serving DEF SelectLast, At, OpsAt, Posting
  <1>4. UNCHANGED Posted
    BY <1>0, <1>2, <1>3, PostedMoves
  <1>5. UNCHANGED Log
    BY <1>0, LogStays
  <1> QED
    BY <1>0, <1>2, <1>4, <1>5 DEF Talk!cvars

(* The INSERT of a message posts it; when its answer is lost, unseen. *)
LEMMA InsertPosts ==
  ASSUME Inv, Inv', NEW w \in Workers, Insert(w) \/ LostInsert(w)
  PROVE  Talk!Post(w) \/ Talk!PostUnseen(w)
  <1>1. /\ pc[w] = "insert" /\ Acts(w) /\ UNCHANGED req
    BY DEF Insert, LostInsert, At, Acts, Step, Fails
  <1>2. /\ req[w] # None /\ reply[w] = None /\ Posting(req[w])
        /\ req[w].op \in {"send", "recall"}
    BY <1>1, Serving DEF OpsAt, Posting
  <1>3. mid[w] = None /\ Posted[w] = None
    BY <1>1, <1>2 DEF Inv, LocalsTrue, Owned, PostedLabels, Posted
  <1>4. Talk!MayPost(w)
    BY <1>1, <1>2, <1>3, Known DEF Talk!MayPost, Talk!Serving
  <1>5. CASE Insert(w)
    <2>1. PICK i \in Ids : Inserts(w, i) /\ Set(mid, w, i)
      BY <1>5 DEF Insert, Inserts
    <2>2. Talk!Append(w, i)
      BY <1>1, <2>1, LogAppends DEF At
    <2>3. mid'[w] = i /\ reply' = reply
      BY <1>5, <2>1 DEF Insert, Move, Set, Inv, TypeOK
    <2>4. Posted' = [Posted EXCEPT ![w] = i]
      BY <1>1, <1>2, <2>3, PostedSet
    <2> QED
      BY <1>1, <1>4, <2>2, <2>3, <2>4 DEF Talk!Post
  <1>6. CASE LostInsert(w)
    <2>1. PICK i \in Ids : Inserts(w, i)
      BY <1>6 DEF LostInsert, Inserts
    <2>2. Talk!Append(w, i)
      BY <1>1, <2>1, LogAppends DEF At
    <2>3. /\ mid'[w] = mid[w]
          /\ reply' = [reply EXCEPT ![w] = [ok |-> req[w].op = "recall", shown |-> {}]]
      BY <1>3, <1>6 DEF LostInsert, Done, Set, Inv, TypeOK
    <2>4. UNCHANGED Posted
      BY <1>1, <2>3, PostedMoves
    <2> QED
      BY <1>1, <1>4, <2>2, <2>3, <2>4 DEF Talk!PostUnseen
  <1> QED
    BY <1>5, <1>6

(* The UPDATE of a status marks the message, whether it is answered or not. *)
LEMMA StatusMarks ==
  ASSUME Inv, Inv', NEW w \in Workers, At(w, "update"), SetStatus(w), UNCHANGED req
  PROVE  Talk!MayMark(w) /\ Talk!Marks(w)
  <1>2. /\ req[w] # None /\ reply[w] = None /\ req[w].op \in {"status", "recall"}
        /\ req[w].msg \in Stored
        /\ req[w].op = "status" => req[w].user \in Members
        /\ req[w].op = "recall" => messages[req[w].msg].sender = req[w].user
    BY Serving DEF At, OpsAt, Granted
  <1>3. PICK i \in Stored, t \in Statuses, r \in Row :
          /\ i = req[w].msg /\ t = Target(w)
          /\ r = [messages[i] EXCEPT !.status = t]
          /\ messages' = [messages EXCEPT ![i] = r]
          /\ held' = [held EXCEPT ![i] = held[i] \cup {t}]
    BY <1>2, UpdateMakes
  <1>4. i \in Ids /\ messages[i] # None /\ messages[i] \in Row
    BY <1>3, NoneNot DEF Stored
  <1>5. /\ messages'[i] = r /\ held'[i] = held[i] \cup {t}
        /\ r # None /\ r.sender = messages[i].sender /\ r.kind = messages[i].kind
    BY <1>3, <1>4, NoneAssumption, ZenonT(60) DEF Inv, TypeOK, Row
  <1>6. Log[i] = [sender |-> messages[i].sender, kind |-> messages[i].kind,
                  statuses |-> held[i]]
    BY <1>4, LogNone
  <1>7. Log'[i] = [Log[i] EXCEPT !.statuses = Log[i].statuses \cup {t}]
    BY <1>4, <1>5, <1>6, SMTT(30) DEF Log
  <1>8. \A j \in Ids : j # i => messages'[j] = messages[j] /\ held'[j] = held[j]
    BY <1>3 DEF Inv, TypeOK
  <1>9. \A j \in Ids : j # i => Log'[j] = Log[j]
    BY <1>8 DEF Log
  <1>10. Log' = [Log EXCEPT ![i].statuses = @ \cup {t}]
    <2>1. Log' = [j \in Ids |-> Log'[j]] /\ Log = [j \in Ids |-> Log[j]]
      BY DEF Log
    <2> QED
      BY <1>4, <1>7, <1>9, <2>1
  <1>11. t = Talk!Requested(req[w])
    BY <1>3 DEF Target, Talk!Requested
  <1>12. i \in Talk!Logged /\ Log[i].sender = messages[i].sender
    BY <1>3, LogNone
  <1>13. Talk!MayMark(w)
    BY <1>2, <1>3, <1>12 DEF Talk!MayMark, Talk!Serving
  <1> QED
    BY <1>3, <1>10, <1>11, <1>13 DEF Talk!Marks

LEMMA UpdateMarks ==
  ASSUME Inv, Inv', NEW w \in Workers, Update(w)
  PROVE  Talk!Mark(w)
  <1>1. /\ At(w, "update") /\ SetStatus(w) /\ Acts(w) /\ UNCHANGED <<req, reply, mid>>
    BY DEF Update, Acts, Step, Move, local
  <1>2. UNCHANGED Posted
    BY <1>1, PostedMoves
  <1> QED
    BY <1>1, <1>2, StatusMarks DEF Talk!Mark

LEMMA LostUpdateMarks ==
  ASSUME Inv, Inv', NEW w \in Workers, LostUpdate(w)
  PROVE  Talk!MarkUnseen(w)
  <1>1. /\ At(w, "update") /\ SetStatus(w) /\ Acts(w) /\ UNCHANGED req
    BY DEF LostUpdate, Acts, Fails
  <1>2. reply' = [reply EXCEPT ![w] = [ok |-> FALSE, shown |-> {}]] /\ mid'[w] = None
    BY DEF LostUpdate, Done, Set, Failed, Inv, TypeOK
  <1>3. Posting(req[w]) => mid[w] = None
    BY <1>1 DEF At, Inv, LocalsTrue, Owned, PostedLabels
  <1>4. UNCHANGED Posted
    BY <1>1, <1>2, <1>3, PostedMoves
  <1> QED
    BY <1>1, <1>2, <1>4, StatusMarks DEF Talk!MarkUnseen

LEMMA LostMentionAnswers ==
  ASSUME Inv, NEW w \in Workers, LostMention(w)
  PROVE  Talk!Answer(w)
  <1>1. /\ pc[w] = "mention" /\ UNCHANGED <<messages, held, req>> /\ Acts(w)
        /\ Done(w, [ok |-> FALSE, shown |-> {}])
    BY DEF LostMention, Acts, Fails, At, Failed
  <1> QED
    BY <1>1, EmptyAnswers

LEMMA ReceiveAsks ==
  ASSUME Inv, NEW w \in Workers, Receive(w)
  PROVE  Talk!Ask(w)
  <1>1. PICK q \in Requests : Set(req, w, q)
    BY DEF Receive
  <1>2. /\ reply' = [reply EXCEPT ![w] = None] /\ UNCHANGED <<messages, held, mid>>
        /\ Acts(w) /\ pc[w] = "idle"
    BY DEF Receive, Set, db, local, Acts, At
  <1>3. mid[w] = None
    BY <1>2 DEF Inv, LocalsTrue, Owned
  <1>4. req' = [req EXCEPT ![w] = q] /\ \A v \in Workers : v # w => req'[v] = req[v]
    BY <1>1 DEF Set, Inv, TypeOK
  <1>5. Posted' = [Posted EXCEPT ![w] = None]
    BY <1>2, <1>3, <1>4 DEF Posted
  <1>6. UNCHANGED Log
    BY <1>2, LogStays
  <1>7. req'[w] = q /\ req' = [req EXCEPT ![w] = req'[w]]
    BY <1>4 DEF Inv, TypeOK
  <1> QED
    BY <1>2, <1>4, <1>5, <1>6, <1>7 DEF Talk!Ask

(* The SELECT of a member's GetMessages fails: he gets what he had so far. *)
LEMMA PartTruthful ==
  ASSUME Inv, NEW w \in Workers, pc[w] = "query",
         NEW r, r = [ok |-> FALSE, shown |-> got[w]]
  PROVE  r \in Replies /\ Talk!Truthful(w, r)
  <1>1. Shown(got[w]) /\ Functional(got[w])
    BY DEF Inv, LocalsTrue, Collected
  <1>2. Talk!Shows(got[w])
    BY <1>1, LogNone DEF Shown, Functional, Talk!Shows
  <1>3. r \in Replies
    BY DEF Replies, Inv, TypeOK
  <1>4. req[w].op = "get" /\ req[w].user \in Members
    BY Serving, Known DEF OpsAt
  <1> QED
    BY <1>2, <1>3, <1>4 DEF Talk!Truthful

LEMMA SqlErrorAnswers ==
  ASSUME Inv, NEW w \in Workers, SqlError(w)
  PROVE  Talk!Answer(w)
  <1>1. /\ pc[w] \in {"insert", "mention", "find", "update", "query", "selectLast"}
        /\ UNCHANGED <<messages, held, req>> /\ Acts(w)
    BY DEF SqlError, db, Acts, Fails
  <1>2. PICK b \in BOOLEAN :
          b = (req[w].op = "summary" \/ (req[w].op = "recall" /\ At(w, "insert")))
    OBVIOUS
  <1>3. b => pc[w] \notin {"find", "admit", "update"} /\ req[w].op # "send"
    BY <1>1, <1>2, Serving DEF At, OpsAt
  <1>4. CASE pc[w] # "query"
    <2>1. Done(w, [ok |-> b, shown |-> {}])
      BY <1>2, <1>4 DEF SqlError, Done, Set, At
    <2> QED
      BY <1>1, <1>3, <2>1, EmptyAnswers
  <1>5. CASE pc[w] = "query"
    <2>1. b = FALSE
      BY <1>2, <1>5, Serving DEF At, OpsAt
    <2>2. PICK r : r = [ok |-> FALSE, shown |-> got[w]]
      OBVIOUS
    <2>3. Done(w, r)
      BY <1>2, <1>5, <2>1, <2>2 DEF SqlError, Done, Set, At
    <2> QED
      BY <1>1, <1>5, <2>2, <2>3, PartTruthful, DoneAnswers
  <1> QED
    BY <1>4, <1>5

LEMMA TalkInit == Init => Talk!Init
  BY DEF Init, Talk!Init, Log, Posted

LEMMA TalkStep ==
  ASSUME Inv, Inv', [Next]_vars
  PROVE  [Talk!Next]_(Talk!cvars)
  <1>1. ASSUME NEW w \in Workers, Step(w)
        PROVE  [Talk!Next]_(Talk!cvars)
    BY <1>1, ReturnsAnswer, GoesOn, InsertPosts, UpdateMarks DEF Talk!Next
  <1>2. ASSUME NEW w \in Workers, Receive(w) \/ Fails(w)
        PROVE  [Talk!Next]_(Talk!cvars)
    BY <1>2, ReceiveAsks, SqlErrorAnswers, InsertPosts, LostMentionAnswers, LostUpdateMarks
    DEF Fails, Talk!Next
  <1>3. CASE Crash
    <2>1. Posted' = [w \in Workers |-> None]
      BY <1>3 DEF Crash, Posted
    <2>2. UNCHANGED Log
      BY <1>3, LogStays DEF Crash, db
    <2> QED
      BY <1>3, <2>1, <2>2 DEF Crash, Talk!Next, Talk!Forget
  <1>4. CASE Expiry \/ Tick \/ UNCHANGED vars
    <2>1. UNCHANGED <<messages, held, req, mid, reply>>
      BY <1>4 DEF Expiry, Tick, vars, db, local
    <2>2. UNCHANGED Log /\ UNCHANGED Posted
      BY <2>1, LogStays DEF Posted
    <2> QED
      BY <2>1, <2>2 DEF Talk!cvars
  <1> QED
    BY <1>1, <1>2, <1>3, <1>4 DEF Next, Fails

(* SendMessage, GetMessages, UpdateMessageStatus and RecallMessage, access *)
(* by access, keep to Conversation: a log that only grows, and answers     *)
(* true of it.                                                             *)
THEOREM ImplementsConversation == Spec => ConversationSpec
  <1>1. Inv /\ Inv' /\ [Next]_vars => [Talk!Next]_(Talk!cvars)
    BY TalkStep
  <1> QED
    BY <1>1, TalkInit, Invariance, PTL DEF Spec, ConversationSpec, Talk!Spec

-----------------------------------------------------------------------------
(* UnreadBounded.  A text awaits a member while its handler has not yet    *)
(* raised his counter; a counter counts no more than the texts that have   *)
(* stopped waiting.                                                        *)
Awaits(v, u) ==
  /\ pc[v] \in PostedLabels
  /\ req[v].op = "send"
  /\ u # req[v].user
  /\ pc[v] = "incr" => u \in todo[v]
Countable(u) == {i \in Texts(u) : \A v \in Workers : Awaits(v, u) => mid[v] # i}
CountsTrue == \A u \in Users : unread[u] <= Cardinality(Countable(u))

LEMMA AwaitsBack ==
  ASSUME Inv, NEW w \in Workers, Acts(w), ~Insert(w), NEW u \in Users, Awaits(w, u)'
  PROVE  Awaits(w, u) /\ mid'[w] = mid[w]
  <1>1. /\ pc[w] \in PostedLabels /\ mid'[w] = mid[w] /\ pc'[w] \in PostedLabels
    BY OwnPosted DEF Awaits
  <1>2. ~Receive(w) /\ ~Fails(w)
    BY <1>1 DEF Receive, Fails, SqlError, LostInsert, LostMention, LostUpdate, Done,
       Goto,
       At, PostedLabels, Inv, TypeOK
  <1>3. UNCHANGED req
    BY <1>2
    DEF Acts, Step, Admit, Insert, Mention, Cache, Zadd, Trim, SetPreview, ListMembers,
        Increment, Find, Update, ReadCopy, StoreCopy, ReadTimeline, Fetch, Query, Refill,
        Reset, ReadPreview, SelectLast, StorePreview
  <1>4. ASSUME pc[w] = "incr"
        PROVE  pc'[w] = "incr" /\ todo'[w] \subseteq todo[w]
    <2>1. Increment(w)
      BY <1>2, <1>4
      DEF Acts, Step, Admit, Insert, Mention, Cache, Zadd, Trim, SetPreview, ListMembers,
          Find, Update, ReadCopy, StoreCopy, ReadTimeline, Fetch, Query, Refill, Reset,
          ReadPreview, SelectLast, StorePreview, At
    <2>2. ~ Done(w, [ok |-> TRUE, shown |-> {<<mid[w], "SENT">>}])
      BY <1>1 DEF Done, Goto, PostedLabels, Inv, TypeOK
    <2>3. PICK x \in todo[w] : Set(todo, w, todo[w] \ {x}) /\ Move(w, "incr")
      BY <2>1, <2>2 DEF Increment
    <2> QED
      BY <2>3 DEF Set, Move, Goto, Inv, TypeOK
  <1> QED
    BY <1>1, <1>3, <1>4 DEF Awaits

(* What has stopped waiting does not wait again. *)
LEMMA CountableGrows ==
  ASSUME Inv, [Next]_vars, NEW u \in Users
  PROVE  Countable(u) \subseteq Countable(u)'
  <1>1. Texts(u) \subseteq Texts(u)'
    BY StoredStays DEF Texts, Stored
  <1>2. ASSUME NEW i \in Countable(u), NEW v \in Workers, Awaits(v, u)', mid'[v] = i
        PROVE  FALSE
    <2>1. i \in Stored /\ (Awaits(v, u) => mid[v] # i)
      BY <1>2 DEF Countable, Texts
    <2>2. pc'[v] \in PostedLabels
      BY <1>2 DEF Awaits
    <2>3. pc[v] \in PostedLabels /\ mid'[v] = mid[v]
      BY <1>2, <2>1, <2>2, PostedFrom
    <2>4. ~Insert(v)
      BY <2>3 DEF Insert, At, PostedLabels
    <2>5. ~Acts(v)
      BY <1>2, <2>1, <2>4, AwaitsBack
    <2>6. Untouched(v)
      <3>1. ASSUME NEW w \in Workers, Acts(w)
            PROVE  Untouched(v)
        BY <2>5, <3>1, OthersStay
      <3>2. ~Crash
        BY <2>2 DEF Crash, PostedLabels
      <3>3. ASSUME Expiry \/ Tick \/ UNCHANGED vars
            PROVE  Untouched(v)
        BY <3>3 DEF Expiry, Tick, vars, local, Untouched
      <3> QED
        BY <3>1, <3>2, <3>3 DEF Next, Acts, Fails
    <2> QED
      BY <1>2, <2>1, <2>6 DEF Awaits, Untouched
  <1> QED
    BY <1>1, <1>2 DEF Countable

(* A counter is raised for a text that stops waiting. *)
LEMMA IncrementCounts ==
  ASSUME Inv, NEW w \in Workers, NEW u \in todo[w], Increment(w), [Next]_vars,
         Set(todo, w, todo[w] \ {u}), Move(w, "incr"), UNCHANGED mid
  PROVE  u \in Users => \E i \in Ids : i \notin Countable(u) /\ i \in Countable(u)'
  <1>1. /\ pc[w] = "incr" /\ mid[w] \in Stored /\ mid[w] \in Ids
        /\ todo[w] \subseteq Members \ {req[w].user}
        /\ messages[mid[w]].sender = req[w].user
        /\ req[w].op = "send" /\ messages[mid[w]].kind = "TEXT"
    BY Serving DEF Increment, At, OpsAt, Inv, LocalsTrue, Owned, PostedLabels, Stored
  <1>2. Awaits(w, u)
    BY <1>1 DEF Awaits, PostedLabels
  <1>3. mid[w] \in Texts(u)
    BY <1>1 DEF Texts
  <1>4. mid[w] \in Texts(u)'
    BY <1>3, StoredStays DEF Texts, Stored
  <1>5. todo'[w] = todo[w] \ {u} /\ pc'[w] = "incr" /\ mid'[w] = mid[w]
    BY DEF Set, Move, Goto, Inv, TypeOK
  <1>6. ASSUME NEW v \in Workers, Awaits(v, u)', mid'[v] = mid[w]
        PROVE  FALSE
    <2>1. v # w
      BY <1>5, <1>6 DEF Awaits
    <2>2. Untouched(v)
      BY <2>1, OthersStay DEF Acts, Step
    <2> QED
      BY <1>1, <1>6, <2>1, <2>2 DEF Awaits, Untouched, Inv, Distinct, PostedLabels
  <1> QED
    BY <1>1, <1>2, <1>3, <1>4, <1>6 DEF Countable

LEMMA UnreadChange ==
  ASSUME Inv, [Next]_vars, NEW u \in Users
  PROVE  \/ unread'[u] <= unread[u]
         \/ /\ unread'[u] = unread[u] + 1
            /\ \E i \in Ids : i \notin Countable(u) /\ i \in Countable(u)'
  <1>0. unread \in [Users -> Nat]
    BY DEF Inv, TypeOK
  <1>1. CASE UNCHANGED unread
    BY <1>0, <1>1
  <1>2. ASSUME NEW w \in Workers, Reset(w)
        PROVE  unread'[u] <= unread[u]
    <2>1. unread' = unread \/ unread' = [unread EXCEPT ![req[w].user] = 0]
      BY <1>2 DEF Reset, Written
    <2> QED
      BY <1>0, <2>1
  <1>3. ASSUME NEW w \in Workers, Increment(w), unread' # unread
        PROVE  \/ unread'[u] <= unread[u]
               \/ /\ unread'[u] = unread[u] + 1
                  /\ \E i \in Ids : i \notin Countable(u) /\ i \in Countable(u)'
    <2>1. PICK x \in todo[w] :
            /\ unread' \in Written([unread EXCEPT ![x] = unread[x] + 1], unread)
            /\ Set(todo, w, todo[w] \ {x})
            /\ Move(w, "incr")
            /\ UNCHANGED mid
      BY <1>3 DEF Increment
    <2>2. unread' = [unread EXCEPT ![x] = unread[x] + 1]
      BY <1>3, <2>1 DEF Written
    <2>3. CASE x # u
      BY <1>0, <2>2, <2>3
    <2>4. CASE x = u
      BY <1>0, <1>3, <2>1, <2>2, <2>4, IncrementCounts
    <2> QED
      BY <2>3, <2>4
  <1>4. \/ UNCHANGED unread
        \/ \E w \in Workers : Reset(w) \/ Increment(w)
    BY ZenonT(60) DEF Next, vars, redis, Receive, SqlError, LostInsert, LostMention,
       LostUpdate, Crash, Expiry, Tick, Step,
       Admit, Insert, Mention, Cache, Zadd, Trim, SetPreview, ListMembers, Find, Update,
       ReadCopy, StoreCopy, ReadTimeline, Fetch, Query, Refill, ReadPreview, SelectLast,
       StorePreview
  <1> QED
    BY <1>1, <1>2, <1>3, <1>4

LEMMA FiniteIds ==
  ASSUME NEW S \in SUBSET Ids
  PROVE  IsFiniteSet(S) /\ Cardinality(S) \in Nat
  <1>1. MaxId \in Int /\ 1 \in Int
    BY BoundsAssumption
  <1>2. IsFiniteSet(Ids)
    BY <1>1, FS_Interval DEF Ids
  <1>3. IsFiniteSet(S)
    BY <1>2, FS_Subset
  <1> QED
    BY <1>3, FS_CardinalityType

LEMMA CountsStep ==
  ASSUME Inv, Inv', CountsTrue, [Next]_vars
  PROVE  CountsTrue'
  <1> SUFFICES ASSUME NEW u \in Users
               PROVE  unread'[u] <= Cardinality(Countable(u)')
    BY DEF CountsTrue
  <1>1. /\ unread[u] \in Nat /\ unread'[u] \in Nat
        /\ unread[u] <= Cardinality(Countable(u))
    BY DEF CountsTrue, Inv, TypeOK
  <1>2. PICK S, T : S = Countable(u) /\ T = Countable(u)'
    OBVIOUS
  <1>3. /\ IsFiniteSet(S) /\ IsFiniteSet(T) /\ S \in SUBSET T
        /\ Cardinality(S) \in Nat /\ Cardinality(T) \in Nat
    <2>1. S \in SUBSET Ids /\ T \in SUBSET Ids
      BY <1>2 DEF Countable, Texts, Stored
    <2> QED
      BY <1>2, <2>1, FiniteIds, CountableGrows
  <1>4. Cardinality(S) <= Cardinality(T)
    BY <1>3, FS_Subset
  <1>5. ASSUME NEW i, i \notin S, i \in T
        PROVE  Cardinality(S) + 1 <= Cardinality(T)
    <2>1. Cardinality(S \cup {i}) = Cardinality(S) + 1
      BY <1>3, <1>5, FS_AddElement
    <2>2. S \cup {i} \in SUBSET T
      BY <1>3, <1>5
    <2> QED
      BY <1>3, <2>1, <2>2, FS_Subset
  <1> QED
    BY <1>1, <1>2, <1>3, <1>4, <1>5, UnreadChange

(* updateUnreadCount and resetUnreadCount, which interleave member by      *)
(* member: a counter never exceeds the texts that others have written.     *)
THEOREM UnreadNeverExceeds == Spec => []UnreadBounded
  <1>1. Init => CountsTrue
    <2> SUFFICES ASSUME Init, NEW u \in Users
                 PROVE  unread[u] <= Cardinality(Countable(u))
      BY DEF CountsTrue
    <2>1. unread[u] = 0
      BY DEF Init
    <2>2. Cardinality(Countable(u)) \in Nat
      BY FiniteIds DEF Countable, Texts, Stored
    <2> QED
      BY <2>1, <2>2
  <1>2. Inv /\ Inv' /\ CountsTrue /\ [Next]_vars => CountsTrue'
    BY CountsStep
  <1>3. Inv /\ CountsTrue => UnreadBounded
    <2> SUFFICES ASSUME Inv, CountsTrue, NEW u \in Users
                 PROVE  unread[u] <= Cardinality(Texts(u))
      BY DEF UnreadBounded
    <2>1. unread[u] \in Nat /\ unread[u] <= Cardinality(Countable(u))
      BY DEF Inv, TypeOK, CountsTrue
    <2>2. /\ Texts(u) \in SUBSET Ids /\ Countable(u) \in SUBSET Ids
          /\ Countable(u) \in SUBSET Texts(u)
      BY DEF Countable, Texts, Stored
    <2>3. /\ IsFiniteSet(Texts(u)) /\ Cardinality(Texts(u)) \in Nat
          /\ Cardinality(Countable(u)) \in Nat
      BY <2>2, FiniteIds
    <2>4. Cardinality(Countable(u)) <= Cardinality(Texts(u))
      BY <2>2, <2>3, FS_Subset
    <2> QED
      BY <2>1, <2>3, <2>4
  <1> QED
    BY <1>1, <1>2, <1>3, Invariance, PTL DEF Spec
=============================================================================
