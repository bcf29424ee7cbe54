------------------------ MODULE MessagesAloneProofs -------------------------
(***************************************************************************)
(* One connection, Redis and SQL that answer, times to live that may run   *)
(* out: between requests the cached messages, the timeline, the unread     *)
(* counters and the preview say what the rows say.  For any users, members,*)
(* requests and bounds.                                                    *)
(***************************************************************************)
EXTENDS MessagesProofs

Turns(w) == Receive(w) \/ Step(w)

LEMMA AloneNext ==
  ASSUME ~Faults, NEW w \in Workers, Workers = {w}, [Next]_vars
  PROVE  Turns(w) \/ Expiry \/ Tick \/ UNCHANGED vars
  BY DEF Next, SqlError, LostInsert, LostMention, LostUpdate, Crash, Turns

LEMMA TurnsActs ==
  ASSUME NEW w \in Workers, Turns(w)
  PROVE  Acts(w) /\ [Next]_vars
  BY DEF Turns, Acts, Next

-----------------------------------------------------------------------------
(* The clock: no row is younger than a handler that has read it, and a     *)
(* message being posted is the last of all, and none is younger.           *)
Dated(w) ==
  pc[w] = "insert" \/ (pc[w] \in {"update", "readCopy", "storeCopy"} /\ req[w].op = "recall")
Clock(w) ==
  /\ \A i \in Stored : messages[i].time <= now
  /\ Dated(w) => at[w] <= now /\ \A i \in Stored : messages[i].time <= at[w]
  /\ pc[w] \in PostedLabels => \A j \in Stored :
       j <= mid[w] /\ messages[j].time <= messages[mid[w]].time

LEMMA RowNumbers ==
  ASSUME Inv
  PROVE  \A i \in Stored : i \in Nat /\ messages[i].time \in Nat
  <1> SUFFICES ASSUME NEW i \in Stored
               PROVE  i \in Nat /\ messages[i].time \in Nat
    OBVIOUS
  <1>1. i \in Nat
    BY IdsNumbers, NoneNot
  <1>2. messages[i].time \in 0..MaxTime
    BY NoneNot DEF Row
  <1> QED
    BY <1>1, <1>2, IdsNumbers

LEMMA DatedFrom ==
  ASSUME Inv, NEW w \in Workers, Turns(w), Dated(w)'
  PROVE  at'[w] = now \/ (Dated(w) /\ at'[w] = at[w])
  <1> USE DEF Inv, TypeOK, Done, Move, Goto, Set, local, Dated, At
  <1>1. CASE Receive(w)
    BY <1>1, RequestsAssumption DEF Receive, First, RequestSpace
  <1>2. CASE Admit(w) \/ Insert(w) \/ Mention(w) \/ Cache(w) \/ Zadd(w) \/ Trim(w)
             \/ SetPreview(w) \/ ListMembers(w) \/ Increment(w)
    BY <1>2 DEF Admit, Insert, Mention, Cache, Zadd, Trim, SetPreview, ListMembers, Increment
  <1>3. CASE Find(w) \/ Update(w) \/ ReadCopy(w) \/ StoreCopy(w)
    BY <1>3 DEF Find, Update, ReadCopy, StoreCopy, AfterCopy
  <1>4. CASE ReadTimeline(w) \/ Fetch(w) \/ Query(w) \/ Refill(w) \/ Reset(w)
             \/ ReadPreview(w) \/ SelectLast(w) \/ StorePreview(w)
    BY <1>4 DEF ReadTimeline, Fetch, Query, Refill, Reset, ReadPreview, SelectLast,
       StorePreview
  <1> QED
    BY <1>1, <1>2, <1>3, <1>4 DEF Turns, Step

(* What an INSERT leaves: the highest identifier, and the latest time. *)
Appends(w, i) ==
  /\ i \notin Stored /\ Stored' = Stored \cup {i}
  /\ mid'[w] = i
  /\ messages' = [messages EXCEPT ![i] = NewRow(w)] /\ messages'[i] = NewRow(w)
  /\ \A j \in Stored : messages'[j] = messages[j] /\ j < i
  /\ pc[w] = "insert" /\ pc'[w] \in {"mention", "cache"}
  /\ unseen' = [u \in Users |->
       IF req[w].op = "send" /\ u \in Members \ {req[w].user}
       THEN unseen[u] \cup {i} ELSE unseen[u]]
  /\ UNCHANGED <<redis, req, now, at>>

LEMMA InsertAppends ==
  ASSUME Inv, NEW w \in Workers, Insert(w)
  PROVE  \E i \in Ids : Appends(w, i)
  <1>1. PICK i \in Ids :
          /\ Inserts(w, i)
          /\ unseen' = [u \in Users |->
               IF req[w].op = "send" /\ u \in Members \ {req[w].user}
               THEN unseen[u] \cup {i} ELSE unseen[u]]
          /\ Set(mid, w, i)
    BY DEF Insert, Inserts
  <1>2. /\ NewRow(w) \in Row /\ i \notin Stored /\ Stored' = Stored \cup {i}
    BY <1>1, InsertMakes DEF Insert
  <1>3. mid'[w] = i /\ pc[w] = "insert" /\ pc'[w] \in {"mention", "cache"}
    BY <1>1 DEF Insert, At, Set, Move, Goto, Inv, TypeOK
  <1>4. /\ messages' = [messages EXCEPT ![i] = NewRow(w)]
        /\ messages'[i] = NewRow(w)
        /\ \A j \in Stored : messages'[j] = messages[j]
    BY <1>1, <1>2 DEF Inserts, Stored, Inv, TypeOK
  <1>5. \A j \in Stored : j < i
    BY <1>1, IdsNumbers DEF Inserts
  <1>6. UNCHANGED <<redis, req, now, at>>
    BY DEF Insert
  <1> QED
    BY <1>1, <1>2, <1>3, <1>4, <1>5, <1>6 DEF Appends

LEMMA InsertLatest ==
  ASSUME Inv, NEW w \in Workers, Clock(w), NEW i \in Ids, Appends(w, i)
  PROVE  messages'[i].time = at[w] /\ \A j \in Stored' : messages'[j].time <= at[w]
  <1>1. messages'[i].time = at[w] /\ at[w] \in Nat
    BY IdsNumbers DEF Appends, NewRow, Inv, TypeOK
  <1>2. \A j \in Stored : messages[j].time <= at[w]
    BY DEF Clock, Dated, Appends
  <1> QED
    BY <1>1, <1>2 DEF Appends

(* A text or notice being posted stays the one it was. *)
LEMMA PostedStays ==
  ASSUME Inv, NEW w \in Workers, Turns(w), ~Insert(w), pc'[w] \in PostedLabels
  PROVE  pc[w] \in PostedLabels /\ mid'[w] = mid[w]
  BY TurnsActs, OwnPosted

(* Between two INSERTs the rows keep their times and kinds. *)
LEMMA TimesStay ==
  ASSUME Inv, NEW w \in Workers, Turns(w), ~Insert(w)
  PROVE  /\ Stored' = Stored
         /\ \A i \in Stored : /\ messages'[i].time = messages[i].time
                              /\ messages'[i].kind = messages[i].kind
  <1>1. CASE UNCHANGED messages
    BY <1>1 DEF Stored
  <1>2. CASE Update(w)
    <2>1. PICK i \in Ids, s \in Statuses, r \in Row :
            /\ messages[i] \in Row /\ messages[i] # None /\ r # None
            /\ r = [messages[i] EXCEPT !.status = s]
            /\ messages' = [messages EXCEPT ![i] = r]
      BY <1>2, UpdateMakes, NoneAssumption DEF Update
    <2>2. r.kind = messages[i].kind /\ r.time = messages[i].time
      BY <2>1 DEF Row
    <2> QED
      BY <2>1, <2>2 DEF Stored, Inv, TypeOK
  <1> QED
    BY <1>1, <1>2
    DEF db, Turns, Receive, Step, Admit, Mention, Cache, Zadd, Trim, SetPreview,
        ListMembers, Increment, Find, ReadCopy, StoreCopy, ReadTimeline, Fetch, Query,
        Refill, Reset, ReadPreview, SelectLast, StorePreview

LEMMA Quieter ==
  ASSUME Expiry \/ Tick \/ UNCHANGED vars
  PROVE  UNCHANGED <<messages, mentions, held, unseen, unread, pc, req, mid, at, todo, got>>
  BY DEF Expiry, Tick, vars, db, redis, local

LEMMA ClockStep ==
  ASSUME Inv, ~Faults, NEW w \in Workers, Workers = {w}, Clock(w), [Next]_vars
  PROVE  Clock(w)'
  <1>0. /\ now \in Nat /\ at[w] \in Nat /\ Ids \subseteq Nat
        /\ \A i \in Stored : messages[i].time \in Nat
    BY RowNumbers, IdsNumbers DEF Inv, TypeOK
  <1>1. CASE Turns(w) /\ ~Insert(w)
    <2>1. now' = now
      BY <1>1 DEF Turns, Receive, Step, Admit, Mention, Cache, Zadd, Trim, SetPreview,
         ListMembers, Increment, Find, Update, ReadCopy, StoreCopy, ReadTimeline, Fetch,
         Query, Refill, Reset, ReadPreview, SelectLast, StorePreview
    <2>2. Stored' = Stored /\ \A i \in Stored : messages'[i].time = messages[i].time
      BY <1>1, TimesStay
    <2>3. Dated(w)' => at'[w] = now \/ (Dated(w) /\ at'[w] = at[w])
      BY <1>1, DatedFrom
    <2>4. pc'[w] \in PostedLabels => pc[w] \in PostedLabels /\ mid'[w] = mid[w]
      BY <1>1, PostedStays
    <2>5. ASSUME pc'[w] \in PostedLabels, NEW j \in Stored'
          PROVE  j <= mid'[w] /\ messages'[j].time <= messages'[mid'[w]].time
      <3>1. /\ mid[w] \in Stored
            /\ j <= mid[w] /\ messages[j].time <= messages[mid[w]].time
        BY <2>2, <2>4, <2>5 DEF Clock, Inv, LocalsTrue, Owned
      <3>2. /\ mid'[w] = mid[w] /\ j \in Stored
            /\ messages'[mid[w]].time = messages[mid[w]].time
            /\ messages'[j].time = messages[j].time
        BY <2>2, <2>4, <2>5, <3>1
      <3> QED
        BY <3>1, <3>2
    <2> QED
      BY <1>0, <2>1, <2>2, <2>3, <2>4, <2>5 DEF Clock
  <1>2. CASE Insert(w)
    <2>0. PICK i \in Ids : Appends(w, i)
      BY <1>2, InsertAppends
    <2>1. /\ i \notin Stored /\ Stored' = Stored \cup {i}
          /\ mid'[w] = i
          /\ \A j \in Stored : messages'[j] = messages[j] /\ j < i
          /\ messages'[i].time = at[w]
          /\ \A j \in Stored' : messages'[j].time <= at[w]
          /\ pc'[w] \in {"mention", "cache"}
      BY <2>0, InsertLatest DEF Appends
    <2>2. UNCHANGED <<now, at>> /\ at[w] <= now
      BY <2>0 DEF Appends, Clock, Dated
    <2>3. ~Dated(w)'
      BY <2>1 DEF Dated
    <2>4. \A j \in Stored' : messages'[j].time <= now'
      BY <1>0, <2>1, <2>2
    <2>5. \A j \in Stored' : j <= i /\ messages'[j].time <= messages'[i].time
      BY <1>0, <2>1 DEF Stored
    <2> QED
      BY <2>1, <2>3, <2>4, <2>5 DEF Clock
  <1>3. CASE Expiry \/ Tick \/ UNCHANGED vars
    <2>1. UNCHANGED <<messages, pc, req, mid, at>>
      BY <1>3, Quieter
    <2>2. now' \in Nat /\ now <= now'
      BY <1>0, <1>3 DEF Expiry, Tick, vars
    <2> QED
      BY <1>0, <2>1, <2>2 DEF Clock, Dated, Stored
  <1> QED
    BY <1>1, <1>2, <1>3, AloneNext

-----------------------------------------------------------------------------
(* Later orders the rows; of a set of rows, Latest(S, n) takes at most n   *)
(* and none without those that are later.                                  *)
LEMMA LaterOrders ==
  ASSUME Inv
  PROVE  /\ \A i \in Stored : ~Later(i, i)
         /\ \A i, j, k \in Stored : Later(i, j) /\ Later(j, k) => Later(i, k)
         /\ \A i, j \in Stored : i = j \/ Later(i, j) \/ Later(j, i)
  <1>1. \A i \in Stored : i \in Ids /\ messages[i].time \in Nat
    BY RowNumbers, NoneNot
  <1>2. ASSUME NEW i \in Stored, NEW j \in Stored, NEW k \in Stored,
               Later(i, j), Later(j, k)
        PROVE  Later(i, k)
    <2>1. /\ messages[i].time \in Nat /\ messages[j].time \in Nat /\ messages[k].time \in Nat
          /\ Precedes(k, j) /\ Precedes(j, i) => Precedes(k, i)
      BY <1>1, OrderAssumption
    <2> QED
      BY ONLY <1>2, <2>1 DEF Later
  <1>3. ASSUME NEW i \in Stored, NEW j \in Stored
        PROVE  ~Later(i, i) /\ (i = j \/ Later(i, j) \/ Later(j, i))
    <2>1. /\ messages[i].time \in Nat /\ messages[j].time \in Nat
          /\ ~Precedes(i, i) /\ (i = j \/ Precedes(i, j) \/ Precedes(j, i))
      BY <1>1, OrderAssumption
    <2> QED
      BY ONLY <2>1 DEF Later
  <1> QED
    BY <1>2, <1>3

(* What is newer, ZREVRANGE returns first. *)
LEMMA NewerLater ==
  \A i, j : Newer(j, i) => Later(j, i)
  BY DEF Newer, Later

LEMMA LatestUpward ==
  ASSUME Inv, NEW S \in SUBSET Stored, NEW n \in Nat, NEW i \in Latest(S, n),
         NEW j \in S, Later(j, i)
  PROVE  j \in Latest(S, n)
  <1> DEFINE Before(k) == {l \in S : Later(l, k)}
  <1>1. Before(j) \in SUBSET Before(i)
    BY LaterOrders DEF Latest
  <1>2. Before(i) \in SUBSET Ids /\ Before(j) \in SUBSET Ids
    BY DEF Stored
  <1>3. Cardinality(Before(i)) < n
    BY DEF Latest
  <1>4. /\ IsFiniteSet(Before(i)) /\ Cardinality(Before(i)) \in Nat
        /\ Cardinality(Before(j)) \in Nat
    BY <1>2, FiniteIds
  <1>5. Cardinality(Before(j)) <= Cardinality(Before(i))
    BY <1>1, <1>4, FS_Subset
  <1>6. Cardinality(Before(j)) < n
    BY <1>3, <1>4, <1>5
  <1> QED
    BY <1>6 DEF Latest

LEMMA LatestFew ==
  ASSUME Inv, NEW S \in SUBSET Stored, NEW n \in Nat
  PROVE  Cardinality(Latest(S, n)) <= n
  <1> DEFINE L == Latest(S, n)
             Before(k) == {l \in S : Later(l, k)}
             rank == [k \in L |-> Cardinality(Before(k))]
             Ranks == 0 .. (n - 1)
  <1>1. /\ IsFiniteSet(L) /\ Cardinality(L) \in Nat
        /\ \A k \in L : IsFiniteSet(Before(k)) /\ Cardinality(Before(k)) \in Nat
    <2>1. L \in SUBSET Ids /\ \A k \in L : Before(k) \in SUBSET Ids
      BY DEF Latest, Stored
    <2> QED
      BY <2>1, FiniteIds
  <1>2. IsFiniteSet(Ranks) /\ Cardinality(Ranks) = n
    <2>1. 0 \in Int /\ n - 1 \in Int
      OBVIOUS
    <2> QED
      BY <2>1, FS_Interval
  <1>3. rank \in [L -> Ranks]
    <2>1. ASSUME NEW k \in L
          PROVE  Cardinality(Before(k)) \in Ranks
      <3>1. Cardinality(Before(k)) < n
        BY DEF Latest
      <3> QED
        BY <1>1, <3>1
    <2> QED
      BY <2>1
  <1>4. ASSUME NEW i \in L, NEW j \in L, Later(i, j)
        PROVE  Cardinality(Before(i)) < Cardinality(Before(j))
    <2>1. i \in S /\ j \in S
      BY DEF Latest
    <2>2. Before(i) \in SUBSET Before(j) /\ i \in Before(j) /\ i \notin Before(i)
      BY <1>4, <2>1, LaterOrders
    <2>3. Cardinality(Before(i)) # Cardinality(Before(j))
      BY <1>1, <2>2, FS_Subset
    <2>4. Cardinality(Before(i)) <= Cardinality(Before(j))
      BY <1>1, <2>2, FS_Subset
    <2> QED
      BY <1>1, <2>3, <2>4
  <1>5. ASSUME NEW i \in L, NEW j \in L, i # j
        PROVE  rank[i] # rank[j]
    <2>1. Later(i, j) \/ Later(j, i)
      BY <1>5, LaterOrders DEF Latest
    <2>2. Cardinality(Before(i)) # Cardinality(Before(j))
      <3> HIDE DEF Before, L
      <3> QED
        BY <1>1, <1>4, <2>1
    <2>3. rank[i] = Cardinality(Before(i)) /\ rank[j] = Cardinality(Before(j))
      OBVIOUS
    <2> QED
      BY ONLY <2>2, <2>3
  <1>6. ~(n < Cardinality(L))
    <2> HIDE DEF rank, Ranks, L
    <2> SUFFICES ASSUME Cardinality(Ranks) < Cardinality(L)
                 PROVE  FALSE
      BY <1>2
    <2>1. \E i, j \in L : i # j /\ rank[i] = rank[j]
      BY <1>1, <1>2, <1>3, FS_PigeonHole
    <2> QED
      BY <1>5, <2>1
  <1> QED
    BY <1>1, <1>6

(* The timeline has no gap but the message that is not yet put there.      *)
Placing(w) == pc[w] \in {"mention", "cache", "zadd"}
TimelineAgree(w) ==
  /\ pc[w] # "trim" => Cardinality(timeline) <= Keep
  /\ \A i \in timeline, j \in Stored :
       Newer(j, i) => j \in timeline \/ (Placing(w) /\ j = mid[w])

LEMMA PlacingStep ==
  ASSUME Inv, NEW w \in Workers, Step(w), ~Insert(w), ~Zadd(w), ~Trim(w),
         req[w].mentions \subseteq Registered
  PROVE  /\ timeline' = timeline
         /\ pc[w] # "trim" /\ pc'[w] # "trim"
         /\ Placing(w) => Placing(w)' /\ mid'[w] = mid[w]
  <1> USE DEF Inv, TypeOK, Done, Move, Goto, Set, local, redis, Placing, At
  <1>1. CASE Mention(w)
    <2>1. todo[w] \subseteq Wanted(w) /\ Wanted(w) \subseteq Registered
      BY <1>1 DEF Mention, LocalsTrue, Owned, Wanted
    <2> QED
      BY <1>1, <2>1 DEF Mention
  <1>2. CASE Admit(w) \/ Cache(w) \/ SetPreview(w) \/ ListMembers(w) \/ Increment(w)
    BY <1>2 DEF Admit, Cache, SetPreview, ListMembers, Increment
  <1>3. CASE Find(w) \/ Update(w) \/ ReadCopy(w) \/ StoreCopy(w)
    BY <1>3 DEF Find, Update, ReadCopy, StoreCopy, AfterCopy
  <1>4. CASE ReadTimeline(w) \/ Fetch(w) \/ Query(w) \/ Refill(w) \/ Reset(w)
             \/ ReadPreview(w) \/ SelectLast(w) \/ StorePreview(w)
    BY <1>4 DEF ReadTimeline, Fetch, Query, Refill, Reset, ReadPreview, SelectLast,
       StorePreview
  <1> QED
    BY <1>1, <1>2, <1>3, <1>4 DEF Step

LEMMA StepWorks ==
  ASSUME NEW w \in Workers, Step(w)
  PROVE  pc[w] # "idle"
  BY DEF Step, Admit, Insert, Mention, Cache, Zadd, Trim, SetPreview, ListMembers, Increment,
     Find, Update, ReadCopy, StoreCopy, ReadTimeline, Fetch, Query, Refill, Reset,
     ReadPreview, SelectLast, StorePreview, At

LEMMA TimelineStep ==
  ASSUME Inv, ~LossyRedis, ~Faults, NEW w \in Workers, Workers = {w},
         pc[w] # "idle" => req[w].mentions \subseteq Registered,
         Clock(w), TimelineAgree(w), [Next]_vars
  PROVE  TimelineAgree(w)'
  <1>0. timeline \subseteq Stored /\ Keep \in Nat
    BY BoundsAssumption DEF Inv, RedisTrue
  <1>1. CASE Insert(w)
    <2>0. PICK i \in Ids : Appends(w, i)
      BY <1>1, InsertAppends
    <2>1. /\ Stored' = Stored \cup {i} /\ mid'[w] = i
          /\ \A j \in Stored : messages'[j] = messages[j]
          /\ pc'[w] \in {"mention", "cache"}
      BY <2>0 DEF Appends
    <2>2. timeline' = timeline /\ pc[w] = "insert"
      BY <2>0 DEF Appends, redis
    <2>3. ASSUME NEW k \in timeline, NEW j \in Stored', Newer(j, k)', j # i
          PROVE  j \in timeline
      <3>1. j \in Stored /\ k \in Stored
        BY <1>0, <2>1, <2>3
      <3>2. Newer(j, k)
        BY <2>1, <2>3, <3>1 DEF Newer
      <3> QED
        BY <2>2, <3>1, <3>2 DEF TimelineAgree, Placing
    <2> QED
      BY <2>1, <2>2, <2>3 DEF TimelineAgree, Placing
  <1>2. CASE Zadd(w)
    <2>1. /\ pc[w] = "zadd" /\ pc'[w] = "trim"
          /\ timeline' = timeline \cup {mid[w]}
          /\ UNCHANGED <<messages, mid>>
      BY <1>2 DEF Zadd, At, Move, Goto, Written, db, local, Inv, TypeOK
    <2>2. \A j \in Stored : ~Newer(j, mid[w])
      <3>1. mid[w] \in Stored /\ \A j \in Stored :
              j <= mid[w] /\ messages[j].time <= messages[mid[w]].time
        BY <2>1 DEF Clock, Inv, LocalsTrue, Owned, PostedLabels
      <3> QED
        BY <3>1, RowNumbers DEF Newer
    <2>3. ASSUME NEW k \in timeline', NEW j \in Stored, Newer(j, k)
          PROVE  j \in timeline'
      <3>1. CASE k = mid[w]
        BY <2>2, <2>3, <3>1
      <3>2. CASE k # mid[w]
        BY <2>1, <2>3, <3>2 DEF TimelineAgree
      <3> QED
        BY <3>1, <3>2
    <2>4. Stored' = Stored /\ \A j, k : Newer(j, k)' <=> Newer(j, k)
      BY <2>1 DEF Stored, Newer
    <2> QED
      BY <2>1, <2>3, <2>4 DEF TimelineAgree
  <1>3. CASE Trim(w)
    <2>1. /\ pc[w] = "trim" /\ pc'[w] # "trim"
          /\ timeline' = Latest(timeline, Keep)
          /\ UNCHANGED messages
      BY <1>3 DEF Trim, At, Move, Done, Goto, Written, db, Inv, TypeOK
    <2>2. Cardinality(timeline') <= Keep
      BY <1>0, <2>1, LatestFew
    <2>3. ASSUME NEW k \in timeline', NEW j \in Stored, Newer(j, k)
          PROVE  j \in timeline'
      <3>1. k \in timeline
        BY <2>1 DEF Latest
      <3>2. j \in timeline
        BY <2>1, <2>3, <3>1 DEF TimelineAgree, Placing
      <3> QED
        BY <1>0, <2>1, <2>3, <3>2, NewerLater, LatestUpward
    <2>4. Stored' = Stored /\ \A j, k : Newer(j, k)' <=> Newer(j, k)
      BY <2>1 DEF Stored, Newer
    <2> QED
      BY <2>1, <2>2, <2>3, <2>4 DEF TimelineAgree
  <1>4. CASE Turns(w) /\ ~Insert(w) /\ ~Zadd(w) /\ ~Trim(w)
    <2>1. /\ Stored' = Stored
          /\ \A i \in Stored : messages'[i].time = messages[i].time
      BY <1>4, TimesStay
    <2>2. \A j, k \in Stored : Newer(j, k)' <=> Newer(j, k)
      BY <2>1 DEF Newer
    <2>3. CASE Receive(w)
      <3>1. /\ timeline' = timeline /\ pc'[w] # "trim" /\ pc[w] = "idle"
        BY <2>3, RequestsAssumption
        DEF Receive, First, RequestSpace, Goto, At, redis, Inv, TypeOK
      <3> QED
        BY <1>0, <2>1, <2>2, <3>1 DEF TimelineAgree, Placing
    <2>4. CASE ~Receive(w)
      <3>1. pc[w] # "idle"
        BY <1>4, <2>4, StepWorks DEF Turns
      <3> QED
        BY <1>0, <1>4, <2>1, <2>2, <2>4, <3>1, PlacingStep DEF TimelineAgree, Turns
    <2> QED
      BY <2>3, <2>4
  <1>5. CASE Expiry \/ Tick \/ UNCHANGED vars
    <2>1. UNCHANGED <<messages, pc, mid>>
      BY <1>5, Quieter
    <2>2. timeline' = timeline \/ timeline' = {}
      BY <1>5 DEF Expiry, Tick, vars, redis
    <2>3. Cardinality({}) = 0
      BY FS_EmptySet
    <2> QED
      BY <1>0, <2>1, <2>2, <2>3 DEF TimelineAgree, Placing, Stored, Newer
  <1> QED
    BY <1>1, <1>2, <1>3, <1>4, <1>5, AloneNext

-----------------------------------------------------------------------------
(* The cached messages have the statuses of their rows, but for the one    *)
(* whose row a handler has changed before its copy.                        *)
Behind(w) == pc[w] \in {"readCopy", "storeCopy"}
CopiesAgree(w) ==
  /\ \A i \in Ids : copies[i] # None =>
       copies[i].status = messages[i].status \/ (Behind(w) /\ i = req[w].msg)
  /\ pc[w] \in {"mention", "cache"} => messages[mid[w]].status = "SENT"
  /\ pc[w] = "refill" => \A x \in got[w] : messages[x[1]].status = x[2]
  /\ Behind(w) => messages[req[w].msg].status = Target(w)

(* Where neither rows nor copies change. *)
LEMMA CopiesElsewhere ==
  ASSUME Inv, NEW w \in Workers, Turns(w), ~Insert(w), ~Update(w), ~Cache(w), ~ReadCopy(w),
         ~StoreCopy(w), ~Query(w), ~Refill(w)
  PROVE  /\ UNCHANGED <<messages, copies>>
         /\ pc[w] \notin {"readCopy", "storeCopy", "refill"}
         /\ pc'[w] \notin {"readCopy", "storeCopy", "refill"}
         /\ pc'[w] \in {"mention", "cache"} => pc[w] \in {"mention", "cache"} /\ mid'[w] = mid[w]
  <1>. pc \in [Workers -> Labels] /\ mid \in [Workers -> Ids \cup {None}]
    BY DEF Inv, TypeOK
  <1> USE DEF Done, Move, Goto, Set, local, redis, db, At
  <1>1. CASE Receive(w)
    BY <1>1, RequestsAssumption DEF Receive, First, RequestSpace
  <1>2. CASE Admit(w) \/ Mention(w)
    <2>1. CASE Admit(w)
      BY <2>1, SMTT(30) DEF Admit
    <2>2. CASE Mention(w)
      BY <2>2, SMTT(30) DEF Mention
    <2> QED
      BY <1>2, <2>1, <2>2
  <1>3. CASE Zadd(w) \/ Trim(w)
    BY <1>3, SMTT(30) DEF Zadd, Trim
  <1>4. CASE SetPreview(w) \/ ListMembers(w)
    BY <1>4, SMTT(30) DEF SetPreview, ListMembers
  <1>5. CASE Increment(w)
    <2>1. UNCHANGED <<messages, copies>> /\ pc[w] = "incr"
      BY <1>5 DEF Increment
    <2>2. pc'[w] \in {"incr", "idle"}
      BY <1>5 DEF Increment
    <2> QED
      BY <2>1, <2>2
  <1>6. CASE Find(w) \/ ReadTimeline(w) \/ Fetch(w) \/ Reset(w)
             \/ ReadPreview(w) \/ SelectLast(w) \/ StorePreview(w)
    BY <1>6 DEF Find, ReadTimeline, Fetch, Reset, ReadPreview, SelectLast, StorePreview
  <1> QED
    BY <1>1, <1>2, <1>3, <1>4, <1>5, <1>6 DEF Turns, Step

(* A copy that says what its row says. *)
LEMMA CopyWritten ==
  ASSUME Inv, NEW w \in Workers, CopiesAgree(w), NEW i \in Ids, NEW m, UNCHANGED messages,
         copies' = [copies EXCEPT ![i] = [status |-> messages[i].status, mentions |-> m]],
         Behind(w) => i = req[w].msg
  PROVE  \A j \in Ids : copies'[j] # None => copies'[j].status = messages'[j].status
  BY DEF CopiesAgree, Inv, TypeOK

(* Where a handler goes when the copy is done. *)
LEMMA AfterGoes ==
  ASSUME Inv, NEW w \in Workers, AfterCopy(w)
  PROVE  pc'[w] \in {"idle", "insert", "reset"}
  BY DEF AfterCopy, Move, Done, Goto, Inv, TypeOK

LEMMA CopiesAgreeStep ==
  ASSUME Inv, ~LossyRedis, ~Faults, NEW w \in Workers, Workers = {w},
         CopiesAgree(w), [Next]_vars
  PROVE  CopiesAgree(w)'
  <1>1. CASE Insert(w)
    <2>0. PICK i \in Ids : Appends(w, i)
      BY <1>1, InsertAppends
    <2>1. /\ mid'[w] = i /\ messages'[i] = NewRow(w)
          /\ messages' = [messages EXCEPT ![i] = NewRow(w)]
          /\ pc'[w] \in {"mention", "cache"}
      BY <2>0 DEF Appends
    <2>2. copies' = copies /\ pc[w] = "insert" /\ copies[i] = None
      BY <2>0 DEF Appends, redis, Inv, RedisTrue
    <2>3. \A j \in Ids : j # i => messages'[j] = messages[j]
      BY <2>1 DEF Inv, TypeOK
    <2>4. messages'[i].status = "SENT"
      BY <2>1 DEF NewRow
    <2> QED
      BY <2>1, <2>2, <2>3, <2>4 DEF CopiesAgree, Behind
  <1>2. CASE Update(w)
    <2>1. PICK i \in Ids, r \in Row :
            /\ i = req[w].msg /\ messages[i] \in Row
            /\ r = [messages[i] EXCEPT !.status = Target(w)]
            /\ messages' = [messages EXCEPT ![i] = r]
      BY <1>2, UpdateMakes DEF Update
    <2>2. copies' = copies /\ req' = req /\ pc[w] = "update" /\ pc'[w] = "readCopy"
      BY <1>2 DEF Update, redis, At, Move, Goto, Inv, TypeOK
    <2>3. messages'[i].status = Target(w) /\ Target(w)' = Target(w)
      BY <2>1, <2>2 DEF Row, Inv, TypeOK, Target
    <2>4. \A j \in Ids : j # i => messages'[j] = messages[j]
      BY <2>1 DEF Inv, TypeOK
    <2> QED
      BY <2>1, <2>2, <2>3, <2>4 DEF CopiesAgree, Behind
  <1>3. CASE Cache(w)
    <2>1. /\ pc[w] = "cache" /\ pc'[w] = "zadd" /\ UNCHANGED messages
          /\ copies' = [copies EXCEPT ![mid[w]] = [status |-> "SENT", mentions |-> Wanted(w)]]
      BY <1>3 DEF Cache, SetCopy, Written, At, Move, Goto, db, Inv, TypeOK
    <2>2. mid[w] \in Ids /\ messages[mid[w]].status = "SENT"
      BY <2>1 DEF CopiesAgree, Inv, LocalsTrue, Owned, PostedLabels, Stored
    <2>3. \A j \in Ids : copies'[j] # None => copies'[j].status = messages'[j].status
      BY <2>1, <2>2, CopyWritten DEF Behind
    <2> QED
      BY <2>1, <2>3 DEF CopiesAgree, Behind
  <1>4. CASE ReadCopy(w)
    <2>1. /\ UNCHANGED <<messages, copies, req>> /\ pc[w] = "readCopy"
          /\ \/ pc'[w] = "storeCopy"
             \/ copies[req[w].msg] = None /\ pc'[w] \in {"idle", "insert", "reset"}
      BY <1>4, AfterGoes DEF ReadCopy, Seen, At, Move, Goto, db, redis, Inv, TypeOK
    <2> QED
      BY <2>1 DEF CopiesAgree, Behind, Target
  <1>5. CASE StoreCopy(w)
    <2>1. /\ pc[w] = "storeCopy" /\ pc'[w] \in {"idle", "insert", "reset"} /\ UNCHANGED messages
          /\ copies' = [copies EXCEPT ![req[w].msg] =
                          [status |-> Target(w), mentions |-> marks[w]]]
      BY <1>5, AfterGoes DEF StoreCopy, SetCopy, Written, At, db
    <2>2. req[w].msg \in Ids /\ messages[req[w].msg].status = Target(w)
      BY <2>1, Serving DEF CopiesAgree, Behind, Granted, OpsAt, Stored
    <2>3. \A j \in Ids : copies'[j] # None => copies'[j].status = messages'[j].status
      BY <2>1, <2>2, CopyWritten
    <2> QED
      BY <2>1, <2>3 DEF CopiesAgree, Behind
  <1>6. CASE Query(w)
    <2>1. PICK S \in Queried(Matching(req[w]), Limit(req[w])) :
            Set(got, w, {<<i, messages[i].status>> : i \in S})
      BY <1>6 DEF Query
    <2>2. got'[w] = {<<i, messages[i].status>> : i \in S}
      BY <2>1 DEF Set, Inv, TypeOK
    <2>3. /\ UNCHANGED <<messages, copies>> /\ pc[w] = "query"
          /\ pc'[w] \in {"reset", "refill"}
      BY <1>6 DEF Query, At, Move, Goto, db, redis, Inv, TypeOK
    <2> QED
      BY <2>2, <2>3 DEF CopiesAgree, Behind
  <1>7. CASE Refill(w)
    <2>1. PICK i \in Newest(todo[w]), s \in Statuses : <<i, s>> \in got[w] /\ SetCopy(i, s, {})
      BY <1>7 DEF Refill
    <2>2. /\ UNCHANGED <<messages, got>> /\ pc[w] = "refill"
          /\ pc'[w] \in {"reset", "refill"}
      BY <1>7 DEF Refill, At, Move, Goto, db, Inv, TypeOK
    <2>3. i \in Ids /\ s = messages[i].status
      BY <2>1, <2>2 DEF CopiesAgree, Inv, TypeOK
    <2>4. copies' = [copies EXCEPT ![i] = [status |-> s, mentions |-> {}]]
      BY <2>1 DEF SetCopy, Written
    <2>5. \A j \in Ids : copies'[j] # None => copies'[j].status = messages'[j].status
      BY <2>2, <2>3, <2>4, CopyWritten DEF Behind
    <2> QED
      BY <2>2, <2>5 DEF CopiesAgree, Behind
  <1>8. CASE Turns(w) /\ ~Insert(w) /\ ~Update(w) /\ ~Cache(w) /\ ~ReadCopy(w)
             /\ ~StoreCopy(w) /\ ~Query(w) /\ ~Refill(w)
    BY <1>8, CopiesElsewhere DEF CopiesAgree, Behind
  <1>9. CASE Expiry \/ Tick \/ UNCHANGED vars
    <2>1. UNCHANGED <<messages, pc, req, mid, got>>
      BY <1>9, Quieter
    <2>2. \A i \in Ids : copies'[i] = copies[i] \/ copies'[i] = None
      BY <1>9 DEF Expiry, Tick, vars, redis, Inv, TypeOK
    <2> QED
      BY <2>1, <2>2 DEF CopiesAgree, Behind, Target
  <1> QED
    BY <1>1, <1>2, <1>3, <1>4, <1>5, <1>6, <1>7, <1>8, <1>9, AloneNext

-----------------------------------------------------------------------------
(* A counter is the number of texts its member has not seen, but for the   *)
(* one for which it is still to be raised.                                 *)
Due(w, u) == Awaits(w, u) /\ u \in Members
UnreadAgree(w) ==
  \A u \in Users :
    /\ unseen[u] \subseteq Stored
    /\ Cardinality(unseen[u]) = IF Due(w, u) THEN unread[u] + 1 ELSE unread[u]

LEMMA DueElsewhere ==
  ASSUME Inv, NEW w \in Workers, Step(w), ~Insert(w), ~ListMembers(w), ~Increment(w), ~Reset(w),
         req[w].mentions \subseteq Registered
  PROVE  /\ UNCHANGED <<unread, unseen>>
         /\ \A u \in Users : Due(w, u)' <=> Due(w, u)
  <1> USE DEF Inv, TypeOK, Done, Move, Goto, Set, local, redis, At, Due, Awaits, PostedLabels
  <1>1. CASE Mention(w)
    <2>1. todo[w] \subseteq Wanted(w) /\ Wanted(w) \subseteq Registered
      BY <1>1 DEF Mention, LocalsTrue, Owned, Wanted
    <2> QED
      BY <1>1, <2>1 DEF Mention
  <1>2. CASE Admit(w) \/ Cache(w) \/ Zadd(w) \/ SetPreview(w)
    BY <1>2 DEF Admit, Cache, Zadd, SetPreview
  <1>3. CASE Trim(w)
    BY <1>3 DEF Trim
  <1>4. CASE Find(w) \/ Update(w) \/ ReadCopy(w) \/ StoreCopy(w)
    BY <1>4 DEF Find, Update, ReadCopy, StoreCopy, AfterCopy
  <1>5. CASE ReadTimeline(w) \/ Fetch(w) \/ Query(w) \/ Refill(w)
             \/ ReadPreview(w) \/ SelectLast(w) \/ StorePreview(w)
    BY <1>5 DEF ReadTimeline, Fetch, Query, Refill, ReadPreview, SelectLast, StorePreview
  <1> QED
    BY <1>1, <1>2, <1>3, <1>4, <1>5 DEF Step

LEMMA UnreadAgreeStep ==
  ASSUME Inv, ~LossyRedis, ~Faults, ~PartialMembers, NEW w \in Workers, Workers = {w},
         pc[w] # "idle" => req[w].mentions \subseteq Registered,
         UnreadAgree(w), [Next]_vars
  PROVE  UnreadAgree(w)'
  <1>0. /\ Stored \subseteq Stored' /\ Stored \subseteq Ids
        /\ \A u \in Users : unread[u] \in Nat
    BY StoredStays DEF Stored, Inv, TypeOK
  <1>1. CASE Insert(w)
    <2>1. PICK i \in Ids : Appends(w, i)
      BY <1>1, InsertAppends
    <2>2. /\ i \notin Stored /\ Stored' = Stored \cup {i} /\ unread' = unread
          /\ \A u \in Users : ~Due(w, u)
          /\ \A u \in Users : Due(w, u)' <=> req[w].op = "send" /\ u \in Members \ {req[w].user}
      BY <2>1 DEF Appends, redis, Due, Awaits, PostedLabels
    <2>3. \A u \in Users : unseen'[u] =
            IF req[w].op = "send" /\ u \in Members \ {req[w].user}
            THEN unseen[u] \cup {i} ELSE unseen[u]
      BY <2>1 DEF Appends
    <2>4. ASSUME NEW u \in Users
          PROVE  Cardinality(unseen[u] \cup {i}) = unread[u] + 1
      <3>1. IsFiniteSet(unseen[u])
        BY <1>0, FiniteIds DEF UnreadAgree
      <3>2. Cardinality(unseen[u] \cup {i}) = Cardinality(unseen[u]) + 1
        BY <2>2, <3>1, FS_AddElement DEF UnreadAgree
      <3> QED
        BY <2>2, <3>2 DEF UnreadAgree
    <2> QED
      BY <2>2, <2>3, <2>4 DEF UnreadAgree
  <1>2. CASE ListMembers(w)
    <2>1. /\ UNCHANGED <<unread, unseen, req>> /\ pc[w] = "members" /\ pc'[w] = "incr"
          /\ todo'[w] = Members \ {req[w].user}
      BY <1>2 DEF ListMembers, redis, At, Move, Goto, Set, Inv, TypeOK
    <2>2. \A u \in Users : Due(w, u)' <=> Due(w, u)
      BY <2>1 DEF Due, Awaits, PostedLabels
    <2> QED
      BY <1>0, <2>1, <2>2 DEF UnreadAgree
  <1>3. CASE Increment(w)
    <2>1. /\ UNCHANGED <<unseen, req>> /\ pc[w] = "incr" /\ req[w].op = "send"
          /\ todo[w] \subseteq Members \ {req[w].user}
      BY <1>3, Serving DEF Increment, At, OpsAt, Inv, LocalsTrue, Owned
    <2>2. CASE todo[w] = {} /\ unread' = unread /\ pc'[w] = "idle"
      <3>1. \A u \in Users : ~Due(w, u) /\ ~Due(w, u)'
        BY <2>1, <2>2 DEF Due, Awaits, PostedLabels
      <3> QED
        BY <1>0, <2>1, <2>2, <3>1 DEF UnreadAgree
    <2>3. ASSUME NEW x \in todo[w], unread' = [unread EXCEPT ![x] = unread[x] + 1],
                 todo'[w] = todo[w] \ {x}, pc'[w] = "incr"
          PROVE  UnreadAgree(w)'
      <3>1. x \in Users /\ Due(w, x) /\ ~Due(w, x)'
        BY <2>1, <2>3, MembersAssumption DEF Due, Awaits, PostedLabels
      <3>2. \A u \in Users : u # x => (Due(w, u)' <=> Due(w, u)) /\ unread'[u] = unread[u]
        BY <2>1, <2>3 DEF Due, Awaits, PostedLabels, Inv, TypeOK
      <3>3. unread'[x] = unread[x] + 1
        BY <2>3, <3>1 DEF Inv, TypeOK
      <3> QED
        BY <1>0, <2>1, <3>1, <3>2, <3>3 DEF UnreadAgree
    <2> QED
      BY <1>3, <2>2, <2>3 DEF Increment, Written, Set, Done, Move, Goto, Inv, TypeOK
  <1>4. CASE Reset(w)
    <2>1. /\ pc[w] = "reset" /\ pc'[w] = "idle" /\ req[w].user \in Users
          /\ unread' = [unread EXCEPT ![req[w].user] = 0]
          /\ unseen' = [unseen EXCEPT ![req[w].user] = {}]
      BY <1>4, Serving DEF Reset, At, Done, Goto, Written, Inv, TypeOK
    <2>2. \A u \in Users : ~Due(w, u) /\ ~Due(w, u)'
      BY <2>1 DEF Due, Awaits, PostedLabels
    <2>3. \A u \in Users :
            \/ unread'[u] = unread[u] /\ unseen'[u] = unseen[u]
            \/ unread'[u] = 0 /\ unseen'[u] = {}
      BY <2>1 DEF Inv, TypeOK
    <2>4. Cardinality({}) = 0
      BY FS_EmptySet
    <2> QED
      BY <1>0, <2>2, <2>3, <2>4 DEF UnreadAgree
  <1>5. CASE Step(w) /\ ~Insert(w) /\ ~ListMembers(w) /\ ~Increment(w) /\ ~Reset(w)
    <2>1. pc[w] # "idle"
      BY <1>5, StepWorks
    <2> QED
      BY <1>0, <1>5, <2>1, DueElsewhere DEF UnreadAgree
  <1>6. CASE Receive(w)
    <2>1. /\ UNCHANGED <<unread, unseen>> /\ pc[w] = "idle"
          /\ pc'[w] \in {"admit", "find", "readPreview"}
      BY <1>6, RequestsAssumption
      DEF Receive, First, RequestSpace, Goto, At, redis, Inv, TypeOK
    <2> QED
      BY <1>0, <2>1 DEF UnreadAgree, Due, Awaits, PostedLabels
  <1>7. CASE Expiry \/ Tick \/ UNCHANGED vars
    BY <1>0, <1>7, Quieter DEF UnreadAgree, Due, Awaits
  <1> QED
    BY <1>1, <1>2, <1>3, <1>4, <1>5, <1>6, <1>7, AloneNext DEF Turns

-----------------------------------------------------------------------------
(* No text is newer than the one shown, but for the text being posted.     *)
Previewing(w) ==
  pc[w] \in {"mention", "cache", "zadd", "trim", "setPreview"} /\ req[w].op = "send"
PreviewAgree(w) ==
  /\ preview # None => \A i \in Stored : messages[i].kind = "TEXT" =>
       messages[i].time <= messages[preview].time \/ (Previewing(w) /\ i = mid[w])
  /\ pc[w] = "storePreview" => \A i \in Stored : messages[i].time <= messages[mid[w]].time

LEMMA PreviewElsewhere ==
  ASSUME Inv, NEW w \in Workers, Step(w), ~Insert(w), ~SetPreview(w), ~SelectLast(w),
         ~StorePreview(w), req[w].mentions \subseteq Registered
  PROVE  /\ UNCHANGED preview
         /\ pc'[w] # "storePreview"
         /\ Previewing(w) => Previewing(w)' /\ mid'[w] = mid[w]
  <1> USE DEF Inv, TypeOK, Done, Move, Goto, Set, local, redis, At, Previewing
  <1>1. CASE Mention(w)
    <2>1. todo[w] \subseteq Wanted(w) /\ Wanted(w) \subseteq Registered
      BY <1>1 DEF Mention, LocalsTrue, Owned, Wanted
    <2> QED
      BY <1>1, <2>1 DEF Mention
  <1>2. CASE Admit(w) \/ Cache(w) \/ Zadd(w) \/ Trim(w) \/ ListMembers(w) \/ Increment(w)
    BY <1>2 DEF Admit, Cache, Zadd, Trim, ListMembers, Increment
  <1>3. CASE Find(w) \/ Update(w) \/ ReadCopy(w) \/ StoreCopy(w)
    BY <1>3 DEF Find, Update, ReadCopy, StoreCopy, AfterCopy
  <1>4. CASE ReadTimeline(w) \/ Fetch(w) \/ Query(w) \/ Refill(w) \/ Reset(w)
             \/ ReadPreview(w)
    BY <1>4 DEF ReadTimeline, Fetch, Query, Refill, Reset, ReadPreview
  <1> QED
    BY <1>1, <1>2, <1>3, <1>4 DEF Step

LEMMA PreviewStep ==
  ASSUME Inv, ~LossyRedis, ~Faults, NEW w \in Workers, Workers = {w},
         pc[w] # "idle" => req[w].mentions \subseteq Registered,
         Clock(w), PreviewAgree(w), [Next]_vars
  PROVE  PreviewAgree(w)'
  <1>0. /\ preview # None => preview \in Stored
        /\ \A i \in Stored : messages[i].time \in Nat
    BY RowNumbers DEF Inv, RedisTrue
  <1>1. CASE Insert(w)
    <2>1. PICK i \in Ids : Appends(w, i)
      BY <1>1, InsertAppends
    <2>2. /\ Stored' = Stored \cup {i} /\ mid'[w] = i /\ preview' = preview
          /\ \A j \in Stored : messages'[j] = messages[j]
          /\ pc[w] = "insert" /\ pc'[w] \in {"mention", "cache"}
          /\ req'[w] = req[w]
          /\ req[w].op = "send" \/ messages'[i].kind = "RECALL"
      BY <2>1 DEF Appends, redis, NewRow
    <2>3. req[w].op = "send" => Previewing(w)'
      BY <2>2 DEF Previewing
    <2> QED
      BY <1>0, <2>2, <2>3 DEF PreviewAgree, Previewing
  <1>2. CASE SetPreview(w)
    <2>1. /\ UNCHANGED <<messages, mid>> /\ pc[w] = "setPreview" /\ pc'[w] = "members"
          /\ preview' = mid[w]
      BY <1>2 DEF SetPreview, Written, At, Move, Goto, db, local, Inv, TypeOK
    <2>2. \A j \in Stored : messages[j].time <= messages[mid[w]].time
      BY <2>1 DEF Clock, PostedLabels
    <2> QED
      BY <2>1, <2>2 DEF PreviewAgree, Stored
  <1>3. CASE SelectLast(w)
    <2>1. /\ UNCHANGED <<messages, preview>> /\ pc[w] = "selectLast"
          /\ pc'[w] = "storePreview" => mid'[w] \in Newest(Stored)
      BY <1>3 DEF SelectLast, Done, At, Move, Goto, Set, db, redis, Inv, TypeOK
    <2> QED
      BY <2>1 DEF PreviewAgree, Previewing, Newest, Stored
  <1>4. CASE StorePreview(w)
    <2>1. /\ UNCHANGED messages /\ pc[w] = "storePreview" /\ pc'[w] = "idle"
          /\ preview' = mid[w]
      BY <1>4 DEF StorePreview, Written, At, Done, Goto, db, Inv, TypeOK
    <2> QED
      BY <2>1 DEF PreviewAgree, Stored
  <1>5. CASE Turns(w) /\ ~Insert(w) /\ ~SetPreview(w) /\ ~SelectLast(w) /\ ~StorePreview(w)
    <2>1. /\ Stored' = Stored
          /\ \A i \in Stored : /\ messages'[i].time = messages[i].time
                               /\ messages'[i].kind = messages[i].kind
      BY <1>5, TimesStay
    <2>2. CASE Receive(w)
      <3>1. preview' = preview /\ pc'[w] # "storePreview" /\ pc[w] = "idle"
        BY <2>2, RequestsAssumption
        DEF Receive, First, RequestSpace, Goto, At, redis, Inv, TypeOK
      <3> QED
        BY <1>0, <2>1, <3>1 DEF PreviewAgree, Previewing
    <2>3. CASE Step(w)
      <3>1. req[w].mentions \subseteq Registered
        BY <2>3, StepWorks
      <3>2. /\ preview' = preview /\ pc'[w] # "storePreview"
            /\ Previewing(w) => Previewing(w)' /\ mid'[w] = mid[w]
        BY <1>5, <2>3, <3>1, PreviewElsewhere
      <3> QED
        BY <1>0, <2>1, <3>2 DEF PreviewAgree
    <2> QED
      BY <1>5, <2>2, <2>3 DEF Turns
  <1>6. CASE Expiry \/ Tick \/ UNCHANGED vars
    <2>1. UNCHANGED <<messages, pc, req, mid>>
      BY <1>6, Quieter
    <2>2. preview' = preview \/ preview' = None
      BY <1>6 DEF Expiry, Tick, vars, redis
    <2> QED
      BY <2>1, <2>2 DEF PreviewAgree, Previewing, Stored
  <1> QED
    BY <1>1, <1>2, <1>3, <1>4, <1>5, <1>6, AloneNext

-----------------------------------------------------------------------------
(* Served alone, UpdateMessageStatus and RecallMessage leave no old status *)
(* at message:<id>: neither the read and store of the cached message nor   *)
(* the refill of GetMessages bring one back.                               *)
THEOREM AloneCopyFresh ==
  ASSUME ~LossyRedis, ~Faults, NEW me, Workers = {me}
  PROVE  Spec => []CopyFresh
  <1>1. Init => CopiesAgree(me)
    BY DEF Init, CopiesAgree, Behind
  <1>2. Inv /\ CopiesAgree(me) /\ [Next]_vars => CopiesAgree(me)'
    BY CopiesAgreeStep
  <1>3. CopiesAgree(me) => CopyFresh
    BY DEF CopiesAgree, CopyFresh, Behind, Rest, At
  <1> QED
    BY <1>1, <1>2, <1>3, Invariance, PTL DEF Spec

(* Whom the request at hand mentions, and the clock it runs by.            *)
Mentionable(w) == pc[w] # "idle" => req[w].mentions \subseteq Registered

LEMMA OneClock ==
  ASSUME ~Faults, NEW me, Workers = {me}, \A q \in Requests : q.mentions \subseteq Registered
  PROVE  Spec => [](Inv /\ Clock(me) /\ Mentionable(me))
  <1>1. Init => Clock(me)
    BY DEF Init, Clock, Dated, PostedLabels, Stored
  <1>2. Inv /\ Clock(me) /\ [Next]_vars => Clock(me)'
    BY ClockStep
  <1>3. Inv => Mentionable(me)
    BY DEF Inv, LocalsTrue, Granted, Mentionable
  <1> QED
    BY <1>1, <1>2, <1>3, Invariance, PTL DEF Spec

(* Served alone, and mentioning users there are, SendMessage and           *)
(* RecallMessage put every message into the timeline, and ZREMRANGEBYRANK  *)
(* takes what Redis sorts first: the oldest, and of one second the message *)
(* whose identifier is the lesser string, however strings are ordered.     *)
THEOREM AloneTimelineGapless ==
  ASSUME ~LossyRedis, ~Faults, NEW me, Workers = {me},
         \A q \in Requests : q.mentions \subseteq Registered
  PROVE  Spec => []TimelineGapless
  <1>1. Init => TimelineAgree(me)
    BY FS_EmptySet, BoundsAssumption DEF Init, TimelineAgree
  <1>2. Inv /\ Clock(me) /\ Mentionable(me) /\ TimelineAgree(me) /\ [Next]_vars =>
          TimelineAgree(me)'
    BY TimelineStep DEF Mentionable
  <1>3. TimelineAgree(me) => TimelineGapless
    BY DEF TimelineAgree, TimelineGapless, Placing, Rest, At
  <1> QED
    BY <1>1, <1>2, <1>3, OneClock, PTL DEF Spec

(* Served alone, by members keys that are whole, and mentioning users there*)
(* are: updateUnreadCount and resetUnreadCount keep unread:<u> the number  *)
(* of texts stored since the member last read.                             *)
THEOREM AloneUnreadExact ==
  ASSUME ~LossyRedis, ~Faults, ~PartialMembers, NEW me, Workers = {me},
         \A q \in Requests : q.mentions \subseteq Registered
  PROVE  Spec => []UnreadExact
  <1>1. Init => UnreadAgree(me)
    BY FS_EmptySet DEF Init, UnreadAgree, Due, Awaits, PostedLabels
  <1>2. Inv /\ Mentionable(me) /\ UnreadAgree(me) /\ [Next]_vars => UnreadAgree(me)'
    BY UnreadAgreeStep DEF Mentionable
  <1>3. UnreadAgree(me) => UnreadExact
    BY DEF UnreadAgree, UnreadExact, Due, Awaits, PostedLabels, Rest, At
  <1> QED
    BY <1>1, <1>2, <1>3, OneClock, PTL DEF Spec

(* Served alone, and mentioning users there are, no text is newer than the *)
(* one chat:last_message shows, whoever wrote the key, SendMessage or a    *)
(* chat list.                                                              *)
THEOREM AlonePreviewFresh ==
  ASSUME ~LossyRedis, ~Faults, NEW me, Workers = {me},
         \A q \in Requests : q.mentions \subseteq Registered
  PROVE  Spec => []PreviewFresh
  <1>1. Init => PreviewAgree(me)
    BY DEF Init, PreviewAgree
  <1>2. Inv /\ Clock(me) /\ Mentionable(me) /\ PreviewAgree(me) /\ [Next]_vars =>
          PreviewAgree(me)'
    BY PreviewStep DEF Mentionable
  <1>3. PreviewAgree(me) => PreviewFresh
    BY DEF PreviewAgree, PreviewFresh, Previewing, Rest, At
  <1> QED
    BY <1>1, <1>2, <1>3, OneClock, PTL DEF Spec
=============================================================================
