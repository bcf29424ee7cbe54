------------------------- MODULE PrivateChatsProofs -------------------------
(***************************************************************************)
(* Proofs about PrivateChats, for any number of connections, users, chats  *)
(* and requests, with or without lost Redis writes, SQL errors and crashes.*)
(***************************************************************************)
EXTENDS PrivateRefusals, TLAPS

(* uk_users compares ordered pairs, so rows are ordered and distinct. *)
RowsOrdered ==
  \A c \in ChatIds : privateChats[c] # None => privateChats[c][1] <= privateChats[c][2]
RowsDistinct ==
  \A c, d \in ChatIds :
    privateChats[c] # None /\ privateChats[c] = privateChats[d] => c = d

Inv == TypeOK /\ RowsOrdered /\ RowsDistinct /\ CachesTrue /\ LocalsTrue

(* A row, once committed, is never changed or deleted. *)
RowsStay ==
  \A c \in ChatIds : privateChats[c] # None => privateChats'[c] = privateChats[c]

LEMMA OrderedPair ==
  ASSUME NEW a \in Users, NEW b \in Users
  PROVE  /\ Ordered(a, b) \in Pairs
         /\ Ordered(a, b) # None
         /\ Ordered(a, b)[1] <= Ordered(a, b)[2]
         /\ Participants(Ordered(a, b)) = {a, b}
  BY UsersAssumption, NoneAssumption DEF Ordered, Pairs, Participants

(* All actions but InsertChat leave the table alone. *)
LEMMA OthersKeepTable ==
  ASSUME [Next]_vars, \A w \in Workers : ~InsertChat(w)
  PROVE  privateChats' = privateChats
  BY ZenonT(60) DEF Next, vars, store, Arrival, Step, CreatePrivateChat, GetPrivateChat,
     GetUserChats, IsValidChatMember, GetChatMembers, Receive, CheckReceiver,
     LookupPair, FindChat, MapPair, SelectChat, StoreChat, StorePair, AddFirst,
     AddSecond, AddMember, ExpireMembers, DropLists, DropList, ReadChat, Partner,
     ReadList, SelectChats, StoreList, ReadMembers, CheckRow, AddCaller,
     ListMembers, SelectMembers, SqlError, Crash, Expiry, ExpirePair,
     ExpireChat, ExpireMembersKey, ExpireList

(* InsertChat adds one row, for an ordered pair that had none. *)
LEMMA InsertAddsRow ==
  ASSUME Inv, NEW w \in Workers, InsertChat(w)
  PROVE  \/ privateChats' = privateChats
         \/ \E id \in ChatIds :
              /\ privateChats[id] = None
              /\ Wanted(w) \in Pairs
              /\ Wanted(w)[1] <= Wanted(w)[2]
              /\ \A c \in ChatIds : privateChats[c] # Wanted(w)
              /\ privateChats' = [privateChats EXCEPT ![id] = Wanted(w)]
  <1>1. /\ req[w].user \in Users
        /\ req[w].other \in Users
    BY RequestsAssumption DEF Inv, LocalsTrue, InsertChat, At, RequestSpace
  <1>2. Wanted(w) \in Pairs /\ Wanted(w)[1] <= Wanted(w)[2]
    BY <1>1, OrderedPair DEF Wanted
  <1> QED
    BY <1>2 DEF InsertChat, Insertable

LEMMA RowsStep ==
  ASSUME Inv, [Next]_vars
  PROVE  RowsOrdered' /\ RowsDistinct' /\ RowsStay
  <1>1. CASE privateChats' = privateChats
    BY <1>1 DEF Inv, RowsOrdered, RowsDistinct, RowsStay
  <1>2. ASSUME NEW w \in Workers, InsertChat(w)
        PROVE  RowsOrdered' /\ RowsDistinct' /\ RowsStay
    BY <1>1, <1>2, InsertAddsRow, NoneAssumption, SMTT(30)
       DEF Inv, TypeOK, RowsOrdered, RowsDistinct, RowsStay, Pairs
  <1> QED
    BY <1>1, <1>2, OthersKeepTable

(* What the caller of a step may assume of the request it serves. *)
LEMMA Serving ==
  ASSUME Inv, NEW w \in Workers, pc[w] # "idle"
  PROVE  /\ req[w] \in RequestSpace
         /\ req[w].user \in Users
         /\ req[w].chat \in ChatIds
         /\ Wanted(w) \in Pairs
         /\ Wanted(w) # None
         /\ Participants(Wanted(w)) = {req[w].user, req[w].other}
  BY RequestsAssumption, OrderedPair DEF Inv, LocalsTrue, RequestSpace, Wanted

(* ... and of the row it has loaded. *)
LEMMA Loaded ==
  ASSUME Inv, NEW w \in Workers, pc[w] \in RowLabels
  PROVE  /\ chat[w] \in ChatIds
         /\ row[w] \in Pairs
         /\ row[w][1] \in Users
         /\ row[w][2] \in Users
         /\ Participants(row[w]) = {row[w][1], row[w][2]}
         /\ privateChats[chat[w]] = row[w]
  <1>1. chat[w] \in ChatIds /\ row[w] \in Pairs /\ privateChats[chat[w]] = row[w]
    BY DEF Inv, LocalsTrue
  <1>2. row[w][1] \in Users /\ row[w][2] \in Users
    BY <1>1 DEF Pairs
  <1>3. row[w] # None
    BY <1>1, NoneAssumption DEF Pairs
  <1> QED
    BY <1>1, <1>2, <1>3 DEF Participants

LEMMA ReplyTypes ==
  /\ Failed \in Replies
  /\ \A C \in SUBSET ChatIds, W \in SUBSET Users : Answered(C, W) \in Replies
  BY DEF Failed, Answered, Replies

(* A handler that returns leaves the control state well typed. *)
LEMMA DoneTypes ==
  ASSUME TypeOK, NEW w \in Workers, NEW r \in Replies, Done(w, r)
  PROVE  /\ pc' \in [Workers -> Labels]
         /\ chat' \in [Workers -> ChatIds \cup {None}]
         /\ row' \in [Workers -> Pairs \cup {None}]
         /\ found' \in [Workers -> SUBSET ChatIds]
         /\ reply' \in [Workers -> Replies \cup {None}]
  BY DEF TypeOK, Done, Labels

LEMMA TypeStep ==
  ASSUME Inv, [Next]_vars
  PROVE  TypeOK'
  <1> USE DEF TypeOK
  <1>1. CASE UNCHANGED vars
    BY <1>1 DEF Inv, vars, store, local
  <1>2. ASSUME NEW w \in Workers, Arrival(w)
        PROVE  TypeOK'
    BY <1>2 DEF Inv, Arrival, CreatePrivateChat, GetPrivateChat, GetUserChats,
       IsValidChatMember, GetChatMembers, Receive, At, Goto, store, local, Labels
  <1>3. ASSUME NEW w \in Workers, Step(w)
        PROVE  TypeOK'
    <2>0. pc[w] # "idle"
      <3>1. CASE CheckReceiver(w) \/ LookupPair(w) \/ FindChat(w) \/ InsertChat(w)
                 \/ MapPair(w) \/ SelectChat(w) \/ StoreChat(w) \/ StorePair(w)
                 \/ AddFirst(w) \/ AddSecond(w)
        BY <3>1 DEF At, CheckReceiver, LookupPair, FindChat, InsertChat, MapPair,
           SelectChat, StoreChat, StorePair, AddFirst, AddSecond, AddMember
      <3>2. CASE ExpireMembers(w) \/ DropLists(w) \/ ReadChat(w) \/ Partner(w)
                 \/ ReadList(w) \/ SelectChats(w) \/ StoreList(w) \/ ReadMembers(w)
                 \/ CheckRow(w) \/ AddCaller(w) \/ ListMembers(w) \/ SelectMembers(w)
        BY <3>2 DEF At, ExpireMembers, DropLists, ReadChat, Partner, ReadList,
           SelectChats, StoreList, ReadMembers, CheckRow, AddCaller, AddMember,
           ListMembers, SelectMembers
      <3> QED
        BY <1>3, <3>1, <3>2 DEF Step
    <2> USE ReplyTypes, DoneTypes DEF Inv, At, Goto, store, local, Labels, Seen, Written
    <2>1. CASE CheckReceiver(w)  BY <2>1 DEF CheckReceiver
    <2>2. CASE LookupPair(w)  BY <2>0, <2>2, Serving DEF LookupPair
    <2>3. CASE FindChat(w)  BY <2>3 DEF FindChat
    <2>4. CASE InsertChat(w)  BY <2>0, <2>4, Serving DEF InsertChat
    <2>5. CASE MapPair(w)  BY <2>0, <2>5, Serving DEF MapPair, LocalsTrue
    <2>6. CASE SelectChat(w)  BY <2>0, <2>6, Serving DEF SelectChat, LocalsTrue
    <2>7. CASE StoreChat(w)  BY <2>7, Loaded DEF StoreChat, RowLabels
    <2>8. CASE StorePair(w)  BY <2>8, Loaded DEF StorePair, RowLabels
    <2>9. CASE AddFirst(w)
      BY <2>9, Loaded DEF AddFirst, AddMember, RowLabels
    <2>10. CASE AddSecond(w)
      BY <2>10, Loaded DEF AddSecond, AddMember, RowLabels
    <2>11. CASE ExpireMembers(w)
      BY <2>11, Loaded DEF ExpireMembers, RowLabels
    <2>12. CASE DropLists(w)
      BY <2>12, Loaded DEF DropLists, DropList, RowLabels
    <2>13. CASE ReadChat(w)  BY <2>0, <2>13, Serving DEF ReadChat
    <2>14. CASE Partner(w)
      BY <2>14, Loaded DEF Partner, RowLabels
    <2>15. CASE ReadList(w)  BY <2>0, <2>15, Serving DEF ReadList
    <2>16. CASE SelectChats(w)  BY <2>16 DEF SelectChats, ChatsOf
    <2>17. CASE StoreList(w)  BY <2>0, <2>17, Serving DEF StoreList
    <2>18. CASE ReadMembers(w)  BY <2>0, <2>18, Serving DEF ReadMembers
    <2>19. CASE CheckRow(w)  BY <2>19 DEF CheckRow
    <2>20. CASE AddCaller(w)  BY <2>0, <2>20, Serving DEF AddCaller
    <2>21. CASE ListMembers(w)  BY <2>0, <2>21, Serving DEF ListMembers
    <2>22. CASE SelectMembers(w)  BY <2>0, <2>22, Serving DEF SelectMembers
    <2> QED
      BY <1>3, <2>1, <2>2, <2>3, <2>4, <2>5, <2>6, <2>7, <2>8, <2>9, <2>10,
         <2>11, <2>12, <2>13, <2>14, <2>15, <2>16, <2>17, <2>18, <2>19, <2>20,
         <2>21, <2>22 DEF Step
  <1>4. ASSUME NEW w \in Workers, SqlError(w)
        PROVE  TypeOK'
    BY <1>4, ReplyTypes, DoneTypes DEF Inv, SqlError, store
  <1>5. CASE Crash
    BY <1>5 DEF Inv, Crash, store, Labels
  <1>6. CASE Expiry
    BY <1>6 DEF Inv, Expiry, ExpirePair, ExpireChat, ExpireMembersKey, ExpireList,
       local
  <1> QED
    BY <1>1, <1>2, <1>3, <1>4, <1>5, <1>6 DEF Next

(* The keys a step writes are written with what the table holds; the rest  *)
(* stays true because rows stay.                                           *)
LEMMA CachesStep ==
  ASSUME Inv, [Next]_vars
  PROVE  CachesTrue'
  <1>0. RowsStay
    BY RowsStep
  <1> DEFINE Kept == /\ UNCHANGED <<pairKey, chatKey, membersKey, userChats>>
  <1>1. CASE Kept
    <2> USE DEF Inv, TypeOK, CachesTrue, RowsStay
    <2>1. \A c \in ChatIds : Participants(privateChats[c]) \subseteq Participants(privateChats'[c])
      BY <1>0 DEF Participants
    <2>2. \A p \in Pairs : pairKey[p] # None => privateChats'[pairKey[p]] = p
      BY <1>0, NoneAssumption DEF Pairs
    <2>3. \A c \in ChatIds : chatKey[c] # None => chatKey[c] = privateChats'[c]
      BY <1>0
    <2>4. \A u \in Users : ChatsOf(u) \subseteq ChatsOf(u)'
      BY <2>1 DEF ChatsOf
    <2> QED
      BY <1>1, <2>1, <2>2, <2>3, <2>4
  <1>2. ASSUME NEW w \in Workers, MapPair(w) \/ StorePair(w)
        PROVE  CachesTrue'
    <2> DEFINE p == IF MapPair(w) THEN Wanted(w) ELSE row[w]
    <2>1. p \in Pairs /\ chat[w] \in ChatIds /\ privateChats[chat[w]] = p
      BY <1>2, Serving, Loaded DEF MapPair, StorePair, At, Inv, LocalsTrue, RowLabels
    <2>2. /\ \/ pairKey' = [pairKey EXCEPT ![p] = chat[w]]
             \/ pairKey' = [pairKey EXCEPT ![p] = pairKey[p]]
          /\ UNCHANGED <<privateChats, chatKey, membersKey, userChats>>
      BY <1>2 DEF MapPair, StorePair, Written
    <2> HIDE DEF p
    <2>3. \A q \in Pairs : pairKey'[q] # None => privateChats[pairKey'[q]] = q
      BY <2>1, <2>2 DEF Inv, TypeOK, CachesTrue
    <2> QED
      BY <2>2, <2>3 DEF Inv, CachesTrue, ChatsOf
  <1>3. ASSUME NEW w \in Workers, StoreChat(w)
        PROVE  CachesTrue'
    <2>1. /\ \/ chatKey' = [chatKey EXCEPT ![chat[w]] = row[w]]
             \/ chatKey' = [chatKey EXCEPT ![chat[w]] = chatKey[chat[w]]]
          /\ UNCHANGED <<privateChats, pairKey, membersKey, userChats>>
      BY <1>3 DEF StoreChat, Written
    <2>2. \A c \in ChatIds : chatKey'[c] # None => chatKey'[c] = privateChats[c]
      BY <1>3, <2>1, Loaded DEF Inv, TypeOK, CachesTrue, StoreChat, At, RowLabels
    <2> QED
      BY <2>1, <2>2 DEF Inv, CachesTrue, ChatsOf
  <1>4. ASSUME NEW w \in Workers, AddFirst(w) \/ AddSecond(w)
        PROVE  CachesTrue'
    BY <1>4, Loaded
       DEF Inv, TypeOK, AddFirst, AddSecond, AddMember, At, Written, RowLabels,
           CachesTrue, ChatsOf
  <1>5. ASSUME NEW w \in Workers, AddCaller(w)
        PROVE  CachesTrue'
    BY <1>5, Serving
       DEF Inv, TypeOK, AddCaller, At, Written, LocalsTrue, CachesTrue, ChatsOf
  <1>6. ASSUME NEW w \in Workers, StoreList(w)
        PROVE  CachesTrue'
    BY <1>6, Serving
       DEF Inv, TypeOK, StoreList, At, Written, LocalsTrue, CachesTrue, ChatsOf
  <1>7. ASSUME NEW w \in Workers, DropLists(w)
        PROVE  CachesTrue'
    BY <1>7, Loaded
       DEF Inv, TypeOK, DropLists, DropList, At, Written, RowLabels, CachesTrue,
           ChatsOf
  <1>8. CASE Expiry
    BY <1>8 DEF Inv, TypeOK, Expiry, ExpirePair, ExpireChat, ExpireMembersKey,
       ExpireList, CachesTrue, ChatsOf
  <1>9. ASSUME ~Expiry,
               \A w \in Workers : ~MapPair(w) /\ ~StorePair(w) /\ ~StoreChat(w)
                 /\ ~AddFirst(w) /\ ~AddSecond(w) /\ ~AddCaller(w)
                 /\ ~StoreList(w) /\ ~DropLists(w)
        PROVE  Kept
    BY <1>9, ZenonT(60) DEF Next, vars, store, Arrival, Step, CreatePrivateChat,
       GetPrivateChat, GetUserChats, IsValidChatMember, GetChatMembers, Receive,
       CheckReceiver, LookupPair, FindChat, InsertChat, SelectChat,
       ExpireMembers, ReadChat, Partner, ReadList, SelectChats, ReadMembers,
       CheckRow, ListMembers, SelectMembers, SqlError, Crash
  <1> QED
    BY <1>1, <1>2, <1>3, <1>4, <1>5, <1>6, <1>7, <1>8, <1>9

(* A worker's own steps carry forward what it has read; the others' steps  *)
(* leave its locals alone and keep the rows.                               *)
LEMMA LocalsStep ==
  ASSUME Inv, [Next]_vars
  PROVE  LocalsTrue'
  <1>0. RowsStay
    BY RowsStep
  <1> DEFINE Holds(w) ==
        /\ pc[w] # "idle" =>
             /\ req[w] \in Requests
             /\ req[w].op \in OpsAt(pc[w])
             /\ reply[w] = None
        /\ pc[w] \in {"mapPair", "load"} =>
             /\ chat[w] \in ChatIds
             /\ privateChats[chat[w]] = Wanted(w)
        /\ pc[w] = "select" => chat[w] = req[w].chat
        /\ pc[w] \in RowLabels =>
             /\ chat[w] \in ChatIds
             /\ row[w] \in Pairs
             /\ privateChats[chat[w]] = row[w]
             /\ req[w].op = "create" => row[w] = Wanted(w)
             /\ req[w].op # "create" => chat[w] = req[w].chat
        /\ pc[w] = "storeList" => found[w] \subseteq ChatsOf(req[w].user)
        /\ pc[w] = "addCaller" =>
             req[w].user \in Participants(privateChats[req[w].chat])
  <1>1. LocalsTrue <=> \A w \in Workers : Holds(w)
    BY DEF LocalsTrue
  <1>2. LocalsTrue' <=> \A w \in Workers : Holds(w)'
    BY DEF LocalsTrue
  <1>3. ASSUME NEW v \in Workers, UNCHANGED <<pc[v], req[v], chat[v], row[v], found[v], reply[v]>>
        PROVE  Holds(v)'
    <2>1. Holds(v)
      BY <1>1 DEF Inv
    <2>2. \A c \in ChatIds : Participants(privateChats[c]) \subseteq Participants(privateChats'[c])
      BY <1>0 DEF RowsStay, Participants
    <2>3. \A u \in Users : ChatsOf(u) \subseteq ChatsOf(u)'
      BY <2>2 DEF ChatsOf
    <2>4. pc[v] # "idle" => req[v].user \in Users /\ req[v].chat \in ChatIds /\ Wanted(v) # None
      BY Serving
    <2>5. Wanted(v)' = Wanted(v)
      BY <1>3 DEF Wanted
    <2>6. pc[v] \in {"mapPair", "load"} => privateChats'[chat[v]] = Wanted(v)
      BY <1>0, <2>1, <2>4 DEF RowsStay
    <2>7. pc[v] \in RowLabels => privateChats'[chat[v]] = row[v]
      BY <1>0, <2>1, NoneAssumption DEF RowsStay, Pairs
    <2>8. pc'[v] = "storeList" => found'[v] \subseteq ChatsOf(req[v].user)'
      BY <1>3, <2>1, <2>3, <2>4 DEF ChatsOf
    <2>9. pc[v] = "addCaller" => req[v].user \in Participants(privateChats'[req[v].chat])
      BY <2>1, <2>2, <2>4
    <2> QED
      BY <1>3, <2>1, <2>5, <2>6, <2>7, <2>8, <2>9
  <1>4. ASSUME NEW w \in Workers, Arrival(w) \/ Step(w) \/ SqlError(w)
        PROVE  \A v \in Workers \ {w} : Holds(v)'
    <2>1. ASSUME NEW v \in Workers \ {w}
          PROVE  UNCHANGED <<pc[v], req[v], chat[v], row[v], found[v], reply[v]>>
      BY <1>4, <2>1, ZenonT(60) DEF Inv, TypeOK, local, Arrival, Step, CreatePrivateChat,
         GetPrivateChat, GetUserChats, IsValidChatMember, GetChatMembers, Receive,
         Goto, Done, CheckReceiver, LookupPair, FindChat, InsertChat, MapPair,
         SelectChat, StoreChat, StorePair, AddFirst, AddSecond, AddMember,
         ExpireMembers, DropLists, ReadChat, Partner, ReadList, SelectChats,
         StoreList, ReadMembers, CheckRow, AddCaller, ListMembers, SelectMembers,
         SqlError
    <2> HIDE DEF Holds
    <2> QED
      BY <1>3, <2>1
  <1>5. ASSUME NEW w \in Workers, NEW r, Done(w, r)
        PROVE  Holds(w)'
    BY <1>5 DEF Inv, TypeOK, Done, RowLabels
  <1>6. ASSUME NEW w \in Workers, Arrival(w)
        PROVE  Holds(w)'
    BY <1>6 DEF Inv, TypeOK, Arrival, CreatePrivateChat, GetPrivateChat,
       GetUserChats, IsValidChatMember, GetChatMembers, Receive, Goto, RowLabels,
       OpsAt
  <1>7. ASSUME NEW w \in Workers, Step(w)
        PROVE  Holds(w)'
    <2>0. Holds(w)
      BY <1>1 DEF Inv
    <2> USE <2>0, Serving, <1>5 DEF Inv, TypeOK, At, Goto, OpsAt, RowLabels, local, store
    <2>1. CASE CheckReceiver(w)  BY <2>1 DEF CheckReceiver
    <2>2. CASE LookupPair(w)
      <3>1. PICK id \in {pairKey[Wanted(w)], None} :
              \/ id # None /\ chat' = [chat EXCEPT ![w] = id] /\ Goto(w, "load")
              \/ id = None /\ Goto(w, "find") /\ UNCHANGED chat
        BY <2>2 DEF LookupPair, Seen
      <3>2. id # None => id \in ChatIds /\ privateChats[id] = Wanted(w)
        BY <2>2 DEF LookupPair, CachesTrue
      <3> QED
        BY <2>2, <3>1, <3>2 DEF LookupPair, Wanted
    <2>3. CASE FindChat(w)  BY <2>3 DEF FindChat, Wanted
    <2>4. CASE InsertChat(w)  BY <2>4 DEF InsertChat, Wanted
    <2>5. CASE MapPair(w)  BY <2>5 DEF MapPair, Wanted
    <2>6. CASE SelectChat(w)  BY <2>6 DEF SelectChat, Wanted
    <2>7. CASE StoreChat(w)  BY <2>7 DEF StoreChat, Wanted
    <2>8. CASE StorePair(w)  BY <2>8 DEF StorePair, Wanted
    <2>9. CASE AddFirst(w)  BY <2>9 DEF AddFirst, AddMember, Wanted
    <2>10. CASE AddSecond(w)  BY <2>10 DEF AddSecond, AddMember, Wanted
    <2>11. CASE ExpireMembers(w)  BY <2>11 DEF ExpireMembers, Wanted
    <2>12. CASE DropLists(w)  BY <2>12 DEF DropLists, DropList, Wanted
    <2>13. CASE ReadChat(w)  BY <2>13 DEF ReadChat, Seen, CachesTrue
    <2>14. CASE Partner(w)  BY <2>14 DEF Partner
    <2>15. CASE ReadList(w)  BY <2>15 DEF ReadList
    <2>16. CASE SelectChats(w)  BY <2>16 DEF SelectChats, ChatsOf
    <2>17. CASE StoreList(w)  BY <2>17 DEF StoreList
    <2>18. CASE ReadMembers(w)  BY <2>18 DEF ReadMembers
    <2>19. CASE CheckRow(w)  BY <2>19 DEF CheckRow
    <2>20. CASE AddCaller(w)  BY <2>20 DEF AddCaller
    <2>21. CASE ListMembers(w)  BY <2>21 DEF ListMembers
    <2>22. CASE SelectMembers(w)  BY <2>22 DEF SelectMembers, Wanted
    <2> HIDE DEF Holds
    <2> QED
      BY <1>7, <2>1, <2>2, <2>3, <2>4, <2>5, <2>6, <2>7, <2>8, <2>9, <2>10,
         <2>11, <2>12, <2>13, <2>14, <2>15, <2>16, <2>17, <2>18, <2>19, <2>20,
         <2>21, <2>22 DEF Step
  <1>8. ASSUME Crash, NEW w \in Workers
        PROVE  Holds(w)'
    BY <1>8 DEF Crash, RowLabels
  <1>9. ASSUME UNCHANGED <<pc, req, local, reply>>, NEW w \in Workers
        PROVE  Holds(w)'
    BY <1>3, <1>9 DEF local
  <1>10. ASSUME NEW w \in Workers, Arrival(w) \/ Step(w) \/ SqlError(w)
         PROVE  Holds(w)'
    BY <1>5, <1>6, <1>7, <1>10 DEF SqlError
  <1> HIDE DEF Holds
  <1> QED
    BY <1>2, <1>4, <1>8, <1>9, <1>10 DEF Next, vars, Expiry

LEMMA InitInv == Init => Inv
  BY DEF Init, Inv, TypeOK, RowsOrdered, RowsDistinct, CachesTrue, LocalsTrue,
     Labels, RowLabels

(* The inductive invariant: the table's rows are ordered and distinct, the *)
(* keys agree with it, and so do the locals of every handler on its way.   *)
THEOREM Invariance == Spec => []Inv
  <1>1. Inv /\ [Next]_vars => Inv'
    BY TypeStep, RowsStep, CachesStep, LocalsStep DEF Inv
  <1> QED
    BY InitInv, <1>1, PTL DEF Spec

(* Types are correct in every reachable state. *)
THEOREM TypeCorrect == Spec => []TypeOK
  <1>1. Inv => TypeOK
    BY DEF Inv
  <1> QED
    BY Invariance, <1>1, PTL

(* Rows of equal participants are equal as ordered pairs, hence the same. *)
LEMMA OnePair == Inv => OneChatPerPair
  <1> SUFFICES ASSUME Inv, NEW c \in ChatIds, NEW d \in ChatIds,
                      privateChats[c] # None,
                      Participants(privateChats[c]) = Participants(privateChats[d])
               PROVE  c = d
    BY DEF OneChatPerPair
  <1> DEFINE p == privateChats[c]
             q == privateChats[d]
  <1>1. p \in Pairs /\ Participants(p) = {p[1], p[2]}
    BY DEF Inv, TypeOK, Participants
  <1>2. q # None
    BY <1>1 DEF Participants
  <1>3. q \in Pairs /\ Participants(q) = {q[1], q[2]}
    BY <1>2 DEF Inv, TypeOK, Participants
  <1>4. /\ p[1] \in Nat /\ p[2] \in Nat /\ p[1] <= p[2]
        /\ q[1] \in Nat /\ q[2] \in Nat /\ q[1] <= q[2]
    BY <1>1, <1>2, <1>3, UsersAssumption DEF Pairs, Inv, RowsOrdered
  <1>5. {p[1], p[2]} = {q[1], q[2]}
    BY <1>1, <1>3
  <1>6. p[1] = q[1] /\ p[2] = q[2]
    BY <1>4, <1>5
  <1>7. p = q
    BY <1>1, <1>3, <1>6 DEF Pairs
  <1> QED
    BY <1>7 DEF Inv, RowsDistinct

(* One chat per unordered pair of users, whatever interleaves. *)
THEOREM UniqueChats == Spec => []OneChatPerPair
  BY Invariance, OnePair, PTL

(* No Redis key contradicts table private_chats. *)
THEOREM CachesCorrect == Spec => []CachesTrue
  <1>1. Inv => CachesTrue
    BY DEF Inv
  <1> QED
    BY Invariance, <1>1, PTL

(* What handlers carry from one access to the next does not go stale. *)
THEOREM LocalsCorrect == Spec => []LocalsTrue
  <1>1. Inv => LocalsTrue
    BY DEF Inv
  <1> QED
    BY Invariance, <1>1, PTL

-----------------------------------------------------------------------------
Book == [c \in ChatIds |-> Participants(privateChats[c])]

LEMMA MapsInit == Init => Directory!DInit
  BY DEF Init, Directory!DInit, Participants

(* The insert of a row is the registration of its pair. *)
LEMMA InsertRegisters ==
  ASSUME Inv, NEW w \in Workers, InsertChat(w), privateChats' # privateChats
  PROVE  \E c \in ChatIds : \E a, b \in Users : Directory!Register(c, a, b)
  <1>1. PICK id \in ChatIds :
          /\ privateChats[id] = None
          /\ Wanted(w) \in Pairs
          /\ Wanted(w)[1] <= Wanted(w)[2]
          /\ \A c \in ChatIds : privateChats[c] # Wanted(w)
          /\ privateChats' = [privateChats EXCEPT ![id] = Wanted(w)]
    BY InsertAddsRow
  <1> DEFINE a == Wanted(w)[1]
             b == Wanted(w)[2]
  <1>2. a \in Users /\ b \in Users /\ Participants(Wanted(w)) = {a, b}
    BY <1>1, NoneAssumption DEF Pairs, Participants
  <1>3. Book[id] = {}
    BY <1>1 DEF Book, Participants
  <1>4. ASSUME NEW d \in ChatIds
        PROVE  Book[d] # {a, b}
    <2>1. (Inv)'
      BY TypeStep, RowsStep, CachesStep, LocalsStep, <1>1 DEF Inv, Next, Step
    <2>2. d # id => /\ privateChats'[d] = privateChats[d]
                    /\ privateChats'[id] = Wanted(w)
      BY <1>1 DEF Inv, TypeOK
    <2>3. OneChatPerPair'
      BY <2>1, OnePair, PTL
    <2>4. CASE d = id
      BY <1>3, <2>4
    <2>5. CASE d # id
      <3>1. Wanted(w) # None
        BY <1>1, NoneAssumption DEF Pairs
      <3> QED
        BY <1>2, <2>2, <2>3, <2>5, <3>1 DEF OneChatPerPair, Book
    <2> QED
      BY <2>4, <2>5
  <1>5. Book' = [Book EXCEPT ![id] = {a, b}]
    BY <1>1, <1>2 DEF Book, Inv, TypeOK
  <1> HIDE DEF a, b
  <1>6. Directory!Register(id, a, b)
    BY <1>3, <1>4, <1>5 DEF Directory!Register, Book
  <1> QED
    BY <1>2, <1>6

(* A reply is given once, and is true of the directory at that moment. *)
LEMMA DoneAnswers ==
  ASSUME Inv, NEW w \in Workers, pc[w] # "idle", NEW r, Done(w, r), req' = req,
         Directory!Truthful(req[w], r, Book)
  PROVE  Directory!Answer(w)
  <1>1. reply[w] = None /\ reply' = [reply EXCEPT ![w] = r] /\ reply \in [Workers -> Replies \cup {None}]
    BY DEF Inv, LocalsTrue, Done, TypeOK
  <1> QED
    BY <1>1 DEF Directory!Answer, Book

LEMMA RefusalIsTruthful ==
  \A q : Directory!Truthful(q, Failed, Book)
  BY DEF Directory!Truthful, Directory!Refusal, Failed

(* The replies each handler gives. *)
LEMMA StepAnswers ==
  ASSUME Inv, NEW w \in Workers, Step(w) \/ SqlError(w), reply' # reply
  PROVE  Directory!Answer(w)
  <1>0. pc[w] # "idle"
    BY DEF SqlError, SqlLabels, Step, At, CheckReceiver, LookupPair, FindChat,
       InsertChat, MapPair, SelectChat, StoreChat, StorePair, AddFirst, AddSecond,
       AddMember, ExpireMembers, DropLists, ReadChat, Partner, ReadList,
       SelectChats, StoreList, ReadMembers, CheckRow, AddCaller, ListMembers,
       SelectMembers
  <1>1. req' = req
    BY DEF SqlError, Step, CheckReceiver, LookupPair, FindChat, InsertChat, MapPair,
       SelectChat, StoreChat, StorePair, AddFirst, AddSecond, AddMember,
       ExpireMembers, DropLists, ReadChat, Partner, ReadList, SelectChats,
       StoreList, ReadMembers, CheckRow, AddCaller, ListMembers, SelectMembers
  <1> DEFINE Right(r) == Directory!Truthful(req[w], r, Book)
  <1>2. ASSUME NEW r, Done(w, r), Right(r)
        PROVE  Directory!Answer(w)
    BY <1>0, <1>1, <1>2, DoneAnswers
  <1>3. Right(Failed)
    BY RefusalIsTruthful
  <1>4. /\ req[w].op \in OpsAt(pc[w])
        /\ req[w].user \in Users
        /\ req[w].chat \in ChatIds
    BY <1>0, Serving DEF Inv, LocalsTrue
  <1>5. ASSUME CheckReceiver(w) \/ InsertChat(w) \/ SelectChat(w) \/ CheckRow(w)
                 \/ SqlError(w)
        PROVE  Done(w, Failed)
    BY <1>5 DEF CheckReceiver, InsertChat, SelectChat, CheckRow, SqlError, local
  <1>6. CASE ExpireMembers(w)
    <2>1. req[w].op = "members" /\ Done(w, Answered({chat[w]}, Participants(row[w])))
      BY <1>6 DEF ExpireMembers, local
    <2>2. chat[w] = req[w].chat /\ Book[chat[w]] = Participants(row[w])
      BY <1>6, <2>1, Loaded DEF ExpireMembers, At, RowLabels, Inv, LocalsTrue, Book
    <2> QED
      BY <1>2, <2>1, <2>2 DEF Directory!Truthful, Answered
  <1>7. CASE DropLists(w)
    <2>1. At(w, "drop4") /\ Done(w, Answered({chat[w]}, Participants(row[w])))
      BY <1>7 DEF DropLists, local
    <2>2. req[w].op = "create" /\ row[w] = Wanted(w)
      BY <1>4, <2>1 DEF At, OpsAt, RowLabels, Inv, LocalsTrue
    <2>3. /\ chat[w] \in ChatIds
          /\ Book[chat[w]] = Participants(row[w])
          /\ Participants(row[w]) = {req[w].user, req[w].other}
      BY <1>0, <2>1, <2>2, Loaded, Serving DEF At, RowLabels, Book
    <2> QED
      BY <1>2, <2>1, <2>2, <2>3 DEF Directory!Truthful, Answered
  <1>8. CASE Partner(w)
    <2>1. /\ At(w, "partner")
          /\ \/ Done(w, Failed)
             \/ /\ Done(w, Answered({chat[w]}, Participants(row[w])))
                /\ req[w].user \in Participants(row[w])
      BY <1>8 DEF Partner
    <2>2. req[w].op = "get" /\ chat[w] = req[w].chat /\ Book[chat[w]] = Participants(row[w])
      BY <1>4, <2>1, Loaded DEF At, OpsAt, RowLabels, Inv, LocalsTrue, Book
    <2> QED
      BY <1>2, <1>3, <2>1, <2>2 DEF Directory!Truthful, Answered
  <1>9. CASE ReadList(w)
    <2>1. At(w, "getList") /\ req[w].op = "list"
      BY <1>4, <1>9 DEF ReadList, At, OpsAt
    <2>2. PICK l : /\ l \in {userChats[req[w].user], None}
                   /\ l # None
                   /\ Done(w, Answered(l, {req[w].user}))
      BY <1>9 DEF ReadList, Seen, local
    <2>3. \A c \in l : req[w].user \in Book[c]
      BY <1>4, <2>2 DEF Inv, TypeOK, CachesTrue, ChatsOf, Book
    <2> QED
      BY <1>2, <2>1, <2>2, <2>3 DEF Directory!Truthful, Answered
  <1>10. CASE StoreList(w)
    <2>1. /\ At(w, "storeList")
          /\ req[w].op = "list"
          /\ Done(w, Answered(found[w], {req[w].user}))
      BY <1>4, <1>10 DEF StoreList, At, OpsAt
    <2>2. \A c \in found[w] : req[w].user \in Book[c]
      BY <2>1 DEF At, Inv, LocalsTrue, ChatsOf, Book
    <2> QED
      BY <1>2, <2>1, <2>2 DEF Directory!Truthful, Answered
  <1>11. CASE ReadMembers(w)
    <2>1. At(w, "readMembers") /\ req[w].op = "validate"
      BY <1>4, <1>11 DEF ReadMembers, At, OpsAt
    <2>2. PICK S \in {membersKey[req[w].chat], {}} :
            Done(w, IF req[w].user \in S
                    THEN Answered({req[w].chat}, {req[w].user}) ELSE Failed)
      BY <1>11 DEF ReadMembers, Seen, local
    <2>3. S \subseteq Book[req[w].chat]
      BY <1>4 DEF Inv, CachesTrue, Book
    <2>4. CASE req[w].user \in S
      BY <1>2, <2>1, <2>2, <2>3, <2>4 DEF Directory!Truthful, Answered
    <2>5. CASE req[w].user \notin S
      BY <1>2, <1>3, <2>2, <2>5
    <2> QED
      BY <2>4, <2>5
  <1>12. CASE AddCaller(w)
    <2>1. /\ At(w, "addCaller")
          /\ req[w].op = "validate"
          /\ Done(w, Answered({req[w].chat}, {req[w].user}))
      BY <1>4, <1>12 DEF AddCaller, At, OpsAt
    <2>2. req[w].user \in Book[req[w].chat]
      BY <1>4, <2>1 DEF At, Inv, LocalsTrue, Book
    <2> QED
      BY <1>2, <2>1, <2>2 DEF Directory!Truthful, Answered
  <1>13. CASE ListMembers(w)
    <2>1. At(w, "listMembers") /\ req[w].op = "members"
      BY <1>4, <1>13 DEF ListMembers, At, OpsAt
    <2>2. PICK S \in {membersKey[req[w].chat], {}} : Done(w, Answered({req[w].chat}, S))
      BY <1>13 DEF ListMembers, Seen, local
    <2>3. S \subseteq Book[req[w].chat]
      BY <1>4 DEF Inv, CachesTrue, Book
    <2> QED
      BY <1>2, <2>1, <2>2, <2>3 DEF Directory!Truthful, Answered
  <1>14. CASE SelectMembers(w)
    <2>1. At(w, "selectMembers") /\ req[w].op = "members"
      BY <1>4, <1>14 DEF SelectMembers, At, OpsAt
    <2>2. Done(w, Answered({req[w].chat}, {}))
      BY <1>14 DEF SelectMembers
    <2> QED
      BY <1>2, <2>1, <2>2 DEF Directory!Truthful, Answered
  <1>15. reply' = reply \/ CheckReceiver(w) \/ InsertChat(w) \/ SelectChat(w)
         \/ CheckRow(w) \/ SqlError(w) \/ ExpireMembers(w) \/ DropLists(w)
         \/ Partner(w) \/ ReadList(w) \/ StoreList(w) \/ ReadMembers(w)
         \/ AddCaller(w) \/ ListMembers(w) \/ SelectMembers(w)
    BY DEF Step, LookupPair, FindChat, MapPair, StoreChat, StorePair, AddFirst,
       AddSecond, AddMember, ReadChat, SelectChats, local
  <1> HIDE DEF Right
  <1> QED
    BY <1>2, <1>3, <1>5, <1>6, <1>7, <1>8, <1>9, <1>10, <1>11, <1>12, <1>13,
       <1>14, <1>15

(* Every step is a step of the directory, or none at all.                  *)
LEMMA MapsStep ==
  ASSUME Inv, [Next]_vars
  PROVE  [Directory!DNext]_(Directory!dvars)
  <1>1. CASE UNCHANGED vars
    BY <1>1 DEF vars, store, Directory!dvars
  <1>2. ASSUME NEW w \in Workers, Arrival(w)
        PROVE  Directory!Ask(w)
    BY <1>2 DEF Arrival, CreatePrivateChat, GetPrivateChat, GetUserChats,
       IsValidChatMember, GetChatMembers, Receive, store, Directory!Ask
  <1>3. ASSUME NEW w \in Workers, Step(w) \/ SqlError(w)
        PROVE  req' = req
    BY <1>3 DEF SqlError, Step, CheckReceiver, LookupPair, FindChat, InsertChat,
       MapPair, SelectChat, StoreChat, StorePair, AddFirst, AddSecond, AddMember,
       ExpireMembers, DropLists, ReadChat, Partner, ReadList, SelectChats,
       StoreList, ReadMembers, CheckRow, AddCaller, ListMembers, SelectMembers
  <1>4. ASSUME NEW w \in Workers, Step(w) \/ SqlError(w),
               privateChats' = privateChats
        PROVE  [Directory!DNext]_(Directory!dvars)
    BY <1>3, <1>4, StepAnswers DEF Directory!DNext, Directory!dvars
  <1>5. ASSUME NEW w \in Workers, InsertChat(w), privateChats' # privateChats
        PROVE  Directory!DNext
    <2>1. \E c \in ChatIds : \E a, b \in Users : Directory!Register(c, a, b)
      BY <1>5, InsertRegisters
    <2>2. req' = req /\ (reply' = reply \/ Directory!Answer(w))
      BY <1>3, <1>5, StepAnswers DEF Step
    <2> QED
      BY <2>1, <2>2 DEF Directory!DNext
  <1>6. CASE Crash \/ Expiry
    BY <1>6 DEF Crash, Expiry, store, ExpirePair, ExpireChat, ExpireMembersKey,
       ExpireList, Directory!dvars
  <1>7. (\E w \in Workers : InsertChat(w)) \/ privateChats' = privateChats
    BY OthersKeepTable
  <1> QED
    BY <1>1, <1>2, <1>4, <1>5, <1>6, <1>7 DEF Next, Directory!DNext

(* The service implements the directory of private chats. *)
THEOREM ImplementsDirectory == Spec => DirectorySpec
  <1>1. Init => Directory!DInit
    BY MapsInit
  <1>2. Inv /\ [Next]_vars => [Directory!DNext]_(Directory!dvars)
    BY MapsStep
  <1> QED
    BY <1>1, <1>2, Invariance, PTL DEF Spec, DirectorySpec, Directory!DSpec

-----------------------------------------------------------------------------
(* What RefusedOnlyIfChatExists says of one connection. *)
Excused(v) ==
  (/\ v \notin hurt
   /\ reply[v] = Failed
   /\ req[v].op = "create"
   /\ {req[v].user, req[v].other} \subseteq Registered)
  => \E c \in ChatIds : privateChats[c] = Wanted(v)

(* A chat that excuses a refusal stays. *)
LEMMA ExcuseStays ==
  ASSUME Inv, [Next]_vars, NEW v \in Workers, Excused(v),
         UNCHANGED <<req[v], reply[v]>>, v \in hurt => v \in hurt'
  PROVE  Excused(v)'
  <1>1. Wanted(v)' = Wanted(v)
    BY DEF Wanted
  <1>2. SUFFICES ASSUME /\ v \notin hurt' /\ reply[v] = Failed /\ req[v].op = "create"
                        /\ {req[v].user, req[v].other} \subseteq Registered
                 PROVE  \E c \in ChatIds : privateChats'[c] = Wanted(v)
    BY <1>1 DEF Excused
  <1>3. PICK c \in ChatIds : privateChats[c] = Wanted(v)
    BY <1>2 DEF Excused
  <1>4. Wanted(v) # None
    BY <1>2, OrderedPair, RegisteredAssumption DEF Wanted
  <1> QED
    BY <1>3, <1>4, RowsStep DEF RowsStay

(* The locals of another connection are left alone. *)
LEMMA OthersReply ==
  ASSUME TypeOK, NEW w \in Workers, NEW v \in Workers \ {w},
         Arrival(w) \/ Step(w) \/ SqlError(w)
  PROVE  UNCHANGED <<req[v], reply[v]>>
  BY DEF TypeOK, Arrival, CreatePrivateChat, GetPrivateChat, GetUserChats,
     IsValidChatMember, GetChatMembers, Receive, SqlError, Step, Done, local,
     CheckReceiver, LookupPair, FindChat, InsertChat, MapPair, SelectChat, StoreChat,
     StorePair, AddFirst, AddSecond, AddMember, ExpireMembers, DropLists, ReadChat,
     Partner, ReadList, SelectChats, StoreList, ReadMembers, CheckRow, AddCaller,
     ListMembers, SelectMembers

(* CreatePrivateChat gives up at the check of the receiver, at the INSERT  *)
(* and at the SELECT of the row.                                           *)
LEMMA StepExcused ==
  ASSUME Inv, NEW w \in Workers, Step(w), reply'[w] # reply[w]
  PROVE  Excused(w)'
  <1>0. pc[w] # "idle"
    BY DEF Step, At, CheckReceiver, LookupPair, FindChat,
       InsertChat, MapPair, SelectChat, StoreChat, StorePair, AddFirst, AddSecond,
       AddMember, ExpireMembers, DropLists, ReadChat, Partner, ReadList,
       SelectChats, StoreList, ReadMembers, CheckRow, AddCaller, ListMembers,
       SelectMembers
  <1>1. /\ req[w].user \in Users /\ req[w].other \in Users
        /\ Wanted(w) # None
        /\ Participants(Wanted(w)) = {req[w].user, req[w].other}
        /\ req[w].op \in OpsAt(pc[w])
    BY <1>0, Serving DEF Inv, LocalsTrue, RequestSpace
  <1>2. ASSUME req' = req, req[w].op # "create"
        PROVE  Excused(w)'
    BY <1>2 DEF Excused
  <1>3. ASSUME NEW C, NEW W, reply'[w] = Answered(C, W)
        PROVE  Excused(w)'
    BY <1>3 DEF Excused, Answered, Failed
  <1>4. ASSUME NEW r, Done(w, r)
        PROVE  reply'[w] = r
    BY <1>4 DEF Done, Inv, TypeOK
  <1>5. CASE CheckReceiver(w)
    BY <1>5 DEF CheckReceiver, Excused, local
  <1>6. CASE InsertChat(w)
    <2>1. req' = req /\ Wanted(w)' = Wanted(w)
      BY <1>6 DEF InsertChat, Wanted
    <2>2. CASE Insertable(Wanted(w))
      <3>1. PICK id \in ChatIds : privateChats' = [privateChats EXCEPT ![id] = Wanted(w)]
        BY <1>6, <2>2 DEF InsertChat
      <3>2. privateChats'[id] = Wanted(w)
        BY <3>1 DEF Inv, TypeOK
      <3> QED
        BY <2>1, <3>2 DEF Excused
    <2>3. CASE ~Insertable(Wanted(w))
      <3>1. privateChats' = privateChats
        BY <1>6, <2>3 DEF InsertChat
      <3>2. {req[w].user, req[w].other} \subseteq Registered
              => \E c \in ChatIds : privateChats[c] = Wanted(w)
        BY <1>1, <2>3 DEF Insertable
      <3> QED
        BY <2>1, <3>1, <3>2 DEF Excused
    <2> QED
      BY <2>2, <2>3
  <1>7. CASE SelectChat(w)
    <2>1. pc[w] # "load"
      BY <1>1, <1>7 DEF SelectChat, Inv, LocalsTrue, local
    <2>2. req' = req /\ pc[w] = "select"
      BY <1>7, <2>1 DEF SelectChat
    <2> QED
      BY <1>1, <1>2, <2>2 DEF OpsAt
  <1>8. CASE CheckRow(w) \/ ReadMembers(w) \/ Partner(w)
    BY <1>1, <1>2, <1>8 DEF CheckRow, ReadMembers, Partner, At, OpsAt
  <1>9. CASE ExpireMembers(w) \/ DropLists(w) \/ ReadList(w) \/ StoreList(w)
             \/ AddCaller(w) \/ ListMembers(w) \/ SelectMembers(w)
    BY <1>3, <1>4, <1>9 DEF ExpireMembers, DropLists, ReadList, StoreList, AddCaller,
       ListMembers, SelectMembers, local
  <1>10. reply' = reply \/ CheckReceiver(w) \/ InsertChat(w) \/ SelectChat(w)
         \/ CheckRow(w) \/ ReadMembers(w) \/ Partner(w) \/ ExpireMembers(w)
         \/ DropLists(w) \/ ReadList(w) \/ StoreList(w) \/ AddCaller(w)
         \/ ListMembers(w) \/ SelectMembers(w)
    BY DEF Step, LookupPair, FindChat, MapPair, StoreChat, StorePair, AddFirst,
       AddSecond, AddMember, ReadChat, SelectChats, local
  <1> QED
    BY <1>5, <1>6, <1>7, <1>8, <1>9, <1>10

(* The handler that has just been called has not answered. *)
LEMMA ArrivalExcused ==
  ASSUME Inv, NEW w \in Workers, Arrival(w)
  PROVE  Excused(w)'
  <1>1. reply' = [reply EXCEPT ![w] = None]
    BY DEF Arrival, CreatePrivateChat, GetPrivateChat, GetUserChats,
       IsValidChatMember, GetChatMembers, Receive
  <1>2. reply'[w] = None /\ None # Failed
    BY <1>1, ReplyTypes, NoneAssumption DEF Inv, TypeOK
  <1> QED
    BY <1>2 DEF Excused

(* A worker whose reply stays keeps its excuse; one that answers has one.  *)
LEMMA RefusalsStep ==
  ASSUME Inv, \A v \in Workers : Excused(v), [HurtNext]_<<vars, hurt>>
  PROVE  (\A v \in Workers : Excused(v))'
  <1>1. [Next]_vars
    BY DEF HurtNext, Next
  <1>2. ASSUME NEW v \in Workers, UNCHANGED <<req[v], reply[v]>>,
               v \in hurt => v \in hurt'
        PROVE  Excused(v)'
    BY <1>1, <1>2, ExcuseStays
  <1>3. CASE UNCHANGED <<vars, hurt>> \/ ((Crash \/ Expiry) /\ UNCHANGED hurt)
    BY <1>2, <1>3 DEF vars, Crash, Expiry
  <1>4. ASSUME NEW w \in Workers, Arrival(w) /\ hurt' = hurt \ {w}
        PROVE  \A v \in Workers : Excused(v)'
    BY <1>2, <1>4, ArrivalExcused, OthersReply DEF Inv
  <1>5. ASSUME NEW w \in Workers, Step(w) /\ UNCHANGED hurt
        PROVE  \A v \in Workers : Excused(v)'
    <2>1. req' = req
      BY <1>5 DEF Step, CheckReceiver, LookupPair, FindChat, InsertChat,
         MapPair, SelectChat, StoreChat, StorePair, AddFirst, AddSecond, AddMember,
         ExpireMembers, DropLists, ReadChat, Partner, ReadList, SelectChats,
         StoreList, ReadMembers, CheckRow, AddCaller, ListMembers, SelectMembers
    <2>2. Excused(w)'
      BY <1>2, <1>5, <2>1, StepExcused
    <2>3. ASSUME NEW v \in Workers \ {w}
          PROVE  Excused(v)'
      BY <1>2, <1>5, <2>3, OthersReply DEF Inv
    <2> QED
      BY <2>2, <2>3
  <1>6. ASSUME NEW w \in Workers, SqlError(w) /\ hurt' = hurt \cup {w}
        PROVE  \A v \in Workers : Excused(v)'
    <2>1. Excused(w)'
      BY <1>6 DEF Excused
    <2>2. ASSUME NEW v \in Workers \ {w}
          PROVE  Excused(v)'
      BY <1>2, <1>6, <2>2, OthersReply DEF Inv
    <2> QED
      BY <2>1, <2>2
  <1> QED
    BY <1>3, <1>4, <1>5, <1>6 DEF HurtNext

(* CreatePrivateChat between registered users is refused only to the       *)
(* connection whose own statement failed, or when the chat exists.         *)
THEOREM RefusalsExcused == HurtSpec => []RefusedOnlyIfChatExists
  <1> DEFINE Ex == \A v \in Workers : Excused(v)
  <1>1. HurtInit => Inv /\ Ex
    <2>1. ReplyTypes!1 /\ None # Failed
      BY ReplyTypes, NoneAssumption
    <2> QED
      BY <2>1, InitInv DEF HurtInit, Init, Excused
  <1>2. [HurtNext]_<<vars, hurt>> => [Next]_vars
    BY DEF HurtNext, Next
  <1>3. Inv /\ [Next]_vars => Inv'
    BY TypeStep, RowsStep, CachesStep, LocalsStep DEF Inv
  <1>4. Inv /\ Ex /\ [HurtNext]_<<vars, hurt>> => Ex'
    BY RefusalsStep
  <1>5. Ex => RefusedOnlyIfChatExists
    BY DEF Excused, RefusedOnlyIfChatExists
  <1> HIDE DEF Ex
  <1> QED
    BY <1>1, <1>2, <1>3, <1>4, <1>5, PTL DEF HurtSpec
=============================================================================
