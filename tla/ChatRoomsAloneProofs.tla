------------------------ MODULE ChatRoomsAloneProofs ------------------------
(***************************************************************************)
(* One connection, Redis and SQL that answer, times to live that may run   *)
(* out: between requests the caches of a room say what its tables say, and *)
(* removing and leaving take no owner.  For any users, rooms and requests. *)
(***************************************************************************)
EXTENDS ChatRoomsProofs

(* Which requests lead to an access. *)
OnPath(w) ==
  LET at(S) == pc[w] \in S
      op == req[w].op
  IN
  /\ at({"insertRoom", "insertOwner"}) => op = "create"
  /\ at({"next"}) => op \in {"create", "add", "remove"}
  /\ at({"insertMember"}) => op \in {"create", "add"}
  /\ at({"selectNickname", "setAgain", "joinAgain", "putAgain", "joinCache", "putCache"}) =>
       op = "add"
  /\ at(FillLabels) => op \in {"add", "role", "get"}
  /\ at({"dropList"}) => op \in {"add", "remove", "leave", "dissolve"}
  /\ at({"deleteMember", "leaveSet", "delMember"}) => op \in {"remove", "leave"}
  /\ at({"countMembers", "storeCount", "readCached", "storeCached"}) =>
       op \in {"create", "add", "remove", "leave"}
  /\ at({"readRoom", "readIds", "readInfo", "selectRows", "fill"}) => op = "get"
  /\ at({"selectRoom", "storeRoom"}) => op \in {"create", "update", "get"}
  /\ at({"updateRoom"}) => op = "update"
  /\ at({"updateRole", "reselect"}) => op = "role"
  /\ at({"readToTell", "selectToTell", "dissolve", "tell"}) => op = "dissolve"

(* Rows belong to rooms there are, and history to rooms there were.        *)
TableSound ==
  /\ \A r \in Rooms : rooms[r] # None => r \in used
  /\ \A r \in Rooms, u \in Users : EverMember(r, u) => r \in used
  /\ \A r \in Rooms, u \in Users : roles[<<r, u>>] # None => rooms[r] # None

(* A worker goes on, and all but its check stays as it was. *)
Onto(w, m) ==
  /\ pc'[w] = m
  /\ UNCHANGED <<req[w], room[w], who[w], role[w], todo[w], found[w], row[w], count[w]>>

LEMMA Moves ==
  ASSUME Control, NEW w \in Workers
  PROVE  /\ \A l, m : Move(w, l, m) => pc[w] = l /\ Onto(w, m) /\ UNCHANGED check[w]
         /\ \A r : Done(w, r) => pc'[w] = "idle" /\ UNCHANGED req[w]
         /\ \A yes : Verdict(w, yes) =>
              \/ pc'[w] = "idle" /\ Onward(req[w].op, check[w], yes) = "refuse" /\ UNCHANGED req[w]
              \/ /\ Onto(w, Onward(req[w].op, check[w], yes))
                 /\ Onward(req[w].op, check[w], yes) # "refuse"
         /\ Counted(w) => \/ req[w].op = "create" /\ Onto(w, "selectRoom")
                          \/ pc'[w] = "idle" /\ UNCHANGED req[w]
         /\ KeepMember(w) => \/ req[w].op = "remove" /\ pc[w] = "deleteMember" /\ Onto(w, "next")
                             \/ req[w].op = "leave" /\ pc'[w] = "idle" /\ UNCHANGED req[w]
  <1>1. ASSUME NEW l, NEW m, Move(w, l, m)
        PROVE  pc[w] = l /\ Onto(w, m) /\ UNCHANGED check[w]
    BY <1>1 DEF Control, Move, At, Goto, Onto, local, member
  <1>2. ASSUME NEW r, Done(w, r)
        PROVE  pc'[w] = "idle" /\ UNCHANGED req[w]
    BY <1>2 DEF Control, Done
  <1>3. ASSUME NEW yes, Verdict(w, yes)
        PROVE  \/ pc'[w] = "idle" /\ Onward(req[w].op, check[w], yes) = "refuse" /\ UNCHANGED req[w]
               \/ /\ Onto(w, Onward(req[w].op, check[w], yes))
                  /\ Onward(req[w].op, check[w], yes) # "refuse"
    BY <1>2, <1>3 DEF Control, Verdict, Goto, Onto
  <1>4. Counted(w) => \/ req[w].op = "create" /\ Onto(w, "selectRoom")
                      \/ pc'[w] = "idle" /\ UNCHANGED req[w]
    BY <1>2 DEF Control, Counted, Goto, Onto, local, member
  <1>5. KeepMember(w) => \/ req[w].op = "remove" /\ pc[w] = "deleteMember" /\ Onto(w, "next")
                         \/ req[w].op = "leave" /\ pc'[w] = "idle" /\ UNCHANGED req[w]
    BY <1>1, <1>2 DEF KeepMember
  <1> QED
    BY <1>1, <1>2, <1>3, <1>4, <1>5

(* Where a check leads, and for which requests. *)
LEMMA Onwards ==
  ASSUME NEW op, NEW k, NEW yes
  PROVE  \/ Onward(op, k, yes) = "refuse"
         \/ Onward(op, k, yes) = "readRoom" /\ op = "get"
         \/ Onward(op, k, yes) = "updateRoom" /\ op = "update"
         \/ Onward(op, k, yes) = "readToTell" /\ op = "dissolve"
         \/ Onward(op, k, yes) = "updateRole" /\ op = "role"
         \/ Onward(op, k, yes) = "next" /\ op \in {"add", "remove"}
         \/ Onward(op, k, yes) = "insertMember" /\ op = "add" /\ k = "member"
         \/ Onward(op, k, yes) = "readRole" /\ op = "leave" /\ k = "member"
         \/ Onward(op, k, yes) = "deleteMember" /\ op \in {"remove", "leave"} /\ k = "owner" /\ ~yes
  BY DEF Onward

-----------------------------------------------------------------------------
(* No step strays from its request's path. *)
LEMMA ArrivalPath ==
  ASSUME Control, NEW w \in Workers, Arrival(w)
  PROVE  OnPath(w)'
  BY DEF Control, Arrival, CreateChatRoom, GetChatRoom, UpdateChatRoom, DissolveChatRoom,
     AddChatRoomMember, RemoveChatRoomMember, UpdateMemberRole, LeaveChatRoom,
     GetUserChats, IsValidChatMember, GetChatMembers, Receive, Goto, OnPath, FillLabels

LEMMA StepPath ==
  ASSUME Control, NEW w \in Workers, OnPath(w), Step(w)
  PROVE  OnPath(w)'
  <1>1. /\ \A l, m : Move(w, l, m) => pc[w] = l /\ pc'[w] = m /\ req'[w] = req[w]
        /\ \A r : Done(w, r) => pc'[w] = "idle" /\ req'[w] = req[w]
        /\ Counted(w) => \/ req[w].op = "create" /\ pc'[w] = "selectRoom" /\ req'[w] = req[w]
                         \/ pc'[w] = "idle"
        /\ KeepMember(w) => \/ req[w].op = "remove" /\ pc'[w] = "next" /\ req'[w] = req[w]
                            \/ pc'[w] = "idle"
    BY Moves DEF Onto
  <1>2. ASSUME NEW yes, Verdict(w, yes)
        PROVE  OnPath(w)'
    BY <1>2, Moves, Onwards DEF Onto, OnPath, FillLabels
  <1>t. Verdict(w, TRUE) \/ Verdict(w, FALSE) => OnPath(w)'
    BY <1>2, ZenonT(30)
  <1>3. \A l : Goto(w, l) => pc'[w] = l
    BY DEF Control, Goto
  <1>4. /\ req' = req => req'[w] = req[w]
        /\ pc' = pc => pc'[w] = pc[w]
    OBVIOUS
  <1> USE <1>1, <1>2, <1>t, <1>3, <1>4 DEF OnPath, FillLabels, At
  <1>5. CASE CheckStep(w)
    <2>1. CASE ReadRole(w)  BY <2>1 DEF ReadRole
    <2>2. CASE SelectRole(w)  BY <2>2 DEF SelectRole
    <2>3. CASE CacheRole(w)  BY <2>3 DEF CacheRole
    <2>4. CASE ReadMembers(w)  BY <2>4 DEF ReadMembers
    <2>5. CASE ExistsMember(w)
      <3>1. Verdict(w, TRUE) \/ Move(w, "existsMember", "selectMember")
        BY ONLY <2>5 DEF ExistsMember
      <3>2. CASE Verdict(w, TRUE)  BY ONLY <1>t, <3>2
      <3>3. CASE Move(w, "existsMember", "selectMember")  BY <3>3
      <3> QED
        BY ONLY <3>1, <3>2, <3>3
    <2>6. CASE SelectMember(w)
      <3>1. Verdict(w, FALSE) \/ Move(w, "selectMember", "joinMembers")
        BY ONLY <2>6 DEF SelectMember
      <3>2. CASE Verdict(w, FALSE)  BY ONLY <1>t, <3>2
      <3>3. CASE Move(w, "selectMember", "joinMembers")  BY <3>3
      <3> QED
        BY ONLY <3>1, <3>2, <3>3
    <2>7. CASE JoinMembers(w)  BY <2>7 DEF JoinMembers
    <2> QED
      BY ONLY <1>5, <2>1, <2>2, <2>3, <2>4, <2>5, <2>6, <2>7
         DEF CheckStep
  <1>6. CASE MemberStep(w)
    <2>1. CASE InsertRoom(w)  BY <2>1 DEF InsertRoom
    <2>2. CASE InsertOwner(w)  BY <2>2 DEF InsertOwner
    <2>3. CASE NextMember(w)  BY <2>3 DEF NextMember
    <2>4. CASE InsertMember(w)  BY <2>4 DEF InsertMember
    <2>5. CASE SelectNickname(w)  BY <2>5 DEF SelectNickname
    <2>6. CASE SetInfo(w)  BY <2>6 DEF SetInfo
    <2>7. CASE JoinInfo(w)  BY <2>7 DEF JoinInfo
    <2>8. CASE PutRole(w)  BY <2>8 DEF PutRole
    <2>9. CASE DropList(w)  BY <2>9 DEF DropList
    <2>10. CASE DeleteMember(w)  BY <2>10 DEF DeleteMember
    <2>11. CASE LeaveSet(w)  BY <2>11 DEF LeaveSet
    <2>12. CASE DelMember(w)  BY <2>12 DEF DelMember
    <2>13. CASE CountMembers(w)  BY <2>13 DEF CountMembers
    <2>14. CASE StoreCount(w)  BY <2>14 DEF StoreCount
    <2>15. CASE ReadCached(w)  BY <2>15 DEF ReadCached
    <2>16. CASE StoreCached(w)  BY <2>16 DEF StoreCached
    <2> QED
      BY ONLY <1>6, <2>1, <2>2, <2>3, <2>4, <2>5, <2>6, <2>7, <2>8, <2>9,
         <2>10, <2>11, <2>12, <2>13, <2>14, <2>15, <2>16
         DEF MemberStep
  <1>7. CASE RoomStep(w)
    <2>1. CASE ReadRoom(w)  BY <2>1 DEF ReadRoom
    <2>2. CASE ReadIds(w)  BY <2>2 DEF ReadIds
    <2>3. CASE ReadInfo(w)
      <3>1. UNCHANGED <<pc, req>> \/ Done(w, Answered(found[w])) \/ Move(w, "readInfo", "selectRoom")
        BY ONLY <2>3 DEF ReadInfo
      <3> QED
        BY <3>1
    <2>4. CASE SelectRoom(w)  BY <2>4 DEF SelectRoom
    <2>5. CASE StoreRoom(w)  BY <2>5 DEF StoreRoom
    <2>6. CASE SelectRows(w)  BY <2>6 DEF SelectRows
    <2>7. CASE Fill(w)  BY <2>7 DEF Fill
    <2>8. CASE UpdateRoom(w)  BY <2>8 DEF UpdateRoom
    <2>9. CASE UpdateRole(w)  BY <2>9 DEF UpdateRole
    <2>10. CASE Reselect(w)  BY <2>10 DEF Reselect
    <2>11. CASE ReadToTell(w)  BY <2>11 DEF ReadToTell
    <2>12. CASE SelectToTell(w)  BY <2>12 DEF SelectToTell
    <2>13. CASE Dissolve(w)  BY <2>13 DEF Dissolve
    <2>14. CASE DelRoom(w)  BY <2>14 DEF DelRoom
    <2>15. CASE DelMembers(w)  BY <2>15 DEF DelMembers
    <2>16. CASE Tell(w)  BY <2>16 DEF Tell
    <2> QED
      BY ONLY <1>7, <2>1, <2>2, <2>3, <2>4, <2>5, <2>6, <2>7, <2>8, <2>9,
         <2>10, <2>11, <2>12, <2>13, <2>14, <2>15, <2>16
         DEF RoomStep
  <1>8. CASE ReadStep(w)
    <2>1. CASE ReadList(w)  BY <2>1 DEF ReadList
    <2>2. CASE SelectRooms(w)  BY <2>2 DEF SelectRooms
    <2>3. CASE StoreList(w)  BY <2>3 DEF StoreList
    <2>4. CASE ValidMembers(w)  BY <2>4 DEF ValidMembers
    <2>5. CASE ValidSelect(w)  BY <2>5 DEF ValidSelect
    <2>6. CASE ValidJoin(w)  BY <2>6 DEF ValidJoin
    <2>7. CASE ListMembers(w)  BY <2>7 DEF ListMembers
    <2>8. CASE SelectAll(w)  BY <2>8 DEF SelectAll
    <2>9. CASE JoinAll(w)  BY <2>9 DEF JoinAll
    <2> QED
      BY ONLY <1>8, <2>1, <2>2, <2>3, <2>4, <2>5, <2>6, <2>7, <2>8, <2>9
         DEF ReadStep
  <1> QED
    BY ONLY Step(w), <1>5, <1>6, <1>7, <1>8 DEF Step

-----------------------------------------------------------------------------
(* A room is inserted before its rows, and rows go with their room. *)
LEMMA TableStep ==
  ASSUME Inv, NEW w \in Workers, Step(w), TableSound
  PROVE  TableSound'
  <1>0. pc[w] # "idle"
    BY StepBusy
  <1>1. Control /\ Stored /\ Read(w) /\ req[w] \in RequestSpace /\ who[w] \in Users
    BY <1>0, AtHand
  <1>2. (pc[w] # "insertRoom" => room[w] \in Rooms) /\ None \notin Row
    BY <1>0, AtHand, NoneAssumption
  <1>3. CASE UNCHANGED db
    BY <1>3 DEF db, TableSound, EverMember
  <1>4. ASSUME NEW r \in Rooms, NEW u \in Users, NEW x, rooms[r] # None, SetRow(r, u, x)
        PROVE  TableSound'
    <2>1. /\ UNCHANGED <<rooms, used>>
          /\ held' = held \cup {<<r, u, x>>}
          /\ roles' = [roles EXCEPT ![<<r, u>>] = x]
      BY <1>4 DEF SetRow
    <2>2. \A s \in Rooms, v \in Users : EverMember(s, v)' => EverMember(s, v) \/ s = r
      BY <2>1 DEF EverMember
    <2>3. \A s \in Rooms, v \in Users : roles'[<<s, v>>] = roles[<<s, v>>] \/ s = r
      BY <1>1, <2>1 DEF Stored
    <2> QED
      BY <1>4, <2>1, <2>2, <2>3 DEF TableSound
  <1>5. ASSUME UNCHANGED <<rooms, used, held>>, NEW k \in Rooms \X Users,
               roles' = [roles EXCEPT ![k] = None]
        PROVE  TableSound'
    BY <1>1, <1>5 DEF Stored, TableSound, EverMember
  <1>6. ASSUME UNCHANGED <<roles, used, held>>, rooms' \in [Rooms -> Row \cup {None}],
               \A r \in Rooms : rooms[r] # None <=> rooms'[r] # None
        PROVE  TableSound'
    BY <1>6 DEF TableSound, EverMember
  <1>7. CASE InsertRoom(w)
    <2>0. SUFFICES ASSUME ~UNCHANGED db
                   PROVE  TableSound'
      BY <1>3
    <2>1. PICK r \in Rooms \ used :
            /\ rooms' = [rooms EXCEPT ![r] = [name |-> req[w].name, count |-> 0]]
            /\ used' = used \cup {r}
            /\ UNCHANGED <<roles, held>>
      BY <1>7, <2>0 DEF InsertRoom, db
    <2>2. \A s \in Rooms : s # r => rooms'[s] = rooms[s]
      BY <1>1, <2>1 DEF Stored
    <2>3. \A s \in Rooms, u \in Users : roles[<<s, u>>] # None => s # r
      BY <2>1 DEF TableSound
    <2> QED
      BY <2>1, <2>2, <2>3 DEF TableSound, EverMember
  <1>8. CASE InsertOwner(w)
    BY <1>1, <1>3, <1>4, <1>8 DEF InsertOwner, Insertable
  <1>9. CASE InsertMember(w)
    BY <1>1, <1>3, <1>4, <1>9 DEF InsertMember, Insertable
  <1>10. CASE DeleteMember(w)
    BY <1>1, <1>2, <1>5, <1>10 DEF DeleteMember, Key, At
  <1>11. CASE StoreCount(w)
    <2>1. /\ UNCHANGED <<roles, used, held>>
          /\ \/ rooms' = rooms
             \/ rooms[room[w]] # None /\ rooms' = [rooms EXCEPT ![room[w]].count = count[w]]
      BY <1>11, ZenonT(30) DEF StoreCount
    <2>2. room[w] \in Rooms
      BY <1>2, <1>11 DEF StoreCount, At
    <2>3. rooms[room[w]] # None => [rooms[room[w]] EXCEPT !.count = count[w]] \in Row
      BY <1>1, <2>2 DEF Stored, Control, Row
    <2> QED
      BY <1>1, <1>2, <1>6, <2>1, <2>2, <2>3 DEF Stored
  <1>12. CASE UpdateRoom(w)
    <2>1. /\ UNCHANGED <<roles, used, held>>
          /\ \/ rooms' = rooms
             \/ rooms[room[w]] # None /\ rooms' = [rooms EXCEPT ![room[w]].name = req[w].name]
      BY <1>12, ZenonT(30) DEF UpdateRoom
    <2>2. room[w] \in Rooms
      BY <1>2, <1>12 DEF UpdateRoom, At
    <2>3. rooms[room[w]] # None => [rooms[room[w]] EXCEPT !.name = req[w].name] \in Row
      BY <1>1, <2>2 DEF Stored, RequestSpace, Row
    <2> QED
      BY <1>1, <1>2, <1>6, <2>1, <2>2, <2>3 DEF Stored
  <1>13. CASE UpdateRole(w)
    <2>1. PICK m \in todo[w] :
            \/ roles[<<room[w], m[1]>>] # None /\ SetRow(room[w], m[1], m[2])
            \/ UNCHANGED db
      BY <1>13 DEF UpdateRole
    <2>2. m[1] \in Users /\ room[w] \in Rooms
      BY <1>1, <1>2, <1>13, <2>1 DEF UpdateRole, At, Control
    <2> QED
      BY <1>3, <1>4, <2>1, <2>2 DEF TableSound
  <1>14. CASE Dissolve(w)
    <2>1. \/ UNCHANGED db
          \/ /\ rooms' = [rooms EXCEPT ![room[w]] = None]
             /\ roles' = [k \in Rooms \X Users |-> IF k[1] = room[w] THEN None ELSE roles[k]]
             /\ UNCHANGED <<used, held>>
      BY <1>14 DEF Dissolve, db
    <2>2. CASE ~UNCHANGED db
      <3>1. \A r \in Rooms : rooms'[r] = IF r = room[w] THEN None ELSE rooms[r]
        BY <1>1, <2>1, <2>2 DEF Stored
      <3>2. \A r \in Rooms, u \in Users : roles'[<<r, u>>] = IF r = room[w] THEN None ELSE roles[<<r, u>>]
        BY <2>1, <2>2
      <3> QED
        BY <2>1, <2>2, <3>1, <3>2 DEF TableSound, EverMember
    <2> QED
      BY <1>3, <2>2
  <1> QED
    BY <1>3, <1>7, <1>8, <1>9, <1>10, <1>11, <1>12, <1>13, <1>14, WhoWrites DEF Writing

(* A room not handed out yet has no rows and no keys. *)
LEMMA Unused ==
  ASSUME Inv, TableSound, NEW r \in Rooms \ used
  PROVE  /\ rooms[r] = None /\ membersKey[r] = {}
         /\ \A u \in Users : roles[<<r, u>>] = None /\ memberKey[<<r, u>>] = None
  <1>1. /\ rooms[r] = None
        /\ \A u \in Users : ~EverMember(r, u) /\ roles[<<r, u>>] = None
    BY DEF TableSound
  <1>2. Cached /\ CachesHeld
    BY TypeParts DEF Inv
  <1>3. ASSUME NEW u \in Users, memberKey[<<r, u>>] # None
        PROVE  FALSE
    <2>1. memberKey[<<r, u>>].role \in Roles
      BY <1>2, <1>3 DEF Cached
    <2> QED
      BY <1>1, <1>2, <1>3, <2>1 DEF CachesHeld, EverMember
  <1>4. membersKey[r] = {}
    BY <1>1, <1>2 DEF Cached, CachesHeld
  <1> QED
    BY <1>1, <1>3, <1>4

-----------------------------------------------------------------------------
(* Where the table was changed and the key of the member at hand not yet.  *)
StaleLabels == {"selectNickname", "setInfo", "reselect", "leaveSet", "delMember"}

RolesAgree(w) ==
  \A r \in Standing, u \in Users : memberKey[<<r, u>>] # None =>
    \/ roles[<<r, u>>] = memberKey[<<r, u>>].role
    \/ pc[w] \in StaleLabels /\ r = room[w] /\ u = who[w]

(* What a worker carries from the table to the cache, and from the cache   *)
(* to the table.                                                           *)
Filling(w) == pc[w] = "fill" \/ (pc[w] \in FillLabels /\ req[w].op = "get")
Opening(w) == pc[w] \in {"insertOwner", "next", "insertMember"} /\ req[w].op = "create"
RoleAtHand(w) ==
  /\ pc[w] \in RoleLabels => role[w] = roles[Key(w)]
  /\ pc[w] = "reselect" => roles[Key(w)] # None
  /\ Filling(w) => todo[w] \subseteq RowsOf(room[w])
  /\ Opening(w) => \A u \in Users : memberKey[<<room[w], u>>] = None
  /\ pc[w] = "deleteMember" => roles[Key(w)] # "OWNER"

LEMMA AgreeKept ==
  ASSUME NEW w, RolesAgree(w), Standing' \subseteq Standing, UNCHANGED <<roles, memberKey>>,
         pc[w] \in StaleLabels => pc'[w] \in StaleLabels /\ UNCHANGED <<room[w], who[w]>>
  PROVE  RolesAgree(w)'
  BY DEF RolesAgree

LEMMA HandFree ==
  ASSUME NEW w, pc'[w] \notin RoleLabels \cup {"reselect", "fill", "insertOwner", "next",
                                               "insertMember", "deleteMember"}
  PROVE  RoleAtHand(w)'
  BY DEF RoleAtHand, Filling, Opening, RoleLabels, FillLabels

LEMMA HandKept ==
  ASSUME NEW w, NEW m, RoleAtHand(w), UNCHANGED roles, Onto(w, m),
         m \in RoleLabels => pc[w] \in RoleLabels,
         m # "reselect",
         m = "fill" \/ (m \in FillLabels /\ req[w].op = "get") => Filling(w),
         m \in {"insertOwner", "next", "insertMember"} /\ req[w].op = "create" =>
           Opening(w) /\ UNCHANGED memberKey,
         m = "deleteMember" => roles[Key(w)] # "OWNER"
  PROVE  RoleAtHand(w)'
  BY DEF RoleAtHand, Filling, Opening, Onto, Key, RowsOf

(* A check leads to the removal of somebody who is no owner. *)
LEMMA HandChecked ==
  ASSUME Control, NEW w \in Workers, NEW yes, RoleAtHand(w), Verdict(w, yes), UNCHANGED roles,
         ~yes /\ check[w] = "owner" => roles[Key(w)] # "OWNER"
  PROVE  RoleAtHand(w)' /\ pc'[w] \notin StaleLabels
  <1>1. CASE pc'[w] = "idle"
    BY <1>1, HandFree DEF StaleLabels, RoleLabels
  <1>2. CASE pc'[w] # "idle"
    <2> DEFINE m == Onward(req[w].op, check[w], yes)
    <2>1. Onto(w, m) /\ m # "refuse"
      BY <1>2, Moves
    <2>2. m \notin RoleLabels \cup StaleLabels \cup {"fill", "insertOwner"}
      BY <2>1, Onwards DEF RoleLabels, StaleLabels
    <2>3. m = "deleteMember" => ~yes /\ check[w] = "owner"
      BY <2>1, Onwards
    <2>4. m \in {"next", "insertMember"} => req[w].op # "create"
      BY <2>1, Onwards
    <2>5. m \notin FillLabels
      BY <2>2 DEF RoleLabels, FillLabels
    <2>6. m # "reselect"
      BY <2>2 DEF StaleLabels
    <2> HIDE DEF m
    <2>7. RoleAtHand(w)'
      BY <2>1, <2>2, <2>3, <2>4, <2>5, <2>6, HandKept
    <2> QED
      BY <2>1, <2>2, <2>7 DEF Onto
  <1> QED
    BY <1>1, <1>2

HandLabels ==
  RoleLabels \cup {"reselect", "fill", "insertOwner", "next", "insertMember", "deleteMember"}
RolesSound(w) == RolesAgree(w) /\ RoleAtHand(w)

LEMMA RolesFree ==
  ASSUME NEW w, RolesAgree(w), Standing' \subseteq Standing, UNCHANGED <<roles, memberKey>>,
         pc[w] \notin StaleLabels, pc'[w] \notin HandLabels
  PROVE  RolesSound(w)'
  BY AgreeKept, HandFree DEF RolesSound, HandLabels

(* Without faults the table of rooms changes in few ways. *)
LEMMA SameRooms ==
  ASSUME Inv, NEW w \in Workers, Step(w), ~InsertRoom(w), ~Dissolve(w)
  PROVE  Standing' = Standing
  <1>0. pc[w] # "idle"
    BY StepBusy
  <1>1. Control /\ Stored /\ req[w] \in RequestSpace /\ (pc[w] # "insertRoom" => room[w] \in Rooms)
    BY <1>0, AtHand
  <1>2. CASE UNCHANGED rooms
    BY <1>2 DEF Standing
  <1>3. CASE StoreCount(w) /\ rooms' # rooms
    <2>1. rooms[room[w]] # None /\ rooms' = [rooms EXCEPT ![room[w]].count = count[w]]
      BY <1>3, ZenonT(30) DEF StoreCount
    <2>2. room[w] \in Rooms
      BY <1>1, <1>3 DEF StoreCount, At
    <2>3. [rooms[room[w]] EXCEPT !.count = count[w]] \in Row
      BY <1>1, <2>1, <2>2 DEF Stored, Control, Row
    <2> QED
      BY <1>1, <2>1, <2>2, <2>3, NoneAssumption DEF Stored, Standing
  <1>4. CASE UpdateRoom(w) /\ rooms' # rooms
    <2>1. rooms[room[w]] # None /\ rooms' = [rooms EXCEPT ![room[w]].name = req[w].name]
      BY <1>4, ZenonT(30) DEF UpdateRoom
    <2>2. room[w] \in Rooms
      BY <1>1, <1>4 DEF UpdateRoom, At
    <2>3. [rooms[room[w]] EXCEPT !.name = req[w].name] \in Row
      BY <1>1, <2>1, <2>2 DEF Stored, RequestSpace, Row
    <2> QED
      BY <1>1, <2>1, <2>2, <2>3, NoneAssumption DEF Stored, Standing
  <1>5. CASE Writing(w) /\ ~StoreCount(w) /\ ~UpdateRoom(w)
    BY <1>2, <1>5 DEF Writing, InsertOwner, InsertMember, DeleteMember, UpdateRole, SetRow, db
  <1> QED
    BY <1>2, <1>3, <1>4, <1>5, WhoWrites DEF db

LEMMA RolesRead ==
  ASSUME Control, NEW w \in Workers, ReadStep(w), RolesAgree(w)
  PROVE  RolesSound(w)'
  <1>1. UNCHANGED <<rooms, roles, memberKey>>
    BY DEF ReadStep, ReadList, SelectRooms, StoreList, ValidMembers, ValidSelect, ValidJoin,
       ListMembers, SelectAll, JoinAll, db, redis
  <1>2. pc[w] \notin StaleLabels /\ pc'[w] \notin HandLabels
    <2>1. /\ \A l, m : Move(w, l, m) => pc[w] = l /\ pc'[w] = m
          /\ \A r : Done(w, r) => pc'[w] = "idle"
          /\ \A l : Goto(w, l) => pc'[w] = l
      BY Moves DEF Onto, Control, Goto
    <2> QED
      BY <2>1 DEF ReadStep, ReadList, SelectRooms, StoreList, ValidMembers, ValidSelect,
         ValidJoin, ListMembers, SelectAll, JoinAll, At, StaleLabels, HandLabels, RoleLabels
  <1> QED
    BY <1>1, <1>2, RolesFree DEF Standing

LEMMA RolesCheck ==
  ASSUME ~LossyRedis, Inv, TableSound, NEW w \in Workers, CheckStep(w), RolesSound(w)
  PROVE  RolesSound(w)'
  <1>0. pc[w] # "idle" /\ UNCHANGED db
    BY StepBusy DEF Step, CheckStep, db, ReadRole, SelectRole, CacheRole, ReadMembers,
       ExistsMember, SelectMember, JoinMembers
  <1>1. /\ Control /\ Stored /\ Cached /\ Serves(w) /\ Read(w)
        /\ who[w] \in Users
        /\ pc[w] # "insertRoom" => room[w] \in Rooms
    BY <1>0, AtHand
  <1>2. Standing' = Standing /\ UNCHANGED roles
    BY <1>0 DEF db, Standing
  <1>3. pc[w] \in Asks
    BY DEF CheckStep, ReadRole, SelectRole, CacheRole, ReadMembers, ExistsMember,
       SelectMember, JoinMembers, At, Asks, RoleAsks, MemberAsks
  <1>4. pc[w] \notin StaleLabels /\ room[w] \in Rooms /\ ~Filling(w) /\ ~Opening(w)
    BY <1>1, <1>3 DEF Asks, RoleAsks, MemberAsks, StaleLabels, Filling, Opening, FillLabels
  <1>5. pc[w] \in MemberAsks => check[w] # "owner"
    BY <1>1, <1>3 DEF Serves
  <1>6. ASSUME NEW yes, Verdict(w, yes), UNCHANGED memberKey,
               ~yes /\ check[w] = "owner" => roles[Key(w)] # "OWNER"
        PROVE  RolesSound(w)'
    BY <1>1, <1>2, <1>4, <1>6, HandChecked, AgreeKept DEF RolesSound
  <1>v. ASSUME NEW yes, Verdict(w, yes)
        PROVE  pc'[w] # "cacheRole"
    BY <1>1, <1>v, Moves, Onwards DEF Onto
  <1>n. ASSUME Verdict(w, FALSE), UNCHANGED memberKey,
               check[w] = "owner" => roles[Key(w)] # "OWNER"
        PROVE  RolesSound(w)'
    BY <1>6, <1>n, ZenonT(30)
  <1>7. ASSUME NEW l, NEW m, Move(w, l, m), UNCHANGED memberKey, m \in Asks \ {"cacheRole"}
        PROVE  RolesSound(w)'
    <2>1. pc'[w] \notin HandLabels
      BY <1>1, <1>7, Moves DEF Onto, HandLabels, RoleLabels, Asks, RoleAsks, MemberAsks
    <2> QED
      BY <1>2, <1>4, <1>7, <2>1, RolesFree DEF RolesSound
  <1>8. CASE ReadRole(w)
    <2>1. PICK v \in {memberKey[Key(w)]} :
            \/ IsHash(v) /\ Verdict(w, v.role \in Allowed(check[w]))
            \/ ~IsHash(v) /\ Move(w, "readRole", "selectRole")
      BY <1>8 DEF ReadRole, Seen
    <2>2. CASE Move(w, "readRole", "selectRole")
      BY <1>7, <1>8, <2>2 DEF ReadRole, redis, Asks, RoleAsks
    <2>3. CASE IsHash(v) /\ Verdict(w, v.role \in Allowed(check[w]))
      <3>1. roles[Key(w)] = v.role \/ roles[Key(w)] = None
        BY <1>1, <1>4, <2>1, <2>3 DEF RolesSound, RolesAgree, Standing, Key, IsHash, TableSound
      <3>2. check[w] = "owner" /\ ~(v.role \in Allowed(check[w])) => roles[Key(w)] # "OWNER"
        BY <3>1, NoneAssumption DEF Allowed, Roles
      <3> QED
        BY <1>6, <1>8, <2>3, <3>2 DEF ReadRole, redis
    <2> QED
      BY <2>1, <2>2, <2>3
  <1>9. CASE SelectRole(w)
    <2>1. CASE Verdict(w, FALSE)
      <3>1. check[w] = "owner" => roles[Key(w)] # "OWNER" \/ pc'[w] = "cacheRole"
        BY <1>1, <1>9, NoneAssumption DEF SelectRole, Roles, Goto, Control
      <3>2. pc'[w] # "cacheRole"
        BY <1>v, <2>1, ZenonT(30)
      <3>3. UNCHANGED memberKey
        BY <1>9 DEF SelectRole, redis
      <3> QED
        BY <1>n, <2>1, <3>1, <3>2, <3>3
    <2>2. CASE ~Verdict(w, FALSE)
      <3>1. /\ role'[w] = roles[Key(w)] /\ pc'[w] = "cacheRole"
            /\ UNCHANGED <<memberKey, room[w], who[w]>>
        BY <1>1, <1>9, <2>2 DEF SelectRole, Goto, Control, redis
      <3>2. RoleAtHand(w)'
        BY <1>2, <3>1 DEF RoleAtHand, Filling, Opening, FillLabels, Key
      <3> QED
        BY <1>2, <1>4, <3>1, <3>2, AgreeKept DEF RolesSound
    <2> QED
      BY <2>1, <2>2
  <1>10. CASE CacheRole(w)
    <2>1. role[w] = roles[Key(w)]
      BY <1>10 DEF CacheRole, At, RolesSound, RoleAtHand, RoleLabels
    <2>2. \A r \in Rooms, u \in Users :
            \/ memberKey'[<<r, u>>] = memberKey[<<r, u>>]
            \/ r = room[w] /\ u = who[w] /\ memberKey'[<<r, u>>].role = role[w]
      BY <1>1, <1>4, <1>10 DEF CacheRole, HSet, Written, Hash, Key, Cached
    <2>3. RolesAgree(w)'
      BY <1>2, <1>4, <2>1, <2>2 DEF RolesSound, RolesAgree, Standing, Key
    <2>4. check[w] = "owner" /\ ~(role[w] \in Allowed(check[w])) => roles[Key(w)] # "OWNER"
      BY <2>1 DEF Allowed
    <2> QED
      BY <1>1, <1>2, <1>10, <2>3, <2>4, HandChecked DEF CacheRole, RolesSound
  <1>11. CASE ReadMembers(w) \/ ExistsMember(w) \/ SelectMember(w) \/ JoinMembers(w)
    <2>1. pc[w] \in MemberAsks /\ UNCHANGED memberKey
      BY <1>11 DEF ReadMembers, ExistsMember, SelectMember, JoinMembers, At, MemberAsks, redis
    <2>2. ASSUME NEW yes, Verdict(w, yes)
          PROVE  RolesSound(w)'
      BY <1>5, <1>6, <2>1, <2>2
    <2>3. Verdict(w, TRUE) \/ Verdict(w, FALSE) => RolesSound(w)'
      BY <2>2, ZenonT(30)
    <2>4. \A l \in MemberAsks, m \in MemberAsks : Move(w, l, m) => RolesSound(w)'
      BY <1>7, <2>1 DEF MemberAsks, Asks
    <2>5. CASE ReadMembers(w)
      BY <2>2, <2>4, <2>5 DEF ReadMembers, MemberAsks
    <2>6. CASE ExistsMember(w)
      <3>1. Verdict(w, TRUE) \/ Move(w, "existsMember", "selectMember")
        BY <2>6 DEF ExistsMember
      <3> QED
        BY <2>3, <2>4, <3>1 DEF MemberAsks
    <2>7. CASE SelectMember(w)
      <3>1. Verdict(w, FALSE) \/ Move(w, "selectMember", "joinMembers")
        BY <2>7 DEF SelectMember
      <3> QED
        BY <2>3, <2>4, <3>1 DEF MemberAsks
    <2>8. CASE JoinMembers(w)
      BY <2>3, <2>8 DEF JoinMembers
    <2> QED
      BY <1>11, <2>5, <2>6, <2>7, <2>8
  <1> QED
    BY <1>8, <1>9, <1>10, <1>11 DEF CheckStep

(* A row written for the member at hand, whose key is not written yet. *)
LEMMA AgreeWritten ==
  ASSUME Stored, NEW w \in Workers, RolesAgree(w), room[w] \in Rooms, NEW u \in Users, NEW x,
         roles' = [roles EXCEPT ![<<room[w], u>>] = x], Standing' = Standing,
         UNCHANGED <<memberKey, room[w]>>, pc[w] \notin StaleLabels,
         \/ memberKey[<<room[w], u>>] = None
         \/ pc'[w] \in StaleLabels /\ who'[w] = u
  PROVE  RolesAgree(w)'
  <1>1. \A r \in Rooms, v \in Users :
          roles'[<<r, v>>] = IF r = room[w] /\ v = u THEN x ELSE roles[<<r, v>>]
    BY DEF Stored
  <1> QED
    BY <1>1 DEF RolesAgree, Standing

(* The key of the member at hand written with the role of the table. *)
LEMMA AgreeCached ==
  ASSUME Cached, NEW w \in Workers, RolesAgree(w), room[w] \in Rooms, who[w] \in Users,
         role[w] = roles[Key(w)], UNCHANGED <<roles, room[w], who[w]>>, Standing' = Standing,
         ~LossyRedis,
         memberKey' \in Put(memberKey, Key(w), Info(role[w])) \/ memberKey' \in HSet(Key(w), role[w]),
         pc[w] \in StaleLabels => pc'[w] \in StaleLabels \/ memberKey' \in Put(memberKey, Key(w), Info(role[w]))
  PROVE  RolesAgree(w)'
  <1>1. \A r \in Rooms, u \in Users :
          \/ memberKey'[<<r, u>>] = memberKey[<<r, u>>]
          \/ r = room[w] /\ u = who[w] /\ memberKey'[<<r, u>>].role = role[w]
    BY SMTT(30) DEF Put, HSet, Written, Hash, Info, Key, Cached
  <1>2. memberKey' \in Put(memberKey, Key(w), Info(role[w])) =>
          memberKey'[<<room[w], who[w]>>].role = role[w]
    BY DEF Put, Written, Info, Key, Cached
  <1> QED
    BY <1>1, <1>2, SMTT(30) DEF RolesAgree, Standing, Key

LEMMA RolesMember ==
  ASSUME ~LossyRedis, ~Faults, Inv, TableSound, NEW w \in Workers, MemberStep(w), OnPath(w),
         RolesSound(w)
  PROVE  RolesSound(w)'
  <1>0. Step(w) /\ pc[w] # "idle"
    BY StepBusy DEF Step
  <1>1. /\ Control /\ Stored /\ Cached /\ Serves(w) /\ Read(w)
        /\ who[w] \in Users
        /\ pc[w] # "insertRoom" => room[w] \in Rooms
    BY <1>0, AtHand
  <1>2. ~Dissolve(w)
    BY DEF MemberStep, InsertRoom, InsertOwner, NextMember, InsertMember, SelectNickname,
       SetInfo, JoinInfo, PutRole, DropList, DeleteMember, LeaveSet, DelMember,
       CountMembers, StoreCount, ReadCached, StoreCached, Move, At, Dissolve
  <1>3. ~InsertRoom(w) => Standing' = Standing
    BY <1>0, <1>2, SameRooms
  <1>4. ASSUME NEW l, NEW m, Move(w, l, m)
        PROVE  pc[w] = l /\ Onto(w, m)
    BY <1>1, <1>4, Moves
  <1>5. ASSUME NEW r, Done(w, r)
        PROVE  pc'[w] = "idle"
    BY <1>1, <1>5, Moves
  <1>6. ASSUME NEW l, NEW m, Move(w, l, m), UNCHANGED <<roles, memberKey>>, ~InsertRoom(w),
               l \in StaleLabels => m \in StaleLabels,
               m \in RoleLabels => l \in RoleLabels, m # "reselect",
               m = "fill" \/ (m \in FillLabels /\ req[w].op = "get") => Filling(w),
               m \in {"insertOwner", "next", "insertMember"} /\ req[w].op = "create" => Opening(w),
               m # "deleteMember"
        PROVE  RolesSound(w)'
    <2>1. pc[w] = l /\ Onto(w, m)
      BY <1>4, <1>6
    <2>2. RoleAtHand(w)'
      BY <1>6, <2>1, HandKept DEF RolesSound
    <2>3. RolesAgree(w)'
      BY <1>3, <1>6, <2>1, AgreeKept DEF RolesSound, Onto
    <2> QED
      BY <2>2, <2>3 DEF RolesSound
  <1>7. CASE InsertRoom(w)
    <2>0. UNCHANGED <<roles, memberKey>> /\ pc[w] = "insertRoom"
      BY <1>7 DEF InsertRoom, redis, At
    <2>1. CASE pc'[w] = "idle"
      <3>1. UNCHANGED rooms
        BY <1>1, <1>7, <2>1 DEF InsertRoom, Goto, Control
      <3> QED
        BY <2>0, <2>1, <3>1, RolesFree DEF StaleLabels, HandLabels, RoleLabels, RolesSound, Standing
    <2>2. CASE pc'[w] # "idle"
      <3>1. PICK r \in Rooms \ used :
              /\ rooms' = [rooms EXCEPT ![r] = [name |-> req[w].name, count |-> 0]]
              /\ room' = [room EXCEPT ![w] = r]
              /\ Goto(w, "insertOwner")
        BY <1>5, <1>7, <2>2 DEF InsertRoom
      <3>2. /\ pc'[w] = "insertOwner" /\ room'[w] = r
            /\ \A s \in Rooms : s # r => rooms'[s] = rooms[s]
        BY <1>1, <3>1 DEF Control, Stored, Goto
      <3>3. \A u \in Users : memberKey[<<r, u>>] = None
        BY <3>1, Unused
      <3>4. RolesAgree(w)'
        BY <2>0, <3>2, <3>3 DEF RolesSound, RolesAgree, Standing, StaleLabels
      <3>5. RoleAtHand(w)'
        BY <2>0, <3>2, <3>3 DEF RoleAtHand, Filling, Opening, RoleLabels, FillLabels
      <3> QED
        BY <3>4, <3>5 DEF RolesSound
    <2> QED
      BY <2>1, <2>2
  <1>8. CASE InsertOwner(w)
    <2>0. pc[w] = "insertOwner" /\ UNCHANGED memberKey /\ ~InsertRoom(w) /\ req[w].op = "create"
      BY <1>8 DEF InsertOwner, redis, At, InsertRoom, OnPath
    <2>1. CASE UNCHANGED db /\ Done(w, Failed)
      <3>1. Standing' = Standing /\ UNCHANGED roles /\ pc'[w] = "idle"
        BY <1>3, <1>5, <2>0, <2>1 DEF db
      <3> QED
        BY <2>0, <3>1, RolesFree DEF StaleLabels, HandLabels, RoleLabels, RolesSound
    <2>2. CASE SetRow(room[w], who[w], "OWNER") /\ Move(w, "insertOwner", "next")
      <3>1. Onto(w, "next") /\ \A u \in Users : memberKey[<<room[w], u>>] = None
        BY <1>4, <2>0, <2>2 DEF RolesSound, RoleAtHand, Opening
      <3>2. RolesAgree(w)'
        BY <1>1, <1>3, <2>0, <2>2, <3>1, AgreeWritten DEF SetRow, RolesSound, Onto, StaleLabels
      <3>3. RoleAtHand(w)'
        BY <2>0, <3>1 DEF RoleAtHand, Filling, Opening, Onto, RoleLabels, FillLabels
      <3> QED
        BY <3>2, <3>3 DEF RolesSound
    <2> QED
      BY <1>8, <2>1, <2>2 DEF InsertOwner
  <1>9. CASE NextMember(w)
    <2>0. pc[w] = "next" /\ UNCHANGED <<roles, memberKey>> /\ ~InsertRoom(w)
      BY <1>9 DEF NextMember, redis, db, At, InsertRoom
    <2>1. CASE Move(w, "next", "countMembers")
      BY <1>6, <2>0, <2>1 DEF StaleLabels, RoleLabels, FillLabels
    <2>2. CASE ~Move(w, "next", "countMembers")
      <3>1. /\ pc'[w] \in {"insertMember", "readMembers", "readRole", "next"}
            /\ pc'[w] \in {"insertMember", "next"} /\ req[w].op = "create" => pc'[w] = "insertMember"
            /\ UNCHANGED <<req[w], room[w]>>
        BY <1>1, <1>9, <2>0, <2>2 DEF NextMember, Goto, Control
      <3>2. RoleAtHand(w)'
        BY <2>0, <3>1 DEF RolesSound, RoleAtHand, Filling, Opening, RoleLabels, FillLabels
      <3>3. RolesAgree(w)'
        BY <1>3, <2>0, AgreeKept DEF RolesSound, StaleLabels
      <3> QED
        BY <3>2, <3>3 DEF RolesSound
    <2> QED
      BY <2>1, <2>2
  <1>10. CASE InsertMember(w)
    <2>0. pc[w] = "insertMember" /\ UNCHANGED memberKey /\ ~InsertRoom(w) /\ req[w].op \in {"create", "add"}
      BY <1>10 DEF InsertMember, redis, At, InsertRoom, OnPath
    <2>1. CASE UNCHANGED db /\ Move(w, "insertMember", "next")
      BY <1>6, <2>0, <2>1 DEF StaleLabels, RoleLabels, FillLabels, Opening, db
    <2>2. CASE SetRow(room[w], who[w], role[w]) /\ req[w].op = "create" /\ Move(w, "insertMember", "next")
      <3>1. Onto(w, "next") /\ \A u \in Users : memberKey[<<room[w], u>>] = None
        BY <1>4, <2>0, <2>2 DEF RolesSound, RoleAtHand, Opening
      <3>2. RolesAgree(w)'
        BY <1>1, <1>3, <2>0, <2>2, <3>1, AgreeWritten DEF SetRow, RolesSound, Onto, StaleLabels
      <3>3. RoleAtHand(w)'
        BY <2>0, <3>1 DEF RoleAtHand, Filling, Opening, Onto, RoleLabels, FillLabels
      <3> QED
        BY <3>2, <3>3 DEF RolesSound
    <2>3. CASE SetRow(room[w], who[w], role[w]) /\ req[w].op = "add" /\ Move(w, "insertMember", "selectNickname")
      <3>1. Onto(w, "selectNickname")
        BY <1>4, <2>3
      <3>2. RolesAgree(w)'
        BY <1>1, <1>3, <2>0, <2>3, <3>1, AgreeWritten DEF SetRow, RolesSound, Onto, StaleLabels
      <3>3. roles'[Key(w)] = role[w]
        BY <1>1, <2>0, <2>3 DEF SetRow, Key, Stored
      <3>4. RoleAtHand(w)'
        BY <2>0, <3>1, <3>3 DEF RoleAtHand, Filling, Opening, Onto, Key, RoleLabels, FillLabels
      <3> QED
        BY <3>2, <3>4 DEF RolesSound
    <2> QED
      BY <1>10, <2>1, <2>2, <2>3 DEF InsertMember
  <1>11. CASE SelectNickname(w)
    <2>1. Move(w, "selectNickname", "setInfo") /\ UNCHANGED <<roles, memberKey>> /\ ~InsertRoom(w)
      BY <1>11 DEF SelectNickname, InsertRoom, Move, At, db, redis
    <2>2. req[w].op = "add"
      BY <1>4, <2>1 DEF OnPath
    <2> QED
      BY <1>6, <2>1, <2>2 DEF StaleLabels, RoleLabels
  <1>12. CASE SetInfo(w)
    <2>0. /\ memberKey' \in Put(memberKey, Key(w), Info(role[w]))
          /\ ~InsertRoom(w) /\ UNCHANGED roles
      BY <1>12 DEF SetInfo, InsertRoom, Move, At, db
    <2>1. PICK m \in {"joinInfo", "joinAgain"} : Onto(w, m) /\ (m = "joinInfo" => pc[w] = "setInfo") /\ pc[w] \in {"setInfo", "setAgain"}
      BY <1>4, <1>12 DEF SetInfo
    <2>2. role[w] = roles[Key(w)]
      BY <2>1 DEF RolesSound, RoleAtHand, RoleLabels
    <2>3. RolesAgree(w)'
      BY <1>1, <1>3, <2>0, <2>1, <2>2, AgreeCached DEF RolesSound, Onto
    <2>4. RoleAtHand(w)'
      BY <2>0, <2>1, HandKept DEF RolesSound, RoleLabels, FillLabels, Filling
    <2> QED
      BY <2>3, <2>4 DEF RolesSound
  <1>13. CASE JoinInfo(w)
    <2>1. UNCHANGED <<roles, memberKey>> /\ ~InsertRoom(w)
      BY <1>13 DEF JoinInfo, InsertRoom, Move, At, db
    <2>2. CASE Move(w, "joinInfo", "putInfo")
      <3>1. pc[w] = "joinInfo"
        BY <1>4, <2>2
      <3> QED
        BY <1>6, <2>1, <2>2, <3>1 DEF StaleLabels, RoleLabels, FillLabels, Filling
    <2>3. CASE Move(w, "joinAgain", "putAgain") \/ Move(w, "joinCache", "putCache")
      BY <1>6, <2>1, <2>3 DEF StaleLabels, RoleLabels, FillLabels
    <2> QED
      BY <1>13, <2>2, <2>3 DEF JoinInfo
  <1>14. CASE PutRole(w)
    <2>0. memberKey' \in HSet(Key(w), role[w]) /\ ~InsertRoom(w) /\ UNCHANGED roles
      BY <1>14 DEF PutRole, InsertRoom, Move, At, db
    <2>1. PICK m \in {"setAgain", "delRoom", "fill", "joinCache", "dropList"} :
            /\ Onto(w, m)
            /\ pc[w] \in {"putInfo", "putAgain", "putCache"}
            /\ m = "fill" => pc[w] = "putInfo" /\ req[w].op = "get"
      BY <1>4, <1>14 DEF PutRole
    <2>2. role[w] = roles[Key(w)]
      BY <2>1 DEF RolesSound, RoleAtHand, RoleLabels
    <2>3. RolesAgree(w)'
      BY <1>1, <1>3, <2>0, <2>1, <2>2, AgreeCached DEF RolesSound, Onto, StaleLabels
    <2>4. RoleAtHand(w)'
      BY <2>0, <2>1, HandKept DEF RolesSound, RoleLabels, FillLabels, Filling
    <2> QED
      BY <2>3, <2>4 DEF RolesSound
  <1>15. CASE DropList(w)
    <2>1. UNCHANGED <<roles, memberKey>> /\ ~InsertRoom(w)
      BY <1>15 DEF DropList, InsertRoom, Move, At, db
    <2>2. CASE req[w].op \in {"add", "remove"} /\ Move(w, "dropList", "next")
      BY <1>6, <2>1, <2>2 DEF StaleLabels, RoleLabels, FillLabels
    <2>3. CASE Move(w, "dropList", "countMembers") \/ Move(w, "dropList", "tell")
      BY <1>6, <2>1, <2>3 DEF StaleLabels, RoleLabels, FillLabels
    <2> QED
      BY <1>15, <2>2, <2>3 DEF DropList
  <1>16. CASE DeleteMember(w)
    <2>0. /\ pc[w] = "deleteMember" /\ UNCHANGED memberKey /\ ~InsertRoom(w)
          /\ roles' = [roles EXCEPT ![Key(w)] = None]
      BY <1>16 DEF DeleteMember, redis, At, InsertRoom
    <2>1. CASE Move(w, "deleteMember", "leaveSet")
      <3>1. Onto(w, "leaveSet")
        BY <1>4, <2>1
      <3>2. RolesAgree(w)'
        BY <1>1, <1>3, <2>0, <3>1, AgreeWritten DEF RolesSound, Onto, StaleLabels, Key
      <3>3. RoleAtHand(w)'
        BY <3>1, HandFree DEF Onto, RoleLabels
      <3> QED
        BY <3>2, <3>3 DEF RolesSound
    <2>2. CASE roles[Key(w)] = None /\ KeepMember(w)
      <3>1. UNCHANGED roles
        BY <1>1, <2>0, <2>2 DEF Stored, Key
      <3>2. CASE Onto(w, "next") /\ req[w].op = "remove"
        <4>1. RoleAtHand(w)'
          BY <3>1, <3>2, HandKept DEF RolesSound, RoleLabels, FillLabels
        <4> QED
          BY <1>3, <2>0, <3>1, <3>2, <4>1, AgreeKept DEF RolesSound, StaleLabels
      <3>3. CASE pc'[w] = "idle"
        BY <1>3, <2>0, <3>1, <3>3, RolesFree DEF StaleLabels, HandLabels, RoleLabels, RolesSound
      <3> QED
        BY <1>1, <2>2, <3>2, <3>3, Moves
    <2> QED
      BY <1>16, <2>1, <2>2 DEF DeleteMember
  <1>17. CASE LeaveSet(w)
    <2>1. Move(w, "leaveSet", "delMember") /\ UNCHANGED <<roles, memberKey>> /\ ~InsertRoom(w)
      BY <1>17 DEF LeaveSet, InsertRoom, Move, At, db
    <2> QED
      BY <1>6, <2>1 DEF StaleLabels, RoleLabels, FillLabels
  <1>18. CASE DelMember(w)
    <2>1. /\ Onto(w, "dropList") /\ ~InsertRoom(w) /\ UNCHANGED roles
          /\ memberKey' = [memberKey EXCEPT ![Key(w)] = None] /\ pc[w] = "delMember"
      BY <1>4, <1>18 DEF DelMember, InsertRoom, Move, At, db, Put, Written
    <2>2. \A r \in Rooms, u \in Users :
            memberKey'[<<r, u>>] = IF r = room[w] /\ u = who[w] THEN None ELSE memberKey[<<r, u>>]
      BY <1>1, <2>1 DEF Cached, Key
    <2>3. RolesAgree(w)'
      BY <1>3, <2>1, <2>2 DEF RolesSound, RolesAgree, Standing
    <2> QED
      BY <2>1, <2>3, HandFree DEF RolesSound, RoleLabels, Onto
  <1>19. CASE CountMembers(w) \/ StoreCount(w) \/ ReadCached(w) \/ StoreCached(w)
    <2>1. UNCHANGED <<roles, memberKey>> /\ ~InsertRoom(w) /\ pc[w] \notin StaleLabels
      BY <1>19 DEF CountMembers, StoreCount, ReadCached, StoreCached, InsertRoom, At, db, redis, StaleLabels
    <2>2. pc'[w] \in {"storeCount", "readCached", "storeCached", "selectRoom", "idle"}
      <3>1. \A l : Goto(w, l) => pc'[w] = l
        BY <1>1 DEF Goto, Control
      <3>2. Counted(w) => pc'[w] \in {"selectRoom", "idle"}
        BY <1>1, Moves DEF Onto
      <3> QED
        BY <1>4, <1>19, <3>1, <3>2 DEF CountMembers, StoreCount, ReadCached, StoreCached, Onto
    <2> QED
      BY <1>3, <2>1, <2>2, RolesFree DEF HandLabels, RoleLabels, RolesSound
  <1> QED
    BY <1>7, <1>8, <1>9, <1>10, <1>11, <1>12, <1>13, <1>14, <1>15, <1>16, <1>17, <1>18,
       <1>19 DEF MemberStep

LEMMA RolesRoom ==
  ASSUME ~LossyRedis, ~Faults, Inv, TableSound, NEW w \in Workers, RoomStep(w), OnPath(w),
         RolesSound(w)
  PROVE  RolesSound(w)'
  <1>0. Step(w) /\ pc[w] # "idle"
    BY StepBusy DEF Step
  <1>1. /\ Control /\ Stored /\ Cached /\ Serves(w) /\ Read(w)
        /\ who[w] \in Users
        /\ pc[w] # "insertRoom" => room[w] \in Rooms
    BY <1>0, AtHand
  <1>2. ~InsertRoom(w)
    BY DEF RoomStep, ReadRoom, ReadIds, ReadInfo, SelectRoom, StoreRoom, SelectRows, Fill,
       UpdateRoom, UpdateRole, Reselect, ReadToTell, SelectToTell, Dissolve, DelRoom,
       DelMembers, Tell, Move, At, InsertRoom
  <1>3. ~Dissolve(w) => Standing' = Standing
    BY <1>0, <1>2, SameRooms
  <1>4. /\ \A l, m : Move(w, l, m) => pc[w] = l /\ Onto(w, m) /\ pc'[w] = m
        /\ \A r : Done(w, r) => pc'[w] = "idle"
        /\ \A l : Goto(w, l) => pc'[w] = l
    BY <1>1, Moves DEF Onto, Control, Goto
  <1>5. CASE ReadRoom(w) \/ ReadIds(w) \/ ReadInfo(w) \/ SelectRoom(w) \/ StoreRoom(w)
             \/ UpdateRoom(w) \/ ReadToTell(w) \/ SelectToTell(w) \/ DelRoom(w)
             \/ DelMembers(w) \/ Tell(w)
    <2>1. UNCHANGED <<roles, memberKey>> /\ ~Dissolve(w)
      BY <1>5 DEF ReadRoom, ReadIds, ReadInfo, SelectRoom, StoreRoom, UpdateRoom,
         ReadToTell, SelectToTell, DelRoom, DelMembers, Tell, db, redis, Dissolve, At, Move
    <2>2. pc[w] \notin StaleLabels /\ pc'[w] \notin HandLabels
      <3> USE <1>4 DEF StaleLabels, HandLabels, RoleLabels, At
      <3>1. CASE ReadRoom(w)  BY <3>1 DEF ReadRoom
      <3>2. CASE ReadIds(w)  BY <3>2 DEF ReadIds
      <3>3. CASE ReadInfo(w)
        <4>1. pc[w] = "readInfo" /\ (pc' = pc \/ pc'[w] \in {"idle", "selectRoom"})
          BY <3>3 DEF ReadInfo
        <4> QED
          BY <4>1
      <3>4. CASE SelectRoom(w)  BY <3>4 DEF SelectRoom
      <3>5. CASE StoreRoom(w)
        <4>1. Move(w, "storeRoom", "selectRows") => pc'[w] = "selectRows"
          OBVIOUS
        <4> QED
          BY <3>5, <4>1 DEF StoreRoom
      <3>6. CASE UpdateRoom(w)  BY <3>6 DEF UpdateRoom
      <3>7. CASE ReadToTell(w)  BY <3>7 DEF ReadToTell
      <3>8. CASE SelectToTell(w)  BY <3>8 DEF SelectToTell
      <3>9. CASE DelRoom(w)  BY <3>9 DEF DelRoom
      <3>10. CASE DelMembers(w)  BY <3>10 DEF DelMembers
      <3>11. CASE Tell(w)  BY <3>11 DEF Tell
      <3> QED
        BY ONLY <1>5, <3>1, <3>2, <3>3, <3>4, <3>5, <3>6, <3>7, <3>8, <3>9, <3>10, <3>11
    <2> QED
      BY <1>3, <2>1, <2>2, RolesFree DEF RolesSound
  <1>6. CASE SelectRows(w)
    <2>1. /\ pc[w] = "selectRows" /\ pc'[w] = "fill" /\ todo'[w] = RowsOf(room[w])
          /\ UNCHANGED <<roles, memberKey, room[w]>> /\ ~Dissolve(w)
      BY <1>1, <1>4, <1>6 DEF SelectRows, At, db, redis, Dissolve, Control
    <2>2. RoleAtHand(w)'
      BY <2>1 DEF RoleAtHand, Filling, Opening, RoleLabels, FillLabels, RowsOf
    <2> QED
      BY <1>3, <2>1, <2>2, AgreeKept DEF RolesSound, StaleLabels
  <1>7. CASE Fill(w)
    <2>1. pc[w] = "fill" /\ UNCHANGED <<roles, memberKey>> /\ ~Dissolve(w)
      BY <1>7 DEF Fill, At, db, redis, Dissolve
    <2>2. RolesAgree(w)'
      BY <1>3, <2>1, AgreeKept DEF RolesSound, StaleLabels
    <2>3. CASE pc'[w] = "idle"
      BY <2>2, <2>3, HandFree DEF RolesSound, RoleLabels
    <2>4. CASE pc'[w] # "idle"
      <3>1. PICK m \in todo[w] :
              /\ todo' = [todo EXCEPT ![w] = @ \ {m}]
              /\ who' = [who EXCEPT ![w] = m[1]]
              /\ role' = [role EXCEPT ![w] = m[2]]
              /\ pc'[w] = "setInfo"
              /\ UNCHANGED <<req, room>>
        BY <1>4, <1>7, <2>4 DEF Fill
      <3>2. /\ todo'[w] = todo[w] \ {m} /\ who'[w] = m[1] /\ role'[w] = m[2]
            /\ UNCHANGED <<req[w], room[w]>>
        BY <1>1, <3>1 DEF Control
      <3>3. todo[w] \subseteq RowsOf(room[w])
        BY <2>1 DEF RolesSound, RoleAtHand, Filling
      <3>4. roles[<<room[w], m[1]>>] = m[2]
        BY <3>1, <3>3 DEF RowsOf
      <3>5. todo'[w] \subseteq RowsOf(room[w])'
        BY <2>1, <3>2, <3>3 DEF RowsOf
      <3>6. RoleAtHand(w)'
        BY <2>1, <3>1, <3>2, <3>4, <3>5 DEF RoleAtHand, Opening, Key
      <3> QED
        BY <2>2, <3>6 DEF RolesSound
    <2> QED
      BY <2>3, <2>4
  <1>8. CASE UpdateRole(w)
    <2>1. pc[w] = "updateRole" /\ UNCHANGED memberKey /\ ~Dissolve(w)
      BY <1>8 DEF UpdateRole, At, redis, Dissolve
    <2>2. CASE UNCHANGED db /\ Done(w, Failed)
      <3>1. UNCHANGED roles /\ pc'[w] = "idle"
        BY <1>4, <2>2 DEF db
      <3> QED
        BY <1>3, <2>1, <3>1, RolesFree DEF StaleLabels, HandLabels, RoleLabels, RolesSound
    <2>3. CASE ~(UNCHANGED db /\ Done(w, Failed))
      <3>1. PICK m \in todo[w] :
              /\ SetRow(room[w], m[1], m[2])
              /\ who' = [who EXCEPT ![w] = m[1]]
              /\ pc'[w] = "reselect"
              /\ UNCHANGED room
        BY <1>4, <1>8, <2>3 DEF UpdateRole
      <3>2. /\ m[1] \in Users /\ m[2] \in Roles /\ who'[w] = m[1] /\ UNCHANGED room[w]
            /\ room[w] \in Rooms
        BY <1>1, <2>1, <3>1 DEF Control
      <3>3. RolesAgree(w)'
        BY <1>1, <1>3, <2>1, <3>1, <3>2, AgreeWritten DEF SetRow, RolesSound, StaleLabels
      <3>4. roles'[<<room[w], m[1]>>] = m[2]
        BY <1>1, <3>1, <3>2 DEF SetRow, Stored
      <3>5. RoleAtHand(w)'
        BY <3>1, <3>2, <3>4, NoneAssumption DEF RoleAtHand, Filling, Opening, RoleLabels, FillLabels, Key
      <3> QED
        BY <3>3, <3>5 DEF RolesSound
    <2> QED
      BY <2>2, <2>3
  <1>9. CASE Reselect(w)
    <2>1. roles[Key(w)] # None /\ pc[w] = "reselect" /\ req[w].op = "role"
      BY <1>9 DEF Reselect, At, RolesSound, RoleAtHand, OnPath
    <2>2. /\ role'[w] = roles[Key(w)] /\ pc'[w] = "setInfo"
          /\ UNCHANGED <<roles, memberKey, req[w], room[w], who[w]>> /\ ~Dissolve(w)
      BY <1>1, <1>4, <1>9, <2>1 DEF Reselect, db, redis, Dissolve, At, Control
    <2>3. RoleAtHand(w)'
      BY <2>1, <2>2 DEF RoleAtHand, Filling, Opening, Key
    <2> QED
      BY <1>3, <2>1, <2>2, <2>3, AgreeKept DEF RolesSound, StaleLabels
  <1>10. CASE Dissolve(w)
    <2>1. pc[w] = "dissolve" /\ UNCHANGED memberKey /\ pc'[w] \in {"delRoom", "idle"}
      BY <1>4, <1>10 DEF Dissolve, At, redis
    <2>2. RoleAtHand(w)'
      BY <2>1, HandFree DEF RoleLabels
    <2>3. /\ Standing' \subseteq Standing
          /\ \A r \in Standing', u \in Users : roles'[<<r, u>>] = roles[<<r, u>>]
      <3>1. CASE UNCHANGED <<rooms, roles>>
        BY <3>1 DEF Standing
      <3>2. CASE ~UNCHANGED <<rooms, roles>>
        <4>1. /\ rooms' = [rooms EXCEPT ![room[w]] = None]
              /\ roles' = [k \in Rooms \X Users |-> IF k[1] = room[w] THEN None ELSE roles[k]]
          BY <1>10, <3>2 DEF Dissolve
        <4>2. \A r \in Rooms : rooms'[r] = IF r = room[w] THEN None ELSE rooms[r]
          BY <1>1, <4>1 DEF Stored
        <4>3. \A r \in Rooms, u \in Users :
                roles'[<<r, u>>] = IF r = room[w] THEN None ELSE roles[<<r, u>>]
          BY <4>1
        <4> QED
          BY <4>2, <4>3 DEF Standing
      <3> QED
        BY <3>1, <3>2
    <2>4. RolesAgree(w)'
      BY <2>1, <2>3 DEF RolesSound, RolesAgree, StaleLabels
    <2> QED
      BY <2>2, <2>4 DEF RolesSound
  <1> QED
    BY <1>5, <1>6, <1>7, <1>8, <1>9, <1>10 DEF RoomStep

(* Arrivals and keys that run out take nothing away that was said. *)
LEMMA RolesStep ==
  ASSUME ~LossyRedis, ~Faults, Inv, TableSound, NEW w \in Workers, Workers = {w},
         OnPath(w), RolesSound(w), [Next]_vars
  PROVE  RolesSound(w)'
  <1>0. Control /\ Cached
    BY TypeParts DEF Inv
  <1>1. CASE Arrival(w)
    <2>1. /\ UNCHANGED <<db, redis>> /\ pc[w] = "idle"
          /\ pc'[w] \in {"insertRoom", "readMembers", "readRole", "readList", "validMembers", "listMembers"}
      BY <1>0, <1>1 DEF Arrival, CreateChatRoom, GetChatRoom, UpdateChatRoom, DissolveChatRoom,
         AddChatRoomMember, RemoveChatRoomMember, UpdateMemberRole, LeaveChatRoom,
         GetUserChats, IsValidChatMember, GetChatMembers, Receive, Goto, At, Control
    <2> QED
      BY <2>1, RolesFree DEF db, redis, Standing, StaleLabels, HandLabels, RoleLabels, RolesSound
  <1>2. CASE Step(w)
    BY <1>0, <1>2, RolesCheck, RolesMember, RolesRoom, RolesRead DEF Step, RolesSound
  <1>3. CASE Expiry
    <2>1. /\ UNCHANGED <<rooms, roles, pc, req, room, who, role, todo>>
          /\ \A k \in Rooms \X Users : memberKey'[k] = memberKey[k] \/ memberKey'[k] = None
      BY <1>0, <1>3 DEF Expiry, db, local, member, Cached
    <2>2. RolesAgree(w)'
      BY <2>1 DEF RolesSound, RolesAgree, Standing
    <2>3. pc[w] # "idle" /\ pc[w] # "insertRoom" => room[w] \in Rooms
      BY AtHand
    <2>4. RoleAtHand(w)'
      BY <2>1, <2>3 DEF RolesSound, RoleAtHand, Filling, Opening, Key, RowsOf
    <2> QED
      BY <2>2, <2>4 DEF RolesSound
  <1>4. CASE UNCHANGED vars
    BY <1>4 DEF vars, db, redis, local, member, RolesSound, RolesAgree, RoleAtHand, Standing,
       Filling, Opening, Key, RowsOf
  <1> QED
    BY <1>1, <1>2, <1>3, <1>4 DEF Next, SqlError, Crash

-----------------------------------------------------------------------------
(* Only a removal takes a row from a room that stays, and a room comes with *)
(* no rows and no keys.                                                     *)
LEMMA RowsStay ==
  ASSUME Inv, TableSound, NEW w \in Workers, Step(w)
  PROVE  /\ \A r \in Standing' : r \in Standing \/ r \in Rooms \ used
         /\ ~DeleteMember(w) => \A r \in Standing', u \in Users :
              roles[<<r, u>>] # None => roles'[<<r, u>>] # None
  <1>0. pc[w] # "idle"
    BY StepBusy
  <1>1. Control /\ Stored /\ Read(w) /\ who[w] \in Users /\ (pc[w] # "insertRoom" => room[w] \in Rooms)
    BY <1>0, AtHand
  <1>2. CASE ~InsertRoom(w) /\ ~Dissolve(w)
    <2>1. Standing' = Standing
      BY <1>2, SameRooms
    <2>2. ASSUME NEW r \in Rooms, NEW u \in Users, NEW x \in Roles, SetRow(r, u, x)
          PROVE  \A s \in Rooms, v \in Users : roles[<<s, v>>] # None => roles'[<<s, v>>] # None
      BY <1>1, <2>2, NoneAssumption DEF SetRow, Stored
    <2>3. CASE InsertOwner(w)
      BY <1>1, <2>1, <2>2, <2>3 DEF InsertOwner, At, Roles, Standing, db
    <2>4. CASE InsertMember(w)
      BY <1>1, <2>1, <2>2, <2>4 DEF InsertMember, At, Read, Standing, db
    <2>5. CASE UpdateRole(w)
      <3>1. PICK m \in todo[w] : SetRow(room[w], m[1], m[2]) \/ UNCHANGED db
        BY <2>5 DEF UpdateRole
      <3>2. m[1] \in Users /\ m[2] \in Roles /\ room[w] \in Rooms
        BY <1>1, <2>5, <3>1 DEF UpdateRole, At, Control
      <3> QED
        BY <2>1, <2>2, <3>1, <3>2 DEF db, Standing
    <2>6. CASE StoreCount(w) \/ UpdateRoom(w) \/ UNCHANGED db
      BY <2>1, <2>6 DEF StoreCount, UpdateRoom, db
    <2> QED
      BY <1>2, <2>1, <2>3, <2>4, <2>5, <2>6, WhoWrites DEF Writing
  <1>3. CASE InsertRoom(w)
    <2>1. UNCHANGED roles
      BY <1>3 DEF InsertRoom
    <2>2. CASE UNCHANGED rooms
      BY <2>1, <2>2 DEF Standing
    <2>3. CASE ~UNCHANGED rooms
      <3>1. PICK r \in Rooms \ used : rooms' = [rooms EXCEPT ![r] = [name |-> req[w].name, count |-> 0]]
        BY <1>3, <2>3 DEF InsertRoom
      <3>2. \A s \in Rooms : s # r => rooms'[s] = rooms[s]
        BY <1>1, <3>1 DEF Stored
      <3> QED
        BY <2>1, <3>2 DEF Standing
    <2> QED
      BY <2>2, <2>3
  <1>4. CASE Dissolve(w)
    <2>1. CASE UNCHANGED <<rooms, roles>>
      BY <2>1 DEF Standing
    <2>2. CASE ~UNCHANGED <<rooms, roles>>
      <3>1. /\ rooms' = [rooms EXCEPT ![room[w]] = None]
            /\ roles' = [k \in Rooms \X Users |-> IF k[1] = room[w] THEN None ELSE roles[k]]
        BY <1>4, <2>2 DEF Dissolve
      <3>2. \A r \in Rooms : rooms'[r] = IF r = room[w] THEN None ELSE rooms[r]
        BY <1>1, <3>1 DEF Stored
      <3>3. \A r \in Rooms, u \in Users :
              roles'[<<r, u>>] = IF r = room[w] THEN None ELSE roles[<<r, u>>]
        BY <3>1
      <3> QED
        BY <3>2, <3>3 DEF Standing
    <2> QED
      BY <2>1, <2>2
  <1> QED
    BY <1>2, <1>3, <1>4

(* The cached members are members, but for the one whose row was deleted   *)
(* and who is still to be taken out.                                       *)
MembersAgree(w) ==
  /\ \A r \in Standing, u \in Users : u \in membersKey[r] =>
       roles[<<r, u>>] # None \/ (pc[w] = "leaveSet" /\ r = room[w] /\ u = who[w])
  /\ pc[w] \in {"joinMembers", "validJoin"} => roles[Key(w)] # None
  /\ pc[w] = "joinAll" => \A m \in todo[w] : roles[<<room[w], m[1]>>] # None
Joining == {"joinMembers", "validJoin", "joinAll"}

LEMMA MembersKept ==
  ASSUME Inv, TableSound, NEW w \in Workers, MembersAgree(w), pc[w] # "leaveSet",
         Step(w), ~DeleteMember(w), pc'[w] \notin Joining,
         \A r \in Rooms : membersKey'[r] \subseteq membersKey[r]
  PROVE  MembersAgree(w)'
  <1>1. \A r \in Standing' : r \in Standing \/ membersKey[r] = {}
    BY RowsStay, Unused
  <1>2. \A r \in Standing', u \in Users : roles[<<r, u>>] # None => roles'[<<r, u>>] # None
    BY RowsStay
  <1>3. \A r \in Standing', u \in Users : u \in membersKey'[r] => u \in membersKey[r]
    BY DEF Standing
  <1> QED
    BY <1>1, <1>2, <1>3 DEF MembersAgree, Joining

LEMMA MembersJoined ==
  ASSUME Inv, TableSound, NEW w \in Workers, MembersAgree(w), pc[w] # "leaveSet",
         Step(w), ~DeleteMember(w), pc'[w] \notin Joining, NEW u \in Users,
         room[w] \in Rooms, roles[<<room[w], u>>] # None, ~LossyRedis, SAdd(room[w], u)
  PROVE  MembersAgree(w)'
  <1>1. \A r \in Standing' : r \in Standing \/ membersKey[r] = {}
    BY RowsStay, Unused
  <1>2. \A r \in Standing', v \in Users : roles[<<r, v>>] # None => roles'[<<r, v>>] # None
    BY RowsStay
  <1>3. membersKey' = [membersKey EXCEPT ![room[w]] = membersKey[room[w]] \cup {u}]
    BY DEF SAdd, Put, Written
  <1>4. \A r \in Standing', v \in Users : v \in membersKey'[r] =>
          v \in membersKey[r] \/ (r = room[w] /\ v = u)
    BY <1>3, TypeParts DEF Standing, Inv, Cached
  <1> QED
    BY <1>1, <1>2, <1>4 DEF MembersAgree, Joining

LEMMA MembersStep ==
  ASSUME ~LossyRedis, ~Faults, Inv, TableSound, NEW w \in Workers, Step(w), OnPath(w),
         RoleAtHand(w), MembersAgree(w)
  PROVE  MembersAgree(w)'
  <1>0. pc[w] # "idle"
    BY StepBusy
  <1>1. /\ Control /\ Stored /\ Cached /\ Serves(w) /\ Read(w)
        /\ who[w] \in Users
        /\ pc[w] # "insertRoom" => room[w] \in Rooms
    BY <1>0, AtHand
  <1>2. /\ \A l, m : Move(w, l, m) => pc[w] = l /\ Onto(w, m) /\ pc'[w] = m
        /\ \A r : Done(w, r) => pc'[w] = "idle"
        /\ \A l : Goto(w, l) => pc'[w] = l
        /\ Counted(w) => pc'[w] \in {"selectRoom", "idle"}
        /\ KeepMember(w) => pc'[w] \in {"next", "idle"}
    BY <1>1, Moves DEF Onto, Control, Goto
  <1>3. ASSUME NEW yes, Verdict(w, yes)
        PROVE  pc'[w] \notin Joining
    BY <1>1, <1>3, Moves, Onwards DEF Onto, Joining
  <1>4. Verdict(w, TRUE) \/ Verdict(w, FALSE) => pc'[w] \notin Joining
    BY <1>3, ZenonT(30)
  <1>5. ASSUME UNCHANGED membersKey, pc[w] # "leaveSet", ~DeleteMember(w), pc'[w] \notin Joining
        PROVE  MembersAgree(w)'
    BY <1>5, MembersKept
  <1>6. ASSUME NEW u \in Users, SAdd(room[w], u), roles[<<room[w], u>>] # None, pc[w] # "leaveSet",
               pc[w] # "insertRoom", ~DeleteMember(w), pc'[w] \notin Joining
        PROVE  MembersAgree(w)'
    BY <1>1, <1>6, MembersJoined
  <1>7. CASE JoinMembers(w)
    <2>1. pc[w] = "joinMembers" /\ SAdd(room[w], who[w]) /\ pc'[w] \notin Joining
      BY <1>4, <1>7 DEF JoinMembers, At
    <2> QED
      BY <1>1, <1>6, <2>1 DEF MembersAgree, Key, DeleteMember, At
  <1>8. CASE JoinInfo(w)
    <2>1. pc[w] \in {"joinInfo", "joinAgain", "joinCache"} /\ SAdd(room[w], who[w]) /\ pc'[w] \notin Joining
      BY <1>2, <1>8 DEF JoinInfo, Joining
    <2>2. role[w] = roles[Key(w)] /\ role[w] # None
      BY <1>1, <2>1, NoneAssumption DEF RoleAtHand, RoleLabels, Read, Stored
    <2> QED
      BY <1>1, <1>6, <2>1, <2>2 DEF Key, DeleteMember, At
  <1>9. CASE ValidJoin(w)
    <2>1. pc[w] = "validJoin" /\ SAdd(room[w], who[w]) /\ pc'[w] \notin Joining
      BY <1>2, <1>9 DEF ValidJoin, At, Joining
    <2> QED
      BY <1>1, <1>6, <2>1 DEF MembersAgree, Key, DeleteMember, At
  <1>10. CASE JoinAll(w)
    <2>1. pc[w] = "joinAll" /\ UNCHANGED db /\ room[w] \in Rooms
      BY <1>1, <1>10 DEF JoinAll, At
    <2>2. CASE Done(w, Answered(found[w])) /\ UNCHANGED membersKey
      BY <1>2, <1>5, <2>1, <2>2 DEF Joining, DeleteMember, At
    <2>3. CASE ~(Done(w, Answered(found[w])) /\ UNCHANGED membersKey)
      <3>1. PICK m \in todo[w] :
              /\ todo' = [todo EXCEPT ![w] = @ \ {m}]
              /\ SAdd(room[w], m[1])
              /\ UNCHANGED <<pc, req, room, who>>
        BY <1>10, <2>3 DEF JoinAll, member
      <3>2. todo'[w] = todo[w] \ {m}
        BY <1>1, <3>1 DEF Control
      <3>3. roles[<<room[w], m[1]>>] # None
        BY <2>1, <3>1 DEF MembersAgree
      <3>4. \A r \in Rooms : membersKey'[r] = membersKey[r] \/
                               (r = room[w] /\ membersKey'[r] = membersKey[r] \cup {m[1]})
        BY <1>1, <2>1, <3>1 DEF SAdd, Put, Written, Cached
      <3> QED
        BY <2>1, <3>1, <3>2, <3>3, <3>4 DEF MembersAgree, db, Standing
    <2> QED
      BY <2>2, <2>3
  <1>11. CASE LeaveSet(w)
    <2>1. /\ pc[w] = "leaveSet" /\ Onto(w, "delMember") /\ UNCHANGED db
          /\ membersKey' = [membersKey EXCEPT ![room[w]] = membersKey[room[w]] \ {who[w]}]
          /\ room[w] \in Rooms
          /\ UNCHANGED <<rooms, roles>>
      BY <1>1, <1>2, <1>11 DEF LeaveSet, Put, Written, db
    <2>2. \A r \in Rooms : membersKey'[r] = IF r = room[w] THEN membersKey[r] \ {who[w]} ELSE membersKey[r]
      BY <1>1, <2>1 DEF Cached
    <2>3. Standing' = Standing /\ pc'[w] = "delMember"
      BY <2>1 DEF Standing, Onto
    <2> QED
      BY <2>1, <2>2, <2>3, SMTT(30) DEF MembersAgree, Standing
  <1>12. CASE DelMembers(w)
    <2>1. /\ pc[w] = "delMembers" /\ pc'[w] \in {"tell", "idle"}
          /\ membersKey' = [membersKey EXCEPT ![room[w]] = {}]
      BY <1>2, <1>12 DEF DelMembers, Put, Written, At
    <2>2. \A r \in Rooms : membersKey'[r] \subseteq membersKey[r]
      BY <1>1, <2>1 DEF Cached
    <2>3. pc'[w] \notin Joining /\ ~DeleteMember(w)
      BY <2>1 DEF Joining, DeleteMember, At
    <2> QED
      BY <2>1, <2>2, <2>3, MembersKept
  <1>13. CASE DeleteMember(w)
    <2>1. /\ pc[w] = "deleteMember" /\ UNCHANGED <<membersKey, rooms>> /\ room[w] \in Rooms
          /\ roles' = [roles EXCEPT ![Key(w)] = None]
      BY <1>1, <1>13 DEF DeleteMember, redis, At
    <2>2. \A r \in Rooms, u \in Users :
            roles'[<<r, u>>] = IF r = room[w] /\ u = who[w] THEN None ELSE roles[<<r, u>>]
      BY <1>1, <2>1 DEF Stored, Key
    <2>3. CASE Move(w, "deleteMember", "leaveSet")
      BY <1>2, <2>1, <2>2, <2>3 DEF MembersAgree, Standing, Onto
    <2>4. CASE roles[Key(w)] = None /\ KeepMember(w)
      BY <1>2, <2>1, <2>2, <2>4 DEF MembersAgree, Standing, Key
    <2> QED
      BY <1>13, <2>3, <2>4 DEF DeleteMember
  <1>14. CASE SelectMember(w) \/ ValidSelect(w)
    <2>1. UNCHANGED <<rooms, roles, membersKey>> /\ pc[w] \in {"selectMember", "validSelect"}
      BY <1>14 DEF SelectMember, ValidSelect, db, redis, At
    <2>2. CASE pc'[w] \notin Joining
      BY <1>5, <2>1, <2>2 DEF DeleteMember, At
    <2>3. CASE pc'[w] \in Joining
      <3>1. ~Verdict(w, FALSE) /\ ~Done(w, Failed)
        BY <1>2, <1>4, <2>3 DEF Joining
      <3>2. /\ roles[Key(w)] # None
            /\ Move(w, "selectMember", "joinMembers") \/ Move(w, "validSelect", "validJoin")
        BY <1>14, <3>1 DEF SelectMember, ValidSelect
      <3>3. Onto(w, "joinMembers") \/ Onto(w, "validJoin")
        BY <1>2, <3>2
      <3> QED
        BY <2>1, <3>2, <3>3 DEF MembersAgree, Standing, Onto, Key
    <2> QED
      BY <2>2, <2>3
  <1>15. CASE SelectAll(w)
    <2>1. /\ UNCHANGED <<rooms, roles, membersKey>> /\ pc[w] = "selectAll" /\ pc'[w] = "joinAll"
          /\ UNCHANGED room[w] /\ todo'[w] = MembersOf(room[w]) \X {"MEMBER"}
      BY <1>1, <1>2, <1>15 DEF SelectAll, db, redis, At, Control
    <2>2. \A m \in todo'[w] : roles[<<room[w], m[1]>>] # None
      BY <2>1 DEF MembersOf
    <2> QED
      BY <2>1, <2>2 DEF MembersAgree, Standing
  <1>16. CASE CheckStep(w) /\ ~SelectMember(w) /\ ~JoinMembers(w)
    <2>1. UNCHANGED membersKey /\ pc[w] # "leaveSet" /\ ~DeleteMember(w)
      BY <1>16 DEF CheckStep, ReadRole, SelectRole, CacheRole, ReadMembers, ExistsMember,
         redis, DeleteMember, At
    <2>2. pc'[w] \notin Joining
      <3>1. CASE ReadRole(w)  BY <1>2, <1>3, <3>1 DEF ReadRole, Joining
      <3>2. CASE SelectRole(w)
        <4>1. Goto(w, "cacheRole") \/ Verdict(w, FALSE)
          BY <3>2 DEF SelectRole
        <4> QED
          BY <1>2, <1>4, <4>1 DEF Joining
      <3>3. CASE CacheRole(w)  BY <1>3, <3>3 DEF CacheRole
      <3>4. CASE ReadMembers(w)  BY <1>2, <1>3, <3>4 DEF ReadMembers, Joining
      <3>5. CASE ExistsMember(w)
        <4>1. Move(w, "existsMember", "selectMember") \/ Verdict(w, TRUE)
          BY <3>5 DEF ExistsMember
        <4>2. CASE Verdict(w, TRUE)  BY <1>4, <4>2, ZenonT(30)
        <4>3. CASE Move(w, "existsMember", "selectMember")  BY <1>2, <4>3 DEF Joining
        <4> QED
          BY ONLY <4>1, <4>2, <4>3
      <3> QED
        BY <1>16, <3>1, <3>2, <3>3, <3>4, <3>5 DEF CheckStep
    <2> QED
      BY <1>5, <2>1, <2>2
  <1>17. CASE MemberStep(w) /\ ~JoinInfo(w) /\ ~LeaveSet(w) /\ ~DeleteMember(w)
    <2>1. UNCHANGED membersKey /\ pc[w] # "leaveSet"
      BY <1>17 DEF MemberStep, InsertRoom, InsertOwner, NextMember, InsertMember,
         SelectNickname, SetInfo, PutRole, DropList, DelMember, CountMembers, StoreCount,
         ReadCached, StoreCached, redis, At, Move
    <2>2. pc'[w] \notin Joining
      <3> USE <1>2 DEF Joining
      <3>1. CASE InsertRoom(w)  BY <3>1 DEF InsertRoom
      <3>2. CASE InsertOwner(w)  BY <3>2 DEF InsertOwner
      <3>3. CASE NextMember(w)
        <4>1. pc[w] = "next" /\ (pc' = pc \/ pc'[w] \in {"countMembers", "insertMember", "readMembers", "readRole"})
          BY <3>3 DEF NextMember, At
        <4> QED
          BY <4>1
      <3>4. CASE InsertMember(w)  BY <3>4 DEF InsertMember
      <3>5. CASE SelectNickname(w)  BY <3>5 DEF SelectNickname
      <3>6. CASE SetInfo(w)  BY <3>6 DEF SetInfo
      <3>7. CASE PutRole(w)  BY <3>7 DEF PutRole
      <3>8. CASE DropList(w)  BY <3>8 DEF DropList
      <3>9. CASE DelMember(w)  BY <3>9 DEF DelMember
      <3>10. CASE CountMembers(w)  BY <3>10 DEF CountMembers
      <3>11. CASE StoreCount(w)  BY <3>11 DEF StoreCount
      <3>12. CASE ReadCached(w)  BY <3>12 DEF ReadCached
      <3>13. CASE StoreCached(w)  BY <3>13 DEF StoreCached
      <3> QED
        BY ONLY <1>17, <3>1, <3>2, <3>3, <3>4, <3>5, <3>6, <3>7, <3>8, <3>9, <3>10, <3>11,
           <3>12, <3>13 DEF MemberStep
    <2> QED
      BY <1>5, <1>17, <2>1, <2>2
  <1>18. CASE RoomStep(w) /\ ~DelMembers(w)
    <2>1. UNCHANGED membersKey /\ pc[w] # "leaveSet" /\ ~DeleteMember(w)
      BY <1>18 DEF RoomStep, ReadRoom, ReadIds, ReadInfo, SelectRoom, StoreRoom, SelectRows,
         Fill, UpdateRoom, UpdateRole, Reselect, ReadToTell, SelectToTell, Dissolve, DelRoom,
         Tell, redis, At, Move, DeleteMember
    <2>2. pc'[w] \notin Joining
      <3> USE <1>2 DEF Joining
      <3>1. CASE ReadRoom(w)  BY <3>1 DEF ReadRoom
      <3>2. CASE ReadIds(w)  BY <3>2 DEF ReadIds
      <3>3. CASE ReadInfo(w)
        <4>1. pc[w] = "readInfo" /\ (pc' = pc \/ pc'[w] \in {"idle", "selectRoom"})
          BY <3>3 DEF ReadInfo, At
        <4> QED
          BY <4>1
      <3>4. CASE SelectRoom(w)  BY <3>4 DEF SelectRoom
      <3>5. CASE StoreRoom(w)
        <4>1. Move(w, "storeRoom", "selectRows") => pc'[w] = "selectRows"
          OBVIOUS
        <4> QED
          BY <3>5, <4>1 DEF StoreRoom
      <3>6. CASE SelectRows(w)  BY <3>6 DEF SelectRows
      <3>7. CASE Fill(w)  BY <3>7 DEF Fill
      <3>8. CASE UpdateRoom(w)  BY <3>8 DEF UpdateRoom
      <3>9. CASE UpdateRole(w)  BY <3>9 DEF UpdateRole
      <3>10. CASE Reselect(w)  BY <3>10 DEF Reselect
      <3>11. CASE ReadToTell(w)  BY <3>11 DEF ReadToTell
      <3>12. CASE SelectToTell(w)  BY <3>12 DEF SelectToTell
      <3>13. CASE Dissolve(w)  BY <3>13 DEF Dissolve
      <3>14. CASE DelRoom(w)  BY <3>14 DEF DelRoom
      <3>15. CASE Tell(w)  BY <3>15 DEF Tell
      <3> QED
        BY ONLY <1>18, <3>1, <3>2, <3>3, <3>4, <3>5, <3>6, <3>7, <3>8, <3>9, <3>10, <3>11,
           <3>12, <3>13, <3>14, <3>15 DEF RoomStep
    <2> QED
      BY <1>5, <2>1, <2>2
  <1>19. CASE ReadList(w) \/ SelectRooms(w) \/ StoreList(w) \/ ValidMembers(w) \/ ListMembers(w)
    <2>1. UNCHANGED membersKey /\ pc[w] # "leaveSet" /\ ~DeleteMember(w)
      BY <1>19 DEF ReadList, SelectRooms, StoreList, ValidMembers, ListMembers, redis, At, DeleteMember
    <2>2. pc'[w] \notin Joining
      BY <1>2, <1>19 DEF ReadList, SelectRooms, StoreList, ValidMembers, ListMembers, Joining
    <2> QED
      BY <1>5, <2>1, <2>2
  <1> QED
    BY <1>7, <1>8, <1>9, <1>10, <1>11, <1>12, <1>13, <1>14, <1>15, <1>16, <1>17, <1>18,
       <1>19 DEF Step, ReadStep

-----------------------------------------------------------------------------
(* From a change of the members to the count, member_count may be behind.  *)
CountingLabels ==
  Asks \cup {"next", "insertMember", "selectNickname", "setInfo", "joinInfo", "putInfo", "setAgain",
             "joinAgain", "putAgain", "joinCache", "putCache", "dropList", "deleteMember",
             "leaveSet", "delMember", "countMembers", "storeCount"}
Counting(w) ==
  /\ pc[w] \in CountingLabels
  /\ req[w].op \in {"create", "add", "remove", "leave"}
  /\ pc[w] \in Asks => \/ req[w].op = "add" /\ check[w] = "member"
                       \/ req[w].op = "remove" /\ check[w] = "owner"
  /\ pc[w] = "deleteMember" => req[w].op # "leave"

CountsAgree(w) ==
  /\ \A r \in Standing :
       rooms[r].count = Cardinality(MembersOf(r)) \/ (Counting(w) /\ r = room[w])
  /\ pc[w] = "storeCount" => count[w] = Cardinality(MembersOf(room[w]))

(* Where the stored room was changed and the cached one not yet. *)
RoomStale(w) ==
  \/ pc[w] \in {"readCached", "storeCached"}
  \/ pc[w] \in {"selectRoom", "storeRoom"} /\ req[w].op = "update"
  \/ pc[w] = "delRoom" /\ req[w].op = "dissolve"

RoomsAgree(w) ==
  /\ \A r \in Rooms : roomKey[r] # None =>
       roomKey[r] = rooms[r] \/ (RoomStale(w) /\ r = room[w])
  /\ pc[w] = "readCached" /\ roomKey[room[w]] # None =>
       [roomKey[room[w]] EXCEPT !.count = count[w]] = rooms[room[w]]
  /\ pc[w] \in {"storeCached", "storeRoom"} => row[w] = rooms[room[w]]
  /\ pc[w] = "selectRoom" /\ req[w].op = "update" => rooms[room[w]] # None

(* Nothing that is counted changes, and who is counting goes on. *)
LEMMA CountsKept ==
  ASSUME NEW w, CountsAgree(w), pc'[w] # "storeCount",
         Standing' \subseteq Standing,
         \A r \in Standing' : rooms'[r].count = rooms[r].count,
         \A r \in Standing', u \in Users : roles[<<r, u>>] # None <=> roles'[<<r, u>>] # None,
         Counting(w) => Counting(w)' /\ UNCHANGED room[w]
  PROVE  CountsAgree(w)'
  <1>1. ASSUME NEW r \in Standing'
        PROVE  MembersOf(r)' = MembersOf(r)
    BY <1>1 DEF MembersOf
  <1> QED
    BY <1>1 DEF CountsAgree

(* The members of one room change, and its count is still to come. *)
LEMMA CountsBehind ==
  ASSUME NEW w, CountsAgree(w), UNCHANGED <<rooms, room[w]>>, Counting(w)', pc'[w] # "storeCount",
         \A r \in Standing, u \in Users : r # room[w] => roles'[<<r, u>>] = roles[<<r, u>>]
  PROVE  CountsAgree(w)'
  <1>1. Standing' = Standing
    BY DEF Standing
  <1>2. ASSUME NEW r \in Standing, r # room[w]
        PROVE  MembersOf(r)' = MembersOf(r)
    BY <1>2 DEF MembersOf
  <1> QED
    BY <1>1, <1>2 DEF CountsAgree

LEMMA RoomsFree ==
  ASSUME NEW w, RoomsAgree(w), UNCHANGED rooms,
         \A r \in Rooms : roomKey'[r] = roomKey[r] \/ roomKey'[r] = None,
         ~RoomStale(w), pc'[w] \notin {"readCached", "storeCached", "storeRoom"},
         pc'[w] = "selectRoom" => req'[w].op # "update"
  PROVE  RoomsAgree(w)'
  BY DEF RoomsAgree

(* Who is counting goes on to the count, and where a check leads. *)
AsksOn(w) ==
  /\ Counting(w) => Counting(w)' /\ UNCHANGED room[w]
  /\ pc'[w] \in Asks \cup {"idle", "readRoom", "updateRoom", "readToTell", "updateRole",
                           "next", "insertMember", "deleteMember"}

LEMMA CheckCounting ==
  ASSUME Control, NEW w \in Workers, CheckStep(w)
  PROVE  AsksOn(w) /\ pc[w] \in Asks
  <1>1. ASSUME NEW yes, Verdict(w, yes)
        PROVE  pc'[w] \in Asks \cup {"idle", "readRoom", "updateRoom", "readToTell", "updateRole",
                                     "next", "insertMember", "deleteMember"}
    BY <1>1, Moves, Onwards DEF Onto, Asks, RoleAsks
  <1>2. ASSUME NEW yes, Verdict(w, yes), pc[w] \in Asks, Counting(w)
        PROVE  Counting(w)' /\ UNCHANGED room[w]
    <2> DEFINE m == Onward(req[w].op, check[w], yes)
    <2>1. /\ req[w].op = "add" /\ check[w] = "member" => m \in {"next", "insertMember"}
          /\ req[w].op = "remove" /\ check[w] = "owner" => m \in {"next", "deleteMember"}
      BY DEF Onward
    <2>2. m \in {"next", "insertMember", "deleteMember"} /\ Onto(w, m) /\ req[w].op \in {"add", "remove"}
      BY <1>2, <2>1, Moves DEF Counting
    <2> QED
      BY <2>2 DEF Onto, Counting, CountingLabels, Asks, RoleAsks, MemberAsks
  <1>3. ASSUME NEW l, NEW m, Move(w, l, m), m \in Asks
        PROVE  /\ Counting(w) /\ l \in Asks => Counting(w)' /\ UNCHANGED room[w]
               /\ pc'[w] \in Asks
    BY <1>3, Moves DEF Onto, Counting, CountingLabels
  <1>4. pc[w] \in Asks
    BY DEF CheckStep, ReadRole, SelectRole, CacheRole, ReadMembers, ExistsMember,
       SelectMember, JoinMembers, At, Asks, RoleAsks, MemberAsks
  <1> SUFFICES AsksOn(w)
    BY <1>4
  <1>5. ASSUME NEW yes, Verdict(w, yes)
        PROVE  AsksOn(w)
    BY <1>1, <1>2, <1>4, <1>5 DEF AsksOn
  <1>6. ASSUME NEW l, NEW m, Move(w, l, m), m \in Asks
        PROVE  AsksOn(w)
    BY <1>3, <1>4, <1>6, Moves DEF AsksOn
  <1>8. Verdict(w, TRUE) \/ Verdict(w, FALSE) => AsksOn(w)
    BY <1>5, ZenonT(30)
  <1>9. CASE ReadRole(w)
    <2>1. Move(w, "readRole", "selectRole") => AsksOn(w)
      BY <1>6 DEF Asks, RoleAsks
    <2> QED
      BY <1>5, <1>9, <2>1 DEF ReadRole
  <1>10. CASE SelectRole(w)
    <2>1. CASE Verdict(w, FALSE)  BY <1>8, <2>1, ZenonT(30)
    <2>2. CASE ~Verdict(w, FALSE)
      <3>1. pc'[w] = "cacheRole" /\ UNCHANGED <<req[w], room[w], check[w]>>
        BY <1>10, <2>2 DEF SelectRole, Goto, Control
      <3> QED
        BY <1>4, <3>1 DEF AsksOn, Counting, CountingLabels, Asks, RoleAsks
    <2> QED
      BY <2>1, <2>2
  <1>11. CASE CacheRole(w)  BY <1>5, <1>11 DEF CacheRole
  <1>12. CASE ReadMembers(w)
    <2>1. Move(w, "readMembers", "existsMember") => AsksOn(w)
      BY <1>6 DEF Asks, MemberAsks
    <2> QED
      BY <1>5, <1>12, <2>1 DEF ReadMembers
  <1>13. CASE ExistsMember(w)
    <2>1. Verdict(w, TRUE) \/ Move(w, "existsMember", "selectMember")
      BY <1>13 DEF ExistsMember
    <2>2. Move(w, "existsMember", "selectMember") => AsksOn(w)
      BY <1>6 DEF Asks, MemberAsks
    <2> QED
      BY ONLY <1>8, <2>1, <2>2, ZenonT(30)
  <1>14. CASE SelectMember(w)
    <2>1. Verdict(w, FALSE) \/ Move(w, "selectMember", "joinMembers")
      BY <1>14 DEF SelectMember
    <2>2. Move(w, "selectMember", "joinMembers") => AsksOn(w)
      BY <1>6 DEF Asks, MemberAsks
    <2> QED
      BY ONLY <1>8, <2>1, <2>2, ZenonT(30)
  <1>15. CASE JoinMembers(w)
    <2>1. Verdict(w, TRUE)
      BY <1>15 DEF JoinMembers
    <2> QED
      BY ONLY <1>8, <2>1, ZenonT(30)
  <1> QED
    BY <1>4, <1>9, <1>10, <1>11, <1>12, <1>13, <1>14, <1>15 DEF CheckStep

LEMMA MemberCounting ==
  ASSUME Control, NEW w \in Workers, MemberStep(w), Counting(w), ~StoreCount(w), OnPath(w),
         DeleteMember(w) => Move(w, "deleteMember", "leaveSet") \/ KeepMember(w), ~Faults
  PROVE  Counting(w)' /\ UNCHANGED room[w]
  <1>1. /\ \A l, m : Move(w, l, m) => pc[w] = l /\ pc'[w] = m /\ UNCHANGED <<room[w], req[w]>>
        /\ KeepMember(w) =>
             \/ req[w].op = "remove" /\ pc'[w] = "next" /\ UNCHANGED <<room[w], req[w]>>
             \/ req[w].op = "leave" /\ pc'[w] = "idle"
    BY Moves DEF Onto
  <1> USE <1>1 DEF Counting, CountingLabels, Asks, RoleAsks, MemberAsks
  <1>2. ASSUME NEW l, NEW m, Move(w, l, m), m \in CountingLabels \ (Asks \cup {"deleteMember"})
        PROVE  Counting(w)' /\ UNCHANGED room[w]
    BY <1>2
  <1>3. CASE NextMember(w)
    <2>1. CASE Move(w, "next", "countMembers")
      BY <1>2, <2>1
    <2>2. CASE ~Move(w, "next", "countMembers")
      <3>1. /\ UNCHANGED <<req[w], room[w]>>
            /\ \/ pc'[w] = "insertMember"
               \/ req[w].op = "add" /\ pc'[w] = "readMembers" /\ check'[w] = "member"
               \/ req[w].op = "remove" /\ pc'[w] = "readRole" /\ check'[w] = "owner"
               \/ pc'[w] = "next"
        BY <1>3, <2>2 DEF NextMember, Goto, Control, At
      <3> QED
        BY <3>1
    <2> QED
      BY <2>1, <2>2
  <1>4. CASE InsertMember(w)  BY <1>2, <1>4 DEF InsertMember
  <1>5. CASE SelectNickname(w)  BY <1>2, <1>5 DEF SelectNickname
  <1>6. CASE SetInfo(w)  BY <1>2, <1>6 DEF SetInfo
  <1>7. CASE JoinInfo(w)  BY <1>2, <1>7 DEF JoinInfo
  <1>8. CASE PutRole(w)  BY <1>2, <1>8 DEF PutRole
  <1>9. CASE DropList(w)  BY <1>2, <1>9 DEF DropList
  <1>10. CASE DeleteMember(w)
    <2>1. pc[w] = "deleteMember"
      BY <1>10 DEF DeleteMember, At
    <2> QED
      BY <1>2, <1>10, <2>1
  <1>11. CASE LeaveSet(w)  BY <1>2, <1>11 DEF LeaveSet
  <1>12. CASE DelMember(w)  BY <1>2, <1>12 DEF DelMember
  <1>13. CASE CountMembers(w)
    <2>1. pc'[w] = "storeCount" /\ UNCHANGED <<req[w], room[w]>>
      BY <1>13 DEF CountMembers, Goto, Control
    <2> QED
      BY <2>1
  <1>14. CASE InsertRoom(w) \/ InsertOwner(w) \/ ReadCached(w) \/ StoreCached(w)
    BY <1>14 DEF InsertRoom, InsertOwner, ReadCached, StoreCached, At
  <1> QED
    BY <1>3, <1>4, <1>5, <1>6, <1>7, <1>8, <1>9, <1>10, <1>11, <1>12, <1>13, <1>14
       DEF MemberStep

(* The labels where a worker has a stored room at hand, and those that may *)
(* leave the cached one behind.                                            *)
RoomLabels == {"readCached", "storeCached", "selectRoom", "storeRoom", "delRoom"}

(* A step that changes neither the stored rooms nor their keys, apart from *)
(* the labels of RoomLabels.                                               *)
LEMMA RoomsAside ==
  ASSUME NEW w, RoomsAgree(w), UNCHANGED <<rooms, roomKey>>, pc[w] \notin RoomLabels,
         pc'[w] \notin RoomLabels \/ pc'[w] = "delRoom"
                                  \/ (pc'[w] = "selectRoom" /\ req'[w].op # "update")
  PROVE  RoomsAgree(w)'
  BY RoomsFree DEF RoomLabels, RoomStale

LEMMA CountsMember ==
  ASSUME ~LossyRedis, ~Faults, Inv, TableSound, NEW w \in Workers, MemberStep(w), OnPath(w),
         CountsAgree(w), RoomsAgree(w)
  PROVE  CountsAgree(w)' /\ RoomsAgree(w)'
  <1>0. Step(w) /\ pc[w] # "idle"
    BY StepBusy DEF Step
  <1>1. /\ Control /\ Stored /\ Cached
        /\ who[w] \in Users
        /\ pc[w] # "insertRoom" => room[w] \in Rooms
    BY <1>0, AtHand
  <1>2. /\ \A l, m : Move(w, l, m) => pc[w] = l /\ Onto(w, m) /\ pc'[w] = m /\ UNCHANGED <<room[w], req[w]>>
        /\ \A r : Done(w, r) => pc'[w] = "idle"
        /\ \A l : Goto(w, l) => pc'[w] = l
        /\ Counted(w) => \/ req[w].op = "create" /\ pc'[w] = "selectRoom"
                            /\ UNCHANGED <<room[w], req[w]>>
                         \/ pc'[w] = "idle"
    BY <1>1, Moves DEF Onto, Control, Goto
  <1>3. ASSUME UNCHANGED <<rooms, roomKey>>, pc[w] \notin RoomLabels,
               pc'[w] \notin RoomLabels \ {"delRoom"}
        PROVE  RoomsAgree(w)'
    BY <1>3, RoomsAside
  <1>4. ASSUME UNCHANGED <<rooms, roles>>, ~Counting(w) \/ (Counting(w)' /\ UNCHANGED room[w]),
               pc'[w] # "storeCount"
        PROVE  CountsAgree(w)'
    BY <1>4, CountsKept DEF Standing
  <1>5. CASE InsertRoom(w)
    <2>0. pc[w] = "insertRoom" /\ UNCHANGED <<roles, roomKey>> /\ ~Counting(w) /\ ~RoomStale(w)
      BY <1>5 DEF InsertRoom, At, redis, Counting, CountingLabels, Asks, RoleAsks, MemberAsks, RoomStale
    <2>1. CASE pc'[w] = "idle"
      <3>1. UNCHANGED rooms
        BY <1>1, <1>5, <2>1 DEF InsertRoom, Goto, Control
      <3> QED
        BY <1>3, <1>4, <2>0, <2>1, <3>1 DEF RoomLabels
    <2>2. CASE pc'[w] # "idle"
      <3>1. PICK r \in Rooms \ used :
              /\ rooms' = [rooms EXCEPT ![r] = [name |-> req[w].name, count |-> 0]]
              /\ room' = [room EXCEPT ![w] = r]
              /\ pc'[w] = "insertOwner"
        BY <1>2, <1>5, <2>2 DEF InsertRoom
      <3>2. /\ room'[w] = r /\ rooms'[r].count = 0
            /\ \A s \in Rooms : s # r => rooms'[s] = rooms[s]
        BY <1>1, <3>1 DEF Control, Stored
      <3>3. rooms[r] = None /\ \A u \in Users : roles[<<r, u>>] = None
        BY <3>1, Unused
      <3>4. MembersOf(r)' = {} /\ \A s \in Rooms : MembersOf(s)' = MembersOf(s)
        BY <2>0, <3>1, <3>3 DEF MembersOf
      <3>5. rooms'[r].count = Cardinality(MembersOf(r))'
        BY <3>2, <3>4, FS_EmptySet
      <3>6. CountsAgree(w)'
        BY <2>0, <3>1, <3>2, <3>4, <3>5 DEF CountsAgree, Standing
      <3>7. RoomsAgree(w)'
        BY <2>0, <3>1, <3>2, <3>3 DEF RoomsAgree
      <3> QED
        BY <3>6, <3>7
    <2> QED
      BY <2>1, <2>2
  <1>6. CASE InsertOwner(w)
    <2>0. pc[w] = "insertOwner" /\ UNCHANGED <<rooms, roomKey>> /\ ~Counting(w) /\ req[w].op = "create"
          /\ room[w] \in Rooms
      BY <1>1, <1>6 DEF InsertOwner, SetRow, db, redis, At, Counting, CountingLabels, Asks, RoleAsks, MemberAsks, OnPath
    <2>1. pc'[w] \in {"next", "idle"}
      BY <1>2, <1>6 DEF InsertOwner
    <2>2. RoomsAgree(w)'
      BY <1>3, <2>0, <2>1 DEF RoomLabels
    <2>3. CASE UNCHANGED db
      BY <1>4, <2>0, <2>1, <2>2, <2>3 DEF db
    <2>4. CASE SetRow(room[w], who[w], "OWNER") /\ Move(w, "insertOwner", "next")
      <3>1. Counting(w)' /\ UNCHANGED room[w] /\ pc'[w] = "next"
        BY <1>2, <2>0, <2>4 DEF Counting, CountingLabels, Asks, RoleAsks, MemberAsks
      <3>2. \A r \in Rooms, u \in Users : r # room[w] => roles'[<<r, u>>] = roles[<<r, u>>]
        BY <1>1, <2>4 DEF SetRow, Stored
      <3> QED
        BY <2>0, <2>2, <3>1, <3>2, CountsBehind DEF Standing
    <2> QED
      BY <1>6, <2>3, <2>4 DEF InsertOwner
  <1>7. CASE InsertMember(w) \/ DeleteMember(w)
    <2>0. /\ pc[w] \in {"insertMember", "deleteMember"} /\ UNCHANGED <<rooms, roomKey>>
          /\ room[w] \in Rooms
      BY <1>1, <1>7 DEF InsertMember, DeleteMember, SetRow, db, redis, At
    <2>1. pc'[w] \in {"next", "selectNickname", "leaveSet", "idle"}
      BY <1>2, <1>7 DEF InsertMember, DeleteMember, KeepMember
    <2>2. RoomsAgree(w)'
      BY <1>3, <2>0, <2>1 DEF RoomLabels
    <2>3. \A r \in Rooms, u \in Users : r # room[w] => roles'[<<r, u>>] = roles[<<r, u>>]
      BY <1>1, <1>7 DEF InsertMember, DeleteMember, SetRow, db, Stored, Key
    <2>4. CASE Counting(w)' /\ UNCHANGED room[w]
      BY <2>0, <2>1, <2>2, <2>3, <2>4, CountsBehind DEF Standing
    <2>5. CASE Counting(w)
      <3>1. ~StoreCount(w)
        BY <2>0 DEF StoreCount, At
      <3>2. DeleteMember(w) => Move(w, "deleteMember", "leaveSet") \/ KeepMember(w)
        BY DEF DeleteMember
      <3> QED
        BY <1>1, <2>4, <2>5, <3>1, <3>2, MemberCounting
    <2>6. CASE ~Counting(w)
      <3>1. pc[w] = "deleteMember" /\ req[w].op = "leave"
        BY <2>0, <2>6 DEF Counting, CountingLabels, Asks, RoleAsks, MemberAsks, OnPath
      <3>2. CASE Move(w, "deleteMember", "leaveSet")
        BY <1>2, <2>4, <3>1, <3>2 DEF Counting, CountingLabels, Asks, RoleAsks, MemberAsks
      <3>3. CASE roles[Key(w)] = None /\ KeepMember(w)
        <4>1. UNCHANGED roles
          BY <1>1, <1>7, <3>1, <3>3 DEF InsertMember, DeleteMember, At, Stored, Key
        <4> QED
          BY <1>4, <2>0, <2>1, <2>2, <2>6, <4>1
      <3> QED
        BY <1>7, <3>1, <3>2, <3>3 DEF InsertMember, DeleteMember, At
    <2> QED
      BY <2>5, <2>6
  <1>8. CASE CountMembers(w)
    <2>1. /\ pc[w] = "countMembers" /\ pc'[w] = "storeCount" /\ UNCHANGED <<rooms, roles, roomKey, room[w], req[w]>>
          /\ count'[w] = Cardinality(MembersOf(room[w]))
      BY <1>1, <1>2, <1>8 DEF CountMembers, db, redis, At, Control
    <2>2. Counting(w) => Counting(w)'
      BY <1>1, <2>1, MemberCounting DEF StoreCount, At, DeleteMember
    <2>3. CountsAgree(w)'
      BY <2>1, <2>2 DEF CountsAgree, Standing, MembersOf
    <2> QED
      BY <1>3, <2>1, <2>3 DEF RoomLabels
  <1>9. CASE StoreCount(w)
    <2>1. pc[w] = "storeCount" /\ UNCHANGED <<roles, roomKey>> /\ room[w] \in Rooms
      BY <1>1, <1>9 DEF StoreCount, redis, At
    <2>2. count[w] = Cardinality(MembersOf(room[w]))
      BY <2>1 DEF CountsAgree
    <2>3. CASE rooms[room[w]] = None
      <3>1. UNCHANGED rooms /\ Counted(w)
        BY <1>9, <2>3 DEF StoreCount
      <3>2. room[w] \notin Standing
        BY <2>3 DEF Standing
      <3>3. pc'[w] # "storeCount" /\ pc'[w] \in {"selectRoom", "idle"}
        BY <1>2, <3>1
      <3>4. CountsAgree(w)'
        BY <2>1, <3>1, <3>2, <3>3 DEF CountsAgree, Standing, MembersOf
      <3>5. RoomsAgree(w)'
        BY <1>2, <2>1, <3>1, RoomsAside DEF RoomLabels
      <3> QED
        BY <3>4, <3>5
    <2>4. CASE rooms[room[w]] # None
      <3>1. Move(w, "storeCount", "readCached")
        BY <1>9, <2>4 DEF StoreCount
      <3>a. rooms' = [rooms EXCEPT ![room[w]].count = count[w]]
        BY <1>9, <2>4, ZenonT(30) DEF StoreCount
      <3>2. /\ pc'[w] = "readCached" /\ UNCHANGED <<room[w], req[w], count[w]>>
        BY <1>2, <3>1 DEF Onto
      <3>3. rooms[room[w]] \in Row
        BY <1>1, <2>1, <2>4 DEF Stored
      <3>4. /\ rooms'[room[w]] = [rooms[room[w]] EXCEPT !.count = count[w]]
            /\ rooms'[room[w]].count = count[w]
            /\ \A r \in Rooms : r # room[w] => rooms'[r] = rooms[r]
        BY <1>1, <2>1, <3>a, <3>3 DEF Stored, Row
      <3>5. \A r \in Rooms : MembersOf(r)' = MembersOf(r)
        BY <2>1 DEF MembersOf
      <3>6. CountsAgree(w)'
        <4>1. ASSUME NEW r \in Standing'
              PROVE  rooms'[r].count = Cardinality(MembersOf(r)')
          <5>1. r \in Rooms /\ MembersOf(r)' = MembersOf(r)
            BY <3>5 DEF Standing
          <5>2. CASE r = room[w]
            BY <2>2, <3>4, <5>1, <5>2
          <5>3. CASE r # room[w]
            <6>1. r \in Standing /\ rooms'[r] = rooms[r]
              BY <3>4, <5>1, <5>3 DEF Standing
            <6> QED
              BY <5>1, <5>3, <6>1 DEF CountsAgree
          <5> QED
            BY <5>2, <5>3
        <4> QED
          BY <3>2, <4>1 DEF CountsAgree
      <3>7. ~RoomStale(w) /\ RoomStale(w)'
        BY <2>1, <3>2 DEF RoomStale
      <3>8. RoomsAgree(w)'
        BY <2>1, <3>2, <3>4, <3>7 DEF RoomsAgree
      <3> QED
        BY <3>6, <3>8
    <2> QED
      BY <2>3, <2>4
  <1>10. CASE ReadCached(w)
    <2>1. pc[w] = "readCached" /\ UNCHANGED <<rooms, roles, roomKey>> /\ room[w] \in Rooms /\ ~Counting(w)
      BY <1>1, <1>10 DEF ReadCached, db, redis, At, Counting, CountingLabels, Asks, RoleAsks, MemberAsks
    <2>2. pc'[w] \in {"storeCached", "selectRoom", "idle"}
      BY <1>2, <1>10 DEF ReadCached
    <2>3. CountsAgree(w)'
      BY <1>4, <2>1, <2>2
    <2>4. CASE roomKey[room[w]] # None
      <3>1. /\ row' = [row EXCEPT ![w] = [roomKey[room[w]] EXCEPT !.count = count[w]]]
            /\ pc'[w] = "storeCached" /\ UNCHANGED <<room, req>>
        BY <1>2, <1>10, <2>4 DEF ReadCached, Seen
      <3>2. row'[w] = [roomKey[room[w]] EXCEPT !.count = count[w]]
        BY <1>1, <3>1 DEF Control
      <3>3. RoomsAgree(w)'
        BY <2>1, <2>4, <3>1, <3>2 DEF RoomsAgree, RoomStale
      <3> QED
        BY <2>3, <3>3
    <2>5. CASE roomKey[room[w]] = None
      <3>1. Counted(w)
        BY <1>10, <2>5 DEF ReadCached, Seen
      <3>2. RoomsAgree(w)'
        BY <1>2, <2>1, <2>5, <3>1 DEF RoomsAgree
      <3> QED
        BY <2>3, <3>2
    <2> QED
      BY <2>4, <2>5
  <1>11. CASE StoreCached(w)
    <2>1. /\ pc[w] = "storeCached" /\ UNCHANGED <<rooms, roles>> /\ room[w] \in Rooms /\ ~Counting(w)
          /\ roomKey' = [roomKey EXCEPT ![room[w]] = row[w]]
      BY <1>1, <1>11 DEF StoreCached, db, At, Counting, CountingLabels, Asks, RoleAsks, MemberAsks, Put, Written
    <2>2. pc'[w] = "idle" \/ (pc'[w] = "selectRoom" /\ req'[w].op = "create")
      BY <1>2, <1>11 DEF StoreCached
    <2>3. \A r \in Rooms : roomKey'[r] = IF r = room[w] THEN rooms[r] ELSE roomKey[r]
      BY <1>1, <2>1 DEF RoomsAgree, Cached
    <2>4. RoomsAgree(w)'
      BY <2>1, <2>2, <2>3 DEF RoomsAgree
    <2> QED
      BY <1>4, <2>1, <2>2, <2>4
  <1>12. CASE NextMember(w) \/ SelectNickname(w) \/ SetInfo(w) \/ JoinInfo(w) \/ PutRole(w)
              \/ DropList(w) \/ LeaveSet(w) \/ DelMember(w)
    <2>1. UNCHANGED <<rooms, roles, roomKey>>
      BY <1>12 DEF NextMember, SelectNickname, SetInfo, JoinInfo, PutRole, DropList,
         LeaveSet, DelMember, db, redis
    <2>2. pc[w] \notin RoomLabels \cup {"storeCount", "deleteMember"} /\ pc'[w] \notin (RoomLabels \ {"delRoom"}) \cup {"storeCount"}
      <3> USE <1>2 DEF RoomLabels, At
      <3>1. CASE NextMember(w)
        <4>1. pc[w] = "next" /\ (pc' = pc \/ pc'[w] \in {"countMembers", "insertMember", "readMembers", "readRole"})
          BY <3>1 DEF NextMember
        <4> QED
          BY <4>1
      <3>2. CASE SelectNickname(w)  BY <3>2 DEF SelectNickname
      <3>3. CASE SetInfo(w)  BY <3>3 DEF SetInfo
      <3>4. CASE JoinInfo(w)  BY <3>4 DEF JoinInfo
      <3>5. CASE PutRole(w)  BY <3>5 DEF PutRole
      <3>6. CASE DropList(w)  BY <3>6 DEF DropList
      <3>7. CASE LeaveSet(w)  BY <3>7 DEF LeaveSet
      <3>8. CASE DelMember(w)  BY <3>8 DEF DelMember
      <3> QED
        BY ONLY <1>12, <3>1, <3>2, <3>3, <3>4, <3>5, <3>6, <3>7, <3>8
    <2>3. Counting(w) => Counting(w)' /\ UNCHANGED room[w]
      BY <1>1, <2>2, MemberCounting DEF StoreCount, DeleteMember, At
    <2> QED
      BY <1>3, <1>4, <2>1, <2>2, <2>3
  <1> QED
    BY <1>5, <1>6, <1>7, <1>8, <1>9, <1>10, <1>11, <1>12 DEF MemberStep

LEMMA CountsRoom ==
  ASSUME ~LossyRedis, ~Faults, Inv, TableSound, NEW w \in Workers, RoomStep(w), OnPath(w),
         CountsAgree(w), RoomsAgree(w)
  PROVE  CountsAgree(w)' /\ RoomsAgree(w)'
  <1>0. Step(w) /\ pc[w] # "idle"
    BY StepBusy DEF Step
  <1>1. /\ Control /\ Stored /\ Cached /\ req[w] \in RequestSpace
        /\ who[w] \in Users
        /\ pc[w] # "insertRoom" => room[w] \in Rooms
    BY <1>0, AtHand
  <1>2. /\ \A l, m : Move(w, l, m) => pc[w] = l /\ Onto(w, m) /\ pc'[w] = m /\ UNCHANGED <<room[w], req[w]>>
        /\ \A r : Done(w, r) => pc'[w] = "idle"
        /\ \A l : Goto(w, l) => pc'[w] = l
    BY <1>1, Moves DEF Onto, Control, Goto
  <1>3. ~Counting(w)
    <2>1. pc[w] \notin CountingLabels
      <3> USE <1>2 DEF CountingLabels, Asks, RoleAsks, MemberAsks, At
      <3>1. CASE ReadRoom(w) \/ ReadIds(w) \/ ReadInfo(w) \/ SelectRoom(w) \/ StoreRoom(w)
                 \/ SelectRows(w) \/ Fill(w) \/ UpdateRoom(w)
        BY <3>1 DEF ReadRoom, ReadIds, ReadInfo, SelectRoom, StoreRoom, SelectRows, Fill, UpdateRoom
      <3>2. CASE UpdateRole(w) \/ Reselect(w) \/ ReadToTell(w) \/ SelectToTell(w) \/ Dissolve(w)
                 \/ DelRoom(w) \/ DelMembers(w) \/ Tell(w)
        BY <3>2 DEF UpdateRole, Reselect, ReadToTell, SelectToTell, Dissolve, DelRoom, DelMembers, Tell
      <3> QED
        BY ONLY RoomStep(w), <3>1, <3>2 DEF RoomStep
    <2> QED
      BY <2>1 DEF Counting
  <1>4. ASSUME UNCHANGED <<rooms, roles>>, pc'[w] # "storeCount"
        PROVE  CountsAgree(w)'
    BY <1>3, <1>4, CountsKept DEF Standing
  <1>5. CASE SelectRoom(w)
    <2>1. pc[w] = "selectRoom" /\ UNCHANGED <<rooms, roles, roomKey>> /\ room[w] \in Rooms
      BY <1>1, <1>5 DEF SelectRoom, db, redis, At
    <2>2. CASE rooms[room[w]] # None
      <3>1. pc'[w] = "storeRoom" /\ row'[w] = rooms[room[w]] /\ UNCHANGED <<room[w], req[w]>>
        BY <1>1, <1>2, <1>5, <2>2 DEF SelectRoom, Control
      <3> QED
        BY <1>4, <2>1, <3>1 DEF RoomsAgree, RoomStale
    <2>3. CASE rooms[room[w]] = None
      <3>1. pc'[w] = "idle" /\ ~RoomStale(w)
        BY <1>2, <1>5, <2>1, <2>3 DEF SelectRoom, RoomsAgree, RoomStale
      <3> QED
        BY <1>4, <2>1, <3>1, RoomsFree
    <2> QED
      BY <2>2, <2>3
  <1>6. CASE StoreRoom(w)
    <2>1. /\ pc[w] = "storeRoom" /\ UNCHANGED <<rooms, roles>> /\ room[w] \in Rooms
          /\ roomKey' = [roomKey EXCEPT ![room[w]] = row[w]]
      BY <1>1, <1>6 DEF StoreRoom, db, At, Put, Written
    <2>2. pc'[w] \in {"idle", "delRoom", "selectRows"}
      <3>1. Move(w, "storeRoom", "delRoom") \/ Move(w, "storeRoom", "selectRows") \/ Done(w, Answered({}))
        BY <1>6 DEF StoreRoom
      <3> QED
        BY <1>2, <3>1
    <2>3. \A r \in Rooms : roomKey'[r] = IF r = room[w] THEN rooms[r] ELSE roomKey[r]
      BY <1>1, <2>1 DEF RoomsAgree, Cached
    <2>4. RoomsAgree(w)'
      BY <2>1, <2>2, <2>3 DEF RoomsAgree
    <2> QED
      BY <1>4, <2>1, <2>2, <2>4
  <1>7. CASE UpdateRoom(w)
    <2>1. /\ pc[w] = "updateRoom" /\ UNCHANGED <<roles, roomKey>> /\ room[w] \in Rooms
          /\ req[w].op = "update" /\ ~RoomStale(w)
      BY <1>1, <1>7 DEF UpdateRoom, redis, At, OnPath, RoomStale
    <2>2. CASE UNCHANGED rooms /\ Done(w, Failed)
      BY <1>2, <1>4, <2>1, <2>2, RoomsFree
    <2>3. CASE rooms[room[w]] # None /\ Move(w, "updateRoom", "selectRoom")
               /\ rooms' = [rooms EXCEPT ![room[w]].name = req[w].name]
      <3>1. pc'[w] = "selectRoom" /\ UNCHANGED <<room[w], req[w]>>
        BY <1>2, <2>3
      <3>2. rooms[room[w]] \in Row /\ [rooms[room[w]] EXCEPT !.name = req[w].name] \in Row
        BY <1>1, <2>1, <2>3 DEF Stored, Row, RequestSpace
      <3>3. /\ rooms'[room[w]] \in Row
            /\ rooms'[room[w]].count = rooms[room[w]].count
            /\ \A r \in Rooms : r # room[w] => rooms'[r] = rooms[r]
        BY <1>1, <2>1, <2>3, <3>2 DEF Stored, Row
      <3>4. CountsAgree(w)'
        <4>1. Standing' \subseteq Standing /\ \A r \in Standing' : rooms'[r].count = rooms[r].count
          BY <2>3, <3>3 DEF Standing
        <4> QED
          BY <1>3, <2>1, <3>1, <4>1, CountsKept
      <3>5. RoomsAgree(w)'
        BY <2>1, <3>1, <3>3, NoneAssumption DEF RoomsAgree, RoomStale
      <3> QED
        BY <3>4, <3>5
    <2> QED
      BY <1>7, <2>2, <2>3, ZenonT(30) DEF UpdateRoom
  <1>8. CASE UpdateRole(w)
    <2>1. pc[w] = "updateRole" /\ UNCHANGED <<rooms, roomKey>> /\ room[w] \in Rooms
      BY <1>1, <1>8 DEF UpdateRole, SetRow, db, redis, At
    <2>2. pc'[w] \in {"reselect", "idle"}
      BY <1>2, <1>8 DEF UpdateRole
    <2>3. RoomsAgree(w)'
      BY <2>1, <2>2, RoomsAside DEF RoomLabels
    <2>4. PICK m \in todo[w] :
            \/ roles[<<room[w], m[1]>>] # None /\ SetRow(room[w], m[1], m[2])
            \/ UNCHANGED db
      BY <1>8 DEF UpdateRole
    <2>5. m[1] \in Users /\ m[2] \in Roles /\ m[2] # None
      BY <1>1, <2>4, NoneAssumption DEF Control
    <2>6. \A r \in Rooms, u \in Users : roles[<<r, u>>] # None <=> roles'[<<r, u>>] # None
      BY <1>1, <2>1, <2>4, <2>5 DEF SetRow, db, Stored
    <2>7. CountsAgree(w)'
      BY <1>3, <2>1, <2>2, <2>6, CountsKept DEF Standing
    <2> QED
      BY <2>3, <2>7
  <1>9. CASE Dissolve(w)
    <2>1. pc[w] = "dissolve" /\ UNCHANGED roomKey /\ room[w] \in Rooms /\ req[w].op = "dissolve"
          /\ ~RoomStale(w)
      BY <1>1, <1>9 DEF Dissolve, redis, At, OnPath, RoomStale
    <2>2. CASE UNCHANGED <<rooms, roles>> /\ Done(w, Failed)
      BY <1>2, <1>4, <2>1, <2>2, RoomsFree
    <2>3. CASE /\ Move(w, "dissolve", "delRoom")
               /\ rooms' = [rooms EXCEPT ![room[w]] = None]
               /\ roles' = [k \in Rooms \X Users |-> IF k[1] = room[w] THEN None ELSE roles[k]]
      <3>1. pc'[w] = "delRoom" /\ UNCHANGED <<room[w], req[w]>>
        BY <1>2, <2>3
      <3>2. \A r \in Rooms : rooms'[r] = IF r = room[w] THEN None ELSE rooms[r]
        BY <1>1, <2>3 DEF Stored
      <3>3. \A r \in Rooms, u \in Users :
              roles'[<<r, u>>] = IF r = room[w] THEN None ELSE roles[<<r, u>>]
        BY <2>3
      <3>4. CountsAgree(w)'
        BY <1>3, <3>1, <3>2, <3>3, CountsKept DEF Standing
      <3>5. RoomsAgree(w)'
        BY <2>1, <3>1, <3>2 DEF RoomsAgree, RoomStale
      <3> QED
        BY <3>4, <3>5
    <2> QED
      BY <1>9, <2>2, <2>3 DEF Dissolve
  <1>10. CASE DelRoom(w)
    <2>1. /\ pc[w] = "delRoom" /\ pc'[w] = "delMembers" /\ UNCHANGED <<rooms, roles>>
          /\ roomKey' = [roomKey EXCEPT ![room[w]] = None] /\ room[w] \in Rooms
      BY <1>1, <1>2, <1>10 DEF DelRoom, db, Put, Written
    <2>2. \A r \in Rooms : roomKey'[r] = IF r = room[w] THEN None ELSE roomKey[r]
      BY <1>1, <2>1 DEF Cached
    <2>3. RoomsAgree(w)'
      BY <2>1, <2>2 DEF RoomsAgree
    <2> QED
      BY <1>4, <2>1, <2>3
  <1>11. CASE ReadRoom(w) \/ ReadIds(w) \/ ReadInfo(w) \/ SelectRows(w) \/ Fill(w) \/ Reselect(w)
              \/ ReadToTell(w) \/ SelectToTell(w) \/ DelMembers(w) \/ Tell(w)
    <2>1. UNCHANGED <<rooms, roles, roomKey>>
      BY <1>11 DEF ReadRoom, ReadIds, ReadInfo, SelectRows, Fill, Reselect, ReadToTell,
         SelectToTell, DelMembers, Tell, db, redis
    <2>2. /\ pc[w] \notin RoomLabels /\ pc'[w] # "storeCount"
          /\ pc'[w] \notin RoomLabels \/ (pc'[w] = "selectRoom" /\ req'[w].op # "update")
      <3> USE <1>2 DEF RoomLabels, At
      <3>1. CASE ReadRoom(w)  BY <3>1 DEF ReadRoom, OnPath
      <3>2. CASE ReadIds(w)  BY <3>2 DEF ReadIds
      <3>3. CASE ReadInfo(w)
        <4>1. pc[w] = "readInfo" /\ req[w].op = "get"
          BY <3>3 DEF ReadInfo, OnPath
        <4>2. pc' = pc \/ Done(w, Answered(found[w])) \/ Move(w, "readInfo", "selectRoom")
          BY <3>3 DEF ReadInfo
        <4> QED
          BY <4>1, <4>2
      <3>4. CASE SelectRows(w)  BY <3>4 DEF SelectRows
      <3>5. CASE Fill(w)  BY <3>5 DEF Fill
      <3>6. CASE Reselect(w)  BY <3>6 DEF Reselect
      <3>7. CASE ReadToTell(w)  BY <3>7 DEF ReadToTell
      <3>8. CASE SelectToTell(w)  BY <3>8 DEF SelectToTell
      <3>9. CASE DelMembers(w)  BY <3>9 DEF DelMembers
      <3>10. CASE Tell(w)  BY <3>10 DEF Tell
      <3> QED
        BY ONLY <1>11, <3>1, <3>2, <3>3, <3>4, <3>5, <3>6, <3>7, <3>8, <3>9, <3>10
    <2> QED
      BY <1>4, <2>1, <2>2, RoomsAside
  <1> QED
    BY <1>5, <1>6, <1>7, <1>8, <1>9, <1>10, <1>11 DEF RoomStep

LEMMA CountsStep ==
  ASSUME ~LossyRedis, ~Faults, Inv, TableSound, NEW w \in Workers, Workers = {w}, OnPath(w),
         CountsAgree(w), RoomsAgree(w), [Next]_vars
  PROVE  CountsAgree(w)' /\ RoomsAgree(w)'
  <1>0. Control /\ Cached
    BY TypeParts DEF Inv
  <1>1. ASSUME UNCHANGED <<rooms, roles, roomKey>>, ~Counting(w), pc[w] \notin RoomLabels,
               pc'[w] \notin RoomLabels \cup {"storeCount"}
        PROVE  CountsAgree(w)' /\ RoomsAgree(w)'
    BY <1>1, RoomsAside, CountsKept DEF Standing
  <1>2. CASE Arrival(w)
    <2>1. /\ UNCHANGED <<db, redis>> /\ pc[w] = "idle"
          /\ pc'[w] \in {"insertRoom", "readMembers", "readRole", "readList", "validMembers", "listMembers"}
      BY <1>0, <1>2 DEF Arrival, CreateChatRoom, GetChatRoom, UpdateChatRoom, DissolveChatRoom,
         AddChatRoomMember, RemoveChatRoomMember, UpdateMemberRole, LeaveChatRoom,
         GetUserChats, IsValidChatMember, GetChatMembers, Receive, Goto, At, Control
    <2> QED
      BY <1>1, <2>1 DEF db, redis, Counting, CountingLabels, Asks, RoleAsks, MemberAsks, RoomLabels
  <1>3. CASE CheckStep(w)
    <2>1. UNCHANGED <<rooms, roles, roomKey>>
      BY <1>3 DEF CheckStep, ReadRole, SelectRole, CacheRole, ReadMembers, ExistsMember,
         SelectMember, JoinMembers, db, redis
    <2>2. AsksOn(w) /\ pc[w] \in Asks
      BY <1>0, <1>3, CheckCounting
    <2>3. pc[w] \notin RoomLabels /\ pc'[w] \notin RoomLabels \cup {"storeCount"}
      BY <2>2 DEF AsksOn, Asks, RoleAsks, MemberAsks, RoomLabels
    <2>4. Counting(w) => Counting(w)' /\ UNCHANGED room[w]
      BY <2>2 DEF AsksOn
    <2> QED
      BY <2>1, <2>3, <2>4, RoomsAside, CountsKept DEF Standing
  <1>4. CASE MemberStep(w)
    BY <1>4, CountsMember
  <1>5. CASE RoomStep(w)
    BY <1>5, CountsRoom
  <1>6. CASE ReadStep(w)
    <2>1. UNCHANGED <<rooms, roles, roomKey>>
      BY <1>6 DEF ReadStep, ReadList, SelectRooms, StoreList, ValidMembers, ValidSelect, ValidJoin,
         ListMembers, SelectAll, JoinAll, db, redis
    <2>2. LET L == {"readList", "selectRooms", "storeList", "validMembers", "validSelect",
                    "validJoin", "listMembers", "selectAll", "joinAll", "idle"}
          IN  pc[w] \in L /\ pc'[w] \in L
      <3>1. /\ \A l, m : Move(w, l, m) => pc[w] = l /\ pc'[w] = m
            /\ \A r : Done(w, r) => pc'[w] = "idle"
            /\ \A l : Goto(w, l) => pc'[w] = l
        BY <1>0, Moves DEF Onto, Control, Goto
      <3> QED
        BY <1>6, <3>1 DEF ReadStep, ReadList, SelectRooms, StoreList, ValidMembers,
           ValidSelect, ValidJoin, ListMembers, SelectAll, JoinAll, At
    <2> QED
      BY <1>1, <2>1, <2>2 DEF Counting, CountingLabels, Asks, RoleAsks, MemberAsks, RoomLabels
  <1>7. CASE Expiry
    <2>1. /\ UNCHANGED <<rooms, roles, pc, req, room, check, row, count>>
          /\ \A r \in Rooms : roomKey'[r] = roomKey[r] \/ roomKey'[r] = None
      BY <1>0, <1>7 DEF Expiry, db, local, member, Cached
    <2>2. CountsAgree(w)'
      BY <2>1 DEF CountsAgree, Standing, MembersOf, Counting
    <2>3. pc[w] = "readCached" => room[w] \in Rooms
      BY AtHand
    <2>4. RoomsAgree(w)'
      BY <2>1, <2>3 DEF RoomsAgree, RoomStale
    <2> QED
      BY <2>2, <2>4
  <1>8. CASE UNCHANGED vars
    BY <1>8 DEF vars, db, redis, local, member, CountsAgree, RoomsAgree, Standing, MembersOf,
       Counting, RoomStale
  <1> QED
    BY <1>2, <1>3, <1>4, <1>5, <1>6, <1>7, <1>8 DEF Next, Step, SqlError, Crash

-----------------------------------------------------------------------------
(* All that one connection keeps. *)
Alone(w) ==
  TableSound /\ OnPath(w) /\ RolesSound(w) /\ MembersAgree(w) /\ CountsAgree(w) /\ RoomsAgree(w)

LEMMA AloneInit ==
  ASSUME NEW me, Workers = {me}, Init
  PROVE  Alone(me)
  <1>1. pc[me] = "idle" /\ Standing = {}
    BY DEF Init, Standing
  <1>2. TableSound
    BY DEF Init, TableSound, EverMember
  <1>3. OnPath(me)
    BY <1>1 DEF OnPath, FillLabels
  <1>4. RolesSound(me)
    BY <1>1 DEF RolesSound, RolesAgree, RoleAtHand, Filling, Opening, RoleLabels, FillLabels
  <1>5. MembersAgree(me) /\ CountsAgree(me)
    BY <1>1 DEF MembersAgree, CountsAgree
  <1>6. RoomsAgree(me)
    BY <1>1 DEF Init, RoomsAgree
  <1> QED
    BY <1>2, <1>3, <1>4, <1>5, <1>6 DEF Alone

LEMMA AloneStep ==
  ASSUME ~LossyRedis, ~Faults, Inv, NEW w \in Workers, Workers = {w}, Alone(w), [Next]_vars
  PROVE  Alone(w)'
  <1>0. /\ Control /\ Cached
        /\ TableSound /\ OnPath(w) /\ RolesSound(w) /\ RoleAtHand(w) /\ MembersAgree(w)
        /\ CountsAgree(w) /\ RoomsAgree(w)
    BY TypeParts DEF Inv, Alone, RolesSound
  <1>1. RolesSound(w)' /\ CountsAgree(w)' /\ RoomsAgree(w)'
    BY <1>0, RolesStep, CountsStep
  <1>2. CASE Arrival(w)
    <2>1. /\ UNCHANGED <<db, redis>> /\ pc[w] = "idle"
          /\ pc'[w] \in {"insertRoom", "readMembers", "readRole", "readList", "validMembers", "listMembers"}
      BY <1>0, <1>2 DEF Arrival, CreateChatRoom, GetChatRoom, UpdateChatRoom, DissolveChatRoom,
         AddChatRoomMember, RemoveChatRoomMember, UpdateMemberRole, LeaveChatRoom,
         GetUserChats, IsValidChatMember, GetChatMembers, Receive, Goto, At, Control
    <2>2. OnPath(w)'
      BY <1>0, <1>2, ArrivalPath
    <2>3. TableSound'
      BY <1>0, <2>1 DEF TableSound, EverMember, db
    <2>4. MembersAgree(w)'
      BY <1>0, <2>1 DEF MembersAgree, Standing, db, redis
    <2> QED
      BY <1>1, <2>2, <2>3, <2>4 DEF Alone
  <1>3. CASE Step(w)
    BY <1>0, <1>1, <1>3, StepPath, TableStep, MembersStep DEF Alone
  <1>4. CASE Expiry
    <2>1. /\ UNCHANGED <<rooms, used, roles, held, pc, req, room, who, role, todo>>
          /\ \A r \in Rooms : membersKey'[r] \subseteq membersKey[r]
      BY <1>0, <1>4 DEF Expiry, db, local, member, Cached
    <2>2. OnPath(w)' /\ TableSound'
      BY <1>0, <2>1 DEF OnPath, TableSound, EverMember
    <2>3. MembersAgree(w)'
      BY <1>0, <2>1 DEF MembersAgree, Standing, Key
    <2> QED
      BY <1>1, <2>2, <2>3 DEF Alone
  <1>5. CASE UNCHANGED vars
    <2>1. OnPath(w)' /\ TableSound' /\ MembersAgree(w)'
      BY <1>0, <1>5 DEF OnPath, TableSound, EverMember, MembersAgree, Standing, Key,
         vars, db, redis, local, member
    <2> QED
      BY <1>1, <2>1 DEF Alone
  <1> QED
    BY <1>2, <1>3, <1>4, <1>5 DEF Next, SqlError, Crash

(* A removal finds no owner in the row it deletes, and nothing else takes  *)
(* a row from a room that stays.                                           *)
LEMMA OwnersStay ==
  ASSUME ~LossyRedis, ~Faults, Inv, NEW w \in Workers, Workers = {w}, Alone(w), [Next]_vars,
         NEW r \in Standing, NEW u \in Users, roles[<<r, u>>] = "OWNER", rooms'[r] # None
  PROVE  roles'[<<r, u>>] # None
  <1>0. Control /\ Stored
    BY TypeParts DEF Inv
  <1>1. r \in Standing' /\ "OWNER" # None /\ r \in Rooms
    BY NoneAssumption DEF Standing, Roles
  <1>2. CASE UNCHANGED db
    BY <1>1, <1>2 DEF db
  <1>3. CASE DeleteMember(w)
    <2>1. roles' = [roles EXCEPT ![Key(w)] = None] /\ pc[w] = "deleteMember"
      BY <1>3 DEF DeleteMember, At
    <2>2. roles[Key(w)] # "OWNER"
      BY <2>1 DEF Alone, RolesSound, RoleAtHand
    <2>3. <<r, u>> # Key(w)
      BY <2>2
    <2> QED
      BY <1>0, <1>1, <2>1, <2>3 DEF Stored
  <1>4. CASE Step(w) /\ ~DeleteMember(w)
    BY <1>1, <1>4, RowsStay DEF Alone
  <1> QED
    BY <1>2, <1>3, <1>4 DEF Next, SqlError, Crash, Expiry, Arrival, CreateChatRoom, GetChatRoom,
       UpdateChatRoom, DissolveChatRoom, AddChatRoomMember, RemoveChatRoomMember,
       UpdateMemberRole, LeaveChatRoom, GetUserChats, IsValidChatMember, GetChatMembers,
       Receive, vars

(* The one connection keeps its tables, caches and locals in step.         *)
THEOREM AloneInvariance ==
  ASSUME ~LossyRedis, ~Faults, NEW me, Workers = {me}
  PROVE  Spec => [](Inv /\ Alone(me))
  <1>1. Init => Inv /\ Alone(me)
    BY InitInv, AloneInit
  <1>2. Inv /\ Alone(me) /\ [Next]_vars => (Inv /\ Alone(me))'
    BY NextInv, AloneStep
  <1> QED
    BY <1>1, <1>2, PTL DEF Spec

(* Served alone, removals and role changes leave no old role at            *)
(* chat_room:<id>:member:<u>, whichever of its two kinds the key has.      *)
THEOREM AloneRolesFresh ==
  ASSUME ~LossyRedis, ~Faults, NEW me, Workers = {me}
  PROVE  Spec => []RolesFresh
  <1>1. Alone(me) => RolesFresh
    BY DEF Alone, RolesSound, RolesAgree, RolesFresh, Quiet, At, StaleLabels
  <1> QED
    BY <1>1, AloneInvariance, PTL

(* Served alone, the set chat_room:<id>:members of a room that stands      *)
(* names members only, though it may name few of them.                     *)
THEOREM AloneMembersFresh ==
  ASSUME ~LossyRedis, ~Faults, NEW me, Workers = {me}
  PROVE  Spec => []MembersFresh
  <1>1. Inv /\ Alone(me) => MembersFresh
    <2> SUFFICES ASSUME Alone(me), Inv, Quiet, NEW r \in Standing
                 PROVE  membersKey[r] \subseteq MembersOf(r)
      BY DEF MembersFresh
    <2>1. membersKey[r] \subseteq Users
      BY TypeParts DEF Inv, Cached, Standing
    <2> QED
      BY <2>1 DEF Alone, MembersAgree, MembersOf, Quiet, At
  <1> QED
    BY <1>1, AloneInvariance, PTL

(* Served alone, updateChatRoomMemberCount leaves member_count the number  *)
(* of rows, and chat_room:<id> is the row of the room.                     *)
THEOREM AloneCountFresh ==
  ASSUME ~LossyRedis, ~Faults, NEW me, Workers = {me}
  PROVE  Spec => []CountFresh
  <1>1. Alone(me) => CountFresh
    BY DEF Alone, CountsAgree, RoomsAgree, CountFresh, Quiet, At, Counting, CountingLabels,
       Asks, RoleAsks, MemberAsks, RoomStale
  <1> QED
    BY <1>1, AloneInvariance, PTL

(* Served alone, RemoveChatRoomMember and LeaveChatRoom take no owner: the *)
(* role that isChatRoomOwner saw is still in the row they delete.          *)
THEOREM AloneOwnerKept ==
  ASSUME ~LossyRedis, ~Faults, NEW me, Workers = {me}
  PROVE  Spec => OwnerKept
  <1>1. Inv /\ Alone(me) /\ [Next]_vars =>
          [\A r \in Standing, u \in Users :
             roles[<<r, u>>] = "OWNER" /\ rooms'[r] # None => roles'[<<r, u>>] # None]_vars
    BY OwnersStay
  <1> QED
    BY <1>1, AloneInvariance, PTL DEF Spec, OwnerKept

-----------------------------------------------------------------------------
(* The role by which a request acts is its caller's in the table, once the *)
(* check of its caller is behind it.  A caller who adds himself may have   *)
(* become a plain member by that.                                          *)
Mine(w) == roles[<<room[w], req[w].user>>]
Admins == {"OWNER", "ADMIN"}
Entitled(w) ==
  LET op == req[w].op
      asks(k) == pc[w] \in Asks /\ check[w] = k
  IN
  pc[w] # "idle" /\ room[w] \in Standing =>
    /\ op \in {"update", "remove"} => asks("admin") \/ Mine(w) \in Admins
    /\ op = "add" =>
         \/ asks("admin")
         \/ Mine(w) \in Admins
         \/ Mine(w) = "MEMBER" /\ req[w].user \in req[w].targets
    /\ op \in {"dissolve", "role"} => asks("owner") \/ Mine(w) = "OWNER"
    /\ op = "get" => asks("member") \/ Mine(w) # None

(* Whom it removes or adds: a loop not its caller, and those it names.     *)
Aimed(w) ==
  LET op == req[w].op
      asks(k) == pc[w] \in Asks /\ check[w] = k
  IN
  /\ op = "remove" /\ (pc[w] = "deleteMember" \/ asks("owner")) => who[w] # req[w].user
  /\ op = "leave" /\ pc[w] = "deleteMember" => who[w] = req[w].user
  /\ op = "add" /\ (pc[w] = "insertMember" \/ asks("member")) =>
       who[w] \in req[w].targets /\ role[w] = "MEMBER"
  /\ op = "add" /\ pc[w] \notin {"selectAll", "joinAll"} =>
       todo[w] \subseteq req[w].targets \X {"MEMBER"}
Acting(w) == pc[w] # "idle" => Entitled(w) /\ Aimed(w)

(* Outside the checks and the head of a loop, no step begins a check or    *)
(* comes to what a check decides, and the targets left stay as they are.   *)
LEMMA Elsewhere ==
  ASSUME Control, NEW w \in Workers, OnPath(w), Step(w), ~CheckStep(w), ~NextMember(w)
  PROVE  /\ pc[w] \notin Asks
         /\ pc'[w] \notin Asks \cup {"insertMember", "deleteMember"}
         /\ pc'[w] # "idle" => UNCHANGED <<req[w], check[w]>>
         /\ pc'[w] # "idle" /\ pc[w] # "insertRoom" => UNCHANGED room[w]
         /\ \/ UNCHANGED todo[w]
            \/ req[w].op # "add"
            \/ pc'[w] \in {"idle", "joinAll"}
  <1> DEFINE Aside ==
        /\ pc[w] \notin Asks
        /\ pc'[w] \notin Asks \cup {"insertMember", "deleteMember"}
        /\ pc'[w] # "idle" => UNCHANGED <<req[w], check[w]>>
        /\ pc'[w] # "idle" /\ pc[w] # "insertRoom" => UNCHANGED room[w]
        /\ UNCHANGED todo[w] \/ req[w].op # "add" \/ pc'[w] \in {"idle", "joinAll"}
  <1> SUFFICES Aside
    OBVIOUS
  <1>1. ASSUME NEW l, NEW m, Move(w, l, m)
        PROVE  pc[w] = l /\ pc'[w] = m /\ UNCHANGED <<req[w], check[w], room[w], todo[w]>>
    BY <1>1, Moves DEF Onto
  <1>2. \A r : Done(w, r) => pc'[w] = "idle"
    BY Moves
  <1>3. Counted(w) => \/ pc'[w] = "selectRoom" /\ UNCHANGED <<req, local>>
                      \/ pc'[w] = "idle"
    BY <1>2 DEF Control, Counted, Goto
  <1>4. KeepMember(w) => \/ pc'[w] = "next" /\ UNCHANGED <<req[w], check[w], room[w], todo[w]>>
                         \/ pc'[w] = "idle"
    BY <1>1, <1>2 DEF KeepMember
  <1>5. \A l : Goto(w, l) => pc'[w] = l
    BY DEF Control, Goto
  <1> USE <1>1, <1>2, <1>3, <1>4, <1>5 DEF Asks, RoleAsks, MemberAsks, At, local, member
  <1>6. CASE MemberStep(w)
    <2>1. CASE InsertRoom(w)  BY <2>1 DEF InsertRoom
    <2>2. CASE InsertOwner(w)  BY <2>2 DEF InsertOwner
    <2>4. CASE InsertMember(w)  BY <2>4 DEF InsertMember
    <2>5. CASE SelectNickname(w)  BY <2>5 DEF SelectNickname
    <2>6. CASE SetInfo(w)  BY <2>6 DEF SetInfo
    <2>7. CASE JoinInfo(w)  BY <2>7 DEF JoinInfo
    <2>8. CASE PutRole(w)  BY <2>8 DEF PutRole
    <2>9. CASE DropList(w)  BY <2>9 DEF DropList
    <2>10. CASE DeleteMember(w)  BY <2>10 DEF DeleteMember
    <2>11. CASE LeaveSet(w)  BY <2>11 DEF LeaveSet
    <2>12. CASE DelMember(w)  BY <2>12 DEF DelMember
    <2>13. CASE CountMembers(w)  BY <2>13 DEF CountMembers
    <2>14. CASE StoreCount(w)  BY <2>14 DEF StoreCount
    <2>15. CASE ReadCached(w)  BY <2>15 DEF ReadCached
    <2>16. CASE StoreCached(w)  BY <2>16 DEF StoreCached
    <2> QED
      BY ONLY <1>6, <2>1, <2>2, <2>4, <2>5, <2>6, <2>7, <2>8, <2>9, <2>10, <2>11, <2>12,
         <2>13, <2>14, <2>15, <2>16, ~NextMember(w) DEF MemberStep
  <1>7. CASE RoomStep(w)
    <2>0. /\ pc[w] \in {"readIds", "readInfo", "selectRows", "fill", "readToTell",
                        "selectToTell", "tell"} => req[w].op # "add"
          /\ pc[w] = "updateRole" => req[w].op # "add"
      BY DEF OnPath
    <2> USE <2>0
    <2>1. CASE ReadRoom(w)  BY <2>1 DEF ReadRoom
    <2>2. CASE ReadIds(w)  BY <2>2 DEF ReadIds
    <2>3. CASE ReadInfo(w)
      <3>1. \/ UNCHANGED <<pc, req, check, room>>
            \/ Done(w, Answered(found[w]))
            \/ Move(w, "readInfo", "selectRoom")
        BY ONLY <2>3 DEF ReadInfo
      <3>2. pc[w] = "readInfo"
        BY <2>3 DEF ReadInfo
      <3> QED
        BY <3>1, <3>2
    <2>4. CASE SelectRoom(w)  BY <2>4 DEF SelectRoom
    <2>5. CASE StoreRoom(w)  BY <2>5 DEF StoreRoom
    <2>6. CASE SelectRows(w)  BY <2>6 DEF SelectRows
    <2>7. CASE Fill(w)  BY <2>7 DEF Fill
    <2>8. CASE UpdateRoom(w)  BY <2>8 DEF UpdateRoom
    <2>9. CASE UpdateRole(w)  BY <2>9 DEF UpdateRole
    <2>10. CASE Reselect(w)  BY <2>10 DEF Reselect
    <2>11. CASE ReadToTell(w)  BY <2>11 DEF ReadToTell
    <2>12. CASE SelectToTell(w)  BY <2>12 DEF SelectToTell
    <2>13. CASE Dissolve(w)  BY <2>13 DEF Dissolve
    <2>14. CASE DelRoom(w)  BY <2>14 DEF DelRoom
    <2>15. CASE DelMembers(w)  BY <2>15 DEF DelMembers
    <2>16. CASE Tell(w)  BY <2>16 DEF Tell
    <2> QED
      BY ONLY <1>7, <2>1, <2>2, <2>3, <2>4, <2>5, <2>6, <2>7, <2>8, <2>9, <2>10, <2>11, <2>12,
         <2>13, <2>14, <2>15, <2>16 DEF RoomStep
  <1>8. CASE ReadStep(w)
    <2>1. CASE ReadList(w)  BY <2>1 DEF ReadList
    <2>2. CASE SelectRooms(w)  BY <2>2 DEF SelectRooms
    <2>3. CASE StoreList(w)  BY <2>3 DEF StoreList
    <2>4. CASE ValidMembers(w)  BY <2>4 DEF ValidMembers
    <2>5. CASE ValidSelect(w)  BY <2>5 DEF ValidSelect
    <2>6. CASE ValidJoin(w)  BY <2>6 DEF ValidJoin
    <2>7. CASE ListMembers(w)  BY <2>7 DEF ListMembers
    <2>8. CASE SelectAll(w)  BY <2>8 DEF SelectAll
    <2>9. CASE JoinAll(w)  BY <2>9 DEF JoinAll
    <2> QED
      BY ONLY <1>8, <2>1, <2>2, <2>3, <2>4, <2>5, <2>6, <2>7, <2>8, <2>9 DEF ReadStep
  <1> QED
    BY ONLY <1>6, <1>7, <1>8, Step(w), ~CheckStep(w) DEF Step

(* A caller keeps his role while his request is served, unless he opens,   *)
(* leaves or dissolves the room, or adds himself.                          *)
LEMMA MineStays ==
  ASSUME Inv, NEW w \in Workers, OnPath(w), Step(w), Aimed(w), room[w] \in Standing
  PROVE  \/ req[w].op \in {"create", "leave"}
         \/ room[w] \notin Standing'
         \/ roles'[<<room[w], req[w].user>>] = Mine(w)
         \/ /\ req[w].op = "add" /\ req[w].user \in req[w].targets
            /\ roles'[<<room[w], req[w].user>>] = "MEMBER"
  <1> DEFINE me == <<room[w], req[w].user>>
  <1>0. pc[w] # "idle"
    BY StepBusy
  <1>1. /\ Control /\ Stored /\ me \in Rooms \X Users /\ room[w] \in Rooms
        /\ who[w] \in Users
    BY <1>0, AtHand DEF Standing
  <1>2. CASE UNCHANGED roles
    BY <1>2 DEF Mine
  <1>3. CASE InsertOwner(w)
    BY <1>3 DEF InsertOwner, At, OnPath
  <1>4. CASE InsertMember(w) /\ ~UNCHANGED roles
    <2>1. SetRow(room[w], who[w], role[w]) /\ pc[w] = "insertMember"
      BY <1>4 DEF InsertMember, At, db
    <2>2. roles' = [roles EXCEPT ![<<room[w], who[w]>>] = role[w]]
      BY <2>1 DEF SetRow
    <2>3. req[w].op \in {"create", "add"}
      BY <2>1 DEF OnPath
    <2>4. req[w].op = "add" => who[w] \in req[w].targets /\ role[w] = "MEMBER"
      BY <2>1 DEF Aimed
    <2> QED
      BY <1>1, <2>2, <2>3, <2>4 DEF Stored, Mine
  <1>5. CASE DeleteMember(w)
    <2>1. roles' = [roles EXCEPT ![Key(w)] = None] /\ pc[w] = "deleteMember"
      BY <1>5 DEF DeleteMember, At
    <2>2. req[w].op \in {"remove", "leave"}
      BY <2>1 DEF OnPath
    <2>3. req[w].op = "remove" => Key(w) # me
      BY <2>1 DEF Aimed, Key
    <2> QED
      BY <1>1, <2>1, <2>2, <2>3 DEF Stored, Mine
  <1>6. CASE UpdateRole(w) /\ ~UNCHANGED roles
    <2>1. PICK m \in todo[w] : m[1] # req[w].user /\ SetRow(room[w], m[1], m[2])
      BY <1>6 DEF UpdateRole, db
    <2>2. roles' = [roles EXCEPT ![<<room[w], m[1]>>] = m[2]]
      BY <2>1 DEF SetRow
    <2> QED
      BY <1>1, <2>1, <2>2 DEF Stored, Mine
  <1>7. CASE Dissolve(w) /\ ~UNCHANGED roles
    <2>1. rooms' = [rooms EXCEPT ![room[w]] = None]
      BY <1>7 DEF Dissolve
    <2> QED
      BY <1>1, <2>1 DEF Stored, Standing
  <1>8. CASE InsertRoom(w) \/ StoreCount(w) \/ UpdateRoom(w) \/ UNCHANGED db
    BY <1>2, <1>8 DEF InsertRoom, StoreCount, UpdateRoom, db
  <1> QED
    BY <1>2, <1>3, <1>4, <1>5, <1>6, <1>7, <1>8, WhoWrites DEF Writing

(* A verdict that is true of the table lets a request go on by the role    *)
(* its caller has there.                                                   *)
LEMMA ActingChecked ==
  ASSUME Inv, NEW w \in Workers, pc[w] \in Asks, Acting(w), NEW yes \in BOOLEAN, Verdict(w, yes),
         UNCHANGED <<rooms, roles>>,
         yes /\ room[w] \in Standing =>
           /\ check[w] = "owner" => roles[Key(w)] = "OWNER"
           /\ check[w] = "admin" => roles[Key(w)] \in Admins
           /\ check[w] = "member" => roles[Key(w)] # None
  PROVE  Acting(w)'
  <1> DEFINE m == Onward(req[w].op, check[w], yes)
  <1>0. pc[w] # "idle"
    BY DEF Asks, RoleAsks, MemberAsks
  <1>1. Control /\ Serves(w) /\ Entitled(w) /\ Aimed(w)
    BY <1>0, AtHand DEF Acting
  <1>2. CASE pc'[w] = "idle"
    BY <1>2 DEF Acting
  <1>3. CASE pc'[w] # "idle"
    <2>1. Onto(w, m) /\ m # "refuse"
      BY <1>1, <1>3, Moves
    <2>2. /\ m = "deleteMember" => check[w] = "owner"
          /\ m = "insertMember" => req[w].op = "add" /\ check[w] = "member"
          /\ req[w].op \in {"update", "dissolve", "role", "get"} => yes = TRUE
          /\ check[w] = "admin" => yes = TRUE
      BY <2>1 DEF Onward
    <2>3. m \in Asks => req[w].op = "leave"
      BY <2>1, Onwards DEF Asks, RoleAsks, MemberAsks
    <2> HIDE DEF m
    <2>l. req[w].op = "leave" => who[w] = req[w].user
      BY <1>1 DEF Serves
    <2>4. Aimed(w)'
      BY <1>1, <2>1, <2>2, <2>3, <2>l DEF Aimed, Onto, Asks, RoleAsks, MemberAsks
    <2>5. Entitled(w)'
      <3> SUFFICES ASSUME room[w] \in Standing
                   PROVE  Entitled(w)'
        BY <2>1 DEF Entitled, Standing, Onto
      <3>1. /\ req[w].op = "update" => check[w] = "admin"
            /\ req[w].op \in {"dissolve", "role"} => check[w] = "owner"
            /\ req[w].op = "get" => check[w] = "member"
            /\ check[w] = "admin" => who[w] = req[w].user
            /\ req[w].op \in {"get", "dissolve", "role", "update"} => who[w] = req[w].user
        BY <1>1 DEF Serves, Checks
      <3>2. /\ check[w] = "admin" => Mine(w) \in Admins
            /\ req[w].op \in {"dissolve", "role"} => Mine(w) = "OWNER"
            /\ req[w].op = "get" => Mine(w) # None
        BY <2>2, <3>1 DEF Mine, Key
      <3>3. Mine(w)' = Mine(w)
        BY <2>1 DEF Mine, Onto
      <3> QED
        BY <1>0, <1>1, <2>1, <3>1, <3>2, <3>3 DEF Entitled, Onto
    <2> QED
      BY <2>4, <2>5 DEF Acting
  <1> QED
    BY <1>2, <1>3

(* Where checks go on, they go on with the same check. *)
LEMMA ActingAsked ==
  ASSUME NEW w, Acting(w), pc[w] \in Asks, pc'[w] \in Asks, UNCHANGED <<rooms, roles>>,
         UNCHANGED <<req[w], room[w], check[w], who[w], todo[w]>>,
         pc[w] \in MemberAsks => UNCHANGED role[w],
         check[w] = "member" => pc[w] \in MemberAsks
  PROVE  Acting(w)'
  BY DEF Acting, Entitled, Aimed, Mine, Standing, Asks, RoleAsks, MemberAsks

LEMMA ActingCheck ==
  ASSUME ~LossyRedis, Inv, NEW w \in Workers, Alone(w), Acting(w), CheckStep(w)
  PROVE  Acting(w)'
  <1>0. pc[w] # "idle" /\ UNCHANGED db /\ pc[w] \in Asks
    BY StepBusy DEF Step, CheckStep, db, ReadRole, SelectRole, CacheRole, ReadMembers,
       ExistsMember, SelectMember, JoinMembers, At, Asks, RoleAsks, MemberAsks
  <1>1. /\ Control /\ Stored /\ Cached /\ Serves(w) /\ Key(w) \in Rooms \X Users
        /\ RolesAgree(w) /\ RoleAtHand(w) /\ MembersAgree(w)
        /\ room[w] \in Rooms /\ who[w] \in Users
    BY <1>0, AtHand DEF Alone, RolesSound, Key, Asks, RoleAsks, MemberAsks
  <1>2. UNCHANGED <<rooms, roles>>
    BY <1>0 DEF db
  <1>3. pc[w] \notin StaleLabels /\ (check[w] = "member" <=> pc[w] \in MemberAsks)
    BY <1>0, <1>1 DEF Serves, StaleLabels, Asks, RoleAsks, MemberAsks
  <1>4. room[w] \in Standing /\ memberKey[Key(w)] # None =>
          roles[Key(w)] = memberKey[Key(w)].role /\ roles[Key(w)] # None
    BY <1>1, <1>3, NoneAssumption DEF RolesAgree, Key, Cached
  <1>5. Verdict(w, FALSE) => Acting(w)'
    BY <1>0, <1>2, ActingChecked
  <1>6. ASSUME NEW l, NEW m \in Asks, Move(w, l, m)
        PROVE  Acting(w)'
    BY <1>0, <1>1, <1>2, <1>3, <1>6, ActingAsked, Moves DEF Onto
  <1>7. CASE ReadRole(w)
    <2>1. PICK v \in {memberKey[Key(w)]} :
            \/ IsHash(v) /\ Verdict(w, v.role \in Allowed(check[w]))
            \/ ~IsHash(v) /\ Move(w, "readRole", "selectRole")
      BY <1>7 DEF ReadRole, Seen
    <2>2. CASE Move(w, "readRole", "selectRole")
      BY <1>6, <2>2 DEF Asks, RoleAsks
    <2>3. CASE IsHash(v) /\ Verdict(w, v.role \in Allowed(check[w]))
      <3>1. v.role \in Allowed(check[w]) /\ room[w] \in Standing =>
              roles[Key(w)] \in Allowed(check[w])
        BY <1>4, <2>1, <2>3 DEF IsHash
      <3>2. check[w] # "member"
        BY <1>3, <1>7 DEF ReadRole, At, MemberAsks
      <3> DEFINE yes == v.role \in Allowed(check[w])
      <3>3. yes \in BOOLEAN /\ Verdict(w, yes)
        BY <2>3
      <3>4. yes /\ room[w] \in Standing =>
              /\ check[w] = "owner" => roles[Key(w)] = "OWNER"
              /\ check[w] = "admin" => roles[Key(w)] \in Admins
              /\ check[w] = "member" => roles[Key(w)] # None
        BY <3>1, <3>2 DEF Allowed, Admins
      <3> HIDE DEF yes
      <3> QED
        BY <1>0, <1>2, <3>3, <3>4, ActingChecked
    <2> QED
      BY <2>1, <2>2, <2>3
  <1>8. CASE SelectRole(w)
    <2>1. CASE Verdict(w, FALSE)
      BY <1>5, <2>1
    <2>2. CASE ~Verdict(w, FALSE)
      <3>1. /\ pc[w] = "selectRole" /\ pc'[w] = "cacheRole"
            /\ UNCHANGED <<req[w], room[w], check[w], who[w], todo[w]>>
        BY <1>1, <1>8, <2>2 DEF SelectRole, Goto, Control, At
      <3> QED
        BY <1>0, <1>2, <1>3, <3>1, ActingAsked DEF Asks, RoleAsks, MemberAsks
    <2> QED
      BY <2>1, <2>2
  <1>9. CASE CacheRole(w)
    <2>1. role[w] = roles[Key(w)] /\ check[w] # "member"
      BY <1>1, <1>3, <1>9 DEF CacheRole, At, RoleAtHand, RoleLabels, MemberAsks
    <2> DEFINE yes == role[w] \in Allowed(check[w])
    <2>2. yes \in BOOLEAN /\ Verdict(w, yes)
      BY <1>9 DEF CacheRole
    <2>3. yes => /\ check[w] = "owner" => roles[Key(w)] = "OWNER"
                 /\ check[w] = "admin" => roles[Key(w)] \in Admins
      BY <2>1 DEF Allowed, Admins
    <2> HIDE DEF yes
    <2> QED
      BY <1>0, <1>2, <2>1, <2>2, <2>3, ActingChecked
  <1>m. ASSUME NEW yes \in BOOLEAN, Verdict(w, yes), check[w] = "member",
               yes /\ room[w] \in Standing => roles[Key(w)] # None
        PROVE  Acting(w)'
    BY <1>0, <1>2, <1>m, ActingChecked
  <1>10. CASE ReadMembers(w)
    <2>1. check[w] = "member"
      BY <1>3, <1>10 DEF ReadMembers, At, MemberAsks
    <2>2. PICK S \in {membersKey[room[w]]} :
            \/ S # {} /\ Verdict(w, who[w] \in S)
            \/ S = {} /\ Move(w, "readMembers", "existsMember")
      BY <1>10 DEF ReadMembers, Seen
    <2>3. CASE Move(w, "readMembers", "existsMember")
      BY <1>6, <2>3 DEF Asks, MemberAsks
    <2>4. CASE Verdict(w, who[w] \in S)
      <3> DEFINE yes == who[w] \in S
      <3>1. yes /\ room[w] \in Standing => roles[Key(w)] # None
        BY <1>1, <1>3, <2>2 DEF MembersAgree, Key, StaleLabels
      <3>2. yes \in BOOLEAN /\ Verdict(w, yes)
        BY <2>4
      <3> HIDE DEF yes
      <3> QED
        BY <1>m, <2>1, <3>1, <3>2
    <2> QED
      BY <2>2, <2>3, <2>4
  <1>11. CASE ExistsMember(w)
    <2>1. check[w] = "member"
      BY <1>3, <1>11 DEF ExistsMember, At, MemberAsks
    <2>2. \/ memberKey[Key(w)] # None /\ Verdict(w, TRUE)
          \/ Move(w, "existsMember", "selectMember")
      BY <1>11 DEF ExistsMember, Seen
    <2>3. CASE Move(w, "existsMember", "selectMember")
      BY <1>6, <2>3 DEF Asks, MemberAsks
    <2>4. CASE memberKey[Key(w)] # None /\ Verdict(w, TRUE)
      BY <1>4, <1>m, <2>1, <2>4
    <2> QED
      BY <2>2, <2>3, <2>4
  <1>12. CASE SelectMember(w)
    <2>1. Verdict(w, FALSE) \/ Move(w, "selectMember", "joinMembers")
      BY <1>12 DEF SelectMember
    <2>2. CASE Move(w, "selectMember", "joinMembers")
      BY <1>6, <2>2 DEF Asks, MemberAsks
    <2> QED
      BY <1>5, <2>1, <2>2
  <1>13. CASE JoinMembers(w)
    <2>1. Verdict(w, TRUE) /\ check[w] = "member" /\ roles[Key(w)] # None
      BY <1>1, <1>3, <1>13 DEF JoinMembers, At, MemberAsks, MembersAgree
    <2> QED
      BY <1>m, <2>1
  <1> QED
    BY <1>7, <1>8, <1>9, <1>10, <1>11, <1>12, <1>13 DEF CheckStep

LEMMA ActingLoop ==
  ASSUME Inv, NEW w \in Workers, Acting(w), NextMember(w)
  PROVE  Acting(w)'
  <1>0. pc[w] = "next"
    BY DEF NextMember, At
  <1>1. /\ Control /\ Entitled(w) /\ Aimed(w) /\ UNCHANGED <<rooms, roles>>
        /\ pc[w] \notin Asks
    BY <1>0, AtHand DEF Acting, NextMember, db, Asks, RoleAsks, MemberAsks
  <1>2. CASE todo[w] = {} /\ Move(w, "next", "countMembers")
    BY <1>0, <1>1, <1>2, Moves DEF Acting, Entitled, Aimed, Mine, Standing, Onto, Asks, RoleAsks,
       MemberAsks
  <1>3. CASE ~(todo[w] = {} /\ Move(w, "next", "countMembers"))
    <2>1. PICK m \in todo[w] :
            /\ todo'[w] = todo[w] \ {m}
            /\ who'[w] = m[1]
            /\ role'[w] = m[2]
            /\ UNCHANGED <<req, room>>
            /\ \/ req[w].op = "create" /\ pc'[w] = "insertMember"
               \/ req[w].op = "add" /\ pc'[w] = "readMembers" /\ check'[w] = "member"
               \/ /\ req[w].op = "remove" /\ m[1] # req[w].user
                  /\ pc'[w] = "readRole" /\ check'[w] = "owner"
               \/ req[w].op = "remove" /\ pc'[w] = "next"
      BY <1>0, <1>1, <1>3, SMTT(30) DEF NextMember, Goto, Control
    <2>2. Entitled(w)'
      BY <1>0, <1>1, <2>1 DEF Entitled, Mine, Standing
    <2>3. Aimed(w)'
      BY <1>0, <1>1, <2>1 DEF Aimed, Asks, RoleAsks, MemberAsks
    <2> QED
      BY <2>2, <2>3 DEF Acting
  <1> QED
    BY <1>2, <1>3

LEMMA ActingElsewhere ==
  ASSUME Inv, NEW w \in Workers, Alone(w), Acting(w), Step(w), ~CheckStep(w), ~NextMember(w)
  PROVE  Acting(w)'
  <1>0. pc[w] # "idle"
    BY StepBusy
  <1>1. Control /\ OnPath(w) /\ TableSound /\ Entitled(w) /\ Aimed(w) /\ Serves(w)
    BY <1>0, AtHand DEF Alone, Acting
  <1>2. CASE pc'[w] = "idle"
    BY <1>2 DEF Acting
  <1>3. CASE pc'[w] # "idle"
    <2>1. /\ pc[w] \notin Asks
          /\ pc'[w] \notin Asks \cup {"insertMember", "deleteMember"}
          /\ UNCHANGED <<req[w], check[w]>>
          /\ pc[w] # "insertRoom" => UNCHANGED room[w]
          /\ UNCHANGED todo[w] \/ req[w].op # "add" \/ pc'[w] = "joinAll"
      BY <1>1, <1>3, Elsewhere
    <2>2. Aimed(w)'
      <3>1. pc[w] \in {"selectAll", "joinAll"} => pc'[w] = "joinAll" \/ req[w].op # "add"
        <4>1. CASE pc[w] \in {"selectAll", "joinAll"}
          <5>1. SelectAll(w) \/ JoinAll(w)
            BY <4>1 DEF Step, CheckStep, MemberStep, RoomStep, ReadStep, Move, At, InsertRoom,
               InsertOwner, InsertMember, SelectNickname, SetInfo, JoinInfo, PutRole,
               DropList, DeleteMember, LeaveSet, DelMember, CountMembers, StoreCount, ReadCached,
               StoreCached, ReadRoom, ReadIds, ReadInfo, SelectRoom, StoreRoom, SelectRows, Fill,
               UpdateRoom, UpdateRole, Reselect, ReadToTell, SelectToTell, Dissolve, DelRoom,
               DelMembers, Tell, ReadList, SelectRooms, StoreList, ValidMembers, ValidSelect,
               ValidJoin, ListMembers
          <5> QED
            BY <1>1, <1>3, <5>1, Moves DEF SelectAll, JoinAll, At, Goto, Control
        <4> QED
          BY <4>1
      <3> QED
        BY <1>1, <2>1, <3>1 DEF Aimed
    <2>3. Entitled(w)'
      <3> SUFFICES ASSUME room'[w] \in Standing',
                          req[w].op \in {"update", "remove", "add", "dissolve", "role", "get"}
                   PROVE  Entitled(w)'
        BY <2>1 DEF Entitled
      <3>1. pc[w] # "insertRoom" /\ UNCHANGED room[w]
        BY <1>1, <2>1 DEF OnPath
      <3>2. room[w] \in Standing \/ room[w] \in Rooms \ used
        BY <1>1, <3>1, RowsStay
      <3>3. room[w] \in used
        <4>1. Granted(w) /\ room[w] \in Rooms /\ req[w].user \in Users
          BY <1>0, <3>1, AtHand
        <4>2. \/ EverAdmin(room[w], req[w].user)
              \/ EverOwner(room[w], req[w].user)
              \/ EverMember(room[w], req[w].user)
          BY <2>1, <4>1 DEF Granted
        <4>3. EverMember(room[w], req[w].user)
          BY <4>2 DEF EverAdmin, EverOwner, EverMember, Roles
        <4> QED
          BY <1>1, <4>1, <4>3 DEF TableSound
      <3>4. room[w] \in Standing
        BY <3>2, <3>3
      <3>5. Mine(w)' = Mine(w) \/ (req[w].op = "add" /\ req[w].user \in req[w].targets /\ Mine(w)' = "MEMBER")
        BY <1>1, <2>1, <3>1, <3>4, MineStays DEF Mine
      <3> QED
        BY <1>0, <1>1, <2>1, <3>1, <3>4, <3>5 DEF Entitled, Admins
    <2> QED
      BY <2>2, <2>3 DEF Acting
  <1> QED
    BY <1>2, <1>3

LEMMA ActingStep ==
  ASSUME ~LossyRedis, ~Faults, Inv, NEW w \in Workers, Workers = {w}, Alone(w), Acting(w),
         [Next]_vars
  PROVE  Acting(w)'
  <1>0. Control
    BY TypeParts DEF Inv
  <1>1. CASE Arrival(w)
    <2>1. /\ check'[w] = CASE req'[w].op \in {"get", "leave"} -> "member"
                           [] req'[w].op \in {"update", "add", "remove"} -> "admin"
                           [] req'[w].op \in {"dissolve", "role"} -> "owner"
                           [] OTHER -> None
          /\ req'[w].op \in {"get", "leave"} => pc'[w] = "readMembers"
          /\ req'[w].op \in {"update", "add", "remove", "dissolve", "role"} => pc'[w] = "readRole"
          /\ req'[w].op = "add" => todo'[w] = req'[w].targets \X {"MEMBER"}
      BY <1>0, <1>1 DEF Arrival, CreateChatRoom, GetChatRoom, UpdateChatRoom, DissolveChatRoom,
         AddChatRoomMember, RemoveChatRoomMember, UpdateMemberRole, LeaveChatRoom,
         GetUserChats, IsValidChatMember, GetChatMembers, Receive, Goto, Control
    <2> QED
      BY <2>1, NoneAssumption DEF Acting, Entitled, Aimed, Asks, RoleAsks, MemberAsks
  <1>2. CASE Step(w)
    BY <1>2, ActingCheck, ActingLoop, ActingElsewhere
  <1>3. CASE Expiry \/ UNCHANGED vars
    <2>1. UNCHANGED <<rooms, roles, pc, req, room, check, who, role, todo>>
      BY <1>3 DEF Expiry, vars, db, local, member
    <2> QED
      BY <2>1 DEF Acting, Entitled, Aimed, Mine, Standing
  <1> QED
    BY <1>1, <1>2, <1>3 DEF Next, SqlError, Crash

(* Whoever acts has the role for it at that step. *)
LEMMA PresentStep ==
  ASSUME ~LossyRedis, Inv, NEW w \in Workers, Alone(w), Acting(w), Step(w), room[w] \in Standing
  PROVE  ByPresentRole(w)
  <1> DEFINE r == room[w]
             u == req[w].user
  <1>0. pc[w] # "idle"
    BY StepBusy
  <1>1. /\ Control /\ Stored /\ Serves(w) /\ Entitled(w) /\ Aimed(w)
        /\ OnPath(w) /\ TableSound /\ MembersAgree(w)
        /\ r \in Rooms /\ u \in Users /\ who[w] \in Users /\ rooms[r] # None
    BY <1>0, AtHand DEF Acting, Alone, Standing
  <1>2. rooms'[r] = None => req[w].op = "dissolve" /\ Mine(w) = "OWNER"
    <2> SUFFICES ASSUME rooms'[r] = None
                 PROVE  req[w].op = "dissolve" /\ Mine(w) = "OWNER"
      OBVIOUS
    <2>1. Standing' # Standing
      BY <1>1 DEF Standing
    <2>2. ~InsertRoom(w)
      <3> SUFFICES ASSUME InsertRoom(w)
                   PROVE  FALSE
        OBVIOUS
      <3>1. PICK s \in Rooms \ used : rooms' = [rooms EXCEPT ![s] = [name |-> req[w].name, count |-> 0]]
        BY <1>1, <2>1 DEF InsertRoom, Standing
      <3>2. s # r
        BY <1>1, <3>1 DEF TableSound
      <3> QED
        BY <1>1, <3>1, <3>2 DEF Stored
    <2>3. pc[w] = "dissolve"
      BY <2>1, <2>2, SameRooms DEF Dissolve, At
    <2> QED
      BY <1>0, <1>1, <2>3 DEF OnPath, Entitled, Asks, RoleAsks, MemberAsks
  <1>3. rooms'[r] # None /\ rooms'[r].name # rooms[r].name => Mine(w) \in Admins
    <2>1. CASE UpdateRoom(w)
      <3>1. pc[w] = "updateRoom"
        BY <2>1 DEF UpdateRoom, At
      <3> QED
        BY <1>0, <1>1, <3>1 DEF OnPath, Entitled, Asks, RoleAsks, MemberAsks
    <2>2. CASE InsertRoom(w)
      <3>1. UNCHANGED rooms \/ \E s \in Rooms \ used :
              rooms' = [rooms EXCEPT ![s] = [name |-> req[w].name, count |-> 0]]
        BY <2>2 DEF InsertRoom
      <3> QED
        BY <1>1, <3>1 DEF Stored, TableSound
    <2>3. CASE StoreCount(w)
      <3>1. UNCHANGED rooms \/ rooms' = [rooms EXCEPT ![r].count = count[w]]
        BY <2>3 DEF StoreCount
      <3>2. rooms[r] \in Row
        BY <1>1 DEF Stored
      <3> QED
        BY <1>1, <3>1, <3>2 DEF Stored, Row
    <2>4. CASE Dissolve(w)
      <3>1. UNCHANGED rooms \/ rooms' = [rooms EXCEPT ![r] = None]
        BY <2>4 DEF Dissolve
      <3> QED
        BY <1>1, <3>1 DEF Stored
    <2>5. CASE InsertOwner(w) \/ InsertMember(w) \/ DeleteMember(w) \/ UpdateRole(w) \/ UNCHANGED db
      BY <2>5 DEF InsertOwner, InsertMember, DeleteMember, UpdateRole, SetRow, db
    <2> QED
      BY <2>1, <2>2, <2>3, <2>4, <2>5, WhoWrites DEF Writing
  <1>4. ASSUME rooms'[r] # None, NEW v \in Users, v # u, roles'[<<r, v>>] # roles[<<r, v>>]
        PROVE  \/ req[w].op = "create"
               \/ req[w].op = "role" /\ Mine(w) = "OWNER"
               \/ req[w].op \in {"add", "remove"} /\ Mine(w) \in Admins
               \/ req[w].op = "add" /\ u \in req[w].targets /\ Mine(w) = "MEMBER"
    <2>1. CASE InsertOwner(w) \/ InsertMember(w)
      <3>1. pc[w] \in {"insertOwner", "insertMember"}
        BY <2>1 DEF InsertOwner, InsertMember, At
      <3> QED
        BY <1>0, <1>1, <3>1 DEF OnPath, Entitled, Asks, RoleAsks, MemberAsks
    <2>2. CASE DeleteMember(w)
      <3>1. pc[w] = "deleteMember" /\ roles' = [roles EXCEPT ![Key(w)] = None]
        BY <2>2 DEF DeleteMember, At
      <3>2. v = who[w]
        BY <1>1, <1>4, <3>1 DEF Stored, Key
      <3>3. req[w].op = "remove"
        BY <1>1, <1>4, <3>1, <3>2 DEF OnPath, Aimed
      <3> QED
        BY <1>0, <1>1, <3>1, <3>3 DEF Entitled, Asks, RoleAsks, MemberAsks
    <2>3. CASE UpdateRole(w)
      <3>1. pc[w] = "updateRole"
        BY <2>3 DEF UpdateRole, At
      <3> QED
        BY <1>0, <1>1, <3>1 DEF OnPath, Entitled, Asks, RoleAsks, MemberAsks
    <2>4. CASE Dissolve(w)
      <3>1. UNCHANGED roles \/ rooms' = [rooms EXCEPT ![r] = None]
        BY <2>4 DEF Dissolve
      <3> QED
        BY <1>1, <1>4, <3>1 DEF Stored
    <2>5. CASE InsertRoom(w) \/ StoreCount(w) \/ UpdateRoom(w) \/ UNCHANGED db
      BY <1>4, <2>5 DEF InsertRoom, StoreCount, UpdateRoom, db
    <2> QED
      BY <2>1, <2>2, <2>3, <2>4, <2>5, WhoWrites DEF Writing
  <1>5. rooms'[r] # None /\ roles'[<<r, u>>] # roles[<<r, u>>] =>
          req[w].op = "create" \/ roles'[<<r, u>>] \in {"MEMBER", None}
    <2> SUFFICES ASSUME rooms'[r] # None, roles'[<<r, u>>] # Mine(w)
                 PROVE  req[w].op = "create" \/ roles'[<<r, u>>] \in {"MEMBER", None}
      BY DEF Mine
    <2>1. CASE req[w].op # "leave"
      BY <1>1, <2>1, MineStays DEF Standing
    <2>2. CASE req[w].op = "leave" /\ DeleteMember(w)
      BY <1>1, <2>2 DEF DeleteMember, Stored, Mine
    <2>3. CASE req[w].op = "leave" /\ ~DeleteMember(w)
      <3>1. ~(InsertOwner(w) \/ InsertMember(w) \/ UpdateRole(w) \/ Dissolve(w))
        BY <1>1, <2>3 DEF InsertOwner, InsertMember, UpdateRole, Dissolve, At, OnPath
      <3> QED
        BY <2>3, <3>1, WhoWrites DEF Writing, InsertRoom, StoreCount, UpdateRoom, db, Mine
    <2> QED
      BY <2>1, <2>2, <2>3
  <1>6. ASSUME req[w].op \in {"get", "validate"}, pc'[w] = "idle", reply'[w].ok
        PROVE  Mine(w) # None
    <2>1. \A x : Done(w, x) => reply'[w] = x
      BY <1>1 DEF Done, Control
    <2>2. ~Failed.ok
      BY DEF Failed
    <2>3. CASE req[w].op = "validate"
      <3>1. pc[w] \in ValidAsks /\ Key(w) = <<r, u>>
        BY <1>0, <1>1, <2>3 DEF Serves, Key
      <3>2. ValidMembers(w) \/ ValidSelect(w) \/ ValidJoin(w)
        BY <3>1 DEF ValidAsks, Step, CheckStep, MemberStep, RoomStep, ReadStep, Move, At, ReadRole,
           SelectRole, CacheRole, ReadMembers, ExistsMember, SelectMember, JoinMembers, InsertRoom,
           InsertOwner, NextMember, InsertMember, SelectNickname, SetInfo, JoinInfo, PutRole,
           DropList, DeleteMember, LeaveSet, DelMember, CountMembers, StoreCount, ReadCached,
           StoreCached, ReadRoom, ReadIds, ReadInfo, SelectRoom, StoreRoom, SelectRows, Fill,
           UpdateRoom, UpdateRole, Reselect, ReadToTell, SelectToTell, Dissolve, DelRoom,
           DelMembers, Tell, ReadList, SelectRooms, StoreList, ListMembers, SelectAll, JoinAll
      <3>3. CASE ValidMembers(w)
        <4>1. Move(w, "validMembers", "validSelect") \/
              Done(w, IF who[w] \in membersKey[r] THEN Answered({who[w]}) ELSE Failed)
          BY <3>3 DEF ValidMembers, Seen
        <4>2. pc[w] = "validMembers"
          BY <3>3 DEF ValidMembers, At
        <4>3. ~Move(w, "validMembers", "validSelect")
          BY <1>1, <1>6, Moves DEF Onto
        <4>4. who[w] \in membersKey[r]
          BY <1>6, <2>1, <2>2, <4>1, <4>3
        <4> QED
          BY <1>1, <3>1, <4>2, <4>4 DEF MembersAgree, Mine, Key, Standing
      <3>4. CASE ValidSelect(w)
        <4>1. Move(w, "validSelect", "validJoin") \/ Done(w, Failed)
          BY <3>4 DEF ValidSelect
        <4> QED
          BY <1>1, <1>6, <2>1, <2>2, <4>1, Moves DEF Onto
      <3>5. CASE ValidJoin(w)
        BY <1>1, <3>1, <3>5 DEF ValidJoin, At, MembersAgree, Mine
      <3> QED
        BY <3>2, <3>3, <3>4, <3>5
    <2>4. CASE req[w].op = "get" /\ pc[w] \notin Asks
      BY <1>0, <1>1, <2>4 DEF Entitled
    <2>5. CASE req[w].op = "get" /\ pc[w] \in Asks
      <3>1. CheckStep(w) \/ NextMember(w)
        BY <1>1, <2>5, Elsewhere
      <3>2. CheckStep(w)
        BY <2>5, <3>1 DEF NextMember, At, Asks, RoleAsks, MemberAsks
      <3>3. ASSUME NEW yes, Verdict(w, yes)
            PROVE  reply'[w] = Failed
        <4>1. Onward(req[w].op, check[w], yes) # "idle"
          BY <2>5 DEF Onward
        <4> QED
          BY <1>1, <1>6, <2>1, <3>3, <4>1 DEF Verdict, Goto, Control
      <3>4. Verdict(w, TRUE) \/ Verdict(w, FALSE) => reply'[w] = Failed
        BY <3>3, ZenonT(30)
      <3>5. \A l, m : Move(w, l, m) => m = "idle"
        BY <1>1, <1>6, Moves DEF Onto
      <3>6. reply'[w] = Failed
        <4>1. CASE ReadRole(w)
          BY <3>3, <3>5, <4>1 DEF ReadRole
        <4>2. CASE SelectRole(w)
          BY <1>1, <1>6, <3>4, <4>2 DEF SelectRole, Goto, Control
        <4>3. CASE CacheRole(w)
          BY <3>3, <4>3 DEF CacheRole
        <4>4. CASE ReadMembers(w)
          BY <3>3, <3>5, <4>4 DEF ReadMembers
        <4>5. CASE ExistsMember(w)
          <5>1. Verdict(w, TRUE) \/ Move(w, "existsMember", "selectMember")
            BY <4>5 DEF ExistsMember
          <5> QED
            BY <3>4, <3>5, <5>1
        <4>6. CASE SelectMember(w)
          <5>1. Verdict(w, FALSE) \/ Move(w, "selectMember", "joinMembers")
            BY <4>6 DEF SelectMember
          <5> QED
            BY <3>4, <3>5, <5>1
        <4>7. CASE JoinMembers(w)
          <5>1. Verdict(w, TRUE)
            BY <4>7 DEF JoinMembers
          <5> QED
            BY ONLY <3>4, <5>1
        <4> QED
          BY <3>2, <4>1, <4>2, <4>3, <4>4, <4>5, <4>6, <4>7 DEF CheckStep
      <3> QED
        BY <1>6, <2>2, <3>6
    <2> QED
      BY <1>6, <2>3, <2>4, <2>5
  <1> QED
    BY <1>1, <1>2, <1>3, <1>4, <1>5, <1>6 DEF ByPresentRole, Mine, Admins

(* Served alone, nobody changes, dissolves or is shown a room, or is let to*)
(* its messages, by a role he no longer has: what isChatRoomOwner,         *)
(* isChatRoomAdmin and isChatRoomMember found is still so when the handler *)
(* acts on it, whatever has expired and whoever was removed before.        *)
THEOREM AloneActsByPresentRole ==
  ASSUME ~LossyRedis, ~Faults, NEW me, Workers = {me}
  PROVE  Spec => ActsByPresentRole
  <1>1. Init => Acting(me)
    BY DEF Init, Acting
  <1>2. Inv /\ Alone(me) /\ Acting(me) /\ [Next]_vars => Acting(me)'
    BY ActingStep
  <1>3. Inv /\ Alone(me) /\ Acting(me) /\ [Next]_vars =>
          [\A w \in Workers : pc'[w] # pc[w] /\ room[w] \in Standing => ByPresentRole(w)]_vars
    <2> SUFFICES ASSUME Inv, Alone(me), Acting(me), Next, pc'[me] # pc[me], room[me] \in Standing
                 PROVE  ByPresentRole(me)
      OBVIOUS
    <2>1. CASE Step(me)
      BY <2>1, PresentStep
    <2>2. CASE Arrival(me)
      <3>1. /\ UNCHANGED <<rooms, roles>> /\ reply'[me] = None /\ rooms[room[me]] # None
        BY <2>2, TypeParts DEF Arrival, CreateChatRoom, GetChatRoom, UpdateChatRoom,
           DissolveChatRoom, AddChatRoomMember, RemoveChatRoomMember, UpdateMemberRole,
           LeaveChatRoom, GetUserChats, IsValidChatMember, GetChatMembers, Receive, Inv, Control,
           db, Standing
      <3> QED
        BY <3>1 DEF ByPresentRole
    <2> QED
      BY <2>1, <2>2 DEF Next, SqlError, Crash, Expiry
  <1> QED
    BY <1>1, <1>2, <1>3, AloneInvariance, PTL DEF Spec, ActsByPresentRole
=============================================================================
