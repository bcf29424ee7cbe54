--------------------------- MODULE ChatRoomsProofs --------------------------
(***************************************************************************)
(* Proofs about ChatRooms, for any number of connections, users, rooms and *)
(* requests, with lost Redis commands, SQL errors, crashes and expiry.     *)
(***************************************************************************)
EXTENDS ChatRooms, FiniteSetTheorems, TLAPS

RoleAsks == {"readRole", "selectRole", "cacheRole"}
MemberAsks == {"readMembers", "existsMember", "selectMember", "joinMembers"}
Asks == RoleAsks \cup MemberAsks
ValidAsks == {"validMembers", "validSelect", "validJoin"}

(* The checks each handler makes, first of its caller. *)
Checks(op) ==
  CASE op = "get" -> {"member"}
    [] op = "update" -> {"admin"}
    [] op \in {"dissolve", "role"} -> {"owner"}
    [] op = "add" -> {"admin", "member"}
    [] op = "remove" -> {"admin", "owner"}
    [] op = "leave" -> {"member", "owner"}
    [] OTHER -> {}

(* Where the local role is one that was held; where todo is rows of the    *)
(* table.                                                                  *)
RoleLabels ==
  {"cacheRole", "selectNickname", "setInfo", "joinInfo", "putInfo", "setAgain",
   "joinAgain", "putAgain", "joinCache", "putCache"}
FillLabels == {"setInfo", "joinInfo", "putInfo"}

(* Whom and what a worker serves. *)
Serves(w) ==
  /\ req[w] \in Requests
  /\ who[w] \in Users
  /\ req[w].op # "create" => room[w] = req[w].room
  /\ IF pc[w] = "insertRoom" THEN req[w].op = "create" ELSE room[w] \in Rooms
  /\ req[w].op = "validate" <=> pc[w] \in ValidAsks
  /\ pc[w] \in ValidAsks => who[w] = req[w].user
  /\ pc[w] = "selectNickname" => req[w].op = "add"
  /\ pc[w] \in {"updateRole", "reselect"} => req[w].op = "role"
  /\ pc[w] \in {"readToTell", "selectToTell", "dissolve"} => req[w].op = "dissolve"
  /\ pc[w] \in Asks =>
       /\ check[w] \in Checks(req[w].op)
       /\ check[w] = "member" <=> pc[w] \in MemberAsks
       /\ \/ who[w] = req[w].user
          \/ req[w].op = "add" /\ check[w] = "member"
          \/ req[w].op = "remove" /\ check[w] = "owner"

(* What the checks it passed have told it. *)
Granted(w) ==
  LET op == req[w].op
      caller == req[w].user
      asks(k) == pc[w] \in Asks /\ check[w] = k
  IN
  /\ op \in {"update", "add", "remove"} => asks("admin") \/ EverAdmin(room[w], caller)
  /\ op \in {"dissolve", "role"} => asks("owner") \/ EverOwner(room[w], caller)
  /\ op \in {"get", "leave"} => asks("member") \/ EverMember(room[w], caller)

(* What it read and has not written yet was once in the table.             *)
Read(w) ==
  /\ pc[w] \in RoleLabels => <<room[w], who[w], role[w]>> \in held
  /\ pc[w] = "insertMember" \/ (pc[w] \in MemberAsks /\ req[w].op = "add") =>
       role[w] \in Roles
  /\ pc[w] \in {"joinMembers", "validJoin"} => EverMember(room[w], who[w])
  /\ pc[w] = "joinAll" => \A m \in todo[w] : EverMember(room[w], m[1])
  /\ pc[w] = "fill" \/ (req[w].op = "get" /\ pc[w] \in FillLabels) =>
       \A m \in todo[w] : <<room[w], m[1], m[2]>> \in held
  /\ pc[w] = "storeList" => \A r \in found[w] : r \in Rooms /\ EverMember(r, who[w])
  /\ pc[w] \in {"storeRoom", "storeCached"} => row[w] \in Row

Answers(w) ==
  reply[w] # None /\ reply[w].ok /\ req[w].op = "validate" =>
    EverMember(req[w].room, req[w].user)

Holds(w) == (pc[w] # "idle" => Serves(w) /\ Granted(w) /\ Read(w)) /\ Answers(w)

RolesHeld ==
  \A r \in Rooms, u \in Users :
    roles[<<r, u>>] \in Roles => <<r, u, roles[<<r, u>>]>> \in held

(* The inductive invariant: workers' locals, the table and the caches are  *)
(* each only what the table once said.                                     *)
Inv == TypeOK /\ (\A w \in Workers : Holds(w)) /\ RolesHeld /\ CachesHeld

Replies == [ok : BOOLEAN, found : SUBSET (Users \cup Rooms)]

(* The types of what a step of a worker may touch beside table and keys.   *)
Control ==
  /\ pc \in [Workers -> Labels]
  /\ req \in [Workers -> Requests \cup {None}]
  /\ room \in [Workers -> Rooms \cup {None}]
  /\ check \in [Workers -> {"owner", "admin", "member", None}]
  /\ who \in [Workers -> Users \cup {None}]
  /\ role \in [Workers -> Roles \cup {None}]
  /\ todo \in [Workers -> SUBSET (Users \X Roles)]
  /\ found \in [Workers -> SUBSET (Users \cup Rooms)]
  /\ row \in [Workers -> Row \cup {None}]
  /\ count \in [Workers -> Nat]
  /\ reply \in [Workers -> Replies \cup {None}]

Stored ==
  /\ rooms \in [Rooms -> Row \cup {None}]
  /\ used \subseteq Rooms
  /\ roles \in [Rooms \X Users -> Roles \cup {None}]
  /\ held \subseteq Rooms \X Users \X Roles

Cached ==
  /\ roomKey \in [Rooms -> Row \cup {None}]
  /\ membersKey \in [Rooms -> SUBSET Users]
  /\ memberKey \in [Rooms \X Users -> [kind : {"string", "hash"}, role : Roles] \cup {None}]
  /\ userChats \in [Users -> {None} \cup SUBSET Rooms]

LEMMA TypeParts == TypeOK <=> Control /\ Stored /\ Cached
  BY DEF TypeOK, Control, Stored, Cached, Replies

LEMMA ReplyTypes ==
  /\ Failed \in Replies
  /\ \A S \in SUBSET (Users \cup Rooms) : Answered(S) \in Replies
  BY DEF Failed, Answered, Replies

LEMMA DoneControl ==
  ASSUME Control, NEW w \in Workers, NEW r \in Replies, Done(w, r)
  PROVE  Control'
  BY DEF Control, Done, Reset, Labels

LEMMA MoveControl ==
  ASSUME Control, NEW w \in Workers, NEW l, NEW m \in Labels, Move(w, l, m)
  PROVE  Control'
  BY DEF Control, Move, Goto, local, member

LEMMA VerdictControl ==
  ASSUME Control, NEW w \in Workers, NEW yes, Verdict(w, yes)
  PROVE  Control'
  <1> DEFINE to == Onward(req[w].op, check[w], yes)
  <1>1. CASE to = "refuse"
    BY <1>1, DoneControl, ReplyTypes DEF Verdict
  <1>2. CASE to # "refuse"
    <2>1. to \in Labels
      BY <1>2 DEF Onward, Labels, HandlerSql, CheckSql
    <2> QED
      BY <1>2, <2>1 DEF Verdict, Control, Goto
  <1> QED
    BY <1>1, <1>2

LEMMA CountedControl ==
  ASSUME Control, NEW w \in Workers, Counted(w)
  PROVE  Control'
  BY DoneControl, ReplyTypes DEF Counted, Control, Goto, local, member, Labels, HandlerSql

LEMMA KeepControl ==
  ASSUME Control, NEW w \in Workers, KeepMember(w)
  PROVE  Control'
  BY DoneControl, MoveControl, ReplyTypes DEF KeepMember, Labels

(* A step of a worker is made at its label, not between requests. *)
LEMMA StepBusy ==
  ASSUME NEW w \in Workers, Step(w) \/ SqlError(w)
  PROVE  pc[w] # "idle"
  BY DEF Step, CheckStep, MemberStep, RoomStep, ReadStep, Move, At, ReadRole, SelectRole,
     CacheRole, ReadMembers, ExistsMember, SelectMember, JoinMembers, InsertRoom,
     InsertOwner, NextMember, InsertMember, SelectNickname, SetInfo, JoinInfo, PutRole,
     DropList, DeleteMember, LeaveSet, DelMember, CountMembers, StoreCount, ReadCached,
     StoreCached, ReadRoom, ReadIds, ReadInfo, SelectRoom, StoreRoom, SelectRows, Fill,
     UpdateRoom, UpdateRole, Reselect, ReadToTell, SelectToTell, Dissolve, DelRoom,
     DelMembers, Tell, ReadList, SelectRooms, StoreList, ValidMembers, ValidSelect,
     ValidJoin, ListMembers, SelectAll, JoinAll, SqlError, CheckSql, CountSql, HandlerSql

(* A write of a key, done or lost, keeps the type of the map. *)
LEMMA PutTypes ==
  ASSUME NEW S, NEW T, NEW f \in [S -> T], NEW k, NEW v \in T, NEW g \in Put(f, k, v)
  PROVE  g \in [S -> T]
  BY DEF Put, Written

LEMMA RowCount ==
  ASSUME NEW r
  PROVE  Cardinality(MembersOf(r)) \in Nat
  <1>1. IsFiniteSet(MembersOf(r))
    BY UsersAssumption, FS_Subset DEF MembersOf
  <1> QED
    BY <1>1, FS_CardinalityType

(* Most steps only go on to another access, or answer. *)
Goes(w) ==
  \/ \E l \in Labels, m \in Labels : Move(w, l, m)
  \/ \E r \in Replies : Done(w, r)
  \/ \E yes : Verdict(w, yes)
  \/ Counted(w)
  \/ KeepMember(w)

LEMMA GoesControl ==
  ASSUME Control, NEW w \in Workers, Goes(w)
  PROVE  Control'
  BY DoneControl, MoveControl, VerdictControl, CountedControl, KeepControl DEF Goes

Assigning(w) ==
  \/ SelectRole(w) \/ InsertRoom(w) \/ NextMember(w) \/ CountMembers(w)
  \/ ReadCached(w) \/ ReadIds(w) \/ ReadInfo(w) \/ SelectRoom(w) \/ SelectRows(w)
  \/ Fill(w) \/ UpdateRole(w) \/ Reselect(w) \/ ReadToTell(w) \/ SelectToTell(w)
  \/ Tell(w) \/ SelectRooms(w) \/ SelectAll(w) \/ JoinAll(w)

(* What a worker that serves has at hand. *)
LEMMA AtHand ==
  ASSUME Inv, NEW w \in Workers, pc[w] # "idle"
  PROVE  /\ Control /\ Stored /\ Cached
         /\ Serves(w) /\ Granted(w) /\ Read(w)
         /\ req[w] \in RequestSpace
         /\ req[w].user \in Users /\ req[w].room \in Rooms
         /\ who[w] \in Users
         /\ pc[w] # "insertRoom" => room[w] \in Rooms
  <1>1. Control /\ Stored /\ Cached /\ Serves(w) /\ Granted(w) /\ Read(w)
    BY TypeParts DEF Inv, Holds
  <1> QED
    BY <1>1, RequestsAssumption DEF Serves, RequestSpace

LEMMA GoesStep ==
  ASSUME Inv, NEW w \in Workers, Step(w), ~Assigning(w)
  PROVE  Goes(w)
  <1>1. pc[w] # "idle"
    BY StepBusy
  <1>2. /\ Failed \in Replies
        /\ Answered({}) \in Replies
        /\ Answered({who[w]}) \in Replies
        /\ Answered(found[w]) \in Replies
        /\ \A l \in Seen(userChats[who[w]], None) : l # None => Answered(l) \in Replies
        /\ pc[w] # "insertRoom" =>
             \A S \in Seen(membersKey[room[w]], {}) : Answered(S) \in Replies
    BY <1>1, AtHand, ReplyTypes DEF Control, Cached, Seen
  <1> USE <1>2 DEF Goes, Labels, CheckSql, CountSql, HandlerSql, At
  <1>3. CASE ReadRole(w)  BY <1>3 DEF ReadRole
  <1>4. CASE CacheRole(w)  BY <1>4 DEF CacheRole
  <1>5. CASE ReadMembers(w)  BY <1>5 DEF ReadMembers
  <1>6. CASE ExistsMember(w)  BY <1>6 DEF ExistsMember
  <1>7. CASE SelectMember(w)  BY <1>7 DEF SelectMember
  <1>8. CASE JoinMembers(w)  BY <1>8 DEF JoinMembers
  <1>9. CASE InsertOwner(w)  BY <1>9 DEF InsertOwner
  <1>10. CASE InsertMember(w)  BY <1>10 DEF InsertMember
  <1>11. CASE SelectNickname(w)  BY <1>11 DEF SelectNickname
  <1>12. CASE SetInfo(w)  BY <1>12 DEF SetInfo
  <1>13. CASE JoinInfo(w)  BY <1>13 DEF JoinInfo
  <1>14. CASE PutRole(w)  BY <1>14 DEF PutRole
  <1>15. CASE DropList(w)  BY <1>15 DEF DropList
  <1>16. CASE DeleteMember(w)  BY <1>16 DEF DeleteMember
  <1>17. CASE LeaveSet(w)  BY <1>17 DEF LeaveSet
  <1>18. CASE DelMember(w)  BY <1>18 DEF DelMember
  <1>19. CASE StoreCount(w)  BY <1>19 DEF StoreCount
  <1>20. CASE StoreCached(w)  BY <1>20 DEF StoreCached
  <1>21. CASE ReadRoom(w)  BY <1>21 DEF ReadRoom
  <1>22. CASE StoreRoom(w)  BY <1>22 DEF StoreRoom
  <1>23. CASE UpdateRoom(w)  BY <1>23 DEF UpdateRoom
  <1>24. CASE Dissolve(w)  BY <1>24 DEF Dissolve
  <1>25. CASE DelRoom(w)  BY <1>25 DEF DelRoom
  <1>26. CASE DelMembers(w)  BY <1>26 DEF DelMembers
  <1>27. CASE ReadList(w)  BY <1>27 DEF ReadList
  <1>28. CASE StoreList(w)  BY <1>28 DEF StoreList
  <1>29. CASE ValidMembers(w)  BY <1>29 DEF ValidMembers
  <1>30. CASE ValidSelect(w)  BY <1>30 DEF ValidSelect
  <1>31. CASE ValidJoin(w)  BY <1>31 DEF ValidJoin
  <1>32. CASE ListMembers(w)  BY <1>32 DEF ListMembers
  <1> QED
    BY <1>3, <1>4, <1>5, <1>6, <1>7, <1>8, <1>9, <1>10, <1>11, <1>12, <1>13, <1>14,
       <1>15, <1>16, <1>17, <1>18, <1>19, <1>20, <1>21, <1>22, <1>23, <1>24, <1>25,
       <1>26, <1>27, <1>28, <1>29, <1>30, <1>31, <1>32
       DEF Assigning, Step, CheckStep, MemberStep, RoomStep, ReadStep

LEMMA AssignControl ==
  ASSUME Inv, NEW w \in Workers, Assigning(w)
  PROVE  Control'
  <1>0. pc[w] # "idle"
    BY StepBusy DEF Assigning, Step, CheckStep, MemberStep, RoomStep, ReadStep
  <1>1. /\ Control /\ Stored /\ Cached
        /\ who[w] \in Users
        /\ pc[w] # "insertRoom" => room[w] \in Rooms
    BY <1>0, AtHand
  <1>2. CASE Goes(w)
    BY <1>1, <1>2, GoesControl
  <1>3. /\ Failed \in Replies /\ Answered({}) \in Replies /\ Answered(found[w]) \in Replies
    BY <1>1, ReplyTypes DEF Control
  <1>4. ~Goes(w) => /\ ~Done(w, Failed)
                    /\ ~Done(w, Answered({}))
                    /\ ~Done(w, Answered(found[w]))
                    /\ ~Counted(w)
                    /\ ~Verdict(w, FALSE)
                    /\ ~Move(w, "next", "countMembers")
                    /\ ~Move(w, "readInfo", "selectRoom")
    BY <1>3 DEF Goes, Labels, CountSql, HandlerSql
  <1>5. /\ \A m \in todo[w] : m[1] \in Users /\ m[2] \in Roles
        /\ \A m \in todo[w] : todo[w] \ {m} \subseteq Users \X Roles
        /\ \A v \in Row : [v EXCEPT !.count = count[w]] \in Row
        /\ \A S \in SUBSET Users : S \X {"MEMBER"} \subseteq Users \X Roles
    BY <1>1 DEF Control, Row, Roles
  <1> HIDE DEF Goes
  <1> USE <1>1, <1>4, <1>5 DEF Control, At, Goto, member, Key, Labels, CheckSql, CountSql, HandlerSql
  <1>6. CASE ~Goes(w)
    <2> USE <1>6
    <2>1. CASE SelectRole(w)  BY <2>1, ZenonT(60) DEF SelectRole, Stored
    <2>2. CASE InsertRoom(w)  BY <2>2 DEF InsertRoom
    <2>3. CASE NextMember(w)
      <3>1. PICK m \in todo[w] :
              /\ todo' = [todo EXCEPT ![w] = @ \ {m}]
              /\ who' = [who EXCEPT ![w] = m[1]]
              /\ role' = [role EXCEPT ![w] = m[2]]
              /\ pc' \in [Workers -> Labels]
              /\ check' \in [Workers -> {"owner", "admin", "member", None}]
              /\ UNCHANGED <<req, room, found, row, count, reply>>
        BY <2>3, SMTT(30) DEF NextMember
      <3> QED
        BY <3>1
    <2>4. CASE CountMembers(w)  BY <2>4, RowCount DEF CountMembers
    <2>5. CASE ReadCached(w)
      <3>1. PICK v \in Seen(roomKey[room[w]], None) :
              /\ v # None
              /\ row' = [row EXCEPT ![w] = [v EXCEPT !.count = count[w]]]
              /\ Goto(w, "storeCached")
              /\ UNCHANGED <<req, room, member, found, count, reply>>
        BY <2>5 DEF ReadCached
      <3>2. v \in Row
        BY <2>5, <3>1 DEF ReadCached, Seen, Cached
      <3> QED
        BY <3>1, <3>2
    <2>6. CASE ReadIds(w)  BY <2>6 DEF ReadIds, Seen, Cached
    <2>7. CASE ReadInfo(w)
      <3>1. PICK m \in todo[w] :
              /\ todo' = [todo EXCEPT ![w] = @ \ {m}]
              /\ \E v \in Seen(memberKey[<<room[w], m[1]>>], None) :
                   found' = [found EXCEPT ![w] = IF IsInfo(v) THEN @ \cup {m[1]} ELSE @]
              /\ UNCHANGED <<pc, req, room, check, who, role, row, count, reply>>
        BY <2>7 DEF ReadInfo
      <3>2. found' \in [Workers -> SUBSET (Users \cup Rooms)]
        BY <3>1
      <3> QED
        BY <3>1, <3>2
    <2>8. CASE SelectRoom(w)  BY <2>8, ZenonT(60) DEF SelectRoom, Stored
    <2>9. CASE SelectRows(w)  BY <2>9 DEF SelectRows, RowsOf
    <2>10. CASE Fill(w)  BY <2>10, SMTT(30) DEF Fill
    <2>11. CASE UpdateRole(w)  BY <2>11 DEF UpdateRole
    <2>12. CASE Reselect(w)  BY <2>12, ZenonT(60) DEF Reselect, Stored
    <2>13. CASE ReadToTell(w)  BY <2>13 DEF ReadToTell, Seen, Cached
    <2>14. CASE SelectToTell(w)  BY <2>14 DEF SelectToTell, MembersOf
    <2>15. CASE Tell(w)  BY <2>15 DEF Tell
    <2>16. CASE SelectRooms(w)  BY <2>16 DEF SelectRooms, RoomsOf
    <2>17. CASE SelectAll(w)  BY <2>17 DEF SelectAll, MembersOf
    <2>18. CASE JoinAll(w)  BY <2>18 DEF JoinAll
    <2> QED
      BY <2>1, <2>2, <2>3, <2>4, <2>5, <2>6, <2>7, <2>8, <2>9, <2>10, <2>11, <2>12,
         <2>13, <2>14, <2>15, <2>16, <2>17, <2>18 DEF Assigning
  <1> QED
    BY <1>2, <1>6

-----------------------------------------------------------------------------
(* The steps that change the table, and those that change a cache. *)
Writing(w) ==
  \/ InsertRoom(w) \/ InsertOwner(w) \/ InsertMember(w) \/ DeleteMember(w)
  \/ StoreCount(w) \/ UpdateRoom(w) \/ UpdateRole(w) \/ Dissolve(w)

Caching(w) ==
  \/ CacheRole(w) \/ JoinMembers(w) \/ SetInfo(w) \/ JoinInfo(w) \/ PutRole(w)
  \/ DropList(w) \/ LeaveSet(w) \/ DelMember(w) \/ StoreCached(w) \/ StoreRoom(w)
  \/ DelRoom(w) \/ DelMembers(w) \/ StoreList(w) \/ ValidJoin(w) \/ JoinAll(w)

LEMMA WhoWrites ==
  ASSUME NEW w \in Workers, Step(w)
  PROVE  /\ Writing(w) \/ UNCHANGED db
         /\ Caching(w) \/ UNCHANGED redis
  <1>1. Writing(w) \/ UNCHANGED db
    BY DEF Writing, Step, CheckStep, MemberStep, RoomStep, ReadStep, redis,
       ReadRole, SelectRole, CacheRole, ReadMembers, ExistsMember, SelectMember,
       JoinMembers, NextMember, SelectNickname, SetInfo, JoinInfo, PutRole,
       DropList, LeaveSet, DelMember, CountMembers, ReadCached, StoreCached,
       ReadRoom, ReadIds, ReadInfo, SelectRoom, StoreRoom, SelectRows, Fill,
       Reselect, ReadToTell, SelectToTell, DelRoom, DelMembers, Tell, ReadList,
       SelectRooms, StoreList, ValidMembers, ValidSelect, ValidJoin, ListMembers,
       SelectAll, JoinAll
  <1>2. Caching(w) \/ UNCHANGED redis
    BY DEF Caching, Step, CheckStep, MemberStep, RoomStep, ReadStep, db,
       ReadRole, SelectRole, ReadMembers, ExistsMember, SelectMember, NextMember,
       SelectNickname, CountMembers, ReadCached, ReadRoom, ReadIds, ReadInfo,
       SelectRoom, SelectRows, Fill, Reselect, ReadToTell, SelectToTell, Tell,
       ReadList, SelectRooms, ValidMembers, ValidSelect, ListMembers, SelectAll,
       InsertRoom, InsertOwner, InsertMember, DeleteMember, StoreCount, UpdateRoom,
       UpdateRole, Dissolve
  <1> QED
    BY <1>1, <1>2

(* The history covers the table, and only grows. *)
TableHeld == Stored /\ RolesHeld

LEMMA WriteStep ==
  ASSUME Inv, NEW w \in Workers, Writing(w)
  PROVE  TableHeld' /\ held \subseteq held'
  <1>0. pc[w] # "idle"
    BY StepBusy DEF Writing, Step, CheckStep, MemberStep, RoomStep, ReadStep
  <1>1. /\ Control /\ Stored /\ Cached /\ RolesHeld
        /\ Serves(w) /\ Granted(w) /\ Read(w)
        /\ who[w] \in Users
        /\ req[w] \in RequestSpace
        /\ pc[w] # "insertRoom" => room[w] \in Rooms
    BY <1>0, AtHand DEF Inv
  <1>2. ASSUME NEW r \in Rooms, NEW u \in Users, NEW x \in Roles, SetRow(r, u, x)
        PROVE  TableHeld' /\ held \subseteq held'
    BY <1>1, <1>2 DEF SetRow, TableHeld, Stored, RolesHeld
  <1>3. CASE UNCHANGED db
    BY <1>1, <1>3 DEF db, TableHeld, Stored, RolesHeld
  <1> USE <1>1 DEF TableHeld, Stored, RolesHeld
  <1>4. CASE InsertRoom(w)
    <2>1. req[w].name \in Names \cup {None}
      BY DEF RequestSpace
    <2> QED
      BY <1>4, <2>1 DEF InsertRoom, Row
  <1>5. CASE InsertOwner(w)
    BY <1>2, <1>3, <1>5 DEF InsertOwner, At, Roles
  <1>6. CASE InsertMember(w)
    BY <1>2, <1>3, <1>6 DEF InsertMember, At, Read
  <1>7. CASE DeleteMember(w)
    <2>1. room[w] \in Rooms /\ UNCHANGED <<rooms, used, held>>
      BY <1>7 DEF DeleteMember, At
    <2>2. roles' = [roles EXCEPT ![<<room[w], who[w]>>] = None]
      BY <1>7 DEF DeleteMember, Key
    <2>3. roles' \in [Rooms \X Users -> Roles \cup {None}]
      BY <2>2
    <2>4. \A r \in Rooms, u \in Users :
            roles'[<<r, u>>] = roles[<<r, u>>] \/ roles'[<<r, u>>] = None
      BY <2>2
    <2> QED
      BY <2>1, <2>3, <2>4, NoneAssumption
  <1>8. CASE StoreCount(w)
    BY <1>8 DEF StoreCount, Control, Row, At
  <1>9. CASE UpdateRoom(w)
    BY <1>9 DEF UpdateRoom, RequestSpace, Row, At
  <1>10. CASE UpdateRole(w)
    <2>1. PICK m \in todo[w] : SetRow(room[w], m[1], m[2]) \/ UNCHANGED db
      BY <1>10 DEF UpdateRole
    <2>2. m[1] \in Users /\ m[2] \in Roles /\ room[w] \in Rooms
      BY <1>10, <2>1 DEF UpdateRole, At, Control
    <2> QED
      BY <1>2, <1>3, <2>1, <2>2
  <1>11. CASE Dissolve(w)
    <2>1. \/ UNCHANGED <<roles, rooms>>
          \/ /\ rooms' = [rooms EXCEPT ![room[w]] = None]
             /\ roles' = [k \in Rooms \X Users |-> IF k[1] = room[w] THEN None ELSE roles[k]]
      BY <1>11 DEF Dissolve
    <2>2. roles' \in [Rooms \X Users -> Roles \cup {None}] /\ rooms' \in [Rooms -> Row \cup {None}]
      BY <2>1
    <2>3. \A r \in Rooms, u \in Users :
            roles'[<<r, u>>] = roles[<<r, u>>] \/ roles'[<<r, u>>] = None
      BY <2>1
    <2> QED
      BY <1>11, <2>2, <2>3, NoneAssumption DEF Dissolve
  <1> QED
    BY <1>4, <1>5, <1>6, <1>7, <1>8, <1>9, <1>10, <1>11 DEF Writing

CacheHeld == Cached /\ CachesHeld

(* What is cached was held. *)
LEMMA CacheStep ==
  ASSUME Inv, NEW w \in Workers, Caching(w), UNCHANGED db
  PROVE  CacheHeld'
  <1>0. pc[w] # "idle"
    BY StepBusy DEF Caching, Step, CheckStep, MemberStep, RoomStep, ReadStep
  <1>1. /\ Control /\ Stored /\ Cached /\ CachesHeld
        /\ Serves(w) /\ Granted(w) /\ Read(w)
        /\ who[w] \in Users
        /\ pc[w] # "insertRoom" => room[w] \in Rooms
    BY <1>0, AtHand DEF Inv
  <1>2. pc[w] \in RoleLabels => role[w] \in Roles /\ EverMember(room[w], who[w])
    BY <1>1 DEF Read, Stored, EverMember
  <1> USE <1>1 DEF db, CacheHeld, Cached, CachesHeld, EverMember, At
  <1>3. ASSUME NEW u \in Users, room[w] \in Rooms, EverMember(room[w], u),
               SAdd(room[w], u), UNCHANGED <<roomKey, memberKey, userChats>>
        PROVE  CacheHeld'
    <2>1. membersKey' \in [Rooms -> SUBSET Users]
      <3>1. membersKey[room[w]] \cup {u} \in SUBSET Users
        BY <1>3
      <3> QED
        BY <1>3, <3>1, PutTypes DEF SAdd
    <2>2. \A r \in Rooms : membersKey'[r] \subseteq membersKey[r] \cup (IF r = room[w] THEN {u} ELSE {})
      BY <1>3 DEF SAdd, Put, Written
    <2> QED
      BY <1>3, <2>1, <2>2
  <1>4. ASSUME pc[w] \in RoleLabels, UNCHANGED <<roomKey, membersKey, userChats>>,
               NEW v \in {Info(role[w]), Hash(role[w])},
               memberKey' = memberKey \/ memberKey' = [memberKey EXCEPT ![Key(w)] = v]
        PROVE  CacheHeld'
    <2>1. /\ v \in [kind : {"string", "hash"}, role : Roles]
          /\ v.role = role[w]
          /\ room[w] \in Rooms
          /\ <<room[w], who[w], role[w]>> \in held
      BY <1>2, <1>4 DEF Info, Hash, RoleLabels, Read
    <2>2. memberKey' \in [Rooms \X Users -> [kind : {"string", "hash"}, role : Roles] \cup {None}]
      BY <1>4, <2>1 DEF Key
    <2>3. \A r \in Rooms, u \in Users :
            \/ memberKey'[<<r, u>>] = memberKey[<<r, u>>]
            \/ r = room[w] /\ u = who[w] /\ memberKey'[<<r, u>>] = v
      BY <1>4, <2>1 DEF Key
    <2>4. \A r \in Rooms, u \in Users :
            memberKey'[<<r, u>>] # None => <<r, u, memberKey'[<<r, u>>].role>> \in held
      BY <2>1, <2>3, SMTT(30)
    <2> QED
      BY <1>4, <2>2, <2>4
  <1>5. CASE CacheRole(w)  BY <1>4, <1>5 DEF CacheRole, RoleLabels, HSet, Written
  <1>6. CASE JoinMembers(w)  BY <1>3, <1>6 DEF JoinMembers, Read
  <1>7. CASE SetInfo(w)
    <2>1. pc[w] \in RoleLabels
      BY <1>7 DEF SetInfo, Move, RoleLabels
    <2> QED
      BY <1>4, <1>7, <2>1 DEF SetInfo, Put, Written
  <1>8. CASE JoinInfo(w)  BY <1>2, <1>3, <1>8 DEF JoinInfo, Move, RoleLabels
  <1>9. CASE PutRole(w)  BY <1>4, <1>9 DEF PutRole, Move, RoleLabels, HSet, Written
  <1>10. CASE DropList(w)  BY <1>10 DEF DropList, Put, Written
  <1>11. CASE LeaveSet(w)  BY <1>11 DEF LeaveSet, Put, Written, Move
  <1>12. CASE DelMember(w)  BY <1>12 DEF DelMember, Put, Written, Key, Move
  <1>13. CASE StoreCached(w)  BY <1>13 DEF StoreCached, Put, Written, Read
  <1>14. CASE StoreRoom(w)  BY <1>14 DEF StoreRoom, Put, Written, Read
  <1>15. CASE DelRoom(w)  BY <1>15 DEF DelRoom, Put, Written
  <1>16. CASE DelMembers(w)  BY <1>16 DEF DelMembers, Put, Written
  <1>17. CASE StoreList(w)
    <2>1. found[w] \subseteq Rooms /\ \A r \in found[w] : EverMember(r, who[w])
      BY <1>17 DEF StoreList, Read
    <2> QED
      BY <1>17, <2>1 DEF StoreList, Put, Written
  <1>18. CASE ValidJoin(w)  BY <1>3, <1>18 DEF ValidJoin, Read
  <1>19. CASE JoinAll(w)
    <2>1. \A m \in todo[w] : m[1] \in Users /\ EverMember(room[w], m[1])
      BY <1>19 DEF JoinAll, Read, Control
    <2>2. UNCHANGED membersKey \/ \E m \in todo[w] : SAdd(room[w], m[1])
      BY <1>19 DEF JoinAll
    <2> QED
      BY <1>3, <1>19, <2>1, <2>2 DEF JoinAll
  <1> QED
    BY <1>5, <1>6, <1>7, <1>8, <1>9, <1>10, <1>11, <1>12, <1>13, <1>14, <1>15, <1>16,
       <1>17, <1>18, <1>19 DEF Caching

LEMMA WriteCaches ==
  ASSUME Inv, NEW w \in Workers, Writing(w)
  PROVE  CacheHeld'
  <1>1. UNCHANGED redis
    BY DEF Writing, InsertRoom, InsertOwner, InsertMember, DeleteMember, StoreCount,
       UpdateRoom, UpdateRole, Dissolve
  <1>2. held \subseteq held' /\ Cached /\ CachesHeld
    BY WriteStep, TypeParts DEF Inv
  <1> QED
    BY <1>1, <1>2 DEF redis, CacheHeld, Cached, CachesHeld, EverMember

-----------------------------------------------------------------------------
(* What a worker knows stays true while others run: the history grows.     *)
Same(v) ==
  UNCHANGED <<pc[v], req[v], room[v], check[v], who[v], role[v], todo[v], found[v],
              row[v], reply[v]>>

LEMMA HoldsStable ==
  ASSUME NEW v \in Workers, Holds(v), held \subseteq held', Same(v)
  PROVE  Holds(v)'
  <1> USE DEF Same
  <1>2. Serves(v) => Serves(v)'
    BY DEF Serves
  <1>3. Granted(v) => Granted(v)'
    BY DEF Granted, EverMember, EverAdmin, EverOwner
  <1>4. Read(v) => Read(v)'
    BY DEF Read, EverMember
  <1>5. Answers(v) => Answers(v)'
    BY DEF Answers, EverMember
  <1> QED
    BY <1>2, <1>3, <1>4, <1>5 DEF Holds

(* The caller of a handler that answers. *)
LEMMA DoneHolds ==
  ASSUME Control, NEW w \in Workers, NEW r, Done(w, r),
         req[w].op # "validate" \/ ~r.ok \/ EverMember(req[w].room, req[w].user)'
  PROVE  Holds(w)'
  <1>1. pc'[w] = "idle" /\ reply'[w] = r /\ req'[w] = req[w]
    BY DEF Control, Done
  <1> QED
    BY <1>1 DEF Holds, Answers, EverMember

LEMMA GoHolds ==
  ASSUME Inv, NEW w \in Workers, held \subseteq held', pc[w] \notin {"idle", "insertRoom"},
         UNCHANGED <<req[w], room[w], reply[w]>>,
         who'[w] \in Users,
         pc'[w] \notin {"idle", "insertRoom"},
         pc'[w] \in ValidAsks <=> pc[w] \in ValidAsks,
         pc'[w] = "selectNickname" => req[w].op = "add",
         pc'[w] \in {"updateRole", "reselect"} => req[w].op = "role",
         pc'[w] \in {"readToTell", "selectToTell", "dissolve"} => req[w].op = "dissolve",
         pc'[w] \in Asks <=> pc[w] \in Asks,
         pc'[w] \in Asks => pc'[w] \in MemberAsks <=> pc[w] \in MemberAsks,
         pc'[w] \in Asks \cup ValidAsks => UNCHANGED <<who[w], check[w]>>,
         Read(w)'
  PROVE  Holds(w)'
  <1>1. Serves(w) /\ Granted(w) /\ Answers(w)
    BY DEF Inv, Holds
  <1>2. Serves(w)'
    BY <1>1 DEF Serves
  <1>4. Granted(w)'
    BY <1>1 DEF Granted, EverMember, EverAdmin, EverOwner
  <1>5. Answers(w)'
    BY <1>1 DEF Answers, EverMember
  <1> QED
    BY <1>2, <1>4, <1>5 DEF Holds

(* An access made, and another to come. *)
LEMMA MoveHolds ==
  ASSUME Inv, NEW w \in Workers, held \subseteq held', NEW l, NEW m, Move(w, l, m),
         l \notin {"idle", "insertRoom"}, m \notin {"idle", "insertRoom"},
         m \in ValidAsks <=> l \in ValidAsks,
         m = "selectNickname" => req[w].op = "add",
         m \in {"updateRole", "reselect"} => req[w].op = "role",
         m \notin {"readToTell", "selectToTell", "dissolve"},
         m \in Asks <=> l \in Asks,
         m \in MemberAsks <=> l \in MemberAsks,
         m \in RoleLabels => l \in RoleLabels \/ <<room[w], who[w], role[w]>> \in held',
         m \in {"joinMembers", "validJoin"} => EverMember(room[w], who[w]),
         m = "fill" \/ (m \in FillLabels /\ req[w].op = "get") => l \in FillLabels /\ req[w].op = "get",
         m \notin {"insertMember", "joinAll", "storeList", "storeRoom", "storeCached"}
  PROVE  Holds(w)'
  <1>1. /\ pc[w] = l /\ pc'[w] = m
        /\ UNCHANGED <<req[w], room[w], check[w], who[w], role[w], todo[w], found[w], row[w], reply[w]>>
    BY DEF Move, At, Goto, local, member, Inv, TypeOK
  <1>2. Serves(w) /\ Read(w)
    BY <1>1 DEF Inv, Holds
  <1>3. Read(w)'
    BY <1>1, <1>2 DEF Read, EverMember
  <1>4. who'[w] \in Users
    BY <1>1, <1>2 DEF Serves
  <1> QED
    BY <1>1, <1>3, <1>4, GoHolds DEF Asks

(* What a check must know to say yes. *)
Permits(w) ==
  /\ check[w] = "owner" => EverOwner(room[w], who[w])
  /\ check[w] = "admin" => EverAdmin(room[w], who[w])
  /\ check[w] = "member" => EverMember(room[w], who[w])

LEMMA VerdictHolds ==
  ASSUME Inv, NEW w \in Workers, NEW yes, Verdict(w, yes), pc[w] \in Asks,
         yes => Permits(w), UNCHANGED held
  PROVE  Holds(w)'
  <1> DEFINE to == Onward(req[w].op, check[w], yes)
  <1>0. pc[w] # "idle"
    BY DEF Asks, RoleAsks, MemberAsks
  <1>1. /\ Control /\ Serves(w) /\ Granted(w) /\ Read(w) /\ Answers(w)
        /\ req[w] \in RequestSpace
    BY <1>0, AtHand DEF Inv, Holds
  <1>2. req[w].op # "validate" /\ req[w].op # "create"
    BY <1>1 DEF Serves, Asks, RoleAsks, MemberAsks, ValidAsks, Checks
  <1>3. CASE to = "refuse"
    BY <1>1, <1>2, <1>3, DoneHolds DEF Verdict
  <1>4. CASE to # "refuse"
    <2>1. /\ pc'[w] = to
          /\ check'[w] = IF to = "readRole" THEN "owner" ELSE None
          /\ UNCHANGED <<req[w], room[w], who[w], role[w], todo[w], found[w], row[w], reply[w]>>
      BY <1>1, <1>4 DEF Verdict, Goto, Control
    <2>2. to \in {"readRoom", "updateRoom", "readToTell", "updateRole", "next",
                  "insertMember", "deleteMember", "readRole"}
      BY <1>4 DEF Onward
    <2>3. /\ to = "updateRole" => req[w].op = "role"
          /\ to = "readToTell" => req[w].op = "dissolve"
      BY DEF Onward
    <2>4. to = "readRole" => req[w].op = "leave" /\ check[w] = "member" /\ yes
      BY DEF Onward
    <2>5. Read(w)'
      <3>1. to = "insertMember" => req[w].op = "add" /\ check[w] = "member"
        BY DEF Onward
      <3>2. to = "insertMember" => role[w] \in Roles
        BY <1>1, <3>1 DEF Serves, Asks, Read
      <3>3. to \notin MemberAsks
        BY <2>2 DEF MemberAsks
      <3> QED
        BY <2>1, <2>2, <3>2, <3>3 DEF Read, RoleLabels, FillLabels
    <2>6. Serves(w)'
      BY <1>1, <1>2, <2>1, <2>2, <2>3, <2>4 DEF Serves, Asks, RoleAsks, MemberAsks, ValidAsks, Checks
    <2>7. Granted(w)'
      <3>1. /\ EverMember(room[w], req[w].user)' = EverMember(room[w], req[w].user)
            /\ EverAdmin(room[w], req[w].user)' = EverAdmin(room[w], req[w].user)
            /\ EverOwner(room[w], req[w].user)' = EverOwner(room[w], req[w].user)
        BY <2>1 DEF EverMember, EverAdmin, EverOwner
      <3>2. req[w].op \in {"update", "add", "remove"} => EverAdmin(room[w], req[w].user)
        BY <1>1, <1>4 DEF Serves, Granted, Permits, Onward, Checks, Asks
      <3>3. req[w].op \in {"dissolve", "role"} => EverOwner(room[w], req[w].user)
        BY <1>1, <1>4 DEF Serves, Granted, Permits, Onward, Checks, Asks
      <3>4. req[w].op \in {"get", "leave"} => EverMember(room[w], req[w].user)
        BY <1>1, <1>4 DEF Serves, Granted, Permits, Onward, Checks, Asks
      <3> QED
        BY <2>1, <3>2, <3>3, <3>4 DEF Granted, EverMember, EverAdmin, EverOwner
    <2>8. Answers(w)'
      BY <1>2, <2>1 DEF Answers
    <2> QED
      BY <2>5, <2>6, <2>7, <2>8 DEF Holds
  <1> QED
    BY <1>3, <1>4

-----------------------------------------------------------------------------
LEMMA CheckHolds ==
  ASSUME Inv, NEW w \in Workers, CheckStep(w)
  PROVE  Holds(w)'
  <1>0. pc[w] # "idle" /\ UNCHANGED held
    BY StepBusy DEF Step, CheckStep, db, ReadRole, SelectRole, CacheRole, ReadMembers,
       ExistsMember, SelectMember, JoinMembers
  <1>1. /\ Control /\ Stored /\ Cached /\ CachesHeld /\ RolesHeld
        /\ Serves(w) /\ Granted(w) /\ Read(w)
        /\ who[w] \in Users
        /\ pc[w] # "insertRoom" => room[w] \in Rooms
    BY <1>0, AtHand DEF Inv
  <1>2. /\ pc[w] \in RoleAsks => check[w] \in {"owner", "admin"}
        /\ pc[w] \in MemberAsks => check[w] = "member"
    BY <1>1 DEF Serves, Asks, RoleAsks, MemberAsks, Checks
  <1>3. ASSUME NEW x \in Roles, <<room[w], who[w], x>> \in held
        PROVE  /\ EverMember(room[w], who[w])
               /\ x \in Allowed("owner") => EverOwner(room[w], who[w])
               /\ x \in Allowed("admin") => EverAdmin(room[w], who[w])
    BY <1>3 DEF EverMember, EverOwner, EverAdmin, Allowed
  <1>4. pc[w] \in MemberAsks /\ EverMember(room[w], who[w]) => Permits(w)
    BY <1>2 DEF Permits
  <1>5. ASSUME pc[w] \in RoleAsks, NEW x \in Roles, <<room[w], who[w], x>> \in held
        PROVE  x \in Allowed(check[w]) => Permits(w)
    BY <1>2, <1>3, <1>5 DEF Permits
  <1> USE <1>0 DEF Asks, RoleAsks, MemberAsks, ValidAsks, RoleLabels, FillLabels, At
  <1>6. CASE ReadRole(w)
    <2>1. PICK v \in Seen(memberKey[Key(w)], None) :
            \/ IsHash(v) /\ Verdict(w, v.role \in Allowed(check[w]))
            \/ ~IsHash(v) /\ Move(w, "readRole", "selectRole")
      BY <1>6 DEF ReadRole
    <2>2. CASE Move(w, "readRole", "selectRole")
      BY <2>2, MoveHolds
    <2>3. CASE IsHash(v) /\ Verdict(w, v.role \in Allowed(check[w]))
      <3>1. v = memberKey[<<room[w], who[w]>>] /\ v # None
        BY <2>1, <2>3 DEF Seen, Key, IsHash
      <3>2. v.role \in Roles /\ <<room[w], who[w], v.role>> \in held
        BY <1>1, <1>6, <3>1 DEF CachesHeld, Cached, Stored, ReadRole
      <3> QED
        BY <1>5, <1>6, <2>3, <3>2, VerdictHolds DEF ReadRole
    <2> QED
      BY <2>1, <2>2, <2>3
  <1>7. CASE SelectRole(w)
    <2>1. CASE Verdict(w, FALSE)
      BY <1>7, <2>1, VerdictHolds DEF SelectRole
    <2>2. CASE ~Verdict(w, FALSE)
      <3>1. /\ roles[Key(w)] # None
            /\ role'[w] = roles[Key(w)]
            /\ pc[w] = "selectRole" /\ pc'[w] = "cacheRole"
            /\ UNCHANGED <<req[w], room[w], check[w], who[w], todo[w], found[w], row[w], reply[w]>>
        BY <1>1, <1>7, <2>2 DEF SelectRole, Goto, Control
      <3>2. <<room[w], who[w], roles[Key(w)]>> \in held
        BY <1>1, <3>1 DEF RolesHeld, Stored, Key
      <3>3. Read(w)'
        BY <1>1, <3>1, <3>2 DEF Read
      <3> QED
        BY <1>1, <3>1, <3>3, GoHolds
    <2> QED
      BY <2>1, <2>2
  <1>8. CASE CacheRole(w)
    <2>1. role[w] \in Roles /\ <<room[w], who[w], role[w]>> \in held
      BY <1>1, <1>8 DEF CacheRole, Read, Stored
    <2> QED
      BY <1>5, <1>8, <2>1, VerdictHolds DEF CacheRole
  <1>9. CASE ReadMembers(w)
    <2>1. PICK S \in Seen(membersKey[room[w]], {}) :
            \/ S # {} /\ Verdict(w, who[w] \in S)
            \/ S = {} /\ Move(w, "readMembers", "existsMember")
      BY <1>9 DEF ReadMembers
    <2>2. CASE Move(w, "readMembers", "existsMember")
      BY <2>2, MoveHolds
    <2>3. CASE Verdict(w, who[w] \in S)
      <3>1. who[w] \in S => EverMember(room[w], who[w])
        BY <1>1, <1>9, <2>1 DEF Seen, CachesHeld, ReadMembers
      <3> QED
        BY <1>4, <1>9, <2>3, <3>1, VerdictHolds DEF ReadMembers
    <2> QED
      BY <2>1, <2>2, <2>3
  <1>10. CASE ExistsMember(w)
    <2>1. CASE Move(w, "existsMember", "selectMember")
      BY <2>1, MoveHolds
    <2>2. CASE Verdict(w, TRUE) /\ memberKey[Key(w)] # None
      <3>1. EverMember(room[w], who[w])
        BY <1>1, <1>10, <2>2 DEF CachesHeld, Cached, Key, EverMember, ExistsMember
      <3> QED
        BY <1>4, <1>10, <2>2, <3>1, VerdictHolds DEF ExistsMember
    <2> QED
      BY <1>10, <2>1, <2>2 DEF ExistsMember, Seen
  <1>11. CASE SelectMember(w)
    <2>1. CASE Move(w, "selectMember", "joinMembers") /\ roles[Key(w)] # None
      <3>1. EverMember(room[w], who[w])
        BY <1>1, <1>11, <2>1 DEF RolesHeld, Stored, Key, EverMember, SelectMember
      <3> QED
        BY <2>1, <3>1, MoveHolds
    <2>2. CASE Verdict(w, FALSE)
      BY <1>11, <2>2, VerdictHolds DEF SelectMember
    <2> QED
      BY <1>11, <2>1, <2>2 DEF SelectMember
  <1>12. CASE JoinMembers(w)
    BY <1>1, <1>4, <1>12, VerdictHolds DEF JoinMembers, Read
  <1> QED
    BY <1>6, <1>7, <1>8, <1>9, <1>10, <1>11, <1>12 DEF CheckStep

-----------------------------------------------------------------------------
(* Between its check and its answer. *)
Working(w) == pc[w] \notin Asks \cup ValidAsks \cup {"idle"}

LEMMA AnswerHolds ==
  ASSUME Inv, NEW w \in Workers, Working(w), NEW r, Done(w, r)
  PROVE  Holds(w)'
  <1>1. Control /\ Serves(w)
    BY AtHand DEF Working
  <1>2. req[w].op # "validate"
    BY <1>1 DEF Serves, Working
  <1> QED
    BY <1>1, <1>2, DoneHolds

LEMMA CountedHolds ==
  ASSUME Inv, NEW w \in Workers, Working(w), pc[w] # "insertRoom", Counted(w),
         held \subseteq held'
  PROVE  Holds(w)'
  <1>1. Control /\ Serves(w) /\ Read(w)
    BY AtHand DEF Working
  <1>2. CASE Goto(w, "selectRoom") /\ UNCHANGED <<req, local, reply>>
    <2>1. pc'[w] = "selectRoom" /\ UNCHANGED <<req[w], room[w], who[w], reply[w]>>
      BY <1>1, <1>2 DEF Goto, local, member, Control
    <2>2. Read(w)'
      BY <2>1 DEF Read, RoleLabels, FillLabels, MemberAsks
    <2> QED
      BY <1>1, <2>1, <2>2, GoHolds DEF Serves, Working, Asks, RoleAsks, MemberAsks, ValidAsks
  <1> QED
    BY <1>2, AnswerHolds DEF Counted

LEMMA KeepHolds ==
  ASSUME Inv, NEW w \in Workers, At(w, "deleteMember"), KeepMember(w), held \subseteq held'
  PROVE  Holds(w)'
  <1> USE DEF Asks, RoleAsks, MemberAsks, ValidAsks, RoleLabels, FillLabels, At
  <1>1. Working(w)
    BY DEF Working
  <1> QED
    BY <1>1, AnswerHolds, MoveHolds DEF KeepMember

LEMMA MemberHolds ==
  ASSUME Inv, NEW w \in Workers, MemberStep(w)
  PROVE  Holds(w)'
  <1>0. held \subseteq held' /\ pc[w] # "idle"
    BY WhoWrites, WriteStep, StepBusy DEF Step, db
  <1>1. /\ Control /\ Stored /\ Cached
        /\ Serves(w) /\ Granted(w) /\ Read(w) /\ Answers(w)
        /\ who[w] \in Users
    BY <1>0, AtHand DEF Inv, Holds
  <1> USE <1>0 DEF Asks, RoleAsks, MemberAsks, ValidAsks, RoleLabels, FillLabels, At, Working
  <1>2. CASE InsertRoom(w)
    <2>1. CASE Done(w, Failed)
      BY <1>2, <2>1, AnswerHolds DEF InsertRoom
    <2>2. CASE ~Done(w, Failed)
      <3>1. PICK r \in Rooms : /\ room' = [room EXCEPT ![w] = r]
                              /\ Goto(w, "insertOwner")
                              /\ UNCHANGED <<req, member, found, row, count, reply>>
        BY <1>2, <2>2 DEF InsertRoom
      <3>2. /\ pc[w] = "insertRoom" /\ pc'[w] = "insertOwner" /\ room'[w] \in Rooms
            /\ req[w].op = "create"
            /\ UNCHANGED <<req[w], who[w], reply[w]>>
        BY <1>1, <1>2, <3>1 DEF InsertRoom, Goto, Control, member, Serves
      <3> QED
        BY <1>1, <3>2 DEF Holds, Serves, Granted, Read, Answers
    <2> QED
      BY <2>1, <2>2
  <1>3. CASE InsertOwner(w)
    BY <1>3, MoveHolds, AnswerHolds DEF InsertOwner
  <1>4. CASE NextMember(w)
    <2>1. CASE Move(w, "next", "countMembers")
      BY <1>4, <2>1, MoveHolds
    <2>2. CASE ~Move(w, "next", "countMembers")
      <3>1. PICK m \in todo[w] :
              /\ who' = [who EXCEPT ![w] = m[1]]
              /\ role' = [role EXCEPT ![w] = m[2]]
              /\ UNCHANGED <<req, room, reply>>
              /\ \/ /\ req[w].op = "create"
                    /\ Goto(w, "insertMember")
                 \/ /\ req[w].op = "add"
                    /\ Goto(w, "readMembers")
                    /\ check' = [check EXCEPT ![w] = "member"]
                 \/ /\ req[w].op = "remove"
                    /\ Goto(w, "readRole")
                    /\ check' = [check EXCEPT ![w] = "owner"]
                 \/ /\ req[w].op = "remove"
                    /\ UNCHANGED <<pc, check>>
        BY <1>4, <2>2 DEF NextMember
      <3>2. m[1] \in Users /\ m[2] \in Roles /\ pc[w] = "next"
        BY <1>1, <1>4 DEF Control, NextMember
      <3>3. /\ who'[w] = m[1] /\ role'[w] \in Roles
            /\ UNCHANGED <<req[w], room[w], reply[w]>>
            /\ \/ req[w].op = "create" /\ pc'[w] = "insertMember"
               \/ req[w].op = "add" /\ pc'[w] = "readMembers" /\ check'[w] = "member"
               \/ req[w].op = "remove" /\ pc'[w] = "readRole" /\ check'[w] = "owner"
               \/ req[w].op = "remove" /\ pc'[w] = "next"
        BY <1>1, <3>1, <3>2 DEF Control, Goto
      <3>4. Serves(w)'
        BY <1>1, <3>2, <3>3 DEF Serves, Checks
      <3>5. Granted(w)'
        BY <1>1, <3>2, <3>3 DEF Granted, EverAdmin
      <3>6. Read(w)' /\ Answers(w)'
        BY <1>1, <3>2, <3>3 DEF Read, Answers, Serves, EverMember
      <3> QED
        BY <3>4, <3>5, <3>6 DEF Holds
    <2> QED
      BY <2>1, <2>2
  <1>5. CASE InsertMember(w)
    <2>1. Insertable(room[w], who[w]) => <<room[w], who[w], role[w]>> \in held'
      BY <1>5 DEF InsertMember, SetRow, Move
    <2> QED
      BY <1>5, <2>1, MoveHolds DEF InsertMember
  <1>6. CASE SelectNickname(w)
    <2>1. req[w].op = "add"
      BY <1>1, <1>6 DEF SelectNickname, Move, Serves
    <2> QED
      BY <1>6, <2>1, MoveHolds DEF SelectNickname
  <1>7. CASE SetInfo(w)  BY <1>7, MoveHolds DEF SetInfo
  <1>8. CASE JoinInfo(w)  BY <1>8, MoveHolds DEF JoinInfo
  <1>9. CASE PutRole(w)  BY <1>9, MoveHolds DEF PutRole
  <1>10. CASE DropList(w)  BY <1>10, MoveHolds DEF DropList
  <1>11. CASE DeleteMember(w)  BY <1>11, MoveHolds, KeepHolds DEF DeleteMember
  <1>12. CASE LeaveSet(w)  BY <1>12, MoveHolds DEF LeaveSet
  <1>13. CASE DelMember(w)  BY <1>13, MoveHolds DEF DelMember
  <1>14. CASE CountMembers(w)
    <2>1. /\ pc[w] = "countMembers" /\ pc'[w] = "storeCount"
          /\ UNCHANGED <<req[w], room[w], who[w], reply[w]>>
      BY <1>1, <1>14 DEF CountMembers, Goto, member, Control
    <2>2. Read(w)'
      BY <2>1 DEF Read
    <2> QED
      BY <1>1, <2>1, <2>2, GoHolds
  <1>15. CASE StoreCount(w)  BY <1>15, MoveHolds, CountedHolds DEF StoreCount
  <1>16. CASE ReadCached(w)
    <2>1. CASE Counted(w)
      BY <1>16, <2>1, CountedHolds DEF ReadCached
    <2>2. CASE ~Counted(w)
      <3>1. PICK v \in Seen(roomKey[room[w]], None) :
              /\ v # None
              /\ row' = [row EXCEPT ![w] = [v EXCEPT !.count = count[w]]]
              /\ Goto(w, "storeCached")
              /\ UNCHANGED <<req, room, member, found, count, reply>>
        BY <1>16, <2>2 DEF ReadCached
      <3>2. room[w] \in Rooms /\ pc[w] = "readCached"
        BY <1>1, <1>16 DEF Serves, ReadCached
      <3>3. row'[w] \in Row
        BY <1>1, <3>1, <3>2 DEF Seen, Cached, Control, Row
      <3>4. pc'[w] = "storeCached" /\ UNCHANGED <<req[w], room[w], who[w], reply[w]>>
        BY <1>1, <3>1 DEF Goto, member, Control
      <3>5. Read(w)'
        BY <3>3, <3>4 DEF Read
      <3> QED
        BY <1>1, <3>2, <3>4, <3>5, GoHolds
    <2> QED
      BY <2>1, <2>2
  <1>17. CASE StoreCached(w)  BY <1>17, CountedHolds DEF StoreCached
  <1> QED
    BY <1>2, <1>3, <1>4, <1>5, <1>6, <1>7, <1>8, <1>9, <1>10, <1>11, <1>12, <1>13, <1>14,
       <1>15, <1>16, <1>17 DEF MemberStep

(* A handler that goes on with other locals, none of them to be written.   *)
LEMMA FreshHolds ==
  ASSUME Inv, NEW w \in Workers, Working(w), pc[w] # "insertRoom", held \subseteq held',
         UNCHANGED <<req[w], room[w], reply[w]>>, who'[w] \in Users,
         pc'[w] \in {"readInfo", "dissolve", "tell", "dropList"},
         pc'[w] = "dissolve" => req[w].op = "dissolve"
  PROVE  Holds(w)'
  <1> USE DEF Asks, RoleAsks, MemberAsks, ValidAsks, RoleLabels, FillLabels, Working
  <1>1. Read(w)'
    BY DEF Read
  <1> QED
    BY <1>1, GoHolds

LEMMA RoomHolds ==
  ASSUME Inv, NEW w \in Workers, RoomStep(w)
  PROVE  Holds(w)'
  <1>0. held \subseteq held' /\ pc[w] # "idle"
    BY WhoWrites, WriteStep, StepBusy DEF Step, db
  <1>1. /\ Control /\ Stored /\ Cached /\ RolesHeld
        /\ Serves(w) /\ Granted(w) /\ Read(w) /\ Answers(w)
        /\ who[w] \in Users
        /\ pc[w] # "insertRoom" => room[w] \in Rooms
    BY <1>0, AtHand DEF Inv, Holds
  <1> USE <1>0 DEF Asks, RoleAsks, MemberAsks, ValidAsks, RoleLabels, FillLabels, At, Working
  <1>2. CASE ReadRoom(w)  BY <1>2, MoveHolds DEF ReadRoom
  <1>3. CASE ReadIds(w)
    BY <1>1, <1>3, FreshHolds DEF ReadIds, Goto, Control
  <1>4. CASE ReadInfo(w)
    <2>1. CASE Done(w, Answered(found[w])) \/ Move(w, "readInfo", "selectRoom")
      BY <1>4, <2>1, AnswerHolds, MoveHolds DEF ReadInfo
    <2>2. CASE UNCHANGED <<pc, req, room, check, who, role, row, count, reply>>
      BY <1>1, <1>4, <2>2, FreshHolds DEF ReadInfo
    <2> QED
      BY <1>4, <2>1, <2>2 DEF ReadInfo
  <1>5. CASE SelectRoom(w)
    <2>1. CASE Done(w, Failed)
      BY <1>5, <2>1, AnswerHolds DEF SelectRoom
    <2>2. CASE ~Done(w, Failed)
      <3>1. /\ pc[w] = "selectRoom" /\ pc'[w] = "storeRoom"
            /\ row'[w] = rooms[room[w]] /\ rooms[room[w]] # None
            /\ UNCHANGED <<req[w], room[w], who[w], reply[w]>>
        BY <1>1, <1>5, <2>2 DEF SelectRoom, Goto, member, Control
      <3>2. Read(w)'
        BY <1>1, <3>1 DEF Read, Stored
      <3> QED
        BY <1>1, <3>1, <3>2, GoHolds
    <2> QED
      BY <2>1, <2>2
  <1>6. CASE StoreRoom(w)  BY <1>6, AnswerHolds, MoveHolds DEF StoreRoom
  <1>7. CASE SelectRows(w)
    <2>1. /\ pc[w] = "selectRows" /\ pc'[w] = "fill"
          /\ todo'[w] = RowsOf(room[w])
          /\ UNCHANGED <<req[w], room[w], who[w], reply[w], held>>
      BY <1>1, <1>7 DEF SelectRows, Goto, Control, db
    <2>2. \A m \in RowsOf(room[w]) : <<room[w], m[1], m[2]>> \in held
      BY <1>1, <2>1 DEF RowsOf, RolesHeld
    <2>3. Read(w)'
      BY <2>1, <2>2 DEF Read
    <2> QED
      BY <1>1, <2>1, <2>3, GoHolds
  <1>8. CASE Fill(w)
    <2>1. CASE Done(w, Answered({}))
      BY <1>8, <2>1, AnswerHolds DEF Fill
    <2>2. CASE ~Done(w, Answered({}))
      <3>1. PICK m \in todo[w] :
              /\ todo' = [todo EXCEPT ![w] = @ \ {m}]
              /\ who' = [who EXCEPT ![w] = m[1]]
              /\ role' = [role EXCEPT ![w] = m[2]]
              /\ Goto(w, "setInfo")
              /\ UNCHANGED <<req, room, check, found, row, count, reply>>
        BY <1>8, <2>2 DEF Fill
      <3>2. /\ pc[w] = "fill" /\ pc'[w] = "setInfo"
            /\ m[1] \in Users /\ who'[w] = m[1] /\ role'[w] = m[2]
            /\ todo'[w] \subseteq todo[w]
            /\ UNCHANGED <<req[w], room[w], reply[w]>>
        BY <1>1, <1>8, <3>1 DEF Fill, Goto, Control
      <3>3. Read(w)'
        BY <1>1, <3>2 DEF Read
      <3> QED
        BY <1>1, <3>2, <3>3, GoHolds
    <2> QED
      BY <2>1, <2>2
  <1>9. CASE UpdateRoom(w)  BY <1>9, AnswerHolds, MoveHolds DEF UpdateRoom
  <1>10. CASE UpdateRole(w)
    <2>1. CASE Done(w, Failed)
      BY <1>10, <2>1, AnswerHolds DEF UpdateRole
    <2>2. CASE ~Done(w, Failed)
      <3>1. PICK m \in todo[w] : /\ who' = [who EXCEPT ![w] = m[1]]
                                /\ Goto(w, "reselect")
                                /\ UNCHANGED <<req, room, check, role, todo, found, row, count, reply>>
        BY <1>10, <2>2 DEF UpdateRole
      <3>2. /\ pc[w] = "updateRole" /\ pc'[w] = "reselect" /\ who'[w] \in Users
            /\ UNCHANGED <<req[w], room[w], reply[w]>>
        BY <1>1, <1>10, <3>1 DEF UpdateRole, Goto, Control
      <3>3. Read(w)'
        BY <3>2 DEF Read
      <3> QED
        BY <1>1, <3>2, <3>3, GoHolds DEF Serves
    <2> QED
      BY <2>1, <2>2
  <1>11. CASE Reselect(w)
    <2>1. CASE Done(w, Failed)
      BY <1>11, <2>1, AnswerHolds DEF Reselect
    <2>2. CASE ~Done(w, Failed)
      <3>1. /\ pc[w] = "reselect" /\ pc'[w] = "setInfo" /\ req[w].op = "role"
            /\ roles[Key(w)] # None /\ role'[w] = roles[Key(w)]
            /\ UNCHANGED <<req[w], room[w], who[w], reply[w], held>>
        BY <1>1, <1>11, <2>2 DEF Reselect, Goto, Control, Serves, db
      <3>2. <<room[w], who[w], roles[Key(w)]>> \in held
        BY <1>1, <3>1 DEF RolesHeld, Stored, Key
      <3>3. Read(w)'
        BY <3>1, <3>2 DEF Read
      <3> QED
        BY <1>1, <3>1, <3>3, GoHolds
    <2> QED
      BY <2>1, <2>2
  <1>12. CASE ReadToTell(w)
    <2>1. pc'[w] \in {"dissolve", "selectToTell"}
          /\ UNCHANGED <<req[w], room[w], who[w], reply[w]>>
      BY <1>1, <1>12 DEF ReadToTell, Goto, Control
    <2>2. Read(w)'
      BY <2>1 DEF Read
    <2> QED
      BY <1>1, <1>12, <2>1, <2>2, GoHolds DEF ReadToTell, Serves
  <1>13. CASE SelectToTell(w)
    BY <1>1, <1>13, FreshHolds DEF SelectToTell, Goto, Control, Serves
  <1>14. CASE Dissolve(w)  BY <1>14, AnswerHolds, MoveHolds DEF Dissolve
  <1>15. CASE DelRoom(w)  BY <1>15, MoveHolds DEF DelRoom
  <1>16. CASE DelMembers(w)  BY <1>16, AnswerHolds, MoveHolds DEF DelMembers
  <1>17. CASE Tell(w)
    <2>1. CASE Done(w, Answered({}))
      BY <1>17, <2>1, AnswerHolds DEF Tell
    <2>2. CASE ~Done(w, Answered({}))
      <3>1. PICK m \in todo[w] : /\ who' = [who EXCEPT ![w] = m[1]]
                                /\ Goto(w, "dropList")
                                /\ UNCHANGED <<req, room, check, role, found, row, count, reply>>
        BY <1>17, <2>2 DEF Tell
      <3> QED
        BY <1>1, <1>17, <3>1, FreshHolds DEF Tell, Goto, Control
    <2> QED
      BY <2>1, <2>2
  <1> QED
    BY <1>2, <1>3, <1>4, <1>5, <1>6, <1>7, <1>8, <1>9, <1>10, <1>11, <1>12, <1>13, <1>14,
       <1>15, <1>16, <1>17 DEF RoomStep

LEMMA ReadHolds ==
  ASSUME Inv, NEW w \in Workers, ReadStep(w)
  PROVE  Holds(w)'
  <1>0. held = held' /\ pc[w] # "idle"
    BY StepBusy DEF Step, db, ReadStep, ReadList, SelectRooms, StoreList, ValidMembers,
       ValidSelect, ValidJoin, ListMembers, SelectAll, JoinAll
  <1>1. /\ Control /\ Stored /\ Cached /\ CachesHeld /\ RolesHeld
        /\ Serves(w) /\ Granted(w) /\ Read(w) /\ Answers(w)
        /\ who[w] \in Users
        /\ pc[w] # "insertRoom" => room[w] \in Rooms
    BY <1>0, AtHand DEF Inv, Holds
  <1>2. \A r \in Rooms, u \in Users : roles[<<r, u>>] # None => EverMember(r, u)
    BY <1>1 DEF RolesHeld, Stored, EverMember
  <1> USE <1>0 DEF Asks, RoleAsks, MemberAsks, ValidAsks, RoleLabels, FillLabels, At, Working
  <1>3. CASE ReadList(w)  BY <1>3, AnswerHolds, MoveHolds DEF ReadList
  <1>4. CASE SelectRooms(w)
    <2>1. /\ pc[w] = "selectRooms" /\ pc'[w] = "storeList" /\ found'[w] = RoomsOf(who[w])
          /\ UNCHANGED <<req[w], room[w], who[w], reply[w]>>
      BY <1>1, <1>4 DEF SelectRooms, Goto, Control, member
    <2>2. Read(w)'
      BY <1>1, <1>2, <2>1 DEF Read, RoomsOf, EverMember
    <2> QED
      BY <1>1, <2>1, <2>2, GoHolds
  <1>5. CASE StoreList(w)  BY <1>5, AnswerHolds DEF StoreList
  <1>6. ASSUME pc[w] \in ValidAsks, EverMember(room[w], who[w]), NEW r, Done(w, r)
        PROVE  Holds(w)'
    <2>1. EverMember(req[w].room, req[w].user)
      BY <1>1, <1>6 DEF Serves
    <2>2. req' = req
      BY <1>6 DEF Done
    <2>3. EverMember(req[w].room, req[w].user)'
      BY <2>1, <2>2 DEF EverMember
    <2> QED
      BY <1>1, <1>6, <2>3, DoneHolds
  <1>7. ~Failed.ok
    BY DEF Failed
  <1>8. CASE ValidMembers(w)
    <2>1. PICK S \in Seen(membersKey[room[w]], {}) :
            \/ S # {} /\ Done(w, IF who[w] \in S THEN Answered({who[w]}) ELSE Failed)
            \/ S = {} /\ Move(w, "validMembers", "validSelect")
      BY <1>8 DEF ValidMembers
    <2>2. CASE who[w] \in S
      <3>1. EverMember(room[w], who[w])
        BY <1>1, <1>8, <2>1, <2>2 DEF Seen, CachesHeld, ValidMembers
      <3>2. Done(w, Answered({who[w]})) /\ pc[w] \in ValidAsks
        BY <1>8, <2>1, <2>2 DEF ValidMembers
      <3> QED
        BY <1>6, <3>1, <3>2
    <2>3. CASE who[w] \notin S
      BY <1>1, <1>7, <2>1, <2>3, DoneHolds, MoveHolds
    <2> QED
      BY <2>2, <2>3
  <1>9. CASE ValidSelect(w)
    <2>1. roles[Key(w)] # None => EverMember(room[w], who[w])
      BY <1>1, <1>2, <1>9 DEF Key, ValidSelect
    <2> QED
      BY <1>1, <1>7, <1>9, <2>1, DoneHolds, MoveHolds DEF ValidSelect
  <1>10. CASE ValidJoin(w)
    BY <1>1, <1>6, <1>10 DEF ValidJoin, Read
  <1>11. CASE ListMembers(w)  BY <1>11, AnswerHolds, MoveHolds DEF ListMembers
  <1>12. CASE SelectAll(w)
    <2>1. /\ pc[w] = "selectAll" /\ pc'[w] = "joinAll"
          /\ todo'[w] = MembersOf(room[w]) \X {"MEMBER"}
          /\ UNCHANGED <<req[w], room[w], who[w], reply[w]>>
      BY <1>1, <1>12 DEF SelectAll, Goto, Control
    <2>2. \A m \in MembersOf(room[w]) \X {"MEMBER"} : EverMember(room[w], m[1])
      BY <1>1, <1>2, <2>1 DEF MembersOf
    <2>3. Read(w)'
      BY <2>1, <2>2 DEF Read, EverMember
    <2> QED
      BY <1>1, <2>1, <2>3, GoHolds
  <1>13. CASE JoinAll(w)
    <2>1. CASE Done(w, Answered(found[w]))
      BY <1>13, <2>1, AnswerHolds DEF JoinAll
    <2>2. CASE ~Done(w, Answered(found[w]))
      <3>1. /\ pc[w] = "joinAll" /\ todo'[w] \subseteq todo[w]
            /\ UNCHANGED <<pc[w], req[w], room[w], who[w], reply[w]>>
        BY <1>1, <1>13, <2>2 DEF JoinAll, Control
      <3>2. Read(w)'
        BY <1>1, <3>1 DEF Read, EverMember
      <3> QED
        BY <1>1, <3>1, <3>2, GoHolds
    <2> QED
      BY <2>1, <2>2
  <1> QED
    BY <1>3, <1>4, <1>5, <1>8, <1>9, <1>10, <1>11, <1>12, <1>13 DEF ReadStep

-----------------------------------------------------------------------------
(* A worker's locals are its own. *)
LEMMA GoesAlone ==
  ASSUME Control, NEW w \in Workers, Goes(w), NEW v \in Workers \ {w}
  PROVE  Same(v)
  <1> USE DEF Control, Same
  <1>1. ASSUME NEW l, NEW m, Move(w, l, m)
        PROVE  Same(v)
    BY <1>1 DEF Move, Goto, local, member
  <1>2. ASSUME NEW r, Done(w, r)
        PROVE  Same(v)
    BY <1>2 DEF Done, Reset
  <1>3. ASSUME NEW yes, Verdict(w, yes)
        PROVE  Same(v)
    BY <1>2, <1>3 DEF Verdict, Goto
  <1>4. CASE Counted(w)
    BY <1>2, <1>4 DEF Counted, Goto, local, member
  <1>5. CASE KeepMember(w)
    BY <1>1, <1>2, <1>5 DEF KeepMember
  <1> QED
    BY <1>1, <1>2, <1>3, <1>4, <1>5 DEF Goes

LEMMA OthersKeep ==
  ASSUME Inv, NEW w \in Workers, Step(w), NEW v \in Workers \ {w}
  PROVE  Same(v)
  <1>1. Control
    BY TypeParts DEF Inv
  <1>2. CASE Goes(w)
    BY <1>1, <1>2, GoesAlone
  <1>3. CASE Assigning(w) /\ ~Goes(w)
    <2>1. ASSUME NEW r, Done(w, r)
          PROVE  Same(v)
      BY <1>1, <2>1 DEF Done, Reset, Control, Same
    <2>2. ASSUME NEW l, NEW m, Move(w, l, m)
          PROVE  Same(v)
      BY <1>1, <2>2 DEF Move, Goto, local, member, Control, Same
    <2>3. ~Counted(w) /\ ~Verdict(w, FALSE)
      BY <1>3 DEF Goes
    <2> USE <1>1, <1>3, <2>1, <2>2, <2>3 DEF Control, Same, Goto, member
    <2>4. CASE SelectRole(w)  BY <2>4 DEF SelectRole
    <2>5. CASE InsertRoom(w)  BY <2>5 DEF InsertRoom
    <2>6. CASE NextMember(w)  BY <2>6 DEF NextMember
    <2>7. CASE CountMembers(w)  BY <2>7 DEF CountMembers
    <2>8. CASE ReadCached(w)  BY <2>8 DEF ReadCached
    <2>9. CASE ReadIds(w)  BY <2>9 DEF ReadIds
    <2>10. CASE ReadInfo(w)  BY <2>10 DEF ReadInfo
    <2>11. CASE SelectRoom(w)  BY <2>11 DEF SelectRoom
    <2>12. CASE SelectRows(w)  BY <2>12 DEF SelectRows
    <2>13. CASE Fill(w)  BY <2>13 DEF Fill
    <2>14. CASE UpdateRole(w)  BY <2>14 DEF UpdateRole
    <2>15. CASE Reselect(w)  BY <2>15 DEF Reselect
    <2>16. CASE ReadToTell(w)  BY <2>16 DEF ReadToTell
    <2>17. CASE SelectToTell(w)  BY <2>17 DEF SelectToTell
    <2>18. CASE Tell(w)  BY <2>18 DEF Tell
    <2>19. CASE SelectRooms(w)  BY <2>19 DEF SelectRooms
    <2>20. CASE SelectAll(w)  BY <2>20 DEF SelectAll
    <2>21. CASE JoinAll(w)  BY <2>21 DEF JoinAll
    <2> QED
      BY <2>4, <2>5, <2>6, <2>7, <2>8, <2>9, <2>10, <2>11, <2>12, <2>13, <2>14,
         <2>15, <2>16, <2>17, <2>18, <2>19, <2>20, <2>21 DEF Assigning
  <1> QED
    BY <1>2, <1>3, GoesStep

-----------------------------------------------------------------------------
(* A statement that throws tells the caller nothing it did not know.       *)
LEMMA ErrorStep ==
  ASSUME Inv, NEW w \in Workers, SqlError(w)
  PROVE  /\ Control' /\ Holds(w)'
         /\ UNCHANGED <<db, redis>>
         /\ \A v \in Workers \ {w} : Same(v)
  <1>0. pc[w] # "idle" /\ UNCHANGED <<db, redis>> /\ UNCHANGED held
    BY StepBusy DEF SqlError, db
  <1>1. Control /\ Serves(w) /\ Read(w)
    BY <1>0, AtHand
  <1>2. Failed \in Replies /\ Answered({}) \in Replies
    BY ReplyTypes
  <1>3. Goes(w)
    BY <1>2 DEF SqlError, Goes, Labels, At
  <1>a. held \subseteq held' /\ ~Failed.ok
    BY <1>0 DEF Failed
  <1> USE <1>a DEF Asks, RoleAsks, MemberAsks, ValidAsks, RoleLabels, FillLabels, At, Working
  <1>4. Holds(w)'
    <2>1. CASE pc[w] \in CheckSql /\ Verdict(w, FALSE)
      BY <1>0, <2>1, VerdictHolds DEF CheckSql
    <2>2. CASE pc[w] \in CountSql /\ Counted(w)
      BY <1>0, <2>2, CountedHolds DEF CountSql
    <2>3. CASE pc[w] \in HandlerSql /\ Done(w, Failed)
      BY <1>1, <2>3, DoneHolds
    <2>4. CASE Move(w, "insertMember", "next")
      BY <2>4, MoveHolds
    <2>5. CASE At(w, "deleteMember") /\ KeepMember(w)
      BY <2>5, KeepHolds
    <2>6. CASE At(w, "selectAll") /\ Done(w, Answered({}))
      BY <2>6, AnswerHolds
    <2> QED
      BY <2>1, <2>2, <2>3, <2>4, <2>5, <2>6 DEF SqlError
  <1> QED
    BY <1>0, <1>1, <1>3, <1>4, GoesAlone, GoesControl

LEMMA ReceiveHolds ==
  ASSUME Inv, NEW w \in Workers, NEW op, NEW k, NEW l, Receive(w, op, k, l),
         k \in {"owner", "admin", "member", None},
         l \in Labels \ {"idle"},
         op = "create" <=> l = "insertRoom",
         op = "validate" <=> l \in ValidAsks,
         IF l \in Asks THEN k \in Checks(op) /\ (k = "member" <=> l \in MemberAsks)
         ELSE op \notin {"get", "update", "dissolve", "add", "remove", "role", "leave"},
         op \in {"update", "add", "remove"} => k = "admin",
         op \in {"dissolve", "role"} => k = "owner",
         op \in {"get", "leave"} => k = "member",
         op = "add" => l \notin MemberAsks,
         l \notin RoleLabels \cup {"insertMember", "joinMembers", "validJoin", "joinAll", "fill",
                             "storeList", "storeRoom", "storeCached", "updateRole", "reselect",
                             "readToTell", "selectToTell", "dissolve"}
  PROVE  /\ Control' /\ Holds(w)'
         /\ UNCHANGED <<db, redis>>
         /\ \A v \in Workers \ {w} : Same(v)
  <1>1. Control
    BY TypeParts DEF Inv
  <1>2. PICK r \in Requests :
          /\ r.op = op
          /\ req' = [req EXCEPT ![w] = r]
          /\ room' = [room EXCEPT ![w] = IF op = "create" THEN None ELSE r.room]
          /\ who' = [who EXCEPT ![w] = r.user]
          /\ todo' = [todo EXCEPT ![w] =
               CASE op = "create" -> (r.targets \ {r.user}) \X {"MEMBER"}
                 [] op \in {"add", "remove"} -> r.targets \X {"MEMBER"}
                 [] op = "role" -> r.targets \X {r.role}
                 [] OTHER -> {}]
    BY DEF Receive
  <1>3. r \in RequestSpace
    BY <1>2, RequestsAssumption
  <1>4. todo' \in [Workers -> SUBSET (Users \X Roles)]
    <2>1. /\ (r.targets \ {r.user}) \X {"MEMBER"} \subseteq Users \X Roles
          /\ r.targets \X {"MEMBER"} \subseteq Users \X Roles
          /\ r.targets \X {r.role} \subseteq Users \X Roles
      BY <1>3 DEF RequestSpace, Roles
    <2> QED
      BY <1>1, <1>2, <2>1 DEF Control
  <1>5. /\ check' = [check EXCEPT ![w] = k]
        /\ pc' = [pc EXCEPT ![w] = l]
        /\ reply' = [reply EXCEPT ![w] = None]
        /\ UNCHANGED <<db, redis, role, found, row, count>>
    BY DEF Receive, Goto
  <1>6. Control'
    BY <1>1, <1>2, <1>3, <1>4, <1>5 DEF Control, RequestSpace
  <1>7. /\ pc'[w] = l /\ check'[w] = k /\ req'[w] = r /\ who'[w] = r.user /\ reply'[w] = None
        /\ room'[w] = IF op = "create" THEN None ELSE r.room
        /\ r.user \in Users /\ r.room \in Rooms
    BY <1>1, <1>2, <1>3, <1>5 DEF Control, RequestSpace
  <1>8. Serves(w)'
    BY <1>2, <1>7 DEF Serves, RoleLabels
  <1>9. Granted(w)'
    BY <1>2, <1>7 DEF Granted
  <1>10. Read(w)' /\ Answers(w)'
    BY <1>2, <1>7 DEF Read, Answers, RoleLabels, FillLabels
  <1> QED
    BY <1>1, <1>2, <1>5, <1>6, <1>8, <1>9, <1>10 DEF Same, Holds, Control

LEMMA ArrivalStep ==
  ASSUME Inv, NEW w \in Workers, Arrival(w)
  PROVE  /\ Control' /\ Holds(w)'
         /\ UNCHANGED <<db, redis>>
         /\ \A v \in Workers \ {w} : Same(v)
  <1> USE ReceiveHolds DEF Labels, Asks, RoleAsks, MemberAsks, ValidAsks, RoleLabels, Checks
  <1>1. CASE CreateChatRoom(w)  BY <1>1 DEF CreateChatRoom, HandlerSql
  <1>2. CASE GetChatRoom(w)  BY <1>2 DEF GetChatRoom
  <1>3. CASE UpdateChatRoom(w)  BY <1>3 DEF UpdateChatRoom
  <1>4. CASE DissolveChatRoom(w)  BY <1>4 DEF DissolveChatRoom
  <1>5. CASE AddChatRoomMember(w)  BY <1>5 DEF AddChatRoomMember
  <1>6. CASE RemoveChatRoomMember(w)  BY <1>6 DEF RemoveChatRoomMember
  <1>7. CASE UpdateMemberRole(w)  BY <1>7 DEF UpdateMemberRole
  <1>8. CASE LeaveChatRoom(w)  BY <1>8 DEF LeaveChatRoom
  <1>9. CASE GetUserChats(w)  BY <1>9 DEF GetUserChats
  <1>10. CASE IsValidChatMember(w)  BY <1>10 DEF IsValidChatMember
  <1>11. CASE GetChatMembers(w)  BY <1>11 DEF GetChatMembers
  <1> QED
    BY <1>1, <1>2, <1>3, <1>4, <1>5, <1>6, <1>7, <1>8, <1>9, <1>10, <1>11 DEF Arrival

(* What stays true when only the locals of one worker change.              *)
LEMMA LocalStep ==
  ASSUME Inv, NEW w \in Workers, Control', Holds(w)', UNCHANGED <<db, redis>>,
         \A v \in Workers \ {w} : Same(v)
  PROVE  Inv'
  <1>1. Stored /\ Cached /\ RolesHeld /\ CachesHeld
    BY TypeParts DEF Inv
  <1>2. Stored' /\ Cached' /\ RolesHeld' /\ CachesHeld'
    BY <1>1 DEF db, redis, Stored, Cached, RolesHeld, CachesHeld, EverMember
  <1>3. TypeOK'
    BY <1>2 DEF TypeOK, Control, Stored, Cached, Replies
  <1>4. ASSUME NEW v \in Workers
        PROVE  Holds(v)'
    BY <1>4, HoldsStable DEF Inv, db
  <1> QED
    BY <1>2, <1>3, <1>4 DEF Inv

LEMMA WorkerStep ==
  ASSUME Inv, NEW w \in Workers, Step(w)
  PROVE  Inv'
  <1>1. Control'
    <2>1. CASE Assigning(w)
      BY <2>1, AssignControl
    <2>2. CASE ~Assigning(w)
      BY <2>2, GoesStep, GoesControl, TypeParts DEF Inv
    <2> QED
      BY <2>1, <2>2
  <1>2. Holds(w)'
    BY CheckHolds, MemberHolds, RoomHolds, ReadHolds DEF Step
  <1>3. CASE Writing(w)
    <2>1. TableHeld' /\ held \subseteq held' /\ CacheHeld'
      BY <1>3, WriteStep, WriteCaches
    <2>2. ASSUME NEW v \in Workers
          PROVE  Holds(v)'
      BY <1>2, <2>1, <2>2, HoldsStable, OthersKeep DEF Inv
    <2> QED
      BY <1>1, <2>1, <2>2 DEF Inv, TypeOK, TableHeld, CacheHeld, Control, Stored, Cached, Replies
  <1>4. CASE UNCHANGED db /\ Caching(w)
    <2>1. CacheHeld' /\ Stored' /\ RolesHeld' /\ UNCHANGED held
      BY <1>4, CacheStep, TypeParts DEF Inv, db, Stored, RolesHeld
    <2>2. ASSUME NEW v \in Workers
          PROVE  Holds(v)'
      BY <1>2, <2>1, <2>2, HoldsStable, OthersKeep DEF Inv
    <2> QED
      BY <1>1, <2>1, <2>2 DEF Inv, TypeOK, CacheHeld, Control, Stored, Cached, Replies
  <1>5. CASE UNCHANGED <<db, redis>>
    BY <1>1, <1>2, <1>5, LocalStep, OthersKeep
  <1> QED
    BY <1>3, <1>4, <1>5, WhoWrites

LEMMA CrashStep ==
  ASSUME Inv, Crash
  PROVE  Inv'
  <1>1. Control /\ Stored /\ Cached /\ RolesHeld /\ CachesHeld
    BY TypeParts DEF Inv
  <1>2. Control' /\ Stored' /\ Cached' /\ RolesHeld' /\ CachesHeld'
    BY <1>1 DEF Crash, db, redis, Control, Labels, Stored, Cached, RolesHeld, CachesHeld, EverMember
  <1>3. ASSUME NEW v \in Workers
        PROVE  Holds(v)'
    BY <1>3 DEF Inv, Crash, Holds, Answers, EverMember, db
  <1> QED
    BY <1>2, <1>3 DEF Inv, TypeOK, Control, Stored, Cached, Replies

LEMMA ExpiryStep ==
  ASSUME Inv, Expiry
  PROVE  Inv'
  <1>1. Control /\ Stored /\ Cached /\ RolesHeld /\ CachesHeld
    BY TypeParts DEF Inv
  <1>2. UNCHANGED <<db, pc, req, local, reply>>
    BY DEF Expiry
  <1>3. Control' /\ Stored' /\ RolesHeld'
    BY <1>1, <1>2 DEF db, local, member, Control, Stored, RolesHeld
  <1>4. Cached' /\ CachesHeld'
    BY <1>1, <1>2 DEF Expiry, db, Cached, CachesHeld, EverMember
  <1>5. ASSUME NEW v \in Workers
        PROVE  Holds(v)'
    BY <1>2, <1>5, HoldsStable DEF Inv, db, local, member, Same
  <1> QED
    BY <1>3, <1>4, <1>5 DEF Inv, TypeOK, Control, Stored, Cached, Replies

LEMMA InitInv == Init => Inv
  <1>1. Init => Control /\ Stored /\ Cached /\ RolesHeld /\ CachesHeld
    BY NoneAssumption DEF Init, Control, Stored, Cached, RolesHeld, CachesHeld, Labels, HandlerSql
  <1>2. Init => \A w \in Workers : Holds(w)
    BY DEF Init, Holds, Answers
  <1> QED
    BY <1>1, <1>2 DEF Inv, TypeOK, Control, Stored, Cached, Replies

LEMMA NextInv == Inv /\ [Next]_vars => Inv'
  <1> SUFFICES ASSUME Inv, [Next]_vars
               PROVE  Inv'
    OBVIOUS
  <1>1. CASE UNCHANGED vars
    <2>1. UNCHANGED <<db, pc, req, local, reply, redis>>
      BY <1>1 DEF vars
    <2>2. Control /\ Stored /\ Cached /\ RolesHeld /\ CachesHeld
      BY TypeParts DEF Inv
    <2>3. Control' /\ Stored' /\ Cached' /\ RolesHeld' /\ CachesHeld'
      BY <2>1, <2>2 DEF db, redis, local, member, Control, Stored, Cached, RolesHeld, CachesHeld, EverMember
    <2>4. ASSUME NEW v \in Workers
          PROVE  Holds(v)'
      BY <2>1, <2>4, HoldsStable DEF Inv, db, local, member, Same
    <2> QED
      BY <2>3, <2>4 DEF Inv, TypeOK, Control, Stored, Cached, Replies
  <1>2. ASSUME NEW w \in Workers, Arrival(w) \/ Step(w) \/ SqlError(w)
        PROVE  Inv'
    BY <1>2, ArrivalStep, ErrorStep, LocalStep, WorkerStep
  <1> QED
    BY <1>1, <1>2, CrashStep, ExpiryStep DEF Next

(* What the workers, the table and the caches know is kept by every step.  *)
THEOREM Invariance == Spec => []Inv
  BY InitInv, NextInv, PTL DEF Spec

(* Every variable keeps its type. *)
THEOREM TypeCorrect == Spec => []TypeOK
  <1>1. Inv => TypeOK
    BY DEF Inv
  <1> QED
    BY <1>1, Invariance, PTL

(* chat_room:<id>:member:<u>, chat_room:<id>:members and user:chats:<u>    *)
(* hold only roles and memberships that the table once held.               *)
THEOREM NothingInvented == Spec => []CachesHeld
  <1>1. Inv => CachesHeld
    BY DEF Inv
  <1> QED
    BY <1>1, Invariance, PTL

(* No handler passes isChatRoomOwner, isChatRoomAdmin, isChatRoomMember or *)
(* isValidChatMember for a caller who never had the role.                  *)
THEOREM OnlyAuthorised == Spec => []Authorised
  <1>1. Inv => Authorised
    <2> SUFFICES ASSUME Inv, NEW w \in Workers
                 PROVE  /\ pc[w] \in {"updateRoom", "next", "insertMember", "deleteMember"}
                           /\ req[w].op \in {"update", "add", "remove"} =>
                             EverAdmin(room[w], req[w].user)
                        /\ pc[w] \in {"readToTell", "dissolve", "updateRole"} =>
                             EverOwner(room[w], req[w].user)
                        /\ pc[w] \in {"readRoom", "readIds", "selectRows", "deleteMember"}
                           /\ req[w].op \in {"get", "leave"} =>
                             EverMember(room[w], req[w].user)
                        /\ reply[w] # None /\ reply[w].ok /\ req[w].op = "validate" =>
                             EverMember(req[w].room, req[w].user)
      BY DEF Authorised
    <2>1. Answers(w) /\ (pc[w] # "idle" => Granted(w) /\ Serves(w))
      BY DEF Inv, Holds
    <2> QED
      BY <2>1 DEF Answers, Granted, Serves, Asks, RoleAsks, MemberAsks
  <1> QED
    BY <1>1, Invariance, PTL
=============================================================================
