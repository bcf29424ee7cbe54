------------------------- MODULE UserAccountsProofs -------------------------
(***************************************************************************)
(* Proofs about UserAccounts, for any number of connections, names and     *)
(* accounts, with or without lost Redis writes, SQL errors and crashes.    *)
(***************************************************************************)
EXTENDS UserAccounts, TLAPS

(* An account keeps its name, and every row it has had is in held. *)
RowsTrue ==
  \A u \in Ids :
    /\ users[u] = None => held[u] = {}
    /\ users[u] # None =>
         /\ users[u].name \in Names
         /\ users[u] \in held[u]
         /\ \A r \in held[u] : r.name = users[u].name

OpsAt(l) ==
  CASE l = "refuse" -> {"register", "login", "update"}
    [] l \in {"checkMap", "checkRow", "insert"} -> {"register"}
    [] l \in {"loginMap", "loginRow", "verify"} -> {"login"}
    [] l = "hash" -> {"get"}
    [] l = "update" -> {"update"}
    [] l = "updateStatus" -> {"status"}
    [] l = "select" -> {"get", "update", "status"}
    [] l \in {"putName", "putNick", "putMap"} ->
         {"register", "login", "get", "update", "status"}
    [] l \in {"list", "others", "storeFriends"} -> {"friends"}
    [] OTHER -> {}

RowLabels == {"verify", "putName", "putNick", "putMap"}

(* What a handler does at its accesses. *)
Own(w) == Step(w) \/ SqlError(w) \/ LostInsert(w) \/ LostUpdate(w)

(* What a handler knows at each of its accesses. *)
Holds(w) ==
  /\ pc[w] = "idle" => req[w] = None /\ id[w] = None
  /\ pc[w] # "idle" =>
       /\ req[w] \in Requests
       /\ req[w].op \in OpsAt(pc[w])
       /\ reply[w] = None
       /\ req[w].op \notin {"register", "login"} => id[w] = req[w].user
       /\ req[w].op = "register" => id[w] = None \/ pc[w] \in RowLabels
  /\ pc[w] \in {"checkMap", "checkRow", "insert", "loginMap", "loginRow"} =>
       req[w].name \in Names
  /\ pc[w] = "insert" => id[w] = None
  /\ pc[w] = "loginRow" /\ id[w] # None =>
       id[w] \in Stored /\ users[id[w]].name = req[w].name
  /\ pc[w] \in RowLabels =>
       /\ id[w] \in Stored
       /\ row[w] \in held[id[w]]
       /\ req[w].op \in {"register", "login"} => row[w].name = req[w].name
  /\ pc[w] = "storeFriends" =>
       \A f \in found[w] : f[1] # id[w] /\ f[2] \in {r.nick : r \in held[f[1]]}
LocalsTrue == \A w \in Workers : Holds(w)

(* A profile shown is of an account. *)
ShownOf(r) == r # None /\ r.shown # None => r.id \in Ids
ShownTrue == \A w \in Workers : ShownOf(reply[w])

Inv == TypeOK /\ RowsTrue /\ NamesTrue /\ LocalsTrue /\ ShownTrue /\ ProfilesHeld

(* Accounts and what they had stay. *)
Grows ==
  \A u \in Ids :
    /\ users[u] # None => users'[u] # None /\ users'[u].name = users[u].name
    /\ held[u] \subseteq held'[u]

-----------------------------------------------------------------------------
(* The request a handler serves. *)
LEMMA Serving ==
  ASSUME Inv, NEW w \in Workers, pc[w] # "idle"
  PROVE  /\ req[w] \in Requests /\ req[w] \in RequestSpace
         /\ req[w] # None
         /\ req[w].user \in Ids
         /\ req[w].name \in Names \cup {None}
         /\ req[w].nick \in Nicks \cup {None}
         /\ req[w].op \in OpsAt(pc[w])
         /\ req[w].op \notin {"register", "login"} => id[w] \in Ids
  BY RequestsAssumption, NoneAssumption DEF Inv, LocalsTrue, Holds, RequestSpace

(* A request whose handler has a row of the account. *)
LEMMA Loaded ==
  ASSUME Inv, NEW w \in Workers, pc[w] \in RowLabels
  PROVE  /\ id[w] \in Ids /\ users[id[w]] # None
         /\ row[w] \in Profile
         /\ row[w] \in held[id[w]]
         /\ row[w].name = users[id[w]].name
         /\ row[w].name \in Names
  BY DEF Inv, TypeOK, LocalsTrue, Holds, RowsTrue, Stored

LEMMA IdsNumbers ==
  /\ Ids \subseteq Nat
  /\ None \notin Ids
  /\ \A u \in Ids : u \in Int
  BY IdsAssumption, NoneAssumption DEF Ids

LEMMA RepliesTyped ==
  /\ Failed \in Replies
  /\ Exists \in Replies
  /\ \A u \in Ids, p \in Profile \cup {None} : Ok(u, p) \in Replies
  BY DEF Failed, Exists, Ok, Replies

(* TypeOK in two halves: what handlers share, and what is each one's own. *)
SharedTypes ==
  /\ users \in [Ids -> Profile \cup {None}]
  /\ nameToId \in [Names -> Ids \cup {None}]
  /\ profile \in [Ids -> Profile]
  /\ friends \in [Ids -> Listings \cup {None}]
  /\ held \in [Ids -> SUBSET Profile]

LocalTypes ==
  /\ pc \in [Workers -> Labels]
  /\ req \in [Workers -> Requests \cup {None}]
  /\ id \in [Workers -> Ids \cup {None}]
  /\ row \in [Workers -> Profile \cup {None}]
  /\ found \in [Workers -> Listings]
  /\ reply \in [Workers -> Replies \cup {None}]

LEMMA TypeHalves ==
  /\ TypeOK <=> SharedTypes /\ LocalTypes /\ crowded \subseteq Workers
  /\ TypeOK' <=> SharedTypes' /\ LocalTypes' /\ crowded' \subseteq Workers
  BY DEF TypeOK, SharedTypes, LocalTypes

LEMMA EmptyListing == {} \in Listings
  BY DEF Listings

LEMMA BlankProfile == Blank \in Profile
  BY DEF Blank, Profile

(* A handler that returns, or goes on with its locals as they are, leaves  *)
(* its part of the state well typed.                                       *)
Returns(w) == \E r \in Replies : Done(w, r)

LEMMA DoneTypes ==
  ASSUME LocalTypes, NEW w \in Workers, Returns(w)
  PROVE  LocalTypes'
  <1>1. "idle" \in Labels
    BY DEF Labels
  <1> QED
    BY <1>1, EmptyListing DEF LocalTypes, Returns, Done, Goto, Set

LEMMA MoveTypes ==
  ASSUME LocalTypes, NEW w \in Workers, NEW l \in Labels, Move(w, l), UNCHANGED local
  PROVE  LocalTypes'
  BY DEF LocalTypes, Move, Goto, local

(* The rows that INSERT and UPDATE write. *)
LEMMA AddRowAdds ==
  ASSUME Inv, NEW w \in Workers, NEW u \in Ids, At(w, "insert"), AddRow(w, u)
  PROVE  /\ NewRow(w) \in Profile /\ NewRow(w) # None
         /\ NewRow(w).name = req[w].name /\ req[w].name \in Names
         /\ users[u] = None
         /\ users' = [users EXCEPT ![u] = NewRow(w)]
         /\ held' = [held EXCEPT ![u] = {NewRow(w)}]
         /\ \A v \in Ids : users[v] # None => users[v].name # req[w].name
  <1>1. req[w].name \in Names /\ req[w].nick \in Nicks \cup {None}
    BY Serving DEF At, Inv, LocalsTrue, Holds
  <1>2. NewRow(w) \in Profile
    BY <1>1 DEF NewRow, Profile
  <1>3. u \notin Stored
    BY IdsNumbers DEF AddRow
  <1> QED
    BY <1>1, <1>2, <1>3, NoneAssumption DEF AddRow, NewRow, Named, Stored

LEMMA UpdateChanges ==
  ASSUME Inv, NEW w \in Workers, At(w, "update"), ChangeRow(w)
  PROVE  LET u == id[w]
             r == Changed(users[u], req[w])
         IN  /\ u \in Ids /\ users[u] # None
             /\ r \in Profile /\ r # None /\ r.name = users[u].name
             /\ users' = [users EXCEPT ![u] = r]
             /\ held' = [held EXCEPT ![u] = held[u] \cup {r}]
  <1>1. id[w] \in Stored /\ req[w].nick \in Nicks \cup {None}
    BY Serving DEF ChangeRow, At
  <1>2. users[id[w]] \in Profile
    BY <1>1 DEF Inv, TypeOK, Stored
  <1>3. Changed(users[id[w]], req[w]) \in Profile
        /\ Changed(users[id[w]], req[w]).name = users[id[w]].name
    BY <1>1, <1>2 DEF Changed, Profile
  <1> QED
    BY <1>1, <1>2, <1>3, NoneAssumption DEF ChangeRow, Stored

-----------------------------------------------------------------------------
LEMMA StepBusy ==
  ASSUME NEW w \in Workers, Own(w)
  PROVE  pc[w] # "idle"
  BY DEF Own, Step, SqlError, LostInsert, LostUpdate, At, Refuse, CheckMap, CheckRow,
     Insert, LoginMap, LoginRow, Verify, ReadHash, Update, UpdateStatus, Select,
     PutName, PutNick, PutMap, ListFriends, SelectOthers, StoreFriends

(* What handlers share keeps its type. *)
LEMMA SharedStep ==
  ASSUME Inv, [Next]_vars
  PROVE  SharedTypes'
  <1>0. SharedTypes /\ LocalTypes
    BY TypeHalves DEF Inv
  <1>1. CASE UNCHANGED <<users, redis, held>>
    BY <1>0, <1>1 DEF SharedTypes, redis
  <1>2. ASSUME NEW w \in Workers, Insert(w) \/ LostInsert(w)
        PROVE  SharedTypes'
    <2>1. CASE UNCHANGED <<users, held>>
      BY <1>0, <1>2, <2>1 DEF Insert, LostInsert, SharedTypes, redis
    <2>2. ASSUME NEW u \in Ids, AddRow(w, u)
          PROVE  SharedTypes'
      <3>1. /\ NewRow(w) \in Profile
            /\ users' = [users EXCEPT ![u] = NewRow(w)]
            /\ held' = [held EXCEPT ![u] = {NewRow(w)}]
        BY <1>2, <2>2, AddRowAdds DEF Insert, LostInsert
      <3>2. {NewRow(w)} \in SUBSET Profile
        BY <3>1
      <3>3. UNCHANGED <<nameToId, profile, friends>>
        BY <1>2 DEF Insert, LostInsert, redis
      <3> QED
        BY <1>0, <3>1, <3>2, <3>3 DEF SharedTypes
    <2> QED
      BY <1>2, <2>1, <2>2 DEF Insert, LostInsert
  <1>3. ASSUME NEW w \in Workers, Update(w) \/ LostUpdate(w)
        PROVE  SharedTypes'
    <2>1. UNCHANGED <<nameToId, profile, friends>>
      BY <1>3 DEF Update, LostUpdate, redis
    <2>2. CASE UNCHANGED <<users, held>>
      BY <1>0, <2>1, <2>2 DEF SharedTypes
    <2>3. CASE At(w, "update") /\ ChangeRow(w)
      <3>1. PICK r \in Profile : /\ users' = [users EXCEPT ![id[w]] = r]
                                 /\ held' = [held EXCEPT ![id[w]] = held[id[w]] \cup {r}]
        BY <2>3, UpdateChanges
      <3>2. id[w] \in Ids /\ held[id[w]] \cup {r} \in SUBSET Profile
        BY <1>0, <2>3, <3>1 DEF ChangeRow, SharedTypes, Stored
      <3> QED
        BY <1>0, <2>1, <3>1, <3>2 DEF SharedTypes
    <2> QED
      BY <1>3, <2>2, <2>3 DEF Update, LostUpdate
  <1>4. ASSUME NEW w \in Workers, PutName(w) \/ PutNick(w)
        PROVE  SharedTypes'
    <2>1. PICK p \in Profile : PutField(w, p)
      <3>1. id[w] \in Ids /\ row[w] \in Profile /\ profile[id[w]] \in Profile
        BY <1>0, <1>4, Loaded DEF PutName, PutNick, At, RowLabels, SharedTypes
      <3>2. /\ [profile[id[w]] EXCEPT !.name = row[w].name] \in Profile
            /\ [profile[id[w]] EXCEPT !.nick = row[w].nick] \in Profile
        BY <3>1 DEF Profile
      <3> QED
        BY <1>4, <3>2 DEF PutName, PutNick
    <2>2. UNCHANGED <<users, nameToId, friends, held>>
      BY <1>4 DEF PutName, PutNick, history
    <2> QED
      BY <1>0, <2>1, <2>2 DEF PutField, Written, SharedTypes
  <1>5. ASSUME NEW w \in Workers, PutMap(w)
        PROVE  SharedTypes'
    <2>1. id[w] \in Ids
      BY <1>5, Loaded DEF PutMap, At, RowLabels
    <2> QED
      BY <1>0, <1>5, <2>1 DEF PutMap, Written, history, SharedTypes
  <1>6. ASSUME NEW w \in Workers, StoreFriends(w)
        PROVE  SharedTypes'
    <2>1. found[w] \in Listings
      BY <1>0 DEF LocalTypes
    <2> QED
      BY <1>0, <1>6, <2>1 DEF StoreFriends, Written, history, SharedTypes
  <1>7. CASE Expiry
    BY <1>0, <1>7, BlankProfile DEF Expiry, history, SharedTypes
  <1> QED
    BY <1>1, <1>2, <1>3, <1>4, <1>5, <1>6, <1>7
    DEF Next, vars, redis, history, Receive, Step, SqlError, Crash, Refuse, CheckMap,
        CheckRow, LoginMap, LoginRow, Verify, ReadHash, UpdateStatus, Select,
        ListFriends, SelectOthers

(* Locals and replies keep their types. *)
LEMMA LocalStep ==
  ASSUME Inv, [Next]_vars
  PROVE  LocalTypes'
  <1>0. SharedTypes /\ LocalTypes
    BY TypeHalves DEF Inv
  <1>1. CASE UNCHANGED <<pc, local, reply>>
    BY <1>0, <1>1 DEF LocalTypes, local
  <1>2. ASSUME NEW w \in Workers, Returns(w)
        PROVE  LocalTypes'
    BY <1>0, <1>2, DoneTypes
  <1>2a. ASSUME NEW w \in Workers, Done(w, Failed) \/ Done(w, Exists)
        PROVE  Returns(w)
    BY <1>2a, RepliesTyped DEF Returns
  <1>3. ASSUME NEW w \in Workers, NEW l \in Labels, Move(w, l), UNCHANGED local
        PROVE  LocalTypes'
    BY <1>0, <1>3, MoveTypes
  <1>4. ASSUME NEW w \in Workers, Receive(w)
        PROVE  LocalTypes'
    <2>1. PICK q \in Requests :
            /\ Set(req, w, q)
            /\ Goto(w, First(q))
            /\ Set(id, w, IF q.op \in {"register", "login"} THEN None ELSE q.user)
      BY <1>4 DEF Receive
    <2>2. q.user \in Ids /\ q.op \in {"register", "login", "get", "update", "status", "friends"}
      BY RequestsAssumption DEF RequestSpace
    <2>3. First(q) \in Labels
      BY <2>2 DEF First, Labels
    <2> QED
      BY <1>0, <1>4, <2>1, <2>2, <2>3 DEF Receive, LocalTypes, Set, Goto
  <1>5. ASSUME NEW w \in Workers, Insert(w)
        PROVE  LocalTypes'
    <2>1. ASSUME NEW u \in Ids, AddRow(w, u), Set(id, w, u), Set(row, w, NewRow(w)),
                 Move(w, "putName"), UNCHANGED <<req, found>>
          PROVE  LocalTypes'
      <3>1. NewRow(w) \in Profile /\ "putName" \in Labels
        BY <1>5, <2>1, AddRowAdds DEF Insert, Labels
      <3> QED
        BY <1>0, <2>1, <3>1 DEF LocalTypes, Set, Move, Goto
    <2> QED
      BY <1>2, <1>2a, <1>5, <2>1 DEF Insert
  <1>6. ASSUME NEW w \in Workers, LoginMap(w)
        PROVE  LocalTypes'
    <2>1. req[w].name \in Names /\ "loginRow" \in Labels
      BY <1>6 DEF LoginMap, At, Inv, LocalsTrue, Holds, Labels
    <2> QED
      BY <1>0, <1>6, <2>1 DEF LoginMap, Seen, SharedTypes, LocalTypes, Set, Move, Goto
  <1>7. ASSUME NEW w \in Workers, LoginRow(w)
        PROVE  LocalTypes'
    <2>1. ASSUME NEW u \in Stored, Set(id, w, u), Set(row, w, users[u]),
                 Move(w, "verify"), UNCHANGED <<req, found>>
          PROVE  LocalTypes'
      <3>1. u \in Ids /\ users[u] \in Profile /\ "verify" \in Labels
        BY <1>0 DEF Stored, SharedTypes, Labels
      <3> QED
        BY <1>0, <2>1, <3>1 DEF LocalTypes, Set, Move, Goto
    <2> QED
      BY <1>2, <1>2a, <1>7, <2>1 DEF LoginRow, Named
  <1>8. ASSUME NEW w \in Workers, Select(w)
        PROVE  LocalTypes'
    <2>1. ASSUME id[w] \in Stored, Set(row, w, users[id[w]]), Move(w, "putName"),
                 UNCHANGED <<req, id, found>>
          PROVE  LocalTypes'
      <3>1. users[id[w]] \in Profile /\ "putName" \in Labels
        BY <1>0, <2>1 DEF Stored, SharedTypes, Labels
      <3> QED
        BY <1>0, <2>1, <3>1 DEF LocalTypes, Set, Move, Goto
    <2> QED
      BY <1>2, <1>2a, <1>8, <2>1 DEF Select
  <1>9. ASSUME NEW w \in Workers, SelectOthers(w)
        PROVE  LocalTypes'
    <2>1. {<<u, users[u].nick>> : u \in Stored \ {id[w]}} \in Listings
      BY <1>0 DEF Stored, SharedTypes, Profile, Listings
    <2>2. PICK F \in SUBSET {<<u, users[u].nick>> : u \in Stored \ {id[w]}} :
            Set(found, w, F)
      BY <1>9 DEF SelectOthers, Listed
    <2>3. F \in Listings /\ "storeFriends" \in Labels
      BY <2>1, <2>2 DEF Listings, Labels
    <2> QED
      BY <1>0, <1>9, <2>2, <2>3 DEF SelectOthers, LocalTypes, Set, Move, Goto
  <1>10. ASSUME NEW w \in Workers, PutMap(w)
         PROVE  LocalTypes'
    <2>1. Ok(id[w], row[w]) \in Replies
      BY <1>10, Loaded, RepliesTyped DEF PutMap, At, RowLabels
    <2> QED
      BY <1>2, <1>10, <2>1 DEF PutMap, Returns, Done
  <1>11. ASSUME NEW w \in Workers, ReadHash(w)
         PROVE  LocalTypes'
    <2>1. id[w] \in Ids /\ profile[id[w]] \in Profile
      BY <1>0, <1>11, Serving DEF ReadHash, At, OpsAt, SharedTypes
    <2>2. "select" \in Labels
      BY DEF Labels
    <2>3. /\ Ok(id[w], profile[id[w]]) \in Replies
          /\ Ok(id[w], Blank) \in Replies
      BY <2>1, BlankProfile, RepliesTyped
    <2> QED
      BY <1>2, <1>3, <1>11, <2>2, <2>3 DEF ReadHash, Returns, Done
  <1>12. ASSUME NEW w \in Workers, ListFriends(w) \/ StoreFriends(w)
         PROVE  LocalTypes'
    <2>1. id[w] \in Ids
      BY <1>12, Serving DEF ListFriends, StoreFriends, At, OpsAt
    <2>2. "others" \in Labels
      BY DEF Labels
    <2>3. Ok(id[w], None) \in Replies
      BY <2>1, RepliesTyped
    <2> QED
      BY <1>2, <1>3, <1>12, <2>2, <2>3 DEF ListFriends, StoreFriends, Returns, Done
  <1>13. ASSUME NEW w \in Workers,
                \/ Refuse(w) \/ CheckMap(w) \/ CheckRow(w) \/ Verify(w) \/ Update(w)
                \/ UpdateStatus(w) \/ PutName(w) \/ PutNick(w)
                \/ SqlError(w) \/ LostInsert(w) \/ LostUpdate(w)
         PROVE  LocalTypes'
    <2>1. {"checkRow", "insert", "putName", "select", "putNick", "putMap"} \subseteq Labels
      BY DEF Labels
    <2> QED
      BY <1>2, <1>2a, <1>3, <1>13, <2>1
      DEF Refuse, CheckMap, CheckRow, Verify, Update, UpdateStatus, PutName, PutNick,
          SqlError, LostInsert, LostUpdate, Move, Goto, local
  <1>14. CASE Crash
    BY <1>0, <1>14, EmptyListing DEF Crash, LocalTypes, Labels
  <1> QED
    BY <1>1, <1>4, <1>5, <1>6, <1>7, <1>8, <1>9, <1>10, <1>11, <1>12, <1>13, <1>14
    DEF Next, vars, Step, Expiry

LEMMA TypeStep ==
  ASSUME Inv, [Next]_vars
  PROVE  TypeOK'
  <1>1. crowded' \subseteq Workers
    BY DEF Inv, TypeOK, Next, vars, history, Receive, Busy, Own, Step, SqlError,
       LostInsert, LostUpdate, Crash, Expiry, Refuse, CheckMap, CheckRow, Insert,
       LoginMap, LoginRow, Verify, ReadHash, Update, UpdateStatus, Select, PutName,
       PutNick, PutMap, ListFriends, SelectOthers, StoreFriends
  <1> QED
    BY <1>1, SharedStep, LocalStep, TypeHalves

-----------------------------------------------------------------------------
Unique == \A u, v \in Stored : users[u].name = users[v].name => u = v
MapTrue ==
  \A n \in Names : nameToId[n] # None =>
    nameToId[n] \in Stored /\ users[nameToId[n]].name = n

(* The rows change by INSERT and UPDATE alone. *)
LEMMA RowsChange ==
  ASSUME Inv, [Next]_vars
  PROVE  \/ UNCHANGED <<users, held>>
         \/ \E u \in Ids, r \in Profile :
              /\ r # None /\ r.name \in Names
              /\ users' = [users EXCEPT ![u] = r]
              /\ \/ /\ users[u] = None
                    /\ held' = [held EXCEPT ![u] = {r}]
                    /\ \A v \in Ids : users[v] # None => users[v].name # r.name
                 \/ /\ users[u] # None /\ users[u].name = r.name
                    /\ held' = [held EXCEPT ![u] = held[u] \cup {r}]
  <1>1. ASSUME NEW w \in Workers, NEW u \in Ids, At(w, "insert"), AddRow(w, u)
        PROVE  \E r \in Profile :
                 /\ r # None /\ r.name \in Names
                 /\ users' = [users EXCEPT ![u] = r]
                 /\ users[u] = None
                 /\ held' = [held EXCEPT ![u] = {r}]
                 /\ \A v \in Ids : users[v] # None => users[v].name # r.name
    BY <1>1, AddRowAdds
  <1>2. ASSUME NEW w \in Workers, At(w, "update"), ChangeRow(w)
        PROVE  \E r \in Profile :
                 /\ r # None /\ r.name \in Names
                 /\ users' = [users EXCEPT ![id[w]] = r]
                 /\ users[id[w]] # None /\ users[id[w]].name = r.name
                 /\ held' = [held EXCEPT ![id[w]] = held[id[w]] \cup {r}]
    BY <1>2, UpdateChanges DEF Inv, RowsTrue
  <1>3. ASSUME NEW w \in Workers, Insert(w) \/ LostInsert(w), ~UNCHANGED <<users, held>>
        PROVE  At(w, "insert") /\ \E u \in Ids : AddRow(w, u)
    BY <1>3 DEF Insert, LostInsert
  <1>4. ASSUME NEW w \in Workers, Update(w) \/ LostUpdate(w), ~UNCHANGED <<users, held>>
        PROVE  At(w, "update") /\ ChangeRow(w) /\ id[w] \in Ids
    BY <1>4 DEF Update, LostUpdate, ChangeRow, Stored
  <1>5. CASE \E w \in Workers : Insert(w) \/ LostInsert(w)
    BY <1>1, <1>3, <1>5
  <1>6. CASE \E w \in Workers : Update(w) \/ LostUpdate(w)
    BY <1>2, <1>4, <1>6
  <1>7. ~ (\E w \in Workers :
             Insert(w) \/ LostInsert(w) \/ Update(w) \/ LostUpdate(w))
          => UNCHANGED <<users, held>>
    BY ZenonT(60) DEF Next, vars, history, Receive, Step, SqlError, Crash, Expiry, Refuse, CheckMap,
       CheckRow, LoginMap, LoginRow, Verify, ReadHash, UpdateStatus, Select, PutName,
       PutNick, PutMap, ListFriends, SelectOthers, StoreFriends
  <1> QED
    BY <1>5, <1>6, <1>7

LEMMA RowsStep ==
  ASSUME Inv, [Next]_vars
  PROVE  RowsTrue' /\ Unique' /\ Grows
  <1> USE DEF Inv, RowsTrue, NamesTrue, Unique, Grows, Stored
  <1>1. CASE UNCHANGED <<users, held>>
    BY <1>1
  <1>2. ASSUME NEW u \in Ids, NEW r \in Profile,
               r # None, r.name \in Names, users' = [users EXCEPT ![u] = r],
               users[u] = None, held' = [held EXCEPT ![u] = {r}],
               \A v \in Ids : users[v] # None => users[v].name # r.name
        PROVE  RowsTrue' /\ Unique' /\ Grows
    BY <1>2 DEF TypeOK
  <1>3. ASSUME NEW u \in Ids, NEW r \in Profile,
               r # None, r.name \in Names, users' = [users EXCEPT ![u] = r],
               users[u] # None, users[u].name = r.name,
               held' = [held EXCEPT ![u] = held[u] \cup {r}]
        PROVE  RowsTrue' /\ Unique' /\ Grows
    BY <1>3 DEF TypeOK
  <1> QED
    BY <1>1, <1>2, <1>3, RowsChange

(* The map gets the number of an account under its own name. *)
LEMMA MapStep ==
  ASSUME Inv, [Next]_vars
  PROVE  MapTrue'
  <1>1. MapTrue /\ Grows /\ TypeOK
    BY RowsStep DEF Inv, NamesTrue, MapTrue
  <1>2. CASE UNCHANGED nameToId
    BY <1>1, <1>2, IdsNumbers DEF MapTrue, Grows, Stored, TypeOK
  <1>3. ASSUME NEW w \in Workers, PutMap(w)
        PROVE  MapTrue'
    <2>1. /\ id[w] \in Ids /\ users[id[w]] # None
          /\ row[w].name = users[id[w]].name /\ row[w].name \in Names
      BY <1>3, Loaded DEF PutMap, At, RowLabels
    <2>2. /\ users' = users
          /\ \/ nameToId' = nameToId
             \/ nameToId' = [nameToId EXCEPT ![row[w].name] = id[w]]
      BY <1>3 DEF PutMap, Written
    <2> QED
      BY <1>1, <2>1, <2>2 DEF MapTrue, Stored, TypeOK
  <1> QED
    BY <1>2, <1>3
    DEF Next, vars, redis, Receive, Own, Step, SqlError, LostInsert, LostUpdate, Crash,
        Expiry, Refuse, CheckMap, CheckRow, Insert, LoginMap, LoginRow, Verify,
        ReadHash, Update, UpdateStatus, Select, PutName, PutNick, ListFriends,
        SelectOthers, StoreFriends

LEMMA NamesStep ==
  ASSUME Inv, [Next]_vars
  PROVE  NamesTrue'
  BY RowsStep, MapStep DEF NamesTrue, Unique, MapTrue

-----------------------------------------------------------------------------
(* The parts of ProfilesHeld. *)
ListTrue(u, F) == \A f \in F : f[1] # u /\ f[2] \in {r.nick : r \in held[f[1]]}

HashesTrue == \A u \in Ids : FieldsHeld(u, profile[u])
ListsTrue == \A u \in Ids : friends[u] # None => ListTrue(u, friends[u])
ShownHeld ==
  \A w \in Workers : reply[w] # None /\ reply[w].shown # None =>
    FieldsHeld(reply[w].id, reply[w].shown)

LEMMA ProfileParts ==
  /\ ProfilesHeld <=> HashesTrue /\ ListsTrue /\ ShownHeld
  /\ ProfilesHeld' <=> HashesTrue' /\ ListsTrue' /\ ShownHeld'
  BY DEF ProfilesHeld, HashesTrue, ListsTrue, ListTrue, ShownHeld

(* What was once had stays had. *)
LEMMA HeldGrows ==
  ASSUME Grows
  PROVE  /\ \A u \in Ids, p \in Profile : FieldsHeld(u, p) => FieldsHeld(u, p)'
         /\ \A u \in Ids, F \in Listings : ListTrue(u, F) => ListTrue(u, F)'
  <1>1. ASSUME NEW u \in Ids, NEW p \in Profile, FieldsHeld(u, p)
        PROVE  FieldsHeld(u, p)'
    BY <1>1 DEF FieldsHeld, Grows
  <1>2. ASSUME NEW u \in Ids, NEW F \in Listings, ListTrue(u, F)
        PROVE  ListTrue(u, F)'
    <2>1. \A f \in F : f[1] \in Ids
      BY DEF Listings
    <2> QED
      BY <1>2, <2>1 DEF ListTrue, Grows
  <1> QED
    BY <1>1, <1>2

(* A field of the hash is written from a row of the same account. *)
LEMMA HashStep ==
  ASSUME Inv, [Next]_vars
  PROVE  HashesTrue'
  <1>1. HashesTrue /\ Grows /\ profile \in [Ids -> Profile]
    BY RowsStep, ProfileParts DEF Inv, TypeOK
  <1>2. CASE UNCHANGED profile
    BY <1>1, <1>2 DEF HashesTrue, FieldsHeld, Grows
  <1>3. ASSUME NEW w \in Workers, PutName(w) \/ PutNick(w)
        PROVE  HashesTrue'
    <2>1. /\ id[w] \in Ids /\ row[w] \in Profile /\ row[w] \in held[id[w]]
          /\ held' = held
      BY <1>3, Loaded DEF PutName, PutNick, At, RowLabels, history
    <2>2. PICK p \in Profile :
            /\ PutField(w, p)
            /\ p.name \in {profile[id[w]].name, row[w].name}
            /\ p.nick \in {profile[id[w]].nick, row[w].nick}
      <3>1. profile[id[w]] \in Profile
        BY <1>1, <2>1
      <3>2. /\ [profile[id[w]] EXCEPT !.name = row[w].name] \in Profile
            /\ [profile[id[w]] EXCEPT !.nick = row[w].nick] \in Profile
        BY <2>1, <3>1 DEF Profile
      <3> QED
        BY <1>3, <3>1, <3>2 DEF PutName, PutNick, Profile
    <2>3. FieldsHeld(id[w], p)
      BY <1>1, <2>1, <2>2 DEF HashesTrue, FieldsHeld
    <2>4. profile' = profile \/ profile' = [profile EXCEPT ![id[w]] = p]
      BY <2>2 DEF PutField, Written
    <2> QED
      BY <1>1, <2>1, <2>3, <2>4 DEF HashesTrue, FieldsHeld
  <1>4. CASE Expiry
    <2>1. \A u \in Ids : FieldsHeld(u, Blank)
      BY DEF FieldsHeld, Blank
    <2>2. \/ profile' = profile
          \/ \E u \in Ids : profile' = [profile EXCEPT ![u] = Blank]
      BY <1>4 DEF Expiry
    <2>3. held' = held
      BY <1>4 DEF Expiry, history
    <2> QED
      BY <1>1, <2>1, <2>2, <2>3 DEF HashesTrue, FieldsHeld
  <1> QED
    BY <1>2, <1>3, <1>4
    DEF Next, vars, redis, Receive, Own, Step, SqlError, LostInsert, LostUpdate, Crash,
        Refuse, CheckMap, CheckRow, Insert, LoginMap, LoginRow, Verify, ReadHash,
        Update, UpdateStatus, Select, PutMap, ListFriends, SelectOthers, StoreFriends

(* A list of friends is stored as it was selected. *)
LEMMA ListStep ==
  ASSUME Inv, [Next]_vars
  PROVE  ListsTrue'
  <1>1. ListsTrue /\ Grows /\ friends \in [Ids -> Listings \cup {None}]
    BY RowsStep, ProfileParts DEF Inv, TypeOK
  <1>2. CASE UNCHANGED friends
    BY <1>1, <1>2, HeldGrows DEF ListsTrue, ListTrue, Listings
  <1>3. ASSUME NEW w \in Workers, StoreFriends(w)
        PROVE  ListsTrue'
    <2>1. id[w] \in Ids /\ ListTrue(id[w], found[w])
      BY <1>3, Serving DEF StoreFriends, At, OpsAt, Inv, LocalsTrue, Holds, ListTrue
    <2>2. held' = held
      BY <1>3 DEF StoreFriends, history
    <2>3. friends' = friends \/ friends' = [friends EXCEPT ![id[w]] = found[w]]
      BY <1>3 DEF StoreFriends, Written
    <2> QED
      BY <1>1, <2>1, <2>2, <2>3 DEF ListsTrue, ListTrue
  <1>4. CASE Expiry
    BY <1>1, <1>4 DEF Expiry, history, ListsTrue, ListTrue
  <1> QED
    BY <1>2, <1>3, <1>4
    DEF Next, vars, redis, Receive, Own, Step, SqlError, LostInsert, LostUpdate, Crash,
        Refuse, CheckMap, CheckRow, Insert, LoginMap, LoginRow, Verify, ReadHash,
        Update, UpdateStatus, Select, PutName, PutNick, PutMap, ListFriends,
        SelectOthers

-----------------------------------------------------------------------------
(* What a handler knows stays true while others step. *)
Untouched(w) ==
  /\ pc'[w] = pc[w] /\ req'[w] = req[w] /\ id'[w] = id[w]
  /\ row'[w] = row[w] /\ found'[w] = found[w] /\ reply'[w] = reply[w]

LEMMA HoldsStay ==
  ASSUME Inv, Grows, NEW w \in Workers, Untouched(w)
  PROVE  Holds(w)'
  <1>1. Holds(w)
    BY DEF Inv, LocalsTrue
  <1>2. \A u \in Stored : u \in Stored' /\ users'[u].name = users[u].name
    BY DEF Stored, Grows
  <1>3. pc[w] \in RowLabels => row[w] \in held'[id[w]]
    BY Loaded, <1>1 DEF Grows, Holds
  <1>4. pc[w] = "storeFriends" =>
          \A f \in found[w] : f[1] # id[w] /\ f[2] \in {r.nick : r \in held'[f[1]]}
    <2>1. \A f \in found[w] : f[1] \in Ids
      BY DEF Inv, TypeOK, Listings
    <2> QED
      BY <1>1, <2>1 DEF Holds, Grows
  <1> QED
    BY <1>1, <1>2, <1>3, <1>4 DEF Holds, Untouched, RowLabels

LEMMA DoneHolds ==
  ASSUME Inv, NEW w \in Workers, Returns(w)
  PROVE  Holds(w)'
  <1>1. pc'[w] = "idle" /\ req'[w] = None /\ id'[w] = None
    BY DEF Returns, Done, Goto, Set, Inv, TypeOK
  <1> QED
    BY <1>1 DEF Holds, RowLabels

LEMMA MoveHolds ==
  ASSUME Inv, NEW w \in Workers, NEW l \in Labels \ {"idle"}, Move(w, l), UNCHANGED local,
         req[w].op \in OpsAt(l), pc[w] # "idle",
         req[w].op = "register" => id[w] = None \/ l \in RowLabels,
         l \in {"checkRow", "insert"} => req[w].name \in Names /\ id[w] = None,
         l \notin {"checkMap", "loginMap", "loginRow", "storeFriends"},
         l \in RowLabels => pc[w] \in RowLabels,
         users' = users, held' = held
  PROVE  Holds(w)'
  <1>1. /\ pc'[w] = l /\ req' = req /\ id' = id /\ row' = row /\ reply' = reply
    BY DEF Move, Goto, local, Inv, TypeOK
  <1>2. Holds(w)
    BY DEF Inv, LocalsTrue
  <1> QED
    BY <1>1, <1>2 DEF Holds, Stored, RowLabels

(* One step of the worker itself. *)
LEMMA OwnHolds ==
  ASSUME Inv, [Next]_vars, NEW w \in Workers, Own(w)
  PROVE  Holds(w)'
  <1>0. /\ Holds(w) /\ Grows /\ RowsTrue'
        /\ pc[w] # "idle"
    BY RowsStep, StepBusy DEF Inv, LocalsTrue
  <1>1. ASSUME Done(w, Failed) \/ Done(w, Exists)
        PROVE  Holds(w)'
    BY <1>1, DoneHolds, RepliesTyped DEF Returns
  <1>2. CASE Refuse(w) \/ SqlError(w) \/ LostInsert(w) \/ LostUpdate(w)
    BY <1>1, <1>2 DEF Refuse, SqlError, LostInsert, LostUpdate
  <1>3. CASE CheckMap(w)
    <2>1. CASE Move(w, "checkRow") /\ UNCHANGED local
      BY <1>0, <1>3, <2>1, MoveHolds
      DEF CheckMap, At, OpsAt, Holds, RowLabels, Labels, history
    <2> QED
      BY <1>1, <1>3, <2>1 DEF CheckMap
  <1>4. CASE CheckRow(w)
    <2>1. CASE Move(w, "insert") /\ UNCHANGED local
      BY <1>0, <1>4, <2>1, MoveHolds
      DEF CheckRow, At, OpsAt, Holds, RowLabels, Labels, history
    <2> QED
      BY <1>1, <1>4, <2>1 DEF CheckRow
  <1>5. CASE Insert(w)
    <2>1. ASSUME NEW u \in Ids, AddRow(w, u), Set(id, w, u), Set(row, w, NewRow(w)),
                 Move(w, "putName"), UNCHANGED <<req, found>>
          PROVE  Holds(w)'
      <3>1. /\ NewRow(w) # None /\ NewRow(w).name = req[w].name
            /\ users' = [users EXCEPT ![u] = NewRow(w)]
            /\ held' = [held EXCEPT ![u] = {NewRow(w)}]
        BY <1>5, <2>1, AddRowAdds DEF Insert
      <3>2. /\ pc'[w] = "putName" /\ req' = req /\ id'[w] = u /\ row'[w] = NewRow(w)
            /\ reply' = reply
        BY <2>1 DEF Inv, TypeOK, Set, Move, Goto
      <3>3. u \in Stored' /\ row'[w] \in held'[u]
        BY <3>1, <3>2 DEF Inv, TypeOK, Stored
      <3>4. req[w] \in Requests /\ req[w].op = "register" /\ reply[w] = None
        BY <1>0, <1>5 DEF Insert, At, Holds, OpsAt
      <3> QED
        BY <3>1, <3>2, <3>3, <3>4 DEF Holds, RowLabels, OpsAt
    <2> QED
      BY <1>1, <1>5, <2>1 DEF Insert
  <1>6. CASE LoginMap(w)
    <2>1. /\ pc'[w] = "loginRow" /\ req' = req /\ reply' = reply /\ users' = users
          /\ id'[w] = nameToId[req[w].name] \/ id'[w] = None
      BY <1>6 DEF LoginMap, Inv, TypeOK, Set, Move, Goto, Seen
    <2>2. req[w].name \in Names /\ req[w].op = "login" /\ reply[w] = None
          /\ req[w] \in Requests
      BY <1>0, <1>6 DEF LoginMap, At, Holds, OpsAt
    <2>3. id'[w] # None => id'[w] \in Stored /\ users[id'[w]].name = req[w].name
      BY <2>1, <2>2 DEF Inv, NamesTrue
    <2> QED
      BY <2>1, <2>2, <2>3 DEF Holds, RowLabels, OpsAt, Stored
  <1>7. CASE LoginRow(w)
    <2>1. ASSUME NEW u \in Stored, users[u].name = req[w].name,
                 Set(id, w, u), Set(row, w, users[u]),
                 Move(w, "verify"), UNCHANGED <<req, found>>
          PROVE  Holds(w)'
      <3>1. /\ pc'[w] = "verify" /\ req' = req /\ reply' = reply
            /\ users' = users /\ held' = held
            /\ id'[w] = u /\ row'[w] = users[u]
        BY <1>7, <2>1 DEF LoginRow, Inv, TypeOK, Set, Move, Goto, history
      <3>2. req[w] \in Requests /\ req[w].op = "login" /\ reply[w] = None
        BY <1>0, <1>7 DEF LoginRow, At, Holds, OpsAt
      <3>3. u \in Stored' /\ users[u] \in held[u]
        BY <3>1 DEF Inv, RowsTrue, Stored
      <3> QED
        BY <2>1, <3>1, <3>2, <3>3 DEF Holds, RowLabels, OpsAt
    <2>2. CASE id[w] # None
      BY <1>0, <1>1, <1>7, <2>1, <2>2 DEF LoginRow, At, Holds
    <2>3. CASE id[w] = None
      BY <1>1, <1>7, <2>1, <2>3 DEF LoginRow, Named
    <2> QED
      BY <2>2, <2>3
  <1>8. CASE Verify(w)
    <2>1. CASE Move(w, "putName") /\ UNCHANGED local
      BY <1>0, <1>8, <2>1, MoveHolds
      DEF Verify, At, OpsAt, Holds, RowLabels, Labels, history
    <2> QED
      BY <1>1, <1>8, <2>1 DEF Verify
  <1>9. CASE ReadHash(w)
    <2>1. CASE Move(w, "select") /\ UNCHANGED local
      BY <1>0, <1>9, <2>1, MoveHolds
      DEF ReadHash, At, OpsAt, Holds, RowLabels, Labels, history
    <2>2. id[w] \in Ids
      BY <1>9, Serving DEF ReadHash, At, OpsAt
    <2>3. Ok(id[w], profile[id[w]]) \in Replies /\ Ok(id[w], Blank) \in Replies
      BY <2>2, BlankProfile, RepliesTyped DEF Inv, TypeOK
    <2> QED
      BY <1>9, <2>1, <2>3, DoneHolds DEF ReadHash, Returns, Done
  <1>10. CASE Update(w)
    <2>1. CASE Move(w, "select") /\ UNCHANGED local
      <3>1. pc'[w] = "select" /\ req' = req /\ id' = id /\ reply' = reply
        BY <2>1 DEF Move, Goto, local, Inv, TypeOK
      <3> QED
        BY <1>0, <1>10, <3>1 DEF Update, At, OpsAt, Holds, RowLabels
    <2> QED
      BY <1>1, <1>10, <2>1 DEF Update
  <1>11. CASE UpdateStatus(w)
    BY <1>0, <1>11, MoveHolds
    DEF UpdateStatus, At, OpsAt, Holds, RowLabels, Labels, history
  <1>12. CASE Select(w)
    <2>1. ASSUME id[w] \in Stored, Set(row, w, users[id[w]]), Move(w, "putName"),
                 UNCHANGED <<req, id, found>>
          PROVE  Holds(w)'
      <3>1. /\ pc'[w] = "putName" /\ req' = req /\ id' = id /\ reply' = reply
            /\ users' = users /\ held' = held /\ row'[w] = users[id[w]]
        BY <1>12, <2>1 DEF Select, Inv, TypeOK, Set, Move, Goto, history
      <3>2. id[w] \in Stored' /\ users[id[w]] \in held[id[w]]
        BY <2>1, <3>1 DEF Inv, RowsTrue, Stored
      <3> QED
        BY <1>0, <1>12, <2>1, <3>1, <3>2 DEF Select, At, Holds, RowLabels, OpsAt
    <2> QED
      BY <1>1, <1>12, <2>1 DEF Select
  <1>13. CASE PutName(w)
    BY <1>0, <1>13, MoveHolds
    DEF PutName, At, OpsAt, Holds, RowLabels, Labels, history
  <1>14. CASE PutNick(w)
    BY <1>0, <1>14, MoveHolds
    DEF PutNick, At, OpsAt, Holds, RowLabels, Labels, history
  <1>15. CASE PutMap(w)
    <2>1. Ok(id[w], row[w]) \in Replies
      BY <1>15, Loaded, RepliesTyped DEF PutMap, At, RowLabels
    <2> QED
      BY <1>15, <2>1, DoneHolds DEF PutMap, Returns, Done
  <1>16. CASE ListFriends(w)
    <2>1. CASE Move(w, "others") /\ UNCHANGED local
      BY <1>0, <1>16, <2>1, MoveHolds
      DEF ListFriends, At, OpsAt, Holds, RowLabels, Labels, history
    <2>2. Ok(id[w], None) \in Replies
      BY <1>16, Serving, RepliesTyped DEF ListFriends, At, OpsAt
    <2> QED
      BY <1>16, <2>1, <2>2, DoneHolds DEF ListFriends, Returns, Done
  <1>17. CASE SelectOthers(w)
    <2>1. /\ pc'[w] = "storeFriends" /\ req' = req /\ id' = id /\ reply' = reply
          /\ held' = held
          /\ found'[w] \subseteq {<<u, users[u].nick>> : u \in Stored \ {id[w]}}
      BY <1>17 DEF SelectOthers, Listed, Inv, TypeOK, Set, Move, Goto, history
    <2>2. \A f \in found'[w] : f[1] # id[w] /\ f[2] \in {r.nick : r \in held[f[1]]}
      BY <2>1 DEF Inv, RowsTrue, Stored
    <2> QED
      BY <1>0, <1>17, <2>1, <2>2 DEF SelectOthers, At, Holds, RowLabels, OpsAt
  <1>18. CASE StoreFriends(w)
    <2>1. Ok(id[w], None) \in Replies
      BY <1>18, Serving, RepliesTyped DEF StoreFriends, At, OpsAt
    <2> QED
      BY <1>18, <2>1, DoneHolds DEF StoreFriends, Returns, Done
  <1> QED
    BY <1>2, <1>3, <1>4, <1>5, <1>6, <1>7, <1>8, <1>9, <1>10, <1>11, <1>12, <1>13,
       <1>14, <1>15, <1>16, <1>17, <1>18 DEF Own, Step

LEMMA ReceiveHolds ==
  ASSUME Inv, NEW w \in Workers, Receive(w)
  PROVE  Holds(w)'
  <1>1. PICK q \in Requests :
          /\ req'[w] = q
          /\ pc'[w] = First(q)
          /\ id'[w] = IF q.op \in {"register", "login"} THEN None ELSE q.user
          /\ reply'[w] = None
    BY DEF Receive, Set, Goto, Inv, TypeOK
  <1>2. /\ q.op \in {"register", "login", "get", "update", "status", "friends"}
        /\ q.name \in Names \cup {None}
    BY RequestsAssumption DEF RequestSpace
  <1>3. /\ First(q) \notin RowLabels \cup {"idle", "insert", "loginRow", "storeFriends"}
        /\ q.op \in OpsAt(First(q))
        /\ First(q) \in {"checkMap", "checkRow", "loginMap"} => q.name \in Names
    BY <1>2 DEF First, OpsAt, RowLabels
  <1> QED
    BY <1>1, <1>3 DEF Holds, RowLabels

LEMMA LocalsStep ==
  ASSUME Inv, [Next]_vars
  PROVE  LocalsTrue'
  <1>1. Grows
    BY RowsStep
  <1>2. ASSUME NEW w \in Workers, Receive(w) \/ Own(w),
               NEW v \in Workers, v # w
        PROVE  Untouched(v)
    <2> USE <1>2 DEF Inv, TypeOK, Untouched, Set, Goto
    <2>1. CASE Receive(w)
      BY <2>1 DEF Receive
    <2>2. CASE Refuse(w) \/ SqlError(w) \/ LostInsert(w) \/ LostUpdate(w)
      BY <2>2 DEF Refuse, SqlError, LostInsert, LostUpdate, Done
    <2>3. CASE CheckMap(w) \/ CheckRow(w) \/ Insert(w) \/ Verify(w)
      BY <2>3 DEF CheckMap, CheckRow, Insert, Verify, Done, Move, local
    <2>4. CASE LoginMap(w) \/ LoginRow(w) \/ Select(w) \/ SelectOthers(w)
      BY <2>4 DEF LoginMap, LoginRow, Select, SelectOthers, Listed, Done, Move
    <2>5. CASE ReadHash(w) \/ Update(w) \/ UpdateStatus(w)
      BY <2>5 DEF ReadHash, Update, UpdateStatus, Done, Move, local
    <2>6. CASE PutName(w) \/ PutNick(w) \/ PutMap(w) \/ ListFriends(w) \/ StoreFriends(w)
      BY <2>6 DEF PutName, PutNick, PutMap, ListFriends, StoreFriends, Done, Move, local
    <2> QED
      BY <2>1, <2>2, <2>3, <2>4, <2>5, <2>6 DEF Own, Step
  <1>3. CASE UNCHANGED <<pc, local, reply>>
    BY <1>1, <1>3, HoldsStay DEF LocalsTrue, Untouched, local
  <1>4. ASSUME NEW w \in Workers, Receive(w) \/ Own(w)
        PROVE  LocalsTrue'
    <2>1. \A v \in Workers \ {w} : Holds(v)'
      BY <1>1, <1>2, <1>4, HoldsStay
    <2>2. Holds(w)'
      BY <1>4, OwnHolds, ReceiveHolds
    <2> QED
      BY <2>1, <2>2 DEF LocalsTrue
  <1>5. CASE Crash
    <2>1. \A v \in Workers : pc'[v] = "idle" /\ req'[v] = None /\ id'[v] = None
      BY <1>5 DEF Crash
    <2> QED
      BY <2>1 DEF LocalsTrue, Holds, RowLabels
  <1> QED
    BY <1>3, <1>4, <1>5 DEF Next, Own, vars, Expiry

-----------------------------------------------------------------------------
(* What a handler answers. *)
Fair(r) == r.shown # None => r.id \in Ids /\ FieldsHeld(r.id, r.shown)

LEMMA AnswersFair ==
  ASSUME Inv, [Next]_vars, NEW w \in Workers, Own(w)
  PROVE  reply'[w] = reply[w] \/ Fair(reply'[w])
  <1> USE DEF Inv, TypeOK, Set, Move
  <1>1. ASSUME Done(w, Failed) \/ Done(w, Exists)
        PROVE  reply'[w] = reply[w] \/ Fair(reply'[w])
    BY <1>1 DEF Done, Failed, Exists, Fair
  <1>2. CASE ReadHash(w)
    <2>1. id[w] \in Ids /\ FieldsHeld(id[w], profile[id[w]])
      BY <1>2, Serving DEF ReadHash, At, OpsAt, ProfilesHeld
    <2>2. \/ reply'[w] = reply[w]
          \/ reply'[w] = Ok(id[w], profile[id[w]])
          \/ reply'[w] = Ok(id[w], Blank)
      BY <1>2 DEF ReadHash, Done, Blank
    <2>3. FieldsHeld(id[w], Blank)
      BY DEF FieldsHeld, Blank
    <2> QED
      BY <2>1, <2>2, <2>3 DEF Fair, Ok
  <1>3. CASE PutMap(w)
    <2>1. id[w] \in Ids /\ row[w] \in held[id[w]]
      BY <1>3, Loaded DEF PutMap, At, RowLabels
    <2>2. reply'[w] = Ok(id[w], row[w])
      BY <1>3 DEF PutMap, Done
    <2> QED
      BY <2>1, <2>2 DEF Fair, Ok, FieldsHeld
  <1>4. CASE ListFriends(w) \/ StoreFriends(w)
    BY <1>4 DEF ListFriends, StoreFriends, Done, Ok, Fair
  <1>5. CASE reply' = reply
    BY <1>5
  <1> QED
    BY <1>1, <1>2, <1>3, <1>4, <1>5
    DEF Own, Step, SqlError, LostInsert, LostUpdate, Refuse, CheckMap, CheckRow, Insert,
        LoginMap, LoginRow, Verify, Update, UpdateStatus, Select, PutName, PutNick,
        SelectOthers

LEMMA ReplyStep ==
  ASSUME Inv, [Next]_vars
  PROVE  ShownTrue' /\ ShownHeld'
  <1>1. ShownTrue /\ ShownHeld /\ Grows /\ TypeOK'
    BY RowsStep, TypeStep, ProfileParts DEF Inv
  <1>2. \A w \in Workers :
          reply'[w] = None \/ reply'[w] = reply[w] \/ Fair(reply'[w])
    <2>1. ASSUME NEW w \in Workers, NEW v \in Workers, Receive(v) \/ Own(v)
          PROVE  reply'[w] = None \/ reply'[w] = reply[w] \/ Fair(reply'[w])
      <3>1. CASE v = w
        BY <2>1, <3>1, AnswersFair DEF Receive, Set, Inv, TypeOK
      <3>2. CASE v # w
        BY <2>1, <3>2
        DEF Inv, TypeOK, Receive, Own, Step, SqlError, LostInsert, LostUpdate, Refuse,
            CheckMap, CheckRow, Insert, LoginMap, LoginRow, Verify, ReadHash, Update,
            UpdateStatus, Select, PutName, PutNick, PutMap, ListFriends, SelectOthers,
            StoreFriends, Done, Move, Set
      <3> QED
        BY <3>1, <3>2
    <2>2. CASE Crash
      BY <2>2 DEF Crash
    <2>3. CASE reply' = reply
      BY <2>3
    <2> QED
      BY <2>1, <2>2, <2>3 DEF Next, Own, vars, Expiry
  <1>3. ASSUME NEW w \in Workers, reply'[w] # None, reply'[w].shown # None
        PROVE  reply'[w].id \in Ids /\ FieldsHeld(reply'[w].id, reply'[w].shown)
    BY <1>1, <1>2, <1>3 DEF ShownTrue, ShownOf, ShownHeld, Fair
  <1> QED
    BY <1>3, <1>1 DEF ShownTrue, ShownOf, ShownHeld, FieldsHeld, Grows

LEMMA InvInit ==
  ASSUME Init
  PROVE  Inv
  <1> USE DEF Init
  <1>1. TypeOK
    BY EmptyListing, BlankProfile DEF TypeOK, Labels
  <1>2. Stored = {} /\ \A n \in Names : Named(n) = {}
    BY DEF Stored, Named
  <1>3. RowsTrue /\ NamesTrue /\ ShownTrue
    BY <1>2 DEF RowsTrue, NamesTrue, ShownTrue, ShownOf
  <1>4. LocalsTrue
    BY DEF LocalsTrue, Holds, RowLabels
  <1>5. ProfilesHeld
    BY DEF ProfilesHeld, FieldsHeld, Blank
  <1> QED
    BY <1>1, <1>3, <1>4, <1>5 DEF Inv

LEMMA InvStep ==
  ASSUME Inv, [Next]_vars
  PROVE  Inv'
  BY TypeStep, RowsStep, NamesStep, HashStep, ListStep, LocalsStep, ReplyStep, ProfileParts
  DEF Inv

LEMMA Invariance == Spec => []Inv
  BY InvInit, InvStep, PTL DEF Spec

-----------------------------------------------------------------------------
(* Every variable keeps its type, for any connections, names and accounts. *)
THEOREM TypeCorrect == Spec => []TypeOK
  <1>1. Inv => TypeOK
    BY DEF Inv
  <1> QED
    BY <1>1, Invariance, PTL

(* However registrations, logins and updates overlap, and whatever is lost *)
(* or fails between them, no name belongs to two accounts and              *)
(* username:to:id names the one that has it.                               *)
THEOREM OneAccountPerName == Spec => []NamesTrue
  <1>1. Inv => NamesTrue
    BY DEF Inv
  <1> QED
    BY <1>1, Invariance, PTL

(* No field of a cached profile, of a list of friends or of a profile      *)
(* shown is another user's.                                                *)
THEOREM FieldsOwned == Spec => []ProfilesHeld
  <1>1. Inv => ProfilesHeld
    BY DEF Inv
  <1> QED
    BY <1>1, Invariance, PTL

-----------------------------------------------------------------------------
(* The register of names that the table amounts to. *)
LEMMA HolderIn ==
  /\ Holder({}) = None
  /\ \A U : U # {} => Holder(U) \in U
  BY DEF Holder

LEMMA OwnerIs ==
  ASSUME Inv
  PROVE  /\ \A n \in Names : Named(n) = {} => Owner[n] = None
         /\ \A u \in Stored : users[u].name \in Names /\ Owner[users[u].name] = u
         /\ \A n \in Names : Owner[n] # None =>
              Owner[n] \in Stored /\ users[Owner[n]].name = n
  <1>1. \A n \in Names : Named(n) # {} => Owner[n] \in Named(n)
    BY HolderIn DEF Owner
  <1>2. \A n \in Names : Named(n) = {} => Owner[n] = None
    BY HolderIn DEF Owner
  <1>3. \A u \in Stored : users[u].name \in Names /\ u \in Named(users[u].name)
    BY DEF Inv, RowsTrue, Stored, Named
  <1>4. \A u \in Stored : Owner[users[u].name] = u
    BY <1>1, <1>3 DEF Inv, NamesTrue, Named
  <1> QED
    BY <1>1, <1>2, <1>3, <1>4 DEF Named

LEMMA OwnerSame ==
  ASSUME \A n \in Names : Named(n)' = Named(n)
  PROVE  Owner' = Owner
  BY DEF Owner

LEMMA OwnerTaken ==
  ASSUME Inv, Inv', NEW w \in Workers, NEW u \in Ids, At(w, "insert"), AddRow(w, u)
  PROVE  Owner' = [Owner EXCEPT ![req[w].name] = u]
  <1>1. /\ NewRow(w) # None /\ NewRow(w).name = req[w].name
        /\ users[u] = None /\ users' = [users EXCEPT ![u] = NewRow(w)]
        /\ \A v \in Ids : users[v] # None => users[v].name # req[w].name
    BY AddRowAdds
  <1>2. /\ Stored' = Stored \cup {u}
        /\ users'[u] = NewRow(w)
        /\ \A v \in Ids \ {u} : users'[v] = users[v]
    BY <1>1 DEF Stored, Inv, TypeOK
  <1>3. PICK m \in Names : m = req[w].name
    BY AddRowAdds
  <1>4. \A n \in Names \ {m} : Named(n)' = Named(n)
    BY <1>1, <1>2, <1>3 DEF Named, Stored
  <1>5. \A v \in Named(m)' : v = u
    BY <1>1, <1>2, <1>3 DEF Named, Stored
  <1>6. u \in Named(m)'
    BY <1>1, <1>2, <1>3 DEF Named
  <1>7. Holder(Named(m)') = u
    BY <1>5, <1>6, HolderIn
  <1> QED
    BY <1>3, <1>4, <1>7 DEF Owner

(* An UPDATE of a profile leaves every name where it is. *)
LEMMA ChangeKeeps ==
  ASSUME Inv, NEW w \in Workers, At(w, "update"), ChangeRow(w)
  PROVE  Owner' = Owner
  <1>1. PICK r \in Profile :
          /\ r # None /\ users[id[w]] # None /\ r.name = users[id[w]].name
          /\ users' = [users EXCEPT ![id[w]] = r]
    BY UpdateChanges
  <1>2. \A n \in Names : Named(n)' = Named(n)
    BY <1>1 DEF Named, Stored, Inv, TypeOK
  <1> QED
    BY <1>2, OwnerSame

LEMMA RegisterInit ==
  ASSUME Init
  PROVE  Register!Init
  <1>1. \A n \in Names : Named(n) = {}
    BY DEF Init, Named, Stored
  <1> QED
    BY <1>1, HolderIn DEF Init, Register!Init, Owner, Mine

(* INSERT takes a free name for an account that had none. *)
LEMMA InsertTakes ==
  ASSUME Inv, Inv', NEW w \in Workers, NEW u \in Ids, At(w, "insert"), AddRow(w, u)
  PROVE  Register!Take(w, u)
  <1>1. /\ req[w] # None /\ req[w].op = "register" /\ req[w].name \in Names
        /\ id[w] = None
    BY Serving DEF At, OpsAt, Inv, LocalsTrue, Holds
  <1>2. Owner[req[w].name] = None
    BY <1>1, OwnerIs DEF AddRow
  <1>3. \A n \in Names : Owner[n] # u
    BY OwnerIs, AddRowAdds, IdsNumbers DEF Stored
  <1>4. Mine[w] = None
    BY <1>1 DEF Mine
  <1> QED
    BY <1>1, <1>2, <1>3, <1>4, OwnerTaken DEF Register!Take, Register!Open

(* A handler that returns closes its request. *)
LEMMA DoneCloses ==
  ASSUME Inv, NEW w \in Workers, Returns(w), pc[w] # "idle"
  PROVE  /\ Register!Close(w)
         /\ reply' = [reply EXCEPT ![w] = reply'[w]]
  <1>1. PICK r \in Replies : Done(w, r)
    BY DEF Returns
  <1>2. /\ req' = [req EXCEPT ![w] = None]
        /\ reply' = [reply EXCEPT ![w] = r]
        /\ id' = [id EXCEPT ![w] = None]
    BY <1>1 DEF Done, Set
  <1>3. reply'[w] = r
    BY <1>2 DEF Inv, TypeOK
  <1>4. Mine' = [Mine EXCEPT ![w] = None]
    BY <1>2 DEF Mine, Inv, TypeOK
  <1> QED
    BY <1>2, <1>3, <1>4, Serving DEF Register!Close, Register!Open

(* What handlers answer is true of the register. *)
LEMMA AnswersTrue ==
  ASSUME Inv, NEW w \in Workers, Step(w) \/ SqlError(w), Returns(w)
  PROVE  Register!Truthful(w, reply'[w])
  <1>0. /\ pc[w] # "idle" /\ Holds(w)
        /\ reply \in [Workers -> Replies \cup {None}] /\ Workers # {}
    BY StepBusy DEF Own, Inv, TypeOK, LocalsTrue
  <1>1. ASSUME Done(w, Failed)
        PROVE  Register!Truthful(w, reply'[w])
    <2>1. reply'[w].result = "error"
      BY <1>0, <1>1 DEF Done, Set, Failed
    <2> QED
      BY <2>1 DEF Register!Truthful
  <1>2. CASE CheckMap(w) /\ Done(w, Exists) /\ nameToId[req[w].name] # None
    <2>1. reply'[w].result = "exists"
      BY <1>0, <1>2 DEF Done, Set, Exists
    <2>2. req[w].op = "register" /\ req[w].name \in Names
      BY <1>0, <1>2 DEF CheckMap, At, Holds, OpsAt
    <2>3. Owner[req[w].name] # None
      BY <1>2, <2>2, OwnerIs DEF Inv, NamesTrue
    <2> QED
      BY <2>1, <2>2, <2>3 DEF Register!Truthful
  <1>3. CASE CheckRow(w) /\ Done(w, Exists) /\ Named(req[w].name) # {}
    <2>1. reply'[w].result = "exists"
      BY <1>0, <1>3 DEF Done, Set, Exists
    <2>2. req[w].op = "register" /\ req[w].name \in Names
      BY <1>0, <1>3 DEF CheckRow, At, Holds, OpsAt
    <2>3. Owner[req[w].name] # None
      <3>1. PICK u \in Stored : users[u].name = req[w].name
        BY <1>3 DEF Named
      <3> QED
        BY <3>1, OwnerIs, IdsNumbers DEF Stored
    <2> QED
      BY <2>1, <2>2, <2>3 DEF Register!Truthful
  <1>4. ASSUME NEW p \in Profile, ReadHash(w), reply'[w] = Ok(id[w], p), p.name # None,
               FieldsHeld(id[w], p)
        PROVE  Register!Truthful(w, reply'[w])
    <2>1. reply'[w] = Ok(id[w], p)
      BY <1>4
    <2>2. req[w].op = "get" /\ id[w] = req[w].user /\ id[w] \in Ids
      BY <1>0, <1>4, Serving DEF ReadHash, At, Holds, OpsAt
    <2>3. id[w] \in Stored /\ p.name = users[id[w]].name
      BY <1>4, <2>2 DEF FieldsHeld, Inv, RowsTrue, Stored
    <2>4. p.name \in Names /\ Owner[p.name] = id[w] /\ id[w] # None
      BY <2>2, <2>3, OwnerIs, IdsNumbers
    <2> QED
      BY <2>1, <2>2, <2>4 DEF Ok, Register!Truthful, Register!Owns
  <1>5. CASE PutMap(w)
    <2>1. reply'[w] = Ok(id[w], row[w])
      BY <1>0, <1>5 DEF PutMap, Done, Set
    <2>2. /\ id[w] \in Ids /\ id[w] \in Stored
          /\ row[w].name = users[id[w]].name
          /\ req[w].op \in {"register", "login", "get", "update", "status"}
          /\ req[w].op \notin {"register", "login"} => id[w] = req[w].user
          /\ req[w].op \in {"register", "login"} => row[w].name = req[w].name
          /\ req[w] # None
      BY <1>0, <1>5, Loaded, Serving DEF PutMap, At, Holds, RowLabels, OpsAt, Stored
    <2>3. row[w].name \in Names /\ Owner[row[w].name] = id[w] /\ id[w] # None
      BY <2>2, OwnerIs, IdsNumbers
    <2>4. req[w].op = "register" => Mine[w] = id[w]
      BY <2>2 DEF Mine
    <2> QED
      BY <2>1, <2>2, <2>3, <2>4 DEF Ok, Register!Truthful, Register!Owns
  <1>6. CASE ListFriends(w) \/ StoreFriends(w)
    <2>1. req[w].op = "friends"
      BY <1>0, <1>6 DEF ListFriends, StoreFriends, At, Holds, OpsAt
    <2>2. reply'[w] = Ok(id[w], None)
      BY <1>0, <1>6 DEF ListFriends, StoreFriends, Done, Set, Returns, Move, Goto, Inv, TypeOK
    <2> QED
      BY <2>1, <2>2 DEF Ok, Register!Truthful
  <1>7. CASE ReadHash(w)
    <2>1. CASE Done(w, Ok(id[w], profile[id[w]])) /\ profile[id[w]].name # None
      <3>1. id[w] \in Ids
        BY <1>7, Serving DEF ReadHash, At, OpsAt
      <3>2. PICK p \in Profile : p = profile[id[w]]
        BY <3>1 DEF Inv, TypeOK
      <3>3. FieldsHeld(id[w], p)
        BY <3>1, <3>2 DEF Inv, ProfilesHeld
      <3>4. reply'[w] = Ok(id[w], profile[id[w]])
        BY <1>0, <2>1 DEF Done, Set
      <3>5. reply'[w] = Ok(id[w], p)
        BY <3>2, <3>4
      <3> QED
        BY <1>4, <1>7, <2>1, <3>2, <3>3, <3>5
    <2>2. pc'[w] = "idle"
      BY <1>0 DEF Returns, Done, Goto, Inv, TypeOK
    <2>3. ~ Move(w, "select")
      BY <2>2 DEF Move, Goto, Inv, TypeOK
    <2>4. Blank.name = None
      BY DEF Blank
    <2> QED
      BY <1>7, <2>1, <2>3, <2>4 DEF ReadHash, Done
  <1>8. pc'[w] = "idle"
    BY <1>0 DEF Returns, Done, Goto, Inv, TypeOK
  <1>9. \A l \in Labels \ {"idle"} : ~Move(w, l)
    BY <1>8 DEF Move, Goto, Inv, TypeOK
  <1>10. ~ (LoginMap(w) \/ UpdateStatus(w) \/ PutName(w) \/ PutNick(w) \/ SelectOthers(w))
    BY <1>9 DEF LoginMap, UpdateStatus, PutName, PutNick, SelectOthers, Labels
  <1> QED
    BY <1>1, <1>2, <1>3, <1>5, <1>6, <1>7, <1>9, <1>10
    DEF Step, SqlError, Refuse, CheckMap, CheckRow, Insert, LoginRow, Verify, Update,
        Select, Labels, Seen

(* A step of a handler answers, inserts, or leaves the register alone.     *)
Silent == Owner' = Owner /\ req' = req /\ Mine' = Mine /\ reply' = reply

LEMMA StepKinds ==
  ASSUME Inv, [Next]_vars, NEW w \in Workers, Step(w) \/ SqlError(w)
  PROVE  \/ Returns(w) /\ users' = users
         \/ Silent
         \/ \E u \in Ids :
              At(w, "insert") /\ AddRow(w, u) /\ Set(id, w, u) /\ UNCHANGED <<req, reply>>
  <1>0. pc[w] # "idle" /\ Holds(w)
    BY StepBusy DEF Own, Inv, LocalsTrue
  <1>1. ASSUME Done(w, Failed) \/ Done(w, Exists)
        PROVE  Returns(w)
    BY <1>1, RepliesTyped DEF Returns
  <1>2. ASSUME users' = users, UNCHANGED <<local, reply>>
        PROVE  Silent
    <2>1. Owner' = Owner
      BY <1>2 DEF Owner, Named, Stored
    <2>2. Mine' = Mine
      BY <1>2 DEF Mine, local
    <2> QED
      BY <1>2, <2>1, <2>2 DEF Silent, local
  <1>3. CASE Insert(w)
    BY <1>1, <1>3 DEF Insert, Move
  <1>4. CASE LoginMap(w)
    <2>1. req[w].op = "login" /\ req' = req /\ reply' = reply /\ users' = users
      BY <1>0, <1>4 DEF LoginMap, At, Holds, OpsAt, Move
    <2>2. \A v \in Workers : v # w => id'[v] = id[v]
      BY <1>4 DEF LoginMap, Set, Inv, TypeOK
    <2>3. Mine' = Mine
      BY <2>1, <2>2 DEF Mine
    <2>4. Owner' = Owner
      BY <2>1 DEF Owner, Named, Stored
    <2> QED
      BY <2>1, <2>3, <2>4 DEF Silent
  <1>5. CASE LoginRow(w)
    <2>1. CASE Done(w, Failed)
      BY <1>1, <1>5, <2>1 DEF LoginRow
    <2>2. CASE ~Done(w, Failed)
      <3>1. req[w].op = "login" /\ req' = req /\ reply' = reply /\ users' = users
        BY <1>0, <1>5, <2>2 DEF LoginRow, At, Holds, OpsAt, Move
      <3>2. \A v \in Workers : v # w => id'[v] = id[v]
        BY <1>5, <2>2 DEF LoginRow, Set, Inv, TypeOK
      <3>3. Mine' = Mine
        BY <3>1, <3>2 DEF Mine
      <3>4. Owner' = Owner
        BY <3>1 DEF Owner, Named, Stored
      <3> QED
        BY <3>1, <3>3, <3>4 DEF Silent
    <2> QED
      BY <2>1, <2>2
  <1>6. CASE Update(w)
    <2>1. CASE Done(w, Failed) /\ users' = users
      BY <1>1, <2>1
    <2>2. CASE ChangeRow(w) /\ UNCHANGED <<local, reply>>
      <3>1. Owner' = Owner
        BY <1>6, <2>2, ChangeKeeps DEF Update
      <3>2. Mine' = Mine
        BY <2>2 DEF Mine, local
      <3> QED
        BY <2>2, <3>1, <3>2 DEF Silent, local
    <2> QED
      BY <1>6, <2>1, <2>2 DEF Update, Move
  <1>7. CASE Select(w)
    <2>1. CASE Done(w, Failed)
      BY <1>1, <1>7, <2>1 DEF Select
    <2>2. CASE ~Done(w, Failed)
      <3>1. UNCHANGED <<users, req, id, reply>>
        BY <1>7, <2>2 DEF Select, Move
      <3>2. Mine' = Mine
        BY <3>1 DEF Mine
      <3>3. Owner' = Owner
        BY <3>1 DEF Owner, Named, Stored
      <3> QED
        BY <3>1, <3>2, <3>3 DEF Silent
    <2> QED
      BY <2>1, <2>2
  <1>8. CASE SelectOthers(w)
    <2>1. UNCHANGED <<users, req, id, reply>>
      BY <1>8 DEF SelectOthers, Move
    <2>2. Mine' = Mine
      BY <2>1 DEF Mine
    <2>3. Owner' = Owner
      BY <2>1 DEF Owner, Named, Stored
    <2> QED
      BY <2>1, <2>2, <2>3 DEF Silent
  <1>9. CASE ReadHash(w)
    <2>1. id[w] \in Ids
      BY <1>9, Serving DEF ReadHash, At, OpsAt
    <2>2. Ok(id[w], profile[id[w]]) \in Replies /\ Ok(id[w], Blank) \in Replies
      BY <2>1, BlankProfile, RepliesTyped DEF Inv, TypeOK
    <2> QED
      BY <1>2, <1>9, <2>2 DEF ReadHash, Returns, Done, Move
  <1>10. CASE PutMap(w)
    <2>1. Ok(id[w], row[w]) \in Replies
      BY <1>10, Loaded, RepliesTyped DEF PutMap, At, RowLabels
    <2> QED
      BY <1>10, <2>1 DEF PutMap, Returns, Done
  <1>11. CASE ListFriends(w) \/ StoreFriends(w)
    <2>1. Ok(id[w], None) \in Replies
      BY <1>11, Serving, RepliesTyped DEF ListFriends, StoreFriends, At, OpsAt
    <2> QED
      BY <1>2, <1>11, <2>1 DEF ListFriends, StoreFriends, Returns, Done, Move
  <1>12. CASE \/ Refuse(w) \/ CheckMap(w) \/ CheckRow(w) \/ Verify(w)
              \/ UpdateStatus(w) \/ PutName(w) \/ PutNick(w) \/ SqlError(w)
    BY <1>1, <1>2, <1>12
    DEF Refuse, CheckMap, CheckRow, Verify, UpdateStatus, PutName, PutNick, SqlError, Move
  <1> QED
    BY <1>3, <1>4, <1>5, <1>6, <1>7, <1>8, <1>9, <1>10, <1>11, <1>12 DEF Step

LEMMA RegisterStep ==
  ASSUME Inv, Inv', [Next]_vars
  PROVE  [Register!Next]_(Register!rvars)
  <1>1. CASE UNCHANGED <<users, req, id, reply>>
    BY <1>1 DEF Register!rvars, Owner, Named, Stored, Mine
  <1>2. ASSUME NEW w \in Workers, Receive(w)
        PROVE  Register!Ask(w)
    <2>1. PICK q \in Requests :
            /\ req' = [req EXCEPT ![w] = q]
            /\ id' = [id EXCEPT ![w] =
                        IF q.op \in {"register", "login"} THEN None ELSE q.user]
      BY <1>2 DEF Receive, Set
    <2>2. /\ req[w] = None /\ users' = users
          /\ reply' = [reply EXCEPT ![w] = None]
      BY <1>2 DEF Receive, At, Set, Inv, LocalsTrue, Holds
    <2>3. Mine' = Mine
      BY <2>1, <2>2 DEF Mine, Inv, TypeOK
    <2>4. Owner' = Owner
      BY <2>2 DEF Owner, Named, Stored
    <2> QED
      BY <2>1, <2>2, <2>3, <2>4 DEF Register!Ask, Register!Open
  <1>3. ASSUME NEW w \in Workers, Step(w) \/ SqlError(w), Returns(w), users' = users
        PROVE  Register!Answer(w)
    <2>1. Owner' = Owner
      BY <1>3 DEF Owner, Named, Stored
    <2> QED
      BY <1>3, <2>1, StepBusy, DoneCloses, AnswersTrue DEF Own, Register!Answer
  <1>4. ASSUME NEW w \in Workers, NEW u \in Ids, At(w, "insert"), AddRow(w, u),
               Set(id, w, u), UNCHANGED <<req, reply>>
        PROVE  Register!Register(w)
    <2>1. req[w] # None /\ req[w].op = "register"
      BY <1>4, Serving DEF At, OpsAt
    <2>2. Mine' = [Mine EXCEPT ![w] = u]
      BY <1>4, <2>1 DEF Mine, Set, Inv, TypeOK
    <2>3. Register!Take(w, u)
      BY <1>4, InsertTakes
    <2> QED
      BY <1>4, <2>2, <2>3 DEF Register!Register
  <1>5. ASSUME NEW w \in Workers, LostInsert(w)
        PROVE  Register!RegisterUnseen(w)
    <2>1. PICK u \in Ids : AddRow(w, u)
      BY <1>5 DEF LostInsert
    <2>2. At(w, "insert") /\ Done(w, Failed)
      BY <1>5 DEF LostInsert
    <2>3. Returns(w) /\ pc[w] # "idle"
      BY <2>2, RepliesTyped DEF Returns, At
    <2>4. reply'[w].result = "error"
      BY <2>2 DEF Done, Set, Failed, Inv, TypeOK
    <2>5. Register!Take(w, u)
      BY <2>1, <2>2, InsertTakes
    <2> QED
      BY <2>3, <2>4, <2>5, DoneCloses DEF Register!RegisterUnseen
  <1>5a. ASSUME NEW w \in Workers, LostUpdate(w)
         PROVE  Register!Answer(w)
    <2>1. At(w, "update") /\ ChangeRow(w) /\ Done(w, Failed)
      BY <1>5a DEF LostUpdate
    <2>2. Returns(w) /\ pc[w] # "idle"
      BY <2>1, RepliesTyped DEF Returns, At
    <2>3. reply'[w].result = "error"
      BY <2>1 DEF Done, Set, Failed, Inv, TypeOK
    <2>4. Register!Truthful(w, reply'[w])
      BY <2>3 DEF Register!Truthful
    <2> QED
      BY <2>1, <2>2, <2>4, ChangeKeeps, DoneCloses DEF Register!Answer
  <1>6. CASE Crash
    <2>1. users' = users /\ req' = [w \in Workers |-> None]
          /\ reply' = [w \in Workers |-> None] /\ id' = [w \in Workers |-> None]
      BY <1>6 DEF Crash
    <2>2. Mine' = [w \in Workers |-> None]
      BY <2>1 DEF Mine
    <2>3. Owner' = Owner
      BY <2>1 DEF Owner, Named, Stored
    <2> QED
      BY <2>1, <2>2, <2>3 DEF Register!Next, Register!Forget
  <1>7. CASE Silent
    BY <1>7 DEF Silent, Register!rvars
  <1>8. ASSUME NEW w \in Workers, Step(w) \/ SqlError(w)
        PROVE  [Register!Next]_(Register!rvars)
    BY <1>3, <1>4, <1>7, <1>8, StepKinds DEF Register!Next
  <1> QED
    BY <1>1, <1>2, <1>5, <1>5a, <1>6, <1>8 DEF Next, vars, local, Expiry, Register!Next

(* The account service implements the register of names: a name is given   *)
(* once, to one account, and every answer is true of the register at the   *)
(* moment it is given.                                                     *)
THEOREM ImplementsRegister == Spec => RegisterSpec
  <1>1. Init => Register!Init
    BY RegisterInit
  <1>2. Inv /\ Inv' /\ [Next]_vars => [Register!Next]_(Register!rvars)
    BY RegisterStep
  <1> QED
    BY <1>1, <1>2, Invariance, PTL DEF Spec, RegisterSpec, Register!Spec

-----------------------------------------------------------------------------
(* Handlers that are at work together are crowded; one that is not has the *)
(* row as it is, and what it has written of the hash agrees with it.       *)
Apart == \A v, w \in Workers :
           v # w /\ pc[v] # "idle" /\ pc[w] # "idle" => v \in crowded /\ w \in crowded

Current(w) ==
  pc[w] \in RowLabels =>
    /\ row[w] = users[id[w]]
    /\ pc[w] \in {"putNick", "putMap"} =>
         profile[id[w]].name \in {None, users[id[w]].name}
    /\ pc[w] = "putMap" =>
         profile[id[w]].nick \in {None, users[id[w]].nick}

Alone == Apart /\ \A w \in Workers : w \in crowded \/ Current(w)

LEMMA OthersStay ==
  ASSUME Inv, NEW v \in Workers, Own(v)
  PROVE  /\ pc[v] # "idle"
         /\ crowded' = crowded
         /\ \A w \in Workers \ {v} : pc'[w] = pc[w]
  <1>1. pc[v] # "idle"
    BY StepBusy
  <1>2. crowded' = crowded
    BY DEF Own, Step, SqlError, LostInsert, LostUpdate, Refuse, CheckMap, CheckRow,
       Insert, LoginMap, LoginRow, Verify, ReadHash, Update, UpdateStatus, Select,
       PutName, PutNick, PutMap, ListFriends, SelectOthers, StoreFriends, history
  <1>3. \A w \in Workers \ {v} : pc'[w] = pc[w]
    BY DEF Inv, TypeOK, Own, Step, SqlError, LostInsert, LostUpdate, Refuse, CheckMap,
       CheckRow, Insert, LoginMap, LoginRow, Verify, ReadHash, Update, UpdateStatus,
       Select, PutName, PutNick, PutMap, ListFriends, SelectOthers, StoreFriends, Done,
       Move, Goto
  <1> QED
    BY <1>1, <1>2, <1>3

LEMMA ApartStep ==
  ASSUME Inv, Apart, [Next]_vars
  PROVE  Apart'
  <1>1. ASSUME NEW w \in Workers, Receive(w)
        PROVE  Apart'
    <2>1. \A v \in Workers : v # w => pc'[v] = pc[v]
      BY <1>1 DEF Receive, Goto, Inv, TypeOK
    <2>2. \/ Busy = {}
          \/ crowded' = crowded \cup Busy \cup {w}
      BY <1>1 DEF Receive
    <2> QED
      BY <2>1, <2>2 DEF Apart, Busy, At
  <1>2. ASSUME NEW w \in Workers, Own(w)
        PROVE  Apart'
    BY <1>2, OthersStay DEF Apart
  <1>3. CASE Crash
    BY <1>3 DEF Crash, Apart
  <1>4. CASE UNCHANGED <<pc, crowded>>
    BY <1>4 DEF Apart
  <1> QED
    BY <1>1, <1>2, <1>3, <1>4 DEF Next, Own, vars, history, Expiry

(* An uncrowded handler at work stays current, step by step. *)
LEMMA CurrentStep ==
  ASSUME ~LossyRedis, Inv, Inv', [Next]_vars, NEW w \in Workers, Current(w), Own(w)
  PROVE  Current(w)'
  <1> USE DEF Move, Goto, Set, Inv, TypeOK
  <1>1. CASE pc'[w] = "idle"
    BY <1>1 DEF Current, RowLabels
  <1>2. CASE Insert(w) /\ pc'[w] # "idle"
    <2>1. PICK u \in Ids : AddRow(w, u) /\ Set(id, w, u)
      BY <1>2 DEF Insert, Done
    <2>2. /\ pc'[w] = "putName" /\ id'[w] = u /\ row'[w] = NewRow(w)
      BY <1>2, <2>1 DEF Insert, Done
    <2>3. users'[u] = NewRow(w)
      BY <2>1 DEF AddRow
    <2> QED
      BY <2>2, <2>3 DEF Current, RowLabels
  <1>3. CASE LoginRow(w) /\ pc'[w] # "idle"
    <2>1. PICK u \in Ids : Set(id, w, u) /\ Set(row, w, users[u])
      BY <1>3 DEF LoginRow, Done, Stored, Named
    <2>2. pc'[w] = "verify" /\ users' = users
      BY <1>3 DEF LoginRow, Done
    <2> QED
      BY <2>1, <2>2 DEF Current, RowLabels
  <1>4. CASE Verify(w) /\ pc'[w] # "idle"
    BY <1>4 DEF Verify, Done, At, Current, RowLabels, local
  <1>5. CASE Select(w) /\ pc'[w] # "idle"
    BY <1>5 DEF Select, Done, Current, RowLabels
  <1>6. CASE PutName(w)
    <2>1. /\ id[w] \in Ids /\ row[w] = users[id[w]]
          /\ pc'[w] = "putNick" /\ UNCHANGED <<users, id, row>>
          /\ profile' = [profile EXCEPT ![id[w]] =
                           [profile[id[w]] EXCEPT !.name = row[w].name]]
      BY <1>6, Loaded
      DEF PutName, PutField, Written, At, Current, RowLabels, local
    <2>2. profile'[id[w]].name = row[w].name
      BY <2>1 DEF Profile
    <2> QED
      BY <2>1, <2>2 DEF Current, RowLabels
  <1>7. CASE PutNick(w)
    <2>1. /\ id[w] \in Ids /\ row[w] = users[id[w]]
          /\ profile[id[w]].name \in {None, users[id[w]].name}
          /\ pc'[w] = "putMap" /\ UNCHANGED <<users, id, row>>
          /\ profile' = [profile EXCEPT ![id[w]] =
                           [profile[id[w]] EXCEPT !.nick = row[w].nick]]
      BY <1>7, Loaded
      DEF PutNick, PutField, Written, At, Current, RowLabels, local
    <2>2. profile'[id[w]].nick = row[w].nick /\ profile'[id[w]].name = profile[id[w]].name
      BY <2>1 DEF Profile
    <2> QED
      BY <2>1, <2>2 DEF Current, RowLabels
  <1>8. CASE pc'[w] \notin RowLabels
    BY <1>8 DEF Current
  <1>9. ~ (\/ Insert(w) \/ LoginRow(w) \/ Verify(w) \/ Select(w) \/ PutName(w) \/ PutNick(w))
          => pc'[w] \notin RowLabels
    BY DEF Own, Step, SqlError, LostInsert, LostUpdate, Refuse, CheckMap, CheckRow,
       LoginMap, ReadHash, Update, UpdateStatus, PutMap, ListFriends, SelectOthers,
       StoreFriends, Done, RowLabels
  <1> QED
    BY <1>1, <1>2, <1>3, <1>4, <1>5, <1>6, <1>7, <1>8, <1>9

LEMMA AloneStep ==
  ASSUME ~LossyRedis, Inv, Inv', Alone, [Next]_vars
  PROVE  Alone'
  <1>1. Apart'
    BY ApartStep DEF Alone
  <1>2. ASSUME NEW w \in Workers, w \notin crowded'
        PROVE  Current(w)'
    <2>1. CASE pc'[w] = "idle"
      BY <2>1 DEF Current, RowLabels
    <2>2. CASE pc'[w] # "idle"
      <3>1. ASSUME NEW v \in Workers, Receive(v)
            PROVE  Current(w)'
        <4>1. v = w
          BY <1>2, <2>2, <3>1 DEF Receive, Goto, Busy, At, Inv, TypeOK
        <4>2. pc'[w] \notin RowLabels
          BY <3>1, <4>1, RequestsAssumption
          DEF Receive, Goto, First, RequestSpace, RowLabels, Inv, TypeOK
        <4> QED
          BY <4>2 DEF Current
      <3>2. ASSUME NEW v \in Workers, Own(v)
            PROVE  Current(w)'
        <4>1. crowded' = crowded /\ pc[v] # "idle"
          BY <3>2, OthersStay
        <4>2. v = w \/ pc'[w] = pc[w]
          BY <3>2, OthersStay
        <4>3. v = w
          BY <1>2, <2>2, <4>1, <4>2 DEF Alone, Apart
        <4>4. Current(w)
          BY <1>2, <4>1 DEF Alone
        <4> QED
          BY <3>2, <4>3, <4>4, CurrentStep
      <3>3. CASE Crash
        BY <2>2, <3>3 DEF Crash
      <3>4. CASE Expiry
        <4>1. /\ UNCHANGED <<users, pc, id, row, crowded>>
              /\ \/ profile' = profile
                 \/ \E u \in Ids : profile' = [profile EXCEPT ![u] = Blank]
          BY <3>4 DEF Expiry, local, history
        <4>2. Current(w) /\ (pc[w] \in RowLabels => id[w] \in Ids)
          BY <1>2, <4>1, Loaded DEF Alone
        <4>3. pc[w] \in RowLabels =>
                 profile'[id[w]] = profile[id[w]] \/ profile'[id[w]] = Blank
          BY <4>1, <4>2 DEF Inv, TypeOK
        <4> QED
          BY <4>1, <4>2, <4>3 DEF Current, Blank
      <3>5. CASE UNCHANGED vars
        BY <1>2, <3>5 DEF vars, redis, local, history, Alone, Current
      <3> QED
        BY <3>1, <3>2, <3>3, <3>4, <3>5 DEF Next, Own
    <2> QED
      BY <2>1, <2>2
  <1> QED
    BY <1>1, <1>2 DEF Alone

(* When no Redis write is lost, a handler that writes user:<u> and overlaps *)
(* no other leaves the hash as the row is, whatever earlier ones had left.  *)
THEOREM UncrowdedRepair ==
  ASSUME ~LossyRedis
  PROVE  Spec => WritersRepair
  <1>1. Init => Alone
    BY DEF Init, Alone, Apart, Current, RowLabels
  <1>2. Inv /\ Inv' /\ Alone /\ [Next]_vars => Alone'
    BY AloneStep
  <1>3. ASSUME Inv, Alone, [Next]_vars, NEW w \in Workers,
               At(w, "putMap"), pc'[w] = "idle", reply'[w] # None, w \notin crowded
        PROVE  Repaired(id[w])
    <2>1. /\ id[w] \in Ids /\ users[id[w]] # None
          /\ profile[id[w]].name \in {None, users[id[w]].name}
          /\ profile[id[w]].nick \in {None, users[id[w]].nick}
      BY <1>3, Loaded DEF At, Alone, Current, RowLabels
    <2>2. pc[w] = "putMap" /\ pc'[w] # pc[w]
      BY <1>3 DEF At
    <2>3. ~ Receive(w) /\ ~ Crash
      BY <1>3, <2>2 DEF Receive, At, Crash
    <2>4. \A v \in Workers : v # w => ~ Receive(v)
      BY <2>2, <1>3 DEF Receive, Goto, Inv, TypeOK
    <2>5. ~ UNCHANGED vars /\ ~ Expiry
      BY <2>2 DEF vars, Expiry
    <2>6. Own(w)
      BY <1>3, <2>2, <2>3, <2>4, <2>5, OthersStay DEF Next, Own
    <2>7. PutMap(w)
      BY <2>2, <2>6
      DEF At, Own, Step, SqlError, LostInsert, LostUpdate, Refuse, CheckMap, CheckRow,
          Insert, LoginMap, LoginRow, Verify, ReadHash, Update, UpdateStatus, Select,
          PutName, PutNick, ListFriends, SelectOthers, StoreFriends
    <2>8. users' = users /\ profile' = profile
      BY <2>7 DEF PutMap
    <2> QED
      BY <2>1, <2>8 DEF Repaired
  <1>4. Inv /\ Alone /\ [Next]_vars =>
          [\A w \in Workers :
             At(w, "putMap") /\ pc'[w] = "idle" /\ reply'[w] # None /\ w \notin crowded =>
               Repaired(id[w])]_vars
    BY <1>3
  <1> QED
    BY <1>1, <1>2, <1>4, Invariance, PTL DEF Spec, WritersRepair
=============================================================================
