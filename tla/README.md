# A TLA+ model of StarryChat

StarryChat is a chat server: an RPC front end, MariaDB for what must last, and
Redis for caches, sessions and presence. This directory holds TLA+ modules for
its private chats, its chat rooms, its sessions and presence, its messages and
its user accounts, TLC configurations that check them on small instances, and
proofs that TLAPS checks for every instance.

- [Parts of the system](#parts-of-the-system)
- [What makes it hard](#what-makes-it-hard)
- [How the code is modelled](#how-the-code-is-modelled)
- [The modules](#the-modules)
- [The runs](#the-runs)
- [The proofs](#the-proofs)
- [What the code does not guarantee](#what-the-code-does-not-guarantee)
- [What is not modelled, and the plan](#what-is-not-modelled-and-the-plan)

To run everything here: `tlc -config PrivateRace.cfg MCPrivateChats` (any other
configuration with the module of its table row), `tlapm PrivateChatsProofs.tla`.

## Parts of the system

| part | source | state | operations | used by |
|---|---|---|---|---|
| private chats | `chat_service_impl.cpp`, `message_service_impl.cpp` | table `private_chats`; `private_chat:users:<a>:<b>`, `private_chat:<id>`, `private_chat:<id>:members`, `user:chats:<u>` | CreatePrivateChat, GetPrivateChat, GetUserChats, isValidChatMember, getChatMembers | messages |
| chat rooms | `chat_service_impl.cpp`, `message_service_impl.cpp` | tables `chat_rooms`, `chat_room_members`; `chat_room:<id>`, `chat_room:<id>:members`, `chat_room:<id>:member:<u>`, `user:chats:<u>` | create, get, update, dissolve, add, remove, role, leave, and the membership functions of the message service | messages |
| sessions and presence | `user_service_impl.cpp`, `main.cpp` | `users.status`; `session:<t>`, `user:session:<u>`, `user:status`, `user:<u>`, `users:online`, `user:heartbeat:<u>` | Login, Logout, UpdateStatus, UpdateHeartbeat; the checker thread | every client |
| user accounts | `user_service_impl.cpp`, `user.cpp` | table `users`; `user:<u>`, `username:to:id`, `user:friends:<u>` | RegisterUser, GetUser, UpdateProfile, GetFriends | Login, chat summaries |
| messages | `message_service_impl.cpp` | tables `messages`, `message_mentions`; `message:<id>`, `timeline:…`, `unread:…`, `chat:last_message:…`, `chat:last_active:…` | GetMessages, SendMessage, UpdateMessageStatus, RecallMessage, and the preview of a chat list | clients, chat list |
| Redis access | `redis_manager.cpp` | one client, `initialized_` | every command; a failure is logged and turned into false, nothing or an empty value | everything |
| database access | `db_manager.cpp`, `sql/table_schema.sql` | driver, `initialized_` | a connection per call, null when there is none | everything |
| start and shutdown | `main.cpp` | event loop | start-up order, signals, shutdown | - |
| configuration | `config.cpp` | settings, read once | loadConfig | start-up |

The services do not call one another. They interact through shared keys and
tables: the message service fills and reads the members sets that the chat
service keeps; every change of a chat drops `user:chats:<u>`; the checker
rewrites the status that logins, heartbeats and status updates write.

What makes each part correct:

- *Private chats*: one chat per pair, known under one identifier for ever; the
  caches never contradict the table; only participants see a chat.
- *Chat rooms*: nobody acts without the role it takes; the caches of roles and
  members follow the table; the count is right; a room that stands has an owner.
- *Sessions and presence*: a token serves its owner only; one session per user; a
  session that ended stays ended; the silent go offline, the gone leave no trace.
- *Messages*: a request puts one message at most into a chat; what Redis keeps of a
  message was once true of its row; the timeline has no gap; no unread message is
  counted twice, and none is lost to a reader; a page that is short is the last one.
- *User accounts*: a name has one account and the map of names agrees; no field of a
  profile is another user's; the next writer repairs what overlapping ones left.

## What makes it hard

`server.threads` is 16 (`config/config.yaml`): requests of one connection are
served in turn, those of different connections at once. A handler is a sequence
of Redis commands and SQL statements. Each is atomic by itself, each statement
commits by itself (only DissolveChatRoom opens a transaction), and no lock spans
two of them. So:

- what a handler read may be stale when it writes (every read-then-cache);
- two handlers may write the database in one order and Redis in the other;
- any step may fail while the others succeed: `RedisManager` swallows every
  exception, SQL errors end a handler in the middle, a restart ends all of them;
- every key has a time to live of its own, except `user:<u>` made by a status
  alone and a members set filled by isValidChatMember alone.

PROJECT.json lists these hazards at their lines, with the properties that watch
each and, for the others, why none does.

## How the code is modelled

*An action is one access.* `pc[w]` names the access that worker `w` (a connection's
thread) makes next; locals that live across accesses are functions over workers.
`Receive` is the arrival of a request from the constant `Requests`; `Done` is
`done(response)`. The branches of an action are the branches of the code on the
value it read. Code between two accesses touches nothing shared and is part of
the access before it.

*Failures.* With `LossyRedis` every read may also find nothing and every write may
also change nothing, which is what callers see of `RedisManager`. With `Faults`
every SQL statement may throw, every INSERT, UPDATE and DELETE may commit and its reply
be lost, and the process may die and start again with database and Redis as they are. In
Messages and UserAccounts the lost replies are actions (`LostInsert`, `LostMention`,
`LostUpdate`), in the other modules alternatives of the statement or of `SqlError`. A handler
that dereferences the null connection it got (`getConnection` may return null,
most handlers do not look) dies too: that is `Crash`.

*Time.* A key whose time to live is set may vanish at any moment (`Expiry`). This
allows more than the clock does, with one exception stated in UserService:
`session:<t>` is written or refreshed before `user:session:<u>` with the same 24
hours and so goes first, unless a refresh failed. How long a key lives otherwise
plays no part in any property. EXPIRE calls are merged with the access before them
where only the fact matters that the key may go; the lack of an EXPIRE is kept where
the code lacks it (`membersTTL`, `userTTL`).

*Data.* Identifiers, tokens, names and passwords are members of small sets. In
UserService the profile fields of `user:<u>` are one fact (`userName`), in
UserAccounts they are its name and one field that can change; name, description and
avatar of a room are one value of `Names`. Of a message its sender, kind, second,
status and mentions are kept; texts and the message it replies to are not (a reply to
a message that is not there fails the INSERT as any other failing statement does).
Conversions between classes, rows and protocol messages are the copying of those
fields. Mentions of a request are a set: the same user twice would fail the second
INSERT as one without an account does. Publishing to channels changes no state here and
is left out, as are logging and wording. The order of the members a loop visits is the
client's, hence any.

*Outside the repository.* From the RPC library (a submodule): requests of one
connection are serial, connections are parallel. From MariaDB: `uk_users`, primary
and foreign keys hold; UPDATE reports the rows it matched; AUTO_INCREMENT never
reuses an identifier. From Redis: single commands are atomic; HSET and HGET on a
string fail, SET replaces any value.

## The modules

**PrivateChatDirectory** is the promise of the private-chat service, with neither
caches nor interleaving: `directory` gives an identifier a pair once and for ever
(`Register`), and a reply is truthful of the directory at that moment (`Answer`).

**PrivateChats** is the code. `privateChats` is the table; `pairKey`, `chatKey`,
`membersKey`, `userChats` are the keys. CreatePrivateChat runs
receiver, lookup, find, insert, mapPair, load, storeChat, storePair, addFirst,
addSecond, expireMembers, drop1 to drop4; GetPrivateChat joins it from select to
expireMembers and ends in partner. `DirectorySpec` is the directory under the
mapping `directory[c]` = the participants of row `c`, `asked` = `req`, `answer` =
`reply`.

**UserService** is sessions and presence. Login runs select to setCurrent
(storeSession), putStatus to putOnline (updateUserStatusInCache), beat, cacheName to
cacheExpire (cacheUserInfo). Logout and UpdateHeartbeat begin with getSession to
validJoin (validateSession). The checker is a process of its own (`cpc`, `todo`,
`cur`) that works through a copy of `users:online`. `issued` is a history variable:
whose a token was when it was drawn. Login is modelled to be asked with a user rather
than a name, as names are unique and never change.

**ChatRooms** is the eight room handlers. The check functions are shared code with a
return point: `check[w]` is the function it is in and `Onward` says where the caller
goes on. `memberKey` keeps its kind: cacheChatRoomMember stores a *string* under
`chat_room:<id>:member:<u>`, so that the HSET of the role that follows fails and
isChatRoomOwner and isChatRoomAdmin, which HGET it, go to the table; where those
functions made the key first it is a *hash*. `held` is a history variable: every role
anybody ever had.

The list key `user:chats:<u>` carries private chats and rooms together. Each of the two
modules keeps its own part; the invalidations by the other one are among those that
`Expiry` already allows.

**Conversation** is the promise of the message service about one chat: a log that only
grows. A request posts at most one entry (`Post`), a status is added only because
somebody asked who may (`Mark`), and a reply shows entries of the log with a status
they have had, each once (`Answer`, `Truthful`). An error shows nothing, but for that of a
reading, which may carry a part of what a member asked for. `PostUnseen` and `MarkUnseen` are
an entry and a status whose request is answered as if it had failed, or without a word of it.

**Messages** is the code. `messages` and `mentions` are the tables, `copies` the cached
messages, `timeline`, `preview` and `unread` the other keys. SendMessage runs admit,
insert, mention (a loop), cache, zadd, trim, setPreview, members, incr (a loop);
RecallMessage find, update, readCopy, storeCopy, and then its notice from insert to
trim; UpdateMessageStatus find, admit, update, readCopy, storeCopy, reset; GetMessages
admit, range, fetch (a loop) or query and refill (a loop), reset; getLastMessagePreview
of the chat list readPreview, selectLast, storePreview. A query `ORDER BY timestamp`
returns rows of one second in any order (`Queried`); Redis breaks ties by the member
string (`Later`). The order of the strings is the constant `Precedes`, of which only
`OrderAssumption` is known, that it is a strict total order: with four digits 9999 and five
10000 it is not that of the numbers, and of two messages of one second the newer may rank
lower, and be trimmed first. In the runs the messages of the chat are the rows 9, 10, 11 of
the table, which is such a case. A page read from cached messages is dropped when one of
them is missing, but only once the SELECT has answered: if that fails, the error carries
what had been collected.
isValidChatMember and getChatMembers are not repeated here: they are the answers that
PrivateChats and ChatRooms allow, never a stranger, and with `PartialMembers` a member
may be overlooked. Messages of different chats share no key and no row. `held` (the
statuses a row has had) and `unseen` (what came since a user's counter was reset) are
history variables. `ConversationSpec` maps the log to rows with their statuses so far.

**NameRegister** is the promise of the account service: a name is given to one account,
once and for ever (`Register`), who else asks hears that it exists, and an account is
shown under its own name (`Truthful`).

**UserAccounts** is the code: table `users`, the hash `username:to:id` (`nameToId`), the
hash `user:<u>` (`profile`, filled field by field), `user:friends:<u>` (`friends`).
RegisterUser runs checkMap, checkRow, insert and then cacheUserInfo (putName, putNick,
putMap); Login joins by loginMap, loginRow, verify; GetUser is hash and select,
UpdateProfile update and select, UpdateStatus updateStatus and select, each followed by
cacheUserInfo; GetFriends is list, others, storeFriends, of at most `FriendsLimit` rows (`LIMIT 100`). Sessions and statuses of the
same handlers are in UserService. `crowded`, a history variable, holds the workers
whose handler has overlapped another.

**PrivateRefusals** takes the steps of PrivateChats and records in the history variable
`hurt` whose latest request met an SQL error, which RefusedOnlyIfChatExists needs beside
failures.

**PrivateChatsProofs**, **UserServiceProofs**, **ChatRoomsProofs**, **MessagesProofs**
and **UserAccountsProofs** hold the theorems, **ChatRoomsAloneProofs** and
**MessagesAloneProofs** those about rooms and messages served by one connection,
**MCPrivateChats**, **MCUserService**, **MCChatRooms**, **MCMessages**,
**MCUserAccounts** the request sets of the runs.
Operators marked *Mutant* are plausible faults of the definition that follows them: with
one put in its place, the run named in PROJECT.json must fail.

## The runs

| run | module | instance | properties |
|---|---|---|---|
| PrivateRace | MCPrivateChats | 2 connections, 3 users (one without account), 2 identifiers, lossy Redis, faults | TypeOK, OneChatPerPair, CachesTrue, LocalsTrue, RefusedOnlyIfChatExists, DirectorySpec |
| SessionRace | MCUserService | 2 connections, 2 users, 2 tokens, faults, sessions expire | TypeOK, SessionsOwned, LogoutEnds, EndedStaysEnded |
| PresenceAlone | MCUserService | 1 connection and the checker, 2 users (one without account), 2 tokens, fairness | LiveIsCurrent, LogoutLeavesNoTrace, SilentLeavesOnline |
| RoomsAlone | MCChatRooms | 1 connection, every operation, 3 users (one without account), keys expire | RolesFresh, MembersFresh, CountFresh, OwnerKept, ActsByPresentRole |
| RoomsRace | MCChatRooms | 2 connections, checks beside changes, faults | TypeOK, CachesHeld, Authorised |
| MessagesAlone | MCMessages | 1 connection, every operation, 3 messages, a timeline of 2, keys expire | CopyFresh, TimelineGapless, UnreadExact, PreviewFresh |
| MessagesRace | MCMessages | 2 connections, 2 members, a stranger and a user without account, 2 messages, mentions of a member and of nobody, overlooked members, faults, cached messages expire | TypeOK, CopiesTrue, UnreadBounded, ConversationSpec |
| Accounts | MCUserAccounts | 2 connections, 2 names, 3 numbers for accounts, lists of 1 friend, faults, keys expire | TypeOK, NamesTrue, ProfilesHeld, WritersRepair, RegisterSpec |
| PrivateLockout | MCPrivateChats | 1 connection | ParticipantAdmitted, **violated** |
| PresenceGhost | MCUserService | 1 connection and the checker, fairness | SilentGoesOffline, **violated** |
| RoomsOwnerless | MCChatRooms | 1 connection | OwnerRemains, **violated** |
| MessagesCutOff | MCMessages | 1 connection, 3 messages, keys expire | HistoryComplete, **violated** |

*Bounds.* Every race in these handlers is between two sequences of accesses to the keys
of one chat, one user or one room; two connections give every order of two. Two users
are both orders of a pair; a third is a stranger. A second identifier is what a second,
wrong row would take. Two tokens are an old and a new session, and as tokens are drawn
once they also bound the number of logins. One room is enough because no key of a room
depends on another's; as identifiers are not reused, it is opened once per behaviour and
may be dissolved. Three messages and a timeline that keeps two are the least for an entry to
be dropped and for a history longer than a page; the clock has two readings, and a
message may be recalled within the second it was sent and no longer, which is both
sides of the window. MessagesRace has one second, two messages and lets only cached messages
expire: what it asks compares no times, and timelines and previews that go are in
MessagesAlone. Three numbers for two names make a list of friends that is longer than the
limit of the run, 1. The request sets name the operations that meet in the question of
the run, so that all of their orders are explored.

*Symmetry.* The runs with two connections exchange them: no definition distinguishes
connections, and these runs check invariants and step properties, no liveness.

*Deadlock* is checked in every run and none is found: an idle connection can always get
a request, logins being refused only when no token is left.

*Freshness and one connection.* OwnerKept and ActsByPresentRole are about steps; RolesFresh, MembersFresh, CountFresh, LiveIsCurrent,
LogoutLeavesNoTrace, CopyFresh, TimelineGapless, UnreadExact and PreviewFresh are
statements about rest: no handler is running. All of them hold when
requests come one at a time, and are checked there with keys expiring, or the checker
stepping, at any moment in between. The runs named Race, and Accounts, check what holds
with two connections. WritersRepair joins the two: however connections have overlapped,
a writer that overlaps none leaves `user:<u>` as the row is. The theorems about rest are
for one connection too, and for any users, members, requests and bounds.

*Fairness.* `FairSpec` of UserService assumes that a thread inside a handler makes its
next step (weak fairness of `Step(w)`), as handlers block on nothing but bounded calls,
and that the checker thread runs its endless loop (weak fairness of `CheckerStep`). No
request need arrive, no key need expire and no failure need stop. SilentLeavesOnline
holds under it, and SilentGoesOffline is refuted under it, so its counterexample is not
a thread that merely stopped.

## The proofs

All theorems are for any sets of users, connections, identifiers, tokens and requests,
with any combination of the failure flags unless they say otherwise. They rest on the
named assumptions of the modules: requests are records of the request space, `None` is
none of the values it stands beside (no role and no row of a room, for example), user identifiers are numbers (their order decides
the order of a pair), and the users of a room are finitely many (they are counted).

*PrivateChats.* The invariant `Inv` is TypeOK, ordered and distinct rows, CachesTrue and
LocalsTrue. Uniqueness alone is not inductive: a row may be inserted only in order, which
depends on `Wanted`; a key may be written only if the handler's local is true, which
depends on rows never changing once inserted (`RowsStep`). From it follow
`UniqueChats`, `CachesCorrect`, `LocalsCorrect`, and `ImplementsDirectory`: each access
maps to a step of the directory (an arrival to Ask, an insert to Register, a reply to
Answer) or leaves it as it is. `RefusalsExcused` is about the specification with `hurt`:
whoever has been refused without an error of his own has found the row of the chat, or
has lost to the unique key, and rows stay.

*UserService.* `Inv` adds to the types what the locals know at each label, that a key
names only the user for whom its token was drawn, that a token belongs to one login at
a time, and that a token not stored yet is in no key. `OnlyOwners` follows.
`NoRevival` is an action property: only SET `session:<t>` of the login that drew `t`
can make a session live, and that login is then still `Pending`. `LogoutFinal` needs
`~LossyRedis`: a DEL that is lost leaves the session, and the answer is still success.

*ChatRooms.* `Inv` is TypeOK, that every row and every cached role or member is in
`held`, and what each label of each handler implies (`Holds`): the operation it serves,
the role its caller was granted, the rows it has read, the answer it prepares.
`NothingInvented` and `OnlyAuthorised` follow. Roles may be old ones: with two connections
RolesFresh is refuted (below), which is why the theorem speaks of `held` and not of the
present table.

*Messages.* `Inv` is TypeOK; that a row's status is among those it has had; that what Redis
keeps is true (CopiesTrue, except that the mentions of a cached message count as all of them
only once no handler is still inserting any, `Whole`); that no message belongs to two
requests; and per label what a handler has found out about its request (`Granted`), which
message it has posted (`Owned`) and what it has collected (`Collected`). It is inductive
because rows stay and only gain statuses (`Grows`), so that what a handler has found out
stays true while others work. `CopiesCorrect` follows, and `ImplementsConversation`: an
INSERT is Post (PostUnseen when its answer is lost), an UPDATE is Mark (MarkUnseen when its
answer is lost), a return is Answer with a truthful reply, a crash is Forget, and every other access leaves the conversation as
it is. `UnreadNeverExceeds` needs a stronger count: a text awaits a member while its handler
has not raised his counter (`Awaits`), and a counter is at most the number of texts that have
stopped waiting (`Countable`), which each INCR raises by one as two handlers never own one
message.

*UserAccounts.* `Inv` is TypeOK, NamesTrue, ProfilesHeld, that the present fields of every
row are in `held`, and per label what the locals know: whose row was loaded, that its fields
are among those the row has had. Rows keep their names, so the map of names stays true once
written. `OneAccountPerName`, `FieldsOwned` and `ImplementsRegister` follow (an INSERT is
Register, RegisterUnseen when its answer is lost; a return is an answer). `UncrowdedRepair` needs `~LossyRedis` and the further
invariant `Alone`: two handlers that are at work together are both crowded, and one that is
not crowded has the row as it is, and has written no field of the hash otherwise.

*One connection.* The statements about rest, and the two about the steps of RoomsAlone,
assume `Workers = {me}`, `~LossyRedis` and `~Faults`; keys may still expire at any moment,
and the checker of UserService runs beside the connection. The next section names, for most
of them, an instance in which a second connection or a failure refutes the statement. At
rest these statements are bare; while a handler is at work they hold but for what it has changed in one place and not yet in the
other, and the inductive invariants say at which labels that is, for which key.

- *UserService*: a stored session is its user's current one, but for the tokens that a
  login or logout is just storing, replacing or removing (`Current`), and a logout has
  cleared, label after label, what it has passed (`Cleared`). The checker and the times to
  live only take users further offline (`BesidesClear`). Follow `AloneLiveIsCurrent` and
  `AloneLogoutLeavesNoTrace`.
- *ChatRooms*: `Alone` has six parts. `TableSound` (rows belong to rooms there are) and
  `OnPath` (which requests reach a label) serve the others. `RolesSound`: a cached role is
  the row's, but for the member whose row has just been deleted or changed, or whose role is
  at hand to be cached. `MembersAgree`: who is in a members set has a row, but for the one who
  is leaving. `CountsAgree` and `RoomsAgree`: `member_count` is the number of rows
  and `chat_room:<id>` the row, but for the room whose members or fields were changed by a
  handler that will still write them. Follow
  `AloneRolesFresh`, `AloneMembersFresh`, `AloneCountFresh` and, as a step
  property, `AloneOwnerKept`: what isChatRoomOwner saw is still so when the row is deleted.
  `AloneActsByPresentRole` says the same of every operation and adds two parts: `Entitled`
  (once the check of its caller is behind it, a request is served by the role he has in the
  table, unless he has added himself and so become a plain member) and `Aimed` (a removal is
  not of the caller, an addition is of somebody the request names).
- *Messages*: `Clock` says that a message being posted comes later than all others, as
  AUTO_INCREMENT and the server's clock give it the highest identifier and a time no row
  exceeds. `Later` orders the rows strictly (`LaterOrders`), whatever the order of strings
  that breaks its ties, and the latest n of a set are at most n and closed upward
  (`LatestFew`, `LatestUpward`), so that ZREMRANGEBYRANK takes the lowest ranks only. What
  TimelineGapless calls newer (`Newer`) ranks higher in either order: later in time, or of
  the same second with the higher identifier and the later string. On these rest `TimelineAgree` (no gap but the message still to be put there) and
  `PreviewAgree`. `CopiesAgree` excepts the message whose row an update has changed before
  its copy, and `UnreadAgree` the one text that `Due` says is still to be counted.
  Follow `AloneTimelineGapless`, `AlonePreviewFresh`, `AloneCopyFresh`, `AloneUnreadExact`.
  All but the third also assume that requests mention users there are: a mention that the
  foreign key refuses ends SendMessage after its row was committed, and no key ever hears of
  that row. UnreadExact assumes whole members keys (`~PartialMembers`): an overlooked member is
  not counted for.

*Only model-checked.* Liveness (SilentLeavesOnline), since the prover handles neither
fairness nor ENABLED. Every other property of the passing runs is a theorem. Nothing is
recursive and no induction over data is needed: loops of handlers are sets in `todo`.

## What the code does not guarantee

Four disagreements between the code and what it says of itself have a run and a finding:

- **PrivateLockout.** isValidChatMember caches only the caller; the next participant is
  refused (`message_service_impl.cpp:556`).
- **PresenceGhost.** A heartbeat between two steps of the checker leaves a user ONLINE
  whom no later round looks at (`main.cpp:38-43`).
- **RoomsOwnerless.** Adding an owner who is missing from a partly filled members set
  makes him a plain member (`chat_service_impl.cpp:1259`).
- **MessagesCutOff.** A timeline that expired is made anew by the next message, with
  that one alone, and GetMessages takes it for the whole history
  (`message_service_impl.cpp:43`).

Other instances of the same modules refute the following; each is the run named first
with the change given, and is described here rather than kept as a run:

- PrivateRace with a property that a cached list is complete: a list collected before
  another connection's insert is stored after it was dropped.
- PrivateRace with a property that creation never fails between registered users: who
  loses the race to INSERT is refused, although the chat is there.
- SessionRace with a property that a stored session's user has a current one: a logout that
  was validated before a login deletes `user:session:<u>` after it, so that the token just
  given out is refused from then on (`user_service_impl.cpp:885`).
- SessionRace with LiveIsCurrent: two logins of one user leave two sessions stored, of
  which one is not current (and is refused by validateSession).
- PresenceAlone with two connections and LogoutLeavesNoTrace: a heartbeat validated
  before the logout ends after it and puts the user back online.
- PresenceAlone with equality of `users.status` and `user:status`: UpdateHeartbeat
  writes ONLINE to Redis only.
- RoomsAlone without the two bounds to standing rooms: dissolving leaves the keys of
  the members.
- RoomsRace with a property that a member is admitted: a partly filled members set
  denies the others, as with private chats.
- RoomsRace with RolesFresh: isChatRoomAdmin reads a role, the member is removed and his
  key deleted, and then the check caches the role it read, for a day
  (`chat_service_impl.cpp:1105`).
- RoomsAlone with completeness of lists: CreateChatRoom and UpdateChatRoom never drop
  `user:chats:<u>`, DissolveChatRoom tells only the members it finds in the cache, and
  every read of the list renews its 30 minutes (`chat_service_impl.cpp:2156`).
- RoomsRace with CountFresh: two counts stored in the other order.
- RoomsRace with ActsByPresentRole: between the DELETE of a member's row and the SREM of his
  name, isValidChatMember lets him to the messages; a failure between the two (RoomsAlone with
  faults) leaves his name there.
- RoomsAlone with faults and OwnerKept: isChatRoomOwner answers false when its SELECT fails, and
  the owner's row is deleted.
- MessagesAlone with two connections and CopyFresh: two handlers update the row in one
  order and the cached message in the other, so that a recalled message keeps READ.
- MessagesCutOff without keys that expire, but with two connections, or with a lossy Redis,
  and HistoryComplete: a message whose ZADD is still to come, or was lost, is missing from a
  page that claims to be the last (`message_service_impl.cpp:841`).
- MessagesAlone with two connections and PreviewFresh: the preview of a row selected
  before is stored over that of a newer message, for a day.
- MessagesAlone with a property that no preview is of a recalled message: RecallMessage does
  not renew `chat:last_message` (`message_service_impl.cpp:445`).
- MessagesAlone with two connections and UnreadExact: a message that comes between the
  reading of the messages and the reset of the counter is forgotten.
- MessagesAlone with a mention of a user without account, and TimelineGapless, UnreadExact or
  PreviewFresh: the row is committed before its mention is refused, and SendMessage ends there
  (CopyFresh still holds).
- MessagesRace with a property that RECALLED is final: UpdateMessageStatus stores any
  status a member asks for, READ over RECALLED, or RECALLED for somebody else's message
  and after the window that RecallMessage keeps to (`message_service_impl.cpp:346`).
- MessagesRace with a property that a failed GetMessages shows nothing: the cached messages
  collected before a miss are in the error it answers when the SELECT fails
  (`message_service_impl.cpp:53`).
- MessagesRace with a property that a failed SendMessage stored nothing: a mention of a
  user without account, or a lost reply, fails the request after the row was committed.
- MessagesAlone with times in the requests and replies that keep to them: a timeline hit
  ignores start_time and end_time (`message_service_impl.cpp:38`).
- Accounts with equality of `user:<u>` and the row at rest: an older row may be cached
  last and hides the update until the hash expires or the next writer comes.

## What is not modelled, and the plan

Done: the modules above with their runs, and a proof of every property of theirs but the one
liveness property. What would still be worth stating and proving is about two connections:
what of the rest statements survives, as WritersRepair does for profiles.

Left out, with the reason:

- *The summaries of a chat list.* Which chats `user:chats:<u>` names is in PrivateChats and
  ChatRooms, the preview in Messages. Names and unread counts are single reads of keys those
  modules and UserAccounts keep, serialized into that key. Nothing but a change of chats
  drops it, and `getUserChatsListFromCache` renews its 30 minutes at every read, although
  `cacheUserChatsList` says that the time is short "because the chat list changes often"
  (`chat_service_impl.cpp:2128`): who asks more often than that sees the unread counts and
  previews of the first time, so there is no agreement between the list and the counters
  to check.
- *Start and shutdown.* `initialize` of `RedisManager` tests the connection while
  `initialized_` is still false, so its test commands return at once and a server without
  Redis starts and works on misses: LossyRedis. A database that does not answer keeps the
  server from starting, and later makes `getConnection` null: Faults. `shutdown` resets the Redis client under handlers and the
  checker that may be using it; what that adds is a process that dies at any step: Crash.
- *The RPC library* is a submodule and not in the repository.
- *Configuration parsing* is sequential and happens once, before anything else; *password
  hashing* is a pure function, here right or wrong; *conversions* between classes and
  protocol messages are copying; the *test client* keeps no state of the system.
