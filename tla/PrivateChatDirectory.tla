------------------------ MODULE PrivateChatDirectory ------------------------
(***************************************************************************)
(* What the private-chat service promises, with no cache and no            *)
(* interleaving: a directory gives every unordered pair of users at most   *)
(* one chat, for ever, and whatever a reply says of a chat is true of the  *)
(* directory at the moment of the reply.  PrivateChats implements it.      *)
(***************************************************************************)
CONSTANTS Workers,   \* connections, each carrying one request at a time
          Users,     \* user identifiers
          ChatIds,   \* identifiers a chat row may get
          Questions, \* the requests that may arrive
          None       \* nothing was asked, or not answered yet

VARIABLES directory, \* directory[c]: the participants of c, {} if unregistered
          asked,     \* asked[w]: the last request of w
          answer     \* answer[w]: the reply to it

dvars == <<directory, asked, answer>>

(* A refusal claims nothing; any other reply names chats and people. *)
Refusal == [ok |-> FALSE, chats |-> {}, who |-> {}]

(* The claims of reply a to request q that hold of directory d. *)
Truthful(q, a, d) ==
  \/ a \in {None, Refusal}
  \/ /\ q.op = "create"
     /\ \E c \in a.chats : a.chats = {c} /\ d[c] = {q.user, q.other}
     /\ a.who = {q.user, q.other}
  \/ /\ q.op = "get"
     /\ a.chats = {q.chat}
     /\ a.who = d[q.chat]
     /\ q.user \in a.who
  \/ /\ q.op = "validate"
     /\ a.chats = {q.chat}
     /\ a.who = {q.user}
     /\ q.user \in d[q.chat]
  \/ /\ q.op = "members"
     /\ a.chats = {q.chat}
     /\ a.who \subseteq d[q.chat]
  \/ /\ q.op = "list"
     /\ a.who = {q.user}
     /\ \A c \in a.chats : q.user \in d[c]

DInit ==
  /\ directory = [c \in ChatIds |-> {}]
  /\ asked = [w \in Workers |-> None]
  /\ answer = [w \in Workers |-> None]

Ask(w) ==
  /\ \E q \in Questions : asked' = [asked EXCEPT ![w] = q]
  /\ answer' = [answer EXCEPT ![w] = None]
  /\ UNCHANGED directory

(* A pair enters the directory once, under an identifier never used before. *)
Register(c, a, b) ==
  /\ directory[c] = {}
  /\ \A d \in ChatIds : directory[d] # {a, b}
  /\ directory' = [directory EXCEPT ![c] = {a, b}]

(* At most one truthful reply per request. *)
Answer(w) ==
  /\ answer[w] = None
  /\ \A v \in Workers \ {w} : answer'[v] = answer[v]
  /\ Truthful(asked[w], answer'[w], directory)
  /\ UNCHANGED asked

DNext ==
  \/ \E w \in Workers : Ask(w)
  \/ \E w \in Workers : Answer(w) /\ UNCHANGED directory
  \/ \E c \in ChatIds : \E a, b \in Users :
        /\ Register(c, a, b)
        /\ UNCHANGED asked
        /\ \/ UNCHANGED answer
           \/ \E w \in Workers : Answer(w)   \* the insert commits, its reply is lost

DSpec == DInit /\ [][DNext]_dvars
=============================================================================
