---------------------------- MODULE NameRegister ----------------------------
(***************************************************************************)
(* What the account service promises, with neither caches nor              *)
(* interleaving: a name is given to one account, once and for ever; who    *)
(* asks for it is told so, others are told it exists; and an account is    *)
(* always shown under its own name.                                        *)
(***************************************************************************)
CONSTANTS Workers, Names, Ids, Requests, Replies, None

VARIABLES
  owner, \* name -> the account that has it, or None
  asked, \* the request a worker serves
  mine,  \* the account that request has made
  answer \* what it answered last

rvars == <<owner, asked, mine, answer>>

Init ==
  /\ owner = [n \in Names |-> None]
  /\ asked = [w \in Workers |-> None]
  /\ mine = [w \in Workers |-> None]
  /\ answer = [w \in Workers |-> None]

Open(w) == asked[w] # None

Ask(w) ==
  /\ ~Open(w)
  /\ \E q \in Requests : asked' = [asked EXCEPT ![w] = q]
  /\ answer' = [answer EXCEPT ![w] = None]
  /\ UNCHANGED <<owner, mine>>

(* A free name gets an account that has no name yet. *)
Take(w, u) ==
  /\ Open(w) /\ asked[w].op = "register" /\ mine[w] = None
  /\ asked[w].name \in Names
  /\ owner[asked[w].name] = None
  /\ \A n \in Names : owner[n] # u
  /\ owner' = [owner EXCEPT ![asked[w].name] = u]

Register(w) ==
  /\ UNCHANGED <<asked, answer>>
  /\ \E u \in Ids : mine' = [mine EXCEPT ![w] = u] /\ Take(w, u)

Owns(u, n) == n \in Names /\ owner[n] = u /\ u # None

Truthful(w, r) ==
  LET q == asked[w] IN
    /\ r.result = "exists" =>
         q.op = "register" /\ q.name \in Names /\ owner[q.name] # None
    /\ r.result = "ok" =>
         /\ q.op = "register" => r.id = mine[w] /\ Owns(r.id, q.name)
         /\ q.op = "login" => Owns(r.id, q.name)
         /\ q.op \in {"get", "update", "status"} => r.id = q.user
         /\ q.op # "friends" => Owns(r.id, r.shown.name)

(* An answer closes the request. *)
Close(w) ==
  /\ Open(w)
  /\ asked' = [asked EXCEPT ![w] = None]
  /\ mine' = [mine EXCEPT ![w] = None]
  /\ answer'[w] \in Replies
  /\ answer' = [answer EXCEPT ![w] = answer'[w]]

Answer(w) ==
  /\ Close(w)
  /\ Truthful(w, answer'[w])
  /\ UNCHANGED owner

(* The name is given, and its new owner told of an error. *)
RegisterUnseen(w) ==
  /\ Close(w)
  /\ answer'[w].result = "error"
  /\ \E u \in Ids : Take(w, u)

(* The server dies: no open request is answered any more. *)
Forget ==
  /\ asked' = [w \in Workers |-> None]
  /\ mine' = [w \in Workers |-> None]
  /\ answer' = [w \in Workers |-> None]
  /\ UNCHANGED owner

Next ==
  \/ \E w \in Workers : Ask(w) \/ Register(w) \/ Answer(w) \/ RegisterUnseen(w)
  \/ Forget

Spec == Init /\ [][Next]_rvars
=============================================================================
