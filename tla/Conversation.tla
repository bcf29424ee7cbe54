---------------------------- MODULE Conversation ----------------------------
(***************************************************************************)
(* What the message service promises about one chat, with neither caches   *)
(* nor interleaving: a log of messages that only grows.                    *)
(*                                                                         *)
(* A request puts at most one message into the log; a message gets a new   *)
(* status only because somebody asked for it who may; what a reply shows   *)
(* is in the log, with a status it has had.                                *)
(***************************************************************************)
EXTENDS Integers

CONSTANTS Workers, Users, Members, Ids, Requests, None

VARIABLES
  log,    \* id -> None, or the sender, the kind and the statuses it has had
  asked,  \* the request a worker serves, or served last
  posted, \* the message that request has put into the log
  answer  \* what was answered

Statuses == {"SENT", "DELIVERED", "READ", "RECALLED"}
cvars == <<log, asked, posted, answer>>

Logged == {i \in Ids : log[i] # None}
Serving(w, op) == asked[w] # None /\ answer[w] = None /\ asked[w].op = op

Init ==
  /\ log = [i \in Ids |-> None]
  /\ asked = [w \in Workers |-> None]
  /\ posted = [w \in Workers |-> None]
  /\ answer = [w \in Workers |-> None]

Ask(w) ==
  /\ asked'[w] \in Requests /\ asked' = [asked EXCEPT ![w] = asked'[w]]
  /\ answer' = [answer EXCEPT ![w] = None]
  /\ posted' = [posted EXCEPT ![w] = None]
  /\ UNCHANGED log

(* A text of a member, or the notice that a message has been recalled. *)
Entry(q) ==
  [sender |-> q.user, kind |-> IF q.op = "send" THEN "TEXT" ELSE "RECALL",
   statuses |-> {"SENT"}]

MayPost(w) ==
  /\ posted[w] = None
  /\ \/ /\ Serving(w, "send")
        /\ asked[w].user \in Members
        /\ asked[w].kind = "TEXT"
     \/ /\ Serving(w, "recall")
        /\ asked[w].msg \in Logged
        /\ log[asked[w].msg].sender = asked[w].user
        /\ "RECALLED" \in log[asked[w].msg].statuses

Append(w, i) == i \notin Logged /\ log' = [log EXCEPT ![i] = Entry(asked[w])]

Post(w) ==
  /\ MayPost(w)
  /\ \E i \in Ids : posted' = [posted EXCEPT ![w] = i] /\ Append(w, i)
  /\ UNCHANGED <<asked, answer>>

(* A member marks a message, a sender recalls his. *)
MayMark(w) ==
  \/ /\ Serving(w, "status")
     /\ asked[w].msg \in Logged
     /\ asked[w].user \in Members
  \/ /\ Serving(w, "recall")
     /\ asked[w].msg \in Logged
     /\ asked[w].user = log[asked[w].msg].sender
Requested(q) == IF q.op = "recall" THEN "RECALLED" ELSE q.status

Marks(w) == log' = [log EXCEPT ![asked[w].msg].statuses = @ \cup {Requested(asked[w])}]

Mark(w) == MayMark(w) /\ Marks(w) /\ UNCHANGED <<asked, posted, answer>>

(* What a reply shows is in the log, each message once.  An error shows    *)
(* nothing, but for that of a member's reading, which may come with a part *)
(* of what he asked for.                                                   *)
Shows(S) ==
  /\ \A x \in S : x[1] \in Logged /\ x[2] \in log[x[1]].statuses
  /\ \A x, y \in S : x[1] = y[1] => x = y

Truthful(w, r) ==
  LET q == asked[w] IN
    /\ Shows(r.shown)
    /\ q.op = "get" /\ r.shown # {} => q.user \in Members
    /\ ~r.ok => q.op = "get" \/ r.shown = {}
    /\ r.ok =>
       /\ q.op = "send" => posted[w] # None /\ r.shown = {<<posted[w], "SENT">>}
       /\ q.op = "get" => q.user \in Members
       /\ q.op = "status" => q.msg \in Logged /\ q.status \in log[q.msg].statuses
       /\ q.op = "recall" => q.msg \in Logged /\ "RECALLED" \in log[q.msg].statuses

Replies == [ok : BOOLEAN, shown : SUBSET (Ids \X Statuses)]

Answer(w) ==
  /\ asked[w] # None /\ answer[w] = None
  /\ answer'[w] \in Replies /\ Truthful(w, answer'[w])
  /\ answer' = [answer EXCEPT ![w] = answer'[w]]
  /\ posted' = [posted EXCEPT ![w] = None]
  /\ UNCHANGED <<log, asked>>

(* The message is in the log, but its request is answered as if it had     *)
(* failed, or without a word of it.                                        *)
PostUnseen(w) ==
  /\ MayPost(w)
  /\ answer' = [answer EXCEPT ![w] = [ok |-> asked[w].op = "recall", shown |-> {}]]
  /\ \E i \in Ids : Append(w, i)
  /\ UNCHANGED <<asked, posted>>

(* Likewise a status that was set and is not reported. *)
MarkUnseen(w) ==
  /\ MayMark(w)
  /\ answer' = [answer EXCEPT ![w] = [ok |-> FALSE, shown |-> {}]]
  /\ Marks(w)
  /\ UNCHANGED <<asked, posted>>

(* The server dies: no open request is answered any more. *)
Forget ==
  /\ asked' = [w \in Workers |-> None]
  /\ posted' = [w \in Workers |-> None]
  /\ answer' = [w \in Workers |-> None]
  /\ UNCHANGED log

Next ==
  \/ \E w \in Workers : Ask(w) \/ Post(w) \/ Mark(w) \/ Answer(w)
                          \/ PostUnseen(w) \/ MarkUnseen(w)
  \/ Forget

Spec == Init /\ [][Next]_cvars
=============================================================================
