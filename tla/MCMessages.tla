----------------------------- MODULE MCMessages ------------------------------
(* Small instances of Messages: ann and bob talk, eve is not a member and  *)
(* zed has no account.                                                     *)
EXTENDS Messages, TLC

CONSTANTS ann, bob, eve, zed

Request(o, u, i, s) ==
  [op |-> o, user |-> u, msg |-> i, kind |-> "TEXT", mentions |-> {},
   status |-> s, limit |-> 2, since |-> 0, until |-> 0]
Send(u, S) == [Request("send", u, 0, "SENT") EXCEPT !.mentions = S]
Get(u, i) == Request("get", u, i, "SENT")
Show(u, i, s) == Request("status", u, i, s)
Recall(u, i) == Request("recall", u, i, "SENT")
Summary == Request("summary", bob, 0, "SENT")

(* The chat's messages are rows 9, 10, 11 ... of the table: among their    *)
(* strings "10" and "11" come before "9".                                  *)
RowId(i) == i + 8
TextOrder(i, j) ==
  LET tens(n) == IF n < 10 THEN n ELSE n \div 10
      rest(n) == IF n < 10 THEN -1 ELSE n % 10
  IN \/ tens(RowId(i)) < tens(RowId(j))
     \/ tens(RowId(i)) = tens(RowId(j)) /\ rest(RowId(i)) < rest(RowId(j))

(* Connections are alike. *)
Alike == Permutations(Workers)

(* Every operation, one at a time. *)
AloneRequests ==
  {Send(ann, {bob}), Get(bob, 0), Get(bob, 2), Show(bob, 1, "READ"),
   Recall(ann, 1), Summary}

(* Two connections beside failures: a stranger, mentions of a member and   *)
(* of nobody, and a message recalled by its sender, or marked so by the    *)
(* other member (UpdateMessageStatus takes any status from him).           *)
RaceRequests ==
  {Send(ann, {bob}), Send(bob, {zed}), Get(bob, 0), Get(eve, 0), Recall(ann, 1),
   Show(bob, 1, "RECALLED")}

(* A history that is read again after its timeline has gone. *)
PageRequests == {Send(ann, {}), Get(bob, 0)}
=============================================================================
