--------------------------- MODULE MCPrivateChats ---------------------------
(* Small instances of PrivateChats and PrivateRefusals. *)
EXTENDS PrivateRefusals, TLC

CONSTANTS c1, c2

Request(o, u, v, c) == [op |-> o, user |-> u, other |-> v, chat |-> c]
Create(u, v) == Request("create", u, v, c1)

(* Connections are alike. *)
Alike == Permutations(Workers)

(* Both directions of one pair and every reader of its keys; 3 is a        *)
(* stranger without an account.                                            *)
RaceRequests ==
  {Create(1, 2), Create(2, 1), Create(3, 1), Request("get", 1, 1, c1),
   Request("get", 3, 3, c1), Request("validate", 2, 2, c1),
   Request("members", 1, 1, c1), Request("list", 2, 2, c1)}

MemberRequests ==
  {Create(1, 2), Request("validate", 1, 1, c1), Request("validate", 2, 2, c1)}

=============================================================================
