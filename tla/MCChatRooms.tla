---------------------------- MODULE MCChatRooms -----------------------------
(* Small instances of ChatRooms: ann opens one room. *)
EXTENDS ChatRooms, TLC

CONSTANT r1

Request(o, u, S, x, n) ==
  [op |-> o, user |-> u, room |-> r1, targets |-> S, role |-> x, name |-> n]
Plain(o, u) == Request(o, u, {}, "MEMBER", None)
Open(S) == Request("create", "ann", S, "MEMBER", None)
Add(u, S) == Request("add", u, S, "MEMBER", None)
Remove(u, S) == Request("remove", u, S, "MEMBER", None)
Promote(u, v, x) == Request("role", u, {v}, x, None)
Rename(u) == Request("update", u, {}, "MEMBER", "new")

(* Connections are alike. *)
Alike == Permutations(Workers)

(* Every operation, one at a time; eve has no account. *)
AloneRequests ==
  {Open({"bob"}), Open({"eve"}), Request("create", "eve", {}, "MEMBER", None),
   Plain("get", "bob"), Plain("validate", "ann"), Plain("members", "ann"),
   Plain("list", "bob"), Rename("ann"), Rename("bob"), Plain("update", "ann"),
   Add("ann", {"ann", "bob"}), Add("ann", {"eve"}),
   Remove("ann", {"ann", "bob"}), Remove("bob", {"ann"}),
   Promote("ann", "bob", "ADMIN"), Promote("ann", "bob", "UNKNOWN"),
   Plain("leave", "bob"), Plain("leave", "ann"), Plain("dissolve", "ann")}

(* Two connections: membership checks beside changes of the members. *)
RaceRequests ==
  {Open({"bob"}), Plain("leave", "bob"), Add("ann", {"bob"}),
   Promote("ann", "bob", "ADMIN"), Plain("validate", "bob")}

(* ann's room, and what takes its owner away. *)
OwnerRequests ==
  {Open({"bob"}), Plain("validate", "bob"), Add("ann", {"ann"})}
=============================================================================
