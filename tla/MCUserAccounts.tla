--------------------------- MODULE MCUserAccounts ---------------------------
(* Small instances of UserAccounts. *)
EXTENDS UserAccounts, TLC

Request(o, u, n, k) == [op |-> o, user |-> u, name |-> n, nick |-> k]

(* Connections are alike. *)
Alike == Permutations(Workers)

(* Registrations of two names, and everything that reads and writes the    *)
(* hash of the first account.  With two names nobody gets the number 3, so *)
(* that the friends of 3 are more than FriendsLimit = 1.                   *)
AccountRequests ==
  {Request("register", 1, "ann", "x"), Request("register", 1, "bob", None),
   Request("register", 1, None, "x"), Request("update", 1, None, "y"),
   Request("get", 1, None, None), Request("login", 1, "ann", None),
   Request("status", 1, None, None), Request("friends", 3, None, None)}
=============================================================================
