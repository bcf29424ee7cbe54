--------------------------- MODULE MCUserService ----------------------------
(* Small instances of UserService. *)
EXTENDS UserService, TLC

CONSTANTS t1, t2

Request(o, u, t, s, p) ==
  [op |-> o, user |-> u, token |-> t, status |-> s, password |-> p]
LoginAs(u) == Request("login", u, t1, "UNKNOWN", "right")
LogoutOf(u, t) == Request("logout", u, t, "UNKNOWN", "right")
BeatOf(u, t) == Request("heartbeat", u, t, "UNKNOWN", "right")
Show(u, s) == Request("status", u, t1, s, "right")

(* Connections are alike. *)
Alike == Permutations(Workers)

(* Logins of two users in parallel. *)
SessionRequests ==
  {LoginAs("ann"), LoginAs("bob"), LogoutOf("ann", t1), BeatOf("ann", t1)}

(* One connection at a time, beside the checker; eve has no account. *)
PresenceRequests ==
  {LoginAs("ann"), Request("login", "ann", t1, "UNKNOWN", "wrong"),
   LogoutOf("ann", t1), LogoutOf("ann", t2), BeatOf("ann", t1),
   Show("ann", "BUSY"), Show("ann", "OFFLINE"), Show("eve", "UNKNOWN")}

(* Nothing that takes a user offline but the checker. *)
SilentRequests == {LoginAs("ann"), BeatOf("ann", t1), Show("ann", "BUSY")}
=============================================================================
