--------------------------- MODULE PrivateRefusals ---------------------------
(* PrivateChats with a history of the failures of each request, to tell a  *)
(* refusal that a failing statement explains from one that it does not.    *)
EXTENDS PrivateChats

VARIABLE hurt \* history: workers whose latest request met an SQL error

HurtInit == Init /\ hurt = {}

HurtNext ==
  \/ \E w \in Workers : Arrival(w) /\ hurt' = hurt \ {w}
  \/ \E w \in Workers : Step(w) /\ UNCHANGED hurt
  \/ \E w \in Workers : SqlError(w) /\ hurt' = hurt \cup {w}
  \/ (Crash \/ Expiry) /\ UNCHANGED hurt

HurtSpec == HurtInit /\ [][HurtNext]_<<vars, hurt>>

(* CreatePrivateChat between two registered users is refused only when a   *)
(* statement of its own failed or the chat exists: the connection that     *)
(* loses the race to insert it.                                            *)
RefusedOnlyIfChatExists ==
  \A w \in Workers \ hurt :
    /\ reply[w] = Failed
    /\ req[w].op = "create"
    /\ {req[w].user, req[w].other} \subseteq Registered
    => \E c \in ChatIds : privateChats[c] = Wanted(w)
=============================================================================
