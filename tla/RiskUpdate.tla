------------------------------ MODULE RiskUpdate ------------------------------
(***************************************************************************)
(* What the risk stewards promise about an update, on whichever chains     *)
(* they hold it: the places it may be in, and the steps between them.      *)
(* It is applied at most once, and never after it was rejected, expired    *)
(* or applied elsewhere.                                                   *)
(***************************************************************************)
CONSTANT Ids

VARIABLE place       \* id -> where the update is

(* Executed, Rejected and Expired are on the chain of the oracle; the places  *)
(* that begin with Remote are on the chain the update was forwarded to.      *)
Steps == {<<"Published", "Pending">>, <<"Published", "Executed">>, <<"Published", "Sent">>,
          <<"Pending", "Executed">>, <<"Pending", "Rejected">>,
          <<"Sent", "RemotePending">>, <<"RemotePending", "RemoteExecuted">>,
          <<"RemotePending", "RemoteRejected">>}

Init == place = [id \in Ids |-> "Unpublished"]

(* The oracle publishes any number of updates at once. *)
Publish ==
    \A id \in Ids : place'[id] # place[id] =>
                       place[id] = "Unpublished" /\ place'[id] = "Published"

(* A call moves one update.  A new one may end one that waited too long.     *)
Move(id) ==
    /\ <<place[id], place'[id]>> \in Steps
    /\ \E other \in Ids :
          /\ \A rest \in Ids \ {id, other} : place'[rest] = place[rest]
          /\ \/ place'[other] = place[other]
             \/ other = id
             \/ place[id] = "Published" /\ place[other] = "Pending" /\ place'[other] = "Expired"

Next == Publish \/ \E id \in Ids : Move(id)

Spec == Init /\ [][Next]_place
=============================================================================
