---------------------------- MODULE RemoteProposal ----------------------------
(***************************************************************************)
(* What the two ends of the bridge promise together about a proposal for a *)
(* remote chain: where it can be, and the only ways from one place to the  *)
(* next.  A call moves one proposal by one step; nothing is in two places, *)
(* nothing is sent or received twice, nothing that ended starts again.     *)
(***************************************************************************)
CONSTANT Ids

VARIABLE place   \* proposal id -> where it is

Places ==
    {"None",        \* not proposed yet
     "Stored",      \* the send failed, its value is held by the sender
     "Withdrawn",   \* the value was taken back instead of a retry
     "InTransit",   \* with the messaging layer
     "Failed",      \* delivered, not accepted; can be retried
     "Lost",        \* removed from the messaging layer by the receiver's owner
     "Queued", "Executed", "Canceled"}

Steps ==
    {<<"None", "InTransit">>, <<"None", "Stored">>,
     <<"Stored", "InTransit">>, <<"Stored", "Withdrawn">>,
     <<"InTransit", "Queued">>, <<"InTransit", "Failed">>, <<"InTransit", "Lost">>,
     <<"Failed", "Queued">>,
     <<"Queued", "Executed">>, <<"Queued", "Canceled">>}

Init == place = [id \in Ids |-> "None"]

Move(id) ==
    /\ <<place[id], place'[id]>> \in Steps
    /\ place' = [place EXCEPT ![id] = place'[id]]

Next == \E id \in Ids : Move(id)

Spec == Init /\ [][Next]_place
=============================================================================
