-------------------------- MODULE ProposalLifecycle --------------------------
(***************************************************************************)
(* What GovernorBravo promises about the life of a proposal, whatever it   *)
(* stores and computes: the phases state() reports and the only ways from  *)
(* one to the next.  A user's call moves one proposal; the passing of time *)
(* moves any number of them.  Defeated and Expired proposals can only be   *)
(* canceled, and nothing leaves Executed or Canceled.                      *)
(***************************************************************************)
CONSTANT Ids

VARIABLE phase   \* proposal id -> its phase, None before it is proposed

Phases == {"None", "Pending", "Active", "Canceled", "Defeated", "Succeeded",
           "Queued", "Expired", "Executed"}

(* What a call can do to one proposal. *)
CallSteps ==
    {<<"None", "Pending">>, <<"Succeeded", "Queued">>, <<"Queued", "Executed">>}
        \cup ((Phases \ {"None", "Executed", "Canceled"}) \X {"Canceled"})

(* What the passing of time can do. *)
ClockSteps ==
    {<<"Pending", "Active">>, <<"Active", "Defeated">>, <<"Active", "Succeeded">>,
     <<"Queued", "Expired">>}

Init == phase = [id \in Ids |-> "None"]

Call(id) ==
    /\ <<phase[id], phase'[id]>> \in CallSteps
    /\ phase' = [phase EXCEPT ![id] = phase'[id]]

Clock ==
    /\ phase' = [id \in Ids |-> phase'[id]]
    /\ \A id \in Ids :
          phase'[id] = phase[id] \/ <<phase[id], phase'[id]>> \in ClockSteps

Next == Clock \/ \E id \in Ids : Call(id)

Spec == Init /\ [][Next]_phase
=============================================================================
