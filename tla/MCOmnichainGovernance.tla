----------------------- MODULE MCOmnichainGovernance -----------------------
(* Constants of the instances of OmnichainGovernance that TLC checks. *)
EXTENDS OmnichainGovernance

CONSTANTS alice, x, y, t1, t2, Bsc

Payload(actions, type) == [actions |-> actions, proposalType |-> type]

OneTimelock == [r \in Routes |-> t1]
MCDelays == [t \in TimelockIds |-> MINIMUM_DELAY]
MCNoDelayCalls == [a \in Actions |-> 0]

(* The executor rejects the second one. *)
TwoPayloads == {Payload(<<x>>, 0), Payload(<<y>>, 3)}
=============================================================================
