---------------------- MODULE MCOmnichainProposalSender ----------------------
(* Constants of the instances of OmnichainProposalSender that TLC checks. *)
EXTENDS OmnichainProposalSender

CONSTANTS x, y, Bsc, Eth

Payload(actions) == [actions |-> actions, proposalType |-> 0]

TwoPayloads == {Payload(<<x>>), Payload(<<x, y>>)}
=============================================================================
