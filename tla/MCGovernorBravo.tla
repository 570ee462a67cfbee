--------------------------- MODULE MCGovernorBravo ---------------------------
(* One instance of GovernorBravo with four scenarios, told apart by the       *)
(* votes: the constraint keeps the choices of one out of the others.          *)
EXTENDS GovernorBravo

CONSTANTS alice, bob, h, x, y, z, FastTrack

MCDelays == [r \in Routes |-> MINIMUM_DELAY]

(* x sets the longest delay, y makes an external call, z sets a delay that is *)
(* out of bounds, h offers the timelock to bob.                               *)
MCDelayCalls == [a \in Actions |->
    CASE a = x -> MAXIMUM_DELAY [] a \in {h, y} -> 0 [] a = z -> MAXIMUM_DELAY + 1]
MCAdminCalls == [a \in {h} |-> bob]
MCActionLists == {<<y>>, <<y, x>>, <<z>>, <<h>>}

Params(minPeriod, maxPeriod) ==
    [minVotingPeriod |-> minPeriod, maxVotingPeriod |-> maxPeriod,
     minVotingDelay |-> 1, maxVotingDelay |-> 2]
Config(delay, period, threshold) ==
    [r \in Routes |-> [votingDelay |-> delay, votingPeriod |-> period,
                       proposalThreshold |-> threshold]]

(* What bob can vote with; alice carries a vote alone.                        *)
Votes(bobVotes(_)) ==
    [a \in Accounts |-> [b \in Blocks |-> IF a = alice THEN 2 ELSE bobVotes(b)]]

Proposed == {p \in {proposals[id] : id \in ProposalIds} : p.proposer # ZeroAddress}

Cast(a) == {r.support : r \in {ballot \in {receipts[id][a] : id \in ProposalIds} :
                                 ballot.hasVoted}}

(* The old admin leaves nothing behind in the timelocks.                      *)
CleanHandOver ==
    initialProposalId = 0 => \A r \in Routes : timelocks[r].queuedTransactions = {}

(* Nothing is reconfigured, and deployment is over in block 1.               *)
Settled ==
    /\ initialProposalId = 0 => block = 1
    /\ <<admin, pendingAdmin>> = <<alice, ZeroAddress>>
    /\ guardian \in {ZeroAddress, alice}
    /\ proposalMaxOperations \in {0, 10}
    /\ initialProposalId \in {0, 1}
    /\ validationParams \in {NoValidationParams, Params(1, 2)}
    /\ proposalConfigs \in {Config(0, 0, 0), Config(1, 1, 1)}

(* Lifecycle: bob can propose, and falls under the threshold later. Alice     *)
(* votes, or bob does, without a quorum.                                      *)
LifecycleVotes == Votes(LAMBDA b : IF b <= 2 THEN 1 ELSE 0)
LifecycleScenario ==
    /\ Settled
    /\ CleanHandOver
    /\ \A p \in Proposed : p.actions = <<y>> /\ p.proposalType = NORMAL
    /\ Cast(alice) \subseteq {Against, For} /\ Cast(bob) \subseteq {For}
    /\ Cast(alice) = {} \/ Cast(bob) = {}
    /\ now <= 4 /\ block <= 6

(* Delays: actions that move the delay, or fail to, on both routes, proposed  *)
(* by alice, then by bob, and voted for by alice.                             *)
DelayVotes == Votes(LAMBDA b : 2)
DelayScenario ==
    /\ Settled
    /\ CleanHandOver
    /\ \A id \in ProposalIds : proposals[id].proposer =
          (IF ~ValidId(id) THEN ZeroAddress ELSE IF id = 2 THEN alice ELSE bob)
    /\ \A p \in Proposed : p.startBlock = 2 /\ p.actions \in {<<y, x>>, <<z>>}
    /\ Cast(alice) \subseteq {For} /\ Cast(bob) = {}

(* Administration: parameters that admit only long, or only short, periods,   *)
(* one that is invalid, configurations on both sides of each bound. Votes     *)
(* leave bob between the snapshot and the vote.                               *)
AdminParams == {Params(0, 2), Params(1, 2), Params(2, 3)}
AdminConfigs == {Config(1, 0, 1), Config(1, 1, 1), Config(2, 2, 2), Config(1, 2, 3)}
AdminVotes == Votes(LAMBDA b : IF b <= 3 THEN 1 ELSE 0)
AdminScenario ==
    /\ CleanHandOver
    /\ proposalMaxOperations \in {0, 1, 10}
    /\ \A p \in Proposed : p.actions = <<y>> /\ p.proposalType = NORMAL
    /\ block <= 5 /\ proposalCount <= 2
    /\ now = 1

(* Hand-over: the old admin may leave a transaction in the timelock. Alice    *)
(* proposes to hand it to bob, who may first propose something else.          *)
HandOverVotes == Votes(LAMBDA b : IF b <= 1 THEN 1 ELSE 0)
HandOverScenario ==
    /\ Settled
    /\ timelocks[FastTrack].queuedTransactions = {}
    /\ initialProposalId = 0 =>
          timelocks[NORMAL].queuedTransactions \subseteq {Tx(y, 2), Tx(y, 3)}
    /\ \A tx \in timelocks[NORMAL].queuedTransactions : tx.action # z /\ tx.eta <= 3
    /\ \A p \in Proposed :
          /\ p.proposalType = NORMAL /\ p.startBlock = 3
          /\ p.actions = IF p.proposer = alice THEN <<h>> ELSE <<y>>
    /\ Cast(alice) \subseteq {For} /\ Cast(bob) = {}
    /\ block <= 5 => now <= 2
    /\ now <= 3

MCVotes == {LifecycleVotes, DelayVotes, AdminVotes, HandOverVotes}
Scenario ==
    CASE priorVotes = LifecycleVotes -> LifecycleScenario
      [] priorVotes = DelayVotes     -> DelayScenario
      [] priorVotes = AdminVotes     -> AdminScenario
      [] priorVotes = HandOverVotes  -> HandOverScenario
=============================================================================
