-------------------- MODULE MCOmnichainGovernanceExecutor --------------------
(* One instance of OmnichainGovernanceExecutor with two scenarios, told apart *)
(* by the inbox: the constraint keeps the choices of one out of the other.    *)
EXTENDS OmnichainGovernanceExecutor

CONSTANTS alice, bob, x, y, z, t1, t2, Bsc, Other

Payload(actions, type) == [actions |-> actions, proposalType |-> type]
Message(id, payload) == [pId |-> id, payload |-> payload, sentAt |-> 0]

MCDelays == [t \in TimelockIds |-> MINIMUM_DELAY]
TwoTimelocks == [r \in Routes |-> IF r = 0 THEN t1 ELSE t2]
OtherTimelock == [r \in Routes |-> t2]
TwoChoices == {TwoTimelocks, OtherTimelock}

(* x sets the longest delay, y one that is out of bounds, z none.             *)
MCDelayCalls == [a \in Actions |->
    CASE a = x -> MAXIMUM_DELAY [] a = y -> MAXIMUM_DELAY + 1 [] a = z -> 0]

MCPayloads == {Payload(<<x>>, 0), Payload(<<y, x>>, 0), Payload(<<x>>, 3), Payload(<<x>>, 1),
               Payload(<<y>>, 1), Payload(<<z>>, 0), Payload(<<>>, 1)}

(* Queue: two proposals of the same action, whose route changes its timelock, *)
(* which changes its admin.                                                   *)
Pair == {<<Message(1, Payload(<<z>>, 0)), Message(2, Payload(<<z>>, 0))>>}

QueueScenario ==
    /\ <<guardian, srcChainId, trusted, maxDailyReceiveLimit>> = <<alice, Bsc, TRUE, 9>>
    /\ \A t \in TimelockIds :
          \A tx \in timelocks[t].queuedTransactions : tx.action = z
    /\ now < MaxTime

(* Delays: a message has a type the executor rejects, or no action, an id     *)
(* comes twice, and three messages of two commands reach the daily limit; the *)
(* timelocks stay.                                                            *)
Mixed == {<<Message(1, Payload(<<x>>, 0)), Message(2, Payload(<<x>>, 1)),
            Message(1, Payload(<<y, x>>, 0))>>,
          <<Message(1, Payload(<<x>>, 3)), Message(2, Payload(<<y>>, 1)),
            Message(3, Payload(<<x>>, 1))>>,
          <<Message(1, Payload(<<>>, 1)), Message(2, Payload(<<x>>, 1))>>,
          [k \in 1 .. 3 |-> Message(k, Payload(<<y, x>>, 0))]}

DelayScenario ==
    /\ maxDailyReceiveLimit # 9
    /\ proposalTimelocks = TwoTimelocks
    /\ \A t \in TimelockIds : timelocks[t].pendingAdmin = ZeroAddress

MCInboxes == Pair \cup Mixed
Scenario == IF inbox \in Pair THEN QueueScenario ELSE DelayScenario
=============================================================================
