------------------------- MODULE GovernorBravoProofs -------------------------
(***************************************************************************)
(* What GovernorBravo keeps for all accounts, actions, routes, delays,     *)
(* vote histories and bounds.                                              *)
(***************************************************************************)
EXTENDS GovernorBravo, TLAPS

-----------------------------------------------------------------------------
(* Type correctness *)

LEMMA Constants ==
    /\ Etas \subseteq Nat /\ 0 \in Etas
    /\ Times \subseteq Nat /\ 0 \in Times
    /\ Blocks \subseteq Nat
    /\ ProposalIds \subseteq Nat \ {0}
    /\ Accounts \subseteq Addresses /\ Governor \in Addresses
BY GovernorAssumption, TimelockAssumption DEF Etas, Times, Blocks, ProposalIds, Addresses

LEMMA ActionsAreActions ==
    ASSUME TypeOK, NEW id \in ProposalIds
    PROVE  /\ proposals[id].actions \in Seq(Actions)
           /\ \A i \in DOMAIN proposals[id].actions : proposals[id].actions[i] \in Actions
<1>1. proposals[id].actions \in ActionLists \cup {<<>>}
  BY DEF TypeOK, Proposal
<1>2. <<>> \in Seq(Actions)
  OBVIOUS
<1>3. proposals[id].actions \in Seq(Actions)
  BY <1>1, <1>2, GovernorAssumption
<1> QED BY <1>3

(* The changes that calls make to a stored proposal.                         *)
LEMMA ProposalUpdates ==
    ASSUME NEW p \in Proposal
    PROVE  /\ [p EXCEPT !.canceled = TRUE] \in Proposal
           /\ [p EXCEPT !.executed = TRUE] \in Proposal
           /\ \A eta \in Etas : [p EXCEPT !.eta = eta] \in Proposal
           /\ \A support \in Support, votes \in Nat : WithVotes(p, support, votes) \in Proposal
<1>1. [p EXCEPT !.canceled = TRUE] \in Proposal
  BY DEF Proposal
<1>2. [p EXCEPT !.executed = TRUE] \in Proposal
  BY DEF Proposal
<1>3. \A eta \in Etas : [p EXCEPT !.eta = eta] \in Proposal
  BY DEF Proposal
<1>4. ASSUME NEW votes \in Nat
      PROVE  /\ [p EXCEPT !.forVotes = @ + votes] \in Proposal
             /\ [p EXCEPT !.againstVotes = @ + votes] \in Proposal
             /\ [p EXCEPT !.abstainVotes = @ + votes] \in Proposal
  <2>1. p.forVotes + votes \in Nat /\ p.againstVotes + votes \in Nat
        /\ p.abstainVotes + votes \in Nat
    BY DEF Proposal
  <2> QED BY <2>1 DEF Proposal
<1>5. \A support \in Support, votes \in Nat : WithVotes(p, support, votes) \in Proposal
  BY <1>4 DEF WithVotes, Support, For, Against, Abstain
<1> QED BY <1>1, <1>2, <1>3, <1>5

LEMMA TxsAreTransactions ==
    ASSUME TypeOK, NEW id \in ProposalIds, NEW eta \in Etas
    PROVE  TxsOf(id, eta) \subseteq Transactions
<1> QED BY ActionsAreActions DEF TxsOf, Tx, Transactions

LEMMA TimelockOpsTypes ==
    ASSUME NEW tl \in TimelockType(Addresses, Transactions)
    PROVE  /\ \A txs \in SUBSET Transactions :
                 /\ WithQueued(tl, txs) \in TimelockType(Addresses, Transactions)
                 /\ WithoutQueued(tl, txs) \in TimelockType(Addresses, Transactions)
           /\ \A delay \in MINIMUM_DELAY .. MAXIMUM_DELAY :
                 WithDelay(tl, delay) \in TimelockType(Addresses, Transactions)
           /\ \A account \in Addresses :
                 WithAcceptedAdmin(tl, account) \in TimelockType(Addresses, Transactions)
           /\ \A account \in Addresses \cup {ZeroAddress} :
                 WithPendingAdmin(tl, account) \in TimelockType(Addresses, Transactions)
BY DEF TimelockType, WithQueued, WithoutQueued, WithDelay, WithAcceptedAdmin, WithPendingAdmin

(* The delay after an execution is one that the timelock accepts.            *)
LEMMA DelaysAfterAreValid ==
    ASSUME NEW actions \in Seq(Actions), NEW delay \in MINIMUM_DELAY .. MAXIMUM_DELAY,
           \A i \in DOMAIN actions :
              DelayCalls[actions[i]] # 0 => ValidDelay(DelayCalls[actions[i]])
    PROVE  DelaysAfter(actions, delay) \subseteq MINIMUM_DELAY .. MAXIMUM_DELAY
<1>1. \A i \in DOMAIN actions : actions[i] \in Actions
  OBVIOUS
<1>2. \A i \in DOMAIN actions : DelayCalls[actions[i]] \in Nat
  BY <1>1, GovernorAssumption
<1>3. \A i \in DOMAIN actions :
         DelayCalls[actions[i]] # 0 => DelayCalls[actions[i]] \in MINIMUM_DELAY .. MAXIMUM_DELAY
  BY <1>2, TimelockAssumption DEF ValidDelay
<1> QED BY <1>3 DEF DelaysAfter

LEMMA PendingAdminsAfterAreAddresses ==
    ASSUME NEW actions, NEW account \in Addresses \cup {ZeroAddress}
    PROVE  PendingAdminsAfter(actions, account) \subseteq Addresses \cup {ZeroAddress}
BY GovernorAssumption DEF PendingAdminsAfter

(* The calls of a list change the delay and the pending admin, and nothing   *)
(* else of the timelock.                                                     *)
LEMMA AfterCallsChange ==
    ASSUME NEW tl \in TimelockType(Addresses, Transactions), NEW actions \in Seq(Actions),
           \A i \in DOMAIN actions :
              DelayCalls[actions[i]] # 0 => ValidDelay(DelayCalls[actions[i]]),
           NEW new \in AfterCalls(tl, actions)
    PROVE  /\ new \in TimelockType(Addresses, Transactions)
           /\ new.admin = tl.admin
           /\ new.queuedTransactions = tl.queuedTransactions
           /\ new.pendingAdmin \in PendingAdminsAfter(actions, tl.pendingAdmin)
<1>1. PICK delay \in DelaysAfter(actions, tl.delay),
           account \in PendingAdminsAfter(actions, tl.pendingAdmin) :
         new = WithPendingAdmin(WithDelay(tl, delay), account)
  BY DEF AfterCalls
<1>2. delay \in MINIMUM_DELAY .. MAXIMUM_DELAY
  <2>1. tl.delay \in MINIMUM_DELAY .. MAXIMUM_DELAY
    BY DEF TimelockType
  <2> QED BY <2>1, DelaysAfterAreValid
<1>3. account \in Addresses \cup {ZeroAddress}
  <2>1. tl.pendingAdmin \in Addresses \cup {ZeroAddress}
    BY DEF TimelockType
  <2> QED BY <2>1, PendingAdminsAfterAreAddresses
<1>4. WithDelay(tl, delay) \in TimelockType(Addresses, Transactions)
  BY <1>2, TimelockOpsTypes
<1>5. new \in TimelockType(Addresses, Transactions)
  BY <1>1, <1>3, <1>4, TimelockOpsTypes
<1> QED BY <1>1, <1>5 DEF WithPendingAdmin, WithDelay, TimelockType

LEMMA InitTypeOK == Init => TypeOK
<1> SUFFICES ASSUME Init PROVE TypeOK
  OBVIOUS
<1>1. proposals \in [ProposalIds -> Proposal]
  BY Constants, GovernorAssumption DEF Init, NoProposal, Proposal
<1>2. timelocks \in [Routes -> TimelockType(Addresses, Transactions)]
  BY Constants, GovernorAssumption
     DEF Init, TimelockType, WithPendingAdmin, NewTimelock
<1>3. receipts \in [ProposalIds -> [Accounts -> Receipt]]
  BY DEF Init, NoReceipt, Receipt, Support, Against
<1>4. proposalConfigs \in [Routes -> ProposalConfig] /\ validationParams \in ValidationParams
  BY DEF Init, NoConfig, ProposalConfig, NoValidationParams, ValidationParams
<1>5. block \in Blocks \ {0} /\ now \in Times \ {0}
  BY GovernorAssumption DEF Init, Blocks, Times
<1>6. history \in [ProposalIds -> [queuedAt : Times, executedAt : Times]]
  BY Constants DEF Init
<1>7. priorVotes \in [Accounts -> [Blocks -> Nat]]
  BY GovernorAssumption DEF Init
<1> QED
  BY <1>1, <1>2, <1>3, <1>4, <1>5, <1>6, <1>7, GovernorAssumption DEF Init, TypeOK

LEMMA AdminTypeOK == TypeOK /\ AdminNext => TypeOK'
<1> SUFFICES ASSUME TypeOK, NEW caller \in Accounts,
                    \/ \E params \in ValidationChoices, configs \in ConfigChoices :
                          Initialize(caller, params, configs)
                    \/ \E alphaCount \in AlphaCounts : Initiate(caller, alphaCount)
                    \/ \E params \in ValidationChoices : SetValidationParams(caller, params)
                    \/ \E configs \in ConfigChoices : SetProposalConfigs(caller, configs)
                    \/ \E n \in MaxOperationsChoices : SetProposalMaxOperations(caller, n)
                    \/ \E account \in GuardianChoices : SetGuardian(caller, account)
                    \/ \E account \in AdminChoices : SetPendingAdmin(caller, account)
                    \/ AcceptAdmin(caller)
             PROVE  TypeOK'
  BY DEF AdminNext
<1> USE DEF adminVars, configVars, proposalVars, chainVars
<1>1. ASSUME NEW params \in ValidationChoices, NEW configs \in ConfigChoices,
             Initialize(caller, params, configs)
      PROVE  TypeOK'
  BY <1>1, GovernorAssumption DEF Initialize, TypeOK
<1>2. ASSUME NEW alphaCount \in AlphaCounts, Initiate(caller, alphaCount) PROVE TypeOK'
  <2>1. timelocks' \in [Routes -> TimelockType(Addresses, Transactions)]
    BY <1>2, TimelockOpsTypes, Constants DEF Initiate, HandedOver, TypeOK
  <2>2. inherited' \in [Routes -> SUBSET Transactions]
    BY <1>2 DEF Initiate, TypeOK, TimelockType
  <2> QED BY <1>2, <2>1, <2>2, GovernorAssumption DEF Initiate, TypeOK
<1>3. ASSUME NEW params \in ValidationChoices, SetValidationParams(caller, params)
      PROVE  TypeOK'
  BY <1>3, GovernorAssumption DEF SetValidationParams, TypeOK
<1>4. ASSUME NEW configs \in ConfigChoices, SetProposalConfigs(caller, configs)
      PROVE  TypeOK'
  BY <1>4, GovernorAssumption DEF SetProposalConfigs, TypeOK
<1>5. ASSUME NEW n \in MaxOperationsChoices, SetProposalMaxOperations(caller, n)
      PROVE  TypeOK'
  BY <1>5, GovernorAssumption DEF SetProposalMaxOperations, TypeOK
<1>6. ASSUME NEW account \in GuardianChoices, SetGuardian(caller, account) PROVE TypeOK'
  BY <1>6, GovernorAssumption DEF SetGuardian, TypeOK
<1>7. ASSUME NEW account \in AdminChoices, SetPendingAdmin(caller, account) PROVE TypeOK'
  BY <1>7, GovernorAssumption DEF SetPendingAdmin, TypeOK
<1>8. CASE AcceptAdmin(caller)
  BY <1>8, GovernorAssumption DEF AcceptAdmin, TypeOK
<1> QED BY <1>1, <1>2, <1>3, <1>4, <1>5, <1>6, <1>7, <1>8

LEMMA ProposeTypeOK ==
    ASSUME TypeOK, NEW proposer \in Accounts, NEW route \in Routes,
           NEW actions \in ActionLists, Propose(proposer, route, actions)
    PROVE  TypeOK'
<1> DEFINE id == proposalCount + 1
           startBlock == block + proposalConfigs[route].votingDelay
           endBlock == startBlock + proposalConfigs[route].votingPeriod
           new == [NoProposal(route) EXCEPT
                     !.proposer = proposer, !.actions = actions,
                     !.startBlock = startBlock, !.endBlock = endBlock]
<1>1. id \in ProposalIds
  <2>1. proposalCount \in Nat /\ proposalCount < MaxProposals
    BY DEF Propose, TypeOK
  <2> QED BY <2>1, GovernorAssumption DEF ProposalIds
<1>2. startBlock \in Nat /\ endBlock \in Nat
  BY Constants DEF TypeOK, ProposalConfig
<1>3. new \in Proposal
  BY <1>2, Constants DEF NoProposal, Proposal
<1>4. proposals' = [proposals EXCEPT ![id] = new]
  BY DEF Propose
<1>5. proposals' \in [ProposalIds -> Proposal]
  BY <1>3, <1>4 DEF TypeOK
<1>6. latestProposalIds' \in [Accounts -> {0} \cup ProposalIds] /\ proposalCount' \in Nat
  BY <1>1 DEF Propose, TypeOK
<1> QED
  BY <1>5, <1>6 DEF Propose, TypeOK, adminVars, configVars, chainVars

LEMMA CastVoteTypeOK ==
    ASSUME TypeOK, NEW voter \in Accounts, NEW id \in ProposalIds,
           NEW support \in Support, CastVote(voter, id, support)
    PROVE  TypeOK'
<1>1. proposals[id].startBlock \in Blocks
  <2>1. proposals[id].startBlock \in Nat /\ block \in 0 .. MaxBlock
    BY DEF TypeOK, Proposal, Blocks
  <2>2. proposals[id].startBlock < block
    BY <2>1 DEF CastVote, VotingIsOpen, InState, State
  <2> QED BY <2>1, <2>2, GovernorAssumption DEF Blocks
<1>2. VotingPower(voter, id) \in Nat
  BY <1>1 DEF VotingPower, TypeOK
<1>3. WithVotes(proposals[id], support, VotingPower(voter, id)) \in Proposal
  BY <1>2, ProposalUpdates DEF TypeOK
<1>4. proposals' \in [ProposalIds -> Proposal]
  BY <1>3 DEF CastVote, TypeOK
<1>5. receipts' \in [ProposalIds -> [Accounts -> Receipt]]
  BY <1>2 DEF CastVote, TypeOK, Receipt
<1> QED
  BY <1>4, <1>5 DEF CastVote, TypeOK, adminVars, configVars, chainVars

LEMMA QueueTypeOK ==
    ASSUME TypeOK, NEW id \in ProposalIds, Queue(id)
    PROVE  TypeOK'
<1> DEFINE eta == now + Timelock(id).delay
<1>1. proposals[id].proposalType \in Routes
  BY DEF TypeOK, Proposal
<1>2. Timelock(id) \in TimelockType(Addresses, Transactions)
  BY <1>1 DEF Timelock, TypeOK
<1>3. eta \in Etas
  <2>1. now \in 0 .. MaxTime /\ Timelock(id).delay \in MINIMUM_DELAY .. MAXIMUM_DELAY
    BY <1>2 DEF TypeOK, Times, TimelockType
  <2> QED BY <2>1, GovernorAssumption, TimelockAssumption DEF Etas
<1>4. TxsOf(id, eta) \in SUBSET Transactions
  BY <1>3, TxsAreTransactions
<1>5. timelocks' \in [Routes -> TimelockType(Addresses, Transactions)]
  BY <1>1, <1>4, TimelockOpsTypes DEF Queue, TypeOK
<1>6. proposals' \in [ProposalIds -> Proposal]
  BY <1>3, ProposalUpdates DEF Queue, TypeOK
<1>7. history' \in [ProposalIds -> [queuedAt : Times, executedAt : Times]]
  BY DEF Queue, TypeOK
<1> QED
  BY <1>5, <1>6, <1>7 DEF Queue, TypeOK, adminVars, configVars, chainVars

LEMMA ExecutedCallsSucceed ==
    ASSUME NEW id \in ProposalIds, Execute(id), NEW i \in DOMAIN proposals[id].actions,
           DelayCalls[proposals[id].actions[i]] # 0
    PROVE  ValidDelay(DelayCalls[proposals[id].actions[i]])
<1> DEFINE p == proposals[id]
<1>1. Tx(p.actions[i], p.eta) \in TxsOf(id, p.eta)
  BY DEF TxsOf
<1>2. Tx(p.actions[i], p.eta).action = p.actions[i]
  BY DEF Tx
<1> QED BY <1>1, <1>2 DEF Execute, CallsSucceed

LEMMA ExecuteTypeOK ==
    ASSUME TypeOK, NEW id \in ProposalIds, Execute(id)
    PROVE  TypeOK'
<1> DEFINE p == proposals[id]
           txs == TxsOf(id, p.eta)
<1>1. p \in Proposal /\ p.proposalType \in Routes /\ p.eta \in Etas /\ p.actions \in Seq(Actions)
  BY ActionsAreActions DEF TypeOK, Proposal
<1>2. Timelock(id) \in TimelockType(Addresses, Transactions)
  BY <1>1 DEF Timelock, TypeOK
<1>3. txs \in SUBSET Transactions
  BY <1>1, TxsAreTransactions
<1>4. WithoutQueued(Timelock(id), txs) \in TimelockType(Addresses, Transactions)
  BY <1>2, <1>3, TimelockOpsTypes
<1>5. PICK tl \in AfterCalls(WithoutQueued(Timelock(id), txs), p.actions) :
         timelocks' = [timelocks EXCEPT ![p.proposalType] = tl]
  BY DEF Execute
<1>6. tl \in TimelockType(Addresses, Transactions)
  BY <1>1, <1>4, ExecutedCallsSucceed, AfterCallsChange
<1>9. timelocks' \in [Routes -> TimelockType(Addresses, Transactions)]
  BY <1>1, <1>5, <1>6 DEF TypeOK
<1>10. proposals' \in [ProposalIds -> Proposal]
  BY ProposalUpdates DEF Execute, TypeOK
<1>11. history' \in [ProposalIds -> [queuedAt : Times, executedAt : Times]]
  <2>1. history' = [history EXCEPT ![id].executedAt = now] /\ now \in Times
    BY DEF Execute, TypeOK
  <2> QED BY <2>1 DEF TypeOK
<1> QED
  BY <1>9, <1>10, <1>11 DEF Execute, TypeOK, adminVars, configVars, chainVars

LEMMA CancelTypeOK ==
    ASSUME TypeOK, NEW caller \in Accounts, NEW id \in ProposalIds, Cancel(caller, id)
    PROVE  TypeOK'
<1>1. proposals[id].proposalType \in Routes /\ proposals[id].eta \in Etas
  BY DEF TypeOK, Proposal
<1>2. TxsOf(id, proposals[id].eta) \in SUBSET Transactions
  BY <1>1, TxsAreTransactions
<1>3. timelocks' \in [Routes -> TimelockType(Addresses, Transactions)]
  BY <1>1, <1>2, TimelockOpsTypes DEF Cancel, AfterCancel, TypeOK
<1>4. proposals' \in [ProposalIds -> Proposal]
  BY ProposalUpdates DEF Cancel, TypeOK
<1> QED
  BY <1>3, <1>4 DEF Cancel, TypeOK, adminVars, configVars, chainVars

LEMMA TimelockTypeOK ==
    ASSUME TypeOK, TimelockNext
    PROVE  TypeOK'
<1>1. PICK caller \in Accounts, route \in Routes :
         \/ TimelockAcceptAdmin(caller, route)
         \/ \E tx \in Transactions :
               \/ TimelockQueue(caller, route, tx)
               \/ TimelockCancel(caller, route, tx)
               \/ TimelockExecute(caller, route, tx)
  BY DEF TimelockNext
<1>2. timelocks[route] \in TimelockType(Addresses, Transactions)
  BY DEF TypeOK
<1>3. CASE TimelockAcceptAdmin(caller, route)
  <2>1. timelocks' \in [Routes -> TimelockType(Addresses, Transactions)]
    BY <1>2, <1>3, TimelockOpsTypes, Constants DEF TimelockAcceptAdmin, TypeOK
  <2> QED
    BY <1>3, <2>1
    DEF TimelockAcceptAdmin, TypeOK, adminVars, configVars, proposalVars, chainVars
<1>4. ASSUME NEW tx \in Transactions, TimelockQueue(caller, route, tx) PROVE TypeOK'
  <2>1. timelocks' \in [Routes -> TimelockType(Addresses, Transactions)]
    BY <1>2, <1>4, TimelockOpsTypes DEF TimelockQueue, TypeOK
  <2> QED
    BY <1>4, <2>1 DEF TimelockQueue, TypeOK, adminVars, configVars, proposalVars, chainVars
<1>5. ASSUME NEW tx \in Transactions, TimelockCancel(caller, route, tx) PROVE TypeOK'
  <2>1. timelocks' \in [Routes -> TimelockType(Addresses, Transactions)]
    BY <1>2, <1>5, TimelockOpsTypes DEF TimelockCancel, TypeOK
  <2> QED
    BY <1>5, <2>1 DEF TimelockCancel, TypeOK, adminVars, configVars, proposalVars, chainVars
<1>6. ASSUME NEW tx \in Transactions, TimelockExecute(caller, route, tx) PROVE TypeOK'
  <2>1. PICK tl \in AfterCalls(WithoutQueued(timelocks[route], {tx}), <<tx.action>>) :
           timelocks' = [timelocks EXCEPT ![route] = tl]
    BY <1>6 DEF TimelockExecute
  <2>2. WithoutQueued(timelocks[route], {tx}) \in TimelockType(Addresses, Transactions)
    BY <1>2, TimelockOpsTypes
  <2>3. /\ <<tx.action>> \in Seq(Actions)
        /\ \A i \in DOMAIN <<tx.action>> : <<tx.action>>[i] = tx.action
    BY DEF Transactions
  <2>4. \A i \in DOMAIN <<tx.action>> :
           DelayCalls[<<tx.action>>[i]] # 0 => ValidDelay(DelayCalls[<<tx.action>>[i]])
    BY <1>6, <2>3 DEF TimelockExecute, CallsSucceed
  <2>5. tl \in TimelockType(Addresses, Transactions)
    BY <2>1, <2>2, <2>3, <2>4, AfterCallsChange
  <2>6. timelocks' \in [Routes -> TimelockType(Addresses, Transactions)]
    BY <2>1, <2>5 DEF TypeOK
  <2> QED
    BY <1>6, <2>6 DEF TimelockExecute, TypeOK, adminVars, configVars, proposalVars, chainVars
<1> QED BY <1>1, <1>3, <1>4, <1>5, <1>6

LEMMA MineBlockTypeOK ==
    ASSUME TypeOK, NEW seconds \in TimeSteps, MineBlock(seconds)
    PROVE  TypeOK'
<1>1. block' \in Blocks \ {0}
  BY GovernorAssumption DEF MineBlock, TypeOK, Blocks
<1>2. now' \in Times \ {0}
  BY GovernorAssumption DEF MineBlock, TypeOK, Times
<1> QED
  BY <1>1, <1>2 DEF MineBlock, TypeOK, adminVars, configVars, proposalVars

LEMMA NextTypeOK == TypeOK /\ [Next]_vars => TypeOK'
<1>1. TypeOK /\ UNCHANGED vars => TypeOK'
  BY DEF TypeOK, vars, adminVars, configVars, proposalVars, chainVars
<1>2. TypeOK /\ ProposalNext => TypeOK'
  BY ProposeTypeOK, CastVoteTypeOK, QueueTypeOK, ExecuteTypeOK, CancelTypeOK
     DEF ProposalNext
<1> QED BY <1>1, <1>2, AdminTypeOK, TimelockTypeOK, MineBlockTypeOK DEF Next

(* GovernorBravoDelegate.sol, Timelock.sol: every reachable state is well    *)
(* typed; above all, the delay of every timelock stays in its bounds while   *)
(* proposals change it.                                                      *)
THEOREM TypeCorrect == Spec => []TypeOK
BY InitTypeOK, NextTypeOK, PTL DEF Spec

-----------------------------------------------------------------------------
(* What each state() answer says of the stored proposal. *)
LEMMA StateMeans ==
    ASSUME TypeOK, NEW id \in ProposalIds
    PROVE  LET p == proposals[id] IN
           /\ State(id) \in {"Pending", "Active"} => ~p.canceled /\ ~(block > p.startBlock /\ block > p.endBlock)
           /\ State(id) = "Active" => ~p.canceled /\ block > p.startBlock /\ block <= p.endBlock
           /\ State(id) = "Succeeded" =>
                 ~p.canceled /\ block > p.endBlock /\ Approved(p) /\ p.eta = 0
           /\ State(id) = "Queued" =>
                 /\ ~p.canceled /\ block > p.endBlock /\ Approved(p) /\ p.eta # 0
                 /\ ~p.executed /\ ~GraceOver(p)
           /\ State(id) = "Executed" =>
                 ~p.canceled /\ block > p.endBlock /\ Approved(p) /\ p.eta # 0 /\ p.executed
           /\ (~p.canceled /\ block > p.startBlock /\ block > p.endBlock
                 /\ Approved(p) /\ p.eta # 0 /\ p.executed) => State(id) = "Executed"
           /\ State(id) = "Canceled" <=> p.canceled
<1>1. block \in Nat /\ proposals[id].startBlock \in Nat /\ proposals[id].endBlock \in Nat
      /\ proposals[id].canceled \in BOOLEAN /\ proposals[id].executed \in BOOLEAN
  BY Constants DEF TypeOK, Proposal
<1> QED BY <1>1 DEF State

(* What queue, execute and cancel do to the timelocks.                       *)
Offers(actions) == {AdminCalls[actions[i]] :
                       i \in {j \in DOMAIN actions : actions[j] \in DOMAIN AdminCalls}}

OnlyQueueChanges(route, txs) ==
    /\ \A r \in Routes : Governed(r)' <=> Governed(r)
    /\ \A r \in Routes \ {route} :
          timelocks'[r].queuedTransactions = timelocks[r].queuedTransactions
    /\ timelocks'[route].queuedTransactions = txs

LEMMA TimelockChanges ==
    ASSUME TypeOK, NEW id \in ProposalIds
    PROVE  LET p == proposals[id]
               queue == Timelock(id).queuedTransactions IN
           /\ p.proposalType \in Routes
           /\ Queue(id) => OnlyQueueChanges(p.proposalType,
                              queue \cup TxsOf(id, now + Timelock(id).delay))
           /\ Execute(id) => OnlyQueueChanges(p.proposalType, queue \ TxsOf(id, p.eta))
           /\ \A caller \in Accounts : Cancel(caller, id) =>
                 OnlyQueueChanges(p.proposalType, queue \ TxsOf(id, p.eta))
           /\ \/ Queue(id)
              \/ \E caller \in Accounts : Cancel(caller, id)
              => \A r \in Routes : timelocks'[r].pendingAdmin = timelocks[r].pendingAdmin
           /\ Execute(id) => \A r \in Routes :
                 \/ timelocks'[r].pendingAdmin = timelocks[r].pendingAdmin
                 \/ r = p.proposalType /\ timelocks'[r].pendingAdmin \in Offers(p.actions)
<1> DEFINE p == proposals[id]
<1>1. p.proposalType \in Routes
  BY DEF TypeOK, Proposal
<1>2. ASSUME Queue(id)
      PROVE  OnlyQueueChanges(p.proposalType, Timelock(id).queuedTransactions
                                \cup TxsOf(id, now + Timelock(id).delay))
  BY <1>1, <1>2 DEF Queue, OnlyQueueChanges, WithQueued, Timelock, TypeOK, TimelockType,
                    Governed
<1>3. ASSUME Execute(id)
      PROVE  /\ OnlyQueueChanges(p.proposalType,
                                 Timelock(id).queuedTransactions \ TxsOf(id, p.eta))
             /\ \A r \in Routes :
                   \/ timelocks'[r].pendingAdmin = timelocks[r].pendingAdmin
                   \/ r = p.proposalType /\ timelocks'[r].pendingAdmin \in Offers(p.actions)
  <2> DEFINE old == Timelock(id)
             cleared == WithoutQueued(old, TxsOf(id, p.eta))
  <2>1. PICK tl \in AfterCalls(cleared, p.actions) :
           timelocks' = [timelocks EXCEPT ![p.proposalType] = tl]
    BY <1>3 DEF Execute
  <2>2. old \in TimelockType(Addresses, Transactions) /\ old = timelocks[p.proposalType]
    BY <1>1 DEF Timelock, TypeOK
  <2>3. /\ cleared \in TimelockType(Addresses, Transactions)
        /\ cleared.admin = old.admin /\ cleared.pendingAdmin = old.pendingAdmin
        /\ cleared.queuedTransactions = old.queuedTransactions \ TxsOf(id, p.eta)
    BY <2>2 DEF WithoutQueued, TimelockType
  <2>4. /\ tl.admin = old.admin
        /\ tl.queuedTransactions = old.queuedTransactions \ TxsOf(id, p.eta)
        /\ tl.pendingAdmin \in PendingAdminsAfter(p.actions, old.pendingAdmin)
    <3>1. p.actions \in Seq(Actions)
      BY ActionsAreActions
    <3> QED BY <1>3, <2>1, <2>3, <3>1, ExecutedCallsSucceed, AfterCallsChange
  <2>5. tl.pendingAdmin \in {old.pendingAdmin} \cup Offers(p.actions)
    BY <2>4 DEF PendingAdminsAfter, Offers
  <2>6. /\ timelocks'[p.proposalType] = tl
        /\ \A r \in Routes \ {p.proposalType} : timelocks'[r] = timelocks[r]
    BY <1>1, <2>1 DEF TypeOK
  <2> QED BY <2>2, <2>4, <2>5, <2>6 DEF OnlyQueueChanges, Governed
<1>4. ASSUME NEW caller \in Accounts, Cancel(caller, id)
      PROVE  OnlyQueueChanges(p.proposalType,
                              Timelock(id).queuedTransactions \ TxsOf(id, p.eta))
  BY <1>1, <1>4 DEF Cancel, AfterCancel, OnlyQueueChanges, WithoutQueued, Timelock, TypeOK,
                    TimelockType, Governed
<1>5. ASSUME Queue(id) \/ \E caller \in Accounts : Cancel(caller, id), NEW r \in Routes
      PROVE  timelocks'[r].pendingAdmin = timelocks[r].pendingAdmin
  <2>1. CASE Queue(id)
    BY <1>1, <2>1 DEF Queue, WithQueued, Timelock, TypeOK, TimelockType
  <2>2. CASE \E caller \in Accounts : Cancel(caller, id)
    BY <1>1, <2>2 DEF Cancel, AfterCancel, WithoutQueued, Timelock, TypeOK, TimelockType
  <2> QED BY <1>5, <2>1, <2>2
<1> QED BY <1>1, <1>2, <1>3, <1>4, <1>5

(* What votes, queueing, execution and cancelling leave alone.               *)
Fixed(q) ==
    /\ proposals'[q].proposer = proposals[q].proposer
    /\ proposals'[q].actions = proposals[q].actions
    /\ proposals'[q].startBlock = proposals[q].startBlock
    /\ proposals'[q].endBlock = proposals[q].endBlock
    /\ proposals'[q].proposalType = proposals[q].proposalType

LEMMA ProposalChanges ==
    ASSUME TypeOK, NEW id \in ProposalIds,
           \/ \E voter \in Accounts, support \in Support : CastVote(voter, id, support)
           \/ Queue(id)
           \/ Execute(id)
           \/ \E caller \in Accounts : Cancel(caller, id)
    PROVE  /\ UNCHANGED <<initialProposalId, inherited, proposalCount, latestProposalIds,
                          block, now>>
           /\ \A q \in ProposalIds :
                 /\ Fixed(q)
                 /\ q # id => proposals'[q] = proposals[q]
                 /\ proposals[q].canceled => proposals'[q].canceled
<1>1. CASE \E voter \in Accounts, support \in Support : CastVote(voter, id, support)
  <2>1. PICK voter \in Accounts, support \in Support : CastVote(voter, id, support)
    BY <1>1
  <2>2. proposals' = [proposals EXCEPT ![id] = WithVotes(@, support, VotingPower(voter, id))]
    BY <2>1 DEF CastVote
  <2>3. /\ Fixed(id)
        /\ proposals'[id].canceled = proposals[id].canceled
    BY <2>2 DEF Fixed, WithVotes, Support, For, Against, Abstain, TypeOK, Proposal
  <2>4. \A q \in ProposalIds \ {id} : proposals'[q] = proposals[q]
    BY <2>2 DEF TypeOK
  <2> QED BY <2>1, <2>3, <2>4 DEF CastVote, chainVars, Fixed
<1>2. CASE Queue(id)
  <2>1. proposals' = [proposals EXCEPT ![id].eta = now + Timelock(id).delay]
    BY <1>2 DEF Queue
  <2> QED BY <1>2, <2>1 DEF Queue, chainVars, Fixed, TypeOK, Proposal
<1>3. CASE Execute(id)
  <2>1. proposals' = [proposals EXCEPT ![id].executed = TRUE]
    BY <1>3 DEF Execute
  <2>2. proposals'[id] = [proposals[id] EXCEPT !.executed = TRUE]
    BY <2>1 DEF TypeOK
  <2>3. Fixed(id) /\ proposals'[id].canceled = proposals[id].canceled
    BY <2>2 DEF Fixed, TypeOK, Proposal
  <2>4. \A q \in ProposalIds \ {id} : proposals'[q] = proposals[q]
    BY <2>1 DEF TypeOK
  <2> QED BY <1>3, <2>3, <2>4 DEF Execute, chainVars, Fixed
<1>4. CASE \E caller \in Accounts : Cancel(caller, id)
  <2>1. proposals' = [proposals EXCEPT ![id].canceled = TRUE]
    BY <1>4 DEF Cancel
  <2> QED BY <1>4, <2>1 DEF Cancel, chainVars, Fixed, TypeOK, Proposal
<1> QED BY <1>1, <1>2, <1>3, <1>4

(* What every action but those that change the proposals leaves alone: the   *)
(* records, and the timelocks that the governor administers afterwards.      *)
Quiet ==
    /\ UNCHANGED <<initialProposalId, inherited, proposalCount, proposals, latestProposalIds,
                   history>>
    /\ \A r \in Routes : Governed(r)' => timelocks'[r] = timelocks[r]
    /\ block' \in Nat /\ block' >= block

LEMMA AdminIsQuiet ==
    TypeOK /\ AdminNext => Quiet \/ \E caller \in Accounts, alphaCount \in AlphaCounts :
                                        Initiate(caller, alphaCount)
<1>1. TypeOK => block \in Nat
  BY Constants DEF TypeOK
<1> QED
  BY <1>1 DEF AdminNext, Quiet, Initialize, SetValidationParams, SetProposalConfigs,
     SetProposalMaxOperations, SetGuardian, SetPendingAdmin, AcceptAdmin,
     adminVars, configVars, proposalVars, chainVars

LEMMA OtherQuiet ==
    TypeOK /\ (UNCHANGED vars \/ \E seconds \in TimeSteps : MineBlock(seconds)) => Quiet
<1>1. TypeOK => block \in Nat
  BY Constants DEF TypeOK
<1>2. TypeOK /\ UNCHANGED vars => Quiet
  BY <1>1 DEF vars, Quiet, proposalVars, chainVars
<1>3. ASSUME TypeOK, NEW seconds \in TimeSteps, MineBlock(seconds) PROVE Quiet
  BY <1>1, <1>3 DEF MineBlock, Quiet, proposalVars
<1> QED BY <1>2, <1>3

(* An account that calls a timelock is its admin, or becomes it.             *)
LEMMA TimelockSteps ==
    ASSUME TypeOK, TimelockNext
    PROVE  /\ UNCHANGED <<adminVars, configVars, proposalVars, priorVotes, chainVars>>
           /\ \A r \in Routes :
                 \/ timelocks'[r] = timelocks[r]
                 \/ ~Governed(r)' /\ (Governed(r) => timelocks[r].pendingAdmin \in Accounts)
<1>1. PICK caller \in Accounts, route \in Routes :
         \/ TimelockAcceptAdmin(caller, route)
         \/ \E tx \in Transactions :
               \/ TimelockQueue(caller, route, tx)
               \/ TimelockCancel(caller, route, tx)
               \/ TimelockExecute(caller, route, tx)
  BY DEF TimelockNext
<1>2. UNCHANGED <<adminVars, configVars, proposalVars, priorVotes, chainVars>>
  BY <1>1 DEF TimelockAcceptAdmin, TimelockQueue, TimelockCancel, TimelockExecute
<1>3. caller # Governor
  BY GovernorAssumption
<1>4. timelocks[route] \in TimelockType(Addresses, Transactions)
  BY DEF TypeOK
<1>5. PICK tl : timelocks' = [timelocks EXCEPT ![route] = tl]
  BY <1>1 DEF TimelockAcceptAdmin, TimelockQueue, TimelockCancel, TimelockExecute
<1>6. timelocks'[route] = tl /\ \A r \in Routes \ {route} : timelocks'[r] = timelocks[r]
  BY <1>5 DEF TypeOK
<1>7. CASE TimelockAcceptAdmin(caller, route)
  <2>1. timelocks'[route] = WithAcceptedAdmin(timelocks[route], caller)
        /\ timelocks[route].pendingAdmin = caller
    BY <1>7 DEF TimelockAcceptAdmin, MayAcceptAdmin, TypeOK
  <2>2. timelocks'[route].admin = caller
    BY <1>4, <2>1 DEF WithAcceptedAdmin, TimelockType
  <2> QED BY <1>2, <1>3, <1>6, <2>1, <2>2 DEF Governed
<1>8. ASSUME NEW tx \in Transactions,
             \/ TimelockQueue(caller, route, tx)
             \/ TimelockCancel(caller, route, tx)
             \/ TimelockExecute(caller, route, tx)
      PROVE  timelocks[route].admin = caller /\ timelocks'[route].admin = caller
  <2>1. timelocks[route].admin = caller
    BY <1>8 DEF TimelockQueue, TimelockCancel, TimelockExecute, MayQueue, MayCancel, MayExecute
  <2>2. CASE TimelockQueue(caller, route, tx)
    BY <1>4, <2>1, <2>2 DEF TimelockQueue, WithQueued, TypeOK, TimelockType
  <2>3. CASE TimelockCancel(caller, route, tx)
    BY <1>4, <2>1, <2>3 DEF TimelockCancel, WithoutQueued, TypeOK, TimelockType
  <2>4. CASE TimelockExecute(caller, route, tx)
    <3>1. PICK new \in AfterCalls(WithoutQueued(timelocks[route], {tx}), <<tx.action>>) :
             timelocks' = [timelocks EXCEPT ![route] = new]
      BY <2>4 DEF TimelockExecute
    <3>2. PICK delay, account :
             new = WithPendingAdmin(WithDelay(WithoutQueued(timelocks[route], {tx}), delay),
                                    account)
      BY <3>1 DEF AfterCalls
    <3>3. new.admin = timelocks[route].admin
      BY <1>4, <3>2 DEF WithoutQueued, WithDelay, WithPendingAdmin, TimelockType
    <3>4. timelocks'[route] = new
      BY <3>1 DEF TypeOK
    <3> QED BY <2>1, <3>3, <3>4
  <2> QED BY <1>8, <2>1, <2>2, <2>3, <2>4
<1> QED BY <1>1, <1>2, <1>3, <1>6, <1>7, <1>8 DEF Governed

LEMMA TimelockIsQuiet == TypeOK /\ TimelockNext => Quiet
<1>1. TypeOK => block \in Nat
  BY Constants DEF TypeOK
<1> QED BY <1>1, TimelockSteps DEF Quiet, proposalVars, chainVars

-----------------------------------------------------------------------------
(* The governor's footing: what holds before the first proposal is made.     *)
Foundation ==
    /\ initialProposalId # 0 => initialized
    /\ initialProposalId = 0 => proposalCount = 0
    /\ initialProposalId <= proposalCount
    /\ initialized => \A r \in Routes : proposalConfigs[r].votingPeriod > 0
    /\ GovernorControlsTimelocks

LEMMA ValidConfigsVote ==
    ASSUME NEW configs \in ConfigChoices, NEW params \in ValidationParams,
           ValidConfigs(configs, params)
    PROVE  \A r \in Routes : configs[r].votingPeriod > 0
<1>1. params.minVotingPeriod \in Nat /\ params.maxVotingPeriod \in Nat
      /\ params.minVotingPeriod > 0
  BY DEF ValidConfigs, ParamsConfigured, ValidationParams
<1> SUFFICES ASSUME NEW r \in Routes PROVE configs[r].votingPeriod > 0
  OBVIOUS
<1>2. configs[r].votingPeriod \in params.minVotingPeriod .. params.maxVotingPeriod
  BY DEF ValidConfigs, ValidConfig
<1> QED BY <1>1, <1>2

(* What an executed proposal named stays named.                              *)
LEMMA NamedAdminsGrow ==
    ASSUME NEW r \in Routes,
           \A id \in ProposalIds : ValidId(id) /\ proposals[id].executed =>
              /\ ValidId(id)'
              /\ proposals'[id].executed
              /\ proposals'[id].proposalType = proposals[id].proposalType
              /\ proposals'[id].actions = proposals[id].actions
    PROVE  NamedAdmins(r) \subseteq NamedAdmins(r)'
BY DEF NamedAdmins

(* A timelock stays where a proposal put it, when its admins do not change.  *)
LEMMA ControlKept ==
    ASSUME NEW r \in Routes, HandedOnByProposalOnly(r),
           NamedAdmins(r) \subseteq NamedAdmins(r)',
           Governed(r)' <=> Governed(r),
           \/ timelocks'[r].pendingAdmin = timelocks[r].pendingAdmin
           \/ timelocks'[r].pendingAdmin \in NamedAdmins(r)' \cup {ZeroAddress}
    PROVE  HandedOnByProposalOnly(r)'
BY DEF HandedOnByProposalOnly

LEMMA ProposalControl ==
    ASSUME TypeOK, NEW r \in Routes, HandedOnByProposalOnly(r), ProposalNext
    PROVE  HandedOnByProposalOnly(r)'
<1>1. CASE \E proposer \in Accounts, route \in Routes, actions \in ActionLists :
              Propose(proposer, route, actions)
  <2>1. timelocks' = timelocks
    BY <1>1 DEF Propose
  <2>2. \A id \in ProposalIds : ValidId(id) => ValidId(id)' /\ proposals'[id] = proposals[id]
    BY <1>1, Constants DEF ValidId, Propose, TypeOK
  <2> QED BY <2>1, <2>2, NamedAdminsGrow, ControlKept DEF Governed
<1>2. ASSUME NEW id \in ProposalIds,
             \/ \E voter \in Accounts, support \in Support : CastVote(voter, id, support)
             \/ Queue(id)
             \/ Execute(id)
             \/ \E caller \in Accounts : Cancel(caller, id)
      PROVE  HandedOnByProposalOnly(r)'
  <2>1. \A q \in ProposalIds : ValidId(q)' = ValidId(q) /\ Fixed(q)
    BY <1>2, ProposalChanges DEF ValidId
  <2>2. \A q \in ProposalIds : proposals[q].executed => proposals'[q].executed
    <3>1. CASE \E voter \in Accounts, support \in Support : CastVote(voter, id, support)
      BY <3>1 DEF CastVote, WithVotes, Support, For, Against, Abstain, TypeOK, Proposal
    <3>2. CASE Queue(id)
      BY <3>2 DEF Queue, TypeOK, Proposal
    <3>3. CASE Execute(id)
      BY <3>3 DEF Execute, TypeOK, Proposal
    <3>4. CASE \E caller \in Accounts : Cancel(caller, id)
      BY <3>4 DEF Cancel, TypeOK, Proposal
    <3> QED BY <1>2, <3>1, <3>2, <3>3, <3>4
  <2>3. NamedAdmins(r) \subseteq NamedAdmins(r)'
    BY <2>1, <2>2, NamedAdminsGrow DEF Fixed
  <2>4. CASE \E voter \in Accounts, support \in Support : CastVote(voter, id, support)
    BY <2>3, <2>4, ControlKept DEF CastVote, Governed
  <2>5. CASE Queue(id) \/ \E caller \in Accounts : Cancel(caller, id)
    BY <2>3, <2>5, TimelockChanges, ControlKept DEF OnlyQueueChanges
  <2>6. CASE Execute(id)
    <3>1. /\ Governed(r)' <=> Governed(r)
          /\ \/ timelocks'[r].pendingAdmin = timelocks[r].pendingAdmin
             \/ /\ r = proposals[id].proposalType
                /\ timelocks'[r].pendingAdmin \in Offers(proposals[id].actions)
      BY <2>6, TimelockChanges DEF OnlyQueueChanges
    <3>2. ValidId(id)' /\ proposals'[id].executed
      BY <2>1, <2>6 DEF Execute, InState, TypeOK, Proposal
    <3>3. r = proposals[id].proposalType =>
             Offers(proposals[id].actions) \subseteq NamedAdmins(r)' \cup {ZeroAddress}
      <4> SUFFICES ASSUME r = proposals[id].proposalType,
                          NEW i \in DOMAIN proposals[id].actions,
                          proposals[id].actions[i] \in DOMAIN AdminCalls,
                          AdminCalls[proposals[id].actions[i]] # ZeroAddress
                   PROVE  AdminCalls[proposals[id].actions[i]] \in NamedAdmins(r)'
        BY DEF Offers
      <4>1. AdminCalls[proposals[id].actions[i]] \in Addresses
        BY GovernorAssumption
      <4>2. /\ proposals'[id].actions = proposals[id].actions
            /\ proposals'[id].proposalType = r
        BY <2>1 DEF Fixed
      <4> QED BY <3>2, <4>1, <4>2 DEF NamedAdmins
    <3> QED BY <2>3, <3>1, <3>3, ControlKept
  <2> QED BY <1>2, <2>4, <2>5, <2>6
<1> QED BY <1>1, <1>2 DEF ProposalNext

LEMMA TimelockControl ==
    ASSUME TypeOK, NEW r \in Routes, HandedOnByProposalOnly(r), TimelockNext
    PROVE  HandedOnByProposalOnly(r)'
<1>1. UNCHANGED <<initialProposalId, proposalCount, proposals>>
  BY TimelockSteps DEF proposalVars
<1>2. NamedAdmins(r)' = NamedAdmins(r)
  BY <1>1 DEF NamedAdmins, ValidId
<1>3. CASE timelocks'[r] = timelocks[r]
  BY <1>2, <1>3 DEF HandedOnByProposalOnly, Governed
<1>4. CASE ~Governed(r)' /\ (Governed(r) => timelocks[r].pendingAdmin \in Accounts)
  <2>1. ZeroAddress \notin Accounts
    BY GovernorAssumption DEF Addresses
  <2> QED BY <1>2, <1>4, <2>1 DEF HandedOnByProposalOnly
<1> QED BY <1>3, <1>4, TimelockSteps

LEMMA NextFoundation == TypeOK /\ Foundation /\ [Next]_vars => Foundation'
<1> SUFFICES ASSUME TypeOK, Foundation, [Next]_vars PROVE Foundation'
  OBVIOUS
<1> USE DEF Foundation, GovernorControlsTimelocks, adminVars, configVars, proposalVars,
            chainVars
<1>0. ASSUME UNCHANGED <<initialProposalId, proposalCount, proposals, timelocks>>
      PROVE  GovernorControlsTimelocks'
  <2>1. \A r \in Routes : NamedAdmins(r)' = NamedAdmins(r)
    BY <1>0 DEF NamedAdmins, ValidId
  <2> QED BY <1>0, <2>1 DEF HandedOnByProposalOnly, Governed
<1>1. CASE AdminNext
  <2>1. PICK caller \in Accounts :
           \/ \E params \in ValidationChoices, configs \in ConfigChoices :
                 Initialize(caller, params, configs)
           \/ \E alphaCount \in AlphaCounts : Initiate(caller, alphaCount)
           \/ \E configs \in ConfigChoices : SetProposalConfigs(caller, configs)
           \/ UNCHANGED <<initialized, initialProposalId, proposalCount, proposals,
                          proposalConfigs, timelocks>>
    BY <1>1 DEF AdminNext, SetValidationParams, SetProposalMaxOperations, SetGuardian,
                SetPendingAdmin, AcceptAdmin
  <2>2. ASSUME NEW params \in ValidationChoices, NEW configs \in ConfigChoices,
               Initialize(caller, params, configs)
        PROVE  Foundation'
    <3>1. \A r \in Routes : configs[r].votingPeriod > 0
      BY <2>2, ValidConfigsVote, GovernorAssumption DEF Initialize
    <3> QED BY <1>0, <2>2, <3>1 DEF Initialize
  <2>3. ASSUME NEW alphaCount \in AlphaCounts, Initiate(caller, alphaCount)
        PROVE  Foundation'
    <3>1. \A r \in Routes :
             timelocks'[r].admin = Governor /\ timelocks'[r].pendingAdmin = ZeroAddress
      BY <2>3 DEF Initiate, HandedOver, WithAcceptedAdmin, TypeOK, TimelockType
    <3>2. GovernorControlsTimelocks'
      BY <3>1 DEF HandedOnByProposalOnly, Governed
    <3> QED BY <2>3, <3>2, GovernorAssumption DEF Initiate
  <2>4. ASSUME NEW configs \in ConfigChoices, SetProposalConfigs(caller, configs)
        PROVE  Foundation'
    <3>1. \A r \in Routes : configs[r].votingPeriod > 0
      BY <2>4, ValidConfigsVote DEF SetProposalConfigs, TypeOK
    <3> QED BY <1>0, <2>4, <3>1 DEF SetProposalConfigs
  <2> QED BY <1>0, <2>1, <2>2, <2>3, <2>4
<1>2. CASE ProposalNext
  <2>1. UNCHANGED <<initialized, initialProposalId, proposalConfigs>>
    BY <1>2 DEF ProposalNext, Propose, CastVote, Queue, Execute, Cancel
  <2>2. /\ initialProposalId = 0 => proposalCount' = proposalCount
        /\ proposalCount' \in {proposalCount, proposalCount + 1}
    BY <1>2 DEF ProposalNext, Propose, CastVote, Queue, Execute, Cancel
  <2>3. GovernorControlsTimelocks'
    BY <1>2, <2>1, ProposalControl
  <2>4. initialProposalId' <= proposalCount'
    BY <2>1, <2>2 DEF TypeOK
  <2> QED BY <2>1, <2>2, <2>3, <2>4
<1>3. CASE \E seconds \in TimeSteps : MineBlock(seconds)
  BY <1>0, <1>3 DEF MineBlock
<1>4. CASE UNCHANGED vars
  BY <1>0, <1>4 DEF vars
<1>5. CASE TimelockNext
  <2>1. UNCHANGED <<initialized, initialProposalId, proposalCount, proposalConfigs>>
    BY <1>5, TimelockSteps
  <2>2. GovernorControlsTimelocks'
    BY <1>5, <2>1, TimelockControl
  <2> QED BY <2>1, <2>2
<1> QED BY <1>1, <1>2, <1>3, <1>4, <1>5 DEF Next

LEMMA FoundationInvariant == Spec => []Foundation
<1>1. Init => Foundation
  BY DEF Init, Foundation, GovernorControlsTimelocks
<1> QED BY <1>1, TypeCorrect, NextFoundation, PTL DEF Spec

(* GovernorBravoDelegate.sol _initiate, Timelock.sol setPendingAdmin and     *)
(* acceptAdmin: from the governor's activation on it administers every       *)
(* timelock it calls, until one of its own proposals, executed on that very  *)
(* route, has offered the timelock to somebody else.                         *)
THEOREM ControlsTimelocks == Spec => []GovernorControlsTimelocks
<1>1. Foundation => GovernorControlsTimelocks
  BY DEF Foundation
<1> QED BY <1>1, FoundationInvariant, PTL

-----------------------------------------------------------------------------
(* What is stored about each proposal hangs together: a window to vote in,   *)
(* an eta only for what was approved and no sooner than the shortest delay,  *)
(* executed only between the eta and the end of the grace period.            *)
Sound(id) ==
    LET p == proposals[id]
        h == history[id] IN
    /\ p.proposer \in Accounts
    /\ p.actions # <<>>
    /\ p.startBlock < p.endBlock
    /\ p.eta # 0 => /\ Approved(p)
                    /\ p.endBlock < block
                    /\ h.queuedAt + MINIMUM_DELAY <= p.eta
    /\ p.executed => /\ p.eta # 0
                     /\ ~p.canceled
                     /\ p.eta <= h.executedAt
                     /\ h.executedAt < p.eta + GRACE_PERIOD

Records == \A id \in ProposalIds : IF ValidId(id) THEN Sound(id) ELSE ~proposals[id].executed

LEMMA QuietRecords ==
    ASSUME TypeOK, Records, Quiet
    PROVE  Records'
<1> SUFFICES ASSUME NEW id \in ProposalIds
             PROVE  IF ValidId(id)' THEN Sound(id)' ELSE ~proposals'[id].executed
  BY DEF Records
<1>1. ValidId(id)' = ValidId(id) /\ proposals' = proposals /\ history' = history
      /\ block' \in Nat /\ block' >= block
  BY DEF Quiet, ValidId
<1>2. proposals[id].endBlock \in Nat /\ block \in Nat
  BY Constants DEF TypeOK, Proposal
<1>3. CASE ValidId(id)
  <2>1. Sound(id)
    BY <1>3 DEF Records
  <2> QED BY <1>1, <1>2, <1>3, <2>1 DEF Sound, Approved
<1>4. CASE ~ValidId(id)
  BY <1>1, <1>4 DEF Records
<1> QED BY <1>3, <1>4

LEMMA ProposeRecords ==
    ASSUME TypeOK, Foundation, Records, NEW proposer \in Accounts, NEW route \in Routes,
           NEW actions \in ActionLists, Propose(proposer, route, actions)
    PROVE  Records'
<1> PICK new \in ProposalIds : new = proposalCount + 1
  <2>1. proposalCount \in Nat /\ proposalCount < MaxProposals
    BY DEF Propose, TypeOK
  <2> QED BY <2>1, GovernorAssumption DEF ProposalIds
<1> PICK startBlock : startBlock = block + proposalConfigs[route].votingDelay
  OBVIOUS
<1>1. /\ proposalCount \in Nat /\ initialProposalId \in Nat
      /\ proposalCount' = new
      /\ UNCHANGED <<initialProposalId, history, block>>
  BY DEF Propose, TypeOK, chainVars
<1>2. \A id \in ProposalIds \ {new} : proposals'[id] = proposals[id] /\ ValidId(id)' = ValidId(id)
  BY <1>1, Constants DEF Propose, ValidId, TypeOK
<1>3. proposals'[new] =
         [NoProposal(route) EXCEPT
            !.proposer = proposer, !.actions = actions, !.startBlock = startBlock,
            !.endBlock = startBlock + proposalConfigs[route].votingPeriod]
  BY <1>1 DEF Propose, TypeOK
<1>4. /\ proposals'[new].proposer = proposer
      /\ proposals'[new].actions = actions
      /\ proposals'[new].startBlock = startBlock
      /\ proposals'[new].endBlock = startBlock + proposalConfigs[route].votingPeriod
      /\ proposals'[new].eta = 0
      /\ proposals'[new].executed = FALSE
  BY <1>3 DEF NoProposal
<1>5. startBlock \in Nat /\ proposalConfigs[route].votingPeriod \in Nat
      /\ proposalConfigs[route].votingPeriod > 0
  BY Constants DEF Propose, Foundation, TypeOK, ProposalConfig
<1>6. actions # <<>>
  BY DEF Propose
<1>7. Sound(new)'
  BY <1>4, <1>5, <1>6 DEF Sound
<1> SUFFICES ASSUME NEW id \in ProposalIds, id # new
             PROVE  IF ValidId(id)' THEN Sound(id)' ELSE ~proposals'[id].executed
  BY <1>4, <1>7 DEF Records
<1> QED BY <1>1, <1>2 DEF Records, Sound, Approved

(* Votes, queueing, execution and cancelling change one proposal, which they *)
(* find in some state.                                                       *)
LEMMA CastVoteRecords ==
    ASSUME TypeOK, Records, NEW voter \in Accounts, NEW id \in ProposalIds,
           NEW support \in Support, CastVote(voter, id, support)
    PROVE  Records'
<1> DEFINE p == proposals[id]
<1>1. ValidId(id) /\ block <= p.endBlock /\ p.eta = 0 /\ ~p.executed
  <2>1. ValidId(id) /\ State(id) = "Active"
    BY DEF CastVote, VotingIsOpen, InState
  <2>2. block <= p.endBlock
    BY <2>1, StateMeans
  <2>3. block \in Nat /\ p.endBlock \in Nat
    BY Constants DEF TypeOK, Proposal
  <2>4. Sound(id)
    BY <2>1 DEF Records
  <2> QED BY <2>1, <2>2, <2>3, <2>4 DEF Sound
<1>2. /\ proposals' = [proposals EXCEPT ![id] = WithVotes(@, support, VotingPower(voter, id))]
      /\ UNCHANGED <<initialProposalId, proposalCount, history, block>>
  BY DEF CastVote, chainVars
<1>3. /\ proposals'[id].proposer = p.proposer
      /\ proposals'[id].actions = p.actions
      /\ proposals'[id].startBlock = p.startBlock
      /\ proposals'[id].endBlock = p.endBlock
      /\ proposals'[id].eta = p.eta
      /\ proposals'[id].executed = p.executed
  BY <1>2 DEF WithVotes, Support, For, Against, Abstain, TypeOK, Proposal
<1> SUFFICES ASSUME NEW q \in ProposalIds
             PROVE  IF ValidId(q)' THEN Sound(q)' ELSE ~proposals'[q].executed
  BY DEF Records
<1>4. ValidId(q)' = ValidId(q)
  BY <1>2 DEF ValidId
<1>5. CASE q = id
  BY <1>1, <1>2, <1>3, <1>4, <1>5 DEF Records, Sound
<1>6. CASE q # id
  BY <1>2, <1>4, <1>6 DEF Records, Sound, Approved
<1> QED BY <1>5, <1>6

LEMMA QueueRecords ==
    ASSUME TypeOK, Records, NEW id \in ProposalIds, Queue(id)
    PROVE  Records'
<1> DEFINE p == proposals[id]
           eta == now + Timelock(id).delay
<1>1. ValidId(id) /\ ~p.executed /\ block > p.endBlock /\ Approved(p)
  <2>1. ValidId(id) /\ State(id) = "Succeeded"
    BY DEF Queue, InState
  <2>2. block > p.endBlock /\ Approved(p) /\ p.eta = 0
    BY <2>1, StateMeans
  <2> QED BY <2>1, <2>2 DEF Records, Sound
<1>2. /\ proposals' = [proposals EXCEPT ![id].eta = eta]
      /\ history' = [history EXCEPT ![id].queuedAt = now]
      /\ UNCHANGED <<initialProposalId, proposalCount, block>>
  BY DEF Queue, chainVars
<1>3. /\ proposals'[id] = [p EXCEPT !.eta = eta]
      /\ history'[id].queuedAt = now
  BY <1>2 DEF TypeOK
<1>4. now + MINIMUM_DELAY <= eta
  <2>1. Timelock(id).delay \in MINIMUM_DELAY .. MAXIMUM_DELAY
    BY DEF Timelock, TypeOK, TimelockType, Proposal
  <2>2. now \in Nat
    BY Constants DEF TypeOK
  <2> QED BY <2>1, <2>2, TimelockAssumption
<1>5. /\ proposals'[id].proposer = p.proposer
      /\ proposals'[id].actions = p.actions
      /\ proposals'[id].startBlock = p.startBlock
      /\ proposals'[id].endBlock = p.endBlock
      /\ proposals'[id].eta = eta
      /\ proposals'[id].executed = p.executed
      /\ Approved(proposals'[id]) = Approved(p)
  BY <1>3 DEF TypeOK, Proposal, Approved
<1>6. Sound(id)'
  <2>1. block \in Nat /\ p.endBlock \in Nat
    BY Constants DEF TypeOK, Proposal
  <2> QED BY <1>1, <1>2, <1>3, <1>4, <1>5, <2>1 DEF Records, Sound
<1> SUFFICES ASSUME NEW q \in ProposalIds, q # id
             PROVE  IF ValidId(q)' THEN Sound(q)' ELSE ~proposals'[q].executed
  BY <1>1, <1>2, <1>6 DEF Records, ValidId
<1>7. ValidId(q)' = ValidId(q) /\ proposals'[q] = proposals[q] /\ history'[q] = history[q]
  BY <1>2 DEF ValidId
<1> QED BY <1>2, <1>7 DEF Records, Sound, Approved

LEMMA ExecuteRecords ==
    ASSUME TypeOK, Records, NEW id \in ProposalIds, Execute(id)
    PROVE  Records'
<1> DEFINE p == proposals[id]
<1>1. /\ ValidId(id) /\ p.eta # 0 /\ ~p.canceled /\ ~GraceOver(p)
      /\ Sound(id)
  <2>1. ValidId(id) /\ State(id) = "Queued"
    BY DEF Execute, InState
  <2>2. p.eta # 0 /\ ~p.canceled /\ ~GraceOver(p)
    BY <2>1, StateMeans
  <2> QED BY <2>1, <2>2 DEF Records
<1>2. /\ proposals' = [proposals EXCEPT ![id].executed = TRUE]
      /\ history' = [history EXCEPT ![id].executedAt = now]
      /\ UNCHANGED <<initialProposalId, proposalCount, block>>
  BY DEF Execute, chainVars
<1>3. /\ proposals'[id] = [p EXCEPT !.executed = TRUE]
      /\ history'[id].executedAt = now
      /\ history'[id].queuedAt = history[id].queuedAt
  BY <1>2 DEF TypeOK
<1>4. now >= p.eta
  <2>1. p.actions \in Seq(Actions) /\ p.actions # <<>>
    BY <1>1, ActionsAreActions DEF Sound
  <2>2. 1 \in DOMAIN p.actions
    BY <2>1
  <2>3. Tx(p.actions[1], p.eta) \in TxsOf(id, p.eta)
    BY <2>2 DEF TxsOf
  <2>4. MayExecute(Timelock(id), Governor, Tx(p.actions[1], p.eta), now)
    BY <2>3 DEF Execute
  <2> QED BY <2>4 DEF MayExecute, Tx
<1>5. now < p.eta + GRACE_PERIOD
  <2>1. now \in Nat /\ p.eta \in Nat
    BY Constants DEF TypeOK, Proposal
  <2> QED BY <1>1, <2>1, TimelockAssumption DEF GraceOver
<1>7. /\ proposals'[id].proposer = p.proposer
      /\ proposals'[id].actions = p.actions
      /\ proposals'[id].startBlock = p.startBlock
      /\ proposals'[id].endBlock = p.endBlock
      /\ proposals'[id].eta = p.eta
      /\ proposals'[id].canceled = p.canceled
      /\ Approved(proposals'[id]) = Approved(p)
  BY <1>3 DEF TypeOK, Proposal, Approved
<1>8. Sound(id)'
  BY <1>1, <1>2, <1>3, <1>4, <1>5, <1>7 DEF Sound
<1> SUFFICES ASSUME NEW q \in ProposalIds, q # id
             PROVE  IF ValidId(q)' THEN Sound(q)' ELSE ~proposals'[q].executed
  BY <1>1, <1>2, <1>8 DEF Records, ValidId
<1>9. ValidId(q)' = ValidId(q) /\ proposals'[q] = proposals[q] /\ history'[q] = history[q]
  BY <1>2 DEF ValidId
<1> QED BY <1>2, <1>9 DEF Records, Sound, Approved

LEMMA CancelRecords ==
    ASSUME TypeOK, Records, NEW caller \in Accounts, NEW id \in ProposalIds,
           Cancel(caller, id)
    PROVE  Records'
<1> DEFINE p == proposals[id]
<1>1. ValidId(id) /\ Sound(id) /\ ~p.executed
  <2>1. ValidId(id) /\ State(id) # "Executed"
    BY DEF Cancel, Cancelable
  <2>2. Sound(id)
    BY <2>1 DEF Records
  <2>3. p.executed => State(id) = "Executed"
    <3>1. block \in Nat /\ p.startBlock \in Nat /\ p.endBlock \in Nat
      BY Constants DEF TypeOK, Proposal
    <3> QED BY <2>2, <3>1, StateMeans DEF Sound
  <2> QED BY <2>1, <2>2, <2>3
<1>2. /\ proposals' = [proposals EXCEPT ![id].canceled = TRUE]
      /\ UNCHANGED <<initialProposalId, proposalCount, history, block>>
  BY DEF Cancel, chainVars
<1>3. /\ proposals'[id].proposer = p.proposer
      /\ proposals'[id].actions = p.actions
      /\ proposals'[id].startBlock = p.startBlock
      /\ proposals'[id].endBlock = p.endBlock
      /\ proposals'[id].eta = p.eta
      /\ proposals'[id].executed = p.executed
      /\ Approved(proposals'[id]) = Approved(p)
  BY <1>2 DEF TypeOK, Proposal, Approved
<1>4. Sound(id)'
  BY <1>1, <1>2, <1>3 DEF Sound
<1> SUFFICES ASSUME NEW q \in ProposalIds, q # id
             PROVE  IF ValidId(q)' THEN Sound(q)' ELSE ~proposals'[q].executed
  BY <1>1, <1>2, <1>4 DEF Records, ValidId
<1>5. ValidId(q)' = ValidId(q) /\ proposals'[q] = proposals[q]
  BY <1>2 DEF ValidId
<1> QED BY <1>2, <1>5 DEF Records, Sound, Approved

LEMMA InitiateRecords ==
    ASSUME TypeOK, Foundation, Records, NEW caller \in Accounts, NEW alphaCount \in AlphaCounts,
           Initiate(caller, alphaCount)
    PROVE  /\ Records' /\ UNCHANGED <<proposals, latestProposalIds>>
           /\ \A id \in ProposalIds : ~ValidId(id) /\ ~ValidId(id)'
           /\ \A r \in Routes : timelocks'[r].queuedTransactions = timelocks[r].queuedTransactions
<1>1. initialProposalId = 0 /\ proposalCount = 0 /\ alphaCount \in Nat
  BY GovernorAssumption DEF Initiate, Foundation
<1>2. initialProposalId' = alphaCount /\ proposalCount' = alphaCount
      /\ UNCHANGED <<proposals, latestProposalIds>>
  BY DEF Initiate
<1>3. \A id \in ProposalIds : ~ValidId(id) /\ ~ValidId(id)'
  BY <1>1, <1>2, Constants DEF ValidId
<1>4. \A r \in Routes : timelocks'[r].queuedTransactions = timelocks[r].queuedTransactions
  BY DEF Initiate, HandedOver, WithAcceptedAdmin, TypeOK, TimelockType
<1> QED BY <1>2, <1>3, <1>4 DEF Records

LEMMA NextRecords == TypeOK /\ Foundation /\ Records /\ [Next]_vars => Records'
<1>1. TypeOK /\ Foundation /\ Records /\ ProposalNext => Records'
  BY ProposeRecords, CastVoteRecords, QueueRecords, ExecuteRecords, CancelRecords
     DEF ProposalNext
<1> QED BY <1>1, AdminIsQuiet, TimelockIsQuiet, OtherQuiet, QuietRecords, InitiateRecords
   DEF Next

LEMMA RecordsInvariant == Spec => []Records
<1>1. Init => Records
  BY DEF Init, Records, ValidId, NoProposal, ProposalIds
<1> QED BY <1>1, TypeCorrect, FoundationInvariant, NextRecords, PTL DEF Spec

(* GovernorBravoDelegate.sol execute: what was executed had been approved by *)
(* quorum and majority in a finished vote, and was not and is not canceled.  *)
THEOREM OnlyApprovedExecutes == Spec => []ExecutedWasApproved
<1>1. TypeOK /\ Records => ExecutedWasApproved
  BY DEF Records, Sound, Approved, ExecutedWasApproved
<1> QED BY <1>1, TypeCorrect, RecordsInvariant, PTL

(* GovernorBravoDelegate.sol queue and execute, Timelock.sol: no execution   *)
(* before the eta, which is at least the shortest delay after the queueing,  *)
(* none after the grace period, however the delays change in between.        *)
THEOREM ExecutionAlwaysWaits == Spec => []ExecutionWaited
<1>1. TypeOK /\ Records => ExecutionWaited
  <2> SUFFICES ASSUME TypeOK, Records, NEW id \in ProposalIds, proposals[id].executed
               PROVE  /\ proposals[id].eta >= history[id].queuedAt + MINIMUM_DELAY
                      /\ history[id].executedAt >= proposals[id].eta
                      /\ history[id].executedAt < proposals[id].eta + GRACE_PERIOD
    BY DEF ExecutionWaited
  <2>1. Sound(id)
    BY DEF Records
  <2>2. /\ history[id].executedAt \in Nat /\ history[id].queuedAt \in Nat
        /\ proposals[id].eta \in Nat
    BY Constants DEF TypeOK, Proposal
  <2> QED BY <2>1, <2>2, TimelockAssumption DEF Sound
<1> QED BY <1>1, TypeCorrect, RecordsInvariant, PTL

(* GovernorBravoDelegate.sol setValidationParams, setProposalConfigs and     *)
(* propose: in whatever order they are set, the parameters leave every       *)
(* proposal at least one block of voting.                                    *)
THEOREM WindowsAreAlwaysReal == Spec => []VotingWindowsAreReal
<1>1. Records => VotingWindowsAreReal
  BY DEF Records, Sound, VotingWindowsAreReal
<1> QED BY <1>1, RecordsInvariant, PTL

-----------------------------------------------------------------------------
(* All proposals of an account but its latest are over.                      *)
Over(id) == proposals[id].canceled \/ (block > proposals[id].startBlock /\ block > proposals[id].endBlock)

Latest ==
    /\ \A a \in Accounts : latestProposalIds[a] # 0 =>
          ValidId(latestProposalIds[a]) /\ proposals[latestProposalIds[a]].proposer = a
    /\ \A id \in ProposalIds : ValidId(id) =>
          id = latestProposalIds[proposals[id].proposer] \/ Over(id)

LEMMA LiveOrOver ==
    ASSUME TypeOK, NEW id \in ProposalIds
    PROVE  State(id) \in {"Pending", "Active"} <=> ~Over(id)
<1>1. block \in Nat /\ proposals[id].startBlock \in Nat /\ proposals[id].endBlock \in Nat
      /\ proposals[id].canceled \in BOOLEAN /\ proposals[id].executed \in BOOLEAN
  BY Constants DEF TypeOK, Proposal
<1> QED BY <1>1 DEF State, Over

(* Nothing but a new proposal brings a proposal back to life.                *)
LEMMA LatestKept ==
    ASSUME Latest,
           UNCHANGED <<initialProposalId, proposalCount, latestProposalIds>>,
           \A id \in ProposalIds : /\ proposals'[id].proposer = proposals[id].proposer
                                   /\ Over(id) => Over(id)'
    PROVE  Latest'
<1>1. \A id : ValidId(id)' = ValidId(id)
  BY DEF ValidId
<1>2. \A id : ValidId(id) => id \in ProposalIds
  BY DEF ValidId
<1>3. ASSUME NEW a \in Accounts, latestProposalIds'[a] # 0
      PROVE  /\ ValidId(latestProposalIds[a])'
             /\ proposals'[latestProposalIds'[a]].proposer = a
  BY <1>1, <1>2, <1>3 DEF Latest
<1>4. ASSUME NEW id \in ProposalIds, ValidId(id)'
      PROVE  id = latestProposalIds'[proposals'[id].proposer] \/ Over(id)'
  BY <1>1, <1>4 DEF Latest
<1> QED BY <1>3, <1>4 DEF Latest

LEMMA ProposeLatest ==
    ASSUME TypeOK, Foundation, Records, Latest, NEW proposer \in Accounts, NEW route \in Routes,
           NEW actions \in ActionLists, Propose(proposer, route, actions)
    PROVE  Latest'
<1> PICK new \in ProposalIds : new = proposalCount + 1
  <2>1. proposalCount \in Nat /\ proposalCount < MaxProposals
    BY DEF Propose, TypeOK
  <2> QED BY <2>1, GovernorAssumption DEF ProposalIds
<1>1. /\ proposalCount' = new
      /\ latestProposalIds' = [latestProposalIds EXCEPT ![proposer] = new]
      /\ UNCHANGED <<initialProposalId, block>>
  BY DEF Propose, chainVars
<1>2. proposals'[new].proposer = proposer
  BY DEF Propose, TypeOK, NoProposal
<1>3. \A id \in ProposalIds \ {new} : proposals'[id] = proposals[id]
  BY DEF Propose, TypeOK
<1>4. \A id : ValidId(id) => id \in ProposalIds /\ id # new /\ ValidId(id)'
  BY <1>1, Constants DEF ValidId, TypeOK
<1>5. \A id \in ProposalIds : ValidId(id)' => id = new \/ ValidId(id)
  BY <1>1, Constants DEF ValidId, TypeOK
<1>6. ValidId(new)'
  <2>1. proposalCount \in Nat /\ initialProposalId \in Nat
    BY DEF TypeOK
  <2>2. initialProposalId < new
    <3>1. initialProposalId <= proposalCount
      BY DEF Foundation
    <3> QED BY <2>1, <3>1
  <2> QED BY <1>1, <2>1, <2>2, Constants DEF ValidId
<1>7. \A id \in ProposalIds : ValidId(id) /\ proposals[id].proposer = proposer => Over(id)
  <2> SUFFICES ASSUME NEW id \in ProposalIds, ValidId(id), proposals[id].proposer = proposer,
                      ~Over(id)
               PROVE  FALSE
    OBVIOUS
  <2>1. id = latestProposalIds[proposer] /\ id # 0
    BY Constants DEF Latest
  <2>2. State(id) \notin {"Pending", "Active"}
    BY <2>1 DEF Propose, NoLiveProposal
  <2> QED BY <2>2, LiveOrOver
<1>8. \A id \in ProposalIds \ {new} : Over(id)' = Over(id)
  BY <1>1, <1>3 DEF Over
<1>9. ASSUME NEW a \in Accounts, latestProposalIds'[a] # 0
      PROVE  /\ ValidId(latestProposalIds[a])'
             /\ proposals'[latestProposalIds'[a]].proposer = a
  <2>1. CASE a = proposer
    <3>1. latestProposalIds'[a] = new
      BY <1>1, <2>1 DEF TypeOK
    <3> QED BY <1>2, <1>6, <2>1, <3>1
  <2>2. CASE a # proposer
    <3>1. latestProposalIds'[a] = latestProposalIds[a]
      BY <1>1, <2>2 DEF TypeOK
    <3>2. ValidId(latestProposalIds[a]) /\ proposals[latestProposalIds[a]].proposer = a
      BY <1>9, <3>1 DEF Latest
    <3> QED BY <1>3, <1>4, <3>1, <3>2
  <2> QED BY <2>1, <2>2
<1>10. ASSUME NEW id \in ProposalIds, ValidId(id)'
       PROVE  id = latestProposalIds'[proposals'[id].proposer] \/ Over(id)'
  <2>1. CASE id = new
    BY <1>1, <1>2, <2>1 DEF TypeOK
  <2>2. CASE id # new
    <3>1. ValidId(id) /\ proposals'[id] = proposals[id] /\ Over(id)' = Over(id)
      BY <1>3, <1>5, <1>8, <1>10, <2>2
    <3>2. CASE proposals[id].proposer = proposer
      BY <1>7, <3>1, <3>2
    <3>3. CASE proposals[id].proposer # proposer
      <4>1. proposals[id].proposer \in Accounts
        BY <3>1 DEF Records, Sound
      <4>2. latestProposalIds'[proposals[id].proposer] = latestProposalIds[proposals[id].proposer]
        BY <1>1, <3>3, <4>1 DEF TypeOK
      <4> QED BY <3>1, <4>2 DEF Latest
    <3> QED BY <3>2, <3>3
  <2> QED BY <2>1, <2>2
<1> QED BY <1>9, <1>10 DEF Latest

LEMMA NextLatest == TypeOK /\ Foundation /\ Records /\ Latest /\ [Next]_vars => Latest'
<1> SUFFICES ASSUME TypeOK, Foundation, Records, Latest, [Next]_vars PROVE Latest'
  OBVIOUS
<1>1. CASE Quiet
  <2>1. \A id \in ProposalIds : Over(id) => Over(id)'
    <3>1. block \in Nat /\ block' \in Nat /\ block' >= block /\ proposals' = proposals
      BY <1>1, Constants DEF Quiet, TypeOK
    <3>2. \A id \in ProposalIds : proposals[id].startBlock \in Nat /\ proposals[id].endBlock \in Nat
      BY DEF TypeOK, Proposal
    <3> QED BY <3>1, <3>2 DEF Over
  <2> QED BY <1>1, <2>1, LatestKept DEF Quiet
<1>2. CASE \E caller \in Accounts, alphaCount \in AlphaCounts : Initiate(caller, alphaCount)
  <2>1. \A id \in ProposalIds : ~ValidId(id) /\ ~ValidId(id)'
    BY <1>2, InitiateRecords
  <2>2. \A a \in Accounts : latestProposalIds[a] = 0
    BY <2>1 DEF Latest, ValidId
  <2>3. latestProposalIds' = latestProposalIds
    BY <1>2 DEF Initiate
  <2> QED BY <2>1, <2>2, <2>3 DEF Latest
<1>3. ASSUME NEW id \in ProposalIds,
             \/ \E voter \in Accounts, support \in Support : CastVote(voter, id, support)
             \/ Queue(id)
             \/ Execute(id)
             \/ \E caller \in Accounts : Cancel(caller, id)
      PROVE  Latest'
  <2>1. /\ UNCHANGED <<initialProposalId, proposalCount, latestProposalIds, block>>
        /\ \A q \in ProposalIds :
              Fixed(q) /\ (proposals[q].canceled => proposals'[q].canceled)
    BY <1>3, ProposalChanges
  <2>2. \A q \in ProposalIds : Over(q) => Over(q)'
    BY <2>1 DEF Over, Fixed
  <2> QED BY <2>1, <2>2, LatestKept DEF Fixed
<1> QED
  BY <1>1, <1>2, <1>3, AdminIsQuiet, TimelockIsQuiet, OtherQuiet, ProposeLatest
  DEF Next, ProposalNext

LEMMA LatestInvariant == Spec => []Latest
<1>1. Init => Latest
  BY DEF Init, Latest, ValidId, ProposalIds
<1> QED BY <1>1, TypeCorrect, FoundationInvariant, RecordsInvariant, NextLatest, PTL DEF Spec

(* GovernorBravoDelegate.sol propose: a look at the proposer's latest        *)
(* proposal is enough to keep it to one live proposal.                       *)
THEOREM OneLiveProposal == Spec => []OneLiveProposalPerProposer
<1>1. TypeOK /\ Latest => OneLiveProposalPerProposer
  BY LiveOrOver DEF Latest, OneLiveProposalPerProposer, Live
<1> QED BY <1>1, TypeCorrect, LatestInvariant, PTL

-----------------------------------------------------------------------------
(* Who owns what is queued.  A proposal whose transaction is missing has a   *)
(* canceled twin, and so have two proposals that share one: the second half  *)
(* is what keeps the first when one of the two executes.  The first holds as *)
(* long as the governor administers the timelock, the second for good.       *)
BackedOrTwin ==
    \A id \in ProposalIds, route \in Routes, tx \in Transactions :
        Owns(id, route, tx) /\ Governed(route) =>
            tx \in timelocks[route].queuedTransactions \/ TwinCanceled(route, tx)

Exclusive ==
    \A p, q \in ProposalIds, route \in Routes, tx \in Transactions :
        Owns(p, route, tx) /\ Owns(q, route, tx) /\ p # q => TwinCanceled(route, tx)

Queues == NoOrphanTransactions /\ BackedOrTwin /\ Exclusive

LEMMA OwnsKept ==
    ASSUME UNCHANGED <<initialProposalId, proposalCount>>,
           NEW id \in ProposalIds, NEW route, NEW tx,
           proposals'[id].proposalType = proposals[id].proposalType,
           proposals'[id].eta = proposals[id].eta,
           proposals'[id].actions = proposals[id].actions,
           proposals'[id].canceled = proposals[id].canceled,
           proposals'[id].executed = proposals[id].executed
    PROVE  Owns(id, route, tx)' <=> Owns(id, route, tx)
BY DEF Owns, ValidId, TxsOf

LEMMA CanceledTwin ==
    ASSUME NEW route, NEW tx
    PROVE  TwinCanceled(route, tx) <=>
             \E twin \in ProposalIds :
                /\ ValidId(twin) /\ proposals[twin].canceled
                /\ proposals[twin].proposalType = route
                /\ proposals[twin].eta = tx.eta
                /\ tx \in TxsOf(twin, tx.eta)
BY DEF TwinCanceled, InState, State

(* A canceled proposal keeps the eta it had.                                 *)
LEMMA TwinKept ==
    ASSUME UNCHANGED <<initialProposalId, proposalCount>>,
           \A q \in ProposalIds :
              /\ proposals'[q].proposalType = proposals[q].proposalType
              /\ proposals'[q].actions = proposals[q].actions
              /\ proposals[q].canceled =>
                    proposals'[q].canceled /\ proposals'[q].eta = proposals[q].eta,
           NEW route, NEW tx, TwinCanceled(route, tx)
    PROVE  TwinCanceled(route, tx)'
<1>1. PICK twin \in ProposalIds :
         /\ ValidId(twin) /\ proposals[twin].canceled
         /\ proposals[twin].proposalType = route
         /\ proposals[twin].eta = tx.eta
         /\ tx \in TxsOf(twin, tx.eta)
  BY CanceledTwin
<1>2. InState(twin, "Canceled")'
  BY <1>1 DEF InState, State, ValidId
<1>3. tx \in TxsOf(twin, tx.eta)'
  BY <1>1 DEF TxsOf
<1> QED BY <1>1, <1>2, <1>3 DEF TwinCanceled

LEMMA QueuesKept ==
    ASSUME Queues,
           inherited' = inherited,
           \A r \in Routes : Governed(r)' =>
              /\ Governed(r)
              /\ timelocks'[r].queuedTransactions = timelocks[r].queuedTransactions,
           \A id \in ProposalIds, r \in Routes : \A tx : Owns(id, r, tx)' <=> Owns(id, r, tx),
           \A r \in Routes : \A tx : TwinCanceled(r, tx) => TwinCanceled(r, tx)'
    PROVE  Queues'
BY DEF Queues, NoOrphanTransactions, BackedOrTwin, Exclusive

LEMMA QuietQueues == ASSUME TypeOK, Queues, Quiet PROVE Queues'
<1>1. \A id \in ProposalIds, r \in Routes : \A tx : Owns(id, r, tx)' <=> Owns(id, r, tx)
  BY OwnsKept DEF Quiet
<1>2. \A r \in Routes : \A tx : TwinCanceled(r, tx) => TwinCanceled(r, tx)'
  BY TwinKept DEF Quiet
<1> QED BY <1>1, <1>2, QueuesKept DEF Quiet, Governed

LEMMA InitiateQueues ==
    ASSUME TypeOK, Foundation, Records, Queues, NEW caller \in Accounts,
           NEW alphaCount \in AlphaCounts, Initiate(caller, alphaCount)
    PROVE  Queues'
<1>1. /\ \A id \in ProposalIds : ~ValidId(id) /\ ~ValidId(id)'
      /\ \A r \in Routes : timelocks'[r].queuedTransactions = timelocks[r].queuedTransactions
  BY InitiateRecords
<1>2. \A id \in ProposalIds, r \in Routes : \A tx : ~Owns(id, r, tx)'
  BY <1>1 DEF Owns
<1>3. \A r \in Routes : timelocks'[r].queuedTransactions \ inherited'[r] = {}
  BY <1>1 DEF Initiate
<1> QED BY <1>2, <1>3 DEF Queues, NoOrphanTransactions, BackedOrTwin, Exclusive

LEMMA ProposeQueues ==
    ASSUME TypeOK, Queues, NEW proposer \in Accounts, NEW route \in Routes,
           NEW actions \in ActionLists, Propose(proposer, route, actions)
    PROVE  Queues'
<1> PICK new \in ProposalIds : new = proposalCount + 1
  <2>1. proposalCount \in Nat /\ proposalCount < MaxProposals
    BY DEF Propose, TypeOK
  <2> QED BY <2>1, GovernorAssumption DEF ProposalIds
<1>1. proposalCount' = new /\ UNCHANGED <<initialProposalId, inherited, timelocks>>
  BY DEF Propose
<1>2. proposals'[new].eta = 0 /\ proposals'[new].canceled = FALSE
  BY DEF Propose, TypeOK, NoProposal
<1>3. \A id \in ProposalIds \ {new} : proposals'[id] = proposals[id] /\ ValidId(id)' = ValidId(id)
  BY <1>1, Constants DEF Propose, ValidId, TypeOK
<1>4. ~ValidId(new)
  BY Constants DEF ValidId, TypeOK
<1>5. \A id \in ProposalIds, r \in Routes : \A tx : Owns(id, r, tx)' <=> Owns(id, r, tx)
  <2> SUFFICES ASSUME NEW id \in ProposalIds, NEW r \in Routes, NEW tx
               PROVE  Owns(id, r, tx)' <=> Owns(id, r, tx)
    OBVIOUS
  <2>1. CASE id = new
    BY <1>2, <1>4, <2>1 DEF Owns
  <2>2. CASE id # new
    BY <1>3, <2>2 DEF Owns, TxsOf
  <2> QED BY <2>1, <2>2
<1>6. ASSUME NEW r \in Routes, NEW tx, TwinCanceled(r, tx) PROVE TwinCanceled(r, tx)'
  <2>1. PICK twin \in ProposalIds :
           /\ ValidId(twin) /\ proposals[twin].canceled
           /\ proposals[twin].proposalType = r
           /\ proposals[twin].eta = tx.eta
           /\ tx \in TxsOf(twin, tx.eta)
    BY <1>6, CanceledTwin
  <2>2. proposals'[twin] = proposals[twin] /\ ValidId(twin)'
    BY <1>3, <1>4, <2>1
  <2>3. InState(twin, "Canceled")' /\ tx \in TxsOf(twin, tx.eta)'
    BY <2>1, <2>2 DEF InState, State, TxsOf
  <2> QED BY <2>1, <2>2, <2>3 DEF TwinCanceled
<1> QED BY <1>1, <1>5, <1>6, QueuesKept DEF Governed

LEMMA CastVoteQueues ==
    ASSUME TypeOK, Queues, NEW voter \in Accounts, NEW id \in ProposalIds,
           NEW support \in Support, CastVote(voter, id, support)
    PROVE  Queues'
<1>1. /\ UNCHANGED <<initialProposalId, inherited, proposalCount>>
      /\ \A q \in ProposalIds : Fixed(q) /\ (q # id => proposals'[q] = proposals[q])
  BY ProposalChanges
<1>2. /\ proposals'[id].eta = proposals[id].eta
      /\ proposals'[id].canceled = proposals[id].canceled
      /\ proposals'[id].executed = proposals[id].executed
  BY DEF CastVote, WithVotes, Support, For, Against, Abstain, TypeOK, Proposal
<1>3. \A q \in ProposalIds : /\ Fixed(q)
                             /\ proposals'[q].eta = proposals[q].eta
                             /\ proposals'[q].canceled = proposals[q].canceled
                             /\ proposals'[q].executed = proposals[q].executed
  BY <1>1, <1>2
<1>4. \A q \in ProposalIds, r \in Routes : \A tx : Owns(q, r, tx)' <=> Owns(q, r, tx)
  BY <1>1, <1>3, OwnsKept DEF Fixed
<1>5. \A r \in Routes : \A tx : TwinCanceled(r, tx) => TwinCanceled(r, tx)'
  BY <1>1, <1>3, TwinKept DEF Fixed
<1>6. timelocks' = timelocks
  BY DEF CastVote
<1> QED BY <1>1, <1>4, <1>5, <1>6, QueuesKept DEF Governed

LEMMA QueueQueues ==
    ASSUME TypeOK, Records, Queues, NEW id \in ProposalIds, Queue(id)
    PROVE  Queues'
<1> DEFINE p == proposals[id]
<1> PICK eta \in Etas : eta = now + Timelock(id).delay
  <2>1. Timelock(id).delay \in MINIMUM_DELAY .. MAXIMUM_DELAY /\ now \in 0 .. MaxTime
    BY DEF Timelock, TypeOK, TimelockType, Proposal, Times
  <2> QED BY <2>1, GovernorAssumption, TimelockAssumption DEF Etas
<1>1. /\ UNCHANGED <<initialProposalId, inherited, proposalCount>>
      /\ \A q \in ProposalIds : Fixed(q) /\ (q # id => proposals'[q] = proposals[q])
  BY ProposalChanges
<1>2. /\ proposals'[id].eta = eta
      /\ proposals'[id].canceled = p.canceled
      /\ proposals'[id].executed = p.executed
  BY DEF Queue, TypeOK, Proposal
<1>3. /\ ~p.canceled /\ p.eta = 0
      /\ \A tx \in TxsOf(id, eta) : tx \notin Timelock(id).queuedTransactions
      /\ \A tx \in TxsOf(id, eta) : tx.eta = eta /\ tx.eta # 0
  <2>1. State(id) = "Succeeded"
    BY DEF Queue, InState
  <2>2. eta # 0
    <3>1. Timelock(id).delay \in MINIMUM_DELAY .. MAXIMUM_DELAY /\ now \in Nat
      BY Constants DEF Timelock, TypeOK, TimelockType, Proposal
    <3> QED BY <3>1, TimelockAssumption
  <2> QED BY <2>1, <2>2, StateMeans DEF Queue, NoneQueuedYet, TxsOf, Tx
<1>4. OnlyQueueChanges(p.proposalType, Timelock(id).queuedTransactions \cup TxsOf(id, eta))
      /\ p.proposalType \in Routes
  BY TimelockChanges
<1>5. \A q \in ProposalIds \ {id}, r \in Routes : \A tx : Owns(q, r, tx)' <=> Owns(q, r, tx)
  BY <1>1, OwnsKept
<1>6. \A r \in Routes, tx \in Transactions : ~Owns(id, r, tx)
  BY <1>3 DEF Owns
<1>7. \A r \in Routes, tx \in Transactions :
         Owns(id, r, tx)' <=> r = p.proposalType /\ tx \in TxsOf(id, eta)
  <2>1. ValidId(id)' /\ ~p.executed
    BY <1>1, <1>3 DEF Queue, InState, ValidId, Records, Sound
  <2>2. \A e : TxsOf(id, e)' = TxsOf(id, e)
    BY <1>1 DEF TxsOf, Fixed
  <2> QED BY <1>1, <1>2, <1>3, <2>1, <2>2 DEF Owns, Fixed
<1>8. \A r \in Routes : \A tx : TwinCanceled(r, tx) => TwinCanceled(r, tx)'
  BY <1>1, <1>3, TwinKept DEF Fixed
<1>9. TxsOf(id, eta) \subseteq Transactions
  BY TxsAreTransactions
<1>10. NoOrphanTransactions'
  <2> SUFFICES ASSUME NEW r \in Routes, Governed(r)',
                      NEW tx \in timelocks'[r].queuedTransactions \ inherited'[r]
               PROVE  \E q \in ProposalIds : Owns(q, r, tx)'
    BY DEF NoOrphanTransactions
  <2>1. CASE r = p.proposalType /\ tx \in TxsOf(id, eta)
    BY <1>7, <1>9, <2>1
  <2>2. CASE tx \in timelocks[r].queuedTransactions
    <3>1. tx \in Transactions
      BY <2>2 DEF TypeOK, TimelockType
    <3>2. Governed(r) /\ inherited' = inherited
      BY <1>1, <1>4 DEF OnlyQueueChanges
    <3>3. PICK q \in ProposalIds : Owns(q, r, tx)
      BY <2>2, <3>2 DEF Queues, NoOrphanTransactions
    <3> QED BY <1>5, <1>6, <3>1, <3>3
  <2> QED BY <1>4, <2>1, <2>2 DEF OnlyQueueChanges, Timelock
<1>11. BackedOrTwin'
  <2> SUFFICES ASSUME NEW q \in ProposalIds, NEW r \in Routes, NEW tx \in Transactions,
                      Owns(q, r, tx)', Governed(r)'
               PROVE  tx \in timelocks'[r].queuedTransactions \/ TwinCanceled(r, tx)'
    BY DEF BackedOrTwin
  <2>1. CASE q = id
    BY <1>4, <1>7, <2>1 DEF OnlyQueueChanges
  <2>2. CASE q # id
    <3>1. tx \in timelocks[r].queuedTransactions \/ TwinCanceled(r, tx)
      BY <1>4, <1>5, <2>2 DEF Queues, BackedOrTwin, OnlyQueueChanges
    <3> QED BY <1>4, <1>8, <3>1 DEF OnlyQueueChanges, Timelock
  <2> QED BY <2>1, <2>2
<1>12. Exclusive'
  <2>1. ASSUME NEW q \in ProposalIds \ {id}, NEW r \in Routes, NEW tx \in Transactions,
               Owns(id, r, tx)', Owns(q, r, tx)'
        PROVE  TwinCanceled(r, tx)'
    <3>1. tx \notin timelocks[r].queuedTransactions
      BY <1>3, <1>7, <2>1 DEF Timelock
    <3>2. Owns(q, r, tx) /\ Governed(r)
      <4>1. r = p.proposalType /\ tx \in TxsOf(id, eta)
        BY <1>7, <2>1
      <4>2. MayQueue(Timelock(id), Governor, tx, now)
        BY <4>1 DEF Queue
      <4> QED BY <1>5, <2>1, <4>1, <4>2 DEF MayQueue, Governed, Timelock
    <3> QED BY <1>8, <3>1, <3>2 DEF Queues, BackedOrTwin
  <2>2. ASSUME NEW q1 \in ProposalIds \ {id}, NEW q2 \in ProposalIds \ {id}, q1 # q2,
               NEW r \in Routes, NEW tx \in Transactions, Owns(q1, r, tx)', Owns(q2, r, tx)'
        PROVE  TwinCanceled(r, tx)'
    BY <1>5, <1>8, <2>2 DEF Queues, Exclusive
  <2> QED BY <2>1, <2>2 DEF Exclusive
<1> QED BY <1>10, <1>11, <1>12 DEF Queues

(* Execution and cancelling take the transactions of a proposal out of its   *)
(* timelock, and its ownership with them.                                    *)
LEMMA RemovalQueues ==
    ASSUME TypeOK, Records, Queues, NEW id \in ProposalIds,
           OnlyQueueChanges(proposals[id].proposalType,
               Timelock(id).queuedTransactions \ TxsOf(id, proposals[id].eta)),
           UNCHANGED <<initialProposalId, inherited, proposalCount>>,
           \A q \in ProposalIds : Fixed(q) /\ (q # id => proposals'[q] = proposals[q]),
           proposals'[id].eta = proposals[id].eta,
           proposals[id].canceled => proposals'[id].canceled,
           proposals'[id].canceled \/ proposals'[id].executed,
           \A tx \in TxsOf(id, proposals[id].eta) :
              \/ TwinCanceled(proposals[id].proposalType, tx)'
              \/ Owns(id, proposals[id].proposalType, tx)
    PROVE  Queues'
<1> DEFINE p == proposals[id]
<1>1. p.proposalType \in Routes /\ p.eta \in Etas
  BY DEF TypeOK, Proposal
<1>2. \A q \in ProposalIds \ {id}, r \in Routes : \A tx : Owns(q, r, tx)' <=> Owns(q, r, tx)
  BY OwnsKept
<1>3. \A r \in Routes : \A tx : ~Owns(id, r, tx)'
  BY DEF Owns
<1>4. \A r \in Routes : \A tx : TwinCanceled(r, tx) => TwinCanceled(r, tx)'
  BY TwinKept DEF Fixed
<1>5. NoOrphanTransactions'
  <2> SUFFICES ASSUME NEW r \in Routes, Governed(r)',
                      NEW tx \in timelocks'[r].queuedTransactions \ inherited'[r]
               PROVE  \E q \in ProposalIds : Owns(q, r, tx)'
    BY DEF NoOrphanTransactions
  <2>1. tx \in timelocks[r].queuedTransactions
        /\ ~(r = p.proposalType /\ tx \in TxsOf(id, p.eta))
    BY <1>1 DEF OnlyQueueChanges, Timelock
  <2>2. PICK q \in ProposalIds : Owns(q, r, tx)
    BY <2>1 DEF Queues, NoOrphanTransactions, OnlyQueueChanges
  <2>3. q # id
    BY <2>1, <2>2 DEF Owns
  <2> QED BY <1>2, <2>2, <2>3
<1>6. BackedOrTwin'
  <2> SUFFICES ASSUME NEW q \in ProposalIds, NEW r \in Routes, NEW tx \in Transactions,
                      Owns(q, r, tx)', Governed(r)'
               PROVE  tx \in timelocks'[r].queuedTransactions \/ TwinCanceled(r, tx)'
    BY DEF BackedOrTwin
  <2>1. q # id /\ Owns(q, r, tx)
    BY <1>2, <1>3
  <2>2. tx \in timelocks[r].queuedTransactions \/ TwinCanceled(r, tx)
    BY <2>1 DEF Queues, BackedOrTwin, OnlyQueueChanges
  <2>3. CASE r = p.proposalType /\ tx \in TxsOf(id, p.eta)
    <3>1. CASE TwinCanceled(p.proposalType, tx)'
      <4>1. proposals'[id].proposalType = r
        BY <2>3 DEF Fixed
      <4> QED BY <3>1, <4>1 DEF TwinCanceled
    <3>2. CASE Owns(id, p.proposalType, tx)
      <4>1. Owns(id, r, tx) /\ Owns(q, r, tx) /\ q # id
        BY <2>1, <2>3, <3>2
      <4>2. TwinCanceled(r, tx)
        BY <4>1 DEF Queues, Exclusive
      <4> QED BY <1>4, <4>2
    <3> QED BY <2>3, <3>1, <3>2
  <2>4. CASE ~(r = p.proposalType /\ tx \in TxsOf(id, p.eta))
    BY <1>1, <1>4, <2>2, <2>4 DEF OnlyQueueChanges, Timelock
  <2> QED BY <2>3, <2>4
<1>7. Exclusive'
  BY <1>2, <1>3, <1>4 DEF Queues, Exclusive
<1> QED BY <1>5, <1>6, <1>7 DEF Queues

LEMMA ExecuteQueues ==
    ASSUME TypeOK, Records, Queues, NEW id \in ProposalIds, Execute(id)
    PROVE  Queues'
<1> DEFINE p == proposals[id]
<1>1. /\ UNCHANGED <<initialProposalId, inherited, proposalCount>>
      /\ \A q \in ProposalIds : Fixed(q) /\ (q # id => proposals'[q] = proposals[q])
  BY ProposalChanges
<1>2. proposals'[id].eta = p.eta /\ proposals'[id].canceled = p.canceled
      /\ proposals'[id].executed
  BY DEF Execute, TypeOK, Proposal
<1>3. ValidId(id) /\ ~p.canceled /\ ~p.executed /\ p.eta # 0
  BY StateMeans DEF Execute, InState
<1>4. \A tx \in TxsOf(id, p.eta) : Owns(id, p.proposalType, tx)
  BY <1>3 DEF Owns, TxsOf, Tx
<1> QED BY <1>1, <1>2, <1>4, TimelockChanges, RemovalQueues

LEMMA CancelQueues ==
    ASSUME TypeOK, Records, Queues, NEW caller \in Accounts, NEW id \in ProposalIds,
           Cancel(caller, id)
    PROVE  Queues'
<1> DEFINE p == proposals[id]
<1>1. /\ UNCHANGED <<initialProposalId, inherited, proposalCount>>
      /\ \A q \in ProposalIds : Fixed(q) /\ (q # id => proposals'[q] = proposals[q])
  BY ProposalChanges
<1>2. proposals'[id].eta = p.eta /\ proposals'[id].canceled
  BY DEF Cancel, TypeOK, Proposal
<1>3. \A tx \in TxsOf(id, p.eta) : TwinCanceled(p.proposalType, tx)'
  <2> SUFFICES ASSUME NEW tx \in TxsOf(id, p.eta)
               PROVE  TwinCanceled(p.proposalType, tx)'
    OBVIOUS
  <2>1. tx.eta = p.eta
    BY DEF TxsOf, Tx
  <2>2. InState(id, "Canceled")'
    BY <1>1, <1>2 DEF InState, State, Cancel, Cancelable, ValidId
  <2>3. tx \in TxsOf(id, tx.eta)'
    BY <1>1, <2>1 DEF TxsOf, Fixed
  <2>4. proposals'[id].proposalType = p.proposalType
    BY <1>1 DEF Fixed
  <2> QED BY <1>2, <2>1, <2>2, <2>3, <2>4 DEF TwinCanceled
<1> QED BY <1>1, <1>2, <1>3, TimelockChanges, RemovalQueues

LEMMA NextQueues == TypeOK /\ Foundation /\ Records /\ Queues /\ [Next]_vars => Queues'
<1>1. TypeOK /\ Records /\ Queues /\ ProposalNext => Queues'
  BY ProposeQueues, CastVoteQueues, QueueQueues, ExecuteQueues, CancelQueues
     DEF ProposalNext
<1> QED BY <1>1, AdminIsQuiet, TimelockIsQuiet, OtherQuiet, QuietQueues, InitiateQueues
   DEF Next

LEMMA QueuesInvariant == Spec => []Queues
<1>1. Init => Queues
  BY DEF Init, Queues, NoOrphanTransactions, BackedOrTwin, Exclusive,
         NewTimelock, WithPendingAdmin, Owns, ValidId, ProposalIds
<1> QED BY <1>1, TypeCorrect, FoundationInvariant, RecordsInvariant, NextQueues, PTL DEF Spec

(* GovernorBravoDelegate.sol queue, execute and cancel: what a timelock of   *)
(* the governor can still execute belongs to a proposal that is queued for   *)
(* that eta, and is neither canceled nor executed, or was there before the   *)
(* governor took the timelock over.                                          *)
THEOREM NoOrphans == Spec => []NoOrphanTransactions
<1>1. Queues => NoOrphanTransactions
  BY DEF Queues
<1> QED BY <1>1, QueuesInvariant, PTL

(* Two proposals never hold one hash together, unless a canceled proposal    *)
(* had it too: queueOrRevertInternal's check is enough but for the second    *)
(* cancellation of a proposal.                                               *)
THEOREM ExclusiveUnlessTwin == Spec => []ExclusiveUnlessTwinCanceled
<1>1. TypeOK /\ Queues => ExclusiveUnlessTwinCanceled
  <2> SUFFICES ASSUME TypeOK, Queues, NEW p \in ProposalIds, NEW q \in ProposalIds, p # q,
                      NEW tx \in TxsOf(p, proposals[p].eta),
                      Owns(p, proposals[p].proposalType, tx),
                      Owns(q, proposals[p].proposalType, tx)
               PROVE  TwinCanceled(proposals[p].proposalType, tx)
    BY DEF ExclusiveUnlessTwinCanceled
  <2>1. proposals[p].proposalType \in Routes /\ proposals[p].eta \in Etas
    BY DEF TypeOK, Proposal
  <2>2. tx \in Transactions
    BY <2>1, TxsAreTransactions
  <2> QED BY <2>1, <2>2 DEF Queues, Exclusive
<1> QED BY <1>1, TypeCorrect, QueuesInvariant, PTL

(* While the governor administers the timelock, a queued proposal has all    *)
(* its transactions there, unless a canceled proposal had the missing one    *)
(* too: next to a hand-over of the timelock, the second cancellation is the  *)
(* only way to lose one.                                                     *)
THEOREM BackedUnlessTwin == Spec => []BackedUnlessTwinCanceled
<1>1. TypeOK /\ Queues => BackedUnlessTwinCanceled
  <2> SUFFICES ASSUME TypeOK, Queues, NEW id \in ProposalIds, InState(id, "Queued"),
                      Governed(proposals[id].proposalType),
                      NEW tx \in TxsOf(id, proposals[id].eta) \ Timelock(id).queuedTransactions
               PROVE  TwinCanceled(proposals[id].proposalType, tx)
    BY DEF BackedUnlessTwinCanceled, Standing
  <2>1. proposals[id].proposalType \in Routes /\ proposals[id].eta \in Etas
    BY DEF TypeOK, Proposal
  <2>2. tx \in Transactions
    BY <2>1, TxsAreTransactions
  <2>3. Owns(id, proposals[id].proposalType, tx)
    BY StateMeans DEF InState, Owns, TxsOf, Tx
  <2> QED BY <2>1, <2>2, <2>3 DEF Queues, BackedOrTwin, Timelock
<1> QED BY <1>1, TypeCorrect, QueuesInvariant, PTL
-----------------------------------------------------------------------------
(* Proposals, once made, keep their terms and their results. *)
LEMMA TermsKept ==
    ASSUME TypeOK, Foundation, Records, [Next]_vars, NEW id \in ProposalIds, ValidId(id)
    PROVE  /\ ValidId(id)'
           /\ Terms(id)' = Terms(id)
           /\ State(id) # "Active" => Tallies(id)' = Tallies(id)
           /\ proposals[id].eta # 0 => proposals'[id].eta = proposals[id].eta
<1>1. CASE Quiet
  BY <1>1 DEF Quiet, ValidId, Terms, Tallies
<1>2. CASE \E caller \in Accounts, alphaCount \in AlphaCounts : Initiate(caller, alphaCount)
  BY <1>2, InitiateRecords
<1>3. CASE \E proposer \in Accounts, route \in Routes, actions \in ActionLists :
              Propose(proposer, route, actions)
  <2>1. /\ id # proposalCount + 1
        /\ ValidId(id)'
    BY <1>3, Constants DEF ValidId, Propose, TypeOK
  <2>2. proposals'[id] = proposals[id]
    BY <1>3, <2>1 DEF Propose, TypeOK
  <2> QED
    BY <2>1, <2>2 DEF Terms, Tallies
<1>4. ASSUME NEW changed \in ProposalIds,
             \/ \E voter \in Accounts, support \in Support : CastVote(voter, changed, support)
             \/ Queue(changed)
             \/ Execute(changed)
             \/ \E caller \in Accounts : Cancel(caller, changed)
      PROVE  /\ ValidId(id)'
             /\ Terms(id)' = Terms(id)
             /\ State(id) # "Active" => Tallies(id)' = Tallies(id)
             /\ proposals[id].eta # 0 => proposals'[id].eta = proposals[id].eta
  <2>1. /\ UNCHANGED <<initialProposalId, proposalCount>>
        /\ Fixed(id)
        /\ id # changed => proposals'[id] = proposals[id]
    BY <1>4, ProposalChanges
  <2>2. ASSUME id = changed, State(id) # "Active"
        PROVE  Tallies(id)' = Tallies(id)
    <3>1. \A voter, support : ~CastVote(voter, id, support)
      BY <2>2 DEF CastVote, VotingIsOpen, InState
    <3>2. \/ proposals' = [proposals EXCEPT ![id].eta = now + Timelock(id).delay]
          \/ proposals' = [proposals EXCEPT ![id].executed = TRUE]
          \/ proposals' = [proposals EXCEPT ![id].canceled = TRUE]
      BY <1>4, <2>2, <3>1 DEF Queue, Execute, Cancel
    <3>3. proposals \in [ProposalIds -> Proposal]
      BY DEF TypeOK
    <3> QED
      BY <3>2, <3>3 DEF Tallies, Proposal
  <2>3. ASSUME id = changed, proposals[id].eta # 0
        PROVE  proposals'[id].eta = proposals[id].eta
    <3>1. ~Queue(id)
      BY <2>3, StateMeans DEF Queue, InState
    <3>2. CASE \E voter \in Accounts, support \in Support : CastVote(voter, id, support)
      BY <3>2 DEF CastVote, WithVotes, Support, For, Against, Abstain, TypeOK, Proposal
    <3>3. CASE Execute(id)
      BY <3>3 DEF Execute, TypeOK, Proposal
    <3>4. CASE \E caller \in Accounts : Cancel(caller, id)
      BY <3>4 DEF Cancel, TypeOK, Proposal
    <3> QED BY <1>4, <2>3, <3>1, <3>2, <3>3, <3>4
  <2> QED
    BY <2>1, <2>2, <2>3 DEF ValidId, Terms, Fixed, Tallies
<1> QED
  BY <1>1, <1>2, <1>3, <1>4, AdminIsQuiet, TimelockIsQuiet, OtherQuiet
  DEF Next, ProposalNext

(* GovernorBravoDelegate.sol: no call and no passing of time alters what a   *)
(* proposal was proposed as, or its result after the vote.                   *)
THEOREM TermsStay == Spec => TermsAndResultsAreFinal
<1>1. TypeOK /\ Foundation /\ Records /\ [Next]_vars =>
         [\A id \in ProposalIds : ValidId(id) =>
             /\ ValidId(id)'
             /\ Terms(id)' = Terms(id)
             /\ State(id) # "Active" => Tallies(id)' = Tallies(id)
             /\ proposals[id].eta # 0 => proposals'[id].eta = proposals[id].eta]_vars
  BY TermsKept
<1> QED
  BY <1>1, TypeCorrect, FoundationInvariant, RecordsInvariant, PTL
  DEF Spec, TermsAndResultsAreFinal

-----------------------------------------------------------------------------
(* The governor implements ProposalLifecycle *)

(* The numbers state() compares. *)
LEMMA StateNumbers ==
    ASSUME TypeOK, NEW id \in ProposalIds
    PROVE  /\ block \in Nat /\ now \in Nat /\ now > 0
           /\ proposals[id].startBlock \in Nat /\ proposals[id].endBlock \in Nat
           /\ proposals[id].eta \in Nat
           /\ proposals[id].canceled \in BOOLEAN /\ proposals[id].executed \in BOOLEAN
<1>1. block \in Nat /\ now \in Nat /\ now > 0
  <2>1. block \in Blocks /\ now \in Times /\ now # 0
    BY DEF TypeOK
  <2> QED
    BY <2>1, Constants
<1>2. proposals[id] \in Proposal
  BY DEF TypeOK
<1>3. proposals[id].eta \in Nat
  BY <1>2, Constants DEF Proposal
<1> QED
  BY <1>1, <1>2, <1>3 DEF Proposal

LEMMA StateIsPhase ==
    ASSUME NEW id
    PROVE  State(id) \in Lifecycle!Phases \ {"None"}
BY DEF State, Lifecycle!Phases

(* A call moves the one proposal it is about, or none. *)
LEMMA OneMoves ==
    ASSUME NEW id \in ProposalIds, <<Phase(id), Phase(id)'>> \in Lifecycle!CallSteps,
           \A other \in ProposalIds \ {id} : Phase(other)' = Phase(other)
    PROVE  Lifecycle!Next
<1> DEFINE phases == [i \in ProposalIds |-> Phase(i)]
<1>1. \A i \in ProposalIds : phases[i] = Phase(i) /\ phases'[i] = Phase(i)'
  OBVIOUS
<1>2. phases' = [phases EXCEPT ![id] = phases'[id]]
  OBVIOUS
<1>3. <<phases[id], phases'[id]>> \in Lifecycle!CallSteps
  BY <1>1
<1> QED
  BY <1>2, <1>3 DEF Lifecycle!Next, Lifecycle!Call

LEMMA NoneMoves ==
    ASSUME \A id \in ProposalIds : Phase(id)' = Phase(id)
    PROVE  UNCHANGED [id \in ProposalIds |-> Phase(id)]
OBVIOUS

(* What is not touched and has the same block and time keeps its phase. *)
LEMMA SamePhase ==
    ASSUME NEW id, ValidId(id)' = ValidId(id), proposals'[id] = proposals[id],
           UNCHANGED <<block, now>>
    PROVE  Phase(id)' = Phase(id)
BY DEF Phase, State, GraceOver

LEMMA ProposeMoves ==
    ASSUME TypeOK, Foundation, NEW proposer \in Accounts, NEW route \in Routes,
           NEW actions \in ActionLists, Propose(proposer, route, actions)
    PROVE  Lifecycle!Next
<1> PICK new \in ProposalIds : new = proposalCount + 1
  <2>1. proposalCount \in Nat /\ proposalCount < MaxProposals
    BY DEF Propose, TypeOK
  <2> QED BY <2>1, GovernorAssumption DEF ProposalIds
<1>1. /\ proposalCount \in Nat /\ initialProposalId \in Nat
      /\ initialProposalId <= proposalCount
      /\ proposalCount' = new
      /\ UNCHANGED <<initialProposalId, block, now>>
  BY DEF Propose, TypeOK, Foundation, chainVars
<1>2. ASSUME NEW id \in ProposalIds \ {new}
      PROVE  Phase(id)' = Phase(id)
  <2>1. ValidId(id)' = ValidId(id)
    BY <1>1, Constants DEF ValidId
  <2>2. proposals'[id] = proposals[id]
    BY DEF Propose, TypeOK
  <2> QED
    BY <1>1, <2>1, <2>2, SamePhase
<1>3. Phase(new) = "None"
  BY <1>1 DEF Phase, ValidId
<1>4. Phase(new)' = "Pending"
  <2>1. /\ proposals'[new].startBlock = block + proposalConfigs[route].votingDelay
        /\ proposals'[new].canceled = FALSE
    BY DEF Propose, TypeOK, NoProposal
  <2>2. block <= proposals'[new].startBlock
    BY <2>1, StateNumbers DEF TypeOK, ProposalConfig
  <2>3. ValidId(new)'
    BY <1>1 DEF ValidId
  <2> QED
    BY <1>1, <2>1, <2>2, <2>3 DEF Phase, State
<1>5. <<Phase(new), Phase(new)'>> \in Lifecycle!CallSteps
  BY <1>3, <1>4 DEF Lifecycle!CallSteps
<1> QED
  BY <1>2, <1>5, OneMoves

(* Votes, queueing, execution and cancelling of a proposal. *)
LEMMA ProposalMoves ==
    ASSUME TypeOK, TypeOK', Records, NEW id \in ProposalIds,
           \/ \E voter \in Accounts, support \in Support : CastVote(voter, id, support)
           \/ Queue(id)
           \/ Execute(id)
           \/ \E caller \in Accounts : Cancel(caller, id)
    PROVE  Lifecycle!Next \/ UNCHANGED [i \in ProposalIds |-> Phase(i)]
<1>1. /\ UNCHANGED <<initialProposalId, proposalCount, block, now>>
      /\ Fixed(id)
      /\ \A q \in ProposalIds \ {id} : proposals'[q] = proposals[q]
  BY ProposalChanges
<1>2. \A q \in ProposalIds : ValidId(q)' = ValidId(q)
  BY <1>1 DEF ValidId
<1>3. \A q \in ProposalIds \ {id} : Phase(q)' = Phase(q)
  BY <1>1, <1>2, SamePhase
<1>4. Phase(id)' = Phase(id) => UNCHANGED [i \in ProposalIds |-> Phase(i)]
  BY <1>3, NoneMoves
<1>5. <<Phase(id), Phase(id)'>> \in Lifecycle!CallSteps => Lifecycle!Next
  BY <1>3, OneMoves
<1>6. proposals[id] \in Proposal /\ proposals \in [ProposalIds -> Proposal]
  BY DEF TypeOK
<1>7. CASE \E voter \in Accounts, support \in Support : CastVote(voter, id, support)
  <2>1. PICK voter \in Accounts, support \in Support : CastVote(voter, id, support)
    BY <1>7
  <2>2. ValidId(id) /\ State(id) = "Active"
    BY <2>1 DEF CastVote, VotingIsOpen, InState
  <2>3. proposals'[id].canceled = proposals[id].canceled
    BY <1>6, <2>1
    DEF CastVote, WithVotes, Support, For, Against, Abstain, Proposal
  <2>4. State(id)' = "Active"
    BY <1>1, <2>2, <2>3, StateMeans, StateNumbers DEF State, Fixed
  <2> QED
    BY <1>2, <1>4, <2>2, <2>4 DEF Phase
<1>8. CASE Queue(id)
  <2>1. ValidId(id) /\ State(id) = "Succeeded"
    BY <1>8 DEF Queue, InState
  <2>2. proposals'[id] = [proposals[id] EXCEPT !.eta = now + Timelock(id).delay]
    BY <1>6, <1>8 DEF Queue
  <2>3. /\ proposals'[id].eta = now + Timelock(id).delay
        /\ proposals'[id].canceled = proposals[id].canceled
        /\ proposals'[id].executed = proposals[id].executed
        /\ Approved(proposals'[id]) = Approved(proposals[id])
    BY <1>6, <2>2 DEF Proposal, Approved
  <2>4. Timelock(id).delay \in Nat
    <3>1. Timelock(id).delay \in MINIMUM_DELAY .. MAXIMUM_DELAY
      BY <1>6 DEF Timelock, TypeOK, TimelockType, Proposal
    <3> QED
      BY <3>1, TimelockAssumption
  <2>5. proposals'[id].eta # 0 /\ ~(now >= proposals'[id].eta + GRACE_PERIOD)
    BY <2>3, <2>4, StateNumbers, TimelockAssumption
  <2>6. /\ proposals[id].canceled = FALSE
        /\ block > proposals[id].endBlock
        /\ Approved(proposals[id]) /\ proposals[id].executed = FALSE
    BY <2>1, StateMeans, StateNumbers DEF Records, Sound
  <2>7. ~(block <= proposals[id].startBlock) /\ ~(block <= proposals[id].endBlock)
    BY <2>1, <2>6, StateNumbers DEF Records, Sound
  <2>8. State(id)' = "Queued"
    BY <1>1, <2>3, <2>5, <2>6, <2>7 DEF State, GraceOver, Fixed
  <2>9. <<Phase(id), Phase(id)'>> = <<"Succeeded", "Queued">>
    BY <1>2, <2>1, <2>8 DEF Phase
  <2> QED
    BY <1>5, <2>9 DEF Lifecycle!CallSteps
<1>9. CASE Execute(id)
  <2>1. ValidId(id) /\ State(id) = "Queued"
    BY <1>9 DEF Execute, InState
  <2>2. proposals' = [proposals EXCEPT ![id].executed = TRUE]
    BY <1>9 DEF Execute
  <2>3. proposals'[id] = [proposals[id] EXCEPT !.executed = TRUE]
    BY <1>6, <2>2
  <2>4. /\ proposals'[id].executed = TRUE
        /\ proposals'[id].eta = proposals[id].eta
        /\ proposals'[id].canceled = proposals[id].canceled
        /\ Approved(proposals'[id]) = Approved(proposals[id])
    BY <1>6, <2>3 DEF Proposal, Approved
  <2>5. State(id)' = "Executed"
    BY <1>1, <2>1, <2>4 DEF State, Fixed
  <2>6. <<Phase(id), Phase(id)'>> = <<"Queued", "Executed">>
    BY <1>2, <2>1, <2>5 DEF Phase
  <2> QED
    BY <1>5, <2>6 DEF Lifecycle!CallSteps
<1>10. CASE \E caller \in Accounts : Cancel(caller, id)
  <2>1. ValidId(id) /\ State(id) # "Executed"
    BY <1>10 DEF Cancel, Cancelable
  <2>2. proposals'[id].canceled
    BY <1>6, <1>10 DEF Cancel, Proposal
  <2>3. Phase(id)' = "Canceled" /\ Phase(id) \in Lifecycle!Phases \ {"None", "Executed"}
    BY <1>2, <2>1, <2>2, StateIsPhase DEF Phase, State
  <2> QED
    BY <1>4, <1>5, <2>3 DEF Lifecycle!CallSteps
<1> QED
  BY <1>7, <1>8, <1>9, <1>10

(* A block later, and at a later time, a proposal is in the same phase or in *)
(* the one that the end of a window brings it to.                            *)
LEMMA ClockMoves ==
    ASSUME TypeOK, Records, NEW seconds \in TimeSteps, MineBlock(seconds)
    PROVE  Lifecycle!Next
<1>1. /\ UNCHANGED <<initialProposalId, proposalCount, proposals>>
      /\ block' = block + 1 /\ now' = now + seconds /\ seconds \in Nat
  BY GovernorAssumption DEF MineBlock, proposalVars
<1>2. ASSUME NEW id \in ProposalIds
      PROVE  Phase(id)' = Phase(id) \/ <<Phase(id), Phase(id)'>> \in Lifecycle!ClockSteps
  <2>1. ValidId(id)' = ValidId(id)
    BY <1>1 DEF ValidId
  <2>2. CASE ~ValidId(id)
    BY <2>1, <2>2 DEF Phase
  <2>3. CASE ValidId(id)
    <3>1. /\ Phase(id) = State(id) /\ Phase(id)' = State(id)'
          /\ Sound(id)
      BY <2>1, <2>3 DEF Phase, Records
    <3>2. /\ block \in Nat /\ now \in Nat
          /\ proposals[id].startBlock \in Nat /\ proposals[id].endBlock \in Nat
          /\ proposals[id].eta \in Nat
          /\ proposals[id].startBlock < proposals[id].endBlock
          /\ proposals[id].eta # 0 => proposals[id].endBlock < block
      BY <3>1, StateNumbers DEF Sound
    <3>3. /\ block <= proposals[id].startBlock => block' <= proposals[id].endBlock
          /\ block' <= proposals[id].startBlock => block <= proposals[id].startBlock
          /\ block' <= proposals[id].endBlock => block <= proposals[id].endBlock
          /\ block <= proposals[id].endBlock => proposals[id].eta = 0
          /\ GraceOver(proposals[id]) => GraceOver(proposals[id])'
      BY <1>1, <3>2, TimelockAssumption DEF GraceOver
    <3>4. \/ State(id)' = State(id)
          \/ <<State(id), State(id)'>> \in Lifecycle!ClockSteps
      BY <1>1, <3>3 DEF State, Approved, Lifecycle!ClockSteps
    <3> QED
      BY <3>1, <3>4
  <2> QED
    BY <2>2, <2>3
<1> DEFINE phases == [i \in ProposalIds |-> Phase(i)]
<1>3. \A i \in ProposalIds : phases[i] = Phase(i) /\ phases'[i] = Phase(i)'
  OBVIOUS
<1>4. phases' = [i \in ProposalIds |-> phases'[i]]
  OBVIOUS
<1> HIDE DEF phases
<1>5. \A i \in ProposalIds :
         phases'[i] = phases[i] \/ <<phases[i], phases'[i]>> \in Lifecycle!ClockSteps
  BY <1>2, <1>3
<1> QED
  BY <1>4, <1>5 DEF Lifecycle!Next, Lifecycle!Clock, phases

(* GovernorBravoDelegate.sol state(): whatever is called and whenever blocks *)
(* are mined, proposals go through their phases as ProposalLifecycle says.   *)
THEOREM ImplementsLifecycle == Spec => FollowsLifecycle
<1>1. Init => Lifecycle!Init
  <2> SUFFICES ASSUME Init
               PROVE  [id \in ProposalIds |-> Phase(id)] = [id \in ProposalIds |-> "None"]
    BY DEF Lifecycle!Init
  <2>1. \A id \in ProposalIds : ~ValidId(id)
    BY Constants DEF Init, ValidId
  <2> QED
    BY <2>1 DEF Phase
<1>2. TypeOK /\ TypeOK' /\ Foundation /\ Records /\ [Next]_vars =>
         [Lifecycle!Next]_[id \in ProposalIds |-> Phase(id)]
  <2> SUFFICES ASSUME TypeOK, TypeOK', Foundation, Records, [Next]_vars
               PROVE  Lifecycle!Next \/ UNCHANGED [id \in ProposalIds |-> Phase(id)]
    OBVIOUS
  <2>1. CASE UNCHANGED <<initialProposalId, proposalCount, proposals, block, now>>
    <3>1. \A id \in ProposalIds : Phase(id)' = Phase(id)
      BY <2>1, SamePhase DEF ValidId
    <3> QED
      BY <3>1, NoneMoves
  <2>2. CASE \E caller \in Accounts, alphaCount \in AlphaCounts : Initiate(caller, alphaCount)
    <3>1. \A id \in ProposalIds : Phase(id) = "None" /\ Phase(id)' = "None"
      BY <2>2, InitiateRecords DEF Phase
    <3> QED
      BY <3>1, NoneMoves
  <2>3. AdminNext => \/ UNCHANGED <<initialProposalId, proposalCount, proposals, block, now>>
                     \/ \E caller \in Accounts, alphaCount \in AlphaCounts :
                           Initiate(caller, alphaCount)
    BY DEF AdminNext, Initialize, SetValidationParams, SetProposalConfigs,
           SetProposalMaxOperations, SetGuardian, SetPendingAdmin, AcceptAdmin, proposalVars,
           chainVars
  <2>4. CASE ProposalNext
    BY <2>4, ProposeMoves, ProposalMoves DEF ProposalNext
  <2>5. CASE \E seconds \in TimeSteps : MineBlock(seconds)
    BY <2>5, ClockMoves
  <2>7. TimelockNext => UNCHANGED <<initialProposalId, proposalCount, proposals, block, now>>
    BY TimelockSteps DEF proposalVars, chainVars
  <2>6. UNCHANGED vars => UNCHANGED <<initialProposalId, proposalCount, proposals, block, now>>
    BY DEF vars, proposalVars, chainVars
  <2> QED
    BY <2>1, <2>2, <2>3, <2>4, <2>5, <2>6, <2>7 DEF Next
<1> QED
  BY <1>1, <1>2, TypeCorrect, FoundationInvariant, RecordsInvariant, PTL
  DEF Spec, FollowsLifecycle, Lifecycle!Spec
=============================================================================
