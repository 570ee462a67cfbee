---------------------------- MODULE GovernorBravo ----------------------------
(***************************************************************************)
(* GovernorBravoDelegate.sol together with the timelocks it drives, one    *)
(* per governance route (NORMAL, FASTTRACK, CRITICAL).  Whoever else is,   *)
(* or becomes, the admin of a timelock calls it directly.                  *)
(*                                                                         *)
(* A step is one transaction, or the mining of a block.  Any account may   *)
(* call any function; what stops it is the guard the code has.  A call     *)
(* that reverts changes nothing, so it is no step.  Transactions of one    *)
(* block see the same block number and timestamp; a new block raises the   *)
(* number by one and the timestamp by a step that may be zero.             *)
(*                                                                         *)
(* The vote history of XvsVault is chosen once: getPriorVotes answers for  *)
(* past blocks only, and the past does not change.                         *)
(***************************************************************************)
EXTENDS Integers, Sequences, FiniteSetsExt, TimelockOps

CONSTANTS
    Accounts,                \* externally owned accounts and contracts
    Governor,                \* the address of the GovernorBravo proxy
    Routes,                  \* the governance routes (ProposalType)
    NORMAL,                  \* the route numbered 0
    Actions,                 \* (target, value, signature, data) tuples
    ActionLists,             \* the action lists proposers submit
    DelayCalls,              \* Actions -> Nat: d # 0 if the action is setDelay(d)
                             \* on the timelock that executes it
    AdminCalls,              \* the actions that are setPendingAdmin(account) on
                             \* the timelock that executes them -> account
    quorumVotes,
    MIN_PROPOSAL_THRESHOLD,
    MAX_PROPOSAL_THRESHOLD,
    InitialAdmin,            \* the admin the proxy is deployed with
    InitialGuardian,
    InitialDelays,           \* Routes -> the delay each timelock starts with
    AlphaCounts,             \* proposal counts _initiate may read
    ValidationChoices,       \* arguments of setValidationParams
    ConfigChoices,           \* arguments of setProposalConfigs
    AdminChoices,            \* arguments of _setPendingAdmin
    GuardianChoices,         \* arguments of _setGuardian
    MaxOperationsChoices,    \* arguments of _setProposalMaxOperations
    VoteHistories,           \* Accounts -> block -> prior votes
    TimeSteps,               \* seconds between two blocks
    MaxProposals, MaxBlock, MaxTime   \* bounds of the model

VARIABLES
    initialized,             \* whether proposalTimelocks is set
    admin, pendingAdmin, guardian,
    initialProposalId, proposalCount,
    inherited,               \* history variable: route -> what its timelock had
                             \* queued when the governor took it over
    proposals,               \* proposal id -> the stored proposal
    receipts,                \* proposal id -> voter -> ballot receipt
    latestProposalIds,       \* proposer -> its latest proposal, 0 if none
    proposalMaxOperations, proposalConfigs, validationParams,
    timelocks,               \* route -> its timelock
    priorVotes,              \* XvsVault's history
    block, now,              \* block.number and block.timestamp
    history                  \* history variable: when id was queued, executed

adminVars == <<initialized, admin, pendingAdmin, guardian>>
configVars == <<proposalMaxOperations, proposalConfigs, validationParams>>
proposalVars == <<initialProposalId, inherited, proposalCount, proposals, receipts,
                  latestProposalIds, history>>
chainVars == <<block, now>>
vars == <<adminVars, configVars, proposalVars, timelocks, priorVotes, chainVars>>

-----------------------------------------------------------------------------
ProposalIds == 1 .. MaxProposals
Blocks == 0 .. MaxBlock
Times == 0 .. MaxTime
Addresses == Accounts \cup {Governor}
Etas == 0 .. MaxTime + MAXIMUM_DELAY
Transactions == [action : Actions, eta : Etas]

Proposal ==
    [proposer : Accounts \cup {ZeroAddress}, eta : Etas,
     actions : ActionLists \cup {<<>>},
     startBlock : Nat, endBlock : Nat,
     forVotes : Nat, againstVotes : Nat, abstainVotes : Nat,
     canceled : BOOLEAN, executed : BOOLEAN,
     proposalType : Routes]

Support == 0 .. 2
Against == 0
For == 1
Abstain == 2

Receipt == [hasVoted : BOOLEAN, support : Support, votes : Nat]
NoReceipt == [hasVoted |-> FALSE, support |-> Against, votes |-> 0]

ValidationParams ==
    [minVotingPeriod : Nat, maxVotingPeriod : Nat,
     minVotingDelay : Nat, maxVotingDelay : Nat]
ProposalConfig == [votingDelay : Nat, votingPeriod : Nat, proposalThreshold : Nat]

ASSUME GovernorAssumption ==
    /\ Governor \notin Accounts
    /\ ZeroAddress \notin Addresses
    /\ InitialAdmin \in Accounts
    /\ InitialGuardian \in Accounts
    /\ NORMAL \in Routes
    /\ ActionLists \subseteq Seq(Actions)
    /\ DelayCalls \in [Actions -> Nat]
    /\ DOMAIN AdminCalls \subseteq Actions
    /\ \A a \in DOMAIN AdminCalls : AdminCalls[a] \in Addresses \cup {ZeroAddress}
    /\ quorumVotes \in Nat \ {0}
    /\ MIN_PROPOSAL_THRESHOLD \in Nat \ {0}
    /\ MAX_PROPOSAL_THRESHOLD \in Nat
    /\ InitialDelays \in [Routes -> MINIMUM_DELAY .. MAXIMUM_DELAY]
    /\ AlphaCounts \subseteq Nat
    /\ ValidationChoices \subseteq ValidationParams
    /\ ConfigChoices \subseteq [Routes -> ProposalConfig]
    /\ AdminChoices \subseteq Accounts \cup {ZeroAddress}
    /\ GuardianChoices \subseteq Accounts
    /\ MaxOperationsChoices \subseteq Nat
    /\ VoteHistories \subseteq [Accounts -> [Blocks -> Nat]]
    /\ TimeSteps \subseteq Nat
    /\ MaxProposals \in Nat
    /\ MaxBlock \in Nat \ {0}
    /\ MaxTime \in Nat \ {0}

-----------------------------------------------------------------------------
(* state(proposalId) *)

ValidId(id) == id \in ProposalIds /\ initialProposalId < id /\ id <= proposalCount

(* Mutant: no quorum. *)
ApprovedWithoutQuorum(p) == p.forVotes > p.againstVotes

Approved(p) == p.forVotes > p.againstVotes /\ p.forVotes >= quorumVotes

(* The governor's grace period ends one second before the timelock's. *)
GraceOver(p) == now >= p.eta + GRACE_PERIOD

State(id) ==
    LET p == proposals[id] IN
    IF p.canceled THEN "Canceled"
    ELSE IF block <= p.startBlock THEN "Pending"
    ELSE IF block <= p.endBlock THEN "Active"
    ELSE IF ~Approved(p) THEN "Defeated"
    ELSE IF p.eta = 0 THEN "Succeeded"
    ELSE IF p.executed THEN "Executed"
    ELSE IF GraceOver(p) THEN "Expired"
    ELSE "Queued"

InState(id, state) == ValidId(id) /\ State(id) = state

Live(id) == ValidId(id) /\ State(id) \in {"Pending", "Active"}

Timelock(id) == timelocks[proposals[id].proposalType]

(* The transactions of proposal id when it is queued for eta. *)
TxsOf(id, eta) ==
    {Tx(proposals[id].actions[i], eta) : i \in DOMAIN proposals[id].actions}

NoDuplicates(list) ==
    \A i, j \in DOMAIN list : list[i] = list[j] => i = j

(* Mutant: only duplicates within the proposal are looked for. *)
NoneTwiceInProposal(id, eta) == NoDuplicates(proposals[id].actions)

(* queueOrRevertInternal, for each action in turn: one that is queued at     *)
(* this eta already, by this proposal or another, reverts the whole call.    *)
NoneQueuedYet(id, eta) ==
    /\ NoDuplicates(proposals[id].actions)
    /\ TxsOf(id, eta) \cap Timelock(id).queuedTransactions = {}

-----------------------------------------------------------------------------
(* Deployment: the proxy has an admin, who administers the timelocks until   *)
(* _initiate accepts them for the governor, whatever is queued by then.      *)

NoValidationParams ==
    [minVotingPeriod |-> 0, maxVotingPeriod |-> 0,
     minVotingDelay |-> 0, maxVotingDelay |-> 0]
NoConfig == [votingDelay |-> 0, votingPeriod |-> 0, proposalThreshold |-> 0]
NoProposal(route) ==
    [proposer |-> ZeroAddress, eta |-> 0, actions |-> <<>>,
     startBlock |-> 0, endBlock |-> 0,
     forVotes |-> 0, againstVotes |-> 0, abstainVotes |-> 0,
     canceled |-> FALSE, executed |-> FALSE, proposalType |-> route]

Init ==
    /\ initialized = FALSE
    /\ admin = InitialAdmin
    /\ pendingAdmin = ZeroAddress
    /\ guardian = ZeroAddress
    /\ initialProposalId = 0
    /\ inherited = [r \in Routes |-> {}]
    /\ proposalCount = 0
    /\ proposals = [id \in ProposalIds |-> NoProposal(NORMAL)]
    /\ receipts = [id \in ProposalIds |-> [a \in Accounts |-> NoReceipt]]
    /\ latestProposalIds = [a \in Accounts |-> 0]
    /\ proposalMaxOperations = 0
    /\ proposalConfigs = [r \in Routes |-> NoConfig]
    /\ validationParams = NoValidationParams
    /\ timelocks = [r \in Routes |->
                      WithPendingAdmin(NewTimelock(InitialAdmin, InitialDelays[r]), Governor)]
    /\ priorVotes \in VoteHistories
    /\ block = 1
    /\ now = 1
    /\ history = [id \in ProposalIds |-> [queuedAt |-> 0, executedAt |-> 0]]

ValidParams(params) ==
    /\ params.minVotingPeriod > 0
    /\ params.minVotingDelay > 0
    /\ params.minVotingDelay < params.maxVotingDelay
    /\ params.minVotingPeriod < params.maxVotingPeriod

ParamsConfigured(params) ==
    /\ params.minVotingPeriod > 0
    /\ params.maxVotingPeriod > 0
    /\ params.minVotingDelay > 0
    /\ params.maxVotingDelay > 0

ValidConfig(config, params) ==
    /\ config.votingPeriod \in params.minVotingPeriod .. params.maxVotingPeriod
    /\ config.votingDelay \in params.minVotingDelay .. params.maxVotingDelay
    /\ config.proposalThreshold \in MIN_PROPOSAL_THRESHOLD .. MAX_PROPOSAL_THRESHOLD

ValidConfigs(configs, params) ==
    /\ ParamsConfigured(params)
    /\ \A r \in Routes : ValidConfig(configs[r], params)

(* initialize: it calls setValidationParams and setProposalConfigs itself. *)
Initialize(caller, params, configs) ==
    /\ ~initialized
    /\ caller = admin
    /\ ValidParams(params)
    /\ ValidConfigs(configs, params)
    /\ initialized' = TRUE
    /\ guardian' = InitialGuardian
    /\ proposalMaxOperations' = 10
    /\ validationParams' = params
    /\ proposalConfigs' = configs
    /\ UNCHANGED <<admin, pendingAdmin, proposalVars, timelocks, priorVotes, chainVars>>

(* Mutant: the acceptAdmin calls are missing. *)
HandedOverLater(tls) == tls

HandedOver(tls) == [r \in Routes |-> WithAcceptedAdmin(tls[r], Governor)]

(* _initiate: the ids go on from those of the old governor, and the governor *)
(* becomes admin of every timelock, with what is queued there.               *)
Initiate(caller, alphaCount) ==
    /\ initialized
    /\ caller = admin
    /\ initialProposalId = 0
    /\ \A r \in Routes : MayAcceptAdmin(timelocks[r], Governor)
    /\ proposalCount' = alphaCount
    /\ initialProposalId' = alphaCount
    /\ timelocks' = HandedOver(timelocks)
    /\ inherited' = [r \in Routes |-> timelocks[r].queuedTransactions]
    /\ UNCHANGED <<adminVars, configVars, proposals, receipts, latestProposalIds,
                   history, priorVotes, chainVars>>

-----------------------------------------------------------------------------
(* Parameters and roles *)

SetValidationParams(caller, params) ==
    /\ caller = admin
    /\ ValidParams(params)
    /\ validationParams' = params
    /\ UNCHANGED <<adminVars, proposalMaxOperations, proposalConfigs, proposalVars,
                   timelocks, priorVotes, chainVars>>

SetProposalConfigs(caller, configs) ==
    /\ caller = admin
    /\ ValidConfigs(configs, validationParams)
    /\ proposalConfigs' = configs
    /\ UNCHANGED <<adminVars, proposalMaxOperations, validationParams, proposalVars,
                   timelocks, priorVotes, chainVars>>

SetProposalMaxOperations(caller, operations) ==
    /\ caller = admin
    /\ proposalMaxOperations' = operations
    /\ UNCHANGED <<adminVars, proposalConfigs, validationParams, proposalVars,
                   timelocks, priorVotes, chainVars>>

SetGuardian(caller, account) ==
    /\ caller = guardian \/ caller = admin
    /\ guardian' = account
    /\ UNCHANGED <<initialized, admin, pendingAdmin, configVars, proposalVars,
                   timelocks, priorVotes, chainVars>>

SetPendingAdmin(caller, account) ==
    /\ caller = admin
    /\ pendingAdmin' = account
    /\ UNCHANGED <<initialized, admin, guardian, configVars, proposalVars,
                   timelocks, priorVotes, chainVars>>

AcceptAdmin(caller) ==
    /\ caller = pendingAdmin
    /\ admin' = pendingAdmin
    /\ pendingAdmin' = ZeroAddress
    /\ UNCHANGED <<initialized, guardian, configVars, proposalVars,
                   timelocks, priorVotes, chainVars>>

-----------------------------------------------------------------------------
(* Proposals *)

AboveThreshold(account, route) ==
    priorVotes[account][block - 1] >= proposalConfigs[route].proposalThreshold

(* Mutant: a pending proposal does not stop the next one. *)
NoActiveProposal(proposer) ==
    LET latest == latestProposalIds[proposer] IN
    latest # 0 => State(latest) # "Active"

NoLiveProposal(proposer) ==
    LET latest == latestProposalIds[proposer] IN
    latest # 0 => State(latest) \notin {"Active", "Pending"}

Propose(proposer, route, actions) ==
    /\ initialProposalId # 0
    /\ AboveThreshold(proposer, route)
    /\ actions # <<>>
    /\ Len(actions) <= proposalMaxOperations
    /\ NoLiveProposal(proposer)
    /\ proposalCount < MaxProposals
    /\ LET id == proposalCount + 1
           startBlock == block + proposalConfigs[route].votingDelay
       IN  /\ proposalCount' = id
           /\ proposals' = [proposals EXCEPT ![id] =
                 [NoProposal(route) EXCEPT
                    !.proposer = proposer,
                    !.actions = actions,
                    !.startBlock = startBlock,
                    !.endBlock = startBlock + proposalConfigs[route].votingPeriod]]
           /\ latestProposalIds' = [latestProposalIds EXCEPT ![proposer] = id]
    /\ UNCHANGED <<adminVars, configVars, initialProposalId, inherited, receipts, history,
                   timelocks, priorVotes, chainVars>>

(* Mutant: the vote stays open until the proposal is queued. *)
VotingIsOpenUntilQueued(id) == InState(id, "Active") \/ InState(id, "Succeeded")

VotingIsOpen(id) == InState(id, "Active")

VotingPower(voter, id) == priorVotes[voter][proposals[id].startBlock]

WithVotes(p, support, votes) ==
    CASE support = For     -> [p EXCEPT !.forVotes = @ + votes]
      [] support = Against -> [p EXCEPT !.againstVotes = @ + votes]
      [] support = Abstain -> [p EXCEPT !.abstainVotes = @ + votes]

(* castVoteInternal, which the three castVote functions end in. *)
CastVote(voter, id, support) ==
    LET votes == VotingPower(voter, id) IN
    /\ VotingIsOpen(id)
    /\ ~receipts[id][voter].hasVoted
    /\ proposals' = [proposals EXCEPT ![id] = WithVotes(@, support, votes)]
    /\ receipts' = [receipts EXCEPT ![id][voter] =
          [hasVoted |-> TRUE, support |-> support, votes |-> votes]]
    /\ UNCHANGED <<adminVars, configVars, initialProposalId, inherited, proposalCount,
                   latestProposalIds, history, timelocks, priorVotes, chainVars>>

Queue(id) ==
    LET eta == now + Timelock(id).delay
        txs == TxsOf(id, eta)
    IN
    /\ InState(id, "Succeeded")
    /\ NoneQueuedYet(id, eta)
    /\ \A tx \in txs : MayQueue(Timelock(id), Governor, tx, now)
    /\ timelocks' = [timelocks EXCEPT ![proposals[id].proposalType] = WithQueued(@, txs)]
    /\ proposals' = [proposals EXCEPT ![id].eta = eta]
    /\ history' = [history EXCEPT ![id].queuedAt = now]
    /\ UNCHANGED <<adminVars, configVars, initialProposalId, inherited, proposalCount,
                   receipts, latestProposalIds, priorVotes, chainVars>>

(* The delay in force once the actions of a list have been executed: that of *)
(* the last setDelay call in it, or the old one.                             *)
DelaysAfter(actions, delay) ==
    LET calls == {i \in DOMAIN actions : DelayCalls[actions[i]] # 0}
        last == {i \in calls : \A j \in calls : j <= i}
    IN  IF calls = {} THEN {delay} ELSE {DelayCalls[actions[i]] : i \in last}

(* The pending admin likewise, by the last setPendingAdmin call.             *)
PendingAdminsAfter(actions, account) ==
    LET calls == {i \in DOMAIN actions : actions[i] \in DOMAIN AdminCalls}
        last == {i \in calls : \A j \in calls : j <= i}
    IN  IF calls = {} THEN {account} ELSE {AdminCalls[actions[i]] : i \in last}

(* A setDelay out of bounds reverts, and with it whatever executes it.       *)
CallsSucceed(txs) ==
    \A tx \in txs : DelayCalls[tx.action] # 0 => ValidDelay(DelayCalls[tx.action])

(* What the calls of a list, made by a timelock, leave that timelock in.     *)
AfterCalls(tl, actions) ==
    {WithPendingAdmin(WithDelay(tl, delay), account) :
        delay \in DelaysAfter(actions, tl.delay),
        account \in PendingAdminsAfter(actions, tl.pendingAdmin)}

(* Every action is executed by the timelock in one transaction; any call     *)
(* that fails makes it all revert.                                           *)
Execute(id) ==
    LET p == proposals[id]
        txs == TxsOf(id, p.eta)
    IN
    /\ InState(id, "Queued")
    /\ NoDuplicates(p.actions)
    /\ \A tx \in txs : MayExecute(Timelock(id), Governor, tx, now)
    /\ CallsSucceed(txs)
    /\ proposals' = [proposals EXCEPT ![id].executed = TRUE]
    /\ \E tl \in AfterCalls(WithoutQueued(Timelock(id), txs), p.actions) :
          timelocks' = [timelocks EXCEPT ![p.proposalType] = tl]
    /\ history' = [history EXCEPT ![id].executedAt = now]
    /\ UNCHANGED <<adminVars, configVars, initialProposalId, inherited, proposalCount,
                   receipts, latestProposalIds, priorVotes, chainVars>>

(* Mutant: an executed proposal can be canceled. *)
AlwaysCancelable(id) == ValidId(id)

Cancelable(id) == ValidId(id) /\ State(id) # "Executed"

MayCancelProposal(caller, id) ==
    \/ caller = guardian
    \/ caller = proposals[id].proposer
    \/ ~AboveThreshold(proposals[id].proposer, proposals[id].proposalType)

(* Mutant: cancel leaves the timelock alone. *)
AfterCancelKeepsQueue(tl, id) == tl

AfterCancel(tl, id) == WithoutQueued(tl, TxsOf(id, proposals[id].eta))

Cancel(caller, id) ==
    /\ Cancelable(id)
    /\ MayCancelProposal(caller, id)
    /\ MayCancel(Timelock(id), Governor)
    /\ proposals' = [proposals EXCEPT ![id].canceled = TRUE]
    /\ timelocks' = [timelocks EXCEPT ![proposals[id].proposalType] =
                        AfterCancel(@, id)]
    /\ UNCHANGED <<adminVars, configVars, initialProposalId, inherited, proposalCount,
                   receipts, latestProposalIds, history, priorVotes, chainVars>>

-----------------------------------------------------------------------------
(* A timelock called directly, by an account: the deployer before _initiate, *)
(* and whoever an executed proposal named by setPendingAdmin.  The governor  *)
(* itself accepts a timelock in _initiate only.                              *)

TimelockAcceptAdmin(caller, route) ==
    /\ MayAcceptAdmin(timelocks[route], caller)
    /\ timelocks' = [timelocks EXCEPT ![route] = WithAcceptedAdmin(@, caller)]
    /\ UNCHANGED <<adminVars, configVars, proposalVars, priorVotes, chainVars>>

TimelockQueue(caller, route, tx) ==
    /\ MayQueue(timelocks[route], caller, tx, now)
    /\ timelocks' = [timelocks EXCEPT ![route] = WithQueued(@, {tx})]
    /\ UNCHANGED <<adminVars, configVars, proposalVars, priorVotes, chainVars>>

TimelockCancel(caller, route, tx) ==
    /\ MayCancel(timelocks[route], caller)
    /\ timelocks' = [timelocks EXCEPT ![route] = WithoutQueued(@, {tx})]
    /\ UNCHANGED <<adminVars, configVars, proposalVars, priorVotes, chainVars>>

TimelockExecute(caller, route, tx) ==
    /\ MayExecute(timelocks[route], caller, tx, now)
    /\ CallsSucceed({tx})
    /\ \E tl \in AfterCalls(WithoutQueued(timelocks[route], {tx}), <<tx.action>>) :
          timelocks' = [timelocks EXCEPT ![route] = tl]
    /\ UNCHANGED <<adminVars, configVars, proposalVars, priorVotes, chainVars>>

-----------------------------------------------------------------------------
MineBlock(seconds) ==
    /\ block < MaxBlock
    /\ now + seconds <= MaxTime
    /\ block' = block + 1
    /\ now' = now + seconds
    /\ UNCHANGED <<adminVars, configVars, proposalVars, timelocks, priorVotes>>

AdminNext ==
    \E caller \in Accounts :
        \/ \E params \in ValidationChoices, configs \in ConfigChoices :
              Initialize(caller, params, configs)
        \/ \E alphaCount \in AlphaCounts : Initiate(caller, alphaCount)
        \/ \E params \in ValidationChoices : SetValidationParams(caller, params)
        \/ \E configs \in ConfigChoices : SetProposalConfigs(caller, configs)
        \/ \E n \in MaxOperationsChoices : SetProposalMaxOperations(caller, n)
        \/ \E account \in GuardianChoices : SetGuardian(caller, account)
        \/ \E account \in AdminChoices : SetPendingAdmin(caller, account)
        \/ AcceptAdmin(caller)

ProposalNext ==
    \/ \E proposer \in Accounts, route \in Routes, actions \in ActionLists :
          Propose(proposer, route, actions)
    \/ \E voter \in Accounts, id \in ProposalIds, support \in Support :
          CastVote(voter, id, support)
    \/ \E id \in ProposalIds : Queue(id)
    \/ \E id \in ProposalIds : Execute(id)
    \/ \E caller \in Accounts, id \in ProposalIds : Cancel(caller, id)

TimelockNext ==
    \E caller \in Accounts, route \in Routes :
        \/ TimelockAcceptAdmin(caller, route)
        \/ \E tx \in Transactions :
              \/ TimelockQueue(caller, route, tx)
              \/ TimelockCancel(caller, route, tx)
              \/ TimelockExecute(caller, route, tx)

Next ==
    \/ AdminNext
    \/ ProposalNext
    \/ TimelockNext
    \/ \E seconds \in TimeSteps : MineBlock(seconds)

Spec == Init /\ [][Next]_vars

-----------------------------------------------------------------------------
(* Properties *)

TypeOK ==
    /\ initialized \in BOOLEAN
    /\ admin \in Accounts
    /\ pendingAdmin \in Accounts \cup {ZeroAddress}
    /\ guardian \in Accounts \cup {ZeroAddress}
    /\ initialProposalId \in Nat
    /\ inherited \in [Routes -> SUBSET Transactions]
    /\ proposalCount \in Nat
    /\ proposals \in [ProposalIds -> Proposal]
    /\ receipts \in [ProposalIds -> [Accounts -> Receipt]]
    /\ latestProposalIds \in [Accounts -> {0} \cup ProposalIds]
    /\ proposalMaxOperations \in Nat
    /\ proposalConfigs \in [Routes -> ProposalConfig]
    /\ validationParams \in ValidationParams
    /\ timelocks \in [Routes -> TimelockType(Addresses, Transactions)]
    /\ priorVotes \in [Accounts -> [Blocks -> Nat]]
    /\ block \in Blocks \ {0}
    /\ now \in Times \ {0}
    /\ history \in [ProposalIds -> [queuedAt : Times, executedAt : Times]]

(* A proposer never has two proposals that are pending or being voted on.    *)
(* propose looks only at the proposer's latest proposal to establish it.     *)
OneLiveProposalPerProposer ==
    \A p, q \in ProposalIds :
        Live(p) /\ Live(q) /\ proposals[p].proposer = proposals[q].proposer => p = q

(* Every transaction that a timelock of the governor would execute is one of *)
(* a proposal that was queued for that very eta and is neither canceled nor  *)
(* executed, or was queued before the governor took the timelock over.  So   *)
(* what is canceled or done can never run: queue, cancel and execute keep    *)
(* the governor's records and the timelocks' together.                       *)
Owns(id, route, tx) ==
    /\ ValidId(id)
    /\ proposals[id].proposalType = route
    /\ proposals[id].eta = tx.eta /\ tx.eta # 0
    /\ tx \in TxsOf(id, tx.eta)
    /\ ~proposals[id].canceled
    /\ ~proposals[id].executed

Governed(route) == timelocks[route].admin = Governor

NoOrphanTransactions ==
    \A route \in Routes : Governed(route) =>
        \A tx \in timelocks[route].queuedTransactions \ inherited[route] :
            \E id \in ProposalIds : Owns(id, route, tx)

(* While the governor administers its timelock, a queued proposal has all    *)
(* its transactions there and can be executed once its eta has passed        *)
(* (execute's comment).  It fails: cancel accepts a proposal that is         *)
(* canceled already and clears the hashes again, which another proposal may  *)
(* have queued since.                                                        *)
Standing(id) == InState(id, "Queued") /\ Governed(proposals[id].proposalType)

QueuedIsBacked ==
    \A id \in ProposalIds : Standing(id) =>
        TxsOf(id, proposals[id].eta) \subseteq Timelock(id).queuedTransactions

(* What does hold: as long as no proposal handed the timelock on, a queued   *)
(* proposal lacks a transaction only if a canceled proposal of its route has *)
(* that transaction too.                                                     *)
TwinCanceled(route, tx) ==
    \E twin \in ProposalIds :
        /\ InState(twin, "Canceled")
        /\ proposals[twin].proposalType = route
        /\ proposals[twin].eta = tx.eta
        /\ tx \in TxsOf(twin, tx.eta)

BackedUnlessTwinCanceled ==
    \A id \in ProposalIds : Standing(id) =>
        \A tx \in TxsOf(id, proposals[id].eta) \ Timelock(id).queuedTransactions :
            TwinCanceled(proposals[id].proposalType, tx)

(* Two proposals with a common action never hold one hash together, so that  *)
(* neither executes or clears the other's transaction, again unless a        *)
(* canceled proposal of the route has it too.                                *)
ExclusiveUnlessTwinCanceled ==
    \A p, q \in ProposalIds : p # q =>
        LET route == proposals[p].proposalType IN
        \A tx \in TxsOf(p, proposals[p].eta) :
            Owns(p, route, tx) /\ Owns(q, route, tx) => TwinCanceled(route, tx)

(* What executed was approved by a quorum and a majority in a vote that had  *)
(* ended, and was not canceled, at that time or later.                       *)
ExecutedWasApproved ==
    \A id \in ProposalIds : proposals[id].executed =>
        /\ ValidId(id)
        /\ ~proposals[id].canceled
        /\ proposals[id].forVotes > proposals[id].againstVotes
        /\ proposals[id].forVotes >= quorumVotes
        /\ proposals[id].eta # 0
        /\ proposals[id].endBlock < block

(* Nobody executes a proposal before the eta announced when it was queued,   *)
(* which is no sooner than the shortest delay of any timelock after that,    *)
(* whatever became of the delay in between, nor after its grace period.      *)
ExecutionWaited ==
    \A id \in ProposalIds : proposals[id].executed =>
        /\ proposals[id].eta >= history[id].queuedAt + MINIMUM_DELAY
        /\ history[id].executedAt >= proposals[id].eta
        /\ history[id].executedAt < proposals[id].eta + GRACE_PERIOD

(* No proposal that exists is ever overwritten: its proposer, its actions,   *)
(* its route and its voting window stay as proposed, whatever the            *)
(* configuration becomes, its result stays as it was when voting ended, and  *)
(* its eta as it was announced, whatever the delay of the timelock becomes.  *)
Terms(id) ==
    LET p == proposals[id] IN
    <<p.proposer, p.actions, p.proposalType, p.startBlock, p.endBlock>>
Tallies(id) ==
    LET p == proposals[id] IN <<p.forVotes, p.againstVotes, p.abstainVotes>>

TermsAndResultsAreFinal ==
    [][\A id \in ProposalIds : ValidId(id) =>
          /\ ValidId(id)'
          /\ Terms(id)' = Terms(id)
          /\ State(id) # "Active" => Tallies(id)' = Tallies(id)
          /\ proposals[id].eta # 0 => proposals'[id].eta = proposals[id].eta]_vars

(* Once proposals can be made, a timelock leaves the governor's hands only   *)
(* by the governor's own decision: the admin is the governor, and whoever it *)
(* waits for is named by an executed proposal of that very route, or such a  *)
(* proposal named the first of the accounts it was handed on to.             *)
NamedAdmins(route) ==
    {account \in Addresses : \E id \in ProposalIds :
        /\ ValidId(id)
        /\ proposals[id].executed
        /\ proposals[id].proposalType = route
        /\ \E i \in DOMAIN proposals[id].actions :
              /\ proposals[id].actions[i] \in DOMAIN AdminCalls
              /\ AdminCalls[proposals[id].actions[i]] = account}

HandedOnByProposalOnly(route) ==
    IF Governed(route)
    THEN timelocks[route].pendingAdmin \in NamedAdmins(route) \cup {ZeroAddress}
    ELSE NamedAdmins(route) \cap Accounts # {}

GovernorControlsTimelocks ==
    initialProposalId # 0 => \A r \in Routes : HandedOnByProposalOnly(r)

(* Whatever parameters and configurations were set in whatever order, every  *)
(* proposal can be voted on during at least one block.                       *)
VotingWindowsAreReal ==
    \A id \in ProposalIds : ValidId(id) =>
        proposals[id].startBlock < proposals[id].endBlock

-----------------------------------------------------------------------------
(* The lifecycle the governor implements: the phase of a proposal is what    *)
(* state() reports, and None while state() reverts.                          *)
Phase(id) == IF ValidId(id) THEN State(id) ELSE "None"

Lifecycle ==
    INSTANCE ProposalLifecycle
        WITH Ids <- ProposalIds, phase <- [id \in ProposalIds |-> Phase(id)]

(* Every step of the governor moves the proposals as ProposalLifecycle says: *)
(* no vote is skipped, no result is revised, no executed proposal canceled,  *)
(* no expired one executed, and a call touches no proposal but its own.      *)
FollowsLifecycle == Lifecycle!Spec
=============================================================================
