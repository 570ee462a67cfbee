--------------------- MODULE OmnichainGovernanceExecutor ---------------------
(***************************************************************************)
(* OmnichainGovernanceExecutor.sol with its base                           *)
(* BaseOmnichainControllerDest, the TimelockV8 contracts it drives, and    *)
(* what it inherits from LayerZero's NonblockingLzApp (external).          *)
(*                                                                         *)
(* The endpoint (external) hands over the messages of the inbox in order.  *)
(* If lzReceive itself reverts, the endpoint keeps the message and all     *)
(* later ones behind it until anybody retries it or the executor's owner   *)
(* drops it.  If only the processing inside reverts, the executor keeps    *)
(* the hash of the message, to be retried, and the next one can come.      *)
(*                                                                         *)
(* A step is one transaction, or the passing of time; a call that reverts  *)
(* is no step.  The owner is OmnichainExecutorOwner, which forwards what   *)
(* the access control manager allows, so the owner's calls come at any     *)
(* time.  A delivery may always fail for want of gas.                      *)
(***************************************************************************)
EXTENDS Integers, Sequences, FiniteSetsExt, TimelockOps, DailyWindow

CONSTANTS
    Executor,            \* the address of the executor
    Accounts,            \* the other callers
    Routes,              \* the proposal types the contract accepts, 0 .. 2
    Actions, Payloads,
    DelayCalls,          \* Actions -> Nat: d # 0 if the action is setDelay(d)
                         \* on the timelock that executes it
    TimelockIds,         \* addresses of timelocks
    InitialTimelocks,    \* Routes -> TimelockIds
    InitialDelays,       \* TimelockIds -> the delay each is deployed with
    InitialGuardian,
    TimelockChoices,     \* arguments of addTimelocks
    AdminChoices,        \* arguments of setTimelockPendingAdmin
    GuardianChoices,     \* arguments of setGuardian
    ChainIds, Source,    \* endpoint ids, and that of the source chain
    Limits,              \* arguments of setMaxDailyReceiveLimit
    TrustChoices,        \* whether the trusted remote may become the sender,
                         \* or another address
    Inboxes,             \* sequences of messages the source chain sends
    TimeSteps,           \* seconds between two blocks
    MaxProposals, MaxTime     \* bounds of the model

VARIABLES
    paused,
    trusted,             \* whether trustedRemoteLookup[Source] is the sender
    srcChainId, guardian,
    maxDailyReceiveLimit,
    receiveWindow,       \* last24HourReceiveWindowStart and
                         \* last24HourCommandsReceived
    lastProposalReceived,
    proposals,           \* id -> the stored proposal
    queued,              \* the ids whose queued flag is set
    proposalTimelocks,   \* route -> address of its timelock
    timelocks,           \* address -> timelock
    failedMessages,      \* the nonces for which a payload hash is stored
    inboundNonce,        \* the messages the endpoint is done with
    blocked,             \* whether the endpoint keeps the next one
    inbox,               \* the messages sent from the source chain
    now,                 \* block.timestamp
    history              \* history variable: id -> when and in which timelock
                         \* it was queued, when it was executed, and which
                         \* timelock was its route's when it ended

settings == <<paused, trusted, srcChainId, guardian, maxDailyReceiveLimit,
              proposalTimelocks>>
records == <<receiveWindow, lastProposalReceived, proposals, queued, timelocks, history>>
endpoint == <<failedMessages, inboundNonce, blocked, inbox>>
vars == <<settings, records, endpoint, now>>

-----------------------------------------------------------------------------
Ids == 1 .. MaxProposals
Times == 0 .. MaxTime
Etas == 0 .. MaxTime + MAXIMUM_DELAY
Transactions == [action : Actions, eta : Etas]
Messages == [pId : Ids, payload : Payloads, sentAt : Nat]

Proposal ==
    [id : {0} \cup Ids, eta : Etas, actions : Seq(Actions),
     canceled : BOOLEAN, executed : BOOLEAN, proposalType : Nat]

History == [receivedAt : Times, executedAt : Times, home : TimelockIds, endedIn : TimelockIds]

ASSUME ExecutorAssumption ==
    /\ Executor \notin Accounts
    /\ ZeroAddress \notin Accounts \cup {Executor}
    /\ Routes \subseteq Nat
    /\ TimelockIds # {}
    /\ Payloads \subseteq [actions : Seq(Actions), proposalType : Nat]
    /\ DelayCalls \in [Actions -> Nat]
    /\ InitialTimelocks \in [Routes -> TimelockIds]
    /\ InitialDelays \in [TimelockIds -> MINIMUM_DELAY .. MAXIMUM_DELAY]
    /\ InitialGuardian \in Accounts
    /\ TimelockChoices \subseteq [Routes -> TimelockIds]
    /\ AdminChoices \subseteq Accounts
    /\ GuardianChoices \subseteq Accounts
    /\ Source \in ChainIds
    /\ Limits \subseteq Nat
    /\ TrustChoices \subseteq BOOLEAN
    /\ Inboxes \subseteq Seq(Messages)
    /\ TimeSteps \subseteq Nat
    /\ MaxProposals \in Nat
    /\ MaxTime \in Nat /\ DAY < MaxTime

-----------------------------------------------------------------------------
(* state(proposalId) *)
State(id) ==
    IF proposals[id].canceled THEN "Canceled"
    ELSE IF proposals[id].executed THEN "Executed"
    ELSE IF id \in queued THEN "Queued"
    ELSE "None"

Timelock(id) == timelocks[proposalTimelocks[proposals[id].proposalType]]

TxsOf(actions, eta) == {Tx(actions[i], eta) : i \in DOMAIN actions}

NoDuplicates(list) ==
    \A i, j \in DOMAIN list : list[i] = list[j] => i = j

NoProposal ==
    [id |-> 0, eta |-> 0, actions |-> <<>>, canceled |-> FALSE, executed |-> FALSE,
     proposalType |-> 0]

(* Deployment and configuration are complete: the sender is trusted and the  *)
(* executor is the admin of every timelock.                                  *)
Init ==
    /\ paused = FALSE
    /\ trusted = TRUE
    /\ srcChainId = Source
    /\ guardian = InitialGuardian
    /\ maxDailyReceiveLimit \in Limits
    /\ receiveWindow = NoWindow
    /\ lastProposalReceived = 0
    /\ proposals = [id \in Ids |-> NoProposal]
    /\ queued = {}
    /\ proposalTimelocks = InitialTimelocks
    /\ timelocks = [t \in TimelockIds |-> NewTimelock(Executor, InitialDelays[t])]
    /\ failedMessages = {}
    /\ inboundNonce = 0
    /\ blocked = FALSE
    /\ inbox \in Inboxes
    /\ now = DAY + 1
    /\ history = [id \in Ids |->
                    LET t == CHOOSE t \in TimelockIds : TRUE IN
                    [receivedAt |-> 0, executedAt |-> 0, home |-> t, endedIn |-> t]]

-----------------------------------------------------------------------------
(* Receiving *)

(* Mutant: a route's timelock is only asked for duplicates in the proposal.  *)
QueueableOnce(tl, actions, eta) == NoDuplicates(actions)

(* _queueOrRevertInternal, for each action in turn. *)
Queueable(tl, actions, eta) ==
    /\ NoDuplicates(actions)
    /\ \A tx \in TxsOf(actions, eta) : MayQueueV8(tl, Executor, tx, now)

NewId(pId) == proposals[pId].id = 0

(* _nonblockingLzReceive with _queue, when nothing in it reverts. *)
Receive(message) ==
    LET actions == message.payload.actions
        route == message.payload.proposalType
        t == proposalTimelocks[route]
        eta == now + timelocks[t].delay
    IN
    /\ ~paused
    /\ NewId(message.pId)
    /\ route \in Routes
    /\ Fits(receiveWindow, now, Len(actions), maxDailyReceiveLimit)
    /\ Queueable(timelocks[t], actions, eta)
    /\ receiveWindow' = Charged(receiveWindow, now, Len(actions))
    /\ lastProposalReceived' = message.pId
    /\ proposals' = [proposals EXCEPT ![message.pId] =
          [NoProposal EXCEPT !.id = message.pId, !.eta = eta, !.actions = actions,
                             !.proposalType = route]]
    /\ queued' = queued \cup {message.pId}
    /\ timelocks' = [timelocks EXCEPT ![t] = WithQueued(@, TxsOf(actions, eta))]
    /\ history' = [history EXCEPT ![message.pId].receivedAt = now, ![message.pId].home = t]
    /\ UNCHANGED settings

(* lzReceive and _blockingLzReceive revert for other sources. *)
Accepts == trusted /\ srcChainId = Source

NextMessage == inbox[inboundNonce + 1]

Delivered ==
    /\ inboundNonce < Len(inbox)
    /\ inboundNonce' = inboundNonce + 1
    /\ blocked' = FALSE
    /\ UNCHANGED <<inbox, now>>

(* The endpoint delivers the next message, or anybody retries the payload it *)
(* keeps (retryPayload), and it is processed.                                *)
LzReceive ==
    /\ Delivered
    /\ Accepts
    /\ Receive(NextMessage)
    /\ UNCHANGED failedMessages

(* lzReceive reverts, for its gas or its source: the endpoint keeps the      *)
(* payload.                                                                  *)
PayloadStored ==
    /\ inboundNonce < Len(inbox)
    /\ ~blocked
    /\ blocked' = TRUE
    /\ UNCHANGED <<settings, records, failedMessages, inboundNonce, inbox, now>>

(* Mutant: a blocking application, which reverts with the processing. *)
LzReceiveReverts == PayloadStored

(* LzReceive, when the processing fails: _blockingLzReceive stores the hash.  *)
LzReceiveFails ==
    /\ Delivered
    /\ Accepts
    /\ failedMessages' = failedMessages \cup {inboundNonce + 1}
    /\ UNCHANGED <<settings, records>>

(* forceResumeReceive, by the owner: the kept payload is dropped. *)
ForceResumeReceive ==
    /\ blocked
    /\ Delivered
    /\ UNCHANGED <<settings, records, failedMessages>>

(* Mutant: the message stays to be retried again. *)
NotForgotten(nonce) == failedMessages

Forgotten(nonce) == failedMessages \ {nonce}

(* retryMessage, by the owner; unlike the first delivery, it does not look   *)
(* at srcChainId.                                                            *)
RetryMessage(nonce) ==
    /\ nonce \in failedMessages
    /\ trusted
    /\ Receive(inbox[nonce])
    /\ failedMessages' = Forgotten(nonce)
    /\ UNCHANGED <<inboundNonce, blocked, inbox, now>>

-----------------------------------------------------------------------------
(* Executing and canceling *)

(* The delay in force once the actions have been executed: that of the last  *)
(* setDelay call among them, or the old one.                                 *)
DelaysAfter(actions, delay) ==
    LET calls == {i \in DOMAIN actions : DelayCalls[actions[i]] # 0}
        last == {i \in calls : \A j \in calls : j <= i}
    IN  IF calls = {} THEN {delay} ELSE {DelayCalls[actions[i]] : i \in last}

(* Anyone may execute; the timelock executes every action, or all reverts.   *)
Execute(id) ==
    LET p == proposals[id]
        txs == TxsOf(p.actions, p.eta)
    IN
    /\ State(id) = "Queued"
    /\ \A tx \in txs : MayExecute(Timelock(id), Executor, tx, now)
    /\ \A tx \in txs : DelayCalls[tx.action] # 0 => ValidDelay(DelayCalls[tx.action])
    /\ proposals' = [proposals EXCEPT ![id].executed = TRUE]
    /\ queued' = queued \ {id}
    /\ \E delay \in DelaysAfter(p.actions, Timelock(id).delay) :
          timelocks' = [timelocks EXCEPT ![proposalTimelocks[p.proposalType]] =
                           WithDelay(WithoutQueued(@, txs), delay)]
    /\ history' = [history EXCEPT ![id].executedAt = now,
                                  ![id].endedIn = proposalTimelocks[p.proposalType]]
    /\ UNCHANGED <<settings, receiveWindow, lastProposalReceived, endpoint, now>>

(* Mutant: the timelock is left alone. *)
TimelocksKept(id) == timelocks

TimelocksAfterCancel(id) ==
    LET p == proposals[id] IN
    [timelocks EXCEPT ![proposalTimelocks[p.proposalType]] =
        WithoutQueued(@, TxsOf(p.actions, p.eta))]

Cancel(caller, id) ==
    LET p == proposals[id] IN
    /\ State(id) = "Queued"
    /\ caller = guardian
    /\ \A tx \in TxsOf(p.actions, p.eta) : MayCancelV8(Timelock(id), Executor, tx)
    /\ proposals' = [proposals EXCEPT ![id].canceled = TRUE]
    /\ queued' = queued \ {id}
    /\ timelocks' = TimelocksAfterCancel(id)
    /\ history' = [history EXCEPT ![id].endedIn = proposalTimelocks[p.proposalType]]
    /\ UNCHANGED <<settings, receiveWindow, lastProposalReceived, endpoint, now>>

-----------------------------------------------------------------------------
(* Settings, all by the owner; the guardian may replace itself *)

SetGuardian(account) ==
    /\ guardian' = account
    /\ UNCHANGED <<paused, trusted, srcChainId, maxDailyReceiveLimit, proposalTimelocks,
                   records, endpoint, now>>

SetSrcChainId(chain) ==
    /\ srcChainId' = chain
    /\ UNCHANGED <<paused, trusted, guardian, maxDailyReceiveLimit, proposalTimelocks,
                   records, endpoint, now>>

(* setTrustedRemoteAddress, to the sender or to another address. *)
SetTrustedRemote(value) ==
    /\ trusted' = value
    /\ UNCHANGED <<paused, srcChainId, guardian, maxDailyReceiveLimit, proposalTimelocks,
                   records, endpoint, now>>

SetMaxDailyReceiveLimit(limit) ==
    /\ maxDailyReceiveLimit' = limit
    /\ UNCHANGED <<paused, trusted, srcChainId, guardian, proposalTimelocks,
                   records, endpoint, now>>

SetPaused(value) ==
    /\ paused # value
    /\ paused' = value
    /\ UNCHANGED <<trusted, srcChainId, guardian, maxDailyReceiveLimit, proposalTimelocks,
                   records, endpoint, now>>

AddTimelocks(choice) ==
    /\ proposalTimelocks' = choice
    /\ UNCHANGED <<paused, trusted, srcChainId, guardian, maxDailyReceiveLimit,
                   records, endpoint, now>>

TimelockCall(t, tl) ==
    /\ timelocks' = [timelocks EXCEPT ![t] = tl]
    /\ UNCHANGED <<settings, receiveWindow, lastProposalReceived, proposals, queued,
                   history, endpoint, now>>

SetTimelockPendingAdmin(account, route) ==
    LET t == proposalTimelocks[route] IN
    /\ timelocks[t].admin = Executor
    /\ TimelockCall(t, WithPendingAdmin(timelocks[t], account))

-----------------------------------------------------------------------------
(* TimelockV8 in the hands of others, once the executor has named them.  *)

AcceptAdmin(caller, t) ==
    /\ MayAcceptAdmin(timelocks[t], caller)
    /\ TimelockCall(t, WithAcceptedAdmin(timelocks[t], caller))

QueueTransaction(caller, t, action) ==
    LET tx == Tx(action, now + timelocks[t].delay) IN
    /\ MayQueueV8(timelocks[t], caller, tx, now)
    /\ TimelockCall(t, WithQueued(timelocks[t], {tx}))

CancelTransaction(caller, t, tx) ==
    /\ MayCancelV8(timelocks[t], caller, tx)
    /\ TimelockCall(t, WithoutQueued(timelocks[t], {tx}))

ExecuteTransaction(caller, t, tx) ==
    /\ MayExecute(timelocks[t], caller, tx, now)
    /\ DelayCalls[tx.action] # 0 => ValidDelay(DelayCalls[tx.action])
    /\ \E delay \in DelaysAfter(<<tx.action>>, timelocks[t].delay) :
          TimelockCall(t, WithDelay(WithoutQueued(timelocks[t], {tx}), delay))

Tick(seconds) ==
    /\ now + seconds <= MaxTime
    /\ now' = now + seconds
    /\ UNCHANGED <<settings, records, endpoint>>

-----------------------------------------------------------------------------
MessageNext ==
    \/ LzReceive
    \/ LzReceiveFails
    \/ PayloadStored
    \/ ForceResumeReceive
    \/ \E nonce \in failedMessages : RetryMessage(nonce)

ProposalNext ==
    \E id \in Ids :
        \/ Execute(id)
        \/ \E caller \in Accounts : Cancel(caller, id)

SettingNext ==
    \/ \E account \in GuardianChoices : SetGuardian(account)
    \/ \E chain \in ChainIds : SetSrcChainId(chain)
    \/ \E value \in TrustChoices : SetTrustedRemote(value)
    \/ \E limit \in Limits : SetMaxDailyReceiveLimit(limit)
    \/ \E value \in BOOLEAN : SetPaused(value)
    \/ \E choice \in TimelockChoices : AddTimelocks(choice)
    \/ \E account \in AdminChoices, route \in Routes : SetTimelockPendingAdmin(account, route)

TimelockNext ==
    \E caller \in Accounts, t \in TimelockIds :
        \/ AcceptAdmin(caller, t)
        \/ \E action \in Actions : QueueTransaction(caller, t, action)
        \/ \E tx \in timelocks[t].queuedTransactions :
              CancelTransaction(caller, t, tx) \/ ExecuteTransaction(caller, t, tx)

CallNext == MessageNext \/ ProposalNext \/ SettingNext \/ TimelockNext

Next == CallNext \/ \E seconds \in TimeSteps : Tick(seconds)

Spec == Init /\ [][Next]_vars

-----------------------------------------------------------------------------
(* Properties *)

TypeOK ==
    /\ paused \in BOOLEAN
    /\ trusted \in BOOLEAN
    /\ srcChainId \in ChainIds
    /\ guardian \in Accounts
    /\ maxDailyReceiveLimit \in Nat
    /\ receiveWindow \in Window
    /\ lastProposalReceived \in {0} \cup Ids
    /\ proposals \in [Ids -> Proposal]
    /\ queued \subseteq Ids
    /\ proposalTimelocks \in [Routes -> TimelockIds]
    /\ timelocks \in [TimelockIds -> TimelockType(Accounts \cup {Executor}, Transactions)]
    /\ failedMessages \subseteq Nat
    /\ inboundNonce \in Nat
    /\ blocked \in BOOLEAN
    /\ inbox \in Seq(Messages)
    /\ now \in Times
    /\ history \in [Ids -> History]

(* The proposal was queued in timelock t with the transaction tx. *)
QueuedIn(id, t, tx) ==
    /\ proposals[id].id # 0
    /\ history[id].home = t
    /\ tx \in TxsOf(proposals[id].actions, proposals[id].eta)

(* A proposal that was queued elsewhere had the transaction too, and ended   *)
(* when addTimelocks had made t the timelock of its route: its execution or  *)
(* cancellation took the transaction from t.                                 *)
MovedTwinEnded(t, tx) ==
    \E twin \in Ids :
        /\ QueuedIn(twin, history[twin].home, tx)
        /\ history[twin].home # t
        /\ history[twin].endedIn = t
        /\ State(twin) \in {"Executed", "Canceled"}

(* A queued proposal has all its transactions in the timelock it was queued  *)
(* in, for as long as the executor administers it: messages that arrive,     *)
(* fail and are retried in any order never take each other's transactions.   *)
(* Only a proposal that was moved to that timelock may have.                 *)
QueuedIsBacked ==
    \A id \in Ids : State(id) = "Queued" =>
        LET t == history[id].home IN
        timelocks[t].admin = Executor =>
            \A tx \in TxsOf(proposals[id].actions, proposals[id].eta) :
                tx \in timelocks[t].queuedTransactions \/ MovedTwinEnded(t, tx)

(* A transaction that waits in a timelock of the executor belongs to a       *)
(* proposal that is queued there: one that was executed or canceled leaves   *)
(* nothing behind, unless its route had another timelock by then.            *)
NoOrphanTransactions ==
    \A t \in TimelockIds : timelocks[t].admin = Executor =>
        \A tx \in timelocks[t].queuedTransactions : \E id \in Ids :
            QueuedIn(id, t, tx) /\ (State(id) = "Queued" \/ history[id].endedIn # t)

(* Nothing is executed before the shortest delay has passed since it was     *)
(* received, nor after its grace period, whatever became of the delay. Only  *)
(* a proposal without actions asks no timelock, and ends at any time.        *)
ExecutionWaited ==
    \A id \in Ids : proposals[id].executed /\ proposals[id].actions # <<>> =>
        /\ history[id].executedAt >= history[id].receivedAt + MINIMUM_DELAY
        /\ history[id].executedAt <= proposals[id].eta + GRACE_PERIOD
=============================================================================
