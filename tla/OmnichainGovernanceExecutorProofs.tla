------------------ MODULE OmnichainGovernanceExecutorProofs ------------------
(***************************************************************************)
(* What OmnichainGovernanceExecutor keeps for any accounts, timelocks,     *)
(* routes, payloads, inboxes and bounds.                                   *)
(***************************************************************************)
EXTENDS OmnichainGovernanceExecutor, TLAPS

Addresses == Accounts \cup {Executor}

(* The messages of the inbox come in order, and only what has come may have  *)
(* failed.                                                                   *)
Arrived == inboundNonce <= Len(inbox) /\ failedMessages \subseteq 1 .. inboundNonce

IType == TypeOK /\ Arrived

Known(id) == proposals[id].id # 0

TxsOfProposal(id) == TxsOf(proposals[id].actions, proposals[id].eta)

(* The queued flag and the two final ones tell what became of a proposal     *)
(* that was received, and say nothing of one that was not.                   *)
FlagsAgree ==
    \A id \in Ids :
        /\ id \in queued <=> Known(id) /\ ~proposals[id].canceled /\ ~proposals[id].executed
        /\ ~Known(id) => ~proposals[id].canceled /\ ~proposals[id].executed
        /\ Known(id) => proposals[id].proposalType \in Routes

(* The eta leaves room for the shortest delay, and only the time between it  *)
(* and the end of the grace period is one of execution.                      *)
EtasAndTimes ==
    \A id \in Ids :
        /\ Known(id) => proposals[id].eta >= history[id].receivedAt + MINIMUM_DELAY
        /\ proposals[id].executed /\ proposals[id].actions # <<>> =>
              /\ history[id].executedAt >= proposals[id].eta
              /\ history[id].executedAt <= proposals[id].eta + GRACE_PERIOD

(* Two queued proposals share no transaction of the timelock they are in,    *)
(* unless one that was moved there took it away before the second came.      *)
NothingShared ==
    \A id, other \in queued :
        LET t == history[id].home IN
        /\ id # other
        /\ history[other].home = t
        /\ timelocks[t].admin = Executor
        => \A tx \in TxsOfProposal(id) \cap TxsOfProposal(other) : MovedTwinEnded(t, tx)

(* The inductive invariant.                                                  *)
IInv ==
    /\ IType
    /\ FlagsAgree
    /\ EtasAndTimes
    /\ NoOrphanTransactions
    /\ QueuedIsBacked
    /\ NothingShared

-----------------------------------------------------------------------------
(* Types *)

LEMMA Constants ==
    /\ Ids \subseteq Nat \ {0}
    /\ Times \subseteq Nat /\ 0 \in Times /\ DAY + 1 \in Times
    /\ Etas \subseteq Nat /\ 0 \in Etas
    /\ \A time \in Times, delay \in MINIMUM_DELAY .. MAXIMUM_DELAY :
          time + delay \in Etas /\ time + delay >= time + MINIMUM_DELAY
    /\ NoProposal \in Proposal
    /\ NoWindow \in Window
<1>1. <<>> \in Seq(Actions)
  OBVIOUS
<1> QED
  BY <1>1, ExecutorAssumption, TimelockAssumption, DayAssumption
     DEF Ids, Times, Etas, NoProposal, Proposal, NoWindow, Window

(* What the calls make of a stored proposal.                                 *)
LEMMA ProposalUpdates ==
    /\ \A p \in Proposal :
          [p EXCEPT !.canceled = TRUE] \in Proposal /\ [p EXCEPT !.executed = TRUE] \in Proposal
    /\ \A id \in Ids, eta \in Etas, actions \in Seq(Actions), type \in Nat :
          [NoProposal EXCEPT !.id = id, !.eta = eta, !.actions = actions,
                             !.proposalType = type] \in Proposal
<1>1. <<>> \in Seq(Actions)
  OBVIOUS
<1> QED BY <1>1, Constants DEF Proposal, NoProposal

LEMMA TimelockOpsTypes ==
    ASSUME NEW tl \in TimelockType(Addresses, Transactions)
    PROVE  /\ \A txs \in SUBSET Transactions :
                 /\ WithQueued(tl, txs) \in TimelockType(Addresses, Transactions)
                 /\ WithoutQueued(tl, txs) \in TimelockType(Addresses, Transactions)
           /\ \A delay \in MINIMUM_DELAY .. MAXIMUM_DELAY :
                 WithDelay(tl, delay) \in TimelockType(Addresses, Transactions)
           /\ \A account \in Addresses :
                 /\ WithPendingAdmin(tl, account) \in TimelockType(Addresses, Transactions)
                 /\ WithAcceptedAdmin(tl, account) \in TimelockType(Addresses, Transactions)
BY DEF TimelockType, WithQueued, WithoutQueued, WithDelay, WithPendingAdmin, WithAcceptedAdmin

LEMMA ChargedType ==
    ASSUME NEW w \in Window, NEW time \in Nat, NEW commands \in Nat
    PROVE  Charged(w, time, commands) \in Window
BY DEF Charged, Window

LEMMA TxsType ==
    ASSUME NEW actions \in Seq(Actions), NEW eta \in Etas
    PROVE  TxsOf(actions, eta) \in SUBSET Transactions
BY DEF TxsOf, Tx, Transactions

(* The delay after an execution is one that the timelock accepts.            *)
LEMMA DelaysAfterAreValid ==
    ASSUME NEW actions \in Seq(Actions), NEW delay \in MINIMUM_DELAY .. MAXIMUM_DELAY,
           \A i \in DOMAIN actions :
              DelayCalls[actions[i]] # 0 => ValidDelay(DelayCalls[actions[i]])
    PROVE  DelaysAfter(actions, delay) \subseteq MINIMUM_DELAY .. MAXIMUM_DELAY
<1>1. \A i \in DOMAIN actions : DelayCalls[actions[i]] \in Nat
  BY ExecutorAssumption
<1>2. \A i \in DOMAIN actions :
         DelayCalls[actions[i]] # 0 => DelayCalls[actions[i]] \in MINIMUM_DELAY .. MAXIMUM_DELAY
  BY <1>1, TimelockAssumption DEF ValidDelay
<1> QED BY <1>2 DEF DelaysAfter

LEMMA MessageType ==
    ASSUME NEW message \in Messages
    PROVE  /\ message.pId \in Ids
           /\ message.payload.actions \in Seq(Actions)
           /\ Len(message.payload.actions) \in Nat
           /\ message.payload.proposalType \in Nat
<1>1. message.pId \in Ids /\ message.payload \in [actions : Seq(Actions), proposalType : Nat]
  BY ExecutorAssumption DEF Messages
<1> QED BY <1>1

LEMMA InitType == Init => IType
<1> SUFFICES ASSUME Init PROVE IType
  OBVIOUS
<1>1. timelocks \in [TimelockIds -> TimelockType(Addresses, Transactions)]
  BY ExecutorAssumption DEF Init, NewTimelock, TimelockType, Addresses
<1>2. history \in [Ids -> History]
  BY Constants, ExecutorAssumption DEF Init, History
<1>3. /\ proposals \in [Ids -> Proposal]
      /\ receiveWindow \in Window
      /\ now \in Times
      /\ inbox \in Seq(Messages)
      /\ srcChainId \in ChainIds /\ guardian \in Accounts /\ maxDailyReceiveLimit \in Nat
      /\ proposalTimelocks \in [Routes -> TimelockIds]
  BY Constants, ExecutorAssumption DEF Init
<1>4. Arrived
  BY <1>3 DEF Init, Arrived
<1> QED
  BY <1>1, <1>2, <1>3, <1>4 DEF Init, TypeOK, IType, Addresses

(* A processed message, wherever it comes from.                              *)
LEMMA ReceiveType ==
    ASSUME TypeOK, NEW message \in Messages, Receive(message)
    PROVE  /\ receiveWindow' \in Window
           /\ lastProposalReceived' \in Ids
           /\ proposals' \in [Ids -> Proposal]
           /\ queued' \subseteq Ids
           /\ timelocks' \in [TimelockIds -> TimelockType(Addresses, Transactions)]
           /\ history' \in [Ids -> History]
<1> DEFINE actions == message.payload.actions
           route == message.payload.proposalType
           t == proposalTimelocks[route]
           eta == now + timelocks[t].delay
<1>1. /\ message.pId \in Ids /\ actions \in Seq(Actions) /\ Len(actions) \in Nat
      /\ route \in Nat
  BY MessageType
<1>2. route \in Routes /\ t \in TimelockIds
  BY DEF Receive, TypeOK
<1>3. timelocks[t] \in TimelockType(Addresses, Transactions)
  BY <1>2 DEF TypeOK, Addresses
<1>4. now \in Times /\ timelocks[t].delay \in MINIMUM_DELAY .. MAXIMUM_DELAY
  BY <1>3 DEF TypeOK, TimelockType
<1>5. eta \in Etas /\ now \in Nat
  BY <1>4, Constants
<1>6. WithQueued(timelocks[t], TxsOf(actions, eta)) \in TimelockType(Addresses, Transactions)
  BY <1>1, <1>3, <1>5, TxsType, TimelockOpsTypes
<1>7. timelocks' \in [TimelockIds -> TimelockType(Addresses, Transactions)]
  <2>1. timelocks' = [timelocks EXCEPT ![t] = WithQueued(@, TxsOf(actions, eta))]
    BY DEF Receive
  <2> QED BY <2>1, <1>6 DEF TypeOK, Addresses
<1>8. Charged(receiveWindow, now, Len(actions)) \in Window
  BY <1>1, <1>5, ChargedType DEF TypeOK
<1>9. [NoProposal EXCEPT !.id = message.pId, !.eta = eta, !.actions = actions,
                         !.proposalType = route] \in Proposal
  BY <1>1, <1>5, ProposalUpdates
<1>10. proposals' \in [Ids -> Proposal]
  <2>1. proposals' = [proposals EXCEPT ![message.pId] =
          [NoProposal EXCEPT !.id = message.pId, !.eta = eta, !.actions = actions,
                             !.proposalType = route]]
    BY DEF Receive
  <2> QED BY <2>1, <1>9 DEF TypeOK
<1>11. history' \in [Ids -> History]
  <2>1. history' = [history EXCEPT ![message.pId].receivedAt = now, ![message.pId].home = t]
    BY DEF Receive
  <2>2. history[message.pId] \in History
    BY <1>1 DEF TypeOK
  <2>3. [history[message.pId] EXCEPT !.receivedAt = now, !.home = t] \in History
    BY <2>2, <1>2, <1>4 DEF History
  <2> QED BY <2>1, <2>3 DEF TypeOK, History
<1>12. receiveWindow' \in Window /\ lastProposalReceived' \in Ids /\ queued' \subseteq Ids
  BY <1>1, <1>8 DEF Receive, TypeOK
<1> QED BY <1>7, <1>10, <1>11, <1>12

(* What no processed message and no end of a proposal touches keeps its type *)
(* with the settings.                                                        *)
LEMMA SettingsType ==
    ASSUME TypeOK, UNCHANGED settings
    PROVE  /\ paused' \in BOOLEAN /\ trusted' \in BOOLEAN /\ srcChainId' \in ChainIds
           /\ guardian' \in Accounts /\ maxDailyReceiveLimit' \in Nat
           /\ proposalTimelocks' \in [Routes -> TimelockIds]
BY DEF TypeOK, settings

LEMMA RecordsType ==
    ASSUME TypeOK, UNCHANGED records
    PROVE  /\ receiveWindow' \in Window
           /\ lastProposalReceived' \in {0} \cup Ids
           /\ proposals' \in [Ids -> Proposal]
           /\ queued' \subseteq Ids
           /\ timelocks' \in [TimelockIds -> TimelockType(Addresses, Transactions)]
           /\ history' \in [Ids -> History]
BY DEF TypeOK, records, Addresses

LEMMA EndpointType ==
    ASSUME IType, UNCHANGED <<endpoint, now>>
    PROVE  /\ failedMessages' \subseteq Nat /\ inboundNonce' \in Nat /\ blocked' \in BOOLEAN
           /\ inbox' \in Seq(Messages) /\ now' \in Times
           /\ Arrived'
BY DEF IType, TypeOK, endpoint, Arrived

LEMMA DeliveredType ==
    ASSUME IType, Delivered
    PROVE  /\ NextMessage \in Messages
           /\ inboundNonce + 1 \in 1 .. Len(inbox)
           /\ inboundNonce' = inboundNonce + 1 /\ inboundNonce' \in Nat
           /\ inboundNonce' <= Len(inbox')
           /\ blocked' \in BOOLEAN
           /\ inbox' \in Seq(Messages) /\ now' \in Times
           /\ failedMessages \cup {inboundNonce + 1} \subseteq 1 .. inboundNonce'
<1>1. inboundNonce \in Nat /\ inbox \in Seq(Messages) /\ Len(inbox) \in Nat
  BY DEF IType, TypeOK
<1>2. inboundNonce + 1 \in 1 .. Len(inbox)
  BY <1>1 DEF Delivered
<1>3. failedMessages \subseteq 1 .. inboundNonce
  BY DEF IType, Arrived
<1>4. NextMessage \in Messages
  BY <1>1, <1>2 DEF NextMessage
<1>5. UNCHANGED <<inbox, now>> /\ inboundNonce' = inboundNonce + 1 /\ blocked' = FALSE
  BY DEF Delivered
<1>6. failedMessages \cup {inboundNonce + 1} \subseteq 1 .. inboundNonce'
  BY <1>1, <1>3, <1>5
<1>7. now' \in Times
  BY <1>5 DEF IType, TypeOK
<1>8. inboundNonce' \in Nat /\ inboundNonce' <= Len(inbox')
  <2>1. inbox' = inbox /\ inboundNonce' = inboundNonce + 1
    BY <1>5
  <2>2. Len(inbox') = Len(inbox)
    BY <2>1
  <2> QED BY <1>1, <1>2, <2>1, <2>2
<1>9. inbox' \in Seq(Messages) /\ blocked' \in BOOLEAN
  BY <1>1, <1>5
<1>10. inboundNonce' = inboundNonce + 1
  BY <1>5
<1> QED
  BY <1>2, <1>4, <1>6, <1>7, <1>8, <1>9, <1>10

LEMMA LzReceiveType == IType /\ LzReceive => IType'
<1> SUFFICES ASSUME IType, LzReceive PROVE IType'
  OBVIOUS
<1>1. Delivered /\ Receive(NextMessage) /\ UNCHANGED failedMessages
  BY DEF LzReceive
<1>2. UNCHANGED settings /\ TypeOK
  BY <1>1 DEF Receive, IType
<1>3. Arrived'
  BY <1>1, DeliveredType DEF Arrived
<1>4. failedMessages' \subseteq Nat
  BY <1>1 DEF IType, TypeOK
<1> QED
  BY <1>1, <1>2, <1>3, <1>4, SettingsType, DeliveredType, ReceiveType
     DEF IType, TypeOK, Addresses

LEMMA LzReceiveFailsType == IType /\ LzReceiveFails => IType'
<1> SUFFICES ASSUME IType, LzReceiveFails PROVE IType'
  OBVIOUS
<1>1. /\ Delivered /\ UNCHANGED settings /\ UNCHANGED records
      /\ failedMessages' = failedMessages \cup {inboundNonce + 1}
  BY DEF LzReceiveFails
<1>2. TypeOK
  BY DEF IType
<1>3. Arrived' /\ failedMessages' \subseteq Nat
  BY <1>1, DeliveredType DEF Arrived
<1> QED
  BY <1>1, <1>2, <1>3, SettingsType, RecordsType, DeliveredType DEF IType, TypeOK, Addresses

LEMMA PayloadStoredType == IType /\ PayloadStored => IType'
<1> SUFFICES ASSUME IType, PayloadStored PROVE IType'
  OBVIOUS
<1>1. /\ UNCHANGED settings /\ UNCHANGED records /\ TypeOK
      /\ UNCHANGED <<failedMessages, inboundNonce, inbox, now>> /\ blocked' = TRUE
  BY DEF PayloadStored, IType
<1>2. Arrived'
  BY <1>1 DEF IType, Arrived
<1> QED
  BY <1>1, <1>2, SettingsType, RecordsType DEF IType, TypeOK, Addresses

LEMMA ForceResumeReceiveType == IType /\ ForceResumeReceive => IType'
<1> SUFFICES ASSUME IType, ForceResumeReceive PROVE IType'
  OBVIOUS
<1>1. /\ Delivered /\ UNCHANGED settings /\ UNCHANGED records /\ TypeOK
      /\ failedMessages' = failedMessages
  BY DEF ForceResumeReceive, IType
<1>2. Arrived' /\ failedMessages' \subseteq Nat
  BY <1>1, DeliveredType DEF Arrived, TypeOK
<1> QED
  BY <1>1, <1>2, SettingsType, RecordsType, DeliveredType DEF IType, TypeOK, Addresses

LEMMA FailedIsInInbox ==
    ASSUME IType, NEW nonce \in failedMessages
    PROVE  inbox[nonce] \in Messages
<1>1. nonce \in 1 .. inboundNonce /\ inboundNonce <= Len(inbox) /\ inboundNonce \in Nat
      /\ inbox \in Seq(Messages) /\ Len(inbox) \in Nat
  BY DEF IType, Arrived, TypeOK
<1>2. nonce \in 1 .. Len(inbox)
  BY <1>1
<1> QED BY <1>1, <1>2

LEMMA RetryMessageType ==
    ASSUME IType, NEW nonce \in failedMessages, RetryMessage(nonce)
    PROVE  IType'
<1>1. /\ Receive(inbox[nonce]) /\ TypeOK
      /\ failedMessages' = failedMessages \ {nonce}
      /\ UNCHANGED <<inboundNonce, blocked, inbox, now>>
  BY DEF RetryMessage, Forgotten, IType
<1>2. UNCHANGED settings
  BY <1>1 DEF Receive
<1>3. Arrived' /\ failedMessages' \subseteq Nat
  BY <1>1 DEF IType, Arrived, TypeOK
<1>4. inbox[nonce] \in Messages
  BY FailedIsInInbox
<1> QED
  BY <1>1, <1>2, <1>3, <1>4, SettingsType, ReceiveType DEF IType, TypeOK, Addresses

-----------------------------------------------------------------------------
(* A stored proposal asks for transactions the timelocks know.               *)
LEMMA ProposalType ==
    ASSUME TypeOK, NEW id \in Ids
    PROVE  /\ proposals[id] \in Proposal
           /\ proposals[id].eta \in Etas /\ proposals[id].actions \in Seq(Actions)
           /\ TxsOfProposal(id) \in SUBSET Transactions
           /\ history[id] \in History /\ history[id].home \in TimelockIds
           /\ history[id].receivedAt \in Nat /\ history[id].executedAt \in Nat
           /\ now \in Nat /\ now \in Times
<1>1. proposals[id] \in Proposal /\ history[id] \in History /\ now \in Times
  BY DEF TypeOK
<1>2. proposals[id].eta \in Etas /\ proposals[id].actions \in Seq(Actions)
  BY <1>1 DEF Proposal
<1> QED
  BY <1>1, <1>2, TxsType, Constants DEF TxsOfProposal, History

(* A queued proposal is known, with a route that has a timelock.             *)
LEMMA QueuedHasRoute ==
    ASSUME TypeOK, FlagsAgree, NEW id \in Ids, State(id) = "Queued"
    PROVE  /\ id \in queued /\ Known(id)
           /\ proposals[id].proposalType \in Routes
           /\ proposalTimelocks[proposals[id].proposalType] \in TimelockIds
           /\ Timelock(id) \in TimelockType(Addresses, Transactions)
<1>1. id \in queued
  BY DEF State
<1>2. Known(id) /\ proposals[id].proposalType \in Routes
  BY <1>1 DEF FlagsAgree
<1> QED
  BY <1>1, <1>2 DEF TypeOK, Timelock, Addresses

LEMMA ExecuteType ==
    ASSUME IType, FlagsAgree, NEW id \in Ids, Execute(id)
    PROVE  IType'
<1> DEFINE t == proposalTimelocks[proposals[id].proposalType]
           txs == TxsOfProposal(id)
<1>1. TypeOK /\ State(id) = "Queued"
  BY DEF IType, Execute
<1>2. t \in TimelockIds /\ timelocks[t] \in TimelockType(Addresses, Transactions)
  BY <1>1, QueuedHasRoute DEF Timelock
<1>3. proposals[id] \in Proposal /\ history[id] \in History /\ txs \in SUBSET Transactions
      /\ proposals[id].actions \in Seq(Actions) /\ now \in Times
  BY <1>1, ProposalType
<1>4. DelaysAfter(proposals[id].actions, timelocks[t].delay)
        \subseteq MINIMUM_DELAY .. MAXIMUM_DELAY
  <2>1. \A tx \in txs : DelayCalls[tx.action] # 0 => ValidDelay(DelayCalls[tx.action])
    BY DEF Execute, TxsOfProposal
  <2>2. \A i \in DOMAIN proposals[id].actions :
           Tx(proposals[id].actions[i], proposals[id].eta) \in txs
    BY DEF TxsOfProposal, TxsOf
  <2>3. \A i \in DOMAIN proposals[id].actions :
           DelayCalls[proposals[id].actions[i]] # 0
           => ValidDelay(DelayCalls[proposals[id].actions[i]])
    BY <2>1, <2>2 DEF Tx
  <2>4. timelocks[t].delay \in MINIMUM_DELAY .. MAXIMUM_DELAY
    BY <1>2 DEF TimelockType
  <2> QED BY <1>3, <2>3, <2>4, DelaysAfterAreValid
<1>5. timelocks' \in [TimelockIds -> TimelockType(Addresses, Transactions)]
  <2>1. PICK delay \in DelaysAfter(proposals[id].actions, timelocks[t].delay) :
           timelocks' = [timelocks EXCEPT ![t] = WithDelay(WithoutQueued(@, txs), delay)]
    BY DEF Execute, Timelock, TxsOfProposal
  <2>2. WithDelay(WithoutQueued(timelocks[t], txs), delay)
          \in TimelockType(Addresses, Transactions)
    BY <1>2, <1>3, <1>4, <2>1, TimelockOpsTypes
  <2> QED BY <1>1, <2>1, <2>2 DEF TypeOK, Addresses
<1>6. proposals' \in [Ids -> Proposal] /\ queued' \subseteq Ids
  <2>1. proposals' = [proposals EXCEPT ![id].executed = TRUE] /\ queued' = queued \ {id}
    BY DEF Execute
  <2>2. [proposals[id] EXCEPT !.executed = TRUE] \in Proposal
    BY <1>3, ProposalUpdates
  <2> QED BY <1>1, <2>1, <2>2 DEF TypeOK
<1>7. history' \in [Ids -> History]
  <2>1. history' = [history EXCEPT ![id].executedAt = now, ![id].endedIn = t]
    BY DEF Execute
  <2>2. [history[id] EXCEPT !.executedAt = now, !.endedIn = t] \in History
    BY <1>2, <1>3 DEF History
  <2> QED BY <1>1, <2>1, <2>2 DEF TypeOK, History
<1>8. UNCHANGED settings /\ UNCHANGED <<receiveWindow, lastProposalReceived>>
      /\ UNCHANGED <<endpoint, now>>
  BY DEF Execute
<1>9. receiveWindow' \in Window /\ lastProposalReceived' \in {0} \cup Ids
  BY <1>1, <1>8 DEF TypeOK
<1> QED
  BY <1>1, <1>5, <1>6, <1>7, <1>8, <1>9, SettingsType, EndpointType DEF IType, TypeOK, Addresses

LEMMA CancelType ==
    ASSUME IType, FlagsAgree, NEW id \in Ids, NEW caller \in Accounts, Cancel(caller, id)
    PROVE  IType'
<1> DEFINE t == proposalTimelocks[proposals[id].proposalType]
           txs == TxsOfProposal(id)
<1>1. TypeOK /\ State(id) = "Queued"
  BY DEF IType, Cancel
<1>2. t \in TimelockIds /\ timelocks[t] \in TimelockType(Addresses, Transactions)
  BY <1>1, QueuedHasRoute DEF Timelock
<1>3. proposals[id] \in Proposal /\ history[id] \in History /\ txs \in SUBSET Transactions
  BY <1>1, ProposalType
<1>4. timelocks' \in [TimelockIds -> TimelockType(Addresses, Transactions)]
  <2>1. timelocks' = [timelocks EXCEPT ![t] = WithoutQueued(@, txs)]
    BY DEF Cancel, TimelocksAfterCancel, TxsOfProposal
  <2>2. WithoutQueued(timelocks[t], txs) \in TimelockType(Addresses, Transactions)
    BY <1>2, <1>3, TimelockOpsTypes
  <2> QED BY <1>1, <2>1, <2>2 DEF TypeOK, Addresses
<1>5. proposals' \in [Ids -> Proposal] /\ queued' \subseteq Ids
  <2>1. proposals' = [proposals EXCEPT ![id].canceled = TRUE] /\ queued' = queued \ {id}
    BY DEF Cancel
  <2>2. [proposals[id] EXCEPT !.canceled = TRUE] \in Proposal
    BY <1>3, ProposalUpdates
  <2> QED BY <1>1, <2>1, <2>2 DEF TypeOK
<1>6. history' \in [Ids -> History]
  <2>1. history' = [history EXCEPT ![id].endedIn = t]
    BY DEF Cancel
  <2>2. [history[id] EXCEPT !.endedIn = t] \in History
    BY <1>2, <1>3 DEF History
  <2> QED BY <1>1, <2>1, <2>2 DEF TypeOK
<1>7. UNCHANGED settings /\ UNCHANGED <<receiveWindow, lastProposalReceived>>
      /\ UNCHANGED <<endpoint, now>>
  BY DEF Cancel
<1>8. receiveWindow' \in Window /\ lastProposalReceived' \in {0} \cup Ids
  BY <1>1, <1>7 DEF TypeOK
<1> QED
  BY <1>1, <1>4, <1>5, <1>6, <1>7, <1>8, SettingsType, EndpointType DEF IType, TypeOK, Addresses

-----------------------------------------------------------------------------
(* A call of the owner or the guardian that changes one setting.             *)
LEMMA SettingType ==
    ASSUME IType, UNCHANGED <<records, endpoint, now>>,
           paused' \in BOOLEAN, trusted' \in BOOLEAN, srcChainId' \in ChainIds,
           guardian' \in Accounts, maxDailyReceiveLimit' \in Nat,
           proposalTimelocks' \in [Routes -> TimelockIds]
    PROVE  IType'
<1>1. UNCHANGED records /\ UNCHANGED <<endpoint, now>> /\ TypeOK
  BY DEF IType
<1> QED BY <1>1, RecordsType, EndpointType DEF IType, TypeOK, Addresses

LEMMA SettingCallType ==
    ASSUME IType,
           \/ \E account \in GuardianChoices : SetGuardian(account)
           \/ \E chain \in ChainIds : SetSrcChainId(chain)
           \/ \E value \in TrustChoices : SetTrustedRemote(value)
           \/ \E limit \in Limits : SetMaxDailyReceiveLimit(limit)
           \/ \E value \in BOOLEAN : SetPaused(value)
           \/ \E choice \in TimelockChoices : AddTimelocks(choice)
    PROVE  IType' /\ UNCHANGED <<records, endpoint, now>>
<1>1. /\ UNCHANGED <<records, endpoint, now>>
      /\ paused' \in BOOLEAN /\ trusted' \in BOOLEAN /\ srcChainId' \in ChainIds
      /\ guardian' \in Accounts /\ maxDailyReceiveLimit' \in Nat
      /\ proposalTimelocks' \in [Routes -> TimelockIds]
  BY ExecutorAssumption DEF IType, TypeOK, SetGuardian, SetSrcChainId, SetTrustedRemote,
     SetMaxDailyReceiveLimit, SetPaused, AddTimelocks
<1> QED BY <1>1, SettingType

(* A call to a timelock, by the executor or by whom it named.                *)
LEMMA TimelockCallType ==
    ASSUME IType, NEW t \in TimelockIds, NEW tl \in TimelockType(Addresses, Transactions),
           TimelockCall(t, tl)
    PROVE  IType'
<1>1. timelocks' \in [TimelockIds -> TimelockType(Addresses, Transactions)]
  BY DEF TimelockCall, IType, TypeOK, Addresses
<1>2. /\ UNCHANGED settings /\ UNCHANGED <<endpoint, now>> /\ TypeOK
      /\ UNCHANGED <<receiveWindow, lastProposalReceived, proposals, queued, history>>
  BY DEF TimelockCall, IType
<1>3. /\ receiveWindow' \in Window /\ lastProposalReceived' \in {0} \cup Ids
      /\ proposals' \in [Ids -> Proposal] /\ queued' \subseteq Ids
      /\ history' \in [Ids -> History]
  BY <1>2 DEF TypeOK
<1> QED BY <1>1, <1>2, <1>3, SettingsType, EndpointType DEF IType, TypeOK, Addresses

LEMMA SetTimelockPendingAdminType ==
    ASSUME IType, NEW account \in AdminChoices, NEW route \in Routes,
           SetTimelockPendingAdmin(account, route)
    PROVE  IType'
<1>1. proposalTimelocks[route] \in TimelockIds
  BY DEF IType, TypeOK
<1>2. timelocks[proposalTimelocks[route]] \in TimelockType(Addresses, Transactions)
  BY <1>1 DEF IType, TypeOK, Addresses
<1>3. account \in Addresses
  BY ExecutorAssumption DEF Addresses
<1>4. WithPendingAdmin(timelocks[proposalTimelocks[route]], account)
        \in TimelockType(Addresses, Transactions)
  BY <1>2, <1>3, TimelockOpsTypes
<1> QED BY <1>1, <1>4, TimelockCallType DEF SetTimelockPendingAdmin

LEMMA OthersCallType ==
    ASSUME IType, TimelockNext
    PROVE  IType'
<1>1. PICK caller \in Accounts, t \in TimelockIds :
         \/ AcceptAdmin(caller, t)
         \/ \E action \in Actions : QueueTransaction(caller, t, action)
         \/ \E tx \in timelocks[t].queuedTransactions :
               CancelTransaction(caller, t, tx) \/ ExecuteTransaction(caller, t, tx)
  BY DEF TimelockNext
<1>2. timelocks[t] \in TimelockType(Addresses, Transactions) /\ now \in Times
      /\ caller \in Addresses
  BY DEF IType, TypeOK, Addresses
<1>3. timelocks[t].queuedTransactions \subseteq Transactions
      /\ timelocks[t].delay \in MINIMUM_DELAY .. MAXIMUM_DELAY
  BY <1>2 DEF TimelockType
<1>4. CASE AcceptAdmin(caller, t)
  BY <1>2, <1>4, TimelockOpsTypes, TimelockCallType DEF AcceptAdmin
<1>5. ASSUME NEW action \in Actions, QueueTransaction(caller, t, action) PROVE IType'
  <2>1. Tx(action, now + timelocks[t].delay) \in Transactions
    BY <1>2, <1>3, Constants DEF Tx, Transactions
  <2>2. WithQueued(timelocks[t], {Tx(action, now + timelocks[t].delay)})
          \in TimelockType(Addresses, Transactions)
    BY <1>2, <2>1, TimelockOpsTypes
  <2> QED BY <1>5, <2>2, TimelockCallType DEF QueueTransaction
<1>6. ASSUME NEW tx \in timelocks[t].queuedTransactions, CancelTransaction(caller, t, tx)
      PROVE IType'
  <2>1. WithoutQueued(timelocks[t], {tx}) \in TimelockType(Addresses, Transactions)
    BY <1>2, <1>3, TimelockOpsTypes
  <2> QED BY <1>6, <2>1, TimelockCallType DEF CancelTransaction
<1>7. ASSUME NEW tx \in timelocks[t].queuedTransactions, ExecuteTransaction(caller, t, tx)
      PROVE IType'
  <2>1. PICK delay \in DelaysAfter(<<tx.action>>, timelocks[t].delay) :
           TimelockCall(t, WithDelay(WithoutQueued(timelocks[t], {tx}), delay))
    BY <1>7 DEF ExecuteTransaction
  <2>2. tx.action \in Actions /\ <<tx.action>> \in Seq(Actions)
    BY <1>3 DEF Transactions
  <2>3. \A i \in DOMAIN <<tx.action>> :
           DelayCalls[<<tx.action>>[i]] # 0 => ValidDelay(DelayCalls[<<tx.action>>[i]])
    BY <1>7 DEF ExecuteTransaction
  <2>4. delay \in MINIMUM_DELAY .. MAXIMUM_DELAY
    BY <1>3, <2>1, <2>2, <2>3, DelaysAfterAreValid
  <2>5. WithDelay(WithoutQueued(timelocks[t], {tx}), delay)
          \in TimelockType(Addresses, Transactions)
    BY <1>2, <1>3, <2>4, TimelockOpsTypes
  <2> QED BY <2>1, <2>5, TimelockCallType
<1> QED BY <1>1, <1>4, <1>5, <1>6, <1>7

LEMMA TickType ==
    ASSUME IType, NEW seconds \in TimeSteps, Tick(seconds)
    PROVE  IType'
<1>1. /\ UNCHANGED settings /\ UNCHANGED records /\ UNCHANGED endpoint /\ TypeOK
      /\ now' = now + seconds /\ now + seconds <= MaxTime
  BY DEF Tick, IType
<1>2. now' \in Times
  BY <1>1, ExecutorAssumption DEF TypeOK, Times
<1>3. /\ failedMessages' \subseteq Nat /\ inboundNonce' \in Nat /\ blocked' \in BOOLEAN
      /\ inbox' \in Seq(Messages) /\ Arrived'
  BY <1>1 DEF endpoint, TypeOK, IType, Arrived
<1> QED BY <1>1, <1>2, <1>3, SettingsType, RecordsType DEF IType, TypeOK, Addresses

-----------------------------------------------------------------------------
(* The proposals, the timelocks and their transactions                       *)

(* No call gives the executor a timelock back, and none but its own changes  *)
(* the transactions of a timelock it administers.                            *)
ExecutorsKept ==
    \A t \in TimelockIds : timelocks'[t].admin = Executor =>
        /\ timelocks[t].admin = Executor
        /\ timelocks'[t].queuedTransactions = timelocks[t].queuedTransactions

LEMMA InitInv == Init => IInv
<1> SUFFICES ASSUME Init PROVE IInv
  OBVIOUS
<1>1. IType
  BY InitType
<1>2. /\ \A id \in Ids : proposals[id] = NoProposal
      /\ queued = {}
      /\ \A t \in TimelockIds : timelocks[t].queuedTransactions = {}
  BY DEF Init, NewTimelock
<1>3. \A id \in Ids : State(id) # "Queued" /\ ~Known(id) /\ ~proposals[id].executed
                      /\ ~proposals[id].canceled
  BY <1>2 DEF State, Known, NoProposal
<1> QED
  BY <1>1, <1>2, <1>3 DEF IInv, FlagsAgree, EtasAndTimes, NoOrphanTransactions, QueuedIsBacked,
     NothingShared

(* A step that touches no proposal and no transaction of the executor's      *)
(* timelocks disturbs nothing; what waits, comes, fails or is sent in the    *)
(* meantime does not matter.                                                 *)
LEMMA UntouchedInv ==
    ASSUME IInv, IType', ExecutorsKept, UNCHANGED <<proposals, queued, history>>
    PROVE  IInv'
<1>1. FlagsAgree'
  BY DEF IInv, FlagsAgree, Known
<1>2. EtasAndTimes'
  BY DEF IInv, EtasAndTimes, Known
<1>3. \A id : (State(id))' = State(id)
  BY DEF State
<1>4. \A id \in Ids : \A t, tx : (QueuedIn(id, t, tx))' <=> QueuedIn(id, t, tx)
  BY DEF QueuedIn
<1>5. \A t, tx : (MovedTwinEnded(t, tx))' <=> MovedTwinEnded(t, tx)
  BY <1>3, <1>4 DEF MovedTwinEnded
<1>6. NoOrphanTransactions'
  BY <1>3, <1>4 DEF IInv, NoOrphanTransactions, ExecutorsKept
<1>7. \A id \in Ids : history[id].home \in TimelockIds
  BY ProposalType DEF IInv, IType
<1>8. QueuedIsBacked'
  BY <1>3, <1>5, <1>7 DEF IInv, QueuedIsBacked, ExecutorsKept
<1>9. queued \subseteq Ids
  BY DEF IInv, IType, TypeOK
<1>10. NothingShared'
  BY <1>5, <1>7, <1>9 DEF IInv, NothingShared, ExecutorsKept, TxsOfProposal
<1> QED BY <1>1, <1>2, <1>6, <1>8, <1>10 DEF IInv

(* The timelocks are left alone, or others call one of them.                 *)
LEMMA SameTimelocksKept == timelocks' = timelocks => ExecutorsKept
BY DEF ExecutorsKept

LEMMA TimelockCallKept ==
    ASSUME TypeOK, NEW t \in TimelockIds, NEW tl, TimelockCall(t, tl),
           tl.admin = Executor => /\ timelocks[t].admin = Executor
                                  /\ tl.queuedTransactions = timelocks[t].queuedTransactions
    PROVE  ExecutorsKept
BY DEF ExecutorsKept, TimelockCall, TypeOK

LEMMA OthersCallKept ==
    ASSUME TypeOK, TimelockNext
    PROVE  ExecutorsKept /\ UNCHANGED <<proposals, queued, history>>
<1>1. PICK caller \in Accounts, t \in TimelockIds :
         \/ AcceptAdmin(caller, t)
         \/ \E action \in Actions : QueueTransaction(caller, t, action)
         \/ \E tx \in timelocks[t].queuedTransactions :
               CancelTransaction(caller, t, tx) \/ ExecuteTransaction(caller, t, tx)
  BY DEF TimelockNext
<1>2. caller # Executor /\ timelocks[t] \in TimelockType(Addresses, Transactions)
  BY ExecutorAssumption DEF TypeOK, Addresses
<1>3. CASE AcceptAdmin(caller, t)
  <2>1. TimelockCall(t, WithAcceptedAdmin(timelocks[t], caller))
    BY <1>3 DEF AcceptAdmin
  <2>2. WithAcceptedAdmin(timelocks[t], caller).admin # Executor
    BY <1>2 DEF WithAcceptedAdmin, TimelockType
  <2> QED BY <2>1, <2>2, TimelockCallKept DEF TimelockCall
<1>4. ASSUME NEW tl, TimelockCall(t, tl), tl.admin = timelocks[t].admin,
             timelocks[t].admin = caller
      PROVE  ExecutorsKept /\ UNCHANGED <<proposals, queued, history>>
  BY <1>2, <1>4, TimelockCallKept DEF TimelockCall
<1>5. ASSUME NEW action \in Actions, QueueTransaction(caller, t, action)
      PROVE  ExecutorsKept /\ UNCHANGED <<proposals, queued, history>>
  BY <1>2, <1>4, <1>5 DEF QueueTransaction, MayQueueV8, MayQueue, WithQueued, TimelockType
<1>6. ASSUME NEW tx, CancelTransaction(caller, t, tx)
      PROVE  ExecutorsKept /\ UNCHANGED <<proposals, queued, history>>
  BY <1>2, <1>4, <1>6 DEF CancelTransaction, MayCancelV8, MayCancel, WithoutQueued, TimelockType
<1>7. ASSUME NEW tx, ExecuteTransaction(caller, t, tx)
      PROVE  ExecutorsKept /\ UNCHANGED <<proposals, queued, history>>
  BY <1>2, <1>4, <1>7
     DEF ExecuteTransaction, MayExecute, WithoutQueued, WithDelay, TimelockType
<1> QED BY <1>1, <1>3, <1>5, <1>6, <1>7

LEMMA SetTimelockPendingAdminKept ==
    ASSUME TypeOK, NEW account, NEW route \in Routes, SetTimelockPendingAdmin(account, route)
    PROVE  ExecutorsKept /\ UNCHANGED <<proposals, queued, history>>
<1> DEFINE t == proposalTimelocks[route]
<1>1. t \in TimelockIds
  BY DEF TypeOK
<1>2. timelocks[t] \in TimelockType(Addresses, Transactions)
  BY <1>1 DEF TypeOK, Addresses
<1>3. TimelockCall(t, WithPendingAdmin(timelocks[t], account))
  BY DEF SetTimelockPendingAdmin
<1>4. /\ WithPendingAdmin(timelocks[t], account).admin = timelocks[t].admin
      /\ WithPendingAdmin(timelocks[t], account).queuedTransactions
            = timelocks[t].queuedTransactions
  BY <1>2 DEF WithPendingAdmin, TimelockType
<1> QED BY <1>1, <1>3, <1>4, TimelockCallKept DEF TimelockCall

-----------------------------------------------------------------------------
(* What ended stays ended: a proposal that took a transaction from a timelock *)
(* it was moved to did so for good.                                          *)
LEMMA MovedTwinStays ==
    ASSUME NEW t, NEW tx, MovedTwinEnded(t, tx),
           \A twin \in Ids : State(twin) \in {"Executed", "Canceled"} /\ Known(twin) =>
              /\ proposals'[twin].id = proposals[twin].id
              /\ proposals'[twin].actions = proposals[twin].actions
              /\ proposals'[twin].eta = proposals[twin].eta
              /\ proposals'[twin].canceled = proposals[twin].canceled
              /\ proposals'[twin].executed = proposals[twin].executed
              /\ history'[twin].home = history[twin].home
              /\ history'[twin].endedIn = history[twin].endedIn
    PROVE  (MovedTwinEnded(t, tx))'
<1>1. PICK twin \in Ids :
        /\ QueuedIn(twin, history[twin].home, tx)
        /\ history[twin].home # t
        /\ history[twin].endedIn = t
        /\ State(twin) \in {"Executed", "Canceled"}
  BY DEF MovedTwinEnded
<1>2. /\ Known(twin)
      /\ tx \in TxsOf(proposals[twin].actions, proposals[twin].eta)
  BY <1>1 DEF QueuedIn, Known
<1>3. /\ proposals'[twin].id # 0
      /\ tx \in TxsOf(proposals'[twin].actions, proposals'[twin].eta)
      /\ history'[twin].home # t /\ history'[twin].endedIn = t
  BY <1>1, <1>2 DEF Known
<1>4. (State(twin))' \in {"Executed", "Canceled"}
  BY <1>1, <1>2 DEF State
<1>5. (QueuedIn(twin, history[twin].home, tx))'
  BY <1>3 DEF QueuedIn
<1>6. Ids' = Ids
  BY DEF Ids
<1> QED BY <1>3, <1>4, <1>5, <1>6 DEF MovedTwinEnded

-----------------------------------------------------------------------------
(* A message is processed.                                                   *)
LEMMA ReceiveInv ==
    ASSUME IInv, IType', NEW message \in Messages, Receive(message)
    PROVE  IInv'
<1> DEFINE new == message.pId
           actions == message.payload.actions
           route == message.payload.proposalType
           t == proposalTimelocks[route]
           eta == now + timelocks[t].delay
           txs == TxsOf(actions, eta)
<1> USE DEF IInv, IType
<1>1. /\ new \in Ids /\ new # 0 /\ actions \in Seq(Actions) /\ route \in Routes
      /\ t \in TimelockIds /\ ~Known(new)
  BY MessageType, Constants DEF Receive, NewId, Known, TypeOK
<1>2. /\ timelocks[t].delay \in MINIMUM_DELAY .. MAXIMUM_DELAY /\ now \in Times
      /\ timelocks[t] \in TimelockType(Addresses, Transactions)
  BY <1>1 DEF TypeOK, TimelockType, Addresses
<1>3. /\ \A id \in Ids \ {new} : proposals'[id] = proposals[id] /\ history'[id] = history[id]
      /\ proposals'[new].id = new /\ proposals'[new].eta = eta
      /\ proposals'[new].actions = actions /\ proposals'[new].proposalType = route
      /\ ~proposals'[new].canceled /\ ~proposals'[new].executed
  BY <1>1 DEF Receive, TypeOK, NoProposal
<1>4. /\ history'[new].home = t /\ history'[new].receivedAt = now
  <2>1. history' = [history EXCEPT ![new].receivedAt = now, ![new].home = t]
    BY DEF Receive
  <2>2. history[new] \in History /\ history \in [Ids -> History]
    BY <1>1 DEF TypeOK
  <2>3. history'[new] = [history[new] EXCEPT !.receivedAt = now, !.home = t]
    BY <1>1, <2>1, <2>2
  <2> QED BY <2>2, <2>3 DEF History
<1>5. queued' = queued \cup {new} /\ new \notin queued
  BY <1>1 DEF Receive, FlagsAgree
<1>6. /\ \A other \in TimelockIds \ {t} : timelocks'[other] = timelocks[other]
      /\ timelocks'[t].admin = timelocks[t].admin
      /\ timelocks'[t].queuedTransactions = timelocks[t].queuedTransactions \cup txs
  <2>1. timelocks' = [timelocks EXCEPT ![t] = WithQueued(@, txs)]
    BY DEF Receive
  <2>2. /\ WithQueued(timelocks[t], txs).admin = timelocks[t].admin
        /\ WithQueued(timelocks[t], txs).queuedTransactions
              = timelocks[t].queuedTransactions \cup txs
    BY <1>2 DEF WithQueued, TimelockType
  <2> QED BY <1>1, <2>1, <2>2 DEF TypeOK
<1>7. \A tx \in txs : timelocks[t].admin = Executor /\ tx \notin timelocks[t].queuedTransactions
  BY DEF Receive, Queueable, MayQueueV8, MayQueue
<1>8. (TxsOfProposal(new))' = txs
  BY <1>3 DEF TxsOfProposal
<1>9. \A id \in Ids \ {new} : (TxsOfProposal(id))' = TxsOfProposal(id)
                             /\ (State(id))' = State(id)
  BY <1>3, <1>5 DEF TxsOfProposal, State
<1>10. (State(new))' = "Queued"
  BY <1>3, <1>5 DEF State
<1>11. \A home, tx : MovedTwinEnded(home, tx) => (MovedTwinEnded(home, tx))'
  <2>1. \A twin \in Ids : Known(twin) => twin # new
    BY <1>1
  <2> QED BY <1>3, <2>1, MovedTwinStays
<1>12. FlagsAgree'
  BY <1>1, <1>3, <1>5, Constants DEF FlagsAgree, Known
<1>13. EtasAndTimes'
  <2>1. eta >= now + MINIMUM_DELAY
    BY <1>2, Constants
  <2> QED BY <1>1, <1>3, <1>4, <2>1 DEF EtasAndTimes, Known
<1>14. NoOrphanTransactions'
  <2> SUFFICES ASSUME NEW u \in TimelockIds, timelocks'[u].admin = Executor,
                      NEW tx \in timelocks'[u].queuedTransactions
               PROVE  \E id \in Ids : /\ (QueuedIn(id, u, tx))'
                                       /\ (State(id) = "Queued" \/ history[id].endedIn # u)'
    BY SMTT(30) DEF NoOrphanTransactions, Ids
  <2>1. CASE u = t /\ tx \in txs
    BY <1>1, <1>3, <1>4, <1>10, <2>1 DEF QueuedIn
  <2>2. CASE ~(u = t /\ tx \in txs)
    <3>1. timelocks[u].admin = Executor /\ tx \in timelocks[u].queuedTransactions
      BY <1>6, <2>2
    <3>2. PICK id \in Ids : /\ QueuedIn(id, u, tx)
                            /\ State(id) = "Queued" \/ history[id].endedIn # u
      BY <3>1 DEF NoOrphanTransactions
    <3>3. id # new
      BY <1>1, <3>2 DEF QueuedIn, Known
    <3> QED BY <1>3, <1>9, <3>2, <3>3 DEF QueuedIn
  <2> QED BY <2>1, <2>2
<1>15. QueuedIsBacked'
  <2> SUFFICES ASSUME NEW id \in Ids, (State(id))' = "Queued",
                      timelocks'[history'[id].home].admin = Executor,
                      NEW tx \in (TxsOfProposal(id))'
               PROVE  \/ tx \in timelocks'[history'[id].home].queuedTransactions
                      \/ (MovedTwinEnded(history[id].home, tx))'
    BY DEF QueuedIsBacked, Ids, TxsOfProposal
  <2>1. CASE id = new
    BY <1>4, <1>6, <1>8, <2>1
  <2>2. CASE id # new
    <3> DEFINE home == history[id].home
    <3>1. home \in TimelockIds /\ history'[id].home = home /\ State(id) = "Queued"
          /\ tx \in TxsOfProposal(id)
      BY <1>3, <1>9, <2>2, ProposalType
    <3>2. timelocks[home].admin = Executor
      BY <1>6, <3>1
    <3>3. tx \in timelocks[home].queuedTransactions \/ MovedTwinEnded(home, tx)
      BY <3>1, <3>2 DEF QueuedIsBacked, TxsOfProposal
    <3>4. timelocks[home].queuedTransactions \subseteq timelocks'[home].queuedTransactions
      BY <1>6, <3>1
    <3>5. MovedTwinEnded(home, tx) => (MovedTwinEnded(history[id].home, tx))'
      BY <1>11, <3>1
    <3> QED BY <3>1, <3>3, <3>4, <3>5
  <2> QED BY <2>1, <2>2
<1>16. NothingShared'
  <2>1. ASSUME NEW id \in queued, history[id].home = t, NEW tx \in TxsOfProposal(id) \cap txs
        PROVE  MovedTwinEnded(t, tx)
    <3>1. id \in Ids /\ State(id) = "Queued"
      BY <2>1 DEF FlagsAgree, State, TypeOK
    <3> QED BY <1>7, <2>1, <3>1 DEF QueuedIsBacked, TxsOfProposal
  <2> SUFFICES ASSUME NEW id \in queued', NEW other \in queued', id # other,
                      history'[other].home = history'[id].home,
                      timelocks'[history'[id].home].admin = Executor,
                      NEW tx \in (TxsOfProposal(id))' \cap (TxsOfProposal(other))'
               PROVE  (MovedTwinEnded(history[id].home, tx))'
    BY DEF NothingShared
  <2>2. id \in Ids /\ other \in Ids
    BY DEF TypeOK
  <2>3. CASE id = new
    BY <1>3, <1>4, <1>5, <1>8, <1>9, <1>11, <2>1, <2>2, <2>3
  <2>4. CASE other = new
    BY <1>3, <1>4, <1>5, <1>8, <1>9, <1>11, <2>1, <2>2, <2>4
  <2>5. CASE id # new /\ other # new
    <3> DEFINE home == history[id].home
    <3>1. /\ id \in queued /\ other \in queued /\ home \in TimelockIds
          /\ history'[id].home = home /\ history[other].home = home
          /\ tx \in TxsOfProposal(id) \cap TxsOfProposal(other)
      BY <1>3, <1>5, <1>9, <2>2, <2>5, ProposalType
    <3>2. timelocks[home].admin = Executor
      BY <1>6, <3>1
    <3>3. MovedTwinEnded(home, tx)
      BY <3>1, <3>2 DEF NothingShared
    <3> QED BY <1>11, <3>1, <3>3
  <2> QED BY <2>3, <2>4, <2>5
<1> QED BY <1>12, <1>13, <1>14, <1>15, <1>16

-----------------------------------------------------------------------------
(* A proposal ends: the transactions it had are taken from the timelock of   *)
(* its route, which need not be the one it was queued in.                    *)
Ends(id) ==
    LET t == proposalTimelocks[proposals[id].proposalType] IN
    /\ \A other \in Ids \ {id} :
          proposals'[other] = proposals[other] /\ history'[other] = history[other]
    /\ proposals'[id].id = proposals[id].id
    /\ proposals'[id].eta = proposals[id].eta
    /\ proposals'[id].actions = proposals[id].actions
    /\ proposals'[id].proposalType = proposals[id].proposalType
    /\ proposals'[id].canceled \/ proposals'[id].executed
    /\ queued' = queued \ {id}
    /\ history'[id].home = history[id].home
    /\ history'[id].receivedAt = history[id].receivedAt
    /\ history'[id].endedIn = t
    /\ \A other \in TimelockIds \ {t} : timelocks'[other] = timelocks[other]
    /\ timelocks'[t].admin = timelocks[t].admin
    /\ timelocks'[t].queuedTransactions = timelocks[t].queuedTransactions \ TxsOfProposal(id)

LEMMA EndsInv ==
    ASSUME IInv, IType', NEW id \in Ids, State(id) = "Queued", Ends(id), EtasAndTimes'
    PROVE  IInv'
<1> DEFINE txs == TxsOfProposal(id)
<1> USE DEF IInv, IType
<1>1. id \in queued /\ Known(id)
  BY QueuedHasRoute
<1>t. PICK t \in TimelockIds : t = proposalTimelocks[proposals[id].proposalType]
  BY QueuedHasRoute
<1> USE <1>t
<1>2. \A other \in Ids \ {id} : /\ (TxsOfProposal(other))' = TxsOfProposal(other)
                                /\ (State(other))' = State(other)
  BY DEF Ends, TxsOfProposal, State
<1>3. (TxsOfProposal(id))' = txs /\ (State(id))' \in {"Executed", "Canceled"}
  BY DEF Ends, TxsOfProposal, State
<1>4. \A home, tx : MovedTwinEnded(home, tx) => (MovedTwinEnded(home, tx))'
  <2>1. \A twin \in Ids : State(twin) \in {"Executed", "Canceled"} => twin # id
    OBVIOUS
  <2> QED BY <2>1, MovedTwinStays DEF Ends
<1>5. \A tx \in txs : history[id].home # t => (MovedTwinEnded(t, tx))'
  <2> SUFFICES ASSUME NEW tx \in txs, history[id].home # t
               PROVE  (MovedTwinEnded(t, tx))'
    OBVIOUS
  <2>1. history'[id].home = history[id].home /\ history'[id].endedIn = t
    BY DEF Ends
  <2>2. (QueuedIn(id, history[id].home, tx))'
    BY <1>1, <1>3 DEF Ends, QueuedIn, Known, TxsOfProposal
  <2> QED BY <1>3, <2>1, <2>2 DEF MovedTwinEnded, Ids
<1>6. FlagsAgree'
  <2>1. queued \subseteq Ids
    BY DEF TypeOK
  <2> QED BY <1>1, <2>1 DEF Ends, FlagsAgree, Known
<1>7. NoOrphanTransactions'
  <2> SUFFICES ASSUME NEW u \in TimelockIds, timelocks'[u].admin = Executor,
                      NEW tx \in timelocks'[u].queuedTransactions
               PROVE  \E w \in Ids : /\ (QueuedIn(w, u, tx))'
                                      /\ (State(w) = "Queued" \/ history[w].endedIn # u)'
    BY SMTT(30) DEF NoOrphanTransactions, Ids
  <2>1. /\ timelocks[u].admin = Executor /\ tx \in timelocks[u].queuedTransactions
        /\ u = t => tx \notin txs
    BY <1>1 DEF Ends
  <2>2. PICK w \in Ids : QueuedIn(w, u, tx) /\ (State(w) = "Queued" \/ history[w].endedIn # u)
    BY <2>1 DEF NoOrphanTransactions
  <2>3. CASE w = id
    <3>1. u # t
      BY <2>1, <2>2, <2>3 DEF QueuedIn, TxsOfProposal
    <3>2. history'[id].endedIn # u
      BY <3>1 DEF Ends
    <3>3. (QueuedIn(id, u, tx))'
      BY <2>2, <2>3 DEF Ends, QueuedIn
    <3> QED BY <3>2, <3>3
  <2>4. CASE w # id
    BY <1>2, <2>2, <2>4 DEF Ends, QueuedIn
  <2> QED BY <2>3, <2>4
<1>8. QueuedIsBacked'
  <2> SUFFICES ASSUME NEW other \in Ids, (State(other))' = "Queued",
                      timelocks'[history'[other].home].admin = Executor,
                      NEW tx \in (TxsOfProposal(other))'
               PROVE  \/ tx \in timelocks'[history'[other].home].queuedTransactions
                      \/ (MovedTwinEnded(history[other].home, tx))'
    BY DEF QueuedIsBacked, Ids, TxsOfProposal
  <2> DEFINE home == history[other].home
  <2>1. other # id
    BY <1>3
  <2>2. /\ home \in TimelockIds /\ history'[other].home = home
        /\ State(other) = "Queued" /\ other \in queued /\ tx \in TxsOfProposal(other)
    BY <1>2, <2>1, ProposalType DEF Ends, State
  <2>3. timelocks[home].admin = Executor
    BY <2>2 DEF Ends
  <2>4. CASE MovedTwinEnded(home, tx)
    BY <1>4, <2>2, <2>4
  <2>5. CASE ~MovedTwinEnded(home, tx)
    <3>1. tx \in timelocks[home].queuedTransactions
      BY <2>2, <2>3, <2>5 DEF QueuedIsBacked, TxsOfProposal
    <3>2. CASE home # t \/ tx \notin txs
      BY <2>2, <3>1, <3>2 DEF Ends
    <3>3. CASE home = t /\ tx \in txs
      <4>1. history[id].home # t
        <5> SUFFICES ASSUME history[id].home = t PROVE FALSE
          OBVIOUS
        <5>1. MovedTwinEnded(t, tx)
          BY <1>1, <2>1, <2>2, <2>3, <3>3 DEF NothingShared
        <5> QED BY <2>5, <3>3, <5>1
      <4>2. (MovedTwinEnded(t, tx))'
        BY <1>5, <3>3, <4>1
      <4>3. history'[other].home = t
        BY <2>2, <3>3
      <4> QED BY <4>2, <4>3
    <3> QED BY <3>2, <3>3
  <2> QED BY <2>4, <2>5
<1>9. NothingShared'
  <2> SUFFICES ASSUME NEW one \in queued', NEW other \in queued', one # other,
                      history'[other].home = history'[one].home,
                      timelocks'[history'[one].home].admin = Executor,
                      NEW tx \in (TxsOfProposal(one))' \cap (TxsOfProposal(other))'
               PROVE  (MovedTwinEnded(history[one].home, tx))'
    BY DEF NothingShared
  <2> DEFINE home == history[one].home
  <2>1. one \in Ids \ {id} /\ other \in Ids \ {id} /\ one \in queued /\ other \in queued
    BY DEF Ends, TypeOK
  <2>2. /\ home \in TimelockIds /\ history'[one].home = home /\ history[other].home = home
        /\ tx \in TxsOfProposal(one) \cap TxsOfProposal(other)
    BY <1>2, <2>1, ProposalType DEF Ends
  <2>3. timelocks[home].admin = Executor
    BY <2>2 DEF Ends
  <2>4. MovedTwinEnded(home, tx)
    BY <2>1, <2>2, <2>3 DEF NothingShared
  <2> QED BY <1>4, <2>2, <2>4
<1> QED BY <1>6, <1>7, <1>8, <1>9

LEMMA ExecuteInv ==
    ASSUME IInv, NEW id \in Ids, Execute(id)
    PROVE  IInv'
<1> DEFINE p == proposals[id]
           t == proposalTimelocks[p.proposalType]
           txs == TxsOfProposal(id)
<1>1. IType' /\ TypeOK /\ FlagsAgree /\ State(id) = "Queued"
  BY ExecuteType DEF IInv, IType, Execute
<1>2. /\ p \in Proposal /\ history[id] \in History /\ p.actions \in Seq(Actions)
      /\ proposals \in [Ids -> Proposal] /\ history \in [Ids -> History]
  BY <1>1, ProposalType DEF TypeOK
<1>3. t \in TimelockIds /\ timelocks[t] \in TimelockType(Addresses, Transactions)
  BY <1>1, QueuedHasRoute DEF Timelock
<1>4. PICK delay \in DelaysAfter(p.actions, timelocks[t].delay) :
         timelocks' = [timelocks EXCEPT ![t] = WithDelay(WithoutQueued(@, txs), delay)]
  BY DEF Execute, Timelock, TxsOfProposal
<1>5. /\ WithDelay(WithoutQueued(timelocks[t], txs), delay).admin = timelocks[t].admin
      /\ WithDelay(WithoutQueued(timelocks[t], txs), delay).queuedTransactions
            = timelocks[t].queuedTransactions \ txs
  BY <1>3 DEF WithDelay, WithoutQueued, TimelockType
<1>6. /\ \A other \in TimelockIds \ {t} : timelocks'[other] = timelocks[other]
      /\ timelocks'[t].admin = timelocks[t].admin
      /\ timelocks'[t].queuedTransactions = timelocks[t].queuedTransactions \ txs
  BY <1>1, <1>3, <1>4, <1>5 DEF TypeOK
<1>7. /\ \A other \in Ids \ {id} : proposals'[other] = proposals[other]
      /\ proposals'[id] = [p EXCEPT !.executed = TRUE]
      /\ queued' = queued \ {id}
  BY <1>2 DEF Execute
<1>8. /\ \A other \in Ids \ {id} : history'[other] = history[other]
      /\ history'[id] = [history[id] EXCEPT !.executedAt = now, !.endedIn = t]
  BY <1>2 DEF Execute
<1>9. /\ proposals'[id].id = p.id /\ proposals'[id].eta = p.eta
      /\ proposals'[id].actions = p.actions /\ proposals'[id].proposalType = p.proposalType
      /\ proposals'[id].canceled = p.canceled /\ proposals'[id].executed = TRUE
  BY <1>2, <1>7 DEF Proposal
<1>10. /\ history'[id].home = history[id].home
       /\ history'[id].receivedAt = history[id].receivedAt
       /\ history'[id].executedAt = now /\ history'[id].endedIn = t
  BY <1>2, <1>8 DEF History
<1>11. Ends(id)
  BY <1>6, <1>7, <1>8, <1>9, <1>10 DEF Ends
<1>12. p.actions # <<>> => now >= p.eta /\ now <= p.eta + GRACE_PERIOD
  <2> SUFFICES ASSUME p.actions # <<>>
               PROVE  now >= p.eta /\ now <= p.eta + GRACE_PERIOD
    OBVIOUS
  <2>1. 1 \in DOMAIN p.actions
    BY <1>2
  <2>2. Tx(p.actions[1], p.eta) \in TxsOf(p.actions, p.eta)
    BY <2>1 DEF TxsOf
  <2>3. MayExecute(Timelock(id), Executor, Tx(p.actions[1], p.eta), now)
    BY <2>2 DEF Execute
  <2> QED BY <2>3 DEF MayExecute, NotStale, Tx
<1>13. EtasAndTimes'
  <2>1. EtasAndTimes /\ Ids' = Ids
    BY DEF IInv, Ids
  <2> SUFFICES ASSUME NEW other \in Ids
               PROVE  /\ (Known(other) => proposals[other].eta
                                            >= history[other].receivedAt + MINIMUM_DELAY)'
                      /\ (proposals[other].executed /\ proposals[other].actions # <<>> =>
                            /\ history[other].executedAt >= proposals[other].eta
                            /\ history[other].executedAt
                                 <= proposals[other].eta + GRACE_PERIOD)'
    BY <2>1 DEF EtasAndTimes
  <2>2. CASE other = id
    BY <1>9, <1>10, <1>12, <2>1, <2>2 DEF EtasAndTimes, Known
  <2>3. CASE other # id
    BY <1>7, <1>8, <2>1, <2>3 DEF EtasAndTimes, Known
  <2> QED BY <2>2, <2>3
<1> QED BY <1>1, <1>11, <1>13, EndsInv

LEMMA CancelInv ==
    ASSUME IInv, NEW id \in Ids, NEW caller \in Accounts, Cancel(caller, id)
    PROVE  IInv'
<1> DEFINE p == proposals[id]
           t == proposalTimelocks[p.proposalType]
           txs == TxsOfProposal(id)
<1>1. IType' /\ TypeOK /\ FlagsAgree /\ State(id) = "Queued"
  BY CancelType DEF IInv, IType, Cancel
<1>2. /\ p \in Proposal /\ history[id] \in History
      /\ proposals \in [Ids -> Proposal] /\ history \in [Ids -> History]
  BY <1>1, ProposalType DEF TypeOK
<1>3. t \in TimelockIds /\ timelocks[t] \in TimelockType(Addresses, Transactions)
  BY <1>1, QueuedHasRoute DEF Timelock
<1>4. timelocks' = [timelocks EXCEPT ![t] = WithoutQueued(@, txs)]
  BY DEF Cancel, TimelocksAfterCancel, TxsOfProposal
<1>5. /\ WithoutQueued(timelocks[t], txs).admin = timelocks[t].admin
      /\ WithoutQueued(timelocks[t], txs).queuedTransactions
            = timelocks[t].queuedTransactions \ txs
  BY <1>3 DEF WithoutQueued, TimelockType
<1>6. /\ \A other \in TimelockIds \ {t} : timelocks'[other] = timelocks[other]
      /\ timelocks'[t].admin = timelocks[t].admin
      /\ timelocks'[t].queuedTransactions = timelocks[t].queuedTransactions \ txs
  BY <1>1, <1>3, <1>4, <1>5 DEF TypeOK
<1>7. /\ \A other \in Ids \ {id} : proposals'[other] = proposals[other]
      /\ proposals'[id] = [p EXCEPT !.canceled = TRUE]
      /\ queued' = queued \ {id}
  BY <1>2 DEF Cancel
<1>8. /\ \A other \in Ids \ {id} : history'[other] = history[other]
      /\ history'[id] = [history[id] EXCEPT !.endedIn = t]
  BY <1>2 DEF Cancel
<1>9. /\ proposals'[id].id = p.id /\ proposals'[id].eta = p.eta
      /\ proposals'[id].actions = p.actions /\ proposals'[id].proposalType = p.proposalType
      /\ proposals'[id].canceled = TRUE /\ proposals'[id].executed = p.executed
  BY <1>2, <1>7 DEF Proposal
<1>10. /\ history'[id].home = history[id].home
       /\ history'[id].receivedAt = history[id].receivedAt
       /\ history'[id].executedAt = history[id].executedAt /\ history'[id].endedIn = t
  BY <1>2, <1>8 DEF History
<1>11. Ends(id)
  BY <1>6, <1>7, <1>8, <1>9, <1>10 DEF Ends
<1>12. EtasAndTimes'
  <2>1. EtasAndTimes /\ Ids' = Ids
    BY DEF IInv, Ids
  <2> QED BY <1>7, <1>8, <1>9, <1>10, <2>1 DEF EtasAndTimes, Known
<1> QED BY <1>1, <1>11, <1>12, EndsInv

-----------------------------------------------------------------------------
LEMMA MessageInv ==
    ASSUME IInv, MessageNext
    PROVE  IInv'
<1>1. IType
  BY DEF IInv
<1>2. CASE LzReceive
  BY <1>1, <1>2, LzReceiveType, DeliveredType, ReceiveInv DEF LzReceive
<1>3. CASE LzReceiveFails
  BY <1>1, <1>3, LzReceiveFailsType, SameTimelocksKept, UntouchedInv DEF LzReceiveFails, records
<1>4. CASE PayloadStored
  BY <1>1, <1>4, PayloadStoredType, SameTimelocksKept, UntouchedInv DEF PayloadStored, records
<1>5. CASE ForceResumeReceive
  BY <1>1, <1>5, ForceResumeReceiveType, SameTimelocksKept, UntouchedInv
     DEF ForceResumeReceive, records
<1>6. ASSUME NEW nonce \in failedMessages, RetryMessage(nonce) PROVE IInv'
  BY <1>1, <1>6, RetryMessageType, FailedIsInInbox, ReceiveInv DEF RetryMessage
<1> QED BY <1>2, <1>3, <1>4, <1>5, <1>6 DEF MessageNext

LEMMA SettingInv ==
    ASSUME IInv, SettingNext
    PROVE  IInv'
<1>1. IType /\ TypeOK
  BY DEF IInv, IType
<1>2. ASSUME NEW account \in AdminChoices, NEW route \in Routes,
             SetTimelockPendingAdmin(account, route)
      PROVE  IInv'
  BY <1>1, <1>2, SetTimelockPendingAdminType, SetTimelockPendingAdminKept, UntouchedInv
<1>3. CASE \/ \E account \in GuardianChoices : SetGuardian(account)
           \/ \E chain \in ChainIds : SetSrcChainId(chain)
           \/ \E value \in TrustChoices : SetTrustedRemote(value)
           \/ \E limit \in Limits : SetMaxDailyReceiveLimit(limit)
           \/ \E value \in BOOLEAN : SetPaused(value)
           \/ \E choice \in TimelockChoices : AddTimelocks(choice)
  BY <1>1, <1>3, SettingCallType, SameTimelocksKept, UntouchedInv DEF records
<1> QED BY <1>2, <1>3 DEF SettingNext

LEMMA NextInv == IInv /\ [Next]_vars => IInv'
<1> SUFFICES ASSUME IInv, [Next]_vars PROVE IInv'
  OBVIOUS
<1>1. IType /\ TypeOK
  BY DEF IInv, IType
<1>2. CASE MessageNext
  BY <1>2, MessageInv
<1>3. CASE ProposalNext
  BY <1>3, ExecuteInv, CancelInv DEF ProposalNext
<1>4. CASE SettingNext
  BY <1>4, SettingInv
<1>5. CASE TimelockNext
  BY <1>1, <1>5, OthersCallType, OthersCallKept, UntouchedInv
<1>6. ASSUME NEW seconds \in TimeSteps, Tick(seconds) PROVE IInv'
  BY <1>1, <1>6, TickType, SameTimelocksKept, UntouchedInv DEF Tick, records
<1>7. CASE UNCHANGED vars
  <2>1. UNCHANGED settings /\ UNCHANGED records /\ UNCHANGED <<endpoint, now>>
    BY <1>7 DEF vars
  <2>2. IType'
    BY <1>1, <2>1, SettingsType, RecordsType, EndpointType DEF IType, TypeOK, Addresses
  <2> QED BY <2>1, <2>2, SameTimelocksKept, UntouchedInv DEF records
<1> QED BY <1>2, <1>3, <1>4, <1>5, <1>6, <1>7 DEF Next, CallNext

(* Sending more messages to the chain, which is up to the source chain,      *)
(* disturbs nothing here.                                                    *)
Environment ==
    /\ inbox' \in Seq(Messages)
    /\ Len(inbox) <= Len(inbox')
    /\ UNCHANGED <<settings, records, failedMessages, inboundNonce, blocked, now>>

LEMMA EnvironmentInv ==
    ASSUME IInv, Environment
    PROVE  IInv'
<1>1. TypeOK /\ UNCHANGED settings /\ UNCHANGED records
      /\ UNCHANGED <<failedMessages, inboundNonce, blocked, now>>
  BY DEF Environment, IInv, IType
<1>2. Arrived'
  <2>1. inboundNonce \in Nat /\ Len(inbox) \in Nat /\ Len(inbox') \in Nat
    BY DEF Environment, IInv, IType, TypeOK
  <2> QED BY <1>1, <2>1 DEF Environment, IInv, IType, Arrived
<1>3. IType'
  BY <1>1, <1>2, SettingsType, RecordsType DEF Environment, IType, TypeOK, Addresses
<1> QED BY <1>1, <1>3, SameTimelocksKept, UntouchedInv DEF records

(* Time passes by itself; a call sends no message from here.                 *)
LEMMA CallsKeepTime == CallNext => UNCHANGED <<inbox, now>>
<1>1. MessageNext => UNCHANGED <<inbox, now>>
  BY DEF MessageNext, LzReceive, LzReceiveFails, PayloadStored, ForceResumeReceive,
     RetryMessage, Delivered
<1>2. ProposalNext => UNCHANGED <<inbox, now>>
  BY DEF ProposalNext, Execute, Cancel, endpoint
<1>3. SettingNext => UNCHANGED <<inbox, now>>
  BY DEF SettingNext, SetGuardian, SetSrcChainId, SetTrustedRemote, SetMaxDailyReceiveLimit,
     SetPaused, AddTimelocks, SetTimelockPendingAdmin, TimelockCall, endpoint
<1>4. TimelockNext => UNCHANGED <<inbox, now>>
  BY DEF TimelockNext, AcceptAdmin, QueueTransaction, CancelTransaction, ExecuteTransaction,
     TimelockCall, endpoint
<1> QED BY <1>1, <1>2, <1>3, <1>4 DEF CallNext

-----------------------------------------------------------------------------
THEOREM Invariance == Spec => []IInv
<1> QED BY InitInv, NextInv, PTL DEF Spec

(* What is stored keeps its type through every call, delivery, failure and   *)
(* retry; the settings the owner may make stay within what the code accepts. *)
THEOREM TypeCorrect == Spec => []TypeOK
<1>1. IInv => TypeOK
  BY DEF IInv, IType
<1> QED BY <1>1, Invariance, PTL

(* A queued proposal keeps its transactions in the timelock it was queued in *)
(* for as long as the executor administers it, unless a proposal that was    *)
(* moved to that timelock took one.                                          *)
THEOREM AlwaysBacked == Spec => []QueuedIsBacked
<1>1. IInv => QueuedIsBacked
  BY DEF IInv
<1> QED BY <1>1, Invariance, PTL

(* What waits in a timelock of the executor belongs to a proposal that is    *)
(* queued there, or ended in another one.                                    *)
THEOREM NothingOrphaned == Spec => []NoOrphanTransactions
<1>1. IInv => NoOrphanTransactions
  BY DEF IInv
<1> QED BY <1>1, Invariance, PTL

LEMMA IInvWaits == IInv => ExecutionWaited
<1> SUFFICES ASSUME IInv, NEW id \in Ids,
                    proposals[id].executed, proposals[id].actions # <<>>
             PROVE  /\ history[id].executedAt >= history[id].receivedAt + MINIMUM_DELAY
                    /\ history[id].executedAt <= proposals[id].eta + GRACE_PERIOD
  BY DEF ExecutionWaited
<1>1. Known(id)
  BY DEF IInv, FlagsAgree
<1>2. /\ proposals[id].eta >= history[id].receivedAt + MINIMUM_DELAY
      /\ history[id].executedAt >= proposals[id].eta
      /\ history[id].executedAt <= proposals[id].eta + GRACE_PERIOD
  BY <1>1 DEF IInv, EtasAndTimes
<1>3. /\ proposals[id].eta \in Nat /\ history[id].executedAt \in Nat
      /\ history[id].receivedAt \in Nat
  BY ProposalType, Constants DEF IInv, IType
<1> QED BY <1>2, <1>3, TimelockAssumption

(* Nothing with an action is executed before the shortest delay a timelock   *)
(* may have has passed since the proposal was received, nor after the grace  *)
(* period, whatever delays were set in between.                              *)
THEOREM AlwaysWaited == Spec => []ExecutionWaited
BY IInvWaits, Invariance, PTL
=============================================================================
