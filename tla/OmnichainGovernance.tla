------------------------- MODULE OmnichainGovernance -------------------------
(***************************************************************************)
(* The sender on the source chain and the executor on one remote chain,    *)
(* joined by the LayerZero channel between them: what the endpoint of the  *)
(* sender accepted for the chain is the inbox of the executor's.  The      *)
(* messaging layer loses, duplicates and reorders nothing by itself, and   *)
(* takes any time to deliver.  The chains share the clock.                 *)
(***************************************************************************)
EXTENDS Integers, Sequences

CONSTANTS
    RemoteChain, ChainIds, Source,
    Executor, Accounts, ZeroAddress,
    Routes, Actions, Payloads, DelayCalls,
    TimelockIds, InitialTimelocks, InitialDelays, InitialGuardian,
    TimelockChoices, AdminChoices, GuardianChoices, TrustChoices,
    Values, SenderLimits, ReceiveLimits,
    GRACE_PERIOD, MINIMUM_DELAY, MAXIMUM_DELAY, DAY,
    TimeSteps, MaxProposals, MaxTime

VARIABLES
    (* the sender *)
    senderPaused, trustedRemoteLookup, proposalCount, storedExecutionHashes,
    chainIdToMaxDailyLimit, window, chainIdToLastProposalSentTimestamp, balance, sent,
    (* the executor *)
    paused, trusted, srcChainId, guardian, maxDailyReceiveLimit, receiveWindow,
    lastProposalReceived, proposals, queued, proposalTimelocks, timelocks,
    failedMessages, inboundNonce, blocked, history,
    (* both *)
    now

senderVars == <<senderPaused, trustedRemoteLookup, proposalCount, storedExecutionHashes,
                chainIdToMaxDailyLimit, window, chainIdToLastProposalSentTimestamp,
                balance, sent>>
executorVars == <<paused, trusted, srcChainId, guardian, maxDailyReceiveLimit,
                  receiveWindow, lastProposalReceived, proposals, queued,
                  proposalTimelocks, timelocks, failedMessages, inboundNonce, blocked,
                  history>>
vars == <<senderVars, executorVars, now>>

inbox == sent[RemoteChain]

Sender == INSTANCE OmnichainProposalSender
    WITH RemoteChains <- {RemoteChain}, Limits <- SenderLimits, paused <- senderPaused

Remote == INSTANCE OmnichainGovernanceExecutor
    WITH Limits <- ReceiveLimits, Inboxes <- {<<>>}

Ids == 1 .. MaxProposals

ASSUME BridgeAssumption ==
    /\ Sender!SenderAssumption /\ Sender!DayAssumption
    /\ Remote!ExecutorAssumption /\ Remote!TimelockAssumption /\ Remote!DayAssumption

-----------------------------------------------------------------------------
Init == Sender!Init /\ Remote!Init

SenderStep == Sender!CallNext /\ UNCHANGED executorVars

ExecutorStep == UNCHANGED senderVars /\ Remote!CallNext

Tick(seconds) == Sender!Tick(seconds) /\ Remote!Tick(seconds)

Next ==
    \/ SenderStep
    \/ ExecutorStep
    \/ \E seconds \in TimeSteps : Tick(seconds)

Spec == Init /\ [][Next]_vars

(* The relayers deliver what was sent, and anybody may retry a payload that  *)
(* the endpoint keeps, with enough gas: delivery does not wait forever.      *)
Deliver ==
    /\ UNCHANGED senderVars
    /\ Remote!LzReceive \/ Remote!LzReceiveFails

FairSpec == Spec /\ WF_vars(Deliver)

-----------------------------------------------------------------------------
(* Properties *)

(* Where a proposal is, by the records of both ends. *)
Nonces(id) == {k \in DOMAIN inbox : inbox[k].pId = id}

Place(id) ==
    IF id > proposalCount THEN "None"
    ELSE IF proposals[id].id # 0 THEN Remote!State(id)
    ELSE IF \E e \in storedExecutionHashes : e.pId = id THEN "Stored"
    ELSE IF Nonces(id) = {} THEN "Withdrawn"
    ELSE IF \E k \in Nonces(id) : k > inboundNonce THEN "InTransit"
    ELSE IF Nonces(id) \cap failedMessages # {} THEN "Failed"
    ELSE "Lost"

Lifecycle == INSTANCE RemoteProposal WITH place <- [id \in Ids |-> Place(id)]

(* Both ends together move every proposal as RemoteProposal says: through    *)
(* refused sends, retries, withdrawals, failed and repeated deliveries, no   *)
(* proposal is lost, sent or queued twice, or revived, and a call touches no *)
(* proposal but its own.                                                     *)
FollowsRemoteProposal == Lifecycle!Spec

(* What is stored at one place is stored at no other: the remote end keeps   *)
(* no message of a proposal it accepted, and has none of one still stored.   *)
NoLeftovers ==
    \A id \in Ids :
        /\ proposals[id].id # 0 => Nonces(id) \cap failedMessages = {}
        /\ \A e \in storedExecutionHashes : e.pId = id =>
              Nonces(id) = {} /\ proposals[id].id = 0

(* The executor is non-blocking, "meaning the failed messages will not block *)
(* the future messages from the source": while it trusts the sender, every   *)
(* message that was sent reaches it, whatever became of those before.        *)
ArrivesEventually ==
    \A id \in Ids : Place(id) = "InTransit" ~> Place(id) # "InTransit" \/ ~trusted
=============================================================================
