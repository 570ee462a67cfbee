----------------------- MODULE OmnichainProposalSender -----------------------
(***************************************************************************)
(* OmnichainProposalSender.sol with its base BaseOmnichainControllerSrc:   *)
(* it hands proposals for other chains to the LayerZero endpoint, keeps    *)
(* what the endpoint refused, with the native value paid for it, and       *)
(* limits the commands sent to each chain.                                 *)
(*                                                                         *)
(* A step is one transaction of a caller whom the access control manager   *)
(* allows (or of the owner, where the code asks for the owner), or the     *)
(* passing of time.  A call that reverts is no step.  The endpoint is      *)
(* external: send either reverts, for a fee that is too low or any other   *)
(* reason, or appends the message to the channel of the remote chain.      *)
(* adapterParams is left out: a stored execution can only be retried or    *)
(* withdrawn with the parameters it was stored with.                       *)
(***************************************************************************)
EXTENDS Integers, Sequences, FiniteSetsExt, DailyWindow

CONSTANTS
    RemoteChains,
    Actions,           \* (target, value, signature, calldata) tuples
    Payloads,          \* what is proposed: a list of actions and a type
    Values,            \* native amounts sent along with execute
    Limits,            \* arguments of setMaxDailyLimit
    TimeSteps,         \* seconds between two blocks
    MaxProposals, MaxTime     \* bounds of the model

ASSUME SenderAssumption ==
    /\ Payloads \subseteq [actions : Seq(Actions), proposalType : Nat]
    /\ Values \subseteq Nat
    /\ Limits \subseteq Nat /\ IsFiniteSet(Limits)      \* uint256
    /\ TimeSteps \subseteq Nat
    /\ MaxProposals \in Nat
    /\ MaxTime \in Nat

VARIABLES
    paused,
    trustedRemoteLookup,        \* the chains a trusted remote is set for
    proposalCount,
    storedExecutionHashes,      \* the executions whose hashes are stored
    chainIdToMaxDailyLimit,
    window,                     \* chain -> chainIdToLast24HourWindowStart and
                                \* chainIdToLast24HourCommandsSent
    chainIdToLastProposalSentTimestamp,
    balance,                    \* the native balance of the contract
    sent,                       \* chain -> the messages the endpoint accepted
    now                         \* block.timestamp

settings == <<paused, trustedRemoteLookup, chainIdToMaxDailyLimit>>
limits == <<window, chainIdToLastProposalSentTimestamp>>
vars == <<settings, limits, proposalCount, storedExecutionHashes, balance, sent, now>>

-----------------------------------------------------------------------------
Ids == 1 .. MaxProposals
Executions == [pId : Ids, chain : RemoteChains, payload : Payloads, value : Values \ {0}]
Messages == [pId : Ids, payload : Payloads, sentAt : Nat]

(* Deployment.  The counters of the daily limits are zero and the clock is   *)
(* far past the first day.                                                   *)
Init ==
    /\ paused = FALSE
    /\ trustedRemoteLookup = {}
    /\ proposalCount = 0
    /\ storedExecutionHashes = {}
    /\ chainIdToMaxDailyLimit = [c \in RemoteChains |-> 0]
    /\ window = [c \in RemoteChains |-> NoWindow]
    /\ chainIdToLastProposalSentTimestamp = [c \in RemoteChains |-> 0]
    /\ balance = 0
    /\ sent = [c \in RemoteChains |-> <<>>]
    /\ now = DAY + 1

-----------------------------------------------------------------------------
(* _isEligibleToSend *)
EligibleToSend(chain, commands) ==
    /\ Fits(window[chain], now, commands, chainIdToMaxDailyLimit[chain])
    /\ chainIdToLastProposalSentTimestamp[chain] # now

CountCommands(chain, commands) ==
    /\ window' = [window EXCEPT ![chain] = Charged(@, now, commands)]
    /\ chainIdToLastProposalSentTimestamp' =
          [chainIdToLastProposalSentTimestamp EXCEPT ![chain] = now]

(* LZ_ENDPOINT.send when it succeeds. *)
Send(chain, pId, payload) ==
    sent' = [sent EXCEPT ![chain] =
               Append(@, [pId |-> pId, payload |-> payload, sentAt |-> now])]

(* execute up to the send; the lengths of the payload's arrays agree. *)
Propose(chain, payload, value) ==
    /\ ~paused
    /\ value > 0
    /\ chain \in trustedRemoteLookup
    /\ EligibleToSend(chain, Len(payload.actions))
    /\ proposalCount < MaxProposals
    /\ CountCommands(chain, Len(payload.actions))
    /\ proposalCount' = proposalCount + 1
    /\ UNCHANGED <<settings, now>>

(* execute, when the endpoint takes the message. *)
Execute(chain, payload, value) ==
    /\ Propose(chain, payload, value)
    /\ Send(chain, proposalCount', payload)
    /\ UNCHANGED <<storedExecutionHashes, balance>>

(* execute, when the endpoint reverts: the catch block.                      *)
ExecuteFails(chain, payload, value) ==
    /\ Propose(chain, payload, value)
    /\ storedExecutionHashes' = storedExecutionHashes \cup
          {[pId |-> proposalCount', chain |-> chain, payload |-> payload, value |-> value]}
    /\ balance' = balance + value
    /\ UNCHANGED sent

(* Mutant: the hash stays. *)
NotCleared(execution) == storedExecutionHashes

Cleared(execution) == storedExecutionHashes \ {execution}

(* retryExecute pays the original value and what the caller adds; a send     *)
(* that reverts undoes it all.                                               *)
RetryExecute(execution) ==
    /\ ~paused
    /\ execution.chain \in trustedRemoteLookup
    /\ EligibleToSend(execution.chain, Len(execution.payload.actions))
    /\ balance >= execution.value
    /\ CountCommands(execution.chain, Len(execution.payload.actions))
    /\ storedExecutionHashes' = Cleared(execution)
    /\ balance' = balance - execution.value
    /\ Send(execution.chain, execution.pId, execution.payload)
    /\ UNCHANGED <<settings, proposalCount, now>>

FallbackWithdraw(execution) ==
    /\ balance >= execution.value
    /\ storedExecutionHashes' = Cleared(execution)
    /\ balance' = balance - execution.value
    /\ UNCHANGED <<settings, limits, proposalCount, sent, now>>

-----------------------------------------------------------------------------
(* Settings *)

SetTrustedRemoteAddress(chain) ==
    /\ trustedRemoteLookup' = trustedRemoteLookup \cup {chain}
    /\ UNCHANGED <<paused, chainIdToMaxDailyLimit, limits, proposalCount,
                   storedExecutionHashes, balance, sent, now>>

RemoveTrustedRemote(chain) ==
    /\ chain \in trustedRemoteLookup
    /\ trustedRemoteLookup' = trustedRemoteLookup \ {chain}
    /\ UNCHANGED <<paused, chainIdToMaxDailyLimit, limits, proposalCount,
                   storedExecutionHashes, balance, sent, now>>

SetMaxDailyLimit(chain, limit) ==
    /\ chainIdToMaxDailyLimit' = [chainIdToMaxDailyLimit EXCEPT ![chain] = limit]
    /\ UNCHANGED <<paused, trustedRemoteLookup, limits, proposalCount,
                   storedExecutionHashes, balance, sent, now>>

(* pause and unpause, which revert if there is nothing to change. *)
SetPaused(value) ==
    /\ paused # value
    /\ paused' = value
    /\ UNCHANGED <<trustedRemoteLookup, chainIdToMaxDailyLimit, limits, proposalCount,
                   storedExecutionHashes, balance, sent, now>>

Tick(seconds) ==
    /\ now + seconds <= MaxTime
    /\ now' = now + seconds
    /\ UNCHANGED <<settings, limits, proposalCount, storedExecutionHashes, balance, sent>>

-----------------------------------------------------------------------------
CallNext ==
    \/ \E chain \in RemoteChains, payload \in Payloads, value \in Values :
          \/ Execute(chain, payload, value)
          \/ ExecuteFails(chain, payload, value)
    \/ \E execution \in storedExecutionHashes :
          \/ RetryExecute(execution)
          \/ FallbackWithdraw(execution)
    \/ \E chain \in RemoteChains :
          \/ SetTrustedRemoteAddress(chain)
          \/ RemoveTrustedRemote(chain)
          \/ \E limit \in Limits : SetMaxDailyLimit(chain, limit)
    \/ \E value \in BOOLEAN : SetPaused(value)

Next == CallNext \/ \E seconds \in TimeSteps : Tick(seconds)

Spec == Init /\ [][Next]_vars

-----------------------------------------------------------------------------
(* Properties *)

TypeOK ==
    /\ paused \in BOOLEAN
    /\ trustedRemoteLookup \subseteq RemoteChains
    /\ proposalCount \in 0 .. MaxProposals
    /\ storedExecutionHashes \subseteq Executions
    /\ chainIdToMaxDailyLimit \in [RemoteChains -> Nat]
    /\ window \in [RemoteChains -> Window]
    /\ chainIdToLastProposalSentTimestamp \in [RemoteChains -> Nat]
    /\ balance \in Nat
    /\ sent \in [RemoteChains -> Seq(Messages)]
    /\ now \in Nat

(* The native value of every stored execution is in the contract, and none   *)
(* beyond it: whatever order retries and withdrawals come in, each can be    *)
(* paid, and no value is left behind.                                        *)
StoredIsFunded ==
    balance = MapThenSumSet(LAMBDA e : e.value, storedExecutionHashes)

(* The message k of a chain is the proposal id. *)
SentAs(id, chain, k) == k \in DOMAIN sent[chain] /\ sent[chain][k].pId = id

(* A proposal is sent at most once and to one chain, whether at first or by  *)
(* a retry, and while its execution is stored it has not been sent.          *)
SentOnce ==
    \A c, d \in RemoteChains, id \in Ids : \A k \in DOMAIN sent[c] : SentAs(id, c, k) =>
        /\ \A l \in DOMAIN sent[d] : SentAs(id, d, l) => c = d /\ k = l
        /\ \A e \in storedExecutionHashes : e.pId # id
        /\ id <= proposalCount

(* The commands of the messages sent to a chain from time from to time to.   *)
CommandsSent(chain, from, to) ==
    MapThenSumSet(LAMBDA k : Len(sent[chain][k].payload.actions),
                  {k \in DOMAIN sent[chain] : sent[chain][k].sentAt \in from .. to})

(* In no span of a day are more commands sent to a chain than twice the      *)
(* highest limit: what the restarting window guarantees.                     *)
TwoLimitsPerDay ==
    \A chain \in RemoteChains :
        CommandsSent(chain, now - DAY, now) <= 2 * Max(Limits \cup {0})
=============================================================================
