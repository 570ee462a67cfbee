---------------------- MODULE OmnichainGovernanceProofs ----------------------
(***************************************************************************)
(* The sender and the executor, joined by the channel, implement           *)
(* RemoteProposal, and each keeps in the whole what it keeps on its own.   *)
(***************************************************************************)
EXTENDS OmnichainGovernance, TLAPS

S == INSTANCE OmnichainProposalSenderProofs
    WITH RemoteChains <- {RemoteChain}, Limits <- SenderLimits, paused <- senderPaused

R == INSTANCE OmnichainGovernanceExecutorProofs
    WITH Limits <- ReceiveLimits, Inboxes <- {<<>>}

-----------------------------------------------------------------------------
(* The two ends are those of the modules that prove about them.              *)

LEMMA SameAssumptions ==
    /\ S!SenderAssumption /\ S!DayAssumption
    /\ R!ExecutorAssumption /\ R!TimelockAssumption /\ R!DayAssumption
BY BridgeAssumption
   DEF S!SenderAssumption, Sender!SenderAssumption, S!DayAssumption, Sender!DayAssumption,
       R!ExecutorAssumption, Remote!ExecutorAssumption, R!TimelockAssumption,
       Remote!TimelockAssumption, R!DayAssumption, Remote!DayAssumption,
       R!Messages, Remote!Messages, R!Ids, Remote!Ids, S!IsFiniteSet, Sender!IsFiniteSet

LEMMA SameInit == Init => S!Init /\ R!Init
<1> SUFFICES ASSUME Init PROVE S!Init /\ R!Init
  OBVIOUS
<1>1. S!Init
  BY DEF Init, Sender!Init, S!Init, Sender!NoWindow, S!NoWindow
<1>2. R!Init
  BY DEF Init, Remote!Init, R!Init, Remote!NoWindow, R!NoWindow, Remote!NoProposal,
     R!NoProposal, Remote!NewTimelock, R!NewTimelock, Remote!Ids, R!Ids
<1> QED BY <1>1, <1>2

LEMMA SameSenderCalls == Sender!CallNext => S!CallNext
<1> USE DEF Sender!settings, S!settings, Sender!limits, S!limits, Sender!Charged, S!Charged,
            Sender!IsOver, S!IsOver, Sender!Fits, S!Fits,
            Sender!EligibleToSend, S!EligibleToSend,
            Sender!CountCommands, S!CountCommands, Sender!Send, S!Send,
            Sender!Propose, S!Propose, Sender!Cleared, S!Cleared
<1>1. ASSUME NEW chain, NEW payload, NEW value, Sender!Execute(chain, payload, value)
      PROVE  S!Execute(chain, payload, value)
  BY <1>1 DEF Sender!Execute, S!Execute
<1>2. ASSUME NEW chain, NEW payload, NEW value, Sender!ExecuteFails(chain, payload, value)
      PROVE  S!ExecuteFails(chain, payload, value)
  BY <1>2 DEF Sender!ExecuteFails, S!ExecuteFails
<1>3. ASSUME NEW execution, Sender!RetryExecute(execution)
      PROVE  S!RetryExecute(execution)
  BY <1>3 DEF Sender!RetryExecute, S!RetryExecute
<1>4. ASSUME NEW execution, Sender!FallbackWithdraw(execution)
      PROVE  S!FallbackWithdraw(execution)
  BY <1>4 DEF Sender!FallbackWithdraw, S!FallbackWithdraw
<1>5. ASSUME NEW chain, Sender!SetTrustedRemoteAddress(chain)
      PROVE  S!SetTrustedRemoteAddress(chain)
  BY <1>5 DEF Sender!SetTrustedRemoteAddress, S!SetTrustedRemoteAddress
<1>6. ASSUME NEW chain, Sender!RemoveTrustedRemote(chain)
      PROVE  S!RemoveTrustedRemote(chain)
  BY <1>6 DEF Sender!RemoveTrustedRemote, S!RemoveTrustedRemote
<1>7. ASSUME NEW chain, NEW limit, Sender!SetMaxDailyLimit(chain, limit)
      PROVE  S!SetMaxDailyLimit(chain, limit)
  BY <1>7 DEF Sender!SetMaxDailyLimit, S!SetMaxDailyLimit
<1>8. ASSUME NEW value, Sender!SetPaused(value)
      PROVE  S!SetPaused(value)
  BY <1>8 DEF Sender!SetPaused, S!SetPaused
<1> QED
  BY <1>1, <1>2, <1>3, <1>4, <1>5, <1>6, <1>7, <1>8 DEF Sender!CallNext, S!CallNext

LEMMA SameTicks ==
    ASSUME NEW seconds, Tick(seconds)
    PROVE  S!Tick(seconds) /\ R!Tick(seconds)
BY DEF Tick, Sender!Tick, S!Tick, Remote!Tick, R!Tick, Sender!settings, S!settings,
   Sender!limits, S!limits, Remote!settings, R!settings, Remote!records, R!records,
   Remote!endpoint, R!endpoint
LEMMA SameRemoteCalls == Remote!CallNext => R!CallNext
<1> USE DEF Remote!settings, R!settings, Remote!records, R!records, Remote!endpoint,
            R!endpoint, Remote!Charged, R!Charged, Remote!IsOver, R!IsOver, Remote!Fits,
            R!Fits, Remote!Tx, R!Tx, Remote!TxsOf, R!TxsOf, Remote!NoDuplicates,
            R!NoDuplicates, Remote!MayQueue, R!MayQueue, Remote!MayQueueV8, R!MayQueueV8,
            Remote!Queueable, R!Queueable, Remote!NewId, R!NewId, Remote!NoProposal,
            R!NoProposal, Remote!WithQueued, R!WithQueued, Remote!Accepts, R!Accepts,
            Remote!NextMessage, R!NextMessage, Remote!Delivered, R!Delivered,
            Remote!Forgotten, R!Forgotten, Remote!State, R!State, Remote!Timelock,
            R!Timelock, Remote!MayExecute, R!MayExecute, Remote!NotStale, R!NotStale,
            Remote!MayCancel, R!MayCancel, Remote!MayCancelV8, R!MayCancelV8,
            Remote!ValidDelay, R!ValidDelay, Remote!DelaysAfter, R!DelaysAfter,
            Remote!WithDelay, R!WithDelay, Remote!WithoutQueued, R!WithoutQueued,
            Remote!TimelocksAfterCancel, R!TimelocksAfterCancel, Remote!WithPendingAdmin,
            R!WithPendingAdmin, Remote!MayAcceptAdmin, R!MayAcceptAdmin,
            Remote!WithAcceptedAdmin, R!WithAcceptedAdmin, Remote!TimelockCall,
            R!TimelockCall
<1>1. ASSUME NEW message, Remote!Receive(message) PROVE R!Receive(message)
  BY <1>1 DEF Remote!Receive, R!Receive
<1>2. Remote!LzReceive => R!LzReceive
  BY <1>1 DEF Remote!LzReceive, R!LzReceive
<1>3. Remote!LzReceiveFails => R!LzReceiveFails
  BY DEF Remote!LzReceiveFails, R!LzReceiveFails
<1>4. Remote!PayloadStored => R!PayloadStored
  BY DEF Remote!PayloadStored, R!PayloadStored
<1>5. Remote!ForceResumeReceive => R!ForceResumeReceive
  BY DEF Remote!ForceResumeReceive, R!ForceResumeReceive
<1>6. ASSUME NEW nonce, Remote!RetryMessage(nonce) PROVE R!RetryMessage(nonce)
  BY <1>1, <1>6 DEF Remote!RetryMessage, R!RetryMessage
<1>7. Remote!MessageNext => R!MessageNext
  BY <1>2, <1>3, <1>4, <1>5, <1>6 DEF Remote!MessageNext, R!MessageNext
<1>8. ASSUME NEW id, Remote!Execute(id) PROVE R!Execute(id)
  BY <1>8 DEF Remote!Execute, R!Execute
<1>9. ASSUME NEW caller, NEW id, Remote!Cancel(caller, id) PROVE R!Cancel(caller, id)
  BY <1>9 DEF Remote!Cancel, R!Cancel
<1>10. Remote!ProposalNext => R!ProposalNext
  BY <1>8, <1>9 DEF Remote!ProposalNext, R!ProposalNext, Remote!Ids, R!Ids
<1>11. Remote!SettingNext => R!SettingNext
  BY DEF Remote!SettingNext, R!SettingNext, Remote!SetGuardian, R!SetGuardian,
     Remote!SetSrcChainId, R!SetSrcChainId, Remote!SetTrustedRemote, R!SetTrustedRemote,
     Remote!SetMaxDailyReceiveLimit, R!SetMaxDailyReceiveLimit, Remote!SetPaused,
     R!SetPaused, Remote!AddTimelocks, R!AddTimelocks, Remote!SetTimelockPendingAdmin,
     R!SetTimelockPendingAdmin
<1>12. Remote!TimelockNext => R!TimelockNext
  BY DEF Remote!TimelockNext, R!TimelockNext, Remote!AcceptAdmin, R!AcceptAdmin,
     Remote!QueueTransaction, R!QueueTransaction, Remote!CancelTransaction,
     R!CancelTransaction, Remote!ExecuteTransaction, R!ExecuteTransaction
<1> QED BY <1>7, <1>10, <1>11, <1>12 DEF Remote!CallNext, R!CallNext

-----------------------------------------------------------------------------
(* What the remote chain accepted came by a message that was sent, and it    *)
(* keeps no other trace of that message.                                     *)
CameBySending ==
    \A id \in Ids : proposals[id].id # 0 =>
        \E k \in Nonces(id) : k <= inboundNonce /\ k \notin failedMessages

IInv == S!IInv /\ R!IInv /\ CameBySending

(* Both ends in the words of the composition.                                *)
LEMMA Facts ==
    ASSUME IInv
    PROVE  /\ inbox \in Seq(S!Messages) /\ Len(inbox) \in Nat
           /\ inboundNonce \in Nat /\ inboundNonce <= Len(inbox)
           /\ failedMessages \subseteq 1 .. inboundNonce
           /\ proposalCount \in Nat /\ MaxProposals \in Nat
           /\ proposals \in [Ids -> R!Proposal] /\ queued \subseteq Ids
           /\ sent \in [{RemoteChain} -> Seq(S!Messages)]
           /\ storedExecutionHashes \subseteq S!Executions
<1>1. S!TypeOK /\ R!TypeOK /\ R!Arrived
  BY DEF IInv, S!IInv, R!IInv, R!IType
<1>2. inbox \in Seq(S!Messages)
  BY <1>1 DEF S!TypeOK, inbox
<1>3. proposalCount \in Nat /\ MaxProposals \in Nat
  BY <1>1, SameAssumptions DEF S!TypeOK, S!SenderAssumption
<1>4. /\ sent \in [{RemoteChain} -> Seq(S!Messages)]
      /\ storedExecutionHashes \subseteq S!Executions
  BY <1>1 DEF S!TypeOK
<1>5. /\ inboundNonce \in Nat /\ inboundNonce <= Len(inbox)
      /\ failedMessages \subseteq 1 .. inboundNonce
      /\ proposals \in [Ids -> R!Proposal] /\ queued \subseteq Ids
  BY <1>1 DEF R!TypeOK, R!Arrived, Ids, R!Ids
<1> QED BY <1>2, <1>3, <1>4, <1>5

LEMMA InboxMessage ==
    ASSUME IInv, NEW k \in DOMAIN inbox
    PROVE  k \in Nat /\ inbox[k] \in R!Messages /\ inbox[k].pId \in Ids
<1>1. inbox \in Seq(S!Messages) /\ k \in 1 .. Len(inbox)
  BY Facts
<1>2. inbox[k] \in S!Messages
  BY <1>1
<1> QED BY <1>1, <1>2 DEF S!Messages, R!Messages, S!Ids, R!Ids, Ids

(* What the flags of a proposal say.                                         *)
LEMMA Flags ==
    ASSUME IInv, NEW id \in Ids
    PROVE  /\ id \in queued <=> /\ proposals[id].id # 0
                               /\ ~proposals[id].canceled /\ ~proposals[id].executed
           /\ proposals[id].id = 0 => ~proposals[id].canceled /\ ~proposals[id].executed
BY DEF IInv, R!IInv, R!FlagsAgree, R!Known, R!Ids, Ids

(* A proposal was sent once, if it was, and then it is not stored.           *)
LEMMA SentAtMostOnce ==
    ASSUME IInv, NEW id \in Ids, NEW k \in Nonces(id)
    PROVE  /\ Nonces(id) = {k}
           /\ k \in 1 .. Len(inbox)
           /\ id <= proposalCount
           /\ \A e \in storedExecutionHashes : e.pId # id
<1>1. \A c, d \in {RemoteChain}, i \in S!Ids : \A l \in DOMAIN sent[c] : S!SentAs(i, c, l) =>
        /\ \A m \in DOMAIN sent[d] : S!SentAs(i, d, m) => c = d /\ l = m
        /\ \A e \in storedExecutionHashes : e.pId # i
        /\ i <= proposalCount
  BY DEF IInv, S!IInv, S!SentOnce
<1>2. id \in S!Ids
  BY DEF Ids, S!Ids
<1>3. \A l : l \in Nonces(id) <=> l \in DOMAIN sent[RemoteChain] /\ S!SentAs(id, RemoteChain, l)
  BY DEF Nonces, inbox, S!SentAs
<1>4. k \in 1 .. Len(inbox)
  BY Facts DEF Nonces
<1> QED BY <1>1, <1>2, <1>3, <1>4

LEMMA StoredFacts ==
    ASSUME IInv, NEW e \in storedExecutionHashes
    PROVE  /\ e.pId \in Ids /\ e.pId <= proposalCount
           /\ e.payload \in Payloads /\ e.chain = RemoteChain
           /\ \A f \in storedExecutionHashes : e.pId = f.pId => e = f
           /\ Nonces(e.pId) = {} /\ proposals[e.pId].id = 0
<1>1. e \in S!Executions /\ S!Stored
  BY Facts DEF IInv, S!IInv
<1>2. /\ e.pId \in Ids /\ e.pId <= proposalCount
      /\ e.payload \in Payloads /\ e.chain = RemoteChain
      /\ \A f \in storedExecutionHashes : e.pId = f.pId => e = f
  BY <1>1 DEF S!Executions, S!Ids, Ids, S!Stored
<1>3. Nonces(e.pId) = {}
  BY <1>2, SentAtMostOnce
<1>4. proposals[e.pId].id = 0
  BY <1>2, <1>3 DEF IInv, CameBySending
<1> QED BY <1>2, <1>3, <1>4

(* A proposal that was accepted left nothing behind at the source.           *)
LEMMA KnownFacts ==
    ASSUME IInv, NEW id \in Ids, proposals[id].id # 0
    PROVE  /\ id <= proposalCount
           /\ Nonces(id) \cap failedMessages = {}
           /\ \A k \in Nonces(id) : k <= inboundNonce
<1>1. PICK k \in Nonces(id) : k <= inboundNonce /\ k \notin failedMessages
  BY DEF IInv, CameBySending
<1> QED BY <1>1, SentAtMostOnce

-----------------------------------------------------------------------------
(* The steps of the sender *)

LEMMA InitInv == Init => IInv
<1> SUFFICES ASSUME Init PROVE IInv
  OBVIOUS
<1>1. S!IInv
  BY SameInit, SameAssumptions, S!InitIInv
<1>2. R!IInv
  BY SameInit, SameAssumptions, R!InitInv
<1>3. CameBySending
  BY DEF Init, Remote!Init, Remote!NoProposal, Remote!Ids, Ids, CameBySending
<1> QED BY <1>1, <1>2, <1>3 DEF IInv

(* What the message is for, and who else it is not for.                      *)
LEMMA SendNonces ==
    ASSUME IInv, NEW pId \in Ids, NEW payload \in Payloads,
           S!Send(RemoteChain, pId, payload)
    PROVE  /\ inbox' \in Seq(S!Messages)
           /\ Len(inbox') = Len(inbox) + 1
           /\ \A id \in Ids \ {pId} : (Nonces(id))' = Nonces(id)
           /\ (Nonces(pId))' = Nonces(pId) \cup {Len(inbox) + 1}
<1> DEFINE message == [pId |-> pId, payload |-> payload, sentAt |-> now]
<1>1. inbox' = Append(inbox, message)
  BY Facts DEF S!Send, inbox
<1>2. message \in S!Messages
  BY DEF S!Messages, S!Ids, Ids, IInv, S!IInv, S!TypeOK
<1>3. /\ DOMAIN inbox = 1 .. Len(inbox) /\ DOMAIN inbox' = 1 .. Len(inbox) + 1
      /\ Len(inbox') = Len(inbox) + 1 /\ inbox' \in Seq(S!Messages)
      /\ \A k \in 1 .. Len(inbox) : inbox'[k] = inbox[k]
      /\ inbox'[Len(inbox) + 1] = message
  BY <1>1, <1>2, Facts
<1>4. \A k : k \in 1 .. Len(inbox) + 1 <=> k \in 1 .. Len(inbox) \/ k = Len(inbox) + 1
  BY Facts
<1>5. Len(inbox) + 1 \notin 1 .. Len(inbox)
  BY Facts
<1>6. \A id \in Ids : \A k :
         k \in (Nonces(id))' <=> k \in Nonces(id) \/ (k = Len(inbox) + 1 /\ id = pId)
  <2>1. \A id \in Ids : \A k : k \in (Nonces(id))' <=> k \in DOMAIN inbox' /\ inbox'[k].pId = id
    BY DEF Nonces
  <2>2. \A id \in Ids : \A k : k \in Nonces(id) <=> k \in DOMAIN inbox /\ inbox[k].pId = id
    BY DEF Nonces
  <2> QED BY <1>3, <1>4, <1>5, <2>1, <2>2
<1>7. \A id \in Ids \ {pId} : (Nonces(id))' = Nonces(id)
  <2> SUFFICES ASSUME NEW id \in Ids \ {pId} PROVE (Nonces(id))' = Nonces(id)
    OBVIOUS
  <2>1. \A k : k \in (Nonces(id))' <=> k \in Nonces(id)
    BY <1>6
  <2> QED BY <2>1, Zenon
<1>8. (Nonces(pId))' = Nonces(pId) \cup {Len(inbox) + 1}
  BY <1>6
<1> QED BY <1>3, <1>7, <1>8

-----------------------------------------------------------------------------
(* How a proposal moves *)

IsStored(id) == \E e \in storedExecutionHashes : e.pId = id

(* What tells where a proposal is stays the same, and so does the place.     *)
LEMMA SamePlace ==
    ASSUME NEW id \in Ids,
           (id > proposalCount)' <=> id > proposalCount,
           proposals'[id] = proposals[id],
           id \in queued' <=> id \in queued,
           (IsStored(id))' <=> IsStored(id),
           (Nonces(id))' = Nonces(id),
           (\E k \in Nonces(id) : k > inboundNonce)' <=> \E k \in Nonces(id) : k > inboundNonce,
           (Nonces(id) \cap failedMessages = {})' <=> Nonces(id) \cap failedMessages = {}
    PROVE  (Place(id))' = Place(id)
<1>1. (Remote!State(id))' = Remote!State(id)
  BY DEF Remote!State
<1> QED BY <1>1 DEF Place, IsStored

(* The place of a proposal, from what is recorded of it at both ends.        *)
Placed(id) ==
    /\ id > proposalCount => Place(id) = "None"
    /\ IsStored(id) => Place(id) = "Stored"
    /\ \A k \in Nonces(id) : proposals[id].id = 0 =>
          /\ k > inboundNonce => Place(id) = "InTransit"
          /\ k <= inboundNonce /\ k \in failedMessages => Place(id) = "Failed"
          /\ k <= inboundNonce /\ k \notin failedMessages => Place(id) = "Lost"
    /\ Nonces(id) = {} /\ ~IsStored(id) /\ id <= proposalCount => Place(id) = "Withdrawn"
    /\ proposals[id].id # 0 =>
          /\ id \in queued => Place(id) = "Queued"
          /\ proposals[id].executed /\ ~proposals[id].canceled => Place(id) = "Executed"
          /\ proposals[id].canceled => Place(id) = "Canceled"

LEMMA AllPlaced == IInv => \A id \in Ids : Placed(id)
<1> SUFFICES ASSUME IInv, NEW id \in Ids PROVE Placed(id)
  OBVIOUS
<1>1. id \in Nat /\ proposalCount \in Nat /\ inboundNonce \in Nat
  BY Facts DEF Ids
<1>2. id > proposalCount => Place(id) = "None"
  BY DEF Place
<1>3. IsStored(id) => Place(id) = "Stored"
  <2> SUFFICES ASSUME NEW e \in storedExecutionHashes, e.pId = id PROVE Place(id) = "Stored"
    BY DEF IsStored
  <2>1. id <= proposalCount /\ proposals[id].id = 0
    BY StoredFacts
  <2> QED BY <1>1, <2>1 DEF Place
<1>4. ASSUME NEW k \in Nonces(id), proposals[id].id = 0
      PROVE  /\ k > inboundNonce => Place(id) = "InTransit"
             /\ k <= inboundNonce /\ k \in failedMessages => Place(id) = "Failed"
             /\ k <= inboundNonce /\ k \notin failedMessages => Place(id) = "Lost"
  <2>1. /\ Nonces(id) = {k} /\ id <= proposalCount /\ k \in Nat
        /\ \A e \in storedExecutionHashes : e.pId # id
    BY <1>4, SentAtMostOnce
  <2>2. ~(id > proposalCount) /\ k > inboundNonce <=> ~(k <= inboundNonce)
    BY <1>1, <2>1
  <2> QED BY <1>1, <1>4, <2>1, <2>2 DEF Place
<1>5. Nonces(id) = {} /\ ~IsStored(id) /\ id <= proposalCount => Place(id) = "Withdrawn"
  <2>1. Nonces(id) = {} => proposals[id].id = 0
    BY DEF IInv, CameBySending
  <2> QED BY <1>1, <2>1 DEF Place, IsStored
<1>6. proposals[id].id # 0 =>
        /\ id \in queued => Place(id) = "Queued"
        /\ proposals[id].executed /\ ~proposals[id].canceled => Place(id) = "Executed"
        /\ proposals[id].canceled => Place(id) = "Canceled"
  <2> SUFFICES ASSUME proposals[id].id # 0
               PROVE  /\ id \in queued => Place(id) = "Queued"
                      /\ proposals[id].executed /\ ~proposals[id].canceled
                           => Place(id) = "Executed"
                      /\ proposals[id].canceled => Place(id) = "Canceled"
    OBVIOUS
  <2>1. id <= proposalCount
    BY KnownFacts
  <2>2. Place(id) = Remote!State(id)
    BY <1>1, <2>1 DEF Place
  <2> QED BY <2>2, Flags DEF Remote!State
<1> QED BY <1>2, <1>3, <1>4, <1>5, <1>6 DEF Placed

LEMMA AllPlacedNext == IInv' => (\A id \in Ids : Placed(id))'
BY AllPlaced, PTL

LEMMA OneMoves ==
    ASSUME NEW id \in Ids,
           \A other \in Ids \ {id} : (Place(other))' = Place(other),
           <<Place(id), (Place(id))'>> \in Lifecycle!Steps
    PROVE  Lifecycle!Next
<1> DEFINE place == [i \in Ids |-> Place(i)]
<1>1. place' = [place EXCEPT ![id] = (Place(id))']
  BY DEF Ids
<1>2. place[id] = Place(id) /\ place'[id] = (Place(id))'
  BY DEF Ids
<1>3. Lifecycle!Move(id)
  BY <1>1, <1>2 DEF Lifecycle!Move
<1> QED BY <1>3 DEF Lifecycle!Next

LEMMA NoneMoves ==
    ASSUME \A id \in Ids : (Place(id))' = Place(id)
    PROVE  UNCHANGED [id \in Ids |-> Place(id)]
BY DEF Ids

-----------------------------------------------------------------------------
(* Proposing, storing, retrying and withdrawing                              *)

LEMMA Proposed ==
    ASSUME IInv, NEW chain \in {RemoteChain}, NEW payload \in Payloads, NEW value \in Values,
           S!Propose(chain, payload, value)
    PROVE  /\ proposalCount' = proposalCount + 1
           /\ proposalCount' \in Ids
           /\ Nonces(proposalCount') = {} /\ ~IsStored(proposalCount')
           /\ proposals[proposalCount'].id = 0
<1>1. proposalCount' = proposalCount + 1 /\ proposalCount' \in Ids
  BY SameAssumptions, S!ProposeType DEF IInv, S!IInv, S!Ids, Ids
<1>2. ~(proposalCount' <= proposalCount)
  BY <1>1, Facts
<1> QED BY <1>1, <1>2, SentAtMostOnce, StoredFacts, KnownFacts DEF IsStored

LEMMA SenderSends ==
    ASSUME IInv, S!CallNext
    PROVE  \/ UNCHANGED inbox
           \/ \E pId \in Ids, payload \in Payloads : S!Send(RemoteChain, pId, payload)
<1>1. ASSUME NEW chain \in {RemoteChain}, NEW payload \in Payloads, NEW value \in Values,
             S!Execute(chain, payload, value)
      PROVE  \E pId \in Ids, p \in Payloads : S!Send(RemoteChain, pId, p)
  <2>1. proposalCount' \in Ids /\ chain = RemoteChain
    BY <1>1, Proposed DEF S!Execute
  <2>2. PICK pId \in Ids : pId = proposalCount'
    BY <2>1
  <2>3. S!Send(RemoteChain, pId, payload)
    BY <1>1, <2>1, <2>2 DEF S!Execute
  <2> QED BY <2>3
<1>2. ASSUME NEW execution \in storedExecutionHashes, S!RetryExecute(execution)
      PROVE  \E pId \in Ids, payload \in Payloads : S!Send(RemoteChain, pId, payload)
  BY <1>2, StoredFacts DEF S!RetryExecute
<1>3. ASSUME NEW execution \in storedExecutionHashes, S!FallbackWithdraw(execution)
      PROVE  UNCHANGED inbox
  BY <1>3 DEF S!FallbackWithdraw, inbox
<1>4. ASSUME NEW chain, NEW payload, NEW value, S!ExecuteFails(chain, payload, value)
      PROVE  UNCHANGED inbox
  BY <1>4 DEF S!ExecuteFails, inbox
<1>5. ASSUME NEW chain,
             \/ S!SetTrustedRemoteAddress(chain) \/ S!RemoveTrustedRemote(chain)
             \/ \E limit \in SenderLimits : S!SetMaxDailyLimit(chain, limit)
      PROVE  UNCHANGED inbox
  BY <1>5 DEF S!SetTrustedRemoteAddress, S!RemoveTrustedRemote, S!SetMaxDailyLimit, inbox
<1>6. ASSUME NEW value, S!SetPaused(value) PROVE UNCHANGED inbox
  BY <1>6 DEF S!SetPaused, inbox
<1> QED BY <1>1, <1>2, <1>3, <1>4, <1>5, <1>6 DEF S!CallNext

LEMMA SenderInv ==
    ASSUME IInv, S!CallNext, UNCHANGED executorVars
    PROVE  IInv'
<1>1. S!IInv'
  BY SameAssumptions, S!NextIInv DEF IInv, S!Next
<1>2. /\ inbox' \in Seq(S!Messages) /\ Len(inbox) <= Len(inbox')
      /\ \A id \in Ids : Nonces(id) \subseteq (Nonces(id))'
  <2>1. CASE UNCHANGED inbox
    BY <2>1, Facts DEF Nonces
  <2>2. ASSUME NEW pId \in Ids, NEW payload \in Payloads, S!Send(RemoteChain, pId, payload)
        PROVE  /\ inbox' \in Seq(S!Messages) /\ Len(inbox) <= Len(inbox')
               /\ \A id \in Ids : Nonces(id) \subseteq (Nonces(id))'
    BY <2>2, SendNonces, Facts
  <2> QED BY <2>1, <2>2, SenderSends
<1>3. R!Environment
  <2>1. UNCHANGED now
    BY SameAssumptions, S!CallsKeepTime
  <2>2. inbox' \in Seq(R!Messages)
    BY <1>2 DEF S!Messages, R!Messages, S!Ids, R!Ids
  <2> QED
    BY <1>2, <2>1, <2>2 DEF executorVars, R!Environment, R!settings, R!records
<1>4. R!IInv'
  BY <1>3, SameAssumptions, R!EnvironmentInv DEF IInv
<1>5. CameBySending'
  BY <1>2 DEF executorVars, IInv, CameBySending, Ids
<1> QED BY <1>1, <1>4, <1>5 DEF IInv

(* A step of the sender moves only the proposals whose records it changes.   *)
LEMMA SenderMovesOthersNot ==
    ASSUME IInv, UNCHANGED executorVars, NEW id \in Ids,
           (id > proposalCount)' <=> id > proposalCount,
           (IsStored(id))' <=> IsStored(id),
           (Nonces(id))' = Nonces(id)
    PROVE  (Place(id))' = Place(id)
BY SamePlace DEF executorVars

LEMMA ExecuteMoves ==
    ASSUME IInv, NEW payload \in Payloads, NEW value \in Values,
           S!Execute(RemoteChain, payload, value), UNCHANGED executorVars, IInv'
    PROVE  Lifecycle!Next
<1>1. PICK new \in Ids : new = proposalCount'
  BY Proposed DEF S!Execute
<1>2. /\ new = proposalCount + 1 /\ Nonces(new) = {} /\ ~IsStored(new)
      /\ proposals[new].id = 0
  BY <1>1, Proposed DEF S!Execute
<1>3. S!Send(RemoteChain, new, payload) /\ UNCHANGED storedExecutionHashes
  BY <1>1 DEF S!Execute
<1>4. /\ \A id \in Ids \ {new} : (Nonces(id))' = Nonces(id)
      /\ (Nonces(new))' = {Len(inbox) + 1}
  BY <1>2, <1>3, SendNonces
<1>5. \A id \in Ids \ {new} : (Place(id))' = Place(id)
  <2> SUFFICES ASSUME NEW id \in Ids \ {new} PROVE (Place(id))' = Place(id)
    OBVIOUS
  <2>1. id > proposalCount' <=> id > proposalCount
    BY <1>1, <1>2, Facts DEF Ids
  <2>2. (IsStored(id))' <=> IsStored(id)
    BY <1>3 DEF IsStored
  <2> QED BY <1>4, <2>1, <2>2, SenderMovesOthersNot
<1>6. Place(new) = "None"
  BY <1>2, AllPlaced, Facts DEF Placed
<1>7. (Place(new))' = "InTransit"
  <2>1. Len(inbox) + 1 > inboundNonce' /\ proposals'[new].id = 0
    BY <1>2, Facts DEF executorVars
  <2> QED BY <1>4, <2>1, AllPlacedNext DEF Placed, Ids
<1> QED BY <1>5, <1>6, <1>7, OneMoves DEF Lifecycle!Steps

LEMMA ExecuteFailsMoves ==
    ASSUME IInv, NEW payload \in Payloads, NEW value \in Values,
           S!ExecuteFails(RemoteChain, payload, value), UNCHANGED executorVars, IInv'
    PROVE  Lifecycle!Next
<1>1. PICK new \in Ids : new = proposalCount'
  BY Proposed DEF S!ExecuteFails
<1>2. new = proposalCount + 1 /\ ~IsStored(new)
  BY <1>1, Proposed DEF S!ExecuteFails
<1>3. \A id \in Ids : (Nonces(id))' = Nonces(id)
  BY DEF S!ExecuteFails, Nonces, inbox
<1>4. \A id \in Ids : (IsStored(id))' <=> IsStored(id) \/ id = new
  <2> DEFINE execution ==
        [pId |-> new, chain |-> RemoteChain, payload |-> payload, value |-> value]
  <2>1. storedExecutionHashes' = storedExecutionHashes \cup {execution}
    BY <1>1 DEF S!ExecuteFails
  <2>2. execution.pId = new
    OBVIOUS
  <2> HIDE DEF execution
  <2>3. \A id \in Ids : (IsStored(id))' <=> \E e \in storedExecutionHashes' : e.pId = id
    BY DEF IsStored
  <2>4. \A id \in Ids : IsStored(id) <=> \E e \in storedExecutionHashes : e.pId = id
    BY DEF IsStored
  <2> QED BY <2>1, <2>2, <2>3, <2>4, Zenon
<1>5. \A id \in Ids \ {new} : (Place(id))' = Place(id)
  <2> SUFFICES ASSUME NEW id \in Ids \ {new} PROVE (Place(id))' = Place(id)
    OBVIOUS
  <2>1. id > proposalCount' <=> id > proposalCount
    BY <1>1, <1>2, Facts DEF Ids
  <2> QED BY <1>3, <1>4, <2>1, SenderMovesOthersNot
<1>6. Place(new) = "None"
  BY <1>2, AllPlaced, Facts DEF Placed
<1>7. (Place(new))' = "Stored"
  BY <1>4, AllPlacedNext DEF Placed, Ids
<1> QED BY <1>5, <1>6, <1>7, OneMoves DEF Lifecycle!Steps

(* What a retry or a withdrawal does to the stored executions.               *)
LEMMA ClearedIsStored ==
    ASSUME IInv, NEW execution \in storedExecutionHashes,
           storedExecutionHashes' = S!Cleared(execution)
    PROVE  /\ execution.pId \in Ids
           /\ \A id \in Ids : (IsStored(id))' <=> IsStored(id) /\ id # execution.pId
           /\ Place(execution.pId) = "Stored"
<1>1. execution.pId \in Ids
  BY StoredFacts
<1>2. \A id \in Ids : (IsStored(id))' <=> IsStored(id) /\ id # execution.pId
  BY StoredFacts DEF IsStored, S!Cleared
<1>3. Place(execution.pId) = "Stored"
  BY <1>1, AllPlaced DEF Placed, IsStored
<1> QED BY <1>1, <1>2, <1>3

LEMMA RetryExecuteMoves ==
    ASSUME IInv, NEW execution \in storedExecutionHashes, S!RetryExecute(execution),
           UNCHANGED executorVars, IInv'
    PROVE  Lifecycle!Next
<1>1. PICK id \in Ids : id = execution.pId
  BY StoredFacts
<1>2. /\ Nonces(id) = {} /\ proposals[id].id = 0 /\ id <= proposalCount
      /\ execution.payload \in Payloads /\ execution.chain = RemoteChain
  BY <1>1, StoredFacts
<1>3. /\ S!Send(RemoteChain, id, execution.payload) /\ UNCHANGED proposalCount
      /\ storedExecutionHashes' = S!Cleared(execution)
  BY <1>1, <1>2 DEF S!RetryExecute
<1>4. /\ \A other \in Ids \ {id} : (Nonces(other))' = Nonces(other)
      /\ (Nonces(id))' = {Len(inbox) + 1}
  BY <1>2, <1>3, SendNonces
<1>5. \A other \in Ids \ {id} : (Place(other))' = Place(other)
  BY <1>1, <1>3, <1>4, ClearedIsStored, SenderMovesOthersNot
<1>6. Place(id) = "Stored"
  BY <1>1, <1>3, ClearedIsStored
<1>7. (Place(id))' = "InTransit"
  <2>1. Len(inbox) + 1 > inboundNonce' /\ proposals'[id].id = 0
    BY <1>2, Facts DEF executorVars
  <2> QED BY <1>4, <2>1, AllPlacedNext DEF Placed, Ids
<1> QED BY <1>5, <1>6, <1>7, OneMoves DEF Lifecycle!Steps

LEMMA FallbackWithdrawMoves ==
    ASSUME IInv, NEW execution \in storedExecutionHashes, S!FallbackWithdraw(execution),
           UNCHANGED executorVars, IInv'
    PROVE  Lifecycle!Next
<1>1. PICK id \in Ids : id = execution.pId
  BY StoredFacts
<1>2. Nonces(id) = {} /\ id <= proposalCount
  BY <1>1, StoredFacts
<1>3. /\ UNCHANGED <<proposalCount, sent>>
      /\ storedExecutionHashes' = S!Cleared(execution)
  BY DEF S!FallbackWithdraw
<1>4. \A other \in Ids : (Nonces(other))' = Nonces(other)
  BY <1>3 DEF Nonces, inbox
<1>5. \A other \in Ids \ {id} : (Place(other))' = Place(other)
  BY <1>1, <1>3, <1>4, ClearedIsStored, SenderMovesOthersNot
<1>6. Place(id) = "Stored"
  BY <1>1, <1>3, ClearedIsStored
<1>7. (Place(id))' = "Withdrawn"
  <2>1. (Nonces(id))' = {} /\ (id <= proposalCount)' /\ ~(IsStored(id))'
    BY <1>1, <1>2, <1>3, <1>4, ClearedIsStored
  <2> QED BY <2>1, AllPlacedNext DEF Placed, Ids
<1> QED BY <1>5, <1>6, <1>7, OneMoves DEF Lifecycle!Steps

LEMMA SenderMoves ==
    ASSUME IInv, S!CallNext, UNCHANGED executorVars, IInv'
    PROVE  [Lifecycle!Next]_[id \in Ids |-> Place(id)]
<1>1. ASSUME NEW chain \in {RemoteChain}, NEW payload \in Payloads, NEW value \in Values,
             S!Execute(chain, payload, value) \/ S!ExecuteFails(chain, payload, value)
      PROVE  Lifecycle!Next
  BY <1>1, ExecuteMoves, ExecuteFailsMoves
<1>2. ASSUME NEW execution \in storedExecutionHashes,
             S!RetryExecute(execution) \/ S!FallbackWithdraw(execution)
      PROVE  Lifecycle!Next
  BY <1>2, RetryExecuteMoves, FallbackWithdrawMoves
<1>3. ASSUME UNCHANGED <<proposalCount, storedExecutionHashes, sent>>
      PROVE  UNCHANGED [id \in Ids |-> Place(id)]
  <2>1. \A id \in Ids : (IsStored(id))' <=> IsStored(id)
    BY <1>3 DEF IsStored
  <2>2. \A id \in Ids : (Nonces(id))' = Nonces(id)
    BY <1>3 DEF Nonces, inbox
  <2> QED BY <1>3, <2>1, <2>2, SenderMovesOthersNot, NoneMoves
<1>4. ASSUME NEW chain,
             \/ S!SetTrustedRemoteAddress(chain) \/ S!RemoveTrustedRemote(chain)
             \/ \E limit \in SenderLimits : S!SetMaxDailyLimit(chain, limit)
      PROVE  UNCHANGED [id \in Ids |-> Place(id)]
  BY <1>3, <1>4 DEF S!SetTrustedRemoteAddress, S!RemoveTrustedRemote, S!SetMaxDailyLimit
<1>5. ASSUME NEW value, S!SetPaused(value)
      PROVE  UNCHANGED [id \in Ids |-> Place(id)]
  BY <1>3, <1>5 DEF S!SetPaused
<1> QED BY <1>1, <1>2, <1>4, <1>5 DEF S!CallNext

-----------------------------------------------------------------------------
(* Delivering, dropping and retrying                                         *)

(* The next message is the only one of a proposal that the remote chain does *)
(* not know yet.                                                             *)
IsNext(id, k) ==
    /\ k \in Nonces(id) /\ k = inboundNonce + 1 /\ k \notin failedMessages
    /\ R!NextMessage = inbox[k] /\ inbox[k].pId = id
    /\ proposals[id].id = 0
    /\ \A other \in Ids \ {id} : k \notin Nonces(other)

LEMMA NextIsNew ==
    ASSUME IInv, R!Delivered
    PROVE  \E id \in Ids, k \in Nat : IsNext(id, k)
<1> DEFINE k == inboundNonce + 1
           id == inbox[k].pId
<1>1. k \in DOMAIN inbox /\ R!NextMessage = inbox[k]
  BY Facts DEF R!Delivered, R!NextMessage
<1>2. id \in Ids
  BY <1>1, InboxMessage
<1>3. k \in Nonces(id) /\ \A other \in Ids \ {id} : k \notin Nonces(other)
  BY <1>1 DEF Nonces
<1>4. k \notin failedMessages /\ ~(k <= inboundNonce)
  BY Facts
<1>5. proposals[id].id = 0
  BY <1>2, <1>3, <1>4, KnownFacts
<1>6. k \in Nat
  BY Facts
<1> QED BY <1>1, <1>2, <1>3, <1>4, <1>5, <1>6 DEF IsNext

(* Being done with a message changes the place of no other proposal than the *)
(* one it is for.                                                            *)
LEMMA DeliveredMovesOthersNot ==
    ASSUME IInv, UNCHANGED senderVars, R!Delivered,
           NEW id \in Ids, NEW k, IsNext(id, k), NEW other \in Ids \ {id},
           proposals'[other] = proposals[other], other \in queued' <=> other \in queued,
           failedMessages \subseteq failedMessages',
           failedMessages' \subseteq failedMessages \cup {k}
    PROVE  (Place(other))' = Place(other)
<1>1. (Nonces(other))' = Nonces(other)
  BY DEF senderVars, Nonces, inbox
<1>2. (IsStored(other))' <=> IsStored(other)
  BY DEF senderVars, IsStored
<1>3. inboundNonce' = inboundNonce + 1
  BY DEF R!Delivered
<1>4. \A j \in Nonces(other) : j \in Nat /\ j # k
  BY Facts DEF Nonces, IsNext
<1>5. \A j \in Nonces(other) : j > inboundNonce' <=> j > inboundNonce
  BY <1>3, <1>4, Facts DEF IsNext
<1>6. (\E j \in Nonces(other) : j > inboundNonce)' <=> \E j \in Nonces(other) : j > inboundNonce
  BY <1>1, <1>5
<1>7. (Nonces(other) \cap failedMessages = {})' <=> Nonces(other) \cap failedMessages = {}
  BY <1>1 DEF IsNext
<1> QED BY <1>1, <1>2, <1>6, <1>7, SamePlace DEF senderVars

(* What processing a message does to the proposals.                          *)
LEMMA Received ==
    ASSUME IInv, NEW message \in R!Messages, R!Receive(message)
    PROVE  /\ proposals[message.pId].id = 0
           /\ proposals'[message.pId].id # 0
           /\ queued' = queued \cup {message.pId}
           /\ \A other \in Ids \ {message.pId} : proposals'[other] = proposals[other]
<1>1. message.pId \in Ids /\ message.pId # 0
  BY DEF R!Messages, R!Ids, Ids
<1> QED BY <1>1, Facts DEF R!Receive, R!NewId, R!NoProposal

LEMMA SenderUntouched ==
    ASSUME IInv, UNCHANGED senderVars, UNCHANGED now
    PROVE  /\ S!IInv'
           /\ \A id \in Ids : (Nonces(id))' = Nonces(id) /\ ((IsStored(id))' <=> IsStored(id))
<1>1. S!IInv'
  BY S!NextIInv, SameAssumptions DEF IInv, senderVars, S!vars, S!settings, S!limits
<1>2. \A id \in Ids : (Nonces(id))' = Nonces(id) /\ ((IsStored(id))' <=> IsStored(id))
  BY DEF senderVars, Nonces, inbox, IsStored
<1> QED BY <1>1, <1>2

LEMMA LzReceiveMoves ==
    ASSUME IInv, UNCHANGED senderVars, R!LzReceive, R!IInv'
    PROVE  IInv' /\ Lifecycle!Next
<1>1. R!Delivered /\ R!Receive(R!NextMessage) /\ UNCHANGED failedMessages
  BY DEF R!LzReceive
<1>2. PICK id \in Ids, k \in Nat : IsNext(id, k)
  BY <1>1, NextIsNew
<1>3. /\ proposals'[id].id # 0 /\ queued' = queued \cup {id}
      /\ \A other \in Ids \ {id} : proposals'[other] = proposals[other]
  <2>1. R!NextMessage \in R!Messages
    BY <1>2, InboxMessage DEF IsNext, Nonces
  <2> QED BY <1>1, <1>2, <2>1, Received DEF IsNext
<1>4. \A other \in Ids \ {id} : (Place(other))' = Place(other)
  BY <1>1, <1>2, <1>3, DeliveredMovesOthersNot
<1>5. \A other \in Ids : (Nonces(other))' = Nonces(other)
  BY <1>1, SenderUntouched DEF R!Delivered
<1>6. inboundNonce' = k
  BY <1>1, <1>2 DEF R!Delivered, IsNext
<1>7. IInv'
  <2>1. S!IInv'
    BY <1>1, SenderUntouched DEF R!Delivered
  <2>2. CameBySending'
    <3> SUFFICES ASSUME NEW other \in Ids, proposals'[other].id # 0
                 PROVE  \E j \in Nonces(other) : j <= inboundNonce' /\ j \notin failedMessages'
      BY <1>5 DEF CameBySending, Ids
    <3>1. CASE other = id
      BY <1>1, <1>2, <1>6, <3>1, Facts DEF IsNext
    <3>2. CASE other # id
      <4>1. PICK j \in Nonces(other) : j <= inboundNonce /\ j \notin failedMessages
        BY <1>3, <3>2 DEF IInv, CameBySending
      <4>2. j \in Nat
        BY Facts DEF Nonces
      <4> QED BY <1>1, <1>2, <1>6, <4>1, <4>2, Facts DEF IsNext
    <3> QED BY <3>1, <3>2
  <2> QED BY <2>1, <2>2 DEF IInv
<1>8. Place(id) = "InTransit"
  BY <1>2, AllPlaced, Facts DEF Placed, IsNext
<1>9. (Place(id))' = "Queued"
  BY <1>3, <1>7, AllPlacedNext DEF Placed, Ids
<1> QED BY <1>4, <1>7, <1>8, <1>9, OneMoves DEF Lifecycle!Steps

(* The message is done with, and what it asked for has not been processed.   *)
LEMMA UnprocessedMoves ==
    ASSUME IInv, UNCHANGED senderVars, R!Delivered, R!IInv', UNCHANGED <<proposals, queued>>,
           \/ failedMessages' = failedMessages
           \/ failedMessages' = failedMessages \cup {inboundNonce + 1}
    PROVE  IInv' /\ Lifecycle!Next
<1>1. PICK id \in Ids, k \in Nat : IsNext(id, k)
  BY NextIsNew
<1>2. \A other \in Ids \ {id} : (Place(other))' = Place(other)
  BY <1>1, DeliveredMovesOthersNot DEF IsNext
<1>3. inboundNonce' = k /\ now' = now
  BY <1>1 DEF R!Delivered, IsNext
<1>4. S!IInv' /\ \A other \in Ids : (Nonces(other))' = Nonces(other)
  BY <1>3, SenderUntouched
<1>5. IInv'
  <2>1. CameBySending'
    <3> SUFFICES ASSUME NEW other \in Ids, proposals'[other].id # 0
                 PROVE  \E j \in Nonces(other) : j <= inboundNonce' /\ j \notin failedMessages'
      BY <1>4 DEF CameBySending, Ids
    <3>1. PICK j \in Nonces(other) : j <= inboundNonce /\ j \notin failedMessages
      BY DEF IInv, CameBySending
    <3>2. j \in Nat
      BY Facts DEF Nonces
    <3> QED BY <1>1, <1>3, <3>1, <3>2, Facts DEF IsNext
  <2> QED BY <1>4, <2>1 DEF IInv
<1>6. Place(id) = "InTransit"
  BY <1>1, AllPlaced, Facts DEF Placed, IsNext
<1>7. (Place(id))' \in {"Failed", "Lost"}
  <2>1. k \in (Nonces(id))' /\ proposals'[id].id = 0 /\ k <= inboundNonce'
    BY <1>1, <1>3, <1>4 DEF IsNext
  <2> QED BY <1>5, <2>1, AllPlacedNext DEF Placed, Ids
<1> QED BY <1>2, <1>5, <1>6, <1>7, OneMoves DEF Lifecycle!Steps

LEMMA RetryMessageMoves ==
    ASSUME IInv, UNCHANGED senderVars, NEW nonce \in failedMessages, R!RetryMessage(nonce),
           R!IInv'
    PROVE  IInv' /\ Lifecycle!Next
<1>1. /\ R!Receive(inbox[nonce]) /\ failedMessages' = failedMessages \ {nonce}
      /\ UNCHANGED <<inboundNonce, now>>
  BY DEF R!RetryMessage, R!Forgotten
<1>2. nonce \in DOMAIN inbox /\ nonce <= inboundNonce /\ nonce \in Nat
  BY Facts
<1>3. PICK id \in Ids : id = inbox[nonce].pId
  BY <1>2, InboxMessage
<1>4. nonce \in Nonces(id) /\ \A other \in Ids \ {id} : nonce \notin Nonces(other)
  BY <1>2, <1>3 DEF Nonces
<1>5. /\ proposals[id].id = 0 /\ proposals'[id].id # 0 /\ queued' = queued \cup {id}
      /\ \A other \in Ids \ {id} : proposals'[other] = proposals[other]
  BY <1>1, <1>2, <1>3, InboxMessage, Received
<1>6. /\ S!IInv'
      /\ \A other \in Ids : /\ (Nonces(other))' = Nonces(other)
                            /\ (IsStored(other))' <=> IsStored(other)
  BY <1>1, SenderUntouched
<1>7. \A other \in Ids \ {id} : (Place(other))' = Place(other)
  <2> SUFFICES ASSUME NEW other \in Ids \ {id} PROVE (Place(other))' = Place(other)
    OBVIOUS
  <2>1. (Nonces(other) \cap failedMessages = {})' <=> Nonces(other) \cap failedMessages = {}
    BY <1>1, <1>4, <1>6
  <2>2. (\E j \in Nonces(other) : j > inboundNonce)' <=> \E j \in Nonces(other) : j > inboundNonce
    BY <1>1, <1>6
  <2> QED BY <1>5, <1>6, <2>1, <2>2, SamePlace DEF senderVars
<1>8. IInv'
  <2>1. CameBySending'
    BY <1>1, <1>2, <1>4, <1>5, <1>6 DEF IInv, CameBySending, Ids
  <2> QED BY <1>6, <2>1 DEF IInv
<1>9. Place(id) = "Failed"
  BY <1>2, <1>4, <1>5, AllPlaced DEF Placed
<1>10. (Place(id))' = "Queued"
  BY <1>5, <1>8, AllPlacedNext DEF Placed, Ids
<1> QED BY <1>7, <1>8, <1>9, <1>10, OneMoves DEF Lifecycle!Steps

-----------------------------------------------------------------------------
(* Executing and canceling *)

(* What changes neither end's messages keeps every proposal where it is,     *)
(* except those whose flags it changes.                                      *)
LEMMA EndsMoves ==
    ASSUME IInv, UNCHANGED senderVars, UNCHANGED <<failedMessages, inboundNonce, now>>, R!IInv',
           NEW id \in Ids, id \in queued,
           \/ proposals' = [proposals EXCEPT ![id].executed = TRUE]
           \/ proposals' = [proposals EXCEPT ![id].canceled = TRUE],
           queued' = queued \ {id}
    PROVE  IInv' /\ Lifecycle!Next
<1>1. /\ S!IInv'
      /\ \A other \in Ids : /\ (Nonces(other))' = Nonces(other)
                            /\ (IsStored(other))' <=> IsStored(other)
  BY SenderUntouched
<1>2. proposals \in [Ids -> R!Proposal] /\ proposals[id] \in R!Proposal
  BY Facts
<1>3. \A other \in Ids \ {id} : proposals'[other] = proposals[other]
  BY <1>2
<1>4. /\ proposals[id].id # 0 /\ ~proposals[id].canceled /\ ~proposals[id].executed
      /\ proposals'[id].id # 0
      /\ proposals'[id].canceled \/ (proposals'[id].executed /\ ~proposals'[id].canceled)
  BY <1>2, Flags DEF R!Proposal
<1>5. \A other \in Ids \ {id} : (Place(other))' = Place(other)
  BY <1>1, <1>3, SamePlace DEF senderVars
<1>6. IInv'
  <2>1. \A other \in Ids : proposals'[other].id # 0 => proposals[other].id # 0
    BY <1>3, <1>4
  <2>2. CameBySending'
    BY <1>1, <2>1 DEF IInv, CameBySending, Ids
  <2> QED BY <1>1, <2>2 DEF IInv
<1>7. Place(id) = "Queued"
  BY <1>4, AllPlaced DEF Placed
<1>8. (Place(id))' \in {"Executed", "Canceled"}
  BY <1>4, <1>6, AllPlacedNext DEF Placed, Ids
<1> QED BY <1>5, <1>6, <1>7, <1>8, OneMoves DEF Lifecycle!Steps

(* Everything else leaves every proposal where it is.                        *)
LEMMA NothingMoves ==
    ASSUME IInv, UNCHANGED senderVars, S!IInv', R!IInv',
           UNCHANGED <<proposals, queued, failedMessages, inboundNonce>>
    PROVE  IInv' /\ UNCHANGED [id \in Ids |-> Place(id)]
<1>1. \A id \in Ids : (Nonces(id))' = Nonces(id) /\ ((IsStored(id))' <=> IsStored(id))
  BY DEF senderVars, Nonces, inbox, IsStored
<1>2. \A id \in Ids : (Place(id))' = Place(id)
  BY <1>1, SamePlace DEF senderVars
<1>3. CameBySending'
  BY <1>1 DEF IInv, CameBySending, Ids
<1> QED BY <1>2, <1>3, NoneMoves DEF IInv

-----------------------------------------------------------------------------
(* The steps of the executor *)

LEMMA RemoteMoves ==
    ASSUME IInv, UNCHANGED senderVars, R!CallNext
    PROVE  IInv' /\ [Lifecycle!Next]_[id \in Ids |-> Place(id)]
<1>1. R!IInv'
  BY SameAssumptions, R!NextInv DEF IInv, R!Next
<1>2. UNCHANGED now
  BY SameAssumptions, R!CallsKeepTime
<1>3. S!IInv'
  BY <1>2, SenderUntouched
<1>4. CASE R!MessageNext
  <2>1. CASE R!LzReceive
    BY <1>1, <2>1, LzReceiveMoves
  <2>2. CASE R!LzReceiveFails
    BY <1>1, <2>2, UnprocessedMoves DEF R!LzReceiveFails, R!records
  <2>3. CASE R!PayloadStored
    BY <1>1, <1>3, <2>3, NothingMoves DEF R!PayloadStored, R!records
  <2>4. CASE R!ForceResumeReceive
    BY <1>1, <2>4, UnprocessedMoves DEF R!ForceResumeReceive, R!records
  <2>5. ASSUME NEW nonce \in failedMessages, R!RetryMessage(nonce)
        PROVE  IInv' /\ Lifecycle!Next
    BY <1>1, <2>5, RetryMessageMoves
  <2> QED BY <1>4, <2>1, <2>2, <2>3, <2>4, <2>5 DEF R!MessageNext
<1>5. CASE R!ProposalNext
  <2>1. ASSUME NEW id \in Ids, R!Execute(id) PROVE IInv' /\ Lifecycle!Next
    BY <1>1, <1>2, <2>1, EndsMoves DEF R!Execute, R!State, R!endpoint
  <2>2. ASSUME NEW id \in Ids, NEW caller, R!Cancel(caller, id) PROVE IInv' /\ Lifecycle!Next
    BY <1>1, <1>2, <2>2, EndsMoves DEF R!Cancel, R!State, R!endpoint
  <2> QED BY <1>5, <2>1, <2>2 DEF R!ProposalNext, R!Ids, Ids
<1>6. CASE R!SettingNext
  BY <1>1, <1>3, <1>6, NothingMoves
     DEF R!SettingNext, R!SetGuardian, R!SetSrcChainId, R!SetTrustedRemote,
         R!SetMaxDailyReceiveLimit, R!SetPaused, R!AddTimelocks, R!SetTimelockPendingAdmin,
         R!TimelockCall, R!records, R!endpoint
<1>7. CASE R!TimelockNext
  BY <1>1, <1>3, <1>7, NothingMoves
     DEF R!TimelockNext, R!AcceptAdmin, R!QueueTransaction, R!CancelTransaction,
         R!ExecuteTransaction, R!TimelockCall, R!endpoint
<1> QED BY <1>4, <1>5, <1>6, <1>7 DEF R!CallNext

LEMMA TickMoves ==
    ASSUME IInv, NEW seconds \in TimeSteps, Tick(seconds)
    PROVE  IInv' /\ [Lifecycle!Next]_[id \in Ids |-> Place(id)]
<1>1. S!Tick(seconds) /\ R!Tick(seconds)
  BY SameTicks
<1>2. S!IInv' /\ R!IInv'
  BY <1>1, SameAssumptions, S!NextIInv, R!NextInv DEF IInv, S!Next, R!Next
<1> QED
  BY <1>1, <1>2, NothingMoves
     DEF senderVars, S!Tick, S!settings, S!limits, R!Tick, R!records, R!endpoint

LEMMA Moves == IInv /\ [Next]_vars => IInv' /\ [Lifecycle!Next]_[id \in Ids |-> Place(id)]
<1> SUFFICES ASSUME IInv, [Next]_vars
             PROVE  IInv' /\ [Lifecycle!Next]_[id \in Ids |-> Place(id)]
  OBVIOUS
<1>1. CASE SenderStep
  BY <1>1, SameSenderCalls, SenderInv, SenderMoves DEF SenderStep
<1>2. CASE ExecutorStep
  BY <1>2, SameRemoteCalls, RemoteMoves DEF ExecutorStep
<1>3. ASSUME NEW seconds \in TimeSteps, Tick(seconds)
      PROVE  IInv' /\ [Lifecycle!Next]_[id \in Ids |-> Place(id)]
  BY <1>3, TickMoves
<1>4. CASE UNCHANGED vars
  <2>1. UNCHANGED senderVars /\ UNCHANGED executorVars /\ UNCHANGED now
    BY <1>4 DEF vars
  <2>2. S!IInv'
    BY <2>1, SenderUntouched
  <2>3. R!IInv'
    BY <2>1, SameAssumptions, R!NextInv
       DEF IInv, senderVars, executorVars, inbox, R!vars, R!settings, R!records, R!endpoint
  <2> QED BY <2>1, <2>2, <2>3, NothingMoves DEF executorVars
<1> QED BY <1>1, <1>2, <1>3, <1>4 DEF Next

THEOREM Invariance == Spec => []IInv
BY InitInv, Moves, PTL DEF Spec

(* The remote end keeps no message of a proposal it accepted, and has none   *)
(* of one whose execution the sender still stores: a retry can never queue a *)
(* proposal twice.                                                           *)
THEOREM NeverLeftOver == Spec => []NoLeftovers
<1>1. IInv => NoLeftovers
  BY KnownFacts, StoredFacts DEF NoLeftovers
<1> QED BY <1>1, Invariance, PTL

(* Whatever the two ends do, every proposal goes only the ways that          *)
(* RemoteProposal allows, one at a time.                                     *)
THEOREM ImplementsRemoteProposal == Spec => FollowsRemoteProposal
<1>1. Init => Lifecycle!Init
  <2> SUFFICES ASSUME Init PROVE Lifecycle!Init
    OBVIOUS
  <2>1. \A id \in Ids : Place(id) = "None"
    BY DEF Init, Sender!Init, Place, Ids
  <2> QED BY <2>1 DEF Lifecycle!Init
<1>2. Spec => [][Lifecycle!Next]_[id \in Ids |-> Place(id)]
  BY Invariance, Moves, PTL DEF Spec
<1> QED BY <1>1, <1>2, PTL DEF Spec, FollowsRemoteProposal, Lifecycle!Spec

(* What each end keeps on its own, it keeps here: a proposal is sent once,   *)
(* and on the remote chain the transactions of the queued proposals, and     *)
(* only those, wait in the timelocks, for as long as they must.              *)
EndsKeepTheirPromises ==
    /\ Sender!SentOnce
    /\ Remote!QueuedIsBacked
    /\ Remote!NoOrphanTransactions
    /\ Remote!ExecutionWaited

THEOREM EndsKeep == Spec => []EndsKeepTheirPromises
<1> USE DEF R!State, Remote!State, R!QueuedIn, Remote!QueuedIn, R!TxsOf, Remote!TxsOf,
            R!Tx, Remote!Tx, R!Ids, Remote!Ids, R!MovedTwinEnded, Remote!MovedTwinEnded
<1>1. IInv => Sender!SentOnce
  BY DEF IInv, S!IInv, S!SentOnce, Sender!SentOnce, S!SentAs, Sender!SentAs, S!Ids, Sender!Ids
<1>2. IInv => Remote!QueuedIsBacked
  BY DEF IInv, R!IInv, R!QueuedIsBacked, Remote!QueuedIsBacked
<1>3. IInv => Remote!NoOrphanTransactions
  BY DEF IInv, R!IInv, R!NoOrphanTransactions, Remote!NoOrphanTransactions
<1>4. IInv => Remote!ExecutionWaited
  <2>1. R!IInv => R!ExecutionWaited
    BY SameAssumptions, R!IInvWaits
  <2> QED BY <2>1 DEF IInv, R!ExecutionWaited, Remote!ExecutionWaited
<1> QED BY <1>1, <1>2, <1>3, <1>4, Invariance, PTL DEF EndsKeepTheirPromises
=============================================================================
