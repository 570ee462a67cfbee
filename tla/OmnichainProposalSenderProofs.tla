-------------------- MODULE OmnichainProposalSenderProofs --------------------
(***************************************************************************)
(* What OmnichainProposalSender keeps for any number of chains, proposals  *)
(* and payloads.                                                           *)
(***************************************************************************)
EXTENDS OmnichainProposalSender, FiniteSetTheorems, WellFoundedInduction, TLAPS

(* Ids are given out once, by execute, and a stored execution is the only    *)
(* one of its id: so the id that a retry sends has not been sent.            *)
Stored ==
    /\ \A e \in storedExecutionHashes : e.pId <= proposalCount
    /\ \A e, f \in storedExecutionHashes : e.pId = f.pId => e = f

IInv == TypeOK /\ Stored /\ SentOnce

-----------------------------------------------------------------------------
(* The window of a day *)

LEMMA ChargedType ==
    ASSUME NEW w \in Window, NEW time \in Nat, NEW commands \in Nat
    PROVE  Charged(w, time, commands) \in Window
BY DEF Charged, Window

LEMMA CountType ==
    ASSUME TypeOK, NEW chain \in RemoteChains, NEW commands \in Nat,
           CountCommands(chain, commands)
    PROVE  /\ window' \in [RemoteChains -> Window]
           /\ chainIdToLastProposalSentTimestamp' \in [RemoteChains -> Nat]
<1>1. window[chain] \in Window /\ now \in Nat
  BY DEF TypeOK
<1>2. Charged(window[chain], now, commands) \in Window
  BY <1>1, ChargedType
<1> QED
  BY <1>1, <1>2 DEF CountCommands, TypeOK

LEMMA PayloadType ==
    ASSUME NEW payload \in Payloads
    PROVE  Len(payload.actions) \in Nat
BY SenderAssumption

-----------------------------------------------------------------------------
(* Sending *)

LEMMA SendType ==
    ASSUME TypeOK, NEW chain \in RemoteChains, NEW pId \in Ids, NEW payload \in Payloads,
           Send(chain, pId, payload)
    PROVE  sent' \in [RemoteChains -> Seq(Messages)]
<1> DEFINE message == [pId |-> pId, payload |-> payload, sentAt |-> now]
<1>1. sent[chain] \in Seq(Messages) /\ message \in Messages
  BY DEF TypeOK, Messages
<1>2. Append(sent[chain], message) \in Seq(Messages)
  BY <1>1
<1> QED
  BY <1>2 DEF Send, TypeOK

(* What a send adds to the messages of a chain. *)
LEMMA SendEffect ==
    ASSUME TypeOK, NEW chain \in RemoteChains, NEW pId \in Ids, NEW payload \in Payloads,
           Send(chain, pId, payload)
    PROVE  \A c \in RemoteChains, id \in Ids : \A k \in DOMAIN sent'[c] :
              /\ k \in DOMAIN sent[c] \/ (c = chain /\ k = Len(sent[chain]) + 1)
              /\ SentAs(id, c, k)' =>
                    \/ SentAs(id, c, k)
                    \/ id = pId /\ c = chain /\ k = Len(sent[chain]) + 1
<1> DEFINE message == [pId |-> pId, payload |-> payload, sentAt |-> now]
<1> SUFFICES ASSUME NEW c \in RemoteChains, NEW id \in Ids, NEW k \in DOMAIN sent'[c]
             PROVE  /\ k \in DOMAIN sent[c] \/ (c = chain /\ k = Len(sent[chain]) + 1)
                    /\ SentAs(id, c, k)' =>
                          \/ SentAs(id, c, k)
                          \/ id = pId /\ c = chain /\ k = Len(sent[chain]) + 1
  OBVIOUS
<1>1. sent \in [RemoteChains -> Seq(Messages)]
  BY DEF TypeOK
<1>2. CASE c # chain
  <2>1. sent'[c] = sent[c]
    BY <1>1, <1>2 DEF Send
  <2> QED BY <2>1 DEF SentAs
<1>3. CASE c = chain
  <2>1. sent'[c] = Append(sent[c], message) /\ sent[c] \in Seq(Messages)
    BY <1>1, <1>3 DEF Send
  <2>2. /\ DOMAIN sent'[c] = 1 .. Len(sent[c]) + 1
        /\ DOMAIN sent[c] = 1 .. Len(sent[c])
        /\ \A j \in 1 .. Len(sent[c]) : sent'[c][j] = sent[c][j]
        /\ sent'[c][Len(sent[c]) + 1] = message
    BY <2>1
  <2>3. k \in 1 .. Len(sent[c]) \/ k = Len(sent[c]) + 1
    BY <2>1, <2>2
  <2>4. CASE k \in 1 .. Len(sent[c])
    BY <2>2, <2>4 DEF SentAs
  <2>5. CASE k = Len(sent[c]) + 1
    BY <1>3, <2>2, <2>5 DEF SentAs
  <2> QED BY <2>3, <2>4, <2>5
<1> QED BY <1>2, <1>3

(* Sending an id that was not sent, and is not stored any more, keeps the    *)
(* messages distinct.                                                        *)
LEMMA SendSentOnce ==
    ASSUME TypeOK, SentOnce, NEW chain \in RemoteChains, NEW pId \in Ids, NEW payload \in Payloads,
           Send(chain, pId, payload),
           \A c \in RemoteChains : \A k \in DOMAIN sent[c] : ~SentAs(pId, c, k),
           storedExecutionHashes' \subseteq storedExecutionHashes,
           \A e \in storedExecutionHashes' : e.pId # pId,
           proposalCount' \in Nat, proposalCount' >= proposalCount, pId <= proposalCount'
    PROVE  SentOnce'
<1> SUFFICES ASSUME NEW c \in RemoteChains, NEW d \in RemoteChains, NEW id \in Ids,
                    NEW k \in DOMAIN sent'[c], SentAs(id, c, k)'
             PROVE  /\ \A l \in DOMAIN sent'[d] : SentAs(id, d, l)' => c = d /\ k = l
                    /\ \A e \in storedExecutionHashes' : e.pId # id
                    /\ id <= proposalCount'
  BY DEF SentOnce
<1> DEFINE IsNew(ch, m) == id = pId /\ ch = chain /\ m = Len(sent[chain]) + 1
<1>1. SentAs(id, c, k) \/ IsNew(c, k)
  BY SendEffect
<1>2. \A l \in DOMAIN sent'[d] : SentAs(id, d, l)' => SentAs(id, d, l) \/ IsNew(d, l)
  BY SendEffect
<1>3. CASE SentAs(id, c, k)
  <2>1. k \in DOMAIN sent[c] /\ id # pId
    BY <1>3 DEF SentAs
  <2>2. /\ \A l \in DOMAIN sent[d] : SentAs(id, d, l) => c = d /\ k = l
        /\ \A e \in storedExecutionHashes : e.pId # id
        /\ id <= proposalCount
    BY <1>3, <2>1 DEF SentOnce
  <2>3. \A l : SentAs(id, d, l) => l \in DOMAIN sent[d]
    BY DEF SentAs
  <2>4. proposalCount \in Nat /\ id \in Nat
    BY DEF TypeOK, Ids
  <2> QED BY <1>2, <2>1, <2>2, <2>3, <2>4
<1>4. CASE IsNew(c, k)
  <2>1. \A l : ~SentAs(id, d, l)
    BY <1>4 DEF SentAs
  <2> QED BY <1>2, <1>4, <2>1
<1> QED BY <1>1, <1>3, <1>4

-----------------------------------------------------------------------------
(* Each call keeps the invariant *)

LEMMA InitIInv == Init => IInv
<1> SUFFICES ASSUME Init PROVE IInv
  OBVIOUS
<1>1. DAY \in Nat /\ MaxProposals \in Nat
  BY DayAssumption, SenderAssumption
<1>2. TypeOK
  <2>1. NoWindow \in Window
    BY DEF NoWindow, Window
  <2>2. <<>> \in Seq(Messages) /\ {} \subseteq Executions /\ {} \subseteq RemoteChains
    OBVIOUS
  <2>3. sent \in [RemoteChains -> Seq(Messages)] /\ window \in [RemoteChains -> Window]
    BY <2>1, <2>2 DEF Init
  <2>4. /\ proposalCount \in 0 .. MaxProposals /\ balance \in Nat /\ now \in Nat
        /\ chainIdToMaxDailyLimit \in [RemoteChains -> Nat]
        /\ chainIdToLastProposalSentTimestamp \in [RemoteChains -> Nat]
    BY <1>1 DEF Init
  <2>5. paused \in BOOLEAN /\ trustedRemoteLookup = {} /\ storedExecutionHashes = {}
    BY DEF Init
  <2> QED BY <2>2, <2>3, <2>4, <2>5 DEF TypeOK
<1>3. Stored /\ SentOnce
  BY DEF Init, Stored, SentOnce
<1> QED BY <1>2, <1>3 DEF IInv

LEMMA ProposeType ==
    ASSUME TypeOK, NEW chain \in RemoteChains, NEW payload \in Payloads, NEW value \in Values,
           Propose(chain, payload, value)
    PROVE  /\ proposalCount' = proposalCount + 1
           /\ proposalCount' \in Ids
           /\ proposalCount' \in 0 .. MaxProposals
           /\ value \in Values \ {0}
           /\ window' \in [RemoteChains -> Window]
           /\ chainIdToLastProposalSentTimestamp' \in [RemoteChains -> Nat]
           /\ UNCHANGED <<settings, now>>
<1>1. CountCommands(chain, Len(payload.actions)) /\ Len(payload.actions) \in Nat
  BY PayloadType DEF Propose
<1>2. /\ window' \in [RemoteChains -> Window]
      /\ chainIdToLastProposalSentTimestamp' \in [RemoteChains -> Nat]
  BY <1>1, CountType
<1>3. proposalCount \in 0 .. MaxProposals /\ proposalCount < MaxProposals
      /\ proposalCount' = proposalCount + 1 /\ MaxProposals \in Nat
  BY SenderAssumption DEF TypeOK, Propose
<1>4. value \in Nat /\ value > 0
  BY SenderAssumption DEF Propose
<1> QED BY <1>2, <1>3, <1>4 DEF Propose, Ids

(* The new id is fresh. *)
LEMMA FreshId ==
    ASSUME IInv, NEW id \in Ids, id = proposalCount + 1
    PROVE  /\ \A c \in RemoteChains : \A k \in DOMAIN sent[c] : ~SentAs(id, c, k)
           /\ \A e \in storedExecutionHashes : e.pId < id
<1>1. proposalCount \in Nat
  BY DEF IInv, TypeOK
<1>2. \A c \in RemoteChains : \A k \in DOMAIN sent[c] : SentAs(id, c, k) => id <= proposalCount
  BY DEF IInv, SentOnce
<1>3. \A e \in storedExecutionHashes : e.pId <= proposalCount /\ e.pId \in Nat
  BY DEF IInv, Stored, TypeOK, Executions, Ids
<1> QED BY <1>1, <1>2, <1>3

LEMMA ExecuteIInv ==
    ASSUME IInv, NEW chain \in RemoteChains, NEW payload \in Payloads, NEW value \in Values,
           Execute(chain, payload, value)
    PROVE  IInv'
<1>1. TypeOK
  BY DEF IInv
<1>2. Propose(chain, payload, value) /\ Send(chain, proposalCount', payload)
      /\ UNCHANGED <<storedExecutionHashes, balance>>
  BY DEF Execute
<1>3. /\ proposalCount' = proposalCount + 1
      /\ proposalCount' \in Ids
      /\ proposalCount' \in 0 .. MaxProposals
      /\ window' \in [RemoteChains -> Window]
      /\ chainIdToLastProposalSentTimestamp' \in [RemoteChains -> Nat]
      /\ UNCHANGED <<settings, now>>
  BY <1>1, <1>2, ProposeType
<1>4. sent' \in [RemoteChains -> Seq(Messages)]
  BY <1>1, <1>2, <1>3, SendType
<1>5. TypeOK'
  BY <1>1, <1>2, <1>3, <1>4 DEF TypeOK, settings
<1>6. /\ \A c \in RemoteChains : \A k \in DOMAIN sent[c] : ~SentAs(proposalCount', c, k)
      /\ \A e \in storedExecutionHashes : e.pId < proposalCount'
  BY <1>3, FreshId
<1>7. proposalCount \in Nat /\ \A e \in storedExecutionHashes : e.pId \in Nat
  BY <1>1 DEF TypeOK, Executions, Ids
<1>8. SentOnce'
  <2>1. proposalCount' \in Nat /\ proposalCount' >= proposalCount
    BY <1>3, <1>7
  <2>2. \A e \in storedExecutionHashes' : e.pId # proposalCount'
    BY <1>2, <1>6, <1>7, <2>1
  <2>3. storedExecutionHashes' \subseteq storedExecutionHashes /\ SentOnce
    BY <1>2 DEF IInv
  <2>4. proposalCount' <= proposalCount'
    BY <2>1
  <2> QED BY <1>1, <1>2, <1>3, <1>6, <2>1, <2>2, <2>3, <2>4, SendSentOnce
<1>9. Stored'
  BY <1>2, <1>3, <1>7 DEF IInv, Stored
<1> QED BY <1>5, <1>8, <1>9 DEF IInv

LEMMA ExecuteFailsIInv ==
    ASSUME IInv, NEW chain \in RemoteChains, NEW payload \in Payloads, NEW value \in Values,
           ExecuteFails(chain, payload, value)
    PROVE  IInv'
<1> DEFINE execution ==
      [pId |-> proposalCount', chain |-> chain, payload |-> payload, value |-> value]
<1>1. TypeOK
  BY DEF IInv
<1>2. /\ Propose(chain, payload, value)
      /\ storedExecutionHashes' = storedExecutionHashes \cup {execution}
      /\ balance' = balance + value
      /\ sent' = sent
  BY DEF ExecuteFails
<1>3. /\ proposalCount' = proposalCount + 1
      /\ proposalCount' \in Ids
      /\ proposalCount' \in 0 .. MaxProposals
      /\ value \in Values \ {0}
      /\ window' \in [RemoteChains -> Window]
      /\ chainIdToLastProposalSentTimestamp' \in [RemoteChains -> Nat]
      /\ UNCHANGED <<settings, now>>
  BY <1>1, <1>2, ProposeType
<1>4. execution \in Executions /\ value \in Nat
  BY <1>3, SenderAssumption DEF Executions
<1>5. TypeOK'
  BY <1>1, <1>2, <1>3, <1>4 DEF TypeOK, settings
<1>6. /\ \A c \in RemoteChains : \A k \in DOMAIN sent[c] : ~SentAs(proposalCount', c, k)
      /\ \A e \in storedExecutionHashes : e.pId < proposalCount'
  BY <1>3, FreshId
<1>7. proposalCount \in Nat /\ \A e \in storedExecutionHashes : e.pId \in Nat
  BY <1>1 DEF TypeOK, Executions, Ids
<1>8. SentOnce'
  <2> SUFFICES ASSUME NEW c \in RemoteChains, NEW d \in RemoteChains, NEW id \in Ids,
                      NEW k \in DOMAIN sent[c], SentAs(id, c, k)
               PROVE  /\ \A l \in DOMAIN sent[d] : SentAs(id, d, l) => c = d /\ k = l
                      /\ \A e \in storedExecutionHashes' : e.pId # id
                      /\ id <= proposalCount'
    BY <1>2 DEF SentOnce, SentAs
  <2>1. /\ \A l \in DOMAIN sent[d] : SentAs(id, d, l) => c = d /\ k = l
        /\ \A e \in storedExecutionHashes : e.pId # id
        /\ id <= proposalCount
    BY DEF IInv, SentOnce
  <2>2. id # proposalCount'
    BY <1>6
  <2>3. id \in Nat
    BY DEF Ids
  <2> QED BY <1>2, <1>3, <1>7, <2>1, <2>2, <2>3
<1>9. Stored'
  BY <1>2, <1>3, <1>6, <1>7 DEF IInv, Stored
<1> QED BY <1>5, <1>8, <1>9 DEF IInv

(* Both ways to take an execution out of storage. *)
LEMMA ClearedStored ==
    ASSUME IInv, NEW execution \in storedExecutionHashes,
           storedExecutionHashes' = Cleared(execution), balance' = balance - execution.value,
           balance >= execution.value, UNCHANGED proposalCount
    PROVE  /\ execution \in Executions
           /\ storedExecutionHashes' \subseteq storedExecutionHashes
           /\ storedExecutionHashes' \subseteq Executions
           /\ balance' \in Nat
           /\ \A e \in storedExecutionHashes' : e.pId # execution.pId
           /\ Stored'
<1>1. execution \in Executions /\ storedExecutionHashes \subseteq Executions /\ balance \in Nat
  BY DEF IInv, TypeOK
<1>2. execution.value \in Nat
  BY <1>1, SenderAssumption DEF Executions
<1>3. storedExecutionHashes' = storedExecutionHashes \ {execution}
  BY DEF Cleared
<1> QED BY <1>1, <1>2, <1>3 DEF IInv, Stored

LEMMA RetryIInv ==
    ASSUME IInv, NEW execution \in storedExecutionHashes, RetryExecute(execution)
    PROVE  IInv'
<1>1. TypeOK /\ SentOnce /\ Stored
  BY DEF IInv
<1>2. /\ balance >= execution.value
      /\ CountCommands(execution.chain, Len(execution.payload.actions))
      /\ storedExecutionHashes' = Cleared(execution)
      /\ balance' = balance - execution.value
      /\ Send(execution.chain, execution.pId, execution.payload)
      /\ UNCHANGED <<settings, proposalCount, now>>
  BY DEF RetryExecute
<1>3. /\ execution \in Executions
      /\ storedExecutionHashes' \subseteq storedExecutionHashes
      /\ storedExecutionHashes' \subseteq Executions
      /\ balance' \in Nat
      /\ \A e \in storedExecutionHashes' : e.pId # execution.pId
      /\ Stored'
  BY <1>2, ClearedStored
<1>4. /\ execution.chain \in RemoteChains
      /\ execution.pId \in Ids
      /\ execution.payload \in Payloads
  BY <1>3 DEF Executions
<1>5. /\ window' \in [RemoteChains -> Window]
      /\ chainIdToLastProposalSentTimestamp' \in [RemoteChains -> Nat]
  BY <1>1, <1>2, <1>4, PayloadType, CountType
<1>6. sent' \in [RemoteChains -> Seq(Messages)]
  BY <1>1, <1>2, <1>4, SendType
<1>7. TypeOK'
  BY <1>1, <1>2, <1>3, <1>5, <1>6 DEF TypeOK, settings
<1>8. SentOnce'
  <2>1. \A c \in RemoteChains : \A k \in DOMAIN sent[c] : ~SentAs(execution.pId, c, k)
    BY <1>1, <1>4 DEF SentOnce
  <2>2. proposalCount' \in Nat /\ proposalCount' >= proposalCount
        /\ execution.pId <= proposalCount'
    BY <1>1, <1>2 DEF TypeOK, Stored
  <2> QED BY <1>1, <1>2, <1>3, <1>4, <2>1, <2>2, SendSentOnce
<1> QED BY <1>3, <1>7, <1>8 DEF IInv

LEMMA WithdrawIInv ==
    ASSUME IInv, NEW execution \in storedExecutionHashes, FallbackWithdraw(execution)
    PROVE  IInv'
<1>1. /\ balance >= execution.value
      /\ storedExecutionHashes' = Cleared(execution)
      /\ balance' = balance - execution.value
      /\ UNCHANGED <<settings, limits, proposalCount, sent, now>>
  BY DEF FallbackWithdraw
<1>2. /\ storedExecutionHashes' \subseteq storedExecutionHashes
      /\ storedExecutionHashes' \subseteq Executions
      /\ balance' \in Nat
      /\ Stored'
  BY <1>1, ClearedStored
<1>3. TypeOK'
  BY <1>1, <1>2 DEF IInv, TypeOK, settings, limits
<1>4. SentOnce'
  BY <1>1, <1>2 DEF IInv, SentOnce, SentAs
<1> QED BY <1>2, <1>3, <1>4 DEF IInv

(* What neither sends nor stores. *)
LEMMA SettingIInv ==
    ASSUME IInv, TypeOK', UNCHANGED <<proposalCount, storedExecutionHashes, sent>>
    PROVE  IInv'
BY DEF IInv, Stored, SentOnce, SentAs

LEMMA NextIInv == IInv /\ [Next]_vars => IInv'
<1> SUFFICES ASSUME IInv, [Next]_vars PROVE IInv'
  OBVIOUS
<1> USE DEF settings, limits
<1>1. TypeOK
  BY DEF IInv
<1>2. ASSUME NEW chain \in RemoteChains, NEW payload \in Payloads, NEW value \in Values,
             Execute(chain, payload, value) \/ ExecuteFails(chain, payload, value)
      PROVE  IInv'
  BY <1>2, ExecuteIInv, ExecuteFailsIInv
<1>3. ASSUME NEW execution \in storedExecutionHashes,
             RetryExecute(execution) \/ FallbackWithdraw(execution)
      PROVE  IInv'
  BY <1>3, RetryIInv, WithdrawIInv
<1>4. ASSUME NEW chain \in RemoteChains, SetTrustedRemoteAddress(chain)
      PROVE  IInv'
  <2>1. TypeOK'
    BY <1>1, <1>4 DEF SetTrustedRemoteAddress, TypeOK
  <2> QED BY <1>4, <2>1, SettingIInv DEF SetTrustedRemoteAddress
<1>5. ASSUME NEW chain \in RemoteChains, RemoveTrustedRemote(chain)
      PROVE  IInv'
  <2>1. TypeOK'
    BY <1>1, <1>5 DEF RemoveTrustedRemote, TypeOK
  <2> QED BY <1>5, <2>1, SettingIInv DEF RemoveTrustedRemote
<1>6. ASSUME NEW chain \in RemoteChains, NEW limit \in Limits, SetMaxDailyLimit(chain, limit)
      PROVE  IInv'
  <2>1. TypeOK'
    BY <1>1, <1>6, SenderAssumption DEF SetMaxDailyLimit, TypeOK
  <2> QED BY <1>6, <2>1, SettingIInv DEF SetMaxDailyLimit
<1>7. ASSUME NEW value \in BOOLEAN, SetPaused(value)
      PROVE  IInv'
  <2>1. TypeOK'
    BY <1>1, <1>7 DEF SetPaused, TypeOK
  <2> QED BY <1>7, <2>1, SettingIInv DEF SetPaused
<1>8. ASSUME NEW seconds \in TimeSteps, Tick(seconds)
      PROVE  IInv'
  <2>1. TypeOK'
    BY <1>1, <1>8, SenderAssumption DEF Tick, TypeOK
  <2> QED BY <1>8, <2>1, SettingIInv DEF Tick
<1>9. CASE UNCHANGED vars
  <2>1. TypeOK'
    BY <1>1, <1>9 DEF vars, TypeOK
  <2> QED BY <1>9, <2>1, SettingIInv DEF vars
<1> QED
  BY <1>2, <1>3, <1>4, <1>5, <1>6, <1>7, <1>8, <1>9 DEF Next, CallNext

-----------------------------------------------------------------------------
(* Sums over finite sets *)

(* The library's theorems of induction take an operator, so a sum is         *)
(* reasoned about through the least number, or the smallest set, for which   *)
(* a claim would fail.                                                       *)
LEMMA LeastOf ==
  ASSUME NEW S \in SUBSET Nat, S # {}
  PROVE  \E m \in S : \A x \in S : m <= x
<1>1. PICK m \in S : \A x \in S : ~ (<<x, m>> \in OpToRel(<, Nat))
  BY WFMin, NatLessThanWellFounded
<1>2. \A x, y \in Nat : x < y => <<x, y>> \in OpToRel(<, Nat)
  BY DEF OpToRel
<1>3. \A x \in S : ~ (x < m)
  BY <1>1, <1>2
<1> QED BY <1>3

(* The recursion of MapThenSumSet: g is the function that adds the values v  *)
(* over the subsets of S.                                                    *)
Picked(s) == CHOOSE x \in s : TRUE

Added(g, v, s) == IF s = {} THEN 0 ELSE v[Picked(s)] + g[s \ {Picked(s)}]

IsSum(g, v, S) == g = [s \in SUBSET S |-> Added(g, v, s)]

Small(S, n) == {s \in SUBSET S : Cardinality(s) <= n}

LEMMA Removed ==
  ASSUME NEW S, IsFiniteSet(S), NEW s \in SUBSET S, NEW x \in s
  PROVE  /\ IsFiniteSet(s) /\ Cardinality(s) \in Nat
         /\ s \ {x} \in SUBSET S
         /\ Cardinality(s \ {x}) \in Nat /\ Cardinality(s \ {x}) = Cardinality(s) - 1
<1>1. IsFiniteSet(s)
  BY FS_Subset
<1>2. IsFiniteSet(s \ {x}) /\ Cardinality(s \ {x}) = Cardinality(s) - 1
  BY <1>1, FS_RemoveElement
<1>3. Cardinality(s) \in Nat /\ Cardinality(s \ {x}) \in Nat
  BY <1>1, <1>2, FS_CardinalityType
<1> QED BY <1>1, <1>2, <1>3

LEMMA PickedIn == \A s : s # {} => Picked(s) \in s
BY DEF Picked

(* Built up by the cardinality of the subsets. *)
LEMMA SumExists ==
  ASSUME NEW S, IsFiniteSet(S), NEW v
  PROVE  \E g : IsSum(g, v, S)
<1> DEFINE Has(n) == \E g : g = [s \in Small(S, n) |-> Added(g, v, s)]
           Without == {n \in Nat : ~Has(n)}
<1>1. Has(0)
  <2> DEFINE g == [s \in Small(S, 0) |-> 0]
  <2>1. ASSUME NEW s \in Small(S, 0) PROVE s = {}
    <3>1. IsFiniteSet(s) /\ Cardinality(s) \in Nat /\ Cardinality(s) <= 0
      BY FS_Subset, FS_CardinalityType DEF Small
    <3> QED BY <3>1, FS_EmptySet
  <2>2. g = [s \in Small(S, 0) |-> Added(g, v, s)]
    BY <2>1 DEF Added
  <2> QED BY <2>2
<1>2. ASSUME NEW n \in Nat, Has(n) PROVE Has(n + 1)
  <2>1. PICK g : g = [s \in Small(S, n) |-> Added(g, v, s)]
    BY <1>2
  <2> DEFINE h == [s \in Small(S, n + 1) |-> IF s \in Small(S, n) THEN g[s] ELSE Added(g, v, s)]
  <2>2. ASSUME NEW s \in Small(S, n + 1), s # {}
        PROVE  s \ {Picked(s)} \in Small(S, n) /\ s \ {Picked(s)} \in Small(S, n + 1)
    <3>1. s \in SUBSET S /\ Cardinality(s) <= n + 1
      BY DEF Small
    <3>2. /\ s \ {Picked(s)} \in SUBSET S
          /\ Cardinality(s) \in Nat
          /\ Cardinality(s \ {Picked(s)}) \in Nat
          /\ Cardinality(s \ {Picked(s)}) = Cardinality(s) - 1
      BY <2>2, <3>1, PickedIn, Removed
    <3>3. Cardinality(s \ {Picked(s)}) <= n /\ Cardinality(s \ {Picked(s)}) <= n + 1
      BY <3>1, <3>2
    <3> QED BY <3>2, <3>3 DEF Small
  <2>3. ASSUME NEW s \in Small(S, n + 1) PROVE h[s] = Added(h, v, s)
    <3>1. CASE s = {}
      BY <2>1, <3>1 DEF Added
    <3>2. CASE s # {}
      <4>1. h[s \ {Picked(s)}] = g[s \ {Picked(s)}]
        BY <2>2, <3>2
      <4>2. h[s] = Added(g, v, s)
        BY <2>1
      <4> QED BY <3>2, <4>1, <4>2 DEF Added
    <3> QED BY <3>1, <3>2
  <2>4. h = [s \in Small(S, n + 1) |-> Added(h, v, s)]
    <3> DEFINE k == [s \in Small(S, n + 1) |-> Added(h, v, s)]
    <3>1. \A s \in Small(S, n + 1) : h[s] = k[s]
      BY <2>3
    <3>2. h = [s \in Small(S, n + 1) |-> h[s]] /\ k = [s \in Small(S, n + 1) |-> k[s]]
      OBVIOUS
    <3> QED BY <3>1, <3>2
  <2> HIDE DEF h
  <2> QED BY <2>4
<1> HIDE DEF Has
<1>3. Without = {}
  <2> SUFFICES ASSUME Without # {} PROVE FALSE
    OBVIOUS
  <2>1. PICK m \in Without : \A x \in Without : m <= x
    BY LeastOf
  <2>2. m # 0 /\ m \in Nat
    BY <1>1
  <2>3. m - 1 \in Nat /\ m - 1 \notin Without
    BY <2>1, <2>2
  <2>4. Has(m - 1)
    BY <2>3
  <2>5. Has((m - 1) + 1)
    BY <1>2, <2>3, <2>4
  <2>6. (m - 1) + 1 = m
    BY <2>2
  <2> QED BY <2>1, <2>5, <2>6
<1>4. Has(Cardinality(S))
  BY <1>3, FS_CardinalityType
<1>5. Small(S, Cardinality(S)) = SUBSET S
  <2>1. \A s \in SUBSET S : Cardinality(s) <= Cardinality(S)
    BY FS_Subset
  <2> QED BY <2>1 DEF Small
<1> QED BY <1>4, <1>5 DEF Has, IsSum

LEMMA SumUnfolds ==
  ASSUME NEW v, NEW S, NEW g, IsSum(g, v, S), NEW s \in SUBSET S
  PROVE  g[s] = Added(g, v, s)
BY DEF IsSum

(* The same values give the same sum, whichever set they are part of.        *)
LEMMA SumsAgree ==
  ASSUME NEW v, NEW S, NEW g, IsSum(g, v, S), IsFiniteSet(S),
         NEW w, NEW T, NEW h, IsSum(h, w, T), NEW s \in SUBSET S, s \in SUBSET T,
         \A x \in s : v[x] = w[x]
  PROVE  g[s] = h[s]
<1> DEFINE Bad == {n \in Nat : \E t \in SUBSET s : Cardinality(t) = n /\ g[t] # h[t]}
<1> SUFFICES ASSUME g[s] # h[s] PROVE FALSE
  OBVIOUS
<1>1. Cardinality(s) \in Bad
  BY FS_Subset, FS_CardinalityType
<1>2. PICK m \in Bad : \A n \in Bad : m <= n
  BY <1>1, LeastOf
<1>3. PICK t \in SUBSET s : Cardinality(t) = m /\ g[t] # h[t]
  BY <1>2
<1>4. g[t] = Added(g, v, t) /\ h[t] = Added(h, w, t)
  BY SumUnfolds
<1>5. t # {}
  BY <1>3, <1>4 DEF Added
<1> DEFINE r == t \ {Picked(t)}
<1>6. r \in SUBSET s /\ Cardinality(r) \in Nat /\ Cardinality(r) < m
  BY <1>3, <1>5, PickedIn, Removed
<1>7. g[r] = h[r]
  BY <1>2, <1>6
<1>8. v[Picked(t)] = w[Picked(t)]
  BY <1>5, PickedIn
<1> QED BY <1>3, <1>4, <1>5, <1>7, <1>8 DEF Added

LEMMA SumIsNat ==
  ASSUME NEW v, NEW S, NEW g, IsSum(g, v, S), IsFiniteSet(S), NEW s \in SUBSET S,
         \A x \in s : v[x] \in Nat
  PROVE  g[s] \in Nat
<1> DEFINE Bad == {n \in Nat : \E t \in SUBSET s : Cardinality(t) = n /\ g[t] \notin Nat}
<1> SUFFICES ASSUME g[s] \notin Nat PROVE FALSE
  OBVIOUS
<1>1. Cardinality(s) \in Bad
  BY FS_Subset, FS_CardinalityType
<1>2. PICK m \in Bad : \A n \in Bad : m <= n
  BY <1>1, LeastOf
<1>3. PICK t \in SUBSET s : Cardinality(t) = m /\ g[t] \notin Nat
  BY <1>2
<1>4. g[t] = Added(g, v, t)
  BY SumUnfolds
<1>5. t # {}
  BY <1>3, <1>4 DEF Added
<1> DEFINE r == t \ {Picked(t)}
<1>6. r \in SUBSET s /\ Cardinality(r) \in Nat /\ Cardinality(r) < m
  BY <1>3, <1>5, PickedIn, Removed
<1>7. g[r] \in Nat
  BY <1>2, <1>6
<1> QED BY <1>3, <1>4, <1>5, <1>7, PickedIn DEF Added

(* Any element may be taken first. *)
LEMMA SumTakes ==
  ASSUME NEW v, NEW S, NEW g, IsSum(g, v, S), IsFiniteSet(S), NEW s \in SUBSET S, NEW x \in s,
         \A y \in s : v[y] \in Nat
  PROVE  g[s] = v[x] + g[s \ {x}]
<1> DEFINE Bad == {n \in Nat : \E t \in SUBSET s : \E y \in t :
                     Cardinality(t) = n /\ g[t] # v[y] + g[t \ {y}]}
<1> SUFFICES ASSUME g[s] # v[x] + g[s \ {x}] PROVE FALSE
  OBVIOUS
<1>1. Cardinality(s) \in Bad
  BY FS_Subset, FS_CardinalityType
<1>2. PICK m \in Bad : \A n \in Bad : m <= n
  BY <1>1, LeastOf
<1>3. PICK t \in SUBSET s, y \in s : y \in t /\ Cardinality(t) = m /\ g[t] # v[y] + g[t \ {y}]
  BY <1>2
<1>4. PICK c : c = Picked(t)
  OBVIOUS
<1>5. c \in t /\ c \in s /\ y \in t
  BY <1>3, <1>4, PickedIn
<1>6. g[t] = v[c] + g[t \ {c}]
  <2>1. g[t] = Added(g, v, t)
    BY SumUnfolds
  <2> QED BY <1>4, <1>5, <2>1 DEF Added
<1>7. c # y
  BY <1>3, <1>6
<1>8. \A u \in SUBSET s, z \in s :
         Cardinality(u) \in Nat /\ Cardinality(u) < m /\ z \in u => g[u] = v[z] + g[u \ {z}]
  <2> SUFFICES ASSUME NEW u \in SUBSET s, NEW z \in u, Cardinality(u) \in Nat,
                      Cardinality(u) < m, g[u] # v[z] + g[u \ {z}]
               PROVE  FALSE
    OBVIOUS
  <2>1. Cardinality(u) \in Bad
    OBVIOUS
  <2>2. m \in Nat
    OBVIOUS
  <2> HIDE DEF Bad
  <2>3. m <= Cardinality(u)
    BY <1>2, <2>1
  <2> QED BY <2>2, <2>3
<1>9. /\ t \ {c} \in SUBSET s /\ Cardinality(t \ {c}) \in Nat /\ Cardinality(t \ {c}) < m
      /\ t \ {y} \in SUBSET s /\ Cardinality(t \ {y}) \in Nat /\ Cardinality(t \ {y}) < m
  BY <1>3, <1>5, Removed
<1>10. PICK rest \in SUBSET s : rest = (t \ {c}) \ {y} /\ rest = (t \ {y}) \ {c}
  <2>1. (t \ {c}) \ {y} = (t \ {y}) \ {c}
    OBVIOUS
  <2> QED BY <2>1
<1>11. g[t \ {c}] = v[y] + g[rest]
  BY <1>5, <1>7, <1>8, <1>9, <1>10
<1>12. g[t \ {y}] = v[c] + g[rest]
  BY <1>5, <1>7, <1>8, <1>9, <1>10
<1>13. g[rest] \in Nat /\ v[c] \in Nat /\ v[y] \in Nat
  BY <1>5, SumIsNat
<1>14. g[t] = v[y] + g[t \ {y}]
  BY <1>6, <1>11, <1>12, <1>13
<1> QED BY <1>3, <1>14

(* The sum of the values v of the elements of S. *)
Total(v, S) == (CHOOSE g : IsSum(g, v, S))[S]

LEMMA TotalIs ==
  ASSUME NEW S, IsFiniteSet(S), NEW v, NEW g, IsSum(g, v, S)
  PROVE  Total(v, S) = g[S]
<1>1. IsSum(CHOOSE h : IsSum(h, v, S), v, S)
  OBVIOUS
<1> QED BY <1>1, SumsAgree DEF Total

LEMMA TotalEmpty == ASSUME NEW v PROVE Total(v, {}) = 0
<1>1. IsFiniteSet({})
  BY FS_EmptySet
<1>2. PICK g : IsSum(g, v, {})
  BY <1>1, SumExists
<1>3. g[{}] = 0
  BY <1>2 DEF IsSum, Added
<1> QED BY <1>1, <1>2, <1>3, TotalIs

LEMMA TotalSame ==
  ASSUME NEW S, IsFiniteSet(S), NEW v, NEW w, \A x \in S : v[x] = w[x]
  PROVE  Total(v, S) = Total(w, S)
<1>1. PICK g : IsSum(g, v, S)
  BY SumExists
<1>2. PICK h : IsSum(h, w, S)
  BY SumExists
<1>3. g[S] = h[S]
  BY <1>1, <1>2, SumsAgree
<1> QED BY <1>1, <1>2, <1>3, TotalIs

LEMMA TotalIsNat ==
  ASSUME NEW S, IsFiniteSet(S), NEW v, \A x \in S : v[x] \in Nat
  PROVE  Total(v, S) \in Nat
<1>1. PICK g : IsSum(g, v, S)
  BY SumExists
<1>2. g[S] \in Nat
  BY <1>1, SumIsNat
<1> QED BY <1>1, <1>2, TotalIs

LEMMA TotalTakes ==
  ASSUME NEW S, IsFiniteSet(S), NEW v, \A y \in S : v[y] \in Nat, NEW x \in S
  PROVE  Total(v, S) = v[x] + Total(v, S \ {x})
<1>1. PICK g : IsSum(g, v, S)
  BY SumExists
<1> DEFINE T == S \ {x}
<1>2. IsFiniteSet(T) /\ T \in SUBSET S
  BY FS_Subset
<1>3. PICK h : IsSum(h, v, T)
  BY <1>2, SumExists
<1>4. g[T] = h[T]
  BY <1>1, <1>2, <1>3, SumsAgree
<1>5. g[S] = v[x] + g[T]
  BY <1>1, SumTakes
<1> QED BY <1>1, <1>2, <1>3, <1>4, <1>5, TotalIs

(* A part and the rest. *)
LEMMA TotalSplits ==
  ASSUME NEW S, IsFiniteSet(S), NEW v, \A x \in S : v[x] \in Nat, NEW A \in SUBSET S
  PROVE  Total(v, S) = Total(v, A) + Total(v, S \ A)
<1> DEFINE Splits(t) == \A u \in SUBSET t : Total(v, t) = Total(v, u) + Total(v, t \ u)
           Bad == {n \in Nat : \E t \in SUBSET S : Cardinality(t) = n /\ ~Splits(t)}
<1> SUFFICES ASSUME ~Splits(S) PROVE FALSE
  OBVIOUS
<1>1. Cardinality(S) \in Bad
  BY FS_Subset, FS_CardinalityType
<1>2. PICK m \in Bad : \A n \in Bad : m <= n
  BY <1>1, LeastOf
<1>3. PICK t \in SUBSET S : Cardinality(t) = m /\ ~Splits(t)
  BY <1>2
<1>4. PICK u \in SUBSET t : Total(v, t) # Total(v, u) + Total(v, t \ u)
  BY <1>3
<1>5. IsFiniteSet(t) /\ IsFiniteSet(u)
  BY FS_Subset
<1>6. Total(v, t) \in Nat
  BY <1>5, TotalIsNat
<1>7. CASE u = {}
  <2>1. t \ u = t /\ Total(v, u) = 0
    BY <1>7, TotalEmpty
  <2> QED BY <1>4, <1>6, <2>1
<1>8. CASE u # {}
  <2>1. PICK x \in u : TRUE
    BY <1>8
  <2> DEFINE r == t \ {x}
             q == u \ {x}
  <2>2. r \in SUBSET S /\ Cardinality(r) \in Nat /\ Cardinality(r) < m /\ q \in SUBSET r
    BY <1>3, Removed
  <2>3. Splits(r)
    BY <1>2, <2>2
  <2>4. Total(v, r) = Total(v, q) + Total(v, r \ q)
    BY <2>2, <2>3
  <2>5. r \ q = t \ u
    OBVIOUS
  <2>6. Total(v, t) = v[x] + Total(v, r) /\ Total(v, u) = v[x] + Total(v, q)
    BY <1>5, TotalTakes
  <2>7. IsFiniteSet(q) /\ IsFiniteSet(t \ u)
    BY <1>5, FS_Subset
  <2>8. Total(v, q) \in Nat /\ Total(v, t \ u) \in Nat /\ v[x] \in Nat
    BY <2>7, TotalIsNat
  <2>9. Total(v, t) = v[x] + (Total(v, q) + Total(v, t \ u)) /\ Total(v, u) = v[x] + Total(v, q)
    BY <2>4, <2>5, <2>6
  <2> HIDE DEF r, q, Splits, Bad
  <2> QED BY <1>4, <2>8, <2>9
<1> QED BY <1>7, <1>8

LEMMA TotalGrows ==
  ASSUME NEW S, IsFiniteSet(S), NEW v, \A x \in S : v[x] \in Nat, NEW A \in SUBSET S
  PROVE  Total(v, A) <= Total(v, S)
<1>1. IsFiniteSet(A) /\ IsFiniteSet(S \ A)
  BY FS_Subset
<1>2. Total(v, A) \in Nat /\ Total(v, S \ A) \in Nat
  BY <1>1, TotalIsNat
<1> QED BY <1>2, TotalSplits

(* The maximum of a finite set is what its name says. *)
LEMMA MaxIsHighest ==
  ASSUME NEW S \in SUBSET Nat, IsFiniteSet(S), S # {}
  PROVE  Max(S) \in S /\ \A x \in S : x <= Max(S)
<1> DEFINE Has(t) == \E m \in t : \A x \in t : x <= m
           Bad == {n \in Nat : \E t \in SUBSET S : Cardinality(t) = n /\ t # {} /\ ~Has(t)}
<1>1. Has(S)
  <2> SUFFICES ASSUME ~Has(S) PROVE FALSE
    OBVIOUS
  <2>1. Cardinality(S) \in Bad
    BY FS_CardinalityType
  <2>2. PICK n \in Bad : \A k \in Bad : n <= k
    BY <2>1, LeastOf
  <2>3. PICK t \in SUBSET S : Cardinality(t) = n /\ t # {} /\ ~Has(t)
    BY <2>2
  <2>4. PICK x \in t : TRUE
    BY <2>3
  <2> DEFINE r == t \ {x}
  <2>5. r \in SUBSET S /\ Cardinality(r) \in Nat /\ Cardinality(r) < n
    <3>1. n \in Nat
      OBVIOUS
    <3> HIDE DEF Bad, Has
    <3>2. Cardinality(r) \in Nat /\ Cardinality(r) = Cardinality(t) - 1 /\ r \in SUBSET S
      BY <2>4, Removed
    <3> QED BY <2>3, <3>1, <3>2
  <2>6. r = {} \/ Has(r)
    <3>1. Cardinality(r) \notin Bad
      <4>1. n \in Nat
        OBVIOUS
      <4> HIDE DEF Bad, r
      <4> QED BY <2>2, <2>5, <4>1
    <3> HIDE DEF Has, r
    <3> QED BY <2>5, <3>1
  <2>7. CASE r = {}
    BY <2>3, <2>7
  <2>8. CASE Has(r)
    BY <2>3, <2>8
  <2> QED BY <2>6, <2>7, <2>8
<1> QED BY <1>1 DEF Max

-----------------------------------------------------------------------------
(* The native value of the stored executions *)

StoredValue(S) == MapThenSumSet(LAMBDA e : e.value, S)

LEMMA StoredValueIsSum ==
  ASSUME NEW S, IsFiniteSet(S)
  PROVE  StoredValue(S) = Total([e \in S |-> e.value], S)
<1> DEFINE v == [e \in S |-> e.value]
           F(g) == [s \in SUBSET S |->  
             IF s = {} THEN 0 ELSE LET x == CHOOSE x \in s : TRUE IN  x.value + g[s \ {x}]]
           iter == CHOOSE g : g = F(g)
<1>1. StoredValue(S) = iter[S]
  BY DEF StoredValue, MapThenSumSet, MapThenFoldSet
<1>2. ASSUME NEW k PROVE k = F(k) <=> IsSum(k, v, S)
  <2>1. ASSUME NEW s \in SUBSET S PROVE F(k)[s] = Added(k, v, s)
    <3>1. s # {} => Picked(s) \in S
       BY PickedIn
    <3> QED BY <3>1 DEF Picked, Added
  <2> QED BY <2>1 DEF IsSum
<1> HIDE DEF v
<1>3. PICK k : IsSum(k, v, S)
  BY SumExists
<1> HIDE DEF F
<1>5. k = F(k)
  BY <1>2, <1>3
<1>4. iter = F(iter)
  BY <1>5
<1> HIDE DEF iter
<1>6. IsSum(iter, v, S)
  BY <1>2, <1>4
<1> QED BY <1>1, <1>6, TotalIs DEF v


LEMMA StoredValueTakes ==
    ASSUME NEW S, IsFiniteSet(S), \A e \in S : e.value \in Nat
    PROVE  /\ StoredValue(S) \in Nat
           /\ \A e \in S : StoredValue(S) = e.value + StoredValue(S \ {e})
<1> DEFINE v == [e \in S |-> e.value]
<1>1. StoredValue(S) = Total(v, S) /\ \A e \in S : v[e] \in Nat
  BY StoredValueIsSum
<1>2. ASSUME NEW e \in S PROVE StoredValue(S) = e.value + StoredValue(S \ {e})
  <2> DEFINE T == S \ {e}
             w == [x \in T |-> x.value]
  <2>1. IsFiniteSet(T)
    BY FS_Subset
  <2>2. StoredValue(T) = Total(w, T)
    BY <2>1, StoredValueIsSum
  <2>3. Total(v, T) = Total(w, T)
    <3>1. \A x \in T : v[x] = w[x]
      OBVIOUS
    <3> HIDE DEF v, w, T
    <3> QED BY <2>1, <3>1, TotalSame
  <2>4. v[e] = e.value
    OBVIOUS
  <2>5. Total(v, S) = v[e] + Total(v, T)
    <3> HIDE DEF v
    <3> QED BY <1>1, TotalTakes
  <2> QED BY <1>1, <2>2, <2>3, <2>4, <2>5
<1>3. StoredValue(S) \in Nat
  <2> HIDE DEF v
  <2> QED BY <1>1, TotalIsNat
<1> QED BY <1>2, <1>3

LEMMA StoredValueEmpty == StoredValue({}) = 0
BY FS_EmptySet, StoredValueIsSum, TotalEmpty

(* The stored executions can be counted, and the balance is their sum.       *)
Funded == IsFiniteSet(storedExecutionHashes) /\ StoredIsFunded

LEMMA FundedIs == StoredIsFunded <=> balance = StoredValue(storedExecutionHashes)
BY DEF StoredIsFunded, StoredValue

LEMMA FundedLater == StoredIsFunded' <=> balance' = StoredValue(storedExecutionHashes')
<1>1. (StoredIsFunded <=> balance = StoredValue(storedExecutionHashes))'
  BY FundedIs, PTL
<1> QED BY <1>1

LEMMA ExecutionValues ==
    ASSUME NEW S \in SUBSET Executions
    PROVE  \A e \in S : e.value \in Nat
BY SenderAssumption DEF Executions

(* execute that fails adds to both sides, what clears takes from both.       *)
LEMMA StoreFunds ==
    ASSUME TypeOK, Funded, NEW execution \in Executions, execution \notin storedExecutionHashes,
           storedExecutionHashes' = storedExecutionHashes \cup {execution},
           balance' = balance + execution.value
    PROVE  Funded'
<1> PICK S : S = storedExecutionHashes
  OBVIOUS
<1> PICK T : T = S \cup {execution}
  OBVIOUS
<1>1. S \in SUBSET Executions /\ T \in SUBSET Executions /\ T \ {execution} = S
      /\ IsFiniteSet(S) /\ IsFiniteSet(T)
  BY FS_AddElement DEF TypeOK, Funded
<1>2. StoredValue(S) \in Nat /\ StoredValue(T) = execution.value + StoredValue(S)
        /\ execution.value \in Nat
  BY <1>1, ExecutionValues, StoredValueTakes
<1>3. balance = StoredValue(S)
  BY FundedIs DEF Funded
<1>4. balance' = StoredValue(T)
  BY <1>2, <1>3
<1>5. StoredIsFunded'
  BY <1>4, FundedLater
<1> QED BY <1>1, <1>5 DEF Funded

LEMMA ClearFunds ==
    ASSUME TypeOK, Funded, NEW execution \in storedExecutionHashes,
           storedExecutionHashes' = Cleared(execution),
           balance' = balance - execution.value
    PROVE  Funded'
<1> PICK S : S = storedExecutionHashes
  OBVIOUS
<1> PICK T : T = S \ {execution}
  OBVIOUS
<1>1. S \in SUBSET Executions /\ T \in SUBSET Executions
      /\ IsFiniteSet(S) /\ IsFiniteSet(T) /\ storedExecutionHashes' = T
  BY FS_RemoveElement DEF TypeOK, Funded, Cleared
<1>2. StoredValue(T) \in Nat /\ StoredValue(S) = execution.value + StoredValue(T)
        /\ execution.value \in Nat
  BY <1>1, ExecutionValues, StoredValueTakes
<1>3. balance = StoredValue(S)
  BY FundedIs DEF Funded
<1>4. balance' = StoredValue(T)
  BY <1>2, <1>3
<1>5. StoredIsFunded'
  BY <1>1, <1>4, FundedLater
<1> QED BY <1>1, <1>5 DEF Funded

(* What neither stores nor clears, nor pays. *)
LEMMA OtherFunds ==
    ASSUME Funded, UNCHANGED <<storedExecutionHashes, balance>>
    PROVE  Funded'
BY FundedIs, FundedLater DEF Funded

LEMMA InitFunded == Init => Funded
BY StoredValueEmpty, FundedIs, FS_EmptySet DEF Init, Funded

LEMMA NextFunded == IInv /\ Funded /\ [Next]_vars => Funded'
<1> SUFFICES ASSUME IInv, Funded, [Next]_vars PROVE Funded'
  OBVIOUS
<1>1. TypeOK
  BY DEF IInv
<1>2. ASSUME NEW chain \in RemoteChains, NEW payload \in Payloads, NEW value \in Values,
             Execute(chain, payload, value)
      PROVE  Funded'
  BY <1>2, OtherFunds DEF Execute
<1>3. ASSUME NEW chain \in RemoteChains, NEW payload \in Payloads, NEW value \in Values,
             ExecuteFails(chain, payload, value)
      PROVE  Funded'
  <2> DEFINE execution ==
        [pId |-> proposalCount', chain |-> chain, payload |-> payload, value |-> value]
  <2>1. Propose(chain, payload, value)
        /\ storedExecutionHashes' = storedExecutionHashes \cup {execution}
        /\ balance' = balance + execution.value
    BY <1>3 DEF ExecuteFails
  <2>2. /\ proposalCount' = proposalCount + 1 /\ proposalCount' \in Ids
        /\ value \in Values \ {0}
    BY <1>1, <2>1, ProposeType
  <2>3. \A e \in storedExecutionHashes : e.pId < proposalCount' /\ e.pId \in Nat
    BY <1>1, <2>2, FreshId DEF TypeOK, Executions, Ids
  <2>4. execution \in Executions
    BY <2>2 DEF Executions
  <2>5. execution \notin storedExecutionHashes
    BY <2>3
  <2> HIDE DEF execution
  <2> QED BY <1>1, <2>1, <2>4, <2>5, StoreFunds
<1>4. ASSUME NEW execution \in storedExecutionHashes,
             RetryExecute(execution) \/ FallbackWithdraw(execution)
      PROVE  Funded'
  BY <1>1, <1>4, ClearFunds DEF RetryExecute, FallbackWithdraw
<1>5. ASSUME NEW chain \in RemoteChains,
             \/ SetTrustedRemoteAddress(chain)
             \/ RemoveTrustedRemote(chain)
             \/ \E limit \in Limits : SetMaxDailyLimit(chain, limit)
      PROVE  Funded'
  BY <1>5, OtherFunds DEF SetTrustedRemoteAddress, RemoveTrustedRemote, SetMaxDailyLimit
<1>6. CASE \/ \E value \in BOOLEAN : SetPaused(value)
           \/ \E seconds \in TimeSteps : Tick(seconds)
           \/ UNCHANGED vars
  BY <1>6, OtherFunds DEF SetPaused, Tick, vars
<1> QED BY <1>2, <1>3, <1>4, <1>5, <1>6 DEF Next, CallNext

-----------------------------------------------------------------------------
(* The daily limits *)

(* The highest limit that can be set. *)
Highest == Max(Limits \cup {0})

LEMMA HighestLimit == Highest \in Nat /\ \A limit \in Limits : limit <= Highest
<1> DEFINE S == Limits \cup {0}
<1>1. S \in SUBSET Nat /\ S # {} /\ IsFiniteSet(S)
  BY SenderAssumption, FS_AddElement
<1>2. Max(S) \in S /\ \A x \in S : x <= Max(S)
  BY <1>1, MaxIsHighest
<1> QED BY <1>1, <1>2 DEF Highest

(* The commands of each message, and of all that were sent in a span.        *)
Lengths(messages) == [k \in DOMAIN messages |-> Len(messages[k].payload.actions)]

SentIn(messages, from, to) == {k \in DOMAIN messages : messages[k].sentAt \in from .. to}

Commands(messages, from, to) == Total(Lengths(messages), SentIn(messages, from, to))

LEMMA LengthsAreNat ==
    ASSUME NEW messages \in Seq(Messages)
    PROVE  /\ IsFiniteSet(DOMAIN messages)
           /\ \A k \in DOMAIN messages : /\ Lengths(messages)[k] \in Nat
                                         /\ messages[k].sentAt \in Nat
<1>1. DOMAIN messages = 1 .. Len(messages) /\ Len(messages) \in Nat
  OBVIOUS
<1>2. IsFiniteSet(DOMAIN messages)
  BY <1>1, FS_Interval
<1>3. ASSUME NEW k \in DOMAIN messages
      PROVE  Lengths(messages)[k] \in Nat /\ messages[k].sentAt \in Nat
  <2>1. messages[k] \in Messages
    OBVIOUS
  <2>2. messages[k].payload \in Payloads /\ messages[k].sentAt \in Nat
    BY <2>1 DEF Messages
  <2> QED BY <2>2, SenderAssumption DEF Lengths
<1> QED BY <1>2, <1>3

LEMMA CommandsType ==
    ASSUME NEW messages \in Seq(Messages), NEW S \in SUBSET DOMAIN messages
    PROVE  IsFiniteSet(S) /\ Total(Lengths(messages), S) \in Nat
<1>1. IsFiniteSet(S) /\ \A k \in S : Lengths(messages)[k] \in Nat
  BY LengthsAreNat, FS_Subset
<1> QED BY <1>1, TotalIsNat

LEMMA CommandsGrow ==
    ASSUME NEW messages \in Seq(Messages), NEW S \in SUBSET DOMAIN messages, NEW T \in SUBSET S
    PROVE  Total(Lengths(messages), T) <= Total(Lengths(messages), S)
<1>1. IsFiniteSet(S) /\ \A k \in S : Lengths(messages)[k] \in Nat
  BY LengthsAreNat, FS_Subset
<1> QED BY <1>1, TotalGrows

LEMMA CommandsSentIs ==
    ASSUME TypeOK, NEW chain \in RemoteChains, NEW from, NEW to
    PROVE  CommandsSent(chain, from, to) = Commands(sent[chain], from, to)
<1> PICK messages : messages = sent[chain]
  OBVIOUS
<1> PICK S : S = SentIn(messages, from, to)
  OBVIOUS
<1> DEFINE v == Lengths(messages)
           F(g) == [s \in SUBSET S |->
             IF s = {} THEN 0 ELSE LET x == CHOOSE x \in s : TRUE
                                   IN  Len(messages[x].payload.actions) + g[s \ {x}]]
           iter == CHOOSE g : g = F(g)
<1>1. messages \in Seq(Messages) /\ S \in SUBSET DOMAIN messages
  BY DEF TypeOK, SentIn
<1>2. IsFiniteSet(S)
  BY <1>1, CommandsType
<1>3. CommandsSent(chain, from, to) = iter[S]
  BY DEF CommandsSent, MapThenSumSet, MapThenFoldSet, SentIn
<1>4. ASSUME NEW k PROVE k = F(k) <=> IsSum(k, v, S)
  <2>1. ASSUME NEW s \in SUBSET S PROVE F(k)[s] = Added(k, v, s)
    <3>1. s # {} => Picked(s) \in DOMAIN messages
       BY <1>1, PickedIn
    <3> QED BY <3>1 DEF Picked, Added, Lengths
  <2> QED BY <2>1 DEF IsSum
<1> HIDE DEF v
<1>5. PICK k : IsSum(k, v, S)
  BY <1>2, SumExists
<1> HIDE DEF F
<1>6. k = F(k)
  BY <1>4, <1>5
<1>7. iter = F(iter)
  BY <1>6
<1> HIDE DEF iter
<1>8. IsSum(iter, v, S)
  BY <1>4, <1>7
<1> QED BY <1>2, <1>3, <1>8, TotalIs DEF v, Commands

(* Why the window bounds every span of a day and not only its own: what it   *)
(* let through is within the limit, what the window before it let through    *)
(* in its last day is too, and the windows before those are more than a day  *)
(* away.                                                                     *)
Paced(messages, w, time) ==
    /\ w.used <= Highest
    /\ w.start <= time
    /\ \A k \in DOMAIN messages :
          messages[k].sentAt <= time /\ messages[k].sentAt <= w.start + DAY
    /\ Commands(messages, w.start, time) <= w.used
    /\ Commands(messages, w.start - DAY, w.start - 1) <= Highest

LEMMA PacedLater ==
    ASSUME NEW messages \in Seq(Messages), NEW w \in Window, NEW time \in Nat, NEW later \in Nat,
           time <= later, Paced(messages, w, time)
    PROVE  Paced(messages, w, later)
<1>1. w.start \in Nat /\ DAY \in Nat
  BY DayAssumption DEF Window
<1>2. \A k \in DOMAIN messages : messages[k].sentAt \in Nat /\ messages[k].sentAt <= time
  BY LengthsAreNat DEF Paced
<1>3. SentIn(messages, w.start, later) = SentIn(messages, w.start, time)
  BY <1>1, <1>2 DEF SentIn
<1> QED BY <1>1, <1>2, <1>3 DEF Paced, Commands

(* Charging a window leaves room for the commands, whether it is still open  *)
(* or opens again.                                                           *)
LEMMA PacedCharged ==
    ASSUME NEW messages \in Seq(Messages), NEW w \in Window, NEW time \in Nat, NEW commands \in Nat,
           NEW limit \in Nat, limit <= Highest, Fits(w, time, commands, limit),
           Paced(messages, w, time)
    PROVE  /\ Paced(messages, Charged(w, time, commands), time)
           /\ Commands(messages, Charged(w, time, commands).start, time) + commands
                <= Charged(w, time, commands).used
           /\ time <= Charged(w, time, commands).start + DAY
<1> PICK c : c = Charged(w, time, commands)
  OBVIOUS
<1>1. w.start \in Nat /\ w.used \in Nat /\ DAY \in Nat /\ Highest \in Nat
  BY DayAssumption, HighestLimit DEF Window
<1>2. \A k \in DOMAIN messages : messages[k].sentAt \in Nat
  BY LengthsAreNat
<1>3. c.used <= limit
  BY DEF Fits
<1>4. \A from, to : Commands(messages, from, to) \in Nat
  BY CommandsType DEF Commands, SentIn
<1>5. CASE ~IsOver(w, time)
  <2>1. c.start = w.start /\ c.used = w.used + commands
    BY <1>5 DEF Charged, Window
  <2>2. c.used <= Highest
    BY <1>1, <1>3, <2>1
  <2>3. time <= c.start + DAY
    BY <1>1, <1>5, <2>1 DEF IsOver
  <2> QED BY <1>1, <1>4, <2>1, <2>2, <2>3 DEF Paced
<1>6. CASE IsOver(w, time)
  <2>1. c.start = time /\ c.used = commands /\ time > w.start + DAY
    BY <1>6 DEF Charged, IsOver
  <2>2. c.used <= Highest
    BY <1>1, <1>3, <2>1
  <2>3. Commands(messages, time, time) = 0
    <3>1. SentIn(messages, time, time) = {}
      BY <1>1, <1>2, <2>1 DEF SentIn, Paced
    <3> QED BY <3>1, TotalEmpty DEF Commands
  <2>4. Commands(messages, time - DAY, time - 1) <= Commands(messages, w.start, time)
    <3>1. SentIn(messages, time - DAY, time - 1) \subseteq SentIn(messages, w.start, time)
      BY <1>1, <1>2, <2>1 DEF SentIn
    <3>2. SentIn(messages, w.start, time) \in SUBSET DOMAIN messages
      BY DEF SentIn
    <3> QED BY <3>1, <3>2, CommandsGrow DEF Commands
  <2>5. Commands(messages, time - DAY, time - 1) <= Highest
    BY <1>1, <1>4, <2>4 DEF Paced
  <2>6. \A k \in DOMAIN messages :
           messages[k].sentAt <= time /\ messages[k].sentAt <= time + DAY
    BY <1>1, <1>2 DEF Paced
  <2> QED BY <1>1, <2>1, <2>2, <2>3, <2>5, <2>6 DEF Paced
<1> QED BY <1>5, <1>6

LEMMA CommandsAppend ==
    ASSUME NEW messages \in Seq(Messages), NEW message \in Messages,
           NEW from \in Int, NEW to \in Int
    PROVE  Commands(Append(messages, message), from, to) =
             Commands(messages, from, to)
               + IF message.sentAt \in from .. to THEN Len(message.payload.actions) ELSE 0
<1> PICK more : more = Append(messages, message)
  OBVIOUS
<1> PICK new : new = Len(messages) + 1
  OBVIOUS
<1>1. /\ more \in Seq(Messages)
      /\ DOMAIN more = DOMAIN messages \cup {new}
      /\ new \notin DOMAIN messages
      /\ \A k \in DOMAIN messages : more[k] = messages[k]
      /\ more[new] = message
  OBVIOUS
<1> DEFINE S == SentIn(messages, from, to)
<1>2. S \in SUBSET DOMAIN messages /\ S \in SUBSET DOMAIN more /\ new \notin S
  BY <1>1 DEF SentIn
<1>3. IsFiniteSet(S) /\ Total(Lengths(messages), S) \in Nat
  BY <1>2, CommandsType
<1>4. Total(Lengths(more), S) = Total(Lengths(messages), S)
  <2>1. \A k \in S : Lengths(more)[k] = Lengths(messages)[k]
    BY <1>1, <1>2 DEF Lengths
  <2> QED BY <1>3, <2>1, TotalSame
<1>5. CASE message.sentAt \notin from .. to
  <2>1. SentIn(more, from, to) = S
    BY <1>1, <1>5 DEF SentIn
  <2> QED BY <1>3, <1>4, <1>5, <2>1 DEF Commands
<1>6. CASE message.sentAt \in from .. to
  <2> DEFINE T == SentIn(more, from, to)
  <2>1. new \in T /\ T \ {new} = S
    BY <1>1, <1>6 DEF SentIn
  <2>2. IsFiniteSet(T) /\ \A k \in T : Lengths(more)[k] \in Nat
    <3>1. T \in SUBSET DOMAIN more
      BY DEF SentIn
    <3> QED BY <1>1, <3>1, CommandsType, LengthsAreNat
  <2>3. Total(Lengths(more), T) = Lengths(more)[new] + Total(Lengths(more), S)
    <3> HIDE DEF T, S
    <3> QED BY <2>1, <2>2, TotalTakes
  <2>4. Lengths(more)[new] = Len(message.payload.actions) /\ Lengths(more)[new] \in Nat
    BY <1>1, <2>1, <2>2 DEF Lengths
  <2> HIDE DEF T, S
  <2>5. Total(Lengths(more), T) = Total(Lengths(messages), S) + Len(message.payload.actions)
    BY <1>3, <1>4, <2>3, <2>4
  <2> QED BY <1>6, <2>5 DEF T, S, Commands
<1> QED BY <1>5, <1>6

LEMMA PacedSent ==
    ASSUME NEW messages \in Seq(Messages), NEW message \in Messages, NEW w \in Window,
           NEW time \in Nat, message.sentAt = time, time <= w.start + DAY,
           Paced(messages, w, time),
           Commands(messages, w.start, time) + Len(message.payload.actions) <= w.used
    PROVE  Paced(Append(messages, message), w, time)
<1> PICK more : more = Append(messages, message)
  OBVIOUS
<1>1. w.start \in Nat /\ w.used \in Nat /\ DAY \in Nat
  BY DayAssumption DEF Window
<1>2. /\ DOMAIN more = DOMAIN messages \cup {Len(messages) + 1}
      /\ \A k \in DOMAIN messages : more[k] = messages[k]
      /\ more[Len(messages) + 1] = message
  OBVIOUS
<1>3. \A k \in DOMAIN more : more[k].sentAt <= time /\ more[k].sentAt <= w.start + DAY
  BY <1>1, <1>2 DEF Paced
<1>4. Commands(more, w.start, time)
        = Commands(messages, w.start, time) + Len(message.payload.actions)
  <2>1. time \in w.start .. time
    BY <1>1 DEF Paced
  <2> QED BY <1>1, <2>1, CommandsAppend
<1>5. Commands(more, w.start - DAY, w.start - 1) = Commands(messages, w.start - DAY, w.start - 1)
  <2>1. time \notin w.start - DAY .. w.start - 1
    BY <1>1 DEF Paced
  <2>2. Commands(messages, w.start - DAY, w.start - 1) \in Nat
    BY CommandsType DEF Commands, SentIn
  <2>3. w.start - DAY \in Int /\ w.start - 1 \in Int
    BY <1>1
  <2> QED BY <2>1, <2>2, <2>3, CommandsAppend
<1> QED BY <1>3, <1>4, <1>5 DEF Paced

(* A day reaches back into the window before, and no further. *)
LEMMA PacedHolds ==
    ASSUME NEW messages \in Seq(Messages), NEW w \in Window, NEW time \in Nat,
           Paced(messages, w, time)
    PROVE  Commands(messages, time - DAY, time) <= 2 * Highest
<1> DEFINE X == SentIn(messages, time - DAY, time)
           A == SentIn(messages, w.start, time)
           B == SentIn(messages, w.start - DAY, w.start - 1)
           v == Lengths(messages)
<1>1. w.start \in Nat /\ w.used \in Nat /\ DAY \in Nat /\ Highest \in Nat
  BY DayAssumption, HighestLimit DEF Window
<1>2. \A k \in DOMAIN messages : messages[k].sentAt \in Nat
  BY LengthsAreNat
<1>3. X \ A \in SUBSET B
  BY <1>1, <1>2 DEF SentIn, Paced
<1>4. X \in SUBSET DOMAIN messages /\ A \in SUBSET DOMAIN messages /\ B \in SUBSET DOMAIN messages
  BY DEF SentIn
<1>5. IsFiniteSet(X) /\ \A k \in X : v[k] \in Nat
  BY <1>4, CommandsType, LengthsAreNat
<1>6. Total(v, A) <= Highest /\ Total(v, B) <= Highest
      /\ Total(v, A) \in Nat /\ Total(v, B) \in Nat
  <2>1. Total(v, A) \in Nat /\ Total(v, B) \in Nat
    BY <1>4, CommandsType
  <2>2. Total(v, A) <= w.used /\ w.used <= Highest /\ Total(v, B) <= Highest
    BY DEF Paced, Commands
  <2> HIDE DEF v, A, B
  <2> QED BY <1>1, <2>1, <2>2
<1>7. Total(v, X \cap A) <= Total(v, A) /\ Total(v, X \ A) <= Total(v, B)
      /\ Total(v, X \cap A) \in Nat /\ Total(v, X \ A) \in Nat
  <2> HIDE DEF X, A, B
  <2>1. /\ X \cap A \in SUBSET A
        /\ X \cap A \in SUBSET DOMAIN messages
        /\ X \ A \in SUBSET DOMAIN messages
    BY <1>4
  <2> QED BY <1>3, <1>4, <2>1, CommandsGrow, CommandsType
<1>8. Total(v, X) = Total(v, X \cap A) + Total(v, X \ A)
  <2> HIDE DEF X, A, v
  <2>1. X \cap A \in SUBSET X /\ X \ (X \cap A) = X \ A
    OBVIOUS
  <2> QED BY <1>5, <2>1, TotalSplits
<1> HIDE DEF v, A, B
<1>9. Total(v, X) <= 2 * Highest
  <2> HIDE DEF X
  <2> QED BY <1>1, <1>6, <1>7, <1>8
<1> QED BY <1>9 DEF Commands, v

(* Each chain is paced, by a limit that is no higher than the highest.       *)
AllPaced ==
    \A c \in RemoteChains :
        /\ chainIdToMaxDailyLimit[c] <= Highest
        /\ Paced(sent[c], window[c], now)

LEMMA CountPaces ==
    ASSUME TypeOK, AllPaced, NEW chain \in RemoteChains, NEW commands \in Nat,
           EligibleToSend(chain, commands), CountCommands(chain, commands)
    PROVE  /\ \A c \in RemoteChains : Paced(sent[c], window'[c], now)
           /\ Commands(sent[chain], window'[chain].start, now) + commands <= window'[chain].used
           /\ now <= window'[chain].start + DAY
<1>1. /\ sent[chain] \in Seq(Messages) /\ window[chain] \in Window /\ now \in Nat
      /\ chainIdToMaxDailyLimit[chain] \in Nat
  BY DEF TypeOK
<1>2. /\ chainIdToMaxDailyLimit[chain] <= Highest
      /\ Paced(sent[chain], window[chain], now)
      /\ Fits(window[chain], now, commands, chainIdToMaxDailyLimit[chain])
  BY DEF AllPaced, EligibleToSend
<1>3. window'[chain] = Charged(window[chain], now, commands)
      /\ \A c \in RemoteChains : c # chain => window'[c] = window[c]
  BY DEF TypeOK, CountCommands
<1>4. /\ Paced(sent[chain], Charged(window[chain], now, commands), now)
      /\ Commands(sent[chain], Charged(window[chain], now, commands).start, now) + commands
           <= Charged(window[chain], now, commands).used
      /\ now <= Charged(window[chain], now, commands).start + DAY
  BY <1>1, <1>2, PacedCharged
<1> QED BY <1>3, <1>4 DEF AllPaced

LEMMA SendPaces ==
    ASSUME TypeOK, AllPaced, NEW chain \in RemoteChains, NEW pId \in Ids, NEW payload \in Payloads,
           EligibleToSend(chain, Len(payload.actions)),
           CountCommands(chain, Len(payload.actions)),
           Send(chain, pId, payload), UNCHANGED <<chainIdToMaxDailyLimit, now>>
    PROVE  AllPaced'
<1> DEFINE message == [pId |-> pId, payload |-> payload, sentAt |-> now]
<1>1. Len(payload.actions) \in Nat
  BY PayloadType
<1>2. /\ \A c \in RemoteChains : Paced(sent[c], window'[c], now)
      /\ Commands(sent[chain], window'[chain].start, now) + Len(payload.actions)
           <= window'[chain].used
      /\ now <= window'[chain].start + DAY
  BY <1>1, CountPaces
<1>3. /\ sent[chain] \in Seq(Messages) /\ message \in Messages /\ now \in Nat
      /\ window'[chain] \in Window
  BY <1>1, CountType DEF TypeOK, Messages
<1>4. Paced(Append(sent[chain], message), window'[chain], now)
  <2> PICK m : m = message
    OBVIOUS
  <2>1. m.sentAt = now /\ m.payload = payload
    OBVIOUS
  <2> HIDE DEF message
  <2> QED BY <1>2, <1>3, <2>1, PacedSent
<1>5. sent'[chain] = Append(sent[chain], message)
      /\ \A c \in RemoteChains : c # chain => sent'[c] = sent[c]
  BY DEF TypeOK, Send
<1>6. ASSUME NEW c \in RemoteChains PROVE Paced(sent'[c], window'[c], now')
  <2> HIDE DEF message
  <2> QED BY <1>2, <1>4, <1>5
<1>7. \A c \in RemoteChains : Paced(sent[c], window[c], now)'
  BY <1>6 DEF Paced
<1> QED BY <1>7 DEF AllPaced

(* What does not count, send or set a limit, at the same time or later.      *)
LEMMA LaterPaces ==
    ASSUME TypeOK, AllPaced, UNCHANGED <<sent, window>>,
           now' \in Nat, now <= now',
           \A c \in RemoteChains : chainIdToMaxDailyLimit'[c] <= Highest
    PROVE  AllPaced'
<1>1. ASSUME NEW c \in RemoteChains PROVE Paced(sent[c], window[c], now')
  <2>1. sent[c] \in Seq(Messages) /\ window[c] \in Window /\ now \in Nat
    BY DEF TypeOK
  <2> QED BY <2>1, PacedLater DEF AllPaced
<1>2. \A c \in RemoteChains : Paced(sent[c], window[c], now)'
  BY <1>1 DEF Paced
<1> QED BY <1>2 DEF AllPaced

LEMMA InitPaced == Init => AllPaced
<1> SUFFICES ASSUME Init PROVE AllPaced
  OBVIOUS
<1>1. DAY \in Nat /\ Highest \in Nat
  BY DayAssumption, HighestLimit
<1>2. \A c \in RemoteChains : /\ sent[c] = <<>> /\ window[c] = NoWindow
                              /\ chainIdToMaxDailyLimit[c] = 0
  BY DEF Init
<1>3. \A from, to : Commands(<<>>, from, to) = 0
  <2>1. \A from, to : SentIn(<<>>, from, to) = {}
    BY DEF SentIn
  <2> QED BY <2>1, TotalEmpty DEF Commands
<1>4. now \in Nat /\ DOMAIN <<>> = {}
  BY <1>1 DEF Init
<1>5. Paced(<<>>, NoWindow, now)
  BY <1>1, <1>3, <1>4 DEF Paced, NoWindow
<1> QED BY <1>1, <1>2, <1>5 DEF AllPaced

LEMMA NextPaced == IInv /\ AllPaced /\ [Next]_vars => AllPaced'
<1> SUFFICES ASSUME IInv, AllPaced, [Next]_vars PROVE AllPaced'
  OBVIOUS
<1> USE DEF settings, limits
<1>1. TypeOK /\ now \in Nat
  BY DEF IInv, TypeOK
<1>2. ASSUME NEW chain \in RemoteChains, NEW payload \in Payloads, NEW value \in Values,
             Execute(chain, payload, value)
      PROVE  AllPaced'
  <2>1. Propose(chain, payload, value) /\ Send(chain, proposalCount', payload)
    BY <1>2 DEF Execute
  <2>2. /\ proposalCount' \in Ids
        /\ EligibleToSend(chain, Len(payload.actions))
        /\ CountCommands(chain, Len(payload.actions))
        /\ UNCHANGED <<chainIdToMaxDailyLimit, now>>
    BY <1>1, <2>1, ProposeType DEF Propose
  <2> QED BY <1>1, <2>1, <2>2, SendPaces
<1>3. ASSUME NEW chain \in RemoteChains, NEW payload \in Payloads, NEW value \in Values,
             ExecuteFails(chain, payload, value)
      PROVE  AllPaced'
  <2>1. /\ EligibleToSend(chain, Len(payload.actions))
        /\ CountCommands(chain, Len(payload.actions))
        /\ UNCHANGED <<chainIdToMaxDailyLimit, now, sent>>
    BY <1>3 DEF ExecuteFails, Propose
  <2>2. \A c \in RemoteChains : Paced(sent[c], window'[c], now)
    BY <1>1, <2>1, PayloadType, CountPaces
  <2>3. \A c \in RemoteChains : Paced(sent[c], window[c], now)'
    BY <2>1, <2>2 DEF Paced
  <2> QED BY <2>1, <2>3 DEF AllPaced
<1>4. ASSUME NEW execution \in storedExecutionHashes, RetryExecute(execution)
      PROVE  AllPaced'
  <2>1. /\ execution.chain \in RemoteChains
        /\ execution.pId \in Ids
        /\ execution.payload \in Payloads
    BY <1>1 DEF TypeOK, Executions
  <2>2. /\ EligibleToSend(execution.chain, Len(execution.payload.actions))
        /\ CountCommands(execution.chain, Len(execution.payload.actions))
        /\ Send(execution.chain, execution.pId, execution.payload)
        /\ UNCHANGED <<chainIdToMaxDailyLimit, now>>
    BY <1>4 DEF RetryExecute
  <2> QED BY <1>1, <2>1, <2>2, SendPaces
<1>5. ASSUME UNCHANGED <<sent, window, now, chainIdToMaxDailyLimit>> PROVE AllPaced'
  BY <1>1, <1>5, LaterPaces DEF AllPaced
<1>6. ASSUME NEW execution \in storedExecutionHashes, FallbackWithdraw(execution)
      PROVE  AllPaced'
  BY <1>5, <1>6 DEF FallbackWithdraw
<1>7. ASSUME NEW chain \in RemoteChains,
             SetTrustedRemoteAddress(chain) \/ RemoveTrustedRemote(chain)
      PROVE  AllPaced'
  BY <1>5, <1>7 DEF SetTrustedRemoteAddress, RemoveTrustedRemote
<1>8. ASSUME NEW chain \in RemoteChains, NEW limit \in Limits, SetMaxDailyLimit(chain, limit)
      PROVE  AllPaced'
  <2>1. limit <= Highest
    BY HighestLimit
  <2>2. chainIdToMaxDailyLimit' = [chainIdToMaxDailyLimit EXCEPT ![chain] = limit]
        /\ UNCHANGED <<sent, window, now>>
    BY <1>8 DEF SetMaxDailyLimit
  <2>3. \A c \in RemoteChains : chainIdToMaxDailyLimit'[c] <= Highest
    BY <1>1, <2>1, <2>2 DEF AllPaced, TypeOK
  <2> QED BY <1>1, <2>2, <2>3, LaterPaces
<1>9. ASSUME NEW value \in BOOLEAN, SetPaused(value) PROVE AllPaced'
  BY <1>5, <1>9 DEF SetPaused
<1>10. ASSUME NEW seconds \in TimeSteps, Tick(seconds) PROVE AllPaced'
  <2>1. /\ seconds \in Nat /\ now' = now + seconds
        /\ UNCHANGED <<sent, window, chainIdToMaxDailyLimit>>
    BY <1>10, SenderAssumption DEF Tick
  <2>2. now' \in Nat /\ now <= now'
    BY <1>1, <2>1
  <2> QED BY <1>1, <2>1, <2>2, LaterPaces DEF AllPaced
<1>11. CASE UNCHANGED vars
  BY <1>5, <1>11 DEF vars
<1> QED
  BY <1>2, <1>3, <1>4, <1>6, <1>7, <1>8, <1>9, <1>10, <1>11 DEF Next, CallNext

-----------------------------------------------------------------------------
(* Theorems *)

(* Time passes by itself. *)
LEMMA CallsKeepTime == CallNext => UNCHANGED now
BY DEF CallNext, Execute, ExecuteFails, Propose, RetryExecute, FallbackWithdraw,
   SetTrustedRemoteAddress, RemoveTrustedRemote, SetMaxDailyLimit, SetPaused

(* The inductive invariant holds in every reachable state. *)
THEOREM Invariant == Spec => []IInv
BY InitIInv, NextIInv, PTL DEF Spec

(* Every reachable state of the sender is well typed: ids, windows and       *)
(* stored executions, with the balance never below zero.                     *)
THEOREM TypeCorrect == Spec => []TypeOK
<1>1. IInv => TypeOK
  BY DEF IInv
<1> QED BY <1>1, Invariant, PTL

(* execute, retryExecute and fallbackWithdraw in any order send a proposal   *)
(* at most once, to one chain, and never while it is stored.                 *)
THEOREM AlwaysSentOnce == Spec => []SentOnce
<1>1. IInv => SentOnce
  BY DEF IInv
<1> QED BY <1>1, Invariant, PTL

(* Whatever order executions are stored, retried and withdrawn in, the       *)
(* contract holds the native value of those still stored, and no more.       *)
THEOREM AlwaysFunded == Spec => []StoredIsFunded
<1>1. Spec => []Funded
  BY InitFunded, NextFunded, Invariant, PTL DEF Spec
<1>2. Funded => StoredIsFunded
  BY DEF Funded
<1> QED BY <1>1, <1>2, PTL

(* The restarting window never lets more than twice the highest limit        *)
(* through within a day, whatever the limits are changed to meanwhile.       *)
THEOREM AlwaysTwoLimits == Spec => []TwoLimitsPerDay
<1>1. Spec => []AllPaced
  BY InitPaced, NextPaced, Invariant, PTL DEF Spec
<1>2. IInv /\ AllPaced => TwoLimitsPerDay
  <2> SUFFICES ASSUME IInv, AllPaced, NEW chain \in RemoteChains
               PROVE  CommandsSent(chain, now - DAY, now) <= 2 * Highest
    BY DEF TwoLimitsPerDay, Highest
  <2>1. TypeOK /\ sent[chain] \in Seq(Messages) /\ window[chain] \in Window /\ now \in Nat
    BY DEF IInv, TypeOK
  <2>2. Commands(sent[chain], now - DAY, now) <= 2 * Highest
    BY <2>1, PacedHolds DEF AllPaced
  <2> QED BY <2>1, <2>2, CommandsSentIs
<1> QED BY <1>1, <1>2, Invariant, PTL
=============================================================================
