------------------------------ MODULE RiskOracle ------------------------------
(***************************************************************************)
(* RiskOracle.sol: the numbered list of risk parameter updates, published  *)
(* by authorized senders for update types that are active, and the latest  *)
(* one of every type and market.  A type stands for the hash of its name.  *)
(* Reference id, publisher, previous value and additional data are left    *)
(* out: no contract reads them.                                            *)
(***************************************************************************)
EXTENDS Naturals, Sequences, FiniteSetsExt

CONSTANTS
    UpdateTypes, Markets,
    Batches,           \* what is published in one call: a list of drafts
    Publishers,        \* arguments of add- and removeAuthorizedSender
    AddedTypes,        \* arguments of addUpdateType and setUpdateTypeActive
    InitialSenders,    \* the authorized senders and the active types that
    InitialTypes,      \* governance has set up
    MaxUpdates,        \* bounds of the model: the updates published,
    MaxChanges         \* the settings changed by governance

VARIABLES
    authorizedSenders,
    allUpdateTypes,
    activeUpdateTypes,
    updatesById,
    latestUpdateIdByMarketAndType,
    changes,           \* settings changed so far
    now                \* block.timestamp

oracleSettings == <<authorizedSenders, allUpdateTypes, activeUpdateTypes>>
oracleUpdates == <<updatesById, latestUpdateIdByMarketAndType>>
oracleVars == <<oracleSettings, oracleUpdates>>

-----------------------------------------------------------------------------
Keys == UpdateTypes \X Markets
Key(update) == <<update.updateType, update.market>>
Ids == 1 .. MaxUpdates
Drafts == UNION {{drafts[k] : k \in DOMAIN drafts} : drafts \in Batches}

ASSUME OracleAssumption ==
    /\ MaxUpdates \in Nat
    /\ Batches \subseteq Seq(Drafts)
    /\ \A draft \in Drafts : Key(draft) \in Keys

updateCounter == Len(updatesById)

OracleInit ==
    /\ authorizedSenders = InitialSenders
    /\ allUpdateTypes = InitialTypes
    /\ activeUpdateTypes = InitialTypes
    /\ updatesById = <<>>
    /\ latestUpdateIdByMarketAndType = [key \in Keys |-> 0]

(* A setter that the access control manager guards. *)
Change ==
    /\ changes < MaxChanges
    /\ changes' = changes + 1
    /\ UNCHANGED now

AddAuthorizedSender(sender) ==
    /\ sender \notin authorizedSenders
    /\ authorizedSenders' = authorizedSenders \cup {sender}
    /\ Change
    /\ UNCHANGED <<allUpdateTypes, activeUpdateTypes, oracleUpdates>>

RemoveAuthorizedSender(sender) ==
    /\ sender \in authorizedSenders
    /\ authorizedSenders' = authorizedSenders \ {sender}
    /\ Change
    /\ UNCHANGED <<allUpdateTypes, activeUpdateTypes, oracleUpdates>>

AddUpdateType(type) ==
    /\ type \notin allUpdateTypes
    /\ allUpdateTypes' = allUpdateTypes \cup {type}
    /\ activeUpdateTypes' = activeUpdateTypes \cup {type}
    /\ Change
    /\ UNCHANGED <<authorizedSenders, oracleUpdates>>

SetUpdateTypeActive(type, active) ==
    /\ type \in allUpdateTypes
    /\ active # (type \in activeUpdateTypes)
    /\ activeUpdateTypes' = IF active THEN activeUpdateTypes \cup {type}
                                      ELSE activeUpdateTypes \ {type}
    /\ Change
    /\ UNCHANGED <<authorizedSenders, allUpdateTypes, oracleUpdates>>

(* _publishUpdate: what is stored for a draft. *)
Published(draft, id) ==
    [updateId |-> id, timestamp |-> now, updateType |-> draft.updateType,
     market |-> draft.market, newValue |-> draft.newValue, poolId |-> draft.poolId,
     destLzEid |-> draft.destLzEid]

(* publishRiskParameterUpdate, and publishBulkRiskParameterUpdates for more  *)
(* than one draft: all are published or none.                                *)
Publish(sender, drafts) ==
    LET IdsOf(key) == {updateCounter + k : k \in {j \in DOMAIN drafts : Key(drafts[j]) = key}}
    IN /\ sender \in authorizedSenders
       /\ drafts # <<>>
       /\ \A k \in DOMAIN drafts : drafts[k].updateType \in activeUpdateTypes
       /\ updateCounter + Len(drafts) <= MaxUpdates
       /\ updatesById' = updatesById
             \o [k \in DOMAIN drafts |-> Published(drafts[k], updateCounter + k)]
       /\ latestUpdateIdByMarketAndType' =
             [key \in Keys |-> IF IdsOf(key) = {} THEN latestUpdateIdByMarketAndType[key]
                                                  ELSE Max(IdsOf(key))]
       /\ UNCHANGED <<oracleSettings, changes, now>>

OracleNext ==
    \/ \E sender \in Publishers : AddAuthorizedSender(sender) \/ RemoveAuthorizedSender(sender)
    \/ \E type \in AddedTypes :
          AddUpdateType(type) \/ \E active \in BOOLEAN : SetUpdateTypeActive(type, active)
    \/ \E sender \in authorizedSenders, drafts \in Batches : Publish(sender, drafts)
=============================================================================
