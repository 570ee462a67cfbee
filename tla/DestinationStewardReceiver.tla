---------------------- MODULE DestinationStewardReceiver ----------------------
(***************************************************************************)
(* DestinationStewardReceiver.sol on a chain that updates are forwarded    *)
(* to: it registers what LayerZero delivers, unless an update of the same  *)
(* type and market is waiting, and lets an executor apply it after a       *)
(* delay, with a debounce of its own.                                      *)
(*                                                                         *)
(* The messaging layer delivers every message once, in any order.  A step  *)
(* is one transaction on this chain.                                       *)
(***************************************************************************)
EXTENDS RiskStewards

CONSTANTS
    UpdateTypes, Markets,
    Executors, ConfigChoices, DelayChoices,     \* arguments of the setters
    InitialConfigs, InitialExecutors, InitialParameters, InitialDelay,
    REMOTE_UPDATE_EXPIRATION_TIME,
    LAYER_ZERO_EID,                             \* of this chain
    Messages,                                   \* the updates that may be forwarded
    MaxUpdates, MaxChanges                      \* bounds of the model

VARIABLES
    riskParameterConfigs,
    updates,                   \* id -> [status, arrivalTime, update]
    lastRegisteredUpdateId,
    lastExecutedAt,
    whitelistedExecutors,
    remoteDelay,
    parameters,                \* slot -> the value in force in its market
    packets,                   \* the updates handed to the endpoint, in order
    delivered,                 \* the positions in it that were delivered
    history,                   \* id -> when and under which debounce and delay it was
                               \* applied; for the properties only
    changes,                   \* settings changed so far
    now                        \* block.timestamp

settings == <<riskParameterConfigs, whitelistedExecutors, remoteDelay>>
registry == <<updates, lastRegisteredUpdateId, delivered>>
effects == <<lastExecutedAt, parameters, history>>
destinationVars == <<settings, registry, effects>>

-----------------------------------------------------------------------------
Keys == UpdateTypes \X Markets
Key(update) == <<update.updateType, update.market>>
Ids == 1 .. MaxUpdates

(* What the setters of both chains and the deployment ensure: among others,  *)
(* no delay is zero.                                                         *)
DestinationAssumption ==
    /\ MaxUpdates \in Nat
    /\ REMOTE_UPDATE_EXPIRATION_TIME \in Nat
    /\ InitialDelay \in Nat \ {0}
    /\ DOMAIN ConfigChoices \subseteq UpdateTypes
    /\ \A type \in DOMAIN ConfigChoices : \A choice \in ConfigChoices[type] :
          choice.debounce \in Nat /\ choice.riskSteward \in Stewards
    /\ InitialConfigs \in [UpdateTypes -> [active : BOOLEAN, debounce : Nat,
                                           riskSteward : Stewards \cup {"None"}]]
    /\ \A message \in Messages :
          message.updateId \in Ids /\ message.timestamp \in Nat /\ Key(message) \in Keys

NoPayload == [updateId |-> 0]
NoUpdate == [status |-> "None", arrivalTime |-> 0, update |-> NoPayload]
NotApplied == [at |-> 0, debounce |-> 0, delay |-> 0]

DestinationInit ==
    /\ riskParameterConfigs = InitialConfigs
    /\ updates = [id \in Ids |-> NoUpdate]
    /\ lastRegisteredUpdateId = [key \in Keys |-> 0]
    /\ lastExecutedAt = [key \in Keys |-> 0]
    /\ whitelistedExecutors = InitialExecutors
    /\ remoteDelay = InitialDelay
    /\ parameters = InitialParameters
    /\ delivered = {}
    /\ history = [id \in Ids |-> NotApplied]

-----------------------------------------------------------------------------
Config(update) == riskParameterConfigs[update.updateType]

IsExpired(update) == update.timestamp + REMOTE_UPDATE_EXPIRATION_TIME < now

IsPending(id) == updates[id].status = "Pending" /\ ~IsExpired(updates[id].update)

(* _checkPendingUpdate *)
CheckPendingUpdate(id) == id # 0 /\ IsPending(id)

(* Mutant: duplicates only. *)
IsDuplicate(update) == updates[update.updateId].status # "None"

(* Mutant: while another update is waiting only. *)
IsBlocked(update) == CheckPendingUpdate(lastRegisteredUpdateId[Key(update)])

(* A message changes nothing when its update was received before or another  *)
(* one of its type and market is waiting.                                    *)
IsDropped(update) ==
    \/ updates[update.updateId].status # "None"
    \/ CheckPendingUpdate(lastRegisteredUpdateId[Key(update)])

(* _lzReceive, called by the endpoint for a packet for this chain. *)
LzReceive(k) ==
    LET update == packets[k]
        id == update.updateId
    IN /\ update.destLzEid = LAYER_ZERO_EID
       /\ k \notin delivered
       /\ delivered' = delivered \cup {k}
       /\ IF IsDropped(update)
          THEN UNCHANGED <<updates, lastRegisteredUpdateId>>
          ELSE /\ updates' = [updates EXCEPT ![id] =
                     [status |-> "Pending", arrivalTime |-> now, update |-> update]]
               /\ lastRegisteredUpdateId' =
                     [lastRegisteredUpdateId EXCEPT ![Key(update)] = id]
       /\ UNCHANGED <<settings, effects, changes, now>>

(* Mutant: the delay counts from the publication. *)
UnlockedSincePublished(id) == updates[id].update.timestamp + remoteDelay <= now

Unlocked(id) == updates[id].arrivalTime + remoteDelay <= now

(* Mutant: a moment too early. *)
AlmostDebounced(update) ==
    LET time == lastExecutedAt[Key(update)]
    IN time = 0 \/ time + Config(update).debounce <= now + 1

Debounced(update) ==
    LET time == lastExecutedAt[Key(update)]
    IN time = 0 \/ time + Config(update).debounce <= now

ExecuteUpdate(executor, id) ==
    LET update == updates[id].update
    IN /\ executor \in whitelistedExecutors
       /\ updates[id].status = "Pending"
       /\ Config(update).active
       /\ Unlocked(id)
       /\ ~IsExpired(update)
       /\ Debounced(update)
       /\ IsApplicable(Config(update).riskSteward, update)
       /\ lastExecutedAt' = [lastExecutedAt EXCEPT ![Key(update)] = now]
       /\ updates' = [updates EXCEPT ![id].status = "Executed"]
       /\ history' = [history EXCEPT ![id] =
             [at |-> now, debounce |-> Config(update).debounce, delay |-> remoteDelay]]
       /\ parameters' = [parameters EXCEPT ![Slot(update)] = update.newValue]
       /\ UNCHANGED <<settings, lastRegisteredUpdateId, delivered, changes, now>>

RejectUpdate(executor, id) ==
    /\ executor \in whitelistedExecutors
    /\ updates[id].status = "Pending"
    /\ updates' = [updates EXCEPT ![id].status = "Rejected"]
    /\ UNCHANGED <<settings, lastRegisteredUpdateId, delivered, effects, changes, now>>

-----------------------------------------------------------------------------
(* Governance *)

Change ==
    /\ changes < MaxChanges
    /\ changes' = changes + 1
    /\ UNCHANGED now

SetRiskParameterConfig(type, choice) ==
    /\ choice.debounce # 0
    /\ riskParameterConfigs' = [riskParameterConfigs EXCEPT ![type] =
          [active |-> TRUE, debounce |-> choice.debounce,
           riskSteward |-> choice.riskSteward]]
    /\ Change
    /\ UNCHANGED <<whitelistedExecutors, remoteDelay, registry, effects>>

SetConfigActive(type, active) ==
    /\ riskParameterConfigs[type].riskSteward # "None"
    /\ riskParameterConfigs[type].active # active
    /\ riskParameterConfigs' = [riskParameterConfigs EXCEPT ![type].active = active]
    /\ Change
    /\ UNCHANGED <<whitelistedExecutors, remoteDelay, registry, effects>>

SetRemoteDelay(delay) ==
    /\ delay \in 1 .. REMOTE_UPDATE_EXPIRATION_TIME - 1
    /\ delay # remoteDelay
    /\ remoteDelay' = delay
    /\ Change
    /\ UNCHANGED <<riskParameterConfigs, whitelistedExecutors, registry, effects>>

SetWhitelistedExecutor(executor, approved) ==
    /\ approved # (executor \in whitelistedExecutors)
    /\ whitelistedExecutors' = IF approved THEN whitelistedExecutors \cup {executor}
                                           ELSE whitelistedExecutors \ {executor}
    /\ Change
    /\ UNCHANGED <<riskParameterConfigs, remoteDelay, registry, effects>>

DestinationNext ==
    \/ \E k \in DOMAIN packets : LzReceive(k)
    \/ \E executor \in whitelistedExecutors, id \in Ids :
          ExecuteUpdate(executor, id) \/ RejectUpdate(executor, id)
    \/ \E type \in DOMAIN ConfigChoices :
          \/ \E choice \in ConfigChoices[type] : SetRiskParameterConfig(type, choice)
          \/ \E active \in BOOLEAN : SetConfigActive(type, active)
    \/ \E delay \in DelayChoices : SetRemoteDelay(delay)
    \/ \E executor \in Executors, approved \in BOOLEAN :
          SetWhitelistedExecutor(executor, approved)

(* The rest of the world: any messages are sent, and time passes. *)
Environment ==
    /\ packets' \in Seq(Messages)
    /\ now' \in Nat /\ now <= now'
    /\ UNCHANGED destinationVars

DestinationSpec ==
    /\ DestinationInit
    /\ packets \in Seq(Messages)
    /\ now \in Nat
    /\ [][(DestinationNext /\ UNCHANGED packets) \/ Environment]_<<destinationVars, packets,
                                                                changes, now>>

-----------------------------------------------------------------------------
(* Properties *)

SameKey(i, j) == Key(updates[i].update) = Key(updates[j].update)

(* At most one update of a type and market waits here, however messages are  *)
(* reordered and repeated: what waits is not replaced, and what comes next   *)
(* is dropped.                                                               *)
OnePendingAtDestination ==
    \A i, j \in Ids :
        IsPending(i) /\ IsPending(j) /\ SameKey(i, j) => i = j

(* The changes of one parameter of one market come in the order in which     *)
(* they were registered here, and each keeps the debounce in force when it   *)
(* is applied from the one before it.                                        *)
AppliedInArrivalOrder ==
    \A i, j \in Ids :
        /\ updates[i].status = "Executed"
        /\ updates[j].status = "Executed"
        /\ i # j
        /\ SameKey(i, j)
        /\ updates[i].arrivalTime <= updates[j].arrivalTime
        => history[i].at + history[j].debounce <= history[j].at
=============================================================================
