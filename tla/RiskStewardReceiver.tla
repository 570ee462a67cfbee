-------------------------- MODULE RiskStewardReceiver --------------------------
(***************************************************************************)
(* RiskStewardReceiver.sol on the chain of the risk oracle.  It takes      *)
(* updates from the oracle, once each, and either forwards them to another *)
(* chain, or applies them at once when their steward finds them safe, or   *)
(* registers them for an executor to apply after a timelock.               *)
(*                                                                         *)
(* A step is one transaction or the passing of time; a call that reverts   *)
(* is no step.  That includes calls in which the LayerZero endpoint, the   *)
(* comptroller or the vToken reverts or reports an error, for reasons of   *)
(* their own: every call to them may fail.  Native fees are left out.      *)
(***************************************************************************)
EXTENDS RiskOracle, RiskStewards

CONSTANTS
    LocalEids,         \* endpoint ids that mean this chain: 0 and LAYER_ZERO_EID
    Executors,         \* arguments of setWhitelistedExecutor
    ConfigChoices,     \* arguments of setRiskParameterConfig: [type -> set of
                       \* [riskSteward, debounce, timelock]]
    DeltaChoices,      \* arguments of setSafeDeltaBps
    PauseChoices,      \* arguments of setPaused
    InitialConfigs, InitialExecutors, InitialDeltas, InitialParameters,
    UPDATE_EXPIRATION_TIME,
    TimeSteps,         \* seconds between two blocks
    MaxMessages, MaxTime      \* bounds of the model

VARIABLES
    paused,
    riskParameterConfigs,
    updates,               \* id -> [status, unlockTime, executedAt]
    lastProcessedUpdate, lastRegisteredUpdate,
    whitelistedExecutors,
    safeDeltaBps,          \* of the stewards
    parameters,            \* slot -> the value in force in its market
    sent,                  \* the updates handed to the endpoint, in order
    history                \* id -> the terms it was registered under, for the
                           \* properties only

receiverSettings == <<paused, riskParameterConfigs, whitelistedExecutors, safeDeltaBps>>
receiverUpdates == <<updates, lastProcessedUpdate, lastRegisteredUpdate, history>>
receiverVars == <<receiverSettings, receiverUpdates, parameters, sent>>
vars == <<oracleVars, receiverVars, changes, now>>

-----------------------------------------------------------------------------
Statuses == {"None", "Pending", "Executed", "Rejected", "Expired", "SENT_TO_DESTINATION"}

NoUpdate == [status |-> "None", unlockTime |-> 0, executedAt |-> 0]
NoConfig == [active |-> FALSE, riskSteward |-> "None", debounce |-> 0, timelock |-> 0]
NoTerms == [at |-> 0, debounce |-> 0, timelock |-> 0, safe |-> FALSE]

Configs == [active : BOOLEAN, riskSteward : Stewards \cup {"None"}, debounce : Nat,
            timelock : Nat]

ASSUME ReceiverAssumption ==
    /\ MaxTime \in Nat \ {0}
    /\ TimeSteps \subseteq Nat
    /\ UPDATE_EXPIRATION_TIME \in Nat
    /\ InitialConfigs \in [UpdateTypes -> Configs]
    /\ \A type \in UpdateTypes :       \* set up by setRiskParameterConfig
          InitialConfigs[type].active => InitialConfigs[type].riskSteward # "None"
    /\ DOMAIN ConfigChoices \subseteq UpdateTypes
    /\ \A type \in DOMAIN ConfigChoices : \A choice \in ConfigChoices[type] :
          choice \in [riskSteward : Stewards, debounce : Nat, timelock : Nat]

ReceiverInit ==
    /\ paused = FALSE
    /\ riskParameterConfigs = InitialConfigs
    /\ updates = [id \in Ids |-> NoUpdate]
    /\ lastProcessedUpdate = [key \in Keys |-> 0]
    /\ lastRegisteredUpdate = [key \in Keys |-> 0]
    /\ whitelistedExecutors = InitialExecutors
    /\ safeDeltaBps = InitialDeltas
    /\ parameters = InitialParameters
    /\ sent = <<>>
    /\ history = [id \in Ids |-> NoTerms]

Init ==
    /\ OracleInit
    /\ ReceiverInit
    /\ changes = 0
    /\ now = 1

-----------------------------------------------------------------------------
Config(update) == riskParameterConfigs[update.updateType]
Steward(update) == Config(update).riskSteward
IsRemote(update) == update.destLzEid \notin LocalEids

ExpirationTime(update) == update.timestamp + UPDATE_EXPIRATION_TIME
IsExpired(update) == ExpirationTime(update) < now

IsLatest(update) == latestUpdateIdByMarketAndType[Key(update)] = update.updateId

(* _ensureNoActiveUpdate: what was last registered for the type and market   *)
(* of the update, if it is still pending.                                    *)
StillPending(update) ==
    {id \in {lastRegisteredUpdate[Key(update)]} \ {0} : updates[id].status = "Pending"}

NoActiveUpdate(update) == \A id \in StillPending(update) : IsExpired(updatesById[id])

(* Mutant: when it was unlocked. *)
LastUnlockTime(update) ==
    LET last == lastProcessedUpdate[Key(update)]
    IN IF last = 0 THEN 0 ELSE updates[last].unlockTime

(* When the last update of the type and market was executed; 0 if never.     *)
LastExecutionTime(update) ==
    LET last == lastProcessedUpdate[Key(update)]
    IN IF last = 0 THEN 0 ELSE updates[last].executedAt

Debounced(update) ==
    LET time == LastExecutionTime(update)
    IN time = 0 \/ time + Config(update).debounce <= now

(* Mutant: the timelock may outlast the update. *)
RegistrableUntilExpired(update) ==
    /\ updates[update.updateId].status = "None"
    /\ Config(update).active
    /\ IsLatest(update)
    /\ ~IsExpired(update)
    /\ ~IsRemote(update) => Debounced(update)

(* _validateRegisterUpdate *)
Registrable(update) ==
    /\ updates[update.updateId].status = "None"
    /\ Config(update).active
    /\ IsLatest(update)
    /\ ~IsExpired(update)
    /\ now + Config(update).timelock <= ExpirationTime(update)
    /\ ~IsRemote(update) => Debounced(update)

IsSafe(update) ==
    IsSafeForDirectExecution(Steward(update), update, parameters[Slot(update)],
                             safeDeltaBps[Steward(update)])

(* The updates after _ensureNoActiveUpdate and _registerUpdate, the latter   *)
(* with the status that the rest of the call leaves.                         *)
Registered(update, unlockTime, status, executedAt) ==
    [id \in Ids |->
        IF id = update.updateId
        THEN [status |-> status, unlockTime |-> unlockTime, executedAt |-> executedAt]
        ELSE IF ~IsRemote(update) /\ id \in StillPending(update)
        THEN [updates[id] EXCEPT !.status = "Expired"]
        ELSE updates[id]]

Register(update, safe) ==
    /\ lastRegisteredUpdate' = [lastRegisteredUpdate EXCEPT ![Key(update)] = update.updateId]
    /\ history' = [history EXCEPT ![update.updateId] =
                     [at |-> now, debounce |-> Config(update).debounce,
                      timelock |-> Config(update).timelock, safe |-> safe]]

(* What processUpdate requires of every update and of a local one. *)
Processable(update) ==
    /\ ~paused
    /\ ~IsRemote(update) => NoActiveUpdate(update)
    /\ Registrable(update)
    /\ ~IsRemote(update) =>
          IsAssessable(Steward(update), update, parameters[Slot(update)])

Send(update) ==
    /\ Len(sent) < MaxMessages
    /\ sent' = Append(sent, update)

(* processUpdate of an update for another chain. *)
ForwardUpdate(id) ==
    LET update == updatesById[id]
    IN /\ Processable(update)
       /\ IsRemote(update)
       /\ Register(update, FALSE)
       /\ Send(update)
       /\ updates' = Registered(update, now, "SENT_TO_DESTINATION", now)
       /\ lastProcessedUpdate' = [lastProcessedUpdate EXCEPT ![Key(update)] = id]
       /\ UNCHANGED <<oracleVars, receiverSettings, parameters, changes, now>>

(* processUpdate of a local update that its steward finds safe. *)
ExecuteUpdateDirectly(id) ==
    LET update == updatesById[id]
    IN /\ Processable(update)
       /\ ~IsRemote(update)
       /\ IsSafe(update)
       /\ IsApplicable(Steward(update), update)
       /\ Register(update, TRUE)
       /\ updates' = Registered(update, now, "Executed", now)
       /\ lastProcessedUpdate' = [lastProcessedUpdate EXCEPT ![Key(update)] = id]
       /\ parameters' = [parameters EXCEPT ![Slot(update)] = update.newValue]
       /\ UNCHANGED <<oracleVars, receiverSettings, sent, changes, now>>

(* processUpdate of any other local update. *)
RegisterUpdate(id) ==
    LET update == updatesById[id]
    IN /\ Processable(update)
       /\ ~IsRemote(update)
       /\ ~IsSafe(update)
       /\ Register(update, FALSE)
       /\ updates' = Registered(update, now + Config(update).timelock, "Pending", 0)
       /\ UNCHANGED <<oracleVars, receiverSettings, lastProcessedUpdate, parameters, sent,
                      changes, now>>

ProcessUpdate(id) == ForwardUpdate(id) \/ ExecuteUpdateDirectly(id) \/ RegisterUpdate(id)

(* _isUpdateExecutable, which asks what _validateExecuteUpdate requires. *)
IsUpdateExecutable(id) ==
    /\ updates[id].status = "Pending"
    /\ Config(updatesById[id]).active
    /\ ~IsExpired(updatesById[id])
    /\ updates[id].unlockTime <= now

ExecuteRegisteredUpdate(executor, id) ==
    LET update == updatesById[id]
    IN /\ executor \in whitelistedExecutors
       /\ IsUpdateExecutable(id)
       /\ IsApplicable(Steward(update), update)
       /\ updates' = [updates EXCEPT ![id].status = "Executed", ![id].executedAt = now]
       /\ lastProcessedUpdate' = [lastProcessedUpdate EXCEPT ![Key(update)] = id]
       /\ parameters' = [parameters EXCEPT ![Slot(update)] = update.newValue]
       /\ UNCHANGED <<oracleVars, receiverSettings, lastRegisteredUpdate, history, sent,
                      changes, now>>

(* Mutant: any known update can be rejected. *)
RejectKnown(executor, id) ==
    /\ executor \in whitelistedExecutors
    /\ updates[id].status # "None"
    /\ updates' = [updates EXCEPT ![id].status = "Rejected"]
    /\ UNCHANGED <<oracleVars, receiverSettings, lastProcessedUpdate, lastRegisteredUpdate,
                   history, parameters, sent, changes, now>>

RejectUpdate(executor, id) ==
    /\ executor \in whitelistedExecutors
    /\ updates[id].status = "Pending"
    /\ updates' = [updates EXCEPT ![id].status = "Rejected"]
    /\ UNCHANGED <<oracleVars, receiverSettings, lastProcessedUpdate, lastRegisteredUpdate,
                   history, parameters, sent, changes, now>>

ResendRemoteUpdate(executor, id) ==
    LET update == updatesById[id]
    IN /\ executor \in whitelistedExecutors
       /\ updates[id].status = "SENT_TO_DESTINATION"
       /\ ~IsExpired(update)
       /\ Send(update)
       /\ updates' = [updates EXCEPT ![id].executedAt = now]
       /\ lastProcessedUpdate' = [lastProcessedUpdate EXCEPT ![Key(update)] = id]
       /\ UNCHANGED <<oracleVars, receiverSettings, lastRegisteredUpdate, history, parameters,
                      changes, now>>

-----------------------------------------------------------------------------
(* Governance *)

SetPaused(value) ==
    /\ paused # value
    /\ paused' = value
    /\ Change
    /\ UNCHANGED <<oracleVars, receiverUpdates, riskParameterConfigs, whitelistedExecutors,
                   safeDeltaBps, parameters, sent>>

SetRiskParameterConfig(type, choice) ==
    /\ choice.debounce # 0
    /\ choice.timelock < UPDATE_EXPIRATION_TIME
    /\ riskParameterConfigs' = [riskParameterConfigs EXCEPT ![type] =
          [active |-> TRUE, riskSteward |-> choice.riskSteward,
           debounce |-> choice.debounce, timelock |-> choice.timelock]]
    /\ Change
    /\ UNCHANGED <<oracleVars, receiverUpdates, paused, whitelistedExecutors, safeDeltaBps,
                   parameters, sent>>

SetConfigActive(type, active) ==
    /\ riskParameterConfigs[type].riskSteward # "None"
    /\ riskParameterConfigs[type].active # active
    /\ riskParameterConfigs' = [riskParameterConfigs EXCEPT ![type].active = active]
    /\ Change
    /\ UNCHANGED <<oracleVars, receiverUpdates, paused, whitelistedExecutors, safeDeltaBps,
                   parameters, sent>>

SetWhitelistedExecutor(executor, approved) ==
    /\ approved # (executor \in whitelistedExecutors)
    /\ whitelistedExecutors' = IF approved THEN whitelistedExecutors \cup {executor}
                                           ELSE whitelistedExecutors \ {executor}
    /\ Change
    /\ UNCHANGED <<oracleVars, receiverUpdates, paused, riskParameterConfigs, safeDeltaBps,
                   parameters, sent>>

(* setSafeDeltaBps of a steward that has it. *)
SetSafeDeltaBps(steward, value) ==
    /\ steward # "IRM"
    /\ value <= MAX_BPS
    /\ value # safeDeltaBps[steward]
    /\ safeDeltaBps' = [safeDeltaBps EXCEPT ![steward] = value]
    /\ Change
    /\ UNCHANGED <<oracleVars, receiverUpdates, paused, riskParameterConfigs,
                   whitelistedExecutors, parameters, sent>>

-----------------------------------------------------------------------------
SettingsNext ==
    \/ \E value \in PauseChoices : SetPaused(value)
    \/ \E type \in DOMAIN ConfigChoices :
          \/ \E choice \in ConfigChoices[type] : SetRiskParameterConfig(type, choice)
          \/ \E active \in BOOLEAN : SetConfigActive(type, active)
    \/ \E executor \in Executors, approved \in BOOLEAN :
          SetWhitelistedExecutor(executor, approved)
    \/ \E steward \in Stewards, value \in DeltaChoices : SetSafeDeltaBps(steward, value)

ReceiverNext ==
    \/ \E id \in 1 .. updateCounter : ProcessUpdate(id)
    \/ \E executor \in whitelistedExecutors, id \in 1 .. updateCounter :
          \/ ExecuteRegisteredUpdate(executor, id)
          \/ RejectUpdate(executor, id)
          \/ ResendRemoteUpdate(executor, id)
    \/ SettingsNext

CallNext ==
    \/ OracleNext /\ UNCHANGED receiverVars
    \/ ReceiverNext

Tick(seconds) ==
    /\ now + seconds <= MaxTime
    /\ now' = now + seconds
    /\ UNCHANGED <<oracleVars, receiverVars, changes>>

Next ==
    \/ CallNext
    \/ \E seconds \in TimeSteps : Tick(seconds)

Spec == Init /\ [][Next]_vars

-----------------------------------------------------------------------------
(* Properties *)

(* The variables hold values of their types, and nothing is known about an   *)
(* update that was not published.                                            *)
TypeOK ==
    /\ updateCounter \in 0 .. MaxUpdates
    /\ activeUpdateTypes \subseteq allUpdateTypes
    /\ latestUpdateIdByMarketAndType \in [Keys -> 0 .. updateCounter]
    /\ paused \in BOOLEAN
    /\ updates \in [Ids -> [status : Statuses, unlockTime : Nat, executedAt : 0 .. now]]
    /\ \A id \in Ids : id > updateCounter => updates[id] = NoUpdate
    /\ lastProcessedUpdate \in [Keys -> 0 .. updateCounter]
    /\ lastRegisteredUpdate \in [Keys -> 0 .. updateCounter]

SameKey(i, j) == Key(updatesById[i]) = Key(updatesById[j])

(* A change that is not safe waits: whatever governance does to the timelock *)
(* meanwhile, an update is applied no earlier than the timelock under which  *)
(* it was registered allows, and no later than two days after the oracle     *)
(* published it; one that waits can still be applied when it is unlocked.    *)
AppliedUnderItsTerms ==
    \A id \in 1 .. updateCounter :
        LET update == updatesById[id]
            terms == history[id]
        IN /\ updates[id].status = "Pending" =>
                 updates[id].unlockTime <= ExpirationTime(update)
           /\ updates[id].status = "Executed" =>
                 /\ updates[id].executedAt <= ExpirationTime(update)
                 /\ terms.safe \/ terms.at + terms.timelock <= updates[id].executedAt

(* The debounce keeps two changes of one parameter of one market apart, in   *)
(* the order in which the oracle published them, though the receiver asks    *)
(* for it when it registers an update and not when it executes one, unless   *)
(* an update of the same type and market was forwarded between the two.      *)
ForwardedBetween(i, j) ==
    \E k \in i + 1 .. j - 1 : SameKey(k, i) /\ updates[k].status = "SENT_TO_DESTINATION"

ApartUnlessForwarded ==
    \A i, j \in 1 .. updateCounter :
        /\ i < j
        /\ SameKey(i, j)
        /\ updates[i].status = "Executed"
        /\ updates[j].status = "Executed"
        /\ ~ForwardedBetween(i, j)
        => updates[i].executedAt + history[j].debounce <= updates[j].executedAt

(* lastRegisteredUpdate is there "to avoid registering multiple updates":    *)
(* at most one update of a type and market is pending and not expired.  It   *)
(* does not hold: see the run.                                               *)
OnePendingPerMarket ==
    \A i, j \in 1 .. updateCounter :
        /\ SameKey(i, j)
        /\ updates[i].status = "Pending" /\ ~IsExpired(updatesById[i])
        /\ updates[j].status = "Pending" /\ ~IsExpired(updatesById[j])
        => i = j

(* What became of an update stays so: only a pending one is resolved, and    *)
(* one that was forwarded is never applied here.                             *)
ResolvedIsFinal ==
    [][\A id \in Ids :
          /\ updates[id].status \in {"Executed", "Rejected", "Expired"} =>
                updates'[id] = updates[id]
          /\ updates[id].status = "SENT_TO_DESTINATION" =>
                updates'[id].status = "SENT_TO_DESTINATION"]_vars
=============================================================================
