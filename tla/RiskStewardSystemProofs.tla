------------------------ MODULE RiskStewardSystemProofs ------------------------
(***************************************************************************)
(* What the destination keeps whatever is sent to it and however it is     *)
(* delivered; what the receiver and the lens keep on the chain of the      *)
(* oracle, for any updates, configurations, executors and order of calls;  *)
(* that the system of both chains implements what the destination assumes  *)
(* of its environment; and that the system implements RiskUpdate.          *)
(***************************************************************************)
EXTENDS RiskStewardLens, RiskStewardSystem, WellFoundedInduction, TLAPS

-----------------------------------------------------------------------------
(* The destination alone, in any environment *)

RemoteConfigType ==
    [active : BOOLEAN, debounce : Nat, riskSteward : Remote!Stewards \cup {"None"}]
RemoteRecords == [status : {"None", "Pending", "Executed", "Rejected"}, arrivalTime : Nat,
                  update : Messages \cup {Remote!NoPayload}]

RemoteTypeOK ==
    /\ remoteConfigs \in [UpdateTypes -> RemoteConfigType]
    /\ remoteUpdates \in [Remote!Ids -> RemoteRecords]
    /\ remoteLastRegisteredUpdateId \in [Remote!Keys -> Remote!Ids \cup {0}]
    /\ remoteLastExecutedAt \in [Remote!Keys -> Nat]
    /\ remoteDelay \in Nat \ {0}
    /\ remoteHistory \in [Remote!Ids -> [at : Nat, debounce : Nat, delay : Nat]]
    /\ sent \in Seq(Messages)
    /\ now \in Nat

(* An update that was registered has a payload. *)
Known(id) == remoteUpdates[id].status # "None"
IsExecuted(id) == remoteUpdates[id].status = "Executed"

PayloadsAreMessages ==
    \A id \in Remote!Ids : Known(id) => remoteUpdates[id].update \in Messages

(* What waits is what was registered last. *)
RemotePendingIsLast ==
    \A id \in Remote!Ids :
        Known(id) /\ Remote!IsPending(id) =>
            remoteLastRegisteredUpdateId[Remote!Key(remoteUpdates[id].update)] = id

(* Updates are applied after they arrived and by now. *)
AppliedAfterArrival ==
    \A id \in Remote!Ids : IsExecuted(id) =>
        /\ remoteUpdates[id].arrivalTime < remoteHistory[id].at
        /\ remoteHistory[id].at <= remoteLastExecutedAt[Remote!Key(remoteUpdates[id].update)]

AppliedByNow == \A key \in Remote!Keys : remoteLastExecutedAt[key] <= now

(* Of two updates of a type and market, one was over when the other came.    *)
OverBefore(i, j) ==
    /\ ~Remote!IsPending(i)
    /\ IsExecuted(i) => remoteHistory[i].at <= remoteUpdates[j].arrivalTime

OneByOne ==
    \A i, j \in Remote!Ids :
        i # j /\ Known(i) /\ Known(j) /\ Remote!SameKey(i, j) =>
            OverBefore(i, j) \/ OverBefore(j, i)

KeptApart ==
    \A i, j \in Remote!Ids :
        /\ IsExecuted(i) /\ IsExecuted(j) /\ Remote!SameKey(i, j)
        /\ remoteHistory[i].at < remoteHistory[j].at
        => remoteHistory[i].at + remoteHistory[j].debounce <= remoteHistory[j].at

RemoteParts ==
    /\ PayloadsAreMessages
    /\ RemotePendingIsLast
    /\ AppliedAfterArrival
    /\ AppliedByNow
    /\ OneByOne
    /\ KeptApart

RemoteIInv == RemoteTypeOK /\ RemoteParts

(* A step of the destination, of its environment, or of neither. *)
DestinationStep ==
    [(Remote!DestinationNext /\ UNCHANGED sent) \/ Remote!Environment]_<<
        Remote!destinationVars, sent, changes, now>>

-----------------------------------------------------------------------------
(* What follows from the invariant of the destination *)

LEMMA OnePendingFollows ==
    ASSUME RemoteIInv
    PROVE  Remote!OnePendingAtDestination
BY DEF RemoteIInv, RemoteParts, OneByOne, OverBefore, Remote!OnePendingAtDestination,
     Remote!IsPending, Known

LEMMA OrderFollows ==
    ASSUME Remote!DestinationAssumption, RemoteIInv
    PROVE  Remote!AppliedInArrivalOrder
<1> SUFFICES ASSUME NEW i \in Remote!Ids, NEW j \in Remote!Ids,
                    remoteUpdates[i].status = "Executed", remoteUpdates[j].status = "Executed",
                    i # j, Remote!SameKey(i, j),
                    remoteUpdates[i].arrivalTime <= remoteUpdates[j].arrivalTime
             PROVE  remoteHistory[i].at + remoteHistory[j].debounce <= remoteHistory[j].at
  BY DEF Remote!AppliedInArrivalOrder
<1>1. /\ remoteUpdates[i].arrivalTime \in Nat /\ remoteUpdates[j].arrivalTime \in Nat
      /\ remoteHistory[i].at \in Nat /\ remoteHistory[j].at \in Nat
  BY DEF RemoteIInv, RemoteTypeOK, RemoteRecords
<1>2. OverBefore(i, j) \/ OverBefore(j, i)
  BY DEF RemoteIInv, RemoteParts, OneByOne, Known
<1>3. remoteUpdates[j].arrivalTime < remoteHistory[j].at
  BY DEF RemoteIInv, RemoteParts, AppliedAfterArrival, IsExecuted
<1>4. ~OverBefore(j, i)
  BY <1>1, <1>3 DEF OverBefore, IsExecuted
<1>5. remoteHistory[i].at < remoteHistory[j].at
  BY <1>1, <1>2, <1>3, <1>4 DEF OverBefore, IsExecuted
<1> QED
  BY <1>5 DEF RemoteIInv, RemoteParts, KeptApart, IsExecuted

-----------------------------------------------------------------------------
(* Initial states and steps that leave the updates alone *)

LEMMA RemoteInitHolds ==
    ASSUME Remote!DestinationAssumption, Remote!DestinationInit, sent \in Seq(Messages),
           now \in Nat
    PROVE  RemoteIInv
<1>1. Remote!NoUpdate \in RemoteRecords
  BY DEF Remote!NoUpdate, RemoteRecords
<1>2. RemoteTypeOK
  BY <1>1 DEF Remote!DestinationInit, Remote!DestinationAssumption, RemoteTypeOK,
       RemoteConfigType, Remote!NotApplied
<1>3. \A id \in Remote!Ids : remoteUpdates[id].status = "None"
  BY DEF Remote!DestinationInit, Remote!NoUpdate
<1>4. AppliedByNow
  BY DEF Remote!DestinationInit, AppliedByNow
<1> QED
  BY <1>2, <1>3, <1>4 DEF RemoteIInv, RemoteParts, PayloadsAreMessages, RemotePendingIsLast,
       AppliedAfterArrival, OneByOne, KeptApart, Known, IsExecuted

(* Nothing is pending that was not, as time passes. *)
LEMMA StaysOver ==
    ASSUME Remote!DestinationAssumption, RemoteIInv, now' \in Nat, now <= now',
           NEW id \in Remote!Ids, Known(id),
           remoteUpdates'[id] = remoteUpdates[id], Remote!IsPending(id)'
    PROVE  Remote!IsPending(id)
<1>1. remoteUpdates[id].update.timestamp \in Nat
  BY DEF RemoteIInv, RemoteParts, PayloadsAreMessages, Remote!DestinationAssumption
<1> QED
  BY <1>1 DEF Remote!IsPending, Remote!IsExpired, Remote!DestinationAssumption, RemoteIInv,
       RemoteTypeOK

LEMMA RemoteQuietStep ==
    ASSUME Remote!DestinationAssumption, RemoteIInv, now' \in Nat, now <= now',
           UNCHANGED <<remoteUpdates, remoteLastRegisteredUpdateId, remoteLastExecutedAt,
                       remoteHistory>>
    PROVE  RemoteParts'
<1>1. \A id \in Remote!Ids : Known(id) /\ Remote!IsPending(id)' => Remote!IsPending(id)
  BY StaysOver
<1>2. PayloadsAreMessages' /\ AppliedAfterArrival' /\ KeptApart'
  BY DEF RemoteIInv, RemoteParts, PayloadsAreMessages, AppliedAfterArrival, KeptApart,
       Known, IsExecuted, Remote!SameKey
<1>3. RemotePendingIsLast'
  BY <1>1 DEF RemoteIInv, RemoteParts, RemotePendingIsLast, Known
<1>4. AppliedByNow'
  BY DEF RemoteIInv, RemoteTypeOK, RemoteParts, AppliedByNow
<1>5. OneByOne'
  BY <1>1 DEF RemoteIInv, RemoteParts, OneByOne, OverBefore, Known, IsExecuted,
       Remote!SameKey
<1> QED
  BY <1>2, <1>3, <1>4, <1>5 DEF RemoteParts

-----------------------------------------------------------------------------
(* Settings and the environment *)

LEMMA RemoteSettingsStep ==
    ASSUME Remote!DestinationAssumption, RemoteIInv, UNCHANGED sent,
           \/ \E type \in DOMAIN RemoteConfigChoices :
                 \/ \E choice \in RemoteConfigChoices[type] :
                       Remote!SetRiskParameterConfig(type, choice)
                 \/ \E active \in BOOLEAN : Remote!SetConfigActive(type, active)
           \/ \E delay \in RemoteDelayChoices : Remote!SetRemoteDelay(delay)
           \/ \E executor \in RemoteExecutors, approved \in BOOLEAN :
                 Remote!SetWhitelistedExecutor(executor, approved)
    PROVE  RemoteIInv'
<1>1. /\ UNCHANGED <<remoteUpdates, remoteLastRegisteredUpdateId, remoteLastExecutedAt,
                      remoteHistory, now>>
      /\ now \in Nat
  BY DEF Remote!SetRiskParameterConfig, Remote!SetConfigActive, Remote!SetRemoteDelay,
       Remote!SetWhitelistedExecutor, Remote!Change, Remote!registry, Remote!effects,
       RemoteIInv, RemoteTypeOK
<1>2. RemoteParts'
  BY <1>1, RemoteQuietStep
<1>3. remoteConfigs' \in [UpdateTypes -> RemoteConfigType] /\ remoteDelay' \in Nat \ {0}
  <2>1. CASE \E type \in DOMAIN RemoteConfigChoices :
                \E choice \in RemoteConfigChoices[type] :
                   Remote!SetRiskParameterConfig(type, choice)
    BY <2>1 DEF Remote!SetRiskParameterConfig, Remote!DestinationAssumption,
         RemoteConfigType, RemoteIInv, RemoteTypeOK
  <2>2. CASE \E type \in DOMAIN RemoteConfigChoices, active \in BOOLEAN :
                Remote!SetConfigActive(type, active)
    <3>1. PICK type \in DOMAIN RemoteConfigChoices, active \in BOOLEAN :
             Remote!SetConfigActive(type, active)
      BY <2>2
    <3>2. type \in UpdateTypes /\ remoteConfigs[type] \in RemoteConfigType
      BY DEF Remote!DestinationAssumption, RemoteIInv, RemoteTypeOK
    <3>3. [remoteConfigs[type] EXCEPT !.active = active] \in RemoteConfigType
      BY <3>2 DEF RemoteConfigType
    <3>4. /\ remoteConfigs' = [remoteConfigs EXCEPT
                ![type] = [remoteConfigs[type] EXCEPT !.active = active]]
          /\ UNCHANGED remoteDelay
      BY <3>1, <3>2 DEF Remote!SetConfigActive, RemoteIInv, RemoteTypeOK
    <3> QED
      BY <3>3, <3>4 DEF RemoteIInv, RemoteTypeOK
  <2>3. CASE \E delay \in RemoteDelayChoices : Remote!SetRemoteDelay(delay)
    BY <2>3 DEF Remote!SetRemoteDelay, Remote!DestinationAssumption, RemoteIInv,
         RemoteTypeOK
  <2>4. CASE \E executor \in RemoteExecutors, approved \in BOOLEAN :
                Remote!SetWhitelistedExecutor(executor, approved)
    BY <2>4 DEF Remote!SetWhitelistedExecutor, RemoteIInv, RemoteTypeOK
  <2> QED
    BY <2>1, <2>2, <2>3, <2>4
<1> QED
  BY <1>1, <1>2, <1>3 DEF RemoteIInv, RemoteTypeOK

LEMMA EnvironmentStep ==
    ASSUME Remote!DestinationAssumption, RemoteIInv, Remote!Environment
    PROVE  RemoteIInv'
<1>1. RemoteParts'
  BY RemoteQuietStep DEF Remote!Environment, Remote!destinationVars, Remote!registry,
       Remote!effects
<1> QED
  BY <1>1 DEF Remote!Environment, Remote!destinationVars, Remote!settings, Remote!registry,
       Remote!effects, RemoteIInv, RemoteTypeOK

-----------------------------------------------------------------------------
(* Rejection *)

LEMMA RemoteRejectStep ==
    ASSUME Remote!DestinationAssumption, RemoteIInv, UNCHANGED sent,
           NEW executor, NEW id \in Remote!Ids, Remote!RejectUpdate(executor, id)
    PROVE  RemoteIInv'
<1>1. /\ UNCHANGED <<remoteLastRegisteredUpdateId, remoteLastExecutedAt, remoteHistory, now>>
      /\ UNCHANGED <<remoteConfigs, remoteDelay>>
      /\ remoteUpdates[id].status = "Pending"
      /\ remoteUpdates' = [remoteUpdates EXCEPT ![id].status = "Rejected"]
  BY DEF Remote!RejectUpdate, Remote!settings, Remote!effects
<1>2. RemoteTypeOK'
  BY <1>1 DEF RemoteIInv, RemoteTypeOK, RemoteRecords
<1>3. /\ remoteUpdates'[id].status = "Rejected"
      /\ \A other \in Remote!Ids :
            /\ other # id => remoteUpdates'[other] = remoteUpdates[other]
            /\ remoteUpdates'[other].update = remoteUpdates[other].update
            /\ remoteUpdates'[other].arrivalTime = remoteUpdates[other].arrivalTime
  BY <1>1 DEF RemoteIInv, RemoteTypeOK, RemoteRecords
<1>4. /\ \A other \in Remote!Ids : (Known(other)' => Known(other))
      /\ \A other \in Remote!Ids : (IsExecuted(other)' => IsExecuted(other))
      /\ \A other \in Remote!Ids : (Remote!IsPending(other)' => Remote!IsPending(other))
  BY <1>1, <1>3 DEF Known, IsExecuted, Remote!IsPending, Remote!IsExpired
<1>5. PayloadsAreMessages' /\ RemotePendingIsLast' /\ AppliedAfterArrival' /\ AppliedByNow'
  BY <1>1, <1>3, <1>4 DEF RemoteIInv, RemoteParts, PayloadsAreMessages, RemotePendingIsLast,
       AppliedAfterArrival, AppliedByNow
<1>6. OneByOne' /\ KeptApart'
  BY <1>1, <1>3, <1>4 DEF RemoteIInv, RemoteParts, OneByOne, KeptApart, OverBefore,
       Remote!SameKey
<1> QED
  BY <1>2, <1>5, <1>6 DEF RemoteIInv, RemoteParts

-----------------------------------------------------------------------------
(* Arrival *)

LEMMA RemoteReceiveStep ==
    ASSUME Remote!DestinationAssumption, RemoteIInv, UNCHANGED sent, NEW k \in DOMAIN sent,
           Remote!LzReceive(k)
    PROVE  RemoteIInv'
<1> DEFINE update == sent[k]
           id == update.updateId
           record == [status |-> "Pending", arrivalTime |-> now, update |-> update]
<1>1. /\ UNCHANGED <<remoteConfigs, remoteDelay, remoteLastExecutedAt, remoteHistory, now>>
      /\ now \in Nat
  BY DEF Remote!LzReceive, Remote!settings, Remote!effects, RemoteIInv, RemoteTypeOK
<1>2. CASE Remote!IsDropped(update)
  <2>1. UNCHANGED <<remoteUpdates, remoteLastRegisteredUpdateId>>
    BY <1>2 DEF Remote!LzReceive
  <2>2. RemoteParts'
    BY <1>1, <2>1, RemoteQuietStep
  <2> QED
    BY <1>1, <2>1, <2>2 DEF RemoteIInv, RemoteTypeOK
<1>3. CASE ~Remote!IsDropped(update)
  <2>1. /\ remoteUpdates' = [remoteUpdates EXCEPT ![id] = record]
        /\ remoteLastRegisteredUpdateId' =
              [remoteLastRegisteredUpdateId EXCEPT ![Remote!Key(update)] = id]
    BY <1>3 DEF Remote!LzReceive
  <2>2. update \in Messages /\ id \in Remote!Ids /\ Remote!Key(update) \in Remote!Keys
    BY DEF RemoteIInv, RemoteTypeOK, Remote!DestinationAssumption
  <2>3. RemoteTypeOK'
    <3>1. record \in RemoteRecords
      BY <1>1, <2>2 DEF RemoteRecords
    <3> QED
      BY <1>1, <2>1, <2>2, <3>1 DEF RemoteIInv, RemoteTypeOK
  <2>4. /\ remoteUpdates'[id] = record
        /\ \A other \in Remote!Ids \ {id} : remoteUpdates'[other] = remoteUpdates[other]
        /\ remoteLastRegisteredUpdateId'[Remote!Key(update)] = id
        /\ \A key \in Remote!Keys \ {Remote!Key(update)} :
              remoteLastRegisteredUpdateId'[key] = remoteLastRegisteredUpdateId[key]
    BY <2>1, <2>2 DEF RemoteIInv, RemoteTypeOK
  <2>5. ~Known(id) /\ ~IsExecuted(id)'
    BY <1>3, <2>4 DEF Remote!IsDropped, Known, IsExecuted
  \* Nothing of the type and market was waiting.
  <2>6. ASSUME NEW other \in Remote!Ids, Known(other),
               Remote!Key(remoteUpdates[other].update) = Remote!Key(update)
        PROVE  ~Remote!IsPending(other)
    <3>1. SUFFICES ASSUME Remote!IsPending(other) PROVE FALSE
      OBVIOUS
    <3>2. remoteLastRegisteredUpdateId[Remote!Key(update)] = other
      BY <2>6, <3>1 DEF RemoteIInv, RemoteParts, RemotePendingIsLast
    <3>3. other # 0
      BY DEF Remote!Ids
    <3> QED
      BY <1>3, <3>1, <3>2, <3>3 DEF Remote!IsDropped, Remote!CheckPendingUpdate
  <2>7. \A other \in Remote!Ids \ {id} :
           /\ Known(other)' <=> Known(other)
           /\ IsExecuted(other)' <=> IsExecuted(other)
           /\ Remote!IsPending(other)' <=> Remote!IsPending(other)
    BY <1>1, <2>4 DEF Known, IsExecuted, Remote!IsPending, Remote!IsExpired
  <2>8. PayloadsAreMessages'
    BY <2>2, <2>4, <2>7 DEF RemoteIInv, RemoteParts, PayloadsAreMessages
  <2>9. RemotePendingIsLast'
    <3> SUFFICES ASSUME NEW other \in Remote!Ids, Known(other)', Remote!IsPending(other)'
                 PROVE  remoteLastRegisteredUpdateId'[Remote!Key(remoteUpdates'[other].update)]
                           = other
      BY DEF RemotePendingIsLast
    <3>1. CASE other = id
      BY <2>4, <3>1
    <3>2. CASE other # id
      <4>1. /\ Known(other) /\ Remote!IsPending(other)
            /\ remoteUpdates'[other] = remoteUpdates[other]
        BY <2>4, <2>7, <3>2
      <4>2. Remote!Key(remoteUpdates[other].update) \in Remote!Keys \ {Remote!Key(update)}
        BY <2>6, <4>1 DEF RemoteIInv, RemoteParts, PayloadsAreMessages,
             Remote!DestinationAssumption
      <4> QED
        BY <2>4, <4>1, <4>2 DEF RemoteIInv, RemoteParts, RemotePendingIsLast
    <3> QED
      BY <3>1, <3>2
  <2>10. AppliedAfterArrival' /\ AppliedByNow' /\ KeptApart'
    <3>1. \A other \in Remote!Ids : IsExecuted(other)' =>
             IsExecuted(other) /\ remoteUpdates'[other] = remoteUpdates[other]
      BY <2>4, <2>5, <2>7
    <3> QED
      BY <1>1, <3>1 DEF RemoteIInv, RemoteParts, AppliedAfterArrival, AppliedByNow,
           KeptApart, Remote!SameKey
  <2>11. ASSUME NEW other \in Remote!Ids \ {id}, Known(other)', Remote!SameKey(other, id)'
         PROVE  OverBefore(other, id)'
    <3>1. Known(other) /\ Remote!Key(remoteUpdates[other].update) = Remote!Key(update)
      BY <2>4, <2>7, <2>11 DEF Remote!SameKey
    <3>2. ~Remote!IsPending(other)'
      BY <2>6, <2>7, <3>1
    <3>3. ASSUME IsExecuted(other) PROVE remoteHistory[other].at <= now
      <4>1. /\ remoteHistory[other].at \in Nat
            /\ remoteLastExecutedAt[Remote!Key(update)] \in Nat
        BY <2>2 DEF RemoteIInv, RemoteTypeOK
      <4>2. remoteHistory[other].at <= remoteLastExecutedAt[Remote!Key(update)]
        BY <3>1, <3>3 DEF RemoteIInv, RemoteParts, AppliedAfterArrival
      <4>3. remoteLastExecutedAt[Remote!Key(update)] <= now
        BY <2>2 DEF RemoteIInv, RemoteParts, AppliedByNow
      <4> QED
        BY <1>1, <4>1, <4>2, <4>3
    <3> QED
      BY <1>1, <2>4, <2>7, <3>2, <3>3 DEF OverBefore
  <2>12. OneByOne'
    <3> SUFFICES ASSUME NEW i \in Remote!Ids, NEW j \in Remote!Ids, i # j,
                        Known(i)', Known(j)',
                        Remote!SameKey(i, j)'
                 PROVE  OverBefore(i, j)' \/ OverBefore(j, i)'
      BY DEF OneByOne
    <3>1. CASE i = id
      BY <2>11, <3>1 DEF Remote!SameKey
    <3>2. CASE j = id
      BY <2>11, <3>2
    <3>3. CASE i # id /\ j # id
      BY <1>1, <2>4, <2>7, <3>3 DEF RemoteIInv, RemoteParts, OneByOne, OverBefore,
           Remote!SameKey
    <3> QED
      BY <3>1, <3>2, <3>3
  <2> QED
    BY <2>3, <2>8, <2>9, <2>10, <2>12 DEF RemoteIInv, RemoteParts
<1> QED
  BY <1>2, <1>3

-----------------------------------------------------------------------------
(* Execution *)

LEMMA RemoteExecuteStep ==
    ASSUME Remote!DestinationAssumption, RemoteIInv, UNCHANGED sent,
           NEW executor, NEW id \in Remote!Ids, Remote!ExecuteUpdate(executor, id)
    PROVE  RemoteIInv'
<1> DEFINE update == remoteUpdates[id].update
           debounce == remoteConfigs[update.updateType].debounce
<1>1. /\ UNCHANGED <<remoteConfigs, remoteDelay, remoteLastRegisteredUpdateId, now>>
      /\ now \in Nat
      /\ remoteUpdates[id].status = "Pending"
      /\ remoteUpdates[id].arrivalTime + remoteDelay <= now
      /\ ~Remote!IsExpired(update)
      /\ remoteLastExecutedAt' = [remoteLastExecutedAt EXCEPT ![Remote!Key(update)] = now]
      /\ remoteUpdates' = [remoteUpdates EXCEPT ![id].status = "Executed"]
      /\ remoteHistory' = [remoteHistory EXCEPT ![id] =
             [at |-> now, debounce |-> debounce, delay |-> remoteDelay]]
  BY DEF Remote!ExecuteUpdate, Remote!Unlocked, Remote!Config, Remote!settings, RemoteIInv,
       RemoteTypeOK
<1>2. Remote!IsPending(id) /\ Known(id) /\ ~IsExecuted(id)
  BY <1>1 DEF Remote!IsPending, Known, IsExecuted
<1>3. /\ update \in Messages
      /\ Remote!Key(update) \in Remote!Keys
      /\ update.updateType \in UpdateTypes
      /\ debounce \in Nat
  <2>1. update \in Messages
    BY <1>2 DEF RemoteIInv, RemoteParts, PayloadsAreMessages
  <2>2. Remote!Key(update) \in Remote!Keys
    BY <2>1 DEF Remote!DestinationAssumption
  <2>3. update.updateType \in UpdateTypes
    BY <2>2 DEF Remote!Key, Remote!Keys
  <2> QED
    BY <2>1, <2>2, <2>3 DEF RemoteIInv, RemoteTypeOK, RemoteConfigType
<1>4. RemoteTypeOK'
  BY <1>1, <1>3 DEF RemoteIInv, RemoteTypeOK, RemoteRecords
<1>5. /\ remoteUpdates'[id].status = "Executed"
      /\ \A other \in Remote!Ids :
            /\ other # id => /\ remoteUpdates'[other] = remoteUpdates[other]
                             /\ remoteHistory'[other] = remoteHistory[other]
            /\ remoteUpdates'[other].update = remoteUpdates[other].update
            /\ remoteUpdates'[other].arrivalTime = remoteUpdates[other].arrivalTime
      /\ remoteHistory'[id].at = now /\ remoteHistory'[id].debounce = debounce
      /\ remoteLastExecutedAt'[Remote!Key(update)] = now
      /\ \A key \in Remote!Keys \ {Remote!Key(update)} :
            remoteLastExecutedAt'[key] = remoteLastExecutedAt[key]
  BY <1>1, <1>3 DEF RemoteIInv, RemoteTypeOK, RemoteRecords
<1>6. /\ \A other \in Remote!Ids : Known(other)' <=> Known(other)
      /\ \A other \in Remote!Ids \ {id} : IsExecuted(other)' <=> IsExecuted(other)
      /\ \A other \in Remote!Ids : Remote!IsPending(other)' => Remote!IsPending(other)
      /\ ~Remote!IsPending(id)'
  BY <1>1, <1>2, <1>5 DEF Known, IsExecuted, Remote!IsPending, Remote!IsExpired
\* What was applied of the type and market was applied a debounce ago.
<1>7. ASSUME NEW other \in Remote!Ids, IsExecuted(other), Remote!SameKey(other, id)
      PROVE  remoteHistory[other].at + debounce <= now
  <2>1. /\ remoteUpdates[other].arrivalTime \in Nat
        /\ remoteHistory[other].at \in Nat
        /\ remoteLastExecutedAt[Remote!Key(update)] \in Nat
    BY <1>3 DEF RemoteIInv, RemoteTypeOK, RemoteRecords
  <2>2. /\ remoteUpdates[other].arrivalTime < remoteHistory[other].at
        /\ remoteHistory[other].at <= remoteLastExecutedAt[Remote!Key(update)]
    BY <1>7 DEF RemoteIInv, RemoteParts, AppliedAfterArrival, Remote!SameKey
  <2>3. \/ remoteLastExecutedAt[Remote!Key(update)] = 0
        \/ remoteLastExecutedAt[Remote!Key(update)] + debounce <= now
    BY DEF Remote!ExecuteUpdate, Remote!Debounced, Remote!Config
  <2> QED
    BY <1>1, <1>3, <2>1, <2>2, <2>3
<1>8. PayloadsAreMessages' /\ RemotePendingIsLast'
  BY <1>1, <1>5, <1>6 DEF RemoteIInv, RemoteParts, PayloadsAreMessages, RemotePendingIsLast
<1>9. AppliedByNow'
  BY <1>1, <1>5 DEF RemoteIInv, RemoteParts, AppliedByNow
<1>10. AppliedAfterArrival'
  <2> SUFFICES ASSUME NEW other \in Remote!Ids, IsExecuted(other)'
               PROVE  /\ remoteUpdates'[other].arrivalTime < remoteHistory'[other].at
                      /\ remoteHistory'[other].at <=
                            remoteLastExecutedAt'[Remote!Key(remoteUpdates'[other].update)]
    BY DEF AppliedAfterArrival
  <2>1. CASE other = id
    <3>1. remoteUpdates[id].arrivalTime \in Nat /\ remoteDelay \in Nat \ {0}
      BY DEF RemoteIInv, RemoteTypeOK, RemoteRecords
    <3>2. remoteUpdates[id].arrivalTime < now
      BY <1>1, <3>1
    <3> QED
      BY <1>1, <1>5, <2>1, <3>2
  <2>2. CASE other # id
    <3>1. /\ IsExecuted(other)
          /\ remoteUpdates'[other] = remoteUpdates[other]
          /\ remoteHistory'[other] = remoteHistory[other]
          /\ Remote!Key(remoteUpdates[other].update) \in Remote!Keys
      BY <1>5, <1>6, <2>2 DEF RemoteIInv, RemoteParts, PayloadsAreMessages,
           Remote!DestinationAssumption, Known, IsExecuted
    <3>2. /\ remoteUpdates[other].arrivalTime < remoteHistory[other].at
          /\ remoteHistory[other].at <=
                remoteLastExecutedAt[Remote!Key(remoteUpdates[other].update)]
      BY <3>1 DEF RemoteIInv, RemoteParts, AppliedAfterArrival
    <3>3. CASE Remote!Key(remoteUpdates[other].update) = Remote!Key(update)
      <4>1. remoteHistory[other].at + debounce <= now
        BY <1>7, <3>1, <3>3 DEF Remote!SameKey
      <4>2. remoteHistory[other].at \in Nat
        BY DEF RemoteIInv, RemoteTypeOK
      <4> QED
        BY <1>1, <1>3, <1>5, <3>1, <3>2, <3>3, <4>1, <4>2
    <3>4. CASE Remote!Key(remoteUpdates[other].update) # Remote!Key(update)
      BY <1>5, <3>1, <3>2, <3>4
    <3> QED
      BY <3>3, <3>4
  <2> QED
    BY <2>1, <2>2
<1>11. OneByOne'
  <2> SUFFICES ASSUME NEW i \in Remote!Ids, NEW j \in Remote!Ids, i # j,
                        Known(i)', Known(j)',
                      Remote!SameKey(i, j)'
               PROVE  OverBefore(i, j)' \/ OverBefore(j, i)'
    BY DEF OneByOne
  <2>1. OverBefore(i, j) \/ OverBefore(j, i)
    BY <1>5, <1>6 DEF RemoteIInv, RemoteParts, OneByOne, Remote!SameKey
  \* What was over stays over: the update that is executed was pending.
  <2>2. ASSUME NEW a \in Remote!Ids, NEW b \in Remote!Ids, OverBefore(a, b)
        PROVE  OverBefore(a, b)'
    <3>1. a # id
      BY <1>2, <2>2 DEF OverBefore
    <3> QED
      BY <1>5, <1>6, <2>2, <3>1 DEF OverBefore
  <2> QED
    BY <2>1, <2>2
<1>12. KeptApart'
  <2> SUFFICES ASSUME NEW i \in Remote!Ids, NEW j \in Remote!Ids,
                      IsExecuted(i)', IsExecuted(j)',
                      Remote!SameKey(i, j)', remoteHistory'[i].at < remoteHistory'[j].at
               PROVE  remoteHistory'[i].at + remoteHistory'[j].debounce <= remoteHistory'[j].at
    BY DEF KeptApart
  <2>1. Remote!SameKey(i, j)
    BY <1>5 DEF Remote!SameKey
  <2>2. CASE i # id /\ j # id
    BY <1>5, <1>6, <2>1, <2>2 DEF RemoteIInv, RemoteParts, KeptApart
  <2>3. CASE i # id /\ j = id
    BY <1>5, <1>6, <1>7, <2>1, <2>3
  <2>4. CASE i = id
    <3>1. j # id
      BY <1>1, <1>5, <2>4
    <3>2. remoteHistory[j].at + debounce <= now
      BY <1>6, <1>7, <2>1, <2>4, <3>1 DEF Remote!SameKey
    <3>3. remoteHistory[j].at \in Nat /\ remoteHistory'[j].at = remoteHistory[j].at
      BY <1>5, <3>1 DEF RemoteIInv, RemoteTypeOK
    <3> QED
      BY <1>1, <1>3, <1>5, <2>4, <3>2, <3>3
  <2> QED
    BY <2>2, <2>3, <2>4
<1> QED
  BY <1>4, <1>8, <1>9, <1>10, <1>11, <1>12 DEF RemoteIInv, RemoteParts

-----------------------------------------------------------------------------
(* The destination keeps its invariant. *)

LEMMA RemoteNextHolds ==
    ASSUME Remote!DestinationAssumption, RemoteIInv, DestinationStep
    PROVE  RemoteIInv'
<1>1. ASSUME UNCHANGED sent, NEW k \in DOMAIN sent, Remote!LzReceive(k)
      PROVE  RemoteIInv'
  BY <1>1, RemoteReceiveStep
<1>2. ASSUME UNCHANGED sent, NEW executor \in remoteWhitelistedExecutors,
             NEW id \in Remote!Ids,
             Remote!ExecuteUpdate(executor, id)
      PROVE  RemoteIInv'
  BY <1>2, RemoteExecuteStep
<1>3. ASSUME UNCHANGED sent, NEW executor \in remoteWhitelistedExecutors,
             NEW id \in Remote!Ids,
             Remote!RejectUpdate(executor, id)
      PROVE  RemoteIInv'
  BY <1>3, RemoteRejectStep
<1>4. CASE Remote!Environment
  BY <1>4, EnvironmentStep
<1>5. CASE UNCHANGED <<Remote!destinationVars, sent, changes, now>>
  <2>1. now \in Nat /\ now <= now
    BY DEF RemoteIInv, RemoteTypeOK
  <2>2. RemoteParts'
    BY <1>5, <2>1, RemoteQuietStep DEF Remote!destinationVars, Remote!registry,
         Remote!effects
  <2> QED
    BY <1>5, <2>2 DEF Remote!destinationVars, Remote!settings, Remote!registry,
         Remote!effects, RemoteIInv, RemoteTypeOK
<1> QED
  BY <1>1, <1>2, <1>3, <1>4, <1>5, RemoteSettingsStep
  DEF DestinationStep, Remote!DestinationNext

(* At the destination at most one update of a type and market waits, and the *)
(* changes of one parameter of one market come in the order in which they    *)
(* were registered, a debounce apart: for any updates and markets, delays    *)
(* and debounces and any changes of these, whatever is sent to it and        *)
(* whatever the endpoint delivers when.                                      *)
THEOREM DestinationKeeps ==
    Remote!DestinationSpec =>
        [](Remote!OnePendingAtDestination /\ Remote!AppliedInArrivalOrder)
<1>1. Remote!DestinationInit /\ sent \in Seq(Messages) /\ now \in Nat => RemoteIInv
  BY RemoteInitHolds, RemoteAssumption
<1>2. RemoteIInv /\ DestinationStep => RemoteIInv'
  BY RemoteNextHolds, RemoteAssumption
<1>3. RemoteIInv => Remote!OnePendingAtDestination /\ Remote!AppliedInArrivalOrder
  BY OnePendingFollows, OrderFollows, RemoteAssumption
<1> QED
  BY <1>1, <1>2, <1>3, PTL DEF Remote!DestinationSpec, DestinationStep

-----------------------------------------------------------------------------
(* The invariant of both chains *)

Records == [status : Statuses, unlockTime : Nat, executedAt : Nat]

PublishedOK ==
    /\ updatesById \in Seq(Messages)
    /\ updateCounter <= MaxUpdates
    /\ \A id \in 1 .. updateCounter : updatesById[id].updateId = id

ReceiverOK ==
    /\ riskParameterConfigs \in [UpdateTypes -> Configs]
    /\ updates \in [Ids -> Records]
    /\ now \in 1 .. MaxTime

IsSent(id) == updates[id].status = "SENT_TO_DESTINATION"

(* What is on its way is what the oracle published and what the receiver     *)
(* forwarded.                                                                *)
IsForwarded(update) ==
    /\ update.updateId \in 1 .. updateCounter
    /\ update = updatesById[update.updateId]
    /\ IsSent(update.updateId)

SentOK ==
    /\ sent \in Seq(Messages)
    /\ \A k \in DOMAIN sent : IsForwarded(sent[k])

ForwardedByNow == \A id \in Ids : IsSent(id) => updates[id].unlockTime <= now

(* What the destination knows was forwarded before it came. *)
Arrived(id) ==
    /\ remoteUpdates[id].update.updateId = id
    /\ IsForwarded(remoteUpdates[id].update)
    /\ updates[id].unlockTime <= remoteUpdates[id].arrivalTime

AppliedInTime(id) ==
    /\ remoteUpdates[id].arrivalTime + remoteHistory[id].delay <= remoteHistory[id].at
    /\ remoteHistory[id].at <= ExpirationTime(remoteUpdates[id].update)

RemoteOK ==
    \A id \in Ids :
        /\ remoteUpdates[id].status # "None" => Arrived(id)
        /\ remoteUpdates[id].status = "Executed" => AppliedInTime(id)

Local == PublishedOK /\ ReceiverOK /\ SentOK /\ ForwardedByNow

IInv == Local /\ RemoteOK /\ RemoteIInv

-----------------------------------------------------------------------------
(* What follows from the invariant *)

LEMMA AnnouncedFollows ==
    ASSUME IInv
    PROVE  RemoteChangesAnnounced
<1> SUFFICES ASSUME NEW id \in Ids, remoteUpdates[id].status = "Executed"
             PROVE  /\ updates[id].unlockTime + remoteHistory[id].delay <= remoteHistory[id].at
                    /\ remoteHistory[id].at <= ExpirationTime(updatesById[id])
  BY DEF RemoteChangesAnnounced
<1>1. Arrived(id) /\ AppliedInTime(id)
  BY DEF IInv, RemoteOK
<1>2. /\ updates[id].unlockTime \in Nat
      /\ remoteUpdates[id].arrivalTime \in Nat
      /\ remoteHistory[id].at \in Nat /\ remoteHistory[id].delay \in Nat
  BY DEF IInv, Local, ReceiverOK, Records, RemoteIInv, RemoteTypeOK, RemoteRecords,
       Remote!Ids, Ids
<1> QED
  BY <1>1, <1>2 DEF Arrived, AppliedInTime, IsForwarded

-----------------------------------------------------------------------------
(* Steps of the chain of the oracle *)

(* Nothing published changes, and nothing forwarded is recalled. *)
Grows ==
    /\ updateCounter <= updateCounter'
    /\ \A id \in 1 .. updateCounter : updatesById'[id] = updatesById[id]
    /\ \A id \in Ids : IsSent(id) => /\ IsSent(id)'
                                     /\ updates'[id].unlockTime = updates[id].unlockTime
    /\ now <= now'

LEMMA ForwardedStays ==
    ASSUME Local, PublishedOK', Grows, NEW update, IsForwarded(update)
    PROVE  IsForwarded(update)'
<1>1. updateCounter \in Nat /\ updateCounter' \in Nat
  BY DEF Local, PublishedOK, updateCounter
<1> QED
  BY <1>1, OracleAssumption DEF Local, PublishedOK, Grows, IsForwarded, Ids

(* What is put on its way, if anything, is of an update that is marked so. *)
LEMMA SentStays ==
    ASSUME Local, PublishedOK', Grows,
           \/ UNCHANGED sent
           \/ \E id \in 1 .. updateCounter :
                 IsSent(id)' /\ sent' = Append(sent, updatesById[id])
    PROVE  SentOK'
<1> DEFINE ForwardedNext(update) ==
              /\ update.updateId \in 1 .. updateCounter'
              /\ update = updatesById'[update.updateId]
              /\ updates'[update.updateId].status = "SENT_TO_DESTINATION"
<1>1. \A k \in DOMAIN sent : ForwardedNext(sent[k])
  BY ForwardedStays DEF Local, SentOK, IsForwarded, IsSent
<1>2. CASE UNCHANGED sent
  BY <1>1, <1>2 DEF Local, SentOK, IsForwarded, IsSent
<1>3. ASSUME NEW id \in 1 .. updateCounter, IsSent(id)',
             sent' = Append(sent, updatesById[id])
      PROVE  SentOK'
  <2>1. /\ updatesById[id] \in Messages
        /\ updatesById[id].updateId = id
        /\ updateCounter \in Nat /\ updateCounter' \in Nat
        /\ sent \in Seq(Messages)
    BY DEF Local, PublishedOK, SentOK, updateCounter
  <2>2. ForwardedNext(updatesById[id])
    BY <1>3, <2>1 DEF Grows, IsSent
  <2>3. /\ sent' \in Seq(Messages)
        /\ Len(sent') = Len(sent) + 1
        /\ \A k \in 1 .. Len(sent) : sent'[k] = sent[k]
        /\ sent'[Len(sent) + 1] = updatesById[id]
    BY <1>3, <2>1
  <2>4. \A k \in DOMAIN sent' : ForwardedNext(sent'[k])
    <3>1. \A k \in DOMAIN sent' : k \in DOMAIN sent \/ k = Len(sent) + 1
      BY <2>1, <2>3
    <3>2. \A k \in DOMAIN sent : k \in 1 .. Len(sent)
      BY <2>1
    <3> HIDE DEF ForwardedNext
    <3> QED
      BY <1>1, <2>2, <2>3, <3>1, <3>2
  <2> QED
    BY <2>3, <2>4 DEF SentOK, IsForwarded, IsSent
<1> QED
  BY <1>2, <1>3

LEMMA ForwardedByNowStays ==
    ASSUME Local, ReceiverOK', Grows,
           \A id \in Ids : IsSent(id)' => IsSent(id) \/ updates'[id].unlockTime = now'
    PROVE  ForwardedByNow'
<1>1. ASSUME NEW id \in Ids, IsSent(id)'
      PROVE  updates'[id].unlockTime <= now'
  BY <1>1 DEF Local, ReceiverOK, Records, Grows, ForwardedByNow
<1> QED
  BY <1>1 DEF ForwardedByNow

(* Steps that leave the updates of the receiver alone. *)
LEMMA QuietStep ==
    ASSUME Local, PublishedOK', ReceiverOK', UNCHANGED <<updates, sent>>, now <= now',
           updateCounter <= updateCounter',
           \A id \in 1 .. updateCounter : updatesById'[id] = updatesById[id]
    PROVE  Local' /\ Grows
<1>1. Grows
  BY DEF Grows, IsSent
<1> QED
  BY <1>1, SentStays, ForwardedByNowStays DEF Local, IsSent

(* What is published is added to the end of the list. *)
LEMMA PublishAdds ==
    ASSUME Local, NEW sender, NEW drafts \in Batches, Publish(sender, drafts)
    PROVE  /\ updatesById' \in Seq(Messages)
           /\ drafts \in Seq(Drafts) /\ Len(drafts) \in Nat /\ DOMAIN drafts = 1 .. Len(drafts)
           /\ updateCounter \in Nat /\ updateCounter' = updateCounter + Len(drafts)
           /\ updateCounter' <= MaxUpdates
           /\ \A id \in 1 .. updateCounter : updatesById'[id] = updatesById[id]
           /\ \A id \in 1 .. updateCounter' : id > updateCounter =>
                 /\ id - updateCounter \in DOMAIN drafts
                 /\ updatesById'[id] = Published(drafts[id - updateCounter], id)
<1> DEFINE added == [k \in DOMAIN drafts |-> Published(drafts[k], updateCounter + k)]
<1>1. drafts \in Seq(Drafts) /\ Len(drafts) \in Nat /\ DOMAIN drafts = 1 .. Len(drafts)
  BY OracleAssumption
<1>2. /\ updatesById \in Seq(Messages)
      /\ updateCounter = Len(updatesById) /\ updateCounter \in Nat
      /\ now \in 1 .. MaxTime
  BY DEF Local, PublishedOK, ReceiverOK, updateCounter
<1>3. /\ updatesById' = updatesById \o added
      /\ updateCounter + Len(drafts) <= MaxUpdates
  BY DEF Publish
<1>4. ASSUME NEW k \in DOMAIN drafts
      PROVE  added[k] \in Messages /\ added[k] = Published(drafts[k], updateCounter + k)
  <2>1. drafts[k] \in Drafts
    BY <1>1
  <2>2. updateCounter + k \in Ids
    BY <1>1, <1>2, <1>3, OracleAssumption DEF Ids
  <2> QED
    BY <1>2, <2>1, <2>2 DEF Published, Messages
<1>5. added \in Seq(Messages) /\ Len(added) = Len(drafts)
  BY <1>1, <1>4
<1> HIDE DEF added
<1>6. /\ updatesById' \in Seq(Messages)
      /\ Len(updatesById') = Len(updatesById) + Len(drafts)
      /\ updateCounter' = updateCounter + Len(drafts)
  <2>1. updatesById \o added \in Seq(Messages)
    BY <1>2, <1>5
  <2>2. Len(updatesById \o added) = Len(updatesById) + Len(drafts)
    BY <1>2, <1>5
  <2> QED
    BY <1>3, <2>1, <2>2 DEF updateCounter
<1>7. \A id \in 1 .. updateCounter : updatesById'[id] = updatesById[id]
  BY <1>2, <1>3, <1>5
<1>8. ASSUME NEW id \in 1 .. updateCounter', id > updateCounter
      PROVE  /\ id - updateCounter \in DOMAIN drafts
             /\ updatesById'[id] = Published(drafts[id - updateCounter], id)
  <2>1. /\ id - updateCounter \in DOMAIN drafts
        /\ updatesById'[id] = added[id - updateCounter]
    BY <1>1, <1>2, <1>3, <1>5, <1>6, <1>8
  <2>2. updateCounter + (id - updateCounter) = id
    BY <1>2
  <2> QED
    BY <1>4, <2>1, <2>2
<1> QED
  BY <1>1, <1>2, <1>3, <1>6, <1>7, <1>8

LEMMA PublishStep ==
    ASSUME Local, NEW sender, NEW drafts \in Batches, Publish(sender, drafts),
           UNCHANGED receiverVars
    PROVE  Local' /\ Grows
<1>1. /\ updatesById' \in Seq(Messages)
      /\ Len(drafts) \in Nat
      /\ updateCounter \in Nat /\ updateCounter' = updateCounter + Len(drafts)
      /\ updateCounter' <= MaxUpdates
      /\ \A id \in 1 .. updateCounter : updatesById'[id] = updatesById[id]
      /\ \A id \in 1 .. updateCounter' : id > updateCounter =>
            updatesById'[id] = Published(drafts[id - updateCounter], id)
  BY PublishAdds
<1>2. now' = now
  BY DEF Publish
<1>3. ASSUME NEW id \in 1 .. updateCounter'
      PROVE  updatesById'[id].updateId = id
  <2>1. CASE id <= updateCounter
    BY <1>1, <2>1 DEF Local, PublishedOK
  <2>2. CASE id > updateCounter
    <3>1. \A draft : Published(draft, id).updateId = id
      BY DEF Published
    <3> QED
      BY <1>1, <2>2, <3>1
  <2> QED
    BY <1>1, <2>1, <2>2
<1>4. PublishedOK'
  BY <1>1, <1>3 DEF PublishedOK
<1>5. ReceiverOK'
  BY <1>2 DEF receiverVars, receiverSettings, receiverUpdates, Local, ReceiverOK
<1> QED
  BY <1>1, <1>2, <1>4, <1>5, QuietStep DEF receiverVars, receiverUpdates, Local, ReceiverOK

(* Steps that change the updates of the receiver and not the oracle. *)
LEMMA UpdatesStep ==
    ASSUME Local, UNCHANGED <<oracleVars, riskParameterConfigs, now>>,
           updates' \in [Ids -> Records],
           \A id \in Ids : IsSent(id) =>
              IsSent(id)' /\ updates'[id].unlockTime = updates[id].unlockTime,
           \A id \in Ids : IsSent(id)' => IsSent(id) \/ updates'[id].unlockTime = now',
           \/ UNCHANGED sent
           \/ \E id \in 1 .. updateCounter :
                 IsSent(id)' /\ sent' = Append(sent, updatesById[id])
    PROVE  Local' /\ Grows
<1>1. UNCHANGED <<updatesById, updateCounter>>
  BY DEF oracleVars, oracleUpdates, updateCounter
<1>2. PublishedOK'
  BY <1>1 DEF Local, PublishedOK
<1>3. ReceiverOK'
  BY DEF Local, ReceiverOK
<1>4. Grows
  BY <1>1 DEF Grows, Local, PublishedOK, ReceiverOK, updateCounter
<1> QED
  BY <1>2, <1>3, <1>4, SentStays, ForwardedByNowStays DEF Local

(* What processUpdate does to the updates. *)
LEMMA RegisteredUpdates ==
    ASSUME Local, NEW id \in 1 .. updateCounter, updates[id].status = "None",
           NEW unlockTime \in Nat, NEW status \in Statuses, NEW executedAt \in Nat,
           updates' = Registered(updatesById[id], unlockTime, status, executedAt)
    PROVE  /\ updates' \in [Ids -> Records]
           /\ \A i \in Ids : IsSent(i) => updates'[i] = updates[i]
           /\ \A i \in Ids : IsSent(i)' => IsSent(i) \/ i = id
           /\ updates'[id].status = status /\ updates'[id].unlockTime = unlockTime
<1>1. /\ updatesById[id].updateId = id
      /\ id \in Ids
  BY OracleAssumption DEF Local, PublishedOK, updateCounter, Ids
<1>2. updates \in [Ids -> Records]
  BY DEF Local, ReceiverOK
<1>3. DOMAIN updates' = Ids
  BY DEF Registered
<1>4. updates'[id] = [status |-> status, unlockTime |-> unlockTime, executedAt |-> executedAt]
  BY <1>1 DEF Registered
<1>5. ASSUME NEW i \in Ids, i # id
      PROVE  \/ updates'[i] = updates[i]
             \/ /\ i \in StillPending(updatesById[id])
                /\ updates'[i] = [updates[i] EXCEPT !.status = "Expired"]
  BY <1>1, <1>5 DEF Registered
<1>6. \A i \in Ids : i \in StillPending(updatesById[id]) => updates[i].status = "Pending"
  BY DEF StillPending
<1>7. ASSUME NEW i \in Ids
      PROVE  updates'[i] \in Records
  <2>1. CASE i = id
    BY <1>4, <2>1 DEF Records
  <2>2. CASE i # id
    <3>1. updates[i] \in Records
      BY <1>2
    <3>2. [updates[i] EXCEPT !.status = "Expired"] \in Records
      BY <3>1 DEF Records, Statuses
    <3> QED
      BY <1>5, <2>2, <3>1, <3>2
  <2> QED
    BY <2>1, <2>2
<1>8. updates' \in [Ids -> Records]
  <2>1. updates' = [i \in Ids |-> updates'[i]]
    BY DEF Registered
  <2> QED
    BY <1>7, <2>1
<1>9. \A i \in Ids : IsSent(i) => updates'[i] = updates[i]
  BY <1>5, <1>6 DEF IsSent
<1>10. \A i \in Ids : IsSent(i)' => IsSent(i) \/ i = id
  BY <1>2, <1>5 DEF IsSent, Records
<1> QED
  BY <1>4, <1>8, <1>9, <1>10

LEMMA ProcessStep ==
    ASSUME Local, NEW id \in 1 .. updateCounter, ProcessUpdate(id)
    PROVE  Local' /\ Grows
<1> DEFINE update == updatesById[id]
<1>1. /\ update \in Messages
      /\ id \in Ids
      /\ now \in Nat
  BY OracleAssumption, ReceiverAssumption
  DEF Local, PublishedOK, ReceiverOK, updateCounter, Ids
<1>2. Config(update).timelock \in Nat
  <2>1. Key(update) \in UpdateTypes \X Markets
    BY <1>1, OracleAssumption DEF Messages, Key, Keys
  <2> QED
    BY <2>1 DEF Key, Config, Local, ReceiverOK, Configs
<1>3. updates[id].status = "None"
  BY <1>1 DEF ProcessUpdate, ForwardUpdate, ExecuteUpdateDirectly, RegisterUpdate,
       Processable, Registrable, Local, PublishedOK
<1>4. UNCHANGED <<oracleVars, riskParameterConfigs, now>>
  BY DEF ProcessUpdate, ForwardUpdate, ExecuteUpdateDirectly, RegisterUpdate,
       receiverSettings
<1>5. CASE ForwardUpdate(id)
  <2>1. updates' = Registered(update, now, "SENT_TO_DESTINATION", now)
    BY <1>5 DEF ForwardUpdate
  <2>2. sent' = Append(sent, update)
    BY <1>5 DEF ForwardUpdate, Send
  <2>3. /\ updates' \in [Ids -> Records]
        /\ \A i \in Ids : IsSent(i) => updates'[i] = updates[i]
        /\ \A i \in Ids : IsSent(i)' => IsSent(i) \/ i = id
        /\ updates'[id].status = "SENT_TO_DESTINATION" /\ updates'[id].unlockTime = now
    BY <1>1, <1>3, <2>1, RegisteredUpdates DEF Statuses
  <2> QED
    BY <1>4, <2>2, <2>3, UpdatesStep DEF IsSent
<1>6. CASE ExecuteUpdateDirectly(id)
  <2>1. updates' = Registered(update, now, "Executed", now) /\ UNCHANGED sent
    BY <1>6 DEF ExecuteUpdateDirectly
  <2>2. /\ updates' \in [Ids -> Records]
        /\ \A i \in Ids : IsSent(i) => updates'[i] = updates[i]
        /\ \A i \in Ids : IsSent(i)' => IsSent(i) \/ i = id
        /\ updates'[id].status = "Executed"
    BY <1>1, <1>3, <2>1, RegisteredUpdates DEF Statuses
  <2> QED
    BY <1>1, <1>4, <2>1, <2>2, UpdatesStep DEF IsSent
<1>7. CASE RegisterUpdate(id)
  <2>1. updates' = Registered(update, now + Config(update).timelock, "Pending", 0)
        /\ UNCHANGED sent
    BY <1>7 DEF RegisterUpdate
  <2>2. /\ updates' \in [Ids -> Records]
        /\ \A i \in Ids : IsSent(i) => updates'[i] = updates[i]
        /\ \A i \in Ids : IsSent(i)' => IsSent(i) \/ i = id
        /\ updates'[id].status = "Pending"
    <3>1. now + Config(update).timelock \in Nat
      BY <1>1, <1>2
    <3> QED
      BY <1>3, <2>1, <3>1, RegisteredUpdates DEF Statuses
  <2> QED
    BY <1>1, <1>4, <2>1, <2>2, UpdatesStep DEF IsSent
<1> QED
  BY <1>5, <1>6, <1>7 DEF ProcessUpdate

LEMMA ExecutorStep ==
    ASSUME Local, NEW executor, NEW id \in 1 .. updateCounter,
           \/ ExecuteRegisteredUpdate(executor, id)
           \/ RejectUpdate(executor, id)
           \/ ResendRemoteUpdate(executor, id)
    PROVE  Local' /\ Grows
<1>1. /\ id \in Ids
      /\ now \in Nat
      /\ updates \in [Ids -> Records]
  BY OracleAssumption, ReceiverAssumption
  DEF Local, PublishedOK, ReceiverOK, updateCounter, Ids
<1>2. UNCHANGED <<oracleVars, riskParameterConfigs, now>>
  BY DEF ExecuteRegisteredUpdate, RejectUpdate, ResendRemoteUpdate, receiverSettings
<1>3. CASE ExecuteRegisteredUpdate(executor, id)
  <2>1. /\ updates[id].status = "Pending"
        /\ updates' = [updates EXCEPT ![id].status = "Executed", ![id].executedAt = now]
        /\ UNCHANGED sent
    BY <1>3 DEF ExecuteRegisteredUpdate, IsUpdateExecutable
  <2>2. updates' \in [Ids -> Records]
    BY <1>1, <2>1 DEF Records, Statuses
  <2> QED
    BY <1>1, <1>2, <2>1, <2>2, UpdatesStep DEF IsSent, Records
<1>4. CASE RejectUpdate(executor, id)
  <2>1. /\ updates[id].status = "Pending"
        /\ updates' = [updates EXCEPT ![id].status = "Rejected"]
        /\ UNCHANGED sent
    BY <1>4 DEF RejectUpdate
  <2>2. updates' \in [Ids -> Records]
    BY <1>1, <2>1 DEF Records, Statuses
  <2> QED
    BY <1>1, <1>2, <2>1, <2>2, UpdatesStep DEF IsSent, Records
<1>5. CASE ResendRemoteUpdate(executor, id)
  <2>1. /\ IsSent(id)
        /\ updates' = [updates EXCEPT ![id].executedAt = now]
        /\ sent' = Append(sent, updatesById[id])
    BY <1>5 DEF ResendRemoteUpdate, Send, IsSent
  <2>2. updates' \in [Ids -> Records]
    BY <1>1, <2>1 DEF Records
  <2>3. \A i \in Ids : /\ updates'[i].status = updates[i].status
                       /\ updates'[i].unlockTime = updates[i].unlockTime
    BY <1>1, <2>1 DEF Records
  <2> QED
    BY <1>1, <1>2, <2>1, <2>2, <2>3, UpdatesStep DEF IsSent
<1> QED
  BY <1>3, <1>4, <1>5

LEMMA LocalSettingsStep ==
    ASSUME Local, SettingsNext
    PROVE  Local' /\ Grows
<1>1. UNCHANGED <<updates, sent, updatesById, now>>
  BY DEF SettingsNext, SetPaused, SetRiskParameterConfig, SetConfigActive,
       SetWhitelistedExecutor, SetSafeDeltaBps, Change, oracleVars, oracleUpdates,
       receiverUpdates
<1>2. riskParameterConfigs' \in [UpdateTypes -> Configs]
  <2>1. ASSUME NEW type \in DOMAIN ConfigChoices, NEW choice \in ConfigChoices[type],
               SetRiskParameterConfig(type, choice)
        PROVE  riskParameterConfigs' \in [UpdateTypes -> Configs]
    <3>1. [active |-> TRUE, riskSteward |-> choice.riskSteward,
           debounce |-> choice.debounce, timelock |-> choice.timelock] \in Configs
      BY ReceiverAssumption DEF Configs
    <3> QED
      BY <2>1, <3>1 DEF SetRiskParameterConfig, Local, ReceiverOK
  <2>2. ASSUME NEW type \in DOMAIN ConfigChoices, NEW active \in BOOLEAN,
               SetConfigActive(type, active)
        PROVE  riskParameterConfigs' \in [UpdateTypes -> Configs]
    <3>1. riskParameterConfigs \in [UpdateTypes -> Configs] /\ type \in UpdateTypes
      BY ReceiverAssumption DEF Local, ReceiverOK
    <3>2. [riskParameterConfigs[type] EXCEPT !.active = active] \in Configs
      BY <3>1 DEF Configs
    <3>3. riskParameterConfigs' =
             [riskParameterConfigs EXCEPT
                 ![type] = [riskParameterConfigs[type] EXCEPT !.active = active]]
      BY <2>2, <3>1 DEF SetConfigActive
    <3> QED
      BY <3>1, <3>2, <3>3
  <2>3. CASE UNCHANGED riskParameterConfigs
    BY <2>3 DEF Local, ReceiverOK
  <2> QED
    BY <2>1, <2>2, <2>3 DEF SettingsNext, SetPaused, SetWhitelistedExecutor, SetSafeDeltaBps
<1>3. PublishedOK'
  BY <1>1 DEF Local, PublishedOK, updateCounter
<1>4. ReceiverOK'
  BY <1>1, <1>2 DEF Local, ReceiverOK
<1>5. now <= now' /\ updateCounter <= updateCounter'
  BY <1>1 DEF Local, ReceiverOK, PublishedOK, updateCounter
<1> QED
  BY <1>1, <1>3, <1>4, <1>5, QuietStep

LEMMA OracleStep ==
    ASSUME Local, OracleNext, UNCHANGED receiverVars
    PROVE  Local' /\ Grows
<1>1. ASSUME UNCHANGED <<oracleUpdates, now>>
      PROVE  Local' /\ Grows
  <2>1. UNCHANGED <<updatesById, now, riskParameterConfigs, updates, sent>>
    BY <1>1 DEF oracleUpdates, receiverVars, receiverSettings, receiverUpdates
  <2>2. PublishedOK' /\ ReceiverOK'
    BY <2>1 DEF Local, PublishedOK, ReceiverOK, updateCounter
  <2>3. now <= now' /\ updateCounter <= updateCounter'
    BY <2>1 DEF Local, ReceiverOK, PublishedOK, updateCounter
  <2> QED
    BY <2>1, <2>2, <2>3, QuietStep
<1> QED
  BY <1>1, PublishStep
  DEF OracleNext, AddAuthorizedSender, RemoveAuthorizedSender, AddUpdateType,
      SetUpdateTypeActive, Change

LEMMA TickStep ==
    ASSUME Local, NEW seconds \in TimeSteps, Tick(seconds)
    PROVE  Local' /\ Grows
<1>1. UNCHANGED <<updatesById, riskParameterConfigs, updates, sent>>
  BY DEF Tick, oracleVars, oracleUpdates, receiverVars, receiverSettings, receiverUpdates
<1>2. now' \in 1 .. MaxTime /\ now <= now'
  BY ReceiverAssumption DEF Tick, Local, ReceiverOK
<1>3. PublishedOK' /\ ReceiverOK'
  BY <1>1, <1>2 DEF Local, PublishedOK, ReceiverOK, updateCounter
<1>4. updateCounter <= updateCounter'
  BY <1>1 DEF Local, PublishedOK, updateCounter
<1> QED
  BY <1>1, <1>2, <1>3, <1>4, QuietStep

LEMMA LocalStep ==
    ASSUME Local, Next
    PROVE  Local' /\ Grows
BY OracleStep, ProcessStep, ExecutorStep, LocalSettingsStep, TickStep
DEF Next, CallNext, ReceiverNext

-----------------------------------------------------------------------------
(* The chain of the oracle on its own: what its receiver remembers. *)

Done == {"Executed", "SENT_TO_DESTINATION"}
Terms == [at : Nat, debounce : Nat, timelock : Nat, safe : BOOLEAN]

(* The latest update of a type and market is none before any of them. *)
LatestOK ==
    /\ latestUpdateIdByMarketAndType \in [Keys -> Nat]
    /\ \A id \in 1 .. updateCounter :
          id <= latestUpdateIdByMarketAndType[Key(updatesById[id])]

RegistryOK ==
    /\ lastProcessedUpdate \in [Keys -> Nat]
    /\ lastRegisteredUpdate \in [Keys -> Nat]
    /\ history \in [Ids -> Terms]
    /\ \A id \in Ids : id > updateCounter => updates[id].status = "None"
    /\ \A type \in UpdateTypes :
          riskParameterConfigs[type].active => riskParameterConfigs[type].riskSteward # "None"

(* What was last processed is what was executed last, and every execution    *)
(* has a time.                                                               *)
ProcessedOK ==
    \A id \in 1 .. updateCounter : updates[id].status \in Done =>
        LET last == lastProcessedUpdate[Key(updatesById[id])]
        IN /\ last \in Ids
           /\ updates[last].status \in Done
           /\ 1 <= updates[id].executedAt
           /\ updates[id].executedAt <= updates[last].executedAt
           /\ updates[id].executedAt <= now

(* When an update waits, and when it was applied. *)
TermsKept(id) ==
    /\ updates[id].status = "Pending" =>
          /\ updates[id].unlockTime = history[id].at + history[id].timelock
          /\ updates[id].unlockTime <= ExpirationTime(updatesById[id])
    /\ updates[id].status = "Executed" =>
          /\ history[id].at <= updates[id].executedAt
          /\ updates[id].executedAt <= ExpirationTime(updatesById[id])
          /\ history[id].safe \/ history[id].at + history[id].timelock <= updates[id].executedAt

TermsOK == \A id \in 1 .. updateCounter : TermsKept(id)

(* A pending update is the last that was registered, unless a later one was  *)
(* forwarded.                                                                *)
PendingIsLast ==
    \A i \in 1 .. updateCounter : updates[i].status = "Pending" =>
        \/ lastRegisteredUpdate[Key(updatesById[i])] = i
        \/ \E k \in 1 .. updateCounter : i < k /\ SameKey(k, i) /\ IsSent(k)

(* The update j of the type and market of i was registered here after i, and *)
(* none was forwarded between them.                                          *)
IsLocal(j) == updates[j].status \in {"Pending", "Executed", "Rejected", "Expired"}

Follows(j, i) == i < j /\ SameKey(i, j) /\ IsLocal(j) /\ ~ForwardedBetween(i, j)

(* Then i is not waiting any more, and if it was applied, j was registered a *)
(* debounce later.                                                           *)
FollowsLate ==
    \A i, j \in 1 .. updateCounter : Follows(j, i) =>
        /\ updates[i].status # "Pending"
        /\ updates[i].status = "Executed" =>
              updates[i].executedAt + history[j].debounce <= history[j].at

Registry ==
    LatestOK /\ RegistryOK /\ ProcessedOK /\ TermsOK /\ PendingIsLast /\ FollowsLate

LocalInv == Local /\ Registry

-----------------------------------------------------------------------------
(* What follows from it *)

LEMMA UpdateType ==
    ASSUME Local, NEW id \in 1 .. updateCounter
    PROVE  /\ id \in Ids /\ id \in Nat
           /\ updatesById[id].updateId = id
           /\ Key(updatesById[id]) \in Keys
           /\ updatesById[id].updateType \in UpdateTypes
           /\ updatesById[id].timestamp \in Nat
           /\ ExpirationTime(updatesById[id]) \in Nat
           /\ updates[id] \in Records
           /\ now \in Nat /\ 1 <= now
           /\ Config(updatesById[id]) \in Configs
<1>1. /\ id \in Ids /\ id \in Nat
      /\ updatesById[id].updateId = id
      /\ updatesById[id] \in Messages
  BY OracleAssumption DEF Local, PublishedOK, updateCounter, Ids
<1>2. Key(updatesById[id]) \in Keys /\ updatesById[id].timestamp \in Nat
  BY <1>1, OracleAssumption, ReceiverAssumption DEF Messages, Key
<1>3. updatesById[id].updateType \in UpdateTypes
  BY <1>2 DEF Key, Keys
<1>4. updates[id] \in Records /\ now \in Nat /\ 1 <= now
      /\ riskParameterConfigs \in [UpdateTypes -> Configs]
  BY <1>1, ReceiverAssumption DEF Local, ReceiverOK
<1> QED
  BY <1>1, <1>2, <1>3, <1>4, ReceiverAssumption DEF ExpirationTime, Config

LEMMA UpdateIds ==
    ASSUME Local, NEW id \in 1 .. updateCounter
    PROVE  id \in Ids /\ ~(id > updateCounter) /\ updates \in [Ids -> Records]
<1>1. updateCounter \in Nat
  BY DEF Local, PublishedOK, updateCounter
<1>2. id \in Ids
  BY UpdateType
<1>3. updates \in [Ids -> Records]
  BY DEF Local, ReceiverOK
<1> QED BY <1>1, <1>2, <1>3

LEMMA TermsFollow ==
    ASSUME LocalInv
    PROVE  AppliedUnderItsTerms
BY DEF LocalInv, Registry, TermsOK, TermsKept, AppliedUnderItsTerms

LEMMA ApartFollows ==
    ASSUME LocalInv
    PROVE  ApartUnlessForwarded
<1> SUFFICES ASSUME NEW i \in 1 .. updateCounter, NEW j \in 1 .. updateCounter,
                    i < j, SameKey(i, j),
                    updates[i].status = "Executed", updates[j].status = "Executed",
                    ~ForwardedBetween(i, j)
             PROVE  updates[i].executedAt + history[j].debounce <= updates[j].executedAt
  BY DEF ApartUnlessForwarded
<1>1. Follows(j, i)
  BY DEF Follows, IsLocal
<1>2. updates[i].executedAt + history[j].debounce <= history[j].at
  BY <1>1 DEF LocalInv, Registry, FollowsLate
<1>3. history[j].at <= updates[j].executedAt
  BY DEF LocalInv, Registry, TermsOK, TermsKept
<1>4. /\ updates[i].executedAt \in Nat /\ updates[j].executedAt \in Nat
      /\ history[j].at \in Nat /\ history[j].debounce \in Nat
  BY UpdateType DEF LocalInv, Registry, RegistryOK, Terms, Records
<1> QED
  BY <1>2, <1>3, <1>4

(* No steward applies an update whose eMode pool the lens looks for in vain. *)
NoneWithoutPool ==
    \A id \in 1 .. updateCounter :
        DetailsRevert(updatesById[id]) => updates[id].status # "Executed"

LEMMA LensFollows ==
    ASSUME LocalInv, NoneWithoutPool
    PROVE  LensAgrees
<1> SUFFICES ASSUME NEW id \in 1 .. updateCounter, NEW update, update = updatesById[id],
                    NEW isNew \in BOOLEAN, isNew = (updates[id].status = "None"),
                    NEW isProcessable \in BOOLEAN, isProcessable = (isNew /\ Processable(update)),
                    ~DetailsRevert(update), ~(isNew /\ PreviewReverts(update))
             PROVE  /\ isNew => (CanProcessNow(update) <=> isProcessable)
                    /\ ExecutableNow(update) <=>
                          \/ isProcessable /\ ~IsRemote(update) /\ IsSafe(update)
                          \/ IsUpdateExecutable(id)
                    /\ ExpiresAt(update) < now => ~isProcessable /\ ~IsUpdateExecutable(id)
  BY DEF LensAgrees, NoneWithoutPool, PreviewReverts, Processable
<1>1. /\ update.updateId = id /\ id \in Ids /\ id # 0
      /\ Key(update) \in Keys
      /\ ExpirationTime(update) \in Nat
      /\ now \in Nat /\ 1 <= now
      /\ Config(update).timelock \in Nat /\ Config(update).debounce \in Nat
      /\ Config(update).active \in BOOLEAN
      /\ updates[id].status \in Statuses
  BY UpdateType DEF LocalInv, Configs, Records
<1>2. Config(update).active => Steward(update) # "None"
  BY UpdateType DEF LocalInv, Registry, RegistryOK, Config, Steward
<1>3. isNew => (BlockingUpdateId(update) = 0 <=> NoActiveUpdate(update))
  BY <1>1 DEF BlockingUpdateId, NoActiveUpdate, StillPending, IsExpired
<1>4. DebounceEndsAt(update) <= now <=> Debounced(update)
  BY <1>1 DEF DebounceEndsAt, Debounced, LastExecutionTime
<1>5. /\ ProcessBy(update) >= now <=> now + Config(update).timelock <= ExpirationTime(update)
      /\ ProcessBy(update) < now <=> ~(now + Config(update).timelock <= ExpirationTime(update))
      /\ ProcessBy(update) >= now => ~IsExpired(update)
      /\ ExpirationTime(update) < now <=> IsExpired(update)
  BY <1>1 DEF ProcessBy, IsExpired
<1>6. ASSUME isNew
      PROVE  CanProcessNow(update) <=> isProcessable
  BY <1>1, <1>2, <1>3, <1>4, <1>5, <1>6
  DEF CanProcessNow, IsPreviewed, PreviewReverts, Processable, Registrable
<1>7. ExecutableNow(update) <=>
         \/ isProcessable /\ ~IsRemote(update) /\ IsSafe(update)
         \/ IsUpdateExecutable(id)
  BY <1>1, <1>6 DEF ExecutableNow, PreviewedExecutable, IsUpdateExecutable
<1>8. ASSUME ExpiresAt(update) < now
      PROVE  ~isProcessable /\ ~IsUpdateExecutable(id)
  <2>1. CASE isNew /\ IsLatest(update)
    BY <1>1, <1>5, <1>8, <2>1 DEF ExpiresAt, Processable, Registrable, IsUpdateExecutable
  <2>2. CASE isNew /\ ~IsLatest(update)
    BY <2>2 DEF Processable, Registrable, IsUpdateExecutable
  <2>3. CASE updates[id].status \in {"Pending", "SENT_TO_DESTINATION"}
    BY <1>1, <1>5, <1>8, <2>3 DEF ExpiresAt, IsUpdateExecutable
  <2>4. CASE ~isNew /\ updates[id].status \notin {"Pending", "SENT_TO_DESTINATION"}
    BY <2>4 DEF IsUpdateExecutable
  <2> QED
    BY <2>1, <2>2, <2>3, <2>4
<1> QED
  BY <1>6, <1>7, <1>8

-----------------------------------------------------------------------------
(* Steps of the chain of the oracle *)

LEMMA RegistryInit == Init => Registry
<1> SUFFICES ASSUME Init PROVE Registry
  OBVIOUS
<1>1. /\ updateCounter = 0
      /\ \A id \in Ids : updates[id].status = "None" /\ history[id] = NoTerms
      /\ riskParameterConfigs = InitialConfigs
      /\ lastProcessedUpdate \in [Keys -> Nat] /\ lastRegisteredUpdate \in [Keys -> Nat]
      /\ latestUpdateIdByMarketAndType \in [Keys -> Nat]
  BY DEF Init, OracleInit, ReceiverInit, updateCounter, NoUpdate
<1>2. history \in [Ids -> Terms]
  BY DEF Init, ReceiverInit, NoTerms, Terms
<1>3. 1 .. updateCounter = {}
  BY <1>1
<1>4. LatestOK /\ ProcessedOK /\ TermsOK /\ PendingIsLast /\ FollowsLate
  BY <1>1, <1>3 DEF LatestOK, ProcessedOK, TermsOK, PendingIsLast, FollowsLate
<1>5. RegistryOK
  BY <1>1, <1>2, ReceiverAssumption DEF RegistryOK
<1> QED
  BY <1>4, <1>5 DEF Registry

(* Steps that leave the updates and the registry of the receiver alone. *)
LEMMA QuietRegistry ==
    ASSUME LocalInv, now' \in Nat, now <= now',
           UNCHANGED <<updatesById, latestUpdateIdByMarketAndType, receiverUpdates>>,
           \A type \in UpdateTypes : riskParameterConfigs'[type].active =>
                                        riskParameterConfigs'[type].riskSteward # "None"
    PROVE  Registry'
<1>1. UNCHANGED <<updates, lastProcessedUpdate, lastRegisteredUpdate, history, updateCounter>>
  BY DEF receiverUpdates, updateCounter
<1>2. LatestOK' /\ RegistryOK'
  BY <1>1 DEF LocalInv, Registry, LatestOK, RegistryOK
<1>3. ProcessedOK'
  BY <1>1, UpdateType
  DEF LocalInv, Registry, ProcessedOK, Local, ReceiverOK, Records, updateCounter
<1>4. TermsOK'
  BY <1>1 DEF LocalInv, Registry, TermsOK, TermsKept, ExpirationTime
<1>5. PendingIsLast'
  BY <1>1 DEF LocalInv, Registry, PendingIsLast, SameKey, IsSent
<1>6. FollowsLate'
  BY <1>1
  DEF LocalInv, Registry, FollowsLate, Follows, SameKey, IsLocal, ForwardedBetween
<1> QED
  BY <1>2, <1>3, <1>4, <1>5, <1>6 DEF Registry

LEMMA MaxOfBounded ==
    ASSUME NEW S \in SUBSET Nat, NEW bound \in Nat, \A n \in S : n <= bound, S # {}
    PROVE  Max(S) \in S /\ \A n \in S : n <= Max(S)
<1> DEFINE Gaps == {bound - n : n \in S}
<1>1. Gaps \in SUBSET Nat /\ Gaps # {}
  <2>1. \A n \in S : bound - n \in Nat
    OBVIOUS
  <2> QED
    BY <2>1
<1>2. PICK m \in Gaps : \A x \in Gaps : ~ (<<x, m>> \in OpToRel(<, Nat))
  BY <1>1, WFMin, NatLessThanWellFounded
<1>3. \A x \in Gaps : ~(x < m)
  <2>1. \A x, y \in Nat : x < y => <<x, y>> \in OpToRel(<, Nat)
    BY DEF OpToRel
  <2> QED
    BY <1>1, <1>2, <2>1
<1>4. PICK n \in S : m = bound - n
  BY <1>2
<1>5. \A k \in S : k <= n
  BY <1>3, <1>4
<1> QED
  BY <1>4, <1>5 DEF Max

LEMMA PublishRegistry ==
    ASSUME LocalInv, NEW sender, NEW drafts \in Batches, Publish(sender, drafts),
           UNCHANGED receiverVars
    PROVE  Registry'
<1> DEFINE IdsOf(key) ==
              {updateCounter + k : k \in {j \in DOMAIN drafts : Key(drafts[j]) = key}}
<1>1. drafts \in Seq(Drafts) /\ Len(drafts) \in Nat /\ DOMAIN drafts = 1 .. Len(drafts)
  BY OracleAssumption
<1>2. /\ updateCounter \in Nat /\ updateCounter' = updateCounter + Len(drafts)
      /\ updateCounter' <= MaxUpdates /\ MaxUpdates \in Nat
      /\ \A id \in 1 .. updateCounter : updatesById'[id] = updatesById[id]
      /\ \A id \in 1 .. updateCounter' :
            id > updateCounter =>
               /\ id - updateCounter \in DOMAIN drafts
               /\ updatesById'[id] = Published(drafts[id - updateCounter], id)
  BY PublishAdds, OracleAssumption DEF LocalInv
<1>3. \A id \in 1 .. updateCounter' : id > updateCounter =>
         /\ updates[id].status = "None"
         /\ id \in IdsOf(Key(updatesById'[id]))
  <2>1. ASSUME NEW id \in 1 .. updateCounter', id > updateCounter
        PROVE  updates[id].status = "None"
    BY <1>1, <1>2, <2>1 DEF LocalInv, Registry, RegistryOK, Ids
  <2>2. ASSUME NEW id \in 1 .. updateCounter', id > updateCounter
        PROVE  id \in IdsOf(Key(updatesById'[id]))
    <3>1. /\ id - updateCounter \in DOMAIN drafts
          /\ updatesById'[id] = Published(drafts[id - updateCounter], id)
          /\ id = updateCounter + (id - updateCounter)
      BY <1>1, <1>2, <2>2
    <3>2. Key(updatesById'[id]) = Key(drafts[id - updateCounter])
      BY <3>1 DEF Published, Key
    <3> QED
      BY <3>1, <3>2
  <2> QED
    BY <2>1, <2>2
<1>4. UNCHANGED <<updates, lastProcessedUpdate, lastRegisteredUpdate, history,
                  riskParameterConfigs, now>>
  BY DEF receiverVars, receiverUpdates, receiverSettings, Publish
<1>5. \A id \in 1 .. updateCounter : id \in 1 .. updateCounter'
  BY <1>1, <1>2
<1>6. \A id \in 1 .. updateCounter' : updates[id].status # "None" => id \in 1 .. updateCounter
  BY <1>1, <1>2, <1>3
<1>7. LatestOK'
  <2>1. latestUpdateIdByMarketAndType' =
           [key \in Keys |-> IF IdsOf(key) = {} THEN latestUpdateIdByMarketAndType[key]
                                                ELSE Max(IdsOf(key))]
    BY DEF Publish
  <2>2. \A key : IdsOf(key) \in SUBSET Nat
                 /\ \A n \in IdsOf(key) : updateCounter < n /\ n <= MaxUpdates
    BY <1>1, <1>2
  <2> HIDE DEF IdsOf
  <2>3. \A key : IdsOf(key) # {} => /\ Max(IdsOf(key)) \in Nat
                                    /\ updateCounter < Max(IdsOf(key))
                                    /\ \A n \in IdsOf(key) : n <= Max(IdsOf(key))
    BY <1>2, <2>2, MaxOfBounded
  <2>4. latestUpdateIdByMarketAndType' \in [Keys -> Nat]
    BY <2>1, <2>3 DEF LocalInv, Registry, LatestOK
  <2>5. ASSUME NEW id \in 1 .. updateCounter'
        PROVE  id <= latestUpdateIdByMarketAndType'[Key(updatesById'[id])]
    <3>1. CASE id <= updateCounter
      <4>1. id \in 1 .. updateCounter /\ updatesById'[id] = updatesById[id]
        BY <1>2, <3>1
      <4>2. Key(updatesById[id]) \in Keys /\ id <= latestUpdateIdByMarketAndType[Key(updatesById[id])]
        BY <4>1, UpdateType DEF LocalInv, Registry, LatestOK
      <4> QED
        BY <1>2, <2>1, <2>3, <3>1, <4>1, <4>2
    <3>2. CASE id > updateCounter
      <4>1. id \in IdsOf(Key(updatesById'[id]))
        BY <1>3, <3>2
      <4>2. Key(updatesById'[id]) \in Keys
        <5>1. /\ updatesById'[id] = Published(drafts[id - updateCounter], id)
              /\ drafts[id - updateCounter] \in Drafts
          BY <1>1, <1>2, <3>2
        <5> QED
          BY <5>1, OracleAssumption DEF Published, Key
      <4> QED
        BY <2>1, <2>3, <4>1, <4>2
    <3> QED
      BY <1>2, <3>1, <3>2
  <2> QED
    BY <2>4, <2>5 DEF LatestOK
<1> HIDE DEF IdsOf
<1>8. RegistryOK'
  BY <1>1, <1>2, <1>4, <1>5 DEF LocalInv, Registry, RegistryOK, Ids
<1>9. ProcessedOK'
  BY <1>2, <1>4, <1>6 DEF LocalInv, Registry, ProcessedOK, Done
<1>10. TermsOK'
  BY <1>2, <1>4, <1>6 DEF LocalInv, Registry, TermsOK, TermsKept, ExpirationTime
<1>11. PendingIsLast'
  BY <1>2, <1>4, <1>5, <1>6 DEF LocalInv, Registry, PendingIsLast, SameKey, IsSent
<1>12. FollowsLate'
  <2> SUFFICES ASSUME NEW i \in 1 .. updateCounter', NEW j \in 1 .. updateCounter', Follows(j, i)'
               PROVE  /\ updates[i].status # "Pending"
                      /\ updates[i].status = "Executed" =>
                            updates[i].executedAt + history[j].debounce <= history[j].at
    BY <1>4 DEF FollowsLate
  <2>1. j \in 1 .. updateCounter
    BY <1>4, <1>6 DEF Follows, IsLocal
  <2>2. i \in 1 .. updateCounter
    BY <1>2, <2>1 DEF Follows
  <2>3. Follows(j, i)
    <3>1. i < j /\ SameKey(i, j) /\ IsLocal(j)
      BY <1>2, <1>4, <2>1, <2>2 DEF Follows, SameKey, IsLocal
    <3>2. ForwardedBetween(i, j) => ForwardedBetween(i, j)'
      BY <1>2, <1>4, <2>1, <2>2 DEF ForwardedBetween, SameKey
    <3> QED
      BY <3>1, <3>2 DEF Follows
  <2> QED
    BY <2>1, <2>2, <2>3 DEF LocalInv, Registry, FollowsLate
<1> QED
  BY <1>7, <1>8, <1>9, <1>10, <1>11, <1>12 DEF Registry

(* What every processUpdate does. *)
Processes(id, s, unlockTime, executedAt, safe) ==
    /\ updates[id].status = "None"
    /\ latestUpdateIdByMarketAndType[Key(updatesById[id])] = id
    /\ UNCHANGED <<updatesById, latestUpdateIdByMarketAndType, riskParameterConfigs, now>>
    /\ updates'[id] = [status |-> s, unlockTime |-> unlockTime, executedAt |-> executedAt]
    /\ \A i \in Ids \ {id} :
          \/ updates'[i] = updates[i]
          \/ /\ updates[i].status = "Pending" /\ updates'[i].status = "Expired"
    /\ lastRegisteredUpdate' = [lastRegisteredUpdate EXCEPT ![Key(updatesById[id])] = id]
    /\ history' = [history EXCEPT ![id] =
                     [at |-> now, debounce |-> Config(updatesById[id]).debounce,
                      timelock |-> Config(updatesById[id]).timelock, safe |-> safe]]
    /\ now + Config(updatesById[id]).timelock <= ExpirationTime(updatesById[id])

(* What it does to a local update besides. *)
ProcessesLocally(id) ==
    /\ Debounced(updatesById[id])
    /\ \A i \in Ids \ {id} :
          /\ lastRegisteredUpdate[Key(updatesById[id])] = i
          /\ updates[i].status = "Pending"
          => updates'[i].status = "Expired"

LastProcesses(id) ==
    lastProcessedUpdate' = [lastProcessedUpdate EXCEPT ![Key(updatesById[id])] = id]

LEMMA ProcessCases ==
    ASSUME LocalInv, NEW id \in 1 .. updateCounter, ProcessUpdate(id)
    PROVE  \/ /\ Processes(id, "SENT_TO_DESTINATION", now, now, FALSE)
              /\ LastProcesses(id)
           \/ /\ Processes(id, "Executed", now, now, TRUE)
              /\ ProcessesLocally(id)
              /\ LastProcesses(id)
           \/ /\ Processes(id, "Pending", now + Config(updatesById[id]).timelock, 0, FALSE)
              /\ ProcessesLocally(id)
              /\ UNCHANGED lastProcessedUpdate
<1> DEFINE update == updatesById[id]
<1>1. update.updateId = id /\ id \in Ids
  BY UpdateType DEF LocalInv
<1>2. ASSUME NEW s, NEW unlockTime, NEW executedAt, NEW safe, Processable(update),
             Register(update, safe), updates' = Registered(update, unlockTime, s, executedAt),
             UNCHANGED <<oracleVars, receiverSettings, now>>
      PROVE  Processes(id, s, unlockTime, executedAt, safe)
  <2>1. /\ updates[id].status = "None"
        /\ latestUpdateIdByMarketAndType[Key(update)] = id
        /\ now + Config(update).timelock <= ExpirationTime(update)
    BY <1>1, <1>2 DEF Processable, Registrable, IsLatest
  <2>2. UNCHANGED <<updatesById, latestUpdateIdByMarketAndType, riskParameterConfigs, now>>
    BY <1>2 DEF oracleVars, oracleUpdates, receiverSettings
  <2>3. updates'[id] = [status |-> s, unlockTime |-> unlockTime, executedAt |-> executedAt]
    BY <1>1, <1>2 DEF Registered
  <2>4. ASSUME NEW i \in Ids \ {id}
        PROVE  \/ updates'[i] = updates[i]
               \/ /\ updates[i].status = "Pending" /\ updates'[i].status = "Expired"
    <3>1. \/ updates'[i] = updates[i]
          \/ /\ i \in StillPending(update)
             /\ updates'[i] = [updates[i] EXCEPT !.status = "Expired"]
      BY <1>1, <1>2 DEF Registered
    <3>2. updates[i] \in Records
      BY DEF LocalInv, Local, ReceiverOK
    <3> QED
      BY <3>1, <3>2 DEF StillPending, Records
  <2> QED
    BY <1>1, <1>2, <2>1, <2>2, <2>3, <2>4 DEF Processes, Register
<1>3. ASSUME NEW s, NEW unlockTime, NEW executedAt, Processable(update), ~IsRemote(update),
             updates' = Registered(update, unlockTime, s, executedAt)
      PROVE  ProcessesLocally(id)
  <2>1. Debounced(update)
    BY <1>3 DEF Processable, Registrable
  <2>2. ASSUME NEW i \in Ids \ {id}, lastRegisteredUpdate[Key(update)] = i,
               updates[i].status = "Pending"
        PROVE  updates'[i].status = "Expired"
    <3>1. i # 0 /\ i \in StillPending(update)
      BY <2>2, OracleAssumption DEF StillPending, Ids
    <3>2. updates'[i] = [updates[i] EXCEPT !.status = "Expired"]
      BY <1>1, <1>3, <3>1 DEF Registered
    <3>3. updates[i] \in Records
      BY DEF LocalInv, Local, ReceiverOK
    <3> QED
      BY <3>2, <3>3 DEF Records
  <2> QED
    BY <2>1, <2>2 DEF ProcessesLocally
<1> HIDE DEF update
<1>4. CASE ForwardUpdate(id)
  BY <1>2, <1>4 DEF ForwardUpdate, LastProcesses, update
<1>5. CASE ExecuteUpdateDirectly(id)
  BY <1>2, <1>3, <1>5 DEF ExecuteUpdateDirectly, LastProcesses, update
<1>6. CASE RegisterUpdate(id)
  BY <1>2, <1>3, <1>6 DEF RegisterUpdate, update
<1> QED
  BY <1>4, <1>5, <1>6 DEF ProcessUpdate

LEMMA ProcessRegistry ==
    ASSUME LocalInv, NEW id \in 1 .. updateCounter,
           NEW s \in {"SENT_TO_DESTINATION", "Executed", "Pending"},
           NEW unlockTime, NEW executedAt, NEW safe \in BOOLEAN,
           Processes(id, s, unlockTime, executedAt, safe),
           s # "SENT_TO_DESTINATION" => ProcessesLocally(id),
           s = "Pending" => unlockTime = now + Config(updatesById[id]).timelock
                            /\ UNCHANGED lastProcessedUpdate,
           s # "Pending" => executedAt = now /\ LastProcesses(id),
           s = "Executed" => safe
    PROVE  Registry'
<1> DEFINE key == Key(updatesById[id])
<1>1. /\ id \in Ids /\ id \in Nat /\ key \in Keys /\ now \in Nat /\ 1 <= now
      /\ Config(updatesById[id]).timelock \in Nat /\ Config(updatesById[id]).debounce \in Nat
      /\ ExpirationTime(updatesById[id]) \in Nat
  BY UpdateType DEF LocalInv, Configs
<1>2. updateCounter \in Nat /\ updateCounter' = updateCounter
      /\ \A i \in 1 .. updateCounter : i \in Ids /\ i \in Nat
  BY OracleAssumption, UpdateType
  DEF LocalInv, Local, PublishedOK, updateCounter, Processes
<1>3. /\ updates[id].status = "None" /\ updates'[id].status = s
      /\ updates'[id].unlockTime = unlockTime /\ updates'[id].executedAt = executedAt
      /\ \A i \in Ids \ {id} : \/ updates'[i] = updates[i]
                               \/ updates[i].status = "Pending" /\ updates'[i].status = "Expired"
      /\ UNCHANGED <<updatesById, latestUpdateIdByMarketAndType, riskParameterConfigs, now>>
  BY DEF Processes
<1>4. /\ history' \in [Ids -> Terms]
      /\ history'[id] = [at |-> now, debounce |-> Config(updatesById[id]).debounce,
                         timelock |-> Config(updatesById[id]).timelock, safe |-> safe]
      /\ \A i \in Ids \ {id} : history'[i] = history[i]
  BY <1>1 DEF Processes, LocalInv, Registry, RegistryOK, Terms
<1>5. /\ lastRegisteredUpdate' \in [Keys -> Nat]
      /\ lastRegisteredUpdate'[key] = id
      /\ \A k \in Keys \ {key} : lastRegisteredUpdate'[k] = lastRegisteredUpdate[k]
  BY <1>1 DEF Processes, LocalInv, Registry, RegistryOK
<1>6. \A i \in 1 .. updateCounter : Key(updatesById[i]) = key => i <= id
  BY DEF LocalInv, Registry, LatestOK, Processes
<1> HIDE DEF key
<1>7. LatestOK'
  BY <1>2, <1>3 DEF LocalInv, Registry, LatestOK
<1>8. RegistryOK'
  <2>1. lastProcessedUpdate' \in [Keys -> Nat]
    BY <1>1 DEF LastProcesses, LocalInv, Registry, RegistryOK, key
  <2>2. \A i \in Ids : i > updateCounter => updates'[i].status = "None"
    BY <1>1, <1>2, <1>3 DEF LocalInv, Registry, RegistryOK
  <2> QED
    BY <1>2, <1>3, <1>4, <1>5, <2>1, <2>2 DEF LocalInv, Registry, RegistryOK
<1>9. ProcessedOK'
  <2> SUFFICES ASSUME NEW i \in 1 .. updateCounter, updates'[i].status \in Done,
                      NEW last, last = lastProcessedUpdate'[Key(updatesById[i])]
               PROVE  /\ last \in Ids
                      /\ updates'[last].status \in Done
                      /\ 1 <= updates'[i].executedAt
                      /\ updates'[i].executedAt <= updates'[last].executedAt
                      /\ updates'[i].executedAt <= now
    BY <1>2, <1>3 DEF ProcessedOK
  <2>1. i # id => /\ updates'[i] = updates[i] /\ updates[i].status \in Done
                  /\ 1 <= updates[i].executedAt /\ updates[i].executedAt <= now
    BY <1>2, <1>3 DEF Done, LocalInv, Registry, ProcessedOK
  <2>2. i = id => s # "Pending"
    BY <1>3 DEF Done
  <2>3. CASE s # "Pending" /\ Key(updatesById[i]) = key
    <3>1. last = id /\ executedAt = now
      BY <1>1, <2>3 DEF LastProcesses, LocalInv, Registry, RegistryOK, key
    <3>2. updates'[last].status \in Done /\ updates'[last].executedAt = now
      BY <1>3, <2>3, <3>1 DEF Done
    <3>3. 1 <= updates'[i].executedAt /\ updates'[i].executedAt <= now
      BY <1>1, <1>3, <2>1, <3>1
    <3> QED
      BY <1>1, <3>1, <3>2, <3>3
  <2>4. CASE ~(s # "Pending" /\ Key(updatesById[i]) = key)
    <3>1. i # id
      BY <2>2, <2>4 DEF key
    <3>2. last = lastProcessedUpdate[Key(updatesById[i])]
      <4>1. Key(updatesById[i]) \in Keys
        BY UpdateType DEF LocalInv
      <4> QED
        BY <1>1, <2>4, <4>1 DEF LastProcesses, LocalInv, Registry, RegistryOK, key
    <3>3. /\ last \in Ids /\ updates[last].status \in Done
          /\ updates[i].executedAt <= updates[last].executedAt
      BY <2>1, <3>1, <3>2 DEF LocalInv, Registry, ProcessedOK
    <3>4. updates'[last] = updates[last]
      BY <1>3, <3>3 DEF Done
    <3> QED
      BY <2>1, <3>1, <3>3, <3>4
  <2> QED
    BY <2>3, <2>4
<1>10. TermsOK'
  <2>1. TermsKept(id)'
    BY <1>1, <1>3, <1>4 DEF TermsKept, Processes, ExpirationTime
  <2>2. ASSUME NEW i \in 1 .. updateCounter, i # id
        PROVE  TermsKept(i)'
    <3>1. TermsKept(i) /\ i \in Ids
      BY <1>2 DEF LocalInv, Registry, TermsOK
    <3> QED
      BY <1>3, <1>4, <2>2, <3>1 DEF TermsKept, ExpirationTime
  <2> QED
    BY <1>2, <2>1, <2>2 DEF TermsOK
<1>11. PendingIsLast'
  <2> SUFFICES ASSUME NEW i \in 1 .. updateCounter, updates'[i].status = "Pending"
               PROVE  \/ lastRegisteredUpdate'[Key(updatesById[i])] = i
                      \/ \E k \in 1 .. updateCounter :
                            i < k /\ SameKey(k, i) /\ updates'[k].status = "SENT_TO_DESTINATION"
    BY <1>2, <1>3 DEF PendingIsLast, SameKey, IsSent
  <2>1. CASE i = id
    BY <1>5, <2>1 DEF key
  <2>2. CASE i # id
    <3>1. updates[i].status = "Pending"
      BY <1>2, <1>3, <2>2
    <3>2. CASE lastRegisteredUpdate[Key(updatesById[i])] = i /\ Key(updatesById[i]) # key
      <4>1. Key(updatesById[i]) \in Keys
        BY UpdateType DEF LocalInv
      <4> QED
        BY <1>5, <3>2, <4>1
    <3>3. CASE lastRegisteredUpdate[Key(updatesById[i])] = i /\ Key(updatesById[i]) = key
      <4>1. i <= id
        BY <1>6, <3>3
      <4>2. s = "SENT_TO_DESTINATION"
        BY <1>2, <2>2, <3>1, <3>3 DEF ProcessesLocally, key
      <4> QED
        BY <1>1, <1>2, <1>3, <2>2, <3>3, <4>1, <4>2 DEF SameKey, key
    <3>4. CASE \E k \in 1 .. updateCounter : i < k /\ SameKey(k, i) /\ IsSent(k)
      <4>1. PICK k \in 1 .. updateCounter : i < k /\ SameKey(k, i) /\ IsSent(k)
        BY <3>4
      <4>2. updates'[k].status = "SENT_TO_DESTINATION"
        BY <1>2, <1>3, <4>1 DEF IsSent
      <4> QED
        BY <4>1, <4>2
    <3> QED
      BY <3>1, <3>2, <3>3, <3>4 DEF LocalInv, Registry, PendingIsLast
  <2> QED
    BY <2>1, <2>2
<1>12. FollowsLate'
  <2> SUFFICES ASSUME NEW i \in 1 .. updateCounter, NEW j \in 1 .. updateCounter, Follows(j, i)'
               PROVE  /\ updates'[i].status # "Pending"
                      /\ updates'[i].status = "Executed" =>
                            updates'[i].executedAt + history'[j].debounce <= history'[j].at
    BY <1>2 DEF FollowsLate
  <2>1. /\ i < j /\ SameKey(i, j) /\ updates'[j].status # "SENT_TO_DESTINATION"
        /\ ~\E k \in i + 1 .. j - 1 : SameKey(k, i) /\ updates'[k].status = "SENT_TO_DESTINATION"
    BY <1>3 DEF Follows, SameKey, IsLocal, ForwardedBetween
  <2>2. i # id
    BY <1>2, <1>6, <2>1 DEF SameKey, key
  <2>3. updates'[i].status # "Expired" => updates'[i] = updates[i]
    BY <1>2, <1>3, <2>2
  <2>4. CASE j = id
    <3>1. s # "SENT_TO_DESTINATION" /\ Key(updatesById[i]) = key
      BY <1>3, <2>1, <2>4 DEF SameKey, key
    <3>2. updates'[i].status # "Pending"
      <4> SUFFICES ASSUME updates'[i].status = "Pending" PROVE FALSE
        OBVIOUS
      <4>1. updates[i].status = "Pending"
        BY <2>3
      <4>2. lastRegisteredUpdate[key] # i
        BY <1>2, <2>2, <3>1, <4>1 DEF ProcessesLocally, key
      <4>3. PICK k \in 1 .. updateCounter : i < k /\ SameKey(k, i) /\ IsSent(k)
        BY <3>1, <4>1, <4>2 DEF LocalInv, Registry, PendingIsLast
      <4>4. k <= id /\ k # id /\ updates'[k].status = "SENT_TO_DESTINATION"
        BY <1>2, <1>3, <1>6, <3>1, <4>3 DEF SameKey, IsSent
      <4> QED
        BY <1>1, <1>2, <2>1, <2>4, <4>3, <4>4
    <3>3. ASSUME updates'[i].status = "Executed"
          PROVE  updates'[i].executedAt + history'[j].debounce <= history'[j].at
      <4>1. updates'[i] = updates[i] /\ updates[i].status \in Done
        BY <2>3, <3>3 DEF Done
      <4>2. PICK last : last = lastProcessedUpdate[key]
        OBVIOUS
      <4>3. /\ last \in Ids /\ last # 0 /\ updates[last] \in Records
            /\ 1 <= updates[i].executedAt
            /\ updates[i].executedAt <= updates[last].executedAt
        BY <3>1, <4>1, <4>2, OracleAssumption
        DEF LocalInv, Registry, ProcessedOK, Local, ReceiverOK, Ids
      <4>4. updates[i].executedAt \in Nat /\ updates[last].executedAt \in Nat
        BY <1>2, <4>3 DEF LocalInv, Local, ReceiverOK, Records
      <4>5. updates[last].executedAt + Config(updatesById[id]).debounce <= now
        BY <3>1, <4>2, <4>3, <4>4 DEF ProcessesLocally, Debounced, LastExecutionTime, key
      <4> QED
        BY <1>1, <1>4, <2>4, <4>1, <4>3, <4>4, <4>5
    <3> QED
      BY <3>2, <3>3
  <2>5. CASE j # id
    <3>1. history'[j] = history[j] /\ (updates'[j] = updates[j] \/ IsLocal(j))
      BY <1>2, <1>3, <1>4, <2>5 DEF IsLocal
    <3>2. IsLocal(j)
      BY <1>3, <3>1 DEF Follows, IsLocal
    <3>3. ~ForwardedBetween(i, j)
      <4> SUFFICES ASSUME NEW k \in i + 1 .. j - 1, SameKey(k, i),
                          updates[k].status = "SENT_TO_DESTINATION"
                   PROVE  FALSE
        BY DEF ForwardedBetween
      <4>1. k \in 1 .. updateCounter
        BY <1>2
      <4>2. updates'[k].status = "SENT_TO_DESTINATION"
        BY <1>2, <1>3, <4>1
      <4> QED
        BY <2>1, <4>2
    <3>4. Follows(j, i)
      BY <2>1, <3>2, <3>3 DEF Follows
    <3>5. /\ updates[i].status # "Pending"
          /\ updates[i].status = "Executed" =>
                updates[i].executedAt + history[j].debounce <= history[j].at
      BY <3>4 DEF LocalInv, Registry, FollowsLate
    <3> QED
      BY <2>3, <3>1, <3>5
  <2> QED
    BY <2>4, <2>5
<1> QED
  BY <1>7, <1>8, <1>9, <1>10, <1>11, <1>12 DEF Registry

(* What an executor does to one update. *)
LEMMA MoveRegistry ==
    ASSUME LocalInv, NEW id \in 1 .. updateCounter,
           NEW before, before = updates[id].status,
           NEW after, after = updates'[id].status,
           <<before, after>> \in {<<"Pending", "Executed">>, <<"Pending", "Rejected">>,
                                  <<"SENT_TO_DESTINATION", "SENT_TO_DESTINATION">>},
           \A i \in Ids \ {id} : updates'[i] = updates[i],
           UNCHANGED <<updatesById, latestUpdateIdByMarketAndType, riskParameterConfigs, now,
                       lastRegisteredUpdate, history>>,
           after \in Done => updates'[id].executedAt = now /\ LastProcesses(id),
           after \notin Done => UNCHANGED lastProcessedUpdate,
           after = "Executed" => IsUpdateExecutable(id)
    PROVE  Registry'
<1> DEFINE key == Key(updatesById[id])
<1>1. id \in Ids /\ key \in Keys /\ now \in Nat /\ 1 <= now
  BY UpdateType DEF LocalInv
<1>2. updateCounter \in Nat /\ updateCounter' = updateCounter
      /\ \A i \in 1 .. updateCounter : i \in Ids /\ i \in Nat
  BY OracleAssumption, UpdateType DEF LocalInv, Local, PublishedOK, updateCounter
<1> HIDE DEF key
<1>3. LatestOK'
  BY <1>2 DEF LocalInv, Registry, LatestOK
<1>4. RegistryOK'
  <2>1. lastProcessedUpdate' \in [Keys -> Nat]
    BY <1>1 DEF LastProcesses, LocalInv, Registry, RegistryOK, key
  <2>2. \A i \in Ids : i > updateCounter => updates'[i].status = "None"
    BY <1>1, <1>2 DEF LocalInv, Registry, RegistryOK
  <2> QED
    BY <1>2, <2>1, <2>2 DEF LocalInv, Registry, RegistryOK
<1>5. ProcessedOK'
  <2> SUFFICES ASSUME NEW i \in 1 .. updateCounter, updates'[i].status \in Done,
                      NEW last, last = lastProcessedUpdate'[Key(updatesById[i])]
               PROVE  /\ last \in Ids
                      /\ updates'[last].status \in Done
                      /\ 1 <= updates'[i].executedAt
                      /\ updates'[i].executedAt <= updates'[last].executedAt
                      /\ updates'[i].executedAt <= now
    BY <1>2 DEF ProcessedOK
  <2>1. i # id => /\ updates'[i] = updates[i] /\ updates[i].status \in Done
                  /\ 1 <= updates[i].executedAt /\ updates[i].executedAt <= now
    BY <1>2 DEF LocalInv, Registry, ProcessedOK
  <2>2. i = id => after \in Done
    OBVIOUS
  <2>3. CASE after \in Done /\ Key(updatesById[i]) = key
    <3>1. last = id
      BY <1>1, <2>3 DEF LastProcesses, LocalInv, Registry, RegistryOK, key
    <3>2. updates'[last].status \in Done /\ updates'[last].executedAt = now
      BY <2>3, <3>1
    <3>3. 1 <= updates'[i].executedAt /\ updates'[i].executedAt <= now
      BY <1>1, <2>1, <2>3
    <3> QED
      BY <1>1, <3>1, <3>2, <3>3
  <2>4. CASE ~(after \in Done /\ Key(updatesById[i]) = key)
    <3>1. i # id
      BY <2>2, <2>4 DEF key
    <3>2. last = lastProcessedUpdate[Key(updatesById[i])]
      <4>1. Key(updatesById[i]) \in Keys
        BY UpdateType DEF LocalInv
      <4> QED
        BY <1>1, <2>4, <4>1 DEF LastProcesses, LocalInv, Registry, RegistryOK, key
    <3>3. /\ last \in Ids /\ updates[last].status \in Done
          /\ updates[i].executedAt <= updates[last].executedAt
      BY <2>1, <3>1, <3>2 DEF LocalInv, Registry, ProcessedOK
    <3>4. \/ updates'[last] = updates[last]
          \/ updates'[last].status \in Done /\ updates'[last].executedAt = now
      BY <3>3 DEF Done
    <3> QED
      BY <2>1, <3>1, <3>3, <3>4
  <2> QED
    BY <2>3, <2>4
<1>6. TermsOK'
  <2>1. TermsKept(id)'
    <3>1. TermsKept(id) /\ updates[id] \in Records /\ ExpirationTime(updatesById[id]) \in Nat
          /\ history[id] \in Terms
      BY <1>1, UpdateType DEF LocalInv, Registry, TermsOK, RegistryOK
    <3>2. CASE after = "Executed"
      <4>1. /\ updates[id].unlockTime = history[id].at + history[id].timelock
            /\ updates[id].unlockTime <= now
            /\ now <= ExpirationTime(updatesById[id])
            /\ history[id].at \in Nat /\ history[id].timelock \in Nat
        BY <1>1, <3>1, <3>2 DEF TermsKept, IsUpdateExecutable, IsExpired, Terms
      <4>2. updates'[id].executedAt = now /\ updates'[id].status = "Executed"
        BY <3>2 DEF Done
      <4> QED
        BY <1>1, <4>1, <4>2 DEF TermsKept, ExpirationTime
    <3>3. CASE after # "Executed"
      BY <3>3 DEF TermsKept
    <3> QED
      BY <3>2, <3>3
  <2>2. ASSUME NEW i \in 1 .. updateCounter, i # id
        PROVE  TermsKept(i)'
    <3>1. TermsKept(i) /\ i \in Ids
      BY <1>2 DEF LocalInv, Registry, TermsOK
    <3> QED
      BY <2>2, <3>1 DEF TermsKept, ExpirationTime
  <2> QED
    BY <1>2, <2>1, <2>2 DEF TermsOK
<1>7. \A i \in Ids : /\ updates'[i].status = "Pending" => updates[i].status = "Pending"
                     /\ IsSent(i) <=> updates'[i].status = "SENT_TO_DESTINATION"
                     /\ IsLocal(i) <=> IsLocal(i)'
  BY DEF IsSent, IsLocal
<1>8. PendingIsLast'
  BY <1>2, <1>7 DEF LocalInv, Registry, PendingIsLast, SameKey, IsSent
<1>9. FollowsLate'
  <2> SUFFICES ASSUME NEW i \in 1 .. updateCounter, NEW j \in 1 .. updateCounter, Follows(j, i)'
               PROVE  /\ updates'[i].status # "Pending"
                      /\ updates'[i].status = "Executed" =>
                            updates'[i].executedAt + history[j].debounce <= history[j].at
    BY <1>2 DEF FollowsLate
  <2>1. Follows(j, i)
    <3>1. i < j /\ SameKey(i, j) /\ IsLocal(j)
      BY <1>2, <1>7 DEF Follows, SameKey
    <3>2. ForwardedBetween(i, j) => ForwardedBetween(i, j)'
      <4> SUFFICES ASSUME NEW k \in i + 1 .. j - 1, SameKey(k, i), IsSent(k)
                   PROVE  ForwardedBetween(i, j)'
        BY DEF ForwardedBetween, IsSent
      <4>1. k \in 1 .. updateCounter
        BY <1>2
      <4>2. updates'[k].status = "SENT_TO_DESTINATION"
        BY <1>2, <1>7, <4>1
      <4> QED
        BY <4>2 DEF ForwardedBetween, SameKey
    <3> QED
      BY <3>1, <3>2 DEF Follows
  <2>2. /\ updates[i].status # "Pending"
        /\ updates[i].status = "Executed" =>
              updates[i].executedAt + history[j].debounce <= history[j].at
    BY <2>1 DEF LocalInv, Registry, FollowsLate
  <2>3. i # id \/ after = "SENT_TO_DESTINATION"
    BY <2>2
  <2> QED
    BY <1>2, <2>2, <2>3
<1> QED
  BY <1>3, <1>4, <1>5, <1>6, <1>8, <1>9 DEF Registry

LEMMA ExecutorRegistry ==
    ASSUME LocalInv, NEW executor, NEW id \in 1 .. updateCounter,
           \/ ExecuteRegisteredUpdate(executor, id)
           \/ RejectUpdate(executor, id)
           \/ ResendRemoteUpdate(executor, id)
    PROVE  Registry'
<1>1. id \in Ids /\ updates \in [Ids -> Records]
  BY UpdateType DEF LocalInv, Local, ReceiverOK
<1>2. UNCHANGED <<updatesById, latestUpdateIdByMarketAndType, riskParameterConfigs, now,
                  lastRegisteredUpdate, history>>
  BY DEF ExecuteRegisteredUpdate, RejectUpdate, ResendRemoteUpdate, receiverSettings,
       oracleVars, oracleUpdates
<1>3. CASE ExecuteRegisteredUpdate(executor, id)
  <2>1. /\ IsUpdateExecutable(id) /\ updates[id].status = "Pending"
        /\ updates'[id].status = "Executed" /\ updates'[id].executedAt = now
        /\ \A i \in Ids \ {id} : updates'[i] = updates[i]
        /\ LastProcesses(id)
    BY <1>1, <1>3 DEF ExecuteRegisteredUpdate, IsUpdateExecutable, LastProcesses, Records
  <2> QED
    BY <1>2, <2>1, MoveRegistry DEF Done
<1>4. CASE RejectUpdate(executor, id)
  <2>1. /\ updates[id].status = "Pending"
        /\ updates'[id].status = "Rejected"
        /\ \A i \in Ids \ {id} : updates'[i] = updates[i]
        /\ UNCHANGED lastProcessedUpdate
    BY <1>1, <1>4 DEF RejectUpdate, Records
  <2> QED
    BY <1>2, <2>1, MoveRegistry DEF Done
<1>5. CASE ResendRemoteUpdate(executor, id)
  <2>1. /\ updates[id].status = "SENT_TO_DESTINATION"
        /\ updates'[id].status = "SENT_TO_DESTINATION" /\ updates'[id].executedAt = now
        /\ \A i \in Ids \ {id} : updates'[i] = updates[i]
        /\ LastProcesses(id)
    BY <1>1, <1>5 DEF ResendRemoteUpdate, LastProcesses, Records
  <2> QED
    BY <1>2, <2>1, MoveRegistry DEF Done
<1> QED
  BY <1>3, <1>4, <1>5

(* setRiskParameterConfig leaves no type active without a steward. *)
LEMMA SettingsRegistry ==
    ASSUME LocalInv, SettingsNext
    PROVE  Registry'
<1>1. UNCHANGED <<updatesById, latestUpdateIdByMarketAndType, receiverUpdates, now>>
  BY DEF SettingsNext, SetPaused, SetRiskParameterConfig, SetConfigActive,
       SetWhitelistedExecutor, SetSafeDeltaBps, Change, oracleVars, oracleUpdates
<1>2. now \in Nat
  BY ReceiverAssumption DEF LocalInv, Local, ReceiverOK
<1>3. /\ riskParameterConfigs \in [UpdateTypes -> Configs]
      /\ \A type \in UpdateTypes : riskParameterConfigs[type].active =>
                                      riskParameterConfigs[type].riskSteward # "None"
  BY DEF LocalInv, Local, ReceiverOK, Registry, RegistryOK
<1>4. ASSUME NEW type \in DOMAIN ConfigChoices, NEW choice \in ConfigChoices[type],
             SetRiskParameterConfig(type, choice)
      PROVE  \A t \in UpdateTypes : riskParameterConfigs'[t].active =>
                                       riskParameterConfigs'[t].riskSteward # "None"
  <2>1. choice.riskSteward # "None"
    BY ReceiverAssumption DEF Stewards
  <2> QED
    BY <1>3, <1>4, <2>1 DEF SetRiskParameterConfig
<1>5. ASSUME NEW type \in DOMAIN ConfigChoices, NEW active \in BOOLEAN,
             SetConfigActive(type, active)
      PROVE  \A t \in UpdateTypes : riskParameterConfigs'[t].active =>
                                       riskParameterConfigs'[t].riskSteward # "None"
  <2>1. riskParameterConfigs[type] \in Configs /\ type \in UpdateTypes
    BY <1>3, ReceiverAssumption
  <2>2. riskParameterConfigs'[type].riskSteward = riskParameterConfigs[type].riskSteward
    BY <1>3, <1>5, <2>1 DEF SetConfigActive, Configs
  <2> QED
    BY <1>3, <1>5, <2>2 DEF SetConfigActive
<1>6. \A type \in UpdateTypes : riskParameterConfigs'[type].active =>
                                   riskParameterConfigs'[type].riskSteward # "None"
  BY <1>3, <1>4, <1>5
  DEF SettingsNext, SetPaused, SetWhitelistedExecutor, SetSafeDeltaBps
<1> QED
  BY <1>1, <1>2, <1>6, QuietRegistry

(* Steps of neither the oracle's updates nor the receiver. *)
LEMMA StillRegistry ==
    ASSUME LocalInv, UNCHANGED <<oracleUpdates, receiverVars>>, now' \in Nat, now <= now'
    PROVE  Registry'
<1>1. UNCHANGED <<updatesById, latestUpdateIdByMarketAndType, receiverUpdates,
                  riskParameterConfigs>>
  BY DEF oracleUpdates, receiverVars, receiverSettings
<1> QED
  BY <1>1, QuietRegistry DEF LocalInv, Registry, RegistryOK

LEMMA LocalInvNext ==
    ASSUME LocalInv, Next
    PROVE  LocalInv'
<1>1. Local' /\ now \in Nat /\ now' \in Nat /\ now <= now'
  <2>1. Local' /\ Grows
    BY LocalStep DEF LocalInv
  <2> QED
    BY <2>1, ReceiverAssumption DEF Grows, LocalInv, Local, ReceiverOK
<1>2. ASSUME NEW id \in 1 .. updateCounter, ProcessUpdate(id)
      PROVE  Registry'
  BY <1>2, ProcessCases, ProcessRegistry
<1>3. ASSUME OracleNext, UNCHANGED receiverVars
      PROVE  Registry'
  BY <1>1, <1>3, PublishRegistry, StillRegistry
  DEF OracleNext, AddAuthorizedSender, RemoveAuthorizedSender, AddUpdateType,
      SetUpdateTypeActive
<1>4. ASSUME ReceiverNext
      PROVE  Registry'
  BY <1>2, <1>4, ExecutorRegistry, SettingsRegistry DEF ReceiverNext
<1>5. ASSUME NEW seconds \in TimeSteps, Tick(seconds)
      PROVE  Registry'
  BY <1>1, <1>5, StillRegistry DEF Tick, oracleVars
<1> QED
  BY <1>1, <1>3, <1>4, <1>5 DEF LocalInv, Next, CallNext

LEMMA LocalInvStays ==
    ASSUME LocalInv, UNCHANGED <<oracleVars, receiverVars, now>>
    PROVE  LocalInv'
<1>1. Local'
  BY DEF LocalInv, Local, PublishedOK, ReceiverOK, SentOK, ForwardedByNow, IsForwarded,
       IsSent, updateCounter, oracleVars, oracleUpdates, receiverVars, receiverUpdates,
       receiverSettings
<1>2. now' \in Nat /\ now <= now'
  BY ReceiverAssumption DEF LocalInv, Local, ReceiverOK
<1> QED
  BY <1>1, <1>2, StillRegistry DEF LocalInv, oracleVars

LEMMA LocalInit == Init => LocalInv
<1> SUFFICES ASSUME Init
             PROVE  LocalInv
  OBVIOUS
<1>1. sent = <<>> /\ updatesById = <<>> /\ now = 1
  BY DEF Init, OracleInit, ReceiverInit
<1>2. PublishedOK /\ SentOK
  BY <1>1, OracleAssumption DEF PublishedOK, SentOK, updateCounter
<1>3. ReceiverOK
  BY <1>1, ReceiverAssumption DEF Init, ReceiverInit, ReceiverOK, Records, NoUpdate,
       Statuses
<1>4. ForwardedByNow
  BY DEF Init, ReceiverInit, ForwardedByNow, IsSent, NoUpdate
<1> QED
  BY <1>2, <1>3, <1>4, RegistryInit DEF LocalInv, Local

(* What the next step does to an update that was resolved or forwarded.      *)
LEMMA ResolvedStep ==
    ASSUME LocalInv, [Next]_vars, NEW id \in Ids
    PROVE  /\ updates[id].status \in {"Executed", "Rejected", "Expired"} =>
                 updates'[id] = updates[id]
           /\ updates[id].status = "SENT_TO_DESTINATION" =>
                 updates'[id].status = "SENT_TO_DESTINATION"
<1>1. ASSUME NEW i \in 1 .. updateCounter, ProcessUpdate(i)
      PROVE  updates[id].status \notin {"None", "Pending"} => updates'[id] = updates[id]
  BY <1>1, ProcessCases DEF Processes
<1>2. ASSUME NEW i \in 1 .. updateCounter, NEW executor,
             ExecuteRegisteredUpdate(executor, i) \/ RejectUpdate(executor, i)
      PROVE  updates[id].status # "Pending" => updates'[id] = updates[id]
  BY <1>2 DEF ExecuteRegisteredUpdate, IsUpdateExecutable, RejectUpdate, LocalInv, Local,
       ReceiverOK
<1>3. ASSUME NEW i \in 1 .. updateCounter, NEW executor, ResendRemoteUpdate(executor, i)
      PROVE  /\ updates[id].status # "SENT_TO_DESTINATION" => updates'[id] = updates[id]
             /\ updates'[id].status = updates[id].status
  BY <1>3 DEF ResendRemoteUpdate, LocalInv, Local, ReceiverOK, Records
<1>4. SettingsNext => UNCHANGED updates
  BY DEF SettingsNext, SetPaused, SetRiskParameterConfig, SetConfigActive,
       SetWhitelistedExecutor, SetSafeDeltaBps, receiverUpdates
<1>5. CASE ReceiverNext
  BY <1>1, <1>2, <1>3, <1>4, <1>5 DEF ReceiverNext
<1>6. CASE UNCHANGED updates
  BY <1>6
<1> QED
  BY <1>5, <1>6 DEF Next, CallNext, Tick, vars, receiverVars, receiverUpdates

LEMMA AlwaysLocalInv == Spec => []LocalInv
<1>1. LocalInv /\ [Next]_vars => LocalInv'
  <2>1. UNCHANGED vars => UNCHANGED <<oracleVars, receiverVars, now>>
    BY DEF vars
  <2> QED
    BY <2>1, LocalInvNext, LocalInvStays
<1> QED
  BY <1>1, LocalInit, PTL DEF Spec

(* What is executed is what its steward can apply. *)
LEMMA ExecutedStep ==
    ASSUME LocalInv, [Next]_vars, NEW id \in Ids, updates'[id].status = "Executed",
           updates[id].status # "Executed"
    PROVE  /\ id \in 1 .. updateCounter
           /\ \E steward \in Stewards \cup {"None"} : IsApplicable(steward, updatesById[id])
           /\ UNCHANGED updatesById
<1>1. ASSUME NEW i \in 1 .. updateCounter, ForwardUpdate(i) \/ RegisterUpdate(i)
      PROVE  FALSE
  <2>1. updatesById[i].updateId = i
    BY UpdateType DEF LocalInv
  <2>2. PICK status, unlockTime, executedAt :
           /\ status \in {"Pending", "SENT_TO_DESTINATION"}
           /\ updates' = Registered(updatesById[i], unlockTime, status, executedAt)
    <3>1. CASE updates' = Registered(updatesById[i], now, "SENT_TO_DESTINATION", now)
      BY <3>1
    <3>2. CASE updates' = Registered(updatesById[i], now + Config(updatesById[i]).timelock,
                                     "Pending", 0)
      BY <3>2
    <3> QED
      BY <1>1, <3>1, <3>2 DEF ForwardUpdate, RegisterUpdate
  <2>3. updates[id] \in Records
    BY DEF LocalInv, Local, ReceiverOK
  <2>4. [updates[id] EXCEPT !.status = "Expired"].status = "Expired"
    BY <2>3 DEF Records
  <2>5. \/ updates'[id] = [status |-> status, unlockTime |-> unlockTime, executedAt |-> executedAt]
        \/ updates'[id] = [updates[id] EXCEPT !.status = "Expired"]
        \/ updates'[id] = updates[id]
    BY <2>1, <2>2 DEF Registered
  <2>6. [status |-> status, unlockTime |-> unlockTime, executedAt |-> executedAt].status
           # "Executed"
    BY <2>2
  <2> QED
    BY <2>4, <2>5, <2>6
<1>2. ASSUME NEW i \in 1 .. updateCounter, ExecuteUpdateDirectly(i)
      PROVE  i = id
  <2>1. updatesById[i].updateId = i
    BY UpdateType DEF LocalInv
  <2> QED
    BY <1>2, <2>1 DEF ExecuteUpdateDirectly, Registered, LocalInv, Local, ReceiverOK, Records,
         StillPending
<1>3. ASSUME NEW i \in 1 .. updateCounter, NEW executor, ExecuteRegisteredUpdate(executor, i)
      PROVE  i = id
  BY <1>3 DEF ExecuteRegisteredUpdate, LocalInv, Local, ReceiverOK
<1>4. ASSUME NEW i \in 1 .. updateCounter, NEW executor,
             RejectUpdate(executor, i) \/ ResendRemoteUpdate(executor, i)
      PROVE  FALSE
  BY <1>4 DEF RejectUpdate, ResendRemoteUpdate, LocalInv, Local, ReceiverOK, Records
<1>5. ASSUME NEW i \in 1 .. updateCounter, IsApplicable(Steward(updatesById[i]), updatesById[i])
      PROVE  \E steward \in Stewards \cup {"None"} : IsApplicable(steward, updatesById[i])
  BY <1>5 DEF IsApplicable, Stewards
<1>6. SettingsNext => UNCHANGED updates
  BY DEF SettingsNext, SetPaused, SetRiskParameterConfig, SetConfigActive,
       SetWhitelistedExecutor, SetSafeDeltaBps, receiverUpdates
<1>7. CASE ReceiverNext
  <2>1. PICK i \in 1 .. updateCounter :
           \/ ExecuteUpdateDirectly(i)
           \/ \E executor \in whitelistedExecutors : ExecuteRegisteredUpdate(executor, i)
    BY <1>1, <1>4, <1>6, <1>7 DEF ReceiverNext, ProcessUpdate
  <2>2. i = id
    BY <1>2, <1>3, <2>1
  <2>3. IsApplicable(Steward(updatesById[i]), updatesById[i]) /\ UNCHANGED updatesById
    BY <2>1 DEF ExecuteUpdateDirectly, ExecuteRegisteredUpdate, oracleVars, oracleUpdates
  <2> QED
    BY <1>5, <2>2, <2>3
<1>8. CASE UNCHANGED updates
  BY <1>8
<1> QED
  BY <1>7, <1>8 DEF Next, CallNext, Tick, vars, receiverVars, receiverUpdates

LEMMA NoneApplicable ==
    ASSUME NEW update, NEW steward, DetailsRevert(update), IsApplicable(steward, update)
    PROVE  FALSE
BY DEF DetailsRevert, IsApplicable, CapApplicable, IsCap, FactorsApplicable, ModelApplicable

LEMMA NoneWithoutPoolNext ==
    ASSUME LocalInv, NoneWithoutPool, [Next]_vars
    PROVE  NoneWithoutPool'
<1> SUFFICES ASSUME NEW id \in 1 .. updateCounter', DetailsRevert(updatesById[id])',
                    updates'[id].status = "Executed"
             PROVE  FALSE
  BY DEF NoneWithoutPool
<1>1. Local' /\ \A i \in 1 .. updateCounter : updatesById'[i] = updatesById[i]
  <2>1. CASE Next
    BY LocalStep, <2>1 DEF LocalInv, Grows
  <2>2. CASE UNCHANGED vars
    BY LocalInvStays, <2>2 DEF LocalInv, vars, oracleVars, oracleUpdates
  <2> QED
    BY <2>1, <2>2
<1>2. id \in Ids
  BY <1>1, OracleAssumption DEF Local, PublishedOK, updateCounter, Ids
<1>3. CASE updates[id].status = "Executed"
  <2>1. id \in 1 .. updateCounter
    BY <1>2, <1>3 DEF LocalInv, Registry, RegistryOK, Ids, Local, PublishedOK, updateCounter
  <2>2. updatesById'[id] = updatesById[id]
    BY <1>1, <2>1
  <2> QED
    BY <1>3, <2>1, <2>2 DEF NoneWithoutPool, DetailsRevert, IsRemote, IsEMode
<1>4. CASE updates[id].status # "Executed"
  BY <1>2, <1>4, ExecutedStep, NoneApplicable
  DEF DetailsRevert, IsRemote, IsEMode
<1> QED
  BY <1>3, <1>4

(* The timelock of an update is the one it was registered under, it is       *)
(* served before the update is applied, and it never outlasts the update:    *)
(* for any configurations, markets and order of calls.                       *)
THEOREM UnderItsTerms == Spec => []AppliedUnderItsTerms
<1>1. LocalInv => AppliedUnderItsTerms
  BY TermsFollow
<1> QED
  BY <1>1, AlwaysLocalInv, PTL

(* The debounce, asked for when an update is registered, holds between the   *)
(* changes themselves, because no update waits while a later one of its type *)
(* and market is registered, unless one was forwarded between them.          *)
THEOREM Apart == Spec => []ApartUnlessForwarded
<1>1. LocalInv => ApartUnlessForwarded
  BY ApartFollows
<1> QED
  BY <1>1, AlwaysLocalInv, PTL

(* The lens and the receiver agree on every update, in every state, and the  *)
(* updates that the lens cannot show are never applied.                      *)
THEOREM LensAlwaysAgrees == Spec => []LensAgrees
<1>1. Init => NoneWithoutPool
  BY DEF Init, OracleInit, NoneWithoutPool, updateCounter
<1>2. LocalInv /\ NoneWithoutPool /\ [Next]_vars => NoneWithoutPool'
  BY NoneWithoutPoolNext
<1>3. LocalInv /\ NoneWithoutPool => LensAgrees
  BY LensFollows
<1> QED
  BY <1>1, <1>2, <1>3, AlwaysLocalInv, PTL DEF Spec

(* What was executed, rejected or expired stays so, and what was forwarded   *)
(* is never applied here.                                                    *)
THEOREM ResolvedForGood == Spec => ResolvedIsFinal
<1>1. LocalInv /\ [Next]_vars =>
         [\A id \in Ids :
             /\ updates[id].status \in {"Executed", "Rejected", "Expired"} =>
                   updates'[id] = updates[id]
             /\ updates[id].status = "SENT_TO_DESTINATION" =>
                   updates'[id].status = "SENT_TO_DESTINATION"]_vars
  BY ResolvedStep
<1> QED
  BY <1>1, AlwaysLocalInv, PTL DEF Spec, ResolvedIsFinal

-----------------------------------------------------------------------------
(* The system implements DestinationSpec *)

LEMMA InitHolds == SystemInit => IInv
<1> SUFFICES ASSUME SystemInit
             PROVE  IInv
  OBVIOUS
<1>1. sent = <<>> /\ updatesById = <<>> /\ now = 1
  BY DEF SystemInit, Init, OracleInit, ReceiverInit
<1>2. PublishedOK /\ SentOK
  BY <1>1, OracleAssumption DEF PublishedOK, SentOK, updateCounter
<1>3. ReceiverOK
  BY <1>1, ReceiverAssumption
  DEF SystemInit, Init, ReceiverInit, ReceiverOK, Records, NoUpdate, Statuses
<1>4. ForwardedByNow
  BY DEF SystemInit, Init, ReceiverInit, ForwardedByNow, IsSent, NoUpdate
<1>5. RemoteOK
  BY DEF SystemInit, RemoteOK, Remote!DestinationInit, Remote!NoUpdate, Remote!Ids, Ids
<1>6. RemoteIInv
  BY <1>1, RemoteAssumption, RemoteInitHolds DEF SystemInit
<1> QED
  BY <1>2, <1>3, <1>4, <1>5, <1>6 DEF IInv, Local

LEMMA LocalIsEnvironment ==
    ASSUME Local, Next, UNCHANGED remoteVars
    PROVE  Remote!Environment
<1>1. Local' /\ now <= now'
  BY LocalStep DEF Grows
<1>2. sent' \in Seq(Messages) /\ now' \in Nat
  BY <1>1, ReceiverAssumption DEF Local, SentOK, ReceiverOK
<1> QED
  BY <1>1, <1>2
  DEF remoteVars, Remote!Environment, Remote!destinationVars, Remote!settings,
      Remote!registry, Remote!effects

LEMMA StepsOfDestination ==
    ASSUME Local, [SystemNext]_systemVars
    PROVE  DestinationStep
<1>1. CASE Next /\ UNCHANGED remoteVars
  BY <1>1, LocalIsEnvironment DEF DestinationStep
<1>2. CASE Remote!DestinationNext /\ UNCHANGED <<oracleVars, receiverVars>>
  BY <1>2 DEF receiverVars, DestinationStep
<1>3. CASE UNCHANGED systemVars
  BY <1>3
  DEF systemVars, vars, receiverVars, remoteVars, Remote!destinationVars, Remote!settings,
      Remote!registry, Remote!effects, DestinationStep
<1> QED
  BY <1>1, <1>2, <1>3 DEF SystemNext

-----------------------------------------------------------------------------
(* Steps of the destination *)

LEMMA RemoteStaysLocally ==
    ASSUME IInv, Next, UNCHANGED remoteVars
    PROVE  RemoteOK'
<1>1. Local /\ Local' /\ PublishedOK' /\ Grows
  BY LocalStep DEF IInv, Local
<1>2. ASSUME NEW id \in Ids, remoteUpdates[id].status # "None"
      PROVE  Arrived(id)'
  <2>1. Arrived(id)
    BY <1>2 DEF IInv, RemoteOK
  <2>2. IsSent(id)
    BY <2>1 DEF Arrived, IsForwarded
  <2>3. \A update : IsForwarded(update) => IsForwarded(update)'
    BY <1>1, ForwardedStays
  <2> QED
    BY <1>1, <2>1, <2>2, <2>3 DEF Arrived, Grows, remoteVars, IsForwarded, IsSent
<1>3. ASSUME NEW id \in Ids, remoteUpdates[id].status = "Executed"
      PROVE  AppliedInTime(id)'
  BY <1>3 DEF IInv, RemoteOK, AppliedInTime, ExpirationTime, remoteVars
<1> QED
  BY <1>2, <1>3 DEF RemoteOK, remoteVars

(* A step of the destination changes one update at most. *)
LEMMA RemoteStaysExcept ==
    ASSUME IInv, UNCHANGED <<oracleVars, receiverVars>>, NEW id \in Ids,
           remoteUpdates' \in [Ids -> RemoteRecords],
           \A i \in Ids \ {id} : /\ remoteUpdates'[i] = remoteUpdates[i]
                                 /\ remoteHistory'[i] = remoteHistory[i],
           remoteUpdates'[id].status # "None" => Arrived(id)',
           remoteUpdates'[id].status = "Executed" => AppliedInTime(id)'
    PROVE  RemoteOK'
<1>1. UNCHANGED <<updates, updatesById>>
  BY DEF oracleVars, oracleUpdates, receiverVars, receiverUpdates
<1>2. ASSUME NEW i \in Ids \ {id}
      PROVE  /\ remoteUpdates'[i].status # "None" => Arrived(i)'
             /\ remoteUpdates'[i].status = "Executed" => AppliedInTime(i)'
  BY <1>1
  DEF IInv, RemoteOK, Arrived, AppliedInTime, IsForwarded, IsSent, ExpirationTime,
      updateCounter
<1> QED
  BY <1>2 DEF RemoteOK

LEMMA ReceiveStep ==
    ASSUME IInv, UNCHANGED <<oracleVars, receiverVars>>, NEW k \in DOMAIN sent,
           Remote!LzReceive(k)
    PROVE  RemoteOK'
<1> SUFFICES ASSUME NEW update, update = sent[k], NEW id, id = update.updateId
             PROVE  RemoteOK'
  OBVIOUS
<1>1. /\ IsForwarded(update)
      /\ id \in Ids
      /\ updates[id].unlockTime <= now
  BY OracleAssumption
  DEF IInv, Local, SentOK, PublishedOK, IsForwarded, Ids, updateCounter, ForwardedByNow
<1>2. UNCHANGED <<updates, updatesById, remoteHistory, now>>
  BY DEF oracleVars, oracleUpdates, receiverVars, receiverUpdates, Remote!LzReceive,
       Remote!effects
<1>3. CASE UNCHANGED remoteUpdates
  BY <1>2, <1>3
  DEF IInv, RemoteOK, Arrived, AppliedInTime, IsForwarded, IsSent, ExpirationTime,
      updateCounter
<1>4. CASE remoteUpdates' = [remoteUpdates EXCEPT ![id] =
                 [status |-> "Pending", arrivalTime |-> now, update |-> update]]
  <2>1. remoteUpdates \in [Ids -> RemoteRecords] /\ update \in Messages /\ now \in Nat
    BY ReceiverAssumption
    DEF IInv, RemoteIInv, RemoteTypeOK, Remote!Ids, Ids, Local, SentOK, ReceiverOK
  <2>2. remoteUpdates' \in [Ids -> RemoteRecords]
    BY <1>1, <1>4, <2>1 DEF RemoteRecords
  <2>3. /\ remoteUpdates'[id] = [status |-> "Pending", arrivalTime |-> now, update |-> update]
        /\ \A i \in Ids \ {id} : remoteUpdates'[i] = remoteUpdates[i]
    BY <1>1, <1>4, <2>1
  <2>4. Arrived(id)'
    BY <1>1, <1>2, <2>3 DEF Arrived, IsForwarded, IsSent, updateCounter
  <2> QED
    BY <1>1, <1>2, <2>2, <2>3, <2>4, RemoteStaysExcept
<1> QED
  BY <1>3, <1>4 DEF Remote!LzReceive

LEMMA RejectStep ==
    ASSUME IInv, UNCHANGED <<oracleVars, receiverVars>>, NEW executor, NEW id \in Ids,
           Remote!RejectUpdate(executor, id)
    PROVE  RemoteOK'
<1>1. UNCHANGED <<updates, updatesById, remoteHistory>>
  BY DEF oracleVars, oracleUpdates, receiverVars, receiverUpdates, Remote!RejectUpdate,
       Remote!effects
<1>2. /\ remoteUpdates \in [Ids -> RemoteRecords]
      /\ remoteUpdates[id].status = "Pending"
      /\ remoteUpdates' = [remoteUpdates EXCEPT ![id].status = "Rejected"]
  BY DEF IInv, RemoteIInv, RemoteTypeOK, Remote!Ids, Ids, Remote!RejectUpdate
<1>3. remoteUpdates' \in [Ids -> RemoteRecords]
  BY <1>2 DEF RemoteRecords
<1>4. /\ remoteUpdates'[id].status = "Rejected"
      /\ remoteUpdates'[id].update = remoteUpdates[id].update
      /\ remoteUpdates'[id].arrivalTime = remoteUpdates[id].arrivalTime
      /\ \A i \in Ids \ {id} : remoteUpdates'[i] = remoteUpdates[i]
  BY <1>2 DEF RemoteRecords
<1>5. Arrived(id)'
  BY <1>1, <1>2, <1>4 DEF IInv, RemoteOK, Arrived, IsForwarded, IsSent, updateCounter
<1> QED
  BY <1>1, <1>3, <1>4, <1>5, RemoteStaysExcept

LEMMA ExecuteStep ==
    ASSUME IInv, UNCHANGED <<oracleVars, receiverVars>>, NEW executor, NEW id \in Ids,
           Remote!ExecuteUpdate(executor, id)
    PROVE  RemoteOK'
<1>1. UNCHANGED <<updates, updatesById>>
  BY DEF oracleVars, oracleUpdates, receiverVars, receiverUpdates
<1>2. /\ remoteUpdates \in [Ids -> RemoteRecords]
      /\ remoteHistory \in [Ids -> [at : Nat, debounce : Nat, delay : Nat]]
      /\ remoteUpdates[id].status = "Pending"
      /\ remoteUpdates' = [remoteUpdates EXCEPT ![id].status = "Executed"]
      /\ Remote!Unlocked(id) /\ ~Remote!IsExpired(remoteUpdates[id].update)
  BY DEF IInv, RemoteIInv, RemoteTypeOK, Remote!Ids, Ids, Remote!ExecuteUpdate
<1>3. remoteHistory' = [remoteHistory EXCEPT ![id] =
         [at |-> now, debounce |-> Remote!Config(remoteUpdates[id].update).debounce,
          delay |-> remoteDelay]]
  BY DEF Remote!ExecuteUpdate
<1>4. remoteUpdates' \in [Ids -> RemoteRecords]
  BY <1>2 DEF RemoteRecords
<1>5. /\ remoteUpdates'[id].status = "Executed"
      /\ remoteUpdates'[id].update = remoteUpdates[id].update
      /\ remoteUpdates'[id].arrivalTime = remoteUpdates[id].arrivalTime
      /\ \A i \in Ids \ {id} : remoteUpdates'[i] = remoteUpdates[i]
  BY <1>2 DEF RemoteRecords
<1>6. /\ remoteHistory'[id].at = now /\ remoteHistory'[id].delay = remoteDelay
      /\ \A i \in Ids \ {id} : remoteHistory'[i] = remoteHistory[i]
  BY <1>2, <1>3
<1>7. Arrived(id)'
  BY <1>1, <1>2, <1>5 DEF IInv, RemoteOK, Arrived, IsForwarded, IsSent, updateCounter
<1>8. AppliedInTime(id)'
  <2>1. Arrived(id)
    BY <1>2 DEF IInv, RemoteOK
  <2>2. remoteUpdates[id].update.timestamp \in Nat /\ now \in Nat
    <3>1. remoteUpdates[id].update \in Messages
      BY <2>1 DEF Arrived, IsForwarded, IInv, Local, PublishedOK, updateCounter
    <3> QED
      BY <3>1, ReceiverAssumption, RemoteAssumption
      DEF Remote!DestinationAssumption, IInv, Local, ReceiverOK
  <2>3. UPDATE_EXPIRATION_TIME \in Nat
    BY RemoteAssumption DEF Remote!DestinationAssumption
  <2>4. now <= remoteUpdates[id].update.timestamp + UPDATE_EXPIRATION_TIME
    BY <1>2, <2>2, <2>3 DEF Remote!IsExpired
  <2> QED
    BY <1>2, <1>5, <1>6, <2>4 DEF AppliedInTime, ExpirationTime, Remote!Unlocked
<1> QED
  BY <1>4, <1>5, <1>6, <1>7, <1>8, RemoteStaysExcept

LEMMA SettingsStep ==
    ASSUME IInv, UNCHANGED <<oracleVars, receiverVars, remoteUpdates, remoteHistory>>
    PROVE  RemoteOK'
<1>1. UNCHANGED <<updates, updatesById>>
  BY DEF oracleVars, oracleUpdates, receiverVars, receiverUpdates
<1> QED
  BY <1>1
  DEF IInv, RemoteOK, Arrived, AppliedInTime, IsForwarded, IsSent, ExpirationTime,
      updateCounter

LEMMA RemoteStays ==
    ASSUME IInv, [SystemNext]_systemVars
    PROVE  RemoteOK'
<1>1. CASE Next /\ UNCHANGED remoteVars
  BY <1>1, RemoteStaysLocally
<1>2. CASE UNCHANGED systemVars
  BY <1>2, SettingsStep DEF systemVars, vars, remoteVars
<1>3. CASE Remote!DestinationNext /\ UNCHANGED <<oracleVars, receiverVars>>
  <2>2. ASSUME Remote!DestinationNext,
               \A k \in DOMAIN sent : ~Remote!LzReceive(k),
               \A executor \in remoteWhitelistedExecutors, id \in Ids :
                  ~Remote!ExecuteUpdate(executor, id) /\ ~Remote!RejectUpdate(executor, id)
        PROVE  UNCHANGED <<remoteUpdates, remoteHistory>>
    BY <2>2
    DEF Remote!DestinationNext, Remote!Ids, Ids, Remote!SetRiskParameterConfig,
        Remote!SetConfigActive, Remote!SetRemoteDelay, Remote!SetWhitelistedExecutor,
        Remote!registry, Remote!effects
  <2> QED
    BY <1>3, <2>2, ReceiveStep, ExecuteStep, RejectStep, SettingsStep
<1> QED
  BY <1>1, <1>2, <1>3 DEF SystemNext

LEMMA NextHolds ==
    ASSUME IInv, [SystemNext]_systemVars
    PROVE  IInv'
<1>1. Local'
  <2>1. CASE UNCHANGED <<oracleVars, receiverVars, now>>
    BY <2>1
    DEF IInv, Local, PublishedOK, ReceiverOK, SentOK, ForwardedByNow, IsForwarded, IsSent,
        updateCounter, oracleVars, oracleUpdates, receiverVars, receiverUpdates,
        receiverSettings
  <2>2. Remote!DestinationNext => UNCHANGED now
    BY DEF Remote!DestinationNext, Remote!LzReceive, Remote!ExecuteUpdate,
         Remote!RejectUpdate, Remote!SetRiskParameterConfig, Remote!SetConfigActive,
         Remote!SetRemoteDelay, Remote!SetWhitelistedExecutor, Remote!Change
  <2> QED
    BY <2>1, <2>2, LocalStep DEF IInv, SystemNext, systemVars, vars
<1>2. RemoteIInv'
  BY StepsOfDestination, RemoteAssumption, RemoteNextHolds DEF IInv
<1> QED
  BY <1>1, <1>2, RemoteStays DEF IInv

LEMMA AlwaysIInv == SystemSpec => []IInv
<1>1. SystemInit => IInv
  BY InitHolds
<1>2. IInv /\ [SystemNext]_systemVars => IInv'
  BY NextHolds
<1> QED
  BY <1>1, <1>2, PTL DEF SystemSpec

-----------------------------------------------------------------------------
(* The theorems *)

(* What the oracle publishes and the receiver forwards and resends is all    *)
(* that the destination is proved to cope with.                              *)
THEOREM ImplementsDestination == SystemSpec => Remote!DestinationSpec
<1>1. SystemInit => Remote!DestinationInit /\ sent \in Seq(Messages) /\ now \in Nat
  BY InitHolds, ReceiverAssumption DEF SystemInit, IInv, Local, SentOK, ReceiverOK
<1>2. IInv /\ [SystemNext]_systemVars => DestinationStep
  BY StepsOfDestination DEF IInv
<1> QED
  BY <1>1, <1>2, AlwaysIInv, PTL DEF SystemSpec, Remote!DestinationSpec, DestinationStep

(* At most one update of a type and market waits at the destination, for any *)
(* updates, markets, debounces, delays and any order of delivery.            *)
THEOREM OnePending == SystemSpec => []OnePendingAtDestination
<1>1. IInv => OnePendingAtDestination
  BY OnePendingFollows
  DEF IInv, OnePendingAtDestination
<1> QED
  BY <1>1, AlwaysIInv, PTL

(* The destination applies the changes of one parameter of one market in the *)
(* order in which it registered them, a debounce apart.                      *)
THEOREM ArrivalOrder == SystemSpec => []AppliedInArrivalOrder
<1>1. IInv => AppliedInArrivalOrder
  BY OrderFollows, RemoteAssumption
  DEF IInv, AppliedInArrivalOrder
<1> QED
  BY <1>1, AlwaysIInv, PTL

(* A forwarded change comes no sooner after it was first sent than the delay *)
(* of the destination, and no later than two days after it was published,    *)
(* however often it is sent again and however long a message takes.          *)
THEOREM Announced == SystemSpec => []RemoteChangesAnnounced
<1>1. IInv => RemoteChangesAnnounced
  BY AnnouncedFollows
<1> QED
  BY <1>1, AlwaysIInv, PTL
-----------------------------------------------------------------------------
(* The system implements RiskUpdate *)

SystemInv == LocalInv /\ RemoteOK /\ RemoteIInv

(* Only what was forwarded is known at the destination. *)
LEMMA OnlySentArrives ==
    SystemInv => \A id \in Ids :
        /\ remoteUpdates[id].status \in {"None", "Pending", "Executed", "Rejected"}
        /\ remoteUpdates[id].status # "None" => IsSent(id)
        /\ updates[id].status # "None" => ~(id > updateCounter)
<1>1. SystemInv => \A id \in Ids : remoteUpdates[id] \in RemoteRecords
  BY DEF SystemInv, RemoteIInv, RemoteTypeOK, Remote!Ids, Ids
<1> QED
  BY <1>1 DEF RemoteRecords, SystemInv, RemoteOK, Arrived, IsForwarded, LocalInv, Registry,
       RegistryOK

(* What moves the update id, and at most one other, is a step of RiskUpdate. *)
LEMMA MoveFollows ==
    ASSUME NEW id \in Ids, NEW other \in Ids,
           <<Place(id), Place(id)'>> \in Lifecycle!Steps,
           \A rest \in Ids \ {id, other} : Place(rest)' = Place(rest),
           \/ other = id
           \/ Place(other)' = Place(other)
           \/ /\ Place(id) = "Published" /\ Place(other) = "Pending"
              /\ Place(other)' = "Expired"
    PROVE  Lifecycle!Next
<1> DEFINE places == [i \in Ids |-> Place(i)]
<1>1. \A i \in Ids : places[i] = Place(i) /\ places'[i] = Place(i)'
  OBVIOUS
<1> HIDE DEF places
<1>2. Lifecycle!Move(id)
  <2>1. <<places[id], places'[id]>> \in Lifecycle!Steps
    BY <1>1
  <2>2. \A rest \in Ids \ {id, other} : places'[rest] = places[rest]
    BY <1>1
  <2>3. \/ other = id
        \/ places'[other] = places[other]
        \/ /\ places[id] = "Published" /\ places[other] = "Pending"
           /\ places'[other] = "Expired"
    BY <1>1
  <2> QED
    BY <2>1, <2>2, <2>3 DEF Lifecycle!Move, places
<1> QED
  BY <1>2 DEF Lifecycle!Next

LEMMA StandsStill ==
    ASSUME \A id \in Ids : Place(id)' = Place(id)
    PROVE  UNCHANGED [id \in Ids |-> Place(id)]
OBVIOUS

(* What is not touched stays where it is. *)
LEMMA Untouched ==
    ASSUME NEW id, UNCHANGED updateCounter,
           updates'[id].status = updates[id].status,
           remoteUpdates'[id].status = remoteUpdates[id].status
    PROVE  Place(id)' = Place(id)
BY DEF Place, PlaceHere, PlaceThere

LEMMA PublishMoves ==
    ASSUME SystemInv, SystemInv', NEW sender, NEW drafts \in Batches, Publish(sender, drafts),
           UNCHANGED receiverVars, UNCHANGED remoteVars
    PROVE  Lifecycle!Next
<1>1. updateCounter \in Nat /\ updateCounter' \in Nat /\ updateCounter <= updateCounter'
  BY PublishAdds DEF SystemInv, LocalInv
<1>3. ASSUME NEW id \in Ids
      PROVE  \/ Place(id)' = Place(id)
             \/ Place(id) = "Unpublished" /\ Place(id)' = "Published"
  <2>1. id \in Nat
    BY OracleAssumption DEF Ids
  <2>2. UNCHANGED <<updates, remoteUpdates>>
    BY DEF receiverVars, receiverUpdates, remoteVars
  <2>3. CASE id > updateCounter
    <3>1. updates[id].status = "None" /\ remoteUpdates[id].status = "None"
      BY <2>3, OnlySentArrives DEF IsSent
    <3> QED
      BY <2>2, <2>3, <3>1 DEF Place, PlaceHere
  <2>4. CASE ~(id > updateCounter)
    <3>1. ~(id > updateCounter')
      BY <1>1, <2>1, <2>4
    <3>2. PlaceHere(id)' = PlaceHere(id) /\ PlaceThere(id)' = PlaceThere(id)
      BY <2>2 DEF PlaceHere, PlaceThere
    <3> QED
      BY <2>2, <2>4, <3>1, <3>2 DEF Place
  <2> QED
    BY <2>3, <2>4
<1> DEFINE places == [i \in Ids |-> Place(i)]
<1>4. \A i \in Ids : places[i] = Place(i) /\ places'[i] = Place(i)'
  OBVIOUS
<1> HIDE DEF places
<1>5. \A id \in Ids : places'[id] # places[id] =>
                         places[id] = "Unpublished" /\ places'[id] = "Published"
  BY <1>3, <1>4
<1> QED
  BY <1>5 DEF Lifecycle!Next, Lifecycle!Publish, places

(* A processed update may end the one that waited before it, and no other.   *)
LEMMA ProcessEndsOne ==
    ASSUME LocalInv, NEW id \in 1 .. updateCounter, ProcessUpdate(id)
    PROVE  \E other \in Ids : \A rest \in Ids \ {id, other} : updates'[rest] = updates[rest]
<1> DEFINE update == updatesById[id]
           last == lastRegisteredUpdate[Key(update)]
<1>1. update.updateId = id /\ id \in Ids
  BY UpdateType DEF LocalInv
<1>2. PICK s, t, e : updates' = Registered(update, t, s, e)
  BY DEF ProcessUpdate, ForwardUpdate, ExecuteUpdateDirectly, RegisterUpdate
<1>3. ASSUME NEW i \in Ids \ {id, last}
      PROVE  updates'[i] = updates[i]
  BY <1>1, <1>2, <1>3 DEF Registered, StillPending
<1>4. CASE last \in Ids
  BY <1>3, <1>4
<1>5. CASE last \notin Ids
  BY <1>1, <1>3, <1>5
<1> QED
  BY <1>4, <1>5

LEMMA ProcessMoves ==
    ASSUME SystemInv, SystemInv', NEW id \in 1 .. updateCounter, ProcessUpdate(id),
           UNCHANGED remoteVars
    PROVE  Lifecycle!Next
<1>1. id \in Ids /\ ~(id > updateCounter) /\ LocalInv
  BY UpdateIds DEF SystemInv, LocalInv
<1>2. PICK other \in Ids : \A rest \in Ids \ {id, other} : updates'[rest] = updates[rest]
  BY <1>1, ProcessEndsOne
<1>3. /\ updates[id].status = "None"
      /\ updates'[id].status \in {"SENT_TO_DESTINATION", "Executed", "Pending"}
      /\ UNCHANGED updateCounter
      /\ \/ other = id
         \/ updates'[other] = updates[other]
         \/ updates[other].status = "Pending" /\ updates'[other].status = "Expired"
  <2>1. PICK s, t, e, safe :
           Processes(id, s, t, e, safe) /\ s \in {"SENT_TO_DESTINATION", "Executed", "Pending"}
    BY <1>1, ProcessCases
  <2> QED
    BY <1>2, <2>1 DEF Processes, updateCounter
<1>4. UNCHANGED remoteUpdates
  BY DEF remoteVars
<1>5. remoteUpdates[id].status = "None"
  BY <1>1, <1>3, OnlySentArrives DEF IsSent
<1>6. Place(id) = "Published"
  BY <1>1, <1>3, <1>5 DEF Place, PlaceHere
<1>7. Place(id)' \in {"Sent", "Executed", "Pending"}
  BY <1>1, <1>3, <1>4, <1>5 DEF Place, PlaceHere
<1>8. \A rest \in Ids \ {id, other} : Place(rest)' = Place(rest)
  BY <1>2, <1>3, <1>4, Untouched
<1>9. \/ other = id
      \/ Place(other)' = Place(other)
      \/ Place(other) = "Pending" /\ Place(other)' = "Expired"
  <2>1. CASE updates'[other] = updates[other]
    BY <1>3, <1>4, <2>1, Untouched
  <2>2. CASE updates[other].status = "Pending" /\ updates'[other].status = "Expired"
    <3>1. ~(other > updateCounter) /\ remoteUpdates[other].status = "None"
      BY <2>2, OnlySentArrives DEF IsSent
    <3> QED
      BY <1>3, <1>4, <2>2, <3>1 DEF Place, PlaceHere
  <2> QED
    BY <1>3, <2>1, <2>2
<1>10. <<Place(id), Place(id)'>> \in Lifecycle!Steps
  BY <1>6, <1>7 DEF Lifecycle!Steps
<1> QED
  BY <1>1, <1>6, <1>8, <1>9, <1>10, MoveFollows

(* What an executor does moves the update, or only sends it again. *)
LEMMA ExecutorMoves ==
    ASSUME SystemInv, SystemInv', NEW executor, NEW id \in 1 .. updateCounter,
           ExecuteRegisteredUpdate(executor, id) \/ RejectUpdate(executor, id)
              \/ ResendRemoteUpdate(executor, id),
           UNCHANGED remoteVars
    PROVE  Lifecycle!Next \/ UNCHANGED [i \in Ids |-> Place(i)]
<1>1. id \in Ids /\ ~(id > updateCounter) /\ updates \in [Ids -> Records]
  BY UpdateIds DEF SystemInv, LocalInv
<1>2. UNCHANGED <<updateCounter, remoteUpdates>>
  BY DEF ExecuteRegisteredUpdate, RejectUpdate, ResendRemoteUpdate, oracleVars,
       oracleUpdates, updateCounter, remoteVars
<1>3. \A i \in Ids \ {id} : updates'[i] = updates[i]
  BY <1>1 DEF ExecuteRegisteredUpdate, RejectUpdate, ResendRemoteUpdate
<1>4. CASE updates[id].status = "Pending" /\ updates'[id].status \in {"Executed", "Rejected"}
  <2>1. remoteUpdates[id].status = "None"
    BY <1>1, <1>4, OnlySentArrives DEF IsSent
  <2>2. Place(id) = "Pending"
    BY <1>1, <1>4, <2>1 DEF Place, PlaceHere
  <2>3. Place(id)' \in {"Executed", "Rejected"}
    BY <1>1, <1>2, <1>4, <2>1 DEF Place, PlaceHere
  <2>4. \A rest \in Ids \ {id} : Place(rest)' = Place(rest)
    BY <1>2, <1>3, Untouched
  <2>5. <<Place(id), Place(id)'>> \in Lifecycle!Steps
    BY <2>2, <2>3 DEF Lifecycle!Steps
  <2> QED
    BY <1>1, <2>4, <2>5, MoveFollows
<1>5. CASE updates'[id].status = updates[id].status
  <2>1. \A i \in Ids : Place(i)' = Place(i)
    BY <1>2, <1>3, <1>5, Untouched
  <2> QED
    BY <2>1, StandsStill
<1>6. \/ updates[id].status = "Pending" /\ updates'[id].status \in {"Executed", "Rejected"}
      \/ updates'[id].status = updates[id].status
  BY <1>1 DEF ExecuteRegisteredUpdate, IsUpdateExecutable, RejectUpdate, ResendRemoteUpdate,
       Records
<1> QED
  BY <1>4, <1>5, <1>6

LEMMA QuietMoves ==
    ASSUME SystemInv, SystemInv', UNCHANGED <<updatesById, updates, remoteUpdates>>
    PROVE  UNCHANGED [id \in Ids |-> Place(id)]
<1>1. \A id \in Ids : Place(id)' = Place(id)
  BY Untouched DEF updateCounter
<1> QED
  BY <1>1, StandsStill

LEMMA LocalMoves ==
    ASSUME SystemInv, SystemInv', Next, UNCHANGED remoteVars
    PROVE  Lifecycle!Next \/ UNCHANGED [id \in Ids |-> Place(id)]
<1>1. UNCHANGED remoteUpdates
  BY DEF remoteVars
<1>2. CASE OracleNext /\ UNCHANGED receiverVars
  <2>1. CASE UNCHANGED updatesById
    BY <1>1, <1>2, <2>1, QuietMoves DEF receiverVars, receiverUpdates
  <2>2. CASE \E sender \in authorizedSenders, drafts \in Batches : Publish(sender, drafts)
    BY <1>2, <2>2, PublishMoves
  <2> QED
    BY <1>2, <2>1, <2>2
    DEF OracleNext, AddAuthorizedSender, RemoveAuthorizedSender, AddUpdateType,
        SetUpdateTypeActive, oracleUpdates
<1>3. CASE \E id \in 1 .. updateCounter : ProcessUpdate(id)
  BY <1>3, ProcessMoves
<1>4. CASE \E executor \in whitelistedExecutors, id \in 1 .. updateCounter :
              ExecuteRegisteredUpdate(executor, id) \/ RejectUpdate(executor, id)
                 \/ ResendRemoteUpdate(executor, id)
  BY <1>4, ExecutorMoves
<1>5. CASE SettingsNext
  <2>1. UNCHANGED <<updatesById, updates>>
    BY <1>5
    DEF SettingsNext, SetPaused, SetRiskParameterConfig, SetConfigActive,
        SetWhitelistedExecutor, SetSafeDeltaBps, receiverUpdates, oracleVars, oracleUpdates
  <2> QED
    BY <1>1, <2>1, QuietMoves
<1>6. CASE \E seconds \in TimeSteps : Tick(seconds)
  BY <1>1, <1>6, QuietMoves
  DEF Tick, oracleVars, oracleUpdates, receiverVars, receiverUpdates
<1> QED
  BY <1>2, <1>3, <1>4, <1>5, <1>6 DEF Next, CallNext, ReceiverNext

(* What the destination does moves the update it registers, applies or       *)
(* rejects.                                                                  *)
LEMMA RemoteMoves ==
    ASSUME SystemInv, SystemInv', Remote!DestinationNext,
           UNCHANGED <<oracleVars, receiverVars>>
    PROVE  Lifecycle!Next \/ UNCHANGED [id \in Ids |-> Place(id)]
<1>1. UNCHANGED <<updateCounter, updatesById, updates>>
  BY DEF oracleVars, oracleUpdates, receiverVars, receiverUpdates, updateCounter
<1>2. remoteUpdates \in [Ids -> RemoteRecords]
  BY DEF SystemInv, RemoteIInv, RemoteTypeOK, Remote!Ids, Ids
<1>4. ASSUME NEW id \in Ids,
             \A i \in Ids \ {id} : remoteUpdates'[i] = remoteUpdates[i],
             \/ /\ remoteUpdates[id].status = "None"
                /\ remoteUpdates'[id].status = "Pending"
             \/ /\ remoteUpdates[id].status = "Pending"
                /\ remoteUpdates'[id].status \in {"Executed", "Rejected"}
      PROVE  Lifecycle!Next
  <2>1. IsSent(id)
    <3>1. SystemInv' => \A i \in Ids : remoteUpdates'[i].status # "None" => IsSent(i)'
      BY DEF SystemInv, RemoteOK, Arrived, IsForwarded
    <3> QED
      BY <1>1, <1>4, <3>1 DEF IsSent
  <2>2. ~(id > updateCounter) /\ ~(id > updateCounter')
    BY <1>1, <2>1, OnlySentArrives DEF IsSent
  <2>3. <<Place(id), Place(id)'>> \in {<<"Sent", "RemotePending">>,
              <<"RemotePending", "RemoteExecuted">>, <<"RemotePending", "RemoteRejected">>}
    BY <1>1, <1>4, <2>1, <2>2 DEF Place, PlaceHere, PlaceThere, IsSent
  <2>4. <<Place(id), Place(id)'>> \in Lifecycle!Steps
    BY <2>3 DEF Lifecycle!Steps
  <2>5. \A rest \in Ids \ {id} : Place(rest)' = Place(rest)
    BY <1>1, <1>4, Untouched
  <2> QED
    BY <1>4, <2>4, <2>5, MoveFollows
<1>5. ASSUME NEW k \in DOMAIN sent, Remote!LzReceive(k)
      PROVE  Lifecycle!Next \/ UNCHANGED [id \in Ids |-> Place(id)]
  <2>1. PICK id : id = sent[k].updateId
    OBVIOUS
  <2>2. id \in Ids
    BY <2>1, OracleAssumption
    DEF SystemInv, LocalInv, Local, SentOK, PublishedOK, IsForwarded, Ids, updateCounter
  <2>3. CASE UNCHANGED remoteUpdates
    BY <1>1, <2>3, QuietMoves
  <2>4. CASE /\ remoteUpdates[id].status = "None"
             /\ remoteUpdates' = [remoteUpdates EXCEPT ![id] =
                   [status |-> "Pending", arrivalTime |-> now, update |-> sent[k]]]
    BY <1>2, <1>4, <2>2, <2>4
  <2> QED
    BY <1>5, <2>1, <2>3, <2>4 DEF Remote!LzReceive, Remote!IsDropped
<1>6. ASSUME NEW executor, NEW id \in Ids, Remote!ExecuteUpdate(executor, id)
      PROVE  Lifecycle!Next
  <2>1. remoteUpdates' = [remoteUpdates EXCEPT ![id].status = "Executed"]
        /\ remoteUpdates[id].status = "Pending"
    BY <1>6 DEF Remote!ExecuteUpdate
  <2> QED
    BY <1>2, <1>4, <2>1 DEF RemoteRecords
<1>7. ASSUME NEW executor, NEW id \in Ids, Remote!RejectUpdate(executor, id)
      PROVE  Lifecycle!Next
  <2>1. remoteUpdates' = [remoteUpdates EXCEPT ![id].status = "Rejected"]
        /\ remoteUpdates[id].status = "Pending"
    BY <1>7 DEF Remote!RejectUpdate
  <2> QED
    BY <1>2, <1>4, <2>1 DEF RemoteRecords
<1>8. CASE UNCHANGED remoteUpdates
  BY <1>1, <1>8, QuietMoves
<1> QED
  BY <1>5, <1>6, <1>7, <1>8
  DEF Remote!DestinationNext, Remote!Ids, Ids, Remote!SetRiskParameterConfig,
      Remote!SetConfigActive, Remote!SetRemoteDelay, Remote!SetWhitelistedExecutor,
      Remote!registry

LEMMA SystemInvNext ==
    ASSUME SystemInv, [SystemNext]_systemVars
    PROVE  SystemInv'
<1>1. IInv'
  BY NextHolds DEF SystemInv, LocalInv, IInv
<1>2. LocalInv'
  <2>1. CASE Next
    BY <2>1, LocalInvNext DEF SystemInv
  <2>2. CASE UNCHANGED <<oracleVars, receiverVars, now>>
    BY <2>2, LocalInvStays DEF SystemInv
  <2>3. Remote!DestinationNext => UNCHANGED now
    BY DEF Remote!DestinationNext, Remote!LzReceive, Remote!ExecuteUpdate,
         Remote!RejectUpdate, Remote!SetRiskParameterConfig, Remote!SetConfigActive,
         Remote!SetRemoteDelay, Remote!SetWhitelistedExecutor, Remote!Change
  <2> QED
    BY <2>1, <2>2, <2>3 DEF SystemNext, systemVars, vars
<1> QED
  BY <1>1, <1>2 DEF SystemInv, IInv

LEMMA AlwaysSystemInv == SystemSpec => []SystemInv
<1>1. SystemInit => SystemInv
  BY InitHolds, LocalInit DEF SystemInit, SystemInv, IInv
<1>2. SystemInv /\ [SystemNext]_systemVars => SystemInv'
  BY SystemInvNext
<1> QED
  BY <1>1, <1>2, PTL DEF SystemSpec

(* Both chains together take every update only through the places of         *)
(* RiskUpdate: it is applied at most once, on one chain, and never after it  *)
(* was rejected or expired, for any updates and configurations, any resends  *)
(* and any order of delivery.                                                *)
THEOREM ImplementsRiskUpdate == SystemSpec => FollowsRiskUpdate
<1>1. SystemInit => Lifecycle!Init
  <2> SUFFICES ASSUME SystemInit
               PROVE  [id \in Ids |-> Place(id)] = [id \in Ids |-> "Unpublished"]
    BY DEF Lifecycle!Init
  <2>1. updateCounter = 0
    BY DEF SystemInit, Init, OracleInit, updateCounter
  <2>2. \A id \in Ids : id > 0
    BY OracleAssumption DEF Ids
  <2> QED
    BY <2>1, <2>2 DEF Place
<1>2. SystemInv /\ SystemInv' /\ [SystemNext]_systemVars =>
         [Lifecycle!Next]_[id \in Ids |-> Place(id)]
  <2> SUFFICES ASSUME SystemInv, SystemInv', [SystemNext]_systemVars
               PROVE  Lifecycle!Next \/ UNCHANGED [id \in Ids |-> Place(id)]
    OBVIOUS
  <2>1. CASE Next /\ UNCHANGED remoteVars
    BY <2>1, LocalMoves
  <2>2. CASE Remote!DestinationNext /\ UNCHANGED <<oracleVars, receiverVars>>
    BY <2>2, RemoteMoves
  <2>3. CASE UNCHANGED systemVars
    BY <2>3, QuietMoves
    DEF systemVars, vars, oracleVars, oracleUpdates, receiverVars, receiverUpdates,
        remoteVars
  <2> QED
    BY <2>1, <2>2, <2>3 DEF SystemNext
<1> QED
  BY <1>1, <1>2, AlwaysSystemInv, PTL DEF SystemSpec, FollowsRiskUpdate, Lifecycle!Spec
=============================================================================
