--------------------------- MODULE RiskStewardSystem ---------------------------
(***************************************************************************)
(* The oracle, its receiver and the stewards on one chain, and the         *)
(* receiver on another chain, which gets what was forwarded to it.  The    *)
(* names of the first are kept; those of the second begin with remote.     *)
(* The chains share the clock.                                             *)
(***************************************************************************)
EXTENDS RiskStewardReceiver

CONSTANTS
    RemoteEid,
    RemoteMarkets, RemoteExecutors, RemoteConfigChoices, RemoteDelayChoices,
    RemoteConfigs, RemoteInitialExecutors, RemoteParameters, RemoteDelay

VARIABLES
    remoteConfigs, remoteUpdates, remoteLastRegisteredUpdateId, remoteLastExecutedAt,
    remoteWhitelistedExecutors, remoteDelay, remoteParameters, remoteDelivered,
    remoteHistory

(* The updates that may be forwarded: the oracle's, published at some time.  *)
Messages ==
    {[updateId |-> id, timestamp |-> time, updateType |-> draft.updateType,
      market |-> draft.market, newValue |-> draft.newValue, poolId |-> draft.poolId,
      destLzEid |-> draft.destLzEid] :
        id \in Ids, time \in 1 .. MaxTime, draft \in Drafts}

Remote == INSTANCE DestinationStewardReceiver WITH
    Markets <- RemoteMarkets, Executors <- RemoteExecutors,
    ConfigChoices <- RemoteConfigChoices, DelayChoices <- RemoteDelayChoices,
    InitialConfigs <- RemoteConfigs, InitialExecutors <- RemoteInitialExecutors,
    InitialParameters <- RemoteParameters, InitialDelay <- RemoteDelay,
    REMOTE_UPDATE_EXPIRATION_TIME <- UPDATE_EXPIRATION_TIME, LAYER_ZERO_EID <- RemoteEid,
    riskParameterConfigs <- remoteConfigs, updates <- remoteUpdates,
    lastRegisteredUpdateId <- remoteLastRegisteredUpdateId,
    lastExecutedAt <- remoteLastExecutedAt,
    whitelistedExecutors <- remoteWhitelistedExecutors,
    parameters <- remoteParameters, packets <- sent, delivered <- remoteDelivered,
    history <- remoteHistory

remoteVars == <<remoteConfigs, remoteUpdates, remoteLastRegisteredUpdateId,
                remoteLastExecutedAt, remoteWhitelistedExecutors, remoteDelay,
                remoteParameters, remoteDelivered, remoteHistory>>
systemVars == <<vars, remoteVars>>

ASSUME RemoteAssumption == Remote!DestinationAssumption

-----------------------------------------------------------------------------
SystemInit == Init /\ Remote!DestinationInit

SystemNext ==
    \/ Next /\ UNCHANGED remoteVars
    \/ Remote!DestinationNext /\ UNCHANGED <<oracleVars, receiverVars>>

SystemSpec == SystemInit /\ [][SystemNext]_systemVars

-----------------------------------------------------------------------------
(* Properties *)

(* Where an update is, by the records of both chains. *)
PlaceHere(id) ==
    CASE updates[id].status = "None" -> "Published"
      [] updates[id].status = "SENT_TO_DESTINATION" -> "Sent"
      [] OTHER -> updates[id].status

PlaceThere(id) ==
    CASE remoteUpdates[id].status = "Pending" -> "RemotePending"
      [] remoteUpdates[id].status = "Executed" -> "RemoteExecuted"
      [] remoteUpdates[id].status = "Rejected" -> "RemoteRejected"

Place(id) ==
    IF id > updateCounter THEN "Unpublished"
    ELSE IF remoteUpdates[id].status = "None" THEN PlaceHere(id)
    ELSE PlaceThere(id)

Lifecycle == INSTANCE RiskUpdate WITH place <- [id \in Ids |-> Place(id)]

(* Both chains together move every update as RiskUpdate says: resent,        *)
(* reordered and dropped messages, rejections and expiry never make an       *)
(* update be applied twice, or after it ended.  resendRemoteUpdate is "safe" *)
(* in this sense.                                                            *)
FollowsRiskUpdate == Lifecycle!Spec

(* At most one update of a type and market waits at the destination, however *)
(* messages are reordered and repeated.                                      *)
OnePendingAtDestination == Remote!OnePendingAtDestination

(* The destination applies the changes of one parameter of one market in the *)
(* order in which it registered them, a debounce apart.                      *)
AppliedInArrivalOrder == Remote!AppliedInArrivalOrder

(* A forwarded change comes no sooner after it was first sent than the delay *)
(* of the destination, and no later than two days after it was published.    *)
RemoteChangesAnnounced ==
    \A id \in Ids :
        remoteUpdates[id].status = "Executed" =>
            /\ updates[id].unlockTime + remoteHistory[id].delay <= remoteHistory[id].at
            /\ remoteHistory[id].at <= ExpirationTime(updatesById[id])
=============================================================================
