---------------------------- MODULE RiskStewardLens ----------------------------
(***************************************************************************)
(* RiskStewardLens.sol: the view contract that computes from the storage   *)
(* of the oracle and the receiver, by rules of its own, what may be done   *)
(* with an update now.  It reverts where the steward that it asks reverts, *)
(* and where it has no current value to show.  The values themselves are   *)
(* left out; the reads of an unknown eMode pool that the comptroller       *)
(* refuses are among the failing calls of the receiver's model.            *)
(***************************************************************************)
EXTENDS RiskStewardReceiver

(* _getDebounceEnd *)
DebounceEndsAt(update) ==
    LET last == lastProcessedUpdate[Key(update)]
    IN IF last = 0 \/ updates[last].executedAt = 0 THEN 0
       ELSE updates[last].executedAt + Config(update).debounce

(* Mutant: an expired update still blocks. *)
PendingUpdateId(update) ==
    LET registeredId == lastRegisteredUpdate[Key(update)]
    IN IF \/ registeredId \in {0, update.updateId}
          \/ updates[registeredId].status # "Pending"
       THEN 0
       ELSE registeredId

(* _getBlockingUpdate *)
BlockingUpdateId(update) ==
    LET registeredId == lastRegisteredUpdate[Key(update)]
    IN IF \/ registeredId \in {0, update.updateId}
          \/ updates[registeredId].status # "Pending"
          \/ ExpirationTime(updatesById[registeredId]) < now
       THEN 0
       ELSE registeredId

(* expiresAt of an update that may be processed. *)
ProcessBy(update) == ExpirationTime(update) - Config(update).timelock

(* expiresAt of any update; 0 when it was resolved or replaced. *)
ExpiresAt(update) ==
    CASE updates[update.updateId].status = "None" /\ IsLatest(update) -> ProcessBy(update)
      [] updates[update.updateId].status \in {"Pending", "SENT_TO_DESTINATION"} ->
            ExpirationTime(update)
      [] OTHER -> 0

(* What is to be known about an update whose status is None, beyond its      *)
(* expiry and whether a newer one has replaced it.                           *)
IsPreviewed(update) ==
    /\ IsLatest(update)
    /\ ProcessBy(update) >= now
    /\ Steward(update) # "None"

(* _buildDetails, whatever the status: an isolated market has no eMode pool  *)
(* whose factors could be read.                                              *)
DetailsRevert(update) ==
    /\ ~IsRemote(update)
    /\ update.updateType = "collateralFactors"
    /\ IsEMode(update)
    /\ update.market \notin CoreMarkets

(* _previewProcessUpdate *)
PreviewReverts(update) ==
    /\ IsPreviewed(update)
    /\ ~IsRemote(update)
    /\ ~IsAssessable(Steward(update), update, parameters[Slot(update)])

CanProcessNow(update) ==
    /\ IsPreviewed(update)
    /\ Config(update).active
    /\ ~paused
    /\ ~IsRemote(update) => DebounceEndsAt(update) <= now /\ BlockingUpdateId(update) = 0

(* executableNow of an update whose status is None, and of any other. *)
PreviewedExecutable(update) == CanProcessNow(update) /\ ~IsRemote(update) /\ IsSafe(update)

ExecutableNow(update) ==
    IF updates[update.updateId].status = "None" THEN PreviewedExecutable(update)
                                                ELSE IsUpdateExecutable(update.updateId)

-----------------------------------------------------------------------------
(* Properties *)

(* The lens and the receiver agree, though each has its own code: the lens   *)
(* calls an update processable exactly when processUpdate accepts it, and    *)
(* executable exactly when a call would apply it now; and after the time     *)
(* that the lens gives as its expiry, no call accepts it.  Where it reverts  *)
(* with a steward's error, processUpdate reverts as well; where it reverts   *)
(* for want of an eMode pool, the receiver may accept the update and call it *)
(* executable, but never applies it, whatever steward it asks.               *)
LensAgrees ==
    \A id \in 1 .. updateCounter :
        LET update == updatesById[id]
            isNew == updates[id].status = "None"
            isProcessable == isNew /\ Processable(update)
        IN \/ DetailsRevert(update) /\ updates[id].status # "Executed"
           \/ isNew /\ PreviewReverts(update) /\ ~isProcessable
           \/ /\ ~DetailsRevert(update)
              /\ isNew => (CanProcessNow(update) <=> isProcessable)
              /\ ExecutableNow(update) <=>
                    \/ isProcessable /\ ~IsRemote(update) /\ IsSafe(update)
                    \/ IsUpdateExecutable(id)
              /\ ExpiresAt(update) < now => ~isProcessable /\ ~IsUpdateExecutable(id)
=============================================================================
