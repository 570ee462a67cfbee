----------------------------- MODULE RiskStewards -----------------------------
(***************************************************************************)
(* The contracts that judge and apply an update for a receiver:            *)
(* MarketCapsRiskSteward, CollateralFactorsRiskSteward and IRMRiskSteward  *)
(* on BaseRiskSteward.  A value is the list of the numbers it encodes, one *)
(* for a cap or an interest rate model (its address), two for collateral   *)
(* factors; any other length does not decode.                              *)
(***************************************************************************)
EXTENDS Integers, Sequences

CONSTANTS
    MAX_BPS,
    CoreMarkets        \* the markets whose comptroller is the core pool's

Stewards == {"MarketCaps", "CollateralFactors", "IRM"}

-----------------------------------------------------------------------------
(* BaseRiskSteward *)
IsWithinSafeDelta(newValue, currentValue, safeDeltaBps) ==
    LET diff == IF newValue > currentValue THEN newValue - currentValue
                                           ELSE currentValue - newValue
    IN diff <= (safeDeltaBps * currentValue) \div MAX_BPS

(* Of a value of several numbers, each must be close to one that is not 0.   *)
IsCloseTo(newValue, current, safeDeltaBps) ==
    \A k \in DOMAIN current :
        current[k] # 0 /\ IsWithinSafeDelta(newValue[k], current[k], safeDeltaBps)

-----------------------------------------------------------------------------
(* For each steward: whether isSafeForDirectExecution does not revert        *)
(* (Assessable) and what it then returns (Safe), and whether applyUpdate     *)
(* does not revert (Applicable).  The comptroller or the vToken may still    *)
(* refuse a value that is applicable.                                        *)

(* MarketCapsRiskSteward *)
IsCap(update) ==
    update.updateType \in {"supplyCap", "borrowCap"} /\ Len(update.newValue) = 1

CapAssessable(update, current) == IsCap(update) /\ update.newValue # current

CapSafe(update, current, safeDeltaBps) ==
    IsCloseTo(update.newValue, current, safeDeltaBps)

CapApplicable(update) == IsCap(update)

(* CollateralFactorsRiskSteward *)
IsEMode(update) == update.poolId # 0

FactorsDecode(update) == Len(update.newValue) = 2

FactorsAssessable(update, current) ==
    /\ update.updateType = "collateralFactors"
    /\ IsEMode(update) \/ (FactorsDecode(update) /\ update.newValue # current)

FactorsSafe(update, current, safeDeltaBps) ==
    ~IsEMode(update) /\ IsCloseTo(update.newValue, current, safeDeltaBps)

FactorsApplicable(update) ==
    /\ update.updateType = "collateralFactors"
    /\ FactorsDecode(update)
    /\ IsEMode(update) => update.market \in CoreMarkets

(* IRMRiskSteward, which finds nothing safe. *)
ModelApplicable(update) ==
    update.updateType = "interestRateModel" /\ Len(update.newValue) = 1

ModelAssessable(update, current) == ModelApplicable(update) /\ update.newValue # current

-----------------------------------------------------------------------------
(* Where an update takes effect: eMode pools have factors of their own. *)
Slot(update) ==
    <<update.updateType, update.market,
      IF update.updateType = "collateralFactors" THEN update.poolId ELSE 0>>

IsAssessable(steward, update, current) ==
    \/ steward = "MarketCaps" /\ CapAssessable(update, current)
    \/ steward = "CollateralFactors" /\ FactorsAssessable(update, current)
    \/ steward = "IRM" /\ ModelAssessable(update, current)

IsSafeForDirectExecution(steward, update, current, safeDeltaBps) ==
    \/ steward = "MarketCaps" /\ CapSafe(update, current, safeDeltaBps)
    \/ steward = "CollateralFactors" /\ FactorsSafe(update, current, safeDeltaBps)

IsApplicable(steward, update) ==
    \/ steward = "MarketCaps" /\ CapApplicable(update)
    \/ steward = "CollateralFactors" /\ FactorsApplicable(update)
    \/ steward = "IRM" /\ ModelApplicable(update)
=============================================================================
