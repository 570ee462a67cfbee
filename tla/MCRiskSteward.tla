---------------------------- MODULE MCRiskSteward ----------------------------
(* Instances of RiskStewardLens, and with it of the oracle, the receiver and *)
(* the stewards, for TLC.                                                    *)
EXTENDS RiskStewardLens

CONSTANTS core, isolated, alice, bob

(* Caps start at 4; with half a value as safe delta, 6 is safe and 9 is not. *)
Draft(type, market, value, pool, eid) ==
    [updateType |-> type, market |-> market, newValue |-> value, poolId |-> pool,
     destLzEid |-> eid]

SafeCap == Draft("supplyCap", core, <<6>>, 0, 0)
LargeCap == Draft("supplyCap", core, <<9>>, 0, 1)
RemoteCap == Draft("supplyCap", core, <<9>>, 0, 2)

(* Queued like any other, and never applied: isolated pools have no eMode.   *)
NoSuchPool == Draft("collateralFactors", isolated, <<2, 3>>, 1, 0)
MCBatches == {<<SafeCap>>, <<LargeCap>>, <<RemoteCap>>, <<NoSuchPool, LargeCap>>}

MCConfigs ==
    [type \in UpdateTypes |->
        CASE type = "borrowCap" -> NoConfig
          [] type = "supplyCap" ->
                [active |-> TRUE, riskSteward |-> "MarketCaps", debounce |-> 2, timelock |-> 1]
          [] type = "collateralFactors" ->
                [active |-> TRUE, riskSteward |-> "CollateralFactors", debounce |-> 2,
                 timelock |-> 1]]

(* The last one is refused. *)
MCConfigChoices ==
    [type \in {"supplyCap"} |->
        {[riskSteward |-> "MarketCaps", debounce |-> 1, timelock |-> 2],
         [riskSteward |-> "MarketCaps", debounce |-> 1, timelock |-> 3]}]

MCDeltas == [steward \in Stewards |-> IF steward = "IRM" THEN 0 ELSE 1]

MCParameters ==
    [slot \in UpdateTypes \X Markets \X {0, 1} |->
        IF slot[1] = "collateralFactors" THEN <<4, 4>> ELSE <<4>>]
=============================================================================
