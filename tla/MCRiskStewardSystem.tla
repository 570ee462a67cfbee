-------------------------- MODULE MCRiskStewardSystem --------------------------
(* Instances of RiskStewardSystem for TLC. *)
EXTENDS RiskStewardSystem

CONSTANTS core, isolated, alice

Draft(type, market, value, pool, eid) ==
    [updateType |-> type, market |-> market, newValue |-> value, poolId |-> pool,
     destLzEid |-> eid]

RemoteCap == Draft("supplyCap", core, <<9>>, 0, 2)
RemoteEMode == Draft("collateralFactors", isolated, <<2, 3>>, 1, 2)
RemoteFactors == Draft("collateralFactors", isolated, <<2, 3>>, 0, 2)
ElsewhereCap == Draft("supplyCap", core, <<9>>, 0, 3)
SafeCap == Draft("supplyCap", core, <<6>>, 0, 0)
EMode == Draft("collateralFactors", core, <<2, 3>>, 1, 0)
IsolatedEMode == Draft("collateralFactors", isolated, <<2, 3>>, 1, 0)
Model == Draft("interestRateModel", core, <<7>>, 0, 1)

MCBatches == {<<RemoteCap>>, <<SafeCap>>, <<ElsewhereCap, IsolatedEMode>>,
              <<RemoteEMode, RemoteFactors>>, <<EMode, Model>>}

MCTypes == {"supplyCap", "collateralFactors", "interestRateModel"}

StewardOf(type) == CASE type = "supplyCap" -> "MarketCaps"
                     [] type = "collateralFactors" -> "CollateralFactors"
                     [] type = "interestRateModel" -> "IRM"

MCConfigs ==
    [type \in MCTypes |->
        [active |-> TRUE, riskSteward |-> StewardOf(type), debounce |-> 1, timelock |-> 1]]

MCRemoteConfigs ==
    [type \in MCTypes |->
        IF type = "interestRateModel"
        THEN [active |-> FALSE, debounce |-> 0, riskSteward |-> "None"]
        ELSE [active |-> TRUE, debounce |-> 2, riskSteward |-> StewardOf(type)]]

MCConfigChoices ==
    [type \in {"supplyCap"} |-> {[riskSteward |-> "IRM", debounce |-> 1, timelock |-> 0]}]

NoChoices == [type \in {} |-> {}]

MCDeltas == [steward \in Stewards |-> IF steward = "IRM" THEN 0 ELSE 1]

MCParameters ==
    [slot \in UpdateTypes \X Markets \X {0, 1} |->
        CASE slot[1] = "collateralFactors" -> <<4, 4>>
          [] slot[1] = "interestRateModel" -> <<5>>
          [] OTHER -> <<4>>]
=============================================================================
