----------------------------- MODULE Deployment -----------------------------
(* The deployment of governance on one chain, by the scripts of deploy/. On a   *)
(* destination chain the deployer starts with every power: it administers the  *)
(* access control manager and owns the executor. It must end with none, and a  *)
(* proposal reaches the chain only through the executor it hands over. Scripts *)
(* are run by tag, in any order, and again after a failure. A transaction that *)
(* a script sends is mined later, those of the deployer in their order, also   *)
(* when the script has died, so the next run may read a state that they will   *)
(* change. hardhat-deploy and the chain are modelled as the scripts use them.  *)
EXTENDS Naturals, Sequences, FiniteSets

CONSTANTS DEFAULT_ADMIN_ROLE, AnyContract,
          Deployer, Guardian, OtherBatcher, None,
          BatchSize,          \* groups of grants in a batch (PERMISSION_BATCH_SIZE)
          MaxCrashes,         \* bound: times a script is killed
          MaxPending,         \* bound: transactions waiting when a script starts
          MaxLists            \* bound: lists of batches that are printed

ASSUME BatchSizePositive == BatchSize \in Nat \ {0}

ACM == INSTANCE AccessControlManager

VARIABLES task,               \* what is deployed: one of Tasks
          code,               \* the contracts that are deployed and recorded
          owner,              \* owner() of each contract that has one
          pendingOwner,       \* pendingOwner(), or None
          settings,           \* what has been configured on the bridge
          functionRegistry,   \* signatures the OmnichainExecutorOwner forwards
          grants,             \* what the access control manager has granted
          authorizedBatchers, batches, batchExecuted,    \* of the aggregator
          mempool,            \* the deployer's transactions, sent and not mined
          receipt,            \* of the last one mined, with the batch it added
          run,                \* the script that runs, and where it is
          proposed,           \* scripts whose printed commands can be proposed
          indexes,            \* lists of batch indexes printed so far
          crashes

chainVars == <<code, owner, pendingOwner, settings, functionRegistry, grants,
               authorizedBatchers, batches, batchExecuted>>
toolVars == <<mempool, receipt, run, proposed, indexes, crashes>>
vars == <<task, chainVars, toolVars>>

-----------------------------------------------------------------------------
(* The contracts and the permissions the scripts ask for.                      *)

Timelocks == {"NormalTimelock", "FastTrackTimelock", "CriticalTimelock"}

RiskStewards == {"MarketCapsRiskSteward", "CollateralFactorsRiskSteward",
                 "IRMRiskSteward"}

(* transferOwnership only nominates the owner of these: it has to accept.      *)
TwoStep == {"OmnichainExecutorOwner", "AuxiliaryCommandsAggregator", "RiskOracle",
            "RiskStewardReceiver", "DestinationStewardReceiver"} \cup RiskStewards

(* It gives these away at once.                                                *)
OneStep == {"OmnichainProposalSender", "OmnichainGovernanceExecutor"}

Ownables == TwoStep \cup OneStep

(* One signature stands for each set of signatures that go together. The two   *)
(* lists differ in how they spell addTimelocks, hence in its selector.         *)
AllRoutes(addTimelocks) == {"pause()", addTimelocks}

NormalMethods(addTimelocks) ==
    AllRoutes(addTimelocks) \cup {"setGuardian(address)", "setSrcChainId(uint16)",
                                  "setTrustedRemoteAddress(uint16,bytes)"}

GuardianMethods(addTimelocks) ==
    AllRoutes(addTimelocks) \cup {"unpause()", "setSrcChainId(uint16)",
                                  "setTrustedRemoteAddress(uint16,bytes)"}

Allow(contract, methods, account) ==
    {<<ACM!CallRole(contract, m), account>> : m \in methods}

(* The grants for the timelocks of the three routes, then for the guardian.    *)
OwnerGrants(addTimelocks) ==
    LET On(methods, account) == Allow("OmnichainExecutorOwner", methods, account)
        bridge == {"transferBridgeOwnership(address)"}
    IN <<On(NormalMethods(addTimelocks) \cup bridge, "NormalTimelock"),
         On(AllRoutes(addTimelocks), "FastTrackTimelock"),
         On(AllRoutes(addTimelocks), "CriticalTimelock"),
         On(GuardianMethods(addTimelocks) \cup bridge, Guardian)>>

ExecutorSignatures ==
    NormalMethods("addTimelocks(ITimelock[])")
        \cup GuardianMethods("addTimelocks(ITimelock[])")

ExecutorOwnerGrants ==
    UNION {OwnerGrants("addTimelocks(ITimelock[])")[i] : i \in 1..4}

PermissionGroups == OwnerGrants("addTimelocks(address[])")

SenderGrants ==
    LET On(methods, account) == Allow("OmnichainProposalSender", methods, account)
        routes == {"execute(uint16,bytes,bytes,address)", "setMaxDailyLimit(uint16,uint256)"}
    IN On(routes \cup {"setTrustedRemoteAddress(uint16,bytes)"}, "NormalTimelock")
       \cup On(routes, "FastTrackTimelock") \cup On(routes, "CriticalTimelock")
       \cup On({"setMaxDailyLimit(uint16,uint256)"}, Guardian)

-----------------------------------------------------------------------------
(* The scripts, as the steps they take on the chain. `Unless' passes over the  *)
(* next steps when the deployer does not own the contract.                     *)

Deploy(c) == [op |-> "deploy", contract |-> c]
Need(cs) == [op |-> "need", contracts |-> cs]
Unless(c, steps) == [op |-> "unless", contract |-> c, skip |-> steps]
Send(tx) == [op |-> "send", tx |-> tx]
Wait == [op |-> "wait"]
RequireAuthorizedBatcher == [op |-> "requireAuthorizedBatcher"]
ShowCommands == [op |-> "print"]

Grant == [call |-> "grantRole"]
Renounce == [call |-> "renounceRole"]
Transfer(c, to) == [call |-> "transferOwnership", contract |-> c, to |-> to]
Configure(s) == [call |-> "configure", setting |-> s]
Upsert(sigs) == [call |-> "upsertSignature", signatures |-> sigs]
AddBatch(calls) == [call |-> "addBatch", calls |-> calls]

(* Mutant: the deployer renounces before the timelock is granted the role.      *)
AccessControlRenouncedFirst ==
    <<Deploy("AccessControlManager"), Need({"NormalTimelock"}),
      Send(Renounce), Send(Grant)>>

AccessControl ==
    <<Deploy("AccessControlManager"), Need({"NormalTimelock"}),
      Send(Grant), Send(Renounce)>>

OmnichainProposalSender ==
    <<Need({"AccessControlManager"} \cup Timelocks), Deploy("OmnichainProposalSender"),
      Unless("OmnichainProposalSender", 2),
          Send(Transfer("OmnichainProposalSender", "NormalTimelock")), Wait,
      ShowCommands>>

OmnichainGovernanceExecutor == <<Deploy("OmnichainGovernanceExecutor")>>

RemoteTimelock ==
    <<Need({"OmnichainGovernanceExecutor"}), Deploy("NormalTimelock"),
      Deploy("FastTrackTimelock"), Deploy("CriticalTimelock")>>

ExecuteCommands ==
    <<Send(Configure("minDstGas")), Send(Configure("maxDailyReceiveLimit")),
      Send(Configure("trustedRemote")), Wait, Send(Configure("timelocks")), Wait>>

(* Mutant: the executor is transferred before it is configured.                 *)
ExecutorTransferredFirst ==
    <<Need({"AccessControlManager", "OmnichainGovernanceExecutor"} \cup Timelocks),
      Deploy("OmnichainExecutorOwner"),
      Unless("OmnichainGovernanceExecutor", Len(ExecuteCommands) + 2),
          Send(Transfer("OmnichainGovernanceExecutor", "OmnichainExecutorOwner")), Wait>>
    \o ExecuteCommands
    \o <<Unless("OmnichainExecutorOwner", 5),
             Send(Upsert(NormalMethods("addTimelocks(ITimelock[])"))),
             Send(Upsert(GuardianMethods("addTimelocks(ITimelock[])"))), Wait,
             Send(Transfer("OmnichainExecutorOwner", "NormalTimelock")), Wait,
         ShowCommands>>

(* Mutant: one check of the executor's owner decides about both contracts.      *)
OneOwnerChecked ==
    <<Need({"AccessControlManager", "OmnichainGovernanceExecutor"} \cup Timelocks),
      Deploy("OmnichainExecutorOwner"),
      Unless("OmnichainGovernanceExecutor", Len(ExecuteCommands) + 7)>>
    \o ExecuteCommands
    \o <<Send(Transfer("OmnichainGovernanceExecutor", "OmnichainExecutorOwner")), Wait,
             Send(Upsert(NormalMethods("addTimelocks(ITimelock[])"))),
             Send(Upsert(GuardianMethods("addTimelocks(ITimelock[])"))), Wait,
             Send(Transfer("OmnichainExecutorOwner", "NormalTimelock")), Wait,
         ShowCommands>>

OmnichainExecutorOwner ==
    <<Need({"AccessControlManager", "OmnichainGovernanceExecutor"} \cup Timelocks),
      Deploy("OmnichainExecutorOwner"),
      Unless("OmnichainGovernanceExecutor", Len(ExecuteCommands) + 2)>>
    \o ExecuteCommands
    \o <<Send(Transfer("OmnichainGovernanceExecutor", "OmnichainExecutorOwner")), Wait,
         Unless("OmnichainExecutorOwner", 5),
             Send(Upsert(NormalMethods("addTimelocks(ITimelock[])"))),
             Send(Upsert(GuardianMethods("addTimelocks(ITimelock[])"))), Wait,
             Send(Transfer("OmnichainExecutorOwner", "NormalTimelock")), Wait,
         ShowCommands>>

AuxiliaryCommandsAggregator ==
    <<Need({"AccessControlManager", "NormalTimelock"}),
      Deploy("AuxiliaryCommandsAggregator"),
      Unless("AuxiliaryCommandsAggregator", 2),
          Send(Transfer("AuxiliaryCommandsAggregator", "NormalTimelock")), Wait>>

(* The k-th batch of the permissions, which are split in batches of BatchSize. *)
PermissionBatch(k) ==
    UNION {PermissionGroups[i] :
               i \in DOMAIN PermissionGroups \cap ((k - 1) * BatchSize + 1)..(k * BatchSize)}

NumBatches == (Len(PermissionGroups) + BatchSize - 1) \div BatchSize

AddPermissionBatches ==
    [s \in 1..(2 * NumBatches) |->
        IF s % 2 = 1 THEN Send(AddBatch(PermissionBatch((s + 1) \div 2))) ELSE Wait]

GovernancePermissions ==
    <<RequireAuthorizedBatcher, Need(Timelocks \cup {"OmnichainExecutorOwner"})>>
    \o AddPermissionBatches \o <<ShowCommands>>

DeployAndHandOver(c) ==
    <<Deploy(c), Unless(c, 1), Send(Transfer(c, "NormalTimelock"))>>

Stewards ==
    DeployAndHandOver("MarketCapsRiskSteward")
    \o DeployAndHandOver("CollateralFactorsRiskSteward")
    \o DeployAndHandOver("IRMRiskSteward")

SourceRiskStewards ==
    <<Need({"NormalTimelock", "AccessControlManager"})>>
    \o DeployAndHandOver("RiskOracle") \o DeployAndHandOver("RiskStewardReceiver")
    \o Stewards

RemoteRiskStewards ==
    <<Need({"NormalTimelock", "AccessControlManager"})>>
    \o DeployAndHandOver("DestinationStewardReceiver") \o Stewards

(* The admin it compares is a promise, never the deployer: nothing is set.      *)
GovernorBravo ==
    <<Deploy("GovernorBravoDelegate"), Need({"GovernorBravoDelegator"})>>

RiskStewardLens ==
    <<Need({"RiskStewardReceiver", "CollateralFactorsRiskSteward"}),
      Deploy("RiskStewardLens")>>

(* What is deployed together: governance on a new destination chain, what the  *)
(* source chain needs to reach it, and later the risk stewards of a chain.     *)
(* Scripts that the chain skips are left out; the permissions are asked for    *)
(* after the script of the aggregator, on which theirs depends.                *)
Tasks == {"destination", "source", "destinationRisk", "sourceRisk"}

Scripts == {"acm", "executor", "timelocks", "executorOwner", "sender", "governor",
            "stewards", "lens", "aggregator", "permissions"}

(* The names of the scripts and contracts stand for none of the accounts.      *)
ASSUME NamesAssumption ==
    /\ Deployer \notin Timelocks \cup Ownables \cup {None}
    /\ None \notin Timelocks \cup Ownables \cup Scripts

Script ==
    CASE task = "destination" ->
           [acm |-> AccessControl, executor |-> OmnichainGovernanceExecutor,
            timelocks |-> RemoteTimelock, executorOwner |-> OmnichainExecutorOwner,
            permissions |-> AuxiliaryCommandsAggregator \o GovernancePermissions]
      [] task = "source" ->
           [sender |-> OmnichainProposalSender, governor |-> GovernorBravo,
            aggregator |-> AuxiliaryCommandsAggregator]
      [] task = "destinationRisk" -> [stewards |-> RemoteRiskStewards]
      [] task = "sourceRisk" ->
           [stewards |-> SourceRiskStewards, lens |-> SourceRiskStewards \o RiskStewardLens]

-----------------------------------------------------------------------------
(* A destination chain has nothing before the scripts run. The others have the *)
(* manager, administered by the normal timelock, and the timelocks.            *)

Idle == [script |-> None, at |-> 0, added |-> {}]

Init ==
    /\ task \in Tasks
    /\ code = IF task = "destination"
              THEN {} ELSE Timelocks \cup {"AccessControlManager", "GovernorBravoDelegator"}
    /\ grants = IF task = "destination"
                THEN {} ELSE {<<DEFAULT_ADMIN_ROLE, "NormalTimelock">>}
    /\ owner = [c \in Ownables |-> None]
    /\ pendingOwner = [c \in TwoStep |-> None]
    /\ settings = {} /\ functionRegistry = {}
    /\ authorizedBatchers = {} /\ batches = <<>> /\ batchExecuted = {}
    /\ mempool = <<>> /\ receipt = [ok |-> TRUE, added |-> {}]
    /\ run = Idle /\ proposed = {} /\ indexes = {} /\ crashes = 0

-----------------------------------------------------------------------------
(* The deployer's transactions. One is estimated on the last block before it   *)
(* is sent; when it is mined the state may have changed, and it reverts.       *)

Succeeds(tx) ==
    CASE tx.call = "grantRole"         -> ACM!MayGrant(grants, Deployer)
      [] tx.call = "renounceRole"      -> TRUE
      [] tx.call = "transferOwnership" -> owner[tx.contract] = Deployer
      [] tx.call = "configure"         -> owner["OmnichainGovernanceExecutor"] = Deployer
      [] tx.call = "upsertSignature"   -> owner["OmnichainExecutorOwner"] = Deployer
      [] tx.call = "addBatch"          -> Deployer \in authorizedBatchers

GrantsAfter(tx) ==
    CASE tx.call = "grantRole" ->
           ACM!Effect(grants, [op |-> "grantRole", role |-> DEFAULT_ADMIN_ROLE,
                               account |-> "NormalTimelock"])
      [] tx.call = "renounceRole" ->
           ACM!Effect(grants, [op |-> "renounceRole", role |-> DEFAULT_ADMIN_ROLE,
                               account |-> Deployer])
      [] OTHER -> grants

Transfers(tx, twoStep) ==
    tx.call = "transferOwnership" /\ (tx.contract \in TwoStep) = twoStep

Apply(tx) ==
    /\ grants' = GrantsAfter(tx)
    /\ owner' = IF Transfers(tx, FALSE) THEN [owner EXCEPT ![tx.contract] = tx.to] ELSE owner
    /\ pendingOwner' = IF Transfers(tx, TRUE)
                       THEN [pendingOwner EXCEPT ![tx.contract] = tx.to] ELSE pendingOwner
    /\ settings' = IF tx.call = "configure" THEN settings \cup {tx.setting} ELSE settings
    /\ functionRegistry' = IF tx.call = "upsertSignature"
                           THEN functionRegistry \cup tx.signatures ELSE functionRegistry
    /\ batches' = IF tx.call = "addBatch" THEN Append(batches, tx.calls) ELSE batches

Mine ==
    /\ mempool # <<>>
    /\ mempool' = Tail(mempool)
    /\ receipt' = [ok |-> Succeeds(Head(mempool)),
                   added |-> IF Head(mempool).call = "addBatch" THEN {Len(batches)} ELSE {}]
    /\ IF Succeeds(Head(mempool)) THEN Apply(Head(mempool))
       ELSE UNCHANGED <<grants, owner, pendingOwner, settings, functionRegistry, batches>>
    /\ UNCHANGED <<task, code, authorizedBatchers, batchExecuted, run, proposed,
                   indexes, crashes>>

-----------------------------------------------------------------------------
(* A run of a script.                                                          *)

Start(s) ==
    /\ run = Idle
    /\ s \in DOMAIN Script
    /\ Len(mempool) <= MaxPending
    /\ s = "permissions" => Cardinality(indexes) < MaxLists
    /\ run' = [script |-> s, at |-> 1, added |-> {}]
    /\ UNCHANGED <<task, chainVars, mempool, receipt, proposed, indexes, crashes>>

Running(op) == run # Idle /\ Script[run.script][run.at].op = op

Step == Script[run.script][run.at]

Past(steps, added) ==
    IF run.at + steps <= Len(Script[run.script])
    THEN [run EXCEPT !.at = @ + steps, !.added = @ \cup added] ELSE Idle

(* hardhat-deploy waits for its transaction, so all those before it are mined. *)
(* A contract made by a proxy is initialized with it and is the deployer's.    *)
DeployContract ==
    /\ Running("deploy")
    /\ IF Step.contract \in code
       THEN UNCHANGED <<code, owner, grants>>
       ELSE /\ mempool = <<>>
            /\ code' = code \cup {Step.contract}
            /\ owner' = [c \in Ownables |-> IF c = Step.contract THEN Deployer ELSE owner[c]]
            /\ grants' = IF Step.contract = "AccessControlManager"
                         THEN {<<DEFAULT_ADMIN_ROLE, Deployer>>} ELSE grants
    /\ run' = Past(1, {})
    /\ UNCHANGED <<task, pendingOwner, settings, functionRegistry, authorizedBatchers,
                   batches, batchExecuted, mempool, receipt, proposed, indexes, crashes>>

Fetch ==
    /\ Running("need")
    /\ run' = IF Step.contracts \subseteq code THEN Past(1, {}) ELSE Idle
    /\ UNCHANGED <<task, chainVars, mempool, receipt, proposed, indexes, crashes>>

CheckOwner ==
    /\ Running("unless")
    /\ run' = Past(IF owner[Step.contract] = Deployer THEN 1 ELSE 1 + Step.skip, {})
    /\ UNCHANGED <<task, chainVars, mempool, receipt, proposed, indexes, crashes>>

CheckBatcher ==
    /\ Running("requireAuthorizedBatcher")
    /\ run' = IF Deployer \in authorizedBatchers THEN Past(1, {}) ELSE Idle
    /\ UNCHANGED <<task, chainVars, mempool, receipt, proposed, indexes, crashes>>

SendTransaction ==
    /\ Running("send")
    /\ IF Succeeds(Step.tx)
       THEN run' = Past(1, {}) /\ mempool' = Append(mempool, Step.tx)
       ELSE run' = Idle /\ UNCHANGED mempool
    /\ UNCHANGED <<task, chainVars, receipt, proposed, indexes, crashes>>

(* Mutant: the index of a batch is read from the length of the list.            *)
AwaitReceiptThenCount ==
    /\ Running("wait")
    /\ mempool = <<>>
    /\ run' = IF receipt.ok THEN Past(1, IF receipt.added = {} THEN {} ELSE {Len(batches) - 1})
              ELSE Idle
    /\ UNCHANGED <<task, chainVars, mempool, receipt, proposed, indexes, crashes>>

AwaitReceipt ==
    /\ Running("wait")
    /\ mempool = <<>>
    /\ run' = IF receipt.ok THEN Past(1, receipt.added) ELSE Idle
    /\ UNCHANGED <<task, chainVars, mempool, receipt, proposed, indexes, crashes>>

PrintCommands ==
    /\ Running("print")
    /\ IF run.script = "permissions"
       THEN indexes' = indexes \cup {run.added} /\ UNCHANGED proposed
       ELSE proposed' = proposed \cup {run.script} /\ UNCHANGED indexes
    /\ run' = Idle
    /\ UNCHANGED <<task, chainVars, mempool, receipt, crashes>>

Crash ==
    /\ run # Idle
    /\ crashes < MaxCrashes
    /\ run' = Idle /\ crashes' = crashes + 1
    /\ UNCHANGED <<task, chainVars, mempool, receipt, proposed, indexes>>

-----------------------------------------------------------------------------
(* Governance. A proposal reaches a destination chain through the bridge, and  *)
(* all of its commands are executed or none.                                   *)

GovernanceReaches ==
    \/ task # "destination"
    \/ {"trustedRemote", "maxDailyReceiveLimit", "timelocks"} \subseteq settings

TimelockMayGrant == GovernanceReaches /\ ACM!MayGrant(grants, "NormalTimelock")

Accept(cs) ==
    /\ owner' = [c \in Ownables |-> IF c \in cs THEN pendingOwner[c] ELSE owner[c]]
    /\ pendingOwner' = [c \in TwoStep |-> IF c \in cs THEN None ELSE pendingOwner[c]]

(* The proposal whose commands 006 prints.                                     *)
ConfigureExecutorOwner ==
    /\ "executorOwner" \in proposed
    /\ TimelockMayGrant
    /\ pendingOwner["OmnichainExecutorOwner"] = "NormalTimelock"
    /\ grants' = grants \cup ExecutorOwnerGrants
    /\ Accept({"OmnichainExecutorOwner"})
    /\ UNCHANGED <<task, code, settings, functionRegistry, authorizedBatchers, batches,
                   batchExecuted, toolVars>>

(* The proposal whose commands 003 prints, once the sender is the timelock's.  *)
ConfigureSender ==
    /\ "sender" \in proposed
    /\ TimelockMayGrant
    /\ grants' = grants \cup SenderGrants
    /\ settings' = settings \cup {"maxDailyLimit"}
    /\ UNCHANGED <<task, code, owner, pendingOwner, functionRegistry, authorizedBatchers,
                   batches, batchExecuted, toolVars>>

Nominated ==
    {c \in TwoStep \ {"OmnichainExecutorOwner"} : pendingOwner[c] = "NormalTimelock"}

(* A proposal that accepts what the other scripts have transferred.            *)
AcceptOwnership ==
    /\ GovernanceReaches
    /\ Nominated # {}
    /\ Accept(Nominated)
    /\ UNCHANGED <<task, code, settings, functionRegistry, grants, authorizedBatchers,
                   batches, batchExecuted, toolVars>>

AddAuthorizedBatchers ==
    /\ "AuxiliaryCommandsAggregator" \in code
    /\ TimelockMayGrant
    /\ authorizedBatchers' = authorizedBatchers \cup {Deployer, OtherBatcher}
    /\ UNCHANGED <<task, code, owner, pendingOwner, settings, functionRegistry, grants,
                   batches, batchExecuted, toolVars>>

OtherGrants == Allow("ResilientOracle", {"pause()"}, "NormalTimelock")

(* Bound: the other batcher adds one batch.                                    *)
AddOtherBatch ==
    /\ OtherBatcher \in authorizedBatchers
    /\ \A i \in DOMAIN batches : batches[i] # OtherGrants
    /\ batches' = Append(batches, OtherGrants)
    /\ UNCHANGED <<task, code, owner, pendingOwner, settings, functionRegistry, grants,
                   authorizedBatchers, batchExecuted, toolVars>>

(* What a list of batches does, by the indexes the contract gave them.         *)
CallsOf(list) == UNION {batches[i + 1] : i \in list}

(* The proposal lends the aggregator the role, executes the batches of a list  *)
(* that was printed, each for the first time, and takes the role back.         *)
ExecuteBatches(list) ==
    /\ TimelockMayGrant
    /\ list \cap batchExecuted = {}
    /\ grants' = grants \cup CallsOf(list)
    /\ batchExecuted' = batchExecuted \cup list
    /\ UNCHANGED <<task, code, owner, pendingOwner, settings, functionRegistry,
                   authorizedBatchers, batches, toolVars>>

-----------------------------------------------------------------------------
RunStep ==
    \/ DeployContract \/ Fetch \/ CheckOwner \/ CheckBatcher
    \/ SendTransaction \/ AwaitReceipt \/ PrintCommands

Govern ==
    \/ ConfigureExecutorOwner \/ ConfigureSender
    \/ AcceptOwnership \/ AddAuthorizedBatchers
    \/ \E list \in indexes : ExecuteBatches(list)

Next ==
    \/ \E s \in Scripts : Start(s)
    \/ RunStep \/ Crash \/ Mine
    \/ Govern \/ AddOtherBatch

Spec == Init /\ [][Next]_vars

(* Transactions are mined, a script that runs goes on, what has been printed   *)
(* is proposed and executed, and the operator runs the scripts that the task   *)
(* needs again and again, whether they end, fail or are killed.                *)
Needed ==
    CASE task = "destination" ->
           <<"acm", "executor", "timelocks", "executorOwner", "permissions">>
      [] task = "source" -> <<"sender", "aggregator">>
      [] OTHER           -> <<"stewards">>

RunNeeded(i) == i <= Len(Needed) /\ Start(Needed[i])

FairSpec ==
    /\ Spec
    /\ WF_vars(Mine) /\ WF_vars(RunStep) /\ WF_vars(Govern)
    /\ \A i \in 1..5 : SF_vars(RunNeeded(i))

-----------------------------------------------------------------------------
(* At every moment somebody who can still act administers the access control   *)
(* manager: the deployer renounces in 002 after the timelock has been granted  *)
(* the role, though neither transaction is awaited and the script may die or   *)
(* be run again between the two.                                               *)
AlwaysAdministered ==
    "AccessControlManager" \in code =>
        \/ ACM!MayGrant(grants, Deployer)
        \/ ACM!MayGrant(grants, "NormalTimelock") /\ "NormalTimelock" \in code

(* 006 gives a contract away only when nothing is left to do on it that its    *)
(* next owner could not do: the executor when a proposal from the source chain *)
(* gets through to the timelocks, which no proposal could repair, and its      *)
(* owner contract when the executor's functions are registered.                *)
HandedOverReady ==
    /\ owner["OmnichainGovernanceExecutor"] \notin {None, Deployer}
          => GovernanceReaches /\ "minDstGas" \in settings
    /\ "NormalTimelock" \in {owner["OmnichainExecutorOwner"],
                             pendingOwner["OmnichainExecutorOwner"]}
          => ExecutorSignatures \subseteq functionRegistry

(* The indexes that 007 prints are of batches that make the permissions, all   *)
(* of them and no other, whatever another batcher or an earlier run that died  *)
(* added in between.                                                           *)
PrintedBatchesSuffice ==
    \A list \in indexes :
        CallsOf(list) = UNION {PermissionGroups[i] : i \in DOMAIN PermissionGroups}

(* The deployer has no power left, and the timelocks have theirs.              *)
HandedOver ==
    /\ ~ACM!MayGrant(grants, Deployer)
    /\ \A c \in Ownables : owner[c] # Deployer
    /\ CASE task = "destination" ->
              /\ owner["OmnichainExecutorOwner"] = "NormalTimelock"
              /\ ExecutorOwnerGrants \subseteq grants
              /\ \A i \in DOMAIN PermissionGroups : PermissionGroups[i] \subseteq grants
         [] task = "source" ->
              /\ owner["OmnichainProposalSender"] = "NormalTimelock"
              /\ SenderGrants \subseteq grants
         [] OTHER -> \A c \in RiskStewards : owner[c] = "NormalTimelock"

(* Wherever the scripts were killed, running them again completes the          *)
(* deployment: none of them leaves a state that another run cannot get past.   *)
DeploymentCompletes == <>[]HandedOver
=============================================================================
