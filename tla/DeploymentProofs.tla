--------------------------- MODULE DeploymentProofs ---------------------------
(***************************************************************************)
(* What the deployment scripts keep, for any size of the batches and any   *)
(* number of crashes, of waiting transactions and of printed lists, and    *)
(* what the check of the storage layouts keeps of what was deployed, for   *)
(* any networks, contracts, layouts and pull requests.                     *)
(***************************************************************************)
EXTENDS Deployment, StorageLayoutCheck, TLAPS

Manager  == "AccessControlManager"
Executor == "OmnichainGovernanceExecutor"
Owner    == "OmnichainExecutorOwner"
Sender   == "OmnichainProposalSender"

NormalSignatures   == NormalMethods("addTimelocks(ITimelock[])")
GuardianSignatures == GuardianMethods("addTimelocks(ITimelock[])")

BridgeSettings == {"minDstGas", "maxDailyReceiveLimit", "trustedRemote", "timelocks"}

(* What the scripts send.                                                    *)
ForTimelock == (TwoStep \ {Owner}) \cup {Sender}
TimelockTransfers == {Transfer(c, "NormalTimelock") : c \in ForTimelock}

PermissionBatches == {PermissionBatch(k) : k \in 1 .. NumBatches}

Transactions ==
    {Grant, Renounce} \cup TimelockTransfers
    \cup {Configure(s) : s \in BridgeSettings}
    \cup {Transfer(Executor, Owner), Transfer(Owner, "NormalTimelock")}
    \cup {Upsert(NormalSignatures), Upsert(GuardianSignatures)}
    \cup {AddBatch(calls) : calls \in PermissionBatches}

At(script, place) == run.script = script /\ run.at = place

TypeOK ==
    /\ task \in Tasks
    /\ owner \in [Ownables -> {None, Deployer, Owner, "NormalTimelock"}]
    /\ pendingOwner \in [TwoStep -> {None, "NormalTimelock"}]
    /\ batches \in Seq(PermissionBatches \cup {OtherGrants})
    /\ mempool \in Seq(Transactions)
    /\ receipt \in [ok : BOOLEAN, added : SUBSET Nat]
    /\ run \in [script : Scripts \cup {None}, at : Nat, added : SUBSET Nat]
    /\ run # Idle => run.script \in DOMAIN Script /\ run.at \in DOMAIN Script[run.script]

-----------------------------------------------------------------------------
(* Who administers the manager                                               *)

Granted == ACM!MayGrant(grants, "NormalTimelock") /\ "NormalTimelock" \in code

GrantWaits(before) == \E i \in 1 .. before : mempool[i].call = "grantRole"

(* Until the timelock is granted the role, the deployer has it, and nothing   *)
(* waits to renounce it unless the grant waits before that.                   *)
Administered ==
    /\ task # "destination" => Granted
    /\ Manager \in code => Granted \/ ACM!MayGrant(grants, Deployer)
    /\ \A j \in DOMAIN mempool : mempool[j].call \in {"grantRole", "renounceRole"} =>
          {Manager, "NormalTimelock"} \subseteq code
    /\ \A j \in DOMAIN mempool : mempool[j].call = "renounceRole" =>
          Granted \/ GrantWaits(j - 1)

(* 002 has come so far for a reason.                                          *)
AcmReached ==
    /\ At("acm", 2) => Manager \in code
    /\ At("acm", 3) \/ At("acm", 4) => {Manager, "NormalTimelock"} \subseteq code
    /\ At("acm", 4) => Granted \/ GrantWaits(Len(mempool))

Administration == Administered /\ AcmReached

-----------------------------------------------------------------------------
(* What is given away when                                                   *)

GivenAway(c) == owner[c] \notin {None, Deployer}

Ready == BridgeSettings \subseteq settings

Registered == ExecutorSignatures \subseteq functionRegistry

(* A setting is there, or waits to be, unless it came too late.               *)
Configured(s) ==
    \/ s \in settings
    \/ GivenAway(Executor)
    \/ \E j \in DOMAIN mempool : mempool[j] = Configure(s)

Upserted(signatures) ==
    \/ signatures \subseteq functionRegistry
    \/ GivenAway(Owner)
    \/ \E j \in DOMAIN mempool : mempool[j] = Upsert(signatures)

Within(script, first, last) == run.script = script /\ run.at \in first .. last

(* What has been given away was ready, and so is what is about to be.         *)
Handed ==
    /\ \A c \in {Executor, Owner} : c \in code => owner[c] # None
    /\ GivenAway(Executor) => Ready
    /\ GivenAway(Owner) \/ pendingOwner[Owner] # None => Registered
    /\ \A j \in DOMAIN mempool :
          /\ mempool[j] = Transfer(Executor, Owner) => Ready
          /\ mempool[j] = Transfer(Owner, "NormalTimelock") => Registered

(* 006 has come so far for a reason.                                          *)
OwnerReached ==
    /\ Within("executorOwner", 2, 18) => Executor \in code
    /\ Within("executorOwner", 3, 18) => Owner \in code
    /\ Within("executorOwner", 5, 10) => Configured("minDstGas")
    /\ Within("executorOwner", 6, 10) => Configured("maxDailyReceiveLimit")
    /\ Within("executorOwner", 7, 10) => Configured("trustedRemote")
    /\ Within("executorOwner", 9, 10) => Configured("timelocks")
    /\ At("executorOwner", 10) => Ready
    /\ Within("executorOwner", 14, 16) => Upserted(NormalSignatures)
    /\ Within("executorOwner", 15, 16) => Upserted(GuardianSignatures)
    /\ At("executorOwner", 16) => Registered

HandOver == Handed /\ OwnerReached

-----------------------------------------------------------------------------
(* What the printed indexes stand for                                        *)

Latest == mempool[Len(mempool)]

(* The indexes of a list are of the first n batches of permissions.           *)
Covers(list, n) ==
    /\ \A i \in list : i + 1 \in DOMAIN batches
    /\ CallsOf(list) = UNION {PermissionBatch(k) : k \in 1 .. n}

(* The last transaction, which the script waits for, is or was for batch k.   *)
Awaits(k) ==
    IF mempool = <<>>
    THEN receipt.ok => \E i \in receipt.added :
             /\ receipt.added = {i} /\ i + 1 \in DOMAIN batches
             /\ batches[i + 1] = PermissionBatch(k)
    ELSE Latest = AddBatch(PermissionBatch(k))

(* 007 has come so far for a reason: a list of the first batches is complete, *)
(* or waits for one more.                                                     *)
ListReached ==
    /\ Within("permissions", 1, 7) => run.added = {}
    /\ At("permissions", 5) =>
          IF mempool = <<>> THEN receipt.added = {} ELSE Latest.call # "addBatch"
    /\ \A k \in 1 .. NumBatches + 1 :
          At("permissions", 6 + 2 * k) => Covers(run.added, k - 1)
    /\ \A k \in 1 .. NumBatches :
          At("permissions", 7 + 2 * k) => Covers(run.added, k - 1) /\ Awaits(k)

ListsCover == \A list \in indexes : Covers(list, NumBatches)

Permissions == ListReached /\ ListsCover

IInv == TypeOK /\ Administration /\ HandOver /\ Permissions

-----------------------------------------------------------------------------
(* The scripts                                                               *)

Contracts == Timelocks \cup Ownables
                \cup {Manager, "GovernorBravoDelegate", "GovernorBravoDelegator", "RiskStewardLens"}

LEMMA WhichScripts ==
    /\ task = "destination" =>
          /\ DOMAIN Script = {"acm", "executor", "timelocks", "executorOwner", "permissions"}
          /\ Script["acm"] = AccessControl
          /\ Script["executor"] = OmnichainGovernanceExecutor
          /\ Script["timelocks"] = RemoteTimelock
          /\ Script["executorOwner"] = OmnichainExecutorOwner
          /\ Script["permissions"] = AuxiliaryCommandsAggregator \o GovernancePermissions
    /\ task = "source" =>
          /\ DOMAIN Script = {"sender", "governor", "aggregator"}
          /\ Script["sender"] = OmnichainProposalSender
          /\ Script["governor"] = GovernorBravo
          /\ Script["aggregator"] = AuxiliaryCommandsAggregator
    /\ task = "destinationRisk" =>
          /\ DOMAIN Script = {"stewards"}
          /\ Script["stewards"] = RemoteRiskStewards
    /\ task = "sourceRisk" =>
          /\ DOMAIN Script = {"stewards", "lens"}
          /\ Script["stewards"] = SourceRiskStewards
          /\ Script["lens"] = SourceRiskStewards \o RiskStewardLens
BY DEF Script

LEMMA OwnerSteps ==
    /\ DOMAIN OmnichainExecutorOwner = 1 .. 18
    /\ Len(OmnichainExecutorOwner) = 18
    /\ OmnichainExecutorOwner[1] = Need({Manager, Executor} \cup Timelocks)
    /\ OmnichainExecutorOwner[2] = Deploy(Owner)
    /\ OmnichainExecutorOwner[3] = Unless(Executor, 8)
    /\ OmnichainExecutorOwner[4] = Send(Configure("minDstGas"))
    /\ OmnichainExecutorOwner[5] = Send(Configure("maxDailyReceiveLimit"))
    /\ OmnichainExecutorOwner[6] = Send(Configure("trustedRemote"))
    /\ OmnichainExecutorOwner[7] = Wait
    /\ OmnichainExecutorOwner[8] = Send(Configure("timelocks"))
    /\ OmnichainExecutorOwner[9] = Wait
    /\ OmnichainExecutorOwner[10] = Send(Transfer(Executor, Owner))
    /\ OmnichainExecutorOwner[11] = Wait
    /\ OmnichainExecutorOwner[12] = Unless(Owner, 5)
    /\ OmnichainExecutorOwner[13] = Send(Upsert(NormalSignatures))
    /\ OmnichainExecutorOwner[14] = Send(Upsert(GuardianSignatures))
    /\ OmnichainExecutorOwner[15] = Wait
    /\ OmnichainExecutorOwner[16] = Send(Transfer(Owner, "NormalTimelock"))
    /\ OmnichainExecutorOwner[17] = Wait
    /\ OmnichainExecutorOwner[18] = ShowCommands
<1> Len(ExecuteCommands) = 6
  BY DEF ExecuteCommands
<1> QED
BY DEF OmnichainExecutorOwner, ExecuteCommands, Manager, Executor, Owner,
       NormalSignatures, GuardianSignatures

OrdinarySteps ==
    {Deploy(c) : c \in Contracts \ {Manager}}
    \cup {Need(cs) : cs \in SUBSET Contracts}
    \cup {Unless(c, n) : c \in ForTimelock, n \in {1, 2}}
    \cup {Send(tx) : tx \in TimelockTransfers}
    \cup {Wait, ShowCommands}

LEMMA OrdinaryScripts ==
    /\ OmnichainGovernanceExecutor \in Seq(OrdinarySteps)
    /\ RemoteTimelock \in Seq(OrdinarySteps)
    /\ AuxiliaryCommandsAggregator \in Seq(OrdinarySteps)
    /\ OmnichainProposalSender \in Seq(OrdinarySteps)
    /\ GovernorBravo \in Seq(OrdinarySteps)
    /\ RemoteRiskStewards \in Seq(OrdinarySteps)
    /\ SourceRiskStewards \in Seq(OrdinarySteps)
    /\ RiskStewardLens \in Seq(OrdinarySteps)
    /\ Len(RemoteRiskStewards) > 0 /\ Len(SourceRiskStewards) > 0
<1>1. /\ \A c \in Contracts \ {Manager} : Deploy(c) \in OrdinarySteps
      /\ \A cs \in SUBSET Contracts : Need(cs) \in OrdinarySteps
      /\ \A c \in ForTimelock :
            /\ Unless(c, 1) \in OrdinarySteps /\ Unless(c, 2) \in OrdinarySteps
            /\ Send(Transfer(c, "NormalTimelock")) \in OrdinarySteps
      /\ Wait \in OrdinarySteps /\ ShowCommands \in OrdinarySteps
  BY DEF OrdinarySteps, TimelockTransfers
<1>2. /\ Timelocks \subseteq Contracts \ {Manager}
      /\ ForTimelock \subseteq Contracts \ {Manager}
      /\ Executor \in Contracts \ {Manager}
      /\ {"GovernorBravoDelegate", "GovernorBravoDelegator", "RiskStewardLens"}
            \subseteq Contracts \ {Manager}
      /\ Manager \in Contracts
  BY DEF Contracts, Timelocks, ForTimelock, TwoStep, OneStep, Ownables, Executor, Manager,
         RiskStewards, Sender
<1> USE <1>1, <1>2
<1>3. \A c \in ForTimelock : DeployAndHandOver(c) \in Seq(OrdinarySteps)
  BY DEF DeployAndHandOver
<1>4. {"OmnichainProposalSender", "AuxiliaryCommandsAggregator", "RiskOracle", "RiskStewardReceiver",
       "DestinationStewardReceiver", "MarketCapsRiskSteward", "CollateralFactorsRiskSteward",
       "IRMRiskSteward"} \subseteq ForTimelock
  BY DEF ForTimelock, TwoStep, RiskStewards, Owner, Sender
<1>5. "NormalTimelock" \in Timelocks /\ "FastTrackTimelock" \in Timelocks
      /\ "CriticalTimelock" \in Timelocks
  BY DEF Timelocks
<1>6. OmnichainGovernanceExecutor \in Seq(OrdinarySteps)
  BY DEF OmnichainGovernanceExecutor, Executor
<1>7. RemoteTimelock \in Seq(OrdinarySteps)
  BY <1>5 DEF RemoteTimelock, Executor
<1>8. AuxiliaryCommandsAggregator \in Seq(OrdinarySteps)
  BY <1>4, <1>5 DEF AuxiliaryCommandsAggregator, Manager
<1>9. OmnichainProposalSender \in Seq(OrdinarySteps)
  BY <1>4, <1>5 DEF OmnichainProposalSender, Manager
<1>10. GovernorBravo \in Seq(OrdinarySteps)
  BY DEF GovernorBravo
<1>11. Stewards \in Seq(OrdinarySteps)
  BY <1>3, <1>4 DEF Stewards
<1>12. <<Need({"NormalTimelock", Manager})>> \in Seq(OrdinarySteps)
  BY <1>5
<1>13. RemoteRiskStewards \in Seq(OrdinarySteps) /\ Len(RemoteRiskStewards) > 0
  <2> DEFINE U == <<Need({"NormalTimelock", Manager})>> \o DeployAndHandOver("DestinationStewardReceiver")
  <2>1. U \in Seq(OrdinarySteps) /\ Len(U) > 0
    BY <1>3, <1>4, <1>12
  <2>2. RemoteRiskStewards = U \o Stewards
    BY DEF RemoteRiskStewards, Manager
  <2> HIDE DEF U
  <2> QED BY <1>11, <2>1, <2>2
<1>14. SourceRiskStewards \in Seq(OrdinarySteps) /\ Len(SourceRiskStewards) > 0
  <2> DEFINE U == <<Need({"NormalTimelock", Manager})>> \o DeployAndHandOver("RiskOracle")
             V == U \o DeployAndHandOver("RiskStewardReceiver")
  <2>1. U \in Seq(OrdinarySteps) /\ Len(U) > 0
    BY <1>3, <1>4, <1>12
  <2>2. SourceRiskStewards = V \o Stewards
    BY DEF SourceRiskStewards, Manager
  <2> HIDE DEF U
  <2>3. V \in Seq(OrdinarySteps) /\ Len(V) > 0
    BY <1>3, <1>4, <2>1
  <2> HIDE DEF V
  <2> QED BY <1>11, <2>2, <2>3
<1>15. RiskStewardLens \in Seq(OrdinarySteps)
  BY <1>4 DEF RiskStewardLens
<1> QED BY <1>6, <1>7, <1>8, <1>9, <1>10, <1>13, <1>14, <1>15

(* The batches make the permissions, and their number is known.              *)
LEMMA BatchNumber == NumBatches \in Nat /\ NumBatches * BatchSize >= 4
<1>1. Len(PermissionGroups) = 4
  BY DEF PermissionGroups, OwnerGrants
<1>2. NumBatches = (BatchSize + 3) \div BatchSize
  BY <1>1, BatchSizePositive DEF NumBatches
<1>3. CASE BatchSize \in 1 .. 3
  BY <1>2, <1>3
<1>4. CASE BatchSize > 3
  <2>1. (BatchSize + 3) \div BatchSize = 1
    BY <1>4, BatchSizePositive
  <2> QED BY <1>2, <1>4, <2>1, BatchSizePositive
<1> QED BY <1>3, <1>4, BatchSizePositive

LEMMA BatchesCover ==
    UNION {PermissionBatch(k) : k \in 1 .. NumBatches}
        = UNION {PermissionGroups[i] : i \in DOMAIN PermissionGroups}
<1>1. DOMAIN PermissionGroups = 1 .. 4
  BY DEF PermissionGroups, OwnerGrants
<1>2. ASSUME NEW i \in 1 .. 4
      PROVE  \E k \in 1 .. NumBatches : i \in ((k - 1) * BatchSize + 1) .. (k * BatchSize)
  <2>1. NumBatches = (BatchSize + 3) \div BatchSize
    BY <1>1, BatchSizePositive DEF NumBatches, PermissionGroups, OwnerGrants
  <2>2. CASE BatchSize = 1
    BY <2>1, <2>2
  <2>3. CASE BatchSize = 2
    <3>1. CASE i \in 1 .. 2
      BY <2>1, <2>3, <3>1
    <3>2. CASE i \in 3 .. 4
      BY <2>1, <2>3, <3>2
    <3> QED BY <3>1, <3>2
  <2>4. CASE BatchSize = 3
    <3>1. CASE i \in 1 .. 3
      BY <2>1, <2>4, <3>1
    <3>2. CASE i = 4
      BY <2>1, <2>4, <3>2
    <3> QED BY <3>1, <3>2
  <2>5. CASE BatchSize > 3
    <3>1. (BatchSize + 3) \div BatchSize = 1
      BY <2>5, BatchSizePositive
    <3> QED BY <2>1, <2>5, <3>1, BatchSizePositive
  <2> QED BY <2>2, <2>3, <2>4, <2>5, BatchSizePositive
<1>3. \A k : PermissionBatch(k) =
          UNION {PermissionGroups[i] :
                    i \in DOMAIN PermissionGroups \cap ((k - 1) * BatchSize + 1) .. (k * BatchSize)}
  BY DEF PermissionBatch
<1> DEFINE Part(k) == ((k - 1) * BatchSize + 1) .. (k * BatchSize)
<1>4. \A i \in 1 .. 4 : \E k \in 1 .. NumBatches : i \in Part(k)
  BY <1>2
<1>5. \A k : PermissionBatch(k) = UNION {PermissionGroups[i] : i \in 1 .. 4 \cap Part(k)}
  BY <1>1, <1>3
<1> HIDE DEF Part
<1>6. ASSUME NEW call
      PROVE  (\E k \in 1 .. NumBatches : call \in PermissionBatch(k))
                <=> (\E i \in 1 .. 4 : call \in PermissionGroups[i])
  BY <1>4, <1>5
<1> QED BY <1>1, <1>6

PermissionsScript == AuxiliaryCommandsAggregator \o GovernancePermissions

Joined(S, T) == S \o T

Starts(S, T) == \A i \in 1 .. Len(S) : T[i] = S[i]

Follows(S, n, T) == \A i \in 1 .. Len(S) : T[n + i] = S[i]

LEMMA JoinedSteps ==
    \A X : \A S, T \in Seq(X) :
        /\ Joined(S, T) \in Seq(X)
        /\ Len(Joined(S, T)) = Len(S) + Len(T)
        /\ Starts(S, Joined(S, T))
        /\ Follows(T, Len(S), Joined(S, T))
BY DEF Joined, Starts, Follows

(* A sequence made of four parts, three of which have these lengths.         *)
MadeOf(S, A, G, B, P, n) ==
    /\ Len(S) = 8 + n
    /\ \A i \in 1 .. 5 : S[i] = A[i]
    /\ S[6] = G[1] /\ S[7] = G[2] /\ S[8 + n] = P[1]
    /\ \A i \in 1 .. n : S[7 + i] = B[i]

LEMMA FourParts ==
    ASSUME NEW X, NEW A \in Seq(X), NEW G \in Seq(X), NEW B \in Seq(X), NEW P \in Seq(X),
           NEW n \in Nat, Len(A) = 5, Len(G) = 2, Len(B) = n, Len(P) = 1,
           NEW S, S = Joined(A, Joined(Joined(G, B), P))
    PROVE  S \in Seq(X) /\ MadeOf(S, A, G, B, P, n)
<1>1. PICK M : M = Joined(G, B)
  OBVIOUS
<1>2. M \in Seq(X) /\ Len(M) = 2 + n /\ Starts(G, M) /\ Follows(B, 2, M)
  BY <1>1, JoinedSteps
<1>3. PICK N : N = Joined(M, P)
  OBVIOUS
<1>4. N \in Seq(X) /\ Len(N) = 3 + n /\ Starts(M, N) /\ Follows(P, 2 + n, N)
  <2>1. /\ N \in Seq(X) /\ Len(N) = Len(M) + Len(P)
        /\ Starts(M, N) /\ Follows(P, Len(M), N)
    BY <1>2, <1>3, JoinedSteps
  <2> QED BY <1>2, <2>1
<1>5. S \in Seq(X) /\ Len(S) = 8 + n /\ Starts(A, S) /\ Follows(N, 5, S)
  <2>1. S = Joined(A, N)
    BY <1>1, <1>3
  <2>2. /\ S \in Seq(X) /\ Len(S) = Len(A) + Len(N)
        /\ Starts(A, S) /\ Follows(N, Len(A), S)
    BY <1>4, <2>1, JoinedSteps
  <2> QED BY <1>4, <2>2
<1>6. /\ M[1] = G[1] /\ M[2] = G[2] /\ \A i \in 1 .. n : M[2 + i] = B[i]
  BY <1>2 DEF Starts, Follows
<1>7. (\A i \in 1 .. 2 + n : N[i] = M[i]) /\ N[(2 + n) + 1] = P[1]
  BY <1>2, <1>4 DEF Starts, Follows
<1>8. (\A i \in 1 .. 5 : S[i] = A[i]) /\ (\A i \in 1 .. 3 + n : S[5 + i] = N[i])
  BY <1>4, <1>5 DEF Starts, Follows
<1>9. S[5 + 1] = N[1] /\ S[5 + 2] = N[2] /\ S[5 + (3 + n)] = N[3 + n]
  BY <1>8
<1>10. ASSUME NEW i \in 1 .. n PROVE S[7 + i] = B[i]
  <2>1. 2 + i \in 1 .. 3 + n /\ 2 + i \in 1 .. 2 + n /\ 5 + (2 + i) = 7 + i
    OBVIOUS
  <2>2. S[5 + (2 + i)] = N[2 + i] /\ N[2 + i] = M[2 + i] /\ M[2 + i] = B[i]
    BY <2>1, <1>6, <1>7, <1>8
  <2> QED BY <2>1, <2>2
<1> QED BY <1>5, <1>6, <1>7, <1>8, <1>9, <1>10 DEF MadeOf

LEMMA PermissionSteps ==
    /\ DOMAIN PermissionsScript = 1 .. (8 + 2 * NumBatches)
    /\ Len(PermissionsScript) = 8 + 2 * NumBatches
    /\ PermissionsScript[1] = Need({Manager, "NormalTimelock"})
    /\ PermissionsScript[2] = Deploy("AuxiliaryCommandsAggregator")
    /\ PermissionsScript[3] = Unless("AuxiliaryCommandsAggregator", 2)
    /\ PermissionsScript[4] = Send(Transfer("AuxiliaryCommandsAggregator", "NormalTimelock"))
    /\ PermissionsScript[5] = Wait
    /\ PermissionsScript[6] = RequireAuthorizedBatcher
    /\ PermissionsScript[7] = Need(Timelocks \cup {Owner})
    /\ \A k \in 1 .. NumBatches :
          /\ PermissionsScript[6 + 2 * k] = Send(AddBatch(PermissionBatch(k)))
          /\ PermissionsScript[7 + 2 * k] = Wait
    /\ PermissionsScript[8 + 2 * NumBatches] = ShowCommands
<1> DEFINE A == AuxiliaryCommandsAggregator
           G == <<RequireAuthorizedBatcher, Need(Timelocks \cup {"OmnichainExecutorOwner"})>>
           B == AddPermissionBatches
           P == <<ShowCommands>>
           Any == {A[i] : i \in DOMAIN A} \cup {G[i] : i \in DOMAIN G}
                    \cup {B[i] : i \in DOMAIN B} \cup {P[i] : i \in DOMAIN P}
<1>1. A \in Seq(Any) /\ Len(A) = 5
      /\ A = <<Need({Manager, "NormalTimelock"}), Deploy("AuxiliaryCommandsAggregator"),
               Unless("AuxiliaryCommandsAggregator", 2),
               Send(Transfer("AuxiliaryCommandsAggregator", "NormalTimelock")), Wait>>
  BY DEF AuxiliaryCommandsAggregator, Manager
<1>2. G \in Seq(Any) /\ Len(G) = 2
  OBVIOUS
<1>3. B \in Seq(Any) /\ Len(B) = 2 * NumBatches
  <2>1. NumBatches \in Nat /\ DOMAIN B = 1 .. (2 * NumBatches)
    BY BatchNumber DEF AddPermissionBatches
  <2>2. B = [s \in 1 .. (2 * NumBatches) |-> B[s]]
    BY DEF AddPermissionBatches
  <2>3. \A s \in 1 .. (2 * NumBatches) : B[s] \in Any
    BY <2>1
  <2> HIDE DEF B, Any
  <2>4. B \in [1 .. (2 * NumBatches) -> Any]
    BY <2>2, <2>3
  <2> QED BY <2>1, <2>4
<1>4. P \in Seq(Any) /\ Len(P) = 1
  OBVIOUS
<1>5. PermissionsScript = Joined(A, Joined(Joined(G, B), P))
  BY DEF PermissionsScript, GovernancePermissions, Joined
<1>6. \A k \in 1 .. NumBatches :
          /\ B[2 * k - 1] = Send(AddBatch(PermissionBatch(k)))
          /\ B[2 * k] = Wait
  <2> SUFFICES ASSUME NEW k \in 1 .. NumBatches
               PROVE  /\ B[2 * k - 1] = Send(AddBatch(PermissionBatch(k)))
                      /\ B[2 * k] = Wait
    OBVIOUS
  <2>1. k \in Nat /\ 2 * k - 1 \in 1 .. (2 * NumBatches) /\ 2 * k \in 1 .. (2 * NumBatches)
    BY BatchNumber
  <2>2. (2 * k - 1) % 2 = 1 /\ (2 * k) % 2 = 0 /\ (2 * k - 1 + 1) \div 2 = k
    BY <2>1
  <2> QED BY <2>1, <2>2 DEF AddPermissionBatches
<1> HIDE DEF A, G, B, P, Any
<1> PICK n \in Nat : n = 2 * NumBatches
  BY BatchNumber
<1> PICK S : S = PermissionsScript
  OBVIOUS
<1>7. /\ S \in Seq(Any) /\ Len(S) = 8 + n
      /\ \A i \in 1 .. 5 : S[i] = A[i]
      /\ S[6] = G[1] /\ S[7] = G[2] /\ S[8 + n] = P[1]
      /\ \A i \in 1 .. n : S[7 + i] = B[i]
  <2>1. /\ A \in Seq(Any) /\ G \in Seq(Any) /\ B \in Seq(Any) /\ P \in Seq(Any)
        /\ Len(A) = 5 /\ Len(G) = 2 /\ Len(B) = n /\ Len(P) = 1
        /\ S = Joined(A, Joined(Joined(G, B), P))
    BY <1>1, <1>2, <1>3, <1>4, <1>5
  <2>2. S \in Seq(Any) /\ MadeOf(S, A, G, B, P, n)
    BY <2>1, FourParts
  <2> QED BY <2>2 DEF MadeOf
<1>8. \A k \in 1 .. NumBatches : S[6 + 2 * k] = B[2 * k - 1] /\ S[7 + 2 * k] = B[2 * k]
  <2> SUFFICES ASSUME NEW k \in 1 .. NumBatches
               PROVE  S[6 + 2 * k] = B[2 * k - 1] /\ S[7 + 2 * k] = B[2 * k]
    OBVIOUS
  <2>1. 2 * k - 1 \in 1 .. n /\ 2 * k \in 1 .. n /\ 7 + (2 * k - 1) = 6 + 2 * k
    BY BatchNumber
  <2> QED BY <2>1, <1>7
<1>9. A[1] = Need({Manager, "NormalTimelock"}) /\ A[2] = Deploy("AuxiliaryCommandsAggregator")
       /\ A[3] = Unless("AuxiliaryCommandsAggregator", 2)
       /\ A[4] = Send(Transfer("AuxiliaryCommandsAggregator", "NormalTimelock"))
       /\ A[5] = Wait
  BY <1>1
<1>10. S[1] = A[1] /\ S[2] = A[2] /\ S[3] = A[3] /\ S[4] = A[4] /\ S[5] = A[5]
  BY <1>7
<1>11. G[1] = RequireAuthorizedBatcher /\ G[2] = Need(Timelocks \cup {Owner})
       /\ P[1] = ShowCommands
  BY DEF G, P, Owner
<1>12. DOMAIN S = 1 .. (8 + n)
  BY <1>7
<1> QED BY <1>6, <1>7, <1>8, <1>9, <1>10, <1>11, <1>12

-----------------------------------------------------------------------------
(* Where a run is                                                            *)

LEMMA Accounts ==
    /\ Deployer \notin {None, Owner, "NormalTimelock", Executor} /\ Deployer # None
    /\ None \notin {Owner, "NormalTimelock"} /\ None \notin Scripts
    /\ Owner # "NormalTimelock" /\ Executor # Owner
    /\ Executor \in Ownables /\ Owner \in Ownables /\ Executor \notin TwoStep /\ Owner \in TwoStep
    /\ TwoStep \subseteq Ownables /\ Manager \notin Ownables
    /\ Sender \in Ownables /\ Sender \notin TwoStep /\ Sender \notin {Owner, Executor}
BY NamesAssumption
DEF Owner, Executor, Sender, Ownables, OneStep, TwoStep, Timelocks, Manager, RiskStewards

LEMMA IdleRun == Idle.script = None /\ Idle.at = 0 /\ Idle.added = {}
BY DEF Idle

LEMMA ScriptNames == TypeOK => DOMAIN Script \subseteq Scripts
BY WhichScripts, SMT DEF TypeOK, Tasks, Scripts

(* What TypeOK says of a script that runs.                                   *)
LEMMA Placed ==
    ASSUME TypeOK, run # Idle
    PROVE  run.script \in DOMAIN Script /\ run.at \in DOMAIN Script[run.script]
           /\ run.at \in Nat /\ run.added \subseteq Nat
BY DEF TypeOK

LEMMA AcmPlace ==
    ASSUME TypeOK, run # Idle, run.script = "acm"
    PROVE  /\ task = "destination" /\ run.at \in 1 .. 4 /\ Len(Script["acm"]) = 4
           /\ Script["acm"][1] = Deploy(Manager)
           /\ Script["acm"][2] = Need({"NormalTimelock"})
           /\ Script["acm"][3] = Send(Grant) /\ Script["acm"][4] = Send(Renounce)
<1>1. task = "destination"
  BY Placed, WhichScripts DEF TypeOK, Tasks
<1>2. Script["acm"] = AccessControl
  BY <1>1, WhichScripts
<1> QED BY <1>1, <1>2, Placed DEF AccessControl, Manager

LEMMA OwnerPlace ==
    ASSUME TypeOK, run # Idle, run.script = "executorOwner"
    PROVE  /\ task = "destination" /\ run.at \in 1 .. 18
           /\ Script["executorOwner"] = OmnichainExecutorOwner
<1>1. task = "destination"
  BY Placed, WhichScripts DEF TypeOK, Tasks
<1>2. Script["executorOwner"] = OmnichainExecutorOwner
  BY <1>1, WhichScripts
<1> QED BY <1>1, <1>2, Placed, OwnerSteps

LEMMA PermissionPlace ==
    ASSUME TypeOK, run # Idle, run.script = "permissions"
    PROVE  /\ task = "destination" /\ run.at \in 1 .. (8 + 2 * NumBatches)
           /\ Script["permissions"] = PermissionsScript
<1>1. task = "destination"
  BY Placed, WhichScripts DEF TypeOK, Tasks
<1>2. Script["permissions"] = PermissionsScript
  BY <1>1, WhichScripts DEF PermissionsScript
<1> QED BY <1>1, <1>2, Placed, PermissionSteps

LEMMA Ordinary ==
    ASSUME task \in Tasks, NEW s \in DOMAIN Script, s \notin {"acm", "executorOwner", "permissions"}
    PROVE  Script[s] \in Seq(OrdinarySteps) /\ Len(Script[s]) > 0
<1>1. /\ OmnichainGovernanceExecutor \in Seq(OrdinarySteps)
      /\ RemoteTimelock \in Seq(OrdinarySteps)
      /\ AuxiliaryCommandsAggregator \in Seq(OrdinarySteps)
      /\ OmnichainProposalSender \in Seq(OrdinarySteps)
      /\ GovernorBravo \in Seq(OrdinarySteps)
      /\ RemoteRiskStewards \in Seq(OrdinarySteps)
      /\ SourceRiskStewards \in Seq(OrdinarySteps)
  BY OrdinaryScripts
<1>2. /\ Len(OmnichainGovernanceExecutor) > 0
      /\ Len(RemoteTimelock) > 0
      /\ Len(AuxiliaryCommandsAggregator) > 0
      /\ Len(OmnichainProposalSender) > 0
      /\ Len(GovernorBravo) > 0
  BY DEF OmnichainGovernanceExecutor, RemoteTimelock, AuxiliaryCommandsAggregator,
         OmnichainProposalSender, GovernorBravo
<1>4. Len(RemoteRiskStewards) > 0 /\ Len(SourceRiskStewards) > 0
  BY OrdinaryScripts
<1>5. /\ SourceRiskStewards \o RiskStewardLens \in Seq(OrdinarySteps)
      /\ Len(SourceRiskStewards \o RiskStewardLens) > 0
  BY <1>4, OrdinaryScripts
<1> QED
  <2>1. CASE task = "destination"
    BY <1>1, <1>2, <2>1, WhichScripts
  <2>2. CASE task = "source"
    BY <1>1, <1>2, <2>2, WhichScripts
  <2>3. CASE task = "destinationRisk"
    BY <1>1, <1>4, <2>3, WhichScripts
  <2>4. CASE task = "sourceRisk"
    BY <1>1, <1>4, <1>5, <2>4, WhichScripts
  <2> QED BY <2>1, <2>2, <2>3, <2>4 DEF Tasks

LEMMA OrdinaryPlace ==
    ASSUME TypeOK, run # Idle, run.script \notin {"acm", "executorOwner", "permissions"}
    PROVE  Step \in OrdinarySteps
<1>1. Script[run.script] \in Seq(OrdinarySteps)
  BY Ordinary, Placed DEF TypeOK
<1> QED BY <1>1, Placed DEF Step

LEMMA Lengths ==
    ASSUME TypeOK, NEW s \in DOMAIN Script
    PROVE  Len(Script[s]) \in Nat /\ DOMAIN Script[s] = 1 .. Len(Script[s]) /\ Len(Script[s]) > 0
<1>1. CASE s = "acm"
  <2>1. Script["acm"] = AccessControl
    BY <1>1, WhichScripts DEF TypeOK, Tasks
  <2> QED BY <1>1, <2>1 DEF AccessControl
<1>2. CASE s = "executorOwner"
  <2>1. Script["executorOwner"] = OmnichainExecutorOwner
    BY <1>2, WhichScripts DEF TypeOK, Tasks
  <2> QED BY <1>2, <2>1, OwnerSteps
<1>3. CASE s = "permissions"
  <2>1. Script["permissions"] = PermissionsScript
    BY <1>3, WhichScripts DEF TypeOK, Tasks, PermissionsScript
  <2> QED BY <1>3, <2>1, PermissionSteps, BatchNumber
<1>4. CASE s \notin {"acm", "executorOwner", "permissions"}
  BY <1>4, Ordinary DEF TypeOK
<1> QED BY <1>1, <1>2, <1>3, <1>4

(* A step leads further in the same script, or ends the run.                 *)
Goes(n, added) ==
    /\ run'.script = run.script /\ run'.at = run.at + n
    /\ run'.added = run.added \cup added /\ run' # Idle
    /\ run'.at \in 1 .. Len(Script[run.script])

LEMMA PastGoes ==
    ASSUME TypeOK, run # Idle, NEW n \in Nat \ {0}, NEW added \in SUBSET Nat, run' = Past(n, added)
    PROVE  /\ run' = Idle \/ Goes(n, added)
           /\ run' \in [script : Scripts \cup {None}, at : Nat, added : SUBSET Nat]
           /\ run' # Idle => run'.script \in DOMAIN Script /\ run'.at \in DOMAIN Script[run'.script]
<1>1. run \in [script : Scripts \cup {None}, at : Nat, added : SUBSET Nat]
      /\ run.script \in DOMAIN Script /\ run.at \in DOMAIN Script[run.script]
  BY DEF TypeOK
<1>2. Len(Script[run.script]) \in Nat /\ DOMAIN Script[run.script] = 1 .. Len(Script[run.script])
  BY <1>1, Lengths
<1>3. CASE run' = Idle
  BY <1>3 DEF Idle
<1>4. CASE /\ run' = [run EXCEPT !.at = @ + n, !.added = @ \cup added]
           /\ run.at + n <= Len(Script[run.script])
  <2>1. run' \in [script : Scripts \cup {None}, at : Nat, added : SUBSET Nat]
    <3>1. run' = [script |-> run.script, at |-> run.at + n, added |-> run.added \cup added]
      BY <1>1, <1>4
    <3>2. run.script \in Scripts \cup {None} /\ run.at \in Nat /\ run.added \in SUBSET Nat
      BY <1>1
    <3>3. run.at + n \in Nat
      BY <3>2
    <3>4. \A X, Y \in SUBSET Nat : X \cup Y \in SUBSET Nat
      BY Zenon
    <3>5. run.added \cup added \in SUBSET Nat
      BY <3>2, <3>4, Zenon
    <3> QED BY <3>1, <3>2, <3>3, <3>5
  <2>2. run'.script = run.script /\ run'.at = run.at + n /\ run'.added = run.added \cup added
    BY <1>1, <1>4
  <2>3. run'.at \in 1 .. Len(Script[run.script])
    BY <1>1, <1>2, <1>4, <2>2
  <2>4. run'.script # None
    BY <1>1, <2>2, ScriptNames, Accounts
  <2>5. run' # Idle
    BY <2>4, IdleRun
  <2> QED BY <1>1, <1>2, <2>1, <2>2, <2>3, <2>5 DEF Goes
<1> QED BY <1>3, <1>4 DEF Past

(* Where a run that is under way stands before and after a step.             *)
LEMMA Beyond ==
    ASSUME NEW n, NEW added, run' = Idle \/ Goes(n, added), run' # Idle
    PROVE  run'.script = run.script /\ run'.at = run.at + n /\ run'.added = run.added \cup added
BY DEF Goes

-----------------------------------------------------------------------------
(* The transactions                                                          *)

LEMMA Calls ==
    /\ Grant.call = "grantRole" /\ Renounce.call = "renounceRole"
    /\ \A c, to : /\ Transfer(c, to).call = "transferOwnership"
                  /\ Transfer(c, to).contract = c /\ Transfer(c, to).to = to
    /\ \A s : Configure(s).call = "configure" /\ Configure(s).setting = s
    /\ \A s : Upsert(s).call = "upsertSignature" /\ Upsert(s).signatures = s
    /\ \A b : AddBatch(b).call = "addBatch" /\ AddBatch(b).calls = b
BY DEF Grant, Renounce, Transfer, Configure, Upsert, AddBatch

(* A transaction is told by its call and what that is given.                 *)
LEMMA TransactionKinds ==
    ASSUME NEW tx \in Transactions
    PROVE  \/ tx = Grant
           \/ tx = Renounce
           \/ \E c \in ForTimelock : tx = Transfer(c, "NormalTimelock")
           \/ \E s \in BridgeSettings : tx = Configure(s)
           \/ tx = Transfer(Executor, Owner)
           \/ tx = Transfer(Owner, "NormalTimelock")
           \/ tx = Upsert(NormalSignatures)
           \/ tx = Upsert(GuardianSignatures)
           \/ \E k \in 1 .. NumBatches : tx = AddBatch(PermissionBatch(k))
BY DEF Transactions, TimelockTransfers, PermissionBatches

LEMMA Operations ==
    /\ \A c : Deploy(c).op = "deploy" /\ Deploy(c).contract = c
    /\ \A c : Need(c).op = "need" /\ Need(c).contracts = c
    /\ \A c, n : Unless(c, n).op = "unless" /\ Unless(c, n).contract = c /\ Unless(c, n).skip = n
    /\ \A tx : Send(tx).op = "send" /\ Send(tx).tx = tx
    /\ Wait.op = "wait" /\ RequireAuthorizedBatcher.op = "requireAuthorizedBatcher"
    /\ ShowCommands.op = "print"
BY DEF Deploy, Need, Unless, Send, Wait, RequireAuthorizedBatcher, ShowCommands

LEMMA PermissionPlaces ==
    ASSUME NEW n \in Nat, NEW place \in 1 .. (8 + 2 * n)
    PROVE  \/ place \in 1 .. 7
           \/ \E k \in 1 .. n : place = 6 + 2 * k \/ place = 7 + 2 * k
           \/ place = 8 + 2 * n
<1>1. PICK half \in Nat : place = 2 * half \/ place = 2 * half + 1
  <2>1. place \div 2 \in Nat /\ place = 2 * (place \div 2) + (place % 2) /\ place % 2 \in 0 .. 1
    OBVIOUS
  <2> QED BY <2>1
<1>2. CASE half \in 4 .. (3 + n)
  <2>1. half - 3 \in 1 .. n /\ (place = 6 + 2 * (half - 3) \/ place = 7 + 2 * (half - 3))
    BY <1>1, <1>2
  <2> QED BY <2>1
<1>3. CASE half \notin 4 .. (3 + n)
  BY <1>1, <1>3
<1> QED BY <1>2, <1>3

(* Which transaction a script sends where.                                   *)
Sends ==
    \/ Step.tx \in TimelockTransfers /\ run.script \notin {"acm", "executorOwner"}
          /\ (run.script = "permissions" => run.at = 4)
    \/ At("acm", 3) /\ Step.tx = Grant
    \/ At("acm", 4) /\ Step.tx = Renounce
    \/ At("executorOwner", 4) /\ Step.tx = Configure("minDstGas")
    \/ At("executorOwner", 5) /\ Step.tx = Configure("maxDailyReceiveLimit")
    \/ At("executorOwner", 6) /\ Step.tx = Configure("trustedRemote")
    \/ At("executorOwner", 8) /\ Step.tx = Configure("timelocks")
    \/ At("executorOwner", 10) /\ Step.tx = Transfer(Executor, Owner)
    \/ At("executorOwner", 13) /\ Step.tx = Upsert(NormalSignatures)
    \/ At("executorOwner", 14) /\ Step.tx = Upsert(GuardianSignatures)
    \/ At("executorOwner", 16) /\ Step.tx = Transfer(Owner, "NormalTimelock")
    \/ \E k \in 1 .. NumBatches :
          At("permissions", 6 + 2 * k) /\ Step.tx = AddBatch(PermissionBatch(k))

LEMMA SendsWhat ==
    ASSUME TypeOK, Running("send")
    PROVE  Sends /\ Step.tx \in Transactions
<1> USE Operations
<1>1. run # Idle /\ Step.op = "send"
  BY DEF Running, Step
<1>2. CASE run.script = "acm"
  <2>1. Step = Deploy(Manager) \/ Step = Need({"NormalTimelock"})
        \/ (run.at = 3 /\ Step = Send(Grant)) \/ (run.at = 4 /\ Step = Send(Renounce))
    BY <1>1, <1>2, AcmPlace DEF Step
  <2> QED BY <1>1, <1>2, <2>1 DEF Sends, At, Transactions
<1>3. CASE run.script = "executorOwner"
  <2>1. run.at \in 1 .. 18 /\ Step = OmnichainExecutorOwner[run.at]
    BY <1>1, <1>3, OwnerPlace DEF Step
  <2>2. run.at \in {4, 5, 6, 8, 10, 13, 14, 16}
    BY <1>1, <2>1, OwnerSteps
  <2>3. Sends
    BY <1>3, <2>1, <2>2, OwnerSteps DEF Sends, At
  <2>4. Step.tx \in Transactions
    BY <2>1, <2>2, OwnerSteps DEF Transactions, BridgeSettings
  <2> QED BY <2>3, <2>4
<1>4. CASE run.script = "permissions"
  <2>1. run.at \in 1 .. (8 + 2 * NumBatches) /\ Step = PermissionsScript[run.at]
    BY <1>1, <1>4, PermissionPlace DEF Step
  <2>2. \/ run.at \in 1 .. 7
        \/ \E k \in 1 .. NumBatches : run.at = 6 + 2 * k \/ run.at = 7 + 2 * k
        \/ run.at = 8 + 2 * NumBatches
    BY <2>1, BatchNumber, PermissionPlaces
  <2>3. run.at = 4 \/ \E k \in 1 .. NumBatches : run.at = 6 + 2 * k
    BY <1>1, <2>1, <2>2, PermissionSteps
  <2>4. CASE run.at = 4
    <3>1. Step.tx = Transfer("AuxiliaryCommandsAggregator", "NormalTimelock")
      BY <2>1, <2>4, PermissionSteps
    <3> QED BY <1>4, <2>4, <3>1 DEF Sends, Transactions, TimelockTransfers, ForTimelock, TwoStep,
             Owner
  <2>5. CASE \E k \in 1 .. NumBatches : run.at = 6 + 2 * k
    <3>1. PICK k \in 1 .. NumBatches : run.at = 6 + 2 * k
      BY <2>5
    <3>2. Step.tx = AddBatch(PermissionBatch(k))
      BY <2>1, <3>1, PermissionSteps
    <3> QED BY <1>4, <3>1, <3>2 DEF Sends, At, Transactions, PermissionBatches
  <2> QED BY <2>3, <2>4, <2>5
<1>5. CASE run.script \notin {"acm", "executorOwner", "permissions"}
  <2>1. Step \in OrdinarySteps
    BY <1>1, <1>5, OrdinaryPlace
  <2>2. PICK tx \in TimelockTransfers : Step = Send(tx)
    BY <1>1, <2>1 DEF OrdinarySteps
  <2> QED BY <1>5, <2>2 DEF Sends, Transactions
<1> QED BY <1>2, <1>3, <1>4, <1>5

(* Which contract a script deploys where.                                   *)
LEMMA DeploysWhat ==
    ASSUME TypeOK, Running("deploy")
    PROVE  \/ At("acm", 1) /\ Step.contract = Manager
           \/ At("executorOwner", 2) /\ Step.contract = Owner
           \/ At("permissions", 2) /\ Step.contract = "AuxiliaryCommandsAggregator"
           \/ run.script \notin {"acm", "executorOwner", "permissions"}
                 /\ Step.contract # Manager
<1> USE Operations
<1>1. run # Idle /\ Step.op = "deploy"
  BY DEF Running, Step
<1>2. CASE run.script = "acm"
  <2>1. run.at \in 1 .. 4 /\ Step = Script["acm"][run.at]
    BY <1>1, <1>2, AcmPlace DEF Step
  <2>2. run.at = 1 /\ Step.contract = Manager
    BY <1>1, <1>2, <2>1, AcmPlace
  <2> QED BY <1>2, <2>2 DEF At
<1>3. CASE run.script = "executorOwner"
  <2>1. run.at \in 1 .. 18 /\ Step = OmnichainExecutorOwner[run.at]
    BY <1>1, <1>3, OwnerPlace DEF Step
  <2>2. run.at = 2 /\ Step.contract = Owner
    BY <1>1, <2>1, OwnerSteps
  <2> QED BY <1>3, <2>2 DEF At
<1>4. CASE run.script = "permissions"
  <2>1. run.at \in 1 .. (8 + 2 * NumBatches) /\ Step = PermissionsScript[run.at]
    BY <1>1, <1>4, PermissionPlace DEF Step
  <2>2. \/ run.at \in 1 .. 7
        \/ \E k \in 1 .. NumBatches : run.at = 6 + 2 * k \/ run.at = 7 + 2 * k
        \/ run.at = 8 + 2 * NumBatches
    BY <2>1, BatchNumber, PermissionPlaces
  <2>3. run.at = 2 /\ Step.contract = "AuxiliaryCommandsAggregator"
    BY <1>1, <2>1, <2>2, PermissionSteps
  <2> QED BY <1>4, <2>3 DEF At
<1>5. CASE run.script \notin {"acm", "executorOwner", "permissions"}
  <2>1. Step \in OrdinarySteps
    BY <1>1, <1>5, OrdinaryPlace
  <2> QED BY <1>1, <1>5, <2>1 DEF OrdinarySteps
<1> QED BY <1>2, <1>3, <1>4, <1>5

(* Where a script needs contracts.                                          *)
LEMMA NeedsWhat ==
    ASSUME TypeOK, Running("need")
    PROVE  \/ At("acm", 2) /\ Step.contracts = {"NormalTimelock"}
           \/ At("executorOwner", 1) /\ Executor \in Step.contracts
           \/ At("permissions", 1) \/ At("permissions", 7)
           \/ run.script \notin {"acm", "executorOwner", "permissions"}
<1> USE Operations
<1>1. run # Idle /\ Step.op = "need"
  BY DEF Running, Step
<1>2. CASE run.script = "acm"
  <2>1. run.at \in 1 .. 4 /\ Step = Script["acm"][run.at]
    BY <1>1, <1>2, AcmPlace DEF Step
  <2>2. run.at = 2 /\ Step.contracts = {"NormalTimelock"}
    BY <1>1, <1>2, <2>1, AcmPlace
  <2> QED BY <1>2, <2>2 DEF At
<1>3. CASE run.script = "executorOwner"
  <2>1. run.at \in 1 .. 18 /\ Step = OmnichainExecutorOwner[run.at]
    BY <1>1, <1>3, OwnerPlace DEF Step
  <2>2. run.at = 1 /\ Executor \in Step.contracts
    BY <1>1, <2>1, OwnerSteps
  <2> QED BY <1>3, <2>2 DEF At
<1>4. CASE run.script = "permissions"
  <2>1. run.at \in 1 .. (8 + 2 * NumBatches) /\ Step = PermissionsScript[run.at]
    BY <1>1, <1>4, PermissionPlace DEF Step
  <2>2. \/ run.at \in 1 .. 7
        \/ \E k \in 1 .. NumBatches : run.at = 6 + 2 * k \/ run.at = 7 + 2 * k
        \/ run.at = 8 + 2 * NumBatches
    BY <2>1, BatchNumber, PermissionPlaces
  <2>3. run.at \in {1, 7}
    BY <1>1, <2>1, <2>2, PermissionSteps
  <2> QED BY <1>4, <2>3 DEF At
<1>5. CASE run.script \notin {"acm", "executorOwner", "permissions"}
  <2>1. Step \in OrdinarySteps
    BY <1>1, <1>5, OrdinaryPlace
  <2> QED BY <1>1, <1>5, <2>1 DEF OrdinarySteps
<1> QED BY <1>2, <1>3, <1>4, <1>5

(* Where a script passes over steps.                                        *)
LEMMA SkipsWhat ==
    ASSUME TypeOK, Running("unless")
    PROVE  /\ Step.skip \in Nat
           /\ \/ At("executorOwner", 3) /\ Step.contract = Executor /\ Step.skip = 8
              \/ At("executorOwner", 12) /\ Step.contract = Owner /\ Step.skip = 5
              \/ At("permissions", 3) /\ Step.skip = 2
              \/ run.script \notin {"acm", "executorOwner", "permissions"}
<1> USE Operations
<1>1. run # Idle /\ Step.op = "unless"
  BY DEF Running, Step
<1>2. CASE run.script = "acm"
  <2>1. run.at \in 1 .. 4 /\ Step = Script["acm"][run.at]
    BY <1>1, <1>2, AcmPlace DEF Step
  <2>2. FALSE
    BY <1>1, <1>2, <2>1, AcmPlace
  <2> QED BY <1>2, <2>2 DEF At
<1>3. CASE run.script = "executorOwner"
  <2>1. run.at \in 1 .. 18 /\ Step = OmnichainExecutorOwner[run.at]
    BY <1>1, <1>3, OwnerPlace DEF Step
  <2>2. \/ run.at = 3 /\ Step.contract = Executor /\ Step.skip = 8
        \/ run.at = 12 /\ Step.contract = Owner /\ Step.skip = 5
    BY <1>1, <2>1, OwnerSteps
  <2> QED BY <1>3, <2>2 DEF At
<1>4. CASE run.script = "permissions"
  <2>1. run.at \in 1 .. (8 + 2 * NumBatches) /\ Step = PermissionsScript[run.at]
    BY <1>1, <1>4, PermissionPlace DEF Step
  <2>2. \/ run.at \in 1 .. 7
        \/ \E k \in 1 .. NumBatches : run.at = 6 + 2 * k \/ run.at = 7 + 2 * k
        \/ run.at = 8 + 2 * NumBatches
    BY <2>1, BatchNumber, PermissionPlaces
  <2>3. run.at = 3 /\ Step.skip = 2
    BY <1>1, <2>1, <2>2, PermissionSteps
  <2> QED BY <1>4, <2>3 DEF At
<1>5. CASE run.script \notin {"acm", "executorOwner", "permissions"}
  <2>1. Step \in OrdinarySteps
    BY <1>1, <1>5, OrdinaryPlace
  <2> QED BY <1>1, <1>5, <2>1 DEF OrdinarySteps
<1> QED BY <1>2, <1>3, <1>4, <1>5

(* Where a script waits for a transaction.                                  *)
LEMMA WaitsWhere ==
    ASSUME TypeOK, Running("wait")
    PROVE  \/ run.script = "executorOwner" /\ run.at \in {7, 9, 11, 15, 17}
           \/ At("permissions", 5)
           \/ \E k \in 1 .. NumBatches : At("permissions", 7 + 2 * k)
           \/ run.script \notin {"acm", "executorOwner", "permissions"}
<1> USE Operations
<1>1. run # Idle /\ Step.op = "wait"
  BY DEF Running, Step
<1>2. CASE run.script = "acm"
  <2>1. run.at \in 1 .. 4 /\ Step = Script["acm"][run.at]
    BY <1>1, <1>2, AcmPlace DEF Step
  <2>2. FALSE
    BY <1>1, <1>2, <2>1, AcmPlace
  <2> QED BY <1>2, <2>2 DEF At
<1>3. CASE run.script = "executorOwner"
  <2>1. run.at \in 1 .. 18 /\ Step = OmnichainExecutorOwner[run.at]
    BY <1>1, <1>3, OwnerPlace DEF Step
  <2>2. run.at \in {7, 9, 11, 15, 17}
    BY <1>1, <2>1, OwnerSteps
  <2> QED BY <1>3, <2>2 DEF At
<1>4. CASE run.script = "permissions"
  <2>1. run.at \in 1 .. (8 + 2 * NumBatches) /\ Step = PermissionsScript[run.at]
    BY <1>1, <1>4, PermissionPlace DEF Step
  <2>2. \/ run.at \in 1 .. 7
        \/ \E k \in 1 .. NumBatches : run.at = 6 + 2 * k \/ run.at = 7 + 2 * k
        \/ run.at = 8 + 2 * NumBatches
    BY <2>1, BatchNumber, PermissionPlaces
  <2>3. run.at = 5 \/ \E k \in 1 .. NumBatches : run.at = 7 + 2 * k
    BY <1>1, <2>1, <2>2, PermissionSteps
  <2> QED BY <1>4, <2>3 DEF At
<1>5. CASE run.script \notin {"acm", "executorOwner", "permissions"}
  <2>1. Step \in OrdinarySteps
    BY <1>1, <1>5, OrdinaryPlace
  <2> QED BY <1>1, <1>5, <2>1 DEF OrdinarySteps
<1> QED BY <1>2, <1>3, <1>4, <1>5

(* Where a script ends with the commands to propose.                        *)
LEMMA ShowsWhere ==
    ASSUME TypeOK, Running("print")
    PROVE  \/ At("executorOwner", 18)
           \/ At("permissions", 8 + 2 * NumBatches)
           \/ run.script \notin {"acm", "executorOwner", "permissions"}
<1> USE Operations
<1>1. run # Idle /\ Step.op = "print"
  BY DEF Running, Step
<1>2. CASE run.script = "acm"
  <2>1. run.at \in 1 .. 4 /\ Step = Script["acm"][run.at]
    BY <1>1, <1>2, AcmPlace DEF Step
  <2>2. FALSE
    BY <1>1, <1>2, <2>1, AcmPlace
  <2> QED BY <1>2, <2>2 DEF At
<1>3. CASE run.script = "executorOwner"
  <2>1. run.at \in 1 .. 18 /\ Step = OmnichainExecutorOwner[run.at]
    BY <1>1, <1>3, OwnerPlace DEF Step
  <2>2. run.at = 18
    BY <1>1, <2>1, OwnerSteps
  <2> QED BY <1>3, <2>2 DEF At
<1>4. CASE run.script = "permissions"
  <2>1. run.at \in 1 .. (8 + 2 * NumBatches) /\ Step = PermissionsScript[run.at]
    BY <1>1, <1>4, PermissionPlace DEF Step
  <2>2. \/ run.at \in 1 .. 7
        \/ \E k \in 1 .. NumBatches : run.at = 6 + 2 * k \/ run.at = 7 + 2 * k
        \/ run.at = 8 + 2 * NumBatches
    BY <2>1, BatchNumber, PermissionPlaces
  <2>3. run.at = 8 + 2 * NumBatches
    BY <1>1, <2>1, <2>2, PermissionSteps
  <2> QED BY <1>4, <2>3 DEF At
<1>5. CASE run.script \notin {"acm", "executorOwner", "permissions"}
  <2>1. Step \in OrdinarySteps
    BY <1>1, <1>5, OrdinaryPlace
  <2> QED BY <1>1, <1>5, <2>1 DEF OrdinarySteps
<1> QED BY <1>2, <1>3, <1>4, <1>5

(* Where a script requires to be an authorized batcher.                     *)
LEMMA BatcherWhere ==
    ASSUME TypeOK, Running("requireAuthorizedBatcher")
    PROVE  At("permissions", 6)
<1> USE Operations
<1>1. run # Idle /\ Step.op = "requireAuthorizedBatcher"
  BY DEF Running, Step
<1>2. CASE run.script = "acm"
  <2>1. run.at \in 1 .. 4 /\ Step = Script["acm"][run.at]
    BY <1>1, <1>2, AcmPlace DEF Step
  <2>2. FALSE
    BY <1>1, <1>2, <2>1, AcmPlace
  <2> QED BY <1>2, <2>2 DEF At
<1>3. CASE run.script = "executorOwner"
  <2>1. run.at \in 1 .. 18 /\ Step = OmnichainExecutorOwner[run.at]
    BY <1>1, <1>3, OwnerPlace DEF Step
  <2>2. FALSE
    BY <1>1, <2>1, OwnerSteps
  <2> QED BY <1>3, <2>2 DEF At
<1>4. CASE run.script = "permissions"
  <2>1. run.at \in 1 .. (8 + 2 * NumBatches) /\ Step = PermissionsScript[run.at]
    BY <1>1, <1>4, PermissionPlace DEF Step
  <2>2. \/ run.at \in 1 .. 7
        \/ \E k \in 1 .. NumBatches : run.at = 6 + 2 * k \/ run.at = 7 + 2 * k
        \/ run.at = 8 + 2 * NumBatches
    BY <2>1, BatchNumber, PermissionPlaces
  <2>3. run.at = 6
    BY <1>1, <2>1, <2>2, PermissionSteps
  <2> QED BY <1>4, <2>3 DEF At
<1>5. CASE run.script \notin {"acm", "executorOwner", "permissions"}
  <2>1. Step \in OrdinarySteps
    BY <1>1, <1>5, OrdinaryPlace
  <2> QED BY <1>1, <1>5, <2>1 DEF OrdinarySteps
<1> QED BY <1>2, <1>3, <1>4, <1>5

-----------------------------------------------------------------------------
(* The mempool                                                               *)

LEMMA Sent ==
    ASSUME TypeOK, NEW tx \in Transactions, mempool' = Append(mempool, tx)
    PROVE  /\ Len(mempool) \in Nat /\ DOMAIN mempool = 1 .. Len(mempool)
           /\ Len(mempool') = Len(mempool) + 1 /\ DOMAIN mempool' = 1 .. Len(mempool) + 1
           /\ mempool'[Len(mempool) + 1] = tx
           /\ \A j \in DOMAIN mempool : mempool'[j] = mempool[j]
           /\ mempool' \in Seq(Transactions)
<1>1. mempool \in Seq(Transactions)
  BY DEF TypeOK
<1> QED BY <1>1

LEMMA Taken ==
    ASSUME TypeOK, mempool # <<>>, mempool' = Tail(mempool)
    PROVE  /\ Len(mempool) \in Nat \ {0} /\ DOMAIN mempool = 1 .. Len(mempool)
           /\ Len(mempool') = Len(mempool) - 1 /\ DOMAIN mempool' = 1 .. Len(mempool) - 1
           /\ \A j \in DOMAIN mempool' : j + 1 \in DOMAIN mempool /\ mempool'[j] = mempool[j + 1]
           /\ mempool' \in Seq(Transactions)
           /\ Head(mempool) = mempool[1] /\ mempool[1] \in Transactions
<1>1. mempool \in Seq(Transactions)
  BY DEF TypeOK
<1> QED BY <1>1

(* A transaction that waits and is not the first still waits.                *)
LEMMA StillWaits ==
    ASSUME TypeOK, mempool # <<>>, mempool' = Tail(mempool), NEW tx,
           \E j \in DOMAIN mempool : mempool[j] = tx, mempool[1] # tx
    PROVE  \E j \in DOMAIN mempool' : mempool'[j] = tx
<1>1. PICK j \in DOMAIN mempool : mempool[j] = tx
  OBVIOUS
<1>2. j - 1 \in DOMAIN mempool' /\ (j - 1) + 1 = j
  BY <1>1, Taken
<1> QED BY <1>1, <1>2, Taken

LEMMA WaitsAfterSend ==
    ASSUME TypeOK, NEW sent \in Transactions, mempool' = Append(mempool, sent), NEW tx,
           tx = sent \/ \E j \in DOMAIN mempool : mempool[j] = tx
    PROVE  \E j \in DOMAIN mempool' : mempool'[j] = tx
<1>1. CASE tx = sent
  <2>1. Len(mempool) + 1 \in DOMAIN mempool' /\ mempool'[Len(mempool) + 1] = tx
    BY <1>1, Sent
  <2> QED BY <2>1
<1>2. CASE \E j \in DOMAIN mempool : mempool[j] = tx
  <2>1. PICK j \in DOMAIN mempool : mempool[j] = tx
    BY <1>2
  <2>2. j \in DOMAIN mempool' /\ mempool'[j] = tx
    BY <2>1, Sent
  <2> QED BY <2>2
<1> QED BY <1>1, <1>2

(* What the first transaction does when it is mined.                         *)
Reverts == UNCHANGED <<grants, owner, pendingOwner, settings, functionRegistry, batches>>

Does(tx) ==
    \/ /\ tx = Grant /\ ACM!MayGrant(grants, Deployer)
       /\ grants' = grants \cup {<<DEFAULT_ADMIN_ROLE, "NormalTimelock">>}
       /\ UNCHANGED <<owner, pendingOwner, settings, functionRegistry, batches>>
    \/ /\ tx = Renounce
       /\ grants' = grants \ {<<DEFAULT_ADMIN_ROLE, Deployer>>}
       /\ UNCHANGED <<owner, pendingOwner, settings, functionRegistry, batches>>
    \/ \E c \in TwoStep \ {Owner} :
          /\ tx = Transfer(c, "NormalTimelock")
          /\ pendingOwner' = [pendingOwner EXCEPT ![c] = "NormalTimelock"]
          /\ UNCHANGED <<grants, owner, settings, functionRegistry, batches>>
    \/ /\ tx = Transfer(Sender, "NormalTimelock")
       /\ owner' = [owner EXCEPT ![Sender] = "NormalTimelock"]
       /\ UNCHANGED <<grants, pendingOwner, settings, functionRegistry, batches>>
    \/ /\ tx = Transfer(Owner, "NormalTimelock") /\ owner[Owner] = Deployer
       /\ pendingOwner' = [pendingOwner EXCEPT ![Owner] = "NormalTimelock"]
       /\ UNCHANGED <<grants, owner, settings, functionRegistry, batches>>
    \/ /\ tx = Transfer(Executor, Owner) /\ owner[Executor] = Deployer
       /\ owner' = [owner EXCEPT ![Executor] = Owner]
       /\ UNCHANGED <<grants, pendingOwner, settings, functionRegistry, batches>>
    \/ \E s \in BridgeSettings :
          /\ tx = Configure(s) /\ owner[Executor] = Deployer
          /\ settings' = settings \cup {s}
          /\ UNCHANGED <<grants, owner, pendingOwner, functionRegistry, batches>>
    \/ \E signatures \in {NormalSignatures, GuardianSignatures} :
          /\ tx = Upsert(signatures) /\ owner[Owner] = Deployer
          /\ functionRegistry' = functionRegistry \cup signatures
          /\ UNCHANGED <<grants, owner, pendingOwner, settings, batches>>
    \/ \E k \in 1 .. NumBatches :
          /\ tx = AddBatch(PermissionBatch(k))
          /\ batches' = Append(batches, PermissionBatch(k))
          /\ UNCHANGED <<grants, owner, pendingOwner, settings, functionRegistry>>

LEMMA AppliedDoes ==
    ASSUME NEW tx \in Transactions, Succeeds(tx), Apply(tx)
    PROVE  Does(tx)
<1> USE Calls, Accounts
<1>1. CASE tx = Grant
  <2>1. tx.call = "grantRole"
    BY <1>1
  <2>2. ACM!MayGrant(grants, Deployer)
    BY <2>1 DEF Succeeds
  <2>3. grants' = grants \cup {<<DEFAULT_ADMIN_ROLE, "NormalTimelock">>}
    BY <2>1 DEF Apply, GrantsAfter, ACM!Effect, ACM!GrantCalls
  <2>4. UNCHANGED <<owner, pendingOwner, settings, functionRegistry, batches>>
    BY <2>1 DEF Apply, Transfers
  <2> QED BY <1>1, <2>2, <2>3, <2>4 DEF Does
<1>2. CASE tx = Renounce
  <2>1. tx.call = "renounceRole"
    BY <1>2
  <2>3. grants' = grants \ {<<DEFAULT_ADMIN_ROLE, Deployer>>}
    BY <2>1 DEF Apply, GrantsAfter, ACM!Effect, ACM!GrantCalls
  <2>4. UNCHANGED <<owner, pendingOwner, settings, functionRegistry, batches>>
    BY <2>1 DEF Apply, Transfers
  <2> QED BY <1>2, <2>3, <2>4 DEF Does
<1>3. ASSUME NEW c \in TwoStep, tx = Transfer(c, "NormalTimelock")
      PROVE  /\ pendingOwner' = [pendingOwner EXCEPT ![c] = "NormalTimelock"]
             /\ owner[c] = Deployer
             /\ UNCHANGED <<grants, owner, settings, functionRegistry, batches>>
  <2>1. tx.call = "transferOwnership" /\ tx.contract = c /\ tx.to = "NormalTimelock"
    BY <1>3
  <2>2. owner[c] = Deployer
    BY <2>1 DEF Succeeds
  <2>3. UNCHANGED <<grants, owner, settings, functionRegistry, batches>>
    BY <2>1 DEF Apply, Transfers, GrantsAfter
  <2>4. pendingOwner' = [pendingOwner EXCEPT ![c] = "NormalTimelock"]
    BY <2>1 DEF Apply, Transfers
  <2> QED BY <2>2, <2>3, <2>4
<1>4. CASE tx = Transfer(Executor, Owner)
  <2>1. tx.call = "transferOwnership" /\ tx.contract = Executor /\ tx.to = Owner
    BY <1>4
  <2>2. owner[Executor] = Deployer
    BY <2>1 DEF Succeeds
  <2>3. UNCHANGED <<grants, pendingOwner, settings, functionRegistry, batches>>
    BY <2>1 DEF Apply, Transfers, GrantsAfter
  <2>4. owner' = [owner EXCEPT ![Executor] = Owner]
    BY <2>1 DEF Apply, Transfers
  <2> QED BY <1>4, <2>2, <2>3, <2>4 DEF Does
<1>5. ASSUME NEW s \in BridgeSettings, tx = Configure(s)
      PROVE  Does(tx)
  <2>1. tx.call = "configure" /\ tx.setting = s
    BY <1>5
  <2>2. owner[Executor] = Deployer
    BY <2>1 DEF Succeeds, Executor
  <2>3. UNCHANGED <<grants, owner, pendingOwner, functionRegistry, batches>>
    BY <2>1 DEF Apply, Transfers, GrantsAfter
  <2>4. settings' = settings \cup {s}
    BY <2>1 DEF Apply
  <2> QED BY <1>5, <2>2, <2>3, <2>4 DEF Does
<1>6. ASSUME NEW signatures \in {NormalSignatures, GuardianSignatures}, tx = Upsert(signatures)
      PROVE  Does(tx)
  <2>1. tx.call = "upsertSignature" /\ tx.signatures = signatures
    BY <1>6
  <2>2. owner[Owner] = Deployer
    BY <2>1 DEF Succeeds, Owner
  <2>3. UNCHANGED <<grants, owner, pendingOwner, settings, batches>>
    BY <2>1 DEF Apply, Transfers, GrantsAfter
  <2>4. functionRegistry' = functionRegistry \cup signatures
    BY <2>1 DEF Apply
  <2> QED BY <1>6, <2>2, <2>3, <2>4 DEF Does
<1>7. ASSUME NEW k \in 1 .. NumBatches, tx = AddBatch(PermissionBatch(k))
      PROVE  Does(tx)
  <2>1. tx.call = "addBatch" /\ tx.calls = PermissionBatch(k)
    BY <1>7
  <2>2. UNCHANGED <<grants, owner, pendingOwner, settings, functionRegistry>>
    BY <2>1 DEF Apply, Transfers, GrantsAfter
  <2>3. batches' = Append(batches, PermissionBatch(k))
    BY <2>1 DEF Apply
  <2> QED BY <1>7, <2>2, <2>3 DEF Does
<1>8. ASSUME NEW c \in ForTimelock, tx = Transfer(c, "NormalTimelock")
      PROVE  Does(tx)
  <2>1. CASE c \in TwoStep \ {Owner}
    BY <1>3, <1>8, <2>1 DEF Does
  <2>2. CASE c = Sender
    <3>1. tx.call = "transferOwnership" /\ tx.contract = Sender /\ tx.to = "NormalTimelock"
      BY <1>8, <2>2
    <3>2. UNCHANGED <<grants, pendingOwner, settings, functionRegistry, batches>>
      BY <3>1 DEF Apply, Transfers, GrantsAfter
    <3>3. owner' = [owner EXCEPT ![Sender] = "NormalTimelock"]
      BY <3>1 DEF Apply, Transfers
    <3> QED BY <1>8, <2>2, <3>2, <3>3 DEF Does
  <2> QED BY <1>8, <2>1, <2>2 DEF ForTimelock
<1>9. CASE tx = Transfer(Owner, "NormalTimelock")
  BY <1>3, <1>9 DEF Does
<1> QED BY <1>1, <1>2, <1>4, <1>5, <1>6, <1>7, <1>8, <1>9, TransactionKinds

LEMMA Mined ==
    ASSUME TypeOK, Mine
    PROVE  /\ mempool # <<>> /\ mempool' = Tail(mempool) /\ mempool[1] \in Transactions
           /\ receipt' \in [ok : BOOLEAN, added : SUBSET Nat]
           /\ receipt'.added = IF mempool[1].call = "addBatch" THEN {Len(batches)} ELSE {}
           /\ \/ ~receipt'.ok /\ Reverts
              \/ receipt'.ok /\ Succeeds(mempool[1]) /\ Does(mempool[1])
           /\ UNCHANGED <<task, code, authorizedBatchers, batchExecuted, run, proposed,
                          indexes, crashes>>
<1>1. mempool # <<>> /\ mempool' = Tail(mempool)
      /\ UNCHANGED <<task, code, authorizedBatchers, batchExecuted, run, proposed, indexes, crashes>>
  BY DEF Mine
<1>2. Head(mempool) = mempool[1] /\ mempool[1] \in Transactions
  BY <1>1, Taken
<1>3. receipt' = [ok |-> Succeeds(mempool[1]),
                  added |-> IF mempool[1].call = "addBatch" THEN {Len(batches)} ELSE {}]
  BY <1>2 DEF Mine
<1>4. Len(batches) \in Nat
  BY DEF TypeOK
<1>5. receipt'.added = IF mempool[1].call = "addBatch" THEN {Len(batches)} ELSE {}
  BY <1>3
<1>6. Succeeds(mempool[1]) \in BOOLEAN
  <2>1. mempool[1].call \in {"grantRole", "renounceRole", "transferOwnership", "configure",
                             "upsertSignature", "addBatch"}
    BY <1>2, TransactionKinds, Calls
  <2>2. CASE mempool[1].call = "grantRole"
    BY <2>2 DEF Succeeds, ACM!MayGrant, ACM!HasRole
  <2>3. CASE mempool[1].call = "renounceRole"
    BY <2>3 DEF Succeeds
  <2>4. CASE mempool[1].call = "transferOwnership"
    BY <2>4 DEF Succeeds
  <2>5. CASE mempool[1].call = "configure"
    BY <2>5 DEF Succeeds
  <2>6. CASE mempool[1].call = "upsertSignature"
    BY <2>6 DEF Succeeds
  <2>7. CASE mempool[1].call = "addBatch"
    BY <2>7 DEF Succeeds
  <2> QED BY <2>1, <2>2, <2>3, <2>4, <2>5, <2>6, <2>7
<1>7. receipt' \in [ok : BOOLEAN, added : SUBSET Nat]
  <2>1. receipt'.added \in SUBSET Nat
    BY <1>4, <1>5
  <2> QED BY <1>3, <1>6, <2>1
<1>8. CASE Succeeds(mempool[1])
  <2>1. Apply(mempool[1])
    BY <1>2, <1>8 DEF Mine
  <2>2. Does(mempool[1])
    BY <1>2, <1>8, <2>1, AppliedDoes
  <2>3. receipt'.ok
    BY <1>3, <1>8
  <2> QED BY <1>1, <1>2, <1>5, <1>7, <1>8, <2>2, <2>3
<1>9. CASE ~Succeeds(mempool[1])
  <2>1. Reverts
    BY <1>2, <1>9 DEF Mine, Reverts
  <2>2. ~receipt'.ok
    BY <1>3, <1>9
  <2> QED BY <1>1, <1>2, <1>5, <1>7, <2>1, <2>2
<1> QED BY <1>8, <1>9

-----------------------------------------------------------------------------
(* Type correctness                                                          *)

RunTyped ==
    /\ run' \in [script : Scripts \cup {None}, at : Nat, added : SUBSET Nat]
    /\ run' # Idle => run'.script \in DOMAIN Script /\ run'.at \in DOMAIN Script[run'.script]

LEMMA IdleTyped == run' = Idle => RunTyped
BY DEF RunTyped, Idle

(* The steps of a run, by what becomes of the run.                           *)
LEMMA RunGoes ==
    ASSUME TypeOK, RunStep
    PROVE  /\ run # Idle /\ RunTyped
           /\ \/ run' = Idle
              \/ Running("unless") /\ CheckOwner
                    /\ Goes(IF owner[Step.contract] = Deployer THEN 1 ELSE 1 + Step.skip, {})
              \/ Running("wait") /\ AwaitReceipt /\ receipt.ok /\ Goes(1, receipt.added)
              \/ ~Running("unless") /\ ~Running("wait") /\ Goes(1, {})
<1>1. run # Idle
  BY DEF RunStep, DeployContract, Fetch, CheckOwner, CheckBatcher, SendTransaction, AwaitReceipt,
         PrintCommands, Running
<1> DEFINE Result ==
      /\ run # Idle /\ RunTyped
      /\ \/ run' = Idle
         \/ Running("unless") /\ CheckOwner
               /\ Goes(IF owner[Step.contract] = Deployer THEN 1 ELSE 1 + Step.skip, {})
         \/ Running("wait") /\ AwaitReceipt /\ receipt.ok /\ Goes(1, receipt.added)
         \/ ~Running("unless") /\ ~Running("wait") /\ Goes(1, {})
<1>2. ASSUME ~Running("unless"), ~Running("wait"), run' = Past(1, {}) \/ run' = Idle
      PROVE  Result
  <2>1. CASE run' = Idle
    BY <1>1, <2>1, IdleTyped
  <2>2. CASE run' = Past(1, {})
    BY <1>1, <1>2, <2>2, PastGoes DEF RunTyped
  <2> QED BY <1>2, <2>1, <2>2
<1>3. CASE DeployContract
  BY <1>2, <1>3 DEF DeployContract, Running
<1>4. CASE Fetch
  BY <1>2, <1>4 DEF Fetch, Running
<1>5. CASE CheckBatcher
  BY <1>2, <1>5 DEF CheckBatcher, Running
<1>6. CASE SendTransaction
  BY <1>2, <1>6 DEF SendTransaction, Running
<1>7. CASE PrintCommands
  BY <1>2, <1>7 DEF PrintCommands, Running
<1>8. CASE CheckOwner
  <2>1. Running("unless") /\ Step.skip \in Nat
    BY <1>8, SkipsWhat DEF CheckOwner
  <2> DEFINE n == IF owner[Step.contract] = Deployer THEN 1 ELSE 1 + Step.skip
  <2>2. n \in Nat \ {0}
    BY <2>1
  <2>3. run' = Past(n, {})
    BY <1>8 DEF CheckOwner
  <2> HIDE DEF n
  <2>4. RunTyped /\ (run' = Idle \/ Goes(n, {}))
    BY <1>1, <2>2, <2>3, PastGoes DEF RunTyped
  <2> QED BY <1>1, <1>8, <2>1, <2>4 DEF n
<1>9. CASE AwaitReceipt
  <2>1. Running("wait") /\ receipt.added \in SUBSET Nat
    BY <1>9 DEF AwaitReceipt, TypeOK
  <2>2. CASE receipt.ok
    <3>1. run' = Past(1, receipt.added)
      BY <1>9, <2>2 DEF AwaitReceipt
    <3>2. RunTyped /\ (run' = Idle \/ Goes(1, receipt.added))
      BY <1>1, <2>1, <3>1, PastGoes DEF RunTyped
    <3> QED BY <1>1, <1>9, <2>1, <2>2, <3>2
  <2>3. CASE ~receipt.ok
    <3>1. run' = Idle
      BY <1>9, <2>3 DEF AwaitReceipt
    <3> QED BY <1>1, <3>1, IdleTyped
  <2> QED BY <2>2, <2>3
<1> QED BY <1>3, <1>4, <1>5, <1>6, <1>7, <1>8, <1>9 DEF RunStep

LEMMA StartTyped ==
    ASSUME TypeOK, NEW s \in Scripts, Start(s)
    PROVE  RunTyped /\ run'.script = s /\ run'.at = 1 /\ run'.added = {}
<1>1. run' = [script |-> s, at |-> 1, added |-> {}] /\ s \in DOMAIN Script
  BY DEF Start
<1>2. 1 \in DOMAIN Script[s]
  BY <1>1, Lengths
<1> QED BY <1>1, <1>2 DEF RunTyped

LEMMA TypeStep ==
    ASSUME TypeOK, [Next]_vars
    PROVE  TypeOK'
<1> DEFINE Data ==
      /\ owner \in [Ownables -> {None, Deployer, Owner, "NormalTimelock"}]
      /\ pendingOwner \in [TwoStep -> {None, "NormalTimelock"}]
      /\ batches \in Seq(PermissionBatches \cup {OtherGrants})
      /\ mempool \in Seq(Transactions)
      /\ receipt \in [ok : BOOLEAN, added : SUBSET Nat]
<1> USE Accounts
<1>1. Data
  BY DEF TypeOK
<1>2. task' = task
  BY DEF Next, Start, RunStep, DeployContract, Fetch, CheckOwner, CheckBatcher, SendTransaction,
         AwaitReceipt, PrintCommands, Crash, Mine, Govern, ConfigureExecutorOwner, ConfigureSender,
         AcceptOwnership, AddAuthorizedBatchers, ExecuteBatches, AddOtherBatch, vars
<1>3. Script' = Script /\ task' \in Tasks
  BY <1>2 DEF Script, TypeOK
<1>4. ASSUME UNCHANGED run PROVE RunTyped
  BY <1>4 DEF TypeOK, RunTyped
<1>5. ASSUME RunTyped, Data' PROVE TypeOK'
  <2>1. run' # Idle => run'.script \in DOMAIN Script' /\ run'.at \in DOMAIN Script'[run'.script]
    BY <1>3, <1>5 DEF RunTyped
  <2>2. run' \in [script : Scripts \cup {None}, at : Nat, added : SUBSET Nat]
    BY <1>5 DEF RunTyped
  <2> QED BY <1>3, <1>5, <2>1, <2>2 DEF TypeOK, Idle
<1>6. ASSUME UNCHANGED <<owner, pendingOwner, batches, mempool, receipt>> PROVE Data'
  BY <1>1, <1>6
<1>7. ASSUME NEW s \in Scripts, Start(s) PROVE TypeOK'
  BY <1>5, <1>6, <1>7, StartTyped DEF Start, chainVars
<1>8. CASE DeployContract
  <2>1. owner' \in [Ownables -> {None, Deployer, Owner, "NormalTimelock"}]
    BY <1>1, <1>8 DEF DeployContract
  <2>2. RunTyped
    BY <1>8, RunGoes DEF RunStep
  <2> QED BY <1>1, <1>5, <1>8, <2>1, <2>2 DEF DeployContract
<1>9. CASE Fetch \/ CheckOwner \/ CheckBatcher \/ AwaitReceipt \/ PrintCommands
  <2>1. RunTyped
    BY <1>9, RunGoes DEF RunStep
  <2>2. UNCHANGED <<owner, pendingOwner, batches, mempool, receipt>>
    BY <1>9 DEF Fetch, CheckOwner, CheckBatcher, AwaitReceipt, PrintCommands, chainVars
  <2> QED BY <1>5, <1>6, <2>1, <2>2
<1>10. CASE SendTransaction
  <2>1. RunTyped
    BY <1>10, RunGoes DEF RunStep
  <2>2. UNCHANGED <<owner, pendingOwner, batches, receipt>>
    BY <1>10 DEF SendTransaction, chainVars
  <2>3. mempool' = mempool \/ mempool' = Append(mempool, Step.tx)
    BY <1>10 DEF SendTransaction
  <2>4. Step.tx \in Transactions
    BY <1>10, SendsWhat DEF SendTransaction
  <2>5. mempool' \in Seq(Transactions)
    BY <1>1, <2>3, <2>4
  <2> QED BY <1>1, <1>5, <2>1, <2>2, <2>5
<1>11. CASE Crash
  BY <1>5, <1>6, <1>11, IdleTyped DEF Crash, chainVars
<1>12. CASE Mine
  <2>1. /\ mempool' \in Seq(Transactions) /\ receipt' \in [ok : BOOLEAN, added : SUBSET Nat]
        /\ UNCHANGED run
    BY <1>12, Mined, Taken
  <2>2. CASE Reverts
    BY <1>1, <1>4, <1>5, <2>1, <2>2 DEF Reverts
  <2>3. CASE Does(mempool[1])
    <3>1. owner' \in [Ownables -> {None, Deployer, Owner, "NormalTimelock"}]
      BY <1>1, <2>3 DEF Does
    <3>2. pendingOwner' \in [TwoStep -> {None, "NormalTimelock"}]
      BY <1>1, <2>3 DEF Does
    <3>3. batches' \in Seq(PermissionBatches \cup {OtherGrants})
      <4>1. batches' = batches \/ \E calls \in PermissionBatches : batches' = Append(batches, calls)
        BY <2>3 DEF Does, PermissionBatches
      <4> QED BY <1>1, <4>1
    <3> QED BY <1>4, <1>5, <2>1, <3>1, <3>2, <3>3
  <2> QED BY <1>12, <2>2, <2>3, Mined
<1>13. ASSUME NEW cs \in SUBSET TwoStep, Accept(cs)
       PROVE  /\ owner' \in [Ownables -> {None, Deployer, Owner, "NormalTimelock"}]
              /\ pendingOwner' \in [TwoStep -> {None, "NormalTimelock"}]
  BY <1>1, <1>13 DEF Accept
<1>14. CASE ConfigureExecutorOwner
  <2>1. Accept({Owner}) /\ {Owner} \in SUBSET TwoStep
    BY <1>14 DEF ConfigureExecutorOwner, Owner
  <2> QED BY <1>1, <1>4, <1>5, <1>13, <1>14, <2>1 DEF ConfigureExecutorOwner, toolVars
<1>15. CASE AcceptOwnership
  <2>1. Accept(Nominated) /\ Nominated \in SUBSET TwoStep
    BY <1>15 DEF AcceptOwnership, Nominated
  <2> QED BY <1>1, <1>4, <1>5, <1>13, <1>15, <2>1 DEF AcceptOwnership, toolVars
<1>16. CASE ConfigureSender \/ AddAuthorizedBatchers
  <2>1. UNCHANGED <<owner, pendingOwner, batches, mempool, receipt, run>>
    BY <1>16 DEF ConfigureSender, AddAuthorizedBatchers, toolVars
  <2> QED BY <1>4, <1>5, <1>6, <2>1
<1>17. ASSUME NEW list \in indexes, ExecuteBatches(list) PROVE TypeOK'
  <2>1. UNCHANGED <<owner, pendingOwner, batches, mempool, receipt, run>>
    BY <1>17 DEF ExecuteBatches, toolVars
  <2> QED BY <1>4, <1>5, <1>6, <2>1
<1>18. CASE AddOtherBatch
  <2>1. UNCHANGED <<owner, pendingOwner, mempool, receipt, run>>
        /\ batches' = Append(batches, OtherGrants)
    BY <1>18 DEF AddOtherBatch, toolVars
  <2>2. batches' \in Seq(PermissionBatches \cup {OtherGrants})
    BY <1>1, <2>1
  <2> QED BY <1>1, <1>4, <1>5, <2>1, <2>2
<1>19. CASE UNCHANGED vars
  BY <1>4, <1>5, <1>6, <1>19 DEF vars, chainVars, toolVars
<1> QED BY <1>7, <1>8, <1>9, <1>10, <1>11, <1>12, <1>14, <1>15, <1>16, <1>17, <1>18, <1>19
        DEF Next, RunStep, Govern

-----------------------------------------------------------------------------
(* Administration is kept                                                    *)

LEMMA GrantedKept ==
    ASSUME code \subseteq code', grants \subseteq grants'
    PROVE  /\ Granted => Granted'
           /\ ACM!MayGrant(grants, Deployer) => ACM!MayGrant(grants', Deployer)
BY DEF Granted, ACM!MayGrant, ACM!HasRole

LEMMA AdministeredFrame ==
    ASSUME TypeOK, Administered, UNCHANGED <<task, mempool>>, code \subseteq code', grants \subseteq grants',
           Manager \in code' => Manager \in code \/ ACM!MayGrant(grants', Deployer)
    PROVE  Administered'
<1>1. /\ Granted => Granted'
      /\ ACM!MayGrant(grants, Deployer) => ACM!MayGrant(grants, Deployer)'
  BY GrantedKept DEF ACM!MayGrant, ACM!HasRole
<1>2. \A n : GrantWaits(n)' <=> GrantWaits(n)
  BY DEF GrantWaits
<1>3. ACM!MayGrant(grants, Deployer)' <=> ACM!MayGrant(grants', Deployer)
  BY DEF ACM!MayGrant, ACM!HasRole
<1> QED BY <1>1, <1>2, <1>3 DEF Administered

LEMMA ReachedFrame ==
    ASSUME AcmReached, UNCHANGED <<run, mempool>>, code \subseteq code', grants \subseteq grants'
    PROVE  AcmReached'
<1>1. Granted => Granted'
  BY GrantedKept
<1>2. GrantWaits(Len(mempool))' <=> GrantWaits(Len(mempool))
  BY DEF GrantWaits
<1> QED BY <1>1, <1>2 DEF AcmReached, At

LEMMA Elsewhere ==
    ASSUME run'.script # "acm" \/ run'.at = 1
    PROVE  AcmReached'
BY DEF AcmReached, At

LEMMA IdleElsewhere == run' = Idle => AcmReached'
BY Elsewhere, IdleRun, Accounts DEF Scripts

LEMMA ReachedStep ==
    ASSUME TypeOK, AcmReached, RunStep, code \subseteq code', grants \subseteq grants',
           At("acm", 1) /\ run' # Idle => Manager \in code',
           At("acm", 2) /\ run' # Idle => "NormalTimelock" \in code',
           At("acm", 3) /\ run' # Idle => Granted' \/ GrantWaits(Len(mempool))'
    PROVE  AcmReached'
<1>1. CASE run' = Idle
  BY <1>1, IdleElsewhere
<1>2. CASE run' # Idle /\ run.script # "acm"
  <2>1. run'.script = run.script
    BY <1>2, RunGoes DEF Goes
  <2> QED BY <1>2, <2>1, Elsewhere
<1>3. CASE run' # Idle /\ run.script = "acm"
  <2>1. run # Idle /\ run.at \in 1 .. 4
    BY <1>3, RunGoes, AcmPlace
  <2>2. ~Running("unless") /\ ~Running("wait")
    BY <1>3, <2>1, SkipsWhat, WaitsWhere DEF At
  <2>3. run'.script = "acm" /\ run'.at = run.at + 1
    BY <1>3, <2>2, RunGoes DEF Goes
  <2> QED BY <1>3, <2>1, <2>3 DEF AcmReached, At
<1> QED BY <1>1, <1>2, <1>3

LEMMA AdministrationStep ==
    ASSUME TypeOK, Administration, [Next]_vars
    PROVE  Administration'
<1> USE Accounts
<1>1. Administered /\ AcmReached
  BY DEF Administration
<1> SUFFICES Administered' /\ AcmReached'
  BY DEF Administration
<1>2. ASSUME UNCHANGED <<task, mempool, code>>, grants \subseteq grants' PROVE Administered'
  BY <1>1, <1>2, AdministeredFrame
<1>3. ASSUME NEW s \in Scripts, Start(s) PROVE Administered' /\ AcmReached'
  <2>1. UNCHANGED <<task, mempool, code, grants>>
    BY <1>3 DEF Start, chainVars
  <2> QED BY <1>2, <1>3, <2>1, StartTyped, Elsewhere
<1>4. CASE DeployContract
  <2>1. CASE Step.contract \in code
    <3>1. UNCHANGED <<task, mempool, code, grants>>
      BY <1>4, <2>1 DEF DeployContract
    <3>2. Administered'
      BY <1>2, <3>1
    <3>3. At("acm", 1) => Manager \in code'
      BY <1>4, <2>1, <3>1, DeploysWhat DEF DeployContract, At
    <3>4. ~At("acm", 2) /\ ~At("acm", 3)
      BY <1>4, DeploysWhat DEF DeployContract, At
    <3> QED BY <1>1, <1>4, <3>1, <3>2, <3>3, <3>4, ReachedStep DEF RunStep
  <2>2. CASE Step.contract \notin code
    <3>1. /\ mempool = <<>> /\ mempool' = mempool /\ task' = task /\ code' = code \cup {Step.contract}
          /\ grants' = IF Step.contract = Manager THEN {<<DEFAULT_ADMIN_ROLE, Deployer>>} ELSE grants
      BY <1>4, <2>2 DEF DeployContract, Manager
    <3>2. ~At("acm", 2) /\ ~At("acm", 3)
      BY <1>4, DeploysWhat DEF DeployContract, At
    <3>3. CASE Step.contract # Manager
      <4>1. code \subseteq code' /\ grants \subseteq grants' /\ (Manager \in code' => Manager \in code)
        BY <3>1, <3>3
      <4>2. ~At("acm", 1)
        BY <1>4, <3>3, DeploysWhat DEF DeployContract, At
      <4> QED BY <1>1, <1>4, <3>1, <3>2, <4>1, <4>2, AdministeredFrame, ReachedStep DEF RunStep
    <3>4. CASE Step.contract = Manager
      <4>1. At("acm", 1) /\ run # Idle
        BY <1>4, <3>4, DeploysWhat, Accounts DEF DeployContract, Running, Owner, Manager
      <4>2. task = "destination"
        BY <4>1, AcmPlace DEF At
      <4>3. ACM!MayGrant(grants, Deployer)'
        BY <3>1, <3>4 DEF ACM!MayGrant, ACM!HasRole
      <4>4. DOMAIN mempool' = {}
        BY <3>1
      <4>5. Administered'
        BY <3>1, <4>2, <4>3, <4>4 DEF Administered
      <4>6. run' = Idle \/ (run'.script = "acm" /\ run'.at = 2)
        BY <1>4, <4>1, RunGoes DEF RunStep, Goes, At, Running, DeployContract
      <4>7. AcmReached'
        BY <3>1, <3>4, <4>6, IdleElsewhere DEF AcmReached, At
      <4> QED BY <4>5, <4>7
    <3> QED BY <3>3, <3>4
  <2> QED BY <2>1, <2>2
<1>5. CASE Fetch
  <2>1. UNCHANGED <<task, mempool, code, grants>>
    BY <1>5 DEF Fetch, chainVars
  <2>2. ~At("acm", 1) /\ ~At("acm", 3)
    BY <1>5, NeedsWhat DEF Fetch, At
  <2>3. At("acm", 2) /\ run' # Idle => "NormalTimelock" \in code'
    BY <1>5, <2>1, NeedsWhat DEF Fetch, At
  <2>4. AcmReached'
    BY <1>1, <1>5, <2>1, <2>2, <2>3, ReachedStep DEF RunStep
  <2> QED BY <1>2, <2>1, <2>4
<1>6. CASE CheckOwner \/ CheckBatcher \/ AwaitReceipt \/ PrintCommands
  <2>1. UNCHANGED <<task, mempool, code, grants>>
    BY <1>6 DEF CheckOwner, CheckBatcher, AwaitReceipt, PrintCommands, chainVars
  <2>2. ~At("acm", 1) /\ ~At("acm", 2) /\ ~At("acm", 3)
    BY <1>6, SkipsWhat, BatcherWhere, WaitsWhere, ShowsWhere
       DEF CheckOwner, CheckBatcher, AwaitReceipt, PrintCommands, At
  <2>3. AcmReached'
    BY <1>1, <1>6, <2>1, <2>2, ReachedStep DEF RunStep
  <2> QED BY <1>2, <2>1, <2>3
<1>7. CASE SendTransaction
  <2>1. UNCHANGED <<task, code, grants>> /\ Running("send")
    BY <1>7 DEF SendTransaction, chainVars
  <2>2. CASE run' = Idle /\ mempool' = mempool
    BY <1>2, <2>1, <2>2, IdleElsewhere
  <2>3. CASE mempool' = Append(mempool, Step.tx)
    <3>1. Sends /\ Step.tx \in Transactions
      BY <2>1, SendsWhat
    <3> DEFINE tx == Step.tx
               n == Len(mempool)
    <3>2. /\ n \in Nat /\ DOMAIN mempool = 1 .. n /\ DOMAIN mempool' = 1 .. n + 1
          /\ Len(mempool') = n + 1 /\ mempool'[n + 1] = tx
          /\ \A j \in 1 .. n : mempool'[j] = mempool[j]
      BY <2>3, <3>1, Sent
    <3>3. tx.call = "grantRole" => At("acm", 3)
      BY <3>1, Calls DEF Sends, TimelockTransfers
    <3>4. tx.call = "renounceRole" => At("acm", 4)
      BY <3>1, Calls DEF Sends, TimelockTransfers
    <3>5. At("acm", 3) => tx.call = "grantRole"
      BY <3>1, Calls DEF Sends, At
    <3> HIDE DEF tx, n
    <3>6. /\ Granted' <=> Granted
          /\ ACM!MayGrant(grants, Deployer)' <=> ACM!MayGrant(grants, Deployer)
      BY <2>1 DEF Granted, ACM!MayGrant, ACM!HasRole
    <3>7. \A m \in 0 .. n : GrantWaits(m) => GrantWaits(m)'
      BY <3>2 DEF GrantWaits
    <3>8. \A j \in DOMAIN mempool' : mempool'[j].call \in {"grantRole", "renounceRole"} =>
              {Manager, "NormalTimelock"} \subseteq code'
      <4> SUFFICES ASSUME NEW j \in 1 .. n + 1, mempool'[j].call \in {"grantRole", "renounceRole"}
                   PROVE  {Manager, "NormalTimelock"} \subseteq code
        BY <2>1, <3>2
      <4>1. CASE j = n + 1
        BY <1>1, <3>2, <3>3, <3>4, <4>1 DEF AcmReached
      <4>2. CASE j \in 1 .. n
        BY <1>1, <3>2, <4>2 DEF Administered
      <4> QED BY <3>2, <4>1, <4>2
    <3>9. \A j \in DOMAIN mempool' : mempool'[j].call = "renounceRole" =>
              Granted' \/ GrantWaits(j - 1)'
      <4> SUFFICES ASSUME NEW j \in 1 .. n + 1, mempool'[j].call = "renounceRole"
                   PROVE  Granted' \/ GrantWaits(j - 1)'
        BY <3>2
      <4>1. CASE j = n + 1
        <5>1. Granted \/ GrantWaits(n)
          BY <1>1, <3>2, <3>4, <4>1 DEF AcmReached, n
        <5>2. j - 1 = n /\ n \in 0 .. n
          BY <3>2, <4>1
        <5> QED BY <3>6, <3>7, <5>1, <5>2
      <4>2. CASE j \in 1 .. n
        <5>1. mempool[j].call = "renounceRole" /\ j \in DOMAIN mempool /\ j - 1 \in 0 .. n
          BY <3>2, <4>2
        <5>2. Granted \/ GrantWaits(j - 1)
          BY <1>1, <5>1 DEF Administered
        <5> QED BY <3>6, <3>7, <5>1, <5>2
      <4> QED BY <3>2, <4>1, <4>2
    <3>10. Administered'
      BY <1>1, <2>1, <3>6, <3>8, <3>9 DEF Administered
    <3>11. At("acm", 3) => GrantWaits(Len(mempool))'
      BY <3>2, <3>5 DEF GrantWaits
    <3>12. ~At("acm", 1) /\ ~At("acm", 2)
      BY <3>1 DEF Sends, At
    <3>13. AcmReached'
      BY <1>1, <1>7, <2>1, <3>11, <3>12, ReachedStep DEF RunStep
    <3> QED BY <3>10, <3>13
  <2> QED BY <1>7, <2>2, <2>3 DEF SendTransaction
<1>8. CASE Crash
  BY <1>2, <1>8, IdleElsewhere DEF Crash, chainVars
<1>9. CASE Mine
  <2> DEFINE n == Len(mempool)
  <2>1. /\ mempool # <<>> /\ mempool' = Tail(mempool) /\ mempool[1] \in Transactions
        /\ UNCHANGED <<task, code, run>>
    BY <1>9, Mined
  <2>2. /\ n \in Nat \ {0} /\ DOMAIN mempool = 1 .. n
        /\ Len(mempool') = n - 1 /\ DOMAIN mempool' = 1 .. n - 1
        /\ \A j \in 1 .. n - 1 : mempool'[j] = mempool[j + 1]
    BY <2>1, Taken
  <2> HIDE DEF n
  <2>3. Granted => Granted'
    BY <1>9, <2>1, Mined DEF Reverts, Does, Granted, ACM!MayGrant, ACM!HasRole
  <2>4. mempool[1].call = "grantRole" => Granted'
    <3> SUFFICES ASSUME mempool[1].call = "grantRole" PROVE Granted'
      OBVIOUS
    <3>1. mempool[1] = Grant
      BY <2>1, TransactionKinds, Calls
    <3>2. {Manager, "NormalTimelock"} \subseteq code
      BY <1>1, <2>2, Calls, <3>1 DEF Administered
    <3>3. CASE Granted
      BY <2>3, <3>3
    <3>4. CASE ~Granted
      <4>1. ACM!MayGrant(grants, Deployer)
        BY <1>1, <3>2, <3>4 DEF Administered
      <4>2. Succeeds(mempool[1])
        BY <3>1, <4>1, Calls DEF Succeeds
      <4>3. Succeeds(mempool[1]) => Does(mempool[1])
        BY <1>9, <2>1, Taken, AppliedDoes DEF Mine
      <4>4. grants' = grants \cup {<<DEFAULT_ADMIN_ROLE, "NormalTimelock">>}
        <5>1. \A tx : tx = Grant => tx.call = "grantRole"
          BY Calls
        <5> QED BY <3>1, <4>2, <4>3, Calls DEF Does
      <4> QED BY <2>1, <3>2, <4>4 DEF Granted, ACM!MayGrant, ACM!HasRole
    <3> QED BY <3>3, <3>4
  <2>5. \A m \in 1 .. n : GrantWaits(m) => Granted' \/ GrantWaits(m - 1)'
    <3> SUFFICES ASSUME NEW m \in 1 .. n, GrantWaits(m), ~Granted' PROVE GrantWaits(m - 1)'
      OBVIOUS
    <3>1. PICK i \in 1 .. m : mempool[i].call = "grantRole"
      BY DEF GrantWaits
    <3>2. i # 1
      BY <2>4, <3>1
    <3>3. i - 1 \in 1 .. m - 1 /\ i - 1 \in 1 .. n - 1 /\ (i - 1) + 1 = i
      BY <2>2, <3>2
    <3>4. mempool'[i - 1].call = "grantRole"
      BY <2>2, <3>1, <3>3
    <3> QED BY <3>3, <3>4 DEF GrantWaits
  <2>6. ~GrantWaits(0)
    BY DEF GrantWaits
  <2>7. Granted \/ grants \subseteq grants'
    <3>1. CASE mempool[1] = Renounce
      <4>1. mempool[1].call = "renounceRole" /\ 1 \in DOMAIN mempool
        BY <2>2, <3>1, Calls
      <4>2. Granted \/ GrantWaits(1 - 1)
        BY <1>1, <4>1 DEF Administered
      <4> QED BY <2>6, <4>2
    <3>2. CASE mempool[1] # Renounce
      BY <1>9, <3>2, Mined DEF Reverts, Does
    <3> QED BY <3>1, <3>2
  <2>8. Manager \in code' => Granted' \/ ACM!MayGrant(grants, Deployer)'
    <3>1. CASE Granted
      BY <2>3, <3>1
    <3>2. CASE ~Granted
      BY <1>1, <2>1, <2>7, <3>2 DEF Administered, ACM!MayGrant, ACM!HasRole
    <3> QED BY <3>1, <3>2
  <2>9. \A j \in DOMAIN mempool' : mempool'[j].call \in {"grantRole", "renounceRole"} =>
            {Manager, "NormalTimelock"} \subseteq code'
    <3> SUFFICES ASSUME NEW j \in 1 .. n - 1, mempool'[j].call \in {"grantRole", "renounceRole"}
                 PROVE  {Manager, "NormalTimelock"} \subseteq code
      BY <2>1, <2>2
    <3>1. j + 1 \in DOMAIN mempool /\ mempool'[j] = mempool[j + 1]
      BY <2>2
    <3> QED BY <1>1, <3>1 DEF Administered
  <2>10. \A j \in DOMAIN mempool' : mempool'[j].call = "renounceRole" =>
            Granted' \/ GrantWaits(j - 1)'
    <3> SUFFICES ASSUME NEW j \in 1 .. n - 1, mempool'[j].call = "renounceRole"
                 PROVE  Granted' \/ GrantWaits(j - 1)'
      BY <2>2
    <3>1. j + 1 \in DOMAIN mempool /\ mempool'[j] = mempool[j + 1] /\ (j + 1) - 1 = j /\ j \in 1 .. n
      BY <2>2
    <3>2. Granted \/ GrantWaits(j)
      BY <1>1, <3>1 DEF Administered
    <3> QED BY <2>3, <2>5, <3>1, <3>2
  <2>11. Administered'
    BY <1>1, <2>1, <2>3, <2>8, <2>9, <2>10 DEF Administered
  <2>12. At("acm", 4) => Granted' \/ GrantWaits(Len(mempool))'
    <3>1. n \in 1 .. n /\ Len(mempool') = n - 1
      BY <2>2
    <3> QED BY <1>1, <2>3, <2>5, <3>1 DEF AcmReached, n
  <2>13. AcmReached'
    BY <1>1, <2>1, <2>12 DEF AcmReached, At
  <2> QED BY <2>11, <2>13
<1>10. ASSUME UNCHANGED <<task, mempool, code, run>>, grants \subseteq grants'
       PROVE  Administered' /\ AcmReached'
  BY <1>1, <1>2, <1>10, ReachedFrame
<1>11. CASE Govern
  <2>1. UNCHANGED <<task, mempool, code, run>> /\ grants \subseteq grants'
    BY <1>11 DEF Govern, ConfigureExecutorOwner, ConfigureSender, AcceptOwnership,
                 AddAuthorizedBatchers, ExecuteBatches, toolVars
  <2> QED BY <1>10, <2>1
<1>12. CASE AddOtherBatch \/ UNCHANGED vars
  <2>1. UNCHANGED <<task, mempool, code, run, grants>>
    BY <1>12 DEF AddOtherBatch, toolVars, vars, chainVars
  <2> QED BY <1>10, <2>1
<1> QED BY <1>3, <1>4, <1>5, <1>6, <1>7, <1>8, <1>9, <1>11, <1>12 DEF Next, RunStep

-----------------------------------------------------------------------------
(* The hand-over is kept                                                     *)

LEMMA HandedFrame ==
    ASSUME Handed, UNCHANGED mempool, settings \subseteq settings',
           functionRegistry \subseteq functionRegistry',
           UNCHANGED <<owner[Executor], owner[Owner], pendingOwner[Owner], code>>
    PROVE  Handed'
BY DEF Handed, GivenAway, Ready, Registered

(* 006 goes on with what it had, and with what this step gives it.           *)
LEMMA OwnerReachedStep ==
    ASSUME TypeOK, OwnerReached, RunStep, code \subseteq code',
           Within("executorOwner", 3, 18) =>
              /\ \A s \in BridgeSettings : Configured(s) => Configured(s)'
              /\ \A g \in {NormalSignatures, GuardianSignatures} : Upserted(g) => Upserted(g)',
           At("executorOwner", 1) /\ run' # Idle => Executor \in code',
           At("executorOwner", 2) /\ run' # Idle => Owner \in code',
           At("executorOwner", 4) /\ run' # Idle => Configured("minDstGas")',
           At("executorOwner", 5) /\ run' # Idle => Configured("maxDailyReceiveLimit")',
           At("executorOwner", 6) /\ run' # Idle => Configured("trustedRemote")',
           At("executorOwner", 8) /\ run' # Idle => Configured("timelocks")',
           At("executorOwner", 9) /\ run' # Idle => Ready',
           At("executorOwner", 13) /\ run' # Idle => Upserted(NormalSignatures)',
           At("executorOwner", 14) /\ run' # Idle => Upserted(GuardianSignatures)',
           At("executorOwner", 15) /\ run' # Idle => Registered'
    PROVE  OwnerReached'
<1>1. CASE run'.script # "executorOwner"
  BY <1>1 DEF OwnerReached, Within, At
<1>2. CASE run'.script = "executorOwner"
  <2>1. run' # Idle
    BY <1>2, IdleRun, Accounts DEF Scripts
  <2>2. run # Idle /\ run.script = "executorOwner"
    BY <1>2, <2>1, RunGoes DEF Goes
  <2>3. run.at \in 1 .. 18
    BY <2>2, OwnerPlace
  <2>4. \/ run'.at = run.at + 1
        \/ run.at = 3 /\ run'.at = 12
        \/ run.at = 12 /\ run'.at = 18
    <3>1. CASE Running("unless")
      <4>1. /\ (run.at = 3 /\ Step.skip = 8) \/ (run.at = 12 /\ Step.skip = 5)
            /\ run'.at = run.at + 1 \/ run'.at = run.at + (1 + Step.skip)
        BY <2>1, <2>2, <3>1, SkipsWhat, RunGoes DEF Goes, At, Running
      <4> QED BY <4>1
    <3>2. CASE ~Running("unless")
      BY <2>1, <3>2, RunGoes DEF Goes
    <3> QED BY <3>1, <3>2
  <2>5. \A place, last \in Nat : Within("executorOwner", place, last) <=> run.at \in place .. last
    BY <2>2 DEF Within
  <2>6. \A place, last \in Nat : Within("executorOwner", place, last)' <=> run'.at \in place .. last
    BY <1>2 DEF Within
  <2>7. \A place \in Nat : At("executorOwner", place) <=> run.at = place
    BY <2>2 DEF At
  <2>8. \A place \in Nat : At("executorOwner", place)' <=> run'.at = place
    BY <1>2 DEF At
  <2> DEFINE now == run.at
             next == run'.at
  <2>9. /\ now \in 2 .. 18 => Executor \in code
        /\ now \in 3 .. 18 => Owner \in code
        /\ now \in 5 .. 10 => Configured("minDstGas")
        /\ now \in 6 .. 10 => Configured("maxDailyReceiveLimit")
        /\ now \in 7 .. 10 => Configured("trustedRemote")
        /\ now \in 9 .. 10 => Configured("timelocks")
        /\ now \in 14 .. 16 => Upserted(NormalSignatures)
        /\ now \in 15 .. 16 => Upserted(GuardianSignatures)
    BY <2>5 DEF OwnerReached
  <2>10. /\ now = 1 => Executor \in code'
         /\ now = 2 => Owner \in code'
         /\ now = 4 => Configured("minDstGas")'
         /\ now = 5 => Configured("maxDailyReceiveLimit")'
         /\ now = 6 => Configured("trustedRemote")'
         /\ now = 8 => Configured("timelocks")'
         /\ now = 9 => Ready'
         /\ now = 13 => Upserted(NormalSignatures)'
         /\ now = 14 => Upserted(GuardianSignatures)'
         /\ now = 15 => Registered'
    BY <2>1, <2>7
  <2>11. now \in 1 .. 18 /\ (next = now + 1 \/ (now = 3 /\ next = 12) \/ (now = 12 /\ next = 18))
    BY <2>3, <2>4
  <2>20. now \in 3 .. 18 =>
            /\ \A s \in BridgeSettings : Configured(s) => Configured(s)'
            /\ \A g \in {NormalSignatures, GuardianSignatures} : Upserted(g) => Upserted(g)'
    BY <2>5
  <2> HIDE DEF now, next
  <2>12. /\ next \in 2 .. 18 => Executor \in code'
         /\ next \in 3 .. 18 => Owner \in code'
         /\ next \in 5 .. 10 => Configured("minDstGas")'
         /\ next \in 6 .. 10 => Configured("maxDailyReceiveLimit")'
         /\ next \in 7 .. 10 => Configured("trustedRemote")'
         /\ next \in 9 .. 10 => Configured("timelocks")'
         /\ next = 10 => Ready'
         /\ next \in 14 .. 16 => Upserted(NormalSignatures)'
         /\ next \in 15 .. 16 => Upserted(GuardianSignatures)'
         /\ next = 16 => Registered'
    BY <2>9, <2>10, <2>11, <2>20 DEF BridgeSettings
  <2> QED BY <2>6, <2>8, <2>12 DEF OwnerReached, next
<1> QED BY <1>1, <1>2

LEMMA OwnerElsewhere ==
    ASSUME run'.script # "executorOwner" \/ run'.at = 1
    PROVE  OwnerReached'
BY DEF OwnerReached, Within, At

LEMMA OwnerIdle == run' = Idle => OwnerReached'
BY OwnerElsewhere, IdleRun, Accounts DEF Scripts

(* What was configured or upserted, or waits to be, when no transaction goes. *)
LEMMA WaitingKept ==
    ASSUME settings \subseteq settings', functionRegistry \subseteq functionRegistry',
           \A c \in {Executor, Owner} : GivenAway(c) => GivenAway(c)',
           \A tx : (\E j \in DOMAIN mempool : mempool[j] = tx)
                      => \E j \in DOMAIN mempool' : mempool'[j] = tx
    PROVE  /\ \A s : Configured(s) => Configured(s)'
           /\ \A g : Upserted(g) => Upserted(g)'
<1>1. (GivenAway(Executor) => GivenAway(Executor)') /\ (GivenAway(Owner) => GivenAway(Owner)')
  OBVIOUS
<1>2. ASSUME NEW s, Configured(s) PROVE Configured(s)'
  <2>1. CASE s \in settings \/ GivenAway(Executor)
    BY <1>1, <2>1 DEF Configured
  <2>2. CASE \E j \in DOMAIN mempool : mempool[j] = Configure(s)
    <3>1. \E j \in DOMAIN mempool' : mempool'[j] = Configure(s)
      BY <2>2
    <3> QED BY <3>1 DEF Configured
  <2> QED BY <1>2, <2>1, <2>2 DEF Configured
<1>3. ASSUME NEW g, Upserted(g) PROVE Upserted(g)'
  <2>1. CASE g \subseteq functionRegistry \/ GivenAway(Owner)
    BY <1>1, <2>1 DEF Upserted
  <2>2. CASE \E j \in DOMAIN mempool : mempool[j] = Upsert(g)
    <3>1. \E j \in DOMAIN mempool' : mempool'[j] = Upsert(g)
      BY <2>2
    <3> QED BY <3>1 DEF Upserted
  <2> QED BY <1>3, <2>1, <2>2 DEF Upserted
<1> QED BY <1>2, <1>3

LEMMA OwnerReachedFrame ==
    ASSUME OwnerReached, UNCHANGED run, code \subseteq code',
           settings \subseteq settings', functionRegistry \subseteq functionRegistry',
           Within("executorOwner", 2, 18) => \A s \in BridgeSettings : Configured(s) => Configured(s)',
           Within("executorOwner", 3, 18) =>
              \A g \in {NormalSignatures, GuardianSignatures} : Upserted(g) => Upserted(g)'
    PROVE  OwnerReached'
<1>1. \A place, last : Within("executorOwner", place, last)' <=> Within("executorOwner", place, last)
  BY DEF Within
<1>2. \A place : At("executorOwner", place)' <=> At("executorOwner", place)
  BY DEF At
<1>3. (Ready => Ready') /\ (Registered => Registered')
  BY DEF Ready, Registered
<1>4. \A first \in 2 .. 18, last \in 0 .. 18 :
          Within("executorOwner", first, last) => Within("executorOwner", 2, 18)
  BY DEF Within
<1>5. \A first \in 3 .. 18, last \in 0 .. 18 :
          Within("executorOwner", first, last) => Within("executorOwner", 3, 18)
  BY DEF Within
<1>6. BridgeSettings = {"minDstGas", "maxDailyReceiveLimit", "trustedRemote", "timelocks"}
  BY DEF BridgeSettings
<1>7. /\ Within("executorOwner", 5, 10) => Within("executorOwner", 2, 18)
      /\ Within("executorOwner", 6, 10) => Within("executorOwner", 2, 18)
      /\ Within("executorOwner", 7, 10) => Within("executorOwner", 2, 18)
      /\ Within("executorOwner", 9, 10) => Within("executorOwner", 2, 18)
      /\ Within("executorOwner", 14, 16) => Within("executorOwner", 3, 18)
      /\ Within("executorOwner", 15, 16) => Within("executorOwner", 3, 18)
  BY <1>4, <1>5
<1> QED BY <1>1, <1>2, <1>3, <1>6, <1>7 DEF OwnerReached

LEMMA Configurations ==
    /\ ExecutorSignatures = NormalSignatures \cup GuardianSignatures
    /\ \A s, r : Configure(s) = Configure(r) => s = r
    /\ \A g, h : Upsert(g) = Upsert(h) => g = h
    /\ \A c, to, d, by : Transfer(c, to) = Transfer(d, by) => c = d /\ to = by
    /\ \A s, g, c, to, b :
          /\ Grant # Configure(s) /\ Grant # Upsert(g) /\ Grant # Transfer(c, to)
          /\ Renounce # Configure(s) /\ Renounce # Upsert(g) /\ Renounce # Transfer(c, to)
          /\ Configure(s) # Upsert(g) /\ Configure(s) # Transfer(c, to)
          /\ Upsert(g) # Transfer(c, to)
          /\ AddBatch(b) # Configure(s) /\ AddBatch(b) # Upsert(g) /\ AddBatch(b) # Transfer(c, to)
          /\ AddBatch(b) # Grant /\ AddBatch(b) # Renounce
<1>1. ExecutorSignatures = NormalSignatures \cup GuardianSignatures
  BY DEF ExecutorSignatures, NormalSignatures, GuardianSignatures
<1> QED BY <1>1, Calls

LEMMA HandOverMine ==
    ASSUME TypeOK, HandOver, Mine
    PROVE  HandOver'
<1> USE Accounts
<1>1. Handed /\ OwnerReached
  BY DEF HandOver
<1>2. /\ mempool # <<>> /\ mempool' = Tail(mempool) /\ mempool[1] \in Transactions
      /\ UNCHANGED <<task, code, run>>
      /\ Reverts \/ Does(mempool[1])
  BY Mined
<1>3. owner \in [Ownables -> {None, Deployer, Owner, "NormalTimelock"}]
      /\ pendingOwner \in [TwoStep -> {None, "NormalTimelock"}]
  BY DEF TypeOK
<1>4. settings \subseteq settings' /\ functionRegistry \subseteq functionRegistry'
  BY <1>2 DEF Reverts, Does
<1>5. (Ready => Ready') /\ (Registered => Registered')
  BY <1>4 DEF Ready, Registered
<1>6. 1 \in DOMAIN mempool /\ \A j \in DOMAIN mempool' : j + 1 \in DOMAIN mempool /\ mempool'[j] = mempool[j + 1]
  BY <1>2, Taken
<1>7. /\ owner'[Owner] = owner[Owner]
      /\ \/ owner'[Executor] = owner[Executor]
         \/ mempool[1] = Transfer(Executor, Owner) /\ owner'[Executor] = Owner
      /\ \/ pendingOwner'[Owner] = pendingOwner[Owner]
         \/ mempool[1] = Transfer(Owner, "NormalTimelock")
  BY <1>2, <1>3 DEF Reverts, Does
<1>8. Handed'
  <2>1. \A c \in {Executor, Owner} : c \in code' => owner'[c] # None
    BY <1>1, <1>2, <1>7 DEF Handed
  <2>2. GivenAway(Executor)' => Ready'
    BY <1>1, <1>5, <1>6, <1>7 DEF Handed, GivenAway
  <2>3. GivenAway(Owner)' \/ pendingOwner'[Owner] # None => Registered'
    BY <1>1, <1>5, <1>6, <1>7 DEF Handed, GivenAway
  <2>4. \A j \in DOMAIN mempool' :
          /\ mempool'[j] = Transfer(Executor, Owner) => Ready'
          /\ mempool'[j] = Transfer(Owner, "NormalTimelock") => Registered'
    BY <1>1, <1>5, <1>6 DEF Handed
  <2> QED BY <2>1, <2>2, <2>3, <2>4 DEF Handed
<1>9. \A c \in {Executor, Owner} : GivenAway(c) => GivenAway(c)'
  BY <1>7 DEF GivenAway
<1>10. ASSUME Within("executorOwner", 2, 18), NEW s \in BridgeSettings, Configured(s)
       PROVE  Configured(s)'
  <2>1. CASE s \in settings \/ GivenAway(Executor)
    BY <1>4, <1>9, <2>1 DEF Configured
  <2>2. CASE mempool[1] # Configure(s) /\ \E j \in DOMAIN mempool : mempool[j] = Configure(s)
    BY <1>2, <2>2, StillWaits DEF Configured
  <2>3. CASE mempool[1] = Configure(s) /\ ~GivenAway(Executor)
    <3>1. owner[Executor] = Deployer
      BY <1>1, <1>10, <2>3 DEF Handed, OwnerReached, GivenAway
    <3>2. Succeeds(mempool[1])
      <4>1. mempool[1].call = "configure"
        BY <2>3, Calls
      <4> QED BY <3>1, <4>1 DEF Succeeds, Executor
    <3>3. Does(mempool[1])
      BY <1>2, <3>2, Taken, AppliedDoes DEF Mine
    <3>4. settings' = settings \cup {s}
      BY <2>3, <3>3, Configurations DEF Does
    <3> QED BY <3>4 DEF Configured
  <2> QED BY <1>10, <2>1, <2>2, <2>3 DEF Configured
<1>11. ASSUME Within("executorOwner", 3, 18), NEW g \in {NormalSignatures, GuardianSignatures},
              Upserted(g)
       PROVE  Upserted(g)'
  <2>1. CASE g \subseteq functionRegistry \/ GivenAway(Owner)
    BY <1>4, <1>9, <2>1 DEF Upserted
  <2>2. CASE mempool[1] # Upsert(g) /\ \E j \in DOMAIN mempool : mempool[j] = Upsert(g)
    BY <1>2, <2>2, StillWaits DEF Upserted
  <2>3. CASE mempool[1] = Upsert(g) /\ ~GivenAway(Owner)
    <3>1. owner[Owner] = Deployer
      BY <1>1, <1>11, <2>3 DEF Handed, OwnerReached, GivenAway
    <3>2. Succeeds(mempool[1])
      <4>1. mempool[1].call = "upsertSignature"
        BY <2>3, Calls
      <4> QED BY <3>1, <4>1 DEF Succeeds, Owner
    <3>3. Does(mempool[1])
      BY <1>2, <3>2, Taken, AppliedDoes DEF Mine
    <3>4. functionRegistry' = functionRegistry \cup g
      BY <2>3, <3>3, Configurations DEF Does
    <3> QED BY <3>4 DEF Upserted
  <2> QED BY <1>11, <2>1, <2>2, <2>3 DEF Upserted
<1>12. OwnerReached'
  BY <1>1, <1>2, <1>4, <1>10, <1>11, OwnerReachedFrame
<1> QED BY <1>8, <1>12 DEF HandOver

LEMMA HandOverRun ==
    ASSUME TypeOK, HandOver, RunStep
    PROVE  HandOver'
<1> USE Accounts
<1>1. Handed /\ OwnerReached
  BY DEF HandOver
<1>2. run # Idle
  BY RunGoes
<1>3. ASSUME UNCHANGED <<mempool, settings, functionRegistry, owner, pendingOwner, code>>
      PROVE  /\ Handed'
             /\ \A s : Configured(s) => Configured(s)'
             /\ \A g : Upserted(g) => Upserted(g)'
  <2>1. \A c \in {Executor, Owner} : GivenAway(c) => GivenAway(c)'
    BY <1>3 DEF GivenAway
  <2> QED BY <1>1, <1>3, <2>1, HandedFrame, WaitingKept
<1>4. CASE DeployContract
  <2>1. /\ UNCHANGED <<mempool, settings, functionRegistry, pendingOwner>>
        /\ code \subseteq code'
    BY <1>4 DEF DeployContract
  <2>2. CASE Step.contract \in code
    <3>1. UNCHANGED <<mempool, settings, functionRegistry, owner, pendingOwner, code>>
      BY <1>4, <2>2 DEF DeployContract
    <3>2. /\ At("executorOwner", 2) => Owner \in code'
          /\ \A place \in {1, 4, 5, 6, 8, 9, 13, 14, 15} : ~At("executorOwner", place)
      BY <1>4, <2>2, <3>1, DeploysWhat DEF DeployContract, At
    <3>3. Handed' /\ (\A s : Configured(s) => Configured(s)') /\ (\A g : Upserted(g) => Upserted(g)')
      BY <1>3, <3>1
    <3>4. OwnerReached'
      BY <1>1, <1>4, <2>1, <3>2, <3>3, OwnerReachedStep DEF RunStep
    <3> QED BY <3>3, <3>4 DEF HandOver
  <2>3. CASE Step.contract \notin code
    <3>1. /\ code' = code \cup {Step.contract}
          /\ owner' = [c \in Ownables |-> IF c = Step.contract THEN Deployer ELSE owner[c]]
      BY <1>4, <2>3 DEF DeployContract
    <3>2. \A c \in {Executor, Owner} :
              /\ c = Step.contract => owner'[c] = Deployer
              /\ c # Step.contract => owner'[c] = owner[c] /\ (c \in code' <=> c \in code)
      BY <3>1
    <3>3. \A c \in {Executor, Owner} : GivenAway(c)' => GivenAway(c)
      BY <3>2 DEF GivenAway
    <3>4. Handed'
      BY <1>1, <2>1, <3>2, <3>3 DEF Handed, Ready, Registered
    <3>5. /\ At("executorOwner", 2) => Owner \in code'
          /\ \A place \in {1, 4, 5, 6, 8, 9, 13, 14, 15} : ~At("executorOwner", place)
      BY <1>4, <3>1, DeploysWhat DEF DeployContract, At
    <3>6. ~Within("executorOwner", 3, 18)
      BY <1>4, DeploysWhat DEF DeployContract, At, Within
    <3>7. OwnerReached'
      BY <1>1, <1>4, <2>1, <3>5, <3>6, OwnerReachedStep DEF RunStep
    <3> QED BY <3>4, <3>7 DEF HandOver
  <2> QED BY <2>2, <2>3
<1>5. CASE Fetch
  <2>1. UNCHANGED <<mempool, settings, functionRegistry, owner, pendingOwner, code>>
    BY <1>5 DEF Fetch, chainVars
  <2>2. At("executorOwner", 1) /\ run' # Idle => Executor \in code'
    BY <1>5, <2>1, NeedsWhat DEF Fetch, At
  <2>3. \A place \in {2, 4, 5, 6, 8, 9, 13, 14, 15} : ~At("executorOwner", place)
    BY <1>5, NeedsWhat DEF Fetch, At
  <2>4. OwnerReached'
    BY <1>1, <1>3, <1>5, <2>1, <2>2, <2>3, OwnerReachedStep DEF RunStep
  <2> QED BY <1>3, <2>1, <2>4 DEF HandOver
<1>6. CASE CheckOwner \/ CheckBatcher \/ PrintCommands
  <2>1. UNCHANGED <<mempool, settings, functionRegistry, owner, pendingOwner, code>>
    BY <1>6 DEF CheckOwner, CheckBatcher, PrintCommands, chainVars
  <2>2. \A place \in {1, 2, 4, 5, 6, 8, 9, 13, 14, 15} : ~At("executorOwner", place)
    BY <1>6, SkipsWhat, BatcherWhere, ShowsWhere DEF CheckOwner, CheckBatcher, PrintCommands, At
  <2>3. OwnerReached'
    BY <1>1, <1>3, <1>6, <2>1, <2>2, OwnerReachedStep DEF RunStep
  <2> QED BY <1>3, <2>1, <2>3 DEF HandOver
<1>7. CASE AwaitReceipt
  <2>1. UNCHANGED <<mempool, settings, functionRegistry, owner, pendingOwner, code>> /\ mempool = <<>>
    BY <1>7 DEF AwaitReceipt, chainVars
  <2>2. \A place \in {1, 2, 4, 5, 6, 8, 13, 14} : ~At("executorOwner", place)
    BY <1>7, WaitsWhere DEF AwaitReceipt, At
  <2>3. DOMAIN mempool = {}
    BY <2>1
  <2>4. At("executorOwner", 9) => Ready
    <3> SUFFICES ASSUME At("executorOwner", 9) PROVE Ready
      OBVIOUS
    <3>1. \A s \in BridgeSettings : Configured(s)
      BY <1>1 DEF OwnerReached, Within, At, BridgeSettings
    <3>2. \A s \in BridgeSettings : s \in settings \/ GivenAway(Executor)
      BY <2>3, <3>1 DEF Configured
    <3> QED BY <1>1, <3>2 DEF Ready, Handed
  <2>5. At("executorOwner", 15) => Registered
    <3> SUFFICES ASSUME At("executorOwner", 15) PROVE Registered
      OBVIOUS
    <3>1. Upserted(NormalSignatures) /\ Upserted(GuardianSignatures)
      BY <1>1 DEF OwnerReached, Within, At
    <3>2. GivenAway(Owner) \/ (NormalSignatures \subseteq functionRegistry
                                /\ GuardianSignatures \subseteq functionRegistry)
      BY <2>3, <3>1 DEF Upserted
    <3> QED BY <1>1, <3>2, Configurations DEF Registered, Handed
  <2>6. (Ready => Ready') /\ (Registered => Registered')
    BY <2>1 DEF Ready, Registered
  <2>7. OwnerReached'
    BY <1>1, <1>3, <1>7, <2>1, <2>2, <2>4, <2>5, <2>6, OwnerReachedStep DEF RunStep
  <2> QED BY <1>3, <2>1, <2>7 DEF HandOver
<1>8. CASE SendTransaction
  <2>1. UNCHANGED <<settings, functionRegistry, owner, pendingOwner, code>> /\ Running("send")
    BY <1>8 DEF SendTransaction, chainVars
  <2>2. CASE run' = Idle /\ mempool' = mempool
    BY <1>3, <2>1, <2>2, OwnerIdle DEF HandOver
  <2>3. CASE mempool' = Append(mempool, Step.tx)
    <3>1. Sends /\ Step.tx \in Transactions
      BY <2>1, SendsWhat
    <3>2. \A c \in {Executor, Owner} : GivenAway(c) <=> GivenAway(c)'
      BY <2>1 DEF GivenAway
    <3>3. \A tx : tx = Step.tx \/ (\E j \in DOMAIN mempool : mempool[j] = tx)
                     => \E j \in DOMAIN mempool' : mempool'[j] = tx
      BY <2>3, <3>1, WaitsAfterSend
    <3>4. /\ \A s : Configured(s) => Configured(s)'
          /\ \A g : Upserted(g) => Upserted(g)'
      BY <2>1, <3>2, <3>3, WaitingKept
    <3>5. /\ \A s : Step.tx = Configure(s) => Configured(s)'
          /\ \A g : Step.tx = Upsert(g) => Upserted(g)'
      BY <3>3 DEF Configured, Upserted
    <3>6. /\ At("executorOwner", 4) => Step.tx = Configure("minDstGas")
          /\ At("executorOwner", 5) => Step.tx = Configure("maxDailyReceiveLimit")
          /\ At("executorOwner", 6) => Step.tx = Configure("trustedRemote")
          /\ At("executorOwner", 8) => Step.tx = Configure("timelocks")
          /\ At("executorOwner", 13) => Step.tx = Upsert(NormalSignatures)
          /\ At("executorOwner", 14) => Step.tx = Upsert(GuardianSignatures)
          /\ \A place \in {1, 2, 9, 15} : ~At("executorOwner", place)
      BY <3>1 DEF Sends, At
    <3>7. OwnerReached'
      BY <1>1, <1>8, <2>1, <3>4, <3>5, <3>6, OwnerReachedStep DEF RunStep
    <3>8. /\ Step.tx = Transfer(Executor, Owner) => At("executorOwner", 10)
          /\ Step.tx = Transfer(Owner, "NormalTimelock") => At("executorOwner", 16)
      BY <3>1, Accounts, Calls, Configurations DEF Sends, TimelockTransfers, ForTimelock
    <3>9. /\ Step.tx = Transfer(Executor, Owner) => Ready
          /\ Step.tx = Transfer(Owner, "NormalTimelock") => Registered
      BY <1>1, <3>8 DEF OwnerReached
    <3>10. \A j \in DOMAIN mempool' : mempool'[j] = Step.tx \/
              (j \in DOMAIN mempool /\ mempool'[j] = mempool[j])
      BY <2>3, <3>1, Sent
    <3>11. (Ready <=> Ready') /\ (Registered <=> Registered')
      BY <2>1 DEF Ready, Registered
    <3>12. \A j \in DOMAIN mempool' :
              /\ mempool'[j] = Transfer(Executor, Owner) => Ready'
              /\ mempool'[j] = Transfer(Owner, "NormalTimelock") => Registered'
      BY <1>1, <3>9, <3>10, <3>11 DEF Handed
    <3>13. Handed'
      BY <1>1, <2>1, <3>2, <3>11, <3>12 DEF Handed
    <3> QED BY <3>7, <3>13 DEF HandOver
  <2> QED BY <1>8, <2>2, <2>3 DEF SendTransaction
<1> QED BY <1>4, <1>5, <1>6, <1>7, <1>8 DEF RunStep

LEMMA HandOverStep ==
    ASSUME TypeOK, HandOver, [Next]_vars
    PROVE  HandOver'
<1> USE Accounts
<1>1. Handed /\ OwnerReached
  BY DEF HandOver
<1>2. ASSUME UNCHANGED <<mempool, functionRegistry, code>>, settings \subseteq settings',
             UNCHANGED <<owner[Executor], owner[Owner], pendingOwner[Owner]>>
      PROVE  /\ Handed'
             /\ \A s : Configured(s) => Configured(s)'
             /\ \A g : Upserted(g) => Upserted(g)'
  <2>1. \A c \in {Executor, Owner} : GivenAway(c) => GivenAway(c)'
    BY <1>2 DEF GivenAway
  <2>2. Handed'
    BY <1>1, <1>2, HandedFrame
  <2> QED BY <1>2, <2>1, <2>2, WaitingKept
<1>3. ASSUME UNCHANGED <<mempool, functionRegistry, code, run>>, settings \subseteq settings',
             UNCHANGED <<owner[Executor], owner[Owner], pendingOwner[Owner]>>
      PROVE  HandOver'
  <2>1. OwnerReached'
    BY <1>1, <1>2, <1>3, OwnerReachedFrame
  <2> QED BY <1>2, <1>3, <2>1 DEF HandOver
<1>4. ASSUME NEW s \in Scripts, Start(s) PROVE HandOver'
  <2>1. UNCHANGED <<mempool, settings, functionRegistry, owner, pendingOwner, code>>
    BY <1>4 DEF Start, chainVars
  <2>2. Handed' /\ OwnerReached'
    BY <1>2, <1>4, <2>1, StartTyped, OwnerElsewhere
  <2> QED BY <2>2 DEF HandOver
<1>5. CASE Crash
  <2>1. UNCHANGED <<mempool, settings, functionRegistry, owner, pendingOwner, code>> /\ run' = Idle
    BY <1>5 DEF Crash, chainVars
  <2>2. Handed' /\ OwnerReached'
    BY <1>2, <2>1, OwnerIdle
  <2> QED BY <2>2 DEF HandOver
<1>6. owner \in [Ownables -> {None, Deployer, Owner, "NormalTimelock"}]
      /\ pendingOwner \in [TwoStep -> {None, "NormalTimelock"}]
  BY DEF TypeOK
<1>7. CASE ConfigureExecutorOwner
  <2>1. /\ UNCHANGED <<mempool, settings, functionRegistry, code, run>>
        /\ pendingOwner[Owner] = "NormalTimelock" /\ Accept({Owner})
    BY <1>7 DEF ConfigureExecutorOwner, toolVars, Owner
  <2>2. /\ owner'[Owner] = "NormalTimelock" /\ owner'[Executor] = owner[Executor]
        /\ pendingOwner'[Owner] = None
    BY <1>6, <2>1 DEF Accept
  <2>3. Registered /\ (Registered => Registered') /\ (Ready => Ready')
    BY <1>1, <2>1 DEF Handed, Registered, Ready
  <2>4. /\ GivenAway(Executor)' <=> GivenAway(Executor)
        /\ GivenAway(Owner)'
    BY <2>2 DEF GivenAway
  <2>5. Handed'
    BY <1>1, <2>1, <2>2, <2>3, <2>4 DEF Handed
  <2>6. /\ \A s : Configured(s) => Configured(s)'
        /\ \A g : Upserted(g) => Upserted(g)'
    BY <2>1, <2>4, WaitingKept
  <2>7. OwnerReached'
    BY <1>1, <2>1, <2>6, OwnerReachedFrame
  <2> QED BY <2>5, <2>7 DEF HandOver
<1>8. CASE AcceptOwnership
  <2>1. UNCHANGED <<mempool, settings, functionRegistry, code, run>> /\ Accept(Nominated)
    BY <1>8 DEF AcceptOwnership, toolVars
  <2>2. Owner \notin Nominated /\ Executor \notin Nominated
    BY DEF Nominated, Owner
  <2>3. UNCHANGED <<owner[Executor], owner[Owner], pendingOwner[Owner]>>
    BY <1>6, <2>1, <2>2 DEF Accept
  <2> QED BY <1>3, <2>1, <2>3
<1>9. CASE ConfigureSender
  <2>1. UNCHANGED <<mempool, functionRegistry, code, run, owner, pendingOwner>>
        /\ settings \subseteq settings'
    BY <1>9 DEF ConfigureSender, toolVars
  <2> QED BY <1>3, <2>1
<1>10. CASE AddAuthorizedBatchers \/ (\E list \in indexes : ExecuteBatches(list))
            \/ AddOtherBatch \/ UNCHANGED vars
  <2>1. UNCHANGED <<mempool, settings, functionRegistry, code, run, owner, pendingOwner>>
    BY <1>10 DEF AddAuthorizedBatchers, ExecuteBatches, AddOtherBatch, vars, chainVars, toolVars
  <2> QED BY <1>3, <2>1
<1> QED BY <1>4, <1>5, <1>7, <1>8, <1>9, <1>10, HandOverMine, HandOverRun DEF Next, Govern

-----------------------------------------------------------------------------
(* The printed lists are kept                                                *)

LEMMA CoversNone == Covers({}, 0)
<1>1. {PermissionBatch(k) : k \in 1 .. 0} = {}
  OBVIOUS
<1>2. CallsOf({}) = {}
  BY DEF CallsOf
<1> QED BY <1>1, <1>2 DEF Covers

LEMMA CoversOneMore ==
    ASSUME NEW list, NEW k \in Nat \ {0}, Covers(list, k - 1), NEW i,
           i + 1 \in DOMAIN batches, batches[i + 1] = PermissionBatch(k)
    PROVE  Covers(list \cup {i}, k)
<1>1. CallsOf(list \cup {i}) = CallsOf(list) \cup batches[i + 1]
  BY DEF CallsOf
<1> DEFINE Parts(n) == UNION {PermissionBatch(h) : h \in 1 .. n}
<1>2. 1 .. k = (1 .. (k - 1)) \cup {k}
  OBVIOUS
<1>3. Parts(k) = Parts(k - 1) \cup PermissionBatch(k)
  BY <1>2
<1>4. CallsOf(list) = Parts(k - 1) /\ \A h \in list : h + 1 \in DOMAIN batches
  BY DEF Covers
<1>5. CallsOf(list \cup {i}) = Parts(k)
  BY <1>1, <1>3, <1>4
<1>6. \A h \in list \cup {i} : h + 1 \in DOMAIN batches
  BY <1>4
<1> QED BY <1>5, <1>6 DEF Covers

(* The list of batches only grows, and what is in it stays.                  *)
LEMMA BatchesStay ==
    ASSUME TypeOK, UNCHANGED batches \/ \E calls : batches' = Append(batches, calls)
    PROVE  \A i \in DOMAIN batches : i \in DOMAIN batches' /\ batches'[i] = batches[i]
<1>1. CASE UNCHANGED batches
  BY <1>1
<1>2. ASSUME NEW calls, batches' = Append(batches, calls)
      PROVE  \A i \in DOMAIN batches : i \in DOMAIN batches' /\ batches'[i] = batches[i]
  <2>1. batches \in Seq(PermissionBatches \cup {OtherGrants})
    BY DEF TypeOK
  <2>2. batches \in Seq(PermissionBatches \cup {OtherGrants} \cup {calls})
    BY <2>1
  <2>3. DOMAIN batches' = 1 .. Len(batches) + 1 /\ DOMAIN batches = 1 .. Len(batches)
    BY <1>2, <2>2
  <2>4. \A i \in 1 .. Len(batches) : batches'[i] = batches[i]
    BY <1>2, <2>2
  <2> QED BY <2>1, <2>3, <2>4
<1> QED BY <1>1, <1>2

LEMMA CoversKept ==
    ASSUME \A i \in DOMAIN batches : i \in DOMAIN batches' /\ batches'[i] = batches[i],
           NEW list, NEW n, Covers(list, n)
    PROVE  Covers(list, n)'
<1>1. \A i \in list : i + 1 \in DOMAIN batches
  BY DEF Covers
<1>2. \A i \in list : i + 1 \in DOMAIN batches' /\ batches'[i + 1] = batches[i + 1]
  BY <1>1
<1>3. CallsOf(list)' = CallsOf(list)
  BY <1>2 DEF CallsOf
<1> QED BY <1>2, <1>3 DEF Covers

LEMMA ListElsewhere ==
    ASSUME run'.script # "permissions" \/ (run'.at \in {1, 2, 3, 4, 6, 7} /\ run'.added = {})
    PROVE  ListReached'
<1>1. \A k \in 1 .. NumBatches + 1 : 6 + 2 * k \in Nat /\ 6 + 2 * k > 7
  BY BatchNumber
<1>2. \A k \in 1 .. NumBatches : 7 + 2 * k \in Nat /\ 7 + 2 * k > 7
  BY BatchNumber
<1>3. CASE run'.script # "permissions"
  BY <1>3 DEF ListReached, Within, At
<1>4. CASE run'.at \in {1, 2, 3, 4, 6, 7} /\ run'.added = {}
  <2>1. ~At("permissions", 5)'
    BY <1>4 DEF At
  <2>2. \A k \in 1 .. NumBatches + 1 : ~At("permissions", 6 + 2 * k)'
    BY <1>1, <1>4 DEF At
  <2>3. \A k \in 1 .. NumBatches : ~At("permissions", 7 + 2 * k)'
    BY <1>2, <1>4 DEF At
  <2> QED BY <1>4, <2>1, <2>2, <2>3 DEF ListReached
<1> QED BY <1>3, <1>4

LEMMA ListIdle == run' = Idle => ListReached'
BY ListElsewhere, IdleRun, Accounts DEF Scripts

(* Where 007 goes, for each place it can come to.                            *)
LEMMA ListNextFive ==
    ASSUME run'.at = 5, run'.added = {},
           IF mempool' = <<>> THEN receipt'.added = {} ELSE Latest'.call # "addBatch"
    PROVE  ListReached'
<1>1. \A k \in 1 .. NumBatches + 1 : 6 + 2 * k \in Nat /\ 6 + 2 * k > 7
  BY BatchNumber
<1>2. \A k \in 1 .. NumBatches : 7 + 2 * k \in Nat /\ 7 + 2 * k > 7
  BY BatchNumber
<1>3. \A k \in 1 .. NumBatches + 1 : ~At("permissions", 6 + 2 * k)'
  BY <1>1 DEF At
<1>4. \A k \in 1 .. NumBatches : ~At("permissions", 7 + 2 * k)'
  BY <1>2 DEF At
<1> QED BY <1>3, <1>4 DEF ListReached

LEMMA ListNextSend ==
    ASSUME NEW k \in 1 .. NumBatches + 1, run'.at = 6 + 2 * k, Covers(run.added, k - 1)'
    PROVE  ListReached'
<1>1. k \in Nat \ {0} /\ NumBatches \in Nat
  BY BatchNumber
<1>2. run'.at \in Nat /\ run'.at > 7
  BY <1>1
<1>3. ~Within("permissions", 1, 7)' /\ ~At("permissions", 5)'
  BY <1>2 DEF Within, At
<1>4. \A h \in 1 .. NumBatches + 1 : At("permissions", 6 + 2 * h)' => h = k
  BY <1>1 DEF At
<1>5. \A h \in 1 .. NumBatches : ~At("permissions", 7 + 2 * h)'
  BY <1>1 DEF At
<1> QED BY <1>3, <1>4, <1>5 DEF ListReached

LEMMA ListNextWait ==
    ASSUME NEW k \in 1 .. NumBatches, run'.at = 7 + 2 * k, Covers(run.added, k - 1)', Awaits(k)'
    PROVE  ListReached'
<1>1. k \in Nat \ {0} /\ NumBatches \in Nat
  BY BatchNumber
<1>2. run'.at \in Nat /\ run'.at > 7
  BY <1>1
<1>3. ~Within("permissions", 1, 7)' /\ ~At("permissions", 5)'
  BY <1>2 DEF Within, At
<1>4. \A h \in 1 .. NumBatches + 1 : ~At("permissions", 6 + 2 * h)'
  BY <1>1 DEF At
<1>5. \A h \in 1 .. NumBatches : At("permissions", 7 + 2 * h)' => h = k
  BY <1>1 DEF At
<1> QED BY <1>3, <1>4, <1>5 DEF ListReached

LEMMA PermissionsRun ==
    ASSUME TypeOK, Permissions, RunStep
    PROVE  Permissions'
<1>1. ListReached /\ ListsCover
  BY DEF Permissions
<1>2. run # Idle /\ (run' # Idle => run'.script = run.script)
  BY RunGoes DEF Goes
<1>3. UNCHANGED <<batches, receipt>>
  BY DEF RunStep, DeployContract, Fetch, CheckOwner, CheckBatcher, SendTransaction, AwaitReceipt,
         PrintCommands, chainVars
<1>4. \A i \in DOMAIN batches : i \in DOMAIN batches' /\ batches'[i] = batches[i]
  BY <1>3
<1>5. \A list, n : Covers(list, n) => Covers(list, n)'
  BY <1>4, CoversKept
<1>6. UNCHANGED indexes => ListsCover'
  BY <1>1, <1>5 DEF ListsCover
<1>7. run.script # "permissions" => ListReached'
  <2> SUFFICES ASSUME run.script # "permissions" PROVE ListReached'
    OBVIOUS
  <2>1. CASE run' = Idle
    BY <2>1, ListIdle
  <2>2. CASE run' # Idle
    BY <1>2, <2>2, ListElsewhere
  <2> QED BY <2>1, <2>2
<1>8. ASSUME ~Running("unless"), ~Running("wait"), run' # Idle
      PROVE  run'.at = run.at + 1 /\ run'.added = run.added
  BY <1>8, RunGoes DEF Goes
<1>9. \A place \in 1 .. 7 : At("permissions", place) => run.added = {}
  BY <1>1 DEF ListReached, Within, At
<1>10. CASE DeployContract \/ Fetch \/ CheckBatcher
  <2>1. UNCHANGED indexes /\ ~Running("unless") /\ ~Running("wait")
    BY <1>10 DEF DeployContract, Fetch, CheckBatcher, Running
  <2>2. run.script = "permissions" => run.at \in {1, 2, 6, 7} /\ run.added = {}
    BY <1>9, <1>10, DeploysWhat, NeedsWhat, BatcherWhere DEF DeployContract, Fetch, CheckBatcher, At
  <2>3. ASSUME run' # Idle, run.script = "permissions"
       PROVE  ListReached'
    <3>1. run'.added = {} /\ run'.at = run.at + 1
      BY <1>8, <2>1, <2>2, <2>3
    <3>2. CASE run.at \in {1, 2, 6}
      BY <3>1, <3>2, ListElsewhere
    <3>3. CASE run.at = 7
      <4>1. 1 \in 1 .. NumBatches + 1 /\ run'.at = 6 + 2 * 1
        BY <3>1, <3>3, BatchNumber
      <4>2. Covers(run'.added, 0)
        BY <3>1, CoversNone
      <4>3. Covers(run.added, 0)'
        BY <1>3, <4>2 DEF Covers, CallsOf
      <4>4. Covers(run.added, 1 - 1)'
        BY <4>3
      <4> QED BY <4>1, <4>4, ListNextSend
    <3> QED BY <2>2, <2>3, <3>2, <3>3
  <2>4. ListReached'
    BY <1>7, <2>3, ListIdle
  <2> QED BY <1>6, <2>1, <2>4 DEF Permissions
<1>11. CASE CheckOwner
  <2>1. UNCHANGED indexes /\ Running("unless") /\ ~Running("wait")
    BY <1>11 DEF CheckOwner, Running
  <2>2. run.script = "permissions" => run.at = 3 /\ Step.skip = 2 /\ run.added = {}
    BY <1>9, <2>1, SkipsWhat DEF At
  <2>3. ASSUME run' # Idle, run.script = "permissions"
       PROVE  ListReached'
    <3>1. run'.added = {} /\ (run'.at = 4 \/ run'.at = 6)
      BY <2>1, <2>2, <2>3, RunGoes DEF Goes
    <3> QED BY <3>1, ListElsewhere
  <2>4. ListReached'
    BY <1>7, <2>3, ListIdle
  <2> QED BY <1>6, <2>1, <2>4 DEF Permissions
<1>12. CASE SendTransaction
  <2>1. UNCHANGED indexes /\ Running("send") /\ ~Running("unless") /\ ~Running("wait")
    BY <1>12 DEF SendTransaction, Running
  <2>2. ASSUME run' # Idle, run.script = "permissions"
       PROVE  ListReached'
    <3>1. mempool' = Append(mempool, Step.tx) /\ Step.tx \in Transactions /\ Sends
      BY <1>12, <2>1, <2>2, SendsWhat DEF SendTransaction
    <3>2. mempool' # <<>> /\ Latest' = Step.tx
      BY <3>1, Sent DEF Latest
    <3>3. run'.at = run.at + 1 /\ run'.added = run.added
      BY <1>8, <2>1, <2>2
    <3>4. CASE Step.tx \in TimelockTransfers /\ run.at = 4
      <4>1. run'.at = 5 /\ run'.added = {}
        BY <1>9, <2>2, <3>3, <3>4 DEF At
      <4>2. Latest'.call # "addBatch"
        BY <3>2, <3>4, Calls DEF TimelockTransfers
      <4> QED BY <3>2, <4>1, <4>2, ListNextFive
    <3>5. ASSUME NEW k \in 1 .. NumBatches, At("permissions", 6 + 2 * k),
                 Step.tx = AddBatch(PermissionBatch(k))
          PROVE  ListReached'
      <4>1. k \in 1 .. NumBatches + 1 /\ k \in Nat
        BY BatchNumber
      <4>2. Covers(run.added, k - 1)
        BY <1>1, <3>5, <4>1 DEF ListReached
      <4>3. Covers(run.added, k - 1)'
        BY <1>3, <3>3, <4>2 DEF Covers, CallsOf
      <4>4. run'.at = 7 + 2 * k
        BY <3>3, <3>5, <4>1 DEF At
      <4>5. Awaits(k)'
        BY <3>2, <3>5 DEF Awaits
      <4> QED BY <4>3, <4>4, <4>5, ListNextWait
    <3> QED BY <2>2, <3>1, <3>4, <3>5 DEF Sends, At
  <2>3. ListReached'
    BY <1>7, <2>2, ListIdle
  <2> QED BY <1>6, <2>1, <2>3 DEF Permissions
<1>13. CASE AwaitReceipt
  <2>1. UNCHANGED indexes /\ Running("wait") /\ mempool = <<>> /\ mempool' = mempool
    BY <1>13 DEF AwaitReceipt
  <2>2. ASSUME run' # Idle, run.script = "permissions"
       PROVE  ListReached'
    <3>1. /\ receipt.ok /\ run'.at = run.at + 1 /\ run'.added = run.added \cup receipt.added
      BY <2>1, <2>2, RunGoes DEF Goes, Running
    <3>2. CASE At("permissions", 5)
      <4>1. run.added = {} /\ receipt.added = {}
        BY <1>1, <1>9, <2>1, <3>2 DEF ListReached
      <4>2. run'.at = 6 /\ run'.added = {}
        BY <3>1, <3>2, <4>1 DEF At
      <4> QED BY <4>2, ListElsewhere
    <3>3. ASSUME NEW k \in 1 .. NumBatches, At("permissions", 7 + 2 * k)
          PROVE  ListReached'
      <4>1. Covers(run.added, k - 1) /\ Awaits(k)
        BY <1>1, <3>3 DEF ListReached
      <4>2. PICK i \in receipt.added : /\ receipt.added = {i} /\ i + 1 \in DOMAIN batches
                                       /\ batches[i + 1] = PermissionBatch(k)
        BY <2>1, <3>1, <4>1 DEF Awaits
      <4>3. k \in Nat \ {0} /\ k + 1 \in 1 .. NumBatches + 1 /\ (k + 1) - 1 = k
        BY BatchNumber
      <4>4. Covers(run.added \cup {i}, k)
        BY <4>1, <4>2, <4>3, CoversOneMore
      <4>5. Covers(run'.added, k)
        BY <3>1, <4>2, <4>4
      <4>6. Covers(run.added, k)'
        BY <1>3, <4>5 DEF Covers, CallsOf
      <4>7. run'.at = 6 + 2 * (k + 1)
        BY <3>1, <3>3, <4>3 DEF At
      <4>8. Covers(run.added, (k + 1) - 1)'
        BY <4>3, <4>6
      <4> QED BY <4>3, <4>7, <4>8, ListNextSend
    <3> QED BY <2>1, <2>2, <3>2, <3>3, WaitsWhere
  <2>3. ListReached'
    BY <1>7, <2>2, ListIdle
  <2> QED BY <1>6, <2>1, <2>3 DEF Permissions
<1>14. CASE PrintCommands
  <2>1. run' = Idle
    BY <1>14 DEF PrintCommands
  <2>2. CASE run.script = "permissions"
    <3>1. indexes' = indexes \cup {run.added}
      BY <1>14, <2>2 DEF PrintCommands
    <3>2. At("permissions", 8 + 2 * NumBatches)
      BY <1>14, <2>2, ShowsWhere DEF PrintCommands, At
    <3>3. NumBatches + 1 \in 1 .. NumBatches + 1 /\ 6 + 2 * (NumBatches + 1) = 8 + 2 * NumBatches
          /\ (NumBatches + 1) - 1 = NumBatches
      BY BatchNumber
    <3>4. Covers(run.added, NumBatches)
      BY <1>1, <3>2, <3>3 DEF ListReached
    <3>5. \A list \in indexes' : Covers(list, NumBatches)
      BY <1>1, <3>1, <3>4 DEF ListsCover
    <3>6. ListsCover'
      BY <1>5, <3>5 DEF ListsCover
    <3> QED BY <2>1, <3>6, ListIdle DEF Permissions
  <2>3. CASE run.script # "permissions"
    BY <1>6, <1>14, <2>1, <2>3, ListIdle DEF PrintCommands, Permissions
  <2> QED BY <2>2, <2>3
<1> QED BY <1>10, <1>11, <1>12, <1>13, <1>14 DEF RunStep

LEMMA PermissionsMine ==
    ASSUME TypeOK, Permissions, Mine
    PROVE  Permissions'
<1> DEFINE n == Len(mempool)
<1>1. ListReached /\ ListsCover
  BY DEF Permissions
<1>2. /\ mempool # <<>> /\ mempool' = Tail(mempool) /\ mempool[1] \in Transactions
      /\ UNCHANGED <<task, run, indexes>>
      /\ receipt'.added = IF mempool[1].call = "addBatch" THEN {Len(batches)} ELSE {}
      /\ ~receipt'.ok \/ Does(mempool[1])
      /\ Reverts \/ Does(mempool[1])
  BY Mined
<1>3. /\ n \in Nat \ {0} /\ Len(mempool') = n - 1 /\ (mempool' = <<>> <=> n = 1)
      /\ \A j \in 1 .. n - 1 : mempool'[j] = mempool[j + 1]
  <2>1. mempool' \in Seq(Transactions)
    BY <1>2, Taken
  <2>2. mempool' = <<>> <=> Len(mempool') = 0
    BY <2>1
  <2>3. /\ n \in Nat \ {0} /\ Len(mempool') = n - 1 /\ DOMAIN mempool' = 1 .. n - 1
        /\ \A j \in DOMAIN mempool' : mempool'[j] = mempool[j + 1]
    BY <1>2, Taken
  <2> HIDE DEF n
  <2>4. Len(mempool') = 0 <=> n = 1
    BY <2>3
  <2>5. \A j \in 1 .. n - 1 : mempool'[j] = mempool[j + 1]
    BY <2>3
  <2> QED BY <2>2, <2>3, <2>4, <2>5
<1>4. UNCHANGED batches \/ \E calls : batches' = Append(batches, calls)
  BY <1>2 DEF Reverts, Does
<1>5. \A i \in DOMAIN batches : i \in DOMAIN batches' /\ batches'[i] = batches[i]
  BY <1>4, BatchesStay
<1>6. \A list, m : Covers(list, m) => Covers(list, m)'
  BY <1>5, CoversKept
<1>7. mempool' # <<>> => Latest' = Latest
  BY <1>3 DEF Latest
<1>8. mempool' = <<>> => Latest = mempool[1]
  BY <1>3 DEF Latest
<1>9. At("permissions", 5) =>
          IF mempool' = <<>> THEN receipt'.added = {} ELSE Latest'.call # "addBatch"
  BY <1>1, <1>2, <1>7, <1>8 DEF ListReached
<1>10. ASSUME NEW k \in 1 .. NumBatches, Awaits(k) PROVE Awaits(k)'
  <2>1. Latest = AddBatch(PermissionBatch(k))
    BY <1>2, <1>10 DEF Awaits
  <2>2. CASE mempool' # <<>>
    BY <1>7, <2>1, <2>2 DEF Awaits
  <2>3. CASE mempool' = <<>>
    <3>1. mempool[1] = AddBatch(PermissionBatch(k))
      BY <1>8, <2>1, <2>3
    <3>2. receipt'.added = {Len(batches)}
      BY <1>2, <3>1, Calls
    <3>3. receipt'.ok => batches' = Append(batches, PermissionBatch(k))
      <4> SUFFICES ASSUME receipt'.ok PROVE batches' = Append(batches, PermissionBatch(k))
        OBVIOUS
      <4>1. Does(AddBatch(PermissionBatch(k)))
        BY <1>2, <3>1
      <4>2. PICK h \in 1 .. NumBatches :
               /\ AddBatch(PermissionBatch(k)) = AddBatch(PermissionBatch(h))
               /\ batches' = Append(batches, PermissionBatch(h))
        BY <4>1, Configurations DEF Does
      <4>3. PermissionBatch(k) = PermissionBatch(h)
        BY <4>2, Calls
      <4> QED BY <4>2, <4>3
    <3>4. batches \in Seq(PermissionBatches \cup {OtherGrants}) /\ PermissionBatch(k) \in PermissionBatches
      BY DEF TypeOK, PermissionBatches
    <3>5. receipt'.ok => /\ Len(batches) + 1 \in DOMAIN batches'
                         /\ batches'[Len(batches) + 1] = PermissionBatch(k)
      BY <3>3, <3>4
    <3> QED BY <2>3, <3>2, <3>5 DEF Awaits
  <2> QED BY <2>2, <2>3
<1>11. ListReached'
  <2>1. \A place : At("permissions", place)' <=> At("permissions", place)
    BY <1>2 DEF At
  <2>2. Within("permissions", 1, 7)' <=> Within("permissions", 1, 7)
    BY <1>2 DEF Within
  <2>3. \A m : Covers(run.added, m) => Covers(run.added, m)'
    <3>1. \A m : Covers(run.added, m) => (\A list : list = run'.added => Covers(list, m)')
      BY <1>2, <1>6
    <3> QED BY <3>1 DEF Covers, CallsOf
  <2>4. Within("permissions", 1, 7)' => run'.added = {}
    BY <1>1, <1>2, <2>2 DEF ListReached
  <2>5. At("permissions", 5)' =>
            IF mempool' = <<>> THEN receipt'.added = {} ELSE Latest'.call # "addBatch"
    BY <1>9, <2>1
  <2>6. \A k \in 1 .. NumBatches + 1 :
            At("permissions", 6 + 2 * k)' => Covers(run.added, k - 1)'
    BY <1>1, <2>1, <2>3 DEF ListReached
  <2>7. \A k \in 1 .. NumBatches :
            At("permissions", 7 + 2 * k)' => Covers(run.added, k - 1)' /\ Awaits(k)'
    BY <1>1, <1>10, <2>1, <2>3 DEF ListReached
  <2> QED BY <2>4, <2>5, <2>6, <2>7 DEF ListReached
<1>12. ListsCover'
  BY <1>1, <1>2, <1>6 DEF ListsCover
<1> QED BY <1>11, <1>12 DEF Permissions

LEMMA PermissionsStep ==
    ASSUME TypeOK, Permissions, [Next]_vars
    PROVE  Permissions'
<1>1. ListReached /\ ListsCover
  BY DEF Permissions
<1>2. ASSUME UNCHANGED batches \/ \E calls : batches' = Append(batches, calls)
      PROVE  \A list, m : Covers(list, m) => Covers(list, m)'
  BY <1>2, BatchesStay, CoversKept
<1>3. ASSUME UNCHANGED <<run, mempool, receipt, indexes>>,
             UNCHANGED batches \/ \E calls : batches' = Append(batches, calls)
      PROVE  Permissions'
  <2>1. \A list, m : Covers(list, m) => Covers(list, m)'
    BY <1>2, <1>3
  <2>2. \A m : Covers(run.added, m) => Covers(run.added, m)'
    <3>1. \A m : Covers(run.added, m) => (\A list : list = run'.added => Covers(list, m)')
      BY <1>3, <2>1
    <3> QED BY <3>1 DEF Covers, CallsOf
  <2>3. \A i \in DOMAIN batches : i \in DOMAIN batches' /\ batches'[i] = batches[i]
    BY <1>3, BatchesStay
  <2>4. \A k \in 1 .. NumBatches : Awaits(k) => Awaits(k)'
    BY <1>3, <2>3 DEF Awaits, Latest
  <2>5. /\ \A place : At("permissions", place)' <=> At("permissions", place)
        /\ Within("permissions", 1, 7)' <=> Within("permissions", 1, 7)
        /\ Latest' = Latest
    BY <1>3 DEF At, Within, Latest
  <2>6. ListReached'
    BY <1>1, <1>3, <2>2, <2>4, <2>5 DEF ListReached
  <2>7. ListsCover'
    BY <1>1, <1>3, <2>1 DEF ListsCover
  <2> QED BY <2>6, <2>7 DEF Permissions
<1>4. ASSUME UNCHANGED <<batches, indexes>> PROVE ListsCover'
  <2>1. \A list, m : Covers(list, m) => Covers(list, m)'
    BY <1>2, <1>4
  <2> QED BY <1>1, <1>4, <2>1 DEF ListsCover
<1>5. ASSUME NEW s \in Scripts, Start(s) PROVE Permissions'
  <2>1. UNCHANGED <<batches, indexes>>
    BY <1>5 DEF Start, chainVars
  <2> QED BY <1>4, <1>5, <2>1, StartTyped, ListElsewhere DEF Permissions
<1>6. CASE Crash
  <2>1. UNCHANGED <<batches, indexes>> /\ run' = Idle
    BY <1>6 DEF Crash, chainVars
  <2> QED BY <1>4, <2>1, ListIdle DEF Permissions
<1>7. CASE Govern
  <2>1. UNCHANGED <<run, mempool, receipt, indexes, batches>>
    BY <1>7 DEF Govern, ConfigureExecutorOwner, ConfigureSender, AcceptOwnership,
                AddAuthorizedBatchers, ExecuteBatches, toolVars
  <2> QED BY <1>3, <2>1
<1>8. CASE AddOtherBatch
  <2>1. UNCHANGED <<run, mempool, receipt, indexes>> /\ batches' = Append(batches, OtherGrants)
    BY <1>8 DEF AddOtherBatch, toolVars
  <2> QED BY <1>3, <2>1
<1>9. CASE UNCHANGED vars
  BY <1>3, <1>9 DEF vars, chainVars, toolVars
<1> QED BY <1>5, <1>6, <1>7, <1>8, <1>9, PermissionsRun, PermissionsMine DEF Next

-----------------------------------------------------------------------------
(* The invariant, and what it says of the deployment                         *)

LEMMA InitHolds == Init => IInv
<1> SUFFICES ASSUME Init PROVE IInv
  OBVIOUS
<1> USE Accounts
<1>1. /\ mempool = <<>> /\ run = Idle /\ indexes = {} /\ batches = <<>>
      /\ owner = [c \in Ownables |-> None] /\ pendingOwner = [c \in TwoStep |-> None]
      /\ receipt = [ok |-> TRUE, added |-> {}] /\ task \in Tasks
  BY DEF Init
<1>2. DOMAIN mempool = {} /\ run.script = None
  BY <1>1, IdleRun
<1>3. TypeOK
  <2>1. run \in [script : Scripts \cup {None}, at : Nat, added : SUBSET Nat]
    BY <1>1 DEF Idle
  <2>2. receipt \in [ok : BOOLEAN, added : SUBSET Nat]
    BY <1>1
  <2>3. batches \in Seq(PermissionBatches \cup {OtherGrants}) /\ mempool \in Seq(Transactions)
    BY <1>1
  <2>4. /\ owner \in [Ownables -> {None, Deployer, Owner, "NormalTimelock"}]
        /\ pendingOwner \in [TwoStep -> {None, "NormalTimelock"}]
    BY <1>1
  <2> QED BY <1>1, <2>1, <2>2, <2>3, <2>4 DEF TypeOK
<1>4. Administration
  <2>1. task # "destination" => Granted
    BY DEF Init, Granted, ACM!MayGrant, ACM!HasRole, Timelocks
  <2>2. Manager \in code => Granted
    BY <2>1 DEF Init
  <2>3. AcmReached
    BY <1>2 DEF AcmReached, At, Scripts
  <2> QED BY <1>2, <2>1, <2>2, <2>3 DEF Administration, Administered
<1>5. HandOver
  <2>1. owner[Executor] = None /\ owner[Owner] = None /\ pendingOwner[Owner] = None
    BY <1>1
  <2>2. Executor \notin code /\ Owner \notin code
    BY DEF Init, Timelocks, Executor, Owner
  <2>3. OwnerReached
    BY <1>2 DEF OwnerReached, Within, At, Scripts
  <2> QED BY <1>2, <2>1, <2>2, <2>3 DEF HandOver, Handed, GivenAway
<1>6. Permissions
  BY <1>1, <1>2 DEF Permissions, ListReached, ListsCover, Within, At, Scripts
<1> QED BY <1>3, <1>4, <1>5, <1>6 DEF IInv

(* The deployment keeps its types and the three parts of the invariant.      *)
THEOREM Invariance == Spec => []IInv
<1>1. IInv /\ [Next]_vars => IInv'
  BY TypeStep, AdministrationStep, HandOverStep, PermissionsStep DEF IInv
<1> QED BY <1>1, InitHolds, PTL DEF Spec

(* The deployer's transactions, the run of a script and the owners are       *)
(* always what the scripts can make them.                                    *)
THEOREM TypeCorrect == Spec => []TypeOK
<1>1. IInv => TypeOK
  BY DEF IInv
<1> QED BY <1>1, Invariance, PTL

(* Whenever 002 dies, or runs again, between the grant and the renouncing of *)
(* the role, the manager has an administrator that can act.                  *)
THEOREM SomebodyAdministers == Spec => []AlwaysAdministered
<1>1. IInv => AlwaysAdministered
  BY DEF IInv, Administration, Administered, AlwaysAdministered, Granted, Manager
<1> QED BY <1>1, Invariance, PTL

(* Whatever the order of the runs of 006 and wherever they died, a contract   *)
(* it has given away lacks nothing that only the deployer could have done.   *)
THEOREM GivenAwayReady == Spec => []HandedOverReady
<1>1. IInv => HandedOverReady
  <2> SUFFICES ASSUME IInv PROVE HandedOverReady
    OBVIOUS
  <2>1. Handed
    BY DEF IInv, HandOver
  <2>2. owner["OmnichainGovernanceExecutor"] \notin {None, Deployer}
            => GovernanceReaches /\ "minDstGas" \in settings
    BY <2>1 DEF Handed, GivenAway, Ready, Executor, GovernanceReaches, BridgeSettings
  <2>3. "NormalTimelock" \in {owner["OmnichainExecutorOwner"], pendingOwner["OmnichainExecutorOwner"]}
            => ExecutorSignatures \subseteq functionRegistry
    BY <2>1, Accounts DEF Handed, GivenAway, Registered, Owner
  <2> QED BY <2>2, <2>3 DEF HandedOverReady
<1> QED BY <1>1, Invariance, PTL

(* The indexes that 007 prints make the permissions, in batches of any size, *)
(* with any batches of others in between.                                    *)
THEOREM BatchesSuffice == Spec => []PrintedBatchesSuffice
<1>1. IInv => PrintedBatchesSuffice
  BY BatchesCover DEF IInv, Permissions, ListsCover, Covers, PrintedBatchesSuffice
<1> QED BY <1>1, Invariance, PTL

-----------------------------------------------------------------------------
(* The check of the storage layouts *)

(* A pull request changes files; one that passed did so on a branch that has *)
(* the same content in them as the branch has now.                           *)
PullOK(pull, branch) ==
    \/ pull = NoPull
    \/ /\ pull = [stage |-> "open", change |-> pull.change]
       /\ DOMAIN pull.change \subseteq Files
    \/ /\ pull = [stage |-> "passed", change |-> pull.change, ref |-> pull.ref]
       /\ DOMAIN pull.change \subseteq Files
       /\ DOMAIN pull.ref = Files
       /\ Passes(pull.ref, Over(pull.change, pull.ref))
       /\ \A f \in DOMAIN pull.change : branch[f] = pull.ref[f]

(* The files of the branch stay the same ones: a file that is not in Files   *)
(* is never created.  What goes in between leaves a checked pull request     *)
(* alone only if it changes other files.                                     *)
BranchOK ==
    /\ DOMAIN base = Files
    /\ pulls = [p \in Pulls |-> pulls[p]]
    /\ \A p \in Pulls : PullOK(pulls[p], base)

LEMMA FilesAreFiles ==
    /\ Listed \in Files /\ Skipped \in Files /\ Allowlist \in Files
    /\ \A contract \in Sources : Source(contract) \in Files
    /\ \A n \in Networks, name \in Names : Artifact(n, name) \in Files
BY DEF Files

LEMMA OverOfFiles ==
    ASSUME NEW d, NEW e, DOMAIN d \subseteq Files, DOMAIN e \subseteq Files
    PROVE  DOMAIN Over(d, e) \subseteq Files
BY DEF Over

LEMMA ChangesAreOfFiles ==
    ASSUME NEW tree, NEW change \in Changes(tree)
    PROVE  DOMAIN change \subseteq Files
<1>1. \A contract \in Sources : \A layout : DOMAIN EditSource(contract, layout) \subseteq Files
  BY FilesAreFiles DEF EditSource, Edit
<1>2. \A n \in Networks, name \in Names : \A contract, layout :
         /\ DOMAIN Edit(Artifact(n, name), Recorded(contract, layout)) \subseteq Files
         /\ \A d \in Redeploy(n, name, contract, layout) : DOMAIN d \subseteq Files
  BY FilesAreFiles DEF Redeploy, Edit
<1>3. \A n : \A e \in Enlist(tree, n) : DOMAIN e \subseteq Files
  BY FilesAreFiles DEF Enlist, Edit
<1>4. \A n : DOMAIN Delist(tree, n) \subseteq Files
  BY FilesAreFiles DEF Delist, Edit, Over
<1>5. \A n, name : \A e \in Excuses(tree, n, name) : DOMAIN e \subseteq Files
  BY FilesAreFiles DEF Excuses, Excuse, Edit
<1>6. \A n \in Networks, name \in Names : DOMAIN Retire(n, name) \subseteq Files
  BY FilesAreFiles DEF Retire, Edit
<1> HIDE DEF Files
<1>7. ASSUME NEW n \in Networks, NEW name \in Names, NEW contract \in Sources,
             change \in Deployments(tree, n, name, contract) \cup Upgrades(n, name, contract)
      PROVE  DOMAIN change \subseteq Files
  <2>1. CASE change \in Deployments(tree, n, name, contract)
    BY <1>2, <1>3, <1>5, <2>1, OverOfFiles DEF Deployments
  <2>2. CASE change \in Upgrades(n, name, contract)
    BY <1>1, <1>2, <2>2, OverOfFiles DEF Upgrades
  <2> QED BY <1>7, <2>1, <2>2
<1>8. ASSUME NEW n \in Networks, NEW name \in Names,
             change \in Retirements(tree, n, name) \cup Excuses(tree, n, name)
      PROVE  DOMAIN change \subseteq Files
  BY <1>4, <1>5, <1>6, <1>8, OverOfFiles DEF Retirements
<1> DEFINE Edits == {EditSource(contract, layout) :
                        contract \in Sources, layout \in Layouts \cup {Absent}}
           Deploys == UNION {Deployments(tree, n, name, contract) \cup Upgrades(n, name, contract) :
                               n \in Networks, name \in Names, contract \in Sources}
           Ends == UNION {Retirements(tree, n, name) \cup Excuses(tree, n, name) :
                            n \in Networks, name \in Names}
<1>9. Changes(tree) = Edits \cup Deploys \cup Ends
  BY DEF Changes
<1>10. CASE change \in Edits
  BY <1>1, <1>10
<1>11. CASE change \in Deploys
  BY <1>7, <1>11
<1>12. CASE change \in Ends
  BY <1>8, <1>12
<1> HIDE DEF Edits, Deploys, Ends
<1> QED
  BY <1>9, <1>10, <1>11, <1>12

LEMMA BranchInitOK == BranchInit => BranchOK
BY DEF BranchInit, BranchOK, PullOK

LEMMA PullStep ==
    ASSUME BranchOK, NEW p \in Pulls, Open(p) \/ Check(p) \/ Merge(p) \/ Close(p)
    PROVE  BranchOK'
<1> USE DEF BranchOK
<1>1. CASE Open(p)
  <2>1. PICK change \in Changes(base) :
           pulls' = [pulls EXCEPT ![p] = [stage |-> "open", change |-> change]]
    BY <1>1 DEF Open
  <2>2. DOMAIN change \subseteq Files
    BY ChangesAreOfFiles
  <2>3. base' = base
    BY <1>1 DEF Open
  <2> QED BY <2>1, <2>2, <2>3 DEF PullOK
<1>2. CASE Check(p)
  <2>1. /\ pulls[p].stage = "open" /\ base' = base
        /\ Passes(base, Over(pulls[p].change, base))
        /\ pulls' = [pulls EXCEPT ![p] =
                        [stage |-> "passed", change |-> pulls[p].change, ref |-> base]]
    BY <1>2 DEF Check
  <2>2. DOMAIN pulls[p].change \subseteq Files
    BY <2>1 DEF PullOK, NoPull
  <2>3. PullOK(pulls'[p], base')
    BY <2>1, <2>2 DEF PullOK
  <2> QED BY <2>1, <2>3 DEF PullOK
<1>3. CASE Merge(p)
  <2>1. /\ pulls[p].stage = "passed" /\ base' = Over(pulls[p].change, base)
        /\ pulls' = [q \in Pulls |->
                      IF q = p \/ pulls[q] = NoPull THEN NoPull
                      ELSE IF DOMAIN pulls[q].change \cap DOMAIN pulls[p].change # {}
                      THEN NoPull ELSE pulls[q]]
    BY <1>3 DEF Merge
  <2>2. DOMAIN pulls[p].change \subseteq Files
    BY <2>1 DEF PullOK, NoPull
  <2>3. DOMAIN base' = Files
    BY <2>1, <2>2 DEF Over
  <2>4. ASSUME NEW q \in Pulls PROVE PullOK(pulls'[q], base')
    <3>1. CASE pulls'[q] = NoPull
      BY <3>1 DEF PullOK
    <3>2. CASE pulls'[q] # NoPull
      <4>1. pulls'[q] = pulls[q] /\ DOMAIN pulls[q].change \cap DOMAIN pulls[p].change = {}
        BY <2>1, <3>2
      <4>2. PullOK(pulls[q], base)
        OBVIOUS
      <4>3. ASSUME DOMAIN pulls[q].change \subseteq Files
            PROVE  \A f \in DOMAIN pulls[q].change : base'[f] = base[f]
        BY <2>1, <4>1, <4>3 DEF Over
      <4> QED BY <4>1, <4>2, <4>3, <3>2 DEF PullOK
    <3> QED BY <3>1, <3>2
  <2>5. pulls' = [q \in Pulls |-> pulls'[q]]
    BY <2>1
  <2> QED BY <2>3, <2>4, <2>5
<1>4. CASE Close(p)
  BY <1>4 DEF Close, PullOK
<1> QED BY <1>1, <1>2, <1>3, <1>4

LEMMA AlwaysBranchOK == BranchSpec => []BranchOK
<1>1. BranchOK /\ [BranchNext]_branchVars => BranchOK'
  <2>1. BranchOK /\ UNCHANGED branchVars => BranchOK'
    BY DEF BranchOK, PullOK, branchVars
  <2> QED BY <2>1, PullStep DEF BranchNext
<1> QED BY <1>1, BranchInitOK, PTL DEF BranchSpec

(* Nothing is deployed where a list is wrong: the keys of the two kinds of   *)
(* targets differ.                                                           *)
LEMMA ImplementationsFit ==
    ASSUME NEW work, NEW t \in Implementations(work)
    PROVE  t \notin Misfits(work)
BY LayoutAssumption DEF Implementations, Misfits

(* A deployment that was compared and neither failed nor is excused in vain  *)
(* is compatible with the sources.                                           *)
LEMMA VerdictFits ==
    ASSUME NEW ref, NEW work, NEW t \in Implementations(work), Layout(Deployed(ref, t)),
           Passes(ref, work)
    PROVE  Fits(Deployed(ref, t), work)
<1>1. t \notin Misfits(work) /\ t \in Targets(work)
  BY ImplementationsFit DEF Targets
<1>2. Verdict(ref, work, t) \notin {"failed", "stale"}
  BY <1>1 DEF Passes
<1>3. ~IsBlocked(ref, work, t) /\ Deployed(ref, t) # Absent
  BY <1>1 DEF IsBlocked, Layout
<1> QED
  BY <1>2, <1>3 DEF Verdict

(* A merge that replaces an artifact has it among the files it changes, so   *)
(* that the branch still has the artifact the check compared with.           *)
LEMMA UpgradeStep ==
    ASSUME BranchOK, NEW p \in Pulls, Merged(p),
           NEW t \in Implementations(Over(pulls[p].change, pulls[p].ref)),
           Layout(Deployed(base, t)), Deployed(base', t) # Deployed(base, t)
    PROVE  Fits(Deployed(base, t), Over(pulls[p].change, pulls[p].ref))
<1> DEFINE change == pulls[p].change
           ref == pulls[p].ref
           file == Artifact(t[1], t[2])
<1>1. /\ DOMAIN change \subseteq Files
      /\ Passes(ref, Over(change, ref))
      /\ \A f \in DOMAIN change : base[f] = ref[f]
      /\ base' = Over(change, base) /\ DOMAIN base = Files
  BY DEF BranchOK, PullOK, Merged, Merge, NoPull
<1>2. file \in Files
  BY FilesAreFiles DEF Implementations
<1>3. file \in DOMAIN change
  BY <1>1, <1>2 DEF Over, Deployed
<1>4. Deployed(ref, t) = Deployed(base, t)
  BY <1>1, <1>3 DEF Deployed
<1> QED BY <1>1, <1>4, VerdictFits

(* A network that is not left out by name is listed if it has a deployment,  *)
(* so all of its deployments were compared.                                  *)
LEMMA FitStep ==
    ASSUME BranchOK, NEW p \in Pulls, Merged(p), pulls[p].ref = base,
           NEW n \in Networks, ~IsLeftOut(base', n), NEW name \in Names,
           Layout(base[Artifact(n, name)]), base'[Artifact(n, name)] # Absent
    PROVE  Fits(base[Artifact(n, name)], base')
<1> DEFINE t == <<n, name>>
           unlisted == <<"NETWORKS", n>>
<1>1. Passes(base, base')
  BY DEF BranchOK, PullOK, Merged, Merge, NoPull
<1>2. HasDirectory(base', n)
  BY DEF HasDirectory
<1>3. n \in base'[Listed]
  <2> SUFFICES ASSUME n \notin base'[Listed]
               PROVE  FALSE
    OBVIOUS
  <2>1. unlisted \in Misfits(base') /\ unlisted \notin base'[Allowlist]
    BY <1>2 DEF IsLeftOut, Misfits
  <2>2. Verdict(base, base', unlisted) = "failed"
    BY <2>1 DEF Verdict, IsBlocked
  <2> QED BY <1>1, <2>1, <2>2 DEF Passes, Targets
<1>4. t \in Implementations(base')
  BY <1>3 DEF Implementations
<1>5. Layout(Deployed(base, t))
  BY DEF Deployed
<1>6. Fits(Deployed(base, t), base')
  BY <1>1, <1>4, <1>5, VerdictFits
<1> QED BY <1>6 DEF Deployed

(* checkStorageLayout.ts, run for a pull request on the base branch of some  *)
(* earlier time, is good enough for what it deploys: whatever other pull     *)
(* requests go in before it is merged, a deployment is only replaced with a  *)
(* compatible upgrade, if it is of the contract that the check compared.     *)
THEOREM UpgradesStayCompatible == BranchSpec => UpgradesAreCompatible
<1>1. BranchOK =>
        [\A p \in Pulls : Merged(p) =>
           LET work == Over(pulls[p].change, pulls[p].ref)
           IN \A t \in Implementations(work) :
                 LET old == Deployed(base, t)
                     new == Deployed(base', t)
                     checked == work[Source(old.of)]
                 IN Layout(old) /\ new # old /\ new = Recorded(old.of, checked)
                      => Compatible(old.layout, checked)]_branchVars
  BY UpgradeStep DEF Fits
<1> QED BY <1>1, AlwaysBranchOK, PTL DEF UpgradesAreCompatible

(* checkStorageLayout.ts leaves sources that can replace everything that was *)
(* deployed, excused or not, on every network that neither the other list    *)
(* nor a key of its own in the allowlist leaves out, if it ran on the base   *)
(* branch that the merge is made to.                                         *)
THEOREM SourcesAlwaysFit == BranchSpec => SourcesFitDeployments
<1>1. BranchOK =>
        [\A p \in Pulls : Merged(p) /\ pulls[p].ref = base =>
           \A n \in Networks, name \in Names :
              LET old == base[Artifact(n, name)]
              IN ~IsLeftOut(base', n) /\ Layout(old) /\ base'[Artifact(n, name)] # Absent
                   => Fits(old, base')]_branchVars
  BY FitStep
<1> QED BY <1>1, AlwaysBranchOK, PTL DEF SourcesFitDeployments
=============================================================================
