# Venus governance contracts: specification, model checking and proofs

TLA+ models of the contracts of this repository (`contracts/`) and of the
programs around them that keep state (`deploy/`, `scripts/`), TLC configurations
that check them on small instances, and TLAPS proofs of their main properties for
all instances.

    tlc -config Governor.cfg MCGovernorBravo.tla              # one run
    tlapm GovernorBravoProofs.tla                             # one proof module

`PROJECT.json` lists every run with its module and properties, the source lines
each definition stands for, the hazards the properties are for, and for every
property a mutant of the model that breaks it.

## 1. The system

| component | state | operations | talks to |
|---|---|---|---|
| `GovernorBravoDelegate` (behind `GovernorBravoDelegator`) | proposals, receipts, latest proposal per proposer, configuration of the three routes, admin, guardian | `initialize`, `_initiate`, `propose`, `castVote*`, `queue`, `execute`, `cancel`, setters | XvsVault (`getPriorVotes`), one timelock per route |
| `Timelock` (source chain), `TimelockV8` (other chains) | admin, pending admin, delay, hashes of the queued transactions | `queueTransaction`, `cancelTransaction`, `executeTransaction`, `setDelay`, `setPendingAdmin`, `acceptAdmin` | the targets of the transactions |
| `OmnichainProposalSender` + `BaseOmnichainControllerSrc` | proposal count, hashes of failed sends, trusted remotes, daily counters, pause flag | `execute`, `retryExecute`, `fallbackWithdraw`, setters, `pause` | LayerZero endpoint |
| `OmnichainGovernanceExecutor` + `BaseOmnichainControllerDest` | received proposals, failed messages, timelocks, daily counters, guardian | `lzReceive`, `retryMessage`, `execute`, `cancel`, `addTimelocks`, setters | LayerZero endpoint, three `TimelockV8` |
| `OmnichainExecutorOwner` | function registry | a forwarding fallback, guarded by the access control manager | the executor |
| `RiskOracle` | updates, latest update per market and type, authorized senders | `publishRiskParameterUpdate(s)`, `add`/`removeAuthorizedSender`, update types | – |
| `RiskStewardReceiver` | registered updates, last registered and processed update per market and type | `processUpdate`, `executeRegisteredUpdate`, `rejectUpdate`, `resendRemoteUpdate`, setters | oracle, risk stewards, LayerZero |
| `DestinationStewardReceiver` | received updates, last executed per market and type | `_lzReceive`, `executeUpdate`, `rejectUpdate`, setters | risk stewards |
| `MarketCapsRiskSteward`, `CollateralFactorsRiskSteward`, `IRMRiskSteward` | a safe-change bound | `applyUpdate`, `isSafeForDirectExecution` | comptrollers |
| `RiskStewardLens` | – | views: what may be done with an update now | oracle, receiver, stewards |
| `AccessControlManager` | role grants | `giveCallPermission`, `revokeCallPermission`, `isAllowedToCall`, the roles' own calls | asked by all of the above |
| `AuxiliaryCommandsAggregator` | batchers, stored command batches, which ran | `addBatch`, `executeBatch` by index, batchers | called by proposals |
| deployment scripts (`deploy/`) | what `deployments/` records; on the chain, owners, roles and settings | one script per contract or hand-over, run by tag | the contracts, from the deployer's account; governance, by commands they print |
| ACM snapshot tool (`scripts/acm-permissions`) | per network `permissions.json`, `permissions.md`, `checkpoint.json`, `unresolved-roles.json`; signatures and contracts for all | `fetch`, `verify`, `relabel`, `build-registry` | the manager, through a node; the repository |
| storage layout check (`scripts/checkStorageLayout.ts`) | – | compares sources with the deployed layouts of a base branch | sources, `deployments/`, an allowlist; run for pull requests |

`contracts/legacy` holds superseded contracts, which are not modelled.

### What is hard, and what makes each part correct

*Governor and timelocks.* A proposal's record, its transactions in a timelock
and that timelock's delay and admin are three pieces of state of two contracts,
changed by `queue`, `execute` and `cancel` in any order, by any account, for
several proposals that may share an action. A timelock knows transactions by
their hash, so two proposals that are queued in blocks with one timestamp mean
the same transaction. The rest of the governor rests on reading stale state
correctly: votes at a past block, the delay at queueing time, only the latest
proposal of a proposer. It is correct if what can be executed is what was
approved and still is, if nothing executes early, late or twice, if a vote
counts once, and if no later call revises a result.

*Cross-chain proposals.* A proposal passes through four stores (the sender's
stored executions, the channel, the executor's failed messages, the executor's
proposals), and a refused send, a retry, a withdrawal, a failed or repeated
delivery each move it. Retries come out of order; the timelock can be replaced
or handed over under queued proposals; delivery is slow. It is correct if every
proposal is in one place, is sent and queued at most once, keeps the value paid
for it, is not held up by another one, and if the executor and its timelocks
agree as the governor and its own do. Daily limits must hold over any day,
though the window that counts them restarts.

*Risk stewards.* Updates are registered, wait for a timelock, are executed or
rejected, and travel to other chains where the same happens again; a newer
update replaces an older one, a lost one is resent. Timelocks, debounces, delays
and an expiry count from different moments (publication, processing, arrival,
execution) and change under way; the debounce is asked for at one moment and
matters at another; packets overtake one another. What must hold is that an
update is applied at most once and in time, that of one market and type only
one is pending per chain, that changes keep their order and distance, and that
rejected ones stay so. The lens repeats the receiver's rules and must agree
with them.

*Deployment.* A script is a sequence of transactions, some awaited and some not,
which may stop anywhere and is run again by someone who does not know where it
stopped, while what it sent may still be waiting to be mined. Each hand-over is
final. It is correct if at no moment nobody is in charge, if nothing is handed over
before it works, if the indexes printed for a proposal name the right batches,
and if running the scripts again completes what was interrupted.

*ACM snapshot tool.* A scan takes hours and is expected to be killed, so it leaves
checkpoints; four files are written one after the other; the chain goes on
meanwhile; files are replaced by checkouts and rebuilds. It is correct if a snapshot
says what the manager said at the block it names, if progress is kept, and if
the files derived from a snapshot follow it.

*Storage layout check.* It runs on a pull request when it is opened, and the
request is merged later, into a branch that may have moved; what was deployed is
known only as far as an artifact recorded it, without the annotations that excuse
renames. It is correct if what is deployed over an old layout is compatible with it.

## 2. Modules

| module | models |
|---|---|
| `TimelockOps` | what one call does to one timelock, as operators on a record; both contracts |
| `Timelock` | one timelock on its own, with any callers; `strict` chooses `TimelockV8` |
| `ProposalLifecycle` | abstract: the phases of a governor's proposal and the steps between them |
| `GovernorBravo` | the governor with its timelocks; implements `ProposalLifecycle` |
| `DailyWindow` | the daily allowance of commands, used by both ends of the bridge |
| `RemoteProposal` | abstract: the places of a cross-chain proposal and the steps between them |
| `OmnichainProposalSender` | the sender and its failed sends |
| `OmnichainGovernanceExecutor` | the executor, its LayerZero application and its timelocks |
| `OmnichainGovernance` | sender and executor joined by the channel; implements `RemoteProposal` |
| `RiskUpdate` | abstract: the places of a risk parameter update and the steps between them |
| `RiskStewards` | the three stewards, as operators: what is safe, what applies |
| `RiskOracle` | the oracle's updates, senders and types |
| `RiskStewardReceiver` | the receiver on the oracle's chain, with the oracle and the values its stewards set |
| `RiskStewardLens` | the lens over both |
| `DestinationStewardReceiver` | the receiver on another chain |
| `RiskStewardSystem` | both receivers joined by the endpoint; implements `RiskUpdate` |
| `AccessControlManager` | what one call does to the manager's grants, as operators; used by the next two |
| `Deployment` | the deployment scripts on a chain, with the manager, the owners and the aggregator they set up |
| `AcmSnapshot` | the snapshot tool, its files, and the chain it reads |
| `StorageLayoutCheck` | the check, and the pull requests it is run for |
| `MC...` | constants of the instances TLC checks |
| `...Proofs` | theorems, one module per component; `DeploymentProofs` is about `Deployment` and `StorageLayoutCheck`, which share `deployments/`, and `RiskStewardSystemProofs` about all of the risk stewards |

State variables have the names of the contracts' storage or of the files. A step
of a contract is one
transaction, with every call it makes to other contracts of the system, or the
passing of time. A call that reverts changes nothing and is no step, so every
`require` is a conjunct of its action. Operators whose
comment begins with "Mutant" are the wrong variants that `PROJECT.json`
substitutes; nothing else uses them.

*Abstractions common to all modules.* An action stands for a tuple (target,
value, signature, calldata), and a transaction for an action with its eta; the
hash of a transaction is injective. What a transaction calls is outside, except
`setDelay` and `setPendingAdmin` of the timelock itself, which it executes as the
contract would. Arithmetic does not overflow
(the contracts revert). Time is `block.timestamp`; several transactions may see
one timestamp.

*GovernorBravo.* `Initialize` and `Initiate` model the fresh deployment: the
timelocks have named the governor. Their old admin may have left transactions in them
and leaves more until `Initiate`; what waits at that moment is remembered in `inherited`,
which is history. Such a transaction stays: the governor can neither execute it nor
queue it again. A proposal may call a timelock's `setPendingAdmin` (`AdminCalls`), and the account it names
may accept and then queues, cancels and executes as it likes: `TimelockAcceptAdmin`,
`TimelockQueue`, `TimelockCancel` and `TimelockExecute` are the calls of whoever is not the
governor, before the hand-over to it and after one away from it. A called contract that uses
such a right within the same transaction is the next step. XvsVault's history is
fixed in `Init`, since `getPriorVotes` only answers for the past. `castVoteBySig`
and `castVoteWithReason` are `CastVote`. `execute` and `cancel` are atomic: they
change the record before they call the timelock, so a nested call for the same
proposal reverts. The admin (in production a timelock) is an account that may call
at any time, which allows more than the code. `_setImplementation` of the
delegator is left out, as is the getter sweep.

*OmnichainProposalSender.* Callers are those whom the access control manager
allows, and may call at any time. `send` of the endpoint either succeeds and
appends to the channel, or reverts: `execute` then takes its `catch` branch,
which is the action `ExecuteFails`; a reverting `send` in `retryExecute` undoes
the call. `adapterParams` and the payer of the fee are left out.

*OmnichainGovernanceExecutor.* `Init` is the configured deployment (the sender
is trusted, the executor administers its timelocks). The owner's calls may come
at any time, `OmnichainExecutorOwner` only checks a permission. The inherited
LayerZero application and the endpoint are external, modelled from how the
executor uses them: messages arrive in order, an `lzReceive` that reverts leaves
the message with the endpoint (`PayloadStored`) until it is retried by anybody or
dropped by the owner (`ForceResumeReceive`), and processing that fails inside
leaves its hash with the executor (`LzReceiveFails`, `RetryMessage`). A delivery
may fail at any time, for want of gas. A proposal whose actions call the
executor's owner is covered by the owner's call coming right after `Execute`:
`execute` reads the timelock once, before it calls it.

*OmnichainGovernance.* The channel to the one remote chain is what the sender
appended; both chains read one clock. The executor's inbox is not a variable
of its own, so nothing is lost or repeated between the two by assumption; what
may be lost or repeated at either end is in their actions.

*RiskStewardReceiver and DestinationStewardReceiver.* `Init` is a configured
deployment. Anybody may call `processUpdate`, whitelisted executors the rest.
`processUpdate` has three ends, each an action: it forwards an update for another
chain, applies a safe one at once, or registers it. The LayerZero endpoint, the
comptrollers and the vTokens may refuse any call, which undoes it, and otherwise do
as they are told; so an update can stay where it is at any moment. LayerZero V2
delivers each packet once and in any order, to the chain it is for (`LAYER_ZERO_EID`);
resending makes a new packet. The
oracle's chain and the other one share a clock. A value is the list of numbers it
encodes; where the numbers matter (`IsCloseTo`) they are small. Native fees,
ownership, peers, and the texts and previous values of updates are left out. The
lens is modelled as the views it computes, not as a step; `previewUpdate` is
`getUpdateDetails` of an update published in the same block. `getUpdateDetails` itself reverts for
collateral factors of an eMode pool on an isolated market (`DetailsRevert`), which
the receiver registers; `LensAgrees` then says that such an update is never executed. A pool that a
comptroller does not know makes the lens's reads fail as it makes the update fail,
and is among the calls that may be refused.

*Deployment.* A script is the list of its steps on the chain (`Deploy`, `Need`,
`Unless`, `Send`, `Wait`), and a run of it walks the list. `task` chooses what is
deployed: governance of a destination, what the source chain needs, or the risk
stewards of either. Transactions are in a queue of the deployer's account and are mined
in order, after a script that sent them may have died; one that no longer applies
reverts. `Fetch` fails when a deployment is missing, `Succeeds` when gas cannot be
estimated. One signature stands for each group of signatures that share a fate;
`addTimelocks` is kept apart, as it is spelled in two ways (section 5). `Govern` is
what proposals do with the commands the scripts print, and `AcceptOwnership` a
proposal nobody prints but every contract that is handed over in two steps needs (the aggregator, the oracle,
the receivers and the stewards; the sender and the executor change hands at once). Addresses, constructor arguments and
proxies are left out.

*AcmSnapshot.* One network, on which one command runs at a time. A block holds one
call of the manager; the grants after it are kept with it, so that reading the
state at a block (`At`) is a function of the block. `legacy` chooses between the
manager that announces roles only, by hash, and the current one, whose events name
contract and signature. A step of a command ends with a file being written or a
read of the chain; `Stop` is a kill or a failing node between any two. `Pull` is a
checkout of a snapshot somebody else committed. What `build-registry` finds in the
sources is any set. `seen` in a snapshot, `torn`, `forgotten` and `resolved` are
history and decide nothing.

*StorageLayoutCheck.* A tree is a function from files to contents and a pull request
a partial one, merged by `Over`. Layouts are sequences of labelled variables;
`SameVariable` and `Upgradable` are the rules of OpenZeppelin's upgrades library, which
is external, as far as labels, order and renames go. An artifact records the contract it was compiled
from, under its fully qualified name, and the layout, and that contract's sources are what it is compared
with. A network in neither list, one listed in vain and a delegator's name without a deployment
are targets that cannot be compared (`Misfits`), and like an artifact without a layout
(`Opaque`) they fail unless the allowlist has their key. `ref`, the base branch a check saw, is
history.

## 3. Runs

Every passing run finishes exhaustively. Deadlock is not checked where the bounds
on time, proposals, blocks or merges let the model stop. `Governor` and `Executor`
hold several scenarios in one instance: the initial state chooses one and a
`CONSTRAINT` keeps the choices of each to itself.

| run | what it asks | bounds, and why they are enough |
|---|---|---|
| `Governor` | whether every step is one of `ProposalLifecycle`; one live proposal per proposer; what the timelock holds belongs to a queued proposal; transactions are shared or lost only through a canceled twin; executed means approved; terms and results are final; nothing runs early or late; a timelock leaves the governor only by an executed proposal | *lifecycle*: two proposals with one action on one route, two accounts of which one alone makes a majority and the other falls below the threshold, six blocks of which several share a timestamp, time up to the end of a grace period. *Delays*: two routes, two proposals made in one block out of action lists that set the longest delay or an invalid one, seven blocks. *Administration*: every order of initialisation, hand-over and parameters on both sides of each bound, and both accounts vote. *Hand-over*: the old admin leaves transactions behind or none, alice's proposal names bob as the admin of a timelock, while a proposal of bob's is pending, queued or executed; bob accepts, queues, cancels and executes, to time 3. Hazards of this part need two proposals and one hash, or one proposal and one other admin |
| `GovernorTwinCancel` | violation, see section 5 | lifecycle only |
| `Timelock` | nothing runs twice; everything queued had its notice | both contracts, two accounts, two etas, three actions (a new delay, an invalid one, a new admin), delays 1 and 2: an eta passes, becomes stale and could be queued again |
| `Sender` | stored executions are funded; a proposal is sent once, to one chain; at most two limits per day | two chains, three proposals of one or two commands and two values, limits 1 and 2, two windows |
| `Executor` | queued proposals have their transactions unless a swap of timelocks moved a twin there, and nothing else waits in a timelock; no execution early or late | *queue*: two proposals of one action, two timelocks between which `addTimelocks` swaps, an admin who takes a timelock over and uses it. *Delays*: four inboxes of two or three messages (a repeated id, a rejected type, a proposal without actions, actions that change delays or revert, more commands than the limit), two routes, two limits, changing source chain, remote and guardian |
| `Omnichain` | whether sender, channel and executor implement `RemoteProposal`; no copies are left over; every message arrives | two proposals, one of which the executor rejects, with the executor's trust withdrawn and restored |
| `RiskReceiver` | no update is applied before its timelock or after its expiry; two of one market and type are a debounce apart and in order, unless one was forwarded between; resolved updates stay so; lens and receiver agree | three updates of one cap (safe, not safe, for another chain), published by one of two senders, in any order, and one for an eMode pool of an isolated market, published in bulk with a cap; timelock 1, debounce 2, expiry 3, time to 5, so an update can expire before, while and after it waits and a later one take its place; two packets; one change of a setting, any of them, at any time (`MaxChanges`), more changes only compose with more updates |
| `RiskPending` | violation, see section 5 | as `RiskReceiver`, with no change of settings |
| `RiskRemote` | whether oracle and both receivers implement `RiskUpdate`; one pending update per market and type at the destination; changes there in order of arrival, a debounce apart, after the delay and before the expiry | two updates, out of five batches over caps, collateral factors (also of eMode pools and an isolated market), interest rate models and a third chain; three packets, so one update can be resent before, after and while the other one is delivered; one change of the destination's settings |
| `Acm` | snapshots are wrong only about changes the scan could not see; every change saved was verified at the block named; heights never drop; page and list follow the snapshot; resolved roles stay so; the snapshot catches up | both managers, two roles of which one is `DEFAULT_ADMIN_ROLE`, one account, two blocks scanned in chunks of one or two, one rebuild or checkout: a role is granted and revoked within a chunk and across chunks, and a checkpoint outlives its file. Commands are killed any number of times. `WhatMatters` leaves out distinctions one of the managers cannot make |
| `StorageLayout` | a merge never replaces a deployment by an incompatible one; with an up-to-date check, the sources can replace everything deployed | one network, listed, left out or neither, as the deployments of several are compared one by one; one delegator's implementation, deployed from one of two contracts; four layouts (append, append otherwise, an annotated rename); an allowlist entry for each kind of key; two pull requests at a time, each of up to two changes that go together, three merges: one overtakes the other, or renames, deploys and appends, or leaves a network out, edits and takes it back. Contracts, and pull requests, are symmetric |
| `Deployment` | somebody administers the manager at every moment; nothing is handed over half configured; printed batch indexes make the permissions; repeating the scripts completes the hand-over | all four tasks, scripts in any order, one kill at any step, up to three transactions waiting when a run starts, two groups of grants per batch (two batches), another batcher who adds one between them, one printed list |

A timestamp step is 0 or 1 and delays are 1 or 2: the code only compares times,
and all orders of the compared times occur. `DAY` is 1 or 2 for the same reason.

*Fairness.* Three properties need it.

- `ArrivesEventually`: `FairSpec` of `OmnichainGovernance` asks weak fairness of
  `Deliver`, a delivery that the executor accepts (successfully processed or stored
  as failed). The relayers deliver every message of the channel in turn, and
  `retryPayload` of the endpoint is open to everybody, so a delivery that stays
  possible is made. Nothing is assumed of users, owners or guardians. The property
  is not claimed while the executor does not trust the sender.
- `CatchesUp`: somebody fetches to the head again and again (the tool is run by hand
  or on a schedule), and although any command may be killed, scanning a chunk and
  verifying do not fail every time they are tried: strong fairness, since `Stop`
  interrupts them. Writing files goes on unless the command is killed, and the chain
  goes on up to its bound.
- `DeploymentCompletes`: what was sent is mined, a running script goes on, what was
  printed is proposed and executed, and the operator starts each needed script again
  and again (strong fairness, as only one runs at a time). No order of the scripts
  is assumed.

## 4. Proofs

All theorems hold for every value of the constants under the named assumptions
in the modules (`TimelockAssumption`, `GovernorAssumption`, ...), which TLC
evaluates in every run: sets of accounts and actions of any size, any histories,
delays and bounds. What the assumptions ask beyond the types of the constants is
what the contracts enforce or the deployment sets: limits are finitely many
(`uint256`), a batch of permissions is not empty (`PERMISSION_BATCH_SIZE`), the names that
`Deployment` gives to scripts and contracts are not names of its accounts, a configuration that is active names a steward, an update that a
publisher drafts has a key. `BridgeAssumption` only repeats the assumptions of sender
and executor for their composition. `AdminIsAlwaysNamed`, `WindowsAreAlwaysReal` and
the theorems of type correctness state what no run needs to check any more.

*`TimelockProofs`.* `NoReplay` is not inductive: nothing records what ran. The
invariant adds that executed transactions have an eta in the past and queued
ones were queued with the delay before theirs; the delay is never zero, so no
transaction can be queued again once its eta is past. `AdminWasNamedByTransaction`
needs the same of the pending admin.

*`GovernorBravoProofs`.* The inductive invariant is built in layers, each proved
with the ones before it as assumptions:

1. `TypeOK`, whose delicate part is that no proposal's actions move a delay out
   of bounds;
2. `Foundation`: who controls the timelocks after `_initiate` (`GovernorControlsTimelocks`),
   that every configuration has a voting period, ids and counts. The accounts that proposals
   named (`NamedAdmins`) only grow, and an account that calls a timelock is or becomes its
   admin, so the timelocks that the governor administers are untouched (`TimelockSteps`);
3. `Records`: what the record of one proposal says about itself (an executed one
   has an eta, a finished vote, a quorum, the times of `history`);
4. `Latest`: every proposal but its proposer's latest is over;
5. `Queues`: orphans, twins and backing together, because a step that removes a
   transaction for one proposal is harmless only if no other owns it. Orphans and backing
   are about the timelocks the governor administers; one that is handed on never comes
   back, since `_initiate` is the only place where the governor accepts one.

From them follow `TypeCorrect`, `ControlsTimelocks`, `OnlyApprovedExecutes`,
`ExecutionAlwaysWaits`, `WindowsAreAlwaysReal`, `OneLiveProposal`, `NoOrphans`,
`ExclusiveUnlessTwin` and `BackedUnlessTwin`; and two theorems about steps. `TermsStay`:
a proposal keeps its terms, and a result that is final stays. `ImplementsLifecycle`: the
governor implements `ProposalLifecycle`. A call moves the state of at most one proposal,
along an edge of the lifecycle, while the passing of time moves any number of them
together; `Records` is what rules the other edges out.

*`OmnichainProposalSenderProofs`.* `SentOnce` is inductive together with
`Stored`: ids are at most `proposalCount`, and a stored execution is the only one
of its id, so the id a retry sends was never sent. `AlwaysFunded` and `AlwaysTwoLimits`
are about sums. The facts about sums that they need (a part and the rest make the
whole, an element more adds its value) are proved by looking at the least set that
contradicts them, because the induction theorems of the library are out of reach.
`Funded` adds to `StoredIsFunded` that the stored executions are finitely many. For the
daily limits, `Paced` relates the window of each chain to the messages that were sent:
what was sent since it opened is at most what it has counted, what was sent in the day
before is at most the highest limit there can be, and nothing was sent after its day. So
a day meets two windows at most, with at most that limit each.

*`OmnichainGovernanceExecutorProofs`.* `ExecutionWaited` needs only that flags,
etas and history tell the same story (`FlagsAgree`, `EtasAndTimes`) and that no
execution moves a delay out of its bounds (`TypeOK`). `QueuedIsBacked` and
`NoOrphanTransactions` are inductive only together, and only with `NothingShared`: two
queued proposals have no transaction in common in the timelock that both are in, unless
one that `addTimelocks` moved away took it along before the second came. Otherwise the
end of the one would take what backs the other. The executor refuses to queue a
transaction twice, which gives `NothingShared` as long as its queue is what the
proposals say; a proposal left behind in a timelock of another admin is where this
breaks, and why all three speak of timelocks that the executor administers.

*`OmnichainGovernanceProofs`.* The modules about the two ends are instantiated, and
what they prove is used step by step, with the time that both share (`EndsKeep`).
The new part is `CameBySending`: a proposal that the executor has came by a message of
the channel that was received and is not among the failed ones. With `SentOnce` it
gives `NeverLeftOver`, that no second copy waits anywhere, and
`ImplementsRemoteProposal`: with one copy, each call moves at most one proposal, by a
step of `RemoteProposal`.

*`RiskStewardSystemProofs`.* Four parts.

1. The destination alone. `DestinationSpec`, as the instance `Remote` of the system has it,
   puts the receiver into an environment that sends any updates and lets time pass.
   `DestinationKeeps` proves both of its properties there, with the invariant `RemoteIInv`.
   `RemotePendingIsLast` makes the check of `_lzReceive` against the last registered update
   enough, and gives `OneByOne`: of two updates of a type and market, one was over when the
   other arrived. Time is what makes it delicate: an update that expires stops blocking
   and must never be pending again. As the delay is never zero, an update is
   applied after it arrived, so order of arrival is order of application, and
   `KeptApart` adds the debounce.
2. The oracle's chain (`LocalInv`). `UnderItsTerms` is inductive with the times that
   each record keeps (`TermsKept`). `Apart` is harder, because what the receiver remembers
   (`lastRegisteredUpdate`, `lastProcessedUpdate`) is not the history it stands for:
   `ProcessedOK` says that the last processed update was applied last, `PendingIsLast`
   that an update can only be pending beside a later registered one if one was forwarded
   between them, and `FollowsLate` that an update registered after another, with none
   forwarded between them, came when the other was over and a debounce after its
   execution. `ResolvedForGood` is about steps, and `LensAlwaysAgrees` about the views of
   the lens: what they answer is what the receiver would do. Where they revert, it needs
   that no such update was ever executed (`NoneWithoutPool`), since no steward applies it.
3. Both chains. `ImplementsDestination`: the system is a
   `DestinationSpec`, because the oracle publishes only `Messages`, each update under its
   own id (`PublishedOK`), and the receiver sends only what was published (`SentOK`). So
   what was proved of the destination alone holds in the system (`OnePending`,
   `ArrivalOrder`). `Announced` is about both chains: `RemoteOK` says that what the
   destination knows is the update the oracle published and was forwarded before it came.
   It survives the steps of the oracle's chain because these never change a published
   update or recall a forwarded one (`Grows`).
4. `ImplementsRiskUpdate`: the system implements `RiskUpdate`. `SystemInv` joins the
   invariants of both chains; a call moves the update it is about, `processUpdate` at most
   one more that it finds expired (`ProcessEndsOne`), each along an edge of `RiskUpdate`,
   and a packet that arrives twice, late or never moves none it should not.

The assumptions are `OracleAssumption`, `ReceiverAssumption` and `RemoteAssumption`, which
is the destination's `DestinationAssumption`.

*`AcmSnapshotProofs`.* Two facts about the tool rest on how runs compose, and have an
invariant each. `Ahead` orders the heights of file, checkpoint and run, which gives
`HeightsOnlyGrow`; `Kept` follows a decoded role through files, registry and the command
under way, which gives `ResolvedAlwaysStays`. `PageFirst` says in which order the outputs
are written, for `OutputsAlwaysFollow`. `SnapshotsAlwaysTrue` is the main result. Its
invariant `Truth` says that each block of the chain is the effect of its call on the one
before (`ChainOK`), that a run's and a checkpoint's blocks were seen as far as they
go, and that file, checkpoint and run are each wrong only where a change was hidden.
Two lemmas carry it: `ReplayIsTrue`, that replaying the events of a chunk on such a
snapshot gives such a snapshot, by looking at the last change of a role in the chunk, and
`BlockIsTrue`, that a chain that grows does not make an old snapshot false. The
second compares two chains, so the definitions that read the chain have twins that take
it as a parameter (`TrueOf` and what it uses). The assumption is `SnapshotAssumption`.

*`DeploymentProofs`.* The scripts first. What they keep is not to be seen from the chain
alone: it depends on what waits to be mined and on how far a script has come. So each of
the three parts of the invariant `IInv` has a conjunct about the chain and the waiting
transactions, and one about the place of the run. TLC checked `IInv` for batches of 1, 2,
3 and 5 before it was proved.

1. `Administration`, for `SomebodyAdministers` (the timelock counts as somebody, also before its
   proposers can reach it). Until the timelock has the role, the
   deployer keeps it, and a renunciation that waits has a grant waiting before it. As
   transactions are mined in order, no kill of `002` and no further run of it turns the
   two round, and nothing takes a granted role from the timelock.
2. `HandOver`, for `GivenAwayReady`. Each setting that `006` has left behind is made, or waits, or
   the executor was given away by an earlier run whose transaction was mined meanwhile
   (`Configured`). The places before the transfer wait for all that was sent, so there the
   settings are made; and an executor that was given away was `Ready`. The
   registry of its owner is treated alike (`Registered`).
3. `Permissions`, for `BatchesSuffice`. The list of batches only grows and no batch changes, and
   the transaction that is waited for is the last one the run sent, so its receipt names
   the index under which its batch is found (`Awaits`), not the length read before. With
   each receipt the list covers one batch more (`Covers`), and `BatchesCover` shows that
   `NumBatches` of them make all groups, for any `BatchSize`.

Where a script does what is one lemma each (`SendsWhat`, `WaitsWhere`, ...), so that the proofs
about a step name the places and not the scripts. The assumptions are `BatchSizePositive` and
`NamesAssumption`.

Then the storage layouts, without any assumption. `BranchOK` says that the files of
a pull request that passed the check are, in the branch, as they were when it was checked, since
a merge that touches them removes it. So the artifact it replaces is the one that was
compared (`UpgradesStayCompatible`), though the sources on the branch may be others by now. It is
about replacements built from the contract that the old artifact names, as the check
compares nothing else.
For `SourcesAlwaysFit`, where the branch has not moved, a network with a deployment is listed, or
in the other list, or a target of its own that fails unless its key is excused. So all that was
deployed on the networks that are not left out in one of these ways was compared; and what the
allowlist excuses though it could be compared fails the check.

*Only model-checked.* The liveness properties (`ArrivesEventually`, `CatchesUp`,
`DeploymentCompletes`), since fairness is beyond the provers. Every other property of the
passing runs is a theorem. That the
definitions written as folds or sums compute what they are meant to for every input
is checked by the runs and not proved, except for the laws of sums above.

## 5. Where code and documentation differ

Each of the two runs below checks one sentence of the documentation, which TLC refutes.

- `GovernorTwinCancel` (a bug): `cancel` accepts a proposal that is canceled already
  and clears its hashes again. If another proposal has queued the same action for
  the same eta meanwhile, it stays Queued but can never execute.
  `BackedUnlessTwinCanceled` shows that, as long as no proposal hands the timelock to another
  admin, this is the only way to lose a transaction.
- `RiskPending`: `lastRegisteredUpdate` is there "to avoid registering multiple
  updates" per type and market. An update for another chain is not checked against
  it but overwrites it, so a local update that is still pending is forgotten, and the
  next local one is registered beside it. Both can be executed, in either order
  and back to back. `ApartUnlessForwarded` shows that a forwarded update is the
  only way to that, and `OnePendingAtDestination` that the destination has no such
  gap.

Others were met while modelling and have no run:

- the governor's overview says that proposals can be canceled before they are queued
  (`GovernorBravoDelegate.sol`:32); `cancel` also takes queued ones;
- a transaction that the old admin left in a timelock waits there under the governor until
  it is stale: no proposal can run it, cancel it or queue it anew for that eta;
- `_initiate` with an old governor that has no proposals takes the timelocks over
  and leaves the governor inactive, for good, since 0 also means "not active";
- `addTimelocks` under a queued proposal of the executor makes it impossible to
  execute or cancel, though the guardian "can cancel any proposal"; `QueuedIsBacked`
  of the executor states what such a swap can and cannot disturb;
- the sender's counter of commands "transferred" also counts refused sends and
  their retries;
- the executor reports a proposal as Queued after its timelock's grace period,
  when it can no longer be executed;
- the executor accepts a proposal without actions, which nothing holds back: `execute`
  asks no timelock, so it neither waits nor becomes stale. `ExecutionWaited` is about the
  others.

And in the programs around the contracts:

- `addTimelocks` is registered with the executor's owner as
  `addTimelocks(ITimelock[])` (`helpers/deploy/deploymentConfig.ts`:54), whose selector
  no call has; the permissions of `deploy/007-initial-configuration-multichain-governance.ts`:18
  spell it `addTimelocks(address[])`, which is not registered. So the fallback of
  `OmnichainExecutorOwner` refuses the call that `tests/Cross-chain/Omnichain.ts`:397 shows to
  work. `Deployment` keeps the two spellings apart;
- `deploy/011-deploy-governor-bravo.ts`:21 compares a promise with the deployer, and so
  never sets the implementation;
- `002` asks for the `NormalTimelock` that `005` deploys, so it fails on the first run,
  and after the deployer renounced it fails on every run; both are harmless
  (`DeploymentCompletes`);
- the commands that `006` prints may be proposed before the timelock administers the
  manager, and fail;
- `014` skips the opBNB, Optimism and Unichain networks, so `007` silently skips them, too;
- `getArgTypesFromSignature` (`helpers/utils.ts`:50) answers `[""]` for every signature;
- the snapshot tool verifies a diff at the snapshot's block (`cli.ts`:148), its
  `DESIGN.md`:437 says at the head;
- the storage layout check takes the key of a name that matches nothing to be "outside the
  allowlist's namespace" (`scripts/checkStorageLayout.ts`:177), yet `verdictFor` (:290) excuses whatever
  cannot be compared and has its key in the allowlist, `DELEGATOR_IMPLS/...` and `NETWORKS/...`
  included, and such an entry is not stale (:313). So a network can be left unchecked by an entry of
  the allowlist, too; `SourcesFitDeployments` has that as an exception;
- a `verify` that finds mismatches stamps the snapshot as verified (`cli.ts`:228), while
  `DESIGN.md`:489 says that it clears the stamp;
- the record of signatures used for decoding "is never lost" (`core/registry.ts`:65),
  unless `build-registry` is killed between `cli.ts`:69 and :77;
- `fetch --to` with a block beyond the head saves a snapshot of that block, and the
  next fetch starts after it: `SnapshotsAreTrue` counts what was mined meanwhile among the
  hidden changes.

## 6. Not modelled, and plan

Left out of modelled parts:

- of the snapshot tool: several commands on one network at once, the `filter` command, names,
  transaction lists, the stamp of verification, reorganisations of the chain;
- of the storage layout check: reordered enum members and structs, which the library it
  calls compares; an artifact that is deleted and added again counts as new in the
  script and is not followed by the properties, and neither is one that is replaced
  by the deployment of another contract, which the script compares with the sources of the old one only;
- of the deployment: removing batchers, `addBatch` with an expected index, proxies and
  their admins, a guardian that defaults to the deployer for networks without one;
- of `OmnichainExecutorOwner`: `setTrustedRemoteAddress` and `transferBridgeOwnership` as
  calls of their own, and removing a signature. In `OmnichainGovernanceExecutor` its calls
  come at any time;
- of the governor: the sweep of getters, `_setImplementation`.

Next: `OmnichainExecutorOwner` in front of the executor, with what its registry and the
manager refuse, so that the owner's calls no longer come at any time.

Out of scope: `GovernorBravoDelegator` (a proxy; a new implementation is another
program), the vendored `SafeMath`, the older governors and aggregator in `contracts/legacy`,
mocks, `deploy/000` and `001` (doubles of contracts that exist on the chains `Deployment`
starts from), the lists of `helpers/permissions.ts` and `hardhat.config.ts`, in which
nothing changes state, and the package manager vendored in `.yarn`.
