----------------------------- MODULE TimelockOps -----------------------------
(***************************************************************************)
(* What one call does to one timelock, as operators on a timelock record.  *)
(* Timelock.sol (the three timelocks behind GovernorBravo) and             *)
(* TimelockV8.sol (the timelocks behind OmnichainGovernanceExecutor) keep  *)
(* the same state; V8 refuses to queue a queued transaction and to cancel  *)
(* one that is not queued.                                                 *)
(*                                                                         *)
(* A transaction is the record of an action, which stands for the tuple    *)
(* (target, value, signature, data), and of the eta it is queued for: the  *)
(* keccak256 hash of the five is taken to be injective.                    *)
(***************************************************************************)
EXTENDS Naturals

CONSTANTS
    GRACE_PERIOD,    \* how long after its eta a transaction can be executed
    MINIMUM_DELAY,   \* the shortest delay a timelock accepts
    MAXIMUM_DELAY,   \* the longest one
    ZeroAddress      \* address(0), which no caller has

ASSUME TimelockAssumption ==
    /\ GRACE_PERIOD \in Nat \ {0}
    /\ MINIMUM_DELAY \in Nat \ {0}
    /\ MAXIMUM_DELAY \in Nat
    /\ MINIMUM_DELAY <= MAXIMUM_DELAY

Tx(action, eta) == [action |-> action, eta |-> eta]

(* The timelocks whose transactions are drawn from txs. *)
TimelockType(addresses, txs) ==
    [admin : addresses,
     pendingAdmin : addresses \cup {ZeroAddress},
     delay : MINIMUM_DELAY .. MAXIMUM_DELAY,
     queuedTransactions : SUBSET txs]

ValidDelay(delay) == MINIMUM_DELAY <= delay /\ delay <= MAXIMUM_DELAY

(* constructor: the deployer names the admin, nobody is pending. *)
NewTimelock(admin, delay) ==
    [admin |-> admin, pendingAdmin |-> ZeroAddress, delay |-> delay,
     queuedTransactions |-> {}]

-----------------------------------------------------------------------------
(* queueTransaction *)

(* Mutant: the eta need not satisfy the delay. *)
MayQueueAtOnce(tl, caller, tx, time) == caller = tl.admin /\ tx.eta >= time

MayQueue(tl, caller, tx, time) ==
    /\ caller = tl.admin
    /\ tx.eta >= time + tl.delay

MayQueueV8(tl, caller, tx, time) ==
    MayQueue(tl, caller, tx, time) /\ tx \notin tl.queuedTransactions

WithQueued(tl, txs) ==
    [tl EXCEPT !.queuedTransactions = @ \cup txs]

-----------------------------------------------------------------------------
(* cancelTransaction *)

MayCancel(tl, caller) == caller = tl.admin

MayCancelV8(tl, caller, tx) ==
    MayCancel(tl, caller) /\ tx \in tl.queuedTransactions

(* Mutant: the hash is not deleted. *)
StillQueued(tl, txs) == tl

WithoutQueued(tl, txs) ==
    [tl EXCEPT !.queuedTransactions = @ \ txs]

-----------------------------------------------------------------------------
(* executeTransaction, up to the call it makes *)

NotStale(tx, time) == time <= tx.eta + GRACE_PERIOD

(* Mutant: the eta need not have come. *)
MayExecuteEarly(tl, caller, tx, time) ==
    /\ caller = tl.admin
    /\ tx \in tl.queuedTransactions
    /\ NotStale(tx, time)

MayExecute(tl, caller, tx, time) ==
    /\ caller = tl.admin
    /\ tx \in tl.queuedTransactions
    /\ time >= tx.eta
    /\ NotStale(tx, time)

-----------------------------------------------------------------------------
(* setDelay, setPendingAdmin and acceptAdmin *)

WithDelay(tl, delay) == [tl EXCEPT !.delay = delay]

WithPendingAdmin(tl, account) == [tl EXCEPT !.pendingAdmin = account]

MayAcceptAdmin(tl, caller) == caller = tl.pendingAdmin

WithAcceptedAdmin(tl, caller) ==
    [tl EXCEPT !.admin = caller, !.pendingAdmin = ZeroAddress]
=============================================================================
