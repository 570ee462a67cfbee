------------------------------ MODULE Timelock ------------------------------
(***************************************************************************)
(* One timelock on its own: Timelock.sol, or TimelockV8.sol if strict.     *)
(* Any account may call it; only the admin is listened to, and setDelay    *)
(* and, in Timelock.sol, setPendingAdmin only answer calls the timelock    *)
(* makes to itself by executing a transaction.  What any other transaction *)
(* calls is outside the timelock.                                          *)
(***************************************************************************)
EXTENDS TimelockOps

CONSTANTS
    Accounts,
    Deployer,          \* the admin given to the constructor
    Actions,           \* (target, value, signature, data) tuples
    DelayCalls,        \* Actions -> Nat: d # 0 for a call of its own setDelay(d)
    AdminCalls,        \* Actions -> the argument of a call of its own
                       \* setPendingAdmin, ZeroAddress for every other action
    InitialDelay,
    Etas,              \* the etas transactions are queued for
    TimeSteps,         \* seconds between two blocks
    MaxTime            \* bound of the model

ASSUME StandaloneAssumption ==
    /\ ZeroAddress \notin Accounts
    /\ Deployer \in Accounts
    /\ DelayCalls \in [Actions -> Nat]
    /\ AdminCalls \in [Actions -> Accounts \cup {ZeroAddress}]
    /\ InitialDelay \in MINIMUM_DELAY .. MAXIMUM_DELAY
    /\ Etas \subseteq Nat
    /\ TimeSteps \subseteq Nat
    /\ MaxTime \in Nat \ {0}

VARIABLES
    strict,      \* which of the two contracts it is, never changed
    tl,          \* the timelock
    now,         \* block.timestamp
    executed,    \* history variable: the transactions that were executed
    queuedAt     \* history variable: when a transaction was last queued

vars == <<strict, tl, now, executed, queuedAt>>

Times == 1 .. MaxTime
Txs == [action : Actions, eta : Etas]

Init ==
    /\ strict \in BOOLEAN
    /\ tl = NewTimelock(Deployer, InitialDelay)
    /\ now = 1
    /\ executed = {}
    /\ queuedAt = [tx \in Txs |-> 0]

QueueTransaction(caller, tx) ==
    /\ IF strict THEN MayQueueV8(tl, caller, tx, now) ELSE MayQueue(tl, caller, tx, now)
    /\ tl' = WithQueued(tl, {tx})
    /\ queuedAt' = [queuedAt EXCEPT ![tx] = now]
    /\ UNCHANGED <<strict, now, executed>>

CancelTransaction(caller, tx) ==
    /\ IF strict THEN MayCancelV8(tl, caller, tx) ELSE MayCancel(tl, caller)
    /\ tl' = WithoutQueued(tl, {tx})
    /\ UNCHANGED <<strict, now, executed, queuedAt>>

(* What the call a transaction makes does to the timelock itself.  A delay   *)
(* out of bounds makes the call, and so the whole execution, revert.         *)
AfterCall(before, action) ==
    IF DelayCalls[action] # 0 THEN WithDelay(before, DelayCalls[action])
    ELSE IF AdminCalls[action] # ZeroAddress
    THEN WithPendingAdmin(before, AdminCalls[action])
    ELSE before

ExecuteTransaction(caller, tx) ==
    /\ MayExecute(tl, caller, tx, now)
    /\ DelayCalls[tx.action] # 0 => ValidDelay(DelayCalls[tx.action])
    /\ tl' = AfterCall(WithoutQueued(tl, {tx}), tx.action)
    /\ executed' = executed \cup {tx}
    /\ UNCHANGED <<strict, now, queuedAt>>

(* TimelockV8 lets the admin name its successor directly. *)
SetPendingAdmin(caller, account) ==
    /\ strict
    /\ caller = tl.admin
    /\ tl' = WithPendingAdmin(tl, account)
    /\ UNCHANGED <<strict, now, executed, queuedAt>>

AcceptAdmin(caller) ==
    /\ MayAcceptAdmin(tl, caller)
    /\ tl' = WithAcceptedAdmin(tl, caller)
    /\ UNCHANGED <<strict, now, executed, queuedAt>>

Tick(seconds) ==
    /\ now + seconds <= MaxTime
    /\ now' = now + seconds
    /\ UNCHANGED <<strict, tl, executed, queuedAt>>

Next ==
    \/ \E caller \in Accounts, tx \in Txs : QueueTransaction(caller, tx)
    \/ \E caller \in Accounts, tx \in Txs : CancelTransaction(caller, tx)
    \/ \E caller \in Accounts, tx \in Txs : ExecuteTransaction(caller, tx)
    \/ \E caller, account \in Accounts : SetPendingAdmin(caller, account)
    \/ \E caller \in Accounts : AcceptAdmin(caller)
    \/ \E seconds \in TimeSteps : Tick(seconds)

Spec == Init /\ [][Next]_vars

-----------------------------------------------------------------------------
(* Properties *)

TypeOK ==
    /\ strict \in BOOLEAN
    /\ tl \in TimelockType(Accounts, Txs)
    /\ now \in Times
    /\ executed \subseteq Txs
    /\ queuedAt \in [Txs -> 0 .. MaxTime]

(* A transaction that was executed is never queued again, so the same call   *)
(* with the same eta runs at most once.  No record of what ran is kept: it   *)
(* rests on the delay, which stays positive, and on the eta being past.      *)
NoReplay == executed \cap tl.queuedTransactions = {}

(* No transaction can be executed before the shortest delay a timelock       *)
(* accepts has passed since it was queued, however the delay changed since.  *)
QueuedWithNotice ==
    \A tx \in tl.queuedTransactions \cup executed :
        /\ 0 < queuedAt[tx]
        /\ queuedAt[tx] + MINIMUM_DELAY <= tx.eta

(* Whoever came to administer the timelock was named by a transaction that   *)
(* went through it (in TimelockV8.sol, the admin may name its successor).    *)
AdminWasNamedByTransaction ==
    ~strict /\ tl.admin # Deployer => \E tx \in executed : AdminCalls[tx.action] = tl.admin
=============================================================================
