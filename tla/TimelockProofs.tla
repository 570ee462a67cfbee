--------------------------- MODULE TimelockProofs ---------------------------
(***************************************************************************)
(* What Timelock keeps for every set of accounts and actions, every delay  *)
(* and every time bound.                                                   *)
(***************************************************************************)
EXTENDS Timelock, TLAPS

(* Executed transactions are of the past, queued ones were queued with       *)
(* notice: the eta separates the two, since the delay is never zero.         *)
IInv ==
    /\ TypeOK
    /\ \A tx \in executed : tx.eta <= now
    /\ QueuedWithNotice
    /\ NoReplay

USE DEF TimelockType, Times, Txs

LEMMA InitIInv == Init => IInv
BY TimelockAssumption, StandaloneAssumption
   DEF Init, IInv, TypeOK, NewTimelock, QueuedWithNotice, NoReplay

LEMMA QueueIInv ==
    ASSUME IInv, NEW caller \in Accounts, NEW tx \in Txs, QueueTransaction(caller, tx)
    PROVE  IInv'
<1>1. tx.eta >= now + tl.delay
  BY DEF QueueTransaction, MayQueue, MayQueueV8
<1>2. tl.delay \in Nat /\ tl.delay >= MINIMUM_DELAY /\ now \in Nat /\ tx.eta \in Nat
  <2>1. tl.delay \in MINIMUM_DELAY .. MAXIMUM_DELAY /\ now \in Times
    BY DEF IInv, TypeOK
  <2>2. tx.eta \in Nat
    BY StandaloneAssumption
  <2> QED BY <2>1, <2>2, TimelockAssumption, StandaloneAssumption
<1>3. tx \notin executed
  BY <1>1, <1>2, TimelockAssumption DEF IInv
<1>4. tl' = [tl EXCEPT !.queuedTransactions = @ \cup {tx}] /\ UNCHANGED <<strict, now, executed>>
      /\ queuedAt' = [queuedAt EXCEPT ![tx] = now]
  BY DEF QueueTransaction, WithQueued
<1>5. TypeOK'
  BY <1>4 DEF IInv, TypeOK
<1>6. QueuedWithNotice'
  <2> SUFFICES ASSUME NEW t \in tl'.queuedTransactions \cup executed'
               PROVE  0 < queuedAt'[t] /\ queuedAt'[t] + MINIMUM_DELAY <= t.eta
    BY DEF QueuedWithNotice
  <2>1. CASE t = tx
    <3>1. queuedAt'[t] = now
      BY <2>1, <1>4 DEF IInv, TypeOK
    <3>2. 0 < now
      BY StandaloneAssumption DEF IInv, TypeOK
    <3> QED BY <2>1, <3>1, <3>2, <1>1, <1>2, TimelockAssumption
  <2>2. CASE t # tx
    BY <2>2, <1>4 DEF IInv, TypeOK, QueuedWithNotice
  <2> QED BY <2>1, <2>2
<1>7. NoReplay'
  BY <1>3, <1>4 DEF IInv, NoReplay, TypeOK
<1> QED BY <1>4, <1>5, <1>6, <1>7 DEF IInv

LEMMA CancelIInv ==
    ASSUME IInv, NEW caller \in Accounts, NEW tx \in Txs, CancelTransaction(caller, tx)
    PROVE  IInv'
<1>1. tl' = [tl EXCEPT !.queuedTransactions = @ \ {tx}]
      /\ UNCHANGED <<strict, now, executed, queuedAt>>
  BY DEF CancelTransaction, WithoutQueued
<1> QED BY <1>1 DEF IInv, TypeOK, QueuedWithNotice, NoReplay

LEMMA ExecuteIInv ==
    ASSUME IInv, NEW caller \in Accounts, NEW tx \in Txs, ExecuteTransaction(caller, tx)
    PROVE  IInv'
<1>1. tx \in tl.queuedTransactions /\ now >= tx.eta
  BY DEF ExecuteTransaction, MayExecute
<1>2. executed' = executed \cup {tx} /\ UNCHANGED <<strict, now, queuedAt>>
  BY DEF ExecuteTransaction
<1>3. tl'.queuedTransactions = tl.queuedTransactions \ {tx}
  BY DEF ExecuteTransaction, AfterCall, WithoutQueued, WithDelay, WithPendingAdmin, IInv, TypeOK
<1>4. tl' \in TimelockType(Accounts, Txs)
  <2>1. tl \in TimelockType(Accounts, Txs) /\ tx.action \in Actions
    BY DEF IInv, TypeOK
  <2>2. CASE DelayCalls[tx.action] # 0
    <3>1. DelayCalls[tx.action] \in MINIMUM_DELAY .. MAXIMUM_DELAY
      BY <2>1, <2>2, TimelockAssumption, StandaloneAssumption
         DEF ExecuteTransaction, ValidDelay
    <3> QED BY <2>1, <2>2, <3>1 DEF ExecuteTransaction, AfterCall, WithoutQueued, WithDelay
  <2>3. CASE DelayCalls[tx.action] = 0
    BY <2>1, <2>3, StandaloneAssumption
       DEF ExecuteTransaction, AfterCall, WithoutQueued, WithPendingAdmin
  <2> QED BY <2>2, <2>3
<1>5. TypeOK'
  BY <1>2, <1>4 DEF IInv, TypeOK
<1> QED
  BY <1>1, <1>2, <1>3, <1>5 DEF IInv, QueuedWithNotice, NoReplay, TypeOK

LEMMA NextIInv == IInv /\ [Next]_vars => IInv'
<1> SUFFICES ASSUME IInv, [Next]_vars PROVE IInv'
  OBVIOUS
<1>1. ASSUME NEW caller \in Accounts, NEW account \in Accounts,
             SetPendingAdmin(caller, account)
      PROVE  IInv'
  BY <1>1 DEF SetPendingAdmin, WithPendingAdmin, IInv, TypeOK, QueuedWithNotice, NoReplay
<1>2. ASSUME NEW caller \in Accounts, AcceptAdmin(caller) PROVE IInv'
  BY <1>2 DEF AcceptAdmin, WithAcceptedAdmin, IInv, TypeOK, QueuedWithNotice, NoReplay
<1>3. ASSUME NEW seconds \in TimeSteps, Tick(seconds) PROVE IInv'
  <2>1. now' \in Times /\ now <= now' /\ now \in Nat /\ now' \in Nat
    BY <1>3, StandaloneAssumption DEF Tick, IInv, TypeOK
  <2>2. UNCHANGED <<strict, tl, executed, queuedAt>>
    BY <1>3 DEF Tick
  <2>3. \A tx \in executed' : tx.eta <= now'
    <3> SUFFICES ASSUME NEW tx \in executed PROVE tx.eta <= now'
      BY <2>2
    <3>1. tx.eta <= now
      BY DEF IInv
    <3>2. tx.eta \in Nat
      BY StandaloneAssumption DEF IInv, TypeOK
    <3> QED BY <2>1, <3>1, <3>2
  <2> QED BY <2>1, <2>2, <2>3 DEF IInv, TypeOK, QueuedWithNotice, NoReplay
<1>4. CASE UNCHANGED vars
  BY <1>4 DEF vars, IInv, TypeOK, QueuedWithNotice, NoReplay
<1> QED
  BY <1>1, <1>2, <1>3, <1>4, QueueIInv, CancelIInv, ExecuteIInv DEF Next

(* Timelock.sol, TimelockV8.sol: every reachable state of a timelock is well *)
(* typed, its delay in bounds included.                                      *)
THEOREM TypeCorrect == Spec => []TypeOK
<1>1. IInv => TypeOK
  BY DEF IInv
<1> QED BY <1>1, InitIInv, NextIInv, PTL DEF Spec

(* executeTransaction never runs a transaction that ran before, although the *)
(* contracts keep no record of what ran.                                     *)
THEOREM NeverReplays == Spec => []NoReplay
<1>1. IInv => NoReplay
  BY DEF IInv
<1> QED BY <1>1, InitIInv, NextIInv, PTL DEF Spec

(* Every transaction is queued at least MINIMUM_DELAY before its eta.        *)
THEOREM AlwaysGivesNotice == Spec => []QueuedWithNotice
<1>1. IInv => QueuedWithNotice
  BY DEF IInv
<1> QED BY <1>1, InitIInv, NextIInv, PTL DEF Spec

-----------------------------------------------------------------------------
(* In Timelock.sol an account is pending only if a transaction named it: the *)
(* part of the invariant that makes AdminWasNamedByTransaction inductive.    *)
PendingWasNamed ==
    ~strict /\ tl.pendingAdmin # ZeroAddress
        => \E tx \in executed : AdminCalls[tx.action] = tl.pendingAdmin

Named == TypeOK /\ PendingWasNamed /\ AdminWasNamedByTransaction

LEMMA NextNamed == Named /\ TypeOK' /\ [Next]_vars => Named'
<1> SUFFICES ASSUME Named, TypeOK', [Next]_vars PROVE Named'
  OBVIOUS
<1> USE DEF Named, PendingWasNamed, AdminWasNamedByTransaction
<1>1. ASSUME NEW caller \in Accounts, NEW tx \in Txs, QueueTransaction(caller, tx)
      PROVE  Named'
  BY <1>1 DEF QueueTransaction, WithQueued, TypeOK
<1>2. ASSUME NEW caller \in Accounts, NEW tx \in Txs, CancelTransaction(caller, tx)
      PROVE  Named'
  BY <1>2 DEF CancelTransaction, WithoutQueued, TypeOK
<1>3. ASSUME NEW caller \in Accounts, NEW tx \in Txs, ExecuteTransaction(caller, tx)
      PROVE  Named'
  <2>1. executed' = executed \cup {tx} /\ strict' = strict
    BY <1>3 DEF ExecuteTransaction
  <2>2. tl'.admin = tl.admin
    BY <1>3 DEF ExecuteTransaction, AfterCall, WithoutQueued, WithDelay, WithPendingAdmin,
                TypeOK
  <2>3. tl'.pendingAdmin \in {tl.pendingAdmin, AdminCalls[tx.action]}
    BY <1>3 DEF ExecuteTransaction, AfterCall, WithoutQueued, WithDelay, WithPendingAdmin,
                TypeOK
  <2> QED BY <2>1, <2>2, <2>3
<1>4. ASSUME NEW caller \in Accounts, NEW account \in Accounts,
             SetPendingAdmin(caller, account)
      PROVE  Named'
  BY <1>4 DEF SetPendingAdmin
<1>5. ASSUME NEW caller \in Accounts, AcceptAdmin(caller) PROVE Named'
  BY <1>5, StandaloneAssumption DEF AcceptAdmin, MayAcceptAdmin, WithAcceptedAdmin, TypeOK
<1>6. ASSUME NEW seconds \in TimeSteps, Tick(seconds) PROVE Named'
  BY <1>6 DEF Tick
<1>7. CASE UNCHANGED vars
  BY <1>7 DEF vars
<1> QED BY <1>1, <1>2, <1>3, <1>4, <1>5, <1>6, <1>7 DEF Next

(* Timelock.sol: nobody administers a timelock without having been named by  *)
(* a transaction that waited in it.                                          *)
THEOREM AdminIsAlwaysNamed == Spec => []AdminWasNamedByTransaction
<1>1. Init => Named
  BY InitIInv DEF Init, IInv, NewTimelock, Named, PendingWasNamed, AdminWasNamedByTransaction
<1>2. Named => AdminWasNamedByTransaction
  BY DEF Named
<1> QED BY <1>1, <1>2, NextNamed, TypeCorrect, PTL DEF Spec
=============================================================================
