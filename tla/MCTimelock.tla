------------------------------ MODULE MCTimelock ------------------------------
(* Constants of the instances of Timelock that TLC checks. *)
EXTENDS Timelock

CONSTANTS deployer, dao, callOut, raiseDelay, breakDelay, nameDao

(* One action of each kind: an external call, a delay in bounds, a delay out *)
(* of bounds, and naming the next admin.                                     *)
MCDelayCalls == [a \in Actions |->
    CASE a = raiseDelay -> MAXIMUM_DELAY
      [] a = breakDelay -> MAXIMUM_DELAY + 1
      [] OTHER          -> 0]
MCAdminCalls == [a \in Actions |-> IF a = nameDao THEN dao ELSE ZeroAddress]
=============================================================================
