------------------------- MODULE AccessControlManager -------------------------
(* What the calls of the access control manager do, as operators on the set    *)
(* of its grants: pairs of a role and the account that has it. A role is       *)
(* DEFAULT_ADMIN_ROLE or the hash of a contract and a signature. The manager   *)
(* never sets another admin of a role, so DEFAULT_ADMIN_ROLE administers all.  *)

CONSTANTS DEFAULT_ADMIN_ROLE,     \* administers every role, itself included
          AnyContract             \* address(0): a grant for all contracts

CallRole(contract, functionSig) == <<contract, functionSig>>

HasRole(grants, role, account) == <<role, account>> \in grants

HasPermission(grants, account, contract, functionSig) ==
    HasRole(grants, CallRole(contract, functionSig), account)

(* Asked by the contract itself: it or any contract may be named by the grant. *)
IsAllowedToCall(grants, contract, account, functionSig) ==
    \/ HasPermission(grants, account, contract, functionSig)
    \/ HasPermission(grants, account, AnyContract, functionSig)

MayGrant(grants, caller) == HasRole(grants, DEFAULT_ADMIN_ROLE, caller)

GrantCalls  == {"giveCallPermission", "grantRole"}
RevokeCalls == {"revokeCallPermission", "revokeRole", "renounceRole"}

(* The calls by permission differ from the calls by role in their events only. *)
PermissionCalls == {"giveCallPermission", "revokeCallPermission"}

Effect(grants, call) ==
    IF call.op \in GrantCalls THEN grants \cup {<<call.role, call.account>>}
                              ELSE grants \ {<<call.role, call.account>>}
=============================================================================
