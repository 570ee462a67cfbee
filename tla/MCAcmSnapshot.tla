----------------------------- MODULE MCAcmSnapshot -----------------------------
EXTENDS AcmSnapshot

MCOps == {"giveCallPermission", "revokeCallPermission", "grantRole", "revokeRole"}

(* The old manager announces a role only, however it was granted: calls by     *)
(* permission show the tool nothing that calls by role do not. What is known   *)
(* of signatures does not matter for the current one.                          *)
WhatMatters ==
    /\ legacy => \A b \in 1..Tip : blocks[b].call.op \notin PermissionCalls
    /\ ~legacy => generated = {}
=============================================================================
