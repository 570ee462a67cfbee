---------------------------- MODULE MCDeployment ----------------------------
(* Both chains, with the permissions of two groups in a batch.                 *)
EXTENDS Deployment
=============================================================================
