---------------------------- MODULE MCDeployment ----------------------------
(***************************************************************************)
(* An instance of the deployment for TLC: one container that migrates and  *)
(* serves two callers, one that does not migrate, and a job beside them.   *)
(***************************************************************************)
EXTENDS Deployment

CONSTANTS api, direct, job, d1, d2

MCHome == [d \in {d1, d2} |-> api]
=============================================================================
