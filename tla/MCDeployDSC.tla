------------------------------ MODULE MCDeployDSC ------------------------------
(* DeployDSC for TLC. *)
EXTENDS DeployDSC
=============================================================================
