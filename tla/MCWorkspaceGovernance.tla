------------------------ MODULE MCWorkspaceGovernance ------------------------
(* Instances of WorkspaceGovernance for TLC: the values are in the configurations. *)
EXTENDS WorkspaceGovernance
=============================================================================
