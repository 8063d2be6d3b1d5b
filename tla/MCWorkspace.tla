---------------------------- MODULE MCWorkspace ----------------------------
(* A small instance of Workspace: the service's gateway, one command beside  *)
(* it, and the domain of one relay.                                          *)
EXTENDS Workspace
=============================================================================
