---------------------------- MODULE MCNodeStatus ----------------------------
(* A bounded instance of NodeStatus for TLC. *)
EXTENDS NodeStatus
=============================================================================
