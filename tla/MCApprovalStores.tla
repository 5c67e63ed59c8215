-------------------------- MODULE MCApprovalStores --------------------------
(* TLC instances of ApprovalStores. *)
EXTENDS ApprovalStores, TLC
=============================================================================
