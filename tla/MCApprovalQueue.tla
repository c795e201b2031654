-------------------------- MODULE MCApprovalQueue --------------------------
(* A small instance of ApprovalQueue: concurrent asks, two racing cockpits. *)
EXTENDS ApprovalQueue

CONSTANTS r1, r2, c1, c2

MCRequests == {r1, r2}
MCCockpits == {c1, c2}
=============================================================================
