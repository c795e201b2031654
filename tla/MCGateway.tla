----------------------------- MODULE MCGateway -----------------------------
(* Three concurrent calls: an ordinary one, a critical one, and one that    *)
(* modifies Guardian's own files.                                           *)
EXTENDS Gateway

CONSTANTS read, pay, own

MCCalls == {read, pay, own}
MCCritical == {pay}
MCOwnFile == {own}
=============================================================================
