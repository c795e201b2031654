---------------------------- MODULE MCAuditLog ----------------------------
(* Two processes on one log file and three entries: enough for two deferred *)
(* transactions to collide, for a verification to meet a commit, and for an  *)
(* append to follow damage in the middle or at the end.                      *)
EXTENDS AuditLog
=============================================================================
