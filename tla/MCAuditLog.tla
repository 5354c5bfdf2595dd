----------------------------- MODULE MCAuditLog -----------------------------
(* The handlers with their audit log, for TLC.                             *)
EXTENDS AuditLog
=============================================================================
