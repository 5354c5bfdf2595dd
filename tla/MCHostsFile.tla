---------------------------- MODULE MCHostsFile ----------------------------
(* A small hosts file for TLC.                                             *)
EXTENDS HostsFile
=============================================================================
