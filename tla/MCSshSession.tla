----------------------------- MODULE MCSshSession -----------------------------
(* Small instances of SshSession for TLC.  Liveness is checked: no symmetry. *)
EXTENDS SshSession
===============================================================================
