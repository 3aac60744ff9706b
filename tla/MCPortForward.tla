---------------------------- MODULE MCPortForward ----------------------------
(* Small instances of PortForward: its constants are numbers. *)
EXTENDS PortForward
=============================================================================
