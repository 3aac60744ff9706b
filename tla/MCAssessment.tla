----------------------------- MODULE MCAssessment -----------------------------
(* Small instances of Assessment: its constants are numbers. *)
EXTENDS Assessment
=============================================================================
