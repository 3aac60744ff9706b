------------------------------ MODULE MCWorker ------------------------------
(* A worker with two descendants. *)
EXTENDS Worker

CONSTANTS c1, c2

TwoChildren == {c1, c2}
=============================================================================
