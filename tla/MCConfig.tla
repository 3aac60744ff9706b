------------------------------ MODULE MCConfig ------------------------------
(* Files over two ids, each a scenario and a journey, and a third id. *)
EXTENDS Config

Refs == {"scenarios", "journeys"} \X {"a", "b"} \union {<<"scenarios", "c">>, <<"journeys", "d">>}

TwoNames == {"broad", "fine"}
ThreeSeeds == {1, 2, 3}
=============================================================================
