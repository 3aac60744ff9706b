--------------------------- MODULE MCModelSession ---------------------------
(* Small instances of ModelSession: the values of its constants. *)
EXTENDS ModelSession

CONSTANTS s1, s2

Two == {s1, s2}

Both(k) == [s \in Two |-> k]

(* Two sessions on one pool; or one that shares nothing with another. *)
AnyTwo == {Both("pool"), [Both("aks") EXCEPT ![s2] = "loopback"]}

OnePool == {Both("pool")}
=============================================================================
