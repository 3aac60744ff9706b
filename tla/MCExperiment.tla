---------------------------- MODULE MCExperiment ----------------------------
(* Small instances of Experiment: the values of its constants. *)
EXTENDS Experiment

CONSTANTS b, c

MCCandidates == {b, c}

(* One case of five repetitions: two right, all right. *)
Two ==
    {[succ |-> 2, p3 |-> 0, p5 |-> 0, hard |-> 0],
     [succ |-> 5, p3 |-> 1, p5 |-> 1, hard |-> 0]}

ASSUME Two \subseteq Realizable(ValidationCases, Repetitions)
ASSUME ValidationCases = HoldoutCases
=============================================================================
