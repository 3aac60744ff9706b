--------------------------- MODULE MCPromptSearch ---------------------------
(* Small instances of PromptSearch: the values of its constants. *)
EXTENDS PromptSearch

CONSTANTS b, c

MCCandidates == {b, c}

(* The first stage has room for an iteration after a complete one. *)
MCAttemptCalls == [i \in 1..NAttempts |-> IF i = 1 THEN 10 ELSE 8]

(* One validation case of five repetitions: all wrong, all wrong and       *)
(* unsafe, three wrong, all right.                                         *)
MCVerdicts ==
    {[succ |-> 0, p3 |-> 0, p5 |-> 0, hard |-> 0],
     [succ |-> 0, p3 |-> 0, p5 |-> 0, hard |-> 1],
     [succ |-> 2, p3 |-> 0, p5 |-> 0, hard |-> 0],
     [succ |-> 5, p3 |-> 1, p5 |-> 1, hard |-> 0]}

ASSUME MCVerdicts \subseteq Realizable(ValidationCases, Repetitions)

(* load_experiment: total_metric_calls covers all configured stages. *)
ASSUME NAttempts * 8 + 2 <= SearchLimit
=============================================================================
