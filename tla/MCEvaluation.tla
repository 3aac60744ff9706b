---------------------------- MODULE MCEvaluation ----------------------------
(* A small instance of Evaluation. *)
EXTENDS Evaluation

(* No prompt differs from another but by its name. *)
AnyPrompt == Permutations(Prompts)
=============================================================================
