--------------------------- MODULE AbstractSearch ---------------------------
(***************************************************************************)
(* What a search promises the experiment that runs it, whatever happens    *)
(* inside: it spends within the budget, replaces the champion only by a    *)
(* prompt that beats it, and either returns or raises an exception that    *)
(* says why.  PromptSearch implements it; Experiment is built on it.       *)
(***************************************************************************)
EXTENDS Scoring

CONSTANTS
    Candidates, Baseline, Verdicts,   \* prompts, Korvid's own, and what can be measured
    MaxEvaluations, MaxProposals      \* the limits of ExperimentBudget

VARIABLES
    stage,                    \* "running", "done" or "raised"
    failure,                  \* the exception the search raised, or "none"
    expired,                  \* the deadline has passed
    evaluations, proposals,   \* what the budget has charged
    before,                   \* the baseline's verdict
    champion, measured        \* the prompt to keep, and its verdict

budget == <<expired, evaluations, proposals>>

absVars == <<stage, failure, budget, before, champion, measured>>

(* A rejected proposal and the search's own limits end an attempt or the   *)
(* search; they are never raised to the experiment.                        *)
Failures ==
    {"wall_clock", "max_evaluations", "value_error", "bridge", "evidence", "integrity",
     "provider", "model_session"}

Spend ==
    /\ evaluations' \in evaluations..MaxEvaluations
    /\ proposals' \in proposals..MaxProposals

Keep == UNCHANGED <<champion, measured>>

Replace ==
    \E c \in Candidates, v \in Verdicts :
        /\ Improves(c, v, champion, measured)
        /\ champion' = c /\ measured' = v

(* A budget exception is raised only when that budget is gone. *)
Explained(f) ==
    /\ f = "wall_clock" => expired
    /\ f = "max_evaluations" => evaluations = MaxEvaluations

Work ==
    /\ stage = "running" /\ stage' = "running"
    /\ Spend /\ expired' \in {expired, TRUE}
    /\ Keep \/ Replace
    /\ UNCHANGED <<failure, before>>

Return ==
    /\ stage = "running" /\ stage' = "done"
    /\ UNCHANGED <<failure, budget, before, champion, measured>>

Raise ==
    /\ stage = "running" /\ stage' = "raised"
    /\ failure' \in Failures /\ Explained(failure')
    /\ UNCHANGED <<budget, before, champion, measured>>

AbsInit ==
    /\ stage = "running" /\ failure = "none" /\ expired = FALSE
    /\ evaluations \in 0..MaxEvaluations /\ proposals = 0
    /\ before \in Verdicts /\ champion = Baseline /\ measured = before

AbsNext == Work \/ Return \/ Raise

AbsSpec == AbsInit /\ [][AbsNext]_absVars
=============================================================================
