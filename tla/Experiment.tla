----------------------------- MODULE Experiment -----------------------------
(***************************************************************************)
(* One experiment: run_experiment, and command_run around it.              *)
(*                                                                         *)
(* The controller walks through the phases, keeps a summary in memory,     *)
(* writes it to experiment-summary.json at every phase and once more at    *)
(* the end, and turns it into an exit code.  It can fail at every step,    *)
(* and a signal (Ctrl-C, or SIGTERM, which command_run maps to the same    *)
(* KeyboardInterrupt) can arrive between any two steps.  What is on disk   *)
(* at any moment is what a SIGKILL would leave.                            *)
(*                                                                         *)
(* The search is the promise of AbstractSearch, which PromptSearch keeps;  *)
(* the model session is open or not, and its cleanup works or fails.       *)
(*                                                                         *)
(* pc (beside those of BudgetedRunner):                                    *)
(*   config           load_experiment, validate_source                     *)
(*   start            before the try               searching   in _search  *)
(*   preflight,       inside it, before the        exporting,  the export  *)
(*   inspect          session                      composing               *)
(*   opening, recheck the session comes up                                 *)
(*   sealing          the last checks inside it                            *)
(*   closing          the cleanup of the session   finish      the verdict *)
(*   handling         the except clauses           finally     the finally *)
(*   cli              back in command_run          exited      the end     *)
(***************************************************************************)
EXTENDS BudgetedRunner, Scoring

CONSTANTS
    Candidates, Baseline, Verdicts,   \* as in PromptSearch
    ValidationCases, HoldoutCases,    \* how many cases in each split
    Repetitions,                      \* evaluation.repetitions
    Probes,                           \* train cases the tool preflight may use, at most 3
    MaxSignals                        \* bound of the model: signals delivered

ASSUME ExperimentAssumption ==
    /\ Baseline \in Candidates
    /\ Verdicts \subseteq Verdict /\ Verdicts # {}
    /\ ValidationCases \in Nat \ {0} /\ HoldoutCases \in Nat \ {0}
    /\ Repetitions \in Nat /\ Repetitions >= 5
    /\ Probes \in 1..3
    /\ MaxSignals \in Nat

VARIABLES
    before, champion, measured,   \* the initial validation, and what the search selected
    confirm, holdout,             \* <<baseline, champion>>: the frozen validation, the holdout
    summary,                      \* the summary in memory
    disk,                         \* experiment-summary.json
    session,                      \* "none", "open", "closed" or "unclean"
    signals,                      \* how many signals have arrived
    cut,                          \* where the controller stood when the last one did
    exit                          \* the exit code

searchVars  == <<before, champion, measured>>
frozenVars  == <<confirm, holdout>>
reportVars  == <<summary, disk>>
processVars == <<session, signals, cut, exit>>
budgetVars  == <<expired, proposals, runnerVars>>
controlVars == <<pc, task, todo, exc>>
experimentVars == <<searchVars, frozenVars, reportVars, processVars>>
vars == <<controlVars, budgetVars, experimentVars>>

Search == INSTANCE AbstractSearch WITH
    stage   <- IF pc = "searching" THEN "running" ELSE "done",
    failure <- exc

NoVerdict == CHOOSE v \in Verdicts : TRUE

FreshSummary ==
    [phase |-> "preflight", status |-> "RUNNING", completed |-> FALSE, improved |-> FALSE,
     validation |-> FALSE, qualified |-> FALSE, override |-> FALSE, holdoutUsed |-> FALSE]

Evaluate(t, calls) == pc' = "call" /\ task' = t /\ todo' = calls

Assessed(t) == pc = "call" /\ todo = 0 /\ task = t

VerifyThen(t) == pc' = "verify" /\ task' = t

(* _phase: the summary is written as it stands, with its new phase. *)
Phase(changed, name) ==
    /\ summary' = [changed EXCEPT !.phase = name]
    /\ disk' = summary'

---------------------------------------------------------------------------
(* Before the session: the configuration; the artifact root, which must be *)
(* new, and the resolved experiment in it, both before the try; inside it  *)
(* the first write of the summary, and the inspection of the source.       *)

Configure ==
    /\ pc = "config"
    /\ \/ pc' = "start" /\ UNCHANGED exit
       \/ pc' = "exited" /\ exit' = "2"
    /\ UNCHANGED <<task, todo, exc, budgetVars, searchVars, frozenVars, reportVars,
                   session, signals, cut>>

Start ==
    /\ pc = "start"
    /\ \/ pc' = "preflight" /\ UNCHANGED exc
       \/ pc' = "cli" /\ exc' = "unstarted"
    /\ UNCHANGED <<task, todo, budgetVars, experimentVars>>

Preflight ==
    /\ pc = "preflight"
    /\ \/ pc' = "inspect" /\ Phase(summary, "preflight") /\ UNCHANGED exc
       \/ pc' = "handling" /\ exc' = "os_error" /\ UNCHANGED reportVars
    /\ UNCHANGED <<task, todo, budgetVars, searchVars, frozenVars, processVars>>

Inspect ==
    /\ pc = "inspect"
    /\ \/ pc' = "opening" /\ UNCHANGED exc
       \/ pc' = "handling" /\ exc' \in {"bridge", "integrity"}
    /\ UNCHANGED <<task, todo, budgetVars, experimentVars>>

(* model_session up to its yield; if it fails its own finally cleans up. *)
OpenSession ==
    /\ pc = "opening"
    /\ session' = "open"
    /\ \/ pc' = "recheck" /\ UNCHANGED exc
       \/ /\ pc' = "closing"
          /\ exc' \in {"model_session", "permission"} \/ (expired /\ exc' = "wall_clock")
    /\ UNCHANGED <<task, todo, budgetVars, searchVars, frozenVars, reportVars, signals, cut, exit>>

(* The source is inspected again with the live endpoint and compared with  *)
(* the snapshot; the tool preflight follows.                               *)
Recheck ==
    /\ pc = "recheck"
    /\ \/ Evaluate("probe", 1) /\ UNCHANGED exc
       \/ \E e \in {"bridge", "integrity"} : Throw(e) /\ UNCHANGED <<task, todo>>
    /\ UNCHANGED <<budgetVars, experimentVars>>

---------------------------------------------------------------------------
(* The phases inside the session. *)

(* _tool_preflight: one run per train case until a tool call is seen. *)
ProbeReturned ==
    /\ Assessed("probe")
    /\ \/ Evaluate("baseline", ValidationCases * Repetitions)
          /\ Phase(summary, "baseline") /\ UNCHANGED exc
       \/ evaluations < Probes /\ Evaluate("probe", 1) /\ UNCHANGED <<exc, reportVars>>
       \/ evaluations >= Probes /\ Throw("inconclusive") /\ UNCHANGED <<task, todo, reportVars>>
    /\ UNCHANGED <<budgetVars, searchVars, frozenVars, processVars>>

BaselineAssessed ==
    /\ Assessed("baseline")
    /\ pc' = "searching"
    /\ before' \in Verdicts /\ champion' = Baseline /\ measured' = before'
    /\ Phase(summary, "search")
    /\ UNCHANGED <<task, todo, exc, budgetVars, frozenVars, processVars>>

SearchWorks ==
    /\ Goto("searching", "searching")
    /\ Search!Spend /\ (Search!Keep \/ Search!Replace)
    /\ UNCHANGED <<task, todo, exc, expired, searchCalls, searching, before,
                   frozenVars, reportVars, processVars>>

(* The selected prompt goes on only if it is not the baseline. *)
SearchReturns ==
    /\ pc = "searching"
    /\ LET selected == [summary EXCEPT
              !.validation = ImprovesSuccess(champion, measured, Baseline, before)]
       IN  IF champion # Baseline
           THEN VerifyThen("confirm") /\ Phase(selected, "frozen-validation")
           ELSE VerifyThen("final") /\ summary' = selected /\ UNCHANGED disk
    /\ UNCHANGED <<todo, exc, budgetVars, searchVars, frozenVars, processVars>>

SearchRaises ==
    /\ pc = "searching"
    /\ \E f \in Search!Failures : Search!Explained(f) /\ Throw(f)
    /\ UNCHANGED <<task, todo, budgetVars, experimentVars>>

(* The baseline and the champion on fresh seeds of the same cases. *)
Frozen ==
    /\ \/ /\ Verified("call") /\ task = "confirm"
          /\ task' = "confirm_before" /\ todo' = ValidationCases * Repetitions
          /\ UNCHANGED <<confirm, reportVars>>
       \/ /\ Assessed("confirm_before")
          /\ Evaluate("confirm_after", ValidationCases * Repetitions)
          /\ \E v \in Verdicts : confirm' = [confirm EXCEPT ![1] = v]
          /\ UNCHANGED <<exc, budgetVars, reportVars>>
    /\ UNCHANGED <<searchVars, holdout, processVars>>

(* Mutant of OpenHoldout: the phase is not written before the holdout is run. *)
OpenHoldoutUnwritten ==
    /\ Assessed("confirm_after")
    /\ VerifyThen("holdout")
    /\ \E v \in Verdicts : confirm' = [confirm EXCEPT ![2] = v]
    /\ summary' = [summary EXCEPT !.phase = "holdout", !.holdoutUsed = TRUE]
    /\ UNCHANGED <<todo, exc, budgetVars, searchVars, holdout, disk, processVars>>

(* The phase is written, then holdout_used is set in memory. *)
OpenHoldout ==
    /\ Assessed("confirm_after")
    /\ VerifyThen("holdout")
    /\ \E v \in Verdicts : confirm' = [confirm EXCEPT ![2] = v]
    /\ disk' = [summary EXCEPT !.phase = "holdout"]
    /\ summary' = [disk' EXCEPT !.holdoutUsed = TRUE]
    /\ UNCHANGED <<todo, exc, budgetVars, searchVars, holdout, processVars>>

(* summary["prompt_improved"] *)
PromptImproved(validation, frozen, held) ==
    /\ validation
    /\ ImprovesSuccess(champion, frozen[2], Baseline, frozen[1])
    /\ ~CoreRegression(held[2], held[1])
    /\ held[2].hard = 0

(* The holdout, baseline and champion, and what they say together. *)
Holdout ==
    /\ \/ /\ Verified("call") /\ task = "holdout"
          /\ task' = "holdout_before" /\ todo' = HoldoutCases * Repetitions
          /\ UNCHANGED <<holdout, reportVars>>
       \/ /\ Assessed("holdout_before")
          /\ Evaluate("holdout_after", HoldoutCases * Repetitions)
          /\ \E v \in Verdicts : holdout' = [holdout EXCEPT ![1] = v]
          /\ UNCHANGED <<exc, budgetVars, reportVars>>
       \/ /\ Assessed("holdout_after")
          /\ pc' = "exporting"
          /\ \E v \in Verdicts : holdout' = [holdout EXCEPT ![2] = v]
          /\ Phase([summary EXCEPT !.improved =
                       PromptImproved(summary.validation, confirm, holdout')],
                   "application-verification")
          /\ UNCHANGED <<task, todo, exc, budgetVars>>
    /\ UNCHANGED <<searchVars, confirm, processVars>>

(* export_upstream_prompt with a bounded campaign (budget.check, then the  *)
(* timeout); the exported prompt is then run once on a train case.         *)
Export ==
    /\ \/ /\ pc = "exporting"
          /\ IF expired THEN Throw("wall_clock") ELSE pc' = "composing" /\ UNCHANGED exc
          /\ UNCHANGED <<task, todo>>
       \/ /\ pc = "composing"
          /\ \/ Evaluate("application", 1) /\ UNCHANGED exc
             \/ \E e \in {"bridge", "evidence"} : Throw(e) /\ UNCHANGED <<task, todo>>
             \/ expired /\ Throw("value_error") /\ UNCHANGED <<task, todo>>
    /\ UNCHANGED <<budgetVars, experimentVars>>

(* Mutant of Qualified: the frozen validation is not asked. *)
QualifiedUnconfirmed(exportSuccess) ==
    /\ Qualifies(measured, before, ValidationCases)
    /\ Qualifies(holdout[2], holdout[1], HoldoutCases)
    /\ exportSuccess

(* summary["qualified"] *)
Qualified(exportSuccess) ==
    /\ Qualifies(measured, before, ValidationCases)
    /\ Qualifies(confirm[2], confirm[1], ValidationCases)
    /\ Qualifies(holdout[2], holdout[1], HoldoutCases)
    /\ exportSuccess

ApplicationReturned ==
    /\ Assessed("application")
    /\ VerifyThen("final")
    /\ \E exportSuccess \in BOOLEAN :
          summary' = [summary EXCEPT !.override = TRUE, !.qualified = Qualified(exportSuccess)]
    /\ UNCHANGED <<todo, exc, budgetVars, searchVars, frozenVars, disk, processVars>>

FinalVerified ==
    /\ Verified("sealing") /\ task = "final"
    /\ UNCHANGED <<task, todo, experimentVars>>

(* lab_identity, then the last budget.check. *)
Seal ==
    /\ pc = "sealing"
    /\ \/ Throw("integrity")
       \/ IF expired THEN Throw("wall_clock") ELSE pc' = "closing" /\ UNCHANGED exc
    /\ UNCHANGED <<task, todo, budgetVars, experimentVars>>

---------------------------------------------------------------------------
(* The end of the session, and what run_experiment and command_run make of *)
(* the exception that is then in flight.                                   *)

(* Mutant of Unwind: the session is not a context manager. *)
UnwindPast ==
    /\ Goto("throw", "handling")
    /\ UNCHANGED <<task, todo, exc, budgetVars, experimentVars>>

(* An exception inside the session runs its cleanup. *)
Unwind ==
    /\ Goto("throw", "closing")
    /\ UNCHANGED <<task, todo, exc, budgetVars, experimentVars>>

(* The finally of model_session: failed cleanup is raised beside what was  *)
(* in flight.                                                              *)
CloseSession ==
    /\ pc = "closing"
    /\ \/ /\ session' = "closed"
          /\ pc' = IF exc = "none" THEN "finish" ELSE "handling"
          /\ UNCHANGED exc
       \/ /\ session' = "unclean"
          /\ pc' = "handling"
          /\ exc' = CASE exc = "none"      -> "cleanup"
                      [] exc = "interrupt" -> "base_exception_group"
                      [] OTHER             -> "exception_group"
    /\ UNCHANGED <<task, todo, budgetVars, searchVars, frozenVars, reportVars, signals, cut, exit>>

Finish ==
    /\ Goto("finish", "handling")
    /\ Phase([summary EXCEPT !.completed = TRUE,
                             !.status = IF summary.qualified THEN "QUALIFIED" ELSE "NOT_CONVERGED"],
             "finished")
    /\ UNCHANGED <<task, todo, exc, budgetVars, searchVars, frozenVars, processVars>>

(* Mutant of BudgetExceptions: a failed call counts as an exhausted budget. *)
BudgetExceptionsWide == {"wall_clock", "max_evaluations", "bridge"}

BudgetExceptions == {"wall_clock", "max_evaluations"}

(* Mutant of Exhausted: the claims made so far stay. *)
ExhaustedStillClaims == [summary EXCEPT !.status = "NOT_CONVERGED"]

Exhausted ==
    [summary EXCEPT !.status = "NOT_CONVERGED", !.qualified = FALSE, !.improved = FALSE]

(* The except clauses of run_experiment. *)
Handle ==
    /\ Goto("handling", "finally")
    /\ IF exc = "inconclusive"
       THEN exc' = "none" /\ summary' = [summary EXCEPT !.status = "PREFLIGHT_INCONCLUSIVE"]
       ELSE IF exc \in BudgetExceptions
       THEN exc' = "none" /\ summary' = Exhausted
       ELSE UNCHANGED <<exc, summary>>
    /\ UNCHANGED <<task, todo, budgetVars, searchVars, frozenVars, disk, processVars>>

(* Mutants of Retracted: a cancellation is a system error; only the status *)
(* is changed.                                                             *)
RetractedAsError ==
    [summary EXCEPT !.status = "SYSTEM_ERROR",
                    !.completed = FALSE, !.qualified = FALSE, !.improved = FALSE]

RetractedStatus ==
    [summary EXCEPT !.status = IF exc = "interrupt" THEN "CANCELLED" ELSE "SYSTEM_ERROR"]

(* What a failure leaves of the summary. *)
Retracted ==
    [summary EXCEPT !.status = IF exc = "interrupt" THEN "CANCELLED" ELSE "SYSTEM_ERROR",
                    !.completed = FALSE, !.qualified = FALSE, !.improved = FALSE]

(* Its finally.  _coverage, which reads the audits of the attempts, or the *)
(* last write can raise: the summary is then left as it was on disk.       *)
Finally ==
    /\ Goto("finally", "cli")
    /\ summary' = IF exc = "none" THEN summary ELSE Retracted
    /\ \/ disk' = summary' /\ UNCHANGED exc
       \/ exc' = "unwritten" /\ UNCHANGED disk
    /\ UNCHANGED <<task, todo, budgetVars, searchVars, frozenVars, processVars>>

(* command_run. *)
ExitCode ==
    IF exc = "none"
    THEN IF summary.status = "QUALIFIED" THEN "0"
         ELSE IF summary.status = "NOT_CONVERGED" THEN "3" ELSE "1"
    ELSE IF exc = "interrupt" THEN "130"
    ELSE IF exc = "base_exception_group" THEN "traceback" ELSE "1"

Exit ==
    /\ Goto("cli", "exited")
    /\ exit' = ExitCode
    /\ UNCHANGED <<task, todo, exc, budgetVars, searchVars, frozenVars, reportVars,
                   session, signals, cut>>

---------------------------------------------------------------------------
(* A signal raises KeyboardInterrupt where the controller stands.  While   *)
(* the session opens, its finally runs next; while it closes, the rest of  *)
(* the cleanup stays undone; before the try of run_experiment, in its      *)
(* finally, and back in command_run, nothing follows that would write the  *)
(* summary.                                                                *)
Landing ==
    CASE pc = "opening"                                                      -> "closing"
      [] pc \in {"preflight", "inspect", "closing", "finish", "handling"}    -> "handling"
      [] pc \in {"start", "finally", "cli"}                                  -> "cli"
      [] OTHER                                                               -> "throw"

Interrupt ==
    /\ pc \notin {"config", "exited"} /\ signals < MaxSignals
    /\ pc = "cli" => exc = "none"
    /\ exc' = "interrupt" /\ signals' = signals + 1 /\ cut' = pc /\ pc' = Landing
    /\ session' = CASE pc = "closing" -> "unclean"
                     [] pc = "opening" -> "open"
                     [] OTHER          -> session
    /\ UNCHANGED <<task, todo, budgetVars, searchVars, frozenVars, reportVars, exit>>

RunnerStep == (RunCall \/ VerifyBounded \/ VerifyFails) /\ UNCHANGED experimentVars

Pipeline ==
    \/ Configure \/ Start \/ Preflight \/ Inspect
    \/ OpenSession \/ Recheck \/ ProbeReturned \/ BaselineAssessed
    \/ SearchReturns \/ SearchRaises \/ Frozen \/ OpenHoldout \/ Holdout \/ Export
    \/ ApplicationReturned \/ FinalVerified \/ Seal

Ending == Unwind \/ CloseSession \/ Finish \/ Handle \/ Finally \/ Exit

Step == RunnerStep \/ Pipeline \/ Ending

TimePasses == pc # "exited" /\ Tick /\ UNCHANGED experimentVars

Terminated == pc = "exited" /\ UNCHANGED vars

Next == Step \/ SearchWorks \/ TimePasses \/ Interrupt \/ Terminated

Init ==
    /\ pc = "config" /\ task = "none" /\ todo = 0 /\ exc = "none"
    /\ expired = FALSE /\ evaluations = 0 /\ proposals = 0
    /\ searchCalls = 0 /\ searching = FALSE
    /\ before = NoVerdict /\ champion = Baseline /\ measured = NoVerdict
    /\ confirm = <<NoVerdict, NoVerdict>> /\ holdout = <<NoVerdict, NoVerdict>>
    /\ summary = FreshSummary /\ disk = [FreshSummary EXCEPT !.phase = "none"]
    /\ session = "none" /\ signals = 0 /\ cut = "none" /\ exit = "none"

(* The controller always takes its next step; the search ends because      *)
(* PromptSearch does (its Termination).                                    *)
Spec == Init /\ [][Next]_vars /\ WF_vars(Step)
---------------------------------------------------------------------------
(* The exit code and the file on disk tell the same story, after any       *)
(* failure, cleanup included: 0 and 3 only with the matching status and a  *)
(* clean session, 1 only with nothing claimed, and with no file at all if  *)
(* the artifact root could not be made (unless the last write itself       *)
(* failed).  No way out skips the cleanup of an open session.              *)
ExitMatchesSummary ==
    /\ pc \in {"finish", "handling", "finally", "cli", "exited"} => session # "open"
    /\ exit = "0" => /\ disk.status = "QUALIFIED" /\ disk.completed /\ disk.qualified
                     /\ disk.override /\ disk.holdoutUsed /\ session = "closed"
    /\ exit = "3" => /\ disk.status = "NOT_CONVERGED" /\ ~disk.qualified
                     /\ (disk.improved => disk.completed)
                     /\ session = "closed"
    /\ exit = "1" /\ exc # "unwritten" =>
            /\ IF exc = "unstarted"
               THEN disk.phase = "none"
               ELSE disk.status \in {"SYSTEM_ERROR", "PREFLIGHT_INCONCLUSIVE"}
            /\ ~disk.completed /\ ~disk.qualified /\ ~disk.improved

(* A file that claims the qualification, at whatever moment it is read,    *)
(* belongs to a run whose three comparisons of one and the same champion   *)
(* all pass the gate, and whose session was cleaned up before the claim.   *)
QualifiedIsEarned ==
    disk.qualified =>
        /\ champion # Baseline /\ session = "closed" /\ disk.phase = "finished"
        /\ Qualifies(measured, before, ValidationCases)
        /\ Qualifies(confirm[2], confirm[1], ValidationCases)
        /\ Qualifies(holdout[2], holdout[1], HoldoutCases)

(* Once a holdout case may have been run, the file says so, even if the    *)
(* process is killed at that very moment; and only a prompt other than the *)
(* baseline is ever shown the holdout.                                     *)
HoldoutLeavesTrace ==
    task \in {"holdout_before", "holdout_after", "application"} =>
        /\ disk.phase \notin {"none", "preflight", "baseline", "search", "frozen-validation"}
        /\ champion # Baseline

(* A run that did not complete and reports NOT_CONVERGED had really used   *)
(* up the evaluations or the time; nothing else is reported that way, and  *)
(* all its phases together spend no more than the budget.                  *)
ExhaustionIsReal ==
    /\ exit = "3" /\ ~disk.completed => expired \/ evaluations = MaxEvaluations
    /\ evaluations <= MaxEvaluations

(* A signal that arrives before the finally of run_experiment is not lost, *)
(* whatever else fails and however often it is repeated: nothing is        *)
(* claimed, and the exit code is 130 with CANCELLED in the file, or with   *)
(* no file if nothing had begun.  Only where the cleanup of the session    *)
(* failed as well does command_run end in a traceback, and the file in     *)
(* SYSTEM_ERROR (README 4 has 130 there too).  Left out is the run whose   *)
(* summary could not be written at the end.                                *)
CancellationIsRecorded ==
    signals > 0 /\ cut \notin {"finally", "cli"} /\ exc # "unwritten" /\ pc = "exited" =>
        /\ ~disk.completed /\ ~disk.qualified /\ ~disk.improved
        /\ \/ exit = "130" /\ cut # "start" /\ disk.status = "CANCELLED"
           \/ exit = "130" /\ cut = "start" /\ disk.phase = "none" /\ session = "none"
           \/ exit = "traceback" /\ disk.status = "SYSTEM_ERROR" /\ session = "unclean"

(* The summary on disk behaves as SummaryFile promises its readers: the    *)
(* phases in order, no verdict before the end, nothing left of it after a  *)
(* failure (_phase and the finally of run_experiment).                     *)
File == INSTANCE SummaryFile WITH
    phase <- disk.phase, status <- disk.status,
    improved <- disk.improved, qualified <- disk.qualified

KeepsSummaryFile == File!FileSpec

(* The experiment ends with an exit code. *)
Termination == <>(exit # "none")

(* What is checked and not true: see the findings. *)

(* A cancelled run does not claim the qualification (README 6). *)
CancelledClaimsNothing == exit = "130" => ~disk.qualified
=============================================================================
