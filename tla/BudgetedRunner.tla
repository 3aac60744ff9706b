--------------------------- MODULE BudgetedRunner ---------------------------
(***************************************************************************)
(* The shared experiment budget (ExperimentBudget), the runner every       *)
(* native evaluation goes through (_BudgetedRunner) and the identity check *)
(* of the model endpoint that the same budget bounds (_verify_endpoint).   *)
(*                                                                         *)
(* The controller is one thread.  pc is where it stands, task what it is   *)
(* doing, todo the evaluations that task still has to run.  They are run   *)
(* one at a time, each in four steps, because each reads the clock four    *)
(* times:                                                                  *)
(*   call     search cap, then consume_evaluation (reads the clock)        *)
(*   bound    bounded_campaign: budget.check (reads the clock)             *)
(*   timeout  bounded_campaign: remaining_seconds (reads the clock)        *)
(*   running  the native run, and the budget.check that follows it         *)
(* The wall clock is the Boolean expired: it turns TRUE once, between any  *)
(* two steps (Tick).  An exception in flight is pc = "throw" with its kind *)
(* in exc; whoever catches it is in the module that uses this one.         *)
(***************************************************************************)
EXTENDS Integers

CONSTANTS
    MaxEvaluations,   \* search.max_evaluations
    MaxProposals,     \* search.max_proposals
    SearchLimit       \* search.total_metric_calls

ASSUME BudgetAssumption ==
    /\ MaxEvaluations \in Nat \ {0}
    /\ MaxProposals \in Nat \ {0}
    /\ SearchLimit \in Nat \ {0}

VARIABLES
    pc, task, todo,       \* the controller, what it is doing, and the calls left in it
    exc,                  \* the exception in flight, or "none"
    expired,              \* elapsed_seconds >= wall_clock_seconds
    evaluations,          \* ExperimentBudget._evaluations
    proposals,            \* ExperimentBudget._proposals
    searchCalls,          \* _BudgetedRunner.search_calls
    searching             \* _BudgetedRunner.searching

runnerVars == <<evaluations, searchCalls, searching>>

(* The exceptions a call can raise.  "value_error" is the ValueError of a  *)
(* serving whose timeout is not positive; "bridge" a BridgeInvocationError; *)
(* "evidence" a result KorvidUpstreamRunner or its caller refuses;         *)
(* "integrity" a run that is not live, or whose runtime fingerprint moved. *)
RunnerExceptions ==
    {"search_limit", "wall_clock", "max_evaluations", "value_error", "bridge",
     "evidence", "integrity"}

remaining == SearchLimit - searchCalls

Goto(from, to) == pc = from /\ pc' = to

(* raise e: control leaves the operation under way. *)
Throw(e) == pc' = "throw" /\ exc' = e

---------------------------------------------------------------------------
(* Time passes.  It may pass between any two steps of the controller. *)
Tick ==
    /\ ~expired
    /\ pc \notin {"done", "raised"}
    /\ expired' = TRUE
    /\ UNCHANGED <<pc, task, todo, exc, proposals, runnerVars>>

(* Mutant of Refusal: consume_evaluation does not test the evaluations left. *)
RefusalUncapped ==
    IF searching /\ searchCalls >= SearchLimit THEN "search_limit"
    ELSE IF expired THEN "wall_clock" ELSE "none"

(* What _BudgetedRunner.run refuses before it starts anything: the search  *)
(* cap first, then ExperimentBudget.consume_evaluation.                    *)
Refusal ==
    IF searching /\ searchCalls >= SearchLimit THEN "search_limit"
    ELSE IF expired THEN "wall_clock"
    ELSE IF evaluations >= MaxEvaluations THEN "max_evaluations"
    ELSE "none"

(* Mutant of ChargeCall: a call is admitted and not counted. *)
ChargeNothing ==
    /\ pc = "call" /\ todo > 0
    /\ IF Refusal # "none" THEN Throw(Refusal) ELSE pc' = "bound" /\ UNCHANGED exc
    /\ UNCHANGED <<task, todo, expired, proposals, runnerVars>>

ChargeCall ==
    /\ pc = "call" /\ todo > 0
    /\ IF Refusal # "none"
       THEN Throw(Refusal) /\ UNCHANGED runnerVars
       ELSE /\ pc' = "bound"
            /\ evaluations' = evaluations + 1
            /\ searchCalls' = IF searching THEN searchCalls + 1 ELSE searchCalls
            /\ UNCHANGED <<exc, searching>>
    /\ UNCHANGED <<task, todo, expired, proposals>>

(* bounded_campaign, first half: the budget must not be exhausted. *)
BoundCall ==
    /\ pc = "bound"
    /\ IF expired THEN Throw("wall_clock") ELSE pc' = "timeout" /\ UNCHANGED exc
    /\ UNCHANGED <<task, todo, expired, proposals, runnerVars>>

(* bounded_campaign, second half: remaining_seconds is read again; a zero  *)
(* timeout is refused by KorvidUpstreamServing.                            *)
SetTimeout ==
    /\ pc = "timeout"
    /\ IF expired THEN Throw("value_error") ELSE pc' = "running" /\ UNCHANGED exc
    /\ UNCHANGED <<task, todo, expired, proposals, runnerVars>>

(* The native run ended with a verdict that passes every identity check.   *)
CallReturns ==
    /\ pc = "running"
    /\ IF expired THEN Throw("wall_clock") /\ UNCHANGED todo
       ELSE pc' = "call" /\ todo' = todo - 1 /\ UNCHANGED exc
    /\ UNCHANGED <<task, expired, proposals, runnerVars>>

(* The call failed.  A bridge failure after the deadline is the deadline's, *)
(* and the identity checks come after budget.check; evidence the runner    *)
(* itself refuses is raised before the clock is read.                      *)
CallFails ==
    /\ pc = "running"
    /\ \/ Throw("evidence")
       \/ \E e \in {"bridge", "integrity"} : Throw(IF expired THEN "wall_clock" ELSE e)
    /\ UNCHANGED <<task, todo, expired, proposals, runnerVars>>

(* session.verify: the bounded timeout reads the clock, then the endpoint  *)
(* is probed for its two digests and its version.                          *)
VerifyBounded ==
    /\ pc = "verify"
    /\ IF expired THEN Throw("wall_clock") ELSE pc' = "probing" /\ UNCHANGED exc
    /\ UNCHANGED <<task, todo, expired, proposals, runnerVars>>

VerifyFails ==
    /\ pc = "probing"
    /\ Throw("model_session")
    /\ UNCHANGED <<task, todo, expired, proposals, runnerVars>>

Verified(to) ==
    /\ Goto("probing", to)
    /\ UNCHANGED <<exc, expired, proposals, runnerVars>>

RunCall == ChargeCall \/ BoundCall \/ SetTimeout \/ CallReturns \/ CallFails
=============================================================================
