---------------------------- MODULE PromptSearch ----------------------------
(***************************************************************************)
(* The search of an experiment: `_search' runs one GEPA optimization per   *)
(* (stage, seed), keeps the champion that beats the last one on paired     *)
(* validation, and stops at whichever limit comes first.                   *)
(*                                                                         *)
(* One attempt is optimize_campaign, that is                               *)
(*   - gepa.optimize, a library modelled from how it is called: evaluate   *)
(*     the seed on the validation cases, then iterate: evaluate a pool     *)
(*     candidate on a minibatch, ask the proposer for a change, evaluate   *)
(*     the change on the same minibatch and, if it is better, on all the   *)
(*     validation cases.  It runs between the calls of _OptimizationStopper *)
(*     and swallows what the proposer raises;                              *)
(*   - AuditedProposalSource, which charges, checks and records every      *)
(*     proposal and keeps the exception GEPA swallowed in pending;         *)
(* followed by the paired assessment of the best candidate it found.       *)
(*                                                                         *)
(* pc (beside those of BudgetedRunner):                                    *)
(*   head      top of the loop over attempts      loop     GEPA's loop top *)
(*   propose   consume_proposal                   teacher  the reflection  *)
(*   validate, vtimeout, composing   the static check of a proposal, whose *)
(*             clock is read twice before it and once after it             *)
(*   returned  gepa.optimize has returned         throw    an exception    *)
(*   done      _search has returned               raised   it has raised   *)
(***************************************************************************)
EXTENDS BudgetedRunner, Scoring, FiniteSets

CONSTANTS
    Candidates,        \* fingerprints of the prompts that can turn up
    Baseline,          \* the fingerprint of Korvid's own prompt
    Verdicts,          \* the verdicts an assessment may return
    ValidationCases,   \* how many validation cases
    Repetitions,       \* evaluation.repetitions
    NAttempts,         \* pairs (stage, seed), in order
    AttemptCalls,      \* metric_calls of the stage of each attempt
    StagnationLimit    \* search.stagnation_attempt_limit

(* GEPA_REFLECTION_MINIBATCH_SIZE *)
Minibatch == 3

PairedCalls == ValidationCases * Repetitions

(* Mutant of NextIterationEvaluations: one minibatch is forgotten. *)
NextIterationShort == Minibatch + ValidationCases

(* The calls of the dearest GEPA iteration, and of the cheapest attempt    *)
(* that can hold one.                                                      *)
NextIterationEvaluations == 2 * Minibatch + ValidationCases

MinimumInvocationCalls == 2 * Minibatch + 2 * ValidationCases

(* What load_experiment accepts. *)
ASSUME SearchAssumption ==
    /\ Baseline \in Candidates
    /\ Verdicts \subseteq Verdict
    /\ ValidationCases \in Nat \ {0}
    /\ Repetitions \in Nat /\ Repetitions >= 5
    /\ NAttempts \in Nat \ {0}
    /\ AttemptCalls \in [1..NAttempts -> Nat \ {0}]
    /\ StagnationLimit \in Nat \ {0}

VARIABLES
    index,         \* the attempt under way, 1..NAttempts
    before,        \* the baseline's verdict
    champion,      \* fingerprint of the champion
    measured,      \* its verdict
    stagnation,    \* attempts since the champion changed
    attempts,      \* attempt.json of each attempt
    stopReason,    \* summary["search_stop_reason"]
    countBefore,   \* search_calls when the attempt began
    pool,          \* GEPA: fingerprints with a complete validation score
    best, bestVal, \* GEPA: the best of them, and its validation successes
    proposed,      \* the proposal under way, or what is being assessed
    seen,          \* AuditedProposalSource._seen_fingerprints
    audit,         \* proposal records of all attempts, by status
    pending        \* AuditedProposalSource.pending_exception

championVars == <<before, champion, measured>>
gepaVars     == <<pool, best, bestVal>>
sourceVars   == <<proposed, seen, audit, pending>>
loopVars     == <<index, championVars, stagnation, attempts, stopReason, countBefore>>
budgetVars   == <<expired, proposals, runnerVars>>
searchVars   == <<loopVars, gepaVars, sourceVars>>
vars == <<pc, task, todo, exc, budgetVars, searchVars>>

NoAttempt == [status |-> "none", best |-> "none", calls |-> 0]

AttemptStatuses ==
    {"none", "running", "proposal_rejected", "search_budget_exhausted",
     "proposal_budget_exhausted", "unchanged", "selected", "not_improved"}

(* The attempt whose try block is open, and the part of it that the except *)
(* clauses guard: the paired assessment is in the else clause.             *)
AttemptOpen == index \in 1..NAttempts /\ attempts[index].status = "running"

InOptimize == AttemptOpen /\ task # "paired"

Evaluate(t, calls) == pc' = "call" /\ task' = t /\ todo' = calls

---------------------------------------------------------------------------
(* _search, around the attempts. *)

Stop(reason) == pc' = "done" /\ stopReason' = reason

StagesCompleted ==
    /\ pc = "head" /\ index > NAttempts
    /\ Stop("stages_completed")
    /\ UNCHANGED <<task, todo, exc, budgetVars, gepaVars, sourceVars, index, championVars,
                   stagnation, attempts, countBefore>>

(* The tests at the top of the loop, in their order. *)
AttemptHead ==
    /\ pc = "head" /\ index <= NAttempts
    /\ IF expired THEN Throw("wall_clock") /\ UNCHANGED <<task, stopReason>>
       ELSE IF proposals >= MaxProposals
       THEN Stop("max_proposals") /\ UNCHANGED <<task, exc>>
       ELSE IF remaining < MinimumInvocationCalls
       THEN Stop("insufficient_search_metric_budget") /\ UNCHANGED <<task, exc>>
       ELSE pc' = "verify" /\ task' = "before_attempt" /\ UNCHANGED <<exc, stopReason>>
    /\ UNCHANGED <<todo, budgetVars, gepaVars, sourceVars, index, championVars,
                   stagnation, attempts, countBefore>>

(* The attempt is recorded and searching starts; optimize_campaign opens a *)
(* fresh invocation directory, so nothing of an earlier attempt is left in *)
(* GEPA or in the proposal source but the audit files.                     *)
BeginAttempt ==
    /\ Verified("begin") /\ task = "before_attempt"
    /\ attempts' = [attempts EXCEPT ![index] = [NoAttempt EXCEPT !.status = "running"]]
    /\ countBefore' = searchCalls
    /\ pool' = {} /\ best' = champion /\ bestVal' = 0
    /\ proposed' = champion /\ seen' = {champion} /\ pending' = "none"
    /\ UNCHANGED <<task, todo, audit, index, championVars, stagnation, stopReason>>

(* build_reflection_lm reads the clock, then GEPA evaluates its seed. *)
StartGepa ==
    /\ pc = "begin"
    /\ searching' = TRUE
    /\ IF expired THEN Throw("wall_clock") /\ UNCHANGED <<task, todo>>
       ELSE Evaluate("initial", ValidationCases) /\ UNCHANGED exc
    /\ UNCHANGED <<expired, proposals, evaluations, searchCalls, searchVars>>

---------------------------------------------------------------------------
(* GEPA (external), and the stopper it asks before every iteration. *)

(* Mutants of ShouldStop: the failure pending in the proposal source is    *)
(* not tested; max_metric_calls is tested late.                            *)
ShouldStopDeaf ==
    searchCalls - countBefore >= AttemptCalls[index] \/ expired
    \/ proposals >= MaxProposals \/ remaining < NextIterationEvaluations

ShouldStopLate ==
    searchCalls - countBefore > AttemptCalls[index] \/ pending # "none" \/ expired
    \/ proposals >= MaxProposals \/ remaining < NextIterationEvaluations

(* max_metric_calls, and _OptimizationStopper. *)
ShouldStop ==
    \/ searchCalls - countBefore >= AttemptCalls[index]
    \/ pending # "none"
    \/ expired
    \/ proposals >= MaxProposals
    \/ remaining < NextIterationEvaluations

GepaLoop ==
    /\ pc = "loop"
    /\ IF ShouldStop THEN pc' = "returned" /\ UNCHANGED <<task, todo>>
       ELSE Evaluate("current", Minibatch)
    /\ UNCHANGED <<exc, budgetVars, searchVars>>

SeedScored ==
    /\ pc = "call" /\ todo = 0 /\ task = "initial"
    /\ pc' = "loop"
    /\ pool' = {champion}
    /\ bestVal' \in 0..ValidationCases
    /\ UNCHANGED <<task, todo, exc, budgetVars, best, loopVars, sourceVars>>

(* The minibatch is perfect, so there is nothing to reflect on; or not. *)
MinibatchScored ==
    /\ pc = "call" /\ todo = 0 /\ task = "current"
    /\ pc' \in {"loop", "propose"}
    /\ UNCHANGED <<task, todo, exc, budgetVars, searchVars>>

ProposalScored ==
    /\ pc = "call" /\ todo = 0 /\ task = "proposed"
    /\ \/ pc' = "loop" /\ UNCHANGED <<task, todo>>
       \/ Evaluate("full", ValidationCases)
    /\ UNCHANGED <<exc, budgetVars, searchVars>>

ProposalAdded ==
    /\ pc = "call" /\ todo = 0 /\ task = "full"
    /\ pc' = "loop"
    /\ pool' = pool \union {proposed}
    /\ \E v \in 0..ValidationCases :
          IF v > bestVal THEN best' = proposed /\ bestVal' = v ELSE UNCHANGED <<best, bestVal>>
    /\ UNCHANGED <<task, todo, exc, budgetVars, loopVars, sourceVars>>

---------------------------------------------------------------------------
(* AuditedProposalSource.__call__ and the DSPy teacher it asks.  Whatever  *)
(* it raises, GEPA swallows and goes back to its loop.                     *)

Record(status) == audit' = [audit EXCEPT ![status] = @ + 1]

(* Mutant of Fail: the failure is not written to the audit. *)
FailUnrecorded(status, e) == pc' = "loop" /\ pending' = e /\ UNCHANGED audit

(* _record_source_failure and _reject: the failure is pending. *)
Fail(status, e) ==
    /\ pc' = "loop"
    /\ Record(status)
    /\ pending' = e

ConsumeProposal ==
    /\ pc = "propose"
    /\ LET refused == IF expired THEN "wall_clock"
                      ELSE IF proposals >= MaxProposals THEN "max_proposals" ELSE "none"
       IN  IF refused # "none"
           THEN pc' = "loop" /\ pending' = refused /\ UNCHANGED proposals
           ELSE pc' = "teacher" /\ proposals' = proposals + 1 /\ UNCHANGED pending
    /\ UNCHANGED <<task, todo, exc, expired, runnerVars, loopVars, gepaVars,
                   proposed, seen, audit>>

(* The teacher's answer cannot be parsed, which is noticed before the      *)
(* clock is read; or the call fails, or its answer is too late.            *)
TeacherFails ==
    /\ pc = "teacher"
    /\ \/ Fail("invalid", "rejected")
       \/ Fail("provider_error", IF expired THEN "wall_clock" ELSE "provider")
    /\ UNCHANGED <<task, todo, exc, budgetVars, loopVars, gepaVars, proposed, seen>>

(* A blank or malformed answer is refused, a fingerprint seen before is    *)
(* only recorded, and a new one goes to the static check.                  *)
TeacherAnswers ==
    /\ pc = "teacher" /\ ~expired
    /\ \/ Fail("invalid", "rejected") /\ UNCHANGED proposed
       \/ \E c \in seen : pc' = "loop" /\ Record("duplicate") /\ UNCHANGED <<pending, proposed>>
       \/ \E c \in Candidates \ seen :
             pc' = "validate" /\ proposed' = c /\ UNCHANGED <<pending, audit>>
    /\ UNCHANGED <<task, todo, exc, budgetVars, loopVars, gepaVars, seen>>

(* budget.check, then a serving whose timeout is the remaining time. *)
BoundValidation ==
    /\ pc = "validate"
    /\ IF expired THEN Fail("provider_error", "wall_clock")
       ELSE pc' = "vtimeout" /\ UNCHANGED <<audit, pending>>
    /\ UNCHANGED <<task, todo, exc, budgetVars, loopVars, gepaVars, proposed, seen>>

SetValidationTimeout ==
    /\ pc = "vtimeout"
    /\ IF expired THEN Fail("provider_error", "value_error")
       ELSE pc' = "composing" /\ UNCHANGED <<audit, pending>>
    /\ UNCHANGED <<task, todo, exc, budgetVars, loopVars, gepaVars, proposed, seen>>

(* validate_upstream_candidate, whose outcome the deadline overrides. *)
ValidationFails ==
    /\ pc = "composing"
    /\ IF expired THEN Fail("provider_error", "wall_clock")
       ELSE Fail("invalid", "rejected") \/ Fail("provider_error", "bridge")
    /\ UNCHANGED <<task, todo, exc, budgetVars, loopVars, gepaVars, proposed, seen>>

ProposalValid ==
    /\ pc = "composing" /\ ~expired
    /\ Evaluate("proposed", Minibatch)
    /\ Record("valid")
    /\ seen' = seen \union {proposed}
    /\ UNCHANGED <<exc, budgetVars, loopVars, gepaVars, proposed, pending>>

---------------------------------------------------------------------------
(* The end of an attempt. *)

(* attempt.json, written on every way out. *)
CloseAttempt(status, chosen) ==
    /\ searching' = FALSE
    /\ attempts' = [attempts EXCEPT ![index] =
                      [status |-> status, best |-> chosen, calls |-> searchCalls - countBefore]]

EndAttempt(status, chosen) ==
    /\ CloseAttempt(status, chosen)
    /\ pc' = "verify" /\ task' = "after_attempt"

(* Mutant of FatalPending: the rejection of a proposal is raised as well. *)
FatalPendingAny == pending # "none"

FatalPending == pending \notin {"none", "rejected"}

(* optimize_campaign after gepa.optimize: a pending failure is raised,     *)
(* unless it is the rejection of a proposal, which only ended the attempt. *)
GepaReturned ==
    /\ pc = "returned"
    /\ IF FatalPending
       THEN Throw(pending) /\ UNCHANGED <<task, todo, searching, attempts, stagnation, proposed>>
       ELSE IF expired
       THEN Throw("wall_clock") /\ UNCHANGED <<task, todo, searching, attempts, stagnation, proposed>>
       ELSE IF best = champion
       THEN /\ EndAttempt("unchanged", best)
            /\ stagnation' = stagnation + 1
            /\ UNCHANGED <<todo, exc, proposed>>
       ELSE /\ Evaluate("paired", PairedCalls)
            /\ searching' = FALSE
            /\ proposed' = best
            /\ UNCHANGED <<exc, attempts, stagnation>>
    /\ UNCHANGED <<expired, proposals, evaluations, searchCalls, gepaVars, index, championVars,
                   stopReason, countBefore, seen, audit, pending>>

(* Mutant of PairedAssessed: a new champion does not reset the stagnation. *)
PairedAssessedNoReset ==
    /\ pc = "call" /\ todo = 0 /\ task = "paired"
    /\ \E tested \in Verdicts :
          IF Improves(proposed, tested, champion, measured)
          THEN /\ EndAttempt("selected", proposed)
               /\ champion' = proposed /\ measured' = tested /\ UNCHANGED stagnation
          ELSE /\ EndAttempt("not_improved", proposed)
               /\ stagnation' = stagnation + 1 /\ UNCHANGED <<champion, measured>>
    /\ UNCHANGED <<todo, exc, expired, proposals, evaluations, searchCalls, gepaVars, index,
                   before, stopReason, countBefore, sourceVars>>

(* Mutant of PairedAssessed: the new champion keeps the verdict of the old. *)
PairedAssessedStale ==
    /\ pc = "call" /\ todo = 0 /\ task = "paired"
    /\ \E tested \in Verdicts :
          IF Improves(proposed, tested, champion, measured)
          THEN /\ EndAttempt("selected", proposed)
               /\ champion' = proposed /\ stagnation' = 0 /\ UNCHANGED measured
          ELSE /\ EndAttempt("not_improved", proposed)
               /\ stagnation' = stagnation + 1 /\ UNCHANGED <<champion, measured>>
    /\ UNCHANGED <<todo, exc, expired, proposals, evaluations, searchCalls, gepaVars, index,
                   before, stopReason, countBefore, sourceVars>>

(* The paired assessment is complete: the champion changes only if it is   *)
(* beaten on the same cases and seeds.                                     *)
PairedAssessed ==
    /\ pc = "call" /\ todo = 0 /\ task = "paired"
    /\ \E tested \in Verdicts :
          IF Improves(proposed, tested, champion, measured)
          THEN /\ EndAttempt("selected", proposed)
               /\ champion' = proposed /\ measured' = tested /\ stagnation' = 0
          ELSE /\ EndAttempt("not_improved", proposed)
               /\ stagnation' = stagnation + 1 /\ UNCHANGED <<champion, measured>>
    /\ UNCHANGED <<todo, exc, expired, proposals, evaluations, searchCalls, gepaVars, index,
                   before, stopReason, countBefore, sourceVars>>

AttemptVerified ==
    /\ task = "after_attempt"
    /\ IF stagnation >= StagnationLimit
       THEN Verified("done") /\ stopReason' = "stagnation" /\ UNCHANGED index
       ELSE Verified("head") /\ index' = index + 1 /\ UNCHANGED stopReason
    /\ UNCHANGED <<task, todo, championVars, stagnation, attempts, countBefore,
                   gepaVars, sourceVars>>

(* The except clauses and the finally of an attempt. *)
CatchInAttempt ==
    /\ pc = "throw" /\ AttemptOpen
    /\ LET caught(status, reason) ==
              CloseAttempt(status, "none") /\ Stop(reason) /\ exc' = "none" /\ UNCHANGED stagnation
       IN  IF InOptimize /\ exc = "rejected"
           THEN /\ EndAttempt("proposal_rejected", "none")
                /\ stagnation' = stagnation + 1 /\ exc' = "none" /\ UNCHANGED stopReason
           ELSE IF InOptimize /\ exc = "search_limit"
           THEN caught("search_budget_exhausted", "total_metric_calls") /\ UNCHANGED task
           ELSE IF InOptimize /\ exc = "max_proposals"
           THEN caught("proposal_budget_exhausted", "max_proposals") /\ UNCHANGED task
           ELSE /\ CloseAttempt("running", IF task = "paired" THEN proposed ELSE "none")
                /\ pc' = "raised" /\ UNCHANGED <<task, exc, stagnation, stopReason>>
    /\ UNCHANGED <<todo, expired, proposals, evaluations, searchCalls, gepaVars, index,
                   championVars, countBefore, sourceVars>>

(* An exception outside an attempt goes straight to the caller. *)
Propagate ==
    /\ pc = "throw" /\ ~AttemptOpen
    /\ pc' = "raised"
    /\ UNCHANGED <<task, todo, exc, budgetVars, searchVars>>

---------------------------------------------------------------------------
Gepa == GepaLoop \/ SeedScored \/ MinibatchScored \/ ProposalScored \/ ProposalAdded

Proposal ==
    \/ ConsumeProposal \/ TeacherFails \/ TeacherAnswers
    \/ BoundValidation \/ SetValidationTimeout \/ ValidationFails \/ ProposalValid

SearchStep ==
    \/ StagesCompleted \/ AttemptHead \/ BeginAttempt \/ StartGepa
    \/ GepaReturned \/ PairedAssessed \/ AttemptVerified \/ CatchInAttempt \/ Propagate

CallStep == (RunCall \/ VerifyBounded \/ VerifyFails) /\ UNCHANGED searchVars

Step == CallStep \/ Gepa \/ Proposal \/ SearchStep

TimePasses == Tick /\ UNCHANGED searchVars

Terminated == pc \in {"done", "raised"} /\ UNCHANGED vars

Next == Step \/ TimePasses \/ Terminated

(* The search starts after the tool preflight (one to three evaluations)   *)
(* and the baseline's own paired validation.                               *)
Init ==
    /\ pc = "head" /\ task = "baseline" /\ todo = 0 /\ exc = "none"
    /\ expired = FALSE /\ proposals = 0
    /\ \E probes \in 1..3 : evaluations = probes + PairedCalls
    /\ evaluations <= MaxEvaluations
    /\ searchCalls = 0 /\ searching = FALSE
    /\ before \in Verdicts /\ champion = Baseline /\ measured = before
    /\ index = 1 /\ stagnation = 0 /\ stopReason = "none" /\ countBefore = 0
    /\ attempts = [i \in 1..NAttempts |-> NoAttempt]
    /\ pool = {} /\ best = Baseline /\ bestVal = 0
    /\ proposed = Baseline /\ seen = {Baseline} /\ pending = "none"
    /\ audit = [s \in {"valid", "duplicate", "invalid", "provider_error"} |-> 0]

(* The controller is one thread, and everything it waits for answers or    *)
(* times out: it always takes its next step.  Time need not pass.          *)
Spec == Init /\ [][Next]_vars /\ WF_vars(Step)

---------------------------------------------------------------------------
Locations ==
    {"head", "verify", "probing", "begin", "call", "bound", "timeout", "running", "loop",
     "propose", "teacher", "validate", "vtimeout", "composing", "returned", "throw",
     "done", "raised"}

Tasks == {"baseline", "before_attempt", "initial", "current", "proposed", "full", "paired",
          "after_attempt"}

PendingExceptions == {"none", "rejected", "wall_clock", "max_proposals", "provider",
                      "value_error", "bridge"}

AttemptRecord ==
    [status : AttemptStatuses, best : Candidates \union {"none"}, calls : Nat]

(* Every variable of the search has its type; the counters stay within the *)
(* limits of the experiment (ExperimentBudget, _BudgetedRunner).           *)
TypeOK ==
    /\ pc \in Locations /\ task \in Tasks /\ todo \in Nat
    /\ exc \in RunnerExceptions \union PendingExceptions \union {"model_session"}
    /\ expired \in BOOLEAN /\ searching \in BOOLEAN
    /\ evaluations \in 0..MaxEvaluations
    /\ proposals \in 0..MaxProposals
    /\ searchCalls \in 0..SearchLimit
    /\ index \in 1..(NAttempts + 1)
    /\ before \in Verdicts /\ measured \in Verdicts /\ champion \in Candidates
    /\ stagnation \in Nat /\ countBefore \in 0..SearchLimit
    /\ attempts \in [1..NAttempts -> AttemptRecord]
    /\ stopReason \in {"none", "stages_completed", "max_proposals", "stagnation",
                       "insufficient_search_metric_budget", "total_metric_calls"}
    /\ pool \subseteq Candidates /\ best \in Candidates /\ bestVal \in 0..ValidationCases
    /\ proposed \in Candidates /\ seen \subseteq Candidates
    /\ audit \in [{"valid", "duplicate", "invalid", "provider_error"} -> Nat]
    /\ pending \in PendingExceptions

(* The two admission tests (the minimum invocation in _search, the next    *)
(* iteration in _OptimizationStopper) together mean that a GEPA run that   *)
(* was let in is never torn by the hard cap of _BudgetedRunner.run:        *)
(* SearchLimitReached is not raised, and no attempt ends because of it.    *)
NoTornIteration ==
    /\ exc # "search_limit"
    /\ \A i \in 1..NAttempts : attempts[i].status # "search_budget_exhausted"

(* An attempt that ends while the experiment goes on (rejected proposal,   *)
(* proposal cap, search cap, GEPA's own end) never drops a best candidate  *)
(* that GEPA had completely evaluated: it is assessed against the champion. *)
EvaluatedBestIsAssessed ==
    [][(AttemptOpen /\ best # champion /\ ~AttemptOpen')
          => attempts'[index].status \in {"selected", "not_improved"}]_vars

(* The champion is the baseline as first measured, or it beats that        *)
(* measurement, over however many replacements on noisy verdicts: no chain *)
(* of paired comparisons in _search loses what an earlier one required.    *)
ChampionBeatsBaseline ==
    \/ champion = Baseline /\ measured = before
    \/ IsStrictlyBetter(measured, before)

(* After a proposal has failed or been rejected GEPA is stopped before it  *)
(* spends another evaluation or another proposal, although it swallowed    *)
(* the exception (pending_exception and _OptimizationStopper).             *)
FailureStopsGepa ==
    [][(pending # "none" /\ pending' # "none")
          => searchCalls' = searchCalls /\ proposals' = proposals]_vars

(* Each proposal charged to the budget has exactly one audit record, save  *)
(* the one still under way: max_proposals bounds what the audit can show.  *)
LedgerBalances ==
    proposals =
        audit["valid"] + audit["duplicate"] + audit["invalid"] + audit["provider_error"]
        + (IF pc \in {"teacher", "validate", "vtimeout", "composing"} THEN 1 ELSE 0)

(* GEPA tests metric_calls only between iterations: an attempt overruns    *)
(* its stage by less than one iteration, and never by more.                *)
AttemptOverrunBounded ==
    \A i \in 1..NAttempts :
        \/ attempts[i].calls <= ValidationCases
        \/ attempts[i].calls < AttemptCalls[i] + NextIterationEvaluations

(* The search goes on exactly until StagnationLimit attempts in a row have *)
(* not replaced the champion.                                              *)
Fruitless(i) == attempts[i].status \in {"proposal_rejected", "unchanged", "not_improved"}

StagnationStopsSearch ==
    /\ \A i \in (StagnationLimit + 1)..NAttempts :
          attempts[i].status # "none"
             => \E j \in (i - StagnationLimit)..(i - 1) : ~Fruitless(j)
    /\ stopReason = "stagnation"
          => /\ index >= StagnationLimit
             /\ \A j \in (index - StagnationLimit + 1)..index : Fruitless(j)

(* The deadline is reported as the exhaustion of the budget. *)
DeadlineIsBudgetExhaustion == exc # "value_error"

(* The search keeps the promise the experiment is built on. *)
Promise == INSTANCE AbstractSearch WITH
    stage   <- IF pc \in {"done", "raised"} THEN pc ELSE "running",
    failure <- IF pc = "raised" THEN exc ELSE "none"

(* Whatever the proposer, GEPA, the runner and the clock do, the caller of *)
(* _search sees only: spending within the limits, champions that beat the  *)
(* last one, and an end by return or by an exception that is explained --  *)
(* never a rejected proposal or a search limit (experiment.py:217-229).    *)
KeepsPromise == Promise!AbsSpec

(* The search ends. *)
Termination == <>(pc \in {"done", "raised"})
=============================================================================
