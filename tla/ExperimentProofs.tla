-------------------------- MODULE ExperimentProofs --------------------------
(***************************************************************************)
(* Theorems of Experiment, for any prompts and verdicts, any numbers of    *)
(* cases, any budget and any number of signals.                            *)
(*                                                                         *)
(* Placed ties session, task and exception to the point of the controller; *)
(* Merited says what a claim in the summary rests on; Told what the        *)
(* summary and the file say once the pipeline is over.                     *)
(***************************************************************************)
EXTENDS Experiment, TLAPS

Untried == {"config", "start", "preflight"}
Before == Untried \union {"inspect", "opening"}
Calling == {"call", "bound", "timeout", "running"}
Inside == Calling \union {"recheck", "verify", "probing", "searching", "exporting", "composing",
                          "sealing", "throw", "closing"}
After == {"handling", "finally", "cli", "exited"}

HoldoutTasks == {"holdout", "holdout_before", "holdout_after", "application"}
ChampionTasks == HoldoutTasks \union {"confirm", "confirm_before", "confirm_after"}
CallTasks == {"probe", "baseline", "confirm_before", "confirm_after", "holdout_before",
              "holdout_after", "application"}

Late == {"holdout", "application-verification", "finished"}

Reports ==
    [phase : {"none", "preflight", "baseline", "search", "frozen-validation"} \union Late,
     status : {"RUNNING", "QUALIFIED", "NOT_CONVERGED", "PREFLIGHT_INCONCLUSIVE", "CANCELLED",
               "SYSTEM_ERROR"},
     completed : BOOLEAN, improved : BOOLEAN, validation : BOOLEAN, qualified : BOOLEAN,
     override : BOOLEAN, holdoutUsed : BOOLEAN]

Typed ==
    /\ summary \in Reports /\ disk \in Reports
    /\ evaluations \in 0..MaxEvaluations /\ expired \in BOOLEAN /\ signals \in Nat

(* Where the session is up, what is being done, and who may be failing. *)
Placed ==
    /\ pc \in Before \union Inside \union {"finish"} \union After
    /\ session = "open" <=> pc \in Inside
    /\ exit = "none" <=> pc # "exited"
    /\ pc \in Before => session = "none"
    /\ pc \in Before \union {"recheck"} => task = "none"
    /\ pc \in Calling => task \in CallTasks
    /\ pc = "searching" => task = "baseline"
    /\ pc \in {"verify", "probing"} => task \in {"confirm", "holdout", "final"}
    /\ pc \in {"exporting", "composing"} => task = "holdout_after"
    /\ pc \in {"sealing", "finish"} => task = "final"
    /\ exc # "none" => pc \in {"throw", "closing"} \union After
    /\ pc = "throw" => exc # "none"
    /\ pc \in {"throw", "closing"} => exc \notin {"base_exception_group", "unwritten"}
    /\ exc = "base_exception_group" => session = "unclean"
    /\ exc = "unstarted" => pc \in {"cli", "exited"}
    /\ pc = "closing" /\ exc = "none" => task = "final"
    /\ pc = "finish" => session = "closed"
    /\ pc = "handling" /\ exc \in BudgetExceptions \union {"inconclusive", "none"} =>
          session = "closed"
    /\ exc = "wall_clock" => expired
    /\ exc = "max_evaluations" => evaluations = MaxEvaluations
    /\ exc = "inconclusive" => task = "probe"

Merits ==
    /\ champion # Baseline
    /\ Qualifies(measured, before, ValidationCases)
    /\ Qualifies(confirm[2], confirm[1], ValidationCases)
    /\ Qualifies(holdout[2], holdout[1], HoldoutCases)

(* Nothing is claimed that was not measured, of this champion. *)
Merited ==
    /\ task \in ChampionTasks => champion # Baseline
    /\ task \in HoldoutTasks => summary.holdoutUsed /\ summary.phase \in Late /\ disk.phase \in Late
    /\ summary.improved => task \in {"holdout_after", "application", "final"}
    /\ summary.qualified => summary.override /\ summary.holdoutUsed
    /\ summary.completed => pc \in After /\ summary.phase = "finished"
    /\ summary.qualified \/ disk.qualified => task = "final" /\ Merits
    /\ disk.qualified => pc \in After /\ session = "closed" /\ disk.phase = "finished"

Nothing(r) == ~r.completed /\ ~r.qualified /\ ~r.improved

(* The three ways to end without an exception. *)
Verdict3(r) ==
    \/ r.status = "QUALIFIED" /\ r.completed /\ r.qualified
    \/ /\ r.status = "NOT_CONVERGED" /\ ~r.qualified
       /\ r.improved => r.completed
       /\ ~r.completed => expired \/ evaluations = MaxEvaluations
    \/ r.status = "PREFLIGHT_INCONCLUSIVE" /\ Nothing(r)

Blank == disk.phase = "none" /\ Nothing(disk)

(* What the summary says on the way out, and the file once it is written.  *)
(* Before the try nothing is on disk, and nothing follows it but the exit. *)
Told ==
    /\ pc \notin After => summary.status = "RUNNING"
    /\ pc = "handling" /\ exc = "none" =>
          /\ summary.completed
          /\ summary.status = IF summary.qualified THEN "QUALIFIED" ELSE "NOT_CONVERGED"
    /\ pc = "handling" /\ exc \notin {"none", "interrupt"} => ~summary.completed
    /\ pc \in {"finally", "cli"} /\ exc = "none" => Verdict3(summary) /\ session = "closed"
    /\ pc = "cli" /\ exc = "none" => disk = summary
    /\ pc = "cli" /\ exc \notin {"none", "unstarted", "unwritten", "interrupt"} =>
          disk.status = "SYSTEM_ERROR" /\ Nothing(disk)
    /\ pc = "cli" /\ exc = "interrupt" /\ cut \notin {"start", "finally", "cli"} =>
          disk.status = "CANCELLED" /\ Nothing(disk)
    /\ pc \in Untried \/ (pc = "cli" /\ exc = "unstarted") => Blank
    /\ cut = "start" => pc \in {"cli", "exited"} /\ Blank /\ session = "none"
    /\ signals > 0 /\ cut \notin {"finally", "cli"} =>
          exc \in {"interrupt", "base_exception_group", "unwritten"}

(* The end of the process, which nothing follows. *)
Ended ==
    pc = "exited" => ExitMatchesSummary /\ CancellationIsRecorded /\ ExhaustionIsReal

IInv == Typed /\ Placed /\ Merited /\ Told /\ Ended
---------------------------------------------------------------------------
LEMMA InitHolds == Init => IInv
<1> SUFFICES ASSUME Init PROVE IInv
  OBVIOUS
<1>1. Typed
  <2>1. 0 \in 0..MaxEvaluations
    BY BudgetAssumption
  <2>2. FreshSummary \in Reports /\ [FreshSummary EXCEPT !.phase = "none"] \in Reports
    BY DEF Reports, FreshSummary
  <2> QED
    BY <2>1, <2>2 DEF Init, Typed
<1>2. Placed
  BY DEF Init, Placed, Untried, Before, Inside, Calling, After, BudgetExceptions
<1>3. Merited
  BY DEF Init, Merited, FreshSummary, ChampionTasks, HoldoutTasks
<1>4. Told /\ Ended
  BY DEF Init, Told, Blank, Nothing, Ended, FreshSummary, After
<1> QED
  BY <1>1, <1>2, <1>3, <1>4 DEF IInv

LEMMA PhaseEdit ==
    ASSUME NEW r \in Reports,
           NEW name \in {"preflight", "baseline", "search", "frozen-validation"} \union Late
    PROVE  [r EXCEPT !.phase = name] \in Reports
BY DEF Reports

LEMMA ClaimEdits ==
    ASSUME NEW r \in Reports, NEW b \in BOOLEAN
    PROVE  /\ [r EXCEPT !.validation = b] \in Reports
           /\ [r EXCEPT !.improved = b] \in Reports
           /\ [r EXCEPT !.override = TRUE, !.qualified = b] \in Reports
BY DEF Reports

(* The runner has no part in the summary. *)
LEMMA TypedInductive == Typed /\ Placed /\ [Next]_vars => Typed'
<1> SUFFICES ASSUME Typed, Placed, Next PROVE Typed'
  BY DEF Typed, vars, controlVars, budgetVars, experimentVars, reportVars, processVars, runnerVars
<1> USE DEF Typed, experimentVars, reportVars, processVars, budgetVars, runnerVars
<1>0. MaxEvaluations \in Nat
  BY BudgetAssumption
<1>1. CASE RunnerStep
  <2>1. UNCHANGED <<summary, disk, signals, expired>>
    BY <1>1 DEF RunnerStep, RunCall, ChargeCall, BoundCall, SetTimeout, CallReturns, CallFails,
       VerifyBounded, VerifyFails
  <2>2. evaluations' \in 0..MaxEvaluations
    <3>1. CASE ChargeCall
      BY <1>0, <3>1 DEF ChargeCall, Refusal
    <3>2. CASE ~ChargeCall
      BY <1>1, <3>2 DEF RunnerStep, RunCall, BoundCall, SetTimeout, CallReturns, CallFails,
         VerifyBounded, VerifyFails
    <3> QED
      BY <3>1, <3>2
  <2> QED
    BY <2>1, <2>2
<1>2. CASE Pipeline
  <2>1. UNCHANGED <<signals, expired, evaluations>>
    BY <1>2 DEF Pipeline, Configure, Start, Preflight, Inspect, OpenSession, Recheck, ProbeReturned,
       BaselineAssessed, SearchReturns, SearchRaises, Frozen, OpenHoldout, Holdout, Export,
       ApplicationReturned, FinalVerified, Seal, Verified
  <2> SUFFICES summary' \in Reports /\ disk' \in Reports
    BY <2>1
  <2>2. CASE Preflight
    BY <2>2 DEF Preflight, Phase, Reports
  <2>3. CASE ProbeReturned
    BY <2>3 DEF ProbeReturned, Phase, Reports
  <2>4. CASE BaselineAssessed
    BY <2>4 DEF BaselineAssessed, Phase, Reports
  <2>5. CASE SearchReturns
    <3>1. ImprovesSuccess(champion, measured, Baseline, before) \in BOOLEAN
      BY DEF ImprovesSuccess
    <3> DEFINE selected == [summary EXCEPT
                  !.validation = ImprovesSuccess(champion, measured, Baseline, before)]
    <3>2. selected \in Reports
      BY <3>1, ClaimEdits
    <3>3. \/ summary' = [selected EXCEPT !.phase = "frozen-validation"] /\ disk' = summary'
          \/ summary' = selected /\ UNCHANGED disk
      BY <2>5 DEF SearchReturns, Phase
    <3> HIDE DEF selected
    <3>4. [selected EXCEPT !.phase = "frozen-validation"] \in Reports
      BY <3>2, PhaseEdit
    <3> QED
      BY <3>2, <3>3, <3>4
  <2>6. CASE OpenHoldout
    BY <2>6 DEF OpenHoldout, Reports, Late
  <2>7. CASE Holdout
    <3>1. PromptImproved(summary.validation, confirm, holdout') \in BOOLEAN
      BY DEF PromptImproved
    <3> DEFINE judged == [summary EXCEPT
                  !.improved = PromptImproved(summary.validation, confirm, holdout')]
    <3>2. judged \in Reports
      BY <3>1, ClaimEdits
    <3>3. \/ summary' = [judged EXCEPT !.phase = "application-verification"] /\ disk' = summary'
          \/ UNCHANGED <<summary, disk>>
      BY <2>7 DEF Holdout, Phase
    <3> HIDE DEF judged
    <3>4. [judged EXCEPT !.phase = "application-verification"] \in Reports
      BY <3>2, PhaseEdit DEF Late
    <3> QED
      BY <3>2, <3>3, <3>4
  <2>8. CASE ApplicationReturned
    <3>1. \A e \in BOOLEAN : Qualified(e) \in BOOLEAN
      BY DEF Qualified
    <3>2. PICK e \in BOOLEAN :
             summary' = [summary EXCEPT !.override = TRUE, !.qualified = Qualified(e)]
      BY <2>8 DEF ApplicationReturned
    <3>3. UNCHANGED disk
      BY <2>8 DEF ApplicationReturned
    <3> QED
      BY <3>1, <3>2, <3>3, ClaimEdits
  <2>9. CASE \/ Configure \/ Start \/ Inspect \/ OpenSession \/ Recheck \/ SearchRaises \/ Frozen
             \/ Export \/ FinalVerified \/ Seal
    BY <2>9 DEF Configure, Start, Inspect, OpenSession, Recheck, SearchRaises, Frozen, Export,
       FinalVerified, Seal
  <2> QED
    BY <1>2, <2>2, <2>3, <2>4, <2>5, <2>6, <2>7, <2>8, <2>9 DEF Pipeline
<1>3. CASE Ending
  <2>1. UNCHANGED <<signals, expired, evaluations>>
    BY <1>3 DEF Ending, Unwind, CloseSession, Finish, Handle, Finally, Exit
  <2>2. CASE Unwind \/ CloseSession \/ Exit
    BY <2>1, <2>2 DEF Unwind, CloseSession, Exit
  <2>3. CASE Finish
    BY <2>1, <2>3 DEF Finish, Phase, Reports, Late
  <2>4. CASE Handle
    <3>1. Exhausted \in Reports
      BY DEF Exhausted, Reports
    <3>2. [summary EXCEPT !.status = "PREFLIGHT_INCONCLUSIVE"] \in Reports
      BY DEF Reports
    <3> QED
      BY <2>1, <2>4, <3>1, <3>2 DEF Handle
  <2>5. CASE Finally
    <3>1. Retracted \in Reports
      <4> DEFINE status == IF exc = "interrupt" THEN "CANCELLED" ELSE "SYSTEM_ERROR"
      <4>1. status \in {"CANCELLED", "SYSTEM_ERROR"}
        OBVIOUS
      <4>2. Retracted = [summary EXCEPT !.status = status, !.completed = FALSE,
                                        !.qualified = FALSE, !.improved = FALSE]
        BY DEF Retracted
      <4> HIDE DEF status
      <4> QED
        BY <4>1, <4>2 DEF Reports
    <3> QED
      BY <2>1, <2>5, <3>1 DEF Finally
  <2> QED
    BY <1>3, <2>2, <2>3, <2>4, <2>5 DEF Ending
<1>4. CASE SearchWorks
  BY <1>0, <1>4 DEF SearchWorks, Search!Spend
<1>5. CASE TimePasses
  BY <1>5 DEF TimePasses, Tick
<1>6. CASE Interrupt
  BY <1>6 DEF Interrupt
<1>7. CASE Terminated
  BY <1>7 DEF Terminated, vars
<1> QED
  BY <1>1, <1>2, <1>3, <1>4, <1>5, <1>6, <1>7 DEF Next, Step

LEMMA PlacedInductive == Typed /\ Placed /\ [Next]_vars => Placed'
<1> SUFFICES ASSUME Typed, Placed, Next PROVE Placed'
  BY DEF Placed, vars, controlVars, budgetVars, experimentVars, processVars, runnerVars
<1> USE DEF Placed, Untried, Before, Inside, Calling, After, BudgetExceptions
<1>0. MaxEvaluations \in Nat /\ evaluations \in 0..MaxEvaluations
  BY BudgetAssumption DEF Typed
<1>1. CASE RunnerStep
  <2>1. UNCHANGED <<task, session, exit, expired>>
    BY <1>1 DEF RunnerStep, RunCall, ChargeCall, BoundCall, SetTimeout, CallReturns, CallFails,
       VerifyBounded, VerifyFails, experimentVars, processVars
  <2>2. CASE ChargeCall
    <3>1. pc = "call" /\ exc = "none"
      BY <2>2 DEF ChargeCall
    <3>2. \/ pc' = "bound" /\ UNCHANGED exc
          \/ /\ pc' = "throw" /\ exc' \in {"search_limit", "wall_clock", "max_evaluations"}
             /\ exc' = "wall_clock" => expired
             /\ exc' = "max_evaluations" => evaluations' = MaxEvaluations
      BY <1>0, <2>2 DEF ChargeCall, Refusal, Throw, runnerVars
    <3> QED
      BY <2>1, <3>1, <3>2
  <2>3. CASE BoundCall \/ SetTimeout \/ CallReturns \/ VerifyBounded
    BY <2>1, <2>3 DEF BoundCall, SetTimeout, CallReturns, VerifyBounded, Throw, runnerVars
  <2>4. CASE CallFails \/ VerifyFails
    BY <2>1, <2>4 DEF CallFails, VerifyFails, Throw, runnerVars
  <2> QED
    BY <1>1, <2>2, <2>3, <2>4 DEF RunnerStep, RunCall
<1>2. CASE Pipeline
  <2>1. UNCHANGED <<expired, evaluations>>
    BY <1>2 DEF Pipeline, Configure, Start, Preflight, Inspect, OpenSession, Recheck, ProbeReturned,
       BaselineAssessed, SearchReturns, SearchRaises, Frozen, OpenHoldout, Holdout, Export,
       ApplicationReturned, FinalVerified, Seal, Verified, budgetVars, runnerVars
  <2> USE DEF experimentVars, processVars, Throw, Goto, Evaluate, VerifyThen, Verified, Assessed
  <2>2. CASE Configure \/ Start \/ Preflight \/ Inspect
    BY <2>1, <2>2 DEF Configure, Start, Preflight, Inspect
  <2>10. CASE OpenSession
    BY <2>1, <2>10 DEF OpenSession
  <2>11. CASE Recheck
    BY <2>1, <2>11 DEF Recheck, CallTasks
  <2>3. CASE ProbeReturned \/ BaselineAssessed
    BY <2>1, <2>3 DEF ProbeReturned, BaselineAssessed, CallTasks
  <2>4. CASE SearchReturns
    BY <2>1, <2>4 DEF SearchReturns
  <2>5. CASE SearchRaises
    BY <2>1, <2>5 DEF SearchRaises, Search!Failures, Search!Explained
  <2>6. CASE Frozen \/ OpenHoldout
    BY <2>1, <2>6 DEF Frozen, OpenHoldout, CallTasks
  <2>7. CASE Holdout
    BY <2>1, <2>7 DEF Holdout, CallTasks
  <2>8. CASE Export
    BY <2>1, <2>8 DEF Export, CallTasks
  <2>9. CASE ApplicationReturned \/ FinalVerified \/ Seal
    BY <2>1, <2>9 DEF ApplicationReturned, FinalVerified, Seal
  <2> QED
    BY <1>2, <2>2, <2>3, <2>4, <2>5, <2>6, <2>7, <2>8, <2>9, <2>10, <2>11 DEF Pipeline
<1>3. CASE Ending
  <2>1. UNCHANGED <<expired, evaluations, task>>
    BY <1>3 DEF Ending, Unwind, CloseSession, Finish, Handle, Finally, Exit, budgetVars, runnerVars
  <2> USE DEF experimentVars, processVars, Goto
  <2>2. CASE Unwind \/ CloseSession \/ Finish
    BY <2>1, <2>2 DEF Unwind, CloseSession, Finish
  <2>3. CASE Handle \/ Finally
    BY <2>1, <2>3 DEF Handle, Finally
  <2>4. CASE Exit
    BY <2>1, <2>4 DEF Exit, ExitCode
  <2> QED
    BY <1>3, <2>2, <2>3, <2>4 DEF Ending
<1>4. CASE SearchWorks
  BY <1>0, <1>4 DEF SearchWorks, Goto, processVars
<1>5. CASE TimePasses
  BY <1>5 DEF TimePasses, Tick, experimentVars, processVars, runnerVars
<1>6. CASE Interrupt
  BY <1>6 DEF Interrupt, Landing, budgetVars, runnerVars
<1>7. CASE Terminated
  BY <1>7 DEF Terminated, vars, controlVars, budgetVars, experimentVars, processVars, runnerVars
<1> QED
  BY <1>1, <1>2, <1>3, <1>4, <1>5, <1>6, <1>7 DEF Next, Step

(* Most steps leave alone what has been measured, and what is written of it. *)
Measured == <<before, champion, measured, confirm, holdout>>

LEMMA MeritedInductive == Typed /\ Placed /\ Merited /\ Told /\ [Next]_vars => Merited'
<1> SUFFICES ASSUME Typed, Placed, Merited, Told, Next PROVE Merited'
  BY DEF Merited, Merits, vars, controlVars, searchVars, frozenVars, experimentVars, reportVars,
     processVars
<1> USE DEF Measured, experimentVars, searchVars, frozenVars, reportVars, processVars, Throw, Goto
<1>0. /\ summary \in Reports /\ disk \in Reports
      /\ pc \notin After => ~disk.qualified /\ ~summary.completed
      /\ summary.qualified => task = "final"
      /\ pc \in Before \union {"recheck"} => task = "none"
      /\ pc = "searching" => task = "baseline"
  BY DEF Typed, Placed, Merited
<1>1. ASSUME UNCHANGED <<Measured, reportVars, task>>,
             UNCHANGED session \/ pc \notin After, pc \in After => pc' \in After
      PROVE  Merited'
  BY <1>0, <1>1 DEF Merited, Merits
<1>2. CASE RunnerStep
  <2>1. UNCHANGED task /\ pc \notin After
    BY <1>2 DEF RunnerStep, RunCall, ChargeCall, BoundCall, SetTimeout, CallReturns, CallFails,
       VerifyBounded, VerifyFails, After
  <2> QED
    BY <1>1, <1>2, <2>1 DEF RunnerStep
<1>3. CASE \/ Configure \/ Start \/ Inspect \/ OpenSession \/ SearchRaises \/ FinalVerified \/ Seal
           \/ Unwind \/ CloseSession \/ TimePasses \/ Exit
  <2>1. UNCHANGED <<Measured, reportVars, task>>
    BY <1>3 DEF Configure, Start, Inspect, OpenSession, SearchRaises, FinalVerified, Seal, Unwind,
       CloseSession, TimePasses, Tick, Exit, Verified
  <2>2. UNCHANGED session \/ pc \notin After
    BY <1>3 DEF Configure, Start, Inspect, OpenSession, SearchRaises, FinalVerified, Seal, Unwind,
       CloseSession, TimePasses, Exit, After
  <2>3. pc \in After => pc' \in After
    BY <1>3 DEF Configure, Start, Inspect, OpenSession, SearchRaises, FinalVerified, Seal, Unwind,
       CloseSession, TimePasses, Tick, Exit, After, Verified
  <2> QED
    BY <1>1, <2>1, <2>2, <2>3
<1>4. CASE Interrupt
  <2>1. UNCHANGED <<Measured, reportVars, task>>
    BY <1>4 DEF Interrupt
  <2>2. UNCHANGED session \/ pc \notin After
    BY <1>4 DEF Interrupt, After
  <2>3. pc \in After => pc' \in After
    BY <1>4 DEF Interrupt, Landing, After
  <2> QED
    BY <1>1, <2>1, <2>2, <2>3
<1>5. CASE Terminated
  BY <1>1, <1>5 DEF Terminated, vars, controlVars
<1>6. CASE Preflight
  BY <1>0, <1>6 DEF Preflight, Phase, Merited, Untried, Before, ChampionTasks, HoldoutTasks, After, Reports
<1>7. CASE Recheck \/ ProbeReturned
  BY <1>0, <1>7 DEF Recheck, ProbeReturned, Phase, Merited, Untried, Before, ChampionTasks, HoldoutTasks,
     After, Reports, Evaluate, Assessed
<1>8. CASE BaselineAssessed
  BY <1>0, <1>8 DEF BaselineAssessed, Phase, Merited, ChampionTasks, HoldoutTasks, After, Reports,
     Assessed
<1>9. CASE SearchWorks
  BY <1>0, <1>9 DEF SearchWorks, Merited, ChampionTasks, HoldoutTasks, After
<1>10. CASE SearchReturns
  <2>1. /\ pc = "searching" /\ pc' = "verify" /\ UNCHANGED champion
        /\ task' \in {"confirm", "final"} /\ (task' = "confirm" => champion # Baseline)
    BY <1>10 DEF SearchReturns, VerifyThen
  <2>2. /\ summary'.improved = summary.improved /\ summary'.qualified = summary.qualified
        /\ summary'.completed = summary.completed
    BY <1>0, <1>10 DEF SearchReturns, Phase, Reports
  <2>3. disk' = disk \/ disk' = summary'
    BY <1>10 DEF SearchReturns, Phase
  <2>4. ~summary'.improved /\ ~summary'.qualified /\ ~summary'.completed /\ ~disk'.qualified
    BY <1>0, <2>1, <2>2, <2>3 DEF Merited, After
  <2> QED
    BY <2>1, <2>4 DEF Merited, ChampionTasks, HoldoutTasks
<1>11. CASE Frozen
  BY <1>0, <1>11 DEF Frozen, Merited, ChampionTasks, HoldoutTasks, After, Verified, Evaluate,
     Assessed
<1>12. CASE OpenHoldout
  BY <1>0, <1>12 DEF OpenHoldout, Merited, ChampionTasks, HoldoutTasks, After, Reports, Late,
     VerifyThen, Assessed
<1>13. CASE Holdout
  <2>1. /\ pc \in {"probing", "call"} /\ pc' \in {"call", "exporting"} /\ UNCHANGED champion
        /\ task \in {"holdout", "holdout_before", "holdout_after"}
        /\ task' \in {"holdout_before", "holdout_after"}
        /\ pc' = "exporting" \/ task = "holdout_after" => task' = "holdout_after"
    BY <1>13 DEF Holdout, Verified, Evaluate, Assessed
  <2>2. \/ UNCHANGED <<summary, disk>>
        \/ /\ pc' = "exporting" /\ disk' = summary' /\ summary'.phase = "application-verification"
           /\ summary'.holdoutUsed = summary.holdoutUsed
           /\ summary'.qualified = summary.qualified
           /\ summary'.completed = summary.completed
    BY <1>0, <1>13 DEF Holdout, Phase, Reports
  <2> QED
    BY <1>0, <2>1, <2>2 DEF Merited, ChampionTasks, HoldoutTasks, After, Late
<1>14. CASE Export
  BY <1>0, <1>14 DEF Export, Merited, Placed, ChampionTasks, HoldoutTasks, After, Evaluate
<1>15. CASE ApplicationReturned
  BY <1>0, <1>15 DEF ApplicationReturned, Merited, Merits, Qualified, ChampionTasks, HoldoutTasks,
     After, Reports, VerifyThen, Assessed
<1>16. CASE Finish
  BY <1>0, <1>16 DEF Finish, Phase, Placed, Merited, Merits, ChampionTasks, HoldoutTasks,
     After, Reports
<1>17. CASE Handle
  BY <1>0, <1>17 DEF Handle, Exhausted, Merited, Merits, ChampionTasks, HoldoutTasks, After, Reports
<1>18. CASE Finally
  <2>1. /\ UNCHANGED <<Measured, task, session>> /\ pc = "finally" /\ pc' = "cli"
        /\ disk' \in {disk, summary'}
    BY <1>18 DEF Finally
  <2>2. CASE exc = "none"
    <3>1. UNCHANGED summary
      BY <1>18, <2>2 DEF Finally
    <3>2. summary.qualified => summary.completed /\ session = "closed"
      BY <2>1, <2>2 DEF Told, Verdict3, Nothing
    <3> QED
      BY <2>1, <3>1, <3>2 DEF Merited, Merits, After
  <2>3. CASE exc # "none"
    <3>1. /\ ~summary'.qualified /\ ~summary'.improved /\ ~summary'.completed
          /\ summary'.phase = summary.phase /\ summary'.holdoutUsed = summary.holdoutUsed
      BY <1>0, <1>18, <2>3 DEF Finally, Retracted, Reports
    <3> QED
      BY <2>1, <3>1 DEF Merited, Merits, After
  <2> QED
    BY <2>2, <2>3
<1> QED
  BY <1>2, <1>3, <1>4, <1>5, <1>6, <1>7, <1>8, <1>9, <1>10, <1>11, <1>12, <1>13, <1>14, <1>15,
     <1>16, <1>17, <1>18 DEF Next, Step, Pipeline, Ending

LEMMA ToldInductive == Typed /\ Placed /\ Merited /\ Told /\ [Next]_vars => Told'
<1> SUFFICES ASSUME Typed, Placed, Merited, Told, Next PROVE Told'
  BY DEF Told, Verdict3, Blank, Nothing, vars, controlVars, budgetVars, experimentVars, reportVars,
     processVars, runnerVars
<1> USE DEF After, experimentVars, reportVars, processVars, budgetVars, runnerVars, Throw, Goto
<1>0. /\ summary \in Reports /\ disk \in Reports
      /\ pc \notin After => summary.status = "RUNNING" /\ ~summary.completed
      /\ signals > 0 /\ cut \notin {"finally", "cli"} =>
            exc \in {"interrupt", "base_exception_group", "unwritten"}
      /\ cut = "start" => pc \in {"cli", "exited"}
      /\ exc # "none" => pc \in {"throw", "closing"} \union After
      /\ signals \in Nat
  BY DEF Typed, Placed, Merited, Told
(* A step of the pipeline that does not fail leaves no trace but the summary. *)
<1>1. ASSUME pc \notin After, pc' \notin After \union Untried, summary'.status = summary.status,
             UNCHANGED <<signals, cut>>, UNCHANGED exc \/ exc = "none"
      PROVE  Told'
  BY <1>0, <1>1 DEF Told, Untried
<1>2. CASE RunnerStep
  <2>1. /\ pc \in {"call", "bound", "timeout", "running", "verify", "probing"}
        /\ pc' \in {"bound", "timeout", "running", "call", "probing", "throw"}
    BY <1>2 DEF RunnerStep, RunCall, ChargeCall, BoundCall, SetTimeout, CallReturns, CallFails,
       VerifyBounded, VerifyFails
  <2> QED
    BY <1>0, <1>1, <1>2, <2>1 DEF RunnerStep, Untried
<1>3. CASE Configure
  BY <1>0, <1>3 DEF Configure, Told, Blank, Nothing, Placed, Untried, Before
<1>4. CASE Start
  BY <1>0, <1>4 DEF Start, Told, Blank, Nothing, Placed, Untried, Before
<1>18. CASE Preflight
  BY <1>0, <1>18 DEF Preflight, Phase, Told, Reports, Placed, Untried, Before
<1>5. CASE Inspect
  BY <1>0, <1>5 DEF Inspect, Told, Placed, Untried, Before
<1>6. CASE OpenSession
  BY <1>0, <1>1, <1>6 DEF OpenSession, Untried
<1>7. CASE Recheck \/ SearchRaises \/ FinalVerified \/ Seal \/ Export \/ SearchWorks
  <2>1. /\ pc \in {"recheck", "searching", "probing", "sealing", "exporting", "composing"}
        /\ pc' \in {"call", "throw", "sealing", "closing", "composing", "searching"}
        /\ UNCHANGED <<summary, signals, cut>>
    BY <1>7 DEF Recheck, SearchRaises, FinalVerified, Seal, Export, SearchWorks, Verified, Evaluate
  <2> QED
    BY <1>0, <1>1, <2>1 DEF Untried
<1>8. CASE ProbeReturned \/ BaselineAssessed \/ SearchReturns \/ Frozen \/ OpenHoldout \/ Holdout
           \/ ApplicationReturned
  <2>1. /\ pc \in {"call", "searching", "probing"}
        /\ pc' \in {"call", "throw", "searching", "verify", "exporting"}
        /\ UNCHANGED <<signals, cut>>
    BY <1>8 DEF ProbeReturned, BaselineAssessed, SearchReturns, Frozen, OpenHoldout, Holdout,
       ApplicationReturned, Verified, Evaluate, Assessed, VerifyThen
  <2>2. summary'.status = summary.status
    BY <1>0, <1>8 DEF ProbeReturned, BaselineAssessed, SearchReturns, Frozen, OpenHoldout, Holdout,
       ApplicationReturned, Phase, Reports
  <2> QED
    BY <1>0, <1>1, <2>1, <2>2 DEF Untried
<1>9. CASE Unwind
  BY <1>0, <1>9 DEF Unwind, Told, Untried
<1>10. CASE CloseSession
  BY <1>0, <1>10 DEF CloseSession, Told, Placed, Untried
<1>11. CASE Finish
  BY <1>0, <1>11 DEF Finish, Phase, Told, Reports, Placed, Untried
<1>12. CASE Handle
  <2>1. CASE exc = "none"
    BY <1>0, <1>12, <2>1 DEF Handle, Untried, Told, Verdict3, Placed, BudgetExceptions, Reports
  <2>2. CASE exc = "inconclusive"
    BY <1>0, <1>12, <2>2 DEF Handle, Untried, Told, Verdict3, Nothing, Placed, Merited, Reports
  <2>3. CASE exc \in BudgetExceptions
    BY <1>0, <1>12, <2>3 DEF Handle, Untried, Exhausted, Told, Verdict3, Placed, BudgetExceptions, Reports
  <2>4. CASE exc \notin BudgetExceptions \union {"none", "inconclusive"}
    BY <1>0, <1>12, <2>4 DEF Handle, Untried, Told
  <2> QED
    BY <2>1, <2>2, <2>3, <2>4
<1>13. CASE Finally
  <2>1. CASE exc = "none"
    BY <1>0, <1>13, <2>1 DEF Finally, Untried, Told, Verdict3
  <2>2. CASE exc # "none"
    <3>1. /\ summary'.status = IF exc = "interrupt" THEN "CANCELLED" ELSE "SYSTEM_ERROR"
          /\ ~summary'.completed /\ ~summary'.qualified /\ ~summary'.improved
      BY <1>0, <1>13, <2>2 DEF Finally, Retracted, Reports
    <3>2. /\ pc = "finally" /\ pc' = "cli" /\ UNCHANGED <<signals, cut>>
          /\ (disk' = summary' /\ UNCHANGED exc) \/ exc' = "unwritten"
      BY <1>13 DEF Finally
    <3>3. exc # "unstarted" /\ cut # "start"
      BY <1>0, <3>2 DEF Placed, Told
    <3>4. CASE exc' = "unwritten"
      BY <1>0, <3>2, <3>3, <3>4 DEF Told, Untried
    <3>5. CASE disk' = summary' /\ UNCHANGED exc
      BY <1>0, <2>2, <3>1, <3>2, <3>3, <3>5 DEF Told, Nothing, Untried, Blank
    <3> QED
      BY <3>2, <3>4, <3>5
  <2> QED
    BY <2>1, <2>2
<1>14. CASE Exit
  BY <1>0, <1>14 DEF Exit, Untried, Told, Blank, Nothing
<1>15. CASE TimePasses
  BY <1>0, <1>15 DEF TimePasses, Tick, Told, Verdict3, Blank, Nothing
<1>16. CASE Interrupt
  <2>1. /\ exc' = "interrupt" /\ cut' = pc /\ pc' = Landing /\ UNCHANGED <<summary, disk>>
    BY <1>16 DEF Interrupt
  <2>2. \/ pc \in {"finally", "cli"} /\ pc' = "cli"
        \/ pc = "start" /\ pc' = "cli" /\ UNCHANGED session /\ session = "none" /\ Blank
        \/ pc \notin {"start", "finally", "cli"} /\ pc' \in {"handling", "closing", "throw"}
    BY <1>16, <2>1 DEF Interrupt, Landing, Placed, Told, Untried, Before
  <2>3. pc' \notin After => pc \notin After
    BY <1>16, <2>1 DEF Interrupt, Landing
  <2> QED
    BY <1>0, <2>1, <2>2, <2>3 DEF Told, Untried, Blank, Nothing
<1>17. CASE Terminated
  BY <1>17 DEF Terminated, vars, controlVars, Told, Verdict3, Blank, Nothing
<1> QED
  BY <1>2, <1>3, <1>4, <1>5, <1>6, <1>7, <1>8, <1>9, <1>10, <1>11, <1>12, <1>13, <1>14, <1>15,
     <1>16, <1>17, <1>18 DEF Next, Step, Pipeline, Ending

(* What the exit code says is what the last state before it says. *)
LEMMA EndedInductive == Typed /\ Placed /\ Merited /\ Told /\ Ended /\ [Next]_vars => Ended'
<1> SUFFICES ASSUME Typed, Placed, Merited, Told, Ended, Next, pc' = "exited" PROVE Ended'
  BY DEF Ended, ExitMatchesSummary, CancellationIsRecorded, ExhaustionIsReal, vars, controlVars,
     budgetVars, experimentVars, reportVars, processVars, runnerVars
<1> USE DEF ExitMatchesSummary, CancellationIsRecorded, ExhaustionIsReal, experimentVars,
         reportVars, processVars, budgetVars, runnerVars, Goto
<1>0. evaluations <= MaxEvaluations
  BY BudgetAssumption DEF Typed
<1>1. CASE Configure
  BY <1>0, <1>1 DEF Configure, Ended, Told, Placed, Untried, Before, Inside, Calling, After
<1>2. CASE Exit
  <2>1. /\ pc = "cli" /\ UNCHANGED <<exc, disk, session, signals, cut, expired, evaluations>>
        /\ exit' = ExitCode /\ session # "open"
    BY <1>2 DEF Exit, Placed, Inside, Calling
  <2>2. CASE exc = "none"
    BY <1>0, <2>1, <2>2 DEF ExitCode, Told, Verdict3, Nothing, Ended, Merited
  <2>3. CASE exc = "interrupt"
    <3>1. exit' = "130"
      BY <2>1, <2>3 DEF ExitCode
    <3>2. cut \notin {"start", "finally", "cli"} => disk.status = "CANCELLED" /\ Nothing(disk)
      BY <2>1, <2>3 DEF Told
    <3>3. cut = "start" => Blank /\ session = "none"
      BY DEF Told
    <3> QED
      BY <1>0, <2>1, <2>3, <3>1, <3>2, <3>3 DEF Ended, Nothing, Blank
  <2>4. CASE exc \notin {"none", "interrupt"}
    <3>1. exit' = IF exc = "base_exception_group" THEN "traceback" ELSE "1"
      BY <2>1, <2>4 DEF ExitCode
    <3>2. exc \notin {"unstarted", "unwritten"} => disk.status = "SYSTEM_ERROR" /\ Nothing(disk)
      BY <2>1, <2>4 DEF Told
    <3>3. exc = "unstarted" => Blank
      BY <2>1 DEF Told
    <3>4. exc = "base_exception_group" => session = "unclean"
      BY DEF Placed
    <3>5. signals > 0 /\ cut \notin {"finally", "cli"} =>
             exc \in {"base_exception_group", "unwritten"}
      BY <2>4 DEF Told
    <3> QED
      BY <1>0, <2>1, <2>4, <3>1, <3>2, <3>3, <3>4, <3>5 DEF Ended, Nothing, Blank
  <2> QED
    BY <2>2, <2>3, <2>4
<1>3. CASE Terminated
  BY <1>3 DEF Terminated, Ended, vars, controlVars
<1>4. CASE ~Configure /\ ~Exit /\ ~Terminated
  <2>1. ~RunnerStep
    BY DEF RunnerStep, RunCall, ChargeCall, BoundCall, SetTimeout, CallReturns, CallFails,
       VerifyBounded, VerifyFails, Throw
  <2>2. ~Interrupt /\ ~TimePasses /\ ~SearchWorks
    BY DEF Interrupt, Landing, TimePasses, Tick, SearchWorks
  <2>3. ~(Pipeline /\ ~Configure)
    BY DEF Pipeline, Start, Preflight, Inspect, OpenSession, Recheck, ProbeReturned, BaselineAssessed,
       SearchReturns, SearchRaises, Frozen, OpenHoldout, Holdout, Export, ApplicationReturned,
       FinalVerified, Seal, Verified, Evaluate, VerifyThen, Throw
  <2>4. ~(Ending /\ ~Exit)
    BY DEF Ending, Unwind, CloseSession, Finish, Handle, Finally
  <2> QED
    BY <1>4, <2>1, <2>2, <2>3, <2>4 DEF Next, Step
<1> QED
  BY <1>1, <1>2, <1>3, <1>4

LEMMA Inductive == IInv /\ [Next]_vars => IInv'
BY TypedInductive, PlacedInductive, MeritedInductive, ToldInductive, EndedInductive DEF IInv

LEMMA Invariant == Spec => []IInv
BY InitHolds, Inductive, PTL DEF Spec

---------------------------------------------------------------------------
(* Whatever fails, however often the run is interrupted, and whatever was  *)
(* measured: an exit code of 0, 1 or 3 says what the file says, and no end *)
(* leaves the session open.                                                *)
THEOREM ExitAlwaysMatches == Spec => []ExitMatchesSummary
<1>1. IInv => ExitMatchesSummary
  <2> SUFFICES ASSUME IInv PROVE ExitMatchesSummary
    OBVIOUS
  <2>1. CASE pc = "exited"
    BY <2>1 DEF IInv, Ended
  <2>2. CASE pc # "exited"
    BY <2>2 DEF IInv, Placed, Inside, Calling, ExitMatchesSummary
  <2> QED
    BY <2>1, <2>2
<1> QED
  BY <1>1, Invariant, PTL

(* At no moment does the file claim a qualification that the three paired  *)
(* comparisons of its champion do not carry.                               *)
THEOREM QualifiedAlwaysEarned == Spec => []QualifiedIsEarned
<1>1. IInv => QualifiedIsEarned
  BY DEF IInv, Merited, Merits, QualifiedIsEarned
<1> QED
  BY <1>1, Invariant, PTL

(* Killed at any point, a run that may have shown the holdout says so. *)
THEOREM HoldoutAlwaysTraced == Spec => []HoldoutLeavesTrace
<1>1. IInv => HoldoutLeavesTrace
  BY DEF IInv, Merited, HoldoutTasks, ChampionTasks, Late, HoldoutLeavesTrace
<1> QED
  BY <1>1, Invariant, PTL

(* No other end is reported as an exhausted budget. *)
THEOREM ExhaustionAlwaysReal == Spec => []ExhaustionIsReal
<1>1. IInv => ExhaustionIsReal
  <2> SUFFICES ASSUME IInv PROVE ExhaustionIsReal
    OBVIOUS
  <2>1. evaluations <= MaxEvaluations
    BY BudgetAssumption DEF IInv, Typed
  <2>2. CASE pc = "exited"
    BY <2>2 DEF IInv, Ended
  <2>3. CASE pc # "exited"
    BY <2>1, <2>3 DEF IInv, Placed, ExhaustionIsReal
  <2> QED
    BY <2>2, <2>3
<1> QED
  BY <1>1, Invariant, PTL

(* However many signals arrive, and whatever else fails: one that comes    *)
(* before the last finally ends the run with 130 and CANCELLED, with 130   *)
(* and no file if the try was not reached, or, if the cleanup fails too,   *)
(* with a traceback and SYSTEM_ERROR; never with a claim, and never as an  *)
(* end the run could have come to by itself.                               *)
THEOREM CancellationAlwaysRecorded == Spec => []CancellationIsRecorded
<1>1. IInv => CancellationIsRecorded
  BY DEF IInv, Ended, CancellationIsRecorded
<1> QED
  BY <1>1, Invariant, PTL

---------------------------------------------------------------------------
(* The file keeps the promise of SummaryFile. *)

(* How far the file is, by what is being done; and what it says when the   *)
(* pipeline is over and the last write is still to come.                   *)
FileAt ==
    /\ \/ disk.phase = summary.phase
       \/ disk.phase = "none" /\ summary.phase = "preflight" /\ task = "none"
    /\ pc \in Inside \union {"inspect", "opening", "finish"} => disk.phase = summary.phase
    /\ pc \notin After => disk.status = "RUNNING" /\ disk.improved = summary.improved
    /\ summary.phase # "none"
    /\ task \in {"none", "probe"} => summary.phase = "preflight"
    /\ pc \in Calling /\ task = "baseline" => summary.phase = "baseline"
    /\ pc = "searching" => summary.phase = "search"
    /\ task \in {"confirm", "confirm_before", "confirm_after"} => summary.phase = "frozen-validation"
    /\ task \in {"holdout", "holdout_before"} => summary.phase = "holdout"
    /\ pc \in Calling /\ task = "holdout_after" => summary.phase = "holdout"
    /\ pc \in {"exporting", "composing"} \/ task = "application" =>
          summary.phase = "application-verification"
    /\ pc \notin After /\ task = "final" =>
          /\ summary.phase \in {"search", "application-verification"}
          /\ summary.qualified => summary.phase = "application-verification"
    /\ pc \in {"handling", "finally"} =>
          \/ disk.status = "RUNNING"
          \/ disk.status \in {"QUALIFIED", "NOT_CONVERGED"} /\ disk.phase = "finished"
    /\ pc = "handling" /\ exc = "none" => disk = summary
    /\ pc = "handling" /\ exc \notin {"none", "interrupt"} => disk.status = "RUNNING"
    /\ pc = "finally" /\ exc = "none" =>
          \/ disk = summary
          \/ /\ disk.status = "RUNNING" /\ Nothing(summary)
             /\ summary.status \in {"NOT_CONVERGED", "PREFLIGHT_INCONCLUSIVE"}
             /\ summary.status = "PREFLIGHT_INCONCLUSIVE" => summary.phase = "preflight"

LEMMA InitFileAt == Init => FileAt
BY DEF Init, FileAt, FreshSummary, Inside, Calling, After

LEMMA FileInductive == IInv /\ FileAt /\ [Next]_vars => FileAt'
<1> SUFFICES ASSUME Typed, Placed, Merited, Told, FileAt, Next PROVE FileAt'
  BY DEF IInv, FileAt, Nothing, vars, controlVars, experimentVars, reportVars
<1> USE DEF Untried, Before, After, Inside, Calling, experimentVars, reportVars, Throw, Goto
<1>0. /\ summary \in Reports /\ disk \in Reports
      /\ pc \notin After => summary.status = "RUNNING" /\ ~summary.completed
  BY DEF Typed, Merited, Told
<1>1. CASE RunnerStep
  <2>1. /\ pc \in Calling \union {"verify", "probing"} /\ UNCHANGED <<task, summary, disk>>
        /\ pc' \in Inside \ {"searching", "exporting", "composing"}
        /\ pc' \in Calling => pc \in Calling
    BY <1>1 DEF RunnerStep, RunCall, ChargeCall, BoundCall, SetTimeout, CallReturns, CallFails,
       VerifyBounded, VerifyFails
  <2> QED
    BY <2>1 DEF FileAt
<1>2. CASE Configure \/ Start \/ Inspect \/ OpenSession \/ Recheck
  BY <1>2 DEF Configure, Start, Inspect, OpenSession, Recheck, FileAt, Placed, Evaluate
<1>3. CASE Preflight
  BY <1>0, <1>3 DEF Preflight, Phase, Reports, FileAt, Placed
<1>4. CASE ProbeReturned
  BY <1>0, <1>4 DEF ProbeReturned, Phase, Reports, FileAt, Evaluate, Assessed
<1>5. CASE BaselineAssessed
  BY <1>0, <1>5 DEF BaselineAssessed, Phase, Reports, FileAt, Assessed
<1>6. CASE SearchWorks \/ SearchRaises
  BY <1>6 DEF SearchWorks, SearchRaises, FileAt, Placed
<1>7. CASE SearchReturns
  <2>1. /\ pc = "searching" /\ task = "baseline" /\ pc' = "verify" /\ ~summary.qualified
        /\ summary.phase = "search"
    BY <1>7 DEF SearchReturns, VerifyThen, Placed, Merited, FileAt
  <2>2. \/ task' = "confirm" /\ disk' = summary' /\ summary'.phase = "frozen-validation"
        \/ task' = "final" /\ UNCHANGED disk /\ summary'.phase = summary.phase
    BY <1>0, <1>7 DEF SearchReturns, VerifyThen, Phase, Reports
  <2>3. /\ summary'.improved = summary.improved /\ summary'.qualified = summary.qualified
        /\ summary'.status = summary.status
    BY <1>0, <1>7 DEF SearchReturns, Phase, Reports
  <2> QED
    BY <1>0, <2>1, <2>2, <2>3 DEF FileAt
<1>8. CASE Frozen
  BY <1>8 DEF Frozen, FileAt, Verified, Evaluate, Assessed
<1>9. CASE OpenHoldout
  BY <1>0, <1>9 DEF OpenHoldout, Reports, FileAt, VerifyThen, Assessed
<1>10. CASE Holdout
  <2>1. \/ /\ task \in {"holdout", "holdout_before"} /\ pc' = "call" /\ UNCHANGED <<summary, disk>>
           /\ task' \in {"holdout_before", "holdout_after"} /\ pc \in {"probing", "call"}
        \/ /\ task = "holdout_after" /\ UNCHANGED task /\ pc' = "exporting" /\ disk' = summary'
           /\ summary'.phase = "application-verification" /\ summary'.status = summary.status
           /\ pc = "call"
    BY <1>0, <1>10 DEF Holdout, Phase, Reports, Verified, Evaluate, Assessed
  <2> QED
    BY <1>0, <2>1 DEF FileAt
<1>11. CASE Export
  BY <1>11 DEF Export, FileAt, Placed, Evaluate
<1>12. CASE ApplicationReturned
  <2>1. /\ pc = "call" /\ task = "application" /\ pc' = "verify" /\ task' = "final"
        /\ UNCHANGED disk
    BY <1>12 DEF ApplicationReturned, Assessed, VerifyThen
  <2>2. summary'.phase = summary.phase /\ summary'.improved = summary.improved
    BY <1>0, <1>12 DEF ApplicationReturned, Reports
  <2> QED
    BY <2>1, <2>2 DEF FileAt
<1>13. CASE FinalVerified \/ Seal \/ Unwind \/ CloseSession
  BY <1>13 DEF FinalVerified, Seal, Unwind, CloseSession, Verified, FileAt, Placed
<1>14. CASE Finish
  BY <1>0, <1>14 DEF Finish, Phase, Reports, FileAt, Placed
<1>15. CASE Handle
  <2>1. /\ pc = "handling" /\ pc' = "finally" /\ UNCHANGED <<task, disk>>
        /\ summary'.phase = summary.phase
    BY <1>0, <1>15 DEF Handle, Exhausted, Reports
  <2>2. exc' = "none" =>
           \/ exc = "none" /\ UNCHANGED summary
           \/ /\ exc = "inconclusive" /\ summary'.status = "PREFLIGHT_INCONCLUSIVE"
              /\ summary'.improved = summary.improved /\ summary'.qualified = summary.qualified
              /\ summary'.completed = summary.completed
           \/ /\ exc \in BudgetExceptions /\ summary'.status = "NOT_CONVERGED"
              /\ ~summary'.improved /\ ~summary'.qualified /\ summary'.completed = summary.completed
    BY <1>0, <1>15 DEF Handle, Exhausted, Reports
  <2>3. exc \in BudgetExceptions \union {"inconclusive"} => disk.status = "RUNNING" /\ ~summary.completed
    BY <2>1 DEF FileAt, Told, BudgetExceptions
  <2>4. exc = "inconclusive" =>
           summary.phase = "preflight" /\ ~summary.improved /\ ~summary.qualified
    BY DEF Placed, Merited, FileAt
  <2> QED
    BY <2>1, <2>2, <2>3, <2>4 DEF FileAt, Nothing
<1>16. CASE Finally
  <2>1. /\ pc = "finally" /\ pc' = "cli" /\ UNCHANGED task /\ disk' \in {disk, summary'}
        /\ summary'.phase = summary.phase
    BY <1>0, <1>16 DEF Finally, Retracted, Reports
  <2> QED
    BY <2>1 DEF FileAt
<1>17. CASE Exit \/ TimePasses
  BY <1>17 DEF Exit, TimePasses, Tick, FileAt, Nothing
<1>18. CASE Interrupt
  BY <1>0, <1>18 DEF Interrupt, Landing, FileAt, Placed
<1>19. CASE Terminated
  BY <1>19 DEF Terminated, vars, controlVars, FileAt, Nothing
<1> QED
  BY <1>1, <1>2, <1>3, <1>4, <1>5, <1>6, <1>7, <1>8, <1>9, <1>10, <1>11, <1>12, <1>13, <1>14, <1>15,
     <1>16, <1>17, <1>18, <1>19 DEF Next, Step, Pipeline, Ending

LEMMA Positions ==
    /\ \A i \in 1..8 : File!Position(File!Phases[i]) = i
    /\ File!Phases[1] = "none"
    /\ File!Phases[2] = "preflight" /\ File!Phases[3] = "baseline" /\ File!Phases[4] = "search"
    /\ File!Phases[5] = "frozen-validation" /\ File!Phases[6] = "holdout"
    /\ File!Phases[7] = "application-verification"
    /\ File!Position("none") = 1 /\ File!Position("preflight") = 2
    /\ File!Position("baseline") = 3 /\ File!Position("search") = 4
    /\ File!Position("frozen-validation") = 5 /\ File!Position("holdout") = 6
<1>1. \A i \in 1..8 : File!Position(File!Phases[i]) = i
  BY DEF File!Position, File!Phases
<1>2. /\ File!Phases[1] = "none"
      /\ File!Phases[2] = "preflight" /\ File!Phases[3] = "baseline" /\ File!Phases[4] = "search"
      /\ File!Phases[5] = "frozen-validation" /\ File!Phases[6] = "holdout"
      /\ File!Phases[7] = "application-verification"
  BY DEF File!Phases
<1> QED
  BY <1>1, <1>2

(* Every step that writes the file is one of SummaryFile. *)
LEMMA FileSteps == IInv /\ FileAt /\ [Next]_vars => [File!FileNext]_(File!fileVars)
<1> SUFFICES ASSUME Typed, Placed, Merited, Told, FileAt, Next
             PROVE  File!FileNext \/ UNCHANGED File!fileVars
  BY DEF IInv, vars, experimentVars, reportVars, File!fileVars
<1> USE DEF experimentVars, reportVars, Throw, Goto, After
<1>0. /\ summary \in Reports /\ disk \in Reports
      /\ pc \notin After => summary.status = "RUNNING" /\ ~summary.completed /\ ~disk.qualified
      /\ pc \notin After => disk.status = "RUNNING" /\ disk.improved = summary.improved
      /\ summary.qualified => task = "final"
      /\ summary.improved => task \in {"holdout_after", "application", "final"}
  BY DEF Typed, Merited, Told, FileAt
<1>1. ASSUME NEW from \in 1..6, pc \notin After, disk.phase = File!Phases[from],
             disk'.phase = File!Phases[from + 1], disk'.status = "RUNNING", ~disk'.qualified,
             disk'.improved => disk'.phase = "application-verification"
      PROVE  File!FileNext
  BY <1>0, <1>1, Positions DEF File!FileNext, File!Advance
<1>2. ASSUME UNCHANGED disk PROVE UNCHANGED File!fileVars
  BY <1>2 DEF File!fileVars
<1>3. CASE Preflight
  <2>1. pc = "preflight" /\ task = "none" /\ (UNCHANGED disk \/ disk' = [summary EXCEPT !.phase = "preflight"])
    BY <1>3 DEF Preflight, Phase, Placed, Untried, Before
  <2>2. CASE disk' = [summary EXCEPT !.phase = "preflight"]
    <3>1. /\ disk'.phase = "preflight" /\ disk'.status = "RUNNING"
          /\ ~disk'.improved /\ ~disk'.qualified
      BY <1>0, <2>1, <2>2 DEF Reports
    <3>2. disk.phase \in {"none", "preflight"}
      BY <2>1 DEF FileAt
    <3>3. CASE disk.phase = "none"
      BY <1>1, <2>1, <3>1, <3>3, Positions
    <3>4. CASE disk.phase = "preflight"
      BY <1>0, <2>1, <3>1, <3>4 DEF File!fileVars, Reports
    <3> QED
      BY <3>2, <3>3, <3>4
  <2> QED
    BY <1>2, <2>1, <2>2
<1>4. CASE ProbeReturned \/ BaselineAssessed \/ SearchReturns
  <2>1. UNCHANGED disk \/ disk' = summary'
    BY <1>4 DEF ProbeReturned, BaselineAssessed, SearchReturns, Phase
  <2>2. CASE disk' = summary' /\ disk' # disk
    <3>1. /\ disk'.status = "RUNNING" /\ ~disk'.improved /\ ~disk'.qualified
          /\ pc \in {"call", "searching"}
      BY <1>0, <1>4, <2>2 DEF ProbeReturned, BaselineAssessed, SearchReturns, Phase, Assessed,
         Reports, Placed
    <3>2. \/ disk.phase = "preflight" /\ disk'.phase = "baseline"
          \/ disk.phase = "baseline" /\ disk'.phase = "search"
          \/ disk.phase = "search" /\ disk'.phase = "frozen-validation"
      BY <1>0, <1>4, <2>2 DEF ProbeReturned, BaselineAssessed, SearchReturns, Phase, Assessed,
         Reports, FileAt, Inside, Calling
    <3> QED
      BY <1>1, <3>1, <3>2, Positions
  <2> QED
    BY <1>2, <2>1, <2>2
<1>5. CASE OpenHoldout
  <2>1. /\ pc = "call" /\ task = "confirm_after" /\ disk' = [summary EXCEPT !.phase = "holdout"]
    BY <1>5 DEF OpenHoldout, Assessed
  <2>2. /\ disk'.phase = "holdout" /\ disk'.status = "RUNNING"
        /\ ~disk'.improved /\ ~disk'.qualified /\ disk.phase = "frozen-validation"
    BY <1>0, <2>1 DEF Reports, FileAt, Inside, Calling
  <2> QED
    BY <1>1, <2>1, <2>2, Positions
<1>6. CASE Holdout
  <2>1. \/ UNCHANGED disk
        \/ /\ pc = "call" /\ task = "holdout_after" /\ disk' = summary'
           /\ summary'.phase = "application-verification" /\ summary'.status = summary.status
           /\ summary'.qualified = summary.qualified
    BY <1>0, <1>6 DEF Holdout, Phase, Reports, Assessed
  <2>2. CASE pc = "call" /\ task = "holdout_after" /\ disk' # disk
    <3>1. disk.phase = "holdout"
      BY <2>2 DEF FileAt, Inside, Calling
    <3> QED
      BY <1>0, <1>1, <2>1, <2>2, <3>1, Positions
  <2> QED
    BY <1>2, <2>1, <2>2
<1>7. CASE Finish
  <2>1. /\ pc = "finish" /\ disk' = summary' /\ summary'.phase = "finished"
        /\ summary'.status = IF summary.qualified THEN "QUALIFIED" ELSE "NOT_CONVERGED"
        /\ summary'.qualified = summary.qualified /\ summary'.improved = summary.improved
    BY <1>0, <1>7 DEF Finish, Phase, Reports
  <2>2. /\ disk.phase \in {"search", "application-verification"}
        /\ summary.qualified => disk.phase = "application-verification"
    BY <2>1 DEF Placed, FileAt
  <2>3. summary.qualified \in BOOLEAN
    BY <1>0 DEF Reports
  <2> QED
    BY <1>0, <2>1, <2>2, <2>3 DEF File!FileNext, File!Conclude
<1>8. CASE Finally
  <2>1. pc = "finally" /\ (UNCHANGED disk \/ disk' = summary')
    BY <1>8 DEF Finally
  <2>2. CASE exc = "none" /\ disk' = summary'
    <3>1. UNCHANGED summary
      BY <1>8, <2>2 DEF Finally
    <3>2. CASE disk = summary
      BY <1>2, <2>2, <3>1, <3>2
    <3>3. CASE /\ disk.status = "RUNNING" /\ Nothing(summary)
               /\ summary.status \in {"NOT_CONVERGED", "PREFLIGHT_INCONCLUSIVE"}
               /\ summary.status = "PREFLIGHT_INCONCLUSIVE" => summary.phase = "preflight"
      BY <1>0, <2>1, <2>2, <3>1, <3>3 DEF File!FileNext, File!GiveUp, FileAt, Nothing, Reports
    <3> QED
      BY <2>1, <2>2, <3>2, <3>3 DEF FileAt
  <2>3. CASE exc # "none" /\ disk' = summary'
    <3>1. /\ disk'.status \in {"CANCELLED", "SYSTEM_ERROR"} /\ disk'.phase = summary.phase
          /\ disk'.improved = FALSE /\ disk'.qualified = FALSE
      BY <1>0, <1>8, <2>3 DEF Finally, Retracted, Reports
    <3>2. disk.status = "RUNNING" \/ disk.phase = "finished"
      BY <2>1 DEF FileAt
    <3>3. disk'.phase = IF disk.phase = "none" THEN "preflight" ELSE disk.phase
      BY <3>1 DEF FileAt
    <3> QED
      BY <3>1, <3>2, <3>3 DEF File!FileNext, File!GiveUp
  <2> QED
    BY <1>2, <2>1, <2>2, <2>3
<1>9. CASE ~(\/ Preflight \/ ProbeReturned \/ BaselineAssessed \/ SearchReturns \/ OpenHoldout \/ Holdout
             \/ Finish \/ Finally)
  <2>1. UNCHANGED disk
    BY <1>9 DEF Next, Step, RunnerStep, Pipeline, Ending, Configure, Start, Inspect, OpenSession,
       Recheck, SearchRaises, Frozen, Export, ApplicationReturned, FinalVerified, Seal, Unwind, CloseSession,
       Handle, Exit, SearchWorks, TimePasses, Interrupt, Terminated, vars
  <2> QED
    BY <1>2, <2>1
<1> QED
  BY <1>3, <1>4, <1>5, <1>6, <1>7, <1>8, <1>9

(* At any moment, and whatever becomes of the run, its file is one that    *)
(* SummaryFile promises: the experiment implements it.                     *)
THEOREM ImplementsSummaryFile == Spec => KeepsSummaryFile
<1>1. Init => File!FileInit
  BY DEF Init, File!FileInit, FreshSummary
<1>2. IInv /\ FileAt /\ [Next]_vars => [File!FileNext]_(File!fileVars)
  BY FileSteps
<1> QED
  BY <1>1, <1>2, InitFileAt, InitHolds, Inductive, FileInductive, PTL
     DEF Spec, KeepsSummaryFile, File!FileSpec
=============================================================================
