------------------------- MODULE PromptSearchProofs -------------------------
(***************************************************************************)
(* Theorems of PromptSearch, for every value of its constants.             *)
(*                                                                         *)
(* Typing is inductive once it knows that an attempt is only worked on     *)
(* while its index is in range and that its calls were counted from a      *)
(* value the counter has already passed (ControlOK).  The search cap needs   *)
(* the amount that is still guaranteed to fit at every point of a GEPA     *)
(* iteration (SearchFits).                                                 *)
(***************************************************************************)
EXTENDS PromptSearch, TLAPS

ControlOK ==
    /\ index > NAttempts => pc \in {"head", "done"}
    /\ countBefore <= searchCalls
    /\ pc \in {"bound", "timeout", "running"} => todo > 0

TypeInv == TypeOK /\ ControlOK

LEMMA ConstantsTyped ==
    /\ MaxEvaluations \in Nat /\ MaxProposals \in Nat /\ SearchLimit \in Nat
    /\ ValidationCases \in Nat /\ Repetitions \in Nat /\ NAttempts \in Nat
    /\ PairedCalls \in Nat /\ Minibatch = 3 /\ NAttempts >= 1
    /\ Baseline \in Candidates
BY BudgetAssumption, SearchAssumption DEF PairedCalls, Minibatch

LEMMA AttemptTyped ==
    ASSUME NEW s \in AttemptStatuses, NEW c \in Candidates \union {"none"}, NEW n \in Nat
    PROVE  [status |-> s, best |-> c, calls |-> n] \in AttemptRecord
BY DEF AttemptRecord

LEMMA NoAttemptTyped ==
    /\ NoAttempt \in AttemptRecord
    /\ [NoAttempt EXCEPT !.status = "running"] \in AttemptRecord
BY DEF NoAttempt, AttemptRecord, AttemptStatuses

(* Closing an attempt writes a well-typed record. *)
LEMMA CloseTyped ==
    ASSUME TypeInv, NEW s \in AttemptStatuses, NEW c \in Candidates \union {"none"},
           CloseAttempt(s, c)
    PROVE  attempts' \in [1..NAttempts -> AttemptRecord] /\ searching' \in BOOLEAN
<1>1. searchCalls - countBefore \in Nat
  BY ConstantsTyped DEF TypeInv, TypeOK, ControlOK
<1>2. [status |-> s, best |-> c, calls |-> searchCalls - countBefore] \in AttemptRecord
  BY <1>1, AttemptTyped
<1>3. attempts \in [1..NAttempts -> AttemptRecord]
  BY DEF TypeInv, TypeOK
<1> QED
  BY <1>2, <1>3 DEF CloseAttempt

LEMMA InitTyped == Init => TypeInv
<1>1. SUFFICES ASSUME Init PROVE TypeOK /\ ControlOK
  BY DEF TypeInv
<1>2. evaluations \in Nat
  BY <1>1, ConstantsTyped DEF Init
<1>3. attempts \in [1..NAttempts -> AttemptRecord]
  BY <1>1, NoAttemptTyped DEF Init
<1>4. audit \in [{"valid", "duplicate", "invalid", "provider_error"} -> Nat]
  BY <1>1 DEF Init
<1>5. pool \subseteq Candidates /\ seen \subseteq Candidates /\ bestVal \in 0..ValidationCases
  BY <1>1, ConstantsTyped DEF Init
<1>6. evaluations \in 0..MaxEvaluations /\ proposals \in 0..MaxProposals
      /\ searchCalls \in 0..SearchLimit /\ index \in 1..(NAttempts + 1)
      /\ countBefore \in 0..SearchLimit /\ stagnation \in Nat /\ todo \in Nat
  BY <1>1, <1>2, ConstantsTyped DEF Init
<1>7. TypeOK
  BY <1>1, <1>3, <1>4, <1>5, <1>6, ConstantsTyped DEF Init, TypeOK, Locations, Tasks, PendingExceptions
<1> QED
  BY <1>1, <1>7, ConstantsTyped DEF Init, ControlOK

LEMMA CallTyped == TypeInv /\ CallStep => TypeInv'
<1> SUFFICES ASSUME TypeInv, CallStep PROVE TypeInv'
  OBVIOUS
<1> USE ConstantsTyped DEF TypeInv, TypeOK, ControlOK, Locations, RunnerExceptions, PendingExceptions, searchVars, loopVars, championVars, gepaVars, sourceVars, runnerVars
<1>1. CASE ChargeCall
  BY <1>1 DEF ChargeCall, CallStep, Refusal, Throw
<1>2. CASE BoundCall
  BY <1>2 DEF BoundCall, CallStep, Throw
<1>3. CASE SetTimeout
  BY <1>3 DEF SetTimeout, CallStep, Throw
<1>4. CASE CallReturns
  BY <1>4 DEF CallReturns, CallStep, Throw
<1>5. CASE CallFails
  BY <1>5 DEF CallFails, CallStep, Throw
<1>6. CASE VerifyBounded
  BY <1>6 DEF VerifyBounded, CallStep, Throw
<1>7. CASE VerifyFails
  BY <1>7 DEF VerifyFails, CallStep, Throw
<1> QED
  BY <1>1, <1>2, <1>3, <1>4, <1>5, <1>6, <1>7 DEF CallStep, RunCall

LEMMA GepaTyped == TypeInv /\ Gepa => TypeInv'
<1> SUFFICES ASSUME TypeInv, Gepa PROVE TypeInv'
  OBVIOUS
<1> USE ConstantsTyped DEF TypeInv, TypeOK, ControlOK, Locations, Tasks, Evaluate, budgetVars, searchVars, loopVars, championVars, gepaVars, sourceVars, runnerVars
<1>1. CASE GepaLoop
  BY <1>1 DEF GepaLoop
<1>2. CASE SeedScored
  BY <1>2 DEF SeedScored
<1>3. CASE MinibatchScored
  BY <1>3 DEF MinibatchScored
<1>4. CASE ProposalScored
  BY <1>4 DEF ProposalScored
<1>5. CASE ProposalAdded
  BY <1>5 DEF ProposalAdded
<1> QED
  BY <1>1, <1>2, <1>3, <1>4, <1>5 DEF Gepa

LEMMA ProposalTyped == TypeInv /\ Proposal => TypeInv'
<1> SUFFICES ASSUME TypeInv, Proposal PROVE TypeInv'
  OBVIOUS
<1> USE ConstantsTyped DEF TypeInv, TypeOK, ControlOK, Locations, Tasks, PendingExceptions, Evaluate, Record, Fail, budgetVars, searchVars, loopVars, championVars, gepaVars, sourceVars, runnerVars
<1>1. CASE ConsumeProposal
  BY <1>1 DEF ConsumeProposal
<1>2. CASE TeacherFails
  BY <1>2 DEF TeacherFails
<1>3. CASE TeacherAnswers
  BY <1>3 DEF TeacherAnswers
<1>4. CASE BoundValidation
  BY <1>4 DEF BoundValidation
<1>5. CASE SetValidationTimeout
  BY <1>5 DEF SetValidationTimeout
<1>6. CASE ValidationFails
  BY <1>6 DEF ValidationFails
<1>7. CASE ProposalValid
  BY <1>7 DEF ProposalValid
<1> QED
  BY <1>1, <1>2, <1>3, <1>4, <1>5, <1>6, <1>7 DEF Proposal

LEMMA SearchTyped == TypeInv /\ SearchStep => TypeInv'
<1> SUFFICES ASSUME TypeInv, SearchStep PROVE TypeInv'
  OBVIOUS
<1> USE ConstantsTyped DEF TypeInv, TypeOK, ControlOK, Locations, Tasks, RunnerExceptions, PendingExceptions, Evaluate, Throw, Stop, Goto, Verified, budgetVars, searchVars, loopVars, championVars, gepaVars, sourceVars, runnerVars
<1>1. CASE StagesCompleted
  BY <1>1 DEF StagesCompleted
<1>2. CASE AttemptHead
  BY <1>2 DEF AttemptHead
<1>3. CASE BeginAttempt
  <2>1. attempts' \in [1..NAttempts -> AttemptRecord]
    BY <1>3, NoAttemptTyped DEF BeginAttempt
  <2>2. pool' \subseteq Candidates /\ seen' \subseteq Candidates /\ bestVal' \in 0..ValidationCases
    BY <1>3 DEF BeginAttempt
  <2>3. ControlOK'
    BY <1>3 DEF BeginAttempt
  <2> QED
    BY <1>3, <2>1, <2>2, <2>3 DEF BeginAttempt
<1>4. CASE StartGepa
  BY <1>4 DEF StartGepa
<1>5. CASE GepaReturned
  <2>1. attempts' \in [1..NAttempts -> AttemptRecord] /\ searching' \in BOOLEAN
    BY <1>5, CloseTyped DEF GepaReturned, FatalPending, EndAttempt, AttemptStatuses
  <2> QED
    BY <1>5, <2>1 DEF GepaReturned, FatalPending, EndAttempt
<1>6. CASE PairedAssessed
  <2>1. attempts' \in [1..NAttempts -> AttemptRecord] /\ searching' \in BOOLEAN
    BY <1>6, CloseTyped DEF PairedAssessed, EndAttempt, AttemptStatuses
  <2> QED
    BY <1>6, <2>1 DEF PairedAssessed, EndAttempt
<1>7. CASE AttemptVerified
  <2>1. index' \in 1..(NAttempts + 1) /\ (index' > NAttempts => pc' \in {"head", "done"})
    BY <1>7 DEF AttemptVerified
  <2>2. stopReason' \in {"none", "stages_completed", "max_proposals", "stagnation",
                       "insufficient_search_metric_budget", "total_metric_calls"}
    BY <1>7 DEF AttemptVerified
  <2> QED
    BY <1>7, <2>1, <2>2 DEF AttemptVerified
<1>8. CASE CatchInAttempt
  <2>1. attempts' \in [1..NAttempts -> AttemptRecord] /\ searching' \in BOOLEAN
    BY <1>8, CloseTyped DEF CatchInAttempt, EndAttempt, AttemptStatuses
  <2> QED
    BY <1>8, <2>1 DEF CatchInAttempt, EndAttempt, CloseAttempt
<1>9. CASE Propagate
  BY <1>9 DEF Propagate
<1> QED
  BY <1>1, <1>2, <1>3, <1>4, <1>5, <1>6, <1>7, <1>8, <1>9 DEF SearchStep

LEMMA OtherTyped == TypeInv /\ (TimePasses \/ UNCHANGED vars) => TypeInv'
BY DEF TypeInv, TypeOK, ControlOK, TimePasses, Tick, vars, budgetVars, searchVars, loopVars, championVars, gepaVars, sourceVars, runnerVars

LEMMA TypeInductive == TypeInv /\ [Next]_vars => TypeInv'
BY CallTyped, GepaTyped, ProposalTyped, SearchTyped, OtherTyped DEF Next, Step, Terminated

(* Every variable has its type and every counter stays within its limit. *)
THEOREM TypeCorrect == Spec => []TypeOK
<1>1. Init => TypeInv
  BY InitTyped
<1>2. TypeInv /\ [Next]_vars => TypeInv'
  BY TypeInductive
<1>3. TypeInv => TypeOK
  BY DEF TypeInv
<1> QED
  BY <1>1, <1>2, <1>3, PTL DEF Spec

---------------------------------------------------------------------------
(* The search cap. *)

(* Why the cap is never met: at every point of a GEPA run the search calls *)
(* left cover the rest of the current iteration in its dearest             *)
(* continuation, and before the seed is scored they cover one iteration    *)
(* more.                                                                   *)
IterationTasks == {"initial", "current", "proposed", "full"}

CallsAfter(t) ==
    CASE t = "initial"  -> NextIterationEvaluations
      [] t = "current"  -> Minibatch + ValidationCases
      [] t = "proposed" -> ValidationCases
      [] OTHER          -> 0

SearchFits ==
    /\ pc = "begin" \/ (pc \in {"verify", "probing"} /\ task = "before_attempt")
          => remaining >= MinimumInvocationCalls
    /\ pc = "call" /\ task \in IterationTasks => remaining >= todo + CallsAfter(task)
    /\ pc \in {"bound", "timeout", "running"} /\ task \in IterationTasks
          => remaining >= (todo - 1) + CallsAfter(task)
    /\ pc \in {"propose", "teacher", "validate", "vtimeout", "composing"}
          => remaining >= Minibatch + ValidationCases
    /\ searching /\ pc \in {"call", "bound", "timeout", "running"} => task \in IterationTasks

SearchCapInv == SearchFits /\ NoTornIteration

LEMMA CallsAfterValues ==
    /\ CallsAfter("initial") = 6 + ValidationCases
    /\ CallsAfter("current") = 3 + ValidationCases
    /\ CallsAfter("proposed") = ValidationCases
    /\ CallsAfter("full") = 0
    /\ NextIterationEvaluations = 6 + ValidationCases
    /\ MinimumInvocationCalls = 6 + 2 * ValidationCases
    /\ \A t \in IterationTasks : CallsAfter(t) \in Nat
BY ConstantsTyped
   DEF CallsAfter, NextIterationEvaluations, MinimumInvocationCalls, IterationTasks

LEMMA InitFits == Init => SearchCapInv
BY ConstantsTyped DEF Init, SearchCapInv, SearchFits, NoTornIteration, NoAttempt

LEMMA CallFits == TypeInv /\ SearchCapInv /\ CallStep => SearchCapInv'
<1> SUFFICES ASSUME TypeInv, SearchCapInv, CallStep PROVE SearchCapInv'
  OBVIOUS
<1> USE ConstantsTyped DEF TypeInv, TypeOK, ControlOK, SearchCapInv, SearchFits, NoTornIteration, remaining, searchVars, loopVars, championVars, gepaVars, sourceVars, runnerVars
<1>1. CASE ChargeCall
  <2>1. task \in IterationTasks => CallsAfter(task) \in Nat
    BY CallsAfterValues
  <2>2. Refusal # "search_limit"
    BY <1>1, <2>1 DEF ChargeCall, Refusal
  <2>3. CASE Refusal # "none"
    BY <1>1, <2>2, <2>3 DEF ChargeCall, CallStep, Throw
  <2>4. CASE Refusal = "none"
    BY <1>1, <2>1, <2>2, <2>4 DEF ChargeCall, CallStep, Throw
  <2> QED
    BY <2>3, <2>4
<1>2. CASE BoundCall
  BY <1>2 DEF BoundCall, CallStep, Throw
<1>3. CASE SetTimeout
  BY <1>3 DEF SetTimeout, CallStep, Throw
<1>4. CASE CallReturns
  BY <1>4 DEF CallReturns, CallStep, Throw
<1>5. CASE CallFails
  BY <1>5 DEF CallFails, CallStep, Throw
<1>6. CASE VerifyBounded
  BY <1>6 DEF VerifyBounded, CallStep, Throw
<1>7. CASE VerifyFails
  BY <1>7 DEF VerifyFails, CallStep, Throw
<1> QED
  BY <1>1, <1>2, <1>3, <1>4, <1>5, <1>6, <1>7 DEF CallStep, RunCall

LEMMA GepaFits == TypeInv /\ SearchCapInv /\ Gepa => SearchCapInv'
<1> SUFFICES ASSUME TypeInv, SearchCapInv, Gepa PROVE SearchCapInv'
  OBVIOUS
<1> USE ConstantsTyped, CallsAfterValues DEF TypeInv, TypeOK, SearchCapInv, SearchFits, NoTornIteration, remaining, Evaluate, budgetVars, searchVars, loopVars, championVars, gepaVars, sourceVars, runnerVars
<1>0. {"initial", "current", "proposed", "full"} = IterationTasks
  BY DEF IterationTasks
<1>1. CASE GepaLoop
  BY <1>0, <1>1 DEF GepaLoop, ShouldStop
<1>2. CASE SeedScored
  BY <1>0, <1>2 DEF SeedScored
<1>3. CASE MinibatchScored
  BY <1>0, <1>3 DEF MinibatchScored
<1>4. CASE ProposalScored
  BY <1>0, <1>4 DEF ProposalScored
<1>5. CASE ProposalAdded
  BY <1>0, <1>5 DEF ProposalAdded
<1> QED
  BY <1>1, <1>2, <1>3, <1>4, <1>5 DEF Gepa

LEMMA ProposalFits == TypeInv /\ SearchCapInv /\ Proposal => SearchCapInv'
<1> SUFFICES ASSUME TypeInv, SearchCapInv, Proposal PROVE SearchCapInv'
  OBVIOUS
<1> USE ConstantsTyped, CallsAfterValues DEF TypeInv, TypeOK, SearchCapInv, SearchFits, NoTornIteration, remaining, Evaluate, Record, Fail, budgetVars, searchVars, loopVars, championVars, gepaVars, sourceVars, runnerVars
<1>0. {"initial", "current", "proposed", "full"} = IterationTasks
  BY DEF IterationTasks
<1>1. CASE ConsumeProposal
  BY <1>1 DEF ConsumeProposal
<1>2. CASE TeacherFails
  BY <1>2 DEF TeacherFails
<1>3. CASE TeacherAnswers
  BY <1>3 DEF TeacherAnswers
<1>4. CASE BoundValidation
  BY <1>4 DEF BoundValidation
<1>5. CASE SetValidationTimeout
  BY <1>5 DEF SetValidationTimeout
<1>6. CASE ValidationFails
  BY <1>6 DEF ValidationFails
<1>7. CASE ProposalValid
  BY <1>0, <1>7 DEF ProposalValid
<1> QED
  BY <1>1, <1>2, <1>3, <1>4, <1>5, <1>6, <1>7 DEF Proposal

(* Closing an attempt with another status leaves no torn one behind. *)
LEMMA CloseNotTorn ==
    ASSUME TypeInv, NoTornIteration, NEW s \in AttemptStatuses \ {"search_budget_exhausted"},
           NEW c, CloseAttempt(s, c)
    PROVE  \A i \in 1..NAttempts : attempts'[i].status # "search_budget_exhausted"
BY DEF TypeInv, TypeOK, NoTornIteration, CloseAttempt

LEMMA SearchStepFits == TypeInv /\ SearchCapInv /\ SearchStep => SearchCapInv'
<1> SUFFICES ASSUME TypeInv, SearchCapInv, SearchStep PROVE SearchCapInv'
  OBVIOUS
<1> USE ConstantsTyped, CallsAfterValues DEF TypeInv, TypeOK, SearchCapInv, SearchFits, NoTornIteration, remaining, Evaluate, Throw, Stop, Goto, Verified, budgetVars, searchVars, loopVars, championVars, gepaVars, sourceVars, runnerVars
<1>0. {"initial", "current", "proposed", "full"} = IterationTasks
  BY DEF IterationTasks
<1>1. CASE StagesCompleted
  BY <1>1 DEF StagesCompleted
<1>2. CASE AttemptHead
  BY <1>2 DEF AttemptHead
<1>3. CASE BeginAttempt
  <2>1. \A i \in 1..NAttempts : attempts'[i].status # "search_budget_exhausted"
    BY <1>3 DEF BeginAttempt, NoAttempt
  <2> QED
    BY <1>3, <2>1 DEF BeginAttempt
<1>4. CASE StartGepa
  BY <1>0, <1>4 DEF StartGepa
<1>5. CASE GepaReturned
  <2>1. \A i \in 1..NAttempts : attempts'[i].status # "search_budget_exhausted"
    BY <1>5, CloseNotTorn DEF GepaReturned, FatalPending, EndAttempt, AttemptStatuses
  <2>2. exc' # "search_limit"
    BY <1>5 DEF GepaReturned, FatalPending, PendingExceptions
  <2> QED
    BY <1>0, <1>5, <2>1, <2>2 DEF GepaReturned, FatalPending, EndAttempt, CloseAttempt
<1>6. CASE PairedAssessed
  <2>1. \A i \in 1..NAttempts : attempts'[i].status # "search_budget_exhausted"
    BY <1>6, CloseNotTorn DEF PairedAssessed, EndAttempt, AttemptStatuses
  <2> QED
    BY <1>6, <2>1 DEF PairedAssessed, EndAttempt, CloseAttempt
<1>7. CASE AttemptVerified
  BY <1>7 DEF AttemptVerified
<1>8. CASE CatchInAttempt
  <2>1. \A i \in 1..NAttempts : attempts'[i].status # "search_budget_exhausted"
    BY <1>8, CloseNotTorn DEF CatchInAttempt, EndAttempt, AttemptStatuses
  <2> QED
    BY <1>8, <2>1 DEF CatchInAttempt, EndAttempt, CloseAttempt
<1>9. CASE Propagate
  BY <1>9 DEF Propagate
<1> QED
  BY <1>1, <1>2, <1>3, <1>4, <1>5, <1>6, <1>7, <1>8, <1>9 DEF SearchStep

LEMMA OtherFits == SearchCapInv /\ (TimePasses \/ UNCHANGED vars) => SearchCapInv'
BY DEF SearchCapInv, SearchFits, NoTornIteration, remaining, TimePasses, Tick, vars, budgetVars, searchVars, loopVars, championVars, gepaVars, sourceVars, runnerVars

(* A GEPA run that the two admission tests let in is never torn by the hard *)
(* cap on search calls, and the calls left always cover its iteration.     *)
THEOREM SearchNeverTorn == Spec => [](NoTornIteration /\ SearchFits)
<1> DEFINE IInv == TypeInv /\ SearchCapInv
<1>1. Init => IInv
  BY InitTyped, InitFits
<1>2. IInv /\ [Next]_vars => IInv'
  BY TypeInductive, CallFits, GepaFits, ProposalFits, SearchStepFits, OtherFits
     DEF Next, Step, Terminated
<1>3. IInv => NoTornIteration /\ SearchFits
  BY DEF SearchCapInv
<1> QED
  BY <1>1, <1>2, <1>3, PTL DEF Spec

---------------------------------------------------------------------------
(* The proposal ledger. *)

AuditSum == audit["valid"] + audit["duplicate"] + audit["invalid"] + audit["provider_error"]

(* A record of any status adds one to the sum. *)
LEMMA RecordCounts ==
    ASSUME TypeOK, NEW s \in {"valid", "duplicate", "invalid", "provider_error"}, Record(s)
    PROVE  AuditSum' = AuditSum + 1
<1>1. audit \in [{"valid", "duplicate", "invalid", "provider_error"} -> Nat]
  BY DEF TypeOK
<1>2. audit' = [audit EXCEPT ![s] = audit[s] + 1]
  BY DEF Record
<1>3. CASE s = "valid"
  BY <1>1, <1>2, <1>3 DEF AuditSum
<1>4. CASE s = "duplicate"
  BY <1>1, <1>2, <1>4 DEF AuditSum
<1>5. CASE s = "invalid"
  BY <1>1, <1>2, <1>5 DEF AuditSum
<1>6. CASE s = "provider_error"
  BY <1>1, <1>2, <1>6 DEF AuditSum
<1> QED
  BY <1>3, <1>4, <1>5, <1>6

LEMMA AuditSumNat == TypeOK => AuditSum \in Nat
BY DEF TypeOK, AuditSum

LEMMA LedgerStep == TypeInv /\ LedgerBalances /\ [Next]_vars => LedgerBalances'
<1> SUFFICES ASSUME TypeInv, LedgerBalances, [Next]_vars PROVE LedgerBalances'
  OBVIOUS
<1>0. AuditSum \in Nat /\ proposals \in Nat /\ TypeOK
  BY ConstantsTyped, AuditSumNat DEF TypeInv, TypeOK
<1> DEFINE pending1 == IF pc \in {"teacher", "validate", "vtimeout", "composing"} THEN 1 ELSE 0
<1>1. proposals = AuditSum + pending1
  BY DEF LedgerBalances, AuditSum
<1>2. SUFFICES proposals' = AuditSum' + pending1'
  BY <1>2 DEF LedgerBalances, AuditSum
<1> USE <1>0, <1>1 DEF budgetVars, searchVars, loopVars, championVars, gepaVars, sourceVars, runnerVars
<1>3. CASE UNCHANGED audit /\ UNCHANGED proposals /\ pending1' = pending1
  BY <1>3 DEF AuditSum
<1>4. CASE CallStep
  BY <1>3, <1>4 DEF CallStep, RunCall, ChargeCall, BoundCall, SetTimeout, CallReturns, CallFails, VerifyBounded, VerifyFails, Throw
<1>5. CASE Gepa
  BY <1>3, <1>5 DEF Gepa, GepaLoop, SeedScored, MinibatchScored, ProposalScored, ProposalAdded, Evaluate
<1>6. CASE ConsumeProposal
  BY <1>6 DEF ConsumeProposal, AuditSum
<1>7. CASE TeacherFails
  BY <1>7, RecordCounts DEF TeacherFails, Fail
<1>8. CASE TeacherAnswers
  <2>1. CASE pc' = "validate" /\ UNCHANGED audit
    BY <1>3, <1>8, <2>1 DEF TeacherAnswers
  <2>2. CASE pc' = "loop" /\ \E s \in {"invalid", "duplicate"} : Record(s)
    BY <1>8, <2>2, RecordCounts DEF TeacherAnswers
  <2> QED
    BY <1>8, <2>1, <2>2 DEF TeacherAnswers, Fail
<1>9. CASE BoundValidation
  BY <1>3, <1>9, RecordCounts DEF BoundValidation, Fail
<1>10. CASE SetValidationTimeout
  BY <1>3, <1>10, RecordCounts DEF SetValidationTimeout, Fail
<1>11. CASE ValidationFails
  BY <1>11, RecordCounts DEF ValidationFails, Fail
<1>12. CASE ProposalValid
  BY <1>12, RecordCounts DEF ProposalValid, Evaluate
<1>13. CASE SearchStep
  BY <1>3, <1>13 DEF SearchStep, StagesCompleted, AttemptHead, BeginAttempt, StartGepa, GepaReturned, FatalPending, PairedAssessed, AttemptVerified, CatchInAttempt, Propagate, Evaluate, Throw, Stop, Goto, Verified, EndAttempt, CloseAttempt
<1>14. CASE TimePasses
  BY <1>3, <1>14 DEF TimePasses, Tick
<1>15. CASE UNCHANGED vars
  BY <1>3, <1>15 DEF vars
<1> QED
  BY <1>4, <1>5, <1>6, <1>7, <1>8, <1>9, <1>10, <1>11, <1>12, <1>13, <1>14, <1>15
     DEF Next, Step, Proposal, Terminated

(* Every proposal charged to the budget has exactly one audit record, but  *)
(* for the one under way.                                                  *)
THEOREM LedgerExact == Spec => []LedgerBalances
<1>1. Init => LedgerBalances
  BY DEF Init, LedgerBalances
<1>2. Init => TypeInv
  BY InitTyped
<1>3. TypeInv /\ LedgerBalances /\ [Next]_vars => (TypeInv /\ LedgerBalances)'
  BY TypeInductive, LedgerStep
<1> QED
  BY <1>1, <1>2, <1>3, PTL DEF Spec

---------------------------------------------------------------------------
(* The champion.  It may be replaced many times, each time on new verdicts *)
(* that are only compared with those of the champion it replaces; that the *)
(* last one still beats the baseline is the transitivity of the rank.      *)

LEMMA RankKeyTyped ==
    ASSUME NEW v \in Verdict
    PROVE  \A i \in 1..7 : RankKey(v, FALSE)[i] \in Int
BY DEF RankKey, Verdict, Bit

LEMMA LexLessTransitive ==
    ASSUME NEW x, NEW y, NEW z,
           \A i \in 1..7 : x[i] \in Int /\ y[i] \in Int /\ z[i] \in Int,
           LexLess(x, y), LexLess(y, z)
    PROVE  LexLess(x, z)
<1>1. PICK i \in 1..7 : x[i] < y[i] /\ \A k \in 1..(i - 1) : x[k] = y[k]
  BY DEF LexLess
<1>2. PICK j \in 1..7 : y[j] < z[j] /\ \A k \in 1..(j - 1) : y[k] = z[k]
  BY DEF LexLess
<1>3. CASE i <= j
  <2>1. x[i] < z[i]
    BY <1>1, <1>2, <1>3
  <2>2. \A k \in 1..(i - 1) : x[k] = z[k]
    BY <1>1, <1>2, <1>3
  <2> QED
    BY <2>1, <2>2 DEF LexLess
<1>4. CASE j < i
  <2>1. x[j] < z[j]
    BY <1>1, <1>2, <1>4
  <2>2. \A k \in 1..(j - 1) : x[k] = z[k]
    BY <1>1, <1>2, <1>4
  <2> QED
    BY <2>1, <2>2 DEF LexLess
<1> QED
  BY <1>3, <1>4

(* A verdict better than a better one is better, core regression included. *)
THEOREM BetterTransitive ==
    ASSUME NEW u \in Verdict, NEW v \in Verdict, NEW w \in Verdict,
           IsStrictlyBetter(u, v), IsStrictlyBetter(v, w)
    PROVE  IsStrictlyBetter(u, w)
<1>1. ~CoreRegression(u, w)
  BY DEF IsStrictlyBetter, CoreRegression, Verdict
<1>2. LexLess(RankKey(u, FALSE), RankKey(w, FALSE))
  BY RankKeyTyped, LexLessTransitive DEF IsStrictlyBetter
<1> QED
  BY <1>1, <1>2 DEF IsStrictlyBetter

LEMMA ChampionStep == TypeInv /\ ChampionBeatsBaseline /\ [Next]_vars => ChampionBeatsBaseline'
<1> SUFFICES ASSUME TypeInv, ChampionBeatsBaseline, [Next]_vars PROVE ChampionBeatsBaseline'
  OBVIOUS
<1> USE DEF budgetVars, searchVars, loopVars, championVars, gepaVars, sourceVars, runnerVars
<1>1. CASE UNCHANGED championVars
  BY <1>1 DEF ChampionBeatsBaseline
<1>2. CASE PairedAssessed
  <2>1. CASE UNCHANGED <<champion, measured>>
    BY <1>1, <1>2, <2>1 DEF PairedAssessed
  <2>2. CASE ~UNCHANGED <<champion, measured>>
    <3>1. measured' \in Verdicts /\ IsStrictlyBetter(measured', measured) /\ before' = before
      BY <1>2, <2>2 DEF PairedAssessed, Improves
    <3>2. before \in Verdict /\ measured \in Verdict /\ measured' \in Verdict
      BY <3>1, SearchAssumption DEF TypeInv, TypeOK
    <3>3. IsStrictlyBetter(measured', before)
      BY <3>1, <3>2, BetterTransitive DEF ChampionBeatsBaseline
    <3> QED
      BY <3>1, <3>3 DEF ChampionBeatsBaseline
  <2> QED
    BY <2>1, <2>2
<1>3. CASE SearchStep
  BY <1>1, <1>2, <1>3 DEF SearchStep, StagesCompleted, AttemptHead, BeginAttempt, StartGepa, GepaReturned, FatalPending, AttemptVerified, CatchInAttempt, Propagate
<1>4. CASE CallStep \/ TimePasses \/ UNCHANGED vars
  BY <1>1, <1>4 DEF CallStep, TimePasses, vars
<1>5. CASE Gepa
  BY <1>1, <1>5 DEF Gepa, GepaLoop, SeedScored, MinibatchScored, ProposalScored, ProposalAdded
<1>6. CASE Proposal
  BY <1>1, <1>6 DEF Proposal, ConsumeProposal, TeacherFails, TeacherAnswers, BoundValidation, SetValidationTimeout, ValidationFails, ProposalValid
<1> QED
  BY <1>3, <1>4, <1>5, <1>6 DEF Next, Step, Terminated

(* However often the champion is replaced, it beats the first measurement  *)
(* of the baseline, with no lower success rate.                            *)
THEOREM ChampionNeverLosesGround == Spec => []ChampionBeatsBaseline
<1>1. Init => TypeInv /\ ChampionBeatsBaseline
  BY InitTyped DEF Init, ChampionBeatsBaseline
<1>2. TypeInv /\ ChampionBeatsBaseline /\ [Next]_vars => (TypeInv /\ ChampionBeatsBaseline)'
  BY TypeInductive, ChampionStep
<1> QED
  BY <1>1, <1>2, PTL DEF Spec

---------------------------------------------------------------------------
(* What an attempt leaves behind.  GEPA asks for a proposal only when one  *)
(* is left, a swallowed failure is noticed before anything else is spent,  *)
(* and what reaches the except clauses of _search is therefore never one   *)
(* of the exceptions that would drop GEPA's best candidate.                *)

Calling == pc \in {"call", "bound", "timeout", "running"}

Proposing == pc \in {"propose", "teacher", "validate", "vtimeout", "composing"}

HandoverInv ==
    /\ exc \notin {"rejected", "max_proposals"}
    /\ pending # "max_proposals"
    /\ pc = "propose" \/ (Calling /\ task = "current") => proposals < MaxProposals
    /\ pc \in {"loop", "returned"} \/ Proposing \/ (Calling /\ task \in IterationTasks) => searching
    /\ searching /\ Calling => task \in IterationTasks
    /\ pending # "none" => pc # "begin" /\ ~Proposing /\ (Calling => ~searching)
    /\ pc \in {"verify", "probing"} /\ task = "after_attempt" => ~AttemptOpen

LEMMA InitHandover == Init => HandoverInv
BY BudgetAssumption DEF Init, HandoverInv, Calling, Proposing, IterationTasks

LEMMA HandoverStep == TypeInv /\ SearchCapInv /\ HandoverInv /\ [Next]_vars => HandoverInv'
<1> SUFFICES ASSUME TypeInv, SearchCapInv, HandoverInv, [Next]_vars PROVE HandoverInv'
  OBVIOUS
<1> USE ConstantsTyped DEF TypeInv, TypeOK, ControlOK, HandoverInv, Calling, Proposing, AttemptOpen, Throw, Goto, Evaluate, budgetVars, searchVars, loopVars, championVars, gepaVars, sourceVars, runnerVars
<1>0. {"initial", "current", "proposed", "full"} = IterationTasks
  BY DEF IterationTasks
<1>1. CASE CallStep
  <2>1. CASE ChargeCall
    BY <1>1, <2>1 DEF CallStep, ChargeCall, Refusal
  <2>2. CASE BoundCall \/ SetTimeout \/ CallReturns \/ CallFails \/ VerifyBounded \/ VerifyFails
    BY <1>1, <2>2 DEF CallStep, BoundCall, SetTimeout, CallReturns, CallFails, VerifyBounded, VerifyFails
  <2> QED
    BY <1>1, <2>1, <2>2 DEF CallStep, RunCall
<1>2. CASE Gepa
  <2>1. CASE GepaLoop
    BY <1>0, <2>1 DEF GepaLoop, ShouldStop
  <2>2. CASE SeedScored
    BY <1>0, <2>2 DEF SeedScored
  <2>3. CASE MinibatchScored
    BY <1>0, <2>3 DEF MinibatchScored
  <2>4. CASE ProposalScored
    BY <1>0, <2>4 DEF ProposalScored
  <2>5. CASE ProposalAdded
    BY <1>0, <2>5 DEF ProposalAdded
  <2> QED
    BY <1>2, <2>1, <2>2, <2>3, <2>4, <2>5 DEF Gepa
<1>3. CASE Proposal
  <2>1. CASE ConsumeProposal
    BY <2>1 DEF ConsumeProposal
  <2>2. CASE TeacherFails
    BY <2>2 DEF TeacherFails, Fail
  <2>3. CASE TeacherAnswers
    BY <2>3 DEF TeacherAnswers, Fail
  <2>4. CASE BoundValidation \/ SetValidationTimeout \/ ValidationFails
    BY <2>4 DEF BoundValidation, SetValidationTimeout, ValidationFails, Fail
  <2>5. CASE ProposalValid
    BY <1>0, <2>5 DEF ProposalValid
  <2> QED
    BY <1>3, <2>1, <2>2, <2>3, <2>4, <2>5 DEF Proposal
<1>4. CASE SearchStep
  <2>1. CASE StagesCompleted \/ AttemptHead \/ AttemptVerified \/ Propagate
    BY <1>4, <2>1 DEF StagesCompleted, AttemptHead, AttemptVerified, Propagate, Verified, Stop
  <2>2. CASE BeginAttempt
    BY <2>2 DEF BeginAttempt, Verified
  <2>3. CASE StartGepa
    BY <1>0, <2>3 DEF StartGepa
  <2>4. CASE GepaReturned
    <3>1. CASE pc' = "throw"
      BY <2>4, <3>1 DEF GepaReturned, FatalPending, EndAttempt, PendingExceptions
    <3>2. CASE pc' = "call"
      BY <1>0, <2>4, <3>2 DEF GepaReturned, FatalPending, EndAttempt
    <3>3. CASE pc' = "verify"
      <4>1. attempts'[index].status # "running" /\ index' = index
        BY <2>4, <3>3 DEF GepaReturned, FatalPending, EndAttempt, CloseAttempt
      <4> QED
        BY <2>4, <3>3, <4>1 DEF GepaReturned, FatalPending, EndAttempt
    <3> QED
      BY <2>4, <3>1, <3>2, <3>3 DEF GepaReturned, FatalPending, EndAttempt
  <2>5. CASE PairedAssessed
    <3>1. attempts'[index].status # "running" /\ index' = index
      BY <2>5 DEF PairedAssessed, EndAttempt, CloseAttempt
    <3> QED
      BY <2>5, <3>1 DEF PairedAssessed, EndAttempt
  <2>6. CASE CatchInAttempt
    BY <2>6 DEF CatchInAttempt, EndAttempt, CloseAttempt, Stop, SearchCapInv, NoTornIteration
  <2> QED
    BY <1>4, <2>1, <2>2, <2>3, <2>4, <2>5, <2>6 DEF SearchStep
<1>5. CASE TimePasses \/ UNCHANGED vars
  BY <1>5 DEF TimePasses, Tick, vars
<1> QED
  BY <1>1, <1>2, <1>3, <1>4, <1>5 DEF Next, Step, Terminated

(* An attempt is closed with the status it is given. *)
LEMMA ClosedStatus ==
    ASSUME TypeInv, AttemptOpen, NEW s, NEW c, CloseAttempt(s, c)
    PROVE  attempts'[index].status = s
BY DEF TypeInv, TypeOK, AttemptOpen, CloseAttempt

LEMMA BestAssessedStep ==
    TypeInv /\ SearchCapInv /\ HandoverInv /\ [Next]_vars
        => [(AttemptOpen /\ best # champion /\ ~AttemptOpen')
              => attempts'[index].status \in {"selected", "not_improved"}]_vars
<1> SUFFICES ASSUME TypeInv, SearchCapInv, HandoverInv, Next,
                    AttemptOpen, best # champion, ~AttemptOpen'
             PROVE  attempts'[index].status \in {"selected", "not_improved"}
  BY DEF vars, AttemptOpen, searchVars, loopVars
<1> USE DEF AttemptOpen, TypeInv, TypeOK, budgetVars, searchVars, loopVars
<1>1. ~CallStep /\ ~Gepa /\ ~Proposal /\ ~TimePasses /\ ~UNCHANGED vars
  BY DEF CallStep, TimePasses, vars, Gepa, GepaLoop, SeedScored, MinibatchScored, ProposalScored, ProposalAdded, Proposal, ConsumeProposal, TeacherFails, TeacherAnswers, BoundValidation, SetValidationTimeout, ValidationFails, ProposalValid
<1>2. CASE StagesCompleted \/ AttemptHead \/ StartGepa \/ Propagate
  BY <1>2 DEF StagesCompleted, AttemptHead, StartGepa, Propagate
<1>3. CASE BeginAttempt
  <2>1. attempts'[index].status = "running" /\ index' = index
    BY <1>3 DEF BeginAttempt, NoAttempt
  <2> QED
    BY <2>1
<1>4. CASE GepaReturned
  <2>1. attempts' = attempts /\ index' = index
    BY <1>4 DEF GepaReturned, FatalPending
  <2> QED
    BY <2>1
<1>5. CASE PairedAssessed
  <2>1. \E s \in {"selected", "not_improved"} : CloseAttempt(s, proposed)
    BY <1>5 DEF PairedAssessed, EndAttempt
  <2> QED
    BY <2>1, ClosedStatus
<1>6. CASE AttemptVerified
  <2>1. pc = "probing" /\ task = "after_attempt"
    BY <1>6 DEF AttemptVerified, Verified, Goto
  <2> QED
    BY <2>1 DEF HandoverInv
<1>7. CASE CatchInAttempt
  <2>1. \E c : CloseAttempt("running", c)
    BY <1>7 DEF CatchInAttempt, HandoverInv, SearchCapInv, NoTornIteration
  <2>2. attempts'[index].status = "running" /\ index' = index
    BY <1>7, <2>1, ClosedStatus DEF CatchInAttempt
  <2> QED
    BY <2>2
<1> QED
  BY <1>1, <1>2, <1>3, <1>4, <1>5, <1>6, <1>7 DEF Next, Step, SearchStep, Terminated

LEMMA FailureStopsStep ==
    TypeInv /\ HandoverInv /\ [Next]_vars
        => [(pending # "none" /\ pending' # "none")
              => searchCalls' = searchCalls /\ proposals' = proposals]_vars
<1> SUFFICES ASSUME TypeInv, HandoverInv, Next, pending # "none", pending' # "none"
             PROVE  searchCalls' = searchCalls /\ proposals' = proposals
  OBVIOUS
<1> USE DEF budgetVars, runnerVars
<1>1. CASE CallStep
  BY <1>1 DEF CallStep, RunCall, ChargeCall, BoundCall, SetTimeout, CallReturns, CallFails, VerifyBounded, VerifyFails, HandoverInv, Calling
<1>2. CASE Gepa
  BY <1>2 DEF Gepa, GepaLoop, SeedScored, MinibatchScored, ProposalScored, ProposalAdded
<1>3. CASE Proposal
  BY <1>3 DEF Proposal, ConsumeProposal, TeacherFails, TeacherAnswers, BoundValidation, SetValidationTimeout, ValidationFails, ProposalValid, HandoverInv, Proposing
<1>4. CASE SearchStep
  BY <1>4 DEF SearchStep, StagesCompleted, AttemptHead, BeginAttempt, StartGepa, GepaReturned, FatalPending, PairedAssessed, AttemptVerified, CatchInAttempt, Propagate, Verified
<1>5. CASE TimePasses \/ UNCHANGED vars
  BY <1>5 DEF TimePasses, Tick, vars
<1> QED
  BY <1>1, <1>2, <1>3, <1>4, <1>5 DEF Next, Step, Terminated

HandoverIInv == TypeInv /\ SearchCapInv /\ HandoverInv

LEMMA HandoverInductive == Init => HandoverIInv
BY InitTyped, InitFits, InitHandover DEF HandoverIInv

LEMMA HandoverIInvStep == HandoverIInv /\ [Next]_vars => HandoverIInv'
BY TypeInductive, CallFits, GepaFits, ProposalFits, SearchStepFits, OtherFits, HandoverStep
   DEF HandoverIInv, Next, Step, Terminated

(* No attempt that the search survives drops a best candidate that GEPA    *)
(* had completely evaluated: it is assessed against the champion.          *)
THEOREM BestAlwaysAssessed == Spec => EvaluatedBestIsAssessed
<1>1. HandoverIInv /\ [Next]_vars
        => [(AttemptOpen /\ best # champion /\ ~AttemptOpen')
              => attempts'[index].status \in {"selected", "not_improved"}]_vars
  BY BestAssessedStep DEF HandoverIInv
<1> QED
  BY <1>1, HandoverInductive, HandoverIInvStep, PTL DEF Spec, EvaluatedBestIsAssessed

(* Once a proposal has failed or been rejected, GEPA spends no evaluation  *)
(* and no proposal any more in that attempt.                               *)
THEOREM FailureIsFinal == Spec => FailureStopsGepa
<1>1. HandoverIInv /\ [Next]_vars
        => [(pending # "none" /\ pending' # "none")
              => searchCalls' = searchCalls /\ proposals' = proposals]_vars
  BY FailureStopsStep DEF HandoverIInv
<1> QED
  BY <1>1, HandoverInductive, HandoverIInvStep, PTL DEF Spec, FailureStopsGepa

----------------------------------------------------------------------------
(* The promise of AbstractSearch. *)

(* An exception says why the search ends, and so does one that GEPA        *)
(* swallowed and the proposal source kept.                                 *)
ExplainedInv ==
    /\ pc = "throw" => exc # "none"
    /\ exc = "wall_clock" \/ pending = "wall_clock" => expired
    /\ exc = "max_evaluations" => evaluations = MaxEvaluations

LEMMA InitExplained == Init => ExplainedInv
BY DEF Init, ExplainedInv

LEMMA ExplainedStep == TypeInv /\ ExplainedInv /\ [Next]_vars => ExplainedInv'
<1> SUFFICES ASSUME TypeInv, ExplainedInv, [Next]_vars PROVE ExplainedInv'
  OBVIOUS
<1> USE ConstantsTyped DEF ExplainedInv, Throw, Goto, budgetVars, searchVars, loopVars, championVars,
        gepaVars, sourceVars, runnerVars
<1>0. evaluations \in 0..MaxEvaluations /\ pending \in PendingExceptions
  BY DEF TypeInv, TypeOK
<1>1. CASE CallStep
  <2>1. CASE ChargeCall
    BY <1>0, <1>1, <2>1 DEF CallStep, ChargeCall, Refusal
  <2>2. CASE BoundCall \/ SetTimeout \/ CallReturns \/ CallFails \/ VerifyBounded \/ VerifyFails
    BY <1>1, <2>2 DEF CallStep, BoundCall, SetTimeout, CallReturns, CallFails, VerifyBounded, VerifyFails
  <2> QED
    BY <1>1, <2>1, <2>2 DEF CallStep, RunCall
<1>2. CASE Gepa
  BY <1>2 DEF Gepa, GepaLoop, SeedScored, MinibatchScored, ProposalScored, ProposalAdded, Evaluate
<1>3. CASE Proposal
  BY <1>3 DEF Proposal, ConsumeProposal, TeacherFails, TeacherAnswers, BoundValidation,
     SetValidationTimeout, ValidationFails, ProposalValid, Fail, Evaluate
<1>4. CASE StagesCompleted \/ AttemptHead \/ BeginAttempt \/ StartGepa
  BY <1>4 DEF StagesCompleted, AttemptHead, BeginAttempt, StartGepa, Stop, Verified, Evaluate
<1>5. CASE GepaReturned
  BY <1>0, <1>5 DEF GepaReturned, FatalPending, PendingExceptions, EndAttempt, Evaluate
<1>6. CASE PairedAssessed \/ AttemptVerified \/ CatchInAttempt \/ Propagate
  BY <1>6 DEF PairedAssessed, AttemptVerified, CatchInAttempt, Propagate, EndAttempt, CloseAttempt,
     Stop, Verified
<1>7. CASE TimePasses \/ UNCHANGED vars
  BY <1>7 DEF TimePasses, Tick, vars
<1> QED
  BY <1>1, <1>2, <1>3, <1>4, <1>5, <1>6, <1>7 DEF Next, Step, SearchStep, Terminated

(* The two modules compare prompts alike. *)
LEMMA SameOrder == \A c, v, r, w : Promise!Improves(c, v, r, w) <=> Improves(c, v, r, w)
BY DEF Improves, IsStrictlyBetter, CoreRegression, LexLess, RankKey, Bit,
   Promise!Improves, Promise!IsStrictlyBetter, Promise!CoreRegression, Promise!LexLess,
   Promise!RankKey, Promise!Bit

Over == {"done", "raised"}

LEMMA PromiseStep ==
    HandoverIInv /\ HandoverIInv' /\ ExplainedInv /\ [Next]_vars
        => [Promise!AbsNext]_(Promise!absVars)
<1> SUFFICES ASSUME HandoverIInv, HandoverIInv', ExplainedInv, [Next]_vars
             PROVE  Promise!AbsNext \/ UNCHANGED Promise!absVars
  OBVIOUS
<1> USE DEF Over, Throw, Goto, budgetVars, searchVars, loopVars, championVars, gepaVars, sourceVars,
        runnerVars
<1>0. /\ evaluations \in Nat /\ proposals \in Nat
      /\ evaluations' \in 0..MaxEvaluations /\ proposals' \in 0..MaxProposals
  BY ConstantsTyped DEF HandoverIInv, TypeInv, TypeOK
<1>1. ASSUME pc \notin Over, pc' \notin Over, evaluations' >= evaluations, proposals' >= proposals,
             expired' \in {expired, TRUE}, UNCHANGED before,
             Promise!Keep \/ Promise!Replace
      PROVE  Promise!AbsNext
  <2>1. Promise!Spend
    BY <1>0, <1>1, ConstantsTyped DEF Promise!Spend
  <2> QED
    BY <1>1, <2>1 DEF Promise!AbsNext, Promise!Work
<1>2. ASSUME pc \notin Over, pc' = "done",
             UNCHANGED <<expired, evaluations, proposals, championVars>>
      PROVE  Promise!AbsNext
  BY <1>2 DEF Promise!AbsNext, Promise!Return, Promise!budget
<1>3. ASSUME pc = "throw", pc' = "raised",
             UNCHANGED <<exc, expired, evaluations, proposals, championVars>>
      PROVE  Promise!AbsNext
  <2>1. exc \in Promise!Failures
    BY <1>3 DEF HandoverIInv, TypeInv, TypeOK, SearchCapInv, NoTornIteration, HandoverInv,
       ExplainedInv, RunnerExceptions, PendingExceptions, Promise!Failures
  <2>2. Promise!Explained(exc)
    BY DEF Promise!Explained, ExplainedInv
  <2> QED
    BY <1>3, <2>1, <2>2 DEF Promise!AbsNext, Promise!Raise, Promise!budget
<1>4. CASE CallStep
  <2>1. /\ pc \notin Over /\ pc' \notin Over /\ UNCHANGED <<expired, proposals, championVars>>
        /\ evaluations' \in {evaluations, evaluations + 1}
    BY <1>4 DEF CallStep, RunCall, ChargeCall, BoundCall, SetTimeout, CallReturns, CallFails,
       VerifyBounded, VerifyFails
  <2> QED
    BY <1>0, <1>1, <2>1 DEF Promise!Keep
<1>5. CASE Gepa
  <2>1. pc \notin Over /\ pc' \notin Over /\ UNCHANGED <<budgetVars, championVars>>
    BY <1>5 DEF Gepa, GepaLoop, SeedScored, MinibatchScored, ProposalScored, ProposalAdded, Evaluate
  <2> QED
    BY <1>0, <1>1, <2>1 DEF Promise!Keep
<1>6. CASE Proposal
  <2>1. /\ pc \notin Over /\ pc' \notin Over /\ UNCHANGED <<expired, evaluations, championVars>>
        /\ proposals' \in {proposals, proposals + 1}
    BY <1>6 DEF Proposal, ConsumeProposal, TeacherFails, TeacherAnswers, BoundValidation,
       SetValidationTimeout, ValidationFails, ProposalValid, Fail, Evaluate
  <2> QED
    BY <1>0, <1>1, <2>1 DEF Promise!Keep
<1>7. CASE StagesCompleted \/ AttemptHead \/ AttemptVerified
  <2>1. /\ pc \notin Over /\ pc' # "raised" /\ UNCHANGED <<budgetVars, championVars>>
    BY <1>7 DEF StagesCompleted, AttemptHead, AttemptVerified, Stop, Verified
  <2> QED
    BY <1>0, <1>1, <1>2, <2>1 DEF Promise!Keep
<1>8. CASE BeginAttempt \/ StartGepa \/ GepaReturned
  <2>1. /\ pc \notin Over /\ pc' \notin Over
        /\ UNCHANGED <<expired, evaluations, proposals, championVars>>
    BY <1>8 DEF BeginAttempt, StartGepa, GepaReturned, Verified, Evaluate, EndAttempt, CloseAttempt
  <2> QED
    BY <1>0, <1>1, <2>1 DEF Promise!Keep
<1>9. CASE PairedAssessed
  <2>1. /\ pc = "call" /\ pc' = "verify"
        /\ UNCHANGED <<expired, evaluations, proposals, before>>
    BY <1>9 DEF PairedAssessed, EndAttempt
  <2>2. \/ UNCHANGED <<champion, measured>>
        \/ \E tested \in Verdicts : /\ Improves(proposed, tested, champion, measured)
                                    /\ champion' = proposed /\ measured' = tested
    BY <1>9 DEF PairedAssessed
  <2>3. proposed \in Candidates
    BY DEF HandoverIInv, TypeInv, TypeOK
  <2>4. Promise!Keep \/ Promise!Replace
    BY <2>2, <2>3, SameOrder DEF Promise!Keep, Promise!Replace
  <2> QED
    BY <1>0, <1>1, <2>1, <2>4
<1>10. CASE CatchInAttempt
  <2>1. /\ pc = "throw" /\ pc' \in {"verify", "done", "raised"}
        /\ UNCHANGED <<expired, evaluations, proposals, championVars, searchCalls>>
        /\ pc' = "raised" => UNCHANGED exc
    BY <1>10 DEF CatchInAttempt, EndAttempt, CloseAttempt, Stop
  <2> QED
    BY <1>0, <1>1, <1>2, <1>3, <2>1 DEF Promise!Keep
<1>11. CASE Propagate
  BY <1>3, <1>11 DEF Propagate
<1>12. CASE TimePasses
  <2>1. /\ pc \notin Over /\ UNCHANGED <<pc, exc, proposals, evaluations, championVars>>
        /\ expired' = TRUE
    BY <1>12 DEF TimePasses, Tick
  <2> QED
    BY <1>0, <1>1, <2>1 DEF Promise!Keep
<1>13. CASE UNCHANGED vars
  BY <1>13 DEF vars, Promise!absVars, Promise!budget
<1> QED
  BY <1>4, <1>5, <1>6, <1>7, <1>8, <1>9, <1>10, <1>11, <1>12, <1>13
     DEF Next, Step, SearchStep, Terminated

(* The search implements AbstractSearch: whatever the proposer, GEPA, the  *)
(* runner and the clock do, its caller sees spending within the limits,    *)
(* champions that beat the last one, and an end that is explained.         *)
THEOREM SearchKeepsPromise == Spec => KeepsPromise
<1>1. Init => Promise!AbsInit
  <2> SUFFICES ASSUME Init PROVE Promise!AbsInit
    OBVIOUS
  <2>1. evaluations \in 0..MaxEvaluations
    BY InitTyped DEF TypeInv, TypeOK
  <2> QED
    BY <2>1 DEF Init, Promise!AbsInit
<1>2. HandoverIInv /\ HandoverIInv' /\ ExplainedInv /\ [Next]_vars
        => [Promise!AbsNext]_(Promise!absVars)
  BY PromiseStep
<1>3. HandoverIInv /\ ExplainedInv /\ [Next]_vars => ExplainedInv'
  BY ExplainedStep DEF HandoverIInv
<1> QED
  BY <1>1, <1>2, <1>3, HandoverInductive, HandoverIInvStep, InitExplained, PTL
     DEF Spec, KeepsPromise, Promise!AbsSpec

----------------------------------------------------------------------------
(* The calls of an attempt. *)

Used == searchCalls - countBefore

FitsStage(n, i) == n <= ValidationCases \/ n < AttemptCalls[i] + NextIterationEvaluations

(* Below the stage by the rest of the iteration: GEPA asks for the next    *)
(* iteration only while the stage is not used up, and each evaluation      *)
(* spends one from both sides.                                             *)
Charged == pc \in {"bound", "timeout", "running"}

OverrunInv ==
    /\ AttemptOverrunBounded
    /\ \A i \in 1..NAttempts : i > index => attempts[i].status = "none"
    /\ AttemptOpen \/ Calling \/ pc = "returned" => FitsStage(Used, index)
    /\ pc = "begin" => Used = 0
    /\ pc = "call" /\ task = "initial" => Used + todo <= ValidationCases
    /\ Charged /\ task = "initial" => Used + todo - 1 <= ValidationCases
    /\ pc = "loop" => FitsStage(Used, index)
    /\ pc = "call" /\ task \in IterationTasks \ {"initial"} =>
          Used + todo + CallsAfter(task) < AttemptCalls[index] + NextIterationEvaluations
    /\ Charged /\ task \in IterationTasks \ {"initial"} =>
          Used + todo - 1 + CallsAfter(task) < AttemptCalls[index] + NextIterationEvaluations
    /\ Proposing =>
          Used + Minibatch + ValidationCases < AttemptCalls[index] + NextIterationEvaluations

LEMMA InitOverrun == Init => OverrunInv
<1> SUFFICES ASSUME Init PROVE OverrunInv
  OBVIOUS
<1>1. \A i \in 1..NAttempts : attempts[i].status = "none" /\ attempts[i].calls = 0
  BY DEF Init, NoAttempt
<1> QED
  BY <1>1, ConstantsTyped DEF Init, OverrunInv, AttemptOverrunBounded, AttemptOpen, Calling, Charged,
     Proposing

(* An attempt is closed with what it has used. *)
LEMMA CloseFits ==
    ASSUME TypeInv, AttemptOverrunBounded, index <= NAttempts, FitsStage(Used, index),
           NEW s, NEW c, CloseAttempt(s, c)
    PROVE  /\ AttemptOverrunBounded'
           /\ \A i \in 1..NAttempts : i # index => attempts'[i] = attempts[i]
           /\ attempts'[index].status = s
<1>1. index \in 1..NAttempts /\ attempts \in [1..NAttempts -> AttemptRecord]
  BY ConstantsTyped DEF TypeInv, TypeOK
<1>2. attempts' = [attempts EXCEPT ![index] = [status |-> s, best |-> c, calls |-> Used]]
  BY DEF CloseAttempt, Used
<1> QED
  BY <1>1, <1>2 DEF AttemptOverrunBounded, FitsStage

LEMMA OverrunStep ==
    TypeInv /\ HandoverInv /\ OverrunInv /\ [Next]_vars => OverrunInv'
<1> SUFFICES ASSUME TypeInv, HandoverInv, OverrunInv, [Next]_vars PROVE OverrunInv'
  OBVIOUS
<1> USE ConstantsTyped, CallsAfterValues DEF OverrunInv, Calling, Charged, Proposing, Throw, Goto,
        Evaluate, budgetVars, searchVars, loopVars, championVars, gepaVars, sourceVars, runnerVars
<1>0. /\ {"initial", "current", "proposed", "full"} = IterationTasks
      /\ searchCalls \in Nat /\ countBefore \in Nat /\ Used \in Int /\ todo \in Nat
      /\ index \in 1..(NAttempts + 1) /\ (index > NAttempts => pc \in {"head", "done"})
      /\ \A i \in 1..NAttempts : AttemptCalls[i] \in Nat
  BY SearchAssumption DEF IterationTasks, TypeInv, TypeOK, ControlOK, Used
<1>1. CASE CallStep
  <2>1. UNCHANGED <<task, index, attempts, countBefore>>
    BY <1>1 DEF CallStep, RunCall, ChargeCall, BoundCall, SetTimeout, CallReturns, CallFails,
       VerifyBounded, VerifyFails
  <2>2. CASE ChargeCall
    BY <1>0, <1>1, <2>1, <2>2 DEF ChargeCall, Used, FitsStage, AttemptOverrunBounded, AttemptOpen,
       HandoverInv
  <2>3. CASE BoundCall \/ SetTimeout \/ CallReturns \/ CallFails \/ VerifyBounded \/ VerifyFails
    BY <1>0, <1>1, <2>1, <2>3 DEF BoundCall, SetTimeout, CallReturns, CallFails, VerifyBounded,
       VerifyFails, Used, FitsStage, AttemptOverrunBounded, AttemptOpen
  <2> QED
    BY <1>1, <2>2, <2>3 DEF CallStep, RunCall
<1>2. CASE Gepa
  BY <1>0, <1>2 DEF Gepa, GepaLoop, ShouldStop, SeedScored, MinibatchScored, ProposalScored,
     ProposalAdded, Used, FitsStage, AttemptOverrunBounded, AttemptOpen
<1>3. CASE Proposal
  BY <1>0, <1>3 DEF Proposal, ConsumeProposal, TeacherFails, TeacherAnswers, BoundValidation,
     SetValidationTimeout, ValidationFails, ProposalValid, Fail, Used, FitsStage,
     AttemptOverrunBounded, AttemptOpen
<1>4. CASE StagesCompleted \/ AttemptHead \/ StartGepa \/ Propagate
  BY <1>0, <1>4 DEF StagesCompleted, AttemptHead, StartGepa, Propagate, Stop, Used, FitsStage,
     AttemptOverrunBounded, AttemptOpen
<1>5. CASE BeginAttempt
  BY <1>0, <1>5 DEF BeginAttempt, Verified, NoAttempt, Used, FitsStage, AttemptOverrunBounded,
     AttemptOpen
<1>6. CASE GepaReturned
  BY <1>0, <1>6, CloseFits DEF GepaReturned, EndAttempt, Used, FitsStage, AttemptOverrunBounded,
     AttemptOpen
<1>7. CASE PairedAssessed
  BY <1>0, <1>7, CloseFits DEF PairedAssessed, EndAttempt, Used, FitsStage, AttemptOpen
<1>8. CASE AttemptVerified
  BY <1>0, <1>8 DEF AttemptVerified, Verified, Used, FitsStage, AttemptOverrunBounded, AttemptOpen
<1>9. CASE CatchInAttempt
  BY <1>0, <1>9, CloseFits DEF CatchInAttempt, EndAttempt, Stop, Used, FitsStage, AttemptOpen
<1>10. CASE TimePasses \/ UNCHANGED vars
  BY <1>10 DEF TimePasses, Tick, vars, Used, FitsStage, AttemptOverrunBounded, AttemptOpen
<1> QED
  BY <1>1, <1>2, <1>3, <1>4, <1>5, <1>6, <1>7, <1>8, <1>9, <1>10 DEF Next, Step, SearchStep, Terminated

(* An attempt overruns its stage by less than one iteration of GEPA. *)
THEOREM OverrunAlwaysBounded == Spec => []AttemptOverrunBounded
<1>1. OverrunInv => AttemptOverrunBounded
  BY DEF OverrunInv
<1>2. HandoverIInv /\ OverrunInv /\ [Next]_vars => OverrunInv'
  BY OverrunStep DEF HandoverIInv
<1> QED
  BY <1>1, <1>2, InitOverrun, HandoverInductive, HandoverIInvStep, PTL DEF Spec

----------------------------------------------------------------------------
(* Stagnation: the last n attempts up to `last' were fruitless, and the    *)
(* one before them, if there was one, was not.                             *)
Counting(n, last) ==
    /\ n <= last
    /\ \A j \in (last - n + 1)..last : Fruitless(j)
    /\ n < last => ~Fruitless(last - n)

Closed == pc \in {"verify", "probing"} /\ task = "after_attempt"

Underway ==
    \/ pc \in {"head", "begin", "loop", "returned"} \/ Calling \/ Proposing
    \/ pc \in {"verify", "probing"} /\ task # "after_attempt"

StagnationInv ==
    /\ StagnationStopsSearch
    /\ \A i \in 1..NAttempts : i > index => attempts[i].status = "none"
    /\ stopReason # "none" => pc = "done"
    /\ Underway => stagnation < StagnationLimit /\ Counting(stagnation, index - 1)
    /\ Closed => stagnation <= StagnationLimit /\ Counting(stagnation, index)

LEMMA InitStagnation == Init => StagnationInv
<1> SUFFICES ASSUME Init PROVE StagnationInv
  OBVIOUS
<1>1. \A i \in 1..NAttempts : attempts[i].status = "none"
  BY DEF Init, NoAttempt
<1>2. StagnationLimit \in Nat \ {0} /\ NAttempts \in Nat
  BY SearchAssumption
<1> QED
  BY <1>1, <1>2 DEF Init, StagnationInv, StagnationStopsSearch, Counting, Closed, Underway

(* What StagnationInv says does not depend on the attempt under way. *)
LEMMA StagnationStep ==
    TypeInv /\ HandoverInv /\ StagnationInv /\ [Next]_vars => StagnationInv'
<1> SUFFICES ASSUME TypeInv, HandoverInv, StagnationInv, [Next]_vars PROVE StagnationInv'
  OBVIOUS
<1> USE DEF StagnationInv, Closed, Underway, Calling, Proposing, Throw, Goto, Evaluate, budgetVars,
        searchVars, loopVars, championVars, gepaVars, sourceVars, runnerVars
<1>0. /\ StagnationLimit \in Nat \ {0} /\ NAttempts \in Nat /\ stagnation \in Nat
      /\ index \in 1..(NAttempts + 1) /\ (index > NAttempts => pc \in {"head", "done"})
  BY SearchAssumption DEF TypeInv, TypeOK, ControlOK
(* No attempt ends. *)
<1>1. ASSUME UNCHANGED <<attempts, index, stagnation>>, stopReason' # "stagnation",
             stopReason' # "none" => pc' = "done", Underway' => Underway, Closed' => Closed
      PROVE  StagnationInv'
  BY <1>1 DEF StagnationStopsSearch, Counting, Fruitless
<1>2. CASE CallStep
  BY <1>1, <1>2 DEF CallStep, RunCall, ChargeCall, BoundCall, SetTimeout, CallReturns, CallFails,
     VerifyBounded, VerifyFails, StagnationStopsSearch
<1>3. CASE Gepa
  BY <1>1, <1>3 DEF Gepa, GepaLoop, SeedScored, MinibatchScored, ProposalScored, ProposalAdded
<1>4. CASE Proposal
  BY <1>1, <1>4 DEF Proposal, ConsumeProposal, TeacherFails, TeacherAnswers, BoundValidation,
     SetValidationTimeout, ValidationFails, ProposalValid, Fail
<1>5. CASE StagesCompleted \/ AttemptHead \/ StartGepa \/ Propagate
  BY <1>1, <1>5 DEF StagesCompleted, AttemptHead, StartGepa, Propagate, Stop
<1>6. CASE TimePasses \/ UNCHANGED vars
  <2>1. CASE TimePasses
    BY <1>1, <2>1 DEF TimePasses, Tick
  <2>2. CASE UNCHANGED vars
    BY <2>2 DEF vars, StagnationStopsSearch, Counting, Fruitless
  <2> QED
    BY <1>6, <2>1, <2>2
(* Only the record of the attempt under way changes. *)
<1>7. ASSUME UNCHANGED index, index <= NAttempts, stopReason' # "stagnation",
             \A i \in 1..NAttempts : i # index => attempts'[i] = attempts[i],
             Underway \/ attempts[index].status # "none"
      PROVE  /\ StagnationStopsSearch'
             /\ \A i \in 1..NAttempts : i > index' => attempts'[i].status = "none"
             /\ Underway => Counting(stagnation, index - 1) /\ stagnation < StagnationLimit
             /\ \A i \in 1..NAttempts : i # index => (Fruitless(i)' <=> Fruitless(i))
  <2>1. \A i \in 1..NAttempts : i # index => (Fruitless(i)' <=> Fruitless(i))
    BY <1>7 DEF Fruitless
  <2>2. index > StagnationLimit => \E k \in (index - StagnationLimit)..(index - 1) : ~Fruitless(k)
    <3>1. CASE attempts[index].status # "none"
      BY <1>0, <1>7, <3>1 DEF StagnationStopsSearch
    <3>2. CASE Underway
      <4>1. ASSUME index > StagnationLimit
            PROVE  /\ index - 1 - stagnation \in (index - StagnationLimit)..(index - 1)
                   /\ ~Fruitless(index - 1 - stagnation)
        BY <1>0, <3>2, <4>1 DEF Counting
      <4> QED
        BY <4>1
    <3> QED
      BY <1>7, <3>1, <3>2
  <2>3. ASSUME NEW i \in (StagnationLimit + 1)..NAttempts, attempts'[i].status # "none"
        PROVE  \E k \in (i - StagnationLimit)..(i - 1) : ~Fruitless(k)'
    <3>1. i \in 1..NAttempts /\ i <= index
      BY <1>0, <1>7, <2>3
    <3>2. \E k \in (i - StagnationLimit)..(i - 1) : ~Fruitless(k)
      <4>1. CASE i = index
        BY <1>0, <2>2, <2>3, <4>1
      <4>2. CASE i # index
        BY <1>7, <2>3, <3>1, <4>2 DEF StagnationStopsSearch
      <4> QED
        BY <4>1, <4>2
    <3>3. PICK k \in (i - StagnationLimit)..(i - 1) : ~Fruitless(k)
      BY <3>2
    <3>4. k \in 1..NAttempts /\ k # index
      BY <1>0, <2>3, <3>1
    <3> QED
      BY <2>1, <3>3, <3>4
  <2> QED
    BY <1>0, <1>7, <2>1, <2>3 DEF StagnationStopsSearch
<1>8. CASE BeginAttempt
  <2>1. /\ UNCHANGED <<index, stagnation, stopReason>> /\ stopReason # "stagnation"
        /\ index <= NAttempts /\ Underway /\ pc' = "begin"
        /\ \A i \in 1..NAttempts : i # index => attempts'[i] = attempts[i]
    BY <1>0, <1>8 DEF BeginAttempt, Verified, TypeInv, TypeOK
  <2> QED
    BY <1>0, <1>7, <2>1, <1>8 DEF BeginAttempt, Verified, Counting
(* A fruitless attempt ends, and one more than before are in a row. *)
<1>9. ASSUME index <= NAttempts, Underway, UNCHANGED <<index, stopReason>>, stopReason = "none",
             NEW s \in {"unchanged", "not_improved"}, NEW c, EndAttempt(s, c),
             stagnation' = stagnation + 1
      PROVE  StagnationInv'
  <2>1. /\ \A i \in 1..NAttempts : i # index => attempts'[i] = attempts[i]
        /\ attempts'[index].status = s
    BY <1>0, <1>9 DEF EndAttempt, CloseAttempt, TypeInv, TypeOK
  <2>2. Fruitless(index)'
    BY <1>9, <2>1 DEF Fruitless
  <2>3. /\ StagnationStopsSearch'
        /\ \A i \in 1..NAttempts : i > index' => attempts'[i].status = "none"
        /\ Counting(stagnation, index - 1) /\ stagnation < StagnationLimit
        /\ \A i \in 1..NAttempts : i # index => (Fruitless(i)' <=> Fruitless(i))
    BY <1>7, <1>9, <2>1
  <2>4. Counting(stagnation, index)'
    BY <1>0, <1>9, <2>2, <2>3 DEF Counting
  <2> QED
    BY <1>0, <1>9, <2>3, <2>4 DEF EndAttempt
<1>10. CASE GepaReturned
  <2>1. /\ pc = "returned" /\ index <= NAttempts /\ Underway /\ UNCHANGED <<index, stopReason>>
        /\ stopReason = "none"
    BY <1>0, <1>10 DEF GepaReturned
  <2>2. CASE UNCHANGED <<attempts, stagnation>> /\ pc' \in {"throw", "call"}
    BY <1>1, <2>1, <2>2
  <2>3. CASE EndAttempt("unchanged", best) /\ stagnation' = stagnation + 1
    BY <1>9, <2>1, <2>3
  <2> QED
    BY <1>10, <2>2, <2>3 DEF GepaReturned
<1>11. CASE PairedAssessed
  <2>1. /\ pc = "call" /\ index <= NAttempts /\ Underway /\ UNCHANGED <<index, stopReason>>
        /\ stopReason = "none"
    BY <1>0, <1>11 DEF PairedAssessed
  <2>2. CASE EndAttempt("not_improved", proposed) /\ stagnation' = stagnation + 1
    BY <1>9, <2>1, <2>2
  <2>3. CASE EndAttempt("selected", proposed) /\ stagnation' = 0
    <3>1. /\ \A i \in 1..NAttempts : i # index => attempts'[i] = attempts[i]
          /\ attempts'[index].status = "selected"
      BY <1>0, <2>1, <2>3 DEF EndAttempt, CloseAttempt, TypeInv, TypeOK
    <3>2. Counting(stagnation, index)'
      BY <1>0, <2>1, <2>3, <3>1 DEF Counting, Fruitless
    <3> QED
      BY <1>0, <1>7, <2>1, <2>3, <3>1, <3>2 DEF EndAttempt
  <2> QED
    BY <1>11, <2>2, <2>3 DEF PairedAssessed
<1>12. CASE AttemptVerified
  BY <1>0, <1>12 DEF AttemptVerified, Verified, StagnationStopsSearch, Counting, Fruitless
<1>13. CASE CatchInAttempt
  <2>1. /\ pc = "throw" /\ pc' \in {"done", "raised"} /\ UNCHANGED index /\ stopReason = "none"
        /\ index <= NAttempts /\ attempts[index].status # "none"
        /\ stopReason' \in {"none", "total_metric_calls", "max_proposals"}
        /\ stopReason' # "none" => pc' = "done"
    BY <1>0, <1>13 DEF CatchInAttempt, HandoverInv, AttemptOpen, InOptimize, CloseAttempt, Stop
  <2>2. \A i \in 1..NAttempts : i # index => attempts'[i] = attempts[i]
    BY <1>0, <1>13 DEF CatchInAttempt, CloseAttempt, EndAttempt, TypeInv, TypeOK
  <2> QED
    BY <1>7, <2>1, <2>2
<1> QED
  BY <1>2, <1>3, <1>4, <1>5, <1>6, <1>8, <1>10, <1>11, <1>12, <1>13
     DEF Next, Step, SearchStep, Terminated

(* However many attempts there are, the search goes on exactly until       *)
(* StagnationLimit of them in a row have not replaced the champion.        *)
THEOREM StagnationAlwaysStops == Spec => []StagnationStopsSearch
<1>1. StagnationInv => StagnationStopsSearch
  BY DEF StagnationInv
<1>2. HandoverIInv /\ StagnationInv /\ [Next]_vars => StagnationInv'
  BY StagnationStep DEF HandoverIInv
<1> QED
  BY <1>1, <1>2, InitStagnation, HandoverInductive, HandoverIInvStep, PTL DEF Spec
=============================================================================
