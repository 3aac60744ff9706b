# Verification of Korvid Prompt Lab

Korvid Prompt Lab searches for a better system prompt for Korvid, a Kubernetes
agent, and qualifies it on cases it has never seen.  The program is a single
controller, but around it run a reader thread, child processes, a node pool
shared with other people, a wall clock and an operator with Ctrl-C.  This
directory holds TLA+ models of those parts, TLC runs that check them, and
theorems proved with TLAPS.

Every definition is a translation of code in `src/src/korvid_prompt_lab`;
`PROJECT.json` maps each to its lines.  The file names below are in that
directory.

## 1. Inventory

| part | files | state it keeps | operations | what is hard |
|---|---|---|---|---|
| Prompt search | `experiment.py` (`_search`), `optimize.py`, `reflection.py`, `adapter.py`, `experiment_budget.py` | budget counters and clock, champion and its measurement, stagnation, attempts, audit ledger, fingerprints seen, swallowed exception | run one GEPA invocation per (stage, seed); propose, check, evaluate; paired assessment | GEPA swallows exceptions; four budgets with different scopes; the deadline between any two reads of the clock |
| Scoring | `scoring.py`, `experiment_evaluation.py` | none | pass^k, rank, improves, qualifies | boundaries, order of a rank of seven components |
| Assessment | `experiment_evaluation.py` | records, modes | run each case several times, condense | inconsistent evidence, one failed run |
| Upstream evaluation | `upstream.py` (`KorvidUpstreamRunner.run`), `upstream_worker.py` (`_evaluate`) | case and prompt as read, recorded tool calls, turns, `response.json`, `upstream-summary.json` | read, compare, run, report, validate, write | files read three times that somebody may edit; a failed turn in the middle of a journey; streams let go of; two artifacts and a retry |
| Experiment | `experiment.py`, `cli.py` | phase, summary, session, exception in flight | phases, `except` clauses, `finally`, exit code | failure and signal at every step; what is on disk when the process dies |
| Summary file | `experiment.py` | `experiment-summary.json` | written at each phase and at the end | readers see it at any moment |
| Model session | `model_session.py` | pool count, ownership, port-forward, rechecks, `model-session.json` | open with retries, verify, verify again, four-part cleanup | commands that fail after working; other sessions on the pool; an endpoint that changes; signal in the cleanup |
| AKS port-forward | `aks.py` | child, kubeconfig, buffer, failure | `__enter__`, reader thread, `__exit__` | two threads, pieces of output, a child that will not die |
| Worker process | `source_runtime.py`, `runner.py`, `upstream_worker.py` (`main`) | process group, pipes, `response.json` | launch, communicate with timeout, tear down, read the response | descendants that hold pipes or ignore SIGTERM |
| Experiment file | `experiment_config.py`, `contracts.py` | none once loaded | `load_experiment` | disjoint splits, planned against total calls |
| Snapshot, contract, adapter texts | `upstream.py` (`inspect_upstream`), `upstream_contract.py`, `adapter.py` | files | shape checks, hashing, feedback texts | none: tests of single values, formatting |

They interact by calls and exceptions.  `command_run` calls `run_experiment`,
which opens a model session (that may hold a port-forward), assesses the
baseline, calls `_search`, and runs the frozen validation, the holdout and the
export.  All evaluations go through `_BudgetedRunner`, which starts one worker
process each.  The search shares with the experiment the runner and the budget,
and nothing else.  The parts meet the outside at: the wall clock, signals, the
files on disk, `az` and `kubectl`, the model endpoint, and GEPA.

What makes each part correct:

* **search** – the budgets hold; no GEPA run is cut in the middle of an
  iteration; every proposal is accounted for; a failed proposal stops the
  spending; the champion is never worse than what it replaced; the loop ends;
* **scoring, assessment** – the gate is unanimous, more success is a better
  rank, and an incomplete assessment yields no score;
* **experiment** – exit code, file on disk and cleanup tell one story;
  qualification is earned; the holdout is opened once and leaves a trace;
* **evaluation** – what is scored was a sound run of the candidate on the case of
  the catalog, with its whole trace, and its two artifacts belong together;
* **session, port-forward, worker** – nothing that was started is left behind,
  what is not ours is not touched, answers are whole, every wait ends;
* **file** – the holdout is unseen and the plan is covered by its budget.

## 2. Modules

| module | models | extends / uses |
|---|---|---|
| `Scoring` | ranking, comparison, gate, as operators | |
| `BudgetedRunner` | `ExperimentBudget`, `_BudgetedRunner.run`, the bounded endpoint check; one evaluation in four steps, one for each read of the clock | |
| `PromptSearch` | `_search`, `optimize_campaign`, `_OptimizationStopper`, `AuditedProposalSource`; GEPA from its use | `BudgetedRunner`, `Scoring` |
| `AbstractSearch` | what the search promises its caller | `Scoring` |
| `Experiment` | `run_experiment`, `command_run`, signals | `BudgetedRunner`, `Scoring`; `AbstractSearch` inside |
| `SummaryFile` | what the summary file promises its readers | |
| `Assessment` | `assess`, a run being one step | `Scoring` |
| `Evaluation` | one run: `KorvidUpstreamRunner.run`, the worker's `_evaluate`, the observed provider, the two artifacts | |
| `Config` | `load_experiment` | |
| `ModelSession` | `model_session`, several processes on one pool | |
| `PortForward` | `AKSPortForward`, child, reader thread and buffer | |
| `Worker` | `run_upstream_request`, `_terminate_process_group`, the worker and its descendants | |
| `PromptSearchProofs`, `ExperimentProofs`, `AssessmentProofs`, `EvaluationProofs`, `ConfigProofs`, `ModelSessionProofs`, `PortForwardProofs`, `WorkerProofs` | theorems | each the module it is named for |
| `MC*` | constants of the runs | |

Two refinements join them.  `PromptSearch` implements `AbstractSearch`
(`KeepsPromise`), and `Experiment` contains `AbstractSearch` as its step
`SearchWorks`: that is why `Experiment` needs none of the search's state.
`Experiment` implements `SummaryFile` (`KeepsSummaryFile`), with the file on
disk as the refinement mapping.  Both are checked with TLC and proved
(`SearchKeepsPromise`, `ImplementsSummaryFile`).  The verdicts with which both are modelled are
those `Assessment` is proved to return (`VerdictIsRealizable`; the `MC` modules
assume the same operator `Realizable`), and the seeds and calls of the attempts are
what `Config` is proved to accept (`PlanIsCovered`).

How state and actions correspond to the code:

* `pc` is a point of the code between two things another actor can separate: a
  read of the clock, a call that can fail, a write, the arrival of a signal.  A
  chain of statements nobody can come between is one action.
* An exception in flight is `pc = "throw"` with `exc` (search, experiment) or the
  field the `finally` looks at (`primary` of a session, `error` of a
  port-forward, `outcome` of a worker).  Whoever catches it is an action:
  `CatchInAttempt`, `Handle`, `Exit`.
* The wall clock is a Boolean that turns true once, between any two steps.
  Nothing in the code depends on how late it is, only on whether it is.
* A command that fails may or may not have had its effect (`ScaleUp`, `Restore`).
* A signal is `Interrupt`; inside a `finally` it drops the rest of it, as
  `KeyboardInterrupt` does.  A SIGKILL needs no action: what is on disk in a
  state is what it would leave.
* Mutants are operators beside the definition they replace, marked "Mutant
  of"; no specification refers to them.

## 3. Runs

| run | instance | distinct states | what it shows |
|---|---|---|---|
| `search` | 3 attempts, 2 prompts, 4 verdicts, 1 validation case | 1.20 M | budgets, no torn iteration, champion, ledger, stagnation, promise, end |
| `experiment` | 1 validation and 1 holdout case, 2 probes, 1 signal | 573 k | exit code, file, session and claims agree; the file keeps its promise; the run ends |
| `assessment` | 2 cases × 5 repetitions | 531 k | verdicts, rank and gate over every combination of outcomes |
| `config` | 2 references per split, 2 stages of 2 seeds, numbers up to 5 | 275 k | what is accepted is disjoint, distinct and covered |
| `evaluation` | 2 prompts, journeys of 2 turns, 2 calls, 2 edits, 2 runs in a directory | 1.36 M | a verdict of sound turns, the whole trace, attested inputs, artifacts that belong together |
| `session` | 2 sessions on one pool, or one on AKS and one on loopback; 1 signal | 722 k | quiet ends leave the pool right; the file can be trusted; only an empty pool is scaled; no orphan; an end |
| `worker` | 2 descendants, 2 signals | 144 k | whole answers, complete teardown, an end |
| `forward` | pipe and buffer of 2 pieces, window of 1, 1 signal | 78 k | whole port, nothing skipped, nothing left, pipe drained, both halves end |

and four runs that find a disagreement between the code and what its documents
or tests say (section 6).

The properties, where to read them: each is stated in a comment before its
definition at the end of its module.  The ones a reader should look at first
are `NoTornIteration`, `EvaluatedBestIsAssessed`, `AttemptOverrunBounded`,
`ChampionBeatsBaseline` and `KeepsPromise` in `PromptSearch`; `ExitMatchesSummary`,
`QualifiedIsEarned`, `HoldoutLeavesTrace` and `KeepsSummaryFile` in `Experiment`;
`QuietEndIsClean` and `FileCanBeTrusted` in `ModelSession`; `VerdictIsSound`,
`InputsAreAttested` and `EvidenceIsWhole` in `Evaluation`; `TeardownIsComplete` in `Worker`;
`NothingReadIsSkipped` in `PortForward`.

**Bounds, and why they are enough.**  Every bound is a CONSTANT of the
configuration or named as a bound of the model in the module.

* Three attempts are the fewest in which the champion changes between two
  fruitless attempts, so that the stagnation counter is reset and counts again.
  `StagnationLimit` 2, one validation case of five repetitions (the least the
  program accepts) and the call limits are chosen so that each limit can be the
  one that stops the search; the first stage has room for another iteration after a
  complete one, where an attempt can overrun or drop its best candidate.  The
  verdicts differ in success and in safety.
* In `experiment` the evaluation budget is one short of the longest run, so that
  it can run out in every phase; one signal arrives anywhere, which is all it
  takes, since a process that was signalled in its `finally` is on its way out.
* Two cases show grouping, five repetitions the gate at its limit, and the first
  three of five that `pass^3` is about the first ones.
* Two sessions are where sharing of a pool begins, and include all that one does
  alone; one node is all that tells a running pool from an empty one; where nothing is shared, one of each other kind is enough.  The theorems
  hold for any number and any kinds.  The recheck loop needs no bound: only the last
  entry is kept.
* In `evaluation` a journey of two turns has an early turn and a last one, two calls
  can go to one provider or to two, two edits can change a file and put it back or
  change both files, and a second run in the same directory finds what the first
  left.  The prompts differ only by name: symmetry is used, for invariants alone.
* Two descendants: one that holds the pipes and one that does not, one that
  ignores SIGTERM and one that does not, one that starts the other.
* A buffer shorter than what the child writes, and a line in two pieces, so that
  it can be cut in the reader, in the buffer and in the window.

**Fairness.**  `WF_vars(Step)` of search and experiment: the controller is a
thread whose every call has a timeout, and nothing is assumed of the clock, of
the outcome of a call, or of a signal.  A session's steps are weakly fair for
the same reason, and its readiness deadline comes, because each round of the
retry loop sleeps or works while a monotonic clock runs.  The end of a session's
body is strongly fair: an experiment has the endpoint verified a bounded number of
times (its budgets, see `Termination` of `Experiment`), so it cannot go on with
rechecks for ever.  For the worker only
the lab's own steps and the delivery of a deadly signal are fair: the worker
and its children may hang for ever, and `RequestEnds` holds all the same.  For
the port-forward the main thread, the reader thread (it only ever waits in
`os.read`), the deadline and the delivery of a signal; the child promises
nothing.  `Assessment`, `Evaluation` and `Config` are checked for safety alone: they are loops
over finite data, and of the agent in the middle of an evaluation only the timeout
of the worker says that it ends (`RequestEnds` of `Worker`).

`CHECK_DEADLOCK` is left on in every run: a program that has ended stutters
explicitly (`Terminated`), and anything else that stops is an error.

## 4. Proofs

What TLAPS proves holds for every value of the constants, under the ASSUME of
the module: positive limits, a baseline among the candidates, verdicts of the
right shape, at least five repetitions (`SearchAssumption`, `BudgetAssumption`,
`ExperimentAssumption`); at least one prompt and one turn (`EvaluationAssumption`);
cases and repetitions that are not zero (`AssessmentAssumption`); bounds that are
numbers (`ConfigAssumption`);
kinds of connections and a pool that may have a node (`SessionAssumption`); sizes of pipe, buffer and window that are
not zero (`PortForwardAssumption`); a leader that is none of a finite set of
children (`WorkerAssumption`).

**`PromptSearchProofs`**

* `TypeCorrect`.  The invariant is `TypeOK` with `ControlOK`, which ties the loop
  index and the calls left in a task to `pc`; without it the attempts would be
  written outside their domain.
* `SearchNeverTorn` (`NoTornIteration`).  That the hard cap is never met is not
  inductive: it depends on how many calls are left in each place.  `SearchFits`
  says so: at every point of a GEPA run the calls left cover the rest of the
  iteration in its dearest continuation.  The two admission tests (in `_search`
  and in the stopper) establish it, each evaluation spends one from both sides.
* `LedgerExact` (`LedgerBalances`) by counting, one case per way a proposal ends.
* `ChampionNeverLosesGround` (`ChampionBeatsBaseline`).  Only neighbouring
  measurements are ever compared, so this needs `BetterTransitive`: the rank is a
  lexicographic order, and comparing without regression is transitive.
* `BestAlwaysAssessed` (`EvaluatedBestIsAssessed`) and `FailureIsFinal`
  (`FailureStopsGepa`), action properties, from `HandoverInv`: between GEPA's
  return and the end of the attempt the candidate under assessment is GEPA's
  best, and a pending failure leaves nothing under way.
* `SearchKeepsPromise` (`KeepsPromise`), that the search implements `AbstractSearch`:
  initial states correspond, and each action is a `Work`, a `Return`, a `Raise` or a
  stutter there (`PromiseStep`).  `ExplainedInv` says that a budget exception in
  flight has its cause, `SameOrder` that the two modules compare alike.
* `OverrunAlwaysBounded` (`AttemptOverrunBounded`).  `OverrunInv` follows the pattern
  of `SearchFits` from the other side: what an attempt has used and the calls still
  to come in its iteration stay below its stage and one iteration.
* `StagnationAlwaysStops` (`StagnationStopsSearch`).  `Counting` says what the counter
  means: that many of the last attempts were fruitless, and the one before was not.

**`ExperimentProofs`** (any verdicts, cases, budget and signals)

* `ExitAlwaysMatches` (`ExitMatchesSummary`), `QualifiedAlwaysEarned`
  (`QualifiedIsEarned`), `HoldoutAlwaysTraced` (`HoldoutLeavesTrace`),
  `ExhaustionAlwaysReal` (`ExhaustionIsReal`) and `CancellationAlwaysRecorded`
  (`CancellationIsRecorded`), from one invariant.  `Placed` ties session, task and
  exception to the controller's point; without it a verdict could be compared with
  another phase's.  `Merited` carries the comparisons of the champion to the claims
  in the summary, `Told` what `except` and `finally` wrote to the exit code.  A run
  that ends before the `try` is `Blank`: it has no file and no session, and `Told`
  keeps it so until the exit.  `CancellationIsRecorded` says what becomes of every
  cancellation, the one whose cleanup fails included; not all of them exit with
  130 (section 6).
* `ImplementsSummaryFile` (`KeepsSummaryFile`): `FileAt` says which phase is on disk
  at each point, so that every write is a step `SummaryFile` allows and every other
  action leaves the file alone.

**`AssessmentProofs`** (any cases, repetitions and hard failures)

The one invariant, `RecordsInv`, says that the records are a grid: the record at
place *i* is repetition *i* modulo the repetitions of case *i* divided by them.  The
rest is counting over the finished grid.

* `GateAlwaysUnanimous` (`GateIsUnanimous`).  No hard failure in sum is none in any
  run; pass^5 equal to the number of cases is every case, because the groups are
  among the cases.
* `MoreSuccessAlwaysBetter` (`MoreSuccessIsBetter`).  One place more is passed, no
  group that counted is lost, the sum of hard failures does not rise.
* `VerdictAlwaysRealizable` (`VerdictIsRealizable`).  The groups of pass^5 are among
  those of pass^3; each group is that many places with a success, no place is in
  two; a hard failure is a place without.  And the outcomes are as many as the
  records, since no two have the same case and repetition.

**`ConfigProofs`** (any references, names, seeds and bounds)

* `HoldoutAlwaysUnseen` (`HoldoutIsUnseen`).  `SplitInv`: what is in a split was
  seen, and nothing is there twice.
* `PlanAlwaysCovered` (`PlanIsCovered`).  The total is compared with a sum over
  stages, what is spent is a sum over the attempts they unfold to.  `PlanInv` says
  that the two are equal after every stage (`StageAdds`, `CostConcat`), that every
  attempt's seed is known, and that no two attempts have the same.

**`EvaluationProofs`** (any prompts, turns, calls, edits and retries)

* `VerdictAlwaysSound` (`VerdictIsSound`), `InputsAlwaysAttested`
  (`InputsAreAttested`) and `EvidenceAlwaysWhole` (`EvidenceIsWhole`).  For each, an
  invariant carries what one step checked to the step that relies on it: the
  answer's fields to the turns they were computed from, each reading of a file to
  the reading before, a response on disk to the absence of a second run.
* `TraceAlwaysComplete` (`TraceIsComplete`).  `TraceInv`: what was handed to the agent
  is what the providers recorded, one provider after the other, and the answer, the
  response and their validation take it on unchanged.  A call goes to the end of the
  last provider, which is the end of the flattened trace; a provider that is new has
  none yet.

**`ModelSessionProofs`** (any number of sessions, any pool)

* `FileIsTrustworthy` (`FileCanBeTrusted`).  `FileFacts` ties the file to the point of
  the session: ownership is decided while the file still says preparing, and a
  recheck that met another version is either being compared or the reason why the
  session is failing.
* `TypeCorrect`, `NoOrphan` (`ForwardNeverOrphaned`) and `PoolIsRespected`
  (`ScalesOnlyEmptyPool`).  `PoolRights` and `ForwardPlaces` tie the two marks of
  a session, ownership of the pool and its child, to its `pc`.  The child is running,
  or lost to a signal, the latter only of a session that unwinds for that signal.  That a
  session which has not counted yet owns nothing is what makes "owned only if
  found empty" inductive.

* `QuietEndsAreClean` (`QuietEndIsClean`).  `Balance`: while the pool is up and owned,
  some session still owes it back; while nobody owns it, it is as it was found.

**`PortForwardProofs`** (any sizes of pipe, buffer and window, any noise)

* `PortAlwaysWhole` (`PortIsWhole`), `NothingEverSkipped` (`NothingReadIsSkipped`) and
  `NothingStaysBehind` (`NothingLeftBehind`).  `Flow` follows the line from the child
  to the main thread: before its tail is written, no sequence on the way has one.
  `Found` says that the search for the port goes on until it is there, `Reported` that
  a reader's failure is told only over an empty buffer, `Stopped` what each step of
  the cleanup has behind it.

**`WorkerProofs`** (any finite set of descendants)

* `AnswersAlwaysWhole` (`AnswerIsWhole`).  `NoWriterLeft`: after `communicate` has
  returned, nobody is left who could write.  `NotTornOff`: a worker does not exit
  with 0 in the middle of its response.
* `TeardownAlwaysComplete` (`TeardownIsComplete`).  `KilledOff`: once SIGKILL is out,
  whatever runs is doomed, and a doomed process starts no other, so the set cannot
  grow again.

Each of these invariants was first checked with TLC on the instances above.

**Folds and flattened sequences.**  `FoldLeft` and `FlattenSeq` choose a function that
satisfies a recursive equation, so a proof needs that there is one, and what it is at
the next argument.  Both take an induction over the length, and the induction
theorems of the library have operator parameters that no installed prover can
instantiate.  The proofs use a smallest counterexample in its place (`LeastNumber`, from
`WFMin` and `NatLessThanWellFounded`, which have none): of the lengths at which
the equation fails one is the smallest, it is not zero, and the one before it gives
the contradiction.  On it rest `FlattensExists`, `FlattenSeqAppend`, `AddsExists` and
`AddsSums`.  `AssessmentProofs`, `EvaluationProofs` and `ConfigProofs` each state
those of these lemmas that they need, so that each can be read and checked by itself.

**Only model-checked.**  Liveness (`Termination` of search, experiment and session,
`RequestEnds`, `BothHalvesEnd`, `PipeIsDrained`): fairness and ENABLED are beyond this
prover.  Every other property of the passing runs, invariant, action property or
refinement, is a theorem.

## 5. What is not modelled

* The worker's `inspect` and `validate_candidate`: they read, compute and answer, and
  change nothing.  `Experiment` and `PromptSearch` take them as a step that succeeds,
  refuses the candidate or raises.
* What Korvid's harness does inside a turn, and how it grades one: `Evaluation` sees
  of it what passes the observed provider, and takes any result for possible.
* In `Evaluation`, an edit between the worker's hashing of the case and its loading
  of it (`upstream_worker.py:303` and `:306`) is possible and not detected;
  `InputsAreAttested` states just how far the attestation reaches, the questions
  being compared afterwards, the rest of the case not.
* Field-by-field shape checks (`upstream.py`, `upstream_contract.py`, `contracts.py`
  and most of `experiment_config.py`): each is one test of one value; a module
  takes them as a step that succeeds or refuses.
* Prompt texts, fingerprints, feedback, logging, file layout.  Equality of
  prompts is all that the control uses.
* Torn writes of the lab's own JSON files: `write_json_artifact` replaces a file as a
  whole.  The worker's response, which is written in place, can be torn.
* The branch of `_terminate_process_group` for systems other than POSIX.
* `--check-only`, which ends before anything is started.
* GEPA's choice of pool candidate and its merge proposals: the pool candidate is
  any, and the lab does not enable merging.

## 6. Findings

Each has a run that TLC refutes.

1. **The deadline can surface as a ValueError** (`MCDeadlineRace.cfg`).
   `budget.check()` and `remaining_seconds` read the clock one after the other;
   when the deadline falls between, the timeout is not positive and the serving
   refuses it (`reflection.py:197`, also `experiment.py:73`).  The run ends as
   SYSTEM_ERROR, exit 1, where an exhausted budget is NOT_CONVERGED, exit 3.
2. **A cancelled run can leave a qualified summary** (`MCCancelledClaims.cfg`).  A
   signal in the `finally` of `run_experiment` comes after the finished summary
   was written (`experiment.py:450`); README section 6 says that a cancellation
   withdraws the claims.
3. **A session can take away a node it did not raise** (`MCSharedPool.cfg`).
   Ownership is decided by a count read earlier (`model_session.py:402`).
4. **A timeout may tear nothing down** (`MCWorkerTimeout.cfg`).  The worker has
   exited and a descendant holds its pipes: `communicate` waits for the pipes and
   times out, `poll()` is not None (`source_runtime.py:142`), and the descendant is
   left running, where `tests/fixtures/fake_process_tree.py:4` promises that a timeout
   tears down every descendant.  The property starts from just that state, and the
   counterexample is that story.  (A worker that exits between the timeout and
   `poll()` leaves its descendants in the same way; the model has it, the property
   does not speak of it.)

Besides, things the models have and no property forbids, because the code does
them:

* `model-session.json` says nothing of a scaled pool until the session is ready
  (`model_session.py:403`); `FileCanBeTrusted` begins there.
* A cancellation during which the cleanup of the session fails as well does not exit
  with 130, as README section 4 has it for every cancellation: `model_session` raises a
  `BaseExceptionGroup` (`model_session.py:497`), which `command_run` does not catch
  (`cli.py:83` has `ExceptionGroup`).  The process ends with a traceback and exit code
  1, and the file with SYSTEM_ERROR.  `CancellationIsRecorded` states this as the one
  other end of a cancellation, and admits it only beside an unclean session.
* A signal before the `try` of `run_experiment` (`experiment.py:285` to `:297`) ends
  with 130 and the advice to inspect `experiment-summary.json` (`cli.py:81`), which
  does not exist; `CancellationIsRecorded` asks only that nothing was begun or
  claimed.
* If `_coverage` or the write in the `finally` of `run_experiment` fails
  (`experiment.py:444` to `:450`), the file stays as the last `_phase` left it, a
  finished summary with its claims included; the properties name this end
  (`unwritten`) and leave it out.
* A signal after `__enter__` has returned and before `forward` is assigned
  (`model_session.py:320` to `:405`) loses the child; `ForwardNeverOrphaned` and
  `QuietEndIsClean` let just this child pass (`ChildGone`).
* The worker's two reads of a case, see section 5.

## 7. State of the work

The plan this development began with is done: the core of the search, the
experiment around it, the session, the port-forward, the worker and one evaluation
are modelled, composed and checked, and so are the assessment and the experiment
file; every safety property of the passing runs is a theorem, both refinements included.

What could still be added, in this order:

1. The operations `inspect` and `validate_candidate` of the worker, as soon as they
   keep state; today they only read and compute.
2. An edit between the worker's hashing of a case and its loading of it is possible in
   `Evaluation`; when the source closes it, `InputsAreAttested` can be strengthened to the
   whole case.
3. The branch of `_terminate_process_group` for other systems, with a process tree
   that has no groups.
