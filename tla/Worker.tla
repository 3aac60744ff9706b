------------------------------- MODULE Worker -------------------------------
(***************************************************************************)
(* One request to the worker process: run_upstream_request starts it in a  *)
(* process group of its own, waits for its pipes to close and its exit     *)
(* with a timeout, and tears the group down if the worker still runs.      *)
(*                                                                         *)
(* The worker may start children, which share its group, may hold its      *)
(* pipes, may ignore SIGTERM and may outlive it.  Any of them may hang.    *)
(*                                                                         *)
(* pc: launch, communicate, finally, sigterm, termwait, sigkill, killwait, *)
(* reap, answer, and then done, or abandoned if a signal cut it short.     *)
(***************************************************************************)
EXTENDS Naturals, FiniteSets

CONSTANTS
    Leader,        \* the worker process
    Children,      \* the processes it may start
    MaxSignals     \* bound of the model: signals delivered to the lab

ASSUME WorkerAssumption == Leader \notin Children /\ IsFiniteSet(Children) /\ MaxSignals \in Nat

VARIABLES
    pc,
    state,       \* of each process
    stubborn,    \* the children that ignore SIGTERM
    holders,     \* the children that inherit the pipes
    doomed,      \* the processes with a deadly signal pending
    response,    \* response.json
    torn,        \* the finally found the worker alive
    outcome,     \* what run_upstream_request raises, or "answer"
    signals

traits == <<stubborn, holders>>
processVars == <<state, traits, doomed, response>>
vars == <<pc, processVars, torn, outcome, signals>>

Procs == {Leader} \union Children

Running == {p \in Procs : state[p] = "running"}

---------------------------------------------------------------------------
(* The processes. *)

Ends(p, how) ==
    /\ p \in Running /\ state' = [state EXCEPT ![p] = how]
    /\ UNCHANGED <<pc, traits, doomed, response, torn, outcome, signals>>

(* The worker ends with 0 once its response is written, or when the product *)
(* itself calls sys.exit; with 2 or an uncaught exception otherwise.        *)
WorkerExits ==
    \/ response # "partial" /\ Ends(Leader, "exited")
    \/ Ends(Leader, "failed")

ChildExits == \E c \in Children : Ends(c, "exited")

Dies == \E p \in doomed : Ends(p, "killed")

(* A child inherits the pipes from a process that has them. *)
Spawn ==
    \E c \in Children, p \in Running \ doomed :
        /\ state[c] = "unborn" /\ (c \in holders => p \in holders \union {Leader})
        /\ state' = [state EXCEPT ![c] = "running"]
        /\ UNCHANGED <<pc, traits, doomed, response, torn, outcome, signals>>

(* write_text truncates the file before the contents are in it. *)
WriteResponse ==
    /\ Leader \in Running
    /\ \/ response = "absent" /\ response' = "partial"
       \/ response = "partial" /\ response' \in {"whole", "malformed", "oversized"}
    /\ UNCHANGED <<pc, state, traits, doomed, torn, outcome, signals>>

---------------------------------------------------------------------------
(* run_upstream_request. *)

Goto(from, to) == pc = from /\ pc' = to

(* The endpoint, the source tree and Popen: each can refuse. *)
Launch ==
    /\ \/ Goto("launch", "communicate") /\ UNCHANGED outcome
          /\ state' = [state EXCEPT ![Leader] = "running"]
       \/ Goto("launch", "done") /\ outcome' = "not_launched" /\ UNCHANGED state
    /\ UNCHANGED <<traits, doomed, response, torn, signals>>

(* communicate returns once every writer of the pipes and the worker are gone. *)
Communicated ==
    /\ Goto("communicate", "finally")
    /\ Leader \notin Running /\ Running \intersect holders = {}
    /\ UNCHANGED <<processVars, torn, outcome, signals>>

TimesOut ==
    /\ Goto("communicate", "finally") /\ outcome' = "timeout"
    /\ UNCHANGED <<processVars, torn, signals>>

(* if process.poll() is None: only a live worker has its group torn down.  *)
Finally ==
    /\ pc = "finally"
    /\ torn' = (Leader \in Running)
    /\ pc' = IF torn' THEN "sigterm" ELSE IF outcome = "none" THEN "answer" ELSE "done"
    /\ UNCHANGED <<processVars, outcome, signals>>

(* Mutant of SendTerm: the signal goes to the worker, not to its group. *)
TermWorkerOnly ==
    /\ Goto("sigterm", "reap")
    /\ doomed' = doomed \union {Leader}
    /\ UNCHANGED <<state, traits, response, torn, outcome, signals>>

SendTerm ==
    /\ Goto("sigterm", "termwait")
    /\ doomed' = doomed \union (Running \ stubborn)
    /\ UNCHANGED <<state, traits, response, torn, outcome, signals>>

(* Mutant of AwaitGroup: without a grace period. *)
AwaitGroupForever(from, next) ==
    /\ Running = {} /\ Goto(from, "reap")
    /\ UNCHANGED <<processVars, torn, outcome, signals>>

(* _await_process_group_exit: the group is empty, or the grace has passed. *)
AwaitGroup(from, next) ==
    /\ Goto(from, IF Running = {} THEN "reap" ELSE next)
    /\ UNCHANGED <<processVars, torn, outcome, signals>>

SendKill ==
    /\ Goto("sigkill", "killwait")
    /\ doomed' = doomed \union Running
    /\ UNCHANGED <<state, traits, response, torn, outcome, signals>>

(* process.wait, with the same grace. *)
Reap ==
    /\ Goto("reap", "done")
    /\ UNCHANGED <<processVars, torn, outcome, signals>>

(* Mutant of Judge: the response counts, whatever the exit code. *)
JudgeFileOnly ==
    IF response \in {"absent", "oversized"} THEN "missing"
    ELSE IF response = "malformed" THEN "malformed" ELSE "answer"

(* What the exit code and response.json make of the request. *)
Judge ==
    IF state[Leader] # "exited" THEN "failed"
    ELSE IF response \in {"absent", "oversized"} THEN "missing"
    ELSE IF response = "malformed" THEN "malformed" ELSE "answer"

Answer ==
    /\ Goto("answer", "done") /\ outcome' = Judge
    /\ UNCHANGED <<processVars, torn, signals>>

(* A signal: the finally runs; inside it, the rest of it does not. *)
Interrupt ==
    /\ signals < MaxSignals /\ signals' = signals + 1 /\ outcome' = "interrupt"
    /\ \/ Goto("communicate", "finally")
       \/ pc \in {"finally", "sigterm", "termwait", "sigkill", "killwait", "reap"}
          /\ pc' = "abandoned"
       \/ pc \in {"launch", "answer"} /\ pc' = "done"
    /\ UNCHANGED <<processVars, torn>>

Teardown ==
    \/ SendTerm \/ AwaitGroup("termwait", "sigkill")
    \/ SendKill \/ AwaitGroup("killwait", "reap") \/ Reap

Lab == Launch \/ Communicated \/ TimesOut \/ Finally \/ Teardown \/ Answer

Group == WorkerExits \/ ChildExits \/ Spawn \/ WriteResponse

Terminated == pc \in {"done", "abandoned"} /\ UNCHANGED vars

Next == Lab \/ Group \/ Dies \/ Interrupt \/ Terminated

Init ==
    /\ pc = "launch" /\ state = [p \in Procs |-> "unborn"]
    /\ stubborn \in SUBSET Children /\ holders \in SUBSET Children
    /\ doomed = {} /\ response = "absent" /\ torn = FALSE
    /\ outcome = "none" /\ signals = 0

(* The lab's own steps are taken: every wait of it has a timeout.  A deadly *)
(* signal is delivered.  The worker and its children promise nothing.       *)
Spec == Init /\ [][Next]_vars /\ WF_vars(Lab) /\ WF_vars(Dies)

---------------------------------------------------------------------------
(* An answer is the whole response of a worker that ended by itself, with  *)
(* nobody left who could write to its pipes: no late and no torn answer.   *)
AnswerIsWhole ==
    outcome = "answer" =>
        /\ response = "whole" /\ state[Leader] = "exited" /\ Leader \notin doomed
        /\ Running \intersect holders = {} /\ ~torn

(* Once a teardown has run to its end, every process of the group is gone  *)
(* or about to go, those included that ignore SIGTERM or were started      *)
(* while it ran (test_owned_process_group_termination_...).                *)
TeardownIsComplete == pc = "done" /\ torn => Running \subseteq doomed

(* A request ends, however the worker and its children behave. *)
RequestEnds == <>(pc \in {"done", "abandoned"})

(* What is checked and not true: see the findings. *)

(* A bridge timeout tears down every descendant: one that keeps the lab    *)
(* waiting, because it holds the pipes of a worker that has ended, comes   *)
(* to its end, by itself or with the teardown that the timeout brings      *)
(* (tests/fixtures/fake_process_tree.py).                                  *)
TimeoutTearsDownTree ==
    \A c \in Children :
        (pc = "communicate" /\ Leader \notin Running /\ c \in Running \intersect holders)
            ~> state[c] # "running"
=============================================================================
