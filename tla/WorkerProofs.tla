---------------------------- MODULE WorkerProofs ----------------------------
(***************************************************************************)
(* Theorems of Worker, for every finite set of children.                   *)
(*                                                                         *)
(* A teardown is complete because SIGKILL dooms all that runs, and a       *)
(* doomed process starts no other: from then on the running processes can  *)
(* only become fewer (KilledOff).  An answer is whole because nothing can  *)
(* bring a writer of the pipes or of the response back once communicate    *)
(* has returned (NoWriterLeft).                                            *)
(***************************************************************************)
EXTENDS Worker, TLAPS

StateTyped ==
    /\ state \in [Procs -> {"unborn", "running", "exited", "failed", "killed"}]
    /\ doomed \subseteq Procs
    /\ response \in {"absent", "partial", "whole", "malformed", "oversized"}

(* A teardown is begun only by the finally that found the worker alive,    *)
(* and spares nobody once SIGKILL is out.                                  *)
KilledOff ==
    /\ pc \in {"launch", "communicate", "finally", "answer"} => ~torn
    /\ torn /\ pc \in {"killwait", "reap", "done"} => Running \subseteq doomed
    /\ pc \in {"sigterm", "termwait", "sigkill", "killwait", "reap"} => torn

(* Once communicate has returned and until another outcome is decided,     *)
(* nobody is left who could write to the pipes or to the response.         *)
NoWriterLeft ==
    /\ ~torn => doomed = {}
    /\ pc = "answer" => outcome = "none"
    /\ outcome \in {"none", "answer"} /\ pc \notin {"launch", "communicate"} =>
          Leader \notin Running /\ Running \intersect holders = {}
    /\ outcome = "answer" =>
          pc = "done" /\ ~torn /\ response = "whole" /\ state[Leader] = "exited"

(* A worker does not end by itself in the middle of its response. *)
NotTornOff == state[Leader] = "exited" => response # "partial"

IInv == StateTyped /\ KilledOff /\ NoWriterLeft /\ NotTornOff

LEMMA InitHolds == Init => IInv
BY DEF Init, IInv, StateTyped, KilledOff, NoWriterLeft, NotTornOff, Running, Procs

(* A process that ends leaves fewer running, whoever it is. *)
LEMMA EndsHolds == ASSUME IInv, NEW p \in Procs, NEW how \in {"exited", "failed", "killed"},
                          p = Leader /\ how = "exited" => response # "partial",
                          Ends(p, how)
                   PROVE  IInv'
<1>1. Running' = Running \ {p}
  BY DEF IInv, StateTyped, Ends, Running, Procs
<1>2. StateTyped'
  BY DEF IInv, StateTyped, Ends, traits, Procs
<1>3. KilledOff'
  BY <1>1 DEF IInv, KilledOff, Ends, traits
<1>4. p = Leader => ~(outcome \in {"none", "answer"} /\ pc \notin {"launch", "communicate"})
  BY DEF IInv, NoWriterLeft, Ends
<1>5. outcome = "answer" => state'[Leader] = state[Leader]
  BY <1>4 DEF IInv, StateTyped, NoWriterLeft, Ends, Procs
<1>6. NoWriterLeft'
  BY <1>1, <1>5 DEF IInv, NoWriterLeft, Ends, traits
<1>7. NotTornOff'
  BY DEF IInv, StateTyped, NotTornOff, Ends, Procs
<1> QED
  BY <1>2, <1>3, <1>6, <1>7 DEF IInv

(* A doomed process starts no other, and only a holder hands the pipes on. *)
LEMMA SpawnHolds == IInv /\ Spawn => IInv'
<1> SUFFICES ASSUME IInv, Spawn PROVE IInv'
  OBVIOUS
<1>1. PICK c \in Children, p \in Running \ doomed :
        /\ state[c] = "unborn" /\ (c \in holders => p \in holders \union {Leader})
        /\ state' = [state EXCEPT ![c] = "running"]
        /\ UNCHANGED <<pc, traits, doomed, response, torn, outcome, signals>>
  BY DEF Spawn
<1>2. c # Leader /\ c \in Procs
  BY WorkerAssumption DEF Procs
<1>3. Running' = Running \union {c} /\ state'[Leader] = state[Leader]
  BY <1>1, <1>2 DEF IInv, StateTyped, Running, Procs
<1>4. StateTyped'
  BY <1>1, <1>2 DEF IInv, StateTyped, Procs
<1>5. KilledOff'
  BY <1>1, <1>3 DEF IInv, KilledOff
<1>6. NoWriterLeft'
  BY <1>1, <1>2, <1>3 DEF IInv, NoWriterLeft, traits
<1>7. NotTornOff'
  BY <1>1, <1>3 DEF IInv, NotTornOff
<1> QED
  BY <1>4, <1>5, <1>6, <1>7 DEF IInv

LEMMA ProcessesHold == IInv /\ (Group \/ Dies) => IInv'
<1> SUFFICES ASSUME IInv, Group \/ Dies PROVE IInv'
  OBVIOUS
<1>1. CASE WorkerExits
  BY <1>1, EndsHolds DEF WorkerExits, Procs
<1>2. CASE ChildExits
  BY <1>2, EndsHolds, WorkerAssumption DEF ChildExits, Procs
<1>3. CASE Dies
  BY <1>3, EndsHolds DEF Dies, IInv, StateTyped
<1>4. CASE Spawn
  BY <1>4, SpawnHolds
<1>5. CASE WriteResponse
  BY <1>5 DEF WriteResponse, IInv, StateTyped, KilledOff, NoWriterLeft, NotTornOff, Running,
                 Procs, traits
<1> QED
  BY <1>1, <1>2, <1>3, <1>4, <1>5 DEF Group

LEMMA LabHolds == IInv /\ Lab => IInv'
<1> SUFFICES ASSUME IInv, Lab PROVE IInv'
  OBVIOUS
<1> USE DEF IInv, StateTyped, KilledOff, NoWriterLeft, NotTornOff, Running, processVars, traits, Goto
<1>1. CASE Launch
  BY <1>1 DEF Launch, Procs
<1>2. CASE Communicated
  BY <1>2 DEF Communicated
<1>3. CASE TimesOut
  BY <1>3 DEF TimesOut
<1>4. CASE Finally
  BY <1>4 DEF Finally
<1>5. CASE Answer
  BY <1>5 DEF Answer, Judge
<1>6. CASE SendTerm
  BY <1>6 DEF SendTerm
<1>7. CASE AwaitGroup("termwait", "sigkill")
  BY <1>7 DEF AwaitGroup
<1>8. CASE SendKill
  BY <1>8 DEF SendKill
<1>9. CASE AwaitGroup("killwait", "reap")
  BY <1>9 DEF AwaitGroup
<1>10. CASE Reap
  BY <1>10 DEF Reap
<1> QED
  BY <1>1, <1>2, <1>3, <1>4, <1>5, <1>6, <1>7, <1>8, <1>9, <1>10 DEF Lab, Teardown

LEMMA InterruptHolds == IInv /\ Interrupt => IInv'
BY DEF IInv, StateTyped, KilledOff, NoWriterLeft, NotTornOff, Running, processVars, traits, Goto,
       Interrupt

LEMMA Inductive == IInv /\ [Next]_vars => IInv'
<1>1. IInv /\ UNCHANGED vars => IInv'
  BY DEF IInv, StateTyped, KilledOff, NoWriterLeft, NotTornOff, Running, vars, processVars, traits
<1> QED
  BY <1>1, ProcessesHold, LabHolds, InterruptHolds DEF Next, Terminated

(* Whatever and however many processes the worker starts, an answer is the *)
(* whole response of a worker that ended by itself.                        *)
THEOREM AnswersAlwaysWhole == Spec => []AnswerIsWhole
<1>1. IInv => AnswerIsWhole
  BY DEF IInv, NoWriterLeft, AnswerIsWhole
<1> QED
  BY <1>1, InitHolds, Inductive, PTL DEF Spec

(* A teardown that was not cut short spares nobody. *)
THEOREM TeardownAlwaysComplete == Spec => []TeardownIsComplete
<1>1. IInv => TeardownIsComplete
  BY DEF IInv, KilledOff, TeardownIsComplete
<1> QED
  BY <1>1, InitHolds, Inductive, PTL DEF Spec
=============================================================================
