----------------------------- MODULE PortForward -----------------------------
(***************************************************************************)
(* AKSPortForward: kubectl port-forward as a child of the lab, from the    *)
(* kubeconfig to the cleanup.  Three actors share its output:              *)
(*   - the child, which writes to a pipe of bounded capacity: noise, and   *)
(*     once "Forwarding from 127.0.0.1:<port> -> <target>";                *)
(*   - the reader thread, which keeps the pipe drained into a buffer that  *)
(*     forgets its oldest bytes, for as long as the forward lives;         *)
(*   - the main thread, which takes what is in the buffer, looks for the   *)
(*     line and later stops the child.                                     *)
(*                                                                         *)
(* Output is a sequence of pieces.  The line comes in two, "head" (up to   *)
(* the first digits of the port) and "tail" (the other digits and the      *)
(* arrow), because a read may end in the middle of it.                     *)
(*                                                                         *)
(* pc of the main thread: create, discover, launch, await, poll, probe,    *)
(* ready; stop, termwait, killwait, reap, close, unlink, ended; abandoned  *)
(* if a signal cut the cleanup short.                                      *)
(***************************************************************************)
EXTENDS Integers, Sequences

CONSTANTS
    PipeSize,      \* capacity of the pipe
    BufferSize,    \* max_buffered_bytes
    WindowSize,    \* the 4096 bytes of output that the main thread keeps
    MaxNoise,      \* bound of the model: pieces of noise the child writes
    MaxSignals     \* bound of the model: signals delivered

ASSUME PortForwardAssumption ==
    /\ PipeSize \in Nat \ {0} /\ BufferSize \in Nat \ {0} /\ WindowSize \in Nat \ {0}
    /\ MaxNoise \in Nat /\ MaxSignals \in Nat

VARIABLES
    pc,
    todo,         \* the discovery commands that remain
    kubeconfig,   \* the file with the credentials is on disk
    child,        \* none, running or exited
    deaf,         \* the signals that do not stop the child
    doomed,       \* a deadly signal is pending for the child
    pipe,
    said,         \* how much of the line the child has written
    noise,        \* pieces of noise written
    reader,       \* none, reading, storing, ended
    chunk,        \* what the reader has read and not stored
    buffer,
    failure,      \* _failure of the reader
    output,       \* what the main thread has taken and kept
    port,         \* _base_url: none, whole or cut
    late,         \* the readiness deadline has passed
    error,        \* what __enter__ raises
    signals

childVars  == <<child, deaf, doomed, said, noise>>
readerVars == <<reader, chunk, failure>>
mainVars   == <<todo, kubeconfig, output, port, error>>
vars == <<pc, mainVars, childVars, pipe, readerVars, buffer, late, signals>>

LastOf(s, n) == IF Len(s) <= n THEN s ELSE SubSeq(s, Len(s) - n + 1, Len(s))

---------------------------------------------------------------------------
(* The child. *)

Write(piece) ==
    /\ child = "running" /\ reader # "ended" /\ Len(pipe) < PipeSize
    /\ pipe' = Append(pipe, piece)
    /\ UNCHANGED <<pc, mainVars, child, deaf, doomed, readerVars, buffer, late, signals>>

Say ==
    \/ said = "nothing" /\ said' = "head" /\ UNCHANGED noise /\ Write("head")
    \/ said = "head" /\ said' = "line" /\ UNCHANGED noise /\ Write("tail")
    \/ said # "head" /\ noise < MaxNoise /\ noise' = noise + 1 /\ UNCHANGED said /\ Write("noise")

ChildExits ==
    /\ child = "running" /\ child' = "exited"
    /\ UNCHANGED <<pc, mainVars, deaf, doomed, said, noise, pipe, readerVars, buffer, late, signals>>

Dies == doomed /\ ChildExits

---------------------------------------------------------------------------
(* The reader thread, _drain_output. *)

(* Mutant of Read: no more than the buffer holds is ever taken. *)
ReadUntilFull ==
    /\ reader = "reading" /\ Len(buffer) < BufferSize
    /\ \E n \in 1..Len(pipe) :
          /\ chunk' = SubSeq(pipe, 1, n) /\ pipe' = SubSeq(pipe, n + 1, Len(pipe))
          /\ reader' = "storing"
    /\ UNCHANGED <<pc, mainVars, childVars, failure, buffer, late, signals>>

Read ==
    /\ reader = "reading"
    /\ \E n \in 1..Len(pipe) :
          /\ chunk' = SubSeq(pipe, 1, n) /\ pipe' = SubSeq(pipe, n + 1, Len(pipe))
          /\ reader' = "storing"
    /\ UNCHANGED <<pc, mainVars, childVars, failure, buffer, late, signals>>

(* Mutant of Store: nothing is forgotten. *)
StoreAll ==
    /\ reader = "storing" /\ reader' = "reading"
    /\ buffer' = buffer \o chunk /\ chunk' = <<>>
    /\ UNCHANGED <<pc, mainVars, childVars, pipe, failure, late, signals>>

(* Under the lock: the oldest bytes beyond the limit are forgotten. *)
Store ==
    /\ reader = "storing" /\ reader' = "reading"
    /\ buffer' = LastOf(buffer \o chunk, BufferSize) /\ chunk' = <<>>
    /\ UNCHANGED <<pc, mainVars, childVars, pipe, failure, late, signals>>

EndOfFile ==
    /\ reader = "reading" /\ pipe = <<>> /\ child = "exited" /\ reader' = "ended"
    /\ UNCHANGED <<pc, mainVars, childVars, pipe, chunk, failure, buffer, late, signals>>

(* os.read fails: the failure is kept for the main thread, and the stream  *)
(* is closed.                                                              *)
ReadFails ==
    /\ reader = "reading" /\ reader' = "ended" /\ failure' = TRUE /\ pipe' = <<>>
    /\ UNCHANGED <<pc, mainVars, childVars, chunk, buffer, late, signals>>

---------------------------------------------------------------------------
(* __enter__ *)

Goto(from, to) == pc = from /\ pc' = to

(* Any exception of __enter__ goes through _cleanup. *)
Raise(e) == pc' = "stop" /\ error' = e

Quiet == UNCHANGED <<childVars, pipe, readerVars, buffer, late, signals>>

Create ==
    /\ Goto("create", "discover") /\ kubeconfig' = TRUE
    /\ UNCHANGED <<todo, output, port, error>> /\ Quiet

Commands == <<"cluster", "credentials", "convert", "service", "endpoints">>

(* Each command of the discovery can fail for good; a failed conversion    *)
(* deletes the kubeconfig itself; endpoints that are not ready are worth   *)
(* another attempt.                                                        *)
Discover ==
    /\ pc = "discover"
    /\ \/ /\ todo' = Tail(todo)
          /\ pc' = (IF todo' = <<>> THEN "launch" ELSE "discover") /\ UNCHANGED <<kubeconfig, error>>
       \/ /\ Raise("permanent") /\ UNCHANGED todo
          /\ kubeconfig' = (kubeconfig /\ Head(todo) # "convert")
       \/ Head(todo) = "endpoints" /\ Raise("transient") /\ UNCHANGED <<todo, kubeconfig>>
    /\ UNCHANGED <<output, port>> /\ Quiet

Launch ==
    /\ \/ /\ Goto("launch", "await") /\ child' = "running" /\ reader' = "reading"
          /\ UNCHANGED error
       \/ pc = "launch" /\ Raise("permanent") /\ UNCHANGED <<child, reader>>
    /\ UNCHANGED <<todo, kubeconfig, output, port, deaf, doomed, said, noise, pipe, chunk, failure,
                   buffer, late, signals>>

(* Mutant of PortIn: the port is taken without its arrow. *)
PortInHead(text) ==
    IF \E i \in DOMAIN text : text[i] = "head"
    THEN IF \E i \in 1..(Len(text) - 1) : text[i] = "head" /\ text[i + 1] = "tail"
         THEN "whole" ELSE "cut"
    ELSE "none"

(* re.search(r"Forwarding from 127\.0\.0\.1:(\d+) -> \d+", output) *)
PortIn(text) ==
    IF \E i \in 1..(Len(text) - 1) : text[i] = "head" /\ text[i + 1] = "tail" THEN "whole" ELSE "none"

(* Mutant of ReaderFailed: a failure goes before what was read. *)
ReaderFailedFirst == failure

(* Only an empty buffer lets the failure of the reader through. *)
ReaderFailed == failure /\ buffer = <<>>

(* read_output and the search in what there is. *)
Take ==
    /\ pc = "await"
    /\ \/ /\ ReaderFailed /\ Raise("reader") /\ failure' = FALSE
          /\ UNCHANGED <<output, port, buffer>>
       \/ /\ ~ReaderFailed
          /\ output' = output \o buffer /\ buffer' = <<>> /\ port' = PortIn(output')
          /\ pc' = (IF port' = "none" THEN "poll" ELSE "probe") /\ UNCHANGED <<error, failure>>
    /\ UNCHANGED <<todo, kubeconfig, childVars, pipe, reader, chunk, late, signals>>

(* Mutant of Poll: only the child is polled. *)
PollChildOnly ==
    /\ pc = "poll"
    /\ IF child = "exited" THEN Raise("transient") /\ UNCHANGED output
       ELSE pc' = "await" /\ output' = LastOf(output, WindowSize) /\ UNCHANGED error
    /\ UNCHANGED <<todo, kubeconfig, port>> /\ Quiet

(* The child is polled after the output it wrote has been searched, and    *)
(* the deadline after the child.                                           *)
Poll ==
    /\ pc = "poll"
    /\ IF child = "exited" \/ late
       THEN Raise("transient") /\ UNCHANGED output
       ELSE pc' = "await" /\ output' = LastOf(output, WindowSize) /\ UNCHANGED error
    /\ UNCHANGED <<todo, kubeconfig, port>> /\ Quiet

(* The monotonic clock reaches the deadline of the readiness wait. *)
DeadlinePasses ==
    /\ pc \in {"await", "poll"} /\ ~late /\ late' = TRUE
    /\ UNCHANGED <<pc, mainVars, childVars, pipe, readerVars, buffer, signals>>

(* /v1/models: an error or a missing model is transient, a malformed       *)
(* answer is not.                                                          *)
Probe ==
    /\ pc = "probe"
    /\ \/ pc' = "ready" /\ UNCHANGED error
       \/ Raise("transient") \/ Raise("permanent")
    /\ UNCHANGED <<todo, kubeconfig, output, port>> /\ Quiet

---------------------------------------------------------------------------
(* __exit__, or the except of __enter__. *)

Exit == Goto("ready", "stop") /\ UNCHANGED mainVars /\ Quiet

Signal(sig) ==
    /\ doomed' = (doomed \/ sig \notin deaf)
    /\ UNCHANGED <<mainVars, child, deaf, said, noise, pipe, readerVars, buffer, late, signals>>

Stop ==
    /\ pc = "stop"
    /\ IF child = "running" THEN pc' = "termwait" /\ Signal("TERM")
       ELSE pc' = (IF child = "none" THEN "unlink" ELSE "reap") /\ UNCHANGED mainVars /\ Quiet

(* Mutant of TermWait: no SIGKILL after the grace. *)
TermWaitOnly ==
    /\ Goto("termwait", IF child = "exited" THEN "reap" ELSE "close")
    /\ UNCHANGED mainVars /\ Quiet

(* process.wait with a timeout, twice: after SIGTERM and after SIGKILL. *)
TermWait ==
    /\ pc = "termwait"
    /\ IF child = "exited" THEN pc' = "reap" /\ UNCHANGED mainVars /\ Quiet
       ELSE pc' = "killwait" /\ Signal("KILL")

(* Mutant of KillWait: the child is taken for dead. *)
KillWaitReaps == Goto("killwait", "reap") /\ UNCHANGED mainVars /\ Quiet

KillWait ==
    /\ Goto("killwait", IF child = "exited" THEN "reap" ELSE "close")
    /\ UNCHANGED mainVars /\ Quiet

(* process.wait() without a timeout. *)
Reap == child = "exited" /\ Goto("reap", "close") /\ UNCHANGED mainVars /\ Quiet

(* close joins the reader, for a while. *)
Close == Goto("close", "unlink") /\ UNCHANGED mainVars /\ Quiet

Unlink ==
    /\ Goto("unlink", "ended") /\ kubeconfig' = FALSE /\ port' = "none"
    /\ UNCHANGED <<todo, output, error>> /\ Quiet

Cleanup == {"stop", "termwait", "killwait", "reap", "close", "unlink"}

(* A signal in the try is cleaned up after; one before the try or in the   *)
(* cleanup leaves the rest undone.                                         *)
Interrupt ==
    /\ signals < MaxSignals /\ signals' = signals + 1
    /\ \/ pc \in {"discover", "launch", "await", "poll", "probe", "ready"} /\ Raise("signal")
       \/ pc \in Cleanup \union {"create"} /\ pc' = "abandoned" /\ error' = "signal"
    /\ UNCHANGED <<todo, kubeconfig, output, port, childVars, pipe, readerVars, buffer, late>>

---------------------------------------------------------------------------
Enter == Create \/ Discover \/ Launch \/ Take \/ Poll \/ Probe

Leave == Stop \/ TermWait \/ KillWait \/ Reap \/ Close \/ Unlink

Drain == Read \/ Store \/ EndOfFile

Terminated == pc \in {"ended", "abandoned"} /\ UNCHANGED vars

Next ==
    \/ Enter \/ Exit \/ Leave \/ DeadlinePasses \/ Interrupt
    \/ Drain \/ ReadFails \/ Say \/ ChildExits
    \/ Terminated

Init ==
    /\ pc = "create" /\ todo = Commands /\ kubeconfig = FALSE
    /\ child = "none" /\ deaf \in {{}, {"TERM"}, {"TERM", "KILL"}} /\ doomed = FALSE
    /\ pipe = <<>> /\ said = "nothing" /\ noise = 0
    /\ reader = "none" /\ chunk = <<>> /\ buffer = <<>> /\ failure = FALSE
    /\ output = <<>> /\ port = "none" /\ late = FALSE /\ error = "none" /\ signals = 0

(* Both threads run, the clock reaches the deadline, a deadly signal is    *)
(* delivered.  Nothing is assumed of the child, or of how long the body    *)
(* of the session takes (Exit).                                            *)
Spec ==
    /\ Init /\ [][Next]_vars
    /\ WF_vars(Enter) /\ WF_vars(Leave) /\ WF_vars(Drain) /\ WF_vars(DeadlinePasses) /\ WF_vars(Dies)

---------------------------------------------------------------------------
(* The base URL has the port that the child announced, however its output  *)
(* was split, read late or forgotten: never a part of the number, and      *)
(* never before the child has written the whole line.                      *)
PortIsWhole ==
    /\ port # "cut"
    /\ port = "whole" => said = "line"
    /\ pc \in {"probe", "ready"} => port = "whole"

(* What the reader stored before it failed is searched before the failure  *)
(* is reported: the line is not lost to a reader that dies after it.       *)
NothingReadIsSkipped ==
    error = "reader" => PortIn(output \o buffer) = "none"

(* A cleanup that was not cut short leaves no kubeconfig, and no child but *)
(* one that is about to die or cannot be killed                            *)
(* (test_aks_port_forward_cleanup_kills_ignores_terminate_process).        *)
NothingLeftBehind ==
    pc = "ended" => ~kubeconfig /\ (child = "running" => doomed \/ "KILL" \in deaf)

(* The child is never blocked for good on its output, also during the      *)
(* campaign, when nobody takes what the reader stores                      *)
(* (test_aks_port_forward_drains_child_output_for_the_whole_...), and what *)
(* is kept of it stays within the limits of the two buffers.               *)
PipeIsDrained ==
    /\ Len(pipe) = PipeSize ~> Len(pipe) < PipeSize
    /\ [](Len(buffer) <= BufferSize /\ Len(output) <= BufferSize + WindowSize)

(* __enter__ comes to an end, and so does a cleanup, even of a child that  *)
(* cannot be killed.                                                       *)
BothHalvesEnd ==
    /\ <>(pc \in {"ready", "ended", "abandoned"})
    /\ pc = "stop" ~> pc \in {"ended", "abandoned"}
=============================================================================
