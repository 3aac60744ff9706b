---------------------------- MODULE ModelSession ----------------------------
(***************************************************************************)
(* model_session: the model endpoint of an experiment, from the first      *)
(* lookup to the end of the cleanup.  A session talks to a loopback        *)
(* endpoint, to AKS through a port-forward, or to AKS with a node pool     *)
(* that it may scale from zero to one and must then scale back.            *)
(*                                                                         *)
(* While it is open the experiment has the endpoint verified again, which  *)
(* somebody may upgrade, or set back, at any moment.                       *)
(*                                                                         *)
(* The node pool belongs to the cluster: sessions of several processes     *)
(* share it.  A command that fails may or may not have taken effect.  A    *)
(* signal can arrive between any two steps of a session; what is in file   *)
(* at any moment (model-session.json) is what a SIGKILL would leave.       *)
(*                                                                         *)
(* pc of a session, in order:                                              *)
(*   resolve, count, scale, forward, probe, opened, retry, verify  opening *)
(*   ready, compare                        yielded; inside verify_again    *)
(*   stopping, restoring, recount, writing                  the finally    *)
(*   ended                                                                 *)
(***************************************************************************)
EXTENDS Integers

CONSTANTS
    Sessions,      \* the processes that run an experiment
    Kinds,         \* the connections they may have together, see Connections
    MaxNodes,      \* bound of the model: nodes of the pool at the start
    MaxSignals     \* bound of the model: signals delivered

Connections == {"loopback", "aks", "pool"}

ASSUME SessionAssumption ==
    /\ Kinds \subseteq [Sessions -> Connections] /\ Kinds # {}
    /\ MaxNodes \in Nat \ {0} /\ MaxSignals \in Nat

VARIABLES
    pool,        \* the nodes of the pool
    raiser,      \* the session whose command last took the pool from 0 to 1
    kind,        \* the connection of each session
    allowed,     \* --allow-capacity-changes
    pc,
    original,    \* original_count, or Unknown
    owned,       \* scaled_from_zero
    forward,     \* its port-forward child: "none", "running", or "lost" when it runs but the
                 \* variable the finally looks at was never assigned
    late,        \* the readiness deadline of the session has passed
    primary,     \* the exception the session is unwinding for, or "none"
    errors,      \* some part of the cleanup has failed
    recheck,     \* the last entry of rechecks, and whether it met another version
    file,        \* model-session.json
    outcome,     \* what the caller sees in the end
    signals

Unknown == -1

cloudVars  == <<pool, raiser>>
configVars == <<kind, allowed>>
vars == <<cloudVars, configVars, pc, original, owned, forward, late, primary, errors, recheck,
          file, outcome, signals>>

Set(f, s, v) == [f EXCEPT ![s] = v]

Goto(s, from, to) == pc[s] = from /\ pc' = Set(pc, s, to)

(* raise e: the finally begins. *)
Raise(s, e) == pc' = Set(pc, s, "stopping") /\ primary' = Set(primary, s, e)

Continue(s, to) == pc' = Set(pc, s, to) /\ UNCHANGED primary

---------------------------------------------------------------------------
(* Opening. *)

ResolveSubscription(s) ==
    /\ pc[s] = "resolve"
    /\ \/ Continue(s, IF kind[s] = "pool" THEN "count" ELSE "forward")
       \/ Raise(s, "model_session")
    /\ UNCHANGED <<cloudVars, configVars, recheck, original, owned, forward, late, errors, file,
                   outcome, signals>>

(* Mutant of CountPool: a running pool is owned as well. *)
CountPoolOwned(s) ==
    /\ pc[s] = "count"
    /\ original' = Set(original, s, pool) /\ owned' = Set(owned, s, allowed[s])
    /\ Continue(s, IF pool = 0 THEN "scale" ELSE "forward")
    /\ UNCHANGED <<cloudVars, configVars, recheck, forward, late, errors, file, outcome,
                   signals>>

(* A pool of no nodes is scaled only with permission, and is owned from    *)
(* before the command is sent.                                             *)
CountPool(s) ==
    /\ pc[s] = "count"
    /\ \/ Raise(s, "model_session") /\ UNCHANGED <<original, owned>>
       \/ /\ original' = Set(original, s, pool)
          /\ \/ pool > 0 /\ Continue(s, "forward") /\ UNCHANGED owned
             \/ pool = 0 /\ ~allowed[s] /\ Raise(s, "permission") /\ UNCHANGED owned
             \/ pool = 0 /\ allowed[s] /\ Continue(s, "scale") /\ owned' = Set(owned, s, TRUE)
    /\ UNCHANGED <<cloudVars, configVars, recheck, forward, late, errors, file, outcome,
                   signals>>

(* az aks nodepool scale, which may fail with or without having worked. *)
Scale(s, n) ==
    /\ pool' = n
    /\ raiser' = IF pool = 0 /\ n = 1 THEN s ELSE raiser

ScaleUp(s) ==
    /\ pc[s] = "scale"
    /\ \/ Scale(s, 1) /\ Continue(s, "forward")
       \/ (Scale(s, 1) \/ UNCHANGED cloudVars) /\ Raise(s, "model_session")
    /\ UNCHANGED <<configVars, recheck, original, owned, forward, late, errors, file, outcome,
                   signals>>

(* One attempt of _open_aks_forward: the preflight commands, then the      *)
(* child.  A failure of the first kind starts no child.                    *)
StartForward(s) ==
    /\ pc[s] = "forward"
    /\ \/ Continue(s, "probe") /\ forward' = Set(forward, s, "running")
       \/ Continue(s, "retry") /\ UNCHANGED forward
       \/ Raise(s, "aks") /\ UNCHANGED forward
    /\ UNCHANGED <<cloudVars, configVars, recheck, original, owned, late, errors, file, outcome,
                   signals>>

(* Mutant of ProbeFails: the child of a failed attempt is left running. *)
ProbeFailsOpen(s) ==
    /\ pc[s] = "probe"
    /\ Continue(s, "retry") \/ Raise(s, "aks")
    /\ UNCHANGED <<cloudVars, configVars, recheck, original, owned, forward, late, errors, file,
                   outcome, signals>>

(* The child is not ready or does not serve the model: __enter__ cleans up *)
(* before it raises, and what is transient is tried again.                 *)
ProbeFails(s) ==
    /\ pc[s] = "probe"
    /\ Continue(s, "retry") \/ Raise(s, "aks")
    /\ forward' = Set(forward, s, "none")
    /\ UNCHANGED <<cloudVars, configVars, recheck, original, owned, late, errors, file, outcome,
                   signals>>

(* __enter__ returns: it no longer cleans up by itself, and the deadline   *)
(* is read no more.                                                        *)
ProbeSucceeds(s) ==
    /\ Goto(s, "probe", "opened")
    /\ late' = Set(late, s, FALSE)
    /\ UNCHANGED <<cloudVars, configVars, recheck, original, owned, forward, primary, errors,
                   file, outcome, signals>>

(* _open_aks_forward returns, and forward is assigned: from here on the    *)
(* finally knows of the child.                                             *)
AssignForward(s) ==
    /\ Goto(s, "opened", "verify")
    /\ UNCHANGED <<cloudVars, configVars, recheck, original, owned, forward, late, primary,
                   errors, file, outcome, signals>>

(* Mutant of Retry: the deadline is not tested. *)
RetryForever(s) ==
    /\ Goto(s, "retry", "forward")
    /\ UNCHANGED <<cloudVars, configVars, recheck, original, owned, forward, late, primary,
                   errors, file, outcome, signals>>

Retry(s) ==
    /\ pc[s] = "retry"
    /\ IF late[s] THEN Raise(s, "model_session") ELSE Continue(s, "forward")
    /\ UNCHANGED <<cloudVars, configVars, recheck, original, owned, forward, late, errors, file,
                   outcome, signals>>

(* time.monotonic() reaches the readiness deadline. *)
DeadlinePasses(s) ==
    /\ pc[s] \in {"forward", "probe", "retry"} /\ ~late[s]
    /\ late' = Set(late, s, TRUE)
    /\ UNCHANGED <<cloudVars, configVars, recheck, pc, original, owned, forward, primary,
                   errors, file, outcome, signals>>

(* Both digests and the version; the evidence is written as ready. *)
Verify(s) ==
    /\ pc[s] = "verify"
    /\ \/ Continue(s, "ready") /\ file' = Set(file, s, [status |-> "ready", changed |-> owned[s],
                                                       recheck |-> "none"])
       \/ Raise(s, "model_session") /\ UNCHANGED file
    /\ UNCHANGED <<cloudVars, configVars, recheck, original, owned, forward, late, errors,
                   outcome, signals>>

(* The experiment inside the session returns, or raises. *)
BodyEnds(s) ==
    /\ pc[s] = "ready"
    /\ Continue(s, "stopping") \/ Raise(s, "body")
    /\ UNCHANGED <<cloudVars, configVars, recheck, original, owned, forward, late, errors, file,
                   outcome, signals>>

---------------------------------------------------------------------------
(* verify_again.  Nothing between it and the end of the session catches    *)
(* what it raises.                                                         *)

(* The entry is added, and the file written with it, which may fail. *)
Enter(s, status, met) ==
    /\ recheck' = Set(recheck, s, [status |-> status, met |-> met])
    /\ file' = [file EXCEPT ![s].recheck = status] \/ UNCHANGED file

(* A digest that differs, a probe that fails or the budget is a failed     *)
(* entry; anything else is a verified one, whatever the version.           *)
Recheck(s) ==
    /\ pc[s] = "ready"
    /\ \/ Enter(s, "failed", FALSE) /\ Raise(s, "model_session")
       \/ /\ \E met \in BOOLEAN : Enter(s, "verified", met)
          /\ IF file'[s].recheck = "verified" THEN Continue(s, "compare") \/ Raise(s, "body")
                                              ELSE Raise(s, "body")
    /\ UNCHANGED <<cloudVars, configVars, original, owned, forward, late, errors, outcome,
                   signals>>

(* Mutant of Compare: the version is recorded and not compared. *)
CompareNothing(s) ==
    /\ Goto(s, "compare", "ready")
    /\ UNCHANGED <<cloudVars, configVars, recheck, original, owned, forward, late, primary,
                   errors, file, outcome, signals>>

(* Only now is the version compared, and the entry corrected.              *)
Compare(s) ==
    /\ pc[s] = "compare"
    /\ IF recheck[s].met
       THEN Enter(s, "failed", TRUE) /\ Raise(s, "model_session")
       ELSE Continue(s, "ready") /\ UNCHANGED <<recheck, file>>
    /\ UNCHANGED <<cloudVars, configVars, original, owned, forward, late, errors, outcome,
                   signals>>

---------------------------------------------------------------------------
(* The finally.  Each part runs whatever became of the one before it. *)

Failed(s) == errors' = Set(errors, s, TRUE)

(* Mutant of NextPart: any pool that was counted is given back. *)
NextPartUnowned(s) == IF original[s] = Unknown THEN "writing" ELSE "restoring"

NextPart(s) ==
    IF original[s] = Unknown THEN "writing" ELSE IF owned[s] THEN "restoring" ELSE "recount"

(* forward.__exit__ stops the child first, and can fail after that. *)
StopForward(s) ==
    /\ Goto(s, "stopping", NextPart(s))
    /\ late' = Set(late, s, FALSE)
    /\ \/ forward[s] = "running" /\ forward' = Set(forward, s, "none")
          /\ (UNCHANGED errors \/ Failed(s))
       \/ forward[s] # "running" /\ UNCHANGED <<forward, errors>>
    /\ UNCHANGED <<cloudVars, configVars, recheck, original, owned, primary, file, outcome,
                   signals>>

(* Mutant of Restore: a failed command is ignored. *)
RestoreQuietly(s) ==
    /\ Goto(s, "restoring", "writing")
    /\ Scale(s, 0) \/ UNCHANGED cloudVars
    /\ UNCHANGED <<configVars, recheck, original, owned, forward, late, primary, errors, file,
                   outcome, signals>>

Restore(s) ==
    /\ Goto(s, "restoring", "recount")
    /\ \/ Scale(s, 0) /\ UNCHANGED errors
       \/ (Scale(s, 0) \/ UNCHANGED cloudVars) /\ Failed(s)
    /\ UNCHANGED <<configVars, recheck, original, owned, forward, late, primary, file, outcome,
                   signals>>

(* The pool is counted once more, owned or not. *)
Recount(s) ==
    /\ Goto(s, "recount", "writing")
    /\ Failed(s) \/ (pool = original[s] /\ UNCHANGED errors)
    /\ UNCHANGED <<cloudVars, configVars, recheck, original, owned, forward, late, primary,
                   file, outcome, signals>>

FinalStatus(s) ==
    IF primary[s] # "none" THEN "failed" ELSE IF errors[s] THEN "cleanup_failed" ELSE "closed"

Outcome(s, failed) ==
    IF primary[s] # "none" THEN (IF failed THEN "group" ELSE "primary")
    ELSE IF failed THEN "cleanup_error" ELSE "clean"

(* The last write, whose own failure counts as one of the cleanup. *)
WriteEvidence(s) ==
    /\ Goto(s, "writing", "ended")
    /\ \/ /\ file' = Set(file, s, [status |-> FinalStatus(s), changed |-> owned[s],
                               recheck |-> recheck[s].status])
          /\ outcome' = Set(outcome, s, Outcome(s, errors[s]))
       \/ outcome' = Set(outcome, s, Outcome(s, TRUE)) /\ UNCHANGED file
    /\ UNCHANGED <<cloudVars, configVars, recheck, original, owned, forward, late, primary,
                   errors, signals>>

---------------------------------------------------------------------------
Opening == {"resolve", "count", "scale", "forward", "probe", "opened", "retry",
            "verify"}

Cleanup == {"stopping", "restoring", "recount", "writing"}

(* What a signal makes of the child: __enter__ stops the one it waits for, *)
(* and between its return and the assignment of forward nobody does.       *)
AfterSignal(s) ==
    CASE pc[s] = "probe"  -> "none"
      [] pc[s] = "opened" -> "lost"
      [] OTHER            -> forward[s]

(* A signal: the finally runs.  Inside it, the rest of it does not run.    *)
Interrupt(s) ==
    /\ signals < MaxSignals /\ signals' = signals + 1
    /\ \/ /\ pc[s] \in Opening \union {"ready", "compare"}
          /\ Raise(s, "interrupt")
          /\ forward' = Set(forward, s, AfterSignal(s))
          /\ (Scale(s, 1) /\ pc[s] = "scale") \/ UNCHANGED cloudVars
          /\ UNCHANGED outcome
       \/ /\ pc[s] \in Cleanup
          /\ Continue(s, "ended") /\ outcome' = Set(outcome, s, "interrupted")
          /\ (Scale(s, 0) /\ pc[s] = "restoring") \/ UNCHANGED cloudVars
          /\ UNCHANGED forward
    /\ UNCHANGED <<configVars, recheck, original, owned, late, errors, file>>

Open(s) ==
    \/ ResolveSubscription(s) \/ CountPool(s) \/ ScaleUp(s) \/ StartForward(s)
    \/ ProbeFails(s) \/ ProbeSucceeds(s) \/ AssignForward(s) \/ Retry(s) \/ Verify(s)

Close(s) == StopForward(s) \/ Restore(s) \/ Recount(s) \/ WriteEvidence(s)

Body(s) == BodyEnds(s) \/ Recheck(s) \/ Compare(s)

Step(s) == Open(s) \/ Body(s) \/ Close(s)

Terminated == (\A s \in Sessions : pc[s] = "ended") /\ UNCHANGED vars

Next == (\E s \in Sessions : Step(s) \/ DeadlinePasses(s) \/ Interrupt(s)) \/ Terminated

Init ==
    /\ pool \in 0..MaxNodes /\ raiser = "none"
    /\ kind \in Kinds /\ allowed \in [Sessions -> BOOLEAN]
    /\ pc = [s \in Sessions |-> IF kind[s] = "loopback" THEN "verify" ELSE "resolve"]
    /\ original = [s \in Sessions |-> Unknown] /\ owned = [s \in Sessions |-> FALSE]
    /\ forward = [s \in Sessions |-> "none"] /\ late = [s \in Sessions |-> FALSE]
    /\ primary = [s \in Sessions |-> "none"] /\ errors = [s \in Sessions |-> FALSE]
    /\ recheck = [s \in Sessions |-> [status |-> "none", met |-> FALSE]]
    /\ file = [s \in Sessions |-> [status |-> "preparing", changed |-> FALSE, recheck |-> "none"]]
    /\ outcome = [s \in Sessions |-> "none"] /\ signals = 0

(* A session takes its next step, and the readiness deadline comes: every  *)
(* round of the retry loop sleeps, so the monotonic clock gets there.  An  *)
(* experiment rechecks its endpoint a bounded number of times, and ends.   *)
Spec ==
    /\ Init /\ [][Next]_vars
    /\ \A s \in Sessions : WF_vars(Step(s)) /\ WF_vars(DeadlinePasses(s)) /\ SF_vars(BodyEnds(s))

---------------------------------------------------------------------------
Entries == {"none", "verified", "failed"}

(* Every variable of every session has its type, and a session owns a pool *)
(* only if it found it empty and may change it.                            *)
TypeOK ==
    /\ pool \in 0..MaxNodes /\ raiser \in Sessions \union {"none"}
    /\ kind \in [Sessions -> Connections] /\ allowed \in [Sessions -> BOOLEAN]
    /\ pc \in [Sessions -> Opening \union Cleanup \union {"ready", "compare", "ended"}]
    /\ original \in [Sessions -> (0..MaxNodes) \union {Unknown}]
    /\ owned \in [Sessions -> BOOLEAN] /\ forward \in [Sessions -> {"none", "running", "lost"}]
    /\ late \in [Sessions -> BOOLEAN] /\ errors \in [Sessions -> BOOLEAN]
    /\ primary \in [Sessions -> {"none", "model_session", "permission", "aks", "body", "interrupt"}]
    /\ file \in [Sessions -> [status : {"preparing", "ready", "failed", "cleanup_failed", "closed"},
                              changed : BOOLEAN, recheck : Entries]]
    /\ recheck \in [Sessions -> [status : Entries, met : BOOLEAN]]
    /\ outcome \in [Sessions -> {"none", "clean", "primary", "cleanup_error", "group", "interrupted"}]
    /\ signals \in 0..MaxSignals
    /\ \A s \in Sessions : owned[s] => original[s] = 0 /\ allowed[s]

Quiet(s) == outcome[s] \in {"clean", "primary"}

(* No child is running, but for one that a signal made the session lose    *)
(* before forward was assigned.                                            *)
ChildGone(s) == forward[s] = "none" \/ (forward[s] = "lost" /\ primary[s] = "interrupt")

(* A session whose finally ran to its end and reports no trouble with it   *)
(* left nothing behind: its child is gone, and the evidence is closed just *)
(* if it ended well, which it does only on an endpoint that every recheck  *)
(* found as it was.  Once all sessions on a pool have ended so, the pool   *)
(* is at zero if any of them had raised it and else as it was.             *)
QuietEndIsClean ==
    /\ \A s \in Sessions :
          /\ Quiet(s) => ChildGone(s)
          /\ outcome[s] = "clean" <=> file[s].status = "closed"
          /\ outcome[s] = "clean" => file[s].recheck # "failed" /\ ~recheck[s].met
    /\ (\A s \in Sessions : Quiet(s)) =>
          \A s \in Sessions : original[s] # Unknown =>
              pool = IF \E t \in Sessions : owned[t] THEN 0 ELSE original[s]

(* What model-session.json says can be relied on, also after a SIGKILL     *)
(* (README 5: look at the artifact, give the pool back by hand).  A recheck *)
(* that met another version is called verified only until the versions are *)
(* compared, or by a session that failed before that.  A pool the session  *)
(* may have raised is on record, from the moment it is ready on.           *)
FileCanBeTrusted ==
    \A s \in Sessions :
        /\ file[s].recheck = "verified" /\ recheck[s].met =>
              /\ pc[s] = "compare" \/ primary[s] # "none"
              /\ file[s].status \in {"ready", "failed"}
        /\ owned[s] /\ file[s].status # "preparing" => file[s].changed

(* A pool is scaled only in a session that found it empty and has the      *)
(* permission (README 5; test_running_node_pool_is_never_resized).         *)
ScalesOnlyEmptyPool ==
    [][pool' # pool =>
          \E s \in Sessions : owned[s] /\ allowed[s] /\ original[s] = 0]_vars

(* No child survives its attempt: while a session waits to try again none  *)
(* runs, and once it has ended, unless a signal cut the cleanup short or   *)
(* came in the instant before the session took note of its child.          *)
ForwardNeverOrphaned ==
    \A s \in Sessions :
        pc[s] \in {"forward", "retry"} \/ (pc[s] = "ended" /\ outcome[s] # "interrupted")
            => ChildGone(s)

(* Every session ends, however long the model takes to become ready. *)
Termination == \A s \in Sessions : <>(pc[s] = "ended")

(* What is checked and not true: see the findings. *)

(* A session gives back only a pool it raised itself (README 5). *)
RestoresOnlyWhatItRaised ==
    [][\A s \in Sessions : pc[s] = "restoring" /\ pc'[s] = "recount" /\ pool' < pool
          => raiser = s]_vars
=============================================================================
