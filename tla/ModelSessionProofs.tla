------------------------- MODULE ModelSessionProofs -------------------------
(***************************************************************************)
(* Theorems of ModelSession, for every set of sessions that share a pool.  *)
(*                                                                         *)
(* What a session may do to the pool and what it may leave running follows *)
(* from where it is in the protocol: PoolRights and ForwardPlaces tie the  *)
(* two marks a session keeps, owned and forward, to its pc.                *)
(***************************************************************************)
EXTENDS ModelSession, TLAPS

(* The part of the types that the two marks need. *)
Typed ==
    /\ pool \in Int /\ allowed \in [Sessions -> BOOLEAN]
    /\ pc \in [Sessions -> Opening \union Cleanup \union {"ready", "compare", "ended"}]
    /\ original \in [Sessions -> Int] /\ owned \in [Sessions -> BOOLEAN]
    /\ forward \in [Sessions -> {"none", "running", "lost"}] /\ DOMAIN primary = Sessions
    /\ outcome \in [Sessions -> {"none", "clean", "primary", "cleanup_error", "group", "interrupted"}]

(* A session owns no pool before it has counted it, and whoever is about   *)
(* to scale it owns it.                                                    *)
PoolRights ==
    \A s \in Sessions :
        /\ pc[s] \in {"resolve", "count"} => ~owned[s]
        /\ owned[s] => original[s] = 0 /\ allowed[s]
        /\ pc[s] \in {"scale", "restoring"} => owned[s]

(* Where a child can be running, and how it can have been lost. *)
ForwardPlaces ==
    \A s \in Sessions :
        /\ forward[s] = "running" =>
              \/ pc[s] \in {"probe", "opened", "verify", "ready", "compare", "stopping"}
              \/ pc[s] = "ended" /\ outcome[s] = "interrupted"
        /\ forward[s] = "lost" => pc[s] \in Cleanup \union {"ended"} /\ primary[s] = "interrupt"

IInv == Typed /\ PoolRights /\ ForwardPlaces

LEMMA InitHolds == Init => IInv
BY SessionAssumption
   DEF Init, IInv, Typed, PoolRights, ForwardPlaces, Opening, Cleanup, Unknown, Connections

(* Each step of the opening, of a session s. *)
LEMMA OpenHolds == ASSUME IInv, NEW s \in Sessions, Open(s) PROVE IInv'
<1> USE DEF IInv, Typed, PoolRights, ForwardPlaces, Opening, Cleanup, Set, Raise, Continue,
            cloudVars, configVars
<1>1. CASE ResolveSubscription(s)
  BY <1>1 DEF ResolveSubscription
<1>2. CASE CountPool(s)
  <2>1. /\ UNCHANGED <<pool, allowed, forward, outcome>>
        /\ primary' = primary \/ \E e \in {"model_session", "permission"} :
                                    primary' = [primary EXCEPT ![s] = e]
    BY <1>2 DEF CountPool
  <2>2. \/ /\ pc' = [pc EXCEPT ![s] = "stopping"] /\ UNCHANGED owned
           /\ original' = original \/ original' = [original EXCEPT ![s] = pool]
        \/ /\ pc' = [pc EXCEPT ![s] = "forward"] /\ UNCHANGED owned
           /\ original' = [original EXCEPT ![s] = pool]
        \/ /\ pc' = [pc EXCEPT ![s] = "scale"] /\ owned' = [owned EXCEPT ![s] = TRUE]
           /\ original' = [original EXCEPT ![s] = pool] /\ pool = 0 /\ allowed[s]
    BY <1>2 DEF CountPool
  <2>3. pc[s] = "count"
    BY <1>2 DEF CountPool
  <2>4. Typed'
    <3>1. pc' \in [Sessions -> Opening \union Cleanup \union {"ready", "compare", "ended"}]
      BY <2>2
    <3>2. original' \in [Sessions -> Int]
      BY <2>2
    <3>3. owned' \in [Sessions -> BOOLEAN]
      BY <2>2
    <3>4. DOMAIN primary' = Sessions
      BY <2>1
    <3> QED
      BY <2>1, <3>1, <3>2, <3>3, <3>4
  <2>5. PoolRights'
    BY <2>1, <2>2, <2>3
  <2>6. ForwardPlaces'
    BY <2>1, <2>2, <2>3
  <2> QED
    BY <2>4, <2>5, <2>6
<1>3. CASE ScaleUp(s)
  BY <1>3 DEF ScaleUp, Scale
<1>4. CASE StartForward(s)
  BY <1>4 DEF StartForward
<1>5. CASE ProbeFails(s)
  BY <1>5 DEF ProbeFails
<1>6. CASE ProbeSucceeds(s) \/ AssignForward(s)
  BY <1>6 DEF ProbeSucceeds, AssignForward, Goto
<1>7. CASE Retry(s)
  BY <1>7 DEF Retry
<1>8. CASE Verify(s)
  BY <1>8 DEF Verify
<1> QED
  BY <1>1, <1>2, <1>3, <1>4, <1>5, <1>6, <1>7, <1>8 DEF Open

(* Each part of the finally, of a session s. *)
LEMMA CloseHolds == ASSUME IInv, NEW s \in Sessions, Close(s) PROVE IInv'
<1> USE DEF IInv, Typed, PoolRights, ForwardPlaces, Opening, Cleanup, Set, Goto, Failed,
            cloudVars, configVars
<1>1. CASE StopForward(s)
  BY <1>1 DEF StopForward, NextPart
<1>2. CASE Restore(s)
  BY <1>2 DEF Restore, Scale
<1>3. CASE Recount(s)
  BY <1>3 DEF Recount
<1>4. CASE WriteEvidence(s)
  BY <1>4 DEF WriteEvidence, FinalStatus, Outcome
<1> QED
  BY <1>1, <1>2, <1>3, <1>4 DEF Close

(* While the session is open it may end, or be verified again. *)
LEMMA BodyHolds == ASSUME IInv, NEW s \in Sessions, Body(s) PROVE IInv'
<1>1. UNCHANGED <<pool, allowed, original, owned, forward, outcome>>
  BY DEF Body, BodyEnds, Recheck, Compare, cloudVars, configVars
<1>2. /\ pc[s] \in {"ready", "compare"}
      /\ \E to \in {"stopping", "ready", "compare"} : pc' = [pc EXCEPT ![s] = to]
  BY DEF Body, BodyEnds, Recheck, Compare, Set, Raise, Continue
<1>3. primary' = primary \/ \E e \in {"model_session", "body"} : primary' = [primary EXCEPT ![s] = e]
  BY DEF Body, BodyEnds, Recheck, Compare, Set, Raise, Continue
<1> QED
  BY <1>1, <1>2, <1>3 DEF IInv, Typed, PoolRights, ForwardPlaces, Opening, Cleanup

LEMMA DeadlineHolds == ASSUME IInv, NEW s \in Sessions, DeadlinePasses(s) PROVE IInv'
BY DEF IInv, Typed, PoolRights, ForwardPlaces, Opening, Cleanup, Set, cloudVars, configVars,
       DeadlinePasses

(* A signal in the opening stops the child that is not verified yet; one   *)
(* in the cleanup leaves it, and the session says it was interrupted.      *)
LEMMA InterruptHolds == ASSUME IInv, NEW s \in Sessions, Interrupt(s) PROVE IInv'
<1> USE DEF IInv, Typed, PoolRights, ForwardPlaces, Opening, Cleanup, Set, Raise, Continue,
            Scale, cloudVars, configVars, Interrupt
<1>1. CASE pc[s] \in Opening \union {"ready", "compare"}
  <2>1. pc' = [pc EXCEPT ![s] = "stopping"] /\ UNCHANGED <<allowed, original, owned, outcome>>
    BY <1>1
  <2>2. pool' \in Int
    BY <1>1
  <2>3. /\ forward' = [forward EXCEPT ![s] = AfterSignal(s)]
        /\ primary' = [primary EXCEPT ![s] = "interrupt"]
    BY <1>1
  <2>4. /\ AfterSignal(s) \in {"none", "running", "lost"}
        /\ AfterSignal(s) = "running" => forward[s] = "running"
    BY DEF AfterSignal
  <2>5. Typed'
    BY <2>1, <2>2, <2>3, <2>4
  <2>6. PoolRights'
    BY <1>1, <2>1
  <2>7. ForwardPlaces'
    BY <1>1, <2>1, <2>3, <2>4
  <2> QED
    BY <2>5, <2>6, <2>7
<1>2. CASE pc[s] \in Cleanup
  BY <1>2
<1> QED
  BY <1>1, <1>2

LEMMA Inductive == IInv /\ [Next]_vars => IInv'
<1>1. IInv /\ UNCHANGED vars => IInv'
  BY DEF IInv, Typed, PoolRights, ForwardPlaces, vars, cloudVars, configVars
<1> QED
  BY <1>1, OpenHolds, CloseHolds, BodyHolds, DeadlineHolds, InterruptHolds
     DEF Next, Step, Terminated

(* The other variables, whose types need only those above. *)
RestTyped ==
    /\ pool \in 0..MaxNodes /\ raiser \in Sessions \union {"none"}
    /\ kind \in [Sessions -> Connections]
    /\ original \in [Sessions -> (0..MaxNodes) \union {Unknown}]
    /\ late \in [Sessions -> BOOLEAN] /\ errors \in [Sessions -> BOOLEAN]
    /\ primary \in [Sessions -> {"none", "model_session", "permission", "aks", "body", "interrupt"}]
    /\ file \in [Sessions -> [status : {"preparing", "ready", "failed", "cleanup_failed", "closed"},
                              changed : BOOLEAN, recheck : Entries]]
    /\ recheck \in [Sessions -> [status : Entries, met : BOOLEAN]]
    /\ signals \in 0..MaxSignals

LEMMA RestInit == Init => RestTyped
<1> SUFFICES ASSUME Init PROVE RestTyped
  OBVIOUS
<1>1. kind \in [Sessions -> Connections]
  BY SessionAssumption DEF Init
<1>2. file \in [Sessions -> [status : {"preparing", "ready", "failed", "cleanup_failed", "closed"},
                            changed : BOOLEAN, recheck : Entries]]
  BY DEF Init, Entries
<1>5. recheck \in [Sessions -> [status : Entries, met : BOOLEAN]]
  BY DEF Init, Entries
<1>3. pool \in 0..MaxNodes /\ raiser \in Sessions \union {"none"} /\ signals \in 0..MaxSignals
  BY SessionAssumption DEF Init
<1>4. original \in [Sessions -> (0..MaxNodes) \union {Unknown}]
  BY DEF Init
<1> QED
  BY <1>1, <1>2, <1>3, <1>4, <1>5 DEF Init, RestTyped

LEMMA RestInductive == IInv /\ RestTyped /\ [Next]_vars => RestTyped'
<1> SUFFICES ASSUME IInv, RestTyped, Next PROVE RestTyped'
  BY DEF RestTyped, vars, cloudVars, configVars
<1> USE DEF RestTyped, Set, Goto, Raise, Continue, Failed, Scale, cloudVars, configVars
<1>1. CASE Terminated
  BY <1>1 DEF Terminated, vars
<1>2. ASSUME NEW s \in Sessions, Open(s) PROVE RestTyped'
  <2>1. /\ UNCHANGED <<kind, errors, recheck, signals>>
        /\ late' = late \/ late' = [late EXCEPT ![s] = FALSE]
    BY <1>2 DEF Open, ResolveSubscription, CountPool, ScaleUp, StartForward, ProbeFails,
       ProbeSucceeds, AssignForward, Retry, Verify
  <2>2. pool' \in 0..MaxNodes /\ raiser' \in Sessions \union {"none"}
    BY <1>2, SessionAssumption DEF Open, ResolveSubscription, CountPool, ScaleUp, StartForward, ProbeFails,
       ProbeSucceeds, AssignForward, Retry, Verify
  <2>3. original' = original \/ original' = [original EXCEPT ![s] = pool]
    BY <1>2 DEF Open, ResolveSubscription, CountPool, ScaleUp, StartForward, ProbeFails,
       ProbeSucceeds, AssignForward, Retry, Verify
  <2>4. \/ primary' = primary \/ primary' = [primary EXCEPT ![s] = "model_session"]
        \/ primary' = [primary EXCEPT ![s] = "permission"] \/ primary' = [primary EXCEPT ![s] = "aks"]
    BY <1>2 DEF Open, ResolveSubscription, CountPool, ScaleUp, StartForward, ProbeFails,
       ProbeSucceeds, AssignForward, Retry, Verify
  <2>5. file' = file \/ file' = [file EXCEPT ![s] = [status |-> "ready", changed |-> owned[s],
                                                      recheck |-> "none"]]
    BY <1>2 DEF Open, ResolveSubscription, CountPool, ScaleUp, StartForward, ProbeFails,
       ProbeSucceeds, AssignForward, Retry, Verify
  <2>6. owned[s] \in BOOLEAN
    BY DEF IInv, Typed
  <2>7. file' \in [Sessions -> [status : {"preparing", "ready", "failed", "cleanup_failed", "closed"},
                              changed : BOOLEAN, recheck : Entries]]
    BY <2>5, <2>6 DEF Entries
  <2>8. original' \in [Sessions -> (0..MaxNodes) \union {Unknown}]
    BY <2>3
  <2>9. primary' \in [Sessions -> {"none", "model_session", "permission", "aks", "body", "interrupt"}]
    BY <2>4
  <2> QED
    BY <2>1, <2>2, <2>7, <2>8, <2>9
<1>3. ASSUME NEW s \in Sessions, Close(s) PROVE RestTyped'
  <2>1. /\ UNCHANGED <<kind, recheck, original, primary, signals>>
        /\ late' = late \/ late' = [late EXCEPT ![s] = FALSE]
    BY <1>3 DEF Close, StopForward, Restore, Recount, WriteEvidence
  <2>2. UNCHANGED <<pool, raiser>> \/ Scale(s, 0)
    BY <1>3 DEF Close, StopForward, Restore, Recount, WriteEvidence
  <2>3. errors' = errors \/ errors' = [errors EXCEPT ![s] = TRUE]
    BY <1>3 DEF Close, StopForward, Restore, Recount, WriteEvidence
  <2>4. file' = file \/ file' = [file EXCEPT ![s] = [status |-> FinalStatus(s), changed |-> owned[s],
                                                      recheck |-> recheck[s].status]]
    BY <1>3 DEF Close, StopForward, Restore, Recount, WriteEvidence
  <2>5. /\ owned[s] \in BOOLEAN /\ recheck[s].status \in Entries
        /\ FinalStatus(s) \in {"failed", "cleanup_failed", "closed"}
    BY DEF IInv, Typed, FinalStatus
  <2>6. file' \in [Sessions -> [status : {"preparing", "ready", "failed", "cleanup_failed", "closed"},
                              changed : BOOLEAN, recheck : Entries]]
    BY <2>4, <2>5
  <2>7. errors' \in [Sessions -> BOOLEAN]
    BY <2>3
  <2>8. pool' \in 0..MaxNodes /\ raiser' \in Sessions \union {"none"}
    BY <2>2, SessionAssumption
  <2> QED
    BY <2>1, <2>6, <2>7, <2>8
<1>4. ASSUME NEW s \in Sessions, Body(s) PROVE RestTyped'
  <2>1. UNCHANGED <<pool, raiser, kind, original, late, errors, signals>>
    BY <1>4 DEF Body, BodyEnds, Recheck, Compare
  <2>2. \/ primary' = primary \/ primary' = [primary EXCEPT ![s] = "model_session"]
        \/ primary' = [primary EXCEPT ![s] = "body"]
    BY <1>4 DEF Body, BodyEnds, Recheck, Compare
  <2>3. \/ UNCHANGED <<recheck, file>>
        \/ \E status \in Entries, met \in BOOLEAN : Enter(s, status, met)
    BY <1>4 DEF Body, BodyEnds, Recheck, Compare, Entries
  <2>4. recheck' \in [Sessions -> [status : Entries, met : BOOLEAN]]
    <3>1. CASE UNCHANGED recheck
      BY <3>1
    <3>2. ASSUME NEW status \in Entries, NEW met \in BOOLEAN, Enter(s, status, met)
          PROVE  recheck' \in [Sessions -> [status : Entries, met : BOOLEAN]]
      <4>1. [status |-> status, met |-> met] \in [status : Entries, met : BOOLEAN]
        OBVIOUS
      <4> QED
        BY <3>2, <4>1 DEF Enter
    <3> QED
      BY <2>3, <3>1, <3>2
  <2>5. file' \in [Sessions -> [status : {"preparing", "ready", "failed", "cleanup_failed", "closed"},
                              changed : BOOLEAN, recheck : Entries]]
    <3>1. \/ UNCHANGED file
          \/ \E status \in Entries : file' = [file EXCEPT ![s].recheck = status]
      BY <2>3 DEF Enter
    <3>2. file \in [Sessions -> [status : {"preparing", "ready", "failed", "cleanup_failed", "closed"},
                                changed : BOOLEAN, recheck : Entries]]
      OBVIOUS
    <3> HIDE DEF RestTyped
    <3> QED
      BY <3>1, <3>2
  <2>6. primary' \in [Sessions -> {"none", "model_session", "permission", "aks", "body", "interrupt"}]
    BY <2>2
  <2> QED
    BY <2>1, <2>4, <2>5, <2>6
<1>5. ASSUME NEW s \in Sessions, DeadlinePasses(s) PROVE RestTyped'
  BY <1>5 DEF DeadlinePasses
<1>6. ASSUME NEW s \in Sessions, Interrupt(s) PROVE RestTyped'
  <2>1. UNCHANGED <<kind, original, late, errors, recheck, file>> /\ signals' \in 0..MaxSignals
    BY <1>6, SessionAssumption DEF Interrupt
  <2>2. pool' \in 0..MaxNodes /\ raiser' \in Sessions \union {"none"}
    BY <1>6, SessionAssumption DEF Interrupt
  <2>3. primary' = primary \/ primary' = [primary EXCEPT ![s] = "interrupt"]
    BY <1>6 DEF Interrupt
  <2> QED
    BY <2>1, <2>2, <2>3
<1> QED
  BY <1>1, <1>2, <1>3, <1>4, <1>5, <1>6 DEF Next, Step

(* What the file says, by where the session is.  A pool is owned before    *)
(* anything but the first entry is in the file; a recheck that met another *)
(* version is being compared, or is why the session fails.                 *)
FileFacts ==
    \A s \in Sessions :
        /\ pc[s] \in Opening =>
              file[s].status = "preparing" /\ ~recheck[s].met /\ primary[s] = "none"
        /\ pc[s] \in {"ready", "compare"} => file[s].status = "ready" /\ primary[s] = "none"
        /\ pc[s] \in Cleanup => file[s].status \in {"preparing", "ready"}
        /\ recheck[s].met => pc[s] = "compare" \/ primary[s] # "none"
        /\ primary[s] # "none" => file[s].status \in {"preparing", "ready", "failed"}
        /\ file[s].status = "preparing" => file[s].recheck = "none"
        /\ owned[s] /\ file[s].status # "preparing" => file[s].changed

(* The types of what FileFacts relates. *)
FileTyped ==
    /\ pc \in [Sessions -> Opening \union Cleanup \union {"ready", "compare", "ended"}]
    /\ owned \in [Sessions -> BOOLEAN]
    /\ primary \in [Sessions -> {"none", "model_session", "permission", "aks", "body", "interrupt"}]
    /\ file \in [Sessions -> [status : {"preparing", "ready", "failed", "cleanup_failed", "closed"},
                              changed : BOOLEAN, recheck : Entries]]
    /\ recheck \in [Sessions -> [status : Entries, met : BOOLEAN]]

LEMMA InitFileFacts == Init => FileFacts
<1> SUFFICES ASSUME Init, NEW s \in Sessions
             PROVE  /\ file[s].status = "preparing" /\ file[s].recheck = "none"
                    /\ ~recheck[s].met /\ primary[s] = "none" /\ pc[s] \in {"verify", "resolve"}
  BY DEF FileFacts, Opening, Cleanup
<1>1. file[s] = [status |-> "preparing", changed |-> FALSE, recheck |-> "none"]
  BY DEF Init
<1>2. recheck[s] = [status |-> "none", met |-> FALSE]
  BY DEF Init
<1> QED
  BY <1>1, <1>2 DEF Init

LEMMA FileInductive == IInv /\ RestTyped /\ FileFacts /\ [Next]_vars => FileFacts'
<1> SUFFICES ASSUME FileTyped, FileFacts, Next PROVE FileFacts'
  BY DEF IInv, Typed, RestTyped, FileTyped, FileFacts, vars, cloudVars, configVars
<1> USE DEF FileTyped, FileFacts, Opening, Cleanup, Set, Goto, Raise, Continue
<1>1. CASE Terminated
  BY <1>1 DEF Terminated, vars
<1>2. ASSUME NEW s \in Sessions, Open(s) PROVE FileFacts'
  <2>1. CASE CountPool(s)
    BY <2>1 DEF CountPool
  <2>2. CASE Verify(s)
    <3>1. \A t \in Sessions : t # s =>
            UNCHANGED <<pc[t], primary[t], owned[t], recheck[t], file[t]>>
      BY <2>2 DEF Verify
    <3>2. /\ UNCHANGED <<owned, recheck>> /\ pc[s] = "verify" /\ pc'[s] \in {"ready", "stopping"}
          /\ \/ /\ pc'[s] = "ready" /\ UNCHANGED primary[s]
                /\ file'[s] = [status |-> "ready", changed |-> owned[s], recheck |-> "none"]
             \/ pc'[s] = "stopping" /\ UNCHANGED file[s]
      BY <2>2 DEF Verify
    <3>3. primary[s] = "none"
      BY <3>2
    <3> QED
      BY <3>1, <3>2, <3>3
  <2>3. CASE ~CountPool(s) /\ ~Verify(s)
    <3>1. UNCHANGED <<owned, recheck, file>> /\ pc[s] \in Opening
      BY <1>2, <2>3 DEF Open, ResolveSubscription, ScaleUp, StartForward, ProbeFails,
         ProbeSucceeds, AssignForward, Retry
    <3>2. \/ UNCHANGED primary /\ \E to \in Opening : pc' = [pc EXCEPT ![s] = to]
          \/ \E e \in {"model_session", "aks"} :
                pc' = [pc EXCEPT ![s] = "stopping"] /\ primary' = [primary EXCEPT ![s] = e]
      BY <1>2, <2>3 DEF Open, ResolveSubscription, ScaleUp, StartForward, ProbeFails,
         ProbeSucceeds, AssignForward, Retry
    <3> QED
      BY <3>1, <3>2
  <2> QED
    BY <2>1, <2>2, <2>3
<1>3. ASSUME NEW s \in Sessions, Close(s) PROVE FileFacts'
  <2>1. CASE WriteEvidence(s)
    <3>1. \A t \in Sessions : t # s =>
            UNCHANGED <<pc[t], primary[t], owned[t], recheck[t], file[t]>>
      BY <2>1 DEF WriteEvidence
    <3>2. /\ UNCHANGED <<owned, recheck, primary>> /\ pc[s] = "writing" /\ pc'[s] = "ended"
          /\ \/ file'[s] = [status |-> FinalStatus(s), changed |-> owned[s],
                             recheck |-> recheck[s].status]
             \/ UNCHANGED file[s]
      BY <2>1 DEF WriteEvidence
    <3>3. /\ FinalStatus(s) \in {"failed", "cleanup_failed", "closed"}
          /\ primary[s] # "none" => FinalStatus(s) = "failed"
      BY DEF FinalStatus
    <3> QED
      BY <3>1, <3>2, <3>3
  <2>2. CASE ~WriteEvidence(s)
    <3>1. UNCHANGED <<owned, primary, recheck, file>> /\ pc[s] \in Cleanup
      BY <1>3, <2>2 DEF Close, StopForward, Restore, Recount
    <3>2. \E to \in Cleanup : pc' = [pc EXCEPT ![s] = to]
      BY <1>3, <2>2 DEF Close, StopForward, NextPart, Restore, Recount
    <3> QED
      BY <3>1, <3>2
  <2> QED
    BY <2>1, <2>2
<1>4. ASSUME NEW s \in Sessions, Body(s) PROVE FileFacts'
  <2>1. CASE BodyEnds(s)
    BY <2>1 DEF BodyEnds
  <2>2. CASE Recheck(s)
    <3>1. \A t \in Sessions : t # s =>
            UNCHANGED <<pc[t], primary[t], owned[t], recheck[t], file[t]>>
      BY <2>2 DEF Recheck, Enter
    <3>2. /\ pc[s] \in {"ready", "compare"} /\ UNCHANGED owned
          /\ file'[s].status = file[s].status /\ file'[s].changed = file[s].changed
      BY <2>2 DEF Recheck, Enter
    <3>3. \/ pc'[s] = "stopping" /\ primary'[s] \in {"model_session", "body"}
          \/ UNCHANGED primary[s] /\ pc'[s] = "compare"
      BY <2>2 DEF Recheck, Enter
    <3> QED
      BY <3>1, <3>2, <3>3
  <2>3. CASE Compare(s)
    <3>1. \A t \in Sessions : t # s =>
            UNCHANGED <<pc[t], primary[t], owned[t], recheck[t], file[t]>>
      BY <2>3 DEF Compare, Enter
    <3>2. /\ pc[s] \in {"ready", "compare"} /\ UNCHANGED owned
          /\ file'[s].status = file[s].status /\ file'[s].changed = file[s].changed
      BY <2>3 DEF Compare, Enter
    <3>3. \/ pc'[s] = "stopping" /\ primary'[s] \in {"model_session", "body"}
          \/ UNCHANGED primary[s] /\ pc'[s] = "ready" /\ ~recheck'[s].met
      BY <2>3 DEF Compare, Enter
    <3> QED
      BY <3>1, <3>2, <3>3
  <2> QED
    BY <1>4, <2>1, <2>2, <2>3 DEF Body
<1>5. ASSUME NEW s \in Sessions, DeadlinePasses(s) PROVE FileFacts'
  BY <1>5 DEF DeadlinePasses
<1>6. ASSUME NEW s \in Sessions, Interrupt(s) PROVE FileFacts'
  <2>1. UNCHANGED <<owned, recheck, file>>
    BY <1>6 DEF Interrupt
  <2>2. \/ /\ pc[s] \in Opening \union {"ready", "compare"}
           /\ pc' = [pc EXCEPT ![s] = "stopping"] /\ primary' = [primary EXCEPT ![s] = "interrupt"]
        \/ /\ pc[s] \in Cleanup
           /\ pc' = [pc EXCEPT ![s] = "ended"] /\ UNCHANGED primary
    BY <1>6 DEF Interrupt
  <2> QED
    BY <2>1, <2>2
<1> QED
  BY <1>1, <1>2, <1>3, <1>4, <1>5, <1>6 DEF Next, Step

(* What a session has reported, and what its file says then. *)
Ends ==
    \A s \in Sessions :
        /\ pc[s] # "ended" => outcome[s] = "none"
        /\ Quiet(s) => ~errors[s]
        /\ outcome[s] = "clean" <=> file[s].status = "closed"
        /\ outcome[s] = "clean" => file[s].recheck # "failed" /\ ~recheck[s].met
        /\ recheck[s].status = "failed" => primary[s] # "none"

(* An owner that has not found its pool restored yet, or never will. *)
Owes(t) == owned[t] /\ (pc[t] \notin {"writing", "ended"} \/ errors[t] \/ outcome[t] = "interrupted")

(* While the pool is up and somebody owns it, somebody owes it back; while *)
(* nobody owns it, it is as everybody found it.                            *)
Balance ==
    /\ pool # 0 /\ (\E s \in Sessions : owned[s]) => \E t \in Sessions : Owes(t)
    /\ (\A s \in Sessions : ~owned[s]) => \A s \in Sessions : original[s] # Unknown => pool = original[s]

LEMMA EndsInductive == IInv /\ RestTyped /\ FileFacts /\ Ends /\ [Next]_vars => Ends'
<1> SUFFICES ASSUME IInv, RestTyped, FileFacts, Ends, Next PROVE Ends'
  BY DEF Ends, Quiet, vars, cloudVars, configVars
<1> USE DEF Opening, Cleanup, Set, Goto, Raise, Continue
<1>0. FileTyped /\ errors \in [Sessions -> BOOLEAN] /\ DOMAIN outcome = Sessions
  BY DEF IInv, Typed, RestTyped, FileTyped
<1>1. CASE Terminated
  BY <1>1 DEF Terminated, vars, Ends, Quiet
<1>2. ASSUME NEW s \in Sessions, Open(s) PROVE Ends'
  <2>1. UNCHANGED <<errors, outcome, recheck>> /\ pc[s] \in Opening
    BY <1>2 DEF Open, ResolveSubscription, CountPool, ScaleUp, StartForward, ProbeFails,
       ProbeSucceeds, AssignForward, Retry, Verify
  <2>2. /\ \A t \in Sessions : t # s => UNCHANGED <<pc[t], primary[t], file[t]>>
        /\ pc'[s] \in Opening \union {"ready", "stopping"}
    BY <1>0, <1>2 DEF FileTyped, Open, ResolveSubscription, CountPool, ScaleUp, StartForward,
       ProbeFails, ProbeSucceeds, AssignForward, Retry, Verify
  <2>3. file'[s] = file[s] \/ file'[s] = [status |-> "ready", changed |-> owned[s], recheck |-> "none"]
    BY <1>0, <1>2 DEF FileTyped, Open, ResolveSubscription, CountPool, ScaleUp, StartForward,
       ProbeFails, ProbeSucceeds, AssignForward, Retry, Verify
  <2>4. recheck[s].status # "failed"
    BY <2>1 DEF Ends, FileFacts
  <2> QED
    BY <2>1, <2>2, <2>3, <2>4 DEF Ends, Quiet
<1>3. ASSUME NEW s \in Sessions, Close(s) PROVE Ends'
  <2>1. UNCHANGED <<recheck, primary>> /\ pc[s] \in Cleanup
    BY <1>3 DEF Close, StopForward, Restore, Recount, WriteEvidence
  <2>2. \A t \in Sessions : t # s => UNCHANGED <<pc[t], errors[t], outcome[t], file[t]>>
    BY <1>0, <1>3 DEF FileTyped, Close, StopForward, Restore, Recount, WriteEvidence, Failed
  <2>3. CASE WriteEvidence(s)
    <3>1. pc'[s] = "ended" /\ UNCHANGED errors
      BY <1>0, <2>3 DEF FileTyped, WriteEvidence
    <3>2. \/ /\ file'[s] = [status |-> FinalStatus(s), changed |-> owned[s],
                            recheck |-> recheck[s].status]
             /\ outcome'[s] = Outcome(s, errors[s])
          \/ file'[s] = file[s] /\ outcome'[s] = Outcome(s, TRUE)
      BY <1>0, <2>3 DEF FileTyped, WriteEvidence
    <3>3. file[s].status # "closed" /\ (recheck[s].met => primary[s] # "none")
      BY <1>0, <2>1 DEF FileFacts, FileTyped
    <3>4. /\ Outcome(s, TRUE) \notin {"clean", "primary"}
          /\ errors[s] => Outcome(s, errors[s]) \notin {"clean", "primary"}
          /\ Outcome(s, errors[s]) = "clean" <=> FinalStatus(s) = "closed"
          /\ Outcome(s, errors[s]) = "clean" => primary[s] = "none"
      BY <1>0 DEF Outcome, FinalStatus
    <3>5. /\ Quiet(s)' => ~errors[s]
          /\ outcome'[s] = "clean" <=> file'[s].status = "closed"
          /\ outcome'[s] = "clean" => primary[s] = "none" /\ file'[s].recheck = recheck[s].status
      <4>1. CASE file'[s] = file[s] /\ outcome'[s] = Outcome(s, TRUE)
        BY <3>3, <3>4, <4>1 DEF Quiet
      <4>2. CASE /\ file'[s] = [status |-> FinalStatus(s), changed |-> owned[s],
                                recheck |-> recheck[s].status]
                 /\ outcome'[s] = Outcome(s, errors[s])
        <5>1. file'[s].status = FinalStatus(s) /\ file'[s].recheck = recheck[s].status
          BY <4>2
        <5> QED
          BY <3>4, <4>2, <5>1, Zenon DEF Quiet
      <4> QED
        BY <3>2, <4>1, <4>2
    <3>6. outcome'[s] = "clean" => file'[s].recheck # "failed" /\ ~recheck[s].met
      BY <3>3, <3>5 DEF Ends
    <3> QED
      BY <2>1, <2>2, <3>1, <3>5, <3>6 DEF Ends, Quiet
  <2>4. CASE ~WriteEvidence(s)
    <3>1. UNCHANGED <<file, outcome>> /\ pc'[s] \in Cleanup
      BY <1>0, <1>3, <2>4 DEF FileTyped, Close, StopForward, NextPart, Restore, Recount
    <3> QED
      BY <2>1, <2>2, <3>1 DEF Ends, Quiet
  <2> QED
    BY <2>3, <2>4
<1>4. ASSUME NEW s \in Sessions, Body(s) PROVE Ends'
  <2>1. UNCHANGED <<errors, outcome>> /\ pc[s] \in {"ready", "compare"}
    BY <1>4 DEF Body, BodyEnds, Recheck, Compare
  <2>2. /\ \A t \in Sessions : t # s => UNCHANGED <<pc[t], primary[t], recheck[t], file[t]>>
        /\ pc'[s] \in {"ready", "compare", "stopping"}
        /\ file'[s].status = file[s].status
    BY <1>0, <1>4 DEF FileTyped, Body, BodyEnds, Recheck, Compare, Enter
  <2>3. recheck'[s].status = "failed" => recheck'[s] = recheck[s] \/ primary'[s] # "none"
    BY <1>0, <1>4 DEF FileTyped, Body, BodyEnds, Recheck, Compare, Enter
  <2>4. primary[s] = "none"
    BY <2>1 DEF FileFacts
  <2> QED
    BY <2>1, <2>2, <2>3, <2>4 DEF Ends, Quiet
<1>5. ASSUME NEW s \in Sessions, DeadlinePasses(s) PROVE Ends'
  BY <1>5 DEF DeadlinePasses, Ends, Quiet
<1>6. ASSUME NEW s \in Sessions, Interrupt(s) PROVE Ends'
  <2>1. UNCHANGED <<errors, recheck, file>>
    BY <1>6 DEF Interrupt
  <2>2. \A t \in Sessions : t # s => UNCHANGED <<pc[t], primary[t], outcome[t]>>
    BY <1>0, <1>6 DEF FileTyped, Interrupt
  <2>3. \/ /\ pc[s] \in Opening \union {"ready", "compare"} /\ pc'[s] = "stopping"
           /\ primary'[s] = "interrupt" /\ UNCHANGED outcome[s]
        \/ /\ pc[s] \in Cleanup /\ pc'[s] = "ended"
           /\ outcome'[s] = "interrupted" /\ UNCHANGED primary[s]
    BY <1>0, <1>6 DEF FileTyped, Interrupt
  <2>4. pc[s] \in Cleanup => file[s].status # "closed"
    BY DEF FileFacts
  <2> QED
    BY <2>1, <2>2, <2>3, <2>4 DEF Ends, Quiet
<1> QED
  BY <1>1, <1>2, <1>3, <1>4, <1>5, <1>6 DEF Next, Step

LEMMA BalanceInductive == IInv /\ RestTyped /\ Ends /\ Balance /\ [Next]_vars => Balance'
<1> SUFFICES ASSUME IInv, RestTyped, Ends, Balance, Next PROVE Balance'
  BY DEF Balance, Owes, vars, cloudVars, configVars
<1> USE DEF Opening, Cleanup, Set, Goto, Raise, Continue
<1>0. /\ FileTyped /\ errors \in [Sessions -> BOOLEAN] /\ DOMAIN outcome = Sessions
      /\ original \in [Sessions -> Int] /\ pool \in Int
      /\ \A s \in Sessions : owned[s] => original[s] = 0
  BY DEF IInv, Typed, PoolRights, RestTyped, FileTyped
<1>1. CASE Terminated
  BY <1>1 DEF Terminated, vars, cloudVars, configVars, Balance, Owes
<1>2. ASSUME NEW s \in Sessions, Open(s) PROVE Balance'
  <2>1. CASE CountPool(s)
    <3>1. UNCHANGED <<pool, errors, outcome>> /\ pc'[s] \notin {"writing", "ended"}
      BY <1>0, <2>1 DEF FileTyped, CountPool, cloudVars
    <3>2. /\ \A t \in Sessions : t # s => UNCHANGED <<pc[t], owned[t], original[t]>>
          /\ original'[s] = original[s] \/ original'[s] = pool
          /\ UNCHANGED owned[s] \/ (owned'[s] = TRUE /\ pool = 0)
      BY <1>0, <2>1 DEF FileTyped, CountPool
    <3>3. \A t \in Sessions : Owes(t) => Owes(t)'
      BY <1>0, <3>1, <3>2, <2>1 DEF Owes, CountPool, FileTyped, IInv, PoolRights
    <3> QED
      BY <1>0, <3>1, <3>2, <3>3 DEF Balance, FileTyped
  <2>2. CASE ~CountPool(s)
    <3>1. UNCHANGED <<owned, original, errors, outcome>> /\ pc'[s] \notin {"writing", "ended"}
      BY <1>0, <1>2, <2>2 DEF FileTyped, Open, ResolveSubscription, ScaleUp, StartForward,
         ProbeFails, ProbeSucceeds, AssignForward, Retry, Verify
    <3>2. \A t \in Sessions : t # s => UNCHANGED pc[t]
      BY <1>0, <1>2, <2>2 DEF FileTyped, Open, ResolveSubscription, ScaleUp, StartForward,
         ProbeFails, ProbeSucceeds, AssignForward, Retry, Verify
    <3>3. pool' = pool \/ owned[s]
      BY <1>2, <2>2 DEF Open, ResolveSubscription, ScaleUp, StartForward, ProbeFails,
         ProbeSucceeds, AssignForward, Retry, Verify, cloudVars, IInv, PoolRights
    <3> QED
      BY <3>1, <3>2, <3>3 DEF Balance, Owes
  <2> QED
    BY <2>1, <2>2
<1>3. ASSUME NEW s \in Sessions, Close(s) PROVE Balance'
  <2>1. UNCHANGED <<owned, original>>
    BY <1>3 DEF Close, StopForward, Restore, Recount, WriteEvidence
  <2>2. \A t \in Sessions : t # s => UNCHANGED <<pc[t], errors[t], outcome[t]>>
    BY <1>0, <1>3 DEF FileTyped, Close, StopForward, Restore, Recount, WriteEvidence, Failed
  <2>3. errors[s] => errors'[s]
    BY <1>0, <1>3 DEF Close, StopForward, Restore, Recount, WriteEvidence, Failed
  <2>4. CASE StopForward(s)
    <3>1. UNCHANGED <<pool, outcome>> /\ (owned[s] => pc'[s] = "restoring")
      BY <1>0, <2>4 DEF FileTyped, StopForward, NextPart, cloudVars, Unknown
    <3> QED
      BY <2>1, <2>2, <2>3, <2>4, <3>1 DEF Balance, Owes, StopForward
  <2>5. CASE Restore(s)
    <3>1. pool' \in {0, pool} /\ UNCHANGED outcome /\ pc'[s] = "recount" /\ owned[s]
      BY <1>0, <2>5 DEF FileTyped, Restore, Scale, cloudVars, IInv, PoolRights
    <3> QED
      BY <2>1, <2>2, <2>3, <3>1 DEF Balance, Owes
  <2>6. CASE Recount(s)
    <3>1. UNCHANGED <<pool, outcome>> /\ (errors'[s] = TRUE \/ pool = original[s])
      BY <1>0, <2>6 DEF Recount, cloudVars, Failed
    <3> QED
      BY <1>0, <2>1, <2>2, <2>3, <3>1 DEF Balance, Owes
  <2>7. CASE WriteEvidence(s)
    <3>1. UNCHANGED <<pool, errors>> /\ pc[s] = "writing" /\ outcome[s] # "interrupted"
      BY <2>7 DEF WriteEvidence, cloudVars, Ends
    <3> QED
      BY <2>1, <2>2, <2>3, <3>1 DEF Balance, Owes
  <2> QED
    BY <1>3, <2>4, <2>5, <2>6, <2>7 DEF Close
<1>4. ASSUME NEW s \in Sessions, Body(s) PROVE Balance'
  <2>1. UNCHANGED <<pool, owned, original, errors, outcome>>
    BY <1>4 DEF Body, BodyEnds, Recheck, Compare, cloudVars
  <2>2. /\ \A t \in Sessions : t # s => UNCHANGED pc[t]
        /\ pc'[s] \in {"ready", "compare", "stopping"}
    BY <1>0, <1>4 DEF FileTyped, Body, BodyEnds, Recheck, Compare
  <2> QED
    BY <2>1, <2>2 DEF Balance, Owes
<1>5. ASSUME NEW s \in Sessions, DeadlinePasses(s) PROVE Balance'
  BY <1>5 DEF DeadlinePasses, Balance, Owes, cloudVars
<1>6. ASSUME NEW s \in Sessions, Interrupt(s) PROVE Balance'
  <2>1. UNCHANGED <<owned, original, errors>>
    BY <1>6 DEF Interrupt
  <2>2. \A t \in Sessions : t # s => UNCHANGED <<pc[t], outcome[t]>>
    BY <1>0, <1>6 DEF FileTyped, Interrupt
  <2>3. pool' = pool \/ owned[s]
    BY <1>6 DEF Interrupt, cloudVars, IInv, PoolRights
  <2>4. pc'[s] = "stopping" \/ outcome'[s] = "interrupted"
    BY <1>0, <1>6 DEF FileTyped, Interrupt
  <2> QED
    BY <2>1, <2>2, <2>3, <2>4 DEF Balance, Owes
<1> QED
  BY <1>1, <1>2, <1>3, <1>4, <1>5, <1>6 DEF Next, Step

(* Type correctness; among others, whoever owns the pool found it empty    *)
(* and was allowed to change it.                                           *)
THEOREM TypeCorrect == Spec => []TypeOK
<1>1. IInv /\ RestTyped => TypeOK
  BY DEF IInv, Typed, PoolRights, RestTyped, TypeOK
<1> QED
  BY <1>1, InitHolds, Inductive, RestInit, RestInductive, PTL DEF Spec

(* No session that waits to try again, and none that has ended with its    *)
(* cleanup run through, has a port-forward child running, unless a signal  *)
(* came between the return of __enter__ and the assignment of forward.     *)
THEOREM NoOrphan == Spec => []ForwardNeverOrphaned
<1>1. IInv => ForwardNeverOrphaned
  BY DEF IInv, Typed, ForwardPlaces, ForwardNeverOrphaned, ChildGone, Cleanup
<1> QED
  BY <1>1, InitHolds, Inductive, PTL DEF Spec

(* In whatever state a session is killed, its file does not vouch for an   *)
(* endpoint that was found changed, nor keep silent on a pool it raised.   *)
THEOREM FileIsTrustworthy == Spec => []FileCanBeTrusted
<1>1. Init => FileFacts
  BY InitFileFacts
<1>2. FileFacts => FileCanBeTrusted
  BY DEF FileFacts, FileCanBeTrusted
<1> QED
  BY <1>1, <1>2, InitHolds, Inductive, RestInit, RestInductive, FileInductive, PTL DEF Spec

(* However many sessions share a pool and in whatever order they come and  *)
(* go: if all of them end quietly, it is at zero or as they found it, and  *)
(* no file vouches for more than happened.                                 *)
THEOREM QuietEndsAreClean == Spec => []QuietEndIsClean
<1>1. Init => FileFacts
  BY InitFileFacts
<1>2. Init => Ends
  <2> SUFFICES ASSUME Init, NEW s \in Sessions
               PROVE  /\ outcome[s] = "none" /\ file[s].status = "preparing"
                      /\ recheck[s].status = "none"
    BY DEF Ends, Quiet
  <2>1. file[s] = [status |-> "preparing", changed |-> FALSE, recheck |-> "none"]
    BY DEF Init
  <2>2. recheck[s] = [status |-> "none", met |-> FALSE]
    BY DEF Init
  <2> QED
    BY <2>1, <2>2 DEF Init
<1>3. Init => Balance
  BY DEF Init, Balance, Unknown
<1>4. IInv /\ Ends /\ Balance => QuietEndIsClean
  <2> SUFFICES ASSUME IInv, Ends, Balance PROVE QuietEndIsClean
    OBVIOUS
  <2>1. \A s \in Sessions : Quiet(s) => ChildGone(s)
    BY DEF IInv, Typed, ForwardPlaces, Ends, Quiet, ChildGone, Cleanup
  <2>2. ASSUME \A s \in Sessions : Quiet(s), NEW s \in Sessions, original[s] # Unknown
        PROVE  pool = IF \E t \in Sessions : owned[t] THEN 0 ELSE original[s]
    <3>1. \A t \in Sessions : ~Owes(t)
      BY <2>2 DEF Owes, Ends, Quiet
    <3> QED
      BY <2>2, <3>1 DEF Balance
  <2> QED
    BY <2>1, <2>2 DEF Ends, QuietEndIsClean
<1> QED
  BY <1>1, <1>2, <1>3, <1>4, InitHolds, Inductive, RestInit, RestInductive, FileInductive,
     EndsInductive, BalanceInductive, PTL DEF Spec

(* Only three steps can change the pool, and each belongs to its owner. *)
LEMMA OnlyOwnersScale == IInv /\ [Next]_vars =>
    (pool' # pool => \E s \in Sessions : owned[s] /\ allowed[s] /\ original[s] = 0)
<1> SUFFICES ASSUME IInv, Next, pool' # pool
             PROVE  \E s \in Sessions : owned[s] /\ allowed[s] /\ original[s] = 0
  BY DEF vars, cloudVars
<1>1. PICK s \in Sessions : Step(s) \/ DeadlinePasses(s) \/ Interrupt(s)
  BY DEF Next, Terminated, vars, cloudVars
<1>2. pc[s] \in {"scale", "restoring"}
  BY <1>1 DEF Step, Open, Close, ResolveSubscription, CountPool, ScaleUp, StartForward, ProbeFails,
     ProbeSucceeds, AssignForward, Retry, Verify, Body, BodyEnds, Recheck, Compare, StopForward,
     Restore, Recount, WriteEvidence, DeadlinePasses, Interrupt, Goto, cloudVars
<1> QED
  BY <1>2 DEF IInv, PoolRights, Typed

(* However many sessions share the pool, it is scaled only on behalf of    *)
(* one that found it empty and had the permission.                         *)
THEOREM PoolIsRespected == Spec => ScalesOnlyEmptyPool
<1>1. IInv /\ [Next]_vars =>
        [pool' # pool => \E s \in Sessions : owned[s] /\ allowed[s] /\ original[s] = 0]_vars
  BY OnlyOwnersScale
<1> QED
  BY <1>1, InitHolds, Inductive, PTL DEF Spec, ScalesOnlyEmptyPool
=============================================================================
