-------------------------- MODULE PortForwardProofs --------------------------
(***************************************************************************)
(* Theorems of PortForward, for every size of the pipe, the buffer and the *)
(* window, and any amount of noise.                                        *)
(*                                                                         *)
(* The line is followed from the child to the main thread by the type of   *)
(* what is under way: before the child has written its tail, no sequence   *)
(* between the two has one (Flow).                                         *)
(***************************************************************************)
EXTENDS PortForward, TLAPS, SequenceTheorems

Written == IF said = "line" THEN {"noise", "head", "tail"} ELSE {"noise", "head"}

(* What the child has not written yet is nowhere. *)
Flow ==
    /\ pipe \in Seq(Written) /\ chunk \in Seq(Written)
    /\ buffer \in Seq(Written) /\ output \in Seq(Written)
    /\ said \in {"nothing", "head", "line"}

(* The port is looked for until it is found, and stays what it was. *)
Found ==
    /\ pc \in {"create", "discover", "launch", "await", "poll"} =>
          PortIn(output) = "none" /\ error = "none"
    /\ pc \in {"probe", "ready"} => port = "whole" /\ error = "none"
    /\ port \in {"none", "whole"} /\ (port = "whole" => said = "line")

(* A reader that has failed has ended, and a failure is reported only over *)
(* an empty buffer.                                                        *)
Reported ==
    /\ failure => reader = "ended"
    /\ pc \in {"create", "discover", "launch"} => ~failure /\ reader = "none"
    /\ error = "reader" => reader = "ended" /\ buffer = <<>> /\ PortIn(output) = "none"

(* What the cleanup has come past. *)
Stopped ==
    /\ pc = "reap" => child = "exited"
    /\ pc = "killwait" => doomed \/ "KILL" \in deaf \/ child = "exited"
    /\ pc \in {"close", "unlink", "ended"} => (child = "running" => doomed \/ "KILL" \in deaf)
    /\ pc = "ended" => ~kubeconfig
    /\ doomed \in BOOLEAN /\ child \in {"none", "running", "exited"}

IInv == Flow /\ Found /\ Reported /\ Stopped

---------------------------------------------------------------------------
(* The sequences. *)

LEMMA LastOfIsSeq ==
    ASSUME NEW S, NEW s \in Seq(S), NEW n \in Nat \ {0}
    PROVE  /\ LastOf(s, n) \in Seq(S) /\ Len(LastOf(s, n)) <= n
           /\ \E d \in Nat : /\ d + Len(LastOf(s, n)) = Len(s)
                             /\ \A i \in 1..Len(LastOf(s, n)) : LastOf(s, n)[i] = s[i + d]
<1>0. Len(s) \in Nat /\ \A i \in 1..Len(s) : s[i] \in S
  BY LenProperties, ElementOfSeq
<1>1. CASE Len(s) <= n
  <2>1. LastOf(s, n) = s
    BY <1>1 DEF LastOf
  <2>2. 0 + Len(s) = Len(s) /\ \A i \in 1..Len(s) : s[i] = s[i + 0]
    BY <1>0
  <2> QED
    BY <1>1, <2>1, <2>2
<1>2. CASE Len(s) > n
  <2> DEFINE d == Len(s) - n
  <2>1. LastOf(s, n) = SubSeq(s, d + 1, Len(s)) /\ d \in Nat
    BY <1>0, <1>2 DEF LastOf
  <2>2. d + 1 \in Int /\ \A i \in (d + 1)..Len(s) : s[i] \in S
    BY <1>0, <2>1
  <2> HIDE DEF d
  <2>3. /\ SubSeq(s, d + 1, Len(s)) \in Seq(S)
        /\ Len(SubSeq(s, d + 1, Len(s))) = IF d + 1 <= Len(s) THEN Len(s) - (d + 1) + 1 ELSE 0
        /\ \A i \in 1..(Len(s) - (d + 1) + 1) : SubSeq(s, d + 1, Len(s))[i] = s[d + 1 + i - 1]
    BY <1>0, <2>2, SubSeqProperties
  <2>4. Len(s) - (d + 1) + 1 = n /\ d + 1 <= Len(s)
    BY <1>0 DEF d
  <2>5. \A i \in 1..n : LastOf(s, n)[i] = s[i + d]
    <3> SUFFICES ASSUME NEW i \in 1..n PROVE LastOf(s, n)[i] = s[i + d]
      OBVIOUS
    <3>1. d + 1 + i - 1 = i + d
      BY <2>1
    <3> QED
      BY <2>1, <2>3, <2>4, <3>1
  <2>6. d + n = Len(s)
    BY <1>0 DEF d
  <2>7. LastOf(s, n) \in Seq(S) /\ Len(LastOf(s, n)) = n
    BY <2>1, <2>3, <2>4
  <2>8. d \in Nat /\ d + Len(LastOf(s, n)) = Len(s)
        /\ \A i \in 1..Len(LastOf(s, n)) : LastOf(s, n)[i] = s[i + d]
    BY <2>1, <2>5, <2>6, <2>7
  <2> QED
    BY <2>7, <2>8
<1> QED
  BY <1>0, <1>1, <1>2

(* A window of a text without the line is without it. *)
LEMMA WindowFindsNoMore ==
    ASSUME NEW S, NEW s \in Seq(S), NEW n \in Nat \ {0}, PortIn(s) = "none"
    PROVE  PortIn(LastOf(s, n)) = "none"
<1>1. PICK d \in Nat : /\ d + Len(LastOf(s, n)) = Len(s)
                       /\ \A i \in 1..Len(LastOf(s, n)) : LastOf(s, n)[i] = s[i + d]
  BY LastOfIsSeq
<1>2. Len(s) \in Nat /\ Len(LastOf(s, n)) \in Nat
  BY LastOfIsSeq, LenProperties
<1>3. ASSUME NEW i \in 1..(Len(LastOf(s, n)) - 1),
             LastOf(s, n)[i] = "head", LastOf(s, n)[i + 1] = "tail"
      PROVE  FALSE
  <2>1. i + d \in 1..(Len(s) - 1) /\ (i + 1) + d = (i + d) + 1
    BY <1>1, <1>2
  <2>2. s[i + d] = "head" /\ s[(i + d) + 1] = "tail"
    BY <1>1, <1>2, <1>3, <2>1
  <2> QED
    BY <2>1, <2>2 DEF PortIn
<1> QED
  BY <1>3 DEF PortIn

LEMMA NoTextNoPort == PortIn(<<>>) = "none"
BY DEF PortIn

(* The line is found only in a text that has its tail. *)
LEMMA PortNeedsTail ==
    ASSUME NEW text \in Seq({"noise", "head"}) PROVE PortIn(text) = "none"
<1>1. Len(text) \in Nat /\ \A i \in 1..Len(text) : text[i] \in {"noise", "head"}
  BY LenProperties, ElementOfSeq
<1>2. \A i \in 1..(Len(text) - 1) : i + 1 \in 1..Len(text)
  BY <1>1
<1> QED
  BY <1>1, <1>2 DEF PortIn

---------------------------------------------------------------------------
LEMMA InitHolds == Init => IInv
<1> SUFFICES ASSUME Init PROVE IInv
  OBVIOUS
<1>1. <<>> \in Seq(Written)
  BY EmptySeq
<1> QED
  BY <1>1, NoTextNoPort DEF Init, IInv, Flow, Found, Reported, Stopped

(* The child writes a piece, or exits. *)
LEMMA ChildHolds == IInv /\ (Say \/ ChildExits) => IInv'
<1> SUFFICES ASSUME IInv, Say \/ ChildExits PROVE IInv'
  OBVIOUS
<1>1. CASE ChildExits
  BY <1>1 DEF ChildExits, IInv, Flow, Found, Reported, Stopped, Written, mainVars, readerVars
<1>2. CASE Say
  <2>1. UNCHANGED <<pc, mainVars, child, deaf, doomed, readerVars, buffer>>
    BY <1>2 DEF Say, Write
  <2>2. \E piece \in Written' : pipe' = Append(pipe, piece)
    BY <1>2 DEF Say, Write, Written
  <2>3. Written \subseteq Written' /\ said' \in {"nothing", "head", "line"}
        /\ (said = "line" => said' = "line")
    BY <1>2 DEF Say, Written, IInv, Flow
  <2>4. /\ pipe \in Seq(Written') /\ chunk \in Seq(Written')
        /\ buffer \in Seq(Written') /\ output \in Seq(Written')
    BY <2>3, SeqMonotonic DEF IInv, Flow
  <2>5. pipe' \in Seq(Written')
    BY <2>2, <2>4
  <2>6. Flow'
    BY <2>1, <2>3, <2>4, <2>5 DEF Flow, readerVars, mainVars
  <2> QED
    BY <2>1, <2>3, <2>6 DEF IInv, Found, Reported, Stopped, mainVars, readerVars
<1> QED
  BY <1>1, <1>2

(* The reader moves pieces along and adds none. *)
LEMMA DrainHolds == IInv /\ (Drain \/ ReadFails) => IInv'
<1> SUFFICES ASSUME IInv, Drain \/ ReadFails PROVE IInv'
  OBVIOUS
<1>1. UNCHANGED <<pc, mainVars, childVars>>
  BY DEF Drain, Read, Store, EndOfFile, ReadFails
<1>2. Written' = Written
  BY <1>1 DEF Written, childVars
<1>3. CASE Read
  <2>1. PICK n \in 1..Len(pipe) : chunk' = SubSeq(pipe, 1, n) /\ pipe' = SubSeq(pipe, n + 1, Len(pipe))
    BY <1>3 DEF Read
  <2>2. Len(pipe) \in Nat /\ \A i \in 1..Len(pipe) : pipe[i] \in Written
    BY LenProperties, ElementOfSeq DEF IInv, Flow
  <2>3. SubSeq(pipe, 1, n) \in Seq(Written)
    BY <2>2, SubSeqProperties
  <2>4. SubSeq(pipe, n + 1, Len(pipe)) \in Seq(Written)
    <3>1. n + 1 \in Int /\ \A i \in (n + 1)..Len(pipe) : pipe[i] \in Written
      BY <2>2
    <3> QED
      BY <2>2, <3>1, SubSeqProperties
  <2> QED
    BY <1>1, <1>2, <1>3, <2>1, <2>3, <2>4
       DEF Read, IInv, Flow, Found, Reported, Stopped, mainVars, childVars
<1>4. CASE Store
  <2>1. buffer \o chunk \in Seq(Written)
    BY ConcatProperties DEF IInv, Flow
  <2>2. LastOf(buffer \o chunk, BufferSize) \in Seq(Written)
    BY <2>1, LastOfIsSeq, PortForwardAssumption
  <2>3. <<>> \in Seq(Written)
    BY EmptySeq
  <2> QED
    BY <1>1, <1>2, <1>4, <2>2, <2>3
       DEF Store, IInv, Flow, Found, Reported, Stopped, mainVars, childVars
<1>5. CASE EndOfFile
  BY <1>1, <1>2, <1>5 DEF EndOfFile, IInv, Flow, Found, Reported, Stopped, mainVars, childVars
<1>6. CASE ReadFails
  <2>1. <<>> \in Seq(Written)
    BY EmptySeq
  <2>2. pc \notin {"create", "discover", "launch"}
    BY <1>6 DEF ReadFails, IInv, Reported
  <2> QED
    BY <1>1, <1>2, <1>6, <2>1, <2>2
       DEF ReadFails, IInv, Flow, Found, Reported, Stopped, mainVars, childVars
<1> QED
  BY <1>3, <1>4, <1>5, <1>6 DEF Drain

(* __enter__, and the exit from the body. *)
LEMMA EnterHolds == IInv /\ (Enter \/ Exit) => IInv'
<1> SUFFICES ASSUME IInv, Enter \/ Exit PROVE IInv'
  OBVIOUS
<1>1. CASE Create
  BY <1>1 DEF Create, Goto, Quiet, IInv, Flow, Found, Reported, Stopped, Written, childVars, readerVars
<1>2. CASE Discover
  BY <1>2 DEF Discover, Raise, Quiet, IInv, Flow, Found, Reported, Stopped, Written, childVars, readerVars
<1>3. CASE Launch
  BY <1>3 DEF Launch, Goto, Raise, IInv, Flow, Found, Reported, Stopped, Written
<1>4. CASE Take
  <2>1. UNCHANGED <<kubeconfig, childVars, pipe, reader, chunk>> /\ Written' = Written /\ pc = "await"
    BY <1>4 DEF Take, Written, childVars
  <2>2. CASE ReaderFailed
    BY <1>4, <2>1, <2>2 DEF Take, ReaderFailed, Raise, IInv, Flow, Found, Reported, Stopped, childVars
  <2>3. CASE ~ReaderFailed
    <3>1. /\ output' = output \o buffer /\ buffer' = <<>> /\ port' = PortIn(output')
          /\ pc' = (IF port' = "none" THEN "poll" ELSE "probe") /\ UNCHANGED <<error, failure>>
      BY <1>4, <2>3 DEF Take
    <3>2. output' \in Seq(Written) /\ <<>> \in Seq(Written)
      BY <3>1, ConcatProperties, EmptySeq DEF IInv, Flow
    <3>3. port' \in {"none", "whole"}
      BY <3>1 DEF PortIn
    <3>4. port' = "whole" => said = "line"
      BY <3>1, <3>2, PortNeedsTail DEF Written
    <3>5. Flow' /\ Found'
      BY <2>1, <3>1, <3>2, <3>3, <3>4 DEF IInv, Flow, Found, childVars
    <3>6. Reported' /\ Stopped'
      BY <2>1, <3>1 DEF IInv, Found, Reported, Stopped, childVars
    <3> QED
      BY <3>5, <3>6 DEF IInv
  <2> QED
    BY <2>2, <2>3
<1>5. CASE Poll
  <2>1. PortIn(LastOf(output, WindowSize)) = "none" /\ LastOf(output, WindowSize) \in Seq(Written)
    BY <1>5, LastOfIsSeq, WindowFindsNoMore, PortForwardAssumption DEF Poll, IInv, Flow, Found
  <2> QED
    BY <1>5, <2>1 DEF Poll, Raise, Quiet, IInv, Flow, Found, Reported, Stopped, Written, childVars,
       readerVars
<1>6. CASE Probe
  BY <1>6 DEF Probe, Raise, Quiet, IInv, Flow, Found, Reported, Stopped, Written, childVars, readerVars
<1>7. CASE Exit
  BY <1>7 DEF Exit, Goto, Quiet, IInv, Flow, Found, Reported, Stopped, Written, childVars, readerVars,
     mainVars
<1> QED
  BY <1>1, <1>2, <1>3, <1>4, <1>5, <1>6, <1>7 DEF Enter

(* The cleanup: what is left behind is decided here. *)
LEMMA LeaveHolds == IInv /\ Leave => IInv'
<1> SUFFICES ASSUME IInv, Leave PROVE IInv'
  OBVIOUS
<1> USE DEF Goto, Quiet, Signal, IInv, Flow, Found, Reported, Stopped, Written, childVars, readerVars,
            mainVars
<1>1. CASE Stop
  BY <1>1 DEF Stop
<1>2. CASE TermWait
  BY <1>2 DEF TermWait
<1>3. CASE KillWait
  BY <1>3 DEF KillWait
<1>4. CASE Reap
  BY <1>4 DEF Reap
<1>5. CASE Close
  BY <1>5 DEF Close
<1>6. CASE Unlink
  BY <1>6 DEF Unlink
<1> QED
  BY <1>1, <1>2, <1>3, <1>4, <1>5, <1>6 DEF Leave

LEMMA OtherHolds == IInv /\ (DeadlinePasses \/ Interrupt) => IInv'
<1> USE DEF IInv, Flow, Found, Reported, Stopped, Written, childVars, readerVars, mainVars
<1>1. ASSUME IInv, DeadlinePasses PROVE IInv'
  BY <1>1 DEF DeadlinePasses
<1>2. ASSUME IInv, Interrupt PROVE IInv'
  BY <1>2 DEF Interrupt, Raise, Cleanup
<1> QED
  BY <1>1, <1>2

LEMMA Inductive == IInv /\ [Next]_vars => IInv'
<1>1. IInv /\ UNCHANGED vars => IInv'
  BY DEF vars, mainVars, childVars, readerVars, IInv, Flow, Found, Reported, Stopped, Written
<1> QED
  BY <1>1, ChildHolds, DrainHolds, EnterHolds, LeaveHolds, OtherHolds DEF Next, Terminated

---------------------------------------------------------------------------
(* However the output of the child is split, read late or forgotten, the   *)
(* port is never a part of the number.                                     *)
THEOREM PortAlwaysWhole == Spec => []PortIsWhole
<1>1. IInv => PortIsWhole
  BY DEF IInv, Found, PortIsWhole
<1> QED
  BY <1>1, InitHolds, Inductive, PTL DEF Spec

(* A reader that dies hides nothing it had stored. *)
THEOREM NothingEverSkipped == Spec => []NothingReadIsSkipped
<1>1. IInv => NothingReadIsSkipped
  <2> SUFFICES ASSUME IInv, error = "reader" PROVE PortIn(output \o buffer) = "none"
    BY DEF NothingReadIsSkipped
  <2>1. output \o buffer = output
    BY ConcatEmptySeq DEF IInv, Flow, Reported
  <2> QED
    BY <2>1 DEF IInv, Reported
<1> QED
  BY <1>1, InitHolds, Inductive, PTL DEF Spec

(* A cleanup that was not cut short leaves neither kubeconfig nor child,   *)
(* but for one that is dying or cannot be killed.                          *)
THEOREM NothingStaysBehind == Spec => []NothingLeftBehind
<1>1. IInv => NothingLeftBehind
  BY DEF IInv, Stopped, NothingLeftBehind
<1> QED
  BY <1>1, InitHolds, Inductive, PTL DEF Spec
=============================================================================
